------------------------------ MODULE MCCodec ------------------------------
EXTENDS Codec

\* A plain message, and every message that differs from it in one field.
Around(layout, base, values(_)) ==
    {base} \cup UNION {{[base EXCEPT ![i] = v] : v \in values(layout[i])} : i \in DOMAIN layout}

Strings == UNION {[1..n -> Byte] : n \in 0..(NameMax + 1)}

Values(f) ==
    CASE f.kind = "i64" -> (-Half)..(Half - 1)
      [] f.kind = "bytes" -> {<<x>> : x \in Byte}
      [] OTHER -> Strings

MCManifests ==
    Around(Manifest, <<<<2>>, <<0>>, <<1>>, 1, 2, <<3>>, <<2, 3>>, <<2>>, <<2, 3>>, 0, <<2>>, <<3>>>>, Values)

MCRequests == Around(Request, <<1, <<0>>, <<3>>, <<2>>, <<1>>, <<2>>, <<3>>>>, Values)

\* The ends of the ranges that the encodings tell apart, and every string of two of
\* them, or of a pair and one more.
Units == {0, \h1f, \h41, \h7f, \h9f, \ha0, \h7ff, \h800, \hd7ff, \hd800, \hdbff, \hdc00, \hdfff, \he000, \hffff}
MCTexts ==
    {<<>>} \cup [1..1 -> Units] \cup [1..2 -> Units]
        \cup {<<\hdbff, \hdfff, u>> : u \in Units} \cup {<<u, \hd800, \hdc00>> : u \in Units}
MCTextBytes ==
    {\h1f, \h41, \h7f, \h80, \h8f, \h90, \h9f, \ha0, \hbf, \hc0, \hc1, \hc2, \hdf, \he0, \he1, \hed, \hee, \hef,
     \hf0, \hf1, \hf3, \hf4, \hf5, \hf7, \hf8, \hff}

\* a.jar, com1.jar, LPT9.JAR, con.jar, n.u.jAr and the extension alone
MCNames ==
    {<<97, 46, 106, 97, 114>>, <<99, 111, 109, 49, 46, 106, 97, 114>>, <<76, 80, 84, 57, 46, 74, 65, 82>>,
     <<99, 111, 110, 46, 106, 97, 114>>, <<110, 46, 117, 46, 106, 65, 114>>, <<46, 106, 97, 114>>}
\* . space / \ : c O 0 1 9 j A r 0x1f
MCNameChars == {46, 32, 47, 92, 58, 99, 79, 48, 49, 57, 106, 65, 114, 31}

\* The name of a program, and arguments of the characters that quoting is about
Words(n) == UNION {[1..k -> {Backslash, Quote, Space, 97}] : k \in 0..n}
MCArguments ==
    {<<<<97>>, x>> : x \in Words(4)} \cup {<<<<97>>, x, y>> : x \in Words(2), y \in Words(2)}
=============================================================================
