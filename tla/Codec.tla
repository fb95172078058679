-------------------------------- MODULE Codec --------------------------------
(***************************************************************************)
(* The two messages of the protocol and the code on both ends: the request *)
(* that encode_request of rymga_loader.c writes and SessionRequestCodec    *)
(* reads, the manifest that SessionManifestCodec writes and both it and    *)
(* parse_manifest of rymga_loader.c read.                                  *)
(*                                                                         *)
(* A byte is a digit of a small base, with the base's even half below the  *)
(* sign of an i64 of two digits; a u16 has two digits as well. Byte 0      *)
(* stands for the bytes no text may hold, 1 for text that is no            *)
(* identifier, the others for identifier characters; a file name ends in   *)
(* the last of them.                                                       *)
(*                                                                         *)
(* Real bytes, units and characters travel in three more forms, by the     *)
(* conversions of module Conversions: a Java string that the JNI bridge    *)
(* makes a C string of, the file name of an artifact, and the arguments    *)
(* that the Windows launcher gives to the host.                            *)
(***************************************************************************)
EXTENDS Conversions

CONSTANTS
    Base,           \* 256
    IdMax,          \* longest identifier
    NameMax,        \* longest file name, or license
    ArtifactMax,    \* MAX_ARTIFACT_BYTES, ARTIFACT_MAX
    Manifests, Requests,    \* candidates for the messages
    Texts, TextBytes,       \* Java strings, bytes that a text may be altered with
    Names, NameChars,       \* file names, characters they may be altered with
    Arguments               \* argument lists of a host

ASSUME CodecAssumption ==
    /\ Base \in Nat /\ Base > 3 /\ Base % 2 = 0
    /\ IdMax \in 1..NameMax /\ NameMax < Base * Base
    /\ ArtifactMax \in Nat

Byte == 0..(Base - 1)
Word == Base * Base
Half == Word \div 2

\* A field of a message: what it holds, and its length or longest length.
Field(kind, size) == [kind |-> kind, size |-> size]

Magic == <<1>>
Version == <<0, 1>>

\* encode_request writes the fields in this order, SessionRequestCodec.decode reads them.
Request == <<Field("i64", 2), Field("bytes", 1), Field("id", IdMax), Field("id", IdMax),
             Field("text", IdMax), Field("text", IdMax), Field("text", NameMax)>>

\* SessionManifestCodec: key id, nonce, session id, issued and expires at, product,
\* channel and artifact id, file name, size, digest, signature.
Manifest == <<Field("id", IdMax), Field("bytes", 1), Field("bytes", 1), Field("i64", 2), Field("i64", 2),
              Field("id", IdMax), Field("id", IdMax), Field("id", IdMax), Field("name", NameMax),
              Field("i64", 2), Field("bytes", 1), Field("bytes", 1)>>
-----------------------------------------------------------------------------
(* Fields *)

U16(n) == <<n \div Base, n % Base>>
FromU16(b) == b[1] * Base + b[2]

\* Two's complement
I64(n) == U16(n % Word)
FromI64(b) == LET x == FromU16(b) IN IF x < Half THEN x ELSE x - Word

\* requireString and text_field: no control characters
Text(s) == Len(s) > 0 /\ \A i \in DOMAIN s : s[i] # 0

\* requireIdentifier and identifier
Identifier(s) == Len(s) > 0 /\ \A i \in DOMAIN s : s[i] > 1

\* requireFilename and filename_ok: a stem and the extension
Filename(s) == Text(s) /\ Len(s) > 1 /\ s[Len(s)] = Base - 1

\* What the constructors of SessionRequest and SessionManifest ask of a field.
Holds(f, v) ==
    CASE f.kind = "id"   -> Identifier(v) /\ Len(v) <= f.size
      [] f.kind = "text" -> Text(v) /\ Len(v) <= f.size
      [] f.kind = "name" -> Filename(v) /\ Len(v) <= f.size
      [] f.kind = "bytes" -> Len(v) = f.size
      [] f.kind = "i64"  -> v \in (-Half)..(Half - 1)

ValidManifest(m) ==
    /\ \A i \in DOMAIN Manifest : Holds(Manifest[i], m[i])
    /\ m[4] >= 0 /\ m[5] > m[4] /\ m[10] >= 0 /\ m[10] <= ArtifactMax

ValidRequest(q) == (\A i \in DOMAIN Request : Holds(Request[i], q[i])) /\ q[1] >= 0

\* rymga_loader_acquire checks its arguments; of the license only the length.
ClientAccepts(q) ==
    /\ \A i \in 1..6 : Holds(Request[i], q[i])
    /\ q[1] >= 0 /\ Len(q[7]) \in 1..NameMax
-----------------------------------------------------------------------------
(* Wire.Writer, the b_ functions of the loader, and the encoders *)

Put(f, v) ==
    CASE f.kind \in {"id", "text", "name"} -> U16(Len(v)) \o v
      [] f.kind = "bytes" -> v
      [] f.kind = "i64" -> I64(v)

Encode(layout, m) == Magic \o Version \o FlattenSeq([i \in DOMAIN m |-> Put(layout[i], m[i])])

\* encodeUnsigned: everything but the signature
EncodeUnsigned(m) == Encode(Manifest, SubSeq(m, 1, 11))

\* Mutant: product and channel change places.
EncodeManifestSwapped(m) ==
    Encode(Manifest, [i \in DOMAIN m |-> CASE i = 6 -> m[7] [] i = 7 -> m[6] [] OTHER -> m[i]])

EncodeManifest(m) == EncodeUnsigned(m) \o m[12]
-----------------------------------------------------------------------------
(* A reader is the bytes it has left and the fields it has read; a failed one stays *)
(* failed.                                                                          *)

Reader(b) == [ok |-> TRUE, rest |-> b, fields |-> <<>>]
Failed == [ok |-> FALSE, rest |-> <<>>, fields |-> <<>>]

\* ensureRemaining, r_take
Has(r, n) == r.ok /\ n <= Len(r.rest)
Took(r, n, v) == [ok |-> TRUE, rest |-> SubSeq(r.rest, n + 1, Len(r.rest)), fields |-> Append(r.fields, v)]

Expect(r, b) ==
    IF Has(r, Len(b)) /\ SubSeq(r.rest, 1, Len(b)) = b
      THEN [r EXCEPT !.rest = SubSeq(@, Len(b) + 1, Len(@))] ELSE Failed

\* Wire.Reader.string
JavaString(r, max) ==
    IF ~Has(r, 2) THEN Failed
    ELSE LET n == FromU16(r.rest)
         IN  IF n = 0 \/ n > max \/ ~Has(r, 2 + n) THEN Failed
             ELSE Took(r, 2 + n, SubSeq(r.rest, 3, 2 + n))

\* Wire.Reader, one field
JavaRead(r, f) ==
    CASE f.kind \in {"id", "text", "name"} -> JavaString(r, f.size)
      [] f.kind = "bytes" -> IF Has(r, f.size) THEN Took(r, f.size, SubSeq(r.rest, 1, f.size)) ELSE Failed
      [] f.kind = "i64" -> IF Has(r, 2) THEN Took(r, 2, FromI64(r.rest)) ELSE Failed

\* Mutant: the end of the message is not checked.
JavaFieldsOpen(layout, b) == FoldLeft(JavaRead, Expect(Expect(Reader(b), Magic), Version), layout)

\* The decoders: magic, version, the fields, and nothing after them.
JavaFields(layout, b) ==
    LET r == FoldLeft(JavaRead, Expect(Expect(Reader(b), Magic), Version), layout)
    IN  IF r.rest = <<>> THEN r ELSE Failed

JavaManifest(b) == LET r == JavaFields(Manifest, b) IN IF r.ok /\ ValidManifest(r.fields) THEN r ELSE Failed
JavaRequest(b) == LET r == JavaFields(Request, b) IN IF r.ok /\ ValidRequest(r.fields) THEN r ELSE Failed

\* r_string into an array of cap bytes
CString(r, cap) ==
    IF ~Has(r, 2) THEN Failed
    ELSE LET n == FromU16(r.rest)
         IN  IF n = 0 \/ n >= cap \/ ~Has(r, 2 + n) \/ ~Text(SubSeq(r.rest, 3, 2 + n)) THEN Failed
             ELSE Took(r, 2 + n, SubSeq(r.rest, 3, 2 + n))

\* parse_manifest checks each field as it reads it.
CRead(r, f) ==
    LET t == CASE f.kind \in {"id", "text", "name"} -> CString(r, f.size + 1)
               [] f.kind = "bytes" -> IF Has(r, f.size) THEN Took(r, f.size, SubSeq(r.rest, 1, f.size)) ELSE Failed
               [] f.kind = "i64" -> IF Has(r, 2) THEN Took(r, 2, FromI64(r.rest)) ELSE Failed
    IN  IF t.ok /\ Holds(f, t.fields[Len(t.fields)]) THEN t ELSE Failed

\* parse_manifest
CManifest(b) ==
    LET r == FoldLeft(CRead, Expect(Expect(Reader(b), Magic), Version), Manifest)
        m == r.fields
    IN  IF r.ok /\ r.rest = <<>> /\ m[4] >= 0 /\ m[5] > m[4] /\ m[10] >= 0 /\ m[10] <= ArtifactMax
          THEN r ELSE Failed

\* signed_length: what crypto_sign_verify_detached gets
CSigned(b) == SubSeq(b, 1, Len(b) - 1)
-----------------------------------------------------------------------------
(* A message on its way *)

VARIABLES
    form,       \* "manifest", "request", "text", "name" or "arguments"
    msg,        \* what was encoded: the fields, the units, the characters, the arguments
    wire,       \* the bytes
    altered,    \* the bytes are no longer what was encoded
    read,       \* the other end has read them
    java, c     \* what it read

vars == <<form, msg, wire, altered, read, java, c>>

Init ==
    /\ \/ /\ form = "manifest" /\ msg \in {m \in Manifests : ValidManifest(m)}
          /\ wire = EncodeManifest(msg)
       \/ /\ form = "request" /\ msg \in {q \in Requests : ClientAccepts(q)}
          /\ wire = Encode(Request, msg)
       \/ form = "text" /\ msg \in Texts /\ wire = string_utf8(msg)
       \/ form = "name" /\ msg \in Names /\ wire = msg
       \/ form = "arguments" /\ msg \in Arguments /\ wire = command_line(msg)
    /\ altered = FALSE /\ read = FALSE /\ java = Failed /\ c = Failed

\* What is put in place of a byte
Alphabet == CASE form \in {"manifest", "request"} -> Byte
              [] form = "text" -> TextBytes
              [] form = "name" -> NameChars
              [] OTHER -> {}

\* The bytes that differ from b in one place, or break off.
Near(b) ==
    {[b EXCEPT ![i] = x] : i \in DOMAIN b, x \in Alphabet}
        \cup {SubSeq(b, 1, i) : i \in 0..Len(b)}
        \cup {RemoveAt(b, i) : i \in DOMAIN b}
        \cup {InsertAt(b, i, x) : i \in 1..(Len(b) + 1), x \in Alphabet}

Alter ==
    /\ ~read /\ ~altered /\ wire # NULL /\ form # "arguments"
    /\ altered' = TRUE /\ wire' \in Near(wire) \ {wire}
    /\ UNCHANGED <<form, msg, read, java, c>>

ReadManifest ==
    /\ form = "manifest" /\ ~read /\ read' = TRUE
    /\ java' = JavaManifest(wire) /\ c' = CManifest(wire)
    /\ UNCHANGED <<form, msg, wire, altered>>

ReadRequest ==
    /\ form = "request" /\ ~read /\ read' = TRUE
    /\ java' = JavaRequest(wire)
    /\ UNCHANGED <<form, msg, wire, altered, c>>

\* A reader that has read one value, and found it good or not
Value(ok, v) == [ok |-> ok, rest |-> <<>>, fields |-> <<v>>]

\* r_string checks with text_field what Wire.Reader.string decodes and requireString
\* checks; path0 makes a Java string of it with new_utf8.
ReadText ==
    /\ form = "text" /\ ~read /\ read' = TRUE /\ wire # NULL
    /\ java' = Value(requireString(JavaDecode(wire)), JavaDecode(wire))
    /\ c' = Value(text_field(wire), new_utf8(wire))
    /\ UNCHANGED <<form, msg, wire, altered>>

\* parse_manifest checks the name; the record of a plugin copy then holds it.
ReadName ==
    /\ form = "name" /\ ~read /\ read' = TRUE
    /\ java' = Value(requireFilename(wire), wire)
    /\ c' = Value(text_field(wire) /\ filename_ok(wire), Recorded(wire))
    /\ UNCHANGED <<form, msg, wire, altered>>

\* CreateProcessW starts the host only with a command line.
ReadArguments ==
    /\ form = "arguments" /\ ~read /\ read' = TRUE /\ wire # NULL
    /\ c' = Value(TRUE, Argv(wire))
    /\ UNCHANGED <<form, msg, wire, altered, java>>

\* There is nothing to read, or it has been read.
Stop == (read \/ wire = NULL) /\ UNCHANGED vars

Next == Alter \/ ReadManifest \/ ReadRequest \/ ReadText \/ ReadName \/ ReadArguments \/ Stop

Spec == Init /\ [][Next]_vars
-----------------------------------------------------------------------------
(* Properties *)

\* The two implementations of the protocol accept the same bytes as manifests, as texts
\* and as file names, and take them for the same, also bytes neither of them wrote: both
\* refuse overlong forms, surrogates, values past U+10FFFF, sequences that break off,
\* control characters, and names that Windows reserves. What parse_manifest accepts as a
\* name, also the longest, is read back from the record materialize_plugin makes of it.
ReadersAgree ==
    form \in {"manifest", "text", "name"} /\ read =>
        java.ok = c.ok /\ (c.ok => java.fields = c.fields)

\* The gateway checks the signature of a manifest over its own encoding of what it
\* decoded, the loader over the bytes it received. The decoders accept canonical
\* encodings only, so that these are the same bytes.
SignedBytesAgree ==
    form = "manifest" /\ java.ok => /\ EncodeManifest(java.fields) = wire
                                    /\ EncodeUnsigned(java.fields) = CSigned(wire)

\* Both ends understand each other. What SessionManifestCodec.encode writes, parse_manifest
\* reads field by field, over every length and every boundary of the i64 fields. A request
\* that rymga_loader_acquire finds no fault with is read by the gateway as it was meant,
\* except that the loader does not look into the license, and the gateway refuses one
\* with control characters.
MessagesUnderstood ==
    read /\ ~altered =>
        /\ form = "manifest" => c.ok /\ c.fields = msg
        /\ form = "request" => IF Text(msg[7]) THEN java.ok /\ java.fields = msg ELSE ~java.ok

\* A surrogate without the other half of its pair
Lone(s) ==
    \E i \in DOMAIN s :
        \/ High(s[i]) /\ ~(i < Len(s) /\ Low(s[i + 1]))
        \/ Low(s[i]) /\ ~(i > 1 /\ High(s[i - 1]))

\* The JNI bridge makes a C string of every Java string that is well-formed UTF-16, up
\* to its first NUL, in the three bytes per unit it allocates, and path0 makes the same
\* units of it again; a string with a lone surrogate it refuses.
TextRoundTrip ==
    form = "text" /\ ~altered =>
        IF Lone(msg) THEN wire = NULL
        ELSE wire # NULL /\ Len(wire) <= 3 * Len(msg) /\ (read => c.fields = <<AsCString(msg)>>)

\* A host on Windows gets the arguments that the launcher was given for it, whatever
\* quotes, slashes and blanks are in them.
ArgumentsKept == form = "arguments" /\ read => c.fields = <<msg>>
=============================================================================
