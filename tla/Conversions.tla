----------------------------- MODULE Conversions -----------------------------
(***************************************************************************)
(* The conversions of text between the parts of the system, as functions   *)
(* on sequences of numbers: UTF-16 units of Java and Windows, bytes of C.  *)
(* A C function that returns NULL, or false with nothing in its output,    *)
(* returns NULL here. The bounds of the code that an instance must be able *)
(* to reach are constants.                                                 *)
(***************************************************************************)
EXTENDS Integers, Sequences, SequencesExt

CONSTANTS
    FilenameMax,    \* 255, longest file name in bytes
    LineMax         \* 32767, longest Windows command line with its NUL

ASSUME ConversionsAssumption == FilenameMax \in Nat /\ FilenameMax > 4 /\ LineMax \in Nat

\* No sequence of bytes or units
NULL == <<-1>>

Prefix(s, n) == SubSeq(s, 1, n)
From(s, n) == SubSeq(s, n, Len(s))

\* strlen: a C string ends before its first NUL.
AsCString(s) == IF Contains(s, 0) THEN Prefix(s, CHOOSE n \in 0..(Len(s) - 1) : s[n + 1] = 0 /\ ~Contains(Prefix(s, n), 0)) ELSE s
-----------------------------------------------------------------------------
(* UTF-16 to UTF-8: rymga_loader_jni.c *)

High(u) == u \in \hd800..\hdbff
Low(u) == u \in \hdc00..\hdfff
Surrogate(cp) == High(cp) \/ Low(cp)

\* A byte that continues a character: six bits
Next6(x) == \h80 + (x % 64)

Utf8(cp) ==
    CASE cp \in 0..\h7f       -> <<cp>>
      [] cp \in \h80..\h7ff   -> <<\hc0 + (cp \div 64), Next6(cp)>>
      [] cp \in \h800..\hffff -> <<\he0 + (cp \div 4096), Next6(cp \div 64), Next6(cp)>>
      [] OTHER -> <<\hf0 + (cp \div 262144), Next6(cp \div 4096), Next6(cp \div 64), Next6(cp)>>

\* The code point s starts with, and the units it takes
PairAt(s) == High(s[1]) /\ Len(s) > 1 /\ Low(s[2])
FirstPoint(s) == IF PairAt(s) THEN \h10000 + (s[1] - \hd800) * 1024 + (s[2] - \hdc00) ELSE s[1]
FirstUnits(s) == IF PairAt(s) THEN 2 ELSE 1

RECURSIVE chars_utf8(_)
chars_utf8(s) ==
    IF s = <<>> THEN <<>>
    ELSE LET rest == chars_utf8(From(s, FirstUnits(s) + 1))
         IN  IF Surrogate(FirstPoint(s)) \/ rest = NULL THEN NULL ELSE Utf8(FirstPoint(s)) \o rest
string_utf8(s) == LET b == chars_utf8(s) IN IF b = NULL THEN NULL ELSE AsCString(b)
-----------------------------------------------------------------------------
(* UTF-8 to code points: the loops of text_field and new_utf8 *)

\* How many bytes follow the first one; -1 for none that may come first
Extra(x) ==
    CASE x < \h80 -> 0 [] x \div 32 = 6 -> 1 [] x \div 16 = 14 -> 2 [] x \div 8 = 30 -> 3 [] OTHER -> -1

Malformed(b, extra) ==
    extra = -1 \/ extra > Len(b) - 1 \/ \E i \in 2..(extra + 1) : b[i] \div 64 # 2

Point(b, extra) ==
    FoldLeft(LAMBDA cp, x : cp * 64 + (x % 64),
             IF extra = 0 THEN b[1] ELSE b[1] % 2 ^ (6 - extra), SubSeq(b, 2, extra + 1))

\* Mutant: an encoding need not be the shortest.
RejectedLong(cp, extra) == cp > \h10ffff \/ Surrogate(cp)

Rejected(cp, extra) ==
    \/ extra = 1 /\ cp < \h80
    \/ extra = 2 /\ cp < \h800
    \/ extra = 3 /\ cp < \h10000
    \/ cp > \h10ffff
    \/ Surrogate(cp)

RECURSIVE Points(_)
Points(b) ==
    IF b = <<>> THEN <<>>
    ELSE LET extra == Extra(b[1])
             rest == Points(From(b, extra + 2))
         IN  IF Malformed(b, extra) \/ Rejected(Point(b, extra), extra) \/ rest = NULL THEN NULL
             ELSE <<Point(b, extra)>> \o rest

Control(cp) == cp < \h20 \/ cp \in \h7f..\h9f

text_field(b) == Points(b) \notin {NULL, <<>>} /\ \A i \in DOMAIN Points(b) : ~Control(Points(b)[i])

Utf16(cp) ==
    IF cp <= \hffff THEN <<cp>>
    ELSE <<\hd800 + ((cp - \h10000) \div 1024), \hdc00 + ((cp - \h10000) % 1024)>>

\* Mutant: every code point is taken for one unit.
new_utf8Units(b) == IF Points(b) = NULL THEN NULL ELSE [i \in DOMAIN Points(b) |-> Points(b)[i] % \h10000]

new_utf8(b) == IF Points(b) = NULL THEN NULL ELSE FlattenSeq([i \in DOMAIN Points(b) |-> Utf16(Points(b)[i])])
-----------------------------------------------------------------------------
(* The strict decoder of the JDK that Wire.Reader.string uses: the table of *)
(* well-formed byte sequences of the Unicode standard                       *)

WellFormed(b) ==
    LET tail(first, n) == Len(b) = n /\ b[2] \in first /\ \A i \in 3..n : b[i] \in \h80..\hbf
    IN  \/ Len(b) = 1 /\ b[1] < \h80
        \/ b[1] \in \hc2..\hdf /\ tail(\h80..\hbf, 2)
        \/ b[1] = \he0 /\ tail(\ha0..\hbf, 3)
        \/ b[1] \in (\he1..\hef) \ {\hed} /\ tail(\h80..\hbf, 3)
        \/ b[1] = \hed /\ tail(\h80..\h9f, 3)
        \/ b[1] = \hf0 /\ tail(\h90..\hbf, 4)
        \/ b[1] \in \hf1..\hf3 /\ tail(\h80..\hbf, 4)
        \/ b[1] = \hf4 /\ tail(\h80..\h8f, 4)

\* The scalar value of a well-formed sequence
Scalar(b) ==
    CASE Len(b) = 1 -> b[1]
      [] Len(b) = 2 -> (b[1] - \hc0) * 64 + (b[2] - \h80)
      [] Len(b) = 3 -> (b[1] - \he0) * 4096 + (b[2] - \h80) * 64 + (b[3] - \h80)
      [] Len(b) = 4 -> (b[1] - \hf0) * 262144 + (b[2] - \h80) * 4096 + (b[3] - \h80) * 64 + (b[4] - \h80)

RECURSIVE JavaDecode(_)
JavaDecode(b) ==
    IF b = <<>> THEN <<>>
    ELSE LET lengths == {n \in 1..4 : n <= Len(b) /\ WellFormed(Prefix(b, n))}
             n == CHOOSE n \in lengths : TRUE
             rest == JavaDecode(From(b, n + 1))
         IN  IF lengths = {} THEN NULL ELSE IF rest = NULL THEN NULL ELSE Utf16(Scalar(Prefix(b, n))) \o rest

\* requireString of what was decoded: UTF-16 units, none of them a control character
requireString(s) == s \notin {NULL, <<>>} /\ \A i \in DOMAIN s : ~Control(s[i])
-----------------------------------------------------------------------------
(* File names of artifacts *)

Dot == 46
Slash == 47
Backslash == 92
Quote == 34
Space == 32

Upper(c) == IF c \in 97..122 THEN c - 32 ELSE c
UpperSeq(s) == [i \in DOMAIN s |-> Upper(s[i])]

\* <>:"/\|?*
Forbidden == {60, 62, 58, Quote, Slash, Backslash, 124, 63, 42}
Devices == {<<67, 79, 78>>, <<80, 82, 78>>, <<65, 85, 88>>, <<78, 85, 76>>}     \* CON PRN AUX NUL
Ports == {<<67, 79, 77>>, <<76, 80, 84>>}                                       \* COM LPT
JAR == <<Dot, 74, 65, 82>>

\* What comes before the first dot
Stem(s) == Prefix(s, CHOOSE n \in 0..Len(s) : (n = Len(s) \/ s[n + 1] = Dot) /\ ~Contains(Prefix(s, n), Dot))

PortDigits == 49..57

filename_ok(s) ==
    LET upper == UpperSeq(Stem(s))
    IN  /\ Len(s) > 4 /\ Len(s) <= FilenameMax
        /\ Stem(s) # <<>>
        /\ \A i \in DOMAIN s : s[i] \notin Forbidden
        /\ upper \notin Devices
        /\ ~(Len(upper) = 4 /\ Prefix(upper, 3) \in Ports /\ upper[4] \in PortDigits)
        /\ s[Len(s)] \notin {Dot, Space}
        /\ UpperSeq(From(s, Len(s) - 3)) = JAR

requireFilename(s) ==
    LET base == UpperSeq(Stem(s))
    IN  /\ requireString(s) /\ Len(s) <= FilenameMax
        /\ s[1] # Dot
        /\ base \notin Devices /\ (Len(base) = 4 /\ Prefix(base, 3) \in Ports => base[4] \notin 49..57)
        /\ \A i \in DOMAIN s : s[i] \notin Forbidden
        /\ s[Len(s)] \notin {Dot, Space} /\ IsSuffix(JAR, UpperSeq(s))
-----------------------------------------------------------------------------
(* The file name in the record of a plugin copy, in hexadecimal *)

HexDigit(n) == IF n < 10 THEN 48 + n ELSE 87 + n
hex_encode(b) == FlattenSeq([i \in DOMAIN b |-> <<HexDigit(b[i] \div 16), HexDigit(b[i] % 16)>>])

hex_digit(c) == CASE c \in 48..57 -> c - 48 [] c \in 97..102 -> c - 87 [] OTHER -> -1

HexMax == 2 * FilenameMax

\* Bytes, which output then holds as a C string
hex_decode(h) ==
    IF h = <<>> \/ Len(h) > HexMax \/ Len(h) % 2 # 0 \/ \E i \in DOMAIN h : hex_digit(h[i]) = -1 THEN NULL
    ELSE [i \in 1..(Len(h) \div 2) |-> hex_digit(h[2 * i - 1]) * 16 + hex_digit(h[2 * i])]

jar_name(s) ==
    Len(s) > 4 /\ ~Contains(s, Slash) /\ ~Contains(s, Backslash) /\ UpperSeq(From(s, Len(s) - 3)) = JAR

\* The file name that parse_plugin_marker finds where create_plugin_marker put s
Recorded(s) ==
    LET name == hex_decode(hex_encode(s)) IN IF name = NULL \/ ~jar_name(AsCString(name)) THEN NULL ELSE AsCString(name)
-----------------------------------------------------------------------------
(* The command line of a process on Windows: rymga_loader_windows.c *)

Slashes(n) == [i \in 1..n |-> Backslash]

\* Mutant: the slashes before the closing quote are not doubled.
ClosingSingle(slashes) == Slashes(slashes)

\* Before the closing quote
Closing(slashes) == Slashes(2 * slashes)

append_quoted(line, arg) ==
    LET step(st, c) ==
            CASE c = Backslash -> [st EXCEPT !.slashes = @ + 1]
              [] c = Quote -> [out |-> st.out \o Slashes(2 * st.slashes + 1) \o <<Quote>>, slashes |-> 0]
              [] OTHER -> [out |-> st.out \o Slashes(st.slashes) \o <<c>>, slashes |-> 0]
        start == IF line = <<>> THEN <<Quote>> ELSE line \o <<Space, Quote>>
        end == FoldLeft(step, [out |-> start, slashes |-> 0], arg)
    IN  end.out \o Closing(end.slashes) \o <<Quote>>

\* reserve refuses what would make the line, with the NUL behind it, too long.
command_line(args) ==
    LET line == FoldLeft(append_quoted, <<>>, args) IN IF Len(line) + 1 > LineMax THEN NULL ELSE line

\* How the C runtime of the new process splits its command line: a run of n slashes
\* before a quote stands for n / 2 of them, and the quote for itself if n is odd.
RECURSIVE Split(_, _, _, _)
Split(s, quoted, begun, arg) ==
    LET n == CHOOSE k \in 0..Len(s) : Prefix(s, k) = Slashes(k) /\ (k = Len(s) \/ s[k + 1] # Backslash)
        done == IF begun THEN <<arg>> ELSE <<>>
    IN  CASE s = <<>> -> done
          [] n > 0 /\ n < Len(s) /\ s[n + 1] = Quote ->
               IF n % 2 = 1 THEN Split(From(s, n + 2), quoted, TRUE, arg \o Slashes(n \div 2) \o <<Quote>>)
               ELSE Split(From(s, n + 2), ~quoted, TRUE, arg \o Slashes(n \div 2))
          [] n > 0 /\ (n = Len(s) \/ s[n + 1] # Quote) -> Split(From(s, n + 1), quoted, TRUE, arg \o Slashes(n))
          [] n = 0 /\ s[1] = Quote ->
               IF quoted /\ Len(s) > 1 /\ s[2] = Quote THEN Split(From(s, 3), quoted, TRUE, Append(arg, Quote))
               ELSE Split(From(s, 2), ~quoted, TRUE, arg)
          [] n = 0 /\ s[1] = Space /\ ~quoted -> done \o Split(From(s, 2), FALSE, FALSE, <<>>)
          [] OTHER -> Split(From(s, 2), quoted, TRUE, Append(arg, s[1]))

Argv(line) == Split(line, FALSE, FALSE, <<>>)
=============================================================================
