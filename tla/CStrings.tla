------------------------------ MODULE CStrings ------------------------------
(***************************************************************************)
(* The characters, the string functions and the conversions of printf()   *)
(* that the code of src/lib relies on.  A string is a TLA+ string of       *)
(* printable characters; its characters are told apart by their codes.     *)
(***************************************************************************)
EXTENDS Integers, Sequences, SequencesExt

\* The printable characters ' ' (32) to '_' (95) and 'a' (97) to '~' (126).
AsciiLow ==
    " !\"#$%&'()*+,-./0123456789:;<=>?@ABCDEFGHIJKLMNOPQRSTUVWXYZ[\\]^_"

AsciiHigh == "abcdefghijklmnopqrstuvwxyz{|}~"

\* The characters in the order of their codes, from 32.  Code 96, the grave
\* accent, cannot be written in a TLA+ string: its place is kept by "".
Printable ==
    [i \in 1..Len(AsciiLow) |-> SubSeq(AsciiLow, i, i)] \o
    <<"">> \o
    [i \in 1..Len(AsciiHigh) |-> SubSeq(AsciiHigh, i, i)]

\* (int)c for a printable character c.
CharCode(c) == 31 + SelectInSeq(Printable, LAMBDA d : d = c)

\* (int)str[i - 1]
CodeAt(str, i) == CharCode(SubSeq(str, i, i))

\* A string as the sequence of its codes, and back.
Codes(str) == [i \in 1..Len(str) |-> CodeAt(str, i)]

Text(codes) == FoldLeft(LAMBDA t, c : t \o Printable[c - 31], "", codes)

\* tolower(c)
LowerCode(c) == IF c \in 65..90 THEN c + 32 ELSE c

\* strncasecmp(a, b, n) == 0
StrNCaseEq(a, b, n) ==
    LET la == IF Len(a) < n THEN Len(a) ELSE n
        lb == IF Len(b) < n THEN Len(b) ELSE n
    IN  /\ la = lb
        /\ \A i \in 1..la : LowerCode(CodeAt(a, i)) = LowerCode(CodeAt(b, i))

\* strcasecmp(a, b) == 0
StrCaseEq(a, b) ==
    /\ Len(a) = Len(b)
    /\ StrNCaseEq(a, b, Len(a))

\* strchr(str, c): the index of the first c in str, from 1; 0 for NULL.
StrChr(str, c) ==
    SelectInSeq([i \in 1..Len(str) |-> SubSeq(str, i, i)], LAMBDA d : d = c)

\* *str == c
StartsWith(str, c) == Len(str) > 0 /\ SubSeq(str, 1, 1) = c

\* The digits of n in a base up to 16, n not negative.
RECURSIVE InBase(_, _)
InBase(n, base) ==
    LET digit == SubSeq("0123456789abcdef", (n % base) + 1, (n % base) + 1)
    IN  IF n < base THEN digit ELSE InBase(n \div base, base) \o digit

\* "%d" of an int that is not negative.
Decimal(n) == InBase(n, 10)

\* "%#x": the "0x" is left out for 0.
HexAlt(n) == IF n = 0 THEN "0" ELSE "0x" \o InBase(n, 16)

\* "%.*s" with a precision: at most that many characters of the string.
Precision(n, str) == SubSeq(str, 1, IF Len(str) < n THEN Len(str) ELSE n)

\* What snprintf() leaves in a buffer of size characters: the text cut to
\* size - 1 characters, and the NUL.
Buffered(size, text) == Precision(size - 1, text)

=============================================================================
