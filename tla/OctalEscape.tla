---------------------------- MODULE OctalEscape ----------------------------
(***************************************************************************)
(* convert_octal_escaped() of src/lib/dialects/linux/dmnt.c: the copy of a *)
(* field of /proc/mounts in which every "\NNN" of three octal digits is    *)
(* replaced by the character of that value.                                *)
(*                                                                         *)
(* A string is the sequence of its character codes, without the NUL that   *)
(* ends it.  Each action is one step of the function: the two early        *)
(* returns, the allocation, one round of the copy loop, the termination.   *)
(* The result is compared with Unescaped, a definition by recursion on the *)
(* string that has no indices.                                             *)
(***************************************************************************)
EXTENDS Integers, Sequences, SequencesExt

CONSTANTS
    Strings,        \* the values of orig_str considered
    AllocMayFail,   \* TRUE when malloc() and realloc() may return NULL
    NULL

ASSUME AllocMayFail \in BOOLEAN
ASSUME \A s \in Strings : s \in Seq(1..255)

VARIABLES
    orig_str,       \* the argument
    pc,             \* "call", "loop" or "done"
    orig_idx,       \* index of the next character to read, from 0
    cvt_idx,        \* index of the next character to write, from 0
    cvt_len,        \* characters the copy has room for, the NUL not counted
    cvt_str,        \* the characters written so far
    octret          \* the value returned: NULL or a string as C reads it

octVars == <<orig_str, pc, orig_idx, cvt_idx, cvt_len, cvt_str, octret>>

Backslash == 92
Digit0 == 48
Digit7 == 55

-----------------------------------------------------------------------------
(* The string functions of C *)

\* A buffer as C reads it: the characters before the first NUL.
CString(buf) ==
    LET nul == SelectInSeq(buf, LAMBDA c : c = 0)
    IN  IF nul = 0 THEN buf ELSE SubSeq(buf, 1, nul - 1)

\* orig_str[i] for an index i from 0; the terminating NUL at strlen.
CharAt(str, i) == IF i < Len(str) THEN str[i + 1] ELSE 0

IsOctal(c) == c \in Digit0..Digit7

-----------------------------------------------------------------------------
(* The copy loop *)

\* The inner loop: temp_idx when it ends.  It stops at the first of the
\* three characters after the escape that is a NUL or no octal digit.
DigitsAt(str, idx) ==
    LET stop == SelectInSeq([k \in 1..3 |-> CharAt(str, idx + k)],
                            LAMBDA c : ~IsOctal(c))
    IN  IF stop = 0 THEN 4 ELSE stop

\* temp_ch after three rounds of "temp_ch <<= 3; temp_ch += digit".
OctalValue(str, idx) ==
    FoldLeft(LAMBDA v, k : v * 8 + (CharAt(str, idx + k) - Digit0), 0,
             <<1, 2, 3>>)

\* Mutant: the value is used as it was assembled, without "& 0xff".
EscapedCharUnmasked(str, idx) == OctalValue(str, idx)

\* cur_ch = (temp_ch & 0xff), and the (char) of the assignment.
EscapedChar(str, idx) == OctalValue(str, idx) % 256

\* Mutant: an escape whose last digit ends the string is not converted.
IsEscapeShort(str, idx) ==
    /\ CharAt(str, idx) = Backslash
    /\ idx + 4 < Len(str)
    /\ DigitsAt(str, idx) = 4

\* The escape at idx is converted: a backslash, three more characters in
\* the string, all of them octal digits.
IsEscape(str, idx) ==
    /\ CharAt(str, idx) = Backslash
    /\ idx + 3 < Len(str)
    /\ DigitsAt(str, idx) = 4

-----------------------------------------------------------------------------
(* convert_octal_escaped() *)

OctInit ==
    /\ orig_str \in Strings
    /\ pc = "call"
    /\ orig_idx = 0
    /\ cvt_idx = 0
    /\ cvt_len = 0
    /\ cvt_str = <<>>
    /\ octret = NULL

\* An empty string has no copy.
ReturnEmpty ==
    /\ pc = "call"
    /\ Len(orig_str) = 0
    /\ pc' = "done"
    /\ octret' = NULL
    /\ UNCHANGED <<orig_str, orig_idx, cvt_idx, cvt_len, cvt_str>>

AllocFails ==
    /\ pc = "call"
    /\ Len(orig_str) # 0
    /\ AllocMayFail
    /\ pc' = "done"
    /\ octret' = NULL
    /\ UNCHANGED <<orig_str, orig_idx, cvt_idx, cvt_len, cvt_str>>

\* Mutant: room for one character less than the string has.
AllocatedShort == Len(orig_str) - 1

\* cvt_len after malloc(orig_len + 1).
Allocated == Len(orig_str)

Alloc ==
    /\ pc = "call"
    /\ Len(orig_str) # 0
    /\ pc' = "loop"
    /\ cvt_len' = Allocated
    /\ UNCHANGED <<orig_str, orig_idx, cvt_idx, cvt_str, octret>>

\* One round of the copy loop: an escape is read as one character and
\* orig_idx moves past its digits; the copy is expanded by 64 characters
\* when it is full; the character is written.
CopyChar ==
    /\ pc = "loop"
    /\ orig_idx < Len(orig_str)
    /\ LET esc    == IsEscape(orig_str, orig_idx)
           cur_ch == IF esc THEN EscapedChar(orig_str, orig_idx)
                     ELSE CharAt(orig_str, orig_idx)
       IN  /\ orig_idx' = orig_idx + (IF esc THEN 4 ELSE 1)
           /\ cvt_len' = IF cvt_idx >= cvt_len THEN cvt_len + 64 ELSE cvt_len
           /\ cvt_str' = Append(cvt_str, cur_ch)
           /\ cvt_idx' = cvt_idx + 1
    /\ UNCHANGED <<orig_str, pc, octret>>

\* Mutant: the loop is left only once the index has passed the length.
TerminatePastEnd ==
    /\ pc = "loop"
    /\ orig_idx > Len(orig_str)
    /\ pc' = "done"
    /\ octret' = CString(cvt_str)
    /\ UNCHANGED <<orig_str, orig_idx, cvt_idx, cvt_len, cvt_str>>

\* The end of the string: the copy is terminated and returned.
Terminate ==
    /\ pc = "loop"
    /\ orig_idx >= Len(orig_str)
    /\ pc' = "done"
    /\ octret' = CString(cvt_str)
    /\ UNCHANGED <<orig_str, orig_idx, cvt_idx, cvt_len, cvt_str>>

OctNext == ReturnEmpty \/ AllocFails \/ Alloc \/ CopyChar \/ Terminate

OctSpec == OctInit /\ [][OctNext]_octVars

\* A call that has begun runs on: the process has one thread and nothing
\* it waits for.
OctFairSpec == OctSpec /\ WF_octVars(OctNext)

\* The function as one operator, for the modules that call it: NULL for
\* an empty string, else the copy as C reads it.
RECURSIVE CopyFrom(_, _)
CopyFrom(str, idx) ==
    IF idx >= Len(str) THEN <<>>
    ELSE IF IsEscape(str, idx)
         THEN <<EscapedChar(str, idx)>> \o CopyFrom(str, idx + 4)
         ELSE <<CharAt(str, idx)>> \o CopyFrom(str, idx + 1)

convert_octal_escaped(str) ==
    IF Len(str) = 0 THEN NULL ELSE CString(CopyFrom(str, 0))

-----------------------------------------------------------------------------
(* Properties *)

OctTypeOK ==
    /\ orig_str \in Seq(1..255)
    /\ pc \in {"call", "loop", "done"}
    /\ orig_idx \in 0..Len(orig_str)
    /\ cvt_idx \in 0..Len(orig_str)
    /\ cvt_len \in Nat
    /\ cvt_str \in Seq(0..255)
    /\ octret = NULL \/ octret \in Seq(1..255)

\* The string without its escapes, by recursion on the string: a backslash
\* followed by three octal digits is the character of their value, any
\* other character is itself.
RECURSIVE Unescaped(_)
Unescaped(s) ==
    IF s = <<>> THEN <<>>
    ELSE IF /\ Len(s) >= 4
            /\ s[1] = Backslash
            /\ \A k \in 2..4 : IsOctal(s[k])
         THEN <<((s[2] - Digit0) * 64 + (s[3] - Digit0) * 8
                 + (s[4] - Digit0)) % 256>> \o Unescaped(SubSeq(s, 5, Len(s)))
         ELSE <<Head(s)>> \o Unescaped(Tail(s))

\* What convert_octal_escaped() returns for a string that is not empty is
\* the string without its escapes: the test "(orig_idx + 3) < orig_len",
\* the inner loop that gives up at the first character that is no octal
\* digit and "orig_idx += 3" together convert every complete escape, the
\* one that ends the string included, and copy an incomplete one as it is.
ResultIsUnescaped ==
    (pc = "done" /\ octret # NULL) => octret = CString(Unescaped(orig_str))

\* The copy never outgrows the room malloc(orig_len + 1) gave it: the
\* write index stays behind the read index, so the branch that expands the
\* copy with realloc() is never taken and cvt_len stays the length of the
\* argument.
CopyFitsAllocation ==
    (pc = "loop" \/ octret # NULL) => /\ cvt_idx <= orig_idx
                                       /\ cvt_idx <= cvt_len
                                       /\ cvt_len = Len(orig_str)

\* Every call returns.  The loop has two indices that move at different
\* speeds: the read index moves by four over an escape ("orig_idx += 3" and
\* the "++orig_idx" of the for statement) and may then be past the last
\* character, and the loop is left by "orig_idx < orig_len" alone.
CallReturns == <>(pc = "done")

=============================================================================
