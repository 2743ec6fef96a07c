--------------------------- MODULE MCOctalEscape ---------------------------
(***************************************************************************)
(* convert_octal_escaped() on every string of at most MaxLen characters of *)
(* an alphabet that has the backslash, octal digits that assemble 0, 32,   *)
(* 255 and values above 255, a digit that is not octal and a letter.       *)
(***************************************************************************)
EXTENDS OctalEscape

MaxLen == 6

\* '\', '0', '4', '7', '8', 'a'
MCAlphabet == {92, 48, 52, 55, 56, 97}

MCStrings == BoundedSeq(MCAlphabet, MaxLen)

\* The two examples of the specification: "/mnt/a\040b" and "/mnt/a\04".
ASSUME convert_octal_escaped(<<47, 97, 92, 48, 52, 48, 98>>)
           = <<47, 97, 32, 98>>
ASSUME convert_octal_escaped(<<47, 97, 92, 48, 52>>) = <<47, 97, 92, 48, 52>>

=============================================================================
