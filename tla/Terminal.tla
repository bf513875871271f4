------------------------------ MODULE Terminal ------------------------------
(***************************************************************************)
(* What a console promises to those who write on it: its text is what was  *)
(* written, one character after the other, as far as there is room.        *)
(***************************************************************************)
EXTENDS Integers, Sequences

CONSTANTS
  Consoles,
  Chars,     \* the characters written
  Blank,     \* what an empty cell holds
  Limit,     \* cells of a console
  Width      \* cells of a row

VARIABLE text  \* text[n]: the cells of console n up to its cursor

Newline(t) ==
  IF Len(t) < Limit - Width
  THEN t \o [i \in 1 .. Width - (Len(t) % Width) |-> Blank]
  ELSE t

Backspace(t) == SubSeq(t, 1, Len(t) - 1)

Written(t, ch) ==
  CASE ch = "NL" -> Newline(t)
    [] ch = "BS" -> Backspace(t)
    [] OTHER -> IF Len(t) < Limit - 1 THEN Append(t, ch) ELSE t

OutChar(n, ch) == text' = [text EXCEPT ![n] = Written(@, ch)]

TerminalNext == \E n \in Consoles, ch \in Chars : OutChar(n, ch)

TerminalSpec == [][TerminalNext]_text
=============================================================================
