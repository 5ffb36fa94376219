------------------------------ MODULE MCGetCmd ------------------------------
(***************************************************************************)
(* A buffer of four bytes and lines of up to seven keys: long enough to      *)
(* wrap, and to type, cancel and type again.                               *)
(***************************************************************************)
EXTENDS GetCmd

CONSTANTS a, b
MCChars == {a, b}
==============================================================================
