----------------------------- MODULE MCCmdParse -----------------------------
(***************************************************************************)
(* A heap that two to five lines exhaust, at every statement of them.      *)
(***************************************************************************)
EXTENDS CmdParse

CONSTANTS md, sym, loadfile, typo, reset

MCWords == {md, sym, loadfile, typo, reset}

\* loadfile and typo are the words whose copies take 16 bytes, not 8.
MCLength == [w \in MCWords |->
    CASE w = md -> 2 [] w = sym -> 3 [] w \in {loadfile, typo} -> 9 [] w = reset -> 5]

\* Bare, with one and with two arguments, blanks in front and behind, empty.
MCLines ==
    { [lead |-> l, words |-> <<w>>, blanks |-> 0] : l \in {0, 1}, w \in {md, typo, reset} }
    \union { [lead |-> 0, words |-> ws, blanks |-> 0] :
                ws \in {<<sym>>, <<md, sym>>, <<loadfile, typo>>, <<md, typo, typo>>} }
    \union { [lead |-> 0, words |-> <<md, sym>>, blanks |-> 1],
             [lead |-> 0, words |-> <<md>>, blanks |-> 2],
             [lead |-> 0, words |-> <<>>, blanks |-> 1] }
==============================================================================
