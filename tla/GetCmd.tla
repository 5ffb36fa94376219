------------------------------- MODULE GetCmd -------------------------------
(***************************************************************************)
(* The line editor of the shell: getcmd of loader/getcmd.c, called by      *)
(* mainboot with a buffer it has just cleared.  A key is a character, an   *)
(* erase key (any of five codes), Control-X or the end of the line.        *)
(*                                                                         *)
(* The position in the buffer is an unsigned char and the buffer has 256   *)
(* bytes: "curpos < MAX_CMDBUF_SIZE" is always true, and the position      *)
(* wraps around to the start.  Control-X resets it and clears nothing.     *)
(***************************************************************************)
EXTENDS Naturals, Sequences, FiniteSets

CONSTANTS
    BufSize,    \* MAX_CMDBUF_SIZE, and the modulus of the position
    Chars,      \* the characters that can be typed
    NUL,
    MaxKeys     \* bound: keys typed in one line

ASSUME GetCmdAssumption ==
    /\ BufSize \in Nat \ {0}
    /\ NUL \notin Chars
    /\ MaxKeys \in Nat

VARIABLES
    cmd_buf, curpos,
    entered,    \* the end of the line was typed
    line,       \* history: the line as its user means it
    stale,      \* history: where cmd_buf still has characters of a line
                \*    that was cancelled
    wrapped,    \* history: the position has wrapped around
    keys        \* keys typed in this line

vars == <<cmd_buf, curpos, entered, line, stale, wrapped, keys>>

Positions == 0 .. BufSize - 1

Init ==
    /\ cmd_buf = [i \in Positions |-> NUL]
    /\ curpos = 0
    /\ entered = FALSE
    /\ line = <<>> /\ stale = {} /\ wrapped = FALSE /\ keys = 0

Key == ~entered /\ keys < MaxKeys /\ keys' = keys + 1

\* Mutant: the position is an int, and the test off by one.
CharacterPastEnd(c) ==
    /\ Key
    /\ IF curpos <= BufSize
       THEN /\ cmd_buf' = [i \in Positions |-> IF i = curpos THEN c ELSE cmd_buf[i]]
            /\ curpos' = curpos + 1
            /\ line' = Append(line, c)
            /\ stale' = stale \ {curpos}
       ELSE UNCHANGED <<cmd_buf, curpos, line, stale>>
    /\ UNCHANGED <<entered, wrapped>>

Character(c) ==
    /\ Key
    /\ cmd_buf' = [cmd_buf EXCEPT ![curpos] = c]
    /\ curpos' = (curpos + 1) % BufSize
    /\ line' = Append(line, c)
    /\ stale' = stale \ {curpos}
    /\ wrapped' = (wrapped \/ curpos + 1 = BufSize)
    /\ UNCHANGED entered

\* Mutant: the byte is cleared before the position moves.
EraseEarly ==
    /\ Key
    /\ curpos' = IF curpos = 0 THEN 0 ELSE curpos - 1
    /\ cmd_buf' = [cmd_buf EXCEPT ![curpos] = NUL]
    /\ line' = IF line = <<>> THEN <<>> ELSE SubSeq(line, 1, Len(line) - 1)
    /\ stale' = stale \ {curpos}
    /\ UNCHANGED <<entered, wrapped>>

\* At the start of the line the first byte is cleared all the same.
Erase ==
    /\ Key
    /\ curpos' = IF curpos = 0 THEN 0 ELSE curpos - 1
    /\ cmd_buf' = [cmd_buf EXCEPT ![curpos'] = NUL]
    /\ line' = IF line = <<>> THEN <<>> ELSE SubSeq(line, 1, Len(line) - 1)
    /\ stale' = stale \ {curpos'}
    /\ UNCHANGED <<entered, wrapped>>

Cancel ==
    /\ Key
    /\ curpos' = 0
    /\ line' = <<>>
    /\ stale' = stale \union 0 .. curpos - 1
    /\ UNCHANGED <<cmd_buf, entered, wrapped>>

Enter ==
    /\ ~entered
    /\ entered' = TRUE
    /\ UNCHANGED <<cmd_buf, curpos, line, stale, wrapped, keys>>

\* mainboot has executed the line; it clears the buffer and calls again.
Prompt ==
    /\ entered
    /\ cmd_buf' = [i \in Positions |-> NUL]
    /\ curpos' = 0 /\ entered' = FALSE
    /\ line' = <<>> /\ stale' = {} /\ wrapped' = FALSE /\ keys' = 0

Next == (\E c \in Chars : Character(c)) \/ Erase \/ Cancel \/ Enter \/ Prompt

Spec == Init /\ [][Next]_vars

------------------------------------------------------------------------------
TypeOK ==
    /\ cmd_buf \in [Positions -> Chars \union {NUL}]
    /\ curpos \in Positions
    /\ entered \in BOOLEAN /\ wrapped \in BOOLEAN
    /\ line \in Seq(Chars)
    /\ stale \subseteq Positions
    /\ keys \in 0 .. MaxKeys

\* The string that cmd_parse sees: up to the first NUL.
CString ==
    LET before(i) == {j \in Positions : j < i}
        len == Cardinality({i \in Positions : \A j \in before(i + 1) : cmd_buf[j] # NUL})
    IN [k \in 1 .. len |-> cmd_buf[k - 1]]

(***************************************************************************)
(* While the line fits, what is executed is the line as it was edited, if  *)
(* and only if the byte behind it is not left from a cancelled line; else  *)
(* it is the line with the rest of the cancelled one behind it.            *)
(***************************************************************************)
LineKept ==
    ~wrapped =>
        /\ (CString = line) <=> (curpos \notin stale)
        /\ SubSeq(CString, 1, Len(line)) = line

(***************************************************************************)
(* The string that is executed ends inside the buffer unless a line as     *)
(* long as the buffer was typed: a NUL is behind every shorter line,       *)
(* cancelled or not.                                                       *)
(***************************************************************************)
Terminated == ~wrapped => Len(CString) < BufSize
==============================================================================
