------------------------------ MODULE CmdParse ------------------------------
(***************************************************************************)
(* The shell: mainboot and cmd_parse of loader/interp.c, executing one     *)
(* line after the other on the heap of module Heap.                        *)
(*                                                                         *)
(* A line is split into a command and the rest, and the rest, if there is  *)
(* any, into two arguments; every part is a copy on the heap.  The command *)
(* is looked up, as it is and with an underscore in front, and called.     *)
(* Every allocation may fail, and what is allocated must be given back.    *)
(*                                                                         *)
(* The text of a line is its words and the blanks around them; what the    *)
(* heap is asked for is its length.                                        *)
(***************************************************************************)
EXTENDS Integers, Sequences, FiniteSets

CONSTANTS
    HeapBase, HeapSize, Word,   \* the heap
    Words,          \* words that can be typed
    Length,         \* their lengths
    Registered,     \* those that name a symbol
    Underscored,    \* those that name one with an underscore in front
    BootKeys,       \* those that begin with "@", "g" or "r"
    Lines,          \* the lines typed: [lead, words, blanks]
    MaxLines        \* bound: lines

ASSUME CmdParseAssumption ==
    /\ HeapBase \in Nat
    /\ HeapSize \in Nat /\ HeapSize > 16
    /\ Word \in Nat /\ Word > 8
    /\ HeapBase + HeapSize < Word
    /\ Length \in [Words -> Nat \ {0}]
    /\ Registered \union Underscored \union BootKeys \subseteq Words
    /\ Lines \subseteq [lead : Nat, words : Seq(Words), blanks : Nat]
    /\ MaxLines \in Nat

VARIABLES
    chain, grants, last, refused, overrun,  \* the heap
    pc,         \* "prompt", a statement of cmd_parse, or "gone": control went
                \*    elsewhere and did not come back
    line,       \* inputLine
    text,       \* what statementSplit is splitting
    level,      \* 1: into command and argument, 2: into the two arguments
    ptr,        \* the pointers of cmd_parse and statementSplit
    status,     \* how cmd_parse returned
    before,     \* history: the heap's grants and refusals before the line
    lines

heap == <<chain, grants, last, refused, overrun>>
vars == <<chain, grants, last, refused, overrun, pc, line, text, level, ptr, status, before, lines>>

H == INSTANCE Heap WITH Sizes <- {}

NULL == 0

\* A local variable that the line has not assigned: whatever the stack holds.
Unset == -1
Address == Nat \union {Unset}
Pointers == {"statementCpy", "command", "argument", "argument1", "argument2", "tmpSymbolName"}

TextLength(t) ==
    LET upTo[k \in 0 .. Len(t.words)] ==
            IF k = 0 THEN 0 ELSE upTo[k - 1] + Length[t.words[k]] + (IF k = 1 THEN 0 ELSE 1)
    IN t.lead + upTo[Len(t.words)] + t.blanks

\* tokenize: the first word, and what is behind the blank that ends it.
Rest(t) ==
    IF Len(t.words) > 1 THEN [lead |-> 0, words |-> Tail(t.words), blanks |-> t.blanks]
    ELSE [lead |-> 0, words |-> <<>>, blanks |-> IF t.blanks = 0 THEN 0 ELSE t.blanks - 1]

\* The two pointers that statementSplit returns through.
First == IF level = 1 THEN "command" ELSE "argument1"
Second == IF level = 1 THEN "argument" ELSE "argument2"

Init ==
    /\ H!Init
    /\ pc = "prompt"
    /\ line = [lead |-> 0, words |-> <<>>, blanks |-> 0]
    /\ text = line
    /\ level = 1
    /\ ptr = [p \in Pointers |-> Unset]
    /\ status = "OK"
    /\ before = [live |-> {}, refused |-> refused]
    /\ lines = 0

Return(s) == pc' = "prompt" /\ status' = s
Goto(l) == pc' = l /\ UNCHANGED status

------------------------------------------------------------------------------
(***************************************************************************)
(* A line is read.  A first character of "@", "g" or "r" boots or jumps to *)
(* an image, whatever follows it; if that comes back, and for any other    *)
(* line, cmd_parse strips the blanks in front.  An empty line is OK.       *)
(***************************************************************************)
Prompt(t) ==
    /\ pc = "prompt" /\ lines < MaxLines
    /\ lines' = lines + 1
    /\ before' = [live |-> grants, refused |-> refused]
    /\ line' = t
    /\ text' = [t EXCEPT !.lead = 0]
    /\ level' = 1
    /\ ptr' = [p \in Pointers |-> Unset]
    /\ \/ IF t.words = <<>> THEN Return("OK") ELSE Goto("copy")
       \/ /\ t.lead = 0 /\ t.words # <<>> /\ t.words[1] \in BootKeys
          /\ Goto("gone")
    /\ UNCHANGED heap

Strdup(n, pointer) ==
    /\ H!Strdup(n)
    /\ ptr' = [ptr EXCEPT ![pointer] = last'.ptr]

Kfree(pointer) == H!Kfree(ptr[pointer]) /\ UNCHANGED ptr

\* Mutant: a statement without a token is split like any other.
CopyStatementBlind ==
    /\ pc = "copy"
    /\ Strdup(TextLength(text), "statementCpy")
    /\ IF last'.ptr = NULL THEN Return("ERROR") ELSE Goto("first")
    /\ UNCHANGED <<line, text, level, before, lines>>

CopyStatement ==
    /\ pc = "copy"
    /\ Strdup(TextLength(text), "statementCpy")
    /\ IF last'.ptr = NULL THEN Return("ERROR")
       ELSE IF text.words = <<>> THEN Goto("no token") ELSE Goto("first")
    /\ UNCHANGED <<line, text, level, before, lines>>

NoToken ==
    /\ pc = "no token"
    /\ Kfree("statementCpy") /\ Return("ERROR")
    /\ UNCHANGED <<line, text, level, before, lines>>

CopyFirst ==
    /\ pc = "first"
    /\ Strdup(Length[text.words[1]], First) /\ Goto("second")
    /\ UNCHANGED <<line, text, level, before, lines>>

CopySecond ==
    /\ pc = "second"
    /\ Strdup(TextLength(Rest(text)), Second) /\ Goto("free copy")
    /\ UNCHANGED <<line, text, level, before, lines>>

\* Mutant: in the second call the statement is freed in place of its copy.
FreeCallersStatement ==
    /\ pc = "free copy"
    /\ Kfree(IF level = 1 THEN "statementCpy" ELSE "argument")
    /\ Goto(IF NULL \in {ptr[First], ptr[Second]} THEN "undo second"
            ELSE IF level = 1 THEN "argument" ELSE "arguments")
    /\ UNCHANGED <<line, text, level, before, lines>>

\* The two strings are printed, then the copy is given back.
FreeCopy ==
    /\ pc = "free copy"
    /\ Kfree("statementCpy")
    /\ Goto(IF NULL \in {ptr[First], ptr[Second]} THEN "undo second"
            ELSE IF level = 1 THEN "argument" ELSE "arguments")
    /\ UNCHANGED <<line, text, level, before, lines>>

UndoSecond ==
    /\ pc = "undo second"
    /\ Kfree(Second) /\ Goto("undo first")
    /\ UNCHANGED <<line, text, level, before, lines>>

UndoFirst ==
    /\ pc = "undo first"
    /\ Kfree(First) /\ Return("ERROR")
    /\ UNCHANGED <<line, text, level, before, lines>>

\* The argument, if it is not empty, is split in turn.
ReadArgument ==
    /\ pc = "argument"
    /\ IF TextLength(Rest(text)) > 0
       THEN Goto("copy") /\ level' = 2 /\ text' = Rest(text)
       ELSE Goto("arguments") /\ UNCHANGED <<level, text>>
    /\ UNCHANGED <<heap, ptr, line, before, lines>>

\* Both arguments are printed and converted, assigned or not: what is read at
\* any address is any text, or the read is one that the processor traps.
ReadArguments ==
    /\ pc = "arguments"
    /\ \/ Goto("lookup")
       \/ Unset \in {ptr["argument1"], ptr["argument2"]} /\ Goto("gone")
    /\ UNCHANGED <<heap, ptr, line, text, level, before, lines>>

------------------------------------------------------------------------------
(***************************************************************************)
(* symbolGet.  A command that is not found has the address 0, and after    *)
(* the message that it is unknown it is called all the same.               *)
(***************************************************************************)
Lookup ==
    /\ pc = "lookup"
    /\ IF line.words[1] \in Registered
       THEN Goto("call") /\ UNCHANGED <<heap, ptr>>
       ELSE /\ H!Kmalloc(Length[line.words[1]] + 2)
            /\ ptr' = [ptr EXCEPT !["tmpSymbolName"] = last'.ptr]
            /\ Goto(IF last'.ptr = NULL THEN "gone" ELSE "free name")
    /\ UNCHANGED <<line, text, level, before, lines>>

FreeName ==
    /\ pc = "free name"
    /\ Kfree("tmpSymbolName")
    /\ Goto(IF line.words[1] \in Underscored THEN "call" ELSE "gone")
    /\ UNCHANGED <<line, text, level, before, lines>>

\* The function called may be anything; it comes back or does not.
Call ==
    /\ pc = "call"
    /\ Goto("free command") \/ Goto("gone")
    /\ UNCHANGED <<heap, ptr, line, text, level, before, lines>>

\* Mutant: the argument string is not given back.
FreeCommandOnly ==
    /\ pc = "free command"
    /\ Kfree("command") /\ Return("OK")
    /\ UNCHANGED <<line, text, level, before, lines>>

FreeCommand ==
    /\ pc = "free command"
    /\ Kfree("command") /\ Goto("free argument")
    /\ UNCHANGED <<line, text, level, before, lines>>

FreeArgument ==
    /\ pc = "free argument"
    /\ Kfree("argument") /\ Return("OK")
    /\ UNCHANGED <<line, text, level, before, lines>>

Next ==
    \/ \E t \in Lines : Prompt(t)
    \/ CopyStatement \/ NoToken \/ CopyFirst \/ CopySecond \/ FreeCopy
    \/ UndoSecond \/ UndoFirst \/ ReadArgument \/ ReadArguments
    \/ Lookup \/ FreeName \/ Call
    \/ FreeCommand \/ FreeArgument

Spec == Init /\ [][Next]_vars

------------------------------------------------------------------------------
Texts == [lead : Nat, words : Seq(Words), blanks : Nat]

TypeOK ==
    /\ H!TypeOK
    /\ pc \in {"prompt", "copy", "no token", "first", "second", "free copy",
               "undo second", "undo first", "argument", "arguments", "lookup",
               "free name", "call", "free command", "free argument", "gone"}
    /\ line \in Texts /\ text \in Texts
    /\ pc \in {"first", "second"} => text.words # <<>>
    /\ level \in {1, 2}
    /\ ptr \in [Pointers -> Address]
    /\ status \in {"OK", "ERROR"}

(***************************************************************************)
(* The strings that the next statement reads or gives back.                *)
(***************************************************************************)
Read ==
    CASE pc = "copy" /\ level = 2 -> {"argument"}
      [] pc \in {"first", "second"} -> {"statementCpy"}
      [] pc = "free copy" -> {First, Second}
      [] pc = "argument" -> {"argument"}
      [] pc = "arguments" -> {"argument1", "argument2"}
      [] pc = "free name" -> {"tmpSymbolName"}
      [] pc \in {"lookup", "call"} -> {"command"}
      [] OTHER -> {}

Freed ==
    CASE pc \in {"no token", "free copy"} -> {"statementCpy"}
      [] pc = "undo second" -> {Second}
      [] pc = "undo first" -> {First}
      [] pc = "free name" -> {"tmpSymbolName"}
      [] pc = "free command" -> {"command"}
      [] pc = "free argument" -> {"argument"}
      [] OTHER -> {}

Live(p) == \E g \in grants : g.ptr = ptr[p]

(***************************************************************************)
(* On every path, those through a failed allocation included, cmd_parse    *)
(* and statementSplit read strings that they hold, but for two places: a   *)
(* copy that failed is printed, as "(null)", before it is looked at; and   *)
(* the two arguments of a line that has none are read without ever having  *)
(* been assigned, on each such line.  They give back only what they hold   *)
(* or a null pointer, never the same string twice.                         *)
(***************************************************************************)
PointersLive ==
    /\ \A p \in Read :
          IF p \in {"argument1", "argument2"} /\ level = 1 THEN ptr[p] = Unset
          ELSE Live(p) \/ (pc = "free copy" /\ ptr[p] = NULL)
    /\ \A p \in Freed : Live(p) \/ ptr[p] = NULL

(***************************************************************************)
(* What a line leaves behind on the heap.  A line with arguments leaves    *)
(* the two of them; one whose arguments could not be split leaves the      *)
(* command and the rest of the line; any other leaves nothing.             *)
(***************************************************************************)
LeakPerLine ==
    pc = "prompt" =>
        {g.ptr : g \in grants \ before.live} =
            IF level = 1 THEN {}
            ELSE IF status = "OK" THEN {ptr["argument1"], ptr["argument2"]}
            ELSE {ptr["command"], ptr["argument"]}

(***************************************************************************)
(* Running out of memory is final for the shell as well: once a string was *)
(* refused, no line at least as long is ever executed again, although all  *)
(* lines in between give most of their strings back.                       *)
(***************************************************************************)
OutOfMemoryIsFinal ==
    pc = "call" => H!Rounded(TextLength([line EXCEPT !.lead = 0]) + 1) < before.refused
==============================================================================
