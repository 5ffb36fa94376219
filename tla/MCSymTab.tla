------------------------------ MODULE MCSymTab ------------------------------
(***************************************************************************)
(* Every array of four entries over seven symbols: two names share a       *)
(* bucket, one of them made up, and names, types and values repeat.        *)
(***************************************************************************)
EXTENDS SymTab

CONSTANTS f, g, f_text, null

MCNames == {f, g, f_text}
MCMadeUp == {f_text}
MCSymHFuncName == [n \in MCNames |-> IF n = g THEN 1 ELSE 0]
MCAddresses == 1 .. 3
MCSymbols ==
    { [name |-> f, type |-> "text", value |-> 1],
      [name |-> f, type |-> "data", value |-> 2],
      [name |-> f, type |-> "text", value |-> 2],
      [name |-> g, type |-> "text", value |-> 0],
      [name |-> g, type |-> "abs", value |-> 1],
      [name |-> g, type |-> "text", value |-> 1],
      [name |-> f_text, type |-> "text", value |-> 1] }
==============================================================================
