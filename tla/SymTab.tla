------------------------------- MODULE SymTab -------------------------------
(***************************************************************************)
(* The symbol table the shell looks names up in: src/common/symLib.c over  *)
(* the hash table of hashLib.c over the lists of sllLib.c (module Sll).    *)
(*                                                                         *)
(* The loader's own symbols are an array, standTbl, generated at build     *)
(* time.  sym_table_init allocates an empty table and usrStandaloneInit    *)
(* links the entries of the array into it, one after the other; each entry *)
(* carries the next pointer of the one bucket it can be in.  Everything    *)
(* runs on the one processor the loader uses, called from the shell.       *)
(***************************************************************************)
EXTENDS Naturals, Sequences, SequencesExt, FiniteSetsExt

CONSTANTS
    StandTblSize,   \* entries of standTbl
    Elements,       \* buckets of the hash table, 1 << sizeLog2
    Names,          \* names a symbol can have
    MadeUp,         \* those that end in _text, _data, _bss, _compiled. or .o
    SymHFuncName,   \* the bucket each name hashes to
    Symbols,        \* [name, type, value] records standTbl may hold
    Addresses,      \* the values asked for; a symbol at 0 is none to ask for
    NULL

Types == {"text", "data", "abs"}

ASSUME SymTabAssumption ==
    /\ StandTblSize \in Nat /\ Elements \in Nat \ {0}
    /\ MadeUp \subseteq Names
    /\ SymHFuncName \in [Names -> 0 .. Elements - 1]
    /\ Symbols \subseteq [name : Names, type : Types, value : Nat]
    /\ Addresses \subseteq Nat \ {0}
    /\ NULL \notin 0 .. StandTblSize

Nodes == 1 .. StandTblSize
Buckets == 0 .. Elements - 1

VARIABLES
    standTbl,       \* the array of symbols; a symbol is known by its index
    sameNameOk,     \* may two symbols agree in name and type?
    sysSymTbl,      \* "none" (null), "up", or "lost": symShow was given null
    head, tail,     \* the buckets' list heads
    next,           \* the symbols' next pointers
    nsymbols,
    ix,             \* the loop of usrStandaloneInit; idle beyond standTblSize
    added           \* history: the symbols put into this table, in order

table == <<head, tail, next>>
vars == <<standTbl, sameNameOk, sysSymTbl, head, tail, next, nsymbols, ix, added>>

List == INSTANCE Sll WITH Lists <- Buckets, got <- NULL

Chain(b) == List!Chain(b)

------------------------------------------------------------------------------
(***************************************************************************)
(* symKeyCmpName under the two masks in use: all bits of the type, or none *)
(***************************************************************************)
TypeMatches(t, u, mask) == mask = "all" => t = u

\* Mutant: the comparator looks at the name only.
SymKeyCmpNameOnly(match, sym, mask) == match.name = sym.name

SymKeyCmpName(match, sym, mask) ==
    /\ TypeMatches(match.type, sym.type, mask)
    /\ match.name = sym.name

(***************************************************************************)
(* hashTblFind: the first match in the bucket of the key; NULL at the end  *)
(* of the list.  In a list that has no end the search does not return.     *)
(***************************************************************************)
Diverges == 0

HashTblFind(match, mask) ==
    LET b == SymHFuncName[match.name]
        hits == {k \in DOMAIN Chain(b) : SymKeyCmpName(match, standTbl[Chain(b)[k]], mask)}
    IN IF hits # {} THEN Chain(b)[Min(hits)]
       ELSE IF List!Ends(b) THEN NULL ELSE Diverges

HashTblPut(n) == List!SllPutAtHead(SymHFuncName[standTbl[n].name], n)

\* Mutant: symTblAdd never looks for a clash.
SymTblAddBlind(n) ==
    /\ HashTblPut(n)
    /\ nsymbols' = nsymbols + 1
    /\ added' = Append(added, n)

SymTblAdd(n) ==
    LET clash == IF sameNameOk THEN NULL ELSE HashTblFind(standTbl[n], "all")
    IN /\ clash # Diverges
       /\ IF clash # NULL
          THEN UNCHANGED <<table, nsymbols, added>>
          ELSE /\ HashTblPut(n)
               /\ nsymbols' = nsymbols + 1
               /\ added' = Append(added, n)

------------------------------------------------------------------------------
Init ==
    /\ standTbl \in [Nodes -> Symbols]
    /\ sameNameOk \in BOOLEAN
    /\ sysSymTbl = "none"
    /\ head = [b \in Buckets |-> NULL]
    /\ tail = [b \in Buckets |-> NULL]
    /\ next = [n \in Nodes |-> NULL]
    /\ nsymbols = 0
    /\ ix = StandTblSize + 1
    /\ added = <<>>

Idle == ix > StandTblSize

(***************************************************************************)
(* sym_table_init: a new table (symTblCreate, hashTblCreate, hashTblInit)  *)
(* if both of its blocks can be had.  If not, sysSymTbl is null, nothing   *)
(* is added and symShow reads through the null pointer.                    *)
(***************************************************************************)
\* Mutant: symTblCreate leaves the count alone.
SymTblCreateKeepingCount ==
    /\ head' = [b \in Buckets |-> NULL]
    /\ tail' = [b \in Buckets |-> NULL]
    /\ UNCHANGED <<next, nsymbols>>

SymTblCreate ==
    /\ head' = [b \in Buckets |-> NULL]
    /\ tail' = [b \in Buckets |-> NULL]
    /\ nsymbols' = 0
    /\ UNCHANGED next

SymTableInit ==
    /\ Idle /\ sysSymTbl # "lost"
    /\ \/ /\ sysSymTbl' = "up"
          /\ SymTblCreate
          /\ ix' = 1
          /\ added' = <<>>
       \/ /\ sysSymTbl' = "lost"
          /\ UNCHANGED <<table, nsymbols, ix, added>>
    /\ UNCHANGED <<standTbl, sameNameOk>>

\* One round of usrStandaloneInit's loop.
UsrStandaloneInit ==
    /\ sysSymTbl = "up" /\ ~Idle
    /\ SymTblAdd(ix)
    /\ ix' = ix + 1
    /\ UNCHANGED <<standTbl, sameNameOk, sysSymTbl>>

Next == SymTableInit \/ UsrStandaloneInit

Spec == Init /\ [][Next]_vars

(***************************************************************************)
(* usrStandaloneInit is in standTbl itself: typing its name in the shell   *)
(* runs it again, on the table it has filled already.                      *)
(***************************************************************************)
UsrStandaloneInitAgain ==
    /\ sysSymTbl = "up" /\ Idle
    /\ ix' = 1
    /\ UNCHANGED <<standTbl, sameNameOk, sysSymTbl, table, nsymbols, added>>

SpecAgain == Init /\ [][Next \/ UsrStandaloneInitAgain]_vars

------------------------------------------------------------------------------
(***************************************************************************)
(* symFindSymbol by name, and by value: bucket after bucket, the first     *)
(* exact match that is not made up ends the search; otherwise the match    *)
(* with the greatest value so far, not above the one asked for, is kept.   *)
(* The search starts from the value 0, so that a symbol at 0 is never it.  *)
(***************************************************************************)
SymFindByName(name, type, mask) == HashTblFind([name |-> name, type |-> type], mask)

TableOrder ==
    LET upTo[b \in 0 .. Elements] == IF b = 0 THEN <<>> ELSE upTo[b - 1] \o Chain(b - 1)
    IN upTo[Elements]

Candidate(n, type, mask) ==
    TypeMatches(type, standTbl[n].type, mask) /\ standTbl[n].type # "abs"

\* Mutant: a symbol below the last one kept replaces it.
CloserLatest(n, best, value) ==
    LET v == standTbl[n].value IN v <= value /\ v > 0

Closer(n, best, value) ==
    LET v == standTbl[n].value
    IN v <= value /\ v > (IF best = NULL THEN 0 ELSE standTbl[best].value)

SymFindByValue(value, type, mask) ==
    LET order == TableOrder
        exact(n) == /\ Candidate(n, type, mask)
                    /\ standTbl[n].value = value
                    /\ standTbl[n].name \notin MadeUp
        hits == {k \in DOMAIN order : exact(order[k])}
        best[k \in 0 .. Len(order)] ==
            IF k = 0 THEN NULL
            ELSE IF Candidate(order[k], type, mask) /\ Closer(order[k], best[k - 1], value)
            THEN order[k] ELSE best[k - 1]
    IN IF hits # {} THEN order[Min(hits)] ELSE best[Len(order)]

------------------------------------------------------------------------------
TypeOK ==
    /\ standTbl \in [Nodes -> Symbols]
    /\ sameNameOk \in BOOLEAN
    /\ sysSymTbl \in {"none", "up", "lost"}
    /\ head \in [Buckets -> Nodes \union {NULL}]
    /\ tail \in [Buckets -> Nodes \union {NULL}]
    /\ next \in [Nodes -> Nodes \union {NULL}]
    /\ nsymbols \in 0 .. StandTblSize
    /\ ix \in 1 .. StandTblSize + 1
    /\ added \in Seq(Nodes)

(***************************************************************************)
(* Each bucket holds the symbols of its hash value that were added to this *)
(* table, the latest first, and its tail is the earliest.  The entries of  *)
(* standTbl keep the next pointers of the table before, which a second     *)
(* sym_table_init must not let show through.                               *)
(***************************************************************************)
BucketsAreStacks ==
    \A b \in Buckets :
        /\ List!Ends(b)
        /\ ToSet(Chain(b)) = {n \in ToSet(added) : SymHFuncName[standTbl[n].name] = b}
        /\ \A j, k \in DOMAIN Chain(b), p, q \in DOMAIN added :
              j < k /\ added[p] = Chain(b)[j] /\ added[q] = Chain(b)[k] => p > q
        /\ tail[b] = IF Chain(b) = <<>> THEN NULL ELSE Last(Chain(b))

Keys == {"any", "all"}

(***************************************************************************)
(* A name is looked up as the latest symbol added under it and, where the  *)
(* type matters, of that type; it is not found only if there is none.      *)
(***************************************************************************)
LookupIsNewest ==
    \A name \in Names, type \in Types, mask \in Keys :
        LET matching == {k \in DOMAIN added :
                            /\ standTbl[added[k]].name = name
                            /\ mask = "all" => standTbl[added[k]].type = type}
        IN SymFindByName(name, type, mask)
              = IF matching = {} THEN NULL ELSE added[Max(matching)]

(***************************************************************************)
(* With sameNameOk FALSE no two symbols of the table agree in name and     *)
(* type (the promise of symTblCreate, lines 99-102).                       *)
(***************************************************************************)
NoClash ==
    ~sameNameOk => \A j, k \in DOMAIN added :
        j # k => \/ standTbl[added[j]].name # standTbl[added[k]].name
                 \/ standTbl[added[j]].type # standTbl[added[k]].type

(***************************************************************************)
(* A value is looked up as a symbol of the nearest value at or below it;   *)
(* at that value a made-up symbol is the answer only if no other is there. *)
(* Absolute symbols and symbols at 0 are never near.                       *)
(***************************************************************************)
ValueLookupIsNearest ==
    \A value \in Addresses, type \in Types, mask \in Keys :
        LET below == {n \in ToSet(added) : /\ standTbl[n].type # "abs"
                                           /\ mask = "all" => standTbl[n].type = type
                                           /\ standTbl[n].value \in 1 .. value}
            top == Max({standTbl[n].value : n \in below})
            nearest == {n \in below : standTbl[n].value = top}
            proper == {n \in nearest : standTbl[n].name \notin MadeUp}
            found == SymFindByValue(value, type, mask)
        IN IF below = {} THEN found = NULL
           ELSE /\ found \in nearest
                /\ top = value /\ proper # {} => found \in proper

(***************************************************************************)
(* What the comment above hashTblPut says (hashLib.c, line 324): nodes     *)
(* with the same key are kept in the order they were put.                  *)
(***************************************************************************)
IdenticalNodesFifo ==
    \A b \in Buckets : \A j, k \in DOMAIN Chain(b) :
        /\ j < k
        /\ standTbl[Chain(b)[j]].name = standTbl[Chain(b)[k]].name
        /\ standTbl[Chain(b)[j]].type = standTbl[Chain(b)[k]].type
        => \E p, q \in DOMAIN added :
              added[p] = Chain(b)[j] /\ added[q] = Chain(b)[k] /\ p < q

(***************************************************************************)
(* What the comment above hashTblFind says (hashLib.c, line 355): a key    *)
(* that is not in the table is answered with NULL.                         *)
(***************************************************************************)
MissIsAnswered ==
    \A name \in Names, type \in Types, mask \in Keys :
        SymFindByName(name, type, mask) # Diverges
==============================================================================
