----------------------------- MODULE GetCmdProofs -----------------------------
(***************************************************************************)
(* For a buffer of any size, and lines of any length: until the position   *)
(* wraps around, the buffer in front of it is the line, a byte behind it   *)
(* is NUL exactly if no cancelled line left it, and the last one is NUL.   *)
(***************************************************************************)
EXTENDS GetCmd, FiniteSetTheorems, SequenceTheorems, TLAPS

Editing ==
    ~wrapped =>
        /\ Len(line) = curpos
        /\ \A i \in Positions : i < curpos => i \notin stale /\ cmd_buf[i] = line[i + 1]
        /\ \A i \in Positions : i >= curpos => (cmd_buf[i] = NUL <=> i \notin stale)
        /\ BufSize - 1 \notin stale

IInv == TypeOK /\ Editing

LEMMA InitIInv == Init => IInv
<1> SUFFICES ASSUME Init PROVE IInv
  OBVIOUS
<1>1. BufSize \in Nat \ {0} /\ MaxKeys \in Nat
  BY GetCmdAssumption
<1>. QED
  BY <1>1 DEF Init, IInv, TypeOK, Editing, Positions

LEMMA SmallMod == \A a, n \in Nat : a < n => a % n = a
  OBVIOUS

LEMMA SelfMod == \A n \in Nat \ {0} : n % n = 0
  OBVIOUS

(***************************************************************************)
(* A character goes to the position and the position moves on.             *)
(***************************************************************************)
LEMMA CharacterIInv ==
    ASSUME IInv, NEW c \in Chars, Character(c)
    PROVE  IInv'
<1>1. /\ BufSize \in Nat \ {0} /\ MaxKeys \in Nat /\ NUL \notin Chars
      /\ TypeOK /\ curpos \in 0 .. BufSize - 1
  BY GetCmdAssumption DEF IInv, TypeOK, Positions
<1>2. curpos' \in 0 .. BufSize - 1 /\ (curpos + 1 < BufSize => curpos' = curpos + 1)
  <2>1. CASE curpos + 1 < BufSize
    <3>1. (curpos + 1) % BufSize = curpos + 1
      BY <1>1, <2>1, SmallMod
    <3>. QED
      BY <1>1, <2>1, <3>1 DEF Character
  <2>2. CASE curpos + 1 = BufSize
    <3>1. (curpos + 1) % BufSize = 0
      BY <1>1, <2>2, SelfMod
    <3>. QED
      BY <1>1, <2>2, <3>1 DEF Character
  <2>. QED
    BY <1>1, <2>1, <2>2
<1>3. /\ line' \in Seq(Chars) /\ Len(line') = Len(line) + 1
      /\ line'[Len(line) + 1] = c
      /\ \A k \in 1 .. Len(line) : line'[k] = line[k]
  BY <1>1 DEF Character, TypeOK
<1>4. TypeOK'
  BY <1>1, <1>2, <1>3 DEF Character, Key, TypeOK, Positions
<1>5. ASSUME ~wrapped' PROVE Editing'
  <2>1. ~wrapped /\ curpos' = curpos + 1 /\ curpos + 1 < BufSize
    <3>1. ~wrapped /\ curpos + 1 # BufSize
      BY <1>5 DEF Character
    <3>. QED
      BY <1>1, <1>2, <3>1
  <2>2. Len(line) = curpos
    BY <2>1 DEF IInv, Editing
  <2>3. ASSUME NEW i \in Positions, i < curpos'
        PROVE  i \notin stale' /\ cmd_buf'[i] = line'[i + 1]
    <3>1. CASE i = curpos
      BY <1>1, <1>3, <2>2, <3>1 DEF Character, TypeOK
    <3>2. CASE i < curpos
      <4>1. i + 1 \in 1 .. Len(line) /\ cmd_buf[i] = line[i + 1] /\ i \notin stale
        BY <1>1, <2>1, <2>2, <3>2 DEF IInv, Editing, Positions
      <4>. QED
        BY <1>1, <1>3, <3>2, <4>1 DEF Character, TypeOK, Positions
    <3>. QED
      BY <1>1, <2>1, <2>3, <3>1, <3>2 DEF Positions
  <2>4. ASSUME NEW i \in Positions, i >= curpos'
        PROVE  cmd_buf'[i] = NUL <=> i \notin stale'
    <3>1. i # curpos /\ i >= curpos
      BY <1>1, <2>1, <2>4 DEF Positions
    <3>. QED
      BY <1>1, <2>1, <3>1 DEF IInv, Editing, Character, TypeOK
  <2>. QED
    BY <1>1, <1>3, <2>1, <2>2, <2>3, <2>4 DEF IInv, Editing, Character, Positions
<1>. QED
  BY <1>4, <1>5 DEF IInv, Editing

LEMMA ButLast ==
    ASSUME NEW S, NEW s \in Seq(S), Len(s) \in Nat \ {0}
    PROVE  /\ SubSeq(s, 1, Len(s) - 1) \in Seq(S)
           /\ Len(SubSeq(s, 1, Len(s) - 1)) = Len(s) - 1
           /\ \A k \in 1 .. Len(s) - 1 : SubSeq(s, 1, Len(s) - 1)[k] = s[k]
<1> DEFINE n == Len(s) - 1
<1>1. n \in Nat /\ \A k \in 1 .. n : s[k] \in S
  OBVIOUS
<1> HIDE DEF n
<1>2. /\ SubSeq(s, 1, n) \in Seq(S)
      /\ Len(SubSeq(s, 1, n)) = IF 1 <= n THEN n - 1 + 1 ELSE 0
      /\ \A k \in 1 .. n - 1 + 1 : SubSeq(s, 1, n)[k] = s[1 + k - 1]
  <2>1. 1 \in Int /\ n \in Int
    BY <1>1
  <2>. QED
    BY ONLY <1>1, <2>1, SubSeqProperties
<1>3. \A k \in 1 .. n : k \in 1 .. n - 1 + 1 /\ 1 + k - 1 = k
  BY <1>1
<1>4. Len(SubSeq(s, 1, n)) = n
  BY <1>1, <1>2
<1>5. \A k \in 1 .. n : SubSeq(s, 1, n)[k] = s[k]
  BY <1>2, <1>3
<1>. QED
  BY <1>2, <1>4, <1>5 DEF n

(***************************************************************************)
(* The position moves back first, and clears what it comes to.             *)
(***************************************************************************)
LEMMA EraseIInv ==
    ASSUME IInv, Erase
    PROVE  IInv'
<1>1. /\ BufSize \in Nat \ {0} /\ MaxKeys \in Nat
      /\ TypeOK /\ curpos \in 0 .. BufSize - 1
  BY GetCmdAssumption DEF IInv, TypeOK, Positions
<1>2. curpos' \in 0 .. BufSize - 1 /\ curpos' = IF curpos = 0 THEN 0 ELSE curpos - 1
  BY <1>1 DEF Erase
<1>3. /\ line' \in Seq(Chars)
      /\ Len(line') = IF Len(line) = 0 THEN 0 ELSE Len(line) - 1
      /\ \A k \in 1 .. Len(line') : line'[k] = line[k]
  <2>1. CASE line = <<>>
    BY <2>1 DEF Erase
  <2>2. CASE line # <<>>
    <3>1. line \in Seq(Chars) /\ Len(line) \in Nat \ {0}
      BY <1>1, <2>2, EmptySeq DEF TypeOK
    <3>2. line' = SubSeq(line, 1, Len(line) - 1)
      BY <2>2 DEF Erase
    <3>. QED
      BY <3>1, <3>2, ButLast
  <2>. QED
    BY <2>1, <2>2
<1>4. TypeOK'
  BY <1>1, <1>2, <1>3 DEF Erase, Key, TypeOK, Positions
<1>5. ASSUME ~wrapped' PROVE Editing'
  <2>1. ~wrapped /\ Len(line) = curpos /\ Len(line') = curpos'
    BY <1>1, <1>2, <1>3, <1>5 DEF Erase, IInv, Editing
  <2>2. ASSUME NEW i \in Positions, i < curpos'
        PROVE  i \notin stale' /\ cmd_buf'[i] = line'[i + 1]
    <3>1. i + 1 \in 1 .. Len(line') /\ i # curpos' /\ i < curpos
      BY <1>1, <1>2, <2>1, <2>2 DEF Positions
    <3>. QED
      BY <1>1, <1>3, <2>1, <3>1 DEF Erase, IInv, Editing, TypeOK
  <2>3. ASSUME NEW i \in Positions, i >= curpos'
        PROVE  cmd_buf'[i] = NUL <=> i \notin stale'
    <3>1. i = curpos' \/ i >= curpos
      BY <1>1, <1>2, <2>3 DEF Positions
    <3>. QED
      BY <1>1, <1>2, <2>1, <3>1 DEF Erase, IInv, Editing, TypeOK, Positions
  <2>. QED
    BY <1>5, <2>1, <2>2, <2>3 DEF Erase, IInv, Editing
<1>. QED
  BY <1>4, <1>5 DEF IInv, Editing

LEMMA CancelIInv ==
    ASSUME IInv, Cancel
    PROVE  IInv'
<1>1. /\ BufSize \in Nat \ {0} /\ MaxKeys \in Nat /\ NUL \notin Chars
      /\ TypeOK /\ curpos \in 0 .. BufSize - 1
  BY GetCmdAssumption DEF IInv, TypeOK, Positions
<1>2. TypeOK'
  BY <1>1 DEF Cancel, Key, TypeOK, Positions
<1>3. ASSUME ~wrapped PROVE Editing'
  <2>1. ASSUME NEW i \in Positions PROVE cmd_buf[i] = NUL <=> i \notin stale'
    <3>1. CASE i < curpos
      <4>1. i + 1 \in 1 .. Len(line) /\ cmd_buf[i] = line[i + 1]
        BY <1>1, <1>3, <3>1 DEF IInv, Editing, Positions
      <4>2. cmd_buf[i] \in Chars
        BY <1>1, <4>1 DEF TypeOK
      <4>. QED
        BY <1>1, <3>1, <4>2 DEF Cancel, Positions
    <3>2. CASE i >= curpos
      BY <1>1, <1>3, <3>2 DEF IInv, Editing, Cancel, Positions
    <3>. QED
      BY <1>1, <3>1, <3>2 DEF Positions
  <2>2. BufSize - 1 \notin stale'
    BY <1>1, <1>3 DEF IInv, Editing, Cancel
  <2>. QED
    BY <2>1, <2>2 DEF Editing, Cancel, Positions
<1>. QED
  BY <1>2, <1>3 DEF IInv, Editing, Cancel

LEMMA NextIInv == IInv /\ [Next]_vars => IInv'
<1> SUFFICES ASSUME IInv, [Next]_vars PROVE IInv'
  OBVIOUS
<1>1. CASE Enter
  BY <1>1 DEF Enter, IInv, TypeOK, Editing
<1>2. CASE Prompt
  <2>1. BufSize \in Nat \ {0} /\ MaxKeys \in Nat
    BY GetCmdAssumption
  <2>2. TypeOK'
    BY <1>2, <2>1 DEF Prompt, TypeOK, Positions
  <2>3. Editing'
    BY <1>2, <2>1 DEF Prompt, Editing, Positions
  <2>. QED
    BY <1>2, <2>2, <2>3 DEF IInv
<1>3. CASE UNCHANGED vars
  BY <1>3 DEF vars, IInv, TypeOK, Editing
<1>. QED
  BY <1>1, <1>2, <1>3, CharacterIInv, EraseIInv, CancelIInv DEF Next

THEOREM EditorInvariant == Spec => []IInv
  BY InitIInv, NextIInv, PTL DEF Spec

(***************************************************************************)
(* The type invariant, for a buffer of any size.                           *)
(***************************************************************************)
THEOREM EditorTypeOK == Spec => []TypeOK
<1>1. IInv => TypeOK
  BY DEF IInv
<1>. QED
  BY <1>1, EditorInvariant, PTL

------------------------------------------------------------------------------
(***************************************************************************)
(* The string that cmd_parse sees takes the positions with no NUL at or in *)
(* front of them.                                                          *)
(***************************************************************************)
Taken == {i \in Positions : \A j \in {j \in Positions : j < i + 1} : cmd_buf[j] # NUL}

LEMMA CStringIs == CString = [k \in 1 .. Cardinality(Taken) |-> cmd_buf[k - 1]]
  BY DEF CString, Taken

LEMMA TakenBounds ==
    ASSUME BufSize \in Nat \ {0}, NEW n \in 0 .. BufSize
    PROVE  /\ IsFiniteSet(Taken) /\ Cardinality(Taken) \in Nat
           /\ (\A i \in Positions : i < n => cmd_buf[i] # NUL) => Cardinality(Taken) >= n
           /\ n < BufSize /\ cmd_buf[n] = NUL => Cardinality(Taken) <= n
<1>1. IsFiniteSet(Positions)
  BY FS_Interval DEF Positions
<1>2. IsFiniteSet(Taken) /\ Cardinality(Taken) \in Nat
  BY <1>1, FS_Subset, FS_CardinalityType DEF Taken
<1>3. IsFiniteSet(0 .. n - 1) /\ Cardinality(0 .. n - 1) = n
  BY FS_Interval
<1>4. ASSUME \A i \in Positions : i < n => cmd_buf[i] # NUL
      PROVE  Cardinality(Taken) >= n
  <2>1. 0 .. n - 1 \subseteq Taken
    BY <1>4 DEF Taken, Positions
  <2>. QED
    BY <1>2, <1>3, <2>1, FS_Subset
<1>5. ASSUME n < BufSize, cmd_buf[n] = NUL
      PROVE  Cardinality(Taken) <= n
  <2>1. Taken \subseteq 0 .. n - 1
    BY <1>5 DEF Taken, Positions
  <2>. QED
    BY <1>2, <1>3, <2>1, FS_Subset
<1>. QED
  BY <1>2, <1>4, <1>5

(***************************************************************************)
(* What is executed ends inside the buffer, for a buffer of any size, as   *)
(* long as the position did not wrap around.                               *)
(***************************************************************************)
THEOREM LinesTerminated == Spec => []Terminated
<1>1. ASSUME IInv PROVE Terminated
  <2> SUFFICES ASSUME ~wrapped PROVE Len(CString) < BufSize
    BY DEF Terminated
  <2>1. BufSize \in Nat \ {0} /\ BufSize - 1 \in Positions /\ curpos \in Positions
    BY <1>1, GetCmdAssumption DEF IInv, TypeOK, Positions
  <2>2. cmd_buf[BufSize - 1] = NUL
    BY <1>1, <2>1 DEF IInv, Editing, Positions
  <2>3. Cardinality(Taken) \in Nat /\ Cardinality(Taken) <= BufSize - 1
    BY <2>1, <2>2, TakenBounds
  <2>. QED
    BY <2>1, <2>3, CStringIs
<1>. QED
  BY <1>1, EditorInvariant, PTL

(***************************************************************************)
(* What is executed is the line as it was edited, exactly if a cancelled   *)
(* line left nothing right behind it, and always begins with it.           *)
(***************************************************************************)
THEOREM LinesKept == Spec => []LineKept
<1>1. ASSUME IInv PROVE LineKept
  <2> SUFFICES ASSUME ~wrapped
               PROVE  /\ (CString = line) <=> (curpos \notin stale)
                      /\ SubSeq(CString, 1, Len(line)) = line
    BY DEF LineKept
  <2> DEFINE n == Cardinality(Taken)
  <2>1. /\ BufSize \in Nat \ {0} /\ NUL \notin Chars
        /\ curpos \in 0 .. BufSize - 1 /\ line \in Seq(Chars) /\ Len(line) = curpos
    BY <1>1, GetCmdAssumption DEF IInv, TypeOK, Positions, Editing
  <2>2. \A i \in Positions : i < curpos => cmd_buf[i] = line[i + 1] /\ cmd_buf[i] # NUL
    BY <1>1, <2>1 DEF IInv, Editing, Positions
  <2>3. n \in Nat /\ n >= curpos
    BY <2>1, <2>2, TakenBounds
  <2>4. curpos \notin stale => n = curpos
    <3>1. curpos \notin stale => cmd_buf[curpos] = NUL
      BY <1>1, <2>1 DEF IInv, Editing, Positions
    <3>. QED
      BY <2>1, <2>3, <3>1, TakenBounds
  <2>5. curpos \in stale => n >= curpos + 1
    <3>1. curpos \in stale => \A i \in Positions : i < curpos + 1 => cmd_buf[i] # NUL
      BY <1>1, <2>1, <2>2 DEF IInv, Editing, Positions
    <3>. QED
      BY <2>1, <3>1, TakenBounds
  <2>6. /\ CString = [k \in 1 .. n |-> cmd_buf[k - 1]]
        /\ Len(CString) = n
    BY <2>3, CStringIs
  <2>7. SubSeq(CString, 1, curpos) = [k \in 1 .. curpos |-> CString[k]]
    BY <2>1
  <2>8. \A k \in 1 .. curpos : CString[k] = line[k]
    BY <2>1, <2>2, <2>3, <2>6 DEF Positions
  <2>9. line = [k \in 1 .. curpos |-> line[k]]
    BY <2>1
  <2>10. SubSeq(CString, 1, curpos) = line
    BY <2>7, <2>8, <2>9
  <2>11. curpos \notin stale => CString = line
    BY <2>4, <2>6, <2>8, <2>9
  <2>12. curpos \in stale => CString # line
    BY <2>1, <2>3, <2>5, <2>6
  <2>. QED
    BY <2>1, <2>10, <2>11, <2>12
<1>. QED
  BY <1>1, EditorInvariant, PTL
==============================================================================
