------------------------- MODULE SessionRotationProofs -------------------------
(***************************************************************************)
(* The backups of SessionFileSink, for every number of them and of         *)
(* sessions: their order, what a rotation may drop and what it keeps.      *)
(***************************************************************************)
EXTENDS SessionRotation, TLAPS

-----------------------------------------------------------------------------
(* Slots                                                                   *)

LEMMA SlotsNat == Slots \subseteq Nat
BY CountsAssumption DEF Slots

LEMMA SlotsUpTo == \A n \in Counts : \A i \in 0..n : i \in Slots
BY DEF Slots

LEMMA MostType == Most \in Nat /\ \A n \in Counts : n <= Most
BY CountsAssumption DEF Most

-----------------------------------------------------------------------------
(* The inductive invariant                                                 *)

\* Only sessions opened so far have files or a slack; a rotation leads to a session
\* the bound allows.
Opened ==
  /\ \A i \in Slots : files[i] <= run
  /\ \A r \in 1..MaxRuns : r > run => slack[r] = 0
  /\ pc \in {"remove", "rename"} => run < MaxRuns
  /\ pc # "rename" => index = 0

\* The slot the cascade fills next is empty: renaming overwrites nothing.
Hole == pc = "rename" => files[index] = 0

\* The slots session r may have while no rotation is on: as many as sessions were
\* opened since, and up to slack[r] more.
At(r, j) == files[j] = r /\ j \in (run - r)..(run - r + slack[r])
\* The same after the cascade has moved it.
Moved(r, j) == files[j] = r /\ j \in (run - r + 1)..(run - r + 1 + slack[r])
\* It will survive the next rotation.
Safe(r) == run - r + 1 + slack[r] <= max_backups

Placed ==
  /\ pc \in {"down", "remove"} => \A r \in 1..run : Safe(r) => \E j \in 0..max_backups : At(r, j)
  /\ pc = "rename" => \A r \in 1..run : Safe(r) =>
       \E j \in 0..max_backups : (j < index /\ At(r, j)) \/ (j > index /\ Moved(r, j))
  /\ pc = "live" =>
       /\ files[0] = run
       /\ \A r \in 1..run : run - r + slack[r] <= max_backups => \E j \in 0..max_backups : At(r, j)

IInv == TypeOK /\ Opened /\ Hole /\ Ordered /\ Placed

-----------------------------------------------------------------------------
(* Steps                                                                   *)

LEMMA InitIInv == Init => IInv
<1> SUFFICES ASSUME Init PROVE IInv
  OBVIOUS
<1> USE CountsAssumption, MaxRunsAssumption, MostType DEF Init
<1>1. TypeOK
  BY DEF TypeOK
<1>2. Opened /\ Hole /\ Ordered
  BY DEF Opened, Hole, Ordered
<1>3. Placed
  BY DEF Placed
<1> QED
  BY <1>1, <1>2, <1>3 DEF IInv

LEMMA StepTypeOK == IInv /\ [Next]_vars => TypeOK'
<1> SUFFICES ASSUME IInv, [Next]_vars PROVE TypeOK'
  OBVIOUS
<1> USE CountsAssumption, MaxRunsAssumption, MostType, SlotsNat, SlotsUpTo DEF IInv, TypeOK
<1>1. ASSUME NEW n \in Counts, TryNew(n) PROVE TypeOK'
  BY <1>1 DEF TryNew, Opened
<1>2. CASE RemoveOldest
  BY <1>2 DEF RemoveOldest, RemovedSlot, FirstTarget
<1>3. CASE RenameNext
  <2>1. Source \in Slots /\ index \in Slots
    BY <1>3 DEF RenameNext, Source
  <2> QED
    BY <1>3, <2>1 DEF RenameNext
<1>4. CASE Open
  BY <1>4 DEF Open, Opened
<1>5. CASE Abort
  BY <1>5 DEF Abort
<1>6. CASE End
  BY <1>6 DEF End
<1>7. CASE UNCHANGED vars
  BY <1>7 DEF vars
<1> QED
  BY <1>1, <1>2, <1>3, <1>4, <1>5, <1>6, <1>7 DEF Next

\* Order, and with it the empty slot and the newest session.
LEMMA StepOrdered == IInv /\ [Next]_vars => Opened' /\ Hole' /\ Ordered'
<1> SUFFICES ASSUME IInv, [Next]_vars PROVE Opened' /\ Hole' /\ Ordered'
  OBVIOUS
<1> USE CountsAssumption, MaxRunsAssumption, SlotsNat, SlotsUpTo DEF IInv, TypeOK, Opened, Hole, Ordered
<1>1. ASSUME NEW n \in Counts, TryNew(n) PROVE Opened' /\ Hole' /\ Ordered'
  BY <1>1 DEF TryNew
<1>2. CASE RemoveOldest
  BY <1>2 DEF RemoveOldest, RemovedSlot, FirstTarget
<1>3. CASE RenameNext
  <2>1. Source \in Slots /\ index \in Slots /\ Source = index - 1 /\ index \in Nat
    BY <1>3 DEF RenameNext, Source
  <2>2. CASE files[Source] = 0
    BY <1>3, <2>1, <2>2 DEF RenameNext
  <2>3. CASE files[Source] # 0
    <3>1. files' = [files EXCEPT ![index] = files[Source], ![Source] = 0]
      BY <1>3, <2>3 DEF RenameNext
    <3>2. \A i \in Slots : files'[i] = IF i = Source THEN 0 ELSE IF i = index THEN files[Source] ELSE files[i]
      BY <2>1, <3>1
    <3>3. \A i \in Slots : files[i] \in Nat
      OBVIOUS
    <3>4. Ordered'
      <4> SUFFICES ASSUME NEW i \in Slots, NEW j \in Slots, i < j, files'[i] # 0, files'[j] # 0
                   PROVE  files'[i] > files'[j]
        OBVIOUS
      <4>1. i # Source /\ j # Source
        BY <3>2
      <4>2. CASE i = index
        BY <2>1, <3>2, <4>1, <4>2
      <4>3. CASE j = index
        <5>1. i < Source
          BY <2>1, <4>1, <4>3
        <5> QED
          BY <2>1, <2>3, <3>2, <4>1, <4>3, <5>1
      <4>4. CASE i # index /\ j # index
        BY <3>2, <4>1, <4>4
      <4> QED
        BY <4>2, <4>3, <4>4
    <3>5. Opened' /\ Hole'
      BY <1>3, <2>1, <3>2 DEF RenameNext
    <3> QED
      BY <3>4, <3>5
  <2> QED
    BY <2>2, <2>3
<1>4. CASE Open
  BY <1>4 DEF Open, CascadeDone
<1>5. CASE Abort
  BY <1>5 DEF Abort
<1>6. CASE End
  BY <1>6 DEF End
<1>7. CASE UNCHANGED vars
  BY <1>7 DEF vars
<1> QED
  BY <1>1, <1>2, <1>3, <1>4, <1>5, <1>6, <1>7 DEF Next

\* Where the recent sessions are.
LEMMA StepPlaced == IInv /\ [Next]_vars => Placed'
<1> SUFFICES ASSUME IInv, [Next]_vars PROVE Placed'
  OBVIOUS
<1>0. /\ TypeOK /\ Opened /\ Hole /\ Placed
      /\ max_backups \in Nat /\ run \in Nat /\ index \in Nat
      /\ \A r \in 1..run : slack[r] \in Nat
      /\ \A i \in 0..max_backups : i \in Slots
  BY CountsAssumption, MaxRunsAssumption, MostType, SlotsUpTo DEF IInv, TypeOK
<1>1. ASSUME NEW n \in Counts, TryNew(n) PROVE Placed'
  <2>1. n \in Nat /\ pc' = "remove" /\ pc = "down" /\ max_backups' = n /\ UNCHANGED <<files, run>>
    BY <1>1, CountsAssumption DEF TryNew
  <2>2. CASE n > max_backups
    <3>1. \A r \in 1..run : slack'[r] = Most
      BY <1>0, <1>1, <2>1, <2>2, MaxRunsAssumption DEF TryNew, TypeOK
    <3> QED
      BY <1>0, <2>1, <3>1, MostType DEF Placed, Safe
  <2>3. CASE n <= max_backups
    <3>1. slack' = slack
      BY <1>0, <2>1, <1>1, <2>3 DEF TryNew
    <3> QED
      BY <1>0, <2>1, <2>3, <3>1 DEF Placed, Safe, At
  <2> QED
    BY <1>0, <2>1, <2>2, <2>3
<1>2. CASE RemoveOldest
  <2>1. /\ pc = "remove" /\ pc' = "rename" /\ index' = max_backups
        /\ files' = [files EXCEPT ![max_backups] = 0]
        /\ UNCHANGED <<max_backups, run, slack>>
    BY <1>2 DEF RemoveOldest, RemovedSlot, FirstTarget
  <2>2. ASSUME NEW r \in 1..run, Safe(r)
        PROVE  \E j \in 0..max_backups : j < index' /\ At(r, j)'
    <3>1. PICK j \in 0..max_backups : At(r, j)
      BY <1>0, <2>1, <2>2 DEF Placed
    <3>2. j < max_backups
      BY <1>0, <2>2, <3>1 DEF At, Safe
    <3>3. files'[j] = r
      BY <1>0, <2>1, <3>1, <3>2 DEF At, TypeOK
    <3> QED
      BY <2>1, <3>1, <3>2, <3>3 DEF At
  <2> QED
    BY <2>1, <2>2 DEF Placed, Safe
<1>3. CASE RenameNext
  <2>1. /\ pc = "rename" /\ pc' = "rename" /\ index > 0 /\ index' = index - 1
        /\ UNCHANGED <<max_backups, run, slack>>
        /\ Source = index - 1 /\ Source \in Slots /\ index \in Slots /\ files[index] = 0
    BY <1>0, <1>3 DEF RenameNext, Source, Hole, TypeOK
  <2>2. \A i \in Slots : files'[i] = IF i = index THEN files[Source] ELSE IF i = Source THEN 0 ELSE files[i]
    BY <1>0, <1>3, <2>1 DEF RenameNext, TypeOK
  <2>3. ASSUME NEW r \in 1..run, Safe(r)
        PROVE  \E j \in 0..max_backups : (j < index' /\ At(r, j)') \/ (j > index' /\ Moved(r, j)')
    <3>1. PICK j \in 0..max_backups : (j < index /\ At(r, j)) \/ (j > index /\ Moved(r, j))
      BY <1>0, <2>1, <2>3 DEF Placed
    <3>2. CASE j = Source
      <4>1. files'[index] = r /\ index \in 0..max_backups
        BY <1>0, <2>1, <2>2, <3>1, <3>2 DEF At, Moved, TypeOK
      <4>2. index > index' /\ index \in (run - r + 1)..(run - r + 1 + slack[r])
        BY <1>0, <2>1, <3>1, <3>2 DEF At
      <4> QED
        BY <2>1, <4>1, <4>2 DEF Moved
    <3>3. CASE j # Source
      <4>1. j # index
        BY <1>0, <3>1
      <4>2. files'[j] = files[j]
        BY <1>0, <2>2, <3>3, <4>1
      <4> QED
        BY <1>0, <2>1, <3>1, <3>3, <4>2 DEF At, Moved
    <3> QED
      BY <3>2, <3>3
  <2> QED
    BY <2>1, <2>3 DEF Placed, Safe
<1>4. CASE Open
  <2>1. /\ pc = "rename" /\ pc' = "live" /\ index = 0 /\ run' = run + 1
        /\ UNCHANGED <<max_backups, slack>> /\ files[0] = 0 /\ 0 \in Slots
        /\ files' = [files EXCEPT ![0] = run + 1]
    <3>1. pc = "rename" /\ index = 0 /\ files[0] = 0 /\ 0 \in Slots
      BY <1>0, <1>4 DEF Open, CascadeDone, Hole
    <3> QED
      BY <1>0, <1>4, <3>1 DEF Open, TypeOK
  <2>2. files'[0] = run + 1 /\ \A i \in Slots : i # 0 => files'[i] = files[i]
    BY <1>0, <2>1 DEF TypeOK
  <2>3. slack[run + 1] = 0
    BY <1>0, <2>1, MaxRunsAssumption DEF Opened, TypeOK
  <2>4. ASSUME NEW r \in 1..run', run' - r + slack'[r] <= max_backups'
        PROVE  \E j \in 0..max_backups' : At(r, j)'
    <3>1. CASE r = run + 1
      BY <1>0, <2>1, <2>2, <2>3, <3>1 DEF At
    <3>2. CASE r # run + 1
      <4>1. r \in 1..run /\ Safe(r)
        BY <1>0, <2>1, <2>4, <3>2 DEF Safe
      <4>2. PICK j \in 0..max_backups : j > index /\ Moved(r, j)
        BY <1>0, <2>1, <4>1 DEF Placed
      <4> QED
        BY <1>0, <2>1, <2>2, <4>1, <4>2 DEF At, Moved
    <3> QED
      BY <3>1, <3>2
  <2> QED
    BY <2>1, <2>2, <2>4 DEF Placed
<1>5. CASE Abort
  <2>1. /\ pc \in {"remove", "rename"} /\ pc' = "down" /\ UNCHANGED <<files, max_backups, run>>
        /\ \A r \in 1..run : slack'[r] = IF slack[r] < Most THEN slack[r] + 1 ELSE slack[r]
    BY <1>0, <1>5, MaxRunsAssumption DEF Abort, TypeOK
  <2>2. ASSUME NEW r \in 1..run, Safe(r)' PROVE \E j \in 0..max_backups : At(r, j)'
    <3>1. slack'[r] = slack[r] + 1 /\ Safe(r)
      <4>1. max_backups <= Most
        BY <1>0, MostType DEF TypeOK
      <4>2. slack'[r] < Most
        BY <1>0, <2>1, <2>2, <4>1, MostType DEF Safe
      <4> QED
        BY <1>0, <2>1, <2>2, <4>2, MostType DEF Safe
    <3>2. PICK j \in 0..max_backups : At(r, j) \/ Moved(r, j)
      BY <1>0, <2>1, <3>1 DEF Placed
    <3> QED
      BY <1>0, <2>1, <3>1, <3>2 DEF At, Moved
  <2> QED
    BY <2>1, <2>2 DEF Placed
<1>6. CASE End
  BY <1>0, <1>6 DEF End, Placed, Safe, At
<1>7. CASE UNCHANGED vars
  BY <1>0, <1>7 DEF vars, Placed, Safe, At, Moved
<1> QED
  BY <1>1, <1>2, <1>3, <1>4, <1>5, <1>6, <1>7 DEF Next

LEMMA Inductive == Spec => []IInv
<1>1. IInv /\ [Next]_vars => IInv'
  BY StepTypeOK, StepOrdered, StepPlaced DEF IInv
<1> QED
  BY InitIInv, <1>1, PTL DEF Spec

-----------------------------------------------------------------------------
(* Results                                                                 *)

\* The state of SessionFileSink's rotation keeps its type; no rename leaves the slots.
THEOREM TypeCorrect == Spec => []TypeOK
BY Inductive, PTL DEF IInv

\* Higher backup numbers are further in the past, at every moment of a rotation, after
\* any number of aborted ones and changes of max_backups.
THEOREM AlwaysOrdered == Spec => []Ordered
BY Inductive, PTL DEF IInv

\* try_new keeps the most recent sessions: each aborted start since a session was opened
\* pushes it at most one slot up.
THEOREM RecentKept == Spec => []KeepsRecent
<1>1. ASSUME IInv PROVE KeepsRecent
  <2> SUFFICES ASSUME pc = "live", NEW k \in 0..max_backups, k < run, k + slack[run - k] <= max_backups
               PROVE  \E j \in k..(k + slack[run - k]) : files[j] = run - k
    BY DEF KeepsRecent
  <2>1. max_backups \in Nat /\ run \in Nat
    BY <1>1, CountsAssumption, MaxRunsAssumption DEF IInv, TypeOK
  <2>2. run - k \in 1..run /\ run - (run - k) = k
    BY <2>1
  <2>3. PICK j \in 0..max_backups : At(run - k, j)
    BY <1>1, <2>2 DEF IInv, Placed
  <2> QED
    BY <2>2, <2>3 DEF At
<1> QED
  BY Inductive, <1>1, PTL

\* A rotation drops at most the oldest session of the slots it manages, and no rename
\* overwrites a file.
THEOREM OnlyOldest == Spec => OnlyOldestDropped
<1> DEFINE Drops ==
      /\ \A r \in Held(files) \ Held(files') : \A i \in 0..max_backups : files[i] # 0 => r <= files[i]
      /\ \A i \in Slots : i > max_backups /\ i > max_backups' => files'[i] = files[i]
<1>1. ASSUME IInv, Next PROVE Drops
  <2>0. /\ files \in [Slots -> Nat] /\ max_backups \in Nat /\ index \in 0..max_backups
        /\ \A i \in 0..max_backups : i \in Slots
    BY <1>1, CountsAssumption, MaxRunsAssumption, SlotsUpTo DEF IInv, TypeOK
  <2>1. CASE UNCHANGED files
    BY <2>1
  <2>2. CASE RemoveOldest
    <3>1. files' = [files EXCEPT ![max_backups] = 0] /\ max_backups' = max_backups
      BY <2>2 DEF RemoveOldest, RemovedSlot
    <3>2. ASSUME NEW r \in Held(files) \ Held(files'), NEW i \in 0..max_backups, files[i] # 0
          PROVE  r <= files[i]
      <4>1. r = files[max_backups] /\ r # 0
        BY <2>0, <3>1 DEF Held
      <4>2. i < max_backups => files[i] > files[max_backups]
        BY <1>1, <2>0, <3>2, <4>1 DEF IInv, Ordered
      <4> QED
        BY <2>0, <4>1, <4>2
    <3>3. \A i \in Slots : i > max_backups => files'[i] = files[i]
      BY <2>0, <3>1
    <3> QED
      BY <3>1, <3>2, <3>3
  <2>3. CASE RenameNext
    <3>1. files[index] = 0 /\ Source = index - 1 /\ index \in Slots /\ Source \in Slots
      BY <1>1, <2>0, <2>3 DEF IInv, Hole, RenameNext, Source
    <3>2. \A i \in Slots : files'[i] = IF i = index THEN files[Source] ELSE IF i = Source THEN 0 ELSE files[i]
      BY <2>0, <2>3, <3>1 DEF RenameNext
    <3>3. \A r \in Held(files) : r \in Held(files')
      BY <3>1, <3>2 DEF Held
    <3>4. \A i \in Slots : i > max_backups => files'[i] = files[i]
      BY <2>0, <3>1, <3>2, SlotsNat
    <3> QED
      BY <2>3, <3>3, <3>4 DEF RenameNext
  <2>4. CASE Open
    <3>1. files[0] = 0 /\ files' = [files EXCEPT ![0] = run + 1] /\ max_backups' = max_backups
      BY <1>1, <2>0, <2>4 DEF IInv, Hole, Open, CascadeDone
    <3>2. \A r \in Held(files) : r \in Held(files')
      BY <2>0, <3>1 DEF Held
    <3>3. \A i \in Slots : i > max_backups => files'[i] = files[i]
      BY <2>0, <3>1, SlotsNat
    <3> QED
      BY <3>1, <3>2, <3>3
  <2> QED
    BY <1>1, <2>1, <2>2, <2>3, <2>4 DEF Next, TryNew, Abort, End
<1>2. IInv /\ [Next]_vars => [Drops]_vars
  BY <1>1
<1> QED
  BY Inductive, <1>2, PTL DEF Spec, OnlyOldestDropped
=============================================================================
