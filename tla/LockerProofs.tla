---------------------------- MODULE LockerProofs ----------------------------
(* Theorems about Locker, for every set of processes. *)
EXTENDS Locker, TLAPS

\* ExclusiveUntilReleased is inductive only together with OneFile: a process
\* that is let in must have opened the file that the one inside has locked.
LockInv == TypeOK /\ OneFile /\ ExclusiveUntilReleased

LEMMA LockInit == Init => LockInv
<1> SUFFICES ASSUME Init
             PROVE  LockInv
  OBVIOUS
<1>1. TypeOK
  <2>1. released \in BOOLEAN
    BY DEF Init
  <2>2. deaths \in 0..MaxDeaths
    BY DeathsAssumption DEF Init
  <2>3. QED
    BY <2>1, <2>2 DEF Init, TypeOK
<1>2. \A p \in Processes : pc[p] = "out"
  BY DEF Init
<1>3. OneFile /\ Inside = {}
  BY <1>2 DEF OneFile, Inside
<1>4. QED
  BY <1>1, <1>3 DEF LockInv, ExclusiveUntilReleased, Exclusive

LEMMA TypeStep == TypeOK /\ [Next]_vars => TypeOK'
<1> SUFFICES ASSUME TypeOK, [Next]_vars
             PROVE  TypeOK'
  OBVIOUS
<1> USE InodesAssumption, DeathsAssumption DEF TypeOK
<1>1. ASSUME NEW p \in Processes, Step(p) \/ Die(p)
      PROVE  TypeOK'
  <2>1. CASE Open(p)
    BY <2>1 DEF Open
  <2>2. CASE Flock(p) \/ Unlink(p)
    BY <2>2 DEF Flock, Unlink
  <2>3. CASE Refuse(p) \/ Unlock(p) \/ OrphanEnds(p)
    BY <2>3 DEF Refuse, Unlock, OrphanEnds, Close
  <2>4. CASE Die(p)
    BY <2>4 DEF Die, Close
  <2>5. QED
    BY <1>1, <2>1, <2>2, <2>3, <2>4 DEF Step
<1>2. CASE UNCHANGED vars
  BY <1>2 DEF vars
<1>3. QED
  BY <1>1, <1>2 DEF Next

LEMMA LockStep == LockInv /\ [Next]_vars => LockInv'
<1> SUFFICES ASSUME LockInv, [Next]_vars, ~released'
             PROVE  OneFile' /\ Exclusive'
  BY TypeStep DEF LockInv, OneFile, ExclusiveUntilReleased
<1>t. TypeOK /\ TypeOK'
  BY TypeStep DEF LockInv
<1>1. ASSUME NEW p \in Processes, Step(p) \/ Die(p)
      PROVE  OneFile' /\ Exclusive'
  <2>1. ~Unlink(p)
    BY DEF Unlink
  <2>2. /\ ~released
        /\ \A q \in Processes :
             /\ pc[q] # "out" => name # NoFile /\ file[q] = name
             /\ pc[q] # "unlinked"
        /\ Exclusive
    BY <1>1, <2>1 DEF Step, Open, Flock, Refuse, Unlock, OrphanEnds, Die,
       LockInv, OneFile, ExclusiveUntilReleased
  <2>3. CASE Open(p)
    <3>1. \A q \in Processes : q # p => pc'[q] = pc[q] /\ file'[q] = file[q]
      BY <1>t, <2>3 DEF Open, TypeOK
    <3>2. pc'[p] = "opened" /\ name' \in Inodes /\ file'[p] = name'
      BY <1>t, <2>3 DEF Open, TypeOK
    <3>3. name # NoFile => name' = name
      BY <2>3 DEF Open
    <3>4. OneFile'
      BY <2>2, <3>1, <3>2, <3>3, InodesAssumption DEF OneFile
    <3>5. Exclusive'
      BY <2>2, <3>1, <3>2 DEF Exclusive, Inside
    <3>6. QED
      BY <3>4, <3>5
  <2>4. CASE Flock(p)
    <3>1. \A q \in Processes : q # p => pc'[q] = pc[q]
      BY <1>t, <2>4 DEF Flock, TypeOK
    <3>2. pc'[p] = "inside" /\ pc[p] = "opened" /\ UNCHANGED <<file, name>>
      BY <1>t, <2>4 DEF Flock, TypeOK
    <3>3. Inside = {}
      BY <2>2, <2>4 DEF Flock, Free, Holds, Inside
    <3>4. OneFile'
      BY <2>2, <3>1, <3>2 DEF OneFile
    <3>5. Exclusive'
      BY <3>1, <3>2, <3>3 DEF Exclusive, Inside
    <3>6. QED
      BY <3>4, <3>5
  <2>5. CASE Refuse(p) \/ Unlock(p) \/ OrphanEnds(p) \/ Die(p)
    <3>1. \A q \in Processes : q # p => pc'[q] = pc[q] /\ file'[q] = file[q]
      BY <1>t, <2>5 DEF Refuse, Unlock, OrphanEnds, Die, Close, TypeOK
    <3>2. \/ pc'[p] = "out"
          \/ pc[p] = "inside" /\ pc'[p] = "orphan" /\ file'[p] = file[p]
      BY <1>t, <2>5 DEF Refuse, Unlock, OrphanEnds, Die, Close, TypeOK
    <3>3. name' = name
      BY <2>5 DEF Refuse, Unlock, OrphanEnds, Die
    <3>4. OneFile'
      BY <2>2, <3>1, <3>2, <3>3 DEF OneFile
    <3>5. Inside' \subseteq Inside
      BY <3>1, <3>2 DEF Inside
    <3>6. Exclusive'
      BY <2>2, <3>5 DEF Exclusive
    <3>7. QED
      BY <3>4, <3>6
  <2>6. QED
    BY <1>1, <2>1, <2>3, <2>4, <2>5 DEF Step
<1>2. CASE UNCHANGED vars
  BY <1>2 DEF vars, LockInv, OneFile, ExclusiveUntilReleased, Exclusive, Inside
<1>3. QED
  BY <1>1, <1>2 DEF Next

\* Every process stays in one of the stages of the lock, and the name of the
\* lock file and what each holds open are files.
THEOREM TypeCorrect == Spec => []TypeOK
<1>1. LockInv => TypeOK
  BY DEF LockInv
<1>2. QED
  BY LockInit, LockStep, <1>1, PTL DEF Spec

\* However many processes compete, and however many of them are killed, no two
\* are inside together before the lock is given back for the first time.
THEOREM KilledHoldersExclude == Spec => []ExclusiveUntilReleased
<1>1. LockInv => ExclusiveUntilReleased
  BY DEF LockInv
<1>2. QED
  BY LockInit, LockStep, <1>1, PTL DEF Spec

=============================================================================
