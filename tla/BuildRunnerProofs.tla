-------------------------- MODULE BuildRunnerProofs --------------------------
(* Theorems about BuildRunner, for every value of its constants. *)
EXTENDS BuildRunner, TLAPS

-----------------------------------------------------------------------------
(* Type correctness.  A step keeps the type of the disk if every value it     *)
(* writes has a type; the values are typed one by one in the lemmas.          *)

TypeInv == DiskTypeOK /\ RunTypeOK /\ Position

LEMMA ValuesTyped ==
  ASSUME DiskTypeOK, NEW s \in Specs
  PROVE  /\ recipe[s] \in Recipes
         /\ Src(s) \in Sources
         /\ DirOf(s) \in Dirs
         /\ StampOf(s) \in 0..Len(Stages)
         /\ tree[s][DirOf(s)] \in Content \cup {Missing}
<1>1. recipe[s] \in Recipes
  BY DEF DiskTypeOK
<1>2. Src(s) \in Sources
  BY <1>1 DEF Src, Sources
<1>3. DirOf(s) \in Dirs
  BY <1>2 DEF DirOf, Dirs, Src
<1>4. stamp[s] \in [Sources -> 0..Len(Stages)] /\ tree[s] \in [Dirs -> Content \cup {Missing}]
  BY DEF DiskTypeOK
<1>5. QED
  BY <1>1, <1>2, <1>3, <1>4 DEF StampOf

LEMMA CurTyped ==
  ASSUME TypeInv, pc \in Working \/ (pc = "build" /\ next <= Len(Order))
  PROVE  Cur \in Specs /\ next \in 1..Len(Order)
<1>1. Len(Order) \in Nat
  BY SpecsAssumption
<1>2. next \in 1..Len(Order)
  BY <1>1 DEF TypeInv, Position
<1>3. QED
  BY <1>2, SpecsAssumption DEF Cur

LEMMA ContentTyped ==
  /\ Missing \notin Content
  /\ \A r \in Recipes : Pure(r) \in Content
  /\ \A c \in Content \cup {Missing} : Made(c) \in Content
  /\ \A c \in Content \cup {Missing} : [Made(c) EXCEPT !.torn = TRUE] \in Content
  /\ \A c \in Content, r \in Recipes :
       [recipes |-> c.recipes \cup {r}, torn |-> c.torn] \in Content
BY ValuesAssumption DEF Content, Pure, Made

LEMMA DiskUnchanged == DiskTypeOK /\ UNCHANGED disk => DiskTypeOK'
BY DEF DiskTypeOK, disk

LEMMA DiskInit == Init => DiskTypeOK
<1>1. 0 \in 0..Len(Stages)
  BY StagesAssumption
<1>2. QED
  BY <1>1 DEF Init, DiskTypeOK

LEMMA RunInit == Init => RunTypeOK /\ Position
<1>1. Len(Order) \in Nat
  BY SpecsAssumption
<1>2. Init => RunTypeOK
  <2> SUFFICES ASSUME Init PROVE RunTypeOK
    OBVIOUS
  <2>1. tainted \in BOOLEAN /\ checksums \in [Specs -> Checksum \cup {Missing}]
    BY DEF Init
  <2>2. edits \in 0..MaxEdits /\ wipes \in 0..MaxWipes /\ aborts \in 0..MaxAborts
    BY ValuesAssumption DEF Init
  <2>3. options \in OptionSets \cup {NoOptions} /\ failed \subseteq Specs
    BY DEF Init
  <2>4. next \in 0..(Len(Order) + 1) /\ left \subseteq 1..Len(Stages) /\ step \in Nat
    BY <1>1 DEF Init
  <2>5. QED
    BY <2>1, <2>2, <2>3, <2>4 DEF RunTypeOK, Init
<1>3. Init => Position
  BY DEF Init, Position, Working
<1>4. QED
  BY <1>2, <1>3

\* What the end of a run, and a step that changes none of the variables of the
\* run but pc, next and step, leave behind.
LEMMA RunEnds ==
  ASSUME RunTypeOK, EndRun("idle") \/ EndRun("done"),
         edits' = edits, wipes' = wipes, aborts' \in 0..MaxAborts
  PROVE  RunTypeOK' /\ Position'
<1>1. Len(Order) \in Nat
  BY SpecsAssumption
<1>2. RunTypeOK'
  <2>1. tainted' \in BOOLEAN /\ checksums' \in [Specs -> Checksum \cup {Missing}]
    BY DEF EndRun
  <2>2. options' \in OptionSets \cup {NoOptions} /\ failed' \subseteq Specs
    BY DEF EndRun
  <2>3. next' \in 0..(Len(Order) + 1) /\ left' \subseteq 1..Len(Stages) /\ step' \in Nat
    BY <1>1 DEF EndRun
  <2>4. QED
    BY <2>1, <2>2, <2>3 DEF RunTypeOK, EndRun
<1>3. Position'
  BY DEF Position, Working, EndRun
<1>4. QED
  BY <1>2, <1>3

-----------------------------------------------------------------------------
LEMMA DiskNext == TypeInv /\ [Next]_vars => DiskTypeOK'
<1> SUFFICES ASSUME TypeInv, [Next]_vars PROVE DiskTypeOK'
  OBVIOUS
<1> DiskTypeOK /\ RunTypeOK
  BY DEF TypeInv
<1>a. 0 \in 0..Len(Stages)
  BY StagesAssumption
<1>1. CASE UNCHANGED disk
  BY <1>1, DiskUnchanged
<1>2. ASSUME NEW s \in Specs, NEW r \in Recipes, Edit(s, r) PROVE DiskTypeOK'
  BY <1>2 DEF Edit, DiskTypeOK
<1>3. ASSUME NEW s \in Specs, Wipe(s) PROVE DiskTypeOK'
  <2>1. /\ stamp' \in [Specs -> [Sources -> 0..Len(Stages)]]
        /\ tree' \in [Specs -> [Dirs -> Content \cup {Missing}]]
        /\ checksum' \in [Specs -> Checksum \cup {Missing}]
    BY <1>3, <1>a DEF Wipe, DiskTypeOK
  <2>2. ball' \in [Package -> [Dirs -> Content \cup {Missing, Damaged}]]
    BY <1>3 DEF Wipe, DiskTypeOK
  <2>3. hdr' \in [Package -> Sources \cup {Missing, Damaged}]
    BY <1>3 DEF Wipe, DiskTypeOK
  <2>4. QED
    BY <1>3, <2>1, <2>2, <2>3 DEF Wipe, DiskTypeOK
<1>4. ASSUME LockedOut \/ \E o \in OptionSets : Begin(o) PROVE DiskTypeOK'
  <2>1. \A s \in Specs : [stamp[s] EXCEPT ![Src(s)] = 0] \in [Sources -> 0..Len(Stages)]
    BY <1>a DEF DiskTypeOK
  <2>2. Unstamped \in [Specs -> [Sources -> 0..Len(Stages)]]
    BY <2>1 DEF Unstamped
  <2>3. stamp' \in [Specs -> [Sources -> 0..Len(Stages)]]
    BY <1>4, <2>2 DEF LockedOut, Begin, DiskTypeOK
  <2>4. QED
    BY <1>4, <2>3 DEF LockedOut, Begin, DiskTypeOK
<1>5. CASE UninstallOutdated
  <2>1. \A p : [installed EXCEPT ![p] = Missing] \in [Package -> Content \cup {Missing}]
    BY DEF DiskTypeOK
  <2>2. installed' \in [Package -> Content \cup {Missing}]
    BY <1>5, <2>1 DEF UninstallOutdated
  <2>3. QED
    BY <1>5, <2>2 DEF UninstallOutdated, DiskTypeOK
<1>6. CASE RunStage
  <2>1. Cur \in Specs
    BY <1>6, CurTyped DEF RunStage, Executing, Working
  <2>2. AfterStage(Cur) \in Content
    BY <2>1, ValuesTyped, ContentTyped DEF AfterStage
  <2>3. [tree[Cur] EXCEPT ![DirOf(Cur)] = AfterStage(Cur)] \in [Dirs -> Content \cup {Missing}]
    BY <2>1, <2>2 DEF DiskTypeOK
  <2>4. QED
    BY <1>6, <2>3 DEF RunStage, DiskTypeOK
<1>7. CASE CreateTarball
  <2>1. Cur \in Specs
    BY <1>7, CurTyped DEF CreateTarball, Executing, Working
  <2>2. Made(tree[Cur][DirOf(Cur)]) \in Content
    BY <2>1, ValuesTyped, ContentTyped
  <2>3. QED
    BY <1>7, <2>2 DEF CreateTarball, DiskTypeOK
<1>8. CASE DumpHeader
  <2>1. Cur \in Specs
    BY <1>8, CurTyped DEF DumpHeader, Executing, Working
  <2>2. Src(Cur) \in Sources
    BY <2>1, ValuesTyped
  <2>3. QED
    BY <1>8, <2>2 DEF DumpHeader, DiskTypeOK
<1>9. CASE SetDone
  <2>1. Cur \in Specs
    BY <1>9, CurTyped DEF SetDone, Executing, Working
  <2>2. Here \in 0..Len(Stages)
    BY <1>9, StagesAssumption DEF SetDone, Executing, Here, RunTypeOK
  <2>3. [stamp[Cur] EXCEPT ![Src(Cur)] = Here] \in [Sources -> 0..Len(Stages)]
    BY <2>1, <2>2 DEF DiskTypeOK
  <2>4. QED
    BY <1>9, <2>3 DEF SetDone, DiskTypeOK
<1>10. CASE Clean
  <2>1. Cur \in Specs
    BY <1>10, CurTyped DEF Clean, Executing, Working
  <2>2. [stamp[Cur] EXCEPT ![Src(Cur)] = 0] \in [Sources -> 0..Len(Stages)]
    BY <2>1, <1>a DEF DiskTypeOK
  <2>3. [tree[Cur] EXCEPT ![DirOf(Cur)] = Missing] \in [Dirs -> Content \cup {Missing}]
    BY <2>1 DEF DiskTypeOK
  <2>4. QED
    BY <1>10, <2>2, <2>3 DEF Clean, DiskTypeOK
<1>11. CASE RenameChecksum
  BY <1>11 DEF RenameChecksum, DiskTypeOK
<1>12. CASE WriteChecksum
  <2>1. Cur \in Specs
    BY <1>12, CurTyped DEF WriteChecksum, Working
  <2>2. checksums[Cur] \in Checksum \cup {Missing}
    BY <2>1 DEF RunTypeOK
  <2>3. QED
    BY <1>12, <2>2 DEF WriteChecksum, DiskTypeOK
<1>13. CASE RemoveStamp
  <2>1. Cur \in Specs
    BY <1>13, CurTyped DEF RemoveStamp, Working
  <2>2. [stamp[Cur] EXCEPT ![Src(Cur)] = 0] \in [Sources -> 0..Len(Stages)]
    BY <2>1, <1>a DEF DiskTypeOK
  <2>3. QED
    BY <1>13, <2>2 DEF RemoveStamp, DiskTypeOK
<1>14. CASE RemoveRival
  <2>1. \A p : [installed EXCEPT ![p] = Missing] \in [Package -> Content \cup {Missing}]
    BY DEF DiskTypeOK
  <2>2. installed' \in [Package -> Content \cup {Missing}]
    BY <1>14, <2>1 DEF RemoveRival
  <2>3. QED
    BY <1>14, <2>2 DEF RemoveRival, DiskTypeOK
<1>15. CASE InstallPackage
  <2>1. Cur \in Specs
    BY <1>15, CurTyped DEF InstallPackage, Installing, Working
  <2>2. Pkg \in Package => ball[Pkg][DirOf(Cur)] \in Content \cup {Missing, Damaged}
    BY <2>1, ValuesTyped DEF DiskTypeOK
  <2>3. Pkg \in Package => ball[Pkg][DirOf(Cur)] \in Content
    BY <1>15, <2>2 DEF InstallPackage, Unpackable, Pkg
  <2>4. installed' \in [Package -> Content \cup {Missing}]
    BY <1>15, <2>3 DEF InstallPackage, DiskTypeOK, Pkg
  <2>5. QED
    BY <1>15, <2>4 DEF InstallPackage, DiskTypeOK
<1>16. CASE Kill
  BY <1>16 DEF Kill, Die, DiskTypeOK
<1>17. CASE FailCommand
  <2>1. Cur \in Specs
    BY <1>17, CurTyped DEF FailCommand, Executing, Working
  <2>2. tree' \in [Specs -> [Dirs -> Content \cup {Missing}]]
    <3>1. [Made(tree[Cur][DirOf(Cur)]) EXCEPT !.torn = TRUE] \in Content
      BY <2>1, ValuesTyped, ContentTyped
    <3>2. [tree[Cur] EXCEPT ![DirOf(Cur)] = [Made(@) EXCEPT !.torn = TRUE]]
            \in [Dirs -> Content \cup {Missing}]
      BY <2>1, <3>1 DEF DiskTypeOK
    <3>3. QED
      BY <1>17, <3>2 DEF FailCommand, Die, Tear, DiskTypeOK
  <2>3. [stamp[Cur] EXCEPT ![Src(Cur)] = 0] \in [Sources -> 0..Len(Stages)]
    BY <2>1, <1>a DEF DiskTypeOK
  <2>4. stamp' \in [Specs -> [Sources -> 0..Len(Stages)]]
    BY <1>17, <2>3 DEF FailCommand, Die, CutShort, DiskTypeOK
  <2>5. ball' \in [Package -> [Dirs -> Content \cup {Missing, Damaged}]]
    <3>1. \A p \in Package : [ball[p] EXCEPT ![DirOf(Cur)] = Damaged]
                              \in [Dirs -> Content \cup {Missing, Damaged}]
      BY DEF DiskTypeOK
    <3>2. [ball EXCEPT ![Packing][DirOf(Cur)] = Damaged]
            \in [Package -> [Dirs -> Content \cup {Missing, Damaged}]]
      BY <3>1 DEF DiskTypeOK
    <3>3. QED
      BY <1>17, <3>2 DEF FailCommand, Die, CutShort, DiskTypeOK
  <2>6. hdr' \in [Package -> Sources \cup {Missing, Damaged}]
    BY <1>17 DEF FailCommand, Die, CutShort, DiskTypeOK
  <2>7. QED
    BY <1>17, <2>2, <2>4, <2>5, <2>6 DEF FailCommand, Die, DiskTypeOK
<1>18. QED
  BY <1>1, <1>2, <1>3, <1>4, <1>5, <1>6, <1>7, <1>8, <1>9, <1>10, <1>11, <1>12,
     <1>13, <1>14, <1>15, <1>16, <1>17
  DEF Next, Run, vars, CalculateChecksums, BadHeader, UninstalledAll, SkipSpec,
      StartBuild, StartInstall, Finish, RefusePackage, Executed, BrokenChecksum,
      KeepPackage, BadBall, InstalledSpec

-----------------------------------------------------------------------------
LEMMA RunNext == TypeInv /\ [Next]_vars => RunTypeOK' /\ Position'
<1> SUFFICES ASSUME TypeInv, [Next]_vars PROVE RunTypeOK' /\ Position'
  OBVIOUS
<1> DiskTypeOK /\ RunTypeOK /\ Position
  BY DEF TypeInv
<1> Len(Order) \in Nat
  BY SpecsAssumption
<1> USE DEF RunTypeOK, Position, Working, loop, bounds
<1>1. ASSUME NEW s \in Specs, NEW r \in Recipes, Edit(s, r) PROVE RunTypeOK' /\ Position'
  BY <1>1, ValuesAssumption DEF Edit
<1>2. ASSUME NEW s \in Specs, Wipe(s) PROVE RunTypeOK' /\ Position'
  BY <1>2, ValuesAssumption DEF Wipe
<1>3. ASSUME NEW o \in OptionSets, Begin(o) PROVE RunTypeOK' /\ Position'
  BY <1>3 DEF Begin
<1>0. CASE LockedOut
  BY <1>0, ValuesAssumption DEF LockedOut
<1>4. CASE CalculateChecksums
  <2>1. \A s \in Specs : DryRunChecksum(s) \in Checksum
    BY ValuesTyped DEF DryRunChecksum, Checksum
  <2>2. QED
    BY <1>4, <2>1 DEF CalculateChecksums
<1>5. CASE UninstallOutdated
  BY <1>5 DEF UninstallOutdated
<1>6. CASE UninstalledAll
  BY <1>6 DEF UninstalledAll, Goto
<1>7. CASE SkipSpec \/ InstalledSpec
  <2>1. next \in 1..Len(Order)
    BY <1>7, CurTyped DEF SkipSpec, InstalledSpec
  <2>2. next' \in 1..(Len(Order) + 1)
    BY <1>7, <2>1 DEF SkipSpec, InstalledSpec, NextSpec
  <2>3. pc' = "build" /\ step' = 0 /\ UNCHANGED <<loop, left, tainted, bounds>>
    BY <1>7 DEF SkipSpec, InstalledSpec, NextSpec, Goto
  <2>4. QED
    BY <2>2, <2>3
<1>8. CASE StartBuild
  BY <1>8 DEF StartBuild
<1>9. CASE StartInstall
  BY <1>9 DEF StartInstall, Goto
<1>10. CASE Finish \/ BadHeader \/ RefusePackage \/ BrokenChecksum \/ BadBall
  BY <1>10, RunEnds
  DEF Finish, BadHeader, RefusePackage, BrokenChecksum, BadBall
<1>11. CASE RunStage \/ CreateTarball \/ DumpHeader
  BY <1>11 DEF RunStage, CreateTarball, DumpHeader, Executing
<1>12. CASE SetDone \/ Clean
  BY <1>12 DEF SetDone, Clean, Executing
<1>13. CASE Executed \/ RenameChecksum \/ WriteChecksum
  BY <1>13 DEF Executed, RenameChecksum, WriteChecksum, Goto
<1>14. CASE RemoveStamp
  BY <1>14 DEF RemoveStamp, NextSpec, Goto
<1>15. CASE KeepPackage \/ RemoveRival \/ InstallPackage
  <2>1. pc = "install" /\ step' \in {step, step + 1}
    BY <1>15 DEF KeepPackage, RemoveRival, InstallPackage, Installing
  <2>2. step' \in Nat \ {0}
    BY <2>1
  <2>3. UNCHANGED <<pc, loop, next, left, tainted, bounds>>
    BY <1>15 DEF KeepPackage, RemoveRival, InstallPackage
  <2>4. QED
    BY <2>2, <2>3
<1>16. CASE Kill \/ FailCommand
  <2>1. aborts' \in 0..MaxAborts
    BY <1>16, ValuesAssumption DEF Kill, FailCommand, Die
  <2>2. QED
    BY <1>16, <2>1, RunEnds DEF Kill, FailCommand, Die
<1>17. CASE UNCHANGED vars
  BY <1>17 DEF vars
<1>18. QED
  BY <1>0, <1>1, <1>2, <1>3, <1>4, <1>5, <1>6, <1>7, <1>8, <1>9, <1>10, <1>11, <1>12,
     <1>13, <1>14, <1>15, <1>16, <1>17
  DEF Next, Run

LEMMA TypeInvariant == Spec => []TypeInv
<1>1. Init => TypeInv
  BY DiskInit, RunInit DEF TypeInv
<1>2. TypeInv /\ [Next]_vars => TypeInv'
  BY DiskNext, RunNext DEF TypeInv
<1>3. QED
  BY <1>1, <1>2, PTL DEF Spec

THEOREM TypeCorrect == Spec => []TypeOK
<1>1. TypeInv => TypeOK
  BY DEF TypeInv, TypeOK
<1>2. QED
  BY <1>1, TypeInvariant, PTL

-----------------------------------------------------------------------------
(* No tainted ball.  NoTaintedBall alone is not inductive: a packaging run    *)
(* must know that the tree it packs is pure.  It knows because a build that   *)
(* is not tainted began by unpacking (UntaintedTree) and because a tainted    *)
(* one never takes the second command of packaging (PackagingIsUntainted).    *)

NoForce == \A o \in OptionSets : ~o.force_package

BallInv == NoTaintedBall /\ UntaintedTree /\ PackagingIsUntainted

LEMMA FirstStage ==
  ASSUME RunTypeOK, Executing
  PROVE  /\ Here \in left /\ \A j \in left : Here <= j
         /\ Here \in 1..Len(Stages)
         /\ 1 \in left => Here = 1 /\ Stage = "untar"
<1>1. Here \in left /\ \A j \in left : Here <= j
  BY DEF Executing, Here
<1>2. left \subseteq 1..Len(Stages) /\ Len(Stages) \in Nat
  BY StagesAssumption DEF RunTypeOK
<1>3. 1 \in left => Here = 1
  BY <1>1, <1>2
<1>4. QED
  BY <1>1, <1>2, <1>3, StagesAssumption DEF Stage

LEMMA PureAgain ==
  ASSUME NEW r \in Recipes
  PROVE  /\ Made(Pure(r)) = Pure(r)
         /\ [recipes |-> Pure(r).recipes \cup {r}, torn |-> Pure(r).torn] = Pure(r)
<1>1. Pure(r) # Missing
  BY ContentTyped
<1>2. Pure(r).recipes \cup {r} = {r} /\ Pure(r).torn = FALSE
  BY DEF Pure
<1>3. QED
  BY <1>1, <1>2 DEF Made, Pure

\* The tree that an untainted build packs.
LEMMA PackedTree ==
  ASSUME NoForce, TypeInv, BallInv, Executing, Stage = "package", ~Refused
  PROVE  /\ ~tainted
         /\ Cur \notin Tracking =>
              tree[Cur][DirOf(Cur)] = Pure(recipe[Cur])
<1>1. ~options.force_package
  BY DEF TypeInv, RunTypeOK, NoForce, NoOptions
<1>2. ~tainted
  BY <1>1 DEF Refused, BallInv, PackagingIsUntainted
<1>3. left # {} /\ 1 \notin left
  BY FirstStage DEF Executing, TypeInv
<1>4. pc = "exec"
  BY DEF Executing
<1>5. QED
  BY <1>2, <1>3, <1>4 DEF BallInv, UntaintedTree

LEMMA BallInit == Init => BallInv
BY DEF Init, BallInv, NoTaintedBall, UntaintedTree, PackagingIsUntainted, Executing

\* Outside `exec' only NoTaintedBall has to be looked at.
LEMMA NotExecuting == pc # "exec" => UntaintedTree /\ PackagingIsUntainted
BY DEF UntaintedTree, PackagingIsUntainted, Executing

LEMMA BallNext ==
  ASSUME NoForce, TypeInv, BallInv, [Next]_vars
  PROVE  BallInv'
<1> DiskTypeOK /\ RunTypeOK /\ Position
  BY DEF TypeInv
<1>a. UNCHANGED ball => NoTaintedBall'
  BY DEF BallInv, NoTaintedBall
<1>b. pc' # "exec" => UntaintedTree' /\ PackagingIsUntainted'
  BY DEF UntaintedTree, PackagingIsUntainted, Executing
<1>1. CASE UNCHANGED ball /\ pc' # "exec"
  BY <1>1, <1>a, <1>b DEF BallInv
<1>2. ASSUME NEW s \in Specs, Wipe(s) PROVE BallInv'
  <2>1. pc' # "exec"
    BY <1>2 DEF Wipe
  <2>2. NoTaintedBall'
    BY <1>2 DEF Wipe, BallInv, NoTaintedBall
  <2>3. QED
    BY <2>1, <2>2, <1>b DEF BallInv
<1>3. CASE StartBuild
  <2>1. ASSUME ~tainted' PROVE 1 \in left'
    <3>1. Cur \in Specs
      BY <1>3, CurTyped DEF StartBuild
    <3>2. StampOf(Cur) \in 0..Len(Stages)
      BY <3>1, ValuesTyped
    <3>3. "untar" \notin Skip
      BY DEF Skip
    <3>4. ~\E i \in 1..StampOf(Cur) : Stages[i] \notin Skip
      BY <1>3, <2>1 DEF StartBuild
    <3>5. StampOf(Cur) = 0
      BY <3>2, <3>3, <3>4, StagesAssumption
    <3>6. 1 \in 1..Len(Stages) /\ 1 > StampOf(Cur) /\ Stages[1] \notin Skip
      BY <3>3, <3>5, StagesAssumption
    <3>7. QED
      BY <1>3, <3>6 DEF StartBuild
  <2>2. step' = 0 /\ UNCHANGED ball
    BY <1>3 DEF StartBuild, disk
  <2>3. UntaintedTree'
    BY <2>1, <2>2 DEF UntaintedTree
  <2>4. PackagingIsUntainted'
    BY <2>2 DEF PackagingIsUntainted
  <2>5. QED
    BY <1>a, <2>2, <2>3, <2>4 DEF BallInv
<1>4. CASE RunStage
  <2>1. Executing /\ Cur \in Specs
    BY <1>4, CurTyped DEF RunStage, Executing, Working
  <2>2. Cur' = Cur /\ DirOf(Cur)' = DirOf(Cur) /\ recipe'[Cur] = recipe[Cur]
    BY <1>4 DEF RunStage, Cur, DirOf
  <2>3. recipe[Cur] \in Recipes /\ DirOf(Cur) \in Dirs
    BY <2>1, ValuesTyped
  <2>4. ASSUME ~tainted', Cur \notin Tracking
        PROVE  AfterStage(Cur) = Pure(recipe[Cur])
    <3>1. CASE Stage = "untar"
      BY <3>1, <2>4 DEF AfterStage
    <3>2. CASE Stage # "untar"
      <4>1. 1 \notin left /\ left # {}
        BY <3>2, <2>1, FirstStage
      <4>2. pc = "exec" /\ ~tainted
        BY <1>4, <2>4 DEF RunStage, Executing
      <4>3. tree[Cur][DirOf(Cur)] = Pure(recipe[Cur])
        BY <4>1, <4>2, <2>4 DEF BallInv, UntaintedTree
      <4>4. QED
        BY <4>3, <3>2, <2>3, PureAgain DEF AfterStage
    <3>3. QED
      BY <3>1, <3>2
  <2>5. tree'[Cur][DirOf(Cur)] = AfterStage(Cur)
    BY <1>4, <2>1, <2>3 DEF RunStage, DiskTypeOK
  <2>6. UntaintedTree'
    BY <2>2, <2>4, <2>5 DEF UntaintedTree
  <2>7. Stage' # "package"
    BY <1>4 DEF RunStage, Stage, Here
  <2>8. UNCHANGED ball
    BY <1>4 DEF RunStage
  <2>9. QED
    BY <1>a, <2>6, <2>7, <2>8 DEF BallInv, PackagingIsUntainted
<1>5. CASE CreateTarball
  <2>1. /\ Executing /\ Stage = "package" /\ ~Refused
        /\ UNCHANGED <<recipe, tree, pc, next, left, tainted>>
    BY <1>5 DEF CreateTarball
  <2>2. Cur \in Specs
    BY <2>1, CurTyped DEF Executing, Working
  <2>3. ~tainted /\ (Cur \notin Tracking => tree[Cur][DirOf(Cur)] = Pure(recipe[Cur]))
    BY <2>1, PackedTree
  <2>4. NoTaintedBall'
    <3>1. recipe[Cur] \in Recipes
      BY <2>2, ValuesTyped
    <3>2. Packing[1] = Cur
      BY DEF Packing
    <3>3. Cur \notin Tracking => Made(tree[Cur][DirOf(Cur)]) = Pure(recipe[Cur])
      BY <2>3, <3>1, PureAgain
    <3>4. ball' = [ball EXCEPT ![Packing][DirOf(Cur)] = Made(tree[Cur][DirOf(Cur)])]
      BY <1>5 DEF CreateTarball
    <3>5. QED
      BY <3>1, <3>2, <3>3, <3>4 DEF BallInv, NoTaintedBall, DiskTypeOK
  <2>5. Cur' = Cur /\ DirOf(Cur)' = DirOf(Cur)
    BY <2>1 DEF Cur, DirOf
  <2>6. UntaintedTree'
    BY <2>1, <2>3, <2>5 DEF UntaintedTree
  <2>7. PackagingIsUntainted'
    BY <2>1, <2>3 DEF PackagingIsUntainted
  <2>8. QED
    BY <2>4, <2>6, <2>7 DEF BallInv
<1>6. CASE DumpHeader
  <2>1. /\ Executing /\ Stage = "package" /\ step # 0
        /\ UNCHANGED <<recipe, tree, ball, pc, next, left, tainted>>
    BY <1>6 DEF DumpHeader, RunTypeOK
  <2>2. ~tainted /\ (Cur \notin Tracking => tree[Cur][DirOf(Cur)] = Pure(recipe[Cur]))
    BY <2>1, PackedTree DEF Refused
  <2>3. Cur' = Cur /\ DirOf(Cur)' = DirOf(Cur)
    BY <2>1 DEF Cur, DirOf
  <2>4. UntaintedTree'
    BY <2>1, <2>2, <2>3 DEF UntaintedTree
  <2>5. PackagingIsUntainted'
    BY <2>1, <2>2 DEF PackagingIsUntainted
  <2>6. QED
    BY <1>a, <2>1, <2>4, <2>5 DEF BallInv
<1>7. CASE SetDone
  <2>1. /\ Executing /\ step = LastStep /\ step' = 0
        /\ UNCHANGED <<recipe, tree, ball, pc, next, tainted>>
    BY <1>7 DEF SetDone
  <2>2. ~(1 \in left /\ step = 0) /\ left # {} /\ pc = "exec"
    BY <2>1, FirstStage DEF LastStep, Executing
  <2>3. Cur' = Cur /\ DirOf(Cur)' = DirOf(Cur)
    BY <2>1 DEF Cur, DirOf
  <2>4. UntaintedTree'
    BY <2>1, <2>2, <2>3 DEF BallInv, UntaintedTree
  <2>5. QED
    BY <1>a, <2>1, <2>4 DEF BallInv, PackagingIsUntainted
<1>8. CASE Clean
  <2>1. Executing /\ Stage = "clean" /\ left' = left \ {Here}
    BY <1>8 DEF Clean
  <2>2. Here \in left /\ left \subseteq 1..Len(Stages) /\ \A j \in left : Here <= j
    BY <2>1, FirstStage DEF RunTypeOK
  <2>3. \A j \in left : j = Here
    BY <2>1, <2>2, StagesAssumption DEF Stage
  <2>4. left' = {}
    BY <2>1, <2>3
  <2>5. UNCHANGED ball
    BY <1>8 DEF Clean
  <2>6. QED
    BY <1>a, <2>4, <2>5
    DEF BallInv, UntaintedTree, PackagingIsUntainted, Executing
<1>9. CASE FailCommand
  <2>1. pc' # "exec"
    BY <1>9 DEF FailCommand, Die, EndRun
  <2>2. \/ UNCHANGED ball
        \/ ball' = [ball EXCEPT ![Packing][DirOf(Cur)] = Damaged]
    BY <1>9 DEF FailCommand, Die, CutShort
  <2>3. NoTaintedBall'
    BY <2>2 DEF BallInv, NoTaintedBall, DiskTypeOK
  <2>4. QED
    BY <2>1, <2>3, <1>b DEF BallInv
<1>10. CASE LockedOut \/ UNCHANGED vars
  <2>1. UNCHANGED <<recipe, tree, ball, pc, next, left, step, tainted>>
    BY <1>10 DEF LockedOut, vars, disk, loop
  <2>2. UntaintedTree'
    BY <2>1 DEF BallInv, UntaintedTree, Cur, DirOf
  <2>3. PackagingIsUntainted'
    BY <2>1 DEF BallInv, PackagingIsUntainted, Executing, Stage, Here
  <2>4. QED
    BY <2>1, <2>2, <2>3, <1>a DEF BallInv
<1>11. QED
  BY <1>1, <1>2, <1>3, <1>4, <1>5, <1>6, <1>7, <1>8, <1>9, <1>10
  DEF Next, Run, disk, Edit, Begin, CalculateChecksums, BadHeader,
      UninstallOutdated, UninstalledAll, SkipSpec, NextSpec, Goto, StartInstall,
      Finish, RefusePackage, Executed, BrokenChecksum, RenameChecksum,
      WriteChecksum, RemoveStamp, KeepPackage, RemoveRival, InstallPackage,
      Installing, BadBall, InstalledSpec, Kill, Die, EndRun

\* Build.build: without --force-package no interrupted compile is packaged.
THEOREM NeverTainted == ASSUME NoForce PROVE Spec => []NoTaintedBall
<1>1. Init => TypeInv /\ BallInv
  BY DiskInit, RunInit, BallInit DEF TypeInv
<1>2. TypeInv /\ BallInv /\ [Next]_vars => TypeInv' /\ BallInv'
  BY DiskNext, RunNext, BallNext, NoForce DEF TypeInv
<1>3. BallInv => NoTaintedBall
  BY DEF BallInv
<1>4. QED
  BY <1>1, <1>2, <1>3, PTL DEF Spec

-----------------------------------------------------------------------------
(* What is being rebuilt is outside the system root.                          *)

RootInv == RebuiltOutsideRoot /\ RebuiltLater

\* Order has no duplicates, so nothing done to the present build concerns one
\* that is still to come.
LEMMA Later ==
  ASSUME TypeInv, pc \in Working, NEW n \in 1..Len(Order), n > next
  PROVE  Order[n] \in Specs /\ Order[n] # Cur
<1>1. next \in 1..Len(Order) /\ Len(Order) \in Nat
  BY CurTyped, SpecsAssumption
<1>2. n # next
  BY <1>1
<1>3. QED
  BY <1>1, <1>2, SpecsAssumption DEF Cur

LEMMA RootInit == Init => RootInv
BY DEF Init, RootInv, RebuiltOutsideRoot, RebuiltLater, Upcoming, Working

\* A step within one build: it may write that build's packages and remove any
\* package from the system root.
LEMMA RootWithin ==
  ASSUME TypeInv, RootInv, pc \in Working, pc' \in Working \cup {"build"},
         UNCHANGED <<recipe, failed, options>>,
         next' = next \/ next' = next + 1,
         pc' = "build" => next' = next + 1,
         \A p \in Package : p[1] # Cur =>
           /\ ball'[p] = ball[p] /\ hdr'[p] = hdr[p]
           /\ IsInstalled(p)' => IsInstalled(p)
  PROVE  RebuiltLater'
<1> SUFFICES ASSUME NEW n \in Upcoming', MustBuild(Order[n])'
             PROVE  ~AnyInstalled(Order[n])'
  BY DEF RebuiltLater
<1>1. next \in 1..Len(Order) /\ n \in 1..Len(Order) /\ Len(Order) \in Nat
  BY CurTyped, SpecsAssumption DEF Upcoming
<1>2. n > next
  BY <1>1 DEF Upcoming, Working
<1>3. Order[n] \in Specs /\ Order[n] # Cur
  BY <1>1, <1>2, Later
<1>4. \A p \in Packages(Order[n]) : p \in Package /\ p[1] # Cur
  BY <1>3 DEF Packages, Package
<1>5. MustBuild(Order[n])
  BY <1>4 DEF MustBuild, Installable, DirOf
<1>6. ~AnyInstalled(Order[n])
  BY <1>1, <1>2, <1>5 DEF RootInv, RebuiltLater, Upcoming
<1>7. QED
  BY <1>4, <1>6 DEF AnyInstalled

LEMMA RootNext ==
  ASSUME TypeInv, RootInv, [Next]_vars
  PROVE  RootInv'
<1> DiskTypeOK /\ RunTypeOK /\ Position
  BY DEF TypeInv
<1>a. Len(Order) \in Nat
  BY SpecsAssumption
<1>b. pc' \notin Working \cup {"build"} => RootInv'
  BY DEF RootInv, RebuiltOutsideRoot, RebuiltLater, Upcoming, Working
<1>c. pc' # "exec" => RebuiltOutsideRoot'
  BY DEF RebuiltOutsideRoot
<1>1. CASE pc' \notin Working \cup {"build"}
  BY <1>1, <1>b
<1>2. CASE UninstalledAll
  <2>1. /\ OutdatedInstalled = {} /\ pc' = "build" /\ next' = 1
        /\ UNCHANGED <<recipe, failed, options, ball, hdr, installed>>
    BY <1>2 DEF UninstalledAll, Goto, disk, loop
  <2>2. \A n \in 1..Len(Order) : MustBuild(Order[n]) => ~AnyInstalled(Order[n])
    BY <2>1 DEF OutdatedInstalled
  <2>3. RebuiltLater'
    BY <2>1, <2>2 DEF RebuiltLater, Upcoming, MustBuild, Installable, DirOf,
       AnyInstalled, IsInstalled
  <2>4. QED
    BY <2>1, <2>3, <1>c DEF RootInv
<1>3. CASE SkipSpec
  <2>1. /\ pc = "build" /\ pc' = "build" /\ next' = next + 1 /\ next \in 1..Len(Order)
        /\ UNCHANGED <<recipe, failed, options, ball, hdr, installed>>
    BY <1>3, CurTyped DEF SkipSpec, NextSpec, Goto, disk, loop
  <2>2. Upcoming' \subseteq Upcoming
    BY <2>1, <1>a DEF Upcoming, Working
  <2>3. RebuiltLater'
    BY <2>1, <2>2 DEF RootInv, RebuiltLater, MustBuild, Installable, DirOf,
       AnyInstalled, IsInstalled
  <2>4. QED
    BY <2>1, <2>3, <1>c DEF RootInv
<1>4. CASE StartBuild \/ StartInstall
  <2>1. /\ pc = "build" /\ pc' \in {"exec", "install"} /\ next' = next
        /\ next \in 1..Len(Order)
        /\ UNCHANGED <<recipe, failed, options, ball, hdr, installed>>
    BY <1>4, CurTyped DEF StartBuild, StartInstall, Goto, disk, loop
  <2>2. Upcoming' \subseteq Upcoming
    BY <2>1, <1>a DEF Upcoming, Working
  <2>3. RebuiltLater'
    BY <2>1, <2>2 DEF RootInv, RebuiltLater, MustBuild, Installable, DirOf,
       AnyInstalled, IsInstalled
  <2>4. ASSUME pc' = "exec" PROVE ~AnyInstalled(Cur)'
    <3>1. MustBuild(Cur) /\ next \in Upcoming
      BY <1>4, <2>1, <2>4 DEF StartBuild, StartInstall, Goto, Upcoming
    <3>2. ~AnyInstalled(Cur)
      BY <3>1 DEF RootInv, RebuiltLater, Cur
    <3>3. QED
      BY <2>1, <3>2 DEF AnyInstalled, IsInstalled, Cur
  <2>5. QED
    BY <2>3, <2>4 DEF RootInv, RebuiltOutsideRoot
<1>5. CASE RunStage \/ CreateTarball \/ DumpHeader \/ SetDone \/ Clean
  <2>1. /\ pc = "exec" /\ pc' = "exec" /\ next' = next
        /\ UNCHANGED <<recipe, failed, options, installed>>
    BY <1>5 DEF RunStage, CreateTarball, DumpHeader, SetDone, Clean, Executing, loop
  <2>2. \A p \in Package : p[1] # Cur => ball'[p] = ball[p] /\ hdr'[p] = hdr[p]
    BY <1>5 DEF RunStage, CreateTarball, DumpHeader, SetDone, Clean, Packing,
       DiskTypeOK
  <2>3. RebuiltLater'
    BY <2>1, <2>2, RootWithin DEF Working, IsInstalled
  <2>4. RebuiltOutsideRoot'
    BY <2>1 DEF RootInv, RebuiltOutsideRoot, AnyInstalled, IsInstalled, Cur
  <2>5. QED
    BY <2>3, <2>4 DEF RootInv
<1>6. CASE Executed \/ RenameChecksum \/ WriteChecksum \/ KeepPackage
  <2>1. /\ pc \in Working /\ pc' \in Working \ {"exec"} /\ next' = next
        /\ UNCHANGED <<recipe, failed, options, ball, hdr, installed>>
    BY <1>6 DEF Executed, RenameChecksum, WriteChecksum, KeepPackage, Installing,
       Goto, disk, loop, Working
  <2>2. RebuiltLater'
    BY <2>1, RootWithin DEF Working, IsInstalled
  <2>3. QED
    BY <2>1, <2>2, <1>c DEF RootInv
<1>7. CASE RemoveStamp \/ InstalledSpec
  <2>1. /\ pc \in Working /\ UNCHANGED <<recipe, failed, options, ball, hdr, installed>>
        /\ \/ pc' = "build" /\ next' = next + 1
           \/ pc' = "install" /\ next' = next
    BY <1>7 DEF RemoveStamp, InstalledSpec, NextSpec, Goto, disk, loop, Working
  <2>2. RebuiltLater'
    BY <2>1, RootWithin DEF Working, IsInstalled
  <2>3. QED
    BY <2>1, <2>2, <1>c DEF RootInv
<1>8. CASE RemoveRival \/ InstallPackage
  <2>1. /\ pc = "install" /\ pc' = "install" /\ next' = next
        /\ UNCHANGED <<recipe, failed, options, ball, hdr>>
    BY <1>8 DEF RemoveRival, InstallPackage, Installing, loop
  <2>2. \A p \in Package : p[1] # Cur /\ IsInstalled(p)' => IsInstalled(p)
    BY <1>8 DEF RemoveRival, InstallPackage, IsInstalled, Pkg, DiskTypeOK
  <2>3. RebuiltLater'
    BY <2>1, <2>2, RootWithin DEF Working
  <2>4. QED
    BY <2>1, <2>3, <1>c DEF RootInv
<1>9. CASE LockedOut \/ UNCHANGED vars
  BY <1>9 DEF LockedOut, vars, disk, loop, RootInv, RebuiltOutsideRoot, RebuiltLater, Upcoming,
     MustBuild, Installable, DirOf, AnyInstalled, IsInstalled, Cur
<1>10. QED
  BY <1>1, <1>2, <1>3, <1>4, <1>5, <1>6, <1>7, <1>8, <1>9
  DEF Next, Run, Edit, Wipe, Begin, CalculateChecksums, BadHeader,
      UninstallOutdated, Finish, RefusePackage, BrokenChecksum, BadBall, Kill,
      FailCommand, Die, EndRun, Working

\* build_source_packages and spec_build agree: what is rebuilt was removed.
THEOREM AlwaysOutsideRoot == Spec => []RebuiltOutsideRoot
<1>1. Init => TypeInv /\ RootInv
  BY DiskInit, RunInit, RootInit DEF TypeInv
<1>2. TypeInv /\ RootInv /\ [Next]_vars => TypeInv' /\ RootInv'
  BY DiskNext, RunNext, RootNext DEF TypeInv
<1>3. RootInv => RebuiltOutsideRoot
  BY DEF RootInv
<1>4. QED
  BY <1>1, <1>2, <1>3, PTL DEF Spec
-----------------------------------------------------------------------------
(* An honest checksum.  A checksum file that the next dry run can match is    *)
(* that of a build from scratch, and such a build, seen by the dry run with   *)
(* no stage done, still has none done when its turn comes; so it unpacks,     *)
(* packs what it has unpacked, and packs it all before the file is written.   *)

FromScratch(s) == s \notin Tracking /\ checksums[s] = Full(recipe[s])

\* The builds of this run that have not begun.
Waiting(n) == \/ pc = "uninstall"
              \/ pc = "build" /\ n >= next
              \/ pc \in Working /\ n > next
UnbegunInv ==
  \A n \in 1..Len(Order) :
    Waiting(n) /\ FromScratch(Order[n]) => StampOf(Order[n]) = 0

PackStage == CHOOSE i \in 1..Len(Stages) : Stages[i] = "package"

\* Whether subpackage k of the present build has its ball, and its header.
BallMade(k) == PackStage \notin left \/ (Here = PackStage /\ step >= 2 * k - 1)
HdrMade(k)  == PackStage \notin left \/ (Here = PackStage /\ step >= 2 * k)

ScratchTree ==
  left # {} => \/ 1 \in left /\ step = 0
               \/ tree[Cur][DirOf(Cur)] = Pure(recipe[Cur])
ScratchPackages ==
  \A k \in 1..Subs[Cur] :
    /\ BallMade(k) => ball[<<Cur, k>>][DirOf(Cur)] = Pure(recipe[Cur])
    /\ HdrMade(k) => hdr[<<Cur, k>>] = Src(Cur)
Packed(s) == \A p \in Packages(s) : ball[p][DirOf(s)] = Pure(recipe[s]) /\ hdr[p] = Src(s)

PresentInv ==
  /\ pc = "exec" /\ FromScratch(Cur) => ScratchTree /\ ScratchPackages
  /\ pc \in {"record", "certify"} /\ FromScratch(Cur) => Packed(Cur)

HonestInv == UnbegunInv /\ PresentInv

LEMMA PackageStage ==
  /\ PackStage \in 1..Len(Stages) /\ Stages[PackStage] = "package"
  /\ \A i \in 1..Len(Stages) : Stages[i] = "package" => i = PackStage
BY PackageAssumption, StagesAssumption DEF PackStage

LEMMA FullChecksum == \A r \in Recipes : Full(r) \in Checksum /\ Full(r) # Missing
<1>1. 0 \in 0..Len(Stages)
  BY StagesAssumption
<1>2. QED
  BY <1>1, ValuesAssumption DEF Full, Checksum

LEMMA PackageOf ==
  ASSUME NEW s \in Specs, NEW k \in 1..Subs[s]
  PROVE  <<s, k>> \in Package
<1>1. <<s, k>> \in Packages(s)
  BY DEF Packages
<1>2. QED
  BY <1>1 DEF Package

\* The numbers of the commands of packaging.
LEMMA Halves ==
  ASSUME NEW n \in Nat, NEW k \in Nat
  PROVE  /\ n % 2 = 0 => (n + 1 >= 2 * k - 1 => n >= 2 * k - 1 \/ k = n \div 2 + 1)
         /\ n % 2 = 0 => (n + 1 >= 2 * k => n >= 2 * k)
         /\ n % 2 = 1 => (n + 1 >= 2 * k => n >= 2 * k \/ k = n \div 2 + 1)
         /\ n % 2 = 1 => (n + 1 >= 2 * k - 1 => n >= 2 * k - 1)
OBVIOUS
LEMMA UnbegunKept ==
  ASSUME UnbegunInv, UNCHANGED <<recipe, checksums>>,
         \A n \in 1..Len(Order) : Waiting(n)' => Waiting(n),
         \A n \in 1..Len(Order) : Waiting(n)' => stamp'[Order[n]][Src(Order[n])] \in {StampOf(Order[n]), 0}
  PROVE  UnbegunInv'
<1> SUFFICES ASSUME NEW n \in 1..Len(Order), Waiting(n)', FromScratch(Order[n])'
             PROVE  StampOf(Order[n])' = 0
  BY DEF UnbegunInv
<1>1. FromScratch(Order[n])
  BY DEF FromScratch
<1>2. StampOf(Order[n]) = 0
  BY <1>1 DEF UnbegunInv
<1>3. StampOf(Order[n])' = stamp'[Order[n]][Src(Order[n])]
  BY DEF StampOf, Src
<1>4. QED
  BY <1>2, <1>3

LEMMA UnbegunNext ==
  ASSUME TypeInv, UnbegunInv, [Next]_vars
  PROVE  UnbegunInv'
<1> DiskTypeOK /\ RunTypeOK
  BY DEF TypeInv
<1>a. Len(Order) \in Nat /\ next \in 0..(Len(Order) + 1)
  BY SpecsAssumption DEF RunTypeOK
<1>b. \A n \in 1..Len(Order) : Order[n] \in Specs
  BY SpecsAssumption
<1>1. CASE pc' \notin Working \cup {"uninstall", "build"}
  BY <1>1 DEF UnbegunInv, Waiting
<1>2. CASE CalculateChecksums
  <2>1. UNCHANGED <<recipe, stamp>> /\ checksums' = [s \in Specs |-> DryRunChecksum(s)]
    BY <1>2 DEF CalculateChecksums, disk
  <2>2. ASSUME NEW n \in 1..Len(Order), FromScratch(Order[n])' PROVE StampOf(Order[n])' = 0
    <3>1. DryRunChecksum(Order[n]) = Full(recipe[Order[n]])
      BY <1>b, <2>1, <2>2 DEF FromScratch
    <3>2. StampOf(Order[n]) = 0
      BY <3>1 DEF DryRunChecksum, Full
    <3>3. QED
      BY <2>1, <3>2 DEF StampOf, Src
  <2>3. QED
    BY <2>2 DEF UnbegunInv
<1>3. ASSUME UNCHANGED <<recipe, checksums, stamp>>,
             \A n \in 1..Len(Order) : Waiting(n)' => Waiting(n)
      PROVE  UnbegunInv'
  BY <1>3, UnbegunKept DEF StampOf
<1>4. CASE UninstallOutdated \/ UninstalledAll
  <2>1. /\ pc = "uninstall" /\ UNCHANGED <<recipe, checksums, stamp>>
    BY <1>4 DEF UninstallOutdated, UninstalledAll, Goto, disk, loop
  <2>2. QED
    BY <1>3, <2>1 DEF Waiting
<1>5. CASE SkipSpec
  <2>1. /\ pc = "build" /\ pc' = "build" /\ next' = next + 1
        /\ UNCHANGED <<recipe, checksums, stamp>>
    BY <1>5 DEF SkipSpec, NextSpec, Goto, disk, loop
  <2>2. \A n \in 1..Len(Order) : Waiting(n)' => Waiting(n)
    BY <1>a, <2>1 DEF Waiting, Working
  <2>3. QED
    BY <1>3, <2>1, <2>2
<1>6. CASE StartBuild \/ StartInstall
  <2>1. /\ pc = "build" /\ pc' \in Working /\ next' = next
        /\ UNCHANGED <<recipe, checksums, stamp>>
    BY <1>6 DEF StartBuild, StartInstall, Goto, disk, loop, Working
  <2>2. \A n \in 1..Len(Order) : Waiting(n)' => Waiting(n)
    BY <1>a, <2>1 DEF Waiting, Working
  <2>3. QED
    BY <1>3, <2>1, <2>2
<1>7. CASE \/ RunStage \/ CreateTarball \/ DumpHeader \/ Executed \/ RenameChecksum
           \/ WriteChecksum \/ KeepPackage \/ RemoveRival \/ InstallPackage
  <2>1. /\ pc \in Working /\ pc' \in Working /\ next' = next
        /\ UNCHANGED <<recipe, checksums, stamp>>
    BY <1>7 DEF RunStage, CreateTarball, DumpHeader, Executed, RenameChecksum, WriteChecksum,
       KeepPackage, RemoveRival, InstallPackage, Executing, Installing, Goto, disk, loop, Working
  <2>2. \A n \in 1..Len(Order) : Waiting(n)' => Waiting(n)
    BY <2>1 DEF Waiting, Working
  <2>3. QED
    BY <1>3, <2>1, <2>2
<1>8. CASE InstalledSpec
  <2>1. /\ pc = "install" /\ pc' = "build" /\ next' = next + 1
        /\ UNCHANGED <<recipe, checksums, stamp>>
    BY <1>8 DEF InstalledSpec, NextSpec, Goto, disk, loop
  <2>2. \A n \in 1..Len(Order) : Waiting(n)' => Waiting(n)
    BY <1>a, <2>1 DEF Waiting, Working
  <2>3. QED
    BY <1>3, <2>1, <2>2
<1>9. CASE SetDone \/ Clean \/ RemoveStamp
  <2>1. /\ pc \in Working /\ UNCHANGED <<recipe, checksums>>
        /\ \/ pc' \in Working /\ next' = next
           \/ pc' = "build" /\ next' = next + 1
        /\ \E i : stamp' = [stamp EXCEPT ![Cur][Src(Cur)] = i]
    BY <1>9 DEF SetDone, Clean, RemoveStamp, NextSpec, Goto, Executing, loop, Working
  <2>2. \A n \in 1..Len(Order) : Waiting(n)' => n > next
    BY <1>a, <2>1 DEF Waiting, Working
  <2>3. \A n \in 1..Len(Order) : Waiting(n)' => Waiting(n)
    BY <2>1, <2>2 DEF Waiting
  <2>4. \A n \in 1..Len(Order) : Waiting(n)' => Order[n] # Cur
    BY <2>1, <2>2, Later
  <2>5. \A n \in 1..Len(Order) : Waiting(n)' => stamp'[Order[n]] = stamp[Order[n]]
    BY <2>1, <2>4, <1>b DEF DiskTypeOK
  <2>6. QED
    BY <2>1, <2>3, <2>5, UnbegunKept DEF StampOf
<1>10. CASE LockedOut
  <2>1. stamp' = Unstamped /\ UNCHANGED <<recipe, checksums, pc, next>>
    BY <1>10 DEF LockedOut, loop
  <2>2. \A n \in 1..Len(Order) : stamp'[Order[n]][Src(Order[n])] = 0
    <3>1. \A s \in Specs : stamp[s] \in [Sources -> 0..Len(Stages)] /\ Src(s) \in Sources
      BY ValuesTyped DEF DiskTypeOK
    <3>2. QED
      BY <1>b, <2>1, <3>1 DEF Unstamped
  <2>3. QED
    BY <2>1, <2>2, UnbegunKept DEF Waiting
<1>11. CASE UNCHANGED vars
  BY <1>11, <1>3 DEF vars, disk, loop, Waiting
<1>12. QED
  BY <1>1, <1>2, <1>4, <1>5, <1>6, <1>7, <1>8, <1>9, <1>10, <1>11
  DEF Next, Run, Edit, Wipe, Begin, BadHeader, Finish, RefusePackage, BrokenChecksum,
      BadBall, Kill, FailCommand, Die, EndRun, Working

-----------------------------------------------------------------------------
LEMMA PresentNext ==
  ASSUME TypeInv, HonestInv, [Next]_vars
  PROVE  PresentInv'
<1> DiskTypeOK /\ RunTypeOK /\ UnbegunInv /\ PresentInv
  BY DEF TypeInv, HonestInv
<1> DEFINE Same == /\ UNCHANGED <<recipe, checksums, next>>
                   /\ Cur' = Cur /\ DirOf(Cur)' = DirOf(Cur) /\ Src(Cur)' = Src(Cur)
                   /\ FromScratch(Cur)' = FromScratch(Cur)
<1>s. UNCHANGED <<recipe, checksums, next>> => Same
  BY DEF Cur, DirOf, Src, FromScratch
<1>p. /\ PackStage \in 1..Len(Stages) /\ Stages[PackStage] = "package"
      /\ \A i \in 1..Len(Stages) : Stages[i] = "package" => i = PackStage
  BY PackageStage
<1>1. CASE pc' \notin {"exec", "record", "certify"}
  BY <1>1 DEF PresentInv
<1>2. CASE StartBuild
  <2>1. /\ pc' = "exec" /\ step' = 0 /\ UNCHANGED <<recipe, checksums, next>> /\ pc = "build"
        /\ left' = {i \in 1..Len(Stages) : i > StampOf(Cur) /\ Stages[i] \notin Skip}
    BY <1>2 DEF StartBuild, disk, loop
  <2>2. Same
    BY <1>s, <2>1
  <2>3. ASSUME FromScratch(Cur) PROVE 1 \in left' /\ PackStage \in left'
    <3>1. next \in 1..Len(Order) /\ Waiting(next)
      BY <1>2, <2>1, CurTyped DEF StartBuild, Waiting, RunTypeOK
    <3>2. StampOf(Cur) = 0
      BY <2>3, <3>1 DEF UnbegunInv, Cur
    <3>3. "untar" \notin Skip /\ "package" \notin Skip
      BY DEF Skip
    <3>4. 1 \in 1..Len(Stages) /\ 1 > 0 /\ PackStage > 0 /\ Stages[1] = "untar"
      BY <1>p, StagesAssumption
    <3>5. QED
      BY <1>p, <2>1, <3>2, <3>3, <3>4
  <2>4. \A k \in 1..Subs[Cur] : 0 < 2 * k - 1 /\ 0 < 2 * k
    OBVIOUS
  <2>5. ASSUME FromScratch(Cur) PROVE (ScratchTree /\ ScratchPackages)'
    <3>1. ScratchTree'
      BY <2>1, <2>3, <2>5 DEF ScratchTree
    <3>2. \A k \in 1..Subs[Cur] : ~BallMade(k)' /\ ~HdrMade(k)'
      BY <2>1, <2>3, <2>4, <2>5 DEF BallMade, HdrMade
    <3>3. QED
      BY <2>2, <3>1, <3>2 DEF ScratchPackages
  <2>6. QED
    BY <2>1, <2>2, <2>5 DEF PresentInv
<1>3. ASSUME Executing
      PROVE  /\ Cur \in Specs /\ Subs[Cur] \in Nat \ {0} /\ DirOf(Cur) \in Dirs /\ recipe[Cur] \in Recipes
             /\ Here \in left /\ \A j \in left : Here <= j
             /\ Here \in 1..Len(Stages) /\ (1 \in left => Here = 1 /\ Stage = "untar")
             /\ (Stage = "package" <=> Here = PackStage)
             /\ (FromScratch(Cur) => ScratchTree /\ ScratchPackages)
  <2>1. Cur \in Specs /\ pc = "exec"
    BY <1>3, CurTyped DEF Executing, Working
  <2>2. Subs[Cur] \in Nat \ {0} /\ DirOf(Cur) \in Dirs /\ recipe[Cur] \in Recipes
    BY <2>1, ValuesTyped, SpecsAssumption
  <2>3. Stage = "package" <=> Here = PackStage
    BY <1>3, <1>p, FirstStage DEF Stage
  <2>4. QED
    BY <1>3, <2>1, <2>2, <2>3, FirstStage DEF PresentInv
<1>4. CASE RunStage
  <2>1. /\ Executing /\ Stage # "package" /\ step = 0 /\ step' = 1
        /\ UNCHANGED <<recipe, checksums, next, ball, hdr, left>>
        /\ pc' = "exec" /\ tree' = [tree EXCEPT ![Cur][DirOf(Cur)] = AfterStage(Cur)]
    BY <1>4 DEF RunStage, loop, Executing
  <2>2. Same /\ Here' = Here
    BY <1>s, <2>1 DEF Here
  <2>3. ASSUME FromScratch(Cur) PROVE AfterStage(Cur) = Pure(recipe[Cur])
    <3>1. CASE Stage = "untar"
      BY <2>3, <3>1 DEF AfterStage, FromScratch
    <3>2. CASE Stage # "untar"
      <4>1. tree[Cur][DirOf(Cur)] = Pure(recipe[Cur])
        BY <1>3, <2>1, <2>3, <3>2 DEF ScratchTree
      <4>2. QED
        BY <1>3, <2>1, <3>2, <4>1, PureAgain DEF AfterStage
    <3>3. QED
      BY <3>1, <3>2
  <2>4. ASSUME FromScratch(Cur) PROVE ScratchTree' /\ ScratchPackages'
    <3>1. tree'[Cur][DirOf(Cur)] = Pure(recipe[Cur])
      BY <1>3, <2>1, <2>3, <2>4 DEF DiskTypeOK
    <3>2. ScratchTree'
      BY <2>2, <3>1 DEF ScratchTree
    <3>3. \A k : BallMade(k)' = BallMade(k) /\ HdrMade(k)' = HdrMade(k)
      BY <1>3, <2>1, <2>2 DEF BallMade, HdrMade
    <3>4. QED
      BY <1>3, <2>1, <2>2, <2>4, <3>2, <3>3 DEF ScratchPackages
  <2>5. QED
    BY <2>1, <2>2, <2>4 DEF PresentInv
<1>5. CASE CreateTarball
  <2>1. /\ Executing /\ Stage = "package" /\ step % 2 = 0 /\ step' = step + 1 /\ step \in Nat
        /\ UNCHANGED <<recipe, checksums, next, hdr, left, tree>>
        /\ ball' = [ball EXCEPT ![Packing][DirOf(Cur)] = Made(tree[Cur][DirOf(Cur)])]
        /\ pc' = "exec"
    BY <1>5 DEF CreateTarball, loop, Executing, RunTypeOK
  <2>2. Same /\ Here' = Here /\ Here = PackStage
    BY <1>s, <1>3, <2>1 DEF Here
  <2>3. ASSUME FromScratch(Cur)
        PROVE  tree[Cur][DirOf(Cur)] = Pure(recipe[Cur]) /\ Made(tree[Cur][DirOf(Cur)]) = Pure(recipe[Cur])
    BY <1>3, <2>1, <2>3, PureAgain DEF ScratchTree
  <2>4. ASSUME FromScratch(Cur), NEW k \in 1..Subs[Cur], BallMade(k)'
        PROVE  ball'[<<Cur, k>>][DirOf(Cur)] = Pure(recipe[Cur])
    <3>1. BallMade(k) \/ k = step \div 2 + 1
      BY <1>3, <2>1, <2>2, <2>4, Halves DEF BallMade
    <3>2. <<Cur, k>> \in Package
      BY <1>3, <2>1, PackageOf
    <3>3. CASE k = step \div 2 + 1
      BY <1>3, <2>1, <2>3, <2>4, <3>2, <3>3 DEF Packing, DiskTypeOK
    <3>4. CASE k # step \div 2 + 1
      <4>1. ball'[<<Cur, k>>] = ball[<<Cur, k>>]
        BY <2>1, <3>2, <3>4 DEF Packing, DiskTypeOK
      <4>2. QED
        BY <1>3, <2>1, <2>4, <3>1, <3>4, <4>1 DEF ScratchPackages
    <3>5. QED
      BY <3>3, <3>4
  <2>5. ASSUME FromScratch(Cur), NEW k \in 1..Subs[Cur], HdrMade(k)'
        PROVE  hdr'[<<Cur, k>>] = Src(Cur)
    <3>1. HdrMade(k)
      BY <1>3, <2>1, <2>2, <2>5, Halves DEF HdrMade
    <3>2. QED
      BY <1>3, <2>1, <2>5, <3>1 DEF ScratchPackages
  <2>6. ASSUME FromScratch(Cur) PROVE ScratchTree' /\ ScratchPackages'
    BY <2>1, <2>2, <2>3, <2>4, <2>5, <2>6 DEF ScratchTree, ScratchPackages
  <2>7. QED
    BY <2>1, <2>2, <2>6 DEF PresentInv
<1>6. CASE DumpHeader
  <2>1. /\ Executing /\ Stage = "package" /\ step % 2 = 1 /\ step' = step + 1 /\ step \in Nat
        /\ UNCHANGED <<recipe, checksums, next, ball, left, tree>>
        /\ hdr' = [hdr EXCEPT ![Packing] = Src(Cur)]
        /\ pc' = "exec"
    BY <1>6 DEF DumpHeader, loop, Executing, RunTypeOK
  <2>2. Same /\ Here' = Here /\ Here = PackStage
    BY <1>s, <1>3, <2>1 DEF Here
  <2>3. ASSUME FromScratch(Cur) PROVE tree[Cur][DirOf(Cur)] = Pure(recipe[Cur])
    BY <1>3, <2>1, <2>3 DEF ScratchTree
  <2>4. ASSUME FromScratch(Cur), NEW k \in 1..Subs[Cur], HdrMade(k)'
        PROVE  hdr'[<<Cur, k>>] = Src(Cur)
    <3>1. HdrMade(k) \/ k = step \div 2 + 1
      BY <1>3, <2>1, <2>2, <2>4, Halves DEF HdrMade
    <3>2. <<Cur, k>> \in Package
      BY <1>3, <2>1, PackageOf
    <3>3. QED
      BY <1>3, <2>1, <2>4, <3>1, <3>2 DEF Packing, DiskTypeOK, ScratchPackages
  <2>5. ASSUME FromScratch(Cur), NEW k \in 1..Subs[Cur], BallMade(k)'
        PROVE  ball'[<<Cur, k>>][DirOf(Cur)] = Pure(recipe[Cur])
    <3>1. BallMade(k)
      BY <1>3, <2>1, <2>2, <2>5, Halves DEF BallMade
    <3>2. QED
      BY <1>3, <2>1, <2>5, <3>1 DEF ScratchPackages
  <2>6. ASSUME FromScratch(Cur) PROVE ScratchTree' /\ ScratchPackages'
    BY <2>1, <2>2, <2>3, <2>4, <2>5, <2>6 DEF ScratchTree, ScratchPackages
  <2>7. QED
    BY <2>1, <2>2, <2>6 DEF PresentInv
<1>7. CASE SetDone
  <2>1. /\ Executing /\ step = LastStep /\ step' = 0 /\ left' = left \ {Here}
        /\ UNCHANGED <<recipe, checksums, next, ball, hdr, tree>>
        /\ pc' = "exec"
    BY <1>7 DEF SetDone, loop, Executing
  <2>2. Same
    BY <1>s, <2>1
  <2>3. ASSUME NEW k \in 1..Subs[Cur] PROVE (BallMade(k)' => BallMade(k)) /\ (HdrMade(k)' => HdrMade(k))
    <3>1. ~(0 >= 2 * k - 1) /\ ~(0 >= 2 * k) /\ 2 * Subs[Cur] >= 2 * k - 1 /\ 2 * Subs[Cur] >= 2 * k
      BY <1>3, <2>1
    <3>2. Here = PackStage => step = 2 * Subs[Cur]
      BY <1>3, <2>1 DEF LastStep
    <3>3. QED
      BY <2>1, <3>1, <3>2 DEF BallMade, HdrMade
  <2>4. ASSUME FromScratch(Cur) PROVE ScratchTree' /\ ScratchPackages'
    <3>1. step # 0 \/ 1 \notin left
      BY <1>3, <2>1 DEF LastStep
    <3>2. tree[Cur][DirOf(Cur)] = Pure(recipe[Cur])
      BY <1>3, <2>1, <2>4, <3>1 DEF ScratchTree
    <3>3. QED
      BY <1>3, <2>1, <2>2, <2>3, <2>4, <3>2 DEF ScratchTree, ScratchPackages
  <2>5. QED
    BY <2>1, <2>2, <2>4 DEF PresentInv
<1>8. CASE Clean
  <2>1. /\ Executing /\ Stage = "clean" /\ left' = left \ {Here} /\ step' = step
        /\ UNCHANGED <<recipe, checksums, next, ball, hdr>>
        /\ pc' = "exec"
    BY <1>8 DEF Clean, loop, Executing
  <2>2. Same
    BY <1>s, <2>1
  <2>3. left' = {}
    <3>1. \A j \in left : j = Here
      BY <1>3, <2>1, StagesAssumption DEF Stage, RunTypeOK
    <3>2. QED
      BY <2>1, <3>1
  <2>4. PackStage \notin left
    <3>1. PackStage # Here
      BY <1>3, <2>1
    <3>2. QED
      BY <2>1, <2>3, <3>1
  <2>5. ASSUME FromScratch(Cur) PROVE ScratchTree' /\ ScratchPackages'
    BY <1>3, <2>1, <2>2, <2>3, <2>4, <2>5 DEF ScratchTree, ScratchPackages, BallMade, HdrMade
  <2>6. QED
    BY <2>1, <2>2, <2>5 DEF PresentInv
<1>9. CASE Executed
  <2>1. /\ pc = "exec" /\ left = {} /\ pc' = "record" /\ UNCHANGED <<recipe, checksums, next, ball, hdr>>
    BY <1>9 DEF Executed, Goto, disk, loop
  <2>2. Same
    BY <1>s, <2>1
  <2>3. ASSUME FromScratch(Cur) PROVE Packed(Cur)
    BY <2>1, <2>3 DEF PresentInv, ScratchPackages, BallMade, HdrMade, Packed, Packages
  <2>4. Packed(Cur)' = Packed(Cur)
    BY <2>1, <2>2 DEF Packed
  <2>5. QED
    BY <2>1, <2>2, <2>3, <2>4 DEF PresentInv
<1>10. CASE RenameChecksum
  <2>1. /\ pc = "record" /\ pc' = "certify" /\ UNCHANGED <<recipe, checksums, next, ball, hdr>>
    BY <1>10 DEF RenameChecksum, Goto, loop
  <2>2. Same
    BY <1>s, <2>1
  <2>3. Packed(Cur)' = Packed(Cur)
    BY <2>1, <2>2 DEF Packed
  <2>4. QED
    BY <2>1, <2>2, <2>3 DEF PresentInv
<1>11. CASE LockedOut \/ UNCHANGED vars
  <2>1. UNCHANGED <<recipe, tree, ball, hdr, pc, checksums, next, left, step>>
    BY <1>11 DEF LockedOut, vars, disk, loop
  <2>2. Same
    BY <1>s, <2>1
  <2>3. ScratchTree' = ScratchTree /\ ScratchPackages' = ScratchPackages /\ Packed(Cur)' = Packed(Cur)
    BY <2>1, <2>2 DEF ScratchTree, ScratchPackages, BallMade, HdrMade, Here, Packed
  <2>4. QED
    BY <2>1, <2>2, <2>3 DEF PresentInv
<1>12. QED
  BY <1>1, <1>2, <1>4, <1>5, <1>6, <1>7, <1>8, <1>9, <1>10, <1>11
  DEF Next, Run, Edit, Wipe, Begin, CalculateChecksums, BadHeader, UninstallOutdated,
      UninstalledAll, SkipSpec, NextSpec, Goto, StartInstall, Finish, RefusePackage,
      BrokenChecksum, WriteChecksum, RemoveStamp, KeepPackage, RemoveRival, InstallPackage,
      Installing, BadBall, InstalledSpec, Kill, FailCommand, Die, EndRun

\* spec_build: with or without --force-package, whatever is killed, edited or removed
\* in between, the checksum file of a build from scratch is written beside the balls
\* of just that build, all of them.
THEOREM ChecksumsAreHonest == Spec => HonestChecksum
<1>1. Init => TypeInv /\ HonestInv
  BY DiskInit, RunInit DEF TypeInv, Init, HonestInv, UnbegunInv, PresentInv, Waiting, Working
<1>2. TypeInv /\ HonestInv /\ [Next]_vars => TypeInv' /\ HonestInv'
  BY DiskNext, RunNext, UnbegunNext, PresentNext DEF TypeInv, HonestInv
<1>3. ASSUME TypeInv, HonestInv, [Next]_vars, NEW s \in Specs \ Tracking,
             checksum'[s] # checksum[s], checksum'[s] = Full(recipe[s])
      PROVE  \A p \in Packages(s) : ball[p][DirOf(s)] = Pure(recipe[s]) /\ hdr[p] = Src(s)
  <2>1. recipe[s] \in Recipes /\ checksum \in [Specs -> Checksum \cup {Missing}]
    BY <1>3 DEF TypeInv, DiskTypeOK
  <2>2. checksum'[s] # Missing
    BY <1>3, <2>1, FullChecksum
  <2>3. WriteChecksum
    <3>1. \A t \in Specs : ~Wipe(t)
      BY <1>3, <2>1, <2>2 DEF Wipe
    <3>2. ~RenameChecksum
      BY <1>3, <2>1, <2>2 DEF RenameChecksum
    <3>3. checksum' # checksum
      BY <1>3
    <3>4. QED
      BY <1>3, <3>1, <3>2, <3>3
      DEF Next, Run, vars, disk, Edit, Begin, LockedOut, CalculateChecksums, BadHeader,
          UninstallOutdated, UninstalledAll, SkipSpec, StartBuild, StartInstall, Finish,
          RunStage, RefusePackage, CreateTarball, DumpHeader, SetDone, Clean, Executed,
          BrokenChecksum, RemoveStamp, KeepPackage, RemoveRival, InstallPackage, BadBall,
          InstalledSpec, Kill, FailCommand, Die
  <2>4. s = Cur /\ checksums[Cur] = Full(recipe[Cur]) /\ pc = "certify"
    BY <1>3, <2>1, <2>3 DEF WriteChecksum
  <2>5. QED
    BY <1>3, <2>4 DEF HonestInv, PresentInv, FromScratch, Packed
<1>4. TypeInv /\ HonestInv /\ [Next]_vars =>
        (\A s \in Specs \ Tracking :
           checksum'[s] # checksum[s] /\ checksum'[s] = Full(recipe[s]) =>
             \A p \in Packages(s) : /\ ball[p][DirOf(s)] = Pure(recipe[s])
                                    /\ hdr[p] = Src(s))
  BY <1>3
<1>5. QED
  BY <1>1, <1>2, <1>4, PTL DEF Spec, HonestChecksum

=============================================================================
