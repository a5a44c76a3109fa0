--------------------------- MODULE SystemRootProofs ---------------------------
(* Theorems about what BuildRunner keeps in the system root, for every value  *)
(* of its constants.                                                          *)
EXTENDS BuildRunnerProofs

-----------------------------------------------------------------------------
(* Specs, packages and their places in Order *)

LEMMA IndexOf ==
  /\ \A s \in Specs : Index(s) \in 1..Len(Order) /\ Order[Index(s)] = s
  /\ \A n \in 1..Len(Order) : Order[n] \in Specs /\ Index(Order[n]) = n
<1>1. ASSUME NEW s \in Specs PROVE Index(s) \in 1..Len(Order) /\ Order[Index(s)] = s
  BY SpecsAssumption DEF Index
<1>2. ASSUME NEW n \in 1..Len(Order) PROVE Order[n] \in Specs /\ Index(Order[n]) = n
  <2>1. Order[n] \in Specs
    BY SpecsAssumption
  <2>2. Index(Order[n]) \in 1..Len(Order) /\ Order[Index(Order[n])] = Order[n]
    BY <1>1, <2>1
  <2>3. QED
    BY <2>1, <2>2, SpecsAssumption
<1>3. QED
  BY <1>1, <1>2

LEMMA PackageParts ==
  ASSUME NEW p \in Package
  PROVE  /\ p[1] \in Specs /\ p[2] \in 1..Subs[p[1]] /\ Subs[p[1]] \in Nat \ {0}
         /\ p = <<p[1], p[2]>> /\ p \in Packages(p[1])
         /\ \A s \in Specs : p \in Packages(s) => p[1] = s
<1>1. PICK s \in Specs : p \in Packages(s)
  BY DEF Package
<1>2. p \in {s} \X (1..Subs[s])
  BY <1>1 DEF Packages
<1>3. p[1] = s /\ p[2] \in 1..Subs[s] /\ p = <<p[1], p[2]>>
  BY <1>2
<1>4. \A t \in Specs : p \in Packages(t) => p[1] = t
  BY DEF Packages
<1>5. QED
  BY <1>1, <1>3, <1>4, SpecsAssumption

LEMMA PackagesOf ==
  ASSUME NEW s \in Specs
  PROVE  /\ Subs[s] \in Nat \ {0} /\ Packages(s) \subseteq Package
         /\ \A k \in 1..Subs[s] : <<s, k>> \in Packages(s)
         /\ First(s) \in Packages(s)
<1>1. Subs[s] \in Nat \ {0} /\ Packages(s) \subseteq Package
  BY SpecsAssumption DEF Package
<1>2. \A k \in 1..Subs[s] : <<s, k>> \in Packages(s)
  BY DEF Packages
<1>3. QED
  BY <1>1, <1>2 DEF First

\* The package that is being installed.
LEMMA AtHand ==
  ASSUME TypeInv, Installing
  PROVE  /\ next \in 1..Len(Order) /\ Cur \in Specs /\ Index(Cur) = next
         /\ step \in 1..Subs[Cur] /\ Subs[Cur] \in Nat
         /\ Pkg \in Package /\ Pkg[1] = Cur /\ Pkg[2] = step
<1>1. pc = "install" /\ step <= Subs[Cur] /\ step \in Nat \ {0}
  BY DEF Installing, TypeInv, Position
<1>2. next \in 1..Len(Order) /\ Cur \in Specs
  BY <1>1, CurTyped DEF Working
<1>3. Index(Cur) = next
  BY <1>2, IndexOf DEF Cur
<1>4. Subs[Cur] \in Nat
  BY <1>2, SpecsAssumption
<1>5. step \in 1..Subs[Cur]
  BY <1>1, <1>4
<1>6. QED
  BY <1>2, <1>3, <1>4, <1>5, PackageOf DEF Pkg

-----------------------------------------------------------------------------
(* What a step does to the loop of build_source_packages and to the root.     *)

Looping == Working \cup {"build"}

Advance ==
  /\ pc \in Looping /\ next \in 1..Len(Order) /\ ~Installing
  /\ pc' = "build" /\ next' = next + 1 /\ UNCHANGED installed
  /\ \/ AllInstalled(Cur) \/ Cur \in NoInstall
     \/ pc = "install" /\ step > Subs[Cur]
Within ==
  /\ pc \in Looping \ {"install"} /\ next \in 1..Len(Order)
  /\ pc' \in Working /\ next' = next /\ UNCHANGED installed
  /\ pc' = "install" => step' = 1 /\ Cur \notin NoInstall

LEMMA LoopStep ==
  ASSUME TypeInv, [Next]_vars
  PROVE  \/ pc' \notin Looping \cup {"done"}
         \/ pc' = "build" /\ next' = 1
         \/ /\ pc = "build" /\ next > Len(Order)
            /\ pc' = "done" /\ UNCHANGED installed
         \/ Advance \/ Within
         \/ KeepPackage \/ RemoveRival \/ InstallPackage
         \/ UNCHANGED <<pc, next, step, installed>>
<1> DEFINE Goal == \/ pc' \notin Looping \cup {"done"}
                   \/ pc' = "build" /\ next' = 1
                   \/ /\ pc = "build" /\ next > Len(Order)
                      /\ pc' = "done" /\ UNCHANGED installed
                   \/ Advance \/ Within
                   \/ KeepPackage \/ RemoveRival \/ InstallPackage
                   \/ UNCHANGED <<pc, next, step, installed>>
<1> SUFFICES Goal
  OBVIOUS
<1>1. CASE UninstalledAll
  BY <1>1 DEF UninstalledAll, Goto
<1>2. CASE Finish
  BY <1>2 DEF Finish, EndRun, disk
<1>3. CASE SkipSpec
  <2>1. /\ pc = "build" /\ pc' = "build" /\ next' = next + 1 /\ UNCHANGED installed
        /\ NothingToDo(Cur) /\ next \in 1..Len(Order)
    BY <1>3, CurTyped DEF SkipSpec, NextSpec, Goto, disk
  <2>2. Advance
    BY <2>1 DEF Advance, Looping, NothingToDo, Installing
  <2>3. QED
    BY <2>2
<1>4. CASE RemoveStamp /\ (Cur \in NoInstall \/ AllInstalled(Cur))
  <2>1. /\ pc = "unstamp" /\ pc' = "build" /\ next' = next + 1 /\ UNCHANGED installed
    BY <1>4 DEF RemoveStamp, NextSpec, Goto
  <2>2. next \in 1..Len(Order)
    BY <2>1, CurTyped DEF Working
  <2>3. Advance
    BY <1>4, <2>1, <2>2 DEF Advance, Looping, Working, Installing
  <2>4. QED
    BY <2>3
<1>5. CASE RemoveStamp /\ ~(Cur \in NoInstall \/ AllInstalled(Cur))
  <2>1. /\ pc = "unstamp" /\ pc' = "install" /\ next' = next /\ step' = 1 /\ UNCHANGED installed
    BY <1>5 DEF RemoveStamp, NextSpec, Goto
  <2>2. next \in 1..Len(Order)
    BY <2>1, CurTyped DEF Working
  <2>3. Within
    BY <1>5, <2>1, <2>2 DEF Within, Looping, Working
  <2>4. QED
    BY <2>3
<1>6. CASE InstalledSpec
  <2>1. /\ pc = "install" /\ step > Subs[Cur]
        /\ pc' = "build" /\ next' = next + 1 /\ UNCHANGED installed
    BY <1>6 DEF InstalledSpec, NextSpec, Goto, disk
  <2>2. next \in 1..Len(Order) /\ Cur \in Specs
    BY <2>1, CurTyped DEF Working
  <2>3. ~(step <= Subs[Cur])
    BY <2>1, <2>2, SpecsAssumption DEF TypeInv, RunTypeOK
  <2>4. Advance
    BY <2>1, <2>2, <2>3 DEF Advance, Looping, Working, Installing
  <2>5. QED
    BY <2>4
<1>7. CASE StartInstall
  <2>1. /\ pc = "build" /\ next <= Len(Order) /\ ~NothingToDo(Cur) /\ ~MustBuild(Cur)
        /\ pc' = "install" /\ next' = next /\ step' = 1 /\ UNCHANGED installed
    BY <1>7 DEF StartInstall, Goto, disk
  <2>2. next \in 1..Len(Order) /\ Cur \notin NoInstall
    BY <2>1, CurTyped DEF NothingToDo, MustBuild
  <2>3. Within
    BY <2>1, <2>2 DEF Within, Looping, Working
  <2>4. QED
    BY <2>3
<1>8. CASE StartBuild
  <2>1. /\ pc = "build" /\ next <= Len(Order)
        /\ pc' = "exec" /\ next' = next /\ UNCHANGED installed
    BY <1>8 DEF StartBuild, disk
  <2>2. next \in 1..Len(Order)
    BY <2>1, CurTyped
  <2>3. Within
    BY <2>1, <2>2 DEF Within, Looping, Working
  <2>4. QED
    BY <2>3
<1>9. CASE \/ RunStage \/ CreateTarball \/ DumpHeader \/ SetDone \/ Clean \/ Executed
           \/ RenameChecksum \/ WriteChecksum
  <2>1. /\ pc \in Working \ {"install"} /\ pc' \in Working \ {"install"} /\ next' = next
        /\ UNCHANGED installed
    BY <1>9 DEF RunStage, CreateTarball, DumpHeader, SetDone, Clean, Executed, RenameChecksum,
       WriteChecksum, Executing, Goto, disk, Working
  <2>2. next \in 1..Len(Order)
    BY <2>1, CurTyped
  <2>3. Within
    BY <2>1, <2>2 DEF Within, Looping
  <2>4. QED
    BY <2>3
<1>10. CASE LockedOut \/ UNCHANGED vars
  BY <1>10 DEF LockedOut, vars, disk
<1>11. QED
  BY <1>1, <1>2, <1>3, <1>4, <1>5, <1>6, <1>7, <1>8, <1>9, <1>10
  DEF Next, Run, Edit, Wipe, Begin, CalculateChecksums, BadHeader, UninstallOutdated,
      RefusePackage, BrokenChecksum, BadBall, Kill, FailCommand, Die, EndRun, Looping, Working

-----------------------------------------------------------------------------
(* What a run leaves uninstalled has a replacement.  DoneIsInstalled is not   *)
(* inductive: it speaks of the end.  HeldInv says it of the packages that the *)
(* loop has been through, with an exception for the moment between the        *)
(* removal of a rival and the installation of what it was removed for.        *)

Treated(p) == \/ pc \in Looping /\ Index(p[1]) < next
              \/ pc = "install" /\ p[1] = Cur /\ p[2] < step
Held(p)    == IsInstalled(p) \/ \E q \in Package : Replaces(q, p) /\ IsInstalled(q)
AboutTo(p) == /\ Installing /\ ~IsInstalled(Pkg) /\ Replaces(Pkg, p)
              /\ \A q \in Package : ~GivesWay(Pkg, q)
HeldInv ==
  \A p \in Package :
    p[1] \notin NoInstall /\ (Treated(p) \/ pc = "done") => Held(p) \/ AboutTo(p)

\* An installed package is not lost but by RemoveRival.
LEMMA HeldKept ==
  ASSUME NEW p \in Package, Held(p), \A q \in Package : IsInstalled(q) => IsInstalled(q)'
  PROVE  Held(p)'
BY DEF Held

\* A package that has been treated comes before the one at hand.
LEMMA TreatedBefore ==
  ASSUME TypeInv, Installing, NEW p \in Package, Treated(p)
  PROVE  After(Pkg, p)
<1>1. Index(Pkg[1]) = next /\ Pkg[1] = Cur /\ Pkg[2] = step
  BY AtHand
<1>2. Len(Order) \in Nat
  BY SpecsAssumption
<1>3. next \in Nat /\ step \in Nat
  BY <1>2 DEF TypeInv, RunTypeOK
<1>4. p[1] \in Specs /\ p[2] \in Nat
  BY PackageParts
<1>5. Index(p[1]) \in 1..Len(Order)
  BY <1>4, IndexOf
<1>6. QED
  BY <1>1, <1>2, <1>3, <1>4, <1>5 DEF Treated, After

LEMMA HeldNext ==
  ASSUME OrderlyConflicts, TypeInv, HeldInv, [Next]_vars
  PROVE  HeldInv'
<1> USE DEF HeldInv
<1>a. Len(Order) \in Nat /\ next \in Nat /\ step \in Nat
  BY SpecsAssumption DEF TypeInv, RunTypeOK
<1>b. \A p \in Package : Index(p[1]) \in 1..Len(Order) /\ Order[Index(p[1])] = p[1] /\ p[2] \in 1..Subs[p[1]]
  BY PackageParts, IndexOf
<1>1. CASE pc' \notin Looping \cup {"done"}
  BY <1>1 DEF Treated, Looping, Working
<1>2. CASE pc' = "build" /\ next' = 1
  BY <1>2, <1>b DEF Treated
<1>3. CASE /\ pc = "build" /\ next > Len(Order)
           /\ pc' = "done" /\ UNCHANGED installed
  <2>1. \A p \in Package : Treated(p) /\ ~AboutTo(p)
    BY <1>3, <1>a, <1>b DEF Treated, Looping, AboutTo, Installing
  <2>2. QED
    BY <1>3, <2>1 DEF Held, IsInstalled
<1>4. CASE Advance
  <2> SUFFICES ASSUME NEW p \in Package, p[1] \notin NoInstall, Treated(p)' \/ pc' = "done"
               PROVE  Held(p)'
    OBVIOUS
  <2>1. Index(p[1]) < next + 1 /\ pc' # "done"
    BY <1>4 DEF Advance, Treated
  <2>2. ~AboutTo(p)
    BY <1>4 DEF Advance, AboutTo
  <2>3. CASE Index(p[1]) < next
    <3>1. Held(p)
      BY <1>4, <2>2, <2>3 DEF Advance, Treated
    <3>2. QED
      BY <1>4, <3>1, HeldKept DEF Advance, IsInstalled
  <2>4. CASE Index(p[1]) = next
    <3>1. p[1] = Cur /\ p \in Packages(Cur) /\ p[2] \in 1..Subs[Cur] /\ Subs[Cur] \in Nat
      BY <1>b, <2>4, PackageParts DEF Cur
    <3>2. CASE AllInstalled(Cur)
      <4>1. Held(p)
        BY <3>1, <3>2 DEF AllInstalled, Held
      <4>2. QED
        BY <1>4, <4>1, HeldKept DEF Advance, IsInstalled
    <3>3. CASE pc = "install" /\ step > Subs[Cur]
      <4>1. Treated(p)
        BY <1>a, <3>1, <3>3 DEF Treated
      <4>2. Held(p)
        BY <2>2, <4>1
      <4>3. QED
        BY <1>4, <4>2, HeldKept DEF Advance, IsInstalled
    <3>4. QED
      BY <1>4, <3>1, <3>2, <3>3 DEF Advance
  <2>5. QED
    BY <1>a, <1>b, <2>1, <2>3, <2>4
<1>5. CASE Within
  <2> SUFFICES ASSUME NEW p \in Package, p[1] \notin NoInstall, Treated(p)' \/ pc' = "done"
               PROVE  Held(p)'
    OBVIOUS
  <2>1. Treated(p)
    <3>1. pc' \in Working /\ next' = next /\ (pc' = "install" => step' = 1) /\ pc \in Looping
      BY <1>5 DEF Within
    <3>2. ~(p[2] < 1)
      BY <1>b
    <3>3. QED
      BY <3>1, <3>2 DEF Treated, Looping, Working
  <2>2. Held(p)
    BY <1>5, <2>1 DEF Within, AboutTo, Installing
  <2>3. QED
    BY <1>5, <2>2, HeldKept DEF Within, IsInstalled
<1>6. CASE KeepPackage
  <2>1. Installing /\ step' = step + 1 /\ UNCHANGED <<installed, pc, next>>
    BY <1>6 DEF KeepPackage, disk
  <2>2. \/ IsInstalled(Pkg)
        \/ \E q \in Package : GivesWay(Pkg, q) /\ IsInstalled(q)
    BY <1>6 DEF KeepPackage, Rivals, GivesWay
  <2> SUFFICES ASSUME NEW p \in Package, p[1] \notin NoInstall, Treated(p)' \/ pc' = "done"
               PROVE  Held(p)'
    OBVIOUS
  <2>3. Held(p)
    <3>1. CASE Treated(p)
      BY <2>2, <3>1 DEF AboutTo
    <3>2. CASE ~Treated(p)
      <4>1. p[1] = Cur /\ p[2] < step + 1 /\ ~(p[2] < step)
        BY <2>1, <3>2 DEF Treated, Installing, Cur
      <4>2. p = Pkg
        BY <1>a, <1>b, <4>1, PackageParts DEF Pkg
      <4>3. QED
        BY <2>2, <4>2 DEF Held, Replaces
    <3>3. QED
      BY <3>1, <3>2
  <2>4. QED
    BY <2>1, <2>3, HeldKept DEF IsInstalled
<1>7. CASE RemoveRival
  <2>1. Installing /\ ~IsInstalled(Pkg) /\ UNCHANGED <<pc, next, step>>
    BY <1>7 DEF RemoveRival
  <2>2. PICK q \in Package : Evicts(Pkg, q) /\ installed' = [installed EXCEPT ![q] = Missing]
    BY <1>7 DEF RemoveRival, Rivals, Evicts
  <2>3. Pkg \in Package /\ \A x \in Package : ~GivesWay(Pkg, x)
    BY <2>1, <2>2, AtHand DEF OrderlyConflicts
  <2>4. \A x \in Package : x # q => installed'[x] = installed[x]
    BY <2>2 DEF TypeInv, DiskTypeOK
  <2>5. Pkg' = Pkg /\ Installing' /\ ~IsInstalled(Pkg)'
    <3>1. Pkg' = Pkg /\ Installing'
      BY <2>1 DEF Pkg, Cur, Installing
    <3>2. installed'[Pkg] = Missing
      BY <2>1, <2>2, <2>3 DEF TypeInv, DiskTypeOK, IsInstalled
    <3>3. QED
      BY <3>1, <3>2 DEF IsInstalled
  <2> SUFFICES ASSUME NEW p \in Package, p[1] \notin NoInstall, Treated(p)' \/ pc' = "done"
               PROVE  Held(p)' \/ AboutTo(p)'
    OBVIOUS
  <2>6. Treated(p) /\ After(Pkg, p)
    <3>1. Treated(p)
      BY <2>1 DEF Treated, Installing, Cur
    <3>2. QED
      BY <2>1, <3>1, TreatedBefore
  <2>7. Replaces(Pkg, p) => AboutTo(p)'
    BY <2>3, <2>5 DEF AboutTo
  <2>8. CASE IsInstalled(p)
    <3>1. CASE p = q
      BY <2>2, <2>6, <2>7, <3>1 DEF Replaces
    <3>2. CASE p # q
      BY <2>4, <2>8, <3>2 DEF Held, IsInstalled
    <3>3. QED
      BY <3>1, <3>2
  <2>9. ASSUME NEW x \in Package, Replaces(x, p), IsInstalled(x) PROVE Held(p)' \/ AboutTo(p)'
    <3>1. CASE x = q
      BY <2>2, <2>3, <2>6, <2>7, <2>9, <3>1 DEF OrderlyConflicts
    <3>2. CASE x # q
      BY <2>4, <2>9, <3>2 DEF Held, IsInstalled
    <3>3. QED
      BY <3>1, <3>2
  <2>10. CASE AboutTo(p)
    BY <2>7, <2>10 DEF AboutTo
  <2>11. QED
    BY <2>6, <2>8, <2>9, <2>10 DEF Held
<1>8. CASE InstallPackage
  <2>1. /\ Installing /\ step' = step + 1 /\ UNCHANGED <<pc, next>>
        /\ installed' = [installed EXCEPT ![Pkg] = ball[Pkg][DirOf(Cur)]]
        /\ ~Unpackable(Pkg)
    BY <1>8 DEF InstallPackage
  <2>2. Pkg \in Package /\ Pkg[1] = Cur
    BY <2>1, AtHand
  <2>3. ball[Pkg][DirOf(Cur)] # Missing
    BY <2>1, <2>2 DEF Unpackable
  <2>4. installed'[Pkg] # Missing /\ \A x \in Package : IsInstalled(x) => IsInstalled(x)'
    BY <2>1, <2>2, <2>3 DEF TypeInv, DiskTypeOK, IsInstalled
  <2> SUFFICES ASSUME NEW p \in Package, p[1] \notin NoInstall, Treated(p)' \/ pc' = "done"
               PROVE  Held(p)'
    OBVIOUS
  <2>5. CASE Treated(p)
    <3>1. CASE Held(p)
      BY <2>4, <3>1, HeldKept
    <3>2. CASE AboutTo(p)
      BY <2>2, <2>4, <3>2 DEF AboutTo, Held, IsInstalled
    <3>3. QED
      BY <2>5, <3>1, <3>2
  <2>6. CASE ~Treated(p)
    <3>1. p[1] = Cur /\ p[2] < step + 1 /\ ~(p[2] < step)
      BY <2>1, <2>6 DEF Treated, Installing, Cur
    <3>2. p = Pkg
      BY <1>a, <1>b, <3>1, PackageParts DEF Pkg
    <3>3. QED
      BY <2>4, <3>2 DEF Held, IsInstalled
  <2>7. QED
    BY <2>5, <2>6
<1>9. CASE UNCHANGED <<pc, next, step, installed>>
  BY <1>9 DEF Treated, Held, AboutTo, Installing, Pkg, Cur, IsInstalled
<1>10. QED
  BY <1>1, <1>2, <1>3, <1>4, <1>5, <1>6, <1>7, <1>8, <1>9, LoopStep

\* spec_install: when a run is done, a package that is not in the root has a
\* rival there, provided that removals do not work against each other.
THEOREM AlwaysInstalled == ASSUME OrderlyConflicts PROVE Spec => []DoneIsInstalled
<1>1. Init => TypeInv /\ HeldInv
  BY DiskInit, RunInit DEF TypeInv, Init, HeldInv, Treated, Looping, Working
<1>2. TypeInv /\ HeldInv /\ [Next]_vars => TypeInv' /\ HeldInv'
  BY DiskNext, RunNext, HeldNext, OrderlyConflicts DEF TypeInv
<1>3. HeldInv => DoneIsInstalled
  BY DEF HeldInv, DoneIsInstalled, Held, AboutTo, Installing, Replaces, Evicts, GivesWay
<1>4. QED
  BY <1>1, <1>2, <1>3, PTL DEF Spec


-----------------------------------------------------------------------------
(* What a build depends on.  DepsPresent is not inductive: it says nothing of *)
(* the builds whose turn has not come.  DepsHeld says it of everything behind *)
(* the loop that something ahead needs, with an exception while the full      *)
(* version of a bootstrap package replaces it; TurnHeld says that the         *)
(* replacement is there when its turn ends.                                   *)

StandIn(d) == \E c \in Specs : <<d, c>> \in Cores /\ AnyInstalled(c)
Needed(d)  == /\ Index(d) < next
              /\ \E n \in 1..Len(Order) : /\ n > next \/ (n = next /\ pc # "install")
                                          /\ d \in Deps[Order[n]] /\ Undisturbed(d, Order[n])
DepsHeld ==
  pc \in Looping =>
    \A d \in Specs \ NoInstall :
      Needed(d) => \/ AllInstalled(d) \/ StandIn(d)
                   \/ pc = "install" /\ <<d, Cur>> \in Cores
TurnHeld ==
  pc = "install" =>
    /\ Cur \notin NoInstall
    /\ \A k \in 1..Subs[Cur] :
         k < step => \/ IsInstalled(<<Cur, k>>)
                     \/ k = Subs[Cur] /\ StandIn(Cur)
DepsInv == DepsHeld /\ TurnHeld

\* Nothing is lost while nothing is removed.
LEMMA RootGrows ==
  ASSUME NEW d \in Specs, \A q \in Package : IsInstalled(q) => IsInstalled(q)'
  PROVE  (AllInstalled(d) => AllInstalled(d)') /\ (StandIn(d) => StandIn(d)')
<1>1. \A s \in Specs : \A p \in Packages(s) : IsInstalled(p) => IsInstalled(p)'
  BY DEF Package
<1>2. QED
  BY <1>1 DEF AllInstalled, StandIn, AnyInstalled

\* When the turn of a spec is over it is installed, or stays out for another.
LEMMA TurnOver ==
  ASSUME OrderlyCores, TypeInv, TurnHeld, pc = "install", step > Subs[Cur]
  PROVE  /\ AllInstalled(Cur) \/ StandIn(Cur)
         /\ \A d \in Specs : <<d, Cur>> \in Cores => StandIn(d)
<1>1. Cur \in Specs /\ Subs[Cur] \in Nat \ {0} /\ step \in Nat
  BY CurTyped, SpecsAssumption DEF Working, TypeInv, RunTypeOK
<1>2. \A k \in 1..Subs[Cur] : IsInstalled(<<Cur, k>>) \/ (k = Subs[Cur] /\ StandIn(Cur))
  BY <1>1 DEF TurnHeld
<1>3. \A p \in Packages(Cur) : p[2] \in 1..Subs[Cur] /\ p = <<Cur, p[2]>>
  BY DEF Packages
<1>4. AllInstalled(Cur) \/ StandIn(Cur)
  BY <1>2, <1>3 DEF AllInstalled
<1>5. ASSUME NEW d \in Specs, <<d, Cur>> \in Cores PROVE StandIn(d)
  <2>1. ~StandIn(Cur)
    BY <1>1, <1>5 DEF StandIn, OrderlyCores
  <2>2. IsInstalled(First(Cur)) /\ First(Cur) \in Packages(Cur)
    BY <1>1, <1>4, <2>1, PackagesOf DEF AllInstalled
  <2>3. QED
    BY <1>1, <1>5, <2>2 DEF StandIn, AnyInstalled
<1>6. QED
  BY <1>4, <1>5

LEMMA DepsNext ==
  ASSUME OrderlyCores, TypeInv, DepsInv, [Next]_vars
  PROVE  DepsInv'
<1> DepsHeld /\ TurnHeld
  BY DEF DepsInv
<1>a. Len(Order) \in Nat
  BY SpecsAssumption
<1>b. next \in Nat /\ step \in Nat
  BY <1>a DEF TypeInv, RunTypeOK
<1>c. \A s \in Specs : Index(s) \in 1..Len(Order) /\ Order[Index(s)] = s
  BY IndexOf
<1>1. CASE pc' \notin Looping
  BY <1>1 DEF DepsInv, DepsHeld, TurnHeld, Looping, Working
<1>2. CASE pc' = "build" /\ next' = 1
  <2>1. \A s \in Specs : ~(Index(s) < 1)
    BY <1>c
  <2>2. QED
    BY <1>2, <2>1 DEF DepsInv, DepsHeld, TurnHeld, Needed
<1>3. CASE Advance
  <2>1. /\ pc \in Looping /\ next \in 1..Len(Order) /\ pc' = "build" /\ next' = next + 1
        /\ UNCHANGED installed
        /\ \/ AllInstalled(Cur) \/ Cur \in NoInstall
           \/ pc = "install" /\ step > Subs[Cur]
    BY <1>3 DEF Advance
  <2>2. \A q \in Package : IsInstalled(q) => IsInstalled(q)'
    BY <2>1 DEF IsInstalled
  <2> SUFFICES ASSUME NEW d \in Specs \ NoInstall, Needed(d)'
               PROVE  (AllInstalled(d) \/ StandIn(d))'
    BY <2>1 DEF DepsInv, DepsHeld, TurnHeld
  <2>3. PICK n \in 1..Len(Order) : n >= next + 1 /\ d \in Deps[Order[n]] /\ Undisturbed(d, Order[n])
    BY <1>b, <2>1 DEF Needed
  <2>4. Index(d) < next + 1
    BY <2>1 DEF Needed
  <2>5. ASSUME pc = "install" PROVE step > Subs[Cur]
    <3>1. Cur \in Specs /\ Subs[Cur] \in Nat
      BY <2>5, CurTyped, SpecsAssumption DEF Working
    <3>2. QED
      BY <1>3, <1>b, <2>5, <3>1 DEF Advance, Installing
  <2>6. AllInstalled(d) \/ StandIn(d)
    <3>1. CASE Index(d) < next
      <4>1. Needed(d)
        BY <1>b, <2>3, <3>1 DEF Needed
      <4>2. AllInstalled(d) \/ StandIn(d) \/ (pc = "install" /\ <<d, Cur>> \in Cores)
        BY <2>1, <4>1 DEF DepsHeld
      <4>3. QED
        BY <2>5, <4>2, TurnOver
    <3>2. CASE Index(d) = next
      <4>1. d = Cur
        BY <1>c, <3>2 DEF Cur
      <4>2. QED
        BY <2>1, <4>1, TurnOver
    <3>3. Index(d) \in Nat
      BY <1>a, <1>c
    <3>4. QED
      BY <1>b, <2>4, <3>1, <3>2, <3>3
  <2>7. QED
    BY <2>2, <2>6, RootGrows
<1>4. CASE Within
  <2>1. /\ pc \in Looping \ {"install"} /\ pc' \in Working /\ next' = next
        /\ UNCHANGED installed /\ (pc' = "install" => step' = 1 /\ Cur \notin NoInstall)
    BY <1>4 DEF Within
  <2>2. \A q \in Package : IsInstalled(q) => IsInstalled(q)'
    BY <2>1 DEF IsInstalled
  <2>3. \A d \in Specs : Needed(d)' => Needed(d)
    BY <2>1 DEF Needed
  <2>4. DepsHeld'
    BY <2>1, <2>2, <2>3, RootGrows DEF DepsHeld
  <2>5. \A k \in 1..Subs[Cur] : ~(k < 1)
    OBVIOUS
  <2>6. Cur' = Cur
    BY <2>1 DEF Cur
  <2>7. TurnHeld'
    BY <2>1, <2>5, <2>6 DEF TurnHeld
  <2>8. QED
    BY <2>4, <2>7 DEF DepsInv
<1>5. CASE KeepPackage \/ InstallPackage
  <2>1. Installing /\ step' = step + 1 /\ UNCHANGED <<pc, next>> /\ pc = "install"
    BY <1>5 DEF KeepPackage, InstallPackage, Installing
  <2>2. /\ Cur \in Specs /\ step \in 1..Subs[Cur] /\ Subs[Cur] \in Nat
        /\ Pkg \in Package /\ Pkg[1] = Cur /\ Pkg[2] = step
    BY <2>1, AtHand
  <2>3. \/ /\ KeepPackage /\ UNCHANGED installed
        \/ /\ installed' = [installed EXCEPT ![Pkg] = ball[Pkg][DirOf(Cur)]]
           /\ ball[Pkg][DirOf(Cur)] # Missing
    BY <1>5, <2>2 DEF KeepPackage, InstallPackage, Unpackable, disk
  <2>4. \A q \in Package : IsInstalled(q) => IsInstalled(q)'
    BY <2>2, <2>3 DEF TypeInv, DiskTypeOK, IsInstalled
  <2>5. installed'[Pkg] # Missing \/ (step = Subs[Cur] /\ StandIn(Cur))
    <3>1. CASE KeepPackage /\ IsInstalled(Pkg)
      BY <3>1 DEF KeepPackage, disk, IsInstalled
    <3>2. CASE KeepPackage /\ ~IsInstalled(Pkg)
      <4>1. PICK q \in Package : YieldsTo(Pkg, q) /\ IsInstalled(q)
        BY <3>2 DEF KeepPackage, Rivals
      <4>2. Pkg = <<Cur, Subs[Cur]>> /\ <<Cur, q[1]>> \in Cores
        BY <2>2, <4>1 DEF YieldsTo, Unnamed
      <4>3. q[1] \in Specs /\ q \in Packages(q[1])
        BY PackageParts
      <4>4. step = Subs[Cur]
        BY <4>2 DEF Pkg
      <4>5. QED
        BY <4>1, <4>2, <4>3, <4>4 DEF StandIn, AnyInstalled
    <3>3. CASE installed' = [installed EXCEPT ![Pkg] = ball[Pkg][DirOf(Cur)]]
               /\ ball[Pkg][DirOf(Cur)] # Missing
      BY <2>2, <3>3 DEF TypeInv, DiskTypeOK
    <3>4. QED
      BY <2>3, <3>1, <3>2, <3>3
  <2>6. Cur' = Cur /\ Looping' = Looping /\ \A d : Needed(d)' = Needed(d)
    BY <2>1 DEF Cur, Needed, Looping, Working
  <2>7. DepsHeld'
    BY <2>1, <2>4, <2>6, RootGrows DEF DepsHeld
  <2>8. TurnHeld'
    <3> SUFFICES ASSUME NEW k \in 1..Subs[Cur], k < step + 1
                 PROVE  installed'[<<Cur, k>>] # Missing \/ (k = Subs[Cur] /\ StandIn(Cur)')
      BY <2>1, <2>6 DEF TurnHeld, IsInstalled
    <3>1. <<Cur, k>> \in Package /\ (k < step \/ k = step)
      BY <1>b, <2>2, PackageOf
    <3>2. CASE k < step
      <4>1. IsInstalled(<<Cur, k>>) \/ (k = Subs[Cur] /\ StandIn(Cur))
        BY <2>1, <3>2 DEF TurnHeld
      <4>2. IsInstalled(<<Cur, k>>) => installed'[<<Cur, k>>] # Missing
        BY <2>4, <3>1 DEF IsInstalled
      <4>3. StandIn(Cur) => StandIn(Cur)'
        BY <2>2, <2>4, <2>6, RootGrows DEF StandIn
      <4>4. QED
        BY <4>1, <4>2, <4>3
    <3>3. CASE k = step
      <4>1. StandIn(Cur) => StandIn(Cur)'
        BY <2>2, <2>4, <2>6, RootGrows DEF StandIn
      <4>2. QED
        BY <2>5, <3>3, <4>1 DEF Pkg
    <3>4. QED
      BY <3>1, <3>2, <3>3
  <2>9. QED
    BY <2>7, <2>8 DEF DepsInv
<1>6. CASE RemoveRival
  <2>1. Installing /\ pc = "install" /\ UNCHANGED <<pc, next, step>>
    BY <1>6 DEF RemoveRival, Installing
  <2>2. PICK q \in Package : Evicts(Pkg, q) /\ installed' = [installed EXCEPT ![q] = Missing]
    BY <1>6 DEF RemoveRival, Rivals, Evicts
  <2>3. /\ next \in 1..Len(Order) /\ Cur \in Specs /\ Index(Cur) = next
        /\ step \in 1..Subs[Cur] /\ Subs[Cur] \in Nat /\ Pkg \in Package /\ Pkg[1] = Cur
    BY <2>1, AtHand
  <2>4. q[1] \in Specs /\ Foe(Cur, q[1])
    BY <2>2, <2>3, PackageParts DEF Foe
  <2>5. \A x \in Package : x # q => installed'[x] = installed[x]
    BY <2>2 DEF TypeInv, DiskTypeOK
  <2>6. \A s \in Specs : \A x \in Packages(s) : s # q[1] => installed'[x] = installed[x]
    <3> SUFFICES ASSUME NEW s \in Specs, NEW x \in Packages(s), s # q[1]
                 PROVE  installed'[x] = installed[x]
      OBVIOUS
    <3>1. x \in Package /\ x[1] = s
      BY PackagesOf, PackageParts
    <3>2. QED
      BY <2>5, <3>1
  <2>7. Cur' = Cur /\ Looping' = Looping /\ \A d : Needed(d)' = Needed(d)
    BY <2>1 DEF Cur, Needed, Looping, Working
  <2>8. DepsHeld'
    <3> SUFFICES ASSUME NEW d \in Specs \ NoInstall, Needed(d)
                 PROVE  (AllInstalled(d) \/ StandIn(d))' \/ <<d, Cur>> \in Cores
      BY <2>1, <2>7 DEF DepsHeld
    <3>1. AllInstalled(d) \/ StandIn(d) \/ <<d, Cur>> \in Cores
      BY <2>1 DEF DepsHeld, Looping, Working
    <3>2. PICK n \in 1..Len(Order) : n > next /\ d \in Deps[Order[n]] /\ Undisturbed(d, Order[n])
      BY <2>1 DEF Needed
    <3>3. Order[n] \in Specs /\ Index(Order[n]) = n
      BY IndexOf
    <3>4. Index(d) < Index(Cur) /\ Index(Cur) < Index(Order[n]) /\ Cur \in Specs \ NoInstall
      BY <2>1, <2>3, <3>2, <3>3 DEF Needed, TurnHeld
    <3>5. /\ Foe(Cur, d) => <<d, Cur>> \in Cores
          /\ \A c \in Specs : <<d, c>> \in Cores => ~Foe(Cur, c)
      BY <3>2, <3>3, <3>4 DEF Undisturbed
    <3>6. CASE AllInstalled(d)
      BY <2>4, <2>6, <3>5, <3>6 DEF AllInstalled, IsInstalled
    <3>7. CASE StandIn(d)
      <4>1. PICK c \in Specs : <<d, c>> \in Cores /\ AnyInstalled(c)
        BY <3>7 DEF StandIn
      <4>2. c # q[1]
        BY <2>4, <3>5, <4>1
      <4>3. AnyInstalled(c)'
        BY <2>6, <4>1, <4>2 DEF AnyInstalled, IsInstalled
      <4>4. QED
        BY <4>1, <4>3 DEF StandIn
    <3>8. QED
      BY <3>1, <3>6, <3>7
  <2>9. TurnHeld'
    <3>1. Cur # q[1]
      BY <2>3, <2>4 DEF OrderlyCores
    <3>2. \A k \in 1..Subs[Cur] : installed'[<<Cur, k>>] = installed[<<Cur, k>>]
      BY <2>3, <2>6, <3>1, PackagesOf
    <3>3. \A k \in 1..Subs[Cur] : k < step => k # Subs[Cur]
      BY <2>3
    <3>4. QED
      BY <2>1, <2>7, <3>2, <3>3 DEF TurnHeld, IsInstalled
  <2>10. QED
    BY <2>8, <2>9 DEF DepsInv
<1>7. CASE UNCHANGED <<pc, next, step, installed>>
  BY <1>7 DEF DepsInv, DepsHeld, TurnHeld, Needed, AllInstalled, StandIn, AnyInstalled, IsInstalled, Cur
<1>8. QED
  <2>1. pc' = "done" => pc' \notin Looping
    BY DEF Looping, Working
  <2>2. QED
    BY <1>1, <1>2, <1>3, <1>4, <1>5, <1>6, <1>7, <2>1, LoopStep

\* spec_build: whatever the order, when the commands of a spec run, those of its
\* dependencies that are built before it and that nothing built in between
\* removes are in the root, or their full versions are.
THEOREM UndisturbedDepsPresent ==
  ASSUME OrderlyCores
  PROVE  Spec => [](pc = "exec" => \A d \in Deps[Cur] \ NoInstall :
                      Undisturbed(d, Cur) => AllInstalled(d) \/ StandIn(d))
<1> DEFINE Present == pc = "exec" => \A d \in Deps[Cur] \ NoInstall :
                        Undisturbed(d, Cur) => AllInstalled(d) \/ StandIn(d)
<1>1. Init => TypeInv /\ DepsInv
  BY DiskInit, RunInit DEF TypeInv, Init, DepsInv, DepsHeld, TurnHeld, Looping, Working
<1>2. TypeInv /\ DepsInv /\ [Next]_vars => TypeInv' /\ DepsInv'
  BY DiskNext, RunNext, DepsNext, OrderlyCores DEF TypeInv
<1>3. ASSUME TypeInv, DepsInv, pc = "exec", NEW d \in Deps[Cur] \ NoInstall, Undisturbed(d, Cur)
      PROVE  AllInstalled(d) \/ StandIn(d)
  <2>1. Cur \in Specs /\ next \in 1..Len(Order)
    BY <1>3, CurTyped DEF Working
  <2>2. Index(Cur) = next
    BY <2>1, IndexOf DEF Cur
  <2>3. d \in Specs /\ Index(d) < next
    BY <1>3, <2>1, <2>2, SpecsAssumption DEF Undisturbed
  <2>4. Needed(d)
    BY <1>3, <2>1, <2>3 DEF Needed, Cur
  <2>5. QED
    BY <1>3, <2>3, <2>4 DEF DepsInv, DepsHeld, Looping, Working
<1>4. TypeInv /\ DepsInv => Present
  BY <1>3
<1>5. QED
  BY <1>1, <1>2, <1>4, PTL DEF Spec

\* spec_build: when the commands of a spec run, what it depends on is in the root,
\* provided that nothing built in between removes it but its full version.
THEOREM AlwaysDepsPresent == ASSUME OrderlyDeps PROVE Spec => []DepsPresent
<1> DEFINE Present == pc = "exec" => \A d \in Deps[Cur] \ NoInstall :
                        Undisturbed(d, Cur) => AllInstalled(d) \/ StandIn(d)
<1>1. Spec => []Present
  BY UndisturbedDepsPresent, OrderlyDeps DEF OrderlyDeps
<1>2. TypeInv /\ Present => DepsPresent
  <2> SUFFICES ASSUME TypeInv, Present, pc = "exec", NEW d \in Deps[Cur] \ NoInstall
               PROVE  AllInstalled(d) \/ StandIn(d)
    BY DEF DepsPresent, StandIn
  <2>1. Cur \in Specs
    BY CurTyped DEF Working
  <2>2. QED
    BY <2>1, OrderlyDeps DEF OrderlyDeps
<1>3. QED
  BY <1>1, <1>2, TypeInvariant, PTL

-----------------------------------------------------------------------------
(* What is installed when a run is done is what is packed.  DoneIsCurrent is  *)
(* not inductive.  PackedRoot holds all the time, whatever is edited or       *)
(* removed by hand between two runs: what is packed under a whole header was  *)
(* not in the root when it was packed, since RebuiltOutsideRoot, and came     *)
(* there only from the ball.  That the header is of the present version is    *)
(* known of a spec behind the loop (Behind), because a dry run found it so    *)
(* (Awaited) or because the build has written it (AtTurn): one that has no    *)
(* package to write has a broken checksum, and ends the run.                  *)

NoLax == \A o \in OptionSets : ~o.lax_checksums

SourceDir(s, v) == IF s \in Tracking THEN Trunk ELSE v
Whole(s, v)     == /\ hdr[First(s)] = v
                   /\ \A p \in Packages(s) : /\ ball[p][SourceDir(s, v)] # Missing
                                             /\ hdr[p] # Missing
Ready(s)        == hdr[First(s)] = Src(s) /\ Installable(s)

PackedRoot ==
  \A s \in Specs, v \in Sources :
    Whole(s, v) =>
      \A p \in Packages(s) : installed[p] \in {Missing, ball[p][SourceDir(s, v)]}
Awaited ==
  \A n \in 1..Len(Order) : Waiting(n) =>
    /\ checksums[Order[n]] \in Checksum
    /\ StampOf(Order[n]) <= checksums[Order[n]].done
    /\ \/ Order[n] \in failed \cup NoInstall
       \/ hdr[First(Order[n])] = Src(Order[n])
Behind ==
  pc \in Looping =>
    \A n \in 1..Len(Order) : n < next => Order[n] \in NoInstall \/ Ready(Order[n])

\* The dry run of the present build listed the commands of its package stage.
ToPack == checksums[Cur].done < PackStage
PresentPackages ==
  \A k \in 1..Subs[Cur] :
    /\ BallMade(k) => ball[<<Cur, k>>][DirOf(Cur)] # Missing
    /\ HdrMade(k) => hdr[<<Cur, k>>] = Src(Cur)
AtTurn ==
  /\ pc \in {"exec", "record"} => checksums[Cur] \in Checksum
  /\ pc = "exec" /\ ToPack => PresentPackages
  /\ pc = "record" /\ ToPack => Ready(Cur)
  /\ pc \in {"certify", "unstamp", "install"} => Ready(Cur)
DoneReady == pc = "done" => \A s \in Specs \ NoInstall : Ready(s)

CurrentInv == PackedRoot /\ Awaited /\ Behind /\ AtTurn /\ DoneReady

LEMMA NoSuchFile == Missing \notin Sources /\ Damaged \notin Sources
BY ValuesAssumption DEF Dirs

\* What is taken out of the root cannot be of a wrong version.
LEMMA RootShrinks ==
  ASSUME PackedRoot, UNCHANGED <<ball, hdr>>,
         \A p \in Package : installed'[p] \in {Missing, installed[p]}
  PROVE  PackedRoot'
<1>1. \A s \in Specs : \A p \in Packages(s) : installed'[p] \in {Missing, installed[p]}
  BY DEF Package
<1>2. \A s \in Specs, v \in Sources : Whole(s, v)' = Whole(s, v)
  BY DEF Whole, First, SourceDir, Packages
<1>3. QED
  BY <1>1, <1>2 DEF PackedRoot, SourceDir, Packages

LEMMA PackedRootNext ==
  ASSUME TypeInv, RootInv, PackedRoot, AtTurn, [Next]_vars
  PROVE  PackedRoot'
<1> DiskTypeOK /\ RunTypeOK
  BY DEF TypeInv
<1>1. CASE UNCHANGED <<ball, hdr, installed>>
  BY <1>1, RootShrinks
<1>2. ASSUME NEW s \in Specs, Wipe(s) PROVE PackedRoot'
  <2> SUFFICES ASSUME NEW t \in Specs, NEW v \in Sources, Whole(t, v)', NEW p \in Packages(t)
               PROVE  installed'[p] \in {Missing, ball'[p][SourceDir(t, v)]}
    BY DEF PackedRoot, SourceDir, Packages
  <2>1. p \in Package /\ p[1] = t /\ First(t) \in Packages(t) /\ First(t) \in Package /\ First(t)[1] = t
    BY PackagesOf, PackageParts
  <2>2. SourceDir(t, v) \in Dirs
    BY DEF SourceDir, Dirs
  <2>3. t # s
    <3>1. ball'[First(t)][SourceDir(t, v)] # Missing
      BY <2>1 DEF Whole, SourceDir, First, Packages
    <3>2. QED
      BY <1>2, <2>1, <2>2, <3>1 DEF Wipe
  <2>4. \A q \in Packages(t) : ball'[q] = ball[q] /\ hdr'[q] = hdr[q]
    <3> SUFFICES ASSUME NEW q \in Packages(t) PROVE ball'[q] = ball[q] /\ hdr'[q] = hdr[q]
      OBVIOUS
    <3>1. q \in Package /\ q[1] # s
      BY <2>3, PackagesOf, PackageParts
    <3>2. QED
      BY <1>2, <3>1 DEF Wipe
  <2>5. Whole(t, v)
    BY <2>1, <2>4 DEF Whole, SourceDir, First, Packages
  <2>6. QED
    BY <1>2, <2>4, <2>5 DEF PackedRoot, Wipe
<1>3. CASE UninstallOutdated \/ RemoveRival
  <2>1. PICK p : installed' = [installed EXCEPT ![p] = Missing] /\ UNCHANGED <<ball, hdr>>
    BY <1>3 DEF UninstallOutdated, RemoveRival
  <2>2. \A q \in Package : installed'[q] \in {Missing, installed[q]}
    BY <2>1 DEF DiskTypeOK
  <2>3. QED
    BY <2>1, <2>2, RootShrinks
<1>4. CASE CreateTarball \/ DumpHeader \/ FailCommand
  <2>1. pc = "exec" /\ UNCHANGED installed /\ ~AnyInstalled(Cur)
    BY <1>4 DEF CreateTarball, DumpHeader, FailCommand, Die, Executing, RootInv, RebuiltOutsideRoot
  <2>2. \A q \in Package : q[1] # Cur => ball'[q] = ball[q] /\ hdr'[q] = hdr[q]
    BY <1>4 DEF CreateTarball, DumpHeader, FailCommand, Die, CutShort, Packing, DiskTypeOK
  <2> SUFFICES ASSUME NEW t \in Specs, NEW v \in Sources, Whole(t, v)', NEW p \in Packages(t)
               PROVE  installed'[p] \in {Missing, ball'[p][SourceDir(t, v)]}
    BY DEF PackedRoot, SourceDir, Packages
  <2>3. CASE t = Cur
    BY <2>1, <2>3 DEF AnyInstalled, IsInstalled
  <2>4. CASE t # Cur
    <3>1. \A q \in Packages(t) : ball'[q] = ball[q] /\ hdr'[q] = hdr[q]
      <4> SUFFICES ASSUME NEW q \in Packages(t) PROVE ball'[q] = ball[q] /\ hdr'[q] = hdr[q]
        OBVIOUS
      <4>1. q \in Package /\ q[1] # Cur
        BY <2>4, PackagesOf, PackageParts
      <4>2. QED
        BY <2>2, <4>1
    <3>2. First(t) \in Packages(t)
      BY PackagesOf
    <3>3. Whole(t, v)
      BY <3>1, <3>2 DEF Whole, SourceDir, First, Packages
    <3>4. QED
      BY <2>1, <3>1, <3>3 DEF PackedRoot
  <2>5. QED
    BY <2>3, <2>4
<1>5. CASE InstallPackage
  <2>1. /\ Installing /\ pc = "install" /\ UNCHANGED <<ball, hdr>>
        /\ installed' = [installed EXCEPT ![Pkg] = ball[Pkg][DirOf(Cur)]]
    BY <1>5 DEF InstallPackage, Installing
  <2>2. Pkg \in Package /\ Pkg[1] = Cur
    BY <2>1, AtHand
  <2> SUFFICES ASSUME NEW t \in Specs, NEW v \in Sources, Whole(t, v), NEW p \in Packages(t)
               PROVE  installed'[p] \in {Missing, ball[p][SourceDir(t, v)]}
    BY <2>1 DEF PackedRoot, SourceDir, Packages, Whole, First
  <2>3. p \in Package /\ p[1] = t
    BY PackagesOf, PackageParts
  <2>4. CASE p = Pkg
    <3>1. v = Src(Cur)
      BY <2>1, <2>2, <2>3, <2>4 DEF AtTurn, Ready, Whole
    <3>2. SourceDir(t, v) = DirOf(Cur)
      BY <2>2, <2>3, <2>4, <3>1 DEF SourceDir, DirOf, Src
    <3>3. QED
      BY <2>1, <2>3, <2>4, <3>2 DEF DiskTypeOK
  <2>5. CASE p # Pkg
    BY <2>1, <2>3, <2>5 DEF PackedRoot, DiskTypeOK
  <2>6. QED
    BY <2>4, <2>5
<1>6. QED
  BY <1>1, <1>2, <1>3, <1>4, <1>5
  DEF Next, Run, vars, disk, Edit, Begin, LockedOut, CalculateChecksums, BadHeader,
      UninstalledAll, SkipSpec, StartBuild, StartInstall, Finish, RunStage, RefusePackage,
      SetDone, Clean, Executed, BrokenChecksum, RenameChecksum, WriteChecksum, RemoveStamp,
      KeepPackage, BadBall, InstalledSpec, Kill, Die

LEMMA ReadyKept ==
  ASSUME NEW s \in Specs, UNCHANGED recipe,
         \A p \in Packages(s) : ball'[p] = ball[p] /\ hdr'[p] = hdr[p]
  PROVE  Ready(s)' = Ready(s) /\ hdr'[First(s)] = hdr[First(s)]
<1>1. hdr'[First(s)] = hdr[First(s)]
  BY PackagesOf
<1>2. Src(s)' = Src(s) /\ DirOf(s)' = DirOf(s)
  BY DEF Src, DirOf
<1>3. Installable(s)' = Installable(s)
  BY <1>2 DEF Installable, Packages
<1>4. QED
  BY <1>1, <1>2, <1>3 DEF Ready, First

\* A step of the present build leaves the others, done or awaited, as they are.
LEMMA OthersKept ==
  ASSUME TypeInv, CurrentInv, pc \in Working,
         UNCHANGED <<recipe, checksums, failed>>,
         (pc' \in Working /\ next' = next) \/ (pc' = "build" /\ next' = next + 1),
         \A p \in Package : p[1] # Cur => ball'[p] = ball[p] /\ hdr'[p] = hdr[p],
         \A s \in Specs : s # Cur => stamp'[s] = stamp[s]
  PROVE  /\ Awaited'
         /\ (next' = next \/ (\A s \in Specs \ NoInstall : s = Cur => Ready(s)')) => Behind'
<1>1. next \in 1..Len(Order) /\ Len(Order) \in Nat /\ Cur \in Specs
  BY CurTyped, SpecsAssumption
<1>2. \A n \in 1..Len(Order) : n # next => Order[n] \in Specs /\ Order[n] # Cur
  BY <1>1, SpecsAssumption DEF Cur
<1>3. \A n \in 1..Len(Order) : n # next =>
        Ready(Order[n])' = Ready(Order[n]) /\ hdr'[First(Order[n])] = hdr[First(Order[n])]
  <2> SUFFICES ASSUME NEW s \in Specs, s # Cur
               PROVE  Ready(s)' = Ready(s) /\ hdr'[First(s)] = hdr[First(s)]
    BY <1>2 DEF First
  <2>1. \A p \in Packages(s) : ball'[p] = ball[p] /\ hdr'[p] = hdr[p]
    BY PackagesOf, PackageParts
  <2>2. QED
    BY <2>1, ReadyKept
<1>4. Awaited'
  <2> SUFFICES ASSUME NEW n \in 1..Len(Order), Waiting(n)'
               PROVE  /\ checksums[Order[n]] \in Checksum
                      /\ StampOf(Order[n])' <= checksums[Order[n]].done
                      /\ \/ Order[n] \in failed \cup NoInstall
                         \/ hdr'[First(Order[n])] = Src(Order[n])
    BY DEF Awaited, First, Src
  <2>1. n > next
    BY <1>1 DEF Waiting, Working
  <2>2. Waiting(n) /\ n # next
    BY <1>1, <2>1 DEF Waiting
  <2>3. StampOf(Order[n])' = StampOf(Order[n])
    BY <1>2, <2>2 DEF StampOf, Src
  <2>4. QED
    BY <1>3, <2>2, <2>3 DEF CurrentInv, Awaited
<1>5. ASSUME next' = next \/ \A s \in Specs \ NoInstall : s = Cur => Ready(s)'
      PROVE  Behind'
  <2> SUFFICES ASSUME NEW n \in 1..Len(Order), n < next'
               PROVE  Order[n] \in NoInstall \/ Ready(Order[n])'
    BY DEF Behind
  <2>1. CASE n = next
    <3>1. Order[n] = Cur /\ next' # next
      BY <1>1, <2>1 DEF Cur
    <3>2. QED
      BY <1>1, <1>5, <3>1
  <2>2. CASE n # next
    BY <1>1, <1>3, <2>2 DEF CurrentInv, Behind, Looping
  <2>3. QED
    BY <2>1, <2>2
<1>6. QED
  BY <1>4, <1>5

\* Packaging: what has been written is there.
LEMMA PresentPackagesNext ==
  ASSUME TypeInv, CurrentInv, Executing, ToPack,
         RunStage \/ CreateTarball \/ DumpHeader \/ SetDone \/ Clean
  PROVE  PresentPackages'
<1> DiskTypeOK /\ RunTypeOK
  BY DEF TypeInv
<1>1. /\ pc = "exec" /\ Cur \in Specs /\ Subs[Cur] \in Nat \ {0} /\ DirOf(Cur) \in Dirs
      /\ Src(Cur) \in Sources /\ Here \in left /\ \A j \in left : Here <= j
  BY CurTyped, ValuesTyped, SpecsAssumption, FirstStage DEF Executing, Working
<1>2. Stage = "package" <=> Here = PackStage
  BY PackageStage, FirstStage DEF Stage
<1>3. PresentPackages
  BY <1>1 DEF CurrentInv, AtTurn
<1>4. UNCHANGED <<recipe, next>> /\ Cur' = Cur /\ DirOf(Cur)' = DirOf(Cur) /\ Src(Cur)' = Src(Cur)
  BY DEF RunStage, CreateTarball, DumpHeader, SetDone, Clean, Cur, DirOf, Src
<1>5. \A k \in 1..Subs[Cur] : <<Cur, k>> \in Package
  BY <1>1, PackageOf
<1>6. ASSUME UNCHANGED <<ball, hdr>>,
             \A k \in 1..Subs[Cur] : (BallMade(k)' => BallMade(k)) /\ (HdrMade(k)' => HdrMade(k))
      PROVE  PresentPackages'
  BY <1>3, <1>4, <1>6 DEF PresentPackages
<1>7. CASE RunStage
  <2>1. Stage # "package" /\ UNCHANGED <<ball, hdr, left>>
    BY <1>7 DEF RunStage
  <2>2. \A k : BallMade(k)' = BallMade(k) /\ HdrMade(k)' = HdrMade(k)
    BY <1>2, <2>1 DEF BallMade, HdrMade, Here
  <2>3. QED
    BY <1>6, <2>1, <2>2
<1>8. CASE CreateTarball
  <2>1. /\ Stage = "package" /\ step % 2 = 0 /\ step' = step + 1 /\ UNCHANGED <<hdr, left>>
        /\ ball' = [ball EXCEPT ![Packing][DirOf(Cur)] = Made(tree[Cur][DirOf(Cur)])]
    BY <1>8 DEF CreateTarball
  <2>2. Here' = Here /\ step \in Nat
    BY <2>1 DEF Here, RunTypeOK
  <2>3. ASSUME NEW k \in 1..Subs[Cur], BallMade(k)'
        PROVE  ball'[<<Cur, k>>][DirOf(Cur)] # Missing
    <3>1. BallMade(k) \/ k = step \div 2 + 1
      BY <1>1, <1>2, <2>1, <2>2, <2>3, Halves DEF BallMade
    <3>2. CASE k = step \div 2 + 1
      <4>1. Made(tree[Cur][DirOf(Cur)]) # Missing
        BY <1>1, ValuesTyped, ContentTyped
      <4>2. QED
        BY <1>1, <1>5, <2>1, <3>2, <4>1 DEF Packing, DiskTypeOK
    <3>3. CASE k # step \div 2 + 1
      BY <1>3, <1>5, <2>1, <3>1, <3>3 DEF Packing, DiskTypeOK, PresentPackages
    <3>4. QED
      BY <3>2, <3>3
  <2>4. \A k \in 1..Subs[Cur] : HdrMade(k)' => HdrMade(k)
    BY <1>1, <1>2, <2>1, <2>2, Halves DEF HdrMade
  <2>5. QED
    BY <1>3, <1>4, <2>1, <2>3, <2>4 DEF PresentPackages
<1>9. CASE DumpHeader
  <2>1. /\ Stage = "package" /\ step % 2 = 1 /\ step' = step + 1 /\ UNCHANGED <<ball, left>>
        /\ hdr' = [hdr EXCEPT ![Packing] = Src(Cur)]
    BY <1>9 DEF DumpHeader
  <2>2. Here' = Here /\ step \in Nat
    BY <2>1 DEF Here, RunTypeOK
  <2>3. ASSUME NEW k \in 1..Subs[Cur], HdrMade(k)'
        PROVE  hdr'[<<Cur, k>>] = Src(Cur)
    <3>1. HdrMade(k) \/ k = step \div 2 + 1
      BY <1>1, <1>2, <2>1, <2>2, <2>3, Halves DEF HdrMade
    <3>2. QED
      BY <1>3, <1>5, <2>1, <3>1 DEF Packing, DiskTypeOK, PresentPackages
  <2>4. \A k \in 1..Subs[Cur] : BallMade(k)' => BallMade(k)
    BY <1>1, <1>2, <2>1, <2>2, Halves DEF BallMade
  <2>5. QED
    BY <1>3, <1>4, <2>1, <2>3, <2>4 DEF PresentPackages
<1>10. CASE SetDone
  <2>1. step = LastStep /\ step' = 0 /\ left' = left \ {Here} /\ UNCHANGED <<ball, hdr>>
    BY <1>10 DEF SetDone
  <2>2. ASSUME NEW k \in 1..Subs[Cur] PROVE (BallMade(k)' => BallMade(k)) /\ (HdrMade(k)' => HdrMade(k))
    <3>1. ~(0 >= 2 * k - 1) /\ ~(0 >= 2 * k) /\ 2 * Subs[Cur] >= 2 * k - 1 /\ 2 * Subs[Cur] >= 2 * k
      BY <1>1
    <3>2. Here = PackStage => step = 2 * Subs[Cur]
      BY <1>2, <2>1 DEF LastStep
    <3>3. QED
      BY <2>1, <3>1, <3>2 DEF BallMade, HdrMade
  <2>3. QED
    BY <1>6, <2>1, <2>2
<1>11. CASE Clean
  <2>1. Stage = "clean" /\ left' = left \ {Here} /\ UNCHANGED <<ball, hdr>>
    BY <1>11 DEF Clean
  <2>2. \A j \in left : j = Here
    BY <1>1, <2>1, StagesAssumption DEF Stage, RunTypeOK
  <2>3. PackStage \notin left
    BY <1>2, <2>1, <2>2
  <2>4. QED
    BY <1>6, <2>1, <2>3 DEF BallMade, HdrMade
<1>12. QED
  BY <1>7, <1>8, <1>9, <1>10, <1>11

LEMMA CurrentNext ==
  ASSUME NoLax, TypeInv, RootInv, CurrentInv, [Next]_vars
  PROVE  CurrentInv'
<1> /\ DiskTypeOK /\ RunTypeOK
    /\ PackedRoot /\ Awaited /\ Behind /\ AtTurn /\ DoneReady
  BY DEF TypeInv, CurrentInv
<1>a. PackedRoot'
  BY PackedRootNext
<1>b. Len(Order) \in Nat /\ next \in Nat
  BY SpecsAssumption DEF RunTypeOK
<1>c. \A n \in 1..Len(Order) : Order[n] \in Specs
  BY SpecsAssumption
<1>d. ~options.lax_checksums
  BY DEF RunTypeOK, NoLax, NoOptions
<1>e. UNCHANGED <<recipe, ball, hdr>> =>
        \A s \in Specs : Ready(s)' = Ready(s) /\ hdr'[First(s)] = hdr[First(s)]
  BY ReadyKept
<1>f. pc \in Working => Cur \in Specs /\ next \in 1..Len(Order)
  BY CurTyped
<1>g. UNCHANGED <<recipe, next>> => UNCHANGED <<Cur, DirOf(Cur), Src(Cur)>>
  BY DEF Cur, DirOf, Src
<1>1. CASE pc' \in {"idle", "checksums"}
  BY <1>1, <1>a DEF CurrentInv, Awaited, Waiting, Behind, AtTurn, DoneReady, Looping, Working
<1>2. CASE CalculateChecksums
  <2>1. /\ UNCHANGED <<recipe, stamp, ball, hdr>> /\ pc' = "uninstall"
        /\ checksums' = [s \in Specs |-> DryRunChecksum(s)]
        /\ failed' = {s \in Specs : FailReason(s)}
    BY <1>2 DEF CalculateChecksums, disk
  <2>2. ASSUME NEW s \in Specs
        PROVE  /\ checksums'[s] \in Checksum /\ StampOf(s)' <= checksums'[s].done
               /\ s \in failed' \cup NoInstall \/ hdr'[First(s)] = Src(s)'
    <3>1. checksums'[s] = [recipe |-> recipe[s], done |-> StampOf(s)]
      BY <2>1 DEF DryRunChecksum
    <3>2. StampOf(s) \in 0..Len(Stages) /\ recipe[s] \in Recipes /\ StampOf(s)' = StampOf(s)
          /\ Len(Stages) \in Nat
      BY <2>1, ValuesTyped, StagesAssumption DEF StampOf, Src
    <3>3. s \in failed' \cup NoInstall \/ hdr'[First(s)] = Src(s)'
      BY <2>1 DEF FailReason, Src
    <3>4. QED
      BY <3>1, <3>2, <3>3 DEF Checksum
  <2>3. Awaited'
    BY <1>c, <2>2 DEF Awaited, First
  <2>4. QED
    BY <1>a, <2>1, <2>3 DEF CurrentInv, Behind, AtTurn, DoneReady, Looping, Working
<1>3. CASE UninstallOutdated \/ UninstalledAll
  <2>1. /\ pc = "uninstall" /\ UNCHANGED <<recipe, stamp, ball, hdr, checksums, failed>>
        /\ pc' = "uninstall" \/ (pc' = "build" /\ next' = 1)
    BY <1>3 DEF UninstallOutdated, UninstalledAll, Goto, disk, loop
  <2>2. Awaited'
    BY <2>1 DEF Awaited, Waiting, StampOf, Src, First
  <2>3. Behind'
    BY <2>1 DEF Behind, Looping, Working
  <2>4. QED
    BY <1>a, <2>1, <2>2, <2>3 DEF CurrentInv, AtTurn, DoneReady
<1>4. CASE SkipSpec
  <2>1. /\ pc = "build" /\ pc' = "build" /\ next' = next + 1 /\ next \in 1..Len(Order)
        /\ UNCHANGED <<recipe, stamp, ball, hdr, checksums, failed>> /\ NothingToDo(Cur)
    BY <1>4, CurTyped DEF SkipSpec, NextSpec, Goto, disk, loop
  <2>2. Cur \in NoInstall \/ Ready(Cur)
    <3>1. CASE AllInstalled(Cur)
      <4>1. Cur \in Specs /\ AnyInstalled(Cur)
        BY <1>c, <2>1, <3>1, PackagesOf DEF Cur, AllInstalled, AnyInstalled
      <4>2. next \in Upcoming
        BY <2>1 DEF Upcoming
      <4>3. ~MustBuild(Cur)
        BY <4>1, <4>2 DEF RootInv, RebuiltLater, Cur
      <4>4. Waiting(next)
        BY <1>b, <2>1 DEF Waiting
      <4>5. QED
        BY <1>d, <2>1, <4>3, <4>4 DEF MustBuild, Awaited, Ready, Cur
    <3>2. QED
      BY <2>1, <3>1 DEF NothingToDo
  <2>3. Awaited'
    <3>1. \A n \in 1..Len(Order) : Waiting(n)' => Waiting(n)
      BY <1>b, <2>1 DEF Waiting, Working
    <3>2. QED
      BY <2>1, <3>1 DEF Awaited, StampOf, Src, First
  <2>4. Behind'
    <3> SUFFICES ASSUME NEW n \in 1..Len(Order), n < next + 1
                 PROVE  Order[n] \in NoInstall \/ Ready(Order[n])
      BY <1>c, <1>e, <2>1 DEF Behind
    <3>1. n < next \/ n = next
      BY <1>b
    <3>2. QED
      BY <2>1, <2>2, <3>1 DEF Behind, Looping, Cur
  <2>5. QED
    BY <1>a, <2>1, <2>3, <2>4 DEF CurrentInv, AtTurn, DoneReady
<1>5. CASE StartBuild \/ StartInstall
  <2>1. /\ pc = "build" /\ pc' \in {"exec", "install"} /\ next' = next /\ next \in 1..Len(Order)
        /\ UNCHANGED <<recipe, stamp, ball, hdr, checksums, failed>> /\ Cur \in Specs
    BY <1>5, CurTyped DEF StartBuild, StartInstall, Goto, disk, loop
  <2>2. Waiting(next)
    BY <1>b, <2>1 DEF Waiting
  <2>3. Awaited'
    <3>1. \A n \in 1..Len(Order) : Waiting(n)' => Waiting(n)
      BY <1>b, <2>1 DEF Waiting, Working
    <3>2. QED
      BY <2>1, <3>1 DEF Awaited, StampOf, Src, First
  <2>4. Behind'
    BY <1>c, <1>e, <2>1 DEF Behind, Looping
  <2>5. checksums[Cur] \in Checksum /\ StampOf(Cur) <= checksums[Cur].done
    BY <2>1, <2>2 DEF Awaited, Cur
  <2>6. CASE StartBuild
    <3>1. /\ pc' = "exec" /\ step' = 0
          /\ left' = {i \in 1..Len(Stages) : i > StampOf(Cur) /\ Stages[i] \notin Skip}
      BY <2>6 DEF StartBuild
    <3>2. ASSUME ToPack PROVE PresentPackages'
      <4>1. PackStage \in 1..Len(Stages) /\ "package" \notin Skip /\ Stages[PackStage] = "package"
        BY PackageStage DEF Skip
      <4>2. StampOf(Cur) \in Nat /\ checksums[Cur].done \in Nat
        BY <2>1, <2>5, ValuesTyped, StagesAssumption DEF Checksum
      <4>3. PackStage > StampOf(Cur)
        BY <2>5, <3>2, <4>1, <4>2 DEF ToPack
      <4>4. PackStage \in left'
        BY <3>1, <4>1, <4>3
      <4>5. \A k \in 1..Subs[Cur] : ~(0 >= 2 * k - 1) /\ ~(0 >= 2 * k)
        OBVIOUS
      <4>6. \A k \in 1..Subs[Cur] : ~BallMade(k)' /\ ~HdrMade(k)'
        BY <3>1, <4>4, <4>5 DEF BallMade, HdrMade
      <4>7. QED
        BY <1>g, <2>1, <4>6 DEF PresentPackages
    <3>3. AtTurn'
      BY <1>g, <2>1, <2>5, <3>1, <3>2 DEF AtTurn, ToPack
    <3>4. QED
      BY <1>a, <2>3, <2>4, <3>1, <3>3 DEF CurrentInv, DoneReady
  <2>7. CASE StartInstall
    <3>1. pc' = "install" /\ ~NothingToDo(Cur) /\ ~MustBuild(Cur)
      BY <2>7 DEF StartInstall, Goto
    <3>2. Cur \notin failed \cup NoInstall /\ Installable(Cur)
      BY <1>d, <3>1 DEF NothingToDo, MustBuild
    <3>3. Ready(Cur)
      BY <2>1, <2>2, <3>2 DEF Awaited, Ready, Cur
    <3>4. AtTurn'
      BY <1>e, <1>g, <2>1, <3>1, <3>3 DEF AtTurn
    <3>5. QED
      BY <1>a, <2>3, <2>4, <3>1, <3>4 DEF CurrentInv, DoneReady
  <2>8. QED
    BY <1>5, <2>6, <2>7
<1>6. CASE Finish
  <2>1. pc = "build" /\ next > Len(Order) /\ pc' = "done" /\ UNCHANGED <<recipe, ball, hdr>>
    BY <1>6 DEF Finish, EndRun, disk
  <2>2. ASSUME NEW s \in Specs \ NoInstall PROVE Ready(s)
    <3>1. Index(s) \in 1..Len(Order) /\ Order[Index(s)] = s
      BY IndexOf
    <3>2. Index(s) < next
      BY <1>b, <2>1, <3>1
    <3>3. QED
      BY <2>1, <3>1, <3>2 DEF Behind, Looping
  <2>3. DoneReady'
    BY <1>e, <2>1, <2>2 DEF DoneReady
  <2>4. QED
    BY <1>a, <2>1, <2>3 DEF CurrentInv, Awaited, Waiting, Behind, AtTurn, Looping, Working
<1>7. CASE RunStage \/ CreateTarball \/ DumpHeader \/ SetDone \/ Clean
  <2>1. /\ Executing /\ pc = "exec" /\ pc' = "exec"
        /\ UNCHANGED <<recipe, checksums, failed, next>>
    BY <1>7 DEF RunStage, CreateTarball, DumpHeader, SetDone, Clean, Executing, loop
  <2>2. \A p \in Package : p[1] # Cur => ball'[p] = ball[p] /\ hdr'[p] = hdr[p]
    BY <1>7 DEF RunStage, CreateTarball, DumpHeader, SetDone, Clean, Packing, DiskTypeOK
  <2>3. \A s \in Specs : s # Cur => stamp'[s] = stamp[s]
    BY <1>7 DEF RunStage, CreateTarball, DumpHeader, SetDone, Clean, DiskTypeOK
  <2>4. Awaited' /\ Behind'
    <3>1. pc \in Working /\ UNCHANGED <<recipe, checksums, failed>>
      BY <2>1 DEF Working
    <3>2. (pc' \in Working /\ next' = next) \/ (pc' = "build" /\ next' = next + 1)
      BY <2>1 DEF Working
    <3>3. \A p \in Package : p[1] # Cur => ball'[p] = ball[p] /\ hdr'[p] = hdr[p]
      BY <2>2
    <3>4. \A s \in Specs : s # Cur => stamp'[s] = stamp[s]
      BY <2>3
    <3>5. QED
      BY <2>1, <3>1, <3>2, <3>3, <3>4, OthersKept
  <2>5. ToPack => PresentPackages'
    BY <1>7, <2>1, PresentPackagesNext
  <2>6. checksums[Cur] \in Checksum /\ ToPack' = ToPack /\ checksums'[Cur'] = checksums[Cur]
    BY <2>1 DEF AtTurn, ToPack, Cur
  <2>7. AtTurn'
    BY <2>1, <2>5, <2>6 DEF AtTurn
  <2>8. QED
    BY <1>a, <2>1, <2>4, <2>7 DEF CurrentInv, DoneReady
<1>8. CASE Executed \/ RenameChecksum \/ WriteChecksum
  <2>1. /\ pc \in {"exec", "record", "certify"} /\ pc' \in {"record", "certify", "unstamp"}
        /\ UNCHANGED <<recipe, stamp, ball, hdr, checksums, failed, next>>
    BY <1>8 DEF Executed, RenameChecksum, WriteChecksum, Goto, disk, loop
  <2>2. Awaited' /\ Behind'
    <3>1. pc \in Working /\ UNCHANGED <<recipe, checksums, failed>>
      BY <2>1 DEF Working
    <3>2. (pc' \in Working /\ next' = next) \/ (pc' = "build" /\ next' = next + 1)
      BY <2>1 DEF Working
    <3>3. \A p \in Package : p[1] # Cur => ball'[p] = ball[p] /\ hdr'[p] = hdr[p]
      BY <2>1
    <3>4. \A s \in Specs : s # Cur => stamp'[s] = stamp[s]
      BY <2>1
    <3>5. QED
      BY <2>1, <3>1, <3>2, <3>3, <3>4, OthersKept
  <2>3. checksums'[Cur'] = checksums[Cur] /\ ToPack' = ToPack /\ Ready(Cur)' = Ready(Cur)
        /\ Cur \in Specs
    BY <1>e, <1>f, <1>g, <2>1 DEF ToPack, Working
  <2>4. CASE Executed
    <3>1. pc = "exec" /\ pc' = "record" /\ left = {}
      BY <2>4 DEF Executed, Goto
    <3>2. ASSUME ToPack PROVE Ready(Cur)
      <4>1. \A k \in 1..Subs[Cur] : /\ ball[<<Cur, k>>][DirOf(Cur)] # Missing
                                    /\ hdr[<<Cur, k>>] = Src(Cur)
        BY <3>1, <3>2 DEF AtTurn, PresentPackages, BallMade, HdrMade
      <4>2. Src(Cur) # Missing
        BY <2>3, ValuesTyped, NoSuchFile
      <4>3. \A p \in Packages(Cur) : p[2] \in 1..Subs[Cur] /\ p = <<Cur, p[2]>>
        BY DEF Packages
      <4>4. \A p \in Packages(Cur) : ball[p][DirOf(Cur)] # Missing /\ hdr[p] = Src(Cur)
        BY <4>1, <4>3
      <4>5. QED
        BY <2>3, <4>2, <4>4, PackagesOf DEF Ready, Installable
    <3>3. AtTurn'
      BY <2>3, <3>1, <3>2 DEF AtTurn
    <3>4. QED
      BY <1>a, <2>2, <3>1, <3>3 DEF CurrentInv, DoneReady
  <2>5. CASE RenameChecksum
    <3>1. pc = "record" /\ pc' = "certify" /\ ~Broken(checksums[Cur])
      BY <2>5 DEF RenameChecksum, Goto
    <3>2. ToPack
      <4>1. PICK i \in (checksums[Cur].done + 1)..Len(Stages) : Stages[i] # "clean"
        BY <3>1 DEF Broken
      <4>2. checksums[Cur] \in Checksum
        BY <3>1 DEF AtTurn
      <4>3. checksums[Cur].done \in Nat /\ i \in 1..Len(Stages) /\ checksums[Cur].done < i
            /\ Len(Stages) \in Nat
        BY <4>1, <4>2, StagesAssumption DEF Checksum
      <4>4. i <= PackStage
        <5>1. PICK j \in 1..Len(Stages) :
                /\ Stages[j] = "package"
                /\ \A m \in 1..Len(Stages) : m > j => Stages[m] = "clean"
          BY PackageAssumption
        <5>2. j = PackStage
          BY <5>1, PackageStage
        <5>3. QED
          BY <4>1, <4>3, <5>1, <5>2
      <4>5. QED
        BY <4>3, <4>4, PackageStage DEF ToPack
    <3>3. AtTurn'
      BY <2>3, <3>1, <3>2 DEF AtTurn
    <3>4. QED
      BY <1>a, <2>2, <3>1, <3>3 DEF CurrentInv, DoneReady
  <2>6. CASE WriteChecksum
    <3>1. pc = "certify" /\ pc' = "unstamp"
      BY <2>6 DEF WriteChecksum, Goto
    <3>2. AtTurn'
      BY <2>3, <3>1 DEF AtTurn
    <3>3. QED
      BY <1>a, <2>2, <3>1, <3>2 DEF CurrentInv, DoneReady
  <2>7. QED
    BY <1>8, <2>4, <2>5, <2>6
<1>9. CASE \/ RemoveStamp \/ InstalledSpec
           \/ KeepPackage \/ RemoveRival \/ InstallPackage
  <2>1. /\ pc \in {"unstamp", "install"} /\ UNCHANGED <<recipe, ball, hdr, checksums, failed>>
        /\ \/ pc' = "install" /\ next' = next
           \/ pc' = "build" /\ next' = next + 1
    BY <1>9 DEF RemoveStamp, InstalledSpec, KeepPackage, RemoveRival, InstallPackage,
       Installing, NextSpec, Goto, disk, loop
  <2>2. Cur \in Specs /\ Ready(Cur)
    BY <1>f, <2>1 DEF AtTurn, Working
  <2>3. \A s \in Specs : s # Cur => stamp'[s] = stamp[s]
    BY <1>9 DEF RemoveStamp, InstalledSpec, KeepPackage, RemoveRival, InstallPackage, disk,
       DiskTypeOK
  <2>4. \A s \in Specs : s = Cur => Ready(s)'
    BY <1>e, <2>1, <2>2
  <2>5. Awaited' /\ Behind'
    <3>1. pc \in Working /\ UNCHANGED <<recipe, checksums, failed>>
      BY <2>1 DEF Working
    <3>2. (pc' \in Working /\ next' = next) \/ (pc' = "build" /\ next' = next + 1)
      BY <2>1 DEF Working
    <3>3. \A p \in Package : p[1] # Cur => ball'[p] = ball[p] /\ hdr'[p] = hdr[p]
      BY <2>1
    <3>4. \A s \in Specs : s # Cur => stamp'[s] = stamp[s]
      BY <2>3
    <3>5. QED
      BY <2>4, <3>1, <3>2, <3>3, <3>4, OthersKept
  <2>6. AtTurn'
    <3>1. CASE pc' = "install" /\ next' = next
      BY <1>g, <2>1, <2>2, <2>4, <3>1 DEF AtTurn
    <3>2. CASE pc' = "build"
      BY <3>2 DEF AtTurn
    <3>3. QED
      BY <2>1, <3>1, <3>2
  <2>7. QED
    BY <1>a, <2>1, <2>5, <2>6 DEF CurrentInv, DoneReady
<1>10. CASE LockedOut
  <2>1. /\ stamp' = Unstamped
        /\ UNCHANGED <<recipe, ball, hdr, checksums, failed, pc, next, left, step>>
    BY <1>10 DEF LockedOut, loop
  <2>2. Awaited'
    <3> SUFFICES ASSUME NEW n \in 1..Len(Order), Waiting(n)
                 PROVE  /\ checksums[Order[n]] \in Checksum
                        /\ StampOf(Order[n])' <= checksums[Order[n]].done
                        /\ \/ Order[n] \in failed \cup NoInstall
                           \/ hdr[First(Order[n])] = Src(Order[n])
      BY <2>1 DEF Awaited, Waiting, First, Src
    <3>1. StampOf(Order[n])' = 0
      BY <1>c, <2>1, ValuesTyped DEF StampOf, Src, Unstamped, DiskTypeOK
    <3>2. checksums[Order[n]] \in Checksum /\ checksums[Order[n]].done \in 0..Len(Stages)
      BY DEF Awaited, Checksum
    <3>3. QED
      BY <3>1, <3>2, StagesAssumption DEF Awaited
  <2>3. Behind' /\ DoneReady'
    BY <1>c, <1>e, <2>1 DEF Behind, DoneReady
  <2>4. AtTurn'
    <3>1. Cur' = Cur /\ DirOf(Cur)' = DirOf(Cur) /\ Src(Cur)' = Src(Cur) /\ Here' = Here
          /\ (pc \in Working => Ready(Cur)' = Ready(Cur))
      BY <1>e, <1>f, <1>g, <2>1 DEF Here
    <3>2. PresentPackages' = PresentPackages /\ ToPack' = ToPack
      BY <2>1, <3>1 DEF PresentPackages, BallMade, HdrMade, ToPack
    <3>3. QED
      BY <2>1, <3>1, <3>2 DEF AtTurn, Working
  <2>5. QED
    BY <1>a, <2>2, <2>3, <2>4 DEF CurrentInv
<1>11. CASE UNCHANGED vars
  BY <1>11, <1>a DEF vars, disk, loop, CurrentInv, Awaited, Behind, AtTurn, DoneReady, Waiting,
     StampOf, Src, First, Ready, Installable, DirOf, Packages, Cur, ToPack, PresentPackages,
     BallMade, HdrMade, Here
<1>12. QED
  BY <1>1, <1>2, <1>3, <1>4, <1>5, <1>6, <1>7, <1>8, <1>9, <1>10, <1>11
  DEF Next, Run, Edit, Wipe, Begin, BadHeader, RefusePackage, BrokenChecksum, BadBall, Kill,
      FailCommand, Die, EndRun

\* bin/gub, without --lax-checksums: a run that says `done' leaves every package in its
\* present version, and the root holds only what was unpacked from those packages.
THEOREM AlwaysCurrent == ASSUME NoLax PROVE Spec => []DoneIsCurrent
<1>1. Init => TypeInv /\ RootInv /\ CurrentInv
  <2> SUFFICES ASSUME Init PROVE TypeInv /\ RootInv /\ CurrentInv
    OBVIOUS
  <2>1. TypeInv /\ RootInv
    BY DiskInit, RunInit, RootInit DEF TypeInv
  <2>2. PackedRoot
    <3>1. \A p \in Package : installed[p] = Missing
      BY DEF Init
    <3>2. \A s \in Specs : \A p \in Packages(s) : installed[p] = Missing
      BY <3>1 DEF Package
    <3>3. QED
      BY <3>2 DEF PackedRoot
  <2>3. pc = "idle"
    BY DEF Init
  <2>4. QED
    BY <2>1, <2>2, <2>3 DEF CurrentInv, Awaited, Waiting, Behind, AtTurn, DoneReady, Looping, Working
<1>2. TypeInv /\ RootInv /\ CurrentInv /\ [Next]_vars => TypeInv' /\ RootInv' /\ CurrentInv'
  BY DiskNext, RunNext, RootNext, CurrentNext, NoLax DEF TypeInv
<1>3. ASSUME TypeInv, CurrentInv, pc = "done", NEW s \in Specs \ NoInstall
      PROVE  Installable(s) /\ \A p \in Packages(s) : installed[p] \in {Missing, ball[p][DirOf(s)]}
  <2>1. Ready(s) /\ Src(s) \in Sources
    BY <1>3, ValuesTyped DEF CurrentInv, DoneReady, TypeInv
  <2>2. SourceDir(s, Src(s)) = DirOf(s)
    BY DEF SourceDir, DirOf, Src
  <2>3. Whole(s, Src(s))
    BY <2>1, <2>2 DEF Ready, Installable, Whole
  <2>4. QED
    BY <1>3, <2>1, <2>2, <2>3 DEF CurrentInv, PackedRoot, Ready
<1>4. TypeInv /\ CurrentInv => DoneIsCurrent
  BY <1>3 DEF DoneIsCurrent
<1>5. QED
  BY <1>1, <1>2, <1>4, PTL DEF Spec
=============================================================================
