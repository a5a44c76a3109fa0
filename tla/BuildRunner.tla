----------------------------- MODULE BuildRunner -----------------------------
(***************************************************************************)
(* One `bin/gub' invocation after another on one target platform: the      *)
(* driver (gub/buildrunner.py), the staged build with its stamp file       *)
(* (gub/build.py) and the deferred command list (gub/runner.py).           *)
(*                                                                         *)
(* On disk, and surviving everything: the recipes, the stamp files, the    *)
(* source/build trees, the package balls (.gup), their headers (.hdr), the *)
(* checksum files and the system root.  In memory, and lost whenever a run *)
(* ends: the options, the checksums computed by the dry run, and the       *)
(* deferred commands that are still to be executed.                        *)
(*                                                                         *)
(* A run holds the lock of its platform, so runs do not overlap here; that *)
(* lock is module Locker.  The package database behind `installed' is      *)
(* module Gup: here a package is installed or removed in one step.         *)
(***************************************************************************)
EXTENDS Integers, Sequences, FiniteSets

CONSTANTS
  Specs,      \* the builds get_source_packages returned
  Order,      \* their names in build order
  Deps,       \* spec -> the specs it needs installed to build
  NoInstall,  \* the specs with install_after_build = False
  Tracking,   \* the specs whose source.is_tracking ()
  Subs,       \* spec -> number of subpackages; the last is the '' subpackage
  Stages,     \* stages (), in order
  Conflicts,  \* get_conflict_dict, as pairs of packages <<installing, installed>>
  Cores,      \* <<c, s>>: the '' package of c is named <source name of s>-core
  Recipes,    \* what the dry run of a spec's commands can amount to
  SourceOf,   \* recipe -> source version and checksum
  Trunk,      \* the directory suffix of a tracked source
  OptionSets, \* command lines: records of the booleans used below
  Missing,    \* no such file, or not installed
  Damaged,    \* a file whose writing was cut short
  MaxEdits,   \* bound: recipe changes
  MaxWipes,   \* bound: interference by hand, with built files or stamps
  MaxAborts   \* bound: failing or killed runs

Sources == {SourceOf[r] : r \in Recipes}
Dirs    == Sources \cup {Trunk}
Packages(s) == {s} \X (1..Subs[s])
Package     == UNION {Packages(s) : s \in Specs}

\* What a tree, and a ball packed from it, was made from: the recipes whose
\* stages ran in it since it was last unpacked, and whether a stage was ever
\* started again on top of its own unfinished output.
Content  == [recipes : SUBSET Recipes, torn : BOOLEAN]
Pure(r)  == [recipes |-> {r}, torn |-> FALSE]

\* DeferredRunner.checksum: the commands of `recipe' without its first `done'
\* stages.  Full(r) is the checksum of a build from scratch.
Checksum == [recipe : Recipes, done : 0..Len(Stages)]
Full(r)  == [recipe |-> r, done |-> 0]

ASSUME SpecsAssumption ==
  /\ Order \in Seq(Specs)
  /\ \A m, n \in 1..Len(Order) : Order[m] = Order[n] => m = n
  /\ \A s \in Specs : \E n \in 1..Len(Order) : Order[n] = s
  /\ Deps \in [Specs -> SUBSET Specs]
  /\ NoInstall \subseteq Specs /\ Tracking \subseteq Specs
  /\ Subs \in [Specs -> Nat \ {0}]
  /\ Conflicts \subseteq Package \X Package
  /\ Cores \subseteq Specs \X Specs
ASSUME StagesAssumption ==
  /\ Stages \in Seq(STRING) /\ Len(Stages) > 0
  /\ Stages[1] = "untar"
  /\ \A i, j \in 1..Len(Stages) :
       Stages[i] = Stages[j] \/ (Stages[i] = "clean" /\ i < j) => i = j
\* Every stages () ends with package, or with package and clean.
ASSUME PackageAssumption ==
  \E i \in 1..Len(Stages) :
    /\ Stages[i] = "package"
    /\ \A j \in 1..Len(Stages) : j > i => Stages[j] = "clean"
ASSUME ValuesAssumption ==
  /\ \A r \in Recipes : SourceOf[r] # Trunk
  /\ Missing # Damaged
  /\ \A v \in {Missing, Damaged} : v \notin Content \cup Dirs /\ v \notin Checksum
  /\ OptionSets \subseteq [keep_build : BOOLEAN, fresh : BOOLEAN,
                           force_package : BOOLEAN, lax_checksums : BOOLEAN,
                           build_source : BOOLEAN]
  /\ MaxEdits \in Nat /\ MaxWipes \in Nat /\ MaxAborts \in Nat

VARIABLES
  recipe,     \* spec -> its present recipe
  stamp,      \* spec -> source -> index of the last stage done, 0 if none
  tree,       \* spec -> directory -> what is unpacked and built there
  ball,       \* package -> directory -> what is packed in its ball
  hdr,        \* package -> the source recorded in its header
  checksum,   \* spec -> content of its checksum file
  installed,  \* package -> what the system root holds of it
  pc,         \* where the run is
  options,    \* its command line
  checksums,  \* BuildRunner.checksums
  failed,     \* the keys of BuildRunner.failed_checksums
  next,       \* index in Order of the spec being built
  left,       \* indices of the stages whose commands are deferred
  step,       \* commands already executed of the first stage of left, or
              \* the subpackage being installed
  tainted,    \* Build.build found a stage already done
  edits, wipes, aborts  \* counters for the bounds

disk  == <<recipe, stamp, tree, ball, hdr, checksum, installed>>
loop  == <<options, checksums, failed>>
vars  == <<disk, pc, loop, next, left, step, tainted, edits, wipes, aborts>>
bounds == <<edits, wipes, aborts>>

-----------------------------------------------------------------------------
(* Reading the state *)

DirOf(s)    == IF s \in Tracking THEN Trunk ELSE SourceOf[recipe[s]]
Src(s)      == SourceOf[recipe[s]]
Cur         == Order[next]
StampOf(s)  == stamp[s][Src(s)]

\* The index of the stage whose commands are being executed.
Here  == CHOOSE i \in left : \A j \in left : i <= j
Stage == Stages[Here]

IsInstalled(p)  == installed[p] # Missing
AllInstalled(s) == \A p \in Packages(s) : IsInstalled(p)
AnyInstalled(s) == \E p \in Packages(s) : IsInstalled(p)
First(s)        == <<s, 1>>
Unnamed(s)      == <<s, Subs[s]>>   \* the '' subpackage

\* PackageDictManager.is_installable for every package of s.
Installable(s) == \A p \in Packages(s) : /\ ball[p][DirOf(s)] # Missing
                                        /\ hdr[p] # Missing

\* Mistake: the dry run lists the commands of every stage.
WholeDryRunChecksum(s) == [recipe |-> recipe[s], done |-> 0]

\* calculate_checksums dry-runs Build.build, which leaves out stages that
\* the stamp file says are done.
DryRunChecksum(s) == [recipe |-> recipe[s], done |-> StampOf(s)]

\* spec_checksums_fail_reason opens the header only when the checksums agree.
ReadsHeader(s) == DryRunChecksum(s) = checksum[s] /\ s \notin NoInstall
FailReason(s)  == \/ DryRunChecksum(s) # checksum[s]
                  \/ s \notin NoInstall /\ hdr[First(s)] # Src(s)

\* The condition for building in spec_build, and for being outdated in
\* outdated_names.
MustBuild(s) == \/ s \in failed /\ ~options.lax_checksums
                \/ ~Installable(s)

\* get_skip_stages, without `download', which is not one of Stages.
Skip == (IF options.build_source THEN {} ELSE {"src_package"})
          \cup (IF options.keep_build THEN {"clean"} ELSE {})

\* Only the clean stage, two commands, is left after packaging: a checksum
\* of fewer than five lines is refused.
Broken(c) == \A i \in (c.done + 1)..Len(Stages) : Stages[i] = "clean"

\* Number of deferred commands of the present stage: its work, then the dump
\* of the stamp file.  package () writes a ball and a header per subpackage.
LastStep == IF Stage = "package" THEN 2 * Subs[Cur] ELSE 1

NoOptions == [keep_build |-> FALSE, fresh |-> FALSE, force_package |-> FALSE,
              lax_checksums |-> FALSE, build_source |-> FALSE]

DiskTypeOK ==
  /\ recipe \in [Specs -> Recipes]
  /\ stamp \in [Specs -> [Sources -> 0..Len(Stages)]]
  /\ tree \in [Specs -> [Dirs -> Content \cup {Missing}]]
  /\ ball \in [Package -> [Dirs -> Content \cup {Missing, Damaged}]]
  /\ hdr \in [Package -> Sources \cup {Missing, Damaged}]
  /\ checksum \in [Specs -> Checksum \cup {Missing}]
  /\ installed \in [Package -> Content \cup {Missing}]

RunTypeOK ==
  /\ pc \in {"idle", "checksums", "uninstall", "build", "exec", "record",
             "certify", "unstamp", "install", "done"}
  /\ options \in OptionSets \cup {NoOptions}
  /\ checksums \in [Specs -> Checksum \cup {Missing}]
  /\ failed \subseteq Specs
  /\ next \in 0..(Len(Order) + 1)
  /\ left \subseteq 1..Len(Stages)
  /\ step \in Nat
  /\ tainted \in BOOLEAN
  /\ edits \in 0..MaxEdits /\ wipes \in 0..MaxWipes /\ aborts \in 0..MaxAborts

TypeOK == DiskTypeOK /\ RunTypeOK

Init ==
  /\ recipe \in [Specs -> Recipes]
  /\ stamp = [s \in Specs |-> [v \in Sources |-> 0]]
  /\ tree = [s \in Specs |-> [d \in Dirs |-> Missing]]
  /\ ball = [p \in Package |-> [d \in Dirs |-> Missing]]
  /\ hdr = [p \in Package |-> Missing]
  /\ checksum = [s \in Specs |-> Missing]
  /\ installed = [p \in Package |-> Missing]
  /\ pc = "idle"
  /\ options = NoOptions
  /\ checksums = [s \in Specs |-> Missing]
  /\ failed = {} /\ next = 0 /\ left = {} /\ step = 0 /\ tainted = FALSE
  /\ edits = 0 /\ wipes = 0 /\ aborts = 0

\* The process is gone, and with it everything it had in memory.
EndRun(p) ==
  /\ pc' = p
  /\ options' = NoOptions
  /\ checksums' = [s \in Specs |-> Missing]
  /\ failed' = {} /\ next' = 0 /\ left' = {} /\ step' = 0 /\ tainted' = FALSE

\* Mistake: --fresh leaves the stamp files where they are.
Restamped == stamp

\* --fresh: the stamp file of every spec at its present source.
Unstamped == [s \in Specs |-> [stamp[s] EXCEPT ![Src(s)] = 0]]

Goto(p) == pc' = p /\ UNCHANGED <<loop, tainted, bounds>>
\* Mistake: the loop also advances on its own.
NextSpecTwice == Goto("build") /\ next' = next + 2 /\ step' = 0

NextSpec == Goto("build") /\ next' = next + 1 /\ step' = 0

-----------------------------------------------------------------------------
(* Between runs *)

\* A developer changes a spec file or the version it asks for.
Edit(s, r) ==
  /\ pc \in {"idle", "done"} /\ edits < MaxEdits /\ r # recipe[s]
  /\ recipe' = [recipe EXCEPT ![s] = r]
  /\ edits' = edits + 1
  /\ UNCHANGED <<stamp, tree, ball, hdr, checksum, installed, loop, wipes,
                 next, left, step, tainted, aborts>>
  /\ pc' = "idle"

\* The README's recipe for a rebuild, rm -rf target/<platform>/*/<name>-*.  It
\* spares <name>.checksum and the header of the '' subpackage, unless a branch
\* name follows <name> in them.
Wipe(s) ==
  /\ pc \in {"idle", "done"} /\ wipes < MaxWipes
  /\ stamp' = [stamp EXCEPT ![s] = [v \in Sources |-> 0]]
  /\ tree' = [tree EXCEPT ![s] = [d \in Dirs |-> Missing]]
  /\ ball' = [p \in Package |-> IF p[1] = s THEN [d \in Dirs |-> Missing]
                                           ELSE ball[p]]
  /\ hdr' = [p \in Package |->
               IF p[1] = s /\ (p # Unnamed(s) \/ s \in Tracking)
               THEN Missing ELSE hdr[p]]
  /\ checksum' = IF s \in Tracking THEN [checksum EXCEPT ![s] = Missing]
                                   ELSE checksum
  /\ wipes' = wipes + 1
  /\ UNCHANGED <<recipe, installed, loop, next, left, step, tainted, edits,
                 aborts>>
  /\ pc' = "idle"

\* A second bin/gub --fresh, started while a run is under way, unlinks the
\* stamp files before it finds the lock taken.
LockedOut ==
  /\ pc \notin {"idle", "done"} /\ wipes < MaxWipes
  /\ stamp' = Unstamped
  /\ wipes' = wipes + 1
  /\ UNCHANGED <<recipe, tree, ball, hdr, checksum, installed, pc, loop, next,
                 left, step, tainted, edits, aborts>>

-----------------------------------------------------------------------------
(* A run up to its first build *)

\* bin/gub: read the command line; --fresh unlinks every spec's stamp file.
Begin(o) ==
  /\ pc \in {"idle", "done"}
  /\ options' = o
  /\ stamp' = IF o.fresh THEN Unstamped ELSE stamp
  /\ pc' = "checksums"
  /\ UNCHANGED <<recipe, tree, ball, hdr, checksum, installed, checksums,
                 failed, next, left, step, tainted, bounds>>

CalculateChecksums ==
  /\ pc = "checksums"
  /\ \A s \in Specs : ReadsHeader(s) => hdr[First(s)] # Damaged
  /\ checksums' = [s \in Specs |-> DryRunChecksum(s)]
  /\ failed' = {s \in Specs : FailReason(s)}
  /\ pc' = "uninstall"
  /\ UNCHANGED <<disk, options, next, left, step, tainted, bounds>>

\* pickle.load of a damaged header raises, and the run ends.
BadHeader ==
  /\ pc = "checksums"
  /\ \E s \in Specs : ReadsHeader(s) /\ hdr[First(s)] = Damaged
  /\ EndRun("idle")
  /\ UNCHANGED <<disk, bounds>>

\* Mistakes: is_installed_spec wants all packages, or only the first.
OutdatedWhole == {n \in 1..Len(Order) : /\ MustBuild(Order[n])
                                        /\ AllInstalled(Order[n])}
OutdatedFirst == {n \in 1..Len(Order) : /\ MustBuild(Order[n])
                                        /\ IsInstalled(First(Order[n]))}

\* build_source_packages: outdated installed specs leave the system root, in
\* reverse build order, package by package.
OutdatedInstalled == {n \in 1..Len(Order) : /\ MustBuild(Order[n])
                                            /\ AnyInstalled(Order[n])}

UninstallOutdated ==
  /\ pc = "uninstall"
  /\ \E n \in OutdatedInstalled : \E p \in Packages(Order[n]) :
       /\ \A m \in OutdatedInstalled : m <= n
       /\ IsInstalled(p)
       /\ \A q \in Packages(Order[n]) : q[2] < p[2] => ~IsInstalled(q)
       /\ installed' = [installed EXCEPT ![p] = Missing]
  /\ UNCHANGED <<recipe, stamp, tree, ball, hdr, checksum, pc, loop, next,
                 left, step, tainted, bounds>>

UninstalledAll ==
  /\ pc = "uninstall" /\ OutdatedInstalled = {}
  /\ Goto("build") /\ next' = 1
  /\ UNCHANGED <<disk, left, step>>

-----------------------------------------------------------------------------
(* spec_build *)

\* Mistakes: one installed package is enough for the first early return, or
\* the second is for every spec.
NothingToDoOnceBegun(s) == \/ AnyInstalled(s)
                           \/ /\ s \in NoInstall
                              /\ s \notin failed \/ options.lax_checksums
NothingToDoUnlessFailed(s) == \/ AllInstalled(s)
                              \/ s \notin failed \/ options.lax_checksums

\* The two early returns.
NothingToDo(s) == \/ AllInstalled(s)
                  \/ /\ s \in NoInstall
                     /\ s \notin failed \/ options.lax_checksums

SkipSpec ==
  /\ pc = "build" /\ next <= Len(Order) /\ NothingToDo(Cur)
  /\ NextSpec
  /\ UNCHANGED <<disk, left>>

\* Build.build under a DeferredRunner only lists the commands.
StartBuild ==
  /\ pc = "build" /\ next <= Len(Order)
  /\ ~NothingToDo(Cur) /\ MustBuild(Cur)
  /\ left' = {i \in 1..Len(Stages) : i > StampOf(Cur) /\ Stages[i] \notin Skip}
  /\ tainted' = \E i \in 1..StampOf(Cur) : Stages[i] \notin Skip
  /\ step' = 0
  /\ pc' = "exec"
  /\ UNCHANGED <<disk, loop, next, bounds>>

StartInstall ==
  /\ pc = "build" /\ next <= Len(Order)
  /\ ~NothingToDo(Cur) /\ ~MustBuild(Cur)
  /\ Goto("install") /\ step' = 1
  /\ UNCHANGED <<disk, next, left>>

Finish ==
  /\ pc = "build" /\ next > Len(Order)
  /\ EndRun("done")
  /\ UNCHANGED <<disk, bounds>>


-----------------------------------------------------------------------------
(* execute_deferred_commands: one action per command of the present stage *)

\* What a stage leaves in the tree.  Unpacking starts from an empty directory
\* unless the source is tracked, whose directory is updated in place.
Made(c) == IF c = Missing THEN [recipes |-> {}, torn |-> FALSE] ELSE c
AfterStage(s) ==
  IF Stage = "untar" /\ s \notin Tracking THEN Pure(recipe[s])
  ELSE LET old == Made(tree[s][DirOf(s)])
       IN  [recipes |-> old.recipes \cup {recipe[s]}, torn |-> old.torn]

Executing == pc = "exec" /\ \E i \in left : \A j \in left : i <= j

RunStage ==
  /\ Executing /\ Stage \notin {"package", "clean"} /\ step = 0
  /\ tree' = [tree EXCEPT ![Cur][DirOf(Cur)] = AfterStage(Cur)]
  /\ step' = 1
  /\ UNCHANGED <<recipe, stamp, ball, hdr, checksum, installed, pc, loop, next,
                 left, tainted, bounds>>

\* Mistake: the sense of --force-package.
RefusedIfForced == Stage = "package" /\ step = 0 /\ tainted /\ options.force_package

\* An interrupted compile is not packaged: `false' was deferred before the
\* commands of the package stage, and fails.
Refused == Stage = "package" /\ step = 0 /\ tainted /\ ~options.force_package

RefusePackage ==
  /\ Executing /\ Refused
  /\ EndRun("idle")
  /\ UNCHANGED <<disk, bounds>>

\* For each subpackage in turn create_tarball, then dump_header_file.
Packing == <<Cur, step \div 2 + 1>>
CreateTarball ==
  /\ Executing /\ Stage = "package" /\ ~Refused
  /\ step < LastStep /\ step % 2 = 0
  /\ ball' = [ball EXCEPT ![Packing][DirOf(Cur)] = Made(tree[Cur][DirOf(Cur)])]
  /\ step' = step + 1
  /\ UNCHANGED <<recipe, stamp, tree, hdr, checksum, installed, pc, loop, next,
                 left, tainted, bounds>>

DumpHeader ==
  /\ Executing /\ Stage = "package" /\ step < LastStep /\ step % 2 = 1
  /\ hdr' = [hdr EXCEPT ![Packing] = Src(Cur)]
  /\ step' = step + 1
  /\ UNCHANGED <<recipe, stamp, tree, ball, checksum, installed, pc, loop, next,
                 left, tainted, bounds>>

\* set_done, the last command of every stage but clean.
SetDone ==
  /\ Executing /\ Stage # "clean" /\ step = LastStep
  /\ stamp' = [stamp EXCEPT ![Cur][Src(Cur)] = Here]
  /\ left' = left \ {Here} /\ step' = 0
  /\ UNCHANGED <<recipe, tree, ball, hdr, checksum, installed, pc, loop, next,
                 tainted, bounds>>

Clean ==
  /\ Executing /\ Stage = "clean"
  /\ stamp' = [stamp EXCEPT ![Cur][Src(Cur)] = 0]
  /\ tree' = IF Cur \in Tracking THEN tree
             ELSE [tree EXCEPT ![Cur][DirOf(Cur)] = Missing]
  /\ left' = left \ {Here}
  /\ UNCHANGED <<recipe, ball, hdr, checksum, installed, pc, loop, next, step,
                 tainted, bounds>>

Executed ==
  /\ pc = "exec" /\ left = {}
  /\ Goto("record")
  /\ UNCHANGED <<disk, next, left, step>>

-----------------------------------------------------------------------------
(* The rest of spec_build: the checksum file, the stamp, the installation *)

BrokenChecksum ==
  /\ pc = "record" /\ Broken(checksums[Cur])
  /\ EndRun("idle")
  /\ UNCHANGED <<disk, bounds>>

\* rename_append_time: the old checksum file gets another name.
RenameChecksum ==
  /\ pc = "record" /\ ~Broken(checksums[Cur])
  /\ checksum' = [checksum EXCEPT ![Cur] = Missing]
  /\ Goto("certify")
  /\ UNCHANGED <<recipe, stamp, tree, ball, hdr, installed, next, left, step>>

WriteChecksum ==
  /\ pc = "certify"
  /\ checksum' = [checksum EXCEPT ![Cur] = checksums[Cur]]
  /\ Goto("unstamp")
  /\ UNCHANGED <<recipe, stamp, tree, ball, hdr, installed, next, left, step>>

RemoveStamp ==
  /\ pc = "unstamp"
  /\ stamp' = [stamp EXCEPT ![Cur][Src(Cur)] = 0]
  /\ IF Cur \in NoInstall \/ AllInstalled(Cur)
     THEN NextSpec
     ELSE Goto("install") /\ step' = 1 /\ next' = next
  /\ UNCHANGED <<recipe, tree, ball, hdr, checksum, installed, left>>

\* spec_install: the loop over the subpackages, with conflict resolution.
Rivals(p)      == {q \in Package : <<p, q>> \in Conflicts /\ IsInstalled(q)}
\* The bootstrap package <name>-core gives way to any package of <name>.
YieldsTo(p, q) == p = Unnamed(p[1]) /\ <<p[1], q[1]>> \in Cores
Pkg            == <<Cur, step>>
Installing     == pc = "install" /\ step <= Subs[Cur]

KeepPackage ==
  /\ Installing
  /\ \/ IsInstalled(Pkg)
     \/ Rivals(Pkg) # {} /\ \A q \in Rivals(Pkg) : YieldsTo(Pkg, q)
  /\ step' = step + 1
  /\ UNCHANGED <<disk, pc, loop, next, left, tainted, bounds>>

RemoveRival ==
  /\ Installing /\ ~IsInstalled(Pkg)
  /\ \E q \in Rivals(Pkg) :
       /\ ~YieldsTo(Pkg, q)
       /\ installed' = [installed EXCEPT ![q] = Missing]
  /\ UNCHANGED <<recipe, stamp, tree, ball, hdr, checksum, pc, loop, next, left,
                 step, tainted, bounds>>

\* What p does with q at its turn: remove it, or stay out of its way.
Evicts(p, q)   == <<p, q>> \in Conflicts /\ ~YieldsTo(p, q)
GivesWay(p, q) == <<p, q>> \in Conflicts /\ YieldsTo(p, q)

Unpackable(p) == ball[p][DirOf(p[1])] \in {Missing, Damaged}

InstallPackage ==
  /\ Installing /\ ~IsInstalled(Pkg) /\ Rivals(Pkg) = {} /\ ~Unpackable(Pkg)
  /\ installed' = [installed EXCEPT ![Pkg] = ball[Pkg][DirOf(Cur)]]
  /\ step' = step + 1
  /\ UNCHANGED <<recipe, stamp, tree, ball, hdr, checksum, pc, loop, next, left,
                 tainted, bounds>>

\* tar fails on the ball, and the run ends.
BadBall ==
  /\ Installing /\ ~IsInstalled(Pkg) /\ Rivals(Pkg) = {} /\ Unpackable(Pkg)
  /\ EndRun("idle")
  /\ UNCHANGED <<disk, bounds>>

InstalledSpec ==
  /\ pc = "install" /\ step > Subs[Cur]
  /\ NextSpec
  /\ UNCHANGED <<disk, left>>

-----------------------------------------------------------------------------
(* A command fails, or the process is killed.  Either ends the run; no      *)
(* exception handler repairs anything, since Build.build and its `patch'    *)
(* handler have returned long before a deferred command fails.              *)

\* In the middle of a stage: its next run will find its own output.
Tear == tree' = [tree EXCEPT ![Cur][DirOf(Cur)] = [Made(@) EXCEPT !.torn = TRUE]]

\* The file being written when the process died.
CutShort ==
  \/ UNCHANGED <<stamp, ball, hdr>>
  \/ /\ Stage = "package" /\ step < LastStep /\ step % 2 = 0
     /\ ball' = [ball EXCEPT ![Packing][DirOf(Cur)] = Damaged]
     /\ UNCHANGED <<stamp, hdr>>
  \/ /\ Stage = "package" /\ step < LastStep /\ step % 2 = 1
     /\ hdr' = [hdr EXCEPT ![Packing] = Damaged]
     /\ UNCHANGED <<stamp, ball>>
  \/ /\ Stage = "clean" \/ step = LastStep
     /\ stamp' = [stamp EXCEPT ![Cur][Src(Cur)] = 0]
     /\ UNCHANGED <<ball, hdr>>

Die(damage) ==
  /\ aborts < MaxAborts
  /\ damage
  /\ EndRun("idle")
  /\ aborts' = aborts + 1
  /\ UNCHANGED <<recipe, checksum, installed, edits, wipes>>

Kill ==
  /\ pc \notin {"idle", "done"}
  /\ Executing => step = 0
  /\ Die(UNCHANGED <<stamp, tree, ball, hdr>>)

FailCommand == Executing /\ ~Refused /\ Die(Tear /\ CutShort)

-----------------------------------------------------------------------------
Run ==
  \/ CalculateChecksums \/ BadHeader \/ UninstallOutdated \/ UninstalledAll
  \/ SkipSpec \/ StartBuild \/ StartInstall \/ Finish
  \/ RunStage \/ RefusePackage \/ CreateTarball \/ DumpHeader \/ SetDone
  \/ Clean \/ Executed
  \/ BrokenChecksum \/ RenameChecksum \/ WriteChecksum \/ RemoveStamp
  \/ KeepPackage \/ RemoveRival \/ InstallPackage \/ BadBall \/ InstalledSpec

Next ==
  \/ Run
  \/ LockedOut \/ \E o \in OptionSets : Begin(o)
  \/ \E s \in Specs : Wipe(s) \/ \E r \in Recipes : Edit(s, r)
  \/ Kill \/ FailCommand

Spec == Init /\ [][Next]_vars

-----------------------------------------------------------------------------
(* What the properties about conflicts take for granted of a set of specs *)

Index(s)    == CHOOSE n \in 1..Len(Order) : Order[n] = s
After(q, p) == \/ Index(q[1]) > Index(p[1])
               \/ /\ q[1] = p[1]
                  /\ q[2] > p[2]

\* Why p may be missing when a run is done: q came later and removed it, or p
\* is a bootstrap package and found q.
Replaces(q, p) == \/ Evicts(q, p) /\ After(q, p)
                  \/ GivesWay(p, q)

\* A package that removes others never stays out itself, and what removes the
\* replacement of a package is a replacement too.
OrderlyConflicts ==
  /\ \A p, q, r \in Package : Evicts(p, q) => ~GivesWay(p, r)
  /\ \A p, q, r \in Package :
       Replaces(q, p) /\ Evicts(r, q) /\ After(r, p) => Replaces(r, p)

\* A spec has a package that removes one of d.
Foe(s, d) == \E p \in Packages(s), q \in Packages(d) : Evicts(p, q)

\* d is built before s, and nothing built in between removes it but the full
\* version of a bootstrap package, which nothing removes.
Undisturbed(d, s) ==
  /\ Index(d) < Index(s)
  /\ \A t \in Specs \ NoInstall :
       Index(d) < Index(t) /\ Index(t) < Index(s) =>
         /\ Foe(t, d) => <<d, t>> \in Cores
         /\ \A c \in Specs : <<d, c>> \in Cores => ~Foe(t, c)

\* A full version is not a bootstrap package; no spec is its own rival.
OrderlyCores ==
  /\ \A b, c, d \in Specs : <<b, c>> \in Cores => <<c, d>> \notin Cores
  /\ \A s \in Specs : ~Foe(s, s)

\* Dependencies are built first and stay.
OrderlyDeps ==
  OrderlyCores /\ \A s \in Specs : \A d \in Deps[s] \ NoInstall : Undisturbed(d, s)

-----------------------------------------------------------------------------
(* Properties *)

\* Where in its loop a run can be.
Working == {"exec", "record", "certify", "unstamp", "install"}
Position ==
  /\ pc = "build" => next \in 1..(Len(Order) + 1)
  /\ pc \in Working => next \in 1..Len(Order)
  /\ pc = "install" => step \in Nat \ {0}

\* Why NoTaintedBall holds: a build that nobody calls tainted starts with the
\* sources unpacked by the present recipe and only adds that recipe's work, and
\* packaging never gets past its first command in a build called tainted.
UntaintedTree ==
  pc = "exec" /\ ~tainted /\ left # {} /\ Cur \notin Tracking =>
    \/ 1 \in left /\ step = 0
    \/ tree[Cur][DirOf(Cur)] = Pure(recipe[Cur])
PackagingIsUntainted ==
  Executing /\ Stage = "package" /\ step # 0 => ~tainted

\* Why RebuiltOutsideRoot holds: no build still to come that must rebuild has
\* a package installed.
Upcoming == {n \in 1..Len(Order) :
               \/ n > next /\ pc \in Working \cup {"build"}
               \/ n = next /\ pc = "build"}
RebuiltLater ==
  \A n \in Upcoming : MustBuild(Order[n]) => ~AnyInstalled(Order[n])

\* Build.build refuses to package an interrupted compile so that a build stays
\* repeatable: unless --force-package is in use, every whole ball of a released
\* source was made by one recipe, unpacked and built without interruption.
NoTaintedBall ==
  \A p \in Package, d \in Dirs :
    \/ p[1] \in Tracking \/ ball[p][d] \in {Missing, Damaged}
    \/ \E r \in Recipes : ball[p][d] = Pure(r)

\* Even with --force-package, when spec_build writes a checksum file that a
\* later dry run of the same recipe can match, then the balls beside it are the
\* work of exactly that recipe, and all of them are there.
HonestChecksum ==
  [][\A s \in Specs \ Tracking :
       checksum'[s] # checksum[s] /\ checksum'[s] = Full(recipe[s]) =>
         \A p \in Packages(s) : /\ ball[p][DirOf(s)] = Pure(recipe[s])
                                /\ hdr[p] = Src(s)]_vars

\* A package that is being rebuilt is not in the system root: the test that
\* removes outdated packages before the first build and the test that rebuilds
\* them agree, whatever happens in between.
RebuiltOutsideRoot == pc = "exec" => ~AnyInstalled(Cur)

\* When the commands of a spec run, what it depends on is in the system root;
\* the full package that a bootstrap package gave way to may stand in for it,
\* or as much of it as an interrupted run has installed.
DepsPresent ==
  pc = "exec" => \A d \in Deps[Cur] \ NoInstall :
    AllInstalled(d) \/ \E c \in Specs : <<d, c>> \in Cores /\ AnyInstalled(c)

\* After a run that says `done', without --lax-checksums, everything that is
\* installed came out of the ball for the present version, and every ball and
\* header is there.  Builds that are never installed are left out: spec_build
\* does not look for the balls of one whose checksum matches.
DoneIsCurrent ==
  pc = "done" =>
    \A s \in Specs \ NoInstall :
      /\ Installable(s)
      /\ \A p \in Packages(s) : installed[p] \in {Missing, ball[p][DirOf(s)]}

\* Packages that a run leaves uninstalled have a rival in the system root.
DoneIsInstalled ==
  pc = "done" =>
    \A p \in Package :
      \/ p[1] \in NoInstall \/ IsInstalled(p)
      \/ \E q \in Package : /\ <<p, q>> \in Conflicts \/ <<q, p>> \in Conflicts
                            /\ IsInstalled(q)

\* The scheduler keeps a started run going, and a user whose builds fail uses
\* --fresh again and again.
Fairness == /\ WF_vars(Run)
            /\ SF_vars(\E o \in OptionSets : o.fresh /\ Begin(o))
FairSpec == Spec /\ Fairness

\* Once nothing fails or changes any more, runs come to an end with `done'.
Recovers == []<>(pc = "done")

\* README, checksums and rebuilds: if the checksum matches the previous build,
\* only the binary package is reinstalled; so that binary is of that recipe.
MatchIsSame ==
  [][\A p \in Package :
       /\ installed'[p] # installed[p] /\ installed'[p] # Missing
       /\ p[1] \notin failed \cup Tracking
       => installed'[p] = Pure(recipe[p[1]])]_vars

=============================================================================
