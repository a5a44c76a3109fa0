------------------------------ MODULE GupProofs ------------------------------
(* Theorems about Gup, for every set of packages, paths and balls. *)
EXTENDS Gup, TLAPS

-----------------------------------------------------------------------------
(* Type correctness *)

LEMMA TypeInit == Init => TypeOK
BY BoundsAssumption DEF Init, TypeOK

LEMMA TypeStep == TypeOK /\ [Next]_vars => TypeOK'
<1> SUFFICES ASSUME TypeOK, [Next]_vars
             PROVE  TypeOK'
  OBVIOUS
<1> USE PathsAssumption, NoneAssumption, BoundsAssumption DEF TypeOK
<1>1. ASSUME NEW p \in Packages, Install(p)
      PROVE  TypeOK'
  BY <1>1 DEF Install, tree, dbs, Owned, Paths
<1>2. ASSUME NEW p \in Packages, Uninstall(p)
      PROVE  TypeOK'
  <2>1. packages[p] \in Balls
    BY <1>2 DEF Uninstall, Installed
  <2>2. todo' \subseteq Paths
    BY <1>2, <2>1 DEF Uninstall
  <2>3. QED
    BY <1>2, <2>2 DEF Uninstall, tree, dbs
<1>3. ASSUME NEW p \in Packages, NEW b \in Balls, Build(p, b)
      PROVE  TypeOK'
  BY <1>3 DEF Build, tree, dbs, call
<1>4. CASE Untar
  <2>1. PICK x \in todo :
          /\ dirs' = dirs \cup Above[x] \cup ({x} \cap Dirs)
          /\ root' = [y \in Owned |-> IF y = x THEN pkg ELSE root[y]]
          /\ todo' = todo \ {x}
    BY <1>4 DEF Untar
  <2>2. Above[x] \subseteq Dirs
    OBVIOUS
  <2>3. QED
    BY <1>4, <2>1, <2>2 DEF Untar, dbs
<1>5. CASE RecordPackage
  BY <1>5 DEF RecordPackage, tree
<1>6. CASE RecordFile
  BY <1>6 DEF RecordFile, tree
<1>7. CASE RecordDict
  BY <1>7 DEF RecordDict, Return, tree
<1>8. CASE Unlink
  BY <1>8 DEF Unlink, dbs
<1>9. CASE Rmdir
  <2>1. dirs' \subseteq dirs /\ todo' \subseteq todo
    BY <1>9 DEF Rmdir
  <2>2. QED
    BY <1>9, <2>1 DEF Rmdir, dbs
<1>10. CASE Removed
  <2>1. packages[pkg] \subseteq Paths \/ packages[pkg] = None
    BY <1>10 DEF Removed
  <2>2. todo' \subseteq Paths
    BY <1>10 DEF Removed, Paths
  <2>3. QED
    BY <1>10, <2>2 DEF Removed, tree, dbs
<1>11. CASE ForgetFile
  BY <1>11 DEF ForgetFile, tree
<1>12. CASE ForgetPackage
  BY <1>12 DEF ForgetPackage, tree
<1>13. CASE ForgetDict
  BY <1>13 DEF ForgetDict, Return, tree
<1>14. CASE Kill
  BY <1>14 DEF Kill, Return, tree, dbs
<1>15. CASE Fixup \/ UNCHANGED vars
  BY <1>15 DEF Fixup, vars, tree, dbs, call
<1>16. QED
  BY <1>1, <1>2, <1>3, <1>4, <1>5, <1>6, <1>7, <1>8, <1>9, <1>10, <1>11,
     <1>12, <1>13, <1>14, <1>15 DEF Next

\* Every database and the tree keep their types, whoever dies when.
THEOREM TypeCorrect == Spec => []TypeOK
BY TypeInit, TypeStep, PTL DEF Spec

-----------------------------------------------------------------------------
(* What holds although processes die.  OwnerLists by itself is not inductive: *)
(* the entry of packages.db may only go once files.db no longer names the     *)
(* package, and only CallInv knows how far a removal has come.                *)

OwnerInv == TypeOK /\ CallInv /\ OwnerLists

LEMMA OwnerInit == Init => OwnerInv
BY TypeInit DEF Init, OwnerInv, CallInv, OwnerLists

LEMMA OwnerStep == OwnerInv /\ [Next]_vars => OwnerInv'
<1> SUFFICES ASSUME OwnerInv, [Next]_vars
             PROVE  CallInv' /\ OwnerLists'
  BY TypeStep DEF OwnerInv
<1>t. TypeOK /\ TypeOK' /\ CallInv /\ OwnerLists
  BY TypeStep DEF OwnerInv
<1>n. None \notin Packages /\ None \notin Balls
  BY NoneAssumption
<1>1. ASSUME NEW p \in Packages, Install(p)
      PROVE  CallInv' /\ OwnerLists'
  BY <1>t, <1>1 DEF Install, CallInv, OwnerLists, Installed, tree, dbs
<1>2. ASSUME NEW p \in Packages, Uninstall(p)
      PROVE  CallInv' /\ OwnerLists'
  BY <1>t, <1>2 DEF Uninstall, CallInv, OwnerLists, Installed, tree, dbs
<1>3. ASSUME NEW p \in Packages, NEW b \in Balls, Build(p, b)
      PROVE  CallInv' /\ OwnerLists'
  BY <1>t, <1>3 DEF Build, CallInv, OwnerLists, Installed, tree, dbs, call
<1>4. CASE Untar
  <2>1. PICK x \in todo :
          /\ dirs' = dirs \cup Above[x] \cup ({x} \cap Dirs)
          /\ root' = [y \in Owned |-> IF y = x THEN pkg ELSE root[y]]
          /\ todo' = todo \ {x}
    BY <1>4 DEF Untar
  <2>2. pkg' = pkg /\ op' = op /\ op = "untar" /\ UNCHANGED <<ball, packages, files>>
    BY <1>4 DEF Untar, dbs
  <2>3. ASSUME NEW y \in ball[pkg] \ todo'
        PROVE  Unpacked(pkg, y)'
    <3>1. y \in Paths
      BY <1>t, <2>2, PathsAssumption DEF TypeOK
    <3>2. y # x => Unpacked(pkg, y)
      BY <1>t, <2>1, <2>2, <2>3 DEF CallInv
    <3>3. QED
      BY <2>1, <2>2, <3>1, <3>2 DEF Unpacked, Paths
  <2>4. ~Installed(pkg)' /\ todo' \subseteq ball[pkg]
    BY <1>t, <2>1, <2>2 DEF CallInv, Installed
  <2>5. CallInv'
    BY <2>2, <2>3, <2>4 DEF CallInv
  <2>6. OwnerLists'
    BY <1>t, <2>2 DEF OwnerLists, Installed
  <2>7. QED
    BY <2>5, <2>6
<1>5. CASE RecordPackage
  <2>1. packages'[pkg] = ball[pkg] /\ ball[pkg] # None
    BY <1>5, <1>t, <1>n DEF RecordPackage, TypeOK
  <2>2. \A x \in Owned : files[x] # pkg
    <3>1. pkg # None /\ ~Installed(pkg)
      BY <1>5, <1>t, <1>n DEF RecordPackage, CallInv, TypeOK
    <3>2. QED
      BY <1>t, <3>1 DEF OwnerLists
  <2>3. QED
    BY <1>5, <1>t, <2>1, <2>2 DEF RecordPackage, CallInv, OwnerLists, Installed, TypeOK, tree
<1>6. CASE RecordFile
  BY <1>6, <1>t, <1>n DEF RecordFile, CallInv, OwnerLists, Installed, TypeOK, tree
<1>7. CASE RecordDict
  BY <1>7, <1>t DEF RecordDict, Return, CallInv, OwnerLists, Installed, tree
<1>8. CASE Unlink
  BY <1>8, <1>t DEF Unlink, CallInv, OwnerLists, Installed, dbs
<1>9. CASE Rmdir
  <2>1. todo' \subseteq todo /\ op' = "unlink" /\ op = "unlink" /\ UNCHANGED <<pkg, packages, files>>
    BY <1>9 DEF Rmdir, dbs
  <2>2. QED
    BY <2>1, <1>t DEF CallInv, OwnerLists, Installed
<1>10. CASE Removed
  <2>1. \A x \in Owned : files[x] = pkg => x \in todo'
    BY <1>10, <1>t, <1>n DEF Removed, OwnerLists, TypeOK
  <2>2. op = "unlink" /\ op' = "disown" /\ UNCHANGED <<pkg, packages, files>>
    BY <1>10 DEF Removed, dbs
  <2>3. todo' \subseteq packages[pkg]
    BY <1>10 DEF Removed
  <2>4. QED
    BY <1>t, <2>1, <2>2, <2>3 DEF CallInv, OwnerLists, Installed
<1>11. CASE ForgetFile
  BY <1>11, <1>t, <1>n DEF ForgetFile, CallInv, OwnerLists, Installed, TypeOK, tree
<1>12. CASE ForgetPackage
  BY <1>12, <1>t, <1>n DEF ForgetPackage, CallInv, OwnerLists, Installed, TypeOK, tree
<1>13. CASE ForgetDict
  BY <1>13, <1>t DEF ForgetDict, Return, CallInv, OwnerLists, Installed, tree
<1>14. CASE Kill
  BY <1>14, <1>t DEF Kill, Return, CallInv, OwnerLists, Installed, tree, dbs
<1>15. CASE Fixup \/ UNCHANGED vars
  <2>1. UNCHANGED <<ball, dirs, root, packages, files, op, pkg, todo>>
    BY <1>15 DEF Fixup, vars, tree, dbs, call
  <2>2. QED
    BY <1>t, <2>1 DEF CallInv, OwnerLists, Installed, Unpacked
<1>16. QED
  BY <1>1, <1>2, <1>3, <1>4, <1>5, <1>6, <1>7, <1>8, <1>9, <1>10, <1>11,
     <1>12, <1>13, <1>14, <1>15 DEF Next

\* What files.db says of a path is true at every moment at which an install or
\* an uninstall may be interrupted: its owner is installed and lists the path.
THEOREM OwnersAreListed == Spec => []OwnerLists
<1>1. OwnerInv => OwnerLists
  BY DEF OwnerInv
<1>2. QED
  BY OwnerInit, OwnerStep, <1>1, PTL DEF Spec

\* packages.db names a package only after all of its files were unpacked and fixed up.
THEOREM NamedAfterUnpacking == Spec => UnpackedFirst
<1>1. ASSUME OwnerInv, [Next]_vars
      PROVE  [\A p \in Packages : Installed(p)' /\ ~Installed(p) =>
                \A x \in packages'[p] : Unpacked(p, x) /\ x \notin raw]_vars
  <2> SUFFICES ASSUME NEW p \in Packages, Installed(p)', ~Installed(p)
               PROVE  \A x \in packages'[p] : Unpacked(p, x) /\ x \notin raw
    OBVIOUS
  <2>1. CASE RecordPackage
    <3>1. p = pkg /\ packages'[p] = ball[p]
      BY <1>1, <2>1 DEF RecordPackage, Installed, OwnerInv, TypeOK
    <3>2. QED
      BY <1>1, <2>1, <3>1 DEF RecordPackage, Unfixed, OwnerInv, CallInv
  <2>2. CASE ~RecordPackage
    <3>1. packages'[p] = packages[p] \/ packages'[p] = None
      BY <1>1, <2>2 DEF OwnerInv, TypeOK, Next, Install, Uninstall, Build, Untar, Fixup,
         RecordFile, RecordDict, Unlink, Rmdir, Removed, ForgetFile,
         ForgetPackage, ForgetDict, Kill, vars, dbs, tree
    <3>2. QED
      BY <3>1 DEF Installed
  <2>3. QED
    BY <2>1, <2>2
<1>2. QED
  BY OwnerInit, OwnerStep, <1>1, PTL DEF Spec, UnpackedFirst

-----------------------------------------------------------------------------
(* What holds in a root where nobody died and no path is a link to a          *)
(* directory: install_tarball then finds every duplicate, so packages own     *)
(* their files exclusively.                                                   *)

CleanInv == OwnerInv /\ CleanRoot

LEMMA CleanInit == Init => CleanInv
BY OwnerInit DEF Init, CleanInv, CleanRoot, WholeRoot, Accounted, Unlinked,
   Installed

\* Without links, a ball that may be installed holds nobody's files.
LEMMA NoDuplicatesFound ==
  ASSUME Links = {}, TypeOK, NEW p \in Packages, Duplicates(p) = {}
  PROVE  \A x \in ball[p] \cap Owned : files[x] = None
<1> SUFFICES ASSUME NEW x \in ball[p] \cap Owned
             PROVE  files[x] = None
  OBVIOUS
<1>1. x \notin dirs
  BY PathsAssumption DEF TypeOK
<1>2. ~IsDir(x)
  BY <1>1 DEF IsDir
<1>3. QED
  BY <1>2 DEF Duplicates

LEMMA CleanStep ==
  ASSUME Links = {}
  PROVE  CleanInv /\ [Next]_vars => CleanInv'
<1> SUFFICES ASSUME CleanInv, [Next]_vars, kills' = 0
             PROVE  WholeRoot' /\ Accounted' /\ Unlinked'
  BY OwnerStep DEF CleanInv, CleanRoot
<1>t. TypeOK /\ TypeOK' /\ CallInv /\ OwnerLists
  BY OwnerStep DEF CleanInv, OwnerInv
<1>n. /\ None \notin Packages /\ None \notin Balls
      /\ \A b \in Balls : b \subseteq Paths
  BY NoneAssumption, PathsAssumption
<1>k. kills = 0
  BY <1>t, BoundsAssumption DEF Next, TypeOK, Install, Uninstall, Build, Untar, Fixup,
     RecordPackage, RecordFile, RecordDict, Unlink, Rmdir, Removed, ForgetFile,
     ForgetPackage, ForgetDict, Kill, vars
<1>c. WholeRoot /\ Accounted /\ Unlinked
  BY <1>k DEF CleanInv, CleanRoot
<1>1. ASSUME NEW p \in Packages, Install(p)
      PROVE  WholeRoot' /\ Accounted' /\ Unlinked'
  <2>1. /\ op = "idle" /\ ~Installed(p) /\ op' = "untar" /\ pkg' = p
        /\ UNCHANGED <<ball, root, packages, files>>
    BY <1>1 DEF Install, tree, dbs
  <2>2. \A x \in ball[p] \cap Owned : files[x] = None
    BY <1>1, <1>t, NoDuplicatesFound DEF Install
  <2>3. pkg = None
    BY <1>t, <2>1 DEF CallInv
  <2>4. WholeRoot'
    BY <1>c, <1>n, <2>1, <2>2, <2>3 DEF WholeRoot, Owns, Installed
  <2>5. Accounted'
    BY <1>c, <2>1 DEF Accounted, Installed
  <2>6. Unlinked'
    BY <2>1 DEF Unlinked
  <2>7. QED
    BY <2>4, <2>5, <2>6
<1>2. ASSUME NEW p \in Packages, Uninstall(p)
      PROVE  WholeRoot' /\ Accounted' /\ Unlinked'
  <2>1. /\ op = "idle" /\ Installed(p) /\ op' = "unlink" /\ pkg' = p
        /\ todo' = {x \in packages[p] : Exists(x)}
        /\ UNCHANGED <<ball, root, packages, files>>
    BY <1>2 DEF Uninstall, tree, dbs
  <2>2. pkg = None
    BY <1>t, <2>1 DEF CallInv
  <2>3. Owns(p)
    BY <1>c, <1>n, <2>1, <2>2 DEF WholeRoot
  <2>4. WholeRoot'
    BY <1>c, <1>n, <2>1, <2>2, <2>3 DEF WholeRoot, Owns, Installed
  <2>5. Accounted'
    BY <1>c, <2>1 DEF Accounted, Installed
  <2>6. ASSUME NEW x \in Owned, root[x] = p
        PROVE  x \in todo'
    <3>1. x \in packages[p]
      BY <1>c, <1>n, <2>1, <2>6 DEF Accounted
    <3>2. Exists(x)
      BY <1>n, <2>6, PathsAssumption DEF Exists
    <3>3. QED
      BY <2>1, <3>1, <3>2
  <2>7. Unlinked'
    BY <2>1, <2>6 DEF Unlinked
  <2>8. QED
    BY <2>4, <2>5, <2>7
<1>3. ASSUME NEW p \in Packages, NEW b \in Balls, Build(p, b)
      PROVE  WholeRoot' /\ Accounted' /\ Unlinked'
  <2>1. op = "idle" /\ UNCHANGED <<root, packages, files, op, pkg, todo>>
    BY <1>3 DEF Build, tree, dbs, call
  <2>2. QED
    BY <1>c, <2>1 DEF WholeRoot, Owns, Accounted, Unlinked, Installed
<1>4. CASE Untar
  <2>1. PICK x \in todo :
          /\ root' = [y \in Owned |-> IF y = x THEN pkg ELSE root[y]]
          /\ todo' = todo \ {x}
    BY <1>4 DEF Untar
  <2>2. /\ op = "untar" /\ op' = op /\ pkg' = pkg
        /\ UNCHANGED <<ball, packages, files>>
    BY <1>4 DEF Untar, dbs
  <2>3. x \in ball[pkg] /\ pkg \in Packages
    BY <1>t, <2>2 DEF CallInv, TypeOK
  <2>4. ASSUME NEW p \in Packages \ {pkg}, Installed(p)
        PROVE  \A y \in packages[p] \cap Owned : files[y] = p /\ root'[y] = p
    BY <1>c, <1>n, <2>1, <2>2, <2>3, <2>4 DEF WholeRoot, Owns
  <2>5. WholeRoot'
    BY <1>c, <2>2, <2>4 DEF WholeRoot, Owns, Installed
  <2>6. Accounted'
    BY <1>c, <2>1, <2>2, <2>3 DEF Accounted, Installed
  <2>7. Unlinked'
    BY <2>2 DEF Unlinked
  <2>8. QED
    BY <2>5, <2>6, <2>7
<1>5. CASE RecordPackage
  <2>1. /\ op = "untar" /\ todo = {} /\ op' = "own" /\ pkg' = pkg
        /\ todo' = ball[pkg] \cap Owned
        /\ UNCHANGED <<ball, root, files>>
    BY <1>5 DEF RecordPackage, tree
  <2>2. /\ pkg \in Packages /\ packages'[pkg] = ball[pkg]
        /\ ball[pkg] \in Balls
        /\ \A p \in Packages \ {pkg} : packages'[p] = packages[p]
    BY <1>5, <1>t DEF RecordPackage, TypeOK
  <2>3. \A x \in ball[pkg] \cap Owned : root[x] = pkg /\ files[x] = None
    <3>1. \A x \in ball[pkg] : Unpacked(pkg, x)
      BY <1>t, <2>1 DEF CallInv
    <3>2. QED
      BY <1>c, <2>1, <3>1, PathsAssumption DEF Unpacked, WholeRoot
  <2>4. WholeRoot'
    BY <1>c, <2>1, <2>2, <2>3 DEF WholeRoot, Owns, Installed
  <2>5. Accounted'
    <3>1. ASSUME NEW x \in Owned, root[x] # None
          PROVE  packages'[root[x]] # None /\ x \in packages'[root[x]]
      <4>1. CASE root[x] = pkg /\ x \in ball[pkg]
        BY <1>n, <2>2, <4>1
      <4>2. CASE Installed(root[x]) /\ x \in packages[root[x]]
        BY <1>t, <1>n, <2>1, <2>2, <3>1, <4>2 DEF Installed, TypeOK, CallInv
      <4>3. QED
        BY <1>c, <3>1, <4>1, <4>2 DEF Accounted
    <3>2. QED
      BY <2>1, <3>1 DEF Accounted, Installed
  <2>6. Unlinked'
    BY <2>1 DEF Unlinked
  <2>7. QED
    BY <2>4, <2>5, <2>6
<1>6. CASE RecordFile
  <2>1. PICK x \in todo : /\ files' = [files EXCEPT ![x] = pkg]
                          /\ todo' = todo \ {x}
    BY <1>6 DEF RecordFile
  <2>2. op = "own" /\ UNCHANGED <<root, packages, op, pkg>>
    BY <1>6 DEF RecordFile, tree
  <2>3. x \in packages[pkg] /\ x \in Owned /\ files[x] = None /\ pkg \in Packages
    BY <1>c, <1>t, <2>2 DEF CallInv, WholeRoot, TypeOK
  <2>4. files'[x] = pkg /\ \A y \in Owned \ {x} : files'[y] = files[y]
    BY <1>t, <2>1, <2>3 DEF TypeOK
  <2>5. WholeRoot'
    BY <1>c, <1>n, <2>1, <2>2, <2>3, <2>4 DEF WholeRoot, Owns, Installed
  <2>6. QED
    BY <1>c, <2>2, <2>5 DEF Accounted, Unlinked, Installed
<1>7. CASE RecordDict
  <2>1. /\ op = "own" /\ todo = {} /\ op' = "idle" /\ pkg' = None
        /\ UNCHANGED <<root, packages, files>>
    BY <1>7 DEF RecordDict, Return, tree
  <2>2. Owns(pkg)
    BY <1>c, <2>1 DEF WholeRoot, Owns
  <2>3. QED
    BY <1>c, <2>1, <2>2 DEF WholeRoot, Owns, Accounted, Unlinked, Installed
<1>8. CASE Unlink
  <2>1. PICK x \in todo \cap Owned : /\ root' = [root EXCEPT ![x] = None]
                                     /\ todo' = todo \ {x}
    BY <1>8 DEF Unlink
  <2>2. op = "unlink" /\ UNCHANGED <<packages, files, op, pkg>>
    BY <1>8 DEF Unlink, dbs
  <2>3. x \in packages[pkg] /\ files[x] = pkg
    BY <1>c, <1>t, <2>2 DEF CallInv, WholeRoot
  <2>4. root'[x] = None /\ \A y \in Owned \ {x} : root'[y] = root[y]
    BY <1>t, <2>1 DEF TypeOK
  <2>5. WholeRoot'
    BY <1>c, <2>2, <2>3, <2>4 DEF WholeRoot, Owns, Installed
  <2>6. Accounted'
    BY <1>c, <2>2, <2>4 DEF Accounted, Installed
  <2>7. Unlinked'
    BY <1>c, <2>1, <2>2, <2>4 DEF Unlinked
  <2>8. QED
    BY <2>5, <2>6, <2>7
<1>9. CASE Rmdir
  <2>1. PICK d \in todo : todo' = todo \ {d}
    BY <1>9 DEF Rmdir
  <2>2. /\ op = "unlink" /\ todo \subseteq Dirs
        /\ UNCHANGED <<root, packages, files, op, pkg>>
    BY <1>9 DEF Rmdir, dbs
  <2>3. Unlinked'
    BY <1>c, <2>1, <2>2, PathsAssumption DEF Unlinked
  <2>4. QED
    BY <1>c, <2>2, <2>3 DEF WholeRoot, Owns, Accounted, Installed
<1>10. CASE Removed
  <2>1. /\ op = "unlink" /\ todo = {} /\ op' = "disown"
        /\ todo' = packages[pkg] \cap Owned
        /\ UNCHANGED <<root, packages, files, pkg>>
    BY <1>10 DEF Removed, tree, dbs
  <2>2. WholeRoot'
    BY <1>c, <2>1 DEF WholeRoot, Owns, Installed
  <2>3. Accounted' /\ Unlinked'
    BY <1>c, <2>1 DEF Accounted, Unlinked, Installed
  <2>4. QED
    BY <2>2, <2>3
<1>11. CASE ForgetFile
  <2>1. PICK x \in todo : /\ files' = [files EXCEPT ![x] = None]
                          /\ todo' = todo \ {x}
    BY <1>11 DEF ForgetFile
  <2>2. op = "disown" /\ UNCHANGED <<root, packages, op, pkg>>
    BY <1>11 DEF ForgetFile, tree
  <2>3. \A y \in Owned \ {x} : files'[y] = files[y]
    BY <1>t, <2>1 DEF TypeOK
  <2>4. x \in Owned => files[x] = pkg
    BY <1>c, <2>2 DEF WholeRoot
  <2>5. WholeRoot'
    BY <1>c, <2>1, <2>2, <2>3, <2>4 DEF WholeRoot, Owns, Installed
  <2>6. QED
    BY <1>c, <2>2, <2>5 DEF Accounted, Unlinked, Installed
<1>12. CASE ForgetPackage
  <2>1. /\ op = "disown" /\ op' = "undict"
        /\ UNCHANGED <<root, files, pkg, todo>>
        /\ \A p \in Packages \ {pkg} : packages'[p] = packages[p]
    BY <1>12, <1>t DEF ForgetPackage, TypeOK, tree
  <2>2. pkg # None
    BY <1>t, <1>n, <2>1 DEF TypeOK
  <2>3. \A x \in Owned : root[x] # pkg
    BY <1>c, <2>1, <2>2 DEF Unlinked
  <2>4. WholeRoot'
    BY <1>c, <2>1 DEF WholeRoot, Owns, Installed
  <2>5. Accounted'
    BY <1>c, <1>t, <2>1, <2>3 DEF Accounted, Installed, TypeOK
  <2>6. Unlinked'
    BY <2>1, <2>3 DEF Unlinked
  <2>7. QED
    BY <2>4, <2>5, <2>6
<1>13. CASE ForgetDict
  <2>1. /\ op = "undict" /\ op' = "idle" /\ pkg' = None
        /\ UNCHANGED <<root, packages, files>>
    BY <1>13 DEF ForgetDict, Return, tree
  <2>2. ~Installed(pkg)
    BY <1>t, <2>1 DEF CallInv
  <2>3. QED
    BY <1>c, <2>1, <2>2 DEF WholeRoot, Owns, Accounted, Unlinked, Installed
<1>14. CASE Kill
  BY <1>14, <1>k DEF Kill
<1>15. CASE Fixup \/ UNCHANGED vars
  <2>1. UNCHANGED <<ball, root, packages, files, op, pkg, todo>>
    BY <1>15 DEF Fixup, vars, tree, dbs, call
  <2>2. QED
    BY <1>c, <2>1 DEF WholeRoot, Owns, Accounted, Unlinked, Installed
<1>16. QED
  BY <1>1, <1>2, <1>3, <1>4, <1>5, <1>6, <1>7, <1>8, <1>9, <1>10, <1>11,
     <1>12, <1>13, <1>14, <1>15 DEF Next

\* No install or uninstall of other packages takes a file from a package.
THEOREM FilesAreKept == ASSUME Links = {} PROVE Spec => []KeepsFiles
<1>1. CleanInv => KeepsFiles
  BY DEF CleanInv, CleanRoot, WholeRoot, Owns, KeepsFiles
<1>2. Init => CleanInv
  BY CleanInit
<1>3. CleanInv /\ [Next]_vars => CleanInv'
  BY CleanStep
<1>4. QED
  BY <1>1, <1>2, <1>3, PTL DEF Spec

\* A removed package leaves no file behind, though its ball may have been
\* built anew, with other contents, since it was installed.
THEOREM RemovalIsComplete == ASSUME Links = {} PROVE Spec => []NoLitter
<1>1. CleanInv => NoLitter
  BY DEF CleanInv, CleanRoot, Accounted, NoLitter
<1>2. Init => CleanInv
  BY CleanInit
<1>3. CleanInv /\ [Next]_vars => CleanInv'
  BY CleanStep
<1>4. QED
  BY <1>1, <1>2, <1>3, PTL DEF Spec

-----------------------------------------------------------------------------
(* Directories *)

ListsDirs == \A b \in Balls : \A x \in b : Above[x] \subseteq b

\* Why a directory is there: it has something in it, a package lists it, a package
\* is being unpacked to it, or it is still to be removed.
DirStays(d) ==
  \/ ~Empty(d)
  \/ \E p \in Packages : /\ Installed(p) /\ d \in packages[p]
                         /\ op \in {"unlink", "disown"} => p # pkg
  \/ op = "untar" /\ d \in ball[pkg]
  \/ op = "unlink" /\ d \in todo

\* What is in a directory is removed before it.
InnerFirst == op = "unlink" => \A x \in todo : Above[x] \cap dirs \subseteq todo

DirsInv == OwnerInv /\ (kills = 0 => InnerFirst /\ \A d \in dirs : DirStays(d))

\* A directory does not become empty if nothing goes.
LEMMA StaysFull ==
  ASSUME \A x \in Paths : Exists(x) => Exists(x)'
  PROVE  \A d : ~Empty(d) => ~Empty(d)'
BY DEF Empty

\* Nor if what goes is somewhere else.
LEMMA StaysFullBut ==
  ASSUME NEW y \in Paths, \A x \in Paths \ {y} : Exists(x) => Exists(x)'
  PROVE  \A d : ~Empty(d) /\ d \notin Above[y] => ~Empty(d)'
BY DEF Empty

LEMMA DirsStep ==
  ASSUME ListsDirs
  PROVE  DirsInv /\ [Next]_vars => DirsInv'
<1> SUFFICES ASSUME DirsInv, [Next]_vars, kills' = 0
             PROVE  InnerFirst' /\ \A d \in dirs' : DirStays(d)'
  BY OwnerStep DEF DirsInv
<1>t. TypeOK /\ TypeOK' /\ CallInv
  BY OwnerStep DEF DirsInv, OwnerInv
<1>n. /\ None \notin Packages /\ None \notin Balls
      /\ \A b \in Balls : b \subseteq Paths
      /\ Above \in [Paths -> SUBSET Dirs] /\ Dirs \cap Owned = {} /\ Paths = Dirs \cup Owned
  BY NoneAssumption, PathsAssumption DEF Paths
<1>k. kills = 0
  BY <1>t, BoundsAssumption DEF Next, TypeOK, Install, Uninstall, Build, Untar, Fixup,
     RecordPackage, RecordFile, RecordDict, Unlink, Rmdir, Removed, ForgetFile,
     ForgetPackage, ForgetDict, Kill, vars
<1>c. InnerFirst /\ \A d \in dirs : DirStays(d)
  BY <1>k DEF DirsInv
<1>f. ASSUME UNCHANGED <<dirs, root>> PROVE dirs' = dirs /\ \A d : ~Empty(d) => ~Empty(d)'
  BY <1>f, StaysFull DEF Exists
<1>e. ASSUME UNCHANGED tree PROVE dirs' = dirs /\ \A d : ~Empty(d) => ~Empty(d)'
  BY <1>e, <1>f DEF tree
<1>1. ASSUME NEW p \in Packages, Install(p)
      PROVE  InnerFirst' /\ \A d \in dirs' : DirStays(d)'
  <2>1. op = "idle" /\ op' = "untar" /\ UNCHANGED <<tree, packages>>
    BY <1>1 DEF Install, dbs
  <2>2. QED
    BY <1>c, <1>e, <2>1 DEF InnerFirst, DirStays, Installed
<1>2. ASSUME NEW p \in Packages, Uninstall(p)
      PROVE  InnerFirst' /\ \A d \in dirs' : DirStays(d)'
  <2>1. /\ op = "idle" /\ Installed(p) /\ op' = "unlink" /\ pkg' = p
        /\ todo' = {x \in packages[p] : Exists(x)} /\ UNCHANGED <<tree, packages>>
    BY <1>2 DEF Uninstall, dbs
  <2>2. packages[p] \in Balls /\ packages[p] \subseteq Paths
    BY <1>t, <1>n, <2>1 DEF TypeOK, Installed
  <2>3. \A d \in Dirs : d \in packages[p] /\ d \in dirs => d \in todo'
    BY <2>1 DEF Exists
  <2>4. InnerFirst'
    <3>1. \A x \in todo' : Above[x] \subseteq packages[p] /\ Above[x] \subseteq Dirs
      BY <1>n, <2>1, <2>2 DEF ListsDirs
    <3>2. QED
      BY <1>e, <2>1, <2>3, <3>1 DEF InnerFirst
  <2>5. ASSUME NEW d \in dirs' PROVE DirStays(d)'
    <3>1. d \in Dirs /\ d \in dirs
      BY <1>e, <1>t, <2>1, <2>5 DEF TypeOK
    <3>2. DirStays(d)
      BY <1>c, <3>1
    <3>3. QED
      BY <1>e, <2>1, <2>3, <3>1, <3>2 DEF DirStays, Installed
  <2>6. QED
    BY <2>4, <2>5
<1>3. ASSUME NEW p \in Packages, NEW b \in Balls, Build(p, b)
      PROVE  InnerFirst' /\ \A d \in dirs' : DirStays(d)'
  <2>1. op = "idle" /\ op' = "idle" /\ UNCHANGED <<tree, packages>>
    BY <1>3 DEF Build, dbs, call
  <2>2. QED
    BY <1>c, <1>e, <2>1 DEF InnerFirst, DirStays, Installed
<1>4. CASE Untar
  <2>1. PICK x \in todo :
          /\ dirs' = dirs \cup Above[x] \cup ({x} \cap Dirs)
          /\ root' = [y \in Owned |-> IF y = x THEN pkg ELSE root[y]]
    BY <1>4 DEF Untar
  <2>2. /\ op = "untar" /\ op' = "untar" /\ UNCHANGED <<ball, packages, pkg>>
        /\ x \in ball[pkg] /\ pkg \in Packages
    BY <1>4, <1>t DEF Untar, dbs, CallInv, TypeOK
  <2>3. Above[x] \subseteq ball[pkg]
    BY <1>t, <2>2 DEF TypeOK, ListsDirs
  <2>4. \A d : ~Empty(d) => ~Empty(d)'
    <3>1. \A y \in Paths : Exists(y) => Exists(y)'
      BY <1>n, <2>1, <2>2 DEF Exists
    <3>2. QED
      BY <3>1, StaysFull
  <2>5. \A d \in dirs' : d \in dirs \/ d \in ball[pkg]
    BY <2>1, <2>2, <2>3
  <2>6. QED
    BY <1>c, <2>2, <2>4, <2>5 DEF InnerFirst, DirStays, Installed
<1>5. CASE RecordPackage
  <2>1. /\ op = "untar" /\ op' = "own" /\ UNCHANGED <<tree, pkg>>
        /\ packages' = [packages EXCEPT ![pkg] = ball[pkg]]
    BY <1>5 DEF RecordPackage
  <2>2. pkg \in Packages /\ ball[pkg] # None /\ packages[pkg] = None
    BY <1>t, <1>n, <2>1 DEF TypeOK, CallInv, Installed
  <2>3. /\ packages'[pkg] = ball[pkg]
        /\ \A q \in Packages : Installed(q) => packages'[q] = packages[q]
    BY <1>t, <2>1, <2>2 DEF TypeOK, Installed
  <2>4. QED
    BY <1>c, <1>e, <2>1, <2>2, <2>3 DEF InnerFirst, DirStays, Installed
<1>6. CASE RecordFile \/ RecordDict \/ ForgetDict
  <2>1. /\ op \notin {"untar", "unlink", "disown"} /\ op' \notin {"untar", "unlink", "disown"}
        /\ UNCHANGED <<tree, packages>>
    BY <1>6 DEF RecordFile, RecordDict, ForgetDict, Return
  <2>2. QED
    BY <1>c, <1>e, <2>1 DEF InnerFirst, DirStays, Installed
<1>7. CASE Unlink
  <2>1. PICK x \in todo \cap Owned : root' = [root EXCEPT ![x] = None] /\ todo' = todo \ {x}
    BY <1>7 DEF Unlink
  <2>2. op = "unlink" /\ op' = "unlink" /\ UNCHANGED <<dirs, packages, pkg>>
    BY <1>7 DEF Unlink, dbs
  <2>3. x \in Paths /\ Above[x] \cap dirs \subseteq todo'
    BY <1>c, <1>n, <2>1, <2>2 DEF InnerFirst
  <2>4. \A d : ~Empty(d) /\ d \notin Above[x] => ~Empty(d)'
    <3>1. \A y \in Paths \ {x} : Exists(y) => Exists(y)'
      BY <1>t, <1>n, <2>1, <2>2 DEF Exists, TypeOK
    <3>2. QED
      BY <2>3, <3>1, StaysFullBut
  <2>5. InnerFirst'
    BY <1>c, <1>n, <1>t, <2>1, <2>2 DEF InnerFirst, TypeOK
  <2>6. ASSUME NEW d \in dirs' PROVE DirStays(d)'
    <3>1. d # x /\ DirStays(d) /\ d \in dirs
      BY <1>c, <1>n, <1>t, <2>1, <2>2 DEF TypeOK
    <3>2. QED
      BY <2>1, <2>2, <2>3, <2>4, <3>1 DEF DirStays, Installed
  <2>7. QED
    BY <2>5, <2>6
<1>8. CASE Rmdir
  <2>1. PICK x \in todo : /\ \A e \in todo : x \notin Above[e]
                          /\ dirs' = IF Empty(x) THEN dirs \ {x} ELSE dirs
                          /\ todo' = todo \ {x}
    BY <1>8 DEF Rmdir
  <2>2. op = "unlink" /\ op' = "unlink" /\ UNCHANGED <<root, packages, pkg>> /\ x \in Dirs
    BY <1>8, <2>1 DEF Rmdir, dbs
  <2>3. x \in Paths /\ Above[x] \cap dirs \subseteq todo'
    BY <1>c, <1>n, <2>1, <2>2 DEF InnerFirst
  <2>4. \A d : ~Empty(d) /\ d \notin Above[x] => ~Empty(d)'
    <3>1. \A y \in Paths \ {x} : Exists(y) => Exists(y)'
      BY <1>n, <2>1, <2>2 DEF Exists
    <3>2. QED
      BY <2>3, <3>1, StaysFullBut
  <2>5. InnerFirst'
    BY <1>c, <2>1, <2>2 DEF InnerFirst
  <2>6. ASSUME NEW d \in dirs' PROVE DirStays(d)'
    <3>1. DirStays(d) /\ d \in dirs
      BY <1>c, <2>1
    <3>2. CASE d # x
      BY <2>1, <2>2, <2>3, <2>4, <3>1, <3>2 DEF DirStays, Installed
    <3>3. CASE d = x
      <4>1. ~Empty(x)
        BY <2>1, <2>6, <3>3
      <4>2. x \notin Above[x]
        BY <2>1
      <4>3. QED
        BY <2>4, <3>3, <4>1, <4>2 DEF DirStays
    <3>4. QED
      BY <3>2, <3>3
  <2>7. QED
    BY <2>5, <2>6
<1>9. CASE Removed \/ ForgetFile
  <2>1. /\ op \in {"unlink", "disown"} /\ (op = "unlink" => todo = {}) /\ op' = "disown"
        /\ UNCHANGED <<tree, packages, pkg>>
    BY <1>9 DEF Removed, ForgetFile, dbs
  <2>2. QED
    BY <1>c, <1>e, <2>1 DEF InnerFirst, DirStays, Installed
<1>10. CASE ForgetPackage
  <2>1. /\ op = "disown" /\ op' = "undict" /\ UNCHANGED <<tree, pkg>>
        /\ packages' = [packages EXCEPT ![pkg] = None]
    BY <1>10 DEF ForgetPackage
  <2>2. \A q \in Packages : q # pkg => packages'[q] = packages[q]
    BY <1>t, <2>1 DEF TypeOK
  <2>3. QED
    BY <1>c, <1>e, <2>1, <2>2 DEF InnerFirst, DirStays, Installed
<1>11. CASE Kill
  BY <1>11, <1>k DEF Kill
<1>12. CASE Fixup \/ UNCHANGED vars
  <2>1. UNCHANGED <<dirs, root, packages, op, pkg, todo, ball>>
    BY <1>12 DEF Fixup, vars, tree, dbs, call
  <2>2. QED
    BY <1>c, <1>f, <2>1 DEF InnerFirst, DirStays, Installed
<1>13. QED
  BY <1>1, <1>2, <1>3, <1>4, <1>5, <1>6, <1>7, <1>8, <1>9, <1>10, <1>11, <1>12 DEF Next

\* uninstall_package goes through the listing backwards: if balls list the
\* directories they use and nobody is killed, it leaves no empty directory that
\* no package lists, whatever other packages share with the one that goes.
THEOREM NoDirIsLeft == ASSUME ListsDirs PROVE Spec => []NoEmptyDirs
<1>1. Init => DirsInv
  BY OwnerInit DEF Init, DirsInv, InnerFirst
<1>2. DirsInv /\ [Next]_vars => DirsInv'
  BY DirsStep
<1>3. DirsInv => NoEmptyDirs
  BY DEF DirsInv, NoEmptyDirs, DirStays
<1>4. QED
  BY <1>1, <1>2, <1>3, PTL DEF Spec

-----------------------------------------------------------------------------
(* The database appears to change atomically.  A step that its users see is   *)
(* the entry of a package, the begin of a removal, a death, or a step after   *)
(* the first death; every other step changes neither SeenInstalled nor        *)
(* SeenHeld.                                                                  *)

SeenSame == SeenInstalled' = SeenInstalled /\ SeenHeld' = SeenHeld /\ (kills' = 0) = (kills = 0)

\* Nothing is hidden once a process has died.
LEMMA AllVisible ==
  ASSUME TypeOK, kills # 0
  PROVE  SeenInstalled = packages /\ SeenHeld = root
BY DEF TypeOK, SeenInstalled, SeenHeld

LEMMA SameSeen ==
  ASSUME UNCHANGED <<packages, root, op, pkg, kills>>
  PROVE  SeenSame
BY DEF SeenSame, SeenInstalled, SeenHeld

LEMMA SeenInit == Init => Seen!Init
BY NoneAssumption DEF Init, Seen!Init, SeenInstalled, SeenHeld

LEMMA SeenStep ==
  ASSUME Links = {}, CleanInv, CleanInv', [Next]_vars
  PROVE  Seen!Next \/ SeenSame
<1>t. TypeOK /\ TypeOK' /\ CallInv
  BY DEF CleanInv, OwnerInv
<1>n. /\ None \notin Packages /\ None \notin Balls
      /\ \A b \in Balls : b \subseteq Paths
  BY NoneAssumption, PathsAssumption
<1>c. kills = 0 => WholeRoot /\ Accounted /\ Unlinked
  BY DEF CleanInv, CleanRoot
<1>v. kills # 0 => SeenInstalled = packages /\ SeenHeld = root
  BY <1>t, AllVisible
<1>w. kills' # 0 => SeenInstalled' = packages' /\ SeenHeld' = root'
  BY <1>t DEF TypeOK, SeenInstalled, SeenHeld
<1>1. ASSUME NEW p \in Packages, Install(p)
      PROVE  SeenSame
  <2>1. /\ op = "idle" /\ ~Installed(p) /\ op' = "untar" /\ pkg' = p
        /\ UNCHANGED <<root, packages, kills>>
    BY <1>1 DEF Install, tree, dbs
  <2>2. kills = 0 => \A x \in Owned : root[x] # p
    BY <1>c, <1>n, <2>1 DEF Accounted
  <2>3. QED
    BY <2>1, <2>2 DEF SeenSame, SeenInstalled, SeenHeld
<1>2. ASSUME NEW p \in Packages, Uninstall(p)
      PROVE  Seen!Next \/ SeenSame
  <2>1. /\ op = "idle" /\ Installed(p) /\ op' = "unlink" /\ pkg' = p
        /\ UNCHANGED <<root, packages, kills>>
    BY <1>2 DEF Uninstall, tree, dbs
  <2>2. CASE kills = 0
    <3>1. SeenInstalled = packages /\ SeenHeld = root
      BY <1>t, <2>1 DEF TypeOK, SeenInstalled, SeenHeld
    <3>2. SeenInstalled' = [packages EXCEPT ![p] = None]
      BY <1>t, <2>1, <2>2 DEF TypeOK, SeenInstalled
    <3>3. SeenHeld' = [x \in Owned |-> IF root[x] = p THEN None ELSE root[x]]
      BY <2>1, <2>2 DEF SeenHeld
    <3>4. Seen!Remove(p)
      BY <2>1, <2>2, <3>1, <3>2, <3>3 DEF Seen!Remove, Installed
    <3>5. QED
      BY <3>4 DEF Seen!Next
  <2>3. CASE kills # 0
    BY <1>v, <1>w, <2>1, <2>3 DEF SeenSame
  <2>4. QED
    BY <2>2, <2>3
<1>3. ASSUME NEW p \in Packages, NEW b \in Balls, Build(p, b)
      PROVE  SeenSame
  BY <1>3, SameSeen DEF Build, tree, dbs, call
<1>4. CASE Untar
  <2>1. PICK x \in todo : root' = [y \in Owned |-> IF y = x THEN pkg ELSE root[y]]
    BY <1>4 DEF Untar
  <2>2. /\ op = "untar" /\ op' = op /\ pkg' = pkg
        /\ UNCHANGED <<packages, kills>>
    BY <1>4 DEF Untar, dbs
  <2>3. x \in ball[pkg] /\ pkg \in Packages
    BY <1>t, <2>2 DEF CallInv, TypeOK
  <2>4. CASE kills = 0
    <3>1. x \in Owned => root[x] \in {pkg, None}
      <4>1. SUFFICES ASSUME x \in Owned, root[x] # None, root[x] # pkg
                     PROVE  FALSE
        OBVIOUS
      <4>2. files[x] = None
        BY <1>c, <2>2, <2>3, <2>4, <4>1 DEF WholeRoot
      <4>3. root[x] \in Packages /\ Installed(root[x]) /\ x \in packages[root[x]]
        BY <1>c, <1>t, <2>4, <4>1 DEF Accounted, TypeOK
      <4>4. Owns(root[x])
        BY <1>c, <2>4, <4>1, <4>3 DEF WholeRoot
      <4>5. QED
        BY <1>n, <4>1, <4>2, <4>3, <4>4 DEF Owns
    <3>2. SeenHeld' = SeenHeld
      BY <2>1, <2>2, <2>4, <3>1 DEF SeenHeld
    <3>3. SeenInstalled' = SeenInstalled
      BY <2>2 DEF SeenInstalled
    <3>4. QED
      BY <2>2, <3>2, <3>3 DEF SeenSame
  <2>5. CASE kills # 0 /\ x \in Owned
    <3>1. root' = [root EXCEPT ![x] = pkg]
      BY <1>t, <2>1 DEF TypeOK
    <3>2. Seen!Unsound(pkg)
      BY <1>v, <1>w, <2>2, <2>5, <3>1 DEF Seen!Unsound
    <3>3. QED
      BY <2>3, <3>2 DEF Seen!Next
  <2>6. CASE kills # 0 /\ x \notin Owned
    <3>1. root' = root
      BY <1>t, <2>1, <2>6 DEF TypeOK
    <3>2. QED
      BY <2>2, <3>1, SameSeen
  <2>7. QED
    BY <2>4, <2>5, <2>6
<1>5. CASE RecordPackage
  <2>1. /\ op = "untar" /\ todo = {} /\ op' = "own" /\ pkg' = pkg
        /\ packages' = [packages EXCEPT ![pkg] = ball[pkg]]
        /\ UNCHANGED <<root, kills>>
    BY <1>5 DEF RecordPackage, tree
  <2>2. /\ pkg \in Packages /\ ball[pkg] \in Balls
        /\ packages[pkg] = None
    BY <1>t, <2>1 DEF TypeOK, CallInv, Installed
  <2>3. \A x \in ball[pkg] \cap Owned : root[x] = pkg
    <3>1. \A x \in ball[pkg] : Unpacked(pkg, x)
      BY <1>t, <2>1 DEF CallInv
    <3>2. QED
      BY <3>1, PathsAssumption DEF Unpacked
  <2>4. CASE kills = 0
    <3>1. SeenInstalled = packages /\ SeenInstalled' = packages'
      BY <1>t, <2>1 DEF TypeOK, SeenInstalled
    <3>2. \A x \in ball[pkg] \cap Owned : SeenHeld[x] = None
      BY <2>1, <2>3, <2>4 DEF SeenHeld
    <3>3. \A x \in Owned : root[x] = pkg => x \in ball[pkg]
      BY <1>c, <1>n, <2>1, <2>2, <2>4 DEF Accounted, Installed
    <3>4. SeenHeld' = [x \in Owned |-> IF x \in ball[pkg] THEN pkg ELSE SeenHeld[x]]
      BY <1>t, <2>1, <2>3, <2>4, <3>3 DEF SeenHeld
    <3>5. Seen!Install(pkg)
      BY <2>1, <2>2, <2>4, <3>1, <3>2, <3>4 DEF Seen!Install
    <3>6. QED
      BY <2>2, <3>5 DEF Seen!Next
  <2>5. CASE kills # 0
    <3>1. Seen!Unsound(pkg)
      BY <1>v, <1>w, <2>1, <2>2, <2>3, <2>5 DEF Seen!Unsound
    <3>2. QED
      BY <2>2, <3>1 DEF Seen!Next
  <2>6. QED
    BY <2>4, <2>5
<1>6. CASE RecordFile
  BY <1>6, SameSeen DEF RecordFile, tree
<1>7. CASE RecordDict
  BY <1>7 DEF RecordDict, Return, tree, SeenSame, SeenInstalled, SeenHeld
<1>8. CASE Unlink
  <2>1. PICK x \in todo \cap Owned : root' = [root EXCEPT ![x] = None]
    BY <1>8 DEF Unlink
  <2>2. op = "unlink" /\ UNCHANGED <<packages, op, pkg, kills>>
    BY <1>8 DEF Unlink, dbs
  <2>3. x \in packages[pkg] /\ pkg \in Packages
    BY <1>t, <2>2 DEF CallInv, TypeOK
  <2>4. CASE kills = 0
    <3>1. root[x] \in {pkg, None}
      <4>1. SUFFICES ASSUME root[x] # None, root[x] # pkg
                     PROVE  FALSE
        OBVIOUS
      <4>2. files[x] = pkg
        BY <1>c, <2>2, <2>3, <2>4 DEF WholeRoot
      <4>3. root[x] \in Packages /\ Installed(root[x]) /\ x \in packages[root[x]]
        BY <1>c, <1>t, <2>2, <2>4, <4>1 DEF Accounted, TypeOK
      <4>4. Owns(root[x])
        BY <1>c, <2>4, <4>1, <4>3 DEF WholeRoot
      <4>5. QED
        BY <4>1, <4>2, <4>3, <4>4 DEF Owns
    <3>2. SeenHeld' = SeenHeld
      BY <1>t, <2>1, <2>2, <2>4, <3>1 DEF SeenHeld, TypeOK
    <3>3. SeenInstalled' = SeenInstalled
      BY <2>2 DEF SeenInstalled
    <3>4. QED
      BY <2>2, <3>2, <3>3 DEF SeenSame
  <2>5. CASE kills # 0
    <3>1. Seen!Unsound(pkg)
      BY <1>v, <1>w, <2>1, <2>2, <2>5 DEF Seen!Unsound
    <3>2. QED
      BY <2>3, <3>1 DEF Seen!Next
  <2>6. QED
    BY <2>4, <2>5
<1>9. CASE Rmdir
  BY <1>9, SameSeen DEF Rmdir, dbs
<1>10. CASE Removed
  <2>1. /\ op = "unlink" /\ todo = {} /\ op' = "disown"
        /\ UNCHANGED <<root, packages, pkg, kills>>
    BY <1>10 DEF Removed, tree, dbs
  <2>2. pkg # None
    BY <1>t, <1>n, <2>1 DEF TypeOK
  <2>3. kills = 0 => \A x \in Owned : root[x] # pkg
    BY <1>c, <2>1, <2>2 DEF Unlinked
  <2>4. QED
    BY <2>1, <2>3 DEF SeenSame, SeenInstalled, SeenHeld
<1>11. CASE ForgetFile
  BY <1>11, SameSeen DEF ForgetFile, tree
<1>12. CASE ForgetPackage
  <2>1. /\ op = "disown" /\ op' = "undict"
        /\ packages' = [packages EXCEPT ![pkg] = None]
        /\ UNCHANGED <<root, pkg, kills>>
    BY <1>12 DEF ForgetPackage, tree
  <2>2. pkg \in Packages /\ packages[pkg] # None
    BY <1>t, <2>1 DEF TypeOK, CallInv, Installed
  <2>3. CASE kills = 0
    <3>1. SeenInstalled' = SeenInstalled
      BY <1>t, <2>1, <2>3 DEF SeenInstalled, TypeOK
    <3>2. SeenHeld' = SeenHeld
      BY <2>1 DEF SeenHeld
    <3>3. QED
      BY <2>1, <3>1, <3>2 DEF SeenSame
  <2>4. CASE kills # 0
    <3>1. Seen!Unsound(pkg)
      BY <1>v, <1>w, <2>1, <2>2, <2>4 DEF Seen!Unsound
    <3>2. QED
      BY <2>2, <3>1 DEF Seen!Next
  <2>5. QED
    BY <2>3, <2>4
<1>13. CASE ForgetDict
  BY <1>13 DEF ForgetDict, Return, tree, SeenSame, SeenInstalled, SeenHeld
<1>14. CASE Kill
  <2>1. /\ op # "idle" /\ kills' = kills + 1 /\ UNCHANGED <<root, packages>>
    BY <1>14 DEF Kill, tree, dbs
  <2>2. pkg \in Packages /\ kills \in Nat
    BY <1>t, <2>1, BoundsAssumption DEF TypeOK
  <2>3. CASE kills = 0
    <3>1. SeenInstalled' = packages /\ SeenHeld' = root
      BY <1>w, <2>1, <2>3
    <3>2. packages = [SeenInstalled EXCEPT ![pkg] = packages[pkg]]
      BY <1>t DEF TypeOK, SeenInstalled
    <3>3. packages[pkg] \in Balls \cup {None}
      BY <1>t, <2>2 DEF TypeOK
    <3>4. DEFINE S == {x \in Owned : root[x] = pkg}
    <3>5. root = [x \in Owned |-> IF x \in S THEN pkg ELSE SeenHeld[x]]
      BY <1>t DEF TypeOK, SeenHeld
    <3>6. Seen!Crash(pkg)
      <4>1. S \in SUBSET Owned
        OBVIOUS
      <4>2. kills' # 0
        BY <2>1, <2>3
      <4>3. \E T \in SUBSET Owned : SeenHeld' = [x \in Owned |-> IF x \in T THEN pkg ELSE SeenHeld[x]]
        BY <3>1, <3>5, <4>1
      <4>4. \E c \in Balls \cup {None} : SeenInstalled' = [SeenInstalled EXCEPT ![pkg] = c]
        BY <3>1, <3>2, <3>3
      <4>5. QED
        BY <2>3, <4>2, <4>3, <4>4 DEF Seen!Crash
    <3>7. QED
      BY <2>2, <3>6 DEF Seen!Next
  <2>4. CASE kills # 0
    <3>1. kills' # 0
      BY <2>1, <2>2
    <3>2. QED
      BY <1>v, <1>w, <2>1, <2>4, <3>1 DEF SeenSame
  <2>5. QED
    BY <2>3, <2>4
<1>15. CASE Fixup \/ UNCHANGED vars
  BY <1>15, SameSeen DEF Fixup, vars, tree, dbs, call
<1>16. QED
  BY <1>1, <1>2, <1>3, <1>4, <1>5, <1>6, <1>7, <1>8, <1>9, <1>10, <1>11,
     <1>12, <1>13, <1>14, <1>15 DEF Next

\* Installing and removing are atomic for all who look at packages.db and the
\* tree, as long as no process dies, and orderly afterwards.
THEOREM ImplementsRegistry == ASSUME Links = {} PROVE Spec => SeenAsRegistry
<1>1. Init => CleanInv /\ Seen!Init
  BY CleanInit, SeenInit
<1>2. CleanInv /\ [Next]_vars => CleanInv'
  BY CleanStep
<1>3. CleanInv /\ CleanInv' /\ [Next]_vars => [Seen!Next]_(Seen!vars)
  BY SeenStep DEF SeenSame, Seen!vars
<1>4. QED
  BY <1>1, <1>2, <1>3, PTL DEF Spec, SeenAsRegistry, Seen!Spec

=============================================================================
