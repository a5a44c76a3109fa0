--------------------------------- MODULE Gup ---------------------------------
(***************************************************************************)
(* The package database of one system root: FileManager and               *)
(* PackageManager of gub/gup.py.  Three databases describe the tree:       *)
(* packages.db (package -> its paths), files.db (path -> its package) and  *)
(* dicts.db (package -> its header).  Installing or removing a package is  *)
(* a sequence of writes to the tree and to the three databases, and a      *)
(* process that dies in between leaves them as they are; nothing repairs   *)
(* them afterwards.                                                        *)
(*                                                                         *)
(* One process at a time has the root, under the lock of module Locker.    *)
(***************************************************************************)
EXTENDS Naturals

CONSTANTS
  Packages,
  Dirs,      \* paths that are directories: in a listing they end in `/'
  Files,     \* paths of regular files
  Links,     \* paths of symbolic links to directories
  Fixups,    \* files that end in .la or .pc
  Above,     \* path -> the directories it is in
  Target,    \* link -> the directory it points to
  Balls,     \* what a package ball can hold, as sets of paths
  None,      \* no package; not installed
  MaxBuilds, \* bound: balls that are built anew
  MaxKills   \* bound: processes that die

Owned == Files \cup Links
Paths == Dirs \cup Owned

ASSUME PathsAssumption ==
  /\ Dirs \cap Owned = {} /\ Fixups \subseteq Files
  /\ Above \in [Paths -> SUBSET Dirs]
  /\ Target \in [Links -> Dirs]
  /\ Balls \subseteq SUBSET Paths
ASSUME NoneAssumption == None \notin Packages /\ None \notin Balls
ASSUME BoundsAssumption == MaxBuilds \in Nat /\ MaxKills \in Nat

VARIABLES
  ball,     \* package -> what its ball holds now
  dirs,     \* the directories that exist
  root,     \* file or link -> the package whose copy is there
  raw,      \* the files in it that name directories of the build platform
  packages, \* packages.db
  files,    \* files.db
  dicts,    \* the keys of dicts.db
  op,       \* where install_package or uninstall_package is
  pkg,      \* the package it works on
  todo,     \* the paths its present loop has left
  builds, kills \* counters for the bounds

tree == <<dirs, root, raw>>
dbs  == <<packages, files, dicts>>
call == <<op, pkg, todo>>
vars == <<ball, tree, dbs, call, builds, kills>>

Installed(p) == packages[p] # None
Exists(x)    == IF x \in Dirs THEN x \in dirs ELSE root[x] # None

\* os.path.isdir follows symbolic links.
IsDir(x) == IF x \in Links THEN root[x] # None /\ Target[x] \in dirs
                           ELSE x \in dirs

\* Mistake: the sense of isdir.
DuplicateDirs(p) == {x \in ball[p] \cap Owned : files[x] # None /\ IsDir(x)}

\* install_tarball: the paths of a ball that files.db gives to some package.
Duplicates(p) == {x \in ball[p] \cap Owned : files[x] # None /\ ~IsDir(x)}

TypeOK ==
  /\ ball \in [Packages -> Balls]
  /\ dirs \subseteq Dirs
  /\ root \in [Owned -> Packages \cup {None}] /\ raw \subseteq Fixups
  /\ packages \in [Packages -> Balls \cup {None}]
  /\ files \in [Owned -> Packages \cup {None}]
  /\ dicts \subseteq Packages
  /\ op \in {"idle", "untar", "own", "unlink", "disown", "undict"}
  /\ pkg \in Packages \cup {None}
  /\ op # "idle" => pkg \in Packages
  /\ todo \subseteq Paths
  /\ builds \in 0..MaxBuilds /\ kills \in 0..MaxKills

Init ==
  /\ ball \in [Packages -> Balls]
  /\ dirs = {} /\ root = [x \in Owned |-> None] /\ raw = {}
  /\ packages = [p \in Packages |-> None]
  /\ files = [x \in Owned |-> None]
  /\ dicts = {}
  /\ op = "idle" /\ pkg = None /\ todo = {}
  /\ builds = 0 /\ kills = 0

Return == op' = "idle" /\ pkg' = None /\ todo' = {}

\* A package is built again, with other contents, whether or not the former
\* ball is installed.
Build(p, b) ==
  /\ op = "idle" /\ builds < MaxBuilds /\ b # ball[p]
  /\ ball' = [ball EXCEPT ![p] = b]
  /\ builds' = builds + 1
  /\ UNCHANGED <<tree, dbs, call, kills>>

-----------------------------------------------------------------------------
(* install_package.  It returns at once for an installed package, and raises *)
(* `Duplicate files found.', without having written anything, for a ball     *)
(* with duplicates.                                                          *)

\* Mistake: an installed package is installed again.
InstallAgain(p) ==
  /\ op = "idle" /\ Duplicates(p) = {}
  /\ op' = "untar" /\ pkg' = p /\ todo' = ball[p]
  /\ UNCHANGED <<ball, tree, dbs, builds, kills>>

Install(p) ==
  /\ op = "idle" /\ ~Installed(p) /\ Duplicates(p) = {}
  /\ op' = "untar" /\ pkg' = p /\ todo' = ball[p]
  /\ UNCHANGED <<ball, tree, dbs, builds, kills>>

\* tar writes over what is there, and makes the directories it needs.
Untar ==
  /\ op = "untar"
  /\ \E x \in todo :
       /\ dirs' = dirs \cup Above[x] \cup ({x} \cap Dirs)
       /\ root' = [y \in Owned |-> IF y = x THEN pkg ELSE root[y]]
       /\ raw' = raw \cup ({x} \cap Fixups)
       /\ todo' = todo \ {x}
  /\ UNCHANGED <<ball, dbs, op, pkg, builds, kills>>

\* libtool_la_fixup and pkgconfig_pc_fixup have the file name directories in root.
Unfixed == raw \cap ball[pkg]
Fixup ==
  /\ op = "untar" /\ todo = {}
  /\ \E x \in Unfixed : raw' = raw \ {x}
  /\ UNCHANGED <<ball, dirs, root, dbs, call, builds, kills>>

\* Mistakes: the entry comes before the tar command, or leaves out directories.
RecordPackageEarly ==
  /\ op = "untar"
  /\ packages' = [packages EXCEPT ![pkg] = ball[pkg]]
  /\ op' = "own" /\ todo' = ball[pkg] \cap Owned
  /\ UNCHANGED <<ball, tree, files, dicts, pkg, builds, kills>>
RecordPackageFiles ==
  /\ op = "untar" /\ todo = {} /\ Unfixed = {}
  /\ packages' = [packages EXCEPT ![pkg] = ball[pkg] \cap Owned]
  /\ op' = "own" /\ todo' = ball[pkg] \cap Owned
  /\ UNCHANGED <<ball, tree, files, dicts, pkg, builds, kills>>

RecordPackage ==
  /\ op = "untar" /\ todo = {} /\ Unfixed = {}
  /\ packages' = [packages EXCEPT ![pkg] = ball[pkg]]
  /\ op' = "own" /\ todo' = ball[pkg] \cap Owned
  /\ UNCHANGED <<ball, tree, files, dicts, pkg, builds, kills>>

RecordFile ==
  /\ op = "own"
  /\ \E x \in todo : /\ files' = [files EXCEPT ![x] = pkg]
                     /\ todo' = todo \ {x}
  /\ UNCHANGED <<ball, tree, packages, dicts, op, pkg, builds, kills>>

RecordDict ==
  /\ op = "own" /\ todo = {}
  /\ dicts' = dicts \cup {pkg}
  /\ Return
  /\ UNCHANGED <<ball, tree, packages, files, builds, kills>>

-----------------------------------------------------------------------------
(* uninstall_package, which its callers use on installed packages only.      *)

\* Mistake: the list is read from the present ball.
UninstallBall(p) ==
  /\ op = "idle" /\ Installed(p)
  /\ op' = "unlink" /\ pkg' = p /\ todo' = {x \in ball[p] : Exists(x)}
  /\ UNCHANGED <<ball, tree, dbs, builds, kills>>

Uninstall(p) ==
  /\ op = "idle" /\ Installed(p)
  /\ op' = "unlink" /\ pkg' = p /\ todo' = {x \in packages[p] : Exists(x)}
  /\ UNCHANGED <<ball, tree, dbs, builds, kills>>

Unlink ==
  /\ op = "unlink"
  /\ \E x \in todo \cap Owned : /\ root' = [root EXCEPT ![x] = None]
                                /\ raw' = raw \ {x}
                                /\ todo' = todo \ {x}
  /\ UNCHANGED <<ball, dirs, dbs, op, pkg, builds, kills>>

\* tar lists a directory before what is in it, so the reversed list has the
\* innermost directories first.  A directory with something in it stays.
Empty(d) == \A x \in Paths : d \in Above[x] => ~Exists(x)
\* Mistake: the directories in the order of the listing.
RmdirOutermost ==
  /\ op = "unlink" /\ todo \subseteq Dirs
  /\ \E d \in todo : /\ \A e \in todo : e \notin Above[d]
                     /\ dirs' = IF Empty(d) THEN dirs \ {d} ELSE dirs
                     /\ todo' = todo \ {d}
  /\ UNCHANGED <<ball, root, raw, dbs, op, pkg, builds, kills>>

Rmdir ==
  /\ op = "unlink" /\ todo \subseteq Dirs
  /\ \E d \in todo : /\ \A e \in todo : d \notin Above[e]
                     /\ dirs' = IF Empty(d) THEN dirs \ {d} ELSE dirs
                     /\ todo' = todo \ {d}
  /\ UNCHANGED <<ball, root, raw, dbs, op, pkg, builds, kills>>

Removed ==
  /\ op = "unlink" /\ todo = {}
  /\ op' = "disown" /\ todo' = packages[pkg] \cap Owned
  /\ UNCHANGED <<ball, tree, dbs, pkg, builds, kills>>

\* The entry of a path goes, whichever package it names.
ForgetFile ==
  /\ op = "disown"
  /\ \E x \in todo : /\ files' = [files EXCEPT ![x] = None]
                     /\ todo' = todo \ {x}
  /\ UNCHANGED <<ball, tree, packages, dicts, op, pkg, builds, kills>>

\* Mistake: packages.db is written before files.db.
ForgetPackageEarly ==
  /\ op = "disown"
  /\ packages' = [packages EXCEPT ![pkg] = None]
  /\ op' = "undict"
  /\ UNCHANGED <<ball, tree, files, dicts, pkg, todo, builds, kills>>

ForgetPackage ==
  /\ op = "disown" /\ todo = {}
  /\ packages' = [packages EXCEPT ![pkg] = None]
  /\ op' = "undict"
  /\ UNCHANGED <<ball, tree, files, dicts, pkg, todo, builds, kills>>

\* Deleting a key that is not there raises, but everything else is done.
ForgetDict ==
  /\ op = "undict"
  /\ dicts' = dicts \ {pkg}
  /\ Return
  /\ UNCHANGED <<ball, tree, packages, files, builds, kills>>

-----------------------------------------------------------------------------
\* The process is killed, tar fails, or a fixup finds nothing to replace, which it
\* must outside the roots of the tools.
Kill ==
  /\ op # "idle" /\ kills < MaxKills
  /\ kills' = kills + 1
  /\ Return
  /\ UNCHANGED <<ball, tree, dbs, builds>>

Next ==
  \/ \E p \in Packages : \/ Install(p) \/ Uninstall(p)
                         \/ \E b \in Balls : Build(p, b)
  \/ Untar \/ Fixup \/ RecordPackage \/ RecordFile \/ RecordDict
  \/ Unlink \/ Rmdir \/ Removed \/ ForgetFile \/ ForgetPackage \/ ForgetDict
  \/ Kill

Spec == Init /\ [][Next]_vars

-----------------------------------------------------------------------------
(* What a call in progress has done so far, wherever the process may die *)

Unpacked(p, x) == IF x \in Dirs THEN x \in dirs ELSE root[x] = p

CallInv ==
  /\ op = "idle" => pkg = None
  /\ op = "untar" => /\ ~Installed(pkg) /\ todo \subseteq ball[pkg]
                     /\ \A x \in ball[pkg] \ todo : Unpacked(pkg, x)
  /\ op = "own" => Installed(pkg) /\ todo \subseteq packages[pkg] \cap Owned
  /\ op \in {"unlink", "disown"} => Installed(pkg) /\ todo \subseteq packages[pkg]
  /\ op = "disown" => \A x \in Owned : files[x] = pkg => x \in todo
  /\ op = "undict" => ~Installed(pkg)

\* And what it can rely on as long as none has died: every package but the one
\* at hand owns its files, in files.db and in the tree.
Owns(p) == \A x \in packages[p] \cap Owned : files[x] = p /\ root[x] = p
WholeRoot ==
  /\ \A p \in Packages \ {pkg} : Installed(p) => Owns(p)
  /\ op = "untar" => \A x \in ball[pkg] \cap Owned : files[x] = None
  /\ op = "own" => \A x \in packages[pkg] \cap Owned :
       root[x] = pkg /\ files[x] = IF x \in todo THEN None ELSE pkg
  /\ op = "unlink" => \A x \in packages[pkg] \cap Owned : files[x] = pkg
  /\ op = "disown" => \A x \in todo \cap Owned : files[x] = pkg

\* Where the files of the tree come from.
Accounted ==
  \A x \in Owned : root[x] # None =>
    \/ op = "untar" /\ root[x] = pkg /\ x \in ball[pkg]
    \/ Installed(root[x]) /\ x \in packages[root[x]]
Unlinked ==
  \A x \in Owned : root[x] = pkg /\ pkg # None =>
    /\ op \notin {"disown", "undict"}
    /\ op = "unlink" => x \in todo

CleanRoot == kills = 0 => WholeRoot /\ Accounted /\ Unlinked

-----------------------------------------------------------------------------
(* Properties that hold whenever the process may die *)

\* What files.db says is so: the owner of a path is installed and lists it.
OwnerLists ==
  \A x \in Owned : files[x] # None =>
    Installed(files[x]) /\ x \in packages[files[x]]

\* A package is called installed only after all of it has been unpacked, and none of
\* its files names a directory that is not in the root.
UnpackedFirst ==
  [][\A p \in Packages : Installed(p)' /\ ~Installed(p) =>
       \A x \in packages'[p] : Unpacked(p, x) /\ x \notin raw]_vars

-----------------------------------------------------------------------------
(* Properties of a root none of whose processes has died *)

\* Installing and removing other packages takes no file away from a package.
KeepsFiles ==
  kills = 0 => \A p \in Packages \ {pkg} : Installed(p) =>
    \A x \in packages[p] \cap Owned : root[x] = p

\* Nothing is left of a package that has been removed, even if its ball has
\* been built anew meanwhile.
NoLitter ==
  kills = 0 /\ op = "idle" => \A x \in Owned : root[x] # None =>
    Installed(root[x]) /\ x \in packages[root[x]]

\* Where packages list all the directories they use, none is left either.
NoEmptyDirs ==
  kills = 0 /\ op = "idle" => \A d \in dirs : ~Empty(d) \/
    \E p \in Packages : Installed(p) /\ d \in packages[p]

-----------------------------------------------------------------------------
(* What the users of the root see of it *)

\* A package counts as there from the entry in packages.db until its removal
\* begins, and so do its files.
SeenInstalled == [p \in Packages |->
  IF p = pkg /\ op \in {"unlink", "disown"} /\ kills = 0 THEN None ELSE packages[p]]
SeenHeld == [x \in Owned |->
  IF root[x] = pkg /\ op \in {"untar", "unlink"} /\ kills = 0 THEN None ELSE root[x]]

Seen == INSTANCE Registry WITH
  Files <- Owned, Contents <- Balls,
  installed <- SeenInstalled, held <- SeenHeld, sound <- (kills = 0)

\* The writes of install_package and uninstall_package to the tree and the three
\* databases appear as one step each until a process dies; and also after that a
\* package is not entered before it is unpacked.
SeenAsRegistry == Seen!Spec

======
