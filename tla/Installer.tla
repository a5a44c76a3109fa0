------------------------------- MODULE Installer -------------------------------
(***************************************************************************)
(* Building the installer of one program, bin/gib and gub/installer.py,    *)
(* while bin/gub may be building the packages it is made of.  gib holds    *)
(* the lock of the installer's root and gub that of the system root, so    *)
(* the two are not ordered: gib reads headers, checksums and balls one     *)
(* after the other while gub replaces them one after the other.  Either    *)
(* may die anywhere.  gib keeps the checksum of what it has packed, and    *)
(* does nothing when it finds the checksum unchanged.                      *)
(***************************************************************************)
EXTENDS VersionDb

CONSTANTS
  Packages, Main,
  Files,            \* paths in a root
  Cruft, CLibrary,  \* globs to remove: always, from all but root images,
  OldCruft, OldKept, \* and for lilypond-ancient; globs it keeps
  Matches,          \* glob -> the paths it matches under one of the prefixes
  RootImage, Ancient, \* what the name of Main begins with
  MaxVersion,       \* versions of a package's sources
  Needs,            \* package -> version -> the packages its header names
  Contents,         \* package -> version -> what is in its ball
  UpstreamOf,       \* version of Main -> the version string in its header
  Accepted,         \* the headers, <<package, version>>, of the branches asked for
  Systems,          \* what the platform may be, some of AllSystems
  NoFile, Partial, NoSum,
  MaxNumber,        \* bound: build numbers
  MaxBuilds, MaxKills, MaxGibs  \* bounds: packages built but for those that
                                \* were interrupted, deaths, runs of gib

\* get_installer
AllSystems == {"debian", "darwin", "freebsd", "linux", "linux-arm-vfp", "mingw"}
InstallerClass(system) == CASE system = "darwin"        -> "DarwinBundle"
                            [] system = "linux-arm-vfp" -> "Linux_installer"
                            [] system = "mingw"         -> "Nsis"
                            [] OTHER                    -> "Shar"
Classes == {InstallerClass(s) : s \in Systems}

\* strip_unnecessary_files
Globs    == Cruft \cup (IF RootImage THEN {} ELSE CLibrary)
                  \cup (IF Ancient THEN OldCruft ELSE {})
Stripped == UNION {Matches[g] : g \in Globs \ (IF Ancient THEN OldKept ELSE {})}

Versions == 1..MaxVersion
Copies   == Packages \X Versions
Numbers  == 0..MaxNumber
Names    == Upstreams \X Numbers

ASSUME ProgramAssumption ==
  /\ Systems \subseteq AllSystems /\ RootImage \in BOOLEAN /\ Ancient \in BOOLEAN
  /\ Matches \in [Cruft \cup CLibrary \cup OldCruft -> SUBSET Files]
ASSUME InstallerAssumption ==
  /\ Main \in Packages
  /\ MaxVersion \in Nat \ {0}
  /\ Needs \in [Packages -> [Versions -> SUBSET Packages]]
  /\ Contents \in [Packages -> [Versions -> SUBSET Files]]
  /\ UpstreamOf \in [Versions -> Upstreams]
  /\ Accepted \subseteq Copies
  /\ NoSum \notin Versions \X Versions
  /\ NoSum \notin [Packages -> Versions \X Versions \cup {NoSum}]
  /\ NoFile \notin Copies /\ {NoFile, Partial} \cap [Files -> Copies \cup {NoFile}] = {}
  /\ MaxNumber \in Nat \ {0}
  /\ MaxBuilds \in Nat /\ MaxKills \in Nat /\ MaxGibs \in Nat

VARIABLES
  ball, hdr, sum,    \* package -> the version of its ball, header, checksum file; 0: none
  gub,               \* what gub is writing: [pkg, version, next], or <<>>
  pc,                \* the stage gib is in
  todo,              \* the packages its present loop has left
  heads,             \* package -> the header gib has read; 0: none
  sums,              \* package -> the checksums gib has read
  made,              \* package -> the version of the ball gib has installed; 0: none
  root,              \* the installer's root: path -> whose copy
  checksum,          \* the installer's checksum file
  uploads,           \* the installers in uploads/: name -> contents
  db, torn,          \* the file of the version database; not written to its end
  seen,              \* gib's copy of it
  newest,            \* history: package -> its newest version; 0: it went back once
  builds, kills, gibs

store == <<ball, hdr, sum, gub, newest, builds>>
work  == <<pc, todo, heads, sums, made, seen, root>>
out   == <<checksum, uploads>>
dbfile == <<db, torn>>

None == [p \in Packages |-> 0]
Empty == [f \in Files |-> NoFile]
Roots   == [Files -> Copies \cup {NoFile}]
Bundles == Roots \cup {NoFile, Partial}
Sums    == [Packages -> Versions \X Versions \cup {NoSum}]
Jobs    == [pkg : Packages, version : Versions, next : {"ball", "header", "move", "checksum"}]
Settled(p) == ball[p] = hdr[p] /\ hdr[p] = sum[p]

InstallerTypeOK ==
  /\ ball \in [Packages -> Versions \cup {Partial}]
  /\ hdr \in [Packages -> Versions \cup {0}] /\ sum \in [Packages -> Versions \cup {0}]
  /\ gub = <<>> \/ gub \in Jobs
  /\ pc \in {"idle", "read", "sum", "install", "strip", "create", "bundle", "write", "seal"}
  /\ todo \subseteq Packages
  /\ heads \in [Packages -> Versions \cup {0}] /\ made \in [Packages -> Versions \cup {0}]
  /\ sums \in Sums /\ root \in Roots /\ checksum \in Sums \cup {NoSum}
  /\ uploads \in [Names -> Bundles]
  /\ IsDb(db, Numbers) /\ IsDb(seen, Numbers) /\ torn \in BOOLEAN
  /\ newest \in [Packages -> Versions \cup {0}]
  /\ builds \in 0..MaxBuilds /\ (gub # <<>> => builds # 0)
  /\ kills \in 0..MaxKills /\ gibs \in 0..MaxGibs

InstallerInit ==
  /\ ball = [p \in Packages |-> 1] /\ hdr = ball /\ sum = ball
  /\ gub = <<>> /\ newest = ball /\ builds = 0
  /\ pc = "idle" /\ todo = {} /\ heads = None /\ made = None
  /\ sums = [p \in Packages |-> NoSum]
  /\ root = Empty /\ checksum = NoSum /\ uploads = [n \in Names |-> NoFile]
  /\ db = NoDb /\ seen = NoDb /\ torn = FALSE
  /\ kills = 0 /\ gibs = 0

-----------------------------------------------------------------------------
(* gub packages one build: the ball, then the header, and once the run has   *)
(* succeeded it moves the old checksum file away and writes a new one.  It   *)
(* does so again for the version of the header if it was killed in between.  *)

Package(p, v) ==
  /\ gub = <<>> /\ builds < MaxBuilds
  /\ v # hdr[p] \/ v # sum[p]
  /\ builds' = builds + 1
  /\ ball' = [ball EXCEPT ![p] = Partial]
  /\ newest' = [newest EXCEPT ![p] = IF v < @ THEN 0 ELSE IF @ = 0 THEN 0 ELSE v]
  /\ gub' = [pkg |-> p, version |-> v, next |-> "ball"]
  /\ UNCHANGED <<hdr, sum, work, out, dbfile, kills, gibs>>

GubStep ==
  /\ gub # <<>>
  /\ LET p == gub.pkg IN
     \/ /\ gub.next = "ball"
        /\ ball' = [ball EXCEPT ![p] = gub.version]
        /\ gub' = [gub EXCEPT !.next = "header"]
        /\ UNCHANGED <<hdr, sum>>
     \/ /\ gub.next = "header"
        /\ hdr' = [hdr EXCEPT ![p] = gub.version]
        /\ gub' = [gub EXCEPT !.next = "move"]
        /\ UNCHANGED <<ball, sum>>
     \/ /\ gub.next = "move"
        /\ sum' = [sum EXCEPT ![p] = 0]
        /\ gub' = [gub EXCEPT !.next = "checksum"]
        /\ UNCHANGED <<ball, hdr>>
     \/ /\ gub.next = "checksum"
        /\ sum' = [sum EXCEPT ![p] = gub.version]
        /\ gub' = <<>>
        /\ UNCHANGED <<ball, hdr>>
  /\ UNCHANGED <<newest, builds, work, out, dbfile, kills, gibs>>

GubKilled ==
  /\ gub # <<>> /\ kills < MaxKills
  /\ gub' = <<>> /\ kills' = kills + 1 /\ builds' = builds - 1
  /\ UNCHANGED <<ball, hdr, sum, newest, work, out, dbfile, gibs>>

-----------------------------------------------------------------------------
(* gib.  What it knows is gone when it ends; the root stays.                 *)

End == /\ pc' = "idle" /\ todo' = {} /\ heads' = None /\ made' = None /\ seen' = NoDb
       /\ sums' = [p \in Packages |-> NoSum]

\* gib reads the version database, which raises if it is torn;
\* DependencyManager (clean=True) takes the lock and removes the database of
\* the root, not the root.
Start ==
  /\ pc = "idle" /\ gibs < MaxGibs /\ ~torn
  /\ gibs' = gibs + 1 /\ seen' = db
  /\ pc' = "read" /\ todo' = Packages
  /\ UNCHANGED <<store, heads, sums, made, root, out, dbfile, kills>>

\* Mistake: the header is taken to be as new as the ball.
ReadBall ==
  /\ pc = "read"
  /\ \E p \in todo : /\ heads' = [heads EXCEPT ![p] = ball[p]]
                     /\ todo' = todo \ {p}
  /\ UNCHANGED <<store, pc, sums, made, seen, root, out, dbfile, kills, gibs>>

\* read_package_headers, one file after the other.
ReadHeader ==
  /\ pc = "read"
  /\ \E p \in todo :
       /\ heads' = [heads EXCEPT ![p] = IF <<p, hdr[p]>> \in Accepted THEN hdr[p] ELSE 0]
       /\ todo' = todo \ {p}
  /\ UNCHANGED <<store, pc, sums, made, seen, root, out, dbfile, kills, gibs>>

\* What Main needs, in the headers that have been read; an unregistered
\* package needs nothing.
NeededBy(p) == IF heads[p] = 0 THEN {} ELSE Needs[p][heads[p]]
Closure == {p \in Packages : \A S \in SUBSET Packages :
              Main \in S /\ (\A q \in S : NeededBy(q) \subseteq S) => p \in S}

Resolve ==
  /\ pc = "read" /\ todo = {}
  /\ pc' = "sum" /\ todo' = Closure
  /\ UNCHANGED <<store, heads, sums, made, seen, root, out, dbfile, kills, gibs>>

\* calculate_checksum: the source checksum is in the header that was read, the
\* build checksum in a file that is read now.
ReadSum ==
  /\ pc = "sum"
  /\ \E p \in todo :
       IF heads[p] = 0 \/ sum[p] = 0
       THEN End
       ELSE /\ sums' = [sums EXCEPT ![p] = <<heads[p], sum[p]>>]
            /\ todo' = todo \ {p}
            /\ UNCHANGED <<pc, heads, made, seen>>
  /\ UNCHANGED <<store, root, out, dbfile, kills, gibs>>

\* ChecksumShortCircuit
Match ==
  /\ pc = "sum" /\ todo = {} /\ checksum = sums
  /\ End
  /\ UNCHANGED <<store, root, out, dbfile, kills, gibs>>

Differ ==
  /\ pc = "sum" /\ todo = {} /\ checksum # sums
  /\ pc' = "install" /\ todo' = Closure
  /\ UNCHANGED <<store, heads, sums, made, seen, root, out, dbfile, kills, gibs>>

\* Mistake: nothing looks for duplicates.
UnpackOver ==
  /\ pc = "install"
  /\ \E p \in todo :
       /\ ball[p] # Partial
       /\ made' = [made EXCEPT ![p] = ball[p]]
       /\ root' = [f \in Files |-> IF f \in Contents[p][ball[p]]
                                   THEN <<p, ball[p]>> ELSE root[f]]
       /\ todo' = todo \ {p}
  /\ UNCHANGED <<store, pc, heads, sums, seen, out, dbfile, kills, gibs>>

\* install_package: the names are in topological order, the ball is the one
\* that is there now, and files.db, empty at first, finds the duplicates.
OwnedAlready == UNION {Contents[q][made[q]] : q \in {q \in Packages : made[q] # 0}}
Unpack ==
  /\ pc = "install"
  /\ \E p \in todo :
       /\ \A q \in NeededBy(p) \cap todo : p = q \/ p \in NeededBy(q)
       /\ IF ball[p] = Partial \/ Contents[p][ball[p]] \cap OwnedAlready # {}
          THEN End /\ UNCHANGED root
          ELSE /\ made' = [made EXCEPT ![p] = ball[p]]
               /\ root' = [f \in Files |-> IF f \in Contents[p][ball[p]]
                                           THEN <<p, ball[p]>> ELSE root[f]]
               /\ todo' = todo \ {p}
               /\ UNCHANGED <<pc, heads, sums, seen>>
  /\ UNCHANGED <<store, out, dbfile, kills, gibs>>

Built ==
  /\ pc = "install" /\ todo = {}
  /\ pc' = "strip"
  /\ UNCHANGED <<store, todo, heads, sums, made, seen, root, out, dbfile, kills, gibs>>

Strip ==
  /\ pc = "strip"
  /\ root' = [f \in Files |-> IF f \in Stripped THEN NoFile ELSE root[f]]
  /\ pc' = "create"
  /\ UNCHANGED <<store, todo, heads, sums, made, seen, out, dbfile, kills, gibs>>

\* The name of what is created: installer_version and installer_build.
BuildNumber(upstream) == NextBuildNumber(seen, StringToVersion(upstream))
Name == LET v == UpstreamOf[heads[Main]] IN <<v, BuildNumber(v)>>

\* What the name of the installer stands for, from Create on.
Put(contents, next) ==
  /\ uploads' = [uploads EXCEPT ![Name] = contents]
  /\ pc' = next
  /\ UNCHANGED <<store, todo, heads, sums, made, seen, root, checksum, dbfile, kills, gibs>>

\* The platform is one of Systems; if there are several, an installer may be of the
\* class of any of them, which is more than one platform can do.
\* Linux_installer.create writes the tarball in place; Shar.create writes the head
\* of the script and then appends a tarball of the root.
Create       == pc = "create" /\ {"Shar", "Linux_installer"} \cap Classes # {} /\ Put(Partial, "write")
\* DarwinBundle.create first removes its former work, and makes the application.
RemoveBundle == pc = "create" /\ "DarwinBundle" \in Classes /\ Put(NoFile, "bundle")
CreateBundle == pc = "bundle" /\ Put(Partial, "write")
\* Nsis.create has setup.exe made elsewhere, and moves it.
MoveSetup    == pc = "create" /\ "Nsis" \in Classes /\ Put(root, "seal")
Written      == pc = "write" /\ Put(root, "seal")

\* Mistake: the checksum is of what is there at the end.
WriteNewChecksum ==
  /\ pc = "seal"
  /\ checksum' = [p \in Packages |-> IF sums[p] = NoSum \/ sum[p] = 0 THEN sums[p]
                                   ELSE <<hdr[p], sum[p]>>]
  /\ End
  /\ UNCHANGED <<store, root, uploads, dbfile, kills, gibs>>

WriteChecksum ==
  /\ pc = "seal"
  /\ checksum' = sums
  /\ End
  /\ UNCHANGED <<store, root, uploads, dbfile, kills, gibs>>

GibKilled ==
  /\ pc # "idle" /\ kills < MaxKills
  /\ kills' = kills + 1
  /\ End
  /\ UNCHANGED <<store, root, out, dbfile, gibs>>

InstallerNext ==
  \/ \E p \in Packages, v \in Versions : Package(p, v)
  \/ GubStep \/ GubKilled
  \/ Start \/ ReadHeader \/ Resolve \/ ReadSum \/ Match \/ Differ
  \/ Unpack \/ Built \/ Strip \/ Create \/ RemoveBundle \/ CreateBundle
  \/ MoveSetup \/ Written \/ WriteChecksum \/ GibKilled

=============================================================================
