------------------------------ MODULE Sources ------------------------------
(***************************************************************************)
(* From upstream to a package: the repositories in downloads/              *)
(* (gub/repository.py, download_url of gub/misc.py), which runs on several *)
(* platforms share without a lock, and the version each run says it packed.*)
(*                                                                         *)
(* A run expands source_checksum once, and builds much later whatever      *)
(* downloads/ has by then.  What it recorded decides whether the next run  *)
(* builds again; the commands of the build are module BuildRunner.         *)
(***************************************************************************)
EXTENDS Integers, FiniteSets, Sequences

CONSTANTS
  Runs,       \* processes, each on a platform of its own
  Kinds,      \* of sources to have, some of AllKinds
  Sites,      \* where download_url looks for a file, in order: local directories,
              \* caches, the original url, fallbacks
  Scheme,     \* site -> how its url begins
  Original,   \* the site of the original url
  Balls,      \* the sites that name a ball and no directory
  Chunks,     \* reads that a tarball takes
  Inodes,     \* files, numbered
  None,       \* nothing there
  Invalid,    \* the checksum of a branch that could not be downloaded
  Partial,    \* a work tree that is not a whole version
  OptionSets, \* run -> its command lines, records of fresh and offline
  MaxCommits, \* bound: upstream versions
  MaxFaults   \* bound: killed runs, network errors, cut or empty answers

\* git at the head of a branch or at a revision, Subversion at HEAD or pinned to
\* a revision.
AllKinds == {"tarball", "branch", "revision", "checkout", "pinned"}
Versions == 0..MaxCommits
Constant == 0 \* the version of a tarball, a revision, and `HEAD' of Subversion
Labels   == Versions \cup {None, Invalid}
Done     == {"nothing", "untar", "package"}

ASSUME KindsAssumption  == Kinds \subseteq AllKinds
ASSUME SitesAssumption  == \A i \in DOMAIN Sites : Sites[i] \in DOMAIN Scheme
ASSUME BoundsAssumption == /\ MaxCommits \in Nat /\ MaxFaults \in Nat
                           /\ Chunks \in Nat \ {0} /\ Inodes \subseteq Nat
ASSUME OptionsAssumption ==
  OptionSets \in [Runs -> SUBSET [fresh : BOOLEAN, offline : BOOLEAN]]
ASSUME ValuesAssumption ==
  /\ {None, Invalid, Partial} \cap (Versions \cup Inodes) = {}
  /\ None # Invalid /\ Invalid # Partial /\ Partial # None

\* One file each, and one under the tarball's name.
ASSUME InodesAssumption == /\ IsFiniteSet(Runs) /\ IsFiniteSet(Inodes)
                           /\ Cardinality(Inodes) > Cardinality(Runs)

VARIABLES
  source,   \* the kind of source; each has its own directory in downloads/
  upstream, \* its latest version
  client,   \* is git or svn installed in the tools root?
  repo,     \* the repository or checkout: is it there, and whole, its version
  final,    \* the file under the tarball's name
  data,     \* file -> the chunks on disk
  cut,      \* has a fault left it incomplete under that name?
  work,     \* run -> the version in its work tree
  ball,     \* run -> the version packed
  hdr,      \* run -> the source_checksum in the header
  stamp,    \* run -> checksum -> the last stage done, by the stamp file
  pc,       \* run -> where it is
  options,  \* run -> its command line
  back,     \* run -> where it goes on after a download
  memo,     \* run -> source_checksum, once it is expanded
  cached,   \* run -> Git.checksums
  out,      \* run -> its .partial-download file
  got,      \* run -> chunks read
  seen,     \* history: run -> the upstream version when it began
  faults    \* counter for the bound

shared == <<source, upstream, client, repo, final, data, cut>>
built  == <<work, ball, hdr, stamp>>
memory == <<options, back, memo, cached, out, got, seen>>
vars   == <<shared, built, pc, memory, faults>>

NoRepo == [made |-> FALSE, whole |-> FALSE, head |-> None]

TypeOK ==
  /\ source \in Kinds /\ upstream \in Versions /\ client \in BOOLEAN
  /\ repo \in [made : BOOLEAN, whole : BOOLEAN, head : Versions \cup {None}]
  /\ final \in Inodes \cup {None}
  /\ data \in [Inodes -> SUBSET (1..Chunks)] /\ cut \in BOOLEAN
  /\ work \in [Runs -> Versions \cup {None, Partial}]
  /\ ball \in [Runs -> Versions \cup {None, Partial}]
  /\ hdr \in [Runs -> Labels]
  /\ stamp \in [Runs -> [Labels -> Done]]
  /\ pc \in [Runs -> {"idle", "expand", "manager", "fetch", "clone", "read",
                      "flush", "unpack", "checkout", "unpacked", "pack", "header",
                      "packed", "clean", "refuse"}]
  /\ options \in [Runs -> [fresh : BOOLEAN, offline : BOOLEAN]]
  /\ back \in [Runs -> {"expand", "manager", "unpack", "clean", "refuse"}]
  /\ memo \in [Runs -> Labels] /\ cached \in [Runs -> Labels]
  /\ out \in [Runs -> Inodes \cup {None}] /\ got \in [Runs -> 0..Chunks]
  /\ seen \in [Runs -> Versions]
  /\ faults \in 0..MaxFaults

IsGit        == source \in {"branch", "revision"}
IsSubversion == source \in {"checkout", "pinned"}
IsTracking   == source \in {"branch", "checkout"}
UsesClient   == IsGit \/ IsSubversion

NoOptions == [fresh |-> FALSE, offline |-> FALSE]

Init ==
  /\ source \in Kinds /\ client \in (IF UsesClient THEN BOOLEAN ELSE {TRUE})
  /\ upstream = 0 /\ repo = NoRepo
  /\ final = None /\ data = [i \in Inodes |-> {}] /\ cut = FALSE
  /\ work = [p \in Runs |-> None] /\ ball = [p \in Runs |-> None]
  /\ hdr = [p \in Runs |-> None]
  /\ stamp = [p \in Runs |-> [l \in Labels |-> "nothing"]]
  /\ pc = [p \in Runs |-> "idle"]
  /\ options = [p \in Runs |-> NoOptions]
  /\ back = [p \in Runs |-> "manager"]
  /\ memo = [p \in Runs |-> None] /\ cached = [p \in Runs |-> None]
  /\ out = [p \in Runs |-> None] /\ got = [p \in Runs |-> 0]
  /\ seen = [p \in Runs |-> 0]
  /\ faults = 0

-----------------------------------------------------------------------------
(* A run on one source *)

\* The file, the branch or the revision, or the directory .svn.
IsDownloaded == \/ source = "tarball" /\ final # None
                \/ IsGit /\ repo.head # None
                \/ IsSubversion /\ repo.made

Goto(p, where) == pc' = [pc EXCEPT ![p] = where]
EndRun(p) ==
  /\ Goto(p, "idle")
  /\ options' = [options EXCEPT ![p] = NoOptions]
  /\ back' = [back EXCEPT ![p] = "manager"]
  /\ memo' = [memo EXCEPT ![p] = None] /\ cached' = [cached EXCEPT ![p] = None]
  /\ out' = [out EXCEPT ![p] = None] /\ got' = [got EXCEPT ![p] = 0]
  /\ seen' = [seen EXCEPT ![p] = 0]

\* --fresh asks for the name of the stamp file, and Build.download announces a
\* download: either expands source_checksum before anything is fetched.
Begin(p, o) ==
  /\ pc[p] = "idle"
  /\ options' = [options EXCEPT ![p] = o]
  /\ seen' = [seen EXCEPT ![p] = upstream]
  /\ Goto(p, IF o.fresh \/ (~o.offline /\ ~IsDownloaded) THEN "expand"
             ELSE IF o.offline THEN "manager" ELSE "fetch")
  /\ UNCHANGED <<shared, built, back, memo, cached, out, got, faults>>

\* Repository.checksum.  Git keeps what it found until it downloads again.
GitChecksum(p) == CASE cached[p] # None -> cached[p]
                    [] cached[p] = None /\ IsDownloaded -> repo.head
                    [] cached[p] = None /\ ~IsDownloaded -> Invalid
Checksum(p) == IF source = "branch" THEN GitChecksum(p) ELSE Constant
Cached(p) ==
  cached' = [cached EXCEPT ![p] =
    IF source = "branch" /\ Checksum(p) # Invalid THEN Checksum(p) ELSE @]

\* Git.checksum downloads first, offline or not.
AsksChecksum(p) == \/ pc[p] \in {"expand", "manager"} /\ memo[p] = None
                   \/ pc[p] = "unpack" /\ cached[p] = None
NeedsFetch(p)   == /\ AsksChecksum(p) /\ source = "branch" /\ client
                   /\ ~IsDownloaded
FetchForChecksum(p) ==
  /\ NeedsFetch(p)
  /\ Goto(p, "fetch") /\ back' = [back EXCEPT ![p] = pc[p]]
  /\ UNCHANGED <<shared, built, options, memo, cached, out, got, seen, faults>>

\* --fresh removes the stamp file of that name, and that is all it does.
Stamp(p, l, stage) == stamp' = [stamp EXCEPT ![p][l] = stage]
Expand(p) ==
  /\ pc[p] = "expand" /\ ~NeedsFetch(p)
  /\ memo' = [memo EXCEPT ![p] = Checksum(p)] /\ Cached(p)
  /\ IF options[p].fresh THEN Stamp(p, Checksum(p), "nothing") ELSE UNCHANGED stamp
  /\ options' = [options EXCEPT ![p].fresh = FALSE]
  /\ Goto(p, IF options[p].offline THEN "manager" ELSE "fetch")
  /\ UNCHANGED <<shared, work, ball, hdr, back, out, got, seen, faults>>

\* The packages are registered, the checksums compared.  There may be other
\* reasons to build than the source.
Memo(p) == IF memo[p] = None THEN Checksum(p) ELSE memo[p]
ChecksumOk(p) ==
  /\ pc[p] = "manager" /\ ~NeedsFetch(p)
  /\ hdr[p] = Memo(p)
  /\ EndRun(p)
  /\ UNCHANGED <<shared, built, faults>>
\* The download is never skipped; what the stamp file says is done is, and
\* then nothing is packed.
FirstStage(p) == CASE stamp[p][Memo(p)] = "nothing" -> "unpack"
                   [] stamp[p][Memo(p)] = "untar"   -> "refuse"
                   [] stamp[p][Memo(p)] = "package" -> "clean"
MustRebuild(p) ==
  /\ pc[p] = "manager" /\ ~NeedsFetch(p)
  /\ memo' = [memo EXCEPT ![p] = Memo(p)]
  /\ IF memo[p] = None THEN Cached(p) ELSE UNCHANGED cached
  /\ IF options[p].offline
     THEN Goto(p, FirstStage(p)) /\ UNCHANGED back
     ELSE Goto(p, "fetch") /\ back' = [back EXCEPT ![p] = FirstStage(p)]
  /\ UNCHANGED <<shared, built, options, out, got, seen, faults>>

-----------------------------------------------------------------------------
(* Repository.download *)

Return(p) == Goto(p, back[p]) /\ back' = [back EXCEPT ![p] = "manager"]

\* A tarball or a revision that is there, a Subversion checkout, which finds
\* itself at its own revision, and whatever needs a client that is not there.
NothingToFetch(p) ==
  /\ pc[p] = "fetch"
  /\ \/ UsesClient /\ ~client
     \/ source # "branch" /\ IsDownloaded
  /\ Return(p)
  /\ UNCHANGED <<shared, built, options, memo, cached, out, got, seen, faults>>

\* git clone and svn checkout first make the directory by which the next
\* download sees that it has been done.
Clone(p) ==
  /\ pc[p] = "fetch" /\ UsesClient /\ client /\ ~repo.made
  /\ repo' = [repo EXCEPT !.made = TRUE]
  /\ Goto(p, "clone")
  /\ UNCHANGED <<source, upstream, client, final, data, cut, built, memory, faults>>

CheckedOut == IF IsTracking THEN upstream ELSE Constant \* svn co -r
Cloned(p) ==
  /\ pc[p] = "clone"
  /\ repo' = [repo EXCEPT !.whole = TRUE,
                          !.head = IF IsSubversion THEN CheckedOut ELSE @]
  /\ IF IsSubversion THEN Return(p) ELSE Goto(p, "fetch") /\ UNCHANGED back
  /\ UNCHANGED <<source, upstream, client, final, data, cut, built, options,
                 memo, cached, out, got, seen, faults>>

\* Mistake: a branch that is there is not fetched.
FetchOnce(p) ==
  /\ pc[p] = "fetch" /\ IsGit /\ client /\ repo.made
  /\ repo' = IF IsDownloaded THEN repo ELSE [repo EXCEPT !.head = upstream]
  /\ cached' = [cached EXCEPT ![p] = None]
  /\ Return(p)
  /\ UNCHANGED <<source, upstream, client, final, data, cut, built, options,
                 memo, out, got, seen, faults>>

Fetch(p) ==
  /\ pc[p] = "fetch" /\ client /\ repo.made
  /\ source = "branch" \/ (source = "revision" /\ ~IsDownloaded)
  /\ repo' = [repo EXCEPT !.head = upstream]
  /\ cached' = [cached EXCEPT ![p] = None]
  /\ Return(p)
  /\ UNCHANGED <<source, upstream, client, final, data, cut, built, options,
                 memo, out, got, seen, faults>>

\* rewrite_url finds the file in a directory; other balls than the original are
\* no candidates.
CandidateUrls == SelectSeq(Sites, LAMBDA s : s = Original \/ s \notin Balls)

\* A site that is down is passed over, unless its url is of a kind whose errors
\* _download_url does not catch: an https site hides all that come after it.
PassedOver(s) == Scheme[s] \in {"file", "ftp", "http"}
Answered(down) ==
  \E i \in DOMAIN CandidateUrls :
    /\ CandidateUrls[i] \notin down
    /\ \A j \in 1..(i - 1) : CandidateUrls[j] \in down /\ PassedOver(CandidateUrls[j])

Connect(p) ==
  /\ pc[p] = "fetch" /\ source = "tarball" /\ ~IsDownloaded
  /\ \E down \in SUBSET DOMAIN Scheme : Answered(down)
  /\ Goto(p, "read")
  /\ UNCHANGED <<shared, built, memory, faults>>

\* `Download failed', or the error of a site that is not passed over.
NoMirror(p) ==
  /\ pc[p] = "fetch" /\ source = "tarball" /\ ~IsDownloaded
  /\ \E down \in SUBSET DOMAIN Scheme : ~Answered(down)
  /\ faults < MaxFaults /\ faults' = faults + 1
  /\ EndRun(p)
  /\ UNCHANGED <<shared, built>>

\* The answer is empty: the file to unlink was never opened, the exception is
\* not caught, and no other mirror is tried.
EmptyAnswer(p) ==
  /\ pc[p] = "read" /\ got[p] = 0
  /\ faults < MaxFaults /\ faults' = faults + 1
  /\ EndRun(p)
  /\ UNCHANGED <<shared, built>>

\* Mistake: .partial-download without the process number, so that a second
\* download truncates and writes the file of the first.
SharedFile(p) ==
  IF \E q \in Runs \ {p} : out[q] # None
  THEN out[CHOOSE q \in Runs \ {p} : out[q] # None]
  ELSE CHOOSE i \in Inodes : /\ final # i
                             /\ \A q \in Runs : out[q] # i

\* A new file, named after the process.
PartialFile(p) ==
  CHOOSE i \in Inodes : /\ final # i
                        /\ \A q \in Runs : out[q] # i

\* The chunk just read may stay in the buffer; the one before is on disk.
Read(p) ==
  /\ pc[p] = "read" /\ got[p] < Chunks
  /\ got' = [got EXCEPT ![p] = @ + 1]
  /\ IF out[p] = None
     THEN /\ out' = [out EXCEPT ![p] = PartialFile(p)]
          /\ data' = [data EXCEPT ![PartialFile(p)] = {}]
     ELSE /\ data' = [data EXCEPT ![out[p]] = @ \cup {got[p]}]
          /\ UNCHANGED out
  /\ UNCHANGED <<source, upstream, client, repo, final, cut, built, pc, options,
                 back, memo, cached, seen, faults>>

\* An empty read ends the file.  It also ends a cut connection.
EndOfFile(p) ==
  /\ pc[p] = "read" /\ got[p] > 0
  /\ \/ got[p] = Chunks /\ cut' = FALSE /\ UNCHANGED faults
     \/ /\ got[p] < Chunks /\ faults < MaxFaults
        /\ cut' = TRUE /\ faults' = faults + 1
  /\ final' = out[p]
  /\ Goto(p, "flush")
  /\ UNCHANGED <<source, upstream, client, repo, data, built, memory>>

\* _download_url returns, and its file is closed.
Flush(p) ==
  /\ pc[p] = "flush"
  /\ data' = [data EXCEPT ![out[p]] = @ \cup {got[p]}]
  /\ out' = [out EXCEPT ![p] = None] /\ got' = [got EXCEPT ![p] = 0]
  /\ Return(p)
  /\ UNCHANGED <<source, upstream, client, repo, final, cut, built, options,
                 memo, cached, seen, faults>>

-----------------------------------------------------------------------------
(* Repository.update_workdir, and the package *)

Whole == final # None /\ data[final] = 1..Chunks
Unpacked(p, v) == work' = [work EXCEPT ![p] = v]

\* The old directory is gone before tar finds out whether the file is whole.
UnpackTarball(p) ==
  /\ pc[p] = "unpack" /\ source = "tarball"
  /\ IF Whole THEN Unpacked(p, 0) /\ Goto(p, "unpacked") /\ UNCHANGED memory
              ELSE Unpacked(p, None) /\ EndRun(p)
  /\ UNCHANGED <<shared, ball, hdr, stamp, faults>>

\* rsync from the checkout, if there is one, without a lock.  The work tree of a
\* source that does not track is removed first.
Copied == IF repo.whole THEN repo.head ELSE Partial
CopyCheckout(p) ==
  /\ pc[p] = "unpack" /\ IsSubversion
  /\ IF repo.made
     THEN Unpacked(p, Copied) /\ Goto(p, "unpacked") /\ UNCHANGED memory
     ELSE Unpacked(p, IF IsTracking THEN work[p] ELSE None) /\ EndRun(p)
  /\ UNCHANGED <<shared, ball, hdr, stamp, faults>>

\* git clone from the shared repository into a new work tree, which is useless if
\* the revision is not there.
CloneWorkdir(p) ==
  /\ pc[p] = "unpack" /\ source = "revision"
  /\ IF IsDownloaded
     THEN Unpacked(p, Constant) /\ Goto(p, "unpacked") /\ UNCHANGED memory
     ELSE Unpacked(p, IF repo.made THEN Partial ELSE None) /\ EndRun(p)
  /\ UNCHANGED <<shared, ball, hdr, stamp, faults>>

NoBranch(p) ==
  /\ pc[p] = "unpack" /\ source = "branch" /\ ~NeedsFetch(p)
  /\ Checksum(p) = Invalid
  /\ EndRun(p)
  /\ UNCHANGED <<shared, built, faults>>

\* Mistake: a work tree that could not be initialised is removed.
RemoveWorkdir(p) ==
  /\ pc[p] = "unpack" /\ source = "branch" /\ Checksum(p) # Invalid
  /\ work[p] = None
  /\ IF repo.whole
     THEN Unpacked(p, Partial) /\ Cached(p) /\ Goto(p, "checkout")
          /\ UNCHANGED <<options, back, memo, out, got, seen>>
     ELSE UNCHANGED work /\ EndRun(p)
  /\ UNCHANGED <<shared, ball, hdr, stamp, faults>>

\* git init, then a copy of packed-refs, which only a finished clone has.
InitWorkdir(p) ==
  /\ pc[p] = "unpack" /\ source = "branch" /\ Checksum(p) # Invalid
  /\ work[p] = None
  /\ Unpacked(p, Partial)
  /\ IF repo.whole
     THEN Cached(p) /\ Goto(p, "checkout")
          /\ UNCHANGED <<options, back, memo, out, got, seen>>
     ELSE EndRun(p)
  /\ UNCHANGED <<shared, ball, hdr, stamp, faults>>

UpdateWorkdir(p) ==
  /\ pc[p] = "unpack" /\ source = "branch" /\ Checksum(p) # Invalid
  /\ work[p] # None
  /\ Cached(p) /\ Goto(p, "checkout")
  /\ UNCHANGED <<shared, built, options, back, memo, out, got, seen, faults>>

Checkout(p) ==
  /\ pc[p] = "checkout"
  /\ Unpacked(p, cached[p]) /\ Goto(p, "unpacked")
  /\ UNCHANGED <<shared, ball, hdr, stamp, memory, faults>>

SetDone(p) ==
  /\ pc[p] \in {"unpacked", "packed"}
  /\ Stamp(p, memo[p], IF pc[p] = "unpacked" THEN "untar" ELSE "package")
  /\ Goto(p, IF pc[p] = "unpacked" THEN "pack" ELSE "clean")
  /\ UNCHANGED <<shared, work, ball, hdr, memory, faults>>

CreateTarball(p) ==
  /\ pc[p] = "pack"
  /\ ball' = [ball EXCEPT ![p] = work[p]]
  /\ Goto(p, "header")
  /\ seen' = [seen EXCEPT ![p] = 0]
  /\ UNCHANGED <<shared, work, hdr, stamp, options, back, memo, cached, out, got,
                 faults>>

\* Mistake: the header has the checksum of the moment.
DumpNow(p) ==
  /\ pc[p] = "header"
  /\ hdr' = [hdr EXCEPT ![p] = IF source = "branch" THEN repo.head ELSE memo[p]]
  /\ Goto(p, "packed")
  /\ UNCHANGED <<shared, work, ball, stamp, memory, faults>>

\* Mistake: the header has the version packed.
DumpPacked(p) ==
  /\ pc[p] = "header"
  /\ hdr' = [hdr EXCEPT ![p] = ball[p]]
  /\ Goto(p, "packed")
  /\ UNCHANGED <<shared, work, ball, stamp, memory, faults>>

DumpHeader(p) ==
  /\ pc[p] = "header"
  /\ hdr' = [hdr EXCEPT ![p] = memo[p]]
  /\ Goto(p, "packed")
  /\ UNCHANGED <<shared, work, ball, stamp, memory, faults>>

\* Nothing of a source that tracks is removed but the stamp file; of others, the
\* tree too.
Clean(p) ==
  /\ pc[p] = "clean"
  /\ Stamp(p, memo[p], "nothing")
  /\ IF IsTracking THEN UNCHANGED work ELSE Unpacked(p, None)
  /\ EndRun(p)
  /\ UNCHANGED <<shared, ball, hdr, faults>>

\* The build goes on from where it was, and stops at `false'.
Refuse(p) ==
  /\ pc[p] = "refuse"
  /\ EndRun(p)
  /\ UNCHANGED <<shared, built, faults>>

-----------------------------------------------------------------------------
(* Faults, and what others do *)

\* The process is killed, or the network fails it: no exception is handled.
Die(p) ==
  /\ pc[p] # "idle" /\ faults < MaxFaults
  /\ EndRun(p)
  /\ faults' = faults + 1
  /\ cut' = (cut \/ (pc[p] = "flush" /\ final = out[p]))
  /\ UNCHANGED <<source, upstream, client, repo, final, data, built>>

\* A git clone that fails, and is not killed, removes what it made.
FailClone(p) ==
  /\ pc[p] = "clone" /\ IsGit /\ faults < MaxFaults
  /\ repo' = NoRepo
  /\ EndRun(p)
  /\ faults' = faults + 1
  /\ UNCHANGED <<source, upstream, client, final, data, cut, built>>

Commit ==
  /\ upstream < MaxCommits
  /\ upstream' = upstream + 1
  /\ UNCHANGED <<source, client, repo, final, data, cut, built, pc, memory, faults>>

\* The client is a build like any other.
InstallClient ==
  /\ ~client
  /\ client' = TRUE
  /\ UNCHANGED <<source, upstream, repo, final, data, cut, built, pc, memory, faults>>

Step(p) ==
  \/ FetchForChecksum(p) \/ Expand(p) \/ ChecksumOk(p) \/ MustRebuild(p)
  \/ NothingToFetch(p) \/ Clone(p) \/ Cloned(p) \/ Fetch(p)
  \/ Connect(p) \/ Read(p) \/ EndOfFile(p) \/ Flush(p)
  \/ UnpackTarball(p) \/ CopyCheckout(p) \/ CloneWorkdir(p)
  \/ NoBranch(p) \/ InitWorkdir(p) \/ UpdateWorkdir(p) \/ Checkout(p)
  \/ SetDone(p) \/ CreateTarball(p)
  \/ DumpHeader(p) \/ Clean(p) \/ Refuse(p)

Next ==
  \/ \E p \in Runs : \/ Step(p) \/ Die(p) \/ FailClone(p)
                     \/ NoMirror(p) \/ EmptyAnswer(p)
                     \/ \E o \in OptionSets[p] : Begin(p, o)
  \/ Commit \/ InstallClient

Spec == Init /\ [][Next]_vars

\* Processes are scheduled, clients get built, and every platform is built again
\* and again with --fresh and without --offline.
Fairness ==
  /\ \A p \in Runs : WF_vars(Step(p))
  /\ \A p \in Runs : SF_vars(Begin(p, [NoOptions EXCEPT !.fresh = TRUE]))
  /\ WF_vars(InstallClient)
FairSpec == Spec /\ Fairness

-----------------------------------------------------------------------------
(* Properties *)

\* However many downloads of it run at once, a tarball under its own name is
\* whole: except in the moment before its process closes it, and after a fault
\* has cut the connection or has hit that moment.
WholeTarballs ==
  \/ final = None \/ Whole \/ cut
  \/ \E p \in Runs : pc[p] = "flush" /\ out[p] = final

\* A run may pack a newer version than the one it expanded, and a fetch for
\* another platform may come in between.  But a header of a branch that agrees with
\* downloads/, and so prevents a build, is beside a package of that version; and
\* the header of a revision, which never changes, is beside a package of the
\* revision, although the clone it comes from is unlocked and may be half made.
HonestHeader ==
  \A p \in Runs : hdr[p] # None =>
    /\ source = "branch" /\ hdr[p] = repo.head => ball[p] = repo.head
    /\ source = "revision" => ball[p] = Constant

\* Repository.is_tracking: `download will fetch newer versions if available', so
\* that a run packs at least the version that was upstream when it began.
TrackBranches ==
  source = "branch" => \A p \in Runs :
    pc[p] = "pack" /\ ~options[p].offline => work[p] >= seen[p]

\* Although headers lag behind, rebuilding from git comes to an end once the
\* branch stands still, also after an interrupted clone: in the end every
\* platform has a package of the last version, or of the revision, and a header
\* that says so.
Settles ==
  IsGit =>
    <>[](\A p \in Runs : IF IsTracking THEN hdr[p] = upstream /\ ball[p] = upstream
                         ELSE hdr[p] = Constant /\ ball[p] = Constant)

=============================================================================
