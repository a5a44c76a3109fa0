---------------------------- MODULE SourcesProofs ----------------------------
(* Theorems about Sources, for every number of runs, chunks and versions.     *)
EXTENDS Sources, FiniteSetTheorems, TLAPS

-----------------------------------------------------------------------------
(* The operators                                                             *)

LEMMA Values ==
  /\ Versions \subseteq Nat /\ 0 \in Versions /\ Constant \in Versions
  /\ None \notin Versions /\ Invalid \notin Versions /\ Partial \notin Versions
  /\ None # Invalid /\ Invalid # Partial /\ Partial # None
  /\ None \notin Inodes
BY ValuesAssumption, BoundsAssumption DEF Versions, Constant

LEMMA OneMore ==
  ASSUME NEW S, NEW x, IsFiniteSet(S)
  PROVE  IsFiniteSet(S \cup {x}) /\ Cardinality(S \cup {x}) <= Cardinality(S) + 1
<1>1. Cardinality(S) \in Nat
  BY FS_CardinalityType
<1>2. IsFiniteSet(S \cup {x}) /\ Cardinality(S \cup {x}) =
        IF x \in S THEN Cardinality(S) ELSE Cardinality(S) + 1
  BY FS_AddElement
<1>3. QED
  BY <1>1, <1>2

\* There is a file for everyone.
LEMMA FreeInode ==
  ASSUME out \in [Runs -> Inodes \cup {None}], NEW p \in Runs, out[p] = None
  PROVE  /\ PartialFile(p) \in Inodes /\ PartialFile(p) # final
         /\ \A q \in Runs : out[q] # PartialFile(p)
<1> DEFINE Others == Runs \ {p}
           Used   == {out[q] : q \in Others} \cup {final}
<1>1. IsFiniteSet(Others) /\ Cardinality(Others) = Cardinality(Runs) - 1
  BY InodesAssumption, FS_RemoveElement
<1>2. IsFiniteSet({out[q] : q \in Others}) /\ Cardinality({out[q] : q \in Others}) <= Cardinality(Others)
  <2>1. [q \in Others |-> out[q]] \in Surjection(Others, {out[q] : q \in Others})
    BY DEF Surjection
  <2>2. QED
    BY <1>1, <2>1, FS_Surjection
<1>3. IsFiniteSet(Used) /\ Cardinality(Used) <= Cardinality(Runs)
  <2>1. Cardinality({out[q] : q \in Others}) \in Nat /\ Cardinality(Runs) \in Nat
    BY <1>2, InodesAssumption, FS_CardinalityType
  <2>2. /\ IsFiniteSet(Used)
        /\ Cardinality(Used) <= Cardinality({out[q] : q \in Others}) + 1
    BY <1>2, OneMore
  <2>3. Cardinality(Used) \in Nat
    BY <2>2, FS_CardinalityType
  <2> HIDE DEF Used
  <2>4. QED
    BY <1>1, <1>2, <2>1, <2>2, <2>3
<1>4. \E i \in Inodes : i \notin Used
  <2> HIDE DEF Used
  <2> SUFFICES ASSUME Inodes \subseteq Used PROVE FALSE
    OBVIOUS
  <2>1. Cardinality(Inodes) <= Cardinality(Used)
    BY <1>3, FS_Subset
  <2>2. Cardinality(Inodes) \in Nat /\ Cardinality(Used) \in Nat /\ Cardinality(Runs) \in Nat
    BY <1>3, InodesAssumption, FS_CardinalityType
  <2>3. QED
    BY <1>3, <2>1, <2>2, InodesAssumption
<1>5. \E i \in Inodes : final # i /\ \A q \in Runs : out[q] # i
  <2>1. PICK i \in Inodes : i \notin Used
    BY <1>4
  <2>2. \A q \in Runs : out[q] # i
    BY <2>1, Values
  <2>3. QED
    BY <2>1, <2>2
<1>6. QED
  BY <1>5 DEF PartialFile

LEMMA ChecksumType ==
  ASSUME TypeOK, NEW p \in Runs
  PROVE  Checksum(p) \in Labels /\ Memo(p) \in Labels /\ FirstStage(p) \in {"unpack", "refuse", "clean"}
<1>1. Checksum(p) \in Labels
  BY Values DEF TypeOK, Checksum, GitChecksum, Labels
<1>2. Memo(p) \in Labels
  BY <1>1 DEF Memo, TypeOK
<1>3. stamp[p][Memo(p)] \in Done
  BY <1>2 DEF TypeOK
<1>4. QED
  BY <1>1, <1>2, <1>3 DEF FirstStage, Done

-----------------------------------------------------------------------------
(* Types                                                                     *)

\* A partial file is of one run, has what it has read but the last chunk, and is
\* not under the tarball's name while it is read.
DownloadInv ==
  \A p \in Runs :
    /\ pc[p] \in {"read", "flush"} \/ got[p] = 0
    /\ out[p] = None <=> got[p] = 0
    /\ pc[p] = "flush" => got[p] > 0
    /\ out[p] # None => data[out[p]] = 1..(got[p] - 1)
    /\ pc[p] = "read" /\ out[p] # None => out[p] # final
    /\ \A q \in Runs : out[p] = out[q] /\ out[p] # None => p = q

\* Git keeps no checksum that it has not.
CachedInv == \A p \in Runs : cached[p] # Invalid

Places  == {"idle", "expand", "manager", "fetch", "clone", "read", "flush", "unpack",
            "checkout", "unpacked", "pack", "header", "packed", "clean", "refuse"}
Callers == {"expand", "manager", "unpack", "clean", "refuse"}

MemoryType ==
  /\ pc \in [Runs -> Places]
  /\ options \in [Runs -> [fresh : BOOLEAN, offline : BOOLEAN]]
  /\ back \in [Runs -> Callers]
  /\ memo \in [Runs -> Labels] /\ cached \in [Runs -> Labels]
  /\ out \in [Runs -> Inodes \cup {None}] /\ got \in [Runs -> 0..Chunks]
  /\ seen \in [Runs -> Versions]

LEMMA EndType ==
  ASSUME TypeOK, CachedInv, NEW p \in Runs, EndRun(p)
  PROVE  MemoryType' /\ CachedInv'
<1>1. None \in Labels /\ 0 \in 0..Chunks /\ NoOptions \in [fresh : BOOLEAN, offline : BOOLEAN]
  BY BoundsAssumption DEF Labels, NoOptions
<1>2. QED
  BY <1>1, Values DEF EndRun, Goto, TypeOK, MemoryType, Places, Callers, CachedInv

LEMMA CachedType ==
  ASSUME TypeOK, CachedInv, NEW p \in Runs, Cached(p)
  PROVE  cached' \in [Runs -> Labels] /\ CachedInv'
BY ChecksumType, Values DEF Cached, TypeOK, CachedInv

LEMMA MoreFaults ==
  ASSUME faults \in 0..MaxFaults, faults < MaxFaults, faults' = faults + 1
  PROVE  faults' \in 0..MaxFaults
BY BoundsAssumption

LEMMA TypeKept ==
  ASSUME TypeOK, CachedInv, DownloadInv, NEW p \in Runs
  PROVE  /\ Step(p) \/ Die(p) \/ FailClone(p) \/ NoMirror(p) \/ EmptyAnswer(p)
            => TypeOK' /\ CachedInv'
         /\ \A o \in OptionSets[p] : Begin(p, o) => TypeOK' /\ CachedInv'
<1> USE DEF shared, built, memory, Goto
<1>0. /\ Checksum(p) \in Labels /\ Memo(p) \in Labels
      /\ FirstStage(p) \in {"unpack", "refuse", "clean"}
  BY ChecksumType
<1>1. ASSUME FetchForChecksum(p) PROVE TypeOK' /\ CachedInv'
  BY <1>1, Values DEF FetchForChecksum, NeedsFetch, AsksChecksum, TypeOK, CachedInv, MemoryType, Places, Callers, Labels
<1>2. ASSUME Expand(p) PROVE TypeOK' /\ CachedInv'
  <2>1. stamp' \in [Runs -> [Labels -> Done]]
    <3>1. stamp' = stamp \/ stamp' = [stamp EXCEPT ![p][Checksum(p)] = "nothing"]
      BY <1>2 DEF Expand, Stamp
    <3>2. stamp \in [Runs -> [Labels -> Done]] /\ "nothing" \in Done
      BY DEF TypeOK, Done
    <3>3. QED
      BY <1>0, <3>1, <3>2
  <2>2. cached' \in [Runs -> Labels] /\ CachedInv'
    BY <1>2, CachedType DEF Expand
  <2>3. /\ pc' = [pc EXCEPT ![p] = IF options[p].offline THEN "manager" ELSE "fetch"]
        /\ memo' = [memo EXCEPT ![p] = Checksum(p)]
        /\ options' = [options EXCEPT ![p].fresh = FALSE]
        /\ UNCHANGED <<shared, work, ball, hdr, back, out, got, seen, faults>>
    BY <1>2 DEF Expand
  <2>4. QED
    BY <1>0, <2>1, <2>2, <2>3 DEF TypeOK
<1>3. ASSUME ChecksumOk(p) PROVE TypeOK' /\ CachedInv'
  BY <1>3, Values, EndType DEF ChecksumOk, TypeOK, CachedInv, MemoryType, Places, Callers, Labels
<1>4. ASSUME MustRebuild(p) PROVE TypeOK' /\ CachedInv'
  <2>1. cached' \in [Runs -> Labels] /\ CachedInv'
    BY <1>4, CachedType DEF MustRebuild, TypeOK, CachedInv
  <2>2. /\ memo' = [memo EXCEPT ![p] = Memo(p)]
        /\ UNCHANGED <<shared, built, options, out, got, seen, faults>>
        /\ \/ pc' = [pc EXCEPT ![p] = FirstStage(p)] /\ back' = back
           \/ pc' = [pc EXCEPT ![p] = "fetch"] /\ back' = [back EXCEPT ![p] = FirstStage(p)]
    BY <1>4 DEF MustRebuild
  <2>3. pc' \in [Runs -> Places] /\ back' \in [Runs -> Callers]
    <3>1. pc \in [Runs -> Places] /\ back \in [Runs -> Callers]
      BY DEF TypeOK, Places, Callers
    <3>2. FirstStage(p) \in Places /\ FirstStage(p) \in Callers /\ "fetch" \in Places
      BY <1>0 DEF Places, Callers
    <3>3. QED
      BY <2>2, <3>1, <3>2
  <2>4. memo' \in [Runs -> Labels]
    BY <1>0, <2>2 DEF TypeOK
  <2>5. QED
    BY <2>1, <2>2, <2>3, <2>4 DEF TypeOK, Places, Callers
<1>5. ASSUME NothingToFetch(p) PROVE TypeOK' /\ CachedInv'
  BY <1>5, Values DEF NothingToFetch, Return, TypeOK, CachedInv, MemoryType, Places, Callers, Labels
<1>6. ASSUME Clone(p) PROVE TypeOK' /\ CachedInv'
  BY <1>6, Values DEF Clone, TypeOK, CachedInv, MemoryType, Places, Callers, Labels
<1>7. ASSUME Cloned(p) PROVE TypeOK' /\ CachedInv'
  <2>1. repo' \in [made : BOOLEAN, whole : BOOLEAN, head : Versions \cup {None}]
    BY <1>7, Values DEF Cloned, CheckedOut, TypeOK
  <2>2. /\ \/ pc' = [pc EXCEPT ![p] = back[p]] /\ back' = [back EXCEPT ![p] = "manager"]
           \/ pc' = [pc EXCEPT ![p] = "fetch"] /\ back' = back
        /\ UNCHANGED <<source, upstream, client, final, data, cut, built, options,
                       memo, cached, out, got, seen, faults>>
    BY <1>7 DEF Cloned, Return
  <2>3. pc' \in [Runs -> Places] /\ back' \in [Runs -> Callers]
    BY <2>2 DEF TypeOK, Places, Callers
  <2>4. QED
    BY <2>1, <2>2, <2>3 DEF TypeOK, CachedInv, Places, Callers
<1>8. ASSUME Fetch(p) PROVE TypeOK' /\ CachedInv'
  BY <1>8, Values DEF Fetch, Return, TypeOK, CachedInv, MemoryType, Places, Callers, Labels
<1>9. ASSUME Connect(p) PROVE TypeOK' /\ CachedInv'
  BY <1>9, Values DEF Connect, TypeOK, CachedInv, MemoryType, Places, Callers, Labels
<1>10. ASSUME Read(p) PROVE TypeOK' /\ CachedInv'
  <2>1. got' \in [Runs -> 0..Chunks]
    BY <1>10, BoundsAssumption DEF Read, TypeOK
  <2>2. CASE out[p] = None
    <3>1. PartialFile(p) \in Inodes
      BY <2>2, FreeInode DEF TypeOK
    <3>2. /\ out' = [out EXCEPT ![p] = PartialFile(p)]
          /\ data' = [data EXCEPT ![PartialFile(p)] = {}]
          /\ UNCHANGED <<source, upstream, client, repo, final, cut, built, pc, options,
                         back, memo, cached, seen, faults>>
      BY <1>10, <2>2 DEF Read
    <3>3. QED
      BY <2>1, <3>1, <3>2 DEF TypeOK, CachedInv
  <2>3. CASE out[p] # None
    <3>1. got[p] \in 1..Chunks /\ out[p] \in Inodes
      BY <2>3, BoundsAssumption DEF TypeOK, DownloadInv
    <3>2. out' = out /\ data' = [data EXCEPT ![out[p]] = @ \cup {got[p]}]
      BY <1>10, <2>3 DEF Read
    <3>3. data \in [Inodes -> SUBSET (1..Chunks)]
      BY DEF TypeOK
    <3>4. data' \in [Inodes -> SUBSET (1..Chunks)]
      BY <3>1, <3>2, <3>3
    <3>5. UNCHANGED <<source, upstream, client, repo, final, cut, built, pc, options,
                      back, memo, cached, seen, faults>>
      BY <1>10 DEF Read
    <3>6. QED
      BY <2>1, <3>2, <3>4, <3>5 DEF TypeOK, CachedInv
  <2>4. QED
    BY <2>2, <2>3
<1>11. ASSUME EndOfFile(p) PROVE TypeOK' /\ CachedInv'
  <2>1. final' \in Inodes \cup {None}
    BY <1>11 DEF EndOfFile, TypeOK
  <2>2. cut' \in BOOLEAN /\ faults' \in 0..MaxFaults
    BY <1>11, MoreFaults DEF EndOfFile, TypeOK
  <2>3. QED
    BY <1>11, <2>1, <2>2 DEF EndOfFile, TypeOK, CachedInv
<1>12. ASSUME Flush(p) PROVE TypeOK' /\ CachedInv'
  <2>1. got[p] \in 1..Chunks /\ out[p] \in Inodes
    BY <1>12, BoundsAssumption DEF Flush, TypeOK, DownloadInv
  <2>2. data' \in [Inodes -> SUBSET (1..Chunks)] /\ got' \in [Runs -> 0..Chunks]
    <3>1. data' = [data EXCEPT ![out[p]] = @ \cup {got[p]}] /\ got' = [got EXCEPT ![p] = 0]
      BY <1>12 DEF Flush
    <3>2. data \in [Inodes -> SUBSET (1..Chunks)] /\ got \in [Runs -> 0..Chunks] /\ 0 \in 0..Chunks
      BY BoundsAssumption DEF TypeOK
    <3>3. QED
      BY <2>1, <3>1, <3>2
  <2>3. QED
    BY <1>12, <2>2 DEF Flush, Return, TypeOK, CachedInv
<1>13. ASSUME UnpackTarball(p) PROVE TypeOK' /\ CachedInv'
  <2>1. work' \in [Runs -> Versions \cup {None, Partial}]
    BY <1>13, Values DEF UnpackTarball, Unpacked, TypeOK
  <2>2. CASE Whole
    BY <1>13, <2>1, <2>2 DEF UnpackTarball, TypeOK, CachedInv
  <2>3. CASE ~Whole
    BY <1>13, <2>1, <2>3, EndType DEF UnpackTarball, TypeOK, MemoryType, Places, Callers
  <2>4. QED
    BY <2>2, <2>3
<1>14. ASSUME CopyCheckout(p) PROVE TypeOK' /\ CachedInv'
  <2>1. work' \in [Runs -> Versions \cup {None, Partial}]
    <3>1. Copied \in Versions \cup {None, Partial}
      BY Values DEF Copied, TypeOK
    <3>2. PICK v \in Versions \cup {None, Partial} : work' = [work EXCEPT ![p] = v]
      BY <1>14, <3>1 DEF CopyCheckout, Unpacked, TypeOK
    <3>3. QED
      BY <3>2 DEF TypeOK
  <2>2. CASE repo.made
    BY <1>14, <2>1, <2>2 DEF CopyCheckout, TypeOK, CachedInv
  <2>3. CASE ~repo.made
    BY <1>14, <2>1, <2>3, EndType DEF CopyCheckout, TypeOK, MemoryType, Places, Callers
  <2>4. QED
    BY <2>2, <2>3
<1>15. ASSUME NoBranch(p) PROVE TypeOK' /\ CachedInv'
  BY <1>15, Values, EndType, <1>0, CachedType DEF NoBranch, TypeOK, CachedInv, MemoryType, Places, Callers, Labels
<1>16. ASSUME InitWorkdir(p) PROVE TypeOK' /\ CachedInv'
  <2>1. work' \in [Runs -> Versions \cup {None, Partial}]
    BY <1>16, Values DEF InitWorkdir, Unpacked, TypeOK
  <2>2. CASE repo.whole
    BY <1>16, <2>1, <2>2, CachedType DEF InitWorkdir, TypeOK
  <2>3. CASE ~repo.whole
    BY <1>16, <2>1, <2>3, EndType DEF InitWorkdir, TypeOK, MemoryType, Places, Callers
  <2>4. QED
    BY <2>2, <2>3
<1>17. ASSUME UpdateWorkdir(p) PROVE TypeOK' /\ CachedInv'
  BY <1>17, Values, <1>0, CachedType DEF UpdateWorkdir, Cached, TypeOK, CachedInv, MemoryType, Places, Callers, Labels
<1>18. ASSUME Checkout(p) PROVE TypeOK' /\ CachedInv'
  BY <1>18, Values DEF Checkout, Unpacked, TypeOK, CachedInv, MemoryType, Places, Callers, Labels
<1>19. ASSUME SetDone(p) PROVE TypeOK' /\ CachedInv'
  BY <1>19, Values DEF SetDone, Stamp, Done, TypeOK, CachedInv, MemoryType, Places, Callers, Labels
<1>20. ASSUME CreateTarball(p) PROVE TypeOK' /\ CachedInv'
  BY <1>20, Values DEF CreateTarball, TypeOK, CachedInv, MemoryType, Places, Callers, Labels
<1>21. ASSUME DumpHeader(p) PROVE TypeOK' /\ CachedInv'
  BY <1>21, Values DEF DumpHeader, TypeOK, CachedInv, MemoryType, Places, Callers, Labels
<1>22. ASSUME Clean(p) PROVE TypeOK' /\ CachedInv'
  BY <1>22, Values, EndType DEF Clean, Stamp, Unpacked, Done, TypeOK, CachedInv, MemoryType, Places, Callers, Labels
<1>23. ASSUME Refuse(p) PROVE TypeOK' /\ CachedInv'
  BY <1>23, Values, EndType DEF Refuse, TypeOK, CachedInv, MemoryType, Places, Callers, Labels
<1>24. ASSUME Die(p) PROVE TypeOK' /\ CachedInv'
  BY <1>24, Values, EndType, MoreFaults DEF Die, TypeOK, CachedInv, MemoryType, Places, Callers, Labels
<1>25. ASSUME FailClone(p) PROVE TypeOK' /\ CachedInv'
  BY <1>25, Values, EndType, MoreFaults DEF FailClone, NoRepo, TypeOK, CachedInv, MemoryType, Places, Callers, Labels
<1>26. ASSUME NoMirror(p) PROVE TypeOK' /\ CachedInv'
  BY <1>26, Values, EndType, MoreFaults DEF NoMirror, TypeOK, CachedInv, MemoryType, Places, Callers, Labels
<1>27. ASSUME EmptyAnswer(p) PROVE TypeOK' /\ CachedInv'
  BY <1>27, Values, EndType, MoreFaults DEF EmptyAnswer, TypeOK, CachedInv, MemoryType, Places, Callers, Labels
<1>28. ASSUME NEW o \in OptionSets[p], Begin(p, o) PROVE TypeOK' /\ CachedInv'
  BY <1>28, OptionsAssumption DEF Begin, TypeOK, CachedInv
<1>29. ASSUME CloneWorkdir(p) PROVE TypeOK' /\ CachedInv'
  <2>1. work' \in [Runs -> Versions \cup {None, Partial}]
    BY <1>29, Values DEF CloneWorkdir, Unpacked, TypeOK
  <2>2. CASE IsDownloaded
    BY <1>29, <2>1, <2>2 DEF CloneWorkdir, TypeOK, CachedInv
  <2>3. CASE ~IsDownloaded
    BY <1>29, <2>1, <2>3, EndType DEF CloneWorkdir, TypeOK, MemoryType, Places, Callers
  <2>4. QED
    BY <2>2, <2>3
<1>30. QED
  BY <1>29, <1>1, <1>2, <1>3, <1>4, <1>5, <1>6, <1>7, <1>8, <1>9, <1>10, <1>11, <1>12, <1>13, <1>14, <1>15, <1>16, <1>17, <1>18, <1>19, <1>20, <1>21, <1>22, <1>23, <1>24, <1>25, <1>26, <1>27, <1>28 DEF Step

-----------------------------------------------------------------------------
(* Downloads                                                                 *)

\* What a step does to the files of a download.
LEMMA DownloadStep ==
  ASSUME TypeOK, NEW p \in Runs,
         \/ Step(p) \/ Die(p) \/ FailClone(p) \/ NoMirror(p) \/ EmptyAnswer(p)
         \/ \E o \in OptionSets[p] : Begin(p, o)
  PROVE  \/ Read(p) \/ EndOfFile(p) \/ Flush(p)
         \/ /\ UNCHANGED <<out, got, data, final, cut>>
            /\ pc[p] \notin {"read", "flush"}
            /\ \E w \in Places \ {"flush"} : pc' = [pc EXCEPT ![p] = w]
         \/ /\ EndRun(p) /\ UNCHANGED <<data, final>>
            /\ cut => cut'
            /\ pc[p] = "flush" /\ final = out[p] => cut'
<1> USE DEF shared, built, memory, Goto
<1>0. back[p] \in Callers /\ FirstStage(p) \in {"unpack", "refuse", "clean"}
  BY ChecksumType DEF TypeOK, Callers
<1> DEFINE Quiet == /\ UNCHANGED <<out, got, data, final, cut>>
                    /\ pc[p] \notin {"read", "flush"}
                    /\ \E w \in Places \ {"flush"} : pc' = [pc EXCEPT ![p] = w]
           Ended == /\ EndRun(p) /\ UNCHANGED <<data, final>>
                    /\ cut => cut'
                    /\ pc[p] = "flush" /\ final = out[p] => cut'
<1>1. ASSUME Expand(p) \/ Clone(p) \/ Connect(p)
      PROVE  Quiet
  BY <1>1 DEF Expand, Clone, Connect, Places
<1>2. ASSUME FetchForChecksum(p) PROVE Quiet
  BY <1>2 DEF FetchForChecksum, NeedsFetch, AsksChecksum, Places
<1>3. ASSUME MustRebuild(p) PROVE Quiet
  <2>1. PICK w \in {"unpack", "refuse", "clean", "fetch"} : pc' = [pc EXCEPT ![p] = w]
    BY <1>0, <1>3 DEF MustRebuild
  <2>2. QED
    BY <1>3, <2>1 DEF MustRebuild, Places
<1>4. ASSUME NothingToFetch(p) \/ Cloned(p) \/ Fetch(p) PROVE Quiet
  <2>1. PICK w \in Callers \cup {"fetch"} : pc' = [pc EXCEPT ![p] = w]
    BY <1>0, <1>4 DEF NothingToFetch, Cloned, Fetch, Return
  <2>2. w \in Places \ {"flush"}
    BY DEF Callers, Places
  <2>3. QED
    BY <1>4, <2>1, <2>2 DEF NothingToFetch, Cloned, Fetch
<1>5. ASSUME UpdateWorkdir(p) \/ Checkout(p) \/ SetDone(p) \/ CreateTarball(p) \/ DumpHeader(p)
      PROVE  Quiet
  BY <1>5 DEF UpdateWorkdir, Checkout, SetDone, CreateTarball, DumpHeader, Places
<1>6. ASSUME UnpackTarball(p) \/ CopyCheckout(p) \/ CloneWorkdir(p) \/ InitWorkdir(p)
      PROVE  Quiet \/ Ended
  BY <1>6 DEF UnpackTarball, CopyCheckout, CloneWorkdir, InitWorkdir, Places
<1>7. ASSUME ChecksumOk(p) \/ NoBranch(p) \/ Clean(p) \/ Refuse(p) PROVE Ended
  BY <1>7 DEF ChecksumOk, NoBranch, Clean, Refuse
<1>8. ASSUME Die(p) \/ FailClone(p) \/ NoMirror(p) \/ EmptyAnswer(p) PROVE Ended
  <2>1. CASE Die(p)
    <3>1. EndRun(p) /\ UNCHANGED <<data, final>>
      BY <2>1 DEF Die
    <3>2. cut' = (cut \/ (pc[p] = "flush" /\ final = out[p]))
      BY <2>1 DEF Die
    <3>3. QED
      BY <3>1, <3>2
  <2>2. CASE FailClone(p) \/ NoMirror(p) \/ EmptyAnswer(p)
    BY <2>2 DEF FailClone, NoMirror, EmptyAnswer
  <2>3. QED
    BY <1>8, <2>1, <2>2
<1>9. ASSUME NEW o \in OptionSets[p], Begin(p, o) PROVE Quiet
  BY <1>9 DEF Begin, Places
<1>10. QED
  BY <1>1, <1>2, <1>3, <1>4, <1>5, <1>6, <1>7, <1>8, <1>9 DEF Step

\* The tarball is whole, or about to be, or a fault has left it.
WholeInv ==
  \/ final = None \/ Whole \/ cut
  \/ \E p \in Runs : pc[p] = "flush" /\ out[p] = final /\ got[p] = Chunks

LEMMA DownloadKept ==
  ASSUME TypeOK, TypeOK', DownloadInv, WholeInv, NEW p \in Runs,
         \/ Read(p) \/ EndOfFile(p) \/ Flush(p)
         \/ /\ UNCHANGED <<out, got, data, final, cut>>
            /\ pc[p] \notin {"read", "flush"}
            /\ \E w \in Places \ {"flush"} : pc' = [pc EXCEPT ![p] = w]
         \/ /\ EndRun(p) /\ UNCHANGED <<data, final>>
            /\ cut => cut'
            /\ pc[p] = "flush" /\ final = out[p] => cut'
  PROVE  DownloadInv' /\ WholeInv'
<1> USE Values DEF Goto
<1>0. /\ pc \in [Runs -> Places] /\ out \in [Runs -> Inodes \cup {None}]
      /\ got \in [Runs -> 0..Chunks] /\ data \in [Inodes -> SUBSET (1..Chunks)]
      /\ final \in Inodes \cup {None} /\ Chunks \in Nat
  BY BoundsAssumption DEF TypeOK, Places
<1>1. CASE /\ UNCHANGED <<out, got, data, final, cut>>
           /\ pc[p] \notin {"read", "flush"}
           /\ \E w \in Places \ {"flush"} : pc' = [pc EXCEPT ![p] = w]
  <2>1. PICK w \in Places \ {"flush"} : pc' = [pc EXCEPT ![p] = w]
    BY <1>1
  <2>2. DownloadInv'
    BY <1>0, <1>1, <2>1 DEF DownloadInv
  <2>3. WholeInv'
    BY <1>0, <1>1, <2>1 DEF WholeInv, Whole
  <2>4. QED
    BY <2>2, <2>3
<1>2. CASE /\ EndRun(p) /\ UNCHANGED <<data, final>>
           /\ cut => cut'
           /\ pc[p] = "flush" /\ final = out[p] => cut'
  <2>1. /\ pc' = [pc EXCEPT ![p] = "idle"] /\ out' = [out EXCEPT ![p] = None]
        /\ got' = [got EXCEPT ![p] = 0] /\ UNCHANGED <<data, final>>
    BY <1>2 DEF EndRun
  <2>2. DownloadInv'
    BY <1>0, <2>1 DEF DownloadInv
  <2>3. WholeInv'
    BY <1>0, <1>2, <2>1 DEF WholeInv, Whole
  <2>4. QED
    BY <2>2, <2>3
<1>3. CASE Read(p)
  <2>1. /\ pc[p] = "read" /\ got' = [got EXCEPT ![p] = @ + 1]
        /\ UNCHANGED <<final, cut, pc>>
    BY <1>3 DEF Read
  <2>2. CASE out[p] = None
    <3>1. /\ PartialFile(p) \in Inodes /\ PartialFile(p) # final
          /\ \A q \in Runs : out[q] # PartialFile(p)
      BY <1>0, <2>2, FreeInode
    <3>2. /\ out' = [out EXCEPT ![p] = PartialFile(p)]
          /\ data' = [data EXCEPT ![PartialFile(p)] = {}] /\ got[p] = 0
      BY <1>3, <2>2 DEF Read, DownloadInv
    <3>3. DownloadInv'
      <4>1. /\ out'[p] = PartialFile(p) /\ got'[p] > 0
            /\ data'[PartialFile(p)] = 1..(got'[p] - 1)
            /\ pc'[p] = "read" /\ final' = final
        <5>1. /\ out'[p] = PartialFile(p) /\ got'[p] = 1 /\ data'[PartialFile(p)] = {}
              /\ pc'[p] = "read" /\ final' = final
          BY <1>0, <2>1, <3>1, <3>2
        <5>2. QED
          BY <5>1
      <4>2. ASSUME NEW q \in Runs, q # p
            PROVE  /\ out'[q] = out[q] /\ got'[q] = got[q] /\ pc'[q] = pc[q]
                   /\ out[q] # None => data'[out[q]] = data[out[q]]
        BY <1>0, <2>1, <3>1, <3>2, <4>2
      <4>3. ASSUME NEW q \in Runs
            PROVE  /\ pc'[q] \in {"read", "flush"} \/ got'[q] = 0
                   /\ out'[q] = None <=> got'[q] = 0
                   /\ pc'[q] = "flush" => got'[q] > 0
                   /\ out'[q] # None => data'[out'[q]] = 1..(got'[q] - 1)
                   /\ pc'[q] = "read" /\ out'[q] # None => out'[q] # final'
        <5>1. CASE q = p
          <6>1. got'[q] # 0 /\ out'[q] # None
            BY <3>1, <4>1, <5>1
          <6>2. QED
            BY <3>1, <4>1, <5>1, <6>1
        <5>2. CASE q # p
          BY <4>1, <4>2, <5>2 DEF DownloadInv
        <5>3. QED
          BY <5>1, <5>2
      <4>4. ASSUME NEW q \in Runs, NEW k \in Runs, out'[q] = out'[k], out'[q] # None
            PROVE  q = k
        BY <3>1, <4>1, <4>2, <4>4 DEF DownloadInv
      <4>5. QED
        BY <4>3, <4>4 DEF DownloadInv
    <3>4. WholeInv'
      BY <1>0, <2>1, <2>2, <3>1, <3>2 DEF WholeInv, Whole
    <3>5. QED
      BY <3>3, <3>4
  <2>3. CASE out[p] # None
    <3>1. /\ out' = out /\ data' = [data EXCEPT ![out[p]] = @ \cup {got[p]}]
          /\ out[p] \in Inodes /\ got[p] \in 1..Chunks /\ out[p] # final
          /\ data[out[p]] = 1..(got[p] - 1)
      BY <1>0, <1>3, <2>1, <2>3 DEF Read, DownloadInv
    <3>2. data'[out[p]] = 1..(got'[p] - 1)
      BY <1>0, <2>1, <3>1
    <3>3. DownloadInv'
      <4>1. ASSUME NEW q \in Runs, q # p
            PROVE  got'[q] = got[q] /\ (out[q] # None => data'[out[q]] = data[out[q]])
        <5>1. out[q] # None => out[q] # out[p] /\ out[q] \in Inodes
          BY <1>0, <2>3, <4>1 DEF DownloadInv
        <5>2. QED
          BY <1>0, <2>1, <3>1, <4>1, <5>1
      <4>2. got'[p] = got[p] + 1 /\ got'[p] # 0
        BY <1>0, <2>1, <3>1
      <4>3. ASSUME NEW q \in Runs
            PROVE  /\ pc'[q] \in {"read", "flush"} \/ got'[q] = 0
                   /\ out'[q] = None <=> got'[q] = 0
                   /\ pc'[q] = "flush" => got'[q] > 0
                   /\ out'[q] # None => data'[out'[q]] = 1..(got'[q] - 1)
                   /\ pc'[q] = "read" /\ out'[q] # None => out'[q] # final'
        <5>1. CASE q = p
          BY <2>1, <2>3, <3>1, <3>2, <4>2, <5>1
        <5>2. CASE q # p
          BY <2>1, <3>1, <4>1, <5>2 DEF DownloadInv
        <5>3. QED
          BY <5>1, <5>2
      <4>4. QED
        BY <3>1, <4>3 DEF DownloadInv
    <3>4. WholeInv'
      BY <1>0, <2>1, <3>1 DEF WholeInv, Whole
    <3>5. QED
      BY <3>3, <3>4
  <2>4. QED
    BY <2>2, <2>3
<1>4. CASE EndOfFile(p)
  <2>1. /\ pc[p] = "read" /\ got[p] > 0 /\ final' = out[p]
        /\ pc' = [pc EXCEPT ![p] = "flush"] /\ UNCHANGED <<data, out, got>>
        /\ got[p] = Chunks \/ cut'
    BY <1>4 DEF EndOfFile, memory
  <2>2. DownloadInv'
    BY <1>0, <2>1 DEF DownloadInv
  <2>3. WholeInv'
    BY <1>0, <2>1 DEF WholeInv
  <2>4. QED
    BY <2>2, <2>3
<1>5. CASE Flush(p)
  <2>1. /\ pc[p] = "flush" /\ data' = [data EXCEPT ![out[p]] = @ \cup {got[p]}]
        /\ out' = [out EXCEPT ![p] = None] /\ got' = [got EXCEPT ![p] = 0]
        /\ pc' = [pc EXCEPT ![p] = back[p]] /\ UNCHANGED <<final, cut>>
    BY <1>5 DEF Flush, Return
  <2>2. /\ out[p] \in Inodes /\ got[p] \in 1..Chunks /\ data[out[p]] = 1..(got[p] - 1)
    BY <1>0, <2>1 DEF DownloadInv
  <2>3. back[p] \notin {"read", "flush"}
    BY DEF TypeOK
  <2>4. data'[out[p]] = 1..got[p] /\ \A i \in Inodes : i # out[p] => data'[i] = data[i]
    BY <1>0, <2>1, <2>2
  <2>5. DownloadInv'
    BY <1>0, <2>1, <2>2, <2>3, <2>4 DEF DownloadInv
  <2>6. WholeInv'
    <3>1. CASE out[p] = final
      <4>1. got[p] = Chunks \/ cut
        <5>1. ~Whole \/ got[p] = Chunks
          <6> SUFFICES ASSUME 1..(got[p] - 1) = 1..Chunks PROVE FALSE
            BY <2>2, <3>1 DEF Whole
          <6>1. got[p] \in 1..Chunks /\ got[p] \notin 1..(got[p] - 1)
            BY <1>0, <2>2
          <6>2. QED
            BY <6>1
        <5>2. QED
          BY <2>2, <3>1, <5>1 DEF WholeInv, DownloadInv
      <4>2. QED
        BY <2>1, <2>4, <3>1, <4>1 DEF WholeInv, Whole
    <3>2. CASE out[p] # final
      <4>1. final # None => data'[final] = data[final]
        BY <1>0, <2>4, <3>2
      <4>2. \A q \in Runs : pc[q] = "flush" /\ out[q] = final =>
              q # p /\ pc'[q] = pc[q] /\ out'[q] = out[q] /\ got'[q] = got[q]
        BY <1>0, <2>1, <3>2
      <4>3. QED
        BY <2>1, <4>1, <4>2 DEF WholeInv, Whole
    <3>3. QED
      BY <3>1, <3>2
  <2>7. QED
    BY <2>5, <2>6
<1>6. QED
  BY <1>1, <1>2, <1>3, <1>4, <1>5

-----------------------------------------------------------------------------
(* Branches                                                                  *)

\* No checksum is ahead of downloads/, which only gets newer or is lost.
Below(v) == v \in Versions => v <= upstream /\ (repo.head # None => v <= repo.head)

\* Within a run, what is read later is no older: the checksum it has expanded, what
\* git has now, what is packed.  An online run has fetched what was there when it
\* began before it unpacks.
GitRun(p) ==
  /\ pc[p] \notin {"read", "flush"}
  /\ seen[p] <= upstream
  /\ Below(memo[p]) /\ Below(cached[p]) /\ Below(ball[p])
  /\ client = FALSE => cached[p] = None
  /\ memo[p] \in Versions /\ cached[p] \in Versions => memo[p] <= cached[p]
  /\ ball[p] \in Versions /\ cached[p] \in Versions => ball[p] <= cached[p]
  /\ hdr[p] \in Versions => ball[p] \in Versions /\ hdr[p] <= ball[p]
  /\ pc[p] = "checkout" => cached[p] \in Versions
  /\ pc[p] \in {"unpacked", "pack"} => cached[p] \in Versions /\ work[p] = cached[p]
  /\ pc[p] = "header" => cached[p] \in Versions /\ ball[p] = cached[p]
  /\ pc[p] = "unpack" /\ options[p].offline = FALSE /\ repo.head # None => seen[p] <= repo.head
  /\ /\ pc[p] \in {"unpack", "checkout", "unpacked", "pack"}
     /\ options[p].offline = FALSE /\ cached[p] # None
     => seen[p] <= cached[p]

GitRepo == repo.head # None => repo.head <= upstream /\ client = TRUE

GitInv == source = "branch" => GitRepo /\ \A p \in Runs : GitRun(p)

\* What may happen to the branch in downloads/.
RepoMoves ==
  /\ upstream <= upstream' /\ (client' = FALSE => client = FALSE)
  /\ \/ repo'.head = repo.head
     \/ repo'.head = None
     \/ repo'.head = upstream /\ client = TRUE

RunTypes(p) ==
  /\ pc[p] \in Places /\ seen[p] \in Versions /\ memo[p] \in Labels /\ cached[p] \in Labels
  /\ work[p] \in Versions \cup {None, Partial} /\ ball[p] \in Versions \cup {None, Partial}
  /\ hdr[p] \in Labels /\ options[p] \in [fresh : BOOLEAN, offline : BOOLEAN]
  /\ back[p] \in Callers
  /\ repo.head \in Versions \cup {None} /\ upstream \in Versions /\ client \in BOOLEAN

LEMMA TypesOfRun == TypeOK => \A p \in Runs : RunTypes(p)
BY DEF TypeOK, RunTypes, Places, Callers

LEMMA RepoKept ==
  ASSUME TypeOK, TypeOK', GitRepo, RepoMoves
  PROVE  /\ GitRepo'
         /\ \A v : Below(v) => Below(v)'
<1>1. /\ Versions \subseteq Nat /\ None \notin Versions
      /\ upstream \in Nat /\ upstream' \in Nat /\ upstream <= upstream'
      /\ repo.head = None \/ repo.head \in Nat
  BY Values DEF TypeOK, RepoMoves
<1>2. CASE repo'.head = repo.head
  <2>1. GitRepo'
    BY <1>1, <1>2 DEF RepoMoves, GitRepo
  <2>2. \A v : Below(v) => Below(v)'
    BY <1>1, <1>2 DEF Below
  <2>3. QED
    BY <2>1, <2>2
<1>3. CASE repo'.head = None
  <2>1. GitRepo'
    BY <1>1, <1>3 DEF RepoMoves, GitRepo
  <2>2. \A v : Below(v) => Below(v)'
    BY <1>1, <1>3 DEF Below
  <2>3. QED
    BY <2>1, <2>2
<1>4. CASE repo'.head = upstream /\ client = TRUE
  <2>1. GitRepo'
    BY <1>1, <1>4 DEF RepoMoves, GitRepo
  <2>2. \A v : Below(v) => Below(v)'
    BY <1>1, <1>4 DEF Below
  <2>3. QED
    BY <2>1, <2>2
<1>5. QED
  BY <1>2, <1>3, <1>4 DEF RepoMoves

\* The other runs.
LEMMA OthersKept ==
  ASSUME TypeOK, TypeOK', GitRepo, RepoMoves, NEW q \in Runs, GitRun(q),
         pc'[q] = pc[q], seen'[q] = seen[q], memo'[q] = memo[q], cached'[q] = cached[q],
         work'[q] = work[q], ball'[q] = ball[q], hdr'[q] = hdr[q], options'[q] = options[q]
  PROVE  GitRun(q)'
<1>1. /\ RunTypes(q) /\ Versions \subseteq Nat /\ seen[q] \in Nat
      /\ upstream \in Nat /\ upstream' \in Nat
  BY TypesOfRun, Values DEF TypeOK
<1>2. Below(memo[q])' /\ Below(cached[q])' /\ Below(ball[q])'
  BY RepoKept DEF GitRun, Below
<1>3. seen'[q] <= upstream'
  BY <1>1 DEF GitRun, RepoMoves
<1>4. client' = FALSE => cached'[q] = None
  BY DEF GitRun, RepoMoves
<1>5. pc'[q] = "unpack" /\ options'[q].offline = FALSE /\ repo'.head # None => seen'[q] <= repo'.head
  BY DEF GitRun, RepoMoves
<1>6. QED
  BY <1>2, <1>3, <1>4, <1>5 DEF GitRun

\* A run that has ended.
LEMMA EndedKept ==
  ASSUME TypeOK, TypeOK', GitRepo, RepoMoves, NEW p \in Runs, GitRun(p), EndRun(p),
         ball' = ball, hdr' = hdr
  PROVE  GitRun(p)'
<1>1. /\ pc'[p] = "idle" /\ memo'[p] = None /\ cached'[p] = None /\ seen'[p] = 0
      /\ ball'[p] = ball[p] /\ hdr'[p] = hdr[p]
  BY DEF EndRun, Goto, TypeOK
<1>2. Below(None)' /\ Below(ball[p])'
  BY RepoKept, Values DEF GitRun, Below
<1>3. 0 <= upstream'
  BY Values DEF TypeOK
<1>4. QED
  BY <1>1, <1>2, <1>3, Values DEF GitRun, Below

\* What the checksum of a branch is, between what was expanded and what is there.
ChecksumFacts(p) ==
  /\ Checksum(p) = IF cached[p] # None THEN cached[p]
                   ELSE IF repo.head # None THEN repo.head ELSE Invalid
  /\ Below(Checksum(p)) /\ Checksum(p) \in Versions \cup {Invalid}
  /\ Cached(p) => cached'[p] = IF Checksum(p) = Invalid THEN cached[p] ELSE Checksum(p)
  /\ ball[p] \in Versions /\ Checksum(p) \in Versions => ball[p] <= Checksum(p)
  /\ memo[p] \in Versions /\ Checksum(p) \in Versions => memo[p] <= Checksum(p)

LEMMA ChecksumOfBranch ==
  ASSUME TypeOK, CachedInv, source = "branch", NEW p \in Runs, GitRepo, GitRun(p)
  PROVE  ChecksumFacts(p)
<1>1. RunTypes(p) /\ Versions \subseteq Nat
  BY TypesOfRun, Values
<1>2. Checksum(p) = IF cached[p] # None THEN cached[p]
                    ELSE IF repo.head # None THEN repo.head ELSE Invalid
  <2>1. IsDownloaded <=> repo.head # None
    BY DEF IsDownloaded, IsGit, IsSubversion
  <2>2. QED
    BY <2>1 DEF Checksum, GitChecksum
<1>3. Checksum(p) \in Versions \cup {Invalid}
  BY <1>1, <1>2, Values DEF RunTypes, Labels
<1>4. Below(Checksum(p))
  <2>1. Below(cached[p]) /\ Below(Invalid)
    BY Values DEF GitRun, Below
  <2>2. repo.head # None => Below(repo.head)
    <3>1. repo.head # None => repo.head \in Nat
      BY <1>1 DEF RunTypes
    <3>2. repo.head # None => repo.head <= repo.head
      BY <3>1
    <3>3. repo.head # None => repo.head <= upstream
      BY DEF GitRepo
    <3>4. QED
      BY <3>2, <3>3 DEF Below
  <2>3. QED
    BY <1>2, <2>1, <2>2
<1>5. Cached(p) => cached'[p] = IF Checksum(p) = Invalid THEN cached[p] ELSE Checksum(p)
  BY DEF Cached, TypeOK
<1>6. /\ ball[p] \in Versions /\ Checksum(p) \in Versions => ball[p] <= Checksum(p)
      /\ memo[p] \in Versions /\ Checksum(p) \in Versions => memo[p] <= Checksum(p)
  BY <1>1, <1>2, Values DEF RunTypes, GitRun, Below, Labels
<1>7. QED
  BY <1>2, <1>3, <1>4, <1>5, <1>6 DEF ChecksumFacts

\* What a run does to the branch, and not to the other runs.
OthersSame(p) ==
  \A q \in Runs \ {p} :
    /\ pc'[q] = pc[q] /\ seen'[q] = seen[q] /\ memo'[q] = memo[q]
    /\ cached'[q] = cached[q] /\ work'[q] = work[q] /\ ball'[q] = ball[q]
    /\ hdr'[q] = hdr[q] /\ options'[q] = options[q]

LEMMA EndFrame ==
  ASSUME TypeOK, NEW p \in Runs, EndRun(p)
  PROVE  \A q \in Runs \ {p} :
           /\ pc'[q] = pc[q] /\ seen'[q] = seen[q] /\ memo'[q] = memo[q]
           /\ cached'[q] = cached[q] /\ options'[q] = options[q]
BY DEF EndRun, Goto, TypeOK

LEMMA BranchStep ==
  ASSUME TypeOK, source = "branch", NEW p \in Runs, GitRun(p),
         \/ Step(p) \/ Die(p) \/ FailClone(p) \/ NoMirror(p) \/ EmptyAnswer(p)
         \/ \E o \in OptionSets[p] : Begin(p, o)
  PROVE  /\ source' = source
         /\ \/ \E o \in OptionSets[p] : Begin(p, o)
            \/ FetchForChecksum(p) \/ Expand(p) \/ MustRebuild(p) \/ NothingToFetch(p)
            \/ Clone(p) \/ Cloned(p) \/ Fetch(p) \/ Checkout(p) \/ SetDone(p)
            \/ CreateTarball(p) \/ DumpHeader(p)
            \/ (InitWorkdir(p) \/ UpdateWorkdir(p)) /\ Checksum(p) # Invalid /\ Cached(p)
               /\ pc' = [pc EXCEPT ![p] = "checkout"] /\ pc[p] = "unpack"
               /\ UNCHANGED <<options, memo, seen, ball, hdr, repo, upstream, client>>
            \/ /\ EndRun(p) /\ UNCHANGED <<ball, hdr, upstream, client>>
               /\ repo' = repo \/ repo'.head = None
               /\ \A q \in Runs \ {p} : work'[q] = work[q]
<1> USE DEF shared, built, memory, Goto
<1> DEFINE Ended == /\ EndRun(p) /\ UNCHANGED <<ball, hdr, upstream, client>>
                    /\ repo' = repo \/ repo'.head = None
                    /\ \A q \in Runs \ {p} : work'[q] = work[q]
           ToCheckout == /\ Checksum(p) # Invalid /\ Cached(p)
                         /\ pc' = [pc EXCEPT ![p] = "checkout"] /\ pc[p] = "unpack"
                         /\ UNCHANGED <<options, memo, seen, ball, hdr, repo, upstream, client>>
<1>1. ~Connect(p) /\ ~Read(p) /\ ~EndOfFile(p) /\ ~Flush(p) /\ ~NoMirror(p) /\ ~EmptyAnswer(p)
      /\ ~UnpackTarball(p) /\ ~CopyCheckout(p) /\ ~CloneWorkdir(p)
  BY DEF Connect, Read, EndOfFile, Flush, NoMirror, EmptyAnswer, UnpackTarball, CopyCheckout,
         CloneWorkdir, IsSubversion, GitRun
<1>2. ASSUME ChecksumOk(p) \/ NoBranch(p) \/ Refuse(p) \/ Die(p)
      PROVE  Ended /\ source' = source
  BY <1>2 DEF ChecksumOk, NoBranch, Refuse, Die
<1>3. ASSUME Clean(p) PROVE Ended /\ source' = source
  BY <1>3 DEF Clean, IsTracking
<1>4. ASSUME FailClone(p) PROVE Ended /\ source' = source
  BY <1>4 DEF FailClone, NoRepo
<1>5. ASSUME InitWorkdir(p) PROVE (Ended \/ ToCheckout) /\ source' = source
  <2>1. \A q \in Runs \ {p} : work'[q] = work[q]
    BY <1>5 DEF InitWorkdir, Unpacked, TypeOK
  <2>2. QED
    BY <1>5, <2>1 DEF InitWorkdir
<1>6. ASSUME UpdateWorkdir(p) PROVE ToCheckout /\ source' = source
  BY <1>6 DEF UpdateWorkdir
<1>7. ASSUME \/ FetchForChecksum(p) \/ Expand(p) \/ MustRebuild(p) \/ NothingToFetch(p)
             \/ Clone(p) \/ Cloned(p) \/ Fetch(p) \/ Checkout(p) \/ SetDone(p)
             \/ CreateTarball(p) \/ DumpHeader(p) \/ \E o \in OptionSets[p] : Begin(p, o)
      PROVE  source' = source
  BY <1>7 DEF FetchForChecksum, Expand, MustRebuild, NothingToFetch, Clone, Cloned, Fetch,
              Checkout, SetDone, CreateTarball, DumpHeader, Begin
<1>8. QED
  BY <1>1, <1>2, <1>3, <1>4, <1>5, <1>6, <1>7 DEF Step

\* A step to a place where nothing is unpacked or packed, or from a place to itself.
LEMMA PlainKept ==
  ASSUME TypeOK, TypeOK', GitRepo, RepoMoves, NEW p \in Runs, GitRun(p),
         pc'[p] \in {"idle", "expand", "manager", "fetch", "clone", "packed", "clean", "refuse"},
         seen'[p] <= upstream', ball'[p] = ball[p],
         Below(memo'[p]), Below(cached'[p]),
         client = FALSE => cached'[p] = None,
         memo'[p] \in Versions /\ cached'[p] \in Versions => memo'[p] <= cached'[p],
         ball[p] \in Versions /\ cached'[p] \in Versions => ball[p] <= cached'[p],
         hdr'[p] \in Versions => ball[p] \in Versions /\ hdr'[p] <= ball[p]
  PROVE  GitRun(p)'
<1>1. Below(memo[p])' /\ Below(cached[p])' /\ Below(ball[p])'
  <2>1. \A v : Below(v) => Below(v)'
    BY RepoKept
  <2>2. QED
    BY <2>1 DEF GitRun, Below
<1>2. client' = FALSE => cached'[p] = None
  BY DEF RepoMoves
<1>3. QED
  BY <1>1, <1>2 DEF GitRun

LEMMA GitStep ==
  ASSUME TypeOK, TypeOK', CachedInv, source = "branch", GitRepo, \A q \in Runs : GitRun(q),
         NEW p \in Runs,
         \/ Step(p) \/ Die(p) \/ FailClone(p) \/ NoMirror(p) \/ EmptyAnswer(p)
         \/ \E o \in OptionSets[p] : Begin(p, o)
  PROVE  GitRepo' /\ \A q \in Runs : GitRun(q)'
<1> USE DEF shared, built, memory, Goto
<1> DEFINE Fine == OthersSame(p) /\ RepoMoves /\ GitRun(p)'
<1>0. GitRun(p) /\ RunTypes(p) /\ Versions \subseteq Nat
  BY TypesOfRun, Values
<1>a. /\ upstream <= upstream /\ seen[p] <= upstream
  BY <1>0, Values DEF RunTypes, GitRun
<1>b. /\ Below(Checksum(p)) /\ Checksum(p) \in Versions \cup {Invalid}
      /\ Checksum(p) = IF cached[p] # None THEN cached[p]
                       ELSE IF repo.head # None THEN repo.head ELSE Invalid
      /\ Cached(p) => cached'[p] = IF Checksum(p) = Invalid THEN cached[p] ELSE Checksum(p)
      /\ ball[p] \in Versions /\ Checksum(p) \in Versions => ball[p] <= Checksum(p)
      /\ memo[p] \in Versions /\ Checksum(p) \in Versions => memo[p] <= Checksum(p)
  <2>1. ChecksumFacts(p)
    BY <1>0, ChecksumOfBranch
  <2>2. QED
    BY <2>1 DEF ChecksumFacts
<1>c. Checksum(p) \in Versions => Checksum(p) <= Checksum(p)
  <2>1. \A v \in Versions : v <= v
    BY Values
  <2>2. QED
    BY <2>1
<1>1. ASSUME NEW o \in OptionSets[p], Begin(p, o) PROVE Fine
  <2>1. OthersSame(p) /\ RepoMoves
    BY <1>1, <1>a DEF Begin, TypeOK, OthersSame, RepoMoves
  <2>2. /\ pc'[p] \in {"expand", "manager", "fetch"} /\ seen'[p] = upstream /\ upstream' = upstream
        /\ memo' = memo /\ cached' = cached /\ ball' = ball /\ hdr' = hdr
    BY <1>1 DEF Begin, TypeOK
  <2>3. GitRun(p)'
    BY <1>0, <1>a, <2>1, <2>2, PlainKept DEF GitRun
  <2>4. QED
    BY <2>1, <2>3
<1>2. ASSUME FetchForChecksum(p) PROVE Fine
  <2>1. OthersSame(p) /\ RepoMoves
    BY <1>2, <1>a DEF FetchForChecksum, TypeOK, OthersSame, RepoMoves
  <2>2. /\ pc'[p] = "fetch" /\ upstream' = upstream
        /\ UNCHANGED <<memo, cached, ball, hdr, seen>>
    BY <1>2 DEF FetchForChecksum, TypeOK
  <2>3. GitRun(p)'
    BY <1>0, <1>a, <2>1, <2>2, PlainKept DEF GitRun
  <2>4. QED
    BY <2>1, <2>3
<1>3. ASSUME Clone(p) \/ Cloned(p) PROVE Fine
  <2>1. /\ pc'[p] \in {"clone", "fetch"} /\ upstream' = upstream /\ repo'.head = repo.head
        /\ client' = client /\ UNCHANGED <<memo, cached, ball, hdr, seen, work, options>>
        /\ \A q \in Runs \ {p} : pc'[q] = pc[q]
    <3>1. CASE Clone(p)
      BY <3>1 DEF Clone, TypeOK
    <3>2. CASE Cloned(p)
      BY <3>2 DEF Cloned, IsGit, IsSubversion, TypeOK
    <3>3. QED
      BY <1>3, <3>1, <3>2
  <2>2. OthersSame(p) /\ RepoMoves
    BY <2>1, <1>a DEF OthersSame, RepoMoves
  <2>3. GitRun(p)'
    BY <1>0, <1>a, <2>1, <2>2, PlainKept DEF GitRun
  <2>4. QED
    BY <2>2, <2>3
<1>4. ASSUME NothingToFetch(p) PROVE Fine
  <2>1. OthersSame(p) /\ RepoMoves
    BY <1>4, <1>a DEF NothingToFetch, Return, TypeOK, OthersSame, RepoMoves
  <2>2. /\ pc'[p] \in Callers /\ client = FALSE /\ client' = FALSE /\ repo' = repo /\ upstream' = upstream
        /\ UNCHANGED <<memo, cached, ball, hdr, seen>>
    BY <1>4 DEF NothingToFetch, Return, TypeOK, Callers, UsesClient, IsGit
  <2>3. repo.head = None /\ cached[p] = None
    BY <1>0, <2>2 DEF GitRepo, GitRun
  <2>4. CASE pc'[p] = "unpack"
    BY <1>0, <2>1, <2>2, <2>3, <2>4 DEF GitRun, Below
  <2>5. CASE pc'[p] # "unpack"
    BY <1>0, <1>a, <2>1, <2>2, <2>5, PlainKept DEF GitRun, Callers
  <2>6. QED
    BY <2>1, <2>4, <2>5
<1>5. ASSUME Fetch(p) PROVE Fine
  <2>1. /\ repo'.head = upstream /\ client = TRUE /\ upstream' = upstream /\ client' = client
        /\ pc'[p] \in Callers /\ cached'[p] = None /\ memo'[p] = memo[p] /\ options' = options
        /\ ball' = ball /\ hdr' = hdr /\ seen' = seen
    BY <1>5 DEF Fetch, Return, TypeOK, Callers
  <2>2. OthersSame(p) /\ RepoMoves
    BY <1>5, <1>a, <2>1 DEF Fetch, Return, TypeOK, OthersSame, RepoMoves
  <2>3. Below(memo[p])' /\ Below(cached[p])' /\ Below(ball[p])'
    <3>1. \A v : Below(v) => Below(v)'
      BY <2>2, RepoKept
    <3>2. QED
      BY <1>0, <2>1, <3>1, Values DEF GitRun, Below
  <2>4. QED
    BY <1>0, <2>1, <2>2, <2>3, Values DEF GitRun, Callers
<1>6. ASSUME Expand(p) PROVE Fine
  <2>1. OthersSame(p) /\ RepoMoves
    BY <1>6, <1>a DEF Expand, Cached, TypeOK, OthersSame, RepoMoves
  <2>2. /\ pc'[p] \in {"manager", "fetch"} /\ memo'[p] = Checksum(p) /\ Cached(p)
        /\ upstream' = upstream /\ UNCHANGED <<ball, hdr, seen>>
    BY <1>6 DEF Expand, TypeOK
  <2>3. cached'[p] = IF Checksum(p) = Invalid THEN cached[p] ELSE Checksum(p)
    BY <1>b, <2>2
  <2>4. /\ Below(memo'[p]) /\ Below(cached'[p])
        /\ memo'[p] \in Versions /\ cached'[p] \in Versions => memo'[p] <= cached'[p]
        /\ ball[p] \in Versions /\ cached'[p] \in Versions => ball[p] <= cached'[p]
    <3>1. CASE Checksum(p) = Invalid
      BY <1>0, <1>b, <2>2, <2>3, <3>1, Values DEF GitRun, Below
    <3>2. CASE Checksum(p) # Invalid
      BY <1>0, <1>b, <1>c, <2>2, <2>3, <3>2
    <3>3. QED
      BY <3>1, <3>2
  <2>5. client = FALSE => cached'[p] = None
    BY <1>0, <1>b, <2>3 DEF GitRun, GitRepo
  <2>6. GitRun(p)'
    BY <1>0, <1>a, <2>1, <2>2, <2>4, <2>5, PlainKept DEF GitRun
  <2>7. QED
    BY <2>1, <2>6
<1>7. ASSUME MustRebuild(p) PROVE Fine
  <2>1. OthersSame(p) /\ RepoMoves
    BY <1>7, <1>a DEF MustRebuild, Cached, TypeOK, OthersSame, RepoMoves
  <2>2. /\ memo'[p] = IF memo[p] = None THEN Checksum(p) ELSE memo[p]
        /\ IF memo[p] = None THEN Cached(p) ELSE cached' = cached
        /\ upstream' = upstream /\ repo' = repo /\ client' = client
        /\ UNCHANGED <<ball, hdr, seen, options>>
    BY <1>7 DEF MustRebuild, Memo, TypeOK
  <2>3. /\ Below(memo'[p]) /\ Below(cached'[p])
        /\ memo'[p] \in Versions /\ cached'[p] \in Versions => memo'[p] <= cached'[p]
        /\ ball[p] \in Versions /\ cached'[p] \in Versions => ball[p] <= cached'[p]
        /\ client = FALSE => cached'[p] = None
    <3>1. CASE memo[p] # None
      BY <1>0, <2>2, <3>1 DEF GitRun
    <3>2. CASE memo[p] = None /\ Checksum(p) = Invalid
      BY <1>0, <1>b, <2>2, <3>2, Values DEF GitRun, Below
    <3>3. CASE memo[p] = None /\ Checksum(p) # Invalid
      BY <1>0, <1>b, <1>c, <2>2, <3>3 DEF GitRun, GitRepo
    <3>4. QED
      BY <3>1, <3>2, <3>3
  <2>4. \/ pc'[p] \in {"fetch", "refuse", "clean"}
        \/ pc'[p] = "unpack" /\ options[p].offline
    <3>1. FirstStage(p) \in {"unpack", "refuse", "clean"}
      BY ChecksumType
    <3>2. IF options[p].offline THEN pc'[p] = FirstStage(p) ELSE pc'[p] = "fetch"
      BY <1>7 DEF MustRebuild, TypeOK
    <3>3. QED
      BY <3>1, <3>2
  <2>5. CASE pc'[p] \in {"fetch", "refuse", "clean"}
    BY <1>0, <1>a, <2>1, <2>2, <2>3, <2>5, PlainKept DEF GitRun
  <2>6. CASE pc'[p] = "unpack" /\ options[p].offline = TRUE
    <3>1. Below(memo[p])' /\ Below(cached[p])' /\ Below(ball[p])'
      BY <1>0, <2>2, <2>3 DEF GitRun, Below
    <3>2. QED
      BY <1>0, <2>1, <2>2, <2>3, <2>6, <3>1 DEF GitRun
  <2>7. options[p].offline => options[p].offline = TRUE
    OBVIOUS
  <2>8. QED
    BY <2>1, <2>4, <2>5, <2>6, <2>7
<1>8. ASSUME InitWorkdir(p) \/ UpdateWorkdir(p), Checksum(p) # Invalid, Cached(p),
             pc' = [pc EXCEPT ![p] = "checkout"], pc[p] = "unpack",
             UNCHANGED <<options, memo, seen, ball, hdr, repo, upstream, client>>
      PROVE  Fine
  <2>1. \A q \in Runs \ {p} : work'[q] = work[q]
    BY <1>8 DEF InitWorkdir, UpdateWorkdir, Unpacked, TypeOK
  <2>2. OthersSame(p) /\ RepoMoves
    BY <1>8, <1>a, <2>1 DEF Cached, TypeOK, OthersSame, RepoMoves
  <2>3. pc'[p] = "checkout" /\ cached'[p] = Checksum(p) /\ Checksum(p) \in Versions
    BY <1>8, <1>b DEF TypeOK
  <2>4. options[p].offline = FALSE => seen[p] <= Checksum(p)
    BY <1>0, <1>8, <1>b, <2>3, Values DEF GitRun
  <2>5. client' = FALSE => cached'[p] = None
    BY <1>0, <1>8, <1>b, <2>3, Values DEF GitRun, GitRepo
  <2>6. Below(memo[p])' /\ Below(cached[p])' /\ Below(ball[p])'
    BY <1>0, <1>8, <1>b, <2>3 DEF GitRun, Below
  <2>7. GitRun(p)'
    BY <1>0, <1>8, <1>b, <2>3, <2>4, <2>5, <2>6 DEF GitRun
  <2>8. QED
    BY <2>2, <2>7
<1>9. ASSUME Checkout(p) \/ SetDone(p) PROVE Fine
  <2>1. OthersSame(p) /\ RepoMoves
    BY <1>9, <1>a DEF Checkout, SetDone, Unpacked, TypeOK, OthersSame, RepoMoves
  <2>2. /\ UNCHANGED <<options, memo, cached, seen, ball, hdr, repo, upstream, client>>
        /\ \/ pc[p] = "checkout" /\ pc'[p] = "unpacked" /\ work'[p] = cached[p]
           \/ pc[p] = "unpacked" /\ pc'[p] = "pack" /\ work' = work
           \/ pc'[p] = "clean"
    BY <1>9 DEF Checkout, SetDone, Unpacked, TypeOK
  <2>3. Below(memo[p])' /\ Below(cached[p])' /\ Below(ball[p])'
    BY <1>0, <2>2 DEF GitRun, Below
  <2>4. GitRun(p)'
    BY <1>0, <2>2, <2>3 DEF GitRun
  <2>5. QED
    BY <2>1, <2>4
<1>10. ASSUME CreateTarball(p) PROVE Fine
  <2>1. OthersSame(p) /\ RepoMoves
    BY <1>10, <1>a DEF CreateTarball, TypeOK, OthersSame, RepoMoves
  <2>2. /\ UNCHANGED <<options, memo, cached, hdr, repo, upstream, client>>
        /\ pc[p] = "pack" /\ pc'[p] = "header" /\ ball'[p] = work[p] /\ seen'[p] = 0
    BY <1>10 DEF CreateTarball, TypeOK
  <2>3. ball'[p] = cached[p] /\ cached[p] \in Versions
    BY <1>0, <2>2 DEF GitRun
  <2>4. Below(memo[p])' /\ Below(cached[p])' /\ Below(ball[p])'
    BY <1>0, <2>2, <2>3 DEF GitRun, Below
  <2>5. 0 <= upstream' /\ cached[p] <= cached[p]
    BY <1>0, <2>2, <2>3 DEF RunTypes
  <2>6. hdr'[p] \in Versions => hdr'[p] <= ball'[p]
    <3>1. ASSUME hdr[p] \in Versions PROVE hdr[p] <= ball[p] /\ ball[p] <= cached[p] /\ ball[p] \in Versions
      BY <1>0, <2>3, <3>1 DEF GitRun
    <3>2. hdr[p] \in Versions => hdr[p] \in Nat /\ ball[p] \in Nat /\ cached[p] \in Nat
      BY <1>0, <2>3, <3>1
    <3>3. QED
      BY <2>2, <2>3, <3>1, <3>2
  <2>7. GitRun(p)'
    BY <1>0, <2>2, <2>3, <2>4, <2>5, <2>6 DEF GitRun
  <2>8. QED
    BY <2>1, <2>7
<1>11. ASSUME DumpHeader(p) PROVE Fine
  <2>1. OthersSame(p) /\ RepoMoves
    BY <1>11, <1>a DEF DumpHeader, TypeOK, OthersSame, RepoMoves
  <2>2. /\ UNCHANGED <<options, memo, cached, ball, seen, repo, upstream, client>>
        /\ pc[p] = "header" /\ pc'[p] = "packed" /\ hdr'[p] = memo[p]
    BY <1>11 DEF DumpHeader, TypeOK
  <2>3. GitRun(p)'
    BY <1>0, <1>a, <2>1, <2>2, PlainKept DEF GitRun
  <2>4. QED
    BY <2>1, <2>3
<1>12. ASSUME EndRun(p), UNCHANGED <<ball, hdr, upstream, client>>,
              repo' = repo \/ repo'.head = None,
              \A q \in Runs \ {p} : work'[q] = work[q]
       PROVE  Fine
  <2>1. RepoMoves
    BY <1>12, <1>a DEF RepoMoves
  <2>2. OthersSame(p)
    BY <1>12, EndFrame DEF OthersSame
  <2>3. QED
    BY <1>0, <1>12, <2>1, <2>2, EndedKept
<1>13. Fine
  BY <1>0, <1>1, <1>2, <1>3, <1>4, <1>5, <1>6, <1>7, <1>8, <1>9, <1>10, <1>11, <1>12, BranchStep
<1>14. ASSUME NEW q \in Runs \ {p} PROVE GitRun(q)'
  BY <1>13, OthersKept DEF OthersSame
<1>15. QED
  BY <1>13, <1>14, RepoKept

-----------------------------------------------------------------------------
(* Revisions                                                                 *)

\* Only a work tree that has the revision gets as far as the package.
RevisionInv ==
  source = "revision" => \A p \in Runs :
    /\ pc[p] # "checkout"
    /\ pc[p] \in {"unpacked", "pack"} => work[p] = Constant
    /\ pc[p] = "header" => ball[p] = Constant
    /\ hdr[p] # None => ball[p] = Constant

LEMMA RevisionStep ==
  ASSUME TypeOK, TypeOK', RevisionInv, source' = source, NEW p \in Runs,
         \/ Step(p) \/ Die(p) \/ FailClone(p) \/ NoMirror(p) \/ EmptyAnswer(p)
         \/ \E o \in OptionSets[p] : Begin(p, o)
  PROVE  RevisionInv'
<1> USE DEF shared, built, memory, Goto
<1> SUFFICES ASSUME source = "revision" PROVE RevisionInv'
  BY DEF RevisionInv
<1> DEFINE Plain == /\ pc' = [pc EXCEPT ![p] = pc'[p]]
                    /\ UNCHANGED <<ball, hdr>>
                    /\ \/ pc'[p] \notin {"checkout", "unpacked", "pack", "header"}
                          /\ \A q \in Runs \ {p} : work'[q] = work[q]
                       \/ pc'[p] = "unpacked" /\ work' = [work EXCEPT ![p] = Constant]
                       \/ pc'[p] = "pack" /\ pc[p] = "unpacked" /\ work' = work
<1>0. FirstStage(p) \in {"unpack", "refuse", "clean"} /\ back[p] \in Callers
  BY ChecksumType DEF TypeOK, Callers
<1>1. ASSUME \/ FetchForChecksum(p) \/ Expand(p) \/ MustRebuild(p)
             \/ NothingToFetch(p) \/ Clone(p) \/ Cloned(p) \/ Fetch(p)
             \/ \E o \in OptionSets[p] : Begin(p, o)
      PROVE  Plain
  <2>1. CASE FetchForChecksum(p) \/ Expand(p) \/ Clone(p) \/ \E o \in OptionSets[p] : Begin(p, o)
    BY <2>1 DEF FetchForChecksum, Expand, Clone, Begin, TypeOK
  <2>2. CASE MustRebuild(p)
    <3>1. PICK w \in {"unpack", "refuse", "clean", "fetch"} : pc' = [pc EXCEPT ![p] = w]
      BY <1>0, <2>2 DEF MustRebuild
    <3>2. QED
      BY <2>2, <3>1 DEF MustRebuild, TypeOK
  <2>3. CASE NothingToFetch(p) \/ Cloned(p) \/ Fetch(p)
    <3>1. PICK w \in Callers \cup {"fetch"} : pc' = [pc EXCEPT ![p] = w]
      BY <1>0, <2>3 DEF NothingToFetch, Cloned, Fetch, Return
    <3>2. QED
      BY <2>3, <3>1 DEF NothingToFetch, Cloned, Fetch, Callers, TypeOK
  <2>4. QED
    BY <1>1, <2>1, <2>2, <2>3
<1>2. ASSUME \/ Connect(p) \/ EndOfFile(p) \/ Read(p) \/ Flush(p)
      PROVE  Plain
  <2>1. PICK w \in Callers \cup {"read", "flush"} : pc' = [pc EXCEPT ![p] = w]
    <3>1. CASE Read(p)
      BY <3>1 DEF Read, TypeOK
    <3>2. CASE Connect(p) \/ EndOfFile(p) \/ Flush(p)
      BY <1>0, <3>2 DEF Connect, EndOfFile, Flush, Return
    <3>3. QED
      BY <1>2, <3>1, <3>2
  <2>2. QED
    BY <1>2, <2>1 DEF Connect, EndOfFile, Read, Flush, Callers, TypeOK
<1>3. ASSUME \/ ChecksumOk(p) \/ NoBranch(p) \/ Refuse(p) \/ Clean(p) \/ Die(p)
             \/ FailClone(p) \/ NoMirror(p) \/ EmptyAnswer(p)
      PROVE  Plain
  <2>1. pc' = [pc EXCEPT ![p] = "idle"] /\ UNCHANGED <<ball, hdr>>
    BY <1>3 DEF EndRun, ChecksumOk, NoBranch, Refuse, Clean, Die, FailClone, NoMirror, EmptyAnswer
  <2>2. \A q \in Runs \ {p} : work'[q] = work[q]
    BY <1>3 DEF ChecksumOk, NoBranch, Refuse, Clean, Unpacked, Die, FailClone, NoMirror,
                EmptyAnswer, TypeOK
  <2>3. QED
    BY <2>1, <2>2 DEF TypeOK
<1>4. ASSUME CloneWorkdir(p) PROVE Plain
  BY <1>4 DEF CloneWorkdir, Unpacked, EndRun, TypeOK
<1>5. /\ ~UnpackTarball(p) /\ ~CopyCheckout(p) /\ ~InitWorkdir(p) /\ ~UpdateWorkdir(p)
  BY DEF UnpackTarball, CopyCheckout, InitWorkdir, UpdateWorkdir, IsSubversion
<1>6. ASSUME SetDone(p) PROVE Plain
  BY <1>6 DEF SetDone, TypeOK
<1>7. CASE Plain
  BY <1>7 DEF RevisionInv, TypeOK
<1>8. CASE Checkout(p)
  BY <1>8 DEF Checkout, RevisionInv
<1>9. CASE CreateTarball(p) \/ DumpHeader(p)
  BY <1>9 DEF CreateTarball, DumpHeader, RevisionInv, TypeOK
<1>10. QED
  BY <1>1, <1>2, <1>3, <1>4, <1>5, <1>6, <1>7, <1>8, <1>9 DEF Step

-----------------------------------------------------------------------------
(* The theorems                                                              *)

IInv == TypeOK /\ CachedInv /\ DownloadInv /\ WholeInv /\ GitInv /\ RevisionInv

LEMMA InitInv == Init => IInv
<1> SUFFICES ASSUME Init PROVE IInv
  OBVIOUS
<1>1. TypeOK
  <2>1. /\ None \in Labels /\ 0 \in 0..Chunks /\ 0 \in 0..MaxFaults
        /\ NoOptions \in [fresh : BOOLEAN, offline : BOOLEAN]
        /\ NoRepo \in [made : BOOLEAN, whole : BOOLEAN, head : Versions \cup {None}]
    BY BoundsAssumption DEF Labels, NoOptions, NoRepo
  <2>2. QED
    BY <2>1, Values DEF Init, TypeOK, Done
<1>2. CachedInv /\ DownloadInv /\ WholeInv
  BY Values DEF Init, CachedInv, DownloadInv, WholeInv
<1>3. GitInv
  BY Values DEF Init, GitInv, GitRepo, GitRun, Below, NoRepo
<1>4. RevisionInv
  BY DEF Init, RevisionInv
<1>5. QED
  BY <1>1, <1>2, <1>3, <1>4 DEF IInv

LEMMA SourceSame ==
  ASSUME NEW p \in Runs,
         \/ Step(p) \/ Die(p) \/ FailClone(p) \/ NoMirror(p) \/ EmptyAnswer(p)
         \/ \E o \in OptionSets[p] : Begin(p, o)
  PROVE  source' = source
<1> USE DEF shared, built, memory
<1>1. ASSUME \/ FetchForChecksum(p) \/ Expand(p) \/ ChecksumOk(p) \/ MustRebuild(p)
             \/ NothingToFetch(p) \/ Clone(p) \/ Cloned(p) \/ Fetch(p)
             \/ Connect(p) \/ Read(p) \/ EndOfFile(p) \/ Flush(p)
      PROVE  source' = source
  BY <1>1 DEF FetchForChecksum, Expand, ChecksumOk, MustRebuild, NothingToFetch, Clone,
              Cloned, Fetch, Connect, Read, EndOfFile, Flush
<1>2. ASSUME \/ UnpackTarball(p) \/ CopyCheckout(p) \/ CloneWorkdir(p) \/ NoBranch(p)
             \/ InitWorkdir(p) \/ UpdateWorkdir(p) \/ Checkout(p) \/ SetDone(p)
             \/ CreateTarball(p) \/ DumpHeader(p) \/ Clean(p) \/ Refuse(p)
      PROVE  source' = source
  BY <1>2 DEF UnpackTarball, CopyCheckout, CloneWorkdir, NoBranch, InitWorkdir, UpdateWorkdir, Checkout,
              SetDone, CreateTarball, DumpHeader, Clean, Refuse
<1>3. ASSUME \/ Die(p) \/ FailClone(p) \/ NoMirror(p) \/ EmptyAnswer(p)
             \/ \E o \in OptionSets[p] : Begin(p, o)
      PROVE  source' = source
  BY <1>3 DEF Die, FailClone, NoMirror, EmptyAnswer, Begin
<1>4. QED
  BY <1>1, <1>2, <1>3 DEF Step

\* A commit upstream, or a client installed, leaves downloads/ and the runs alone.
LEMMA EnvironmentKept ==
  ASSUME IInv, Commit \/ InstallClient
  PROVE  IInv'
<1> USE DEF built, memory
<1>0. /\ TypeOK /\ CachedInv /\ DownloadInv /\ WholeInv /\ GitInv /\ RevisionInv
      /\ upstream \in Nat
  BY Values DEF IInv, TypeOK
<1>1. TypeOK'
  <2>1. CASE Commit
    <3>1. upstream' \in Versions
      BY <1>0, <2>1, BoundsAssumption DEF Commit, Versions
    <3>2. QED
      BY <1>0, <2>1, <3>1 DEF Commit, TypeOK
  <2>2. CASE InstallClient
    BY <1>0, <2>2 DEF InstallClient, TypeOK
  <2>3. QED
    BY <2>1, <2>2
<1>2. /\ UNCHANGED <<source, repo, final, data, cut, built, pc, memory>>
      /\ upstream <= upstream' /\ (client' = FALSE => client = FALSE)
  BY <1>0 DEF Commit, InstallClient
<1>3. CachedInv' /\ DownloadInv' /\ WholeInv'
  BY <1>0, <1>2 DEF CachedInv, DownloadInv, WholeInv, Whole
<1>4. GitInv'
  <2>1. RepoMoves
    BY <1>2 DEF RepoMoves
  <2>2. ASSUME source = "branch" PROVE GitRepo' /\ \A q \in Runs : GitRun(q)'
    BY <1>0, <1>1, <1>2, <2>1, <2>2, RepoKept, OthersKept DEF GitInv
  <2>3. QED
    BY <1>2, <2>2 DEF GitInv
<1>5. RevisionInv'
  BY <1>0, <1>2 DEF RevisionInv
<1>6. QED
  BY <1>1, <1>3, <1>4, <1>5 DEF IInv

LEMMA NextInv == IInv /\ [Next]_vars => IInv'
<1> SUFFICES ASSUME IInv, [Next]_vars PROVE IInv'
  OBVIOUS
<1>0. TypeOK /\ CachedInv /\ DownloadInv /\ WholeInv /\ GitInv /\ RevisionInv
  BY DEF IInv
<1>1. ASSUME NEW p \in Runs,
             \/ Step(p) \/ Die(p) \/ FailClone(p) \/ NoMirror(p) \/ EmptyAnswer(p)
             \/ \E o \in OptionSets[p] : Begin(p, o)
      PROVE  IInv'
  <2>1. TypeOK' /\ CachedInv'
    BY <1>0, <1>1, TypeKept
  <2>2. DownloadInv' /\ WholeInv'
    BY <1>0, <1>1, <2>1, DownloadStep, DownloadKept
  <2>3. GitInv'
    <3>1. source' = source
      BY <1>1, SourceSame
    <3>2. ASSUME source = "branch" PROVE GitRepo' /\ \A q \in Runs : GitRun(q)'
      BY <1>0, <1>1, <2>1, <3>2, GitStep DEF GitInv
    <3>3. QED
      BY <3>1, <3>2 DEF GitInv
  <2>4. RevisionInv'
    BY <1>0, <1>1, <2>1, SourceSame, RevisionStep
  <2>5. QED
    BY <2>1, <2>2, <2>3, <2>4 DEF IInv
<1>2. ASSUME Commit \/ InstallClient PROVE IInv'
  BY <1>2, EnvironmentKept
<1>3. ASSUME UNCHANGED vars PROVE IInv'
  <2> USE DEF vars, shared, built, memory
  <2>1. TypeOK' /\ CachedInv'
    BY <1>0, <1>3 DEF TypeOK, CachedInv
  <2>2. DownloadInv' /\ WholeInv'
    BY <1>0, <1>3 DEF DownloadInv, WholeInv, Whole
  <2>3. GitInv'
    BY <1>0, <1>3 DEF GitInv, GitRepo, GitRun, Below
  <2>4. RevisionInv'
    BY <1>0, <1>3 DEF RevisionInv
  <2>5. QED
    BY <2>1, <2>2, <2>3, <2>4 DEF IInv
<1>4. QED
  BY <1>1, <1>2, <1>3 DEF Next

LEMMA Invariance == Spec => []IInv
<1>1. Init => IInv
  BY InitInv
<1>2. IInv /\ [Next]_vars => IInv'
  BY NextInv
<1>3. QED
  BY <1>1, <1>2, PTL DEF Spec

\* downloads/, the packages and the memory of each run have their types, whatever
\* the runs do to one another and wherever they are killed: in particular there
\* is always a name for the next partial file, and git never keeps the checksum
\* of a branch it does not have.
THEOREM TypeCorrect == Spec => []TypeOK
<1>1. IInv => TypeOK
  BY DEF IInv
<1>2. QED
  BY <1>1, Invariance, PTL

\* download_url: any number of runs may fetch the same tarball, and each rename
\* puts a file of one process in place, so that only a fault leaves it incomplete.
THEOREM TarballsAreWhole == Spec => []WholeTarballs
<1>1. IInv => WholeTarballs
  BY DEF IInv, WholeInv, WholeTarballs
<1>2. QED
  BY <1>1, Invariance, PTL

\* Build.build against PackageManager: the header of a branch that agrees with
\* downloads/, and for which nothing is built, is beside a package of that version,
\* and the header of a revision beside a package of the revision.
THEOREM HeadersAreHonest == Spec => []HonestHeader
<1>1. IInv => HonestHeader
  <2> SUFFICES ASSUME IInv, source = "branch", NEW p \in Runs, hdr[p] = repo.head, hdr[p] # None
               PROVE  ball[p] = repo.head
    BY DEF HonestHeader, IInv, RevisionInv
  <2>1. repo.head \in Versions /\ Versions \subseteq Nat
    BY Values DEF IInv, TypeOK
  <2>2. ball[p] \in Versions /\ hdr[p] <= ball[p]
    BY <2>1 DEF IInv, GitInv, GitRun
  <2>3. ball[p] <= repo.head
    BY <2>2 DEF IInv, GitInv, GitRun, Below
  <2>4. repo.head \in Nat /\ ball[p] \in Nat /\ repo.head <= ball[p]
    BY <2>1, <2>2
  <2>5. QED
    BY <2>3, <2>4
<1>2. QED
  BY <1>1, Invariance, PTL

\* Git.download and Git.update_workdir: a run that is online packs nothing older
\* than what was upstream when it began, whoever fetches or loses the clone.
THEOREM BranchesAreTracked == Spec => []TrackBranches
<1>1. IInv => TrackBranches
  <2> SUFFICES ASSUME IInv, source = "branch", NEW p \in Runs, pc[p] = "pack", ~options[p].offline
               PROVE  work[p] >= seen[p]
    BY DEF TrackBranches
  <2>1. GitRun(p) /\ RunTypes(p) /\ Versions \subseteq Nat
    BY TypesOfRun, Values DEF IInv, GitInv
  <2>2. work[p] = cached[p] /\ cached[p] \in Versions /\ cached[p] # None
    BY <2>1, Values DEF GitRun
  <2>3. options[p].offline = FALSE
    BY <2>1 DEF RunTypes
  <2>4. seen[p] <= cached[p]
    BY <2>1, <2>2, <2>3 DEF GitRun
  <2>5. work[p] \in Nat /\ seen[p] \in Nat
    BY <2>1, <2>2 DEF RunTypes
  <2>6. QED
    BY <2>2, <2>4, <2>5
<1>2. QED
  BY <1>1, Invariance, PTL

=============================================================================
