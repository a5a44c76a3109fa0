---------------------------- MODULE ReleaseProofs ----------------------------
(* Theorems about Release, for every program, platform and bound. *)
EXTENDS Release, WellFoundedInduction, TLAPS

-----------------------------------------------------------------------------
(* Build numbers                                                             *)

LEMMA MaxNumbers ==
  ASSUME NEW S, S # {}, NEW k \in Nat, S \subseteq 0..k
  PROVE  Max(S) \in S /\ \A y \in S : y <= Max(S)
<1> DEFINE T == {u \in Nat : \A y \in S : y <= u}
           R == OpToRel(<, Nat)
<1>1. k \in T
  OBVIOUS
<1>2. T \subseteq Nat /\ T # {} /\ IsWellFoundedOn(R, Nat)
  BY <1>1, NatLessThanWellFounded
<1> HIDE DEF R
<1>3. PICK u \in T : \A v \in T : ~(<<v, u>> \in R)
  <2> HIDE DEF T
  <2>1. QED
    BY <1>2, WFMin
<1>4. u \in S
  <2> SUFFICES ASSUME u \notin S PROVE FALSE
    OBVIOUS
  <2>1. \A y \in S : y <= u - 1 /\ y >= 0
    BY <1>3
  <2>2. u - 1 \in Nat
    <3>1. PICK y \in S : TRUE
      OBVIOUS
    <3>2. y \in Nat /\ y <= u - 1 /\ u \in Nat
      BY <1>3, <2>1, <3>1
    <3>3. QED
      BY <3>2
  <2>3. u - 1 \in T
    BY <2>1, <2>2
  <2>4. <<u - 1, u>> \in R
    BY <2>2, <1>3 DEF R, OpToRel
  <2>5. QED
    BY <1>3, <2>3, <2>4
<1>5. \A x, y \in S : x >= y <=> y <= x
  OBVIOUS
<1>6. \E x \in S : \A y \in S : x >= y
  BY <1>3, <1>4, <1>5
<1>7. QED
  BY <1>5, <1>6 DEF Max

\* What a database says of a version bounds the number that is given to the next.
LEMMA NextNumber ==
  ASSUME NEW d, IsDb(d, Numbers), NEW v
  PROVE  /\ NextBuildNumber(d, v) \in Nat
         /\ \A p \in DOMAIN d : \A e \in d[p] :
              e.version = v => e.build < NextBuildNumber(d, v)
<1> DEFINE entries == {e \in UNION {d[p] : p \in DOMAIN d} : e.version = v}
           taken   == {e.build : e \in entries} \cup {0}
<1>1. MaxNumber \in Nat
  BY InstallerAssumption
<1>2. \A e \in entries : e.build \in 0..MaxNumber
  BY DEF IsDb, Entry, Numbers
<1>3. taken \subseteq 0..MaxNumber /\ taken # {}
  BY <1>1, <1>2
<1>4. Max(taken) \in taken /\ \A y \in taken : y <= Max(taken)
  <2> HIDE DEF taken
  <2>1. QED
    BY <1>1, <1>3, MaxNumbers
<1>5. CASE DOMAIN d = {}
  BY <1>5 DEF NextBuildNumber
<1>6. CASE DOMAIN d # {}
  <2>1. NextBuildNumber(d, v) = Max(taken) + 1
    BY <1>6 DEF NextBuildNumber
  <2>2. \A p \in DOMAIN d : \A e \in d[p] : e.version = v => e.build \in taken
    OBVIOUS
  <2>3. Max(taken) \in Nat /\ \A y \in taken : y \in Nat
    BY <1>1, <1>3, <1>4
  <2> HIDE DEF taken
  <2>4. QED
    BY <1>4, <2>1, <2>2, <2>3
<1>7. QED
  BY <1>5, <1>6

\* gib asks with a version that no entry has.
LEMMA GibsNumber ==
  ASSUME NEW u \in Upstreams, IsDb(seen, Numbers)
  PROVE  BuildNumber(u) \in {0, 1}
<1> DEFINE E == {e \in UNION {seen[p] : p \in DOMAIN seen} : e.version = Strings(u)}
<1>1. \A p \in DOMAIN seen : \A e \in seen[p] : e.version # Strings(u)
  BY DEF IsDb, Entry, UrlVersion, Ints, Strings
<1>2. E = {}
  BY <1>1
<1>3. BuildNumber(u) = IF DOMAIN seen = {} THEN 0 ELSE Max({e.build : e \in E} \cup {0}) + 1
  BY DEF BuildNumber, StringToVersion, NextBuildNumber
<1>4. Max({0}) = 0
  BY MaxNumbers
<1>5. QED
  <2> DEFINE N == {e.build : e \in E} \cup {0}
  <2>1. N = {0}
    BY <1>2
  <2>2. BuildNumber(u) = IF DOMAIN seen = {} THEN 0 ELSE Max(N) + 1
    BY <1>3
  <2> HIDE DEF N
  <2>3. QED
    BY <1>4, <2>1, <2>2

-----------------------------------------------------------------------------
(* Types                                                                     *)

StoreType ==
  /\ ball \in [Packages -> Versions \cup {Partial}]
  /\ hdr \in [Packages -> Versions \cup {0}] /\ sum \in [Packages -> Versions \cup {0}]
  /\ gub = <<>> \/ gub \in Jobs
  /\ newest \in [Packages -> Versions \cup {0}]
  /\ builds \in 0..MaxBuilds /\ (gub # <<>> => builds # 0)
Stages == {"idle", "read", "sum", "install", "strip", "create", "bundle", "write", "seal"}
WorkType ==
  /\ pc \in Stages /\ todo \subseteq Packages
  /\ heads \in [Packages -> Versions \cup {0}] /\ made \in [Packages -> Versions \cup {0}]
  /\ sums \in Sums /\ root \in Roots /\ IsDb(seen, Numbers)
OutType == checksum \in Sums \cup {NoSum} /\ uploads \in [Names -> Bundles]
RemoteType ==
  /\ IsDb(db, Numbers) /\ torn \in BOOLEAN
  /\ server \in [Names -> Bundles] /\ others \subseteq Names /\ tags \subseteq Names
  /\ up \in {"idle", "copy", "tag", "refresh", "write"}
  /\ IF up = "idle" THEN release = NoName ELSE release \in Names
  /\ missed \in BOOLEAN
CountType == /\ kills \in 0..MaxKills /\ gibs \in 0..MaxGibs /\ count \in 0..MaxUploads

LEMMA TypeParts == TypeOK <=> StoreType /\ WorkType /\ OutType /\ RemoteType /\ CountType
BY DEF TypeOK, InstallerTypeOK, StoreType, WorkType, OutType, RemoteType, CountType, Stages,
       Sums, Roots

LEMMA NoDbType == IsDb(NoDb, Numbers)
BY DEF IsDb, NoDb

LEMMA InitType == Init => TypeOK
<1> SUFFICES ASSUME Init PROVE TypeOK
  OBVIOUS
<1> USE DEF Init, InstallerInit
<1>1. 1 \in Versions /\ 0 \in 0..MaxBuilds /\ 0 \in 0..MaxKills /\ 0 \in 0..MaxGibs
      /\ 0 \in 0..MaxUploads
  BY InstallerAssumption, ReleaseAssumption DEF Versions
<1>2. StoreType
  BY <1>1 DEF StoreType
<1>3. WorkType
  BY NoDbType DEF WorkType, Stages, Sums, Roots, None, Empty
<1>4. OutType
  BY DEF OutType, Bundles
<1>5. RemoteType /\ CountType
  BY <1>1, NoDbType DEF RemoteType, CountType, Bundles
<1>6. QED
  BY <1>2, <1>3, <1>4, <1>5, TypeParts

\* Who acts, and what the others keep.
GubActs == (\E p \in Packages, v \in Versions : Package(p, v)) \/ GubStep \/ GubKilled
GibActs == \/ Start \/ ReadHeader \/ Resolve \/ ReadSum \/ Match \/ Differ
           \/ Unpack \/ Built \/ Strip \/ Create \/ RemoveBundle \/ CreateBundle
           \/ MoveSetup \/ Written \/ WriteChecksum \/ GibKilled
UploadActs == \/ (\E v \in Upstreams : Upload(v)) \/ Copy \/ Tag \/ Refresh \/ WriteDb
              \/ UploadKilled
              \/ \E n \in Names : OtherUpload(n)

LEMMA Actors ==
  ASSUME [Next]_vars
  PROVE  \/ GubActs /\ UNCHANGED <<work, out, dbfile, upload, remote, missed, count>>
         \/ GibActs /\ UNCHANGED <<store, dbfile, upload, remote, missed, count>>
         \/ UploadActs /\ UNCHANGED <<store, work, out>>
         \/ UNCHANGED vars
<1>1. CASE GubActs /\ UNCHANGED <<upload, remote, missed, count>>
  BY <1>1 DEF GubActs, Package, GubStep, GubKilled
<1>2. CASE GibActs /\ UNCHANGED <<upload, remote, missed, count>>
  <2>1. UNCHANGED <<store, dbfile>>
    BY <1>2 DEF GibActs, Start, ReadHeader, Resolve, ReadSum, Match, Differ, Unpack, Built,
                Strip, Create, RemoveBundle, CreateBundle, MoveSetup, Written, Put,
                WriteChecksum, GibKilled
  <2>2. QED
    BY <1>2, <2>1
<1>3. CASE UploadActs
  BY <1>3 DEF UploadActs, Upload, Copy, Tag, Refresh, WriteDb, UploadKilled, OtherUpload
<1>4. QED
  BY <1>1, <1>2, <1>3 DEF Next, InstallerNext, GubActs, GibActs, UploadActs

LEMMA StoreTypeStep == ASSUME TypeOK, [Next]_vars PROVE StoreType'
<1>0. StoreType
  BY TypeParts
<1>1. CASE \E p \in Packages, v \in Versions : Package(p, v)
  <2>1. PICK p \in Packages, v \in Versions : Package(p, v)
    BY <1>1
  <2>2. /\ ball' \in [Packages -> Versions \cup {Partial}]
        /\ newest' \in [Packages -> Versions \cup {0}]
        /\ builds' \in 0..MaxBuilds /\ builds' # 0
    BY <1>0, <2>1, InstallerAssumption DEF Package, StoreType
  <2>3. gub' \in Jobs
    BY <2>1 DEF Package, Jobs
  <2>4. QED
    BY <1>0, <2>1, <2>2, <2>3 DEF Package, StoreType
<1>2. CASE GubStep
  <2>1. gub \in Jobs /\ gub.pkg \in Packages /\ gub.version \in Versions
    BY <1>0, <1>2 DEF GubStep, StoreType, Jobs
  <2>2. /\ ball' \in [Packages -> Versions \cup {Partial}]
        /\ hdr' \in [Packages -> Versions \cup {0}] /\ sum' \in [Packages -> Versions \cup {0}]
    BY <1>0, <1>2, <2>1 DEF GubStep, StoreType
  <2>3. gub' = <<>> \/ gub' \in Jobs
    BY <1>2, <2>1 DEF GubStep, Jobs
  <2>4. QED
    BY <1>0, <1>2, <2>2, <2>3 DEF GubStep, StoreType
<1>3. CASE GubKilled
  BY <1>0, <1>3, InstallerAssumption DEF GubKilled, StoreType
<1>4. CASE UNCHANGED store
  BY <1>0, <1>4 DEF store, StoreType
<1>5. QED
  BY <1>1, <1>2, <1>3, <1>4, Actors DEF GubActs, vars

LEMMA EndType == ASSUME End, UNCHANGED root, WorkType PROVE WorkType'
BY NoDbType DEF End, WorkType, Stages, Sums, None

LEMMA WorkTypeStep == ASSUME TypeOK, [Next]_vars PROVE WorkType'
<1>0. StoreType /\ WorkType /\ OutType /\ RemoteType
  BY TypeParts
<1>1. CASE Start
  BY <1>0, <1>1 DEF Start, WorkType, RemoteType, Stages
<1>2. CASE ReadHeader
  <2>1. heads' \in [Packages -> Versions \cup {0}] /\ todo' \subseteq Packages
    BY <1>0, <1>2 DEF ReadHeader, WorkType, StoreType
  <2>2. QED
    BY <1>0, <1>2, <2>1 DEF ReadHeader, WorkType
<1>3. CASE Resolve \/ Differ \/ Built
  <2>1. Closure \subseteq Packages
    BY DEF Closure
  <2>2. QED
    BY <1>0, <1>3, <2>1 DEF Resolve, Differ, Built, WorkType, Stages
<1>4. CASE ReadSum
  <2>1. PICK p \in todo :
          IF heads[p] = 0 \/ sum[p] = 0
          THEN End
          ELSE /\ sums' = [sums EXCEPT ![p] = <<heads[p], sum[p]>>]
               /\ todo' = todo \ {p}
               /\ UNCHANGED <<pc, heads, made, seen>>
    BY <1>4 DEF ReadSum
  <2>2. CASE heads[p] = 0 \/ sum[p] = 0
    BY <1>0, <1>4, <2>1, <2>2, EndType DEF ReadSum
  <2>3. CASE ~(heads[p] = 0 \/ sum[p] = 0)
    <3>1. p \in Packages /\ <<heads[p], sum[p]>> \in Versions \X Versions
      BY <1>0, <2>3 DEF WorkType, StoreType
    <3>2. sums' \in Sums
      BY <1>0, <2>1, <2>3, <3>1 DEF WorkType, Sums
    <3>3. QED
      BY <1>0, <1>4, <2>1, <2>3, <3>2 DEF ReadSum, WorkType
  <2>4. QED
    BY <2>2, <2>3
<1>5. CASE Match \/ WriteChecksum \/ GibKilled
  BY <1>0, <1>5, EndType DEF Match, WriteChecksum, GibKilled
<1>6. CASE Unpack
  <2>1. PICK p \in todo :
          IF ball[p] = Partial \/ Contents[p][ball[p]] \cap OwnedAlready # {}
          THEN End /\ UNCHANGED root
          ELSE /\ made' = [made EXCEPT ![p] = ball[p]]
               /\ root' = [f \in Files |-> IF f \in Contents[p][ball[p]]
                                           THEN <<p, ball[p]>> ELSE root[f]]
               /\ todo' = todo \ {p}
               /\ UNCHANGED <<pc, heads, sums, seen>>
    BY <1>6 DEF Unpack
  <2>2. CASE ball[p] = Partial \/ Contents[p][ball[p]] \cap OwnedAlready # {}
    BY <1>0, <1>6, <2>1, <2>2, EndType DEF Unpack
  <2>3. CASE ~(ball[p] = Partial \/ Contents[p][ball[p]] \cap OwnedAlready # {})
    <3>1. p \in Packages /\ ball[p] \in Versions
      BY <1>0, <2>3 DEF WorkType, StoreType
    <3>2. made' \in [Packages -> Versions \cup {0}]
      BY <1>0, <2>1, <2>3, <3>1 DEF WorkType
    <3>3. root' \in Roots
      BY <1>0, <2>1, <2>3, <3>1 DEF WorkType, Roots, Copies
    <3>4. QED
      BY <1>0, <1>6, <2>1, <2>3, <3>2, <3>3 DEF Unpack, WorkType
  <2>4. QED
    BY <2>2, <2>3
<1>7. CASE Strip
  <2>1. root' \in Roots
    BY <1>0, <1>7 DEF Strip, WorkType, Roots
  <2>2. QED
    BY <1>0, <1>7, <2>1 DEF Strip, WorkType, Stages
<1>8. CASE Create \/ RemoveBundle \/ CreateBundle \/ MoveSetup \/ Written
  BY <1>0, <1>8 DEF Create, RemoveBundle, CreateBundle, MoveSetup, Written, Put, WorkType, Stages
<1>9. CASE UNCHANGED work
  BY <1>0, <1>9 DEF work, WorkType
<1>10. QED
  BY <1>1, <1>2, <1>3, <1>4, <1>5, <1>6, <1>7, <1>8, <1>9, Actors DEF GibActs, vars

LEMMA OutTypeStep == ASSUME TypeOK, [Next]_vars PROVE OutType'
<1>0. WorkType /\ OutType
  BY TypeParts
<1>1. ASSUME NEW c \in Bundles, NEW next, Put(c, next) PROVE OutType'
  BY <1>0, <1>1 DEF Put, OutType
<1>2. {NoFile, Partial, root} \subseteq Bundles
  BY <1>0 DEF WorkType, Roots, Bundles
<1>3. CASE Create \/ RemoveBundle \/ CreateBundle \/ MoveSetup \/ Written
  BY <1>1, <1>2, <1>3 DEF Create, RemoveBundle, CreateBundle, MoveSetup, Written
<1>4. CASE WriteChecksum
  BY <1>0, <1>4 DEF WriteChecksum, OutType, WorkType
<1>5. CASE UNCHANGED <<checksum, uploads>>
  BY <1>0, <1>5 DEF OutType
<1>6. CASE \/ Start \/ ReadHeader \/ Resolve \/ ReadSum \/ Match \/ Differ
           \/ Unpack \/ Built \/ Strip \/ GibKilled
  BY <1>5, <1>6 DEF Start, ReadHeader, Resolve, ReadSum, Match, Differ, Unpack, Built, Strip,
                    GibKilled, out
<1>7. QED
  BY <1>3, <1>4, <1>5, <1>6, Actors DEF GibActs, vars, out

LEMMA IndexType ==
  ASSUME RemoteType, NEW p \in Platforms
  PROVE  Index(p) \subseteq {Entry(v, b) : v \in Upstreams, b \in Numbers}
<1>1. ASSUME NEW N \in SUBSET Names
      PROVE  {Entry(n[1], n[2]) : n \in N} \subseteq {Entry(v, b) : v \in Upstreams, b \in Numbers}
  BY DEF Names
<1>2. {n \in Names : server[n] # NoFile} \subseteq Names /\ others \subseteq Names
  BY DEF RemoteType
<1>3. QED
  BY <1>1, <1>2 DEF Index

LEMMA RemoteTypeStep == ASSUME TypeOK, [Next]_vars PROVE RemoteType'
<1>0. OutType /\ RemoteType
  BY TypeParts
<1>1. CASE \E v \in Upstreams : Upload(v)
  <2>1. PICK v \in Upstreams : Upload(v)
    BY <1>1
  <2>2. release' \in Names /\ up' \in {"tag", "copy"}
    BY <2>1 DEF Upload, Names
  <2>3. QED
    BY <1>0, <2>1, <2>2 DEF Upload, RemoteType, remote, dbfile
<1>2. CASE Copy
  <2>1. release \in Names
    BY <1>0, <1>2 DEF Copy, RemoteType
  <2>2. server' \in [Names -> Bundles]
    BY <1>0, <1>2, <2>1 DEF Copy, RemoteType, OutType
  <2>3. QED
    BY <1>0, <1>2, <2>1, <2>2 DEF Copy, EndUpload, RemoteType, dbfile
<1>3. CASE Tag
  <2>1. release \in Names
    BY <1>0, <1>3 DEF Tag, RemoteType
  <2>2. QED
    BY <1>0, <1>3, <2>1 DEF Tag, EndUpload, RemoteType, dbfile
<1>4. CASE Refresh
  <2>1. IsDb(db', Numbers)
    <3>1. CASE db' = db
      BY <1>0, <3>1 DEF RemoteType
    <3>2. CASE db' # db
      <4>1. PICK unread \in SUBSET Platforms :
              db' = Refreshed(db, [p \in Platforms |-> Index(p)], unread)
        BY <1>4, <3>2 DEF Refresh, dbfile
      <4>2. DOMAIN db' = Platforms
        BY <4>1 DEF Refreshed
      <4>3. ASSUME NEW p \in Platforms
            PROVE  db'[p] \subseteq {Entry(v, b) : v \in Upstreams, b \in Numbers}
        <5>1. db'[p] = IF p \notin unread THEN Index(p)
                       ELSE IF p \in DOMAIN db THEN db[p] ELSE {}
          BY <4>1 DEF Refreshed
        <5>2. QED
          BY <1>0, <5>1, IndexType DEF RemoteType, IsDb
      <4>4. QED
        BY <4>2, <4>3 DEF IsDb
    <3>3. QED
      BY <3>1, <3>2
  <2>2. release \in Names
    BY <1>0, <1>4 DEF Refresh, RemoteType
  <2>3. QED
    BY <1>0, <1>4, <2>1, <2>2 DEF Refresh, EndUpload, RemoteType, remote, dbfile
<1>5. CASE WriteDb \/ UploadKilled \/ \E n \in Names : OtherUpload(n)
  BY <1>0, <1>5 DEF WriteDb, UploadKilled, OtherUpload, EndUpload, RemoteType, remote, upload, dbfile
<1>6. CASE UNCHANGED <<dbfile, upload, remote, missed>>
  BY <1>0, <1>6 DEF RemoteType, upload, remote, dbfile
<1>7. QED
  BY <1>1, <1>2, <1>3, <1>4, <1>5, <1>6, Actors DEF UploadActs, vars

LEMMA CountTypeStep == ASSUME TypeOK, [Next]_vars PROVE CountType'
<1>0. CountType /\ MaxKills \in Nat /\ MaxGibs \in Nat /\ MaxUploads \in Nat
  BY TypeParts, InstallerAssumption, ReleaseAssumption
<1> USE DEF CountType
<1>1. CASE GubActs /\ UNCHANGED <<work, out, dbfile, upload, remote, missed, count>>
  BY <1>0, <1>1 DEF GubActs, Package, GubStep, GubKilled
<1>2. CASE GibActs /\ UNCHANGED <<store, dbfile, upload, remote, missed, count>>
  <2>1. CASE Start \/ GibKilled
    BY <1>0, <1>2, <2>1 DEF Start, GibKilled
  <2>2. CASE ReadHeader \/ Resolve \/ ReadSum \/ Match \/ Differ \/ Unpack \/ Built
    BY <1>0, <1>2, <2>2 DEF ReadHeader, Resolve, ReadSum, Match, Differ, Unpack, Built
  <2>3. CASE Strip \/ Create \/ RemoveBundle \/ CreateBundle \/ MoveSetup \/ Written \/ WriteChecksum
    BY <1>0, <1>2, <2>3 DEF Strip, Create, RemoveBundle, CreateBundle, MoveSetup, Written, Put,
                            WriteChecksum
  <2>4. QED
    BY <1>2, <2>1, <2>2, <2>3 DEF GibActs
<1>3. CASE UploadActs
  <2>1. CASE (\E v \in Upstreams : Upload(v)) \/ \E n \in Names : OtherUpload(n)
    <3>1. count < MaxUploads /\ count' = count + 1 /\ UNCHANGED <<kills, gibs>>
      BY <2>1 DEF Upload, OtherUpload
    <3>2. QED
      BY <1>0, <3>1
  <2>2. CASE Copy \/ Tag \/ Refresh \/ WriteDb
    BY <1>0, <2>2 DEF Copy, Tag, Refresh, WriteDb
  <2>3. CASE UploadKilled
    BY <1>0, <2>3 DEF UploadKilled
  <2>4. QED
    BY <1>3, <2>1, <2>2, <2>3 DEF UploadActs
<1>4. CASE UNCHANGED vars
  BY <1>0, <1>4 DEF vars
<1>5. QED
  BY <1>1, <1>2, <1>3, <1>4, Actors

LEMMA TypeStep == ASSUME TypeOK, [Next]_vars PROVE TypeOK'
<1>1. StoreType' /\ WorkType' /\ OutType' /\ RemoteType' /\ CountType'
  BY StoreTypeStep, WorkTypeStep, OutTypeStep, RemoteTypeStep, CountTypeStep
<1>2. QED
  BY <1>1, TypeParts, PTL

-----------------------------------------------------------------------------
(* Installers on the server                                                  *)

\* While nothing has been missed, the database has every installer of Platform
\* on the server but for the one whose release is not over; and what is about to
\* be copied is not there.
PublishInv ==
  ~missed =>
    /\ \A n \in Names : server[n] # NoFile =>
         \/ Platform \in DOMAIN db /\ Entry(n[1], n[2]) \in db[Platform]
         \/ up \in {"tag", "refresh"} /\ release = n
    /\ up = "copy" => server[release] = NoFile

LEMMA PublishInit == Init => PublishInv
BY DEF Init, PublishInv

LEMMA PublishStep == ASSUME TypeOK, PublishInv, [Next]_vars PROVE PublishInv'
<1>0. RemoteType
  BY TypeParts
<1>1. CASE \E v \in Upstreams : Upload(v)
  <2>1. PICK v \in Upstreams : Upload(v)
    BY <1>1
  <2> DEFINE k == NextBuildNumber(db, Ints(v))
             n == <<v, k>>
  <2>2. up = "idle" /\ n \in Names /\ release' = n /\ UNCHANGED <<db, server, missed>>
    BY <2>1 DEF Upload, Names, remote, dbfile
  <2>3. ~missed => server[n] = NoFile
    <3> SUFFICES ASSUME ~missed, server[n] # NoFile PROVE FALSE
      OBVIOUS
    <3>1. Platform \in DOMAIN db /\ Entry(v, k) \in db[Platform]
      BY <2>2 DEF PublishInv
    <3>2. Entry(v, k).version = Ints(v) /\ Entry(v, k).build = k
      BY DEF Entry, UrlVersion
    <3>3. k \in Nat /\ k < k
      BY <1>0, <3>1, <3>2, NextNumber DEF RemoteType
    <3>4. QED
      BY <3>3
  <2>4. QED
    BY <2>2, <2>3 DEF PublishInv
<1>2. CASE Copy
  <2>1. up = "copy" /\ UNCHANGED <<missed, db>>
    BY <1>2 DEF Copy, dbfile
  <2>2. CASE uploads[release] = NoFile
    BY <1>2, <2>1, <2>2 DEF Copy, EndUpload, PublishInv
  <2>3. CASE uploads[release] # NoFile
    <3>1. up' = "tag" /\ release' = release /\ server' = [server EXCEPT ![release] = uploads[release]]
      BY <1>2, <2>3 DEF Copy
    <3>2. \A n \in Names : server'[n] # NoFile => server[n] # NoFile \/ release = n
      BY <1>0, <3>1 DEF RemoteType
    <3>3. QED
      BY <2>1, <3>1, <3>2 DEF PublishInv
  <2>4. QED
    BY <2>2, <2>3
<1>3. CASE Tag
  BY <1>3 DEF Tag, EndUpload, PublishInv, dbfile
<1>4. CASE Refresh
  <2>1. up' \in {"idle", "write"} /\ server' = server
    BY <1>4 DEF Refresh, EndUpload, remote
  <2>2. CASE missed'
    BY <2>2 DEF PublishInv
  <2>3. CASE ~missed'
    <3>1. db' = Refreshed(db, [p \in Platforms |-> Index(p)], {})
      BY <1>0, <1>4, <2>3 DEF Refresh, RemoteType
    <3>2. db' = [p \in Platforms |-> Index(p)]
      BY <3>1 DEF Refreshed
    <3>3. \A n \in Names : server[n] # NoFile =>
            Platform \in DOMAIN db' /\ Entry(n[1], n[2]) \in db'[Platform]
      BY <3>2, ReleaseAssumption DEF Index
    <3>4. QED
      BY <2>1, <3>3 DEF PublishInv
  <2>4. QED
    BY <2>2, <2>3
<1>5. CASE WriteDb \/ UploadKilled
  BY <1>5 DEF WriteDb, UploadKilled, EndUpload, PublishInv, remote
<1>6. CASE UNCHANGED <<dbfile, upload, server, missed>>
  BY <1>6 DEF PublishInv, upload, dbfile
<1>7. QED
  BY <1>1, <1>2, <1>3, <1>4, <1>5, <1>6, Actors DEF UploadActs, OtherUpload, vars, remote

-----------------------------------------------------------------------------
(* Whole installers                                                          *)

\* What is installed is in the root, except what gone has been stripped.
InRoot(gone) ==
  \A p \in Packages : made[p] # 0 =>
    \A f \in Contents[p][made[p]] : f \in gone \/ root[f] = <<p, made[p]>>
WholeInv ==
  /\ pc \in {"idle", "read", "sum"} => \A p \in Packages : made[p] = 0
  /\ pc = "sum" => \A p \in Closure : p \in todo \/ heads[p] # 0
  /\ pc \notin {"idle", "read", "sum"} => heads[Main] # 0
  /\ pc = "install" => \A p \in Packages : p \in todo <=> p \in Closure /\ made[p] = 0
  /\ pc \notin {"idle", "read", "sum", "install"} => \A p \in Closure : made[p] # 0
  /\ pc \in {"install", "strip"} => InRoot({})
  /\ pc \in {"create", "bundle", "write", "seal"} => InRoot(Stripped)
  /\ pc = "seal" => uploads[Name] = root

LEMMA ClosureKept == ASSUME UNCHANGED heads PROVE Closure' = Closure
BY DEF Closure, NeededBy

LEMMA MainNeeded == Main \in Closure
BY InstallerAssumption DEF Closure

LEMMA NameType ==
  ASSUME WorkType, heads[Main] # 0
  PROVE  Name \in Names
<1>1. UpstreamOf[heads[Main]] \in Upstreams
  BY InstallerAssumption DEF WorkType
<1>2. IsDb(seen, Numbers) /\ MaxNumber \in Nat \ {0}
  BY InstallerAssumption DEF WorkType
<1>3. BuildNumber(UpstreamOf[heads[Main]]) \in Numbers
  BY <1>1, <1>2, GibsNumber DEF Numbers
<1>4. QED
  BY <1>1, <1>3 DEF Name, Names

LEMMA WholeInit == Init => WholeInv
BY DEF Init, InstallerInit, WholeInv, None

LEMMA WholeEnd == ASSUME End PROVE WholeInv'
BY DEF End, None, WholeInv

LEMMA WholeStep == ASSUME TypeOK, WholeInv, [Next]_vars PROVE WholeInv'
<1>0. StoreType /\ WorkType /\ OutType
  BY TypeParts
<1>1. CASE Start
  BY <1>1 DEF Start, WholeInv
<1>2. CASE ReadHeader
  BY <1>2 DEF ReadHeader, WholeInv
<1>3. CASE Resolve
  <2>1. Closure' = Closure
    BY <1>3, ClosureKept DEF Resolve
  <2>2. QED
    BY <1>3, <2>1 DEF Resolve, WholeInv
<1>4. CASE ReadSum
  <2>1. PICK p \in todo :
          IF heads[p] = 0 \/ sum[p] = 0
          THEN End
          ELSE todo' = todo \ {p} /\ UNCHANGED <<pc, heads, made, seen>>
    BY <1>4 DEF ReadSum
  <2>2. CASE End
    BY <2>2, WholeEnd
  <2>3. CASE ~End
    <3>1. heads[p] # 0 /\ todo' = todo \ {p} /\ UNCHANGED <<pc, heads, made, seen>>
      BY <2>1, <2>3
    <3>2. Closure' = Closure
      BY <3>1, ClosureKept
    <3>3. QED
      BY <1>4, <3>1, <3>2 DEF ReadSum, WholeInv
  <2>4. QED
    BY <2>2, <2>3
<1>5. CASE Match \/ WriteChecksum \/ GibKilled
  BY <1>5, WholeEnd DEF Match, WriteChecksum, GibKilled
<1>6. CASE Differ
  <2>1. Closure' = Closure
    BY <1>6, ClosureKept DEF Differ
  <2>2. Closure \subseteq Packages
    BY DEF Closure
  <2>3. InRoot({})'
    BY <1>6 DEF Differ, WholeInv, InRoot
  <2>4. QED
    BY <1>6, <2>1, <2>2, <2>3, MainNeeded DEF Differ, WholeInv
<1>7. CASE Unpack
  <2>1. PICK p \in todo :
          IF ball[p] = Partial \/ Contents[p][ball[p]] \cap OwnedAlready # {}
          THEN End /\ UNCHANGED root
          ELSE /\ made' = [made EXCEPT ![p] = ball[p]]
               /\ root' = [f \in Files |-> IF f \in Contents[p][ball[p]]
                                           THEN <<p, ball[p]>> ELSE root[f]]
               /\ todo' = todo \ {p}
               /\ UNCHANGED <<pc, heads, sums, seen>>
    BY <1>7 DEF Unpack
  <2>2. CASE End
    BY <2>2, WholeEnd
  <2>3. CASE ~End
    <3>1. /\ ball[p] # Partial /\ Contents[p][ball[p]] \cap OwnedAlready = {}
          /\ made' = [made EXCEPT ![p] = ball[p]]
          /\ root' = [f \in Files |-> IF f \in Contents[p][ball[p]]
                                      THEN <<p, ball[p]>> ELSE root[f]]
          /\ todo' = todo \ {p}
          /\ UNCHANGED <<pc, heads, sums, seen>>
      BY <2>1, <2>3
    <3>2. p \in Packages /\ ball[p] \in Versions /\ ball[p] # 0
      BY <1>0, <3>1 DEF WorkType, StoreType, Versions
    <3>3. Closure' = Closure
      BY <3>1, ClosureKept
    <3>4. pc = "install" /\ pc' = "install"
      BY <1>7, <3>1 DEF Unpack
    <3>5. made'[p] = ball[p] /\ \A q \in Packages : q # p => made'[q] = made[q]
      BY <1>0, <3>1, <3>2 DEF WorkType
    <3>6. \A q \in Packages : q \in todo' <=> q \in Closure /\ made'[q] = 0
      BY <3>1, <3>2, <3>4, <3>5 DEF WholeInv
    <3>7. InRoot({})'
      <4> SUFFICES ASSUME NEW q \in Packages, made'[q] # 0, NEW f \in Contents[q][made'[q]]
                   PROVE  root'[f] = <<q, made'[q]>>
        BY DEF InRoot
      <4>1. f \in Files
        <5>1. made'[q] \in Versions
          BY <1>0, <3>2, <3>5 DEF WorkType
        <5>2. QED
          BY <5>1, InstallerAssumption
      <4>2. CASE q = p
        BY <3>1, <3>5, <4>1, <4>2
      <4>3. CASE q # p
        <5>1. made[q] # 0 /\ f \in Contents[q][made[q]] /\ made'[q] = made[q]
          BY <3>5, <4>3
        <5>2. f \in OwnedAlready
          BY <5>1 DEF OwnedAlready
        <5>3. root[f] = <<q, made[q]>>
          BY <3>4, <5>1 DEF WholeInv, InRoot
        <5>4. QED
          BY <3>1, <4>1, <5>1, <5>2, <5>3
      <4>4. QED
        BY <4>2, <4>3
    <3>8. QED
      BY <3>1, <3>3, <3>4, <3>6, <3>7 DEF WholeInv
  <2>4. QED
    BY <2>2, <2>3
<1>8. CASE Built
  <2>1. Closure' = Closure
    BY <1>8, ClosureKept DEF Built
  <2>2. InRoot({})' = InRoot({})
    BY <1>8 DEF Built, InRoot
  <2>3. Closure \subseteq Packages
    BY DEF Closure
  <2>4. QED
    BY <1>8, <2>1, <2>2, <2>3 DEF Built, WholeInv
<1>9. CASE Strip
  <2>1. Closure' = Closure
    BY <1>9, ClosureKept DEF Strip
  <2>2. InRoot(Stripped)'
    <3> SUFFICES ASSUME NEW q \in Packages, made[q] # 0, NEW f \in Contents[q][made[q]],
                        f \notin Stripped
                 PROVE  root'[f] = <<q, made[q]>>
      BY <1>9 DEF Strip, InRoot
    <3>1. f \in Files
      BY <1>0, InstallerAssumption DEF WorkType
    <3>2. root[f] = <<q, made[q]>>
      BY <1>9 DEF Strip, WholeInv, InRoot
    <3>3. QED
      BY <1>9, <3>1, <3>2 DEF Strip
  <2>3. QED
    BY <1>9, <2>1, <2>2 DEF Strip, WholeInv
<1>10. ASSUME NEW c, NEW next \in {"bundle", "write", "seal"}, Put(c, next),
              pc \in {"create", "bundle", "write"}, next = "seal" => c = root
       PROVE  WholeInv'
  <2>1. /\ pc' = next /\ uploads' = [uploads EXCEPT ![Name] = c]
        /\ UNCHANGED <<heads, made, seen, root>>
    BY <1>10 DEF Put
  <2>2. Closure' = Closure /\ Name' = Name
    BY <2>1, ClosureKept DEF Name, BuildNumber
  <2>3. heads[Main] # 0 /\ (\A p \in Closure : made[p] # 0) /\ InRoot(Stripped)
    BY <1>10 DEF WholeInv
  <2>4. uploads'[Name] = c
    BY <1>0, <2>1, <2>3, NameType DEF OutType
  <2>5. InRoot(Stripped)'
    BY <2>1, <2>3 DEF InRoot
  <2>6. QED
    BY <1>10, <2>1, <2>2, <2>3, <2>4, <2>5 DEF WholeInv
<1>11. CASE Create \/ RemoveBundle \/ CreateBundle \/ MoveSetup \/ Written
  BY <1>10, <1>11 DEF Create, RemoveBundle, CreateBundle, MoveSetup, Written
<1>12. CASE UNCHANGED <<work, out>>
  <2>1. UNCHANGED <<pc, todo, heads, made, seen, root, uploads>>
    BY <1>12 DEF work, out
  <2>2. Closure' = Closure /\ Name' = Name
    BY <2>1, ClosureKept DEF Name, BuildNumber
  <2>3. InRoot({})' = InRoot({}) /\ InRoot(Stripped)' = InRoot(Stripped)
    BY <2>1 DEF InRoot
  <2>4. QED
    BY <2>1, <2>2, <2>3 DEF WholeInv
<1>13. QED
  BY <1>1, <1>2, <1>3, <1>4, <1>5, <1>6, <1>7, <1>8, <1>9, <1>11, <1>12, Actors
  DEF GibActs, vars

-----------------------------------------------------------------------------
(* Matching checksums                                                        *)

\* What Main needs, by the headers h.
ClosureOf(h) == {p \in Packages : \A S \in SUBSET Packages :
  Main \in S /\ (\A q \in S : (IF h[q] = 0 THEN {} ELSE Needs[q][h[q]]) \subseteq S) => p \in S}
Summed(s) == {p \in Packages : s[p] # NoSum}

\* A package whose checksum file is that of its newest version is finished, and
\* gub is not at work on it.
BallInv ==
  /\ \A p \in Packages : newest[p] # 0 =>
       /\ sum[p] <= newest[p]
       /\ sum[p] = newest[p] => /\ ball[p] = newest[p] /\ hdr[p] = newest[p]
                                /\ gub # <<>> => gub.pkg # p
  /\ gub # <<>> =>
       /\ newest[gub.pkg] \in {0, gub.version}
       /\ gub.next # "ball" => ball[gub.pkg] = gub.version
       /\ gub.next \in {"move", "checksum"} => hdr[gub.pkg] = gub.version

\* What gib has read; where it is the newest it is still true, and what is
\* unpacked is of that version.
SumInv ==
  /\ Summed(sums) = IF pc \in {"idle", "read"} THEN {}
                    ELSE IF pc = "sum" THEN Closure \ todo ELSE Closure
  /\ pc = "sum" => todo \subseteq Closure
  /\ \A p \in Packages : heads[p] # 0 => <<p, heads[p]>> \in Accepted
  /\ \A p \in Summed(sums) :
       /\ sums[p][1] = heads[p] /\ heads[p] # 0
       /\ newest[p] # 0 => sums[p][2] <= newest[p]
       /\ newest[p] # 0 /\ sums[p][2] = newest[p] =>
            sum[p] = newest[p] /\ made[p] \in {0, newest[p]}

\* While the checksums in the installer's checksum file are of the newest
\* versions, gib, when it reads, reads just these and builds nothing, and the
\* installer they were written for is there.
Unsurpassed == checksum # NoSum
               /\ \A p \in Summed(checksum) : checksum[p] = <<newest[p], newest[p]>>
Holds(contents) ==
  /\ contents \in Roots
  /\ \A p \in Summed(checksum) : \A f \in Contents[p][newest[p]] \ Stripped :
       contents[f] = <<p, newest[p]>>
SealInv ==
  /\ checksum # NoSum =>
       \A p \in Summed(checksum) : newest[p] # 0 => checksum[p][2] <= newest[p]
  /\ Unsurpassed =>
       /\ Summed(checksum) = ClosureOf(newest)
       /\ \A p \in Summed(checksum) : <<p, newest[p]>> \in Accepted /\ sum[p] = newest[p]
       /\ pc \in {"idle", "read", "sum"}
       /\ pc = "read" => \A p \in Summed(checksum) \ todo : heads[p] = newest[p]
       /\ pc = "sum" => \A p \in Summed(checksum) :
            heads[p] = newest[p] /\ (p \in todo \/ sums[p] = checksum[p])
       /\ \E n \in Names : Holds(uploads[n])

\* Headers that agree on what is needed say the same is needed.
LEMMA ClosureAgrees ==
  ASSUME NEW h \in [Packages -> Versions \cup {0}], NEW k, \A p \in ClosureOf(h) : h[p] = k[p]
  PROVE  ClosureOf(k) = ClosureOf(h)
<1> DEFINE Closed(g, S) == Main \in S /\ \A q \in S :
                             (IF g[q] = 0 THEN {} ELSE Needs[q][g[q]]) \subseteq S
<1>1. ASSUME NEW g PROVE ClosureOf(g) = {p \in Packages : \A S \in SUBSET Packages : Closed(g, S) => p \in S}
  BY DEF ClosureOf
<1>2. Closed(h, ClosureOf(h))
  <2>1. Main \in ClosureOf(h)
    BY InstallerAssumption DEF ClosureOf
  <2>2. ASSUME NEW q \in ClosureOf(h),
               NEW r \in (IF h[q] = 0 THEN {} ELSE Needs[q][h[q]])
        PROVE  r \in ClosureOf(h)
    <3>1. q \in Packages /\ h[q] \in Versions
      BY <2>2 DEF ClosureOf
    <3>2. r \in Packages
      BY InstallerAssumption, <2>2, <3>1
    <3>3. ASSUME NEW S \in SUBSET Packages, Closed(h, S) PROVE r \in S
      BY <1>1, <2>2, <3>3
    <3>4. QED
      BY <1>1, <3>2, <3>3
  <2>3. QED
    BY <2>1, <2>2
<1>3. Closed(k, ClosureOf(h))
  BY <1>2
<1>4. ClosureOf(k) \subseteq ClosureOf(h)
  <2>1. ClosureOf(h) \in SUBSET Packages
    BY <1>1
  <2>2. QED
    BY <1>1, <1>3, <2>1
<1>5. ASSUME NEW p \in ClosureOf(h) PROVE p \in ClosureOf(k)
  <2>1. ASSUME NEW S \in SUBSET Packages, Closed(k, S) PROVE p \in S
    <3> DEFINE T == S \cap ClosureOf(h)
    <3>1. Closed(h, T)
      BY <1>2, <2>1
    <3>2. T \in SUBSET Packages
      OBVIOUS
    <3>3. p \in T
      BY <1>1, <1>5, <3>1, <3>2
    <3>4. QED
      BY <3>3
  <2>2. p \in Packages
    BY <1>1, <1>5
  <2>3. QED
    BY <1>1, <2>1, <2>2
<1>6. QED
  BY <1>4, <1>5

LEMMA HeadsClosure == Closure = ClosureOf(heads)
BY DEF Closure, ClosureOf, NeededBy

LEMMA VersionNumbers ==
  /\ \A v \in Versions \cup {0} : v \in Nat
  /\ StoreType => \A p \in Packages : newest[p] \in Nat /\ sum[p] \in Nat
<1>1. \A v \in Versions \cup {0} : v \in Nat
  BY DEF Versions
<1>2. QED
  BY <1>1 DEF StoreType

LEMMA BallInit == Init => BallInv
BY DEF Init, InstallerInit, BallInv

\* The newest version is known until a package goes back to an older one.
LEMMA NewestStep ==
  ASSUME TypeOK, [Next]_vars, NEW p \in Packages
  PROVE  \/ newest'[p] = newest[p] \/ newest'[p] = 0
         \/ newest[p] # 0 /\ newest'[p] > newest[p]
<1>0. StoreType /\ Versions \subseteq Nat
  BY TypeParts DEF Versions
<1>1. CASE \E q \in Packages, v \in Versions : Package(q, v)
  <2>1. PICK q \in Packages, v \in Versions : Package(q, v)
    BY <1>1
  <2>2. newest' = [newest EXCEPT ![q] = IF v < @ THEN 0 ELSE IF @ = 0 THEN 0 ELSE v]
    BY <2>1 DEF Package
  <2>3. newest \in [Packages -> Versions \cup {0}]
    BY <1>0 DEF StoreType
  <2>4. newest[q] \in Nat /\ v \in Nat
    BY <1>0, VersionNumbers
  <2>5. QED
    BY <2>2, <2>3, <2>4
<1>2. CASE newest' = newest
  BY <1>2
<1>3. QED
  BY <1>1, <1>2, Actors DEF GubActs, GubStep, GubKilled, store, vars

LEMMA BallStep == ASSUME TypeOK, BallInv, [Next]_vars PROVE BallInv'
<1>0. StoreType /\ Versions \subseteq Nat \ {0}
  BY TypeParts DEF Versions
<1>1. CASE \E p \in Packages, v \in Versions : Package(p, v)
  <2>1. PICK p \in Packages, v \in Versions : Package(p, v)
    BY <1>1
  <2>2. /\ gub = <<>> /\ (v # hdr[p] \/ v # sum[p]) /\ v \in Nat \ {0}
        /\ newest'[p] = IF v < newest[p] THEN 0 ELSE IF newest[p] = 0 THEN 0 ELSE v
        /\ gub' = [pkg |-> p, version |-> v, next |-> "ball"]
        /\ hdr' = hdr /\ sum' = sum
        /\ \A q \in Packages : q # p => newest'[q] = newest[q] /\ ball'[q] = ball[q]
    BY <1>0, <2>1 DEF Package, StoreType
  <2>0. newest[p] \in Nat /\ sum[p] \in Nat
    BY <1>0, VersionNumbers
  <2>3. newest'[p] # 0 => sum[p] < newest'[p]
    BY <2>0, <2>2 DEF BallInv
  <2>4. ASSUME NEW q \in Packages, newest'[q] # 0
        PROVE  /\ sum'[q] <= newest'[q]
               /\ sum'[q] = newest'[q] => /\ ball'[q] = newest'[q] /\ hdr'[q] = newest'[q]
                                          /\ gub' # <<>> => gub'.pkg # q
    <3>1. CASE q = p
      BY <2>0, <2>2, <2>3, <2>4, <3>1
    <3>2. CASE q # p
      BY <2>2, <2>4, <3>2 DEF BallInv
    <3>3. QED
      BY <3>1, <3>2
  <2>5. newest'[gub'.pkg] \in {0, gub'.version} /\ gub'.next = "ball"
    BY <2>2
  <2>6. QED
    BY <2>4, <2>5 DEF BallInv
<1>2. CASE GubStep
  <2> DEFINE p == gub.pkg
  <2>1. /\ gub # <<>> /\ newest' = newest
        /\ gub \in [pkg : Packages, version : Versions, next : {"ball", "header", "move", "checksum"}]
    BY <1>0, <1>2 DEF GubStep, StoreType, Jobs
  <2>2. p \in Packages /\ newest[p] \in {0, gub.version} /\ gub.version \in Nat \ {0}
        /\ (newest[p] # 0 => sum[p] # newest[p])
    BY <1>0, <2>1 DEF BallInv
  <2>3. \A q \in Packages : q # p => ball'[q] = ball[q] /\ hdr'[q] = hdr[q] /\ sum'[q] = sum[q]
    BY <1>0, <1>2 DEF GubStep, StoreType
  <2>4. gub' # <<>> => gub'.pkg = p /\ gub'.version = gub.version
    BY <1>2, <2>1 DEF GubStep
  <2>5. \A q \in Packages : q # p /\ newest'[q] # 0 =>
          /\ sum'[q] <= newest'[q]
          /\ sum'[q] = newest'[q] => /\ ball'[q] = newest'[q] /\ hdr'[q] = newest'[q]
                                     /\ gub' # <<>> => gub'.pkg # q
    BY <2>1, <2>3, <2>4 DEF BallInv
  <2>6. CASE gub.next = "checksum"
    <3>1. gub' = <<>> /\ sum'[p] = gub.version /\ ball'[p] = gub.version /\ hdr'[p] = gub.version
      BY <1>0, <1>2, <2>2, <2>6 DEF GubStep, StoreType, BallInv
    <3>2. QED
      BY <2>1, <2>2, <2>5, <3>1 DEF BallInv
  <2>7. CASE gub.next # "checksum"
    <3>1. sum'[p] \in {0, sum[p]}
      BY <1>0, <1>2, <2>2, <2>7 DEF GubStep, StoreType
    <3>2. newest'[p] # 0 => sum'[p] <= newest'[p] /\ sum'[p] # newest'[p]
      BY <2>1, <2>2, <3>1 DEF BallInv
    <3>3. /\ gub'.next \in {"header", "move", "checksum"} /\ ball'[p] = gub.version
          /\ gub'.next \in {"move", "checksum"} => hdr'[p] = gub.version
      BY <1>0, <1>2, <2>1, <2>2, <2>7 DEF GubStep, StoreType, BallInv
    <3>4. QED
      BY <2>1, <2>2, <2>4, <2>5, <3>2, <3>3 DEF BallInv
  <2>8. QED
    BY <2>6, <2>7
<1>3. CASE GubKilled
  BY <1>3 DEF GubKilled, BallInv
<1>4. CASE UNCHANGED store
  BY <1>4 DEF store, BallInv
<1>5. QED
  BY <1>1, <1>2, <1>3, <1>4, Actors DEF GubActs, vars

\* As long as nothing newer is made, the checksum file of a newest version stays.
LEMMA SumKept ==
  ASSUME TypeOK, BallInv, [Next]_vars, NEW p \in Packages,
         newest[p] # 0, sum[p] = newest[p]
  PROVE  sum'[p] = newest[p]
<1>1. CASE GubStep
  BY <1>1, TypeParts DEF GubStep, StoreType, BallInv
<1>2. CASE sum' = sum
  BY <1>2
<1>3. QED
  BY <1>1, <1>2, Actors DEF GubActs, Package, GubKilled, store, vars

LEMMA SumInit == Init => SumInv
BY DEF Init, InstallerInit, SumInv, Summed, None

LEMMA SumEnd == ASSUME End PROVE SumInv'
<1>1. /\ pc' = "idle" /\ \A p \in Packages : heads'[p] = 0 /\ sums'[p] = NoSum
  BY DEF End, None
<1>2. Summed(sums)' = {}
  BY <1>1 DEF Summed
<1>3. QED
  BY <1>1, <1>2 DEF SumInv

LEMMA SumStep == ASSUME TypeOK, WholeInv, BallInv, SumInv, [Next]_vars PROVE SumInv'
<1>0. StoreType /\ WorkType /\ Versions \subseteq Nat \ {0} /\ NoSum \notin Versions \X Versions
  BY TypeParts, InstallerAssumption DEF Versions
<1> DEFINE Read(p) == /\ sums[p][1] = heads[p] /\ heads[p] # 0
                      /\ newest[p] # 0 => sums[p][2] <= newest[p]
                      /\ newest[p] # 0 /\ sums[p][2] = newest[p] =>
                           sum[p] = newest[p] /\ made[p] \in {0, newest[p]}
<1>1. CASE UNCHANGED work
  <2>1. UNCHANGED <<pc, todo, heads, sums, made>>
    BY <1>1 DEF work
  <2>2. Closure' = Closure /\ Summed(sums)' = Summed(sums)
    BY <2>1, ClosureKept DEF Summed
  <2>3. ASSUME NEW p \in Summed(sums) PROVE Read(p)'
    <3>1. p \in Packages /\ sums[p] \in Versions \X Versions
      BY <1>0, <2>3 DEF Summed, WorkType, Sums
    <3>2. sums[p][2] \in Nat /\ newest[p] \in Nat
      BY <1>0, <3>1, VersionNumbers
    <3>3. Read(p)
      BY <2>3 DEF SumInv
    <3>4. newest'[p] = newest[p] \/ newest'[p] = 0 \/ (newest[p] # 0 /\ newest'[p] > newest[p])
      BY <3>1, NewestStep
    <3>5. newest[p] # 0 /\ sum[p] = newest[p] => sum'[p] = newest[p]
      BY <3>1, SumKept
    <3>6. newest'[p] \in Nat
      <4>1. newest' \in [Packages -> Versions \cup {0}]
        BY StoreTypeStep DEF StoreType
      <4>2. newest'[p] \in Versions \cup {0}
        BY <3>1, <4>1
      <4>3. QED
        BY <4>2, VersionNumbers
    <3> HIDE DEF Read
    <3>7. CASE newest'[p] = newest[p]
      BY <2>1, <3>2, <3>3, <3>5, <3>7 DEF Read
    <3>8. CASE newest'[p] = 0
      BY <2>1, <3>2, <3>3, <3>8 DEF Read
    <3>9. CASE newest[p] # 0 /\ newest'[p] > newest[p]
      BY <2>1, <3>2, <3>3, <3>6, <3>9 DEF Read
    <3>10. QED
      BY <3>4, <3>7, <3>8, <3>9
  <2>4. QED
    BY <2>1, <2>2, <2>3 DEF SumInv
<1>2. CASE Start
  BY <1>2 DEF Start, SumInv, Summed
<1>3. CASE ReadHeader
  <2>1. PICK p \in todo :
          heads' = [heads EXCEPT ![p] = IF <<p, hdr[p]>> \in Accepted THEN hdr[p] ELSE 0]
    BY <1>3 DEF ReadHeader
  <2>2. \A q \in Packages : heads'[q] # 0 => <<q, heads'[q]>> \in Accepted
    BY <1>0, <2>1 DEF WorkType, SumInv
  <2>3. QED
    BY <1>3, <2>2 DEF ReadHeader, SumInv, Summed
<1>4. CASE Resolve \/ Differ \/ Built
  <2>1. UNCHANGED <<heads, sums, made, store>>
    BY <1>4 DEF Resolve, Differ, Built
  <2>2. UNCHANGED <<newest, sum>>
    BY <2>1 DEF store
  <2>3. Closure' = Closure /\ Summed(sums)' = Summed(sums)
    BY <2>1, ClosureKept DEF Summed
  <2>4. QED
    BY <1>4, <2>1, <2>2, <2>3 DEF Resolve, Differ, Built, SumInv
<1>5. CASE ReadSum
  <2>1. PICK p \in todo :
          IF heads[p] = 0 \/ sum[p] = 0
          THEN End
          ELSE /\ sums' = [sums EXCEPT ![p] = <<heads[p], sum[p]>>]
               /\ todo' = todo \ {p}
               /\ UNCHANGED <<pc, heads, made, seen>>
    BY <1>5 DEF ReadSum
  <2>2. CASE heads[p] = 0 \/ sum[p] = 0
    BY <2>1, <2>2, SumEnd
  <2>3. CASE ~(heads[p] = 0 \/ sum[p] = 0)
    <3>1. /\ pc = "sum" /\ p \in Packages /\ <<heads[p], sum[p]>> \in Versions \X Versions
          /\ UNCHANGED <<newest, sum>>
      BY <1>0, <1>5, <2>3 DEF WorkType, StoreType, ReadSum, store
    <3>2. /\ todo' = todo \ {p} /\ UNCHANGED <<pc, heads, made>> /\ sums'[p] = <<heads[p], sum[p]>>
          /\ \A q \in Packages : q # p => sums'[q] = sums[q]
      BY <1>0, <2>1, <2>3, <3>1 DEF WorkType, Sums
    <3>3. Closure' = Closure
      BY <3>2, ClosureKept
    <3>4. sums'[p] # NoSum
      BY <1>0, <3>1, <3>2
    <3>5. Summed(sums)' = Summed(sums) \cup {p}
      BY <3>1, <3>2, <3>4 DEF Summed
    <3>6. p \in Closure
      BY <3>1 DEF SumInv
    <3>7. Read(p)'
      BY <2>3, <3>1, <3>2 DEF BallInv, WholeInv
    <3>8. \A q \in Summed(sums) : q # p => Read(q)'
      BY <3>1, <3>2 DEF SumInv, Summed
    <3>9. QED
      BY <3>1, <3>2, <3>3, <3>5, <3>6, <3>7, <3>8 DEF SumInv
  <2>4. QED
    BY <2>2, <2>3
<1>6. CASE Match \/ WriteChecksum \/ GibKilled
  BY <1>6, SumEnd DEF Match, WriteChecksum, GibKilled
<1>7. CASE Unpack
  <2>1. PICK p \in todo :
          IF ball[p] = Partial \/ Contents[p][ball[p]] \cap OwnedAlready # {}
          THEN End
          ELSE made' = [made EXCEPT ![p] = ball[p]] /\ UNCHANGED <<pc, heads, sums, seen>>
    BY <1>7 DEF Unpack
  <2>2. CASE End
    BY <2>2, SumEnd
  <2>3. CASE ~End
    <3>1. /\ pc = "install" /\ p \in Packages /\ UNCHANGED <<pc, heads, sums, newest, sum>>
          /\ made'[p] = ball[p] /\ \A q \in Packages : q # p => made'[q] = made[q]
      BY <1>0, <1>7, <2>1, <2>3 DEF Unpack, WorkType, store
    <3>2. Closure' = Closure /\ Summed(sums)' = Summed(sums)
      BY <3>1, ClosureKept DEF Summed
    <3>3. \A q \in Summed(sums) : Read(q)'
      BY <3>1 DEF SumInv, BallInv, Summed
    <3>4. QED
      BY <3>1, <3>2, <3>3 DEF SumInv
  <2>4. QED
    BY <2>2, <2>3
<1>8. CASE Strip \/ Create \/ RemoveBundle \/ CreateBundle \/ MoveSetup \/ Written
  <2>1. /\ UNCHANGED <<heads, sums, made, store>>
        /\ {pc, pc'} \subseteq {"strip", "create", "bundle", "write", "seal"}
    BY <1>8 DEF Strip, Create, RemoveBundle, CreateBundle, MoveSetup, Written, Put
  <2>2. UNCHANGED <<newest, sum>>
    BY <2>1 DEF store
  <2>3. Closure' = Closure /\ Summed(sums)' = Summed(sums)
    BY <2>1, ClosureKept DEF Summed
  <2>4. QED
    BY <2>1, <2>2, <2>3 DEF SumInv
<1>9. QED
  BY <1>1, <1>2, <1>3, <1>4, <1>5, <1>6, <1>7, <1>8, Actors DEF GibActs, vars

LEMMA SealInit == Init => SealInv
BY DEF Init, InstallerInit, SealInv, Unsurpassed

\* What others than gib leave true: a newer version of a package ends it.
LEMMA SealOthers ==
  ASSUME TypeOK, BallInv, SealInv, [Next]_vars, UNCHANGED <<work, out>>
  PROVE  SealInv'
<1>0. StoreType /\ OutType /\ UNCHANGED <<pc, todo, heads, sums, checksum, uploads>>
  BY TypeParts DEF work, out
<1> DEFINE C == Summed(checksum)
<1>1. Summed(checksum)' = C /\ C \subseteq Packages
  BY <1>0 DEF Summed
<1>2. ASSUME checksum # NoSum, NEW p \in C
      PROVE  /\ checksum[p] \in Versions \X Versions /\ checksum[p][2] \in Nat
             /\ newest'[p] # 0 => checksum[p][2] <= newest'[p]
             /\ checksum[p] = <<newest'[p], newest'[p]>> => newest'[p] = newest[p]
  <2>1. p \in Packages /\ checksum[p] \in Versions \X Versions
    BY <1>0, <1>2 DEF OutType, Sums, Summed
  <2>2. /\ newest[p] \in Nat /\ checksum[p][2] \in Versions /\ checksum[p][2] \in Nat
        /\ newest[p] # 0 => checksum[p][2] <= newest[p]
    BY <1>0, <1>2, <2>1, VersionNumbers DEF SealInv
  <2>3. newest'[p] = newest[p] \/ newest'[p] = 0 \/ (newest[p] # 0 /\ newest'[p] > newest[p])
    BY <2>1, NewestStep
  <2>4. newest'[p] \in Versions \cup {0} /\ newest'[p] \in Nat
    BY <2>1, StoreTypeStep, VersionNumbers DEF StoreType
  <2>5. newest'[p] # 0 => checksum[p][2] <= newest'[p]
    BY <2>2, <2>3, <2>4
  <2>6. checksum[p] = <<newest'[p], newest'[p]>> => checksum[p][2] = newest'[p]
    OBVIOUS
  <2>7. checksum[p][2] # 0
    BY <2>1 DEF Versions
  <2>8. checksum[p][2] = newest'[p] => newest'[p] = newest[p]
    BY <2>2, <2>3, <2>4, <2>7
  <2>9. QED
    BY <2>1, <2>2, <2>5, <2>6, <2>8
<1>3. ASSUME Unsurpassed'
      PROVE  Unsurpassed /\ \A p \in C : newest'[p] = newest[p]
  <2>1. checksum # NoSum /\ \A p \in C : checksum[p] = <<newest'[p], newest'[p]>>
    BY <1>0, <1>1, <1>3 DEF Unsurpassed
  <2>2. \A p \in C : newest'[p] = newest[p]
    BY <1>2, <2>1
  <2>3. QED
    BY <2>1, <2>2 DEF Unsurpassed
<1>4. ASSUME Unsurpassed'
      PROVE  ClosureOf(newest)' = C /\ \A p \in C : sum'[p] = newest[p]
  <2>1. C = ClosureOf(newest) /\ \A p \in C : newest'[p] = newest[p] /\ sum[p] = newest[p]
    BY <1>3, <1>4 DEF SealInv
  <2>2. ClosureOf(newest') = ClosureOf(newest)
    BY <1>0, <2>1, ClosureAgrees DEF StoreType
  <2>3. ASSUME NEW p \in C PROVE sum'[p] = newest[p]
    <3>1. p \in Packages /\ newest[p] # 0
      <4>1. checksum # NoSum /\ checksum[p] = <<newest[p], newest[p]>>
        BY <1>3, <1>4 DEF Unsurpassed
      <4>2. checksum[p] \in Versions \X Versions
        BY <1>2, <4>1
      <4>3. newest[p] \in Versions
        BY <4>1, <4>2
      <4>4. QED
        BY <1>1, <4>3 DEF Versions
    <3>2. QED
      BY <2>1, <3>1, SumKept
  <2>4. QED
    BY <2>1, <2>2, <2>3
<1>5. ASSUME Unsurpassed', NEW n \in Names, Holds(uploads[n]) PROVE Holds(uploads[n])'
  BY <1>0, <1>1, <1>3, <1>5 DEF Holds
<1>6. checksum' # NoSum =>
        \A p \in Summed(checksum)' : newest'[p] # 0 => checksum'[p][2] <= newest'[p]
  BY <1>0, <1>1, <1>2
<1>7. QED
  BY <1>0, <1>1, <1>3, <1>4, <1>5, <1>6 DEF SealInv

\* gib leaves it true: it builds, and writes what it read, only when that is news.
LEMMA SealStep ==
  ASSUME TypeOK, WholeInv, BallInv, SumInv, SealInv, [Next]_vars
  PROVE  SealInv'
<1>0. StoreType /\ WorkType /\ OutType
  BY TypeParts
<1> DEFINE C == Summed(checksum)
           Ready == \A p \in C : /\ heads[p] = newest[p]
                                 /\ p \in todo \/ sums[p] = checksum[p]
           Seen == \A p \in C \ todo : heads[p] = newest[p]
<1>1. C \subseteq Packages
  BY DEF Summed
<1>2. ASSUME UNCHANGED <<store, checksum>>,
             Unsurpassed =>
               /\ pc' \in {"idle", "read", "sum"} /\ uploads' = uploads
               /\ pc' = "read" => Seen'
               /\ pc' = "sum" => Ready'
      PROVE  SealInv'
  <2>1. UNCHANGED <<newest, sum>> /\ Summed(checksum)' = C /\ Unsurpassed' = Unsurpassed
    BY <1>2 DEF store, Summed, Unsurpassed
  <2>2. ClosureOf(newest)' = ClosureOf(newest)
    BY <2>1 DEF ClosureOf
  <2>3. ASSUME Unsurpassed PROVE \E n \in Names : Holds(uploads[n])'
    BY <1>2, <2>1, <2>3 DEF SealInv, Holds
  <2>4. QED
    BY <1>2, <2>1, <2>2, <2>3 DEF SealInv
<1>3. ASSUME Unsurpassed, NEW p \in C
      PROVE  /\ p \in Packages /\ newest[p] # 0 /\ checksum[p] = <<newest[p], newest[p]>>
             /\ sum[p] = newest[p] /\ hdr[p] = newest[p] /\ <<p, newest[p]>> \in Accepted
  <2>1. p \in Packages /\ checksum[p] = <<newest[p], newest[p]>> /\ checksum[p] \in Versions \X Versions
    BY <1>0, <1>3 DEF Unsurpassed, OutType, Sums, Summed
  <2>2. newest[p] \in Versions
    BY <2>1
  <2>3. newest[p] # 0
    BY <2>2 DEF Versions
  <2>4. sum[p] = newest[p] /\ <<p, newest[p]>> \in Accepted
    BY <1>3 DEF SealInv
  <2>5. QED
    BY <2>1, <2>3, <2>4 DEF BallInv
<1>4. CASE Start
  BY <1>1, <1>2, <1>4 DEF Start, out, SealInv
<1>5. CASE ReadHeader
  <2>1. PICK p \in todo :
          /\ heads' = [heads EXCEPT ![p] = IF <<p, hdr[p]>> \in Accepted THEN hdr[p] ELSE 0]
          /\ todo' = todo \ {p}
    BY <1>5 DEF ReadHeader
  <2>2. pc = "read" /\ pc' = "read" /\ UNCHANGED <<store, checksum, uploads>>
    BY <1>5 DEF ReadHeader, out
  <2>3. Summed(checksum)' = C /\ newest' = newest
    BY <2>2 DEF Summed, store
  <2>4. ASSUME Unsurpassed PROVE Seen'
    <3>1. ASSUME NEW q \in C, q \notin todo' PROVE heads'[q] = newest[q]
      <4>1. CASE q = p
        BY <1>0, <1>3, <2>1, <2>4, <3>1, <4>1 DEF WorkType
      <4>2. CASE q # p
        BY <1>0, <1>1, <2>1, <2>2, <2>4, <3>1, <4>2 DEF WorkType, SealInv
      <4>3. QED
        BY <4>1, <4>2
    <3>2. QED
      BY <2>3, <3>1
  <2>5. QED
    BY <1>2, <2>2, <2>4
<1>6. CASE Resolve
  <2>1. /\ pc = "read" /\ todo = {} /\ pc' = "sum" /\ todo' = Closure
        /\ UNCHANGED <<store, checksum, uploads, heads, sums>>
    BY <1>6 DEF Resolve, out
  <2>2. Summed(checksum)' = C /\ newest' = newest
    BY <2>1 DEF Summed, store
  <2>3. ASSUME Unsurpassed PROVE Ready'
    <3>1. C = ClosureOf(newest) /\ \A p \in C : heads[p] = newest[p]
      BY <2>1, <2>3 DEF SealInv
    <3>2. ClosureOf(heads) = C
      BY <1>0, <3>1, ClosureAgrees DEF StoreType
    <3>3. QED
      BY <2>1, <2>2, <3>1, <3>2, HeadsClosure
  <2>4. QED
    BY <1>2, <2>1, <2>3
<1>7. CASE ReadSum
  <2>1. PICK p \in todo :
          IF heads[p] = 0 \/ sum[p] = 0
          THEN End
          ELSE /\ sums' = [sums EXCEPT ![p] = <<heads[p], sum[p]>>]
               /\ todo' = todo \ {p}
               /\ UNCHANGED <<pc, heads, made, seen>>
    BY <1>7 DEF ReadSum
  <2>2. pc = "sum" /\ UNCHANGED <<store, checksum, uploads>>
    BY <1>7 DEF ReadSum, out
  <2>3. Summed(checksum)' = C /\ newest' = newest
    BY <2>2 DEF Summed, store
  <2>4. CASE End
    BY <1>2, <2>2, <2>4 DEF End
  <2>5. CASE ~End
    <3>1. /\ sums' = [sums EXCEPT ![p] = <<heads[p], sum[p]>>]
          /\ todo' = todo \ {p} /\ UNCHANGED <<pc, heads>>
      BY <2>1, <2>5
    <3>2. ASSUME Unsurpassed, NEW q \in C
          PROVE  heads'[q] = newest[q] /\ (q \in todo' \/ sums'[q] = checksum[q])
      <4>1. heads[q] = newest[q] /\ (q \in todo \/ sums[q] = checksum[q])
        BY <2>2, <3>2 DEF SealInv
      <4>2. q \in Packages /\ checksum[q] = <<newest[q], newest[q]>> /\ sum[q] = newest[q]
        BY <1>3, <3>2
      <4>3. CASE q = p
        BY <1>0, <3>1, <4>1, <4>2, <4>3 DEF WorkType, Sums
      <4>4. CASE q # p
        BY <1>0, <3>1, <4>1, <4>2, <4>4 DEF WorkType, Sums
      <4>5. QED
        BY <4>3, <4>4
    <3>3. Unsurpassed => Ready'
      BY <2>2, <2>3, <3>2
    <3>4. QED
      BY <1>2, <2>2, <3>1, <3>3
  <2>6. QED
    BY <2>4, <2>5
<1>8. CASE Match \/ GibKilled
  BY <1>2, <1>8 DEF Match, GibKilled, End, out
<1>9. CASE Differ
  <2>1. pc = "sum" /\ todo = {} /\ checksum # sums /\ UNCHANGED <<store, checksum>>
    BY <1>9 DEF Differ, out
  <2>2. ~Unsurpassed
    <3> SUFFICES ASSUME Unsurpassed PROVE FALSE
      OBVIOUS
    <3>1. C = ClosureOf(newest) /\ \A p \in C : heads[p] = newest[p] /\ sums[p] = checksum[p]
      BY <2>1 DEF SealInv
    <3>2. ClosureOf(heads) = C
      BY <1>0, <3>1, ClosureAgrees DEF StoreType
    <3>3. Summed(sums) = C
      BY <2>1, <3>2, HeadsClosure DEF SumInv
    <3>4. checksum \in Sums /\ sums \in Sums
      BY <1>0 DEF Unsurpassed, OutType, WorkType
    <3>5. \A p \in Packages : sums[p] = checksum[p]
      BY <3>1, <3>3 DEF Summed
    <3>6. QED
      BY <2>1, <3>4, <3>5 DEF Sums
  <2>3. QED
    BY <1>2, <2>1, <2>2
<1>10. CASE Unpack \/ Built \/ Strip \/ Create \/ RemoveBundle \/ CreateBundle \/ MoveSetup \/ Written
  <2>1. /\ pc \in {"install", "strip", "create", "bundle", "write"}
        /\ UNCHANGED <<store, checksum>>
    BY <1>10 DEF Unpack, Built, Strip, Create, RemoveBundle, CreateBundle, MoveSetup, Written,
                 Put, out
  <2>2. ~Unsurpassed
    BY <2>1 DEF SealInv
  <2>3. QED
    BY <1>2, <2>1, <2>2
<1>11. CASE WriteChecksum
  <2>1. /\ pc = "seal" /\ checksum' = sums /\ pc' = "idle"
        /\ UNCHANGED <<newest, sum, uploads>>
    BY <1>11 DEF WriteChecksum, End, store
  <2>2. Summed(checksum)' = Closure /\ Summed(sums) = Closure
    BY <2>1 DEF SumInv, Summed
  <2>3. \A p \in Closure : newest[p] # 0 => sums[p][2] <= newest[p]
    BY <2>2 DEF SumInv
  <2>4. ASSUME Unsurpassed', NEW p \in Closure
        PROVE  /\ heads[p] = newest[p] /\ sum[p] = newest[p] /\ made[p] = newest[p]
               /\ <<p, newest[p]>> \in Accepted /\ made[p] # 0 /\ p \in Packages
    <3>1. sums[p] = <<newest[p], newest[p]>> /\ p \in Packages
      BY <2>1, <2>2, <2>4 DEF Unsurpassed, Closure
    <3>2. /\ sums[p][1] = heads[p] /\ heads[p] # 0 /\ <<p, heads[p]>> \in Accepted
          /\ newest[p] # 0 /\ sums[p][2] = newest[p] =>
               sum[p] = newest[p] /\ made[p] \in {0, newest[p]}
      BY <2>2, <3>1 DEF SumInv
    <3>3. made[p] # 0
      BY <2>1 DEF WholeInv
    <3>4. QED
      BY <3>1, <3>2, <3>3
  <2>5. ASSUME Unsurpassed' PROVE ClosureOf(newest)' = Closure
    <3>1. ClosureOf(newest) = ClosureOf(heads)
      BY <1>0, <2>4, <2>5, HeadsClosure, ClosureAgrees DEF WorkType
    <3>2. ClosureOf(newest)' = ClosureOf(newest)
      BY <2>1 DEF ClosureOf
    <3>3. QED
      BY <3>1, <3>2, HeadsClosure
  <2>6. ASSUME Unsurpassed' PROVE \E n \in Names : Holds(uploads[n])'
    <3>1. Name \in Names /\ uploads[Name] = root /\ root \in Roots /\ InRoot(Stripped)
      BY <1>0, <2>1, NameType DEF WholeInv, WorkType
    <3>2. \A p \in Closure : \A f \in Contents[p][newest[p]] \ Stripped :
            uploads[Name][f] = <<p, newest[p]>>
      BY <2>4, <2>6, <3>1 DEF InRoot
    <3>3. PICK n \in Names : n = Name
      BY <3>1
    <3>4. Holds(uploads[n])'
      BY <2>1, <2>2, <3>1, <3>2, <3>3 DEF Holds
    <3>5. QED
      BY <3>4
  <2>7. QED
    BY <2>1, <2>2, <2>3, <2>4, <2>5, <2>6 DEF SealInv
<1>12. CASE UNCHANGED <<work, out>>
  BY <1>12, SealOthers
<1>13. QED
  BY <1>4, <1>5, <1>6, <1>7, <1>8, <1>9, <1>10, <1>11, <1>12, Actors DEF GibActs, vars

-----------------------------------------------------------------------------
(* Theorems                                                                  *)

\* Packages, installers, databases and what the programs remember keep their
\* types; whoever uploads has the name of a release in hand.
THEOREM TypeCorrect == Spec => []TypeOK
<1>1. TypeOK /\ [Next]_vars => TypeOK'
  BY TypeStep
<1>2. QED
  BY InitType, <1>1, PTL DEF Spec

\* However many packages there are, and whatever gub replaces while gib works,
\* an installer that is about to be sealed has all files of all it needs.
THEOREM InstallersAreWhole == Spec => []WholeInstaller
<1>1. TypeOK /\ WholeInv /\ [Next]_vars => WholeInv'
  BY WholeStep
<1>2. TypeOK /\ WholeInv => WholeInstaller
  <2> SUFFICES ASSUME WholeInv, pc = "seal", NEW p \in Closure
               PROVE  /\ made[p] # 0
                      /\ \A f \in Contents[p][made[p]] \ Stripped : uploads[Name][f] = <<p, made[p]>>
    BY DEF WholeInstaller
  <2>1. made[p] # 0 /\ InRoot(Stripped) /\ uploads[Name] = root
    BY DEF WholeInv
  <2>2. p \in Packages
    BY DEF Closure
  <2>3. QED
    BY <2>1, <2>2 DEF InRoot
<1>3. QED
  BY TypeCorrect, WholeInit, <1>1, <1>2, PTL DEF Spec

\* As long as the version database has missed nothing no upload replaces an
\* installer on the server, however many versions, platforms and releases there
\* are and whoever is killed.
THEOREM PublishedIsKept == Spec => PublishedForGood
<1> DEFINE Keeps == ~missed => \A n \in Names : server[n] # NoFile => server'[n] = server[n]
<1>1. TypeOK /\ PublishInv /\ [Next]_vars => PublishInv'
  BY PublishStep
<1>2. TypeOK /\ PublishInv /\ [Next]_vars => [Keeps]_vars
  <2> SUFFICES ASSUME RemoteType, PublishInv, [Next]_vars, ~missed,
                      NEW n \in Names, server[n] # NoFile
               PROVE  server'[n] = server[n]
    BY TypeParts
  <2>1. CASE Copy
    BY <2>1 DEF Copy, PublishInv, RemoteType
  <2>2. CASE server' = server
    BY <2>2
  <2>3. QED
    BY <2>1, <2>2, Actors DEF UploadActs, Upload, Tag, Refresh, WriteDb, UploadKilled, OtherUpload,
       remote, vars
<1>3. QED
  BY TypeCorrect, PublishInit, <1>1, <1>2, PTL DEF Spec, PublishedForGood

\* However often gub and gib run, and are killed, in whatever order: when gib
\* finds the checksum unchanged, what it read was finished, and no package has
\* gone back to a version it had, the files of these very packages are in
\* uploads/.
THEOREM MatchesAreCurrent == Spec => MatchIsCurrent
<1> DEFINE Current ==
      Match /\ (\A p \in Closure : Settled(p) /\ newest[p] = ball[p] /\ sums[p] = <<ball[p], ball[p]>>)
      => \E n \in Names : /\ uploads[n] \in [Files -> Copies \cup {NoFile}]
                          /\ \A p \in Closure : \A f \in Contents[p][ball[p]] \ Stripped :
                               uploads[n][f] = <<p, ball[p]>>
<1>1. TypeOK /\ WholeInv /\ BallInv /\ SumInv /\ SealInv /\ [Next]_vars
      => WholeInv' /\ BallInv' /\ SumInv' /\ SealInv'
  BY WholeStep, BallStep, SumStep, SealStep
<1>2. TypeOK /\ SumInv /\ SealInv => Current
  <2> SUFFICES ASSUME TypeOK, SumInv, SealInv, Match,
                      \A p \in Closure : newest[p] = ball[p] /\ sums[p] = <<ball[p], ball[p]>>
               PROVE  \E n \in Names : /\ uploads[n] \in Roots
                                       /\ \A p \in Closure : \A f \in Contents[p][ball[p]] \ Stripped :
                                            uploads[n][f] = <<p, ball[p]>>
    BY DEF Roots
  <2>1. pc = "sum" /\ todo = {} /\ checksum = sums /\ sums \in Sums
    BY TypeParts DEF Match, WorkType
  <2>2. checksum # NoSum
    BY <2>1, InstallerAssumption DEF Sums
  <2>3. Summed(checksum) = Closure
    BY <2>1 DEF SumInv
  <2>4. Unsurpassed
    BY <2>1, <2>2, <2>3 DEF Unsurpassed
  <2>5. PICK n \in Names : Holds(uploads[n])
    BY <2>4 DEF SealInv
  <2>6. QED
    BY <2>3, <2>5 DEF Holds
<1>3. TypeOK /\ SumInv /\ SealInv /\ [Next]_vars => [Current]_vars
  BY <1>2
<1>4. QED
  BY TypeCorrect, WholeInit, BallInit, SumInit, SealInit, <1>1, <1>3, PTL
  DEF Spec, MatchIsCurrent

=============================================================================
