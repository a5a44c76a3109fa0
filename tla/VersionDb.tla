------------------------------- MODULE VersionDb -------------------------------
(***************************************************************************)
(* The database of the releases on the download server, gub/versiondb.py:  *)
(* for each platform the versions and build numbers its index listed when  *)
(* the database was last refreshed.  From it come the build number of the  *)
(* next installer and the number a release is uploaded under.              *)
(***************************************************************************)
EXTENDS Integers, FiniteSetsExt

CONSTANTS Platforms, Upstreams   \* platforms that are released; version strings

\* A version is compared as a Python tuple: (2, 12, 0) is not ('2', '12', '0').
Ints(v)    == [tuple |-> "ints", of |-> v]
Strings(v) == [tuple |-> "strings", of |-> v]

\* get_url_versions, versiondb.main and upload.main map int over the parts; ...
UrlVersion(v) == Ints(v)
\* ... string_to_version leaves them the strings that split returned.
StringToVersion(v) == Strings(v)

\* VersionDataBase: platform -> entries.  There is none before the first refresh.
NoDb == [p \in {} |-> {}]
Entry(version, build) == [version |-> UrlVersion(version), build |-> build]
IsDb(db, builds) ==
  /\ DOMAIN db \subseteq Platforms
  /\ \A p \in DOMAIN db : db[p] \subseteq {Entry(v, b) : v \in Upstreams, b \in builds}

\* Mistake: the number of the last build is given out again.
LastBuildNumber(db, version) ==
  LET entries == {e \in UNION {db[p] : p \in DOMAIN db} : e.version = version}
  IN IF DOMAIN db = {} THEN 0 ELSE Max({e.build : e \in entries} \cup {0})

\* get_next_build_number
NextBuildNumber(db, version) ==
  LET entries == {e \in UNION {db[p] : p \in DOMAIN db} : e.version = version}
  IN IF DOMAIN db = {} THEN 0 ELSE Max({e.build : e \in entries} \cup {0}) + 1

\* get_binaries_from_url: a platform whose index cannot be read keeps what the
\* database says of it.
Refreshed(db, index, unread) ==
  [p \in Platforms |-> IF p \notin unread THEN index[p]
                       ELSE IF p \in DOMAIN db THEN db[p] ELSE {}]

=============================================================================
