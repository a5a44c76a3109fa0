-------------------------------- MODULE Release --------------------------------
(***************************************************************************)
(* Releasing installers: test-lily/upload.py copies those of one version   *)
(* to the download server, tags the release, and has the version database  *)
(* refreshed, while bin/gib may be building the next one into uploads/.    *)
(* Other platforms are released from elsewhere, to the same server.        *)
(***************************************************************************)
EXTENDS Installer

CONSTANTS
  Platform,    \* the platform whose installers module Installer builds
  MaxUploads   \* bound: uploads, of Platform and of others

ASSUME ReleaseAssumption == Platform \in Platforms /\ MaxUploads \in Nat

VARIABLES
  server,   \* the installers of Platform on the server: name -> contents
  others,   \* the entries in the indexes of the other platforms
  tags,     \* the releases that are tagged
  up,       \* what upload.py does next: "idle", "copy", "tag", "refresh", "write"
  release,  \* the name it uploads
  missed,   \* history: a refresh has been left out or was incomplete
  count     \* uploads, for the bound

upload == <<up, release>>
remote == <<server, others, tags>>
vars   == <<store, work, out, dbfile, kills, gibs, upload, remote, missed, count>>

NoName == <<>>
Index(p) == IF p = Platform
            THEN {Entry(n[1], n[2]) : n \in {n \in Names : server[n] # NoFile}}
            ELSE {Entry(n[1], n[2]) : n \in others}

TypeOK ==
  /\ InstallerTypeOK
  /\ server \in [Names -> Bundles] /\ others \subseteq Names /\ tags \subseteq Names
  /\ up \in {"idle", "copy", "tag", "refresh", "write"}
  /\ IF up = "idle" THEN release = NoName ELSE release \in Names
  /\ missed \in BOOLEAN /\ count \in 0..MaxUploads

Init ==
  /\ InstallerInit
  /\ server = [n \in Names |-> NoFile] /\ others = {} /\ tags = {}
  /\ up = "idle" /\ release = NoName /\ missed = FALSE /\ count = 0

\* upload_binaries, with the version of the source and not of an installer.
\* An installer that does not exist is reported, and the rest done.
Upload(v) ==
  /\ up = "idle" /\ ~torn /\ count < MaxUploads /\ count' = count + 1
  /\ LET n == NextBuildNumber(db, Ints(v)) IN
       /\ n \in Numbers
       /\ release' = <<v, n>>
       /\ up' = IF uploads[<<v, n>>] = NoFile THEN "tag" ELSE "copy"
  /\ UNCHANGED <<store, work, out, dbfile, kills, gibs, remote, missed>>

\* system: a command that fails raises, and the others are not executed.
EndUpload == up' = "idle" /\ release' = NoName

\* rsync, of an installer that gib may have removed meanwhile.
Copy ==
  /\ up = "copy"
  /\ IF uploads[release] = NoFile
     THEN EndUpload /\ UNCHANGED server
     ELSE /\ server' = [server EXCEPT ![release] = uploads[release]]
          /\ up' = "tag" /\ UNCHANGED release
  /\ UNCHANGED <<store, work, out, dbfile, kills, gibs, others, tags, missed, count>>

\* git tag fails for a tag that exists.
Tag ==
  /\ up = "tag"
  /\ IF release \in tags
     THEN EndUpload /\ missed' = TRUE /\ UNCHANGED tags
     ELSE up' = "refresh" /\ tags' = tags \cup {release} /\ UNCHANGED <<release, missed>>
  /\ UNCHANGED <<store, work, out, dbfile, kills, gibs, server, others, count>>

\* make update-versions: with-lock.py --skip may find the database locked; if
\* not, the indexes are read, and the file is opened for the answer.
Refresh ==
  /\ up = "refresh"
  /\ \/ EndUpload /\ missed' = TRUE /\ UNCHANGED dbfile
     \/ \E unread \in SUBSET Platforms :
          /\ db' = Refreshed(db, [p \in Platforms |-> Index(p)], unread)
          /\ missed' = (missed \/ unread # {})
          /\ torn' = TRUE /\ up' = "write" /\ UNCHANGED release
  /\ UNCHANGED <<store, work, out, kills, gibs, remote, count>>

\* VersionDataBase.write
WriteDb ==
  /\ up = "write" /\ EndUpload
  /\ torn' = FALSE
  /\ UNCHANGED <<store, work, out, db, kills, gibs, remote, missed, count>>

UploadKilled ==
  /\ up # "idle" /\ kills < MaxKills
  /\ EndUpload /\ kills' = kills + 1 /\ missed' = TRUE
  /\ UNCHANGED <<store, work, out, dbfile, gibs, remote, count>>

\* Another platform's installer is uploaded from elsewhere.
OtherUpload(n) ==
  /\ n \notin others /\ Platforms # {Platform}
  /\ count < MaxUploads /\ count' = count + 1
  /\ others' = others \cup {n}
  /\ UNCHANGED <<store, work, out, dbfile, kills, gibs, upload, server, tags, missed>>

Next ==
  \/ InstallerNext /\ UNCHANGED <<upload, remote, missed, count>>
  \/ \E v \in Upstreams : Upload(v)
  \/ Copy \/ Tag \/ Refresh \/ WriteDb \/ UploadKilled
  \/ \E n \in Names : OtherUpload(n)

Spec == Init /\ [][Next]_vars

-----------------------------------------------------------------------------
(* Properties *)

\* `*** checksum matches: no rebuild necessary' (bin/gib): as long as no
\* package goes back to a version it had before, and gub had finished those the
\* installer is made of when gib read their checksums, an installer in uploads/
\* holds their files.
MatchIsCurrent ==
  [][Match /\ (\A p \in Closure : Settled(p) /\ newest[p] = ball[p] /\ sums[p] = <<ball[p], ball[p]>>)
     => \E n \in Names : /\ uploads[n] \in [Files -> Copies \cup {NoFile}]
                         /\ \A p \in Closure : \A f \in Contents[p][ball[p]] \ Stripped :
                              uploads[n][f] = <<p, ball[p]>>]_vars

\* The installer whose checksum gib is about to write has every file of every
\* package it needs, all of a package from one ball, whatever gub did meanwhile.
WholeInstaller ==
  pc = "seal" => \A p \in Closure :
    /\ made[p] # 0
    /\ \A f \in Contents[p][made[p]] \ Stripped : uploads[Name][f] = <<p, made[p]>>

\* An installer on the server is never replaced, unless the version database
\* has missed a release.
PublishedForGood ==
  [][~missed => \A n \in Names : server[n] # NoFile => server'[n] = server[n]]_vars

=============================================================================
