------------------------------- MODULE MCRelease -------------------------------
(* An instance of Release for TLC: a program and a library, which the       *)
(* program's second version does without and the library's conflicts with.   *)
EXTENDS Release

CONSTANTS prog, lib,        \* packages
          bin, so, doc,     \* files
          docs, libc, tex,  \* globs
          v1,               \* a version string
          linux, mingw      \* platforms

ProgAndLib   == {prog, lib}
ProgFiles    == {bin, so, doc}
TwoVersions  == 2
ProgNeeds    == [p \in ProgAndLib |-> [v \in 1..TwoVersions |->
                   IF p = prog /\ v = 1 THEN {lib} ELSE {}]]
ProgContents == [p \in ProgAndLib |-> [v \in 1..TwoVersions |->
                   IF p = prog THEN {bin, doc} ELSE IF v = 1 THEN {so} ELSE {so, bin}]]
ProgUpstream == [v \in 1..TwoVersions |-> v1]
Matched      == [g \in {docs, libc} |-> IF g = docs THEN {doc} ELSE {}]
AllAccepted  == ProgAndLib \X (1..TwoVersions)
=============================================================================
