---------------------------- MODULE MCBuildRunner ----------------------------
(* Instances of BuildRunner for TLC. *)
EXTENDS BuildRunner

CONSTANTS app, core, alt, libc, gcc, lily, r1, r2, r3

Plain  == NoOptions
Fresh  == [NoOptions EXCEPT !.fresh = TRUE]
Keep   == [NoOptions EXCEPT !.keep_build = TRUE]
Rash   == [NoOptions EXCEPT !.force_package = TRUE, !.lax_checksums = TRUE,
                            !.build_source = TRUE]
Careful  == {Plain, Fresh, Keep}
Careless == {Plain, Rash}

\* One package; two recipes of one version and one of another.
OneSpec    == {app}
OneOrder   == <<app>>
TwoEach    == [s \in OneSpec |-> 2]
NoDeps     == [s \in OneSpec |-> {}]
ThreeRecipes == {r1, r2, r3}
Versions   == [r \in ThreeRecipes |-> IF r = r3 THEN "v2" ELSE "v1"]
SomeStages == <<"untar", "patch", "compile", "src_package", "package", "clean">>

\* The cross compiler is built twice, before and after the C library, which
\* cannot be installed together with another one.  The last build needs both
\* compilers, is never installed, and its source is a branch.
Toolchain      == {core, alt, libc, gcc, lily}
ToolchainOrder == <<core, alt, libc, gcc, lily>>
ToolchainDeps  == [s \in Toolchain |-> CASE s \in {core, alt} -> {}
                                         [] s = libc -> {core}
                                         [] s = gcc  -> {libc}
                                         [] s = lily -> {core, libc, gcc}]
ToolchainSubs  == [s \in Toolchain |-> IF s = gcc THEN 2 ELSE 1]
RivalPackages == LET Pairs (S, T) == (S \X T) \cup (T \X S)
                 IN  Pairs ({<<core, 1>>}, {<<gcc, 1>>, <<gcc, 2>>})
                       \cup Pairs ({<<alt, 1>>}, {<<libc, 1>>})
GccCore       == {<<core, gcc>>}
LilyOnly      == {lily}
TwoRecipes    == {r1, r2}
OneVersion    == [r \in TwoRecipes |-> "v1"]
TwoVersions   == [r \in TwoRecipes |-> IF r = r1 THEN "v1" ELSE "v2"]
FewStages     == <<"untar", "compile", "package", "clean">>
PlainFresh    == {Plain, Fresh}

\* What the theorems about conflicts assume is true of these instances.
ASSUME OrderlyInstance == OrderlyConflicts /\ OrderlyDeps

=============================================================================
