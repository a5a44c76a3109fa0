---------------------------- MODULE MCBuildOrder ----------------------------
(* Instances of BuildOrder for TLC. *)
EXTENDS BuildOrder

CONSTANTS app, lib, devel, runtime, libtool, gcc, make, patch, tar, rsync, python, toollib,
  python32, libtool32

\* A 32-bit target platform with its cross compiler, and the tools, of which
\* toollib is libtool.  As in gub/specs, make is a bootstrap build with patches, and
\* rsync is a tarball; devel and runtime are subpackages of lib.
Targets32  == {app, lib, libtool}
AllNames   == Targets32 \cup {gcc, make, patch, tar, rsync, python, toollib,
                           python32, libtool32}
LibParts   == {devel, runtime}
LibPart    == [n \in LibParts |-> lib]
CommandLines == {{app}, {devel}}
MakeOnly   == {make}
ClassOf    == [n \in AllNames |-> CASE n \in Targets32 -> "other"
                                    [] n = gcc -> "cross"
                                    [] OTHER -> "tools"]
PlatformOf == [n \in AllNames |-> CASE n \in Targets32 \cup {gcc} -> "mingw"
                                    [] n \in {python32, libtool32} -> "tools32"
                                    [] OTHER -> "tools"]
ThreePlatforms == {"mingw", "tools", "tools32"}
Libtools   == [p \in ThreePlatforms |-> CASE p = "mingw" -> libtool
                                        [] p = "tools" -> toollib
                                        [] OTHER -> libtool32]
Tools      == [n \in {python32, libtool32} |-> IF n = python32 THEN python ELSE toollib]
CrossNames == [p \in ThreePlatforms |-> IF p = "mingw" THEN {gcc} ELSE {}]
KindsOf    == [n \in AllNames |-> CASE n = app -> {"scons", "cvs"}
                                    [] n = lib -> {"bazaar"}
                                    [] n \in {gcc, rsync} -> {"tar"}
                                    [] n = make -> {"patch"}
                                    [] OTHER -> {}]
SomeKinds  == {"scons", "cvs", "bazaar", "tar", "patch"}
HelpersOf  == [k \in SomeKinds |-> CASE k = "patch" -> {patch}
                                     [] k = "tar" -> {tar}
                                     [] k = "scons" -> {}
                                     [] OTHER -> {rsync}]
ExtrasOf   == [k \in SomeKinds |-> IF k = "scons" THEN {python} ELSE {}]
BazaarFirst == <<"bazaar", "cvs">>

\* What app and lib declare is free.
AnyRecipes == {[n \in AllNames |-> CASE n = app -> d [] n = lib -> e
                                     [] OTHER -> {}] :
                 d \in {{}, {devel}, {toollib}, {devel, python32}},
                 e \in SUBSET {app}}

=============================================================================
