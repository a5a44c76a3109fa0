-------------------------------- MODULE MCGup --------------------------------
(* Instances of Gup for TLC. *)
EXTENDS Gup

CONSTANTS a, b,                    \* packages
          usr, lib,                \* directories
          f, g, h                  \* regular files

\* usr/ holds lib/; f and g are in usr/lib/, h is in usr/.
TwoPackages   == {a, b}
Nested        == {usr, lib}
NestedFiles   == {f, g, h}
NestedAbove   == [x \in Nested \cup NestedFiles |->
                    CASE x = usr      -> {}
                      [] x \in {lib, h} -> {usr}
                      [] OTHER        -> {usr, lib}]
\* g is a libtool archive.
Archives      == {g}
NoTargets     == [x \in {} |-> usr]
\* Balls that list the directories they use, which may have files in common.
FullBalls     == {{usr, lib, f}, {usr, lib, f, g}, {usr, lib, g, h}, {usr, h}}

=============================================================================
