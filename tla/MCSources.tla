----------------------------- MODULE MCSources -----------------------------
(* Instances of Sources for TLC. *)
EXTENDS Sources

CONSTANTS linux, mingw, cache, origin, fallback

\* A directory of balls, and two sites.
AskedSites == <<cache, origin, fallback>>
Schemes    == [s \in {cache, origin, fallback} |->
                 CASE s = cache -> "file" [] s = origin -> "https" [] OTHER -> "http"]

\* Command lines.  The second run takes its checksum as early as it can.
Online  == [fresh |-> FALSE, offline |-> FALSE]
Fresh   == [fresh |-> TRUE, offline |-> FALSE]
Offline == [fresh |-> FALSE, offline |-> TRUE]
TwoRuns == {linux, mingw}
Options == [p \in TwoRuns |-> IF p = linux THEN {Online, Fresh, Offline} ELSE {Fresh}]

=============================================================================
