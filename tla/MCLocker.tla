------------------------------ MODULE MCLocker ------------------------------
(* Instances of Locker for TLC. *)
EXTENDS Locker

CONSTANTS p1, p2, p3, i1, i2, i3, i4

TwoProcesses   == {p1, p2}
ThreeProcesses == {p1, p2, p3}
ThreeInodes    == {i1, i2, i3}
FourInodes     == {i1, i2, i3, i4}

=============================================================================
