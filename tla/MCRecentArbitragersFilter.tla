--------------------- MODULE MCRecentArbitragersFilter ---------------------
(* Two chains, a window of three clock units, a clock of ten units.        *)
EXTENDS RecentArbitragersFilter

CONSTANTS k1, k2

MCKeys == {k1, k2}
=============================================================================
