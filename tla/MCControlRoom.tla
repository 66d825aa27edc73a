--------------------------- MODULE MCControlRoom ---------------------------
(***************************************************************************)
(* A room that can start three daemons one after the other and works on two *)
(* start requests at a time.                                                *)
(***************************************************************************)
EXTENDS ControlRoom, TLC

CONSTANTS p, q

MCDaemon == 1..3
MCRequest == {p, q}
MCSymmetry == Permutations(MCRequest)
=============================================================================
