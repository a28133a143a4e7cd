---------------------------- MODULE MCSnapshots ----------------------------
(* Snapshots with two names: a short one, and a long one that is cut to it. *)
EXTENDS Snapshots

CONSTANTS short, long

MCSnapNames == {short, long}
MCCut == [n \in MCSnapNames |-> short]
=============================================================================
