----------------------------- MODULE MCSidecar ------------------------------
(***************************************************************************)
(* Two processes, two places for the sidecar and two versions of the       *)
(* source, which the stamp tells apart.                                    *)
(***************************************************************************)
EXTENDS Sidecar, TLC

CONSTANTS p1, p2

MCProcesses == {p1, p2}
MCStampOf == [v \in Versions |-> v]
MCSymmetry == Permutations(MCProcesses)
=============================================================================
