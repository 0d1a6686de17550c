------------------------------ MODULE MCStaffing ------------------------------
(* Small instances of Staffing for TLC.                                    *)
EXTENDS Staffing, TLC

CONSTANTS s1, s2, m1, b1, b2

MemberAtFirst == [m \in Members |-> FirstBranch]

HandlerSymmetry == Permutations(Handlers)
=============================================================================
