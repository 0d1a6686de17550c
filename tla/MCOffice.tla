------------------------------- MODULE MCOffice -------------------------------
(***************************************************************************)
(* Small instances of Office for TLC.  The values that are records are     *)
(* here, the others in the configurations.                                 *)
(***************************************************************************)
EXTENDS Office, TLC

Ask(type, first, last) == [type |-> type, first |-> first, last |-> last]
Term(start, end) == [start |-> start, end |-> end]
Day(status, timed) == [status |-> status, in |-> timed, out |-> timed, branch |-> None]

SmallCorrections == {Day("ABSENT", FALSE), Day("NORMAL", TRUE)}
SmallLeaveAsks == {Ask("ANNUAL", 1, 2), Ask("ANNUAL", 2, 3), Ask("SICK", 2, 2)}
SmallFirstTerm == Term(1, 1)
SmallTerms == {Term(2, 2)}
SmallFixes == {Term(1, 0), Term(2, 2)}

(* i1, i2 are two branches, accounts, asset ids and so on; k1, k2, k3 are  *)
(* three leaves, paths and files.                                          *)
Symmetric ==
  Permutations(Handlers) \cup Permutations(Accounts) \cup Permutations(Leaves)
=============================================================================
