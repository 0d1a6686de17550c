------------------------------ MODULE MCClients ------------------------------
(***************************************************************************)
(* Small instances of Clients for TLC.  Handlers, tokens and branches are  *)
(* interchangeable.                                                        *)
(***************************************************************************)
EXTENDS Clients, TLC

Symmetric == Permutations(Handlers) \cup Permutations(Tokens) \cup Permutations(Sites)
=============================================================================
