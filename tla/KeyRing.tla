-------------------------------- MODULE KeyRing --------------------------------
(***************************************************************************)
(* What one-time refresh tokens promise: a session, named by the first     *)
(* token it was given, has at most one key; the key is handed in before    *)
(* the next one is given out; and a session without a key that is not      *)
(* being exchanged is over.                                                *)
(***************************************************************************)
CONSTANTS Tokens, None

VARIABLES
  issued,   (* tokens ever handed out                                      *)
  key,      (* the usable token of each session                            *)
  passing   (* sessions whose key was handed in for the next one           *)
vars == <<issued, key, passing>>

Init == issued = {} /\ key = [s \in Tokens |-> None] /\ passing = {}

Open(t) ==
  /\ t \notin issued
  /\ issued' = issued \cup {t}
  /\ key' = [key EXCEPT ![t] = t]
  /\ UNCHANGED passing

HandIn(s) ==
  /\ key[s] # None
  /\ key' = [key EXCEPT ![s] = None]
  /\ passing' = passing \cup {s}
  /\ UNCHANGED issued

HandOut(s, t) ==
  /\ s \in passing /\ t \notin issued
  /\ issued' = issued \cup {t}
  /\ key' = [key EXCEPT ![s] = t]
  /\ passing' = passing \ {s}

(* Sessions end: by logout, expiry, a password change, or an exchange that *)
(* breaks off.                                                             *)
Over(S) ==
  /\ key' = [s \in Tokens |-> IF s \in S THEN None ELSE key[s]]
  /\ UNCHANGED <<issued, passing>>

Drop(s) ==
  /\ s \in passing
  /\ passing' = passing \ {s}
  /\ UNCHANGED <<issued, key>>

Next ==
  \/ \E t \in Tokens : Open(t) \/ HandIn(t) \/ Drop(t)
  \/ \E s, t \in Tokens : HandOut(s, t)
  \/ \E S \in SUBSET Tokens : Over(S)

Spec == Init /\ [][Next]_vars
=============================================================================
