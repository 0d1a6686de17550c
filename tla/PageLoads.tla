------------------------------- MODULE PageLoads -------------------------------
(***************************************************************************)
(* useLoad with its cache (use-load.ts of the member web), and what        *)
(* AuthProvider and MobileLayout do to that cache: the loads of one        *)
(* address, which the home screen and the list of notices share.           *)
(*                                                                         *)
(* A screen is rendered, and its effect runs later: a navigation is a      *)
(* transition, between the two an answer may arrive.  After a press of a   *)
(* button both happen at once.  What the server holds is known by its      *)
(* version.                                                                *)
(***************************************************************************)
EXTENDS Integers

CONSTANTS
  Users,
  Loads,        (* bound: requests on their way                            *)
  Lifetime,     (* cacheMs, in ticks of the model                          *)
  LastTick,     (* bound: the clock stops                                  *)
  MaxVersion,   (* bound: changes of what the server holds                 *)
  MaxReloads,   (* bound: reloads of one screen                            *)
  None

VARIABLES
  user,
  clock,
  version,    (* of what the server holds                                  *)
  cache,      (* the CacheEntry of the address: [at, data], or None        *)
  page,       (* the screen that uses the address                          *)
  load        (* Loads -> [nonce, by, data, live], or None                 *)
vars == <<user, clock, version, cache, page, load>>

Data == [of: Users, version: 0..MaxVersion]
Entry == [at: 0..LastTick, data: Data]
Load == [nonce: 0..MaxReloads, by: Users, data: Data \cup {None}, live: BOOLEAN]
(* key: the nonce of the last answer, -1 before the first; asked: the      *)
(* version when the user pressed for a reload, 0 if nobody did.            *)
Page == [phase: {"away", "rendered", "shown"}, nonce: 0..MaxReloads,
         key: -1..MaxReloads, data: Data \cup {None}, asked: 0..MaxVersion]
Away == [phase |-> "away", nonce |-> 0, key |-> -1, data |-> None, asked |-> 0]

Live == {l \in Loads : load[l] # None /\ load[l].live}
(* The clean-up of an effect: its answer is no longer wanted.              *)
Cancelled == [l \in Loads |-> IF l \in Live THEN [load[l] EXCEPT !.live = FALSE] ELSE load[l]]

(* freshEntry                                                              *)
Fresh == cache # None /\ clock - cache.at < Lifetime

(* The request of the effect that runs for a nonce.                        *)
Send(nonce) ==
  \E l \in Loads :
    /\ load[l] = None
    /\ load' = [Cancelled EXCEPT
                  ![l] = [nonce |-> nonce, by |-> user, data |-> None, live |-> TRUE]]

-----------------------------------------------------------------------------
(* A screen is rendered, with the cached entry if there is one ...         *)
Enter ==
  /\ user # None /\ page = Away
  /\ page' = IF Fresh THEN [Away EXCEPT !.phase = "rendered", !.key = 0, !.data = cache.data]
             ELSE [Away EXCEPT !.phase = "rendered"]
  /\ UNCHANGED <<user, clock, version, cache, load>>

WrongSkips(nonce) == Fresh
(* The early return of the effect.                                         *)
Skips(nonce) == nonce = 0 /\ Fresh

(* ... and its effect sends a request, unless the cache has an entry now.  *)
Effect ==
  /\ page.phase = "rendered"
  /\ page' = [page EXCEPT !.phase = "shown"]
  /\ \/ Skips(0) /\ UNCHANGED load
     \/ ~Skips(0) /\ Send(0)
  /\ UNCHANGED <<user, clock, version, cache>>

(* reload, by a button that is shut while a load is under way.             *)
Reload ==
  /\ page.phase = "shown" /\ page.key = page.nonce /\ page.nonce < MaxReloads
  /\ page' = [page EXCEPT !.nonce = @ + 1, !.asked = version]
  /\ \/ Skips(page.nonce + 1) /\ load' = Cancelled
     \/ ~Skips(page.nonce + 1) /\ Send(page.nonce + 1)
  /\ UNCHANGED <<user, clock, version, cache>>

(* The screen is pulled down: it is mounted anew, with an empty cache.     *)
Pull ==
  /\ page.phase = "shown"
  /\ cache' = None
  /\ page' = [Away EXCEPT !.phase = "shown", !.asked = version]
  /\ Send(0)
  /\ UNCHANGED <<user, clock, version>>

Leave ==
  /\ page # Away
  /\ page' = Away
  /\ load' = Cancelled
  /\ UNCHANGED <<user, clock, version, cache>>

-----------------------------------------------------------------------------
(* The server reads ...                                                    *)
Serve(l) ==
  /\ load[l] # None /\ load[l].data = None
  /\ load' = [load EXCEPT ![l].data = [of |-> load[l].by, version |-> version]]
  /\ UNCHANGED <<user, clock, version, cache, page>>

(* ... and its answer is cached, wanted or not, and shown if it is wanted. *)
Answer(l) ==
  /\ load[l] # None /\ load[l].data # None
  /\ cache' = [at |-> clock, data |-> load[l].data]
  /\ page' = IF load[l].live
             THEN [page EXCEPT !.key = load[l].nonce, !.data = load[l].data]
             ELSE page
  /\ load' = [load EXCEPT ![l] = None]
  /\ UNCHANGED <<user, clock, version>>

(* An error is shown in its place, and not cached.                         *)
Fail(l) ==
  /\ load[l] # None
  /\ page' = IF load[l].live
             THEN [page EXCEPT !.key = load[l].nonce, !.data = None] ELSE page
  /\ load' = [load EXCEPT ![l] = None]
  /\ UNCHANGED <<user, clock, version, cache>>

-----------------------------------------------------------------------------
(* login leaves the cache as it is, startSession empties it.               *)
SignIn(u) ==
  /\ user = None
  /\ user' = u
  /\ cache' \in {cache, None}
  /\ UNCHANGED <<clock, version, page, load>>

(* logout, and a session that has expired.                                 *)
SignOut ==
  /\ user # None
  /\ user' = None
  /\ cache' = None
  /\ page' = Away
  /\ load' = Cancelled
  /\ UNCHANGED <<clock, version>>

Change ==
  /\ version < MaxVersion
  /\ version' = version + 1
  /\ UNCHANGED <<user, clock, cache, page, load>>

Tick ==
  /\ clock < LastTick
  /\ clock' = clock + 1
  /\ UNCHANGED <<user, version, cache, page, load>>

Init ==
  /\ user = None /\ clock = 0 /\ version = 0 /\ cache = None
  /\ page = Away
  /\ load = [l \in Loads |-> None]

Next ==
  \/ Enter \/ Effect \/ Reload \/ Pull \/ Leave \/ SignOut \/ Change \/ Tick
  \/ \E l \in Loads : Serve(l) \/ Answer(l) \/ Fail(l)
  \/ \E u \in Users : SignIn(u)

Spec == Init /\ [][Next]_vars

-----------------------------------------------------------------------------
TypeOK ==
  /\ user \in Users \cup {None}
  /\ clock \in 0..LastTick /\ version \in 0..MaxVersion
  /\ cache \in Entry \cup {None}
  /\ page \in Page
  /\ load \in [Loads -> Load \cup {None}]

WrongLoaded == page.key >= 0
(* What useLoad gives its screen: data only of the load it asked for last. *)
Loaded == page.key = page.nonce

(* reload() passes the cache by (use-load.ts:38): after the user has asked *)
(* for it, the screen waits for an answer or shows one that the server has *)
(* read since, however the answers of earlier loads come in; and what it   *)
(* waits for is on its way.                                                *)
ReloadIsNew ==
  page.phase = "shown" /\ page.asked > 0 =>
    IF Loaded THEN page.data # None => page.data.version >= page.asked ELSE Live # {}
=============================================================================
