------------------------------- MODULE Clients -------------------------------
(***************************************************************************)
(* The two web clients, the server of their sessions and what every        *)
(* request of theirs meets first.  A behaviour belongs to one desk: the    *)
(* requests anybody may send to Sessions ("server"), the browser of        *)
(* MemberWeb ("browser"), the loads of PageLoads ("loads"), a page of      *)
(* AdminQueries ("admin") or the guards of Requests ("requests"); the      *)
(* variables of the last three are y1, y2, ...                             *)
(***************************************************************************)
EXTENDS MemberWeb

CONSTANTS
  Desks,      (* the components looked at                                  *)
  Users, Loads, Lifetime, LastTick, MaxVersion, MaxReloads,  (* PageLoads  *)
  MaxWrites,  (* AdminQueries                                              *)
  Sites,      (* Requests: the branches                                    *)
  MaxMoves

VARIABLES desk, y1, y2, y3, y4, y5, y6, y7, y8, y9
From7 == <<y7, y8, y9>>
others == <<y1, y2, y3, y4, y5, y6, From7>>
clientVars == <<desk, allVars, others>>

Pg == INSTANCE PageLoads WITH
        user <- y1, clock <- y2, version <- y3, cache <- y4, page <- y5, load <- y6
Adm == INSTANCE AdminQueries WITH
         query <- y1, writes <- y2, opened <- y3, sent <- y4, db <- y5, shown <- y6,
         fetch <- y7, broken <- y8, due <- y9
Guards == INSTANCE Requests WITH
         route <- y1, account <- y2, row <- y3, request <- y4, known <- y5, moves <- y6,
         Branches <- Sites

(* None is nothing else: no user, no branch, no number, no load and no     *)
(* fetch.  The clock, the counters and their bounds are numbers.           *)
ASSUME ClientsAssumption ==
  /\ None \notin Users \cup Sites \cup BOOLEAN \cup Nat
  /\ None \notin Pg!Load \cup [step: {"sent", "read"}, version: Nat]
  /\ {Lifetime, LastTick, MaxVersion, MaxReloads, MaxWrites, MaxMoves} \subseteq Nat

Blank7 == y7 = None /\ y8 = None /\ y9 = None
Blank1 == y1 = None /\ y2 = None /\ y3 = None /\ y4 = None /\ y5 = None /\ y6 = None /\ Blank7

ClientsInit ==
  /\ desk \in Desks
  /\ WebInit
  /\ \/ desk \in {"server", "browser"} /\ Blank1
     \/ desk = "loads" /\ Pg!Init /\ Blank7
     \/ desk = "admin" /\ Adm!Init
     \/ desk = "requests" /\ Guards!Init /\ Blank7

ClientsNext ==
  /\ UNCHANGED desk
  /\ \/ desk = "server" /\ Next /\ UNCHANGED <<client, others>>
     \/ desk = "browser" /\ WebNext /\ UNCHANGED others
     \/ desk = "loads" /\ Pg!Next /\ UNCHANGED <<allVars, From7>>
     \/ desk = "admin" /\ Adm!Next /\ UNCHANGED allVars
     \/ desk = "requests" /\ Guards!Next /\ UNCHANGED <<allVars, From7>>

ClientsSpec == ClientsInit /\ [][ClientsNext]_clientVars

-----------------------------------------------------------------------------
(* A login hands out one key at a time: Sessions implements KeyRing,       *)
(* whoever sends the requests (its KeyRingSpec, where there are requests). *)
RingStep == UNCHANGED Ring!vars \/ Ring!Next
SessionsAreKeyRings ==
  Ring!Init /\ [][(desk \in {"server", "browser"}) => RingStep]_clientVars

(* After a reload the user asked for, the screen shows nothing older.      *)
ReloadIsNew == desk = "loads" => Pg!ReloadIsNew

(* Once every write of a page is answered and the screen is at rest, its   *)
(* rows have what those writes changed.                                    *)
ShownAfterWrite == desk = "admin" => Adm!ShownAfterWrite

(* A request is handled or refused for what was so while it was under way. *)
DecidedAsKnown == desk = "requests" => Guards!DecidedAsKnown
=============================================================================
