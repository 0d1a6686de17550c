------------------------------ MODULE MemberWeb ------------------------------
(***************************************************************************)
(* The session of the member web app: one browser whose tabs share a       *)
(* refresh token in localStorage (api.ts, auth-context.tsx), against the   *)
(* server of Sessions.  An access token lives in a tab's memory and only   *)
(* matters here in that any load may come back 401.                        *)
(***************************************************************************)
EXTENDS Sessions

CONSTANTS
  Tabs,
  MaxOpens,   (* bound: pages opened or reloaded                           *)
  MaxLosses   (* bound: answers that never arrive                          *)

ASSUME MemberWebAssumption ==
  /\ MaxOpens \in Nat /\ MaxLosses \in Nat
  /\ None \notin Handlers

VARIABLES
  stored,   (* localStorage[REFRESH_TOKEN_KEY]                             *)
  view,     (* what a tab shows                                            *)
  flights,  (* a tab's refresh requests not yet answered                   *)
  login,    (* a tab's login request                                       *)
  bye,      (* tokens whose logout call is on its way                      *)
  denied,   (* tabs whose load of the user came back 401 as they restored  *)
  opens, losses
client == <<stored, view, flights, login, bye, denied, opens, losses>>
allVars == <<active, password, token, req, stored, view, flights, login, bye,
             denied, opens, losses>>
server == <<active, password, token, req>>

(* A page restores its session in up to four requests: a refresh, then GET *)
(* /auth/me; if that comes back 401, another refresh and the load again.   *)
(* The user sees the same screen all along.                                *)
Views == {"closed", "login", "restoring", "me", "renewing", "again", "offline", "home"}

Send(T, h, t) == Refresh(h, t) /\ flights' = [flights EXCEPT ![T] = @ \cup {h}]

-----------------------------------------------------------------------------
(* A page is opened or reloaded.  With a stored token it starts by         *)
(* refreshing; what an earlier page of the tab was waiting for is ignored. *)
Open(T) ==
  /\ opens < MaxOpens /\ opens' = opens + 1
  /\ login' = [login EXCEPT ![T] = None]
  /\ \/ /\ stored # None
        /\ \E h \in Handlers : Refresh(h, stored) /\ flights' = [flights EXCEPT ![T] = {h}]
        /\ view' = [view EXCEPT ![T] = "restoring"]
     \/ /\ stored = None
        /\ flights' = [flights EXCEPT ![T] = {}]
        /\ view' = [view EXCEPT ![T] = "login"]
        /\ UNCHANGED server
  /\ denied' = denied \ {T}
  /\ UNCHANGED <<stored, bye, losses>>

(* The user tries again.  Without a token the page stays as it is.         *)
RetryRestore(T) ==
  /\ view[T] = "offline" /\ stored # None
  /\ view' = [view EXCEPT ![T] = "restoring"]
  /\ \E h \in Handlers : Send(T, h, stored)
  /\ denied' = denied \ {T}
  /\ UNCHANGED <<stored, login, bye, opens, losses>>

WrongRetry(T) ==
  /\ view[T] = "home" /\ stored # None
  /\ \E h \in Handlers : Send(T, h, stored)
  /\ UNCHANGED <<stored, view, login, bye, denied, opens, losses>>

(* A load came back 401.  If a refresh is on its way it is shared (and     *)
(* nothing changes), else one is sent.                                     *)
Retry(T) ==
  /\ view[T] = "home" /\ stored # None
  /\ flights[T] = {}
  /\ \E h \in Handlers : Send(T, h, stored)
  /\ UNCHANGED <<stored, view, login, bye, denied, opens, losses>>

(* The answer to a refresh is written to localStorage, whatever the tab    *)
(* shows by now; a refusal clears it.  A page that is restoring loads its  *)
(* user next.                                                              *)
Onward(v) == IF v = "restoring" THEN "me" ELSE IF v = "renewing" THEN "again" ELSE v

Answered(T, h) ==
  /\ h \in flights[T]
  /\ flights' = [flights EXCEPT ![T] = @ \ {h}]
  /\ Receive(h)
  /\ \/ /\ req[h].step = "ok"
        /\ stored' = req[h].new
        /\ view' = [view EXCEPT ![T] = Onward(@)]
     \/ /\ req[h].step = "refused"
        /\ stored' = None
        /\ view' = [view EXCEPT ![T] = "login"]
  /\ UNCHANGED <<login, bye, denied, opens, losses>>

WrongLost(T, h) ==
  /\ losses < MaxLosses /\ losses' = losses + 1
  /\ h \in flights[T]
  /\ flights' = [flights EXCEPT ![T] = @ \ {h}]
  /\ view' = [view EXCEPT ![T] = IF @ \in {"restoring", "renewing"} THEN "offline" ELSE "login"]
  /\ stored' = None
  /\ UNCHANGED server /\ UNCHANGED <<login, bye, denied, opens>>

(* No answer arrives, or an error other than a refusal.  Without an answer *)
(* to its first refresh the page is offline and the token kept, to its     *)
(* second one offline and the token forgotten (by the retry of the load);  *)
(* else the token is forgotten and the session over.                       *)
Lost(T, h) ==
  /\ losses < MaxLosses /\ losses' = losses + 1
  /\ h \in flights[T]
  /\ flights' = [flights EXCEPT ![T] = @ \ {h}]
  /\ \/ /\ view[T] = "restoring"
        /\ view' = [view EXCEPT ![T] = "offline"]
        /\ UNCHANGED stored
     \/ /\ view[T] = "renewing"
        /\ view' = [view EXCEPT ![T] = "offline"]
        /\ stored' = None
     \/ /\ view' = [view EXCEPT ![T] = "login"]
        /\ stored' = None
  /\ UNCHANGED server /\ UNCHANGED <<login, bye, denied, opens>>

(* GET /auth/me of a page that restores: answered ...                      *)
Greeted(T) ==
  /\ view[T] \in {"me", "again"}
  /\ view' = [view EXCEPT ![T] = "home"]
  /\ UNCHANGED server /\ UNCHANGED <<stored, flights, login, bye, denied, opens, losses>>

WrongDenied(T) ==
  /\ view[T] \in {"me", "again"}
  /\ denied' = denied \cup {T}
  /\ view' = [view EXCEPT ![T] = "renewing"]
  /\ UNCHANGED server /\ UNCHANGED <<stored, flights, login, bye, opens, losses>>

(* ... with 401: one more refresh is sent if there is a token and this was *)
(* the first load, else the token is forgotten ...                         *)
Denied(T) ==
  /\ view[T] \in {"me", "again"}
  /\ denied' = denied \cup {T}
  /\ \/ /\ view[T] = "me" /\ stored # None
        /\ \E h \in Handlers : Send(T, h, stored)
        /\ view' = [view EXCEPT ![T] = "renewing"]
        /\ UNCHANGED stored
     \/ /\ view[T] = "again" \/ stored = None
        /\ view' = [view EXCEPT ![T] = "login"]
        /\ stored' = None
        /\ UNCHANGED server /\ UNCHANGED flights
  /\ UNCHANGED <<login, bye, opens, losses>>

(* ... not at all: the token is kept; or with another error: it is not.    *)
Unheard(T) ==
  /\ losses < MaxLosses /\ losses' = losses + 1
  /\ view[T] \in {"me", "again"}
  /\ \/ view' = [view EXCEPT ![T] = "offline"] /\ UNCHANGED stored
     \/ view' = [view EXCEPT ![T] = "login"] /\ stored' = None
  /\ UNCHANGED server /\ UNCHANGED <<flights, login, bye, denied, opens>>

SignOut(T) ==
  /\ view[T] = "home"
  /\ view' = [view EXCEPT ![T] = "login"]
  /\ stored' = None
  /\ bye' = bye \cup ({stored} \ {None})
  /\ UNCHANGED server /\ UNCHANGED <<flights, login, denied, opens, losses>>

(* The logout call arrives, or fails and is not repeated.                  *)
SayBye(t) ==
  /\ t \in bye /\ bye' = bye \ {t}
  /\ \/ Logout(t) /\ UNCHANGED losses
     \/ losses < MaxLosses /\ losses' = losses + 1 /\ UNCHANGED server
  /\ UNCHANGED <<stored, view, flights, login, denied, opens>>

SignIn(T) ==
  /\ view[T] = "login" /\ login[T] = None
  /\ \E h \in Handlers, a \in Accounts :
       Login(h, a) /\ login' = [login EXCEPT ![T] = h]
  /\ UNCHANGED <<stored, view, flights, bye, denied, opens, losses>>

SignedIn(T) ==
  /\ login[T] # None /\ req[login[T]].step = "ok"
  /\ Receive(login[T])
  /\ stored' = req[login[T]].new
  /\ view' = [view EXCEPT ![T] = "home"]
  /\ login' = [login EXCEPT ![T] = None]
  /\ UNCHANGED <<flights, bye, denied, opens, losses>>

-----------------------------------------------------------------------------
(* Requests nobody waits for any more still run to their end.              *)
Owned(h) == \E T \in Tabs : h \in flights[T] \/ login[T] = h
Serve(h) ==
  /\ Proceed(h) \/ (~Owned(h) /\ (Receive(h) \/ Crash(h)))
  /\ UNCHANGED client

WebInit ==
  /\ Init
  /\ stored = None
  /\ view = [T \in Tabs |-> "closed"]
  /\ flights = [T \in Tabs |-> {}]
  /\ login = [T \in Tabs |-> None]
  /\ bye = {} /\ denied = {} /\ opens = 0 /\ losses = 0

WebNext ==
  \/ \E T \in Tabs :
       \/ Open(T) \/ RetryRestore(T) \/ Retry(T)
       \/ Greeted(T) \/ Denied(T) \/ Unheard(T)
       \/ SignOut(T) \/ SignIn(T) \/ SignedIn(T)
       \/ \E h \in Handlers : Answered(T, h) \/ Lost(T, h)
  \/ \E h \in Handlers : Serve(h)
  \/ \E t \in Tokens : SayBye(t) \/ (Expire(t) /\ UNCHANGED client)
  \/ \E a \in Accounts, on \in BOOLEAN : SetActive(a, on) /\ UNCHANGED client

WebSpec == WebInit /\ [][WebNext]_allVars

-----------------------------------------------------------------------------
(* Every variable keeps its shape.                                         *)
WebTypeOK ==
  /\ TypeOK
  /\ stored \in Tokens \cup {None}
  /\ view \in [Tabs -> Views]
  /\ flights \in [Tabs -> SUBSET Handlers]
  /\ login \in [Tabs -> Handlers \cup {None}]
  /\ bye \subseteq Tokens /\ denied \subseteq Tabs
  /\ opens \in 0..MaxOpens /\ losses \in 0..MaxLosses

(* As long as the page is not reloaded and no answer lost, no refresh is   *)
(* refused while its session lives on under another token: the reason to   *)
(* send one refresh at a time and share its answer.                        *)
NoNeedlessRefusal ==
  opens = 1 /\ losses = 0 =>
    \A T \in Tabs : \A h \in flights[T] : req[h].step = "refused" =>
      \A t \in Tokens \ {req[h].token} : Unrevoked(t) =>
        token[t].session # token[req[h].token].session

(* No page waits for ever: one that waits for a refresh, the first or the  *)
(* second, has one on its way, however pages are reloaded and answers lost.*)
RestoringWaits ==
  \A T \in Tabs : view[T] \in {"restoring", "renewing"} => flights[T] # {}

(* A page that got no answer while restoring has a token to try again      *)
(* with: opening the app offline signs nobody out.  Two cases are apart.   *)
(* Another tab has been opened, where the session may have ended; or the   *)
(* user's load came back 401, and the second refresh, when lost, costs the *)
(* token (api.ts:89 forgets it before auth-context.tsx:54 would keep it).  *)
OfflineKeepsToken ==
  \A T \in Tabs : view[T] = "offline" =>
    stored # None \/ T \in denied \/ \E U \in Tabs \ {T} : view[U] # "closed"

(* Whatever is lost and reloaded while a session is restored, the page     *)
(* neither waits for ever nor forgets the token, apart from those cases.   *)
RestoreSafe == RestoringWaits /\ OfflineKeepsToken
=============================================================================
