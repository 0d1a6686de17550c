------------------------------- MODULE Sessions -------------------------------
(***************************************************************************)
(* AuthService: logins, one-time refresh tokens, logout and password       *)
(* changes.  None of it runs in a transaction except the two writes of a   *)
(* password change, so each statement is a step of its own and another     *)
(* request may come between any two.                                       *)
(***************************************************************************)
EXTENDS Integers, FiniteSets

CONSTANTS
  Accounts, Tokens, Handlers, None,
  MaxChanges   (* bound: password changes of one account                   *)

ASSUME SessionsAssumption ==
  /\ MaxChanges \in Nat
  /\ None \notin Accounts \cup Tokens

VARIABLES
  active,    (* Account.isActive                                           *)
  password,  (* which of an account's passwords is the current one         *)
  token,     (* RefreshToken rows; rows keep their history when deleted    *)
  req        (* requests in flight, and answers not yet received           *)
vars == <<active, password, token, req>>

TokenState == {"unused", "live", "expired", "revoked", "gone"}

(* session: the token the login handed out, of which this one descends;    *)
(* era: the password that login was made with.  Neither is a column.       *)
Row == [state: TokenState,
        account: Accounts \cup {None},
        session: Tokens \cup {None},
        era: 0..MaxChanges]

Steps == {"idle", "account", "revoke", "purge", "create", "change", "ok", "refused"}

(* The account, the token presented (None for a login), the password the   *)
(* account had when it was read, the token handed out.                     *)
Req == [step: Steps,
        account: Accounts \cup {None},
        token: Tokens \cup {None},
        saw: 0..MaxChanges,
        new: Tokens \cup {None}]
Idle == [step |-> "idle", account |-> None, token |-> None, saw |-> 0, new |-> None]

Unrevoked(t) == token[t].state \in {"live", "expired"}

Start(h, r) == req[h].step = "idle" /\ req' = [req EXCEPT ![h] = r]
Goto(h, to) == req' = [req EXCEPT ![h].step = to]
Revoke(T) == token' = [t \in Tokens |->
  IF t \in T /\ Unrevoked(t) THEN [token[t] EXCEPT !.state = "revoked"] ELSE token[t]]

-----------------------------------------------------------------------------
(* login: the account is read, its password compared, its state checked.   *)
Login(h, a) ==
  /\ active[a]
  /\ Start(h, [Idle EXCEPT !.step = "purge", !.account = a, !.saw = password[a]])
  /\ UNCHANGED <<active, password, token>>

(* issueSessionFor, after a sign-up or a link: no check.                   *)
IssueFor(h, a) ==
  /\ Start(h, [Idle EXCEPT !.step = "purge", !.account = a, !.saw = password[a]])
  /\ UNCHANGED <<active, password, token>>

(* refresh: the row read must be neither revoked nor expired ...           *)
Refresh(h, t) ==
  /\ token[t].state # "unused"
  /\ IF token[t].state = "live"
     THEN Start(h, [Idle EXCEPT !.step = "account", !.account = token[t].account,
                                !.token = t])
     ELSE Start(h, [Idle EXCEPT !.step = "refused", !.token = t])
  /\ UNCHANGED <<active, password, token>>

(* ... the account active ...                                              *)
RefreshAccount(h) ==
  /\ req[h].step = "account"
  /\ Goto(h, IF active[req[h].account] THEN "revoke" ELSE "refused")
  /\ UNCHANGED <<active, password, token>>

WrongRefreshRevoke(h) ==
  /\ req[h].step = "revoke"
  /\ Revoke({req[h].token}) /\ Goto(h, "purge")
  /\ UNCHANGED <<active, password>>

WrongRefreshRevokeLate(h) ==
  /\ req[h].step = "revoke"
  /\ \/ /\ Unrevoked(req[h].token) /\ Goto(h, "purge") /\ UNCHANGED token
     \/ ~Unrevoked(req[h].token) /\ Goto(h, "refused") /\ UNCHANGED token
  /\ UNCHANGED <<active, password>>

(* ... and the row is revoked unless someone else has done so meanwhile.   *)
RefreshRevoke(h) ==
  /\ req[h].step = "revoke"
  /\ \/ Unrevoked(req[h].token) /\ Revoke({req[h].token}) /\ Goto(h, "purge")
     \/ ~Unrevoked(req[h].token) /\ Goto(h, "refused") /\ UNCHANGED token
  /\ UNCHANGED <<active, password>>

WrongStale(t, a) == token[t].account = a /\ token[t].state # "unused"
Stale(t, a) == token[t].account = a /\ token[t].state \in {"expired", "revoked"}

(* issuePrismaRefreshToken: the account's expired and revoked rows go ...  *)
Purge(h) ==
  /\ req[h].step = "purge"
  /\ token' = [t \in Tokens |-> IF Stale(t, req[h].account)
                                THEN [token[t] EXCEPT !.state = "gone"] ELSE token[t]]
  /\ Goto(h, "create")
  /\ UNCHANGED <<active, password>>

(* ... and a new one is stored and handed out.                             *)
Create(h, t) ==
  LET old == req[h].token
  IN  /\ req[h].step = "create"
      /\ token[t].state = "unused"
      /\ token' = [token EXCEPT ![t] =
           [state |-> "live", account |-> req[h].account,
            session |-> IF old = None THEN t ELSE token[old].session,
            era |-> IF old = None THEN req[h].saw ELSE token[old].era]]
      /\ req' = [req EXCEPT ![h] = [@ EXCEPT !.step = "ok", !.new = t]]
      /\ UNCHANGED <<active, password>>

(* logout: one conditional statement.                                      *)
Logout(t) ==
  /\ token[t].state # "unused"
  /\ Revoke({t})
  /\ UNCHANGED <<active, password, req>>

-----------------------------------------------------------------------------
(* changePassword: the account is read and the old password compared; the  *)
(* new one and the revocation of all its tokens are one transaction.       *)
Change(h, a) ==
  /\ active[a]
  /\ Start(h, [Idle EXCEPT !.step = "change", !.account = a, !.saw = password[a]])
  /\ UNCHANGED <<active, password, token>>

ChangeCommit(h) ==
  LET a == req[h].account
  IN  /\ req[h].step = "change"
      /\ password[a] < MaxChanges
      /\ password' = [password EXCEPT ![a] = @ + 1]
      /\ Revoke({t \in Tokens : token[t].account = a})
      /\ Goto(h, "ok")
      /\ UNCHANGED active

-----------------------------------------------------------------------------
(* Withdrawals, resignations and their reversal, by other components.      *)
SetActive(a, on) ==
  /\ active' = [active EXCEPT ![a] = on]
  /\ UNCHANGED <<password, token, req>>

Expire(t) ==
  /\ token[t].state = "live"
  /\ token' = [token EXCEPT ![t].state = "expired"]
  /\ UNCHANGED <<active, password, req>>

(* The answer arrives, or is lost; or the instance dies on the way.        *)
Receive(h) ==
  /\ req[h].step \in {"ok", "refused"}
  /\ req' = [req EXCEPT ![h] = Idle]
  /\ UNCHANGED <<active, password, token>>

Crash(h) ==
  /\ req[h].step \notin {"idle", "ok", "refused"}
  /\ req' = [req EXCEPT ![h] = Idle]
  /\ UNCHANGED <<active, password, token>>

Init ==
  /\ active = [a \in Accounts |-> TRUE]
  /\ password = [a \in Accounts |-> 0]
  /\ token = [t \in Tokens |->
       [state |-> "unused", account |-> None, session |-> None, era |-> 0]]
  /\ req = [h \in Handlers |-> Idle]

Arrive(h) ==
  \/ \E a \in Accounts : Login(h, a) \/ IssueFor(h, a) \/ Change(h, a)
  \/ \E t \in Tokens : Refresh(h, t)

Proceed(h) ==
  \/ RefreshAccount(h) \/ RefreshRevoke(h) \/ Purge(h) \/ ChangeCommit(h)
  \/ \E t \in Tokens : Create(h, t)

Next ==
  \/ \E h \in Handlers : Arrive(h) \/ Proceed(h) \/ Receive(h) \/ Crash(h)
  \/ \E t \in Tokens : Logout(t) \/ Expire(t)
  \/ \E a \in Accounts, on \in BOOLEAN : SetActive(a, on)

Spec == Init /\ [][Next]_vars

-----------------------------------------------------------------------------
(* Every variable keeps its shape.                                         *)
TypeOK ==
  /\ active \in [Accounts -> BOOLEAN]
  /\ password \in [Accounts -> 0..MaxChanges]
  /\ token \in [Tokens -> Row]
  /\ req \in [Handlers -> Req]

(* Whether a request has consumed a token of session s and not yet stored  *)
(* its successor.                                                          *)
Holds(h, s) ==
  /\ req[h].step \in {"purge", "create"}
  /\ req[h].token # None /\ token[req[h].token].session = s

(* However many requests present the tokens of one login at once, it never *)
(* has two usable tokens, nor one usable and another on the way            *)
(* (ADR-AUTH-06).                                                          *)
OneKey ==
  \A s \in Tokens :
    /\ \A t, u \in Tokens : /\ Unrevoked(t) /\ token[t].session = s
                            /\ Unrevoked(u) /\ token[u].session = s
                            => t = u
    /\ \A g, h \in Handlers : Holds(g, s) /\ Holds(h, s) => g = h
    /\ \A t \in Tokens, h \in Handlers :
         ~(Unrevoked(t) /\ token[t].session = s /\ Holds(h, s))

(* A token that was revoked, or whose row is deleted, is never usable      *)
(* again, and a token that is still usable is never deleted (ADR-AUTH-04). *)
RevokedStays ==
  [][\A t \in Tokens :
       /\ token[t].state \in {"revoked", "gone"} => token'[t].state \in {"revoked", "gone"}
       /\ token[t].state = "live" => token'[t].state # "gone"]_vars

(* Seen from outside, a login hands out a key that changes hands one at a  *)
(* time until the session ends, and an ended session never opens again.    *)
(* The key of a session is its unrevoked token.                            *)
KeyOf(s) == IF \E t \in Tokens : Unrevoked(t) /\ token[t].session = s
            THEN CHOOSE t \in Tokens : Unrevoked(t) /\ token[t].session = s
            ELSE None
Ring == INSTANCE KeyRing WITH
  issued <- {t \in Tokens : token[t].state # "unused"},
  key <- [s \in Tokens |-> KeyOf(s)],
  passing <- {s \in Tokens : \E h \in Handlers : Holds(h, s)}
KeyRingSpec == Ring!Spec

(* ADR-AUTH-05: a password change ends every session opened with the old   *)
(* password.  A login or a refresh under way at that moment stores a token *)
(* afterwards.                                                             *)
ChangeEndsSessions ==
  \A t \in Tokens : token[t].state = "live" =>
    token[t].era = password[token[t].account]
=============================================================================
