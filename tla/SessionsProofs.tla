---------------------------- MODULE SessionsProofs ----------------------------
(***************************************************************************)
(* What is proved of the refresh tokens of Sessions, for any number of     *)
(* requests, tokens and accounts, and of the browser of MemberWeb, for any *)
(* number of tabs, reloads and lost answers.  Every step of the browser is *)
(* a step of the server or leaves it alone, so what is proved of the       *)
(* server holds under both.                                                *)
(***************************************************************************)
EXTENDS MemberWeb, TLAPS

-----------------------------------------------------------------------------
(* The inductive invariant of the server.  A row that was handed out names *)
(* its account and its session, which was itself handed out; a request     *)
(* that refers to a row refers to one that was handed out.                 *)
RowsKept ==
  \A t \in Tokens :
    /\ token[t].state = "unused" => token[t].session = None
    /\ token[t].state # "unused" => /\ token[t].session \in Tokens
                                    /\ token[t].account \in Accounts
                                    /\ token[token[t].session].state # "unused"

RequestsKept ==
  \A h \in Handlers :
    /\ req[h].token # None => token[req[h].token].state # "unused"
    /\ req[h].step \in {"account", "revoke"} => req[h].token # None
    /\ req[h].step \in {"account", "revoke", "purge", "create", "change"} =>
         req[h].account \in Accounts

SessInv == TypeOK /\ RowsKept /\ RequestsKept /\ OneKey

(* What a step does to one request and to the rows.                        *)
LEMMA RequestSet ==
  ASSUME TypeOK, NEW h \in Handlers, NEW r \in Req, req' = [req EXCEPT ![h] = r]
  PROVE  /\ req' \in [Handlers -> Req]
         /\ req'[h] = r
         /\ \A g \in Handlers : g # h => req'[g] = req[g]
  BY DEF TypeOK

LEMMA StepSet ==
  ASSUME TypeOK, NEW h \in Handlers, NEW to \in Steps, Goto(h, to)
  PROVE  /\ req' \in [Handlers -> Req]
         /\ req'[h].step = to
         /\ req'[h].account = req[h].account
         /\ req'[h].token = req[h].token
         /\ req'[h].new = req[h].new
         /\ \A g \in Handlers : g # h => req'[g] = req[g]
<1>1. req' = [req EXCEPT ![h] = [req[h] EXCEPT !.step = to]] BY DEF Goto, TypeOK
<1>2. req[h] \in Req BY DEF TypeOK
<1>3. [req[h] EXCEPT !.step = to] \in Req BY <1>2 DEF Req
<1>4. /\ [req[h] EXCEPT !.step = to].step = to
      /\ [req[h] EXCEPT !.step = to].account = req[h].account
      /\ [req[h] EXCEPT !.step = to].token = req[h].token
      /\ [req[h] EXCEPT !.step = to].new = req[h].new
  BY <1>2 DEF Req
<1> QED BY <1>1, <1>3, <1>4 DEF TypeOK

LEMMA StepsNamed ==
  /\ "idle" \in Steps /\ "account" \in Steps /\ "revoke" \in Steps /\ "purge" \in Steps
  /\ "create" \in Steps /\ "change" \in Steps /\ "ok" \in Steps /\ "refused" \in Steps
  BY DEF Steps

(* Rows only change their state, and unrevoked ones do not come about.     *)
RowsAge ==
  \A t \in Tokens :
    /\ token'[t].session = token[t].session
    /\ token'[t].account = token[t].account
    /\ token'[t].state = "unused" <=> token[t].state = "unused"
    /\ Unrevoked(t)' => Unrevoked(t)

LEMMA RevokeAges ==
  ASSUME TypeOK, NEW T, Revoke(T)
  PROVE  /\ token' \in [Tokens -> Row] /\ RowsAge
         /\ \A t \in Tokens : Unrevoked(t)' <=> Unrevoked(t) /\ t \notin T
         /\ \A t \in Tokens : \/ token'[t] = token[t]
                              \/ token'[t].state = "revoked" /\ Unrevoked(t)
<1>1. \A t \in Tokens : token[t] \in Row BY DEF TypeOK
<1>2. \A t \in Tokens :
        token'[t] = IF t \in T /\ Unrevoked(t)
                    THEN [token[t] EXCEPT !.state = "revoked"] ELSE token[t]
  BY DEF Revoke
<1>3. \A t \in Tokens :
        /\ [token[t] EXCEPT !.state = "revoked"] \in Row
        /\ [token[t] EXCEPT !.state = "revoked"].state = "revoked"
        /\ [token[t] EXCEPT !.state = "revoked"].session = token[t].session
        /\ [token[t] EXCEPT !.state = "revoked"].account = token[t].account
  BY <1>1 DEF Row, TokenState
<1>4. token' \in [Tokens -> Row] BY <1>1, <1>2, <1>3 DEF Revoke
<1>5. \A t \in Tokens :
        Unrevoked(t) => token[t].state # "unused" /\ token[t].state # "revoked"
  BY DEF Unrevoked
<1>6. ASSUME NEW t \in Tokens
      PROVE  /\ token'[t].session = token[t].session
             /\ token'[t].account = token[t].account
             /\ token'[t].state = "unused" <=> token[t].state = "unused"
             /\ Unrevoked(t)' <=> Unrevoked(t) /\ t \notin T
             /\ token'[t] = token[t] \/ (token'[t].state = "revoked" /\ Unrevoked(t))
  <2>1. CASE t \in T /\ Unrevoked(t)
    <3>1. token'[t] = [token[t] EXCEPT !.state = "revoked"] BY <1>2, <2>1
    <3>2. token'[t].state = "revoked" BY <3>1, <1>3
    <3>3. ~ Unrevoked(t)' BY <3>2 DEF Unrevoked
    <3> QED BY <3>1, <3>2, <3>3, <1>3, <1>5, <2>1
  <2>2. CASE ~ (t \in T /\ Unrevoked(t))
    <3>1. token'[t] = token[t] BY <1>2, <2>2
    <3>2. Unrevoked(t)' <=> Unrevoked(t) BY <3>1 DEF Unrevoked
    <3> QED BY <3>1, <3>2, <2>2
  <2> QED BY <2>1, <2>2
<1> QED BY <1>4, <1>6 DEF RowsAge

LEMMA PurgeAges ==
  ASSUME TypeOK, NEW h \in Handlers, Purge(h)
  PROVE  /\ token' \in [Tokens -> Row] /\ RowsAge
         /\ \A t \in Tokens : \/ token'[t] = token[t]
                              \/ /\ token'[t].state = "gone"
                                 /\ token[t].state \in {"expired", "revoked"}
<1> DEFINE a == req[h].account
<1>1. \A t \in Tokens : token[t] \in Row BY DEF TypeOK
<1>2. /\ token' = [t \in Tokens |-> IF Stale(t, a)
                     THEN [token[t] EXCEPT !.state = "gone"] ELSE token[t]]
  BY DEF Purge
<1> HIDE DEF a
<1>3. \A t \in Tokens :
        /\ [token[t] EXCEPT !.state = "gone"] \in Row
        /\ [token[t] EXCEPT !.state = "gone"].state = "gone"
        /\ [token[t] EXCEPT !.state = "gone"].session = token[t].session
        /\ [token[t] EXCEPT !.state = "gone"].account = token[t].account
  BY <1>1 DEF Row, TokenState
<1>4. token' \in [Tokens -> Row] BY <1>1, <1>2, <1>3
<1>5. \A t \in Tokens : Stale(t, a) => token[t].state \in {"expired", "revoked"}
  BY DEF Stale
<1>6. ASSUME NEW t \in Tokens
      PROVE  /\ token'[t].session = token[t].session
             /\ token'[t].account = token[t].account
             /\ token'[t].state = "unused" <=> token[t].state = "unused"
             /\ Unrevoked(t)' => Unrevoked(t)
             /\ \/ token'[t] = token[t]
                \/ token'[t].state = "gone" /\ token[t].state \in {"expired", "revoked"}
  <2>1. CASE Stale(t, a)
    <3>1. token'[t] = [token[t] EXCEPT !.state = "gone"] BY <1>2, <2>1
    <3>2. token'[t].state = "gone" BY <3>1, <1>3
    <3>3. ~ Unrevoked(t)' BY <3>2 DEF Unrevoked
    <3> QED BY <3>1, <3>2, <3>3, <1>3, <1>5, <2>1
  <2>2. CASE ~ Stale(t, a)
    <3>1. token'[t] = token[t] BY <1>2, <2>2
    <3>2. Unrevoked(t)' <=> Unrevoked(t) BY <3>1 DEF Unrevoked
    <3> QED BY <3>1, <3>2
  <2> QED BY <2>1, <2>2
<1> QED BY <1>4, <1>6 DEF RowsAge

LEMMA ExpireAges ==
  ASSUME TypeOK, NEW x \in Tokens, Expire(x)
  PROVE  /\ token' \in [Tokens -> Row] /\ RowsAge
         /\ \A t \in Tokens : Unrevoked(t)' <=> Unrevoked(t)
         /\ token[x].state = "live" /\ token'[x].state = "expired"
         /\ \A t \in Tokens : t # x => token'[t] = token[t]
<1>1. token[x] \in Row BY DEF TypeOK
<1>2. /\ token[x].state = "live"
      /\ token' = [token EXCEPT ![x] = [token[x] EXCEPT !.state = "expired"]]
  BY DEF Expire, TypeOK
<1>3. /\ [token[x] EXCEPT !.state = "expired"] \in Row
      /\ [token[x] EXCEPT !.state = "expired"].state = "expired"
      /\ [token[x] EXCEPT !.state = "expired"].session = token[x].session
      /\ [token[x] EXCEPT !.state = "expired"].account = token[x].account
  BY <1>1 DEF Row, TokenState
<1>4. /\ token' \in [Tokens -> Row]
      /\ token'[x] = [token[x] EXCEPT !.state = "expired"]
      /\ \A t \in Tokens : t # x => token'[t] = token[t]
  BY <1>2, <1>3 DEF TypeOK
<1>5. Unrevoked(x) /\ Unrevoked(x)' BY <1>2, <1>3, <1>4 DEF Unrevoked
<1>6. \A t \in Tokens : t # x => (Unrevoked(t)' <=> Unrevoked(t))
  BY <1>4 DEF Unrevoked
<1>7. \A t \in Tokens : Unrevoked(t)' <=> Unrevoked(t) BY <1>5, <1>6
<1> QED BY <1>2, <1>3, <1>4, <1>7 DEF RowsAge

-----------------------------------------------------------------------------
(* If rows only age and no request begins to hold a session's key, the     *)
(* keys stay single.                                                       *)
LEMMA KeysStaySingle ==
  ASSUME OneKey, RowsAge,
         \A h \in Handlers, s \in Tokens : Holds(h, s)' => Holds(h, s)
  PROVE  OneKey'
<1>1. \A t \in Tokens : /\ Unrevoked(t)' => Unrevoked(t)
                        /\ token'[t].session = token[t].session
  BY DEF RowsAge
<1> SUFFICES ASSUME NEW s \in Tokens
             PROVE  /\ \A t, u \in Tokens : /\ Unrevoked(t)' /\ token'[t].session = s
                                            /\ Unrevoked(u)' /\ token'[u].session = s
                                            => t = u
                    /\ \A g, h \in Handlers : Holds(g, s)' /\ Holds(h, s)' => g = h
                    /\ \A t \in Tokens, h \in Handlers :
                         ~(Unrevoked(t)' /\ token'[t].session = s /\ Holds(h, s)')
  BY DEF OneKey
<1> QED BY <1>1 DEF OneKey

(* If they do, what refers to rows keeps to rows that were handed out.     *)
LEMMA RowsKeptAge ==
  ASSUME TypeOK, RowsKept, RowsAge
  PROVE  RowsKept'
  BY DEF RowsKept, RowsAge

LEMMA RequestsKeptAge ==
  ASSUME TypeOK, RequestsKept, RowsAge, UNCHANGED req
  PROVE  RequestsKept' /\ \A h \in Handlers, s \in Tokens : Holds(h, s)' => Holds(h, s)
<1>1. \A h \in Handlers : req[h].token # None => req[h].token \in Tokens
  BY DEF TypeOK, Req
<1> QED BY <1>1 DEF RequestsKept, RowsAge, Holds

LEMMA RowsUnchanged ==
  ASSUME UNCHANGED token
  PROVE  RowsAge
  BY DEF RowsAge, Unrevoked

(* One request moves and holds no more than it did before.                 *)
LEMMA OneMoves ==
  ASSUME TypeOK, RequestsKept, RowsAge, NEW h \in Handlers,
         \A g \in Handlers : g # h => req'[g] = req[g],
         req'[h].token # None => /\ req'[h].token \in Tokens
                                 /\ token[req'[h].token].state # "unused",
         req'[h].step \in {"account", "revoke"} => req'[h].token # None,
         req'[h].step \in {"account", "revoke", "purge", "create", "change"} =>
           req'[h].account \in Accounts,
         \/ req'[h].step \notin {"purge", "create"}
         \/ req'[h].token = None
         \/ req'[h].token = req[h].token /\ req[h].step \in {"purge", "create"}
  PROVE  RequestsKept' /\ \A g \in Handlers, s \in Tokens : Holds(g, s)' => Holds(g, s)
<1>1. \A g \in Handlers : req[g].token # None => req[g].token \in Tokens
  BY DEF TypeOK, Req
<1>2. \A g \in Handlers : req'[g].token # None => token'[req'[g].token].state # "unused"
  <2> SUFFICES ASSUME NEW g \in Handlers, req'[g].token # None
               PROVE  token'[req'[g].token].state # "unused"
    OBVIOUS
  <2>1. CASE g = h BY <2>1 DEF RowsAge
  <2>2. CASE g # h BY <2>2, <1>1 DEF RowsAge, RequestsKept
  <2> QED BY <2>1, <2>2
<1>3. \A g \in Handlers :
        /\ req'[g].step \in {"account", "revoke"} => req'[g].token # None
        /\ req'[g].step \in {"account", "revoke", "purge", "create", "change"} =>
             req'[g].account \in Accounts
  BY DEF RequestsKept
<1>4. ASSUME NEW g \in Handlers, NEW s \in Tokens, Holds(g, s)'
      PROVE  Holds(g, s)
  <2>1. /\ req'[g].step \in {"purge", "create"} /\ req'[g].token # None
        /\ token'[req'[g].token].session = s
    BY <1>4 DEF Holds
  <2>2. req'[g].token = req[g].token /\ req[g].step \in {"purge", "create"}
    BY <2>1
  <2>3. token[req[g].token].session = s BY <2>1, <2>2, <1>1 DEF RowsAge
  <2> QED BY <2>1, <2>2, <2>3 DEF Holds
<1> QED BY <1>2, <1>3, <1>4 DEF RequestsKept

LEMMA IdleTyped ==
  /\ Idle \in Req /\ Idle.step = "idle" /\ Idle.token = None
  BY SessionsAssumption DEF Idle, Req, Steps

LEMMA ArrivalTyped ==
  ASSUME NEW a \in Accounts \cup {None}, NEW x \in Tokens \cup {None},
         NEW s \in 0..MaxChanges
  PROVE  /\ [step |-> "purge", account |-> a, token |-> x, saw |-> s, new |-> None] \in Req
         /\ [step |-> "change", account |-> a, token |-> x, saw |-> s, new |-> None] \in Req
         /\ [step |-> "account", account |-> a, token |-> x, saw |-> s, new |-> None] \in Req
         /\ [step |-> "refused", account |-> a, token |-> x, saw |-> s, new |-> None] \in Req
  BY DEF Req, Steps

(* Together: a step that lets one request move and rows only age.          *)
LEMMA QuietStep ==
  ASSUME SessInv, RowsAge, token' \in [Tokens -> Row],
         active' \in [Accounts -> BOOLEAN], password' \in [Accounts -> 0..MaxChanges],
         NEW h \in Handlers, req' \in [Handlers -> Req],
         \A g \in Handlers : g # h => req'[g] = req[g],
         req'[h].token # None => token[req'[h].token].state # "unused",
         req'[h].step \in {"account", "revoke"} => req'[h].token # None,
         req'[h].step \in {"account", "revoke", "purge", "create", "change"} =>
           req'[h].account \in Accounts,
         \/ req'[h].step \notin {"purge", "create"}
         \/ req'[h].token = None
         \/ req'[h].token = req[h].token /\ req[h].step \in {"purge", "create"}
  PROVE  /\ SessInv'
         /\ \A g \in Handlers, s \in Tokens : Holds(g, s)' => Holds(g, s)
<1>1. req'[h].token # None => req'[h].token \in Tokens BY DEF Req
<1>2. RequestsKept' /\ \A g \in Handlers, s \in Tokens : Holds(g, s)' => Holds(g, s)
  BY <1>1, OneMoves DEF SessInv
<1>3. OneKey' BY <1>2, KeysStaySingle DEF SessInv
<1>4. RowsKept' BY RowsKeptAge DEF SessInv
<1>5. TypeOK' BY DEF TypeOK, SessInv
<1> QED BY <1>2, <1>3, <1>4, <1>5 DEF SessInv

(* What is left alone by all but three steps is held by a request before   *)
(* and after.                                                              *)
LEMMA HoldsSame ==
  ASSUME SessInv, RowsAge, NEW h \in Handlers,
         \A g \in Handlers : g # h => req'[g] = req[g],
         \/ req[h].step \notin {"purge", "create"}
         \/ req[h].token = None
         \/ req'[h].token = req[h].token /\ req'[h].step \in {"purge", "create"}
  PROVE  \A g \in Handlers, s \in Tokens : Holds(g, s) => Holds(g, s)'
<1>1. \A g \in Handlers : req[g].token # None => req[g].token \in Tokens
  BY DEF TypeOK, Req, SessInv
<1> SUFFICES ASSUME NEW g \in Handlers, NEW s \in Tokens, Holds(g, s)
             PROVE  Holds(g, s)'
  OBVIOUS
<1>2. /\ req[g].step \in {"purge", "create"} /\ req[g].token # None
      /\ token[req[g].token].session = s
  BY DEF Holds
<1>3. req'[g].token = req[g].token /\ req'[g].step \in {"purge", "create"}
  BY <1>2
<1>4. token'[req'[g].token].session = s BY <1>1, <1>2, <1>3 DEF RowsAge
<1> QED BY <1>2, <1>3, <1>4 DEF Holds

-----------------------------------------------------------------------------
(* The key of a session in a table of rows, as a function of the table.    *)
KeyIn(tok, s) ==
  IF \E t \in Tokens : tok[t].state \in {"live", "expired"} /\ tok[t].session = s
  THEN CHOOSE t \in Tokens : tok[t].state \in {"live", "expired"} /\ tok[t].session = s
  ELSE None

LEMMA KeysRead ==
  /\ \A s : KeyOf(s) = KeyIn(token, s)
  /\ \A s : KeyOf(s)' = KeyIn(token', s)
  BY DEF KeyOf, KeyIn, Unrevoked

LEMMA KeyFound ==
  ASSUME NEW tok, NEW s, NEW x \in Tokens,
         tok[x].state \in {"live", "expired"}, tok[x].session = s,
         \A t, u \in Tokens : /\ tok[t].state \in {"live", "expired"} /\ tok[t].session = s
                              /\ tok[u].state \in {"live", "expired"} /\ tok[u].session = s
                              => t = u
  PROVE  KeyIn(tok, s) = x
<1> DEFINE P(t) == tok[t].state \in {"live", "expired"} /\ tok[t].session = s
           k == CHOOSE t \in Tokens : P(t)
<1>1. P(x) OBVIOUS
<1>2. k \in Tokens /\ P(k) BY <1>1
<1>3. KeyIn(tok, s) = k BY <1>1 DEF KeyIn
<1>4. \A t, u \in Tokens : P(t) /\ P(u) => t = u OBVIOUS
<1> HIDE DEF P, k
<1> QED BY <1>1, <1>2, <1>3, <1>4

LEMMA KeyMissing ==
  ASSUME NEW tok, NEW s,
         \A t \in Tokens : ~(tok[t].state \in {"live", "expired"} /\ tok[t].session = s)
  PROVE  KeyIn(tok, s) = None
  BY DEF KeyIn

(* The same of this state and, under OneKey', of the next.                 *)
LEMMA KeyNow ==
  ASSUME OneKey, NEW s \in Tokens
  PROVE  /\ \A x \in Tokens : Unrevoked(x) /\ token[x].session = s => KeyOf(s) = x
         /\ (\A t \in Tokens : ~(Unrevoked(t) /\ token[t].session = s)) => KeyOf(s) = None
<1>1. \A t, u \in Tokens :
        /\ token[t].state \in {"live", "expired"} /\ token[t].session = s
        /\ token[u].state \in {"live", "expired"} /\ token[u].session = s
        => t = u
  BY DEF OneKey, Unrevoked
<1>2. \A x \in Tokens :
        token[x].state \in {"live", "expired"} /\ token[x].session = s
          => KeyIn(token, s) = x
  BY <1>1, KeyFound
<1>3. (\A t \in Tokens : ~(token[t].state \in {"live", "expired"} /\ token[t].session = s))
        => KeyIn(token, s) = None
  BY KeyMissing
<1> QED BY <1>2, <1>3, KeysRead DEF Unrevoked

LEMMA KeyNext ==
  ASSUME OneKey', NEW s \in Tokens
  PROVE  /\ \A x \in Tokens : Unrevoked(x)' /\ token'[x].session = s => KeyOf(s)' = x
         /\ (\A t \in Tokens : ~(Unrevoked(t)' /\ token'[t].session = s))
              => KeyOf(s)' = None
<1>1. \A t, u \in Tokens :
        /\ token'[t].state \in {"live", "expired"} /\ token'[t].session = s
        /\ token'[u].state \in {"live", "expired"} /\ token'[u].session = s
        => t = u
  BY DEF OneKey, Unrevoked
<1>2. \A x \in Tokens :
        token'[x].state \in {"live", "expired"} /\ token'[x].session = s
          => KeyIn(token', s) = x
  BY <1>1, KeyFound
<1>3. (\A t \in Tokens : ~(token'[t].state \in {"live", "expired"} /\ token'[t].session = s))
        => KeyIn(token', s) = None
  BY KeyMissing
<1> QED BY <1>2, <1>3, KeysRead DEF Unrevoked

(* When rows only age a session keeps its key or loses it ...              *)
LEMMA KeysAge ==
  ASSUME OneKey, OneKey', RowsAge, NEW s \in Tokens
  PROVE  KeyOf(s)' = KeyOf(s) \/ KeyOf(s)' = None
<1>1. CASE \E t \in Tokens : Unrevoked(t)' /\ token'[t].session = s
  <2>1. PICK t \in Tokens : Unrevoked(t)' /\ token'[t].session = s BY <1>1
  <2>2. Unrevoked(t) /\ token[t].session = s BY <2>1 DEF RowsAge
  <2> QED BY <2>1, <2>2, KeyNow, KeyNext
<1>2. CASE \A t \in Tokens : ~(Unrevoked(t)' /\ token'[t].session = s)
  BY <1>2, KeyNext
<1> QED BY <1>1, <1>2

(* ... so that, as long as no exchange begins or ends, the ring only sees  *)
(* sessions end, if anything.                                              *)
LEMMA RingOver ==
  ASSUME OneKey, OneKey', RowsAge,
         \A h \in Handlers, s \in Tokens : Holds(h, s)' <=> Holds(h, s)
  PROVE  Ring!Next
<1> DEFINE S == {s \in Tokens : KeyOf(s)' # KeyOf(s)}
<1>1. S \in SUBSET Tokens OBVIOUS
<1>2. [s \in Tokens |-> KeyOf(s)]'
        = [s \in Tokens |-> IF s \in S THEN None ELSE [z \in Tokens |-> KeyOf(z)][s]]
  <2>1. \A s \in Tokens :
          KeyOf(s)' = IF s \in S THEN None ELSE [z \in Tokens |-> KeyOf(z)][s]
    BY KeysAge
  <2> QED BY <2>1
<1>3. {t \in Tokens : token[t].state # "unused"}' = {t \in Tokens : token[t].state # "unused"}
  BY DEF RowsAge
<1>4. {s \in Tokens : \E h \in Handlers : Holds(h, s)}'
        = {s \in Tokens : \E h \in Handlers : Holds(h, s)}
  <2>1. \A s \in Tokens :
          (\E h \in Handlers : Holds(h, s)') <=> (\E h \in Handlers : Holds(h, s))
    OBVIOUS
  <2> QED BY <2>1
<1> HIDE DEF S
<1>5. Ring!Over(S) BY <1>2, <1>3, <1>4 DEF Ring!Over
<1> QED BY <1>1, <1>5 DEF Ring!Next

-----------------------------------------------------------------------------
(* One step of the server keeps the invariant, moves the key ring, lets no *)
(* revoked row come back, and hands a key in only by the conditional       *)
(* revocation of a refresh.                                                *)
StaysRevoked ==
  \A t \in Tokens :
    /\ token[t].state \in {"revoked", "gone"} => token'[t].state \in {"revoked", "gone"}
    /\ token[t].state = "live" => token'[t].state # "gone"

HandsIn ==
  \A h \in Handlers, s \in Tokens :
    Holds(h, s)' => \/ Holds(h, s)
                    \/ /\ req[h].step = "revoke" /\ req[h].token \in Tokens
                       /\ token[req[h].token].session = s

Stepped == SessInv' /\ [Ring!Next]_(Ring!vars) /\ StaysRevoked /\ HandsIn

(* A request that comes in.                                                *)
LEMMA StartSteps ==
  ASSUME SessInv, NEW h \in Handlers, NEW r \in Req, Start(h, r),
         UNCHANGED <<active, password, token>>,
         r.token # None => token[r.token].state # "unused",
         r.step = "account" => r.token # None,
         r.step \in {"account", "purge", "change"} => r.account \in Accounts,
         r.step \in {"account", "purge", "change", "refused"},
         r.step = "purge" => r.token = None
  PROVE  Stepped
<1>1. RowsAge BY RowsUnchanged
<1>2. req[h].step = "idle" /\ req' = [req EXCEPT ![h] = r] BY DEF Start
<1>3. /\ req' \in [Handlers -> Req] /\ req'[h] = r
      /\ \A g \in Handlers : g # h => req'[g] = req[g]
  BY <1>2, RequestSet DEF SessInv
<1>4. /\ token' \in [Tokens -> Row] /\ active' \in [Accounts -> BOOLEAN]
      /\ password' \in [Accounts -> 0..MaxChanges]
  BY DEF SessInv, TypeOK
<1>5. SessInv' /\ \A g \in Handlers, s \in Tokens : Holds(g, s)' => Holds(g, s)
  BY <1>1, <1>3, <1>4, QuietStep
<1>6. \A g \in Handlers, s \in Tokens : Holds(g, s) => Holds(g, s)'
  BY <1>1, <1>2, <1>3, HoldsSame
<1>7. Ring!Next BY <1>1, <1>5, <1>6, RingOver DEF SessInv
<1>8. StaysRevoked BY DEF StaysRevoked
<1> QED BY <1>5, <1>7, <1>8 DEF Stepped, HandsIn

LEMMA ChangeArrival ==
  ASSUME NEW to, NEW a, NEW p
  PROVE  [Idle EXCEPT !.step = to, !.account = a, !.saw = p]
           = [step |-> to, account |-> a, token |-> None, saw |-> p, new |-> None]
<1> DEFINE e == [Idle EXCEPT !.step = to, !.account = a, !.saw = p]
           S == [step: {to}, account: {a}, token: {None}, saw: {p}, new: {None}]
<1>2. e \in S BY DEF Idle
<1> HIDE DEF e
<1>3. e = [step |-> e.step, account |-> e.account, token |-> e.token,
           saw |-> e.saw, new |-> e.new]
  BY <1>2
<1>4. /\ e.step = to /\ e.account = a /\ e.token = None /\ e.saw = p /\ e.new = None
  BY <1>2
<1> QED BY <1>3, <1>4 DEF e

LEMMA ArriveSteps ==
  ASSUME SessInv, NEW h \in Handlers, Arrive(h)
  PROVE  Stepped
<1>1. ASSUME NEW a \in Accounts, Login(h, a) \/ IssueFor(h, a)
      PROVE  Stepped
  <2> DEFINE r == [step |-> "purge", account |-> a, token |-> None,
                   saw |-> password[a], new |-> None]
  <2>1. password[a] \in 0..MaxChanges BY DEF SessInv, TypeOK
  <2>2. r \in Req BY <2>1, ArrivalTyped
  <2>3. Start(h, r) /\ UNCHANGED <<active, password, token>>
    BY <1>1 DEF Login, IssueFor, Start, Idle
  <2> QED BY <2>2, <2>3, StartSteps
<1>2. ASSUME NEW a \in Accounts, Change(h, a)
      PROVE  Stepped
  <2> DEFINE r == [step |-> "change", account |-> a, token |-> None,
                   saw |-> password[a], new |-> None]
  <2>1. password[a] \in 0..MaxChanges BY DEF SessInv, TypeOK
  <2>2. r \in Req BY <2>1, ArrivalTyped
  <2>3. [Idle EXCEPT !.step = "change", !.account = a, !.saw = password[a]] = r
    BY ChangeArrival
  <2>4. Start(h, r) /\ UNCHANGED <<active, password, token>>
    BY <1>2, <2>3 DEF Change
  <2> QED BY <2>2, <2>4, StartSteps
<1>3. ASSUME NEW t \in Tokens, Refresh(h, t)
      PROVE  Stepped
  <2>1. token[t].state # "unused" BY <1>3 DEF Refresh
  <2>2. token[t].account \in Accounts BY <2>1 DEF SessInv, RowsKept
  <2>3. t # None BY SessionsAssumption
  <2>4. 0 \in 0..MaxChanges BY SessionsAssumption
  <2>5. CASE token[t].state = "live"
    <3> DEFINE r == [step |-> "account", account |-> token[t].account, token |-> t,
                     saw |-> 0, new |-> None]
    <3>1. r \in Req BY <2>2, <2>4, ArrivalTyped
    <3>2. Start(h, r) /\ UNCHANGED <<active, password, token>>
      BY <1>3, <2>5 DEF Refresh, Start, Idle
    <3> QED BY <2>1, <2>2, <2>3, <3>1, <3>2, StartSteps
  <2>6. CASE token[t].state # "live"
    <3> DEFINE r == [step |-> "refused", account |-> None, token |-> t,
                     saw |-> 0, new |-> None]
    <3>1. r \in Req BY <2>4, ArrivalTyped
    <3>2. Start(h, r) /\ UNCHANGED <<active, password, token>>
      BY <1>3, <2>6 DEF Refresh, Start, Idle
    <3> QED BY <2>1, <3>1, <3>2, StartSteps
  <2> QED BY <2>5, <2>6
<1> QED BY <1>1, <1>2, <1>3 DEF Arrive

(* A request that goes on without a write to the tokens.                   *)
LEMMA RefreshAccountSteps ==
  ASSUME SessInv, NEW h \in Handlers, RefreshAccount(h)
  PROVE  Stepped
<1> DEFINE to == IF active[req[h].account] THEN "revoke" ELSE "refused"
<1>1. RowsAge BY RowsUnchanged DEF RefreshAccount
<1>2. /\ req[h].step = "account" /\ to \in {"revoke", "refused"}
      /\ Goto(h, to) /\ UNCHANGED <<active, password, token>>
  BY DEF RefreshAccount
<1> HIDE DEF to
<1>3. /\ req' \in [Handlers -> Req] /\ req'[h].step = to
      /\ req'[h].account = req[h].account /\ req'[h].token = req[h].token
      /\ \A g \in Handlers : g # h => req'[g] = req[g]
  BY <1>2, StepSet, StepsNamed DEF SessInv
<1>4. /\ token' \in [Tokens -> Row] /\ active' \in [Accounts -> BOOLEAN]
      /\ password' \in [Accounts -> 0..MaxChanges]
  BY <1>2 DEF SessInv, TypeOK
<1>5. /\ req[h].token # None /\ token[req[h].token].state # "unused"
      /\ req[h].account \in Accounts
  BY <1>2 DEF SessInv, RequestsKept
<1>6. SessInv' /\ \A g \in Handlers, s \in Tokens : Holds(g, s)' => Holds(g, s)
  BY <1>1, <1>2, <1>3, <1>4, <1>5, QuietStep
<1>7. \A g \in Handlers, s \in Tokens : Holds(g, s) => Holds(g, s)'
  BY <1>1, <1>2, <1>3, HoldsSame
<1>8. Ring!Next BY <1>1, <1>6, <1>7, RingOver DEF SessInv
<1>9. StaysRevoked BY <1>2 DEF StaysRevoked
<1> QED BY <1>6, <1>8, <1>9 DEF Stepped, HandsIn

LEMMA PurgeSteps ==
  ASSUME SessInv, NEW h \in Handlers, Purge(h)
  PROVE  Stepped
<1>1. /\ token' \in [Tokens -> Row] /\ RowsAge
      /\ \A t \in Tokens : \/ token'[t] = token[t]
                           \/ /\ token'[t].state = "gone"
                              /\ token[t].state \in {"expired", "revoked"}
  BY PurgeAges DEF SessInv
<1>2. req[h].step = "purge" /\ Goto(h, "create") /\ UNCHANGED <<active, password>>
  BY DEF Purge
<1>3. /\ req' \in [Handlers -> Req] /\ req'[h].step = "create"
      /\ req'[h].account = req[h].account /\ req'[h].token = req[h].token
      /\ \A g \in Handlers : g # h => req'[g] = req[g]
  BY <1>2, StepSet, StepsNamed DEF SessInv
<1>4. active' \in [Accounts -> BOOLEAN] /\ password' \in [Accounts -> 0..MaxChanges]
  BY <1>2 DEF SessInv, TypeOK
<1>5. /\ req[h].token # None => token[req[h].token].state # "unused"
      /\ req[h].account \in Accounts
  BY <1>2 DEF SessInv, RequestsKept
<1>6. SessInv' /\ \A g \in Handlers, s \in Tokens : Holds(g, s)' => Holds(g, s)
  BY <1>1, <1>2, <1>3, <1>4, <1>5, QuietStep
<1>7. \A g \in Handlers, s \in Tokens : Holds(g, s) => Holds(g, s)'
  BY <1>1, <1>2, <1>3, HoldsSame
<1>8. Ring!Next BY <1>1, <1>6, <1>7, RingOver DEF SessInv
<1>9. StaysRevoked BY <1>1 DEF StaysRevoked
<1> QED BY <1>6, <1>8, <1>9 DEF Stepped, HandsIn

LEMMA ChangeCommitSteps ==
  ASSUME SessInv, NEW h \in Handlers, ChangeCommit(h)
  PROVE  Stepped
<1> DEFINE a == req[h].account
           T == {t \in Tokens : token[t].account = a}
<1>1. /\ req[h].step = "change" /\ password[a] < MaxChanges
      /\ password' = [password EXCEPT ![a] = password[a] + 1]
      /\ Revoke(T) /\ Goto(h, "ok") /\ UNCHANGED active
  BY DEF ChangeCommit, SessInv, TypeOK
<1>2. a \in Accounts BY <1>1 DEF SessInv, RequestsKept
<1>3. password[a] \in 0..MaxChanges BY <1>2 DEF SessInv, TypeOK
<1>4. password[a] + 1 \in 0..MaxChanges BY <1>1, <1>3, SessionsAssumption
<1>5. password' \in [Accounts -> 0..MaxChanges] BY <1>1, <1>4 DEF SessInv, TypeOK
<1> HIDE DEF T
<1>6. /\ token' \in [Tokens -> Row] /\ RowsAge
      /\ \A t \in Tokens : \/ token'[t] = token[t]
                           \/ token'[t].state = "revoked" /\ Unrevoked(t)
  BY <1>1, RevokeAges DEF SessInv
<1>7. /\ req' \in [Handlers -> Req] /\ req'[h].step = "ok" /\ req'[h].token = req[h].token
      /\ \A g \in Handlers : g # h => req'[g] = req[g]
  BY <1>1, StepSet, StepsNamed DEF SessInv
<1>8. active' \in [Accounts -> BOOLEAN] BY <1>1 DEF SessInv, TypeOK
<1>9. req[h].token # None => token[req[h].token].state # "unused"
  BY DEF SessInv, RequestsKept
<1>10. SessInv' /\ \A g \in Handlers, s \in Tokens : Holds(g, s)' => Holds(g, s)
  BY <1>5, <1>6, <1>7, <1>8, <1>9, QuietStep
<1>11. \A g \in Handlers, s \in Tokens : Holds(g, s) => Holds(g, s)'
  BY <1>1, <1>6, <1>7, HoldsSame
<1>12. Ring!Next BY <1>6, <1>10, <1>11, RingOver DEF SessInv
<1>13. StaysRevoked BY <1>6 DEF StaysRevoked
<1> QED BY <1>10, <1>12, <1>13 DEF Stepped, HandsIn

(* A step of the rows alone: a logout, an expiry, or none at all.          *)
LEMMA RowsStep ==
  ASSUME SessInv, UNCHANGED <<password, req>>, active' \in [Accounts -> BOOLEAN],
         token' \in [Tokens -> Row], RowsAge, StaysRevoked
  PROVE  Stepped
<1>1. RequestsKept' /\ \A h \in Handlers, s \in Tokens : Holds(h, s)' => Holds(h, s)
  BY RequestsKeptAge DEF SessInv
<1>2. \A h \in Handlers : req[h].token # None => req[h].token \in Tokens
  BY DEF TypeOK, Req, SessInv
<1>3. \A h \in Handlers, s \in Tokens : Holds(h, s) => Holds(h, s)'
  BY <1>2 DEF Holds, RowsAge
<1>4. OneKey' BY <1>1, KeysStaySingle DEF SessInv
<1>5. RowsKept' BY RowsKeptAge DEF SessInv
<1>6. TypeOK' BY DEF TypeOK, SessInv
<1>7. Ring!Next BY <1>1, <1>3, <1>4, RingOver DEF SessInv
<1>8. HandsIn BY <1>1 DEF HandsIn
<1> QED BY <1>1, <1>4, <1>5, <1>6, <1>7, <1>8 DEF Stepped, SessInv

LEMMA LogoutSteps ==
  ASSUME SessInv, NEW t \in Tokens, Logout(t)
  PROVE  Stepped
<1>1. Revoke({t}) /\ UNCHANGED <<active, password, req>> BY DEF Logout
<1>2. /\ token' \in [Tokens -> Row] /\ RowsAge
      /\ \A u \in Tokens : \/ token'[u] = token[u]
                           \/ token'[u].state = "revoked" /\ Unrevoked(u)
  BY <1>1, RevokeAges DEF SessInv
<1>3. StaysRevoked BY <1>2 DEF StaysRevoked
<1>4. active' \in [Accounts -> BOOLEAN] BY <1>1 DEF SessInv, TypeOK
<1> QED BY <1>1, <1>2, <1>3, <1>4, RowsStep

LEMMA ExpireSteps ==
  ASSUME SessInv, NEW t \in Tokens, Expire(t)
  PROVE  Stepped
<1>1. UNCHANGED <<active, password, req>> BY DEF Expire
<1>2. /\ token' \in [Tokens -> Row] /\ RowsAge
      /\ token[t].state = "live" /\ token'[t].state = "expired"
      /\ \A u \in Tokens : u # t => token'[u] = token[u]
  BY ExpireAges DEF SessInv
<1>3. StaysRevoked BY <1>2 DEF StaysRevoked
<1>4. active' \in [Accounts -> BOOLEAN] BY <1>1 DEF SessInv, TypeOK
<1> QED BY <1>1, <1>2, <1>3, <1>4, RowsStep

LEMMA SetActiveSteps ==
  ASSUME SessInv, NEW a \in Accounts, NEW on \in BOOLEAN, SetActive(a, on)
  PROVE  Stepped
<1>1. UNCHANGED <<password, token, req>> BY DEF SetActive
<1>2. active' \in [Accounts -> BOOLEAN] BY DEF SetActive, SessInv, TypeOK
<1>3. RowsAge BY <1>1, RowsUnchanged
<1>4. StaysRevoked BY <1>1 DEF StaysRevoked
<1>5. token' \in [Tokens -> Row] BY <1>1 DEF SessInv, TypeOK
<1> QED BY <1>1, <1>2, <1>3, <1>4, <1>5, RowsStep

LEMMA ReceiveSteps ==
  ASSUME SessInv, NEW h \in Handlers, Receive(h)
  PROVE  Stepped
<1>1. /\ req[h].step \in {"ok", "refused"} /\ req' = [req EXCEPT ![h] = Idle]
      /\ UNCHANGED <<active, password, token>>
  BY DEF Receive
<1>2. /\ req' \in [Handlers -> Req] /\ req'[h] = Idle
      /\ \A g \in Handlers : g # h => req'[g] = req[g]
  BY <1>1, RequestSet, IdleTyped DEF SessInv
<1>3. RowsAge BY <1>1, RowsUnchanged
<1>4. /\ token' \in [Tokens -> Row] /\ active' \in [Accounts -> BOOLEAN]
      /\ password' \in [Accounts -> 0..MaxChanges]
  BY <1>1 DEF SessInv, TypeOK
<1>5. SessInv' /\ \A g \in Handlers, s \in Tokens : Holds(g, s)' => Holds(g, s)
  BY <1>2, <1>3, <1>4, QuietStep, IdleTyped
<1>6. \A g \in Handlers, s \in Tokens : Holds(g, s) => Holds(g, s)'
  BY <1>1, <1>2, <1>3, HoldsSame
<1>7. Ring!Next BY <1>3, <1>5, <1>6, RingOver DEF SessInv
<1>8. StaysRevoked BY <1>1 DEF StaysRevoked
<1> QED BY <1>5, <1>7, <1>8 DEF Stepped, HandsIn

(* The three steps that pass a key on.  A request that breaks off drops    *)
(* what it holds.                                                          *)
LEMMA CrashSteps ==
  ASSUME SessInv, NEW h \in Handlers, Crash(h)
  PROVE  Stepped
<1>1. /\ req' = [req EXCEPT ![h] = Idle] /\ UNCHANGED <<active, password, token>>
  BY DEF Crash
<1>2. /\ req' \in [Handlers -> Req] /\ req'[h] = Idle
      /\ \A g \in Handlers : g # h => req'[g] = req[g]
  BY <1>1, RequestSet, IdleTyped DEF SessInv
<1>3. RowsAge BY <1>1, RowsUnchanged
<1>4. /\ token' \in [Tokens -> Row] /\ active' \in [Accounts -> BOOLEAN]
      /\ password' \in [Accounts -> 0..MaxChanges]
  BY <1>1 DEF SessInv, TypeOK
<1>5. SessInv' /\ \A g \in Handlers, s \in Tokens : Holds(g, s)' => Holds(g, s)
  BY <1>2, <1>3, <1>4, QuietStep, IdleTyped
<1>6. StaysRevoked BY <1>1 DEF StaysRevoked
<1>7. CASE req[h].step \notin {"purge", "create"} \/ req[h].token = None
  <2>1. \A g \in Handlers, s \in Tokens : Holds(g, s) => Holds(g, s)'
    BY <1>2, <1>3, <1>7, HoldsSame
  <2>2. Ring!Next BY <1>3, <1>5, <2>1, RingOver DEF SessInv
  <2> QED BY <1>5, <1>6, <2>2 DEF Stepped, HandsIn
<1>8. CASE req[h].step \in {"purge", "create"} /\ req[h].token # None
  <2> DEFINE x == req[h].token
             s == token[x].session
             P == {z \in Tokens : \E g \in Handlers : Holds(g, z)}
  <2>1. x \in Tokens BY <1>8 DEF SessInv, TypeOK, Req
  <2>2. token[x].state # "unused" BY <1>8 DEF SessInv, RequestsKept
  <2>3. s \in Tokens BY <2>1, <2>2 DEF SessInv, RowsKept
  <2>4. Holds(h, s) BY <1>8 DEF Holds
  <2>5. \A g \in Handlers : Holds(g, s) => g = h BY <2>3, <2>4 DEF SessInv, OneKey
  <2>6. \A z \in Tokens : Holds(h, z) => z = s BY DEF Holds
  <2>7. ~ \E z \in Tokens : Holds(h, z)' BY <1>2, IdleTyped DEF Holds
  <2>8. \A g \in Handlers, z \in Tokens : g # h => (Holds(g, z)' <=> Holds(g, z))
    BY <1>1, <1>2 DEF Holds
  <2>9. P' = P \ {s}
    <3> HIDE DEF s
    <3>1. \A z \in Tokens : z \in P' <=> z \in P /\ z # s
      BY <2>5, <2>6, <2>7, <2>8
    <3> QED BY <3>1
  <2>10. [z \in Tokens |-> KeyOf(z)]' = [z \in Tokens |-> KeyOf(z)]
    BY <1>1, KeysRead
  <2>11. {t \in Tokens : token[t].state # "unused"}' = {t \in Tokens : token[t].state # "unused"}
    BY <1>1
  <2>12. s \in P BY <2>3, <2>4
  <2> HIDE DEF s
  <2>13. Ring!Drop(s) BY <2>9, <2>10, <2>11, <2>12 DEF Ring!Drop
  <2>14. Ring!Next BY <2>3, <2>13 DEF Ring!Next
  <2> QED BY <1>5, <1>6, <2>14 DEF Stepped, HandsIn
<1> QED BY <1>7, <1>8

(* The conditional revocation hands a key in.                              *)
LEMMA RefreshRevokeSteps ==
  ASSUME SessInv, NEW h \in Handlers, RefreshRevoke(h)
  PROVE  Stepped
<1> DEFINE P == {z \in Tokens : \E g \in Handlers : Holds(g, z)}
<1>1. req[h].step = "revoke" /\ UNCHANGED <<active, password>> BY DEF RefreshRevoke
<1>0. PICK x \in Tokens : x = req[h].token
  BY <1>1 DEF SessInv, RequestsKept, TypeOK, Req
<1>2. /\ x # None /\ token[x].state # "unused" /\ req[h].account \in Accounts
  BY <1>0, <1>1 DEF SessInv, RequestsKept
<1>4. PICK s \in Tokens : s = token[x].session BY <1>2 DEF SessInv, RowsKept
<1>5. active' \in [Accounts -> BOOLEAN] /\ password' \in [Accounts -> 0..MaxChanges]
  BY <1>1 DEF SessInv, TypeOK
<1>6. ~ \E z \in Tokens : Holds(h, z) BY <1>1 DEF Holds
<1>7. CASE ~Unrevoked(x)
  <2>1. Goto(h, "refused") /\ UNCHANGED token BY <1>0, <1>7 DEF RefreshRevoke
  <2>2. /\ req' \in [Handlers -> Req] /\ req'[h].step = "refused"
        /\ req'[h].account = req[h].account /\ req'[h].token = x
        /\ \A g \in Handlers : g # h => req'[g] = req[g]
    BY <1>0, <2>1, StepSet, StepsNamed DEF SessInv
  <2>3. RowsAge BY <2>1, RowsUnchanged
  <2>4. token' \in [Tokens -> Row] BY <2>1 DEF SessInv, TypeOK
  <2>5. SessInv' /\ \A g \in Handlers, z \in Tokens : Holds(g, z)' => Holds(g, z)
    BY <1>2, <1>5, <2>2, <2>3, <2>4, QuietStep
  <2>6. \A g \in Handlers, z \in Tokens : Holds(g, z) => Holds(g, z)'
    BY <1>1, <2>2, <2>3, HoldsSame
  <2>7. Ring!Next BY <2>3, <2>5, <2>6, RingOver DEF SessInv
  <2>8. StaysRevoked BY <2>1 DEF StaysRevoked
  <2> QED BY <2>5, <2>7, <2>8 DEF Stepped, HandsIn
<1>8. CASE Unrevoked(x)
  <2>1. Revoke({x}) /\ Goto(h, "purge") BY <1>0, <1>8 DEF RefreshRevoke
  <2>2. /\ req' \in [Handlers -> Req] /\ req'[h].step = "purge"
        /\ req'[h].account = req[h].account /\ req'[h].token = x
        /\ \A g \in Handlers : g # h => req'[g] = req[g]
    BY <1>0, <2>1, StepSet, StepsNamed DEF SessInv
  <2>3. /\ token' \in [Tokens -> Row] /\ RowsAge
        /\ \A t \in Tokens : Unrevoked(t)' <=> Unrevoked(t) /\ t # x
        /\ \A t \in Tokens : \/ token'[t] = token[t]
                             \/ token'[t].state = "revoked" /\ Unrevoked(t)
    BY <2>1, RevokeAges DEF SessInv
  <2>4. RowsKept' BY <2>3, RowsKeptAge DEF SessInv
  <2>5. \A g \in Handlers : req[g].token # None => req[g].token \in Tokens
    BY DEF SessInv, TypeOK, Req
  <2>6. RequestsKept'
    <3>1. ASSUME NEW g \in Handlers
          PROVE  /\ req'[g].token # None => token'[req'[g].token].state # "unused"
                 /\ req'[g].step \in {"account", "revoke"} => req'[g].token # None
                 /\ req'[g].step \in {"account", "revoke", "purge", "create", "change"} =>
                      req'[g].account \in Accounts
      <4>1. CASE g = h BY <1>2, <2>2, <2>3, <4>1 DEF RowsAge
      <4>2. CASE g # h BY <2>2, <2>3, <2>5, <4>2 DEF RowsAge, SessInv, RequestsKept
      <4> QED BY <4>1, <4>2
    <3> QED BY <3>1 DEF RequestsKept
  <2>7. TypeOK' BY <1>5, <2>2, <2>3 DEF TypeOK
  <2>8. \A z \in Tokens : Holds(h, z)' <=> z = s
    BY <1>2, <1>4, <2>2, <2>3 DEF Holds, RowsAge
  <2>9. \A g \in Handlers, z \in Tokens : g # h => (Holds(g, z)' <=> Holds(g, z))
    BY <2>2, <2>3, <2>5 DEF Holds, RowsAge
  <2>10. \A t \in Tokens : token'[t].session = token[t].session BY <2>3 DEF RowsAge
  <2>11. \A t \in Tokens : Unrevoked(t) /\ token[t].session = s => t = x
    BY <1>4, <1>8 DEF SessInv, OneKey
  <2>12. \A g \in Handlers : ~Holds(g, s) BY <1>4, <1>8 DEF SessInv, OneKey
  <2>13. OneKey'
    <3> SUFFICES ASSUME NEW z \in Tokens
                 PROVE  /\ \A t, u \in Tokens : /\ Unrevoked(t)' /\ token'[t].session = z
                                                /\ Unrevoked(u)' /\ token'[u].session = z
                                                => t = u
                        /\ \A g, k \in Handlers : Holds(g, z)' /\ Holds(k, z)' => g = k
                        /\ \A t \in Tokens, g \in Handlers :
                             ~(Unrevoked(t)' /\ token'[t].session = z /\ Holds(g, z)')
      BY DEF OneKey
    <3>1. CASE z = s BY <3>1, <2>3, <2>8, <2>9, <2>10, <2>11, <2>12
    <3>2. CASE z # s BY <3>2, <2>3, <2>8, <2>9, <2>10 DEF SessInv, OneKey
    <3> QED BY <3>1, <3>2
  <2>14. KeyOf(s) # None
    <3>2. KeyOf(s) = x BY <1>4, <1>8, KeyNow DEF SessInv
    <3> QED BY <3>2, <1>2
  <2>15. KeyOf(s)' = None
    <3>1. \A t \in Tokens : ~(Unrevoked(t)' /\ token'[t].session = s)
      BY <2>3, <2>10, <2>11
    <3> QED BY <1>4, <2>13, <3>1, KeyNext
  <2>16. \A z \in Tokens : z # s => KeyOf(z)' = KeyOf(z)
    <3> SUFFICES ASSUME NEW z \in Tokens, z # s PROVE KeyOf(z)' = KeyOf(z)
      OBVIOUS
    <3>1. \A t \in Tokens : /\ Unrevoked(t)' /\ token'[t].session = z
                            <=> Unrevoked(t) /\ token[t].session = z
      BY <1>4, <2>3, <2>10
    <3>2. CASE \E t \in Tokens : Unrevoked(t) /\ token[t].session = z
      <4>1. PICK t \in Tokens : Unrevoked(t) /\ token[t].session = z BY <3>2
      <4>2. Unrevoked(t)' /\ token'[t].session = z BY <3>1, <4>1
      <4>3. KeyOf(z) = t BY <4>1, KeyNow DEF SessInv
      <4>4. KeyOf(z)' = t BY <2>13, <4>2, KeyNext
      <4> QED BY <4>3, <4>4
    <3>3. CASE \A t \in Tokens : ~(Unrevoked(t) /\ token[t].session = z)
      <4>1. \A t \in Tokens : ~(Unrevoked(t)' /\ token'[t].session = z) BY <3>1, <3>3
      <4>2. KeyOf(z) = None BY <3>3, KeyNow DEF SessInv
      <4>3. KeyOf(z)' = None BY <2>13, <4>1, KeyNext
      <4> QED BY <4>2, <4>3
    <3> QED BY <3>2, <3>3
  <2>17. [z \in Tokens |-> KeyOf(z)]' = [[z \in Tokens |-> KeyOf(z)] EXCEPT ![s] = None]
    BY <1>4, <2>15, <2>16
  <2>18. P' = P \cup {s}
    <3>1. \A z \in Tokens : z \in P' <=> z \in P \/ z = s
      BY <1>6, <2>8, <2>9
    <3> QED BY <1>4, <3>1
  <2>19. {t \in Tokens : token[t].state # "unused"}' = {t \in Tokens : token[t].state # "unused"}
    BY <2>3 DEF RowsAge
  <2>20. Ring!HandIn(s) BY <1>4, <2>14, <2>17, <2>18, <2>19 DEF Ring!HandIn
  <2>21. Ring!Next BY <1>4, <2>20 DEF Ring!Next
  <2>22. StaysRevoked BY <2>3 DEF StaysRevoked, Unrevoked
  <2>23. HandsIn BY <1>0, <1>1, <1>4, <2>8, <2>9 DEF HandsIn
  <2> QED BY <2>4, <2>6, <2>7, <2>13, <2>21, <2>22, <2>23 DEF Stepped, SessInv
<1> QED BY <1>7, <1>8

(* The row a request stores, of which nothing referred before.             *)
LEMMA CreateStores ==
  ASSUME SessInv, NEW h \in Handlers, NEW t \in Tokens, Create(h, t)
  PROVE  \E s \in Tokens :
           /\ req[h].step = "create" /\ token[t].state = "unused"
           /\ UNCHANGED <<active, password>>
           /\ IF req[h].token = None THEN s = t
              ELSE req[h].token \in Tokens /\ s = token[req[h].token].session
           /\ token' \in [Tokens -> Row]
           /\ token'[t].state = "live" /\ token'[t].session = s
           /\ token'[t].account \in Accounts
           /\ \A u \in Tokens : u # t => token'[u] = token[u]
           /\ req' \in [Handlers -> Req]
           /\ req'[h].step = "ok" /\ req'[h].token = req[h].token
           /\ req'[h].account = req[h].account /\ req'[h].new = t
           /\ \A g \in Handlers : g # h => req'[g] = req[g]
<1> DEFINE x == req[h].token
           r == [req[h] EXCEPT !.step = "ok", !.new = t]
<1>1. req[h] \in Req BY DEF SessInv, TypeOK
<1>2. /\ req[h].step = "create" /\ token[t].state = "unused"
      /\ UNCHANGED <<active, password>> /\ req' = [req EXCEPT ![h] = r]
  BY DEF Create, SessInv, TypeOK
<1>3. /\ r \in Req /\ r.step = "ok" /\ r.token = x /\ r.new = t
      /\ r.account = req[h].account
  BY <1>1 DEF Req, Steps
<1> HIDE DEF r
<1>4. /\ req' \in [Handlers -> Req] /\ req'[h] = r
      /\ \A g \in Handlers : g # h => req'[g] = req[g]
  BY <1>2, <1>3, RequestSet DEF SessInv
<1>5. req[h].account \in Accounts BY <1>2 DEF SessInv, RequestsKept
<1>6. x \in Tokens \cup {None} /\ req[h].saw \in 0..MaxChanges BY <1>1 DEF Req
<1> DEFINE s == IF x = None THEN t ELSE token[x].session
           e == IF x = None THEN req[h].saw ELSE token[x].era
           w == [state |-> "live", account |-> req[h].account, session |-> s, era |-> e]
<1>7. token' = [token EXCEPT ![t] = w] BY DEF Create
<1>8. x # None => token[x] \in Row /\ token[x].state # "unused"
  BY <1>6 DEF SessInv, TypeOK, RequestsKept
<1>9. s \in Tokens /\ e \in 0..MaxChanges
  <2>1. CASE x = None BY <2>1, <1>6
  <2>2. CASE x # None
    <3>1. token[x].session \in Tokens BY <1>6, <1>8, <2>2 DEF SessInv, RowsKept
    <3>2. token[x].era \in 0..MaxChanges BY <1>8, <2>2 DEF Row
    <3> QED BY <2>2, <3>1, <3>2
  <2> QED BY <2>1, <2>2
<1>10. IF x = None THEN s = t ELSE x \in Tokens /\ s = token[x].session BY <1>6
<1> HIDE DEF s, e, x
<1>11. w \in Row /\ w.state = "live" /\ w.session = s /\ w.account = req[h].account
  BY <1>5, <1>9 DEF Row, TokenState
<1> HIDE DEF w
<1>12. /\ token' \in [Tokens -> Row] /\ token'[t] = w
       /\ \A u \in Tokens : u # t => token'[u] = token[u]
  BY <1>7, <1>11 DEF SessInv, TypeOK
<1>13. x = req[h].token BY DEF x
<1> QED BY <1>2, <1>3, <1>4, <1>5, <1>9, <1>10, <1>11, <1>12, <1>13

LEMMA CreateSteps ==
  ASSUME SessInv, NEW h \in Handlers, NEW t \in Tokens, Create(h, t)
  PROVE  Stepped
<1> DEFINE P == {z \in Tokens : \E g \in Handlers : Holds(g, z)}
           I == {u \in Tokens : token[u].state # "unused"}
<1>1. PICK s \in Tokens :
        /\ req[h].step = "create" /\ token[t].state = "unused"
        /\ UNCHANGED <<active, password>>
        /\ IF req[h].token = None THEN s = t
           ELSE req[h].token \in Tokens /\ s = token[req[h].token].session
        /\ token' \in [Tokens -> Row]
        /\ token'[t].state = "live" /\ token'[t].session = s
        /\ token'[t].account \in Accounts
        /\ \A u \in Tokens : u # t => token'[u] = token[u]
        /\ req' \in [Handlers -> Req]
        /\ req'[h].step = "ok" /\ req'[h].token = req[h].token
        /\ req'[h].account = req[h].account /\ req'[h].new = t
        /\ \A g \in Handlers : g # h => req'[g] = req[g]
  BY CreateStores
<1>2. ~Unrevoked(t) /\ Unrevoked(t)' BY <1>1 DEF Unrevoked
<1>3. \A u \in Tokens : u # t => (Unrevoked(u)' <=> Unrevoked(u)) BY <1>1 DEF Unrevoked
<1>4. token[t].session = None BY <1>1 DEF SessInv, RowsKept
<1>5. \A g \in Handlers : req[g].token # None => /\ req[g].token \in Tokens
                                                 /\ req[g].token # t
  BY <1>1 DEF SessInv, TypeOK, Req, RequestsKept
<1>6. TypeOK' BY <1>1 DEF TypeOK, SessInv
<1>7. \A u \in Tokens : token[u].state # "unused" => token[u].session # t
  BY <1>1 DEF SessInv, RowsKept
<1>8. RowsKept'
  <2>0. s # t => token[s].state # "unused"
    BY <1>1, <1>5 DEF SessInv, RowsKept, RequestsKept
  <2>1. ASSUME NEW u \in Tokens
        PROVE  /\ token'[u].state = "unused" => token'[u].session = None
               /\ token'[u].state # "unused" => /\ token'[u].session \in Tokens
                                                /\ token'[u].account \in Accounts
                                                /\ token'[token'[u].session].state # "unused"
    <3>1. CASE u = t BY <1>1, <2>0, <3>1
    <3>2. CASE u # t BY <1>1, <3>2, <1>7 DEF SessInv, RowsKept
    <3> QED BY <3>1, <3>2
  <2> QED BY <2>1 DEF RowsKept
<1>9. RequestsKept'
  <2>1. ASSUME NEW g \in Handlers
        PROVE  /\ req'[g].token # None => token'[req'[g].token].state # "unused"
               /\ req'[g].step \in {"account", "revoke"} => req'[g].token # None
               /\ req'[g].step \in {"account", "revoke", "purge", "create", "change"} =>
                    req'[g].account \in Accounts
    <3>1. CASE g = h BY <1>1, <1>5, <3>1 DEF SessInv, RequestsKept
    <3>2. CASE g # h BY <1>1, <1>5, <3>2 DEF SessInv, RequestsKept
    <3> QED BY <3>1, <3>2
  <2> QED BY <2>1 DEF RequestsKept
<1>10. \A z \in Tokens : ~Holds(h, z)' BY <1>1 DEF Holds
<1>11. \A g \in Handlers, z \in Tokens : g # h => (Holds(g, z)' <=> Holds(g, z))
  BY <1>1, <1>5 DEF Holds
<1>12. \A z \in Tokens : Holds(h, z) <=> req[h].token # None /\ z = s
  BY <1>1 DEF Holds
<1>13. \A u \in Tokens : u # t => token'[u].session = token[u].session BY <1>1
<1>14. \A u \in Tokens : u # t => ~(Unrevoked(u) /\ token[u].session = s)
  <2>1. CASE req[h].token = None
    <3>1. \A u \in Tokens : Unrevoked(u) => token[u].state # "unused" BY DEF Unrevoked
    <3> QED BY <1>1, <1>7, <2>1, <3>1
  <2>2. CASE req[h].token # None
    <3>1. Holds(h, s) BY <1>12, <2>2
    <3> QED BY <3>1 DEF SessInv, OneKey
  <2> QED BY <2>1, <2>2
<1>15. \A g \in Handlers : g # h => ~Holds(g, s)
  <2>1. CASE req[h].token = None
    <3>1. \A g \in Handlers : Holds(g, s) =>
            req[g].token \in Tokens /\ token[req[g].token].session = s
                                    /\ token[req[g].token].state # "unused"
      BY <1>5 DEF Holds, SessInv, RequestsKept
    <3> QED BY <1>1, <1>7, <2>1, <3>1
  <2>2. CASE req[h].token # None
    <3>1. Holds(h, s) BY <1>12, <2>2
    <3> QED BY <3>1 DEF SessInv, OneKey
  <2> QED BY <2>1, <2>2
<1>16. OneKey'
  <2> SUFFICES ASSUME NEW z \in Tokens
               PROVE  /\ \A u, v \in Tokens : /\ Unrevoked(u)' /\ token'[u].session = z
                                              /\ Unrevoked(v)' /\ token'[v].session = z
                                              => u = v
                      /\ \A g, k \in Handlers : Holds(g, z)' /\ Holds(k, z)' => g = k
                      /\ \A u \in Tokens, g \in Handlers :
                           ~(Unrevoked(u)' /\ token'[u].session = z /\ Holds(g, z)')
    BY DEF OneKey
  <2>1. CASE z = s BY <2>1, <1>3, <1>10, <1>11, <1>13, <1>14, <1>15
  <2>2. CASE z # s
    <3>1. \A u \in Tokens : /\ Unrevoked(u)' /\ token'[u].session = z
                            => Unrevoked(u) /\ token[u].session = z
      BY <1>1, <1>3, <1>13, <2>2
    <3>2. \A g \in Handlers : Holds(g, z)' => Holds(g, z) BY <1>10, <1>11
    <3> QED BY <3>1, <3>2 DEF SessInv, OneKey
  <2> QED BY <2>1, <2>2
<1>17. KeyOf(s)' = t BY <1>1, <1>2, <1>16, KeyNext
<1>18. \A z \in Tokens : z # s => KeyOf(z)' = KeyOf(z)
  <2> SUFFICES ASSUME NEW z \in Tokens, z # s PROVE KeyOf(z)' = KeyOf(z)
    OBVIOUS
  <2>1. \A u \in Tokens : Unrevoked(u)' /\ token'[u].session = z
                            <=> Unrevoked(u) /\ token[u].session = z
    BY <1>1, <1>2, <1>3, <1>13
  <2>2. CASE \E u \in Tokens : Unrevoked(u) /\ token[u].session = z
    <3>1. PICK u \in Tokens : Unrevoked(u) /\ token[u].session = z BY <2>2
    <3>2. Unrevoked(u)' /\ token'[u].session = z BY <2>1, <3>1
    <3>3. KeyOf(z) = u BY <3>1, KeyNow DEF SessInv
    <3>4. KeyOf(z)' = u BY <1>16, <3>2, KeyNext
    <3> QED BY <3>3, <3>4
  <2>3. CASE \A u \in Tokens : ~(Unrevoked(u) /\ token[u].session = z)
    <3>1. \A u \in Tokens : ~(Unrevoked(u)' /\ token'[u].session = z) BY <2>1, <2>3
    <3>2. KeyOf(z) = None BY <2>3, KeyNow DEF SessInv
    <3>3. KeyOf(z)' = None BY <1>16, <3>1, KeyNext
    <3> QED BY <3>2, <3>3
  <2> QED BY <2>2, <2>3
<1>19. [z \in Tokens |-> KeyOf(z)]' = [[z \in Tokens |-> KeyOf(z)] EXCEPT ![s] = t]
  BY <1>17, <1>18
<1>20. t \notin I /\ I' = I \cup {t} BY <1>1
<1>21. Ring!Next
  <2>1. CASE req[h].token = None
    <3>1. s = t BY <1>1, <2>1
    <3>2. P' = P
      <4>1. \A z \in Tokens : z \in P' <=> z \in P BY <1>10, <1>11, <1>12, <2>1
      <4> QED BY <4>1
    <3>3. Ring!Open(t) BY <1>19, <1>20, <3>1, <3>2 DEF Ring!Open
    <3> QED BY <3>3 DEF Ring!Next
  <2>2. CASE req[h].token # None
    <3>1. s \in P BY <1>12, <2>2
    <3>2. P' = P \ {s}
      <4>1. \A z \in Tokens : z \in P' <=> z \in P /\ z # s
        BY <1>10, <1>11, <1>12, <1>15
      <4> QED BY <4>1
    <3>3. Ring!HandOut(s, t) BY <1>19, <1>20, <3>1, <3>2 DEF Ring!HandOut
    <3> QED BY <3>3 DEF Ring!Next
  <2> QED BY <2>1, <2>2
<1>22. StaysRevoked BY <1>1 DEF StaysRevoked
<1>23. HandsIn BY <1>10, <1>11 DEF HandsIn
<1> QED BY <1>6, <1>8, <1>9, <1>16, <1>21, <1>22, <1>23 DEF Stepped, SessInv

-----------------------------------------------------------------------------
LEMMA SessionsInitially ==
  ASSUME Init
  PROVE  SessInv /\ Ring!Init
<1>1. TypeOK BY SessionsAssumption DEF Init, TypeOK, Row, TokenState, Req, Steps, Idle
<1>2. \A t \in Tokens : token[t].state = "unused" /\ token[t].session = None
  BY DEF Init
<1>3. RowsKept BY <1>2 DEF RowsKept
<1>4. \A h \in Handlers : req[h].step = "idle" /\ req[h].token = None
  BY DEF Init, Idle
<1>5. RequestsKept BY <1>4 DEF RequestsKept
<1>6. \A t \in Tokens : ~Unrevoked(t) BY <1>2 DEF Unrevoked
<1>7. \A h \in Handlers, s \in Tokens : ~Holds(h, s) BY <1>4 DEF Holds
<1>8. OneKey BY <1>6, <1>7 DEF OneKey
<1>9. \A s \in Tokens : KeyOf(s) = None BY <1>6, <1>8, KeyNow
<1>10. Ring!Init BY <1>2, <1>7, <1>9 DEF Ring!Init
<1> QED BY <1>1, <1>3, <1>5, <1>8, <1>10 DEF SessInv

LEMMA SessionsNext ==
  ASSUME SessInv, [Next]_vars
  PROVE  Stepped
<1>1. ASSUME UNCHANGED vars
      PROVE  Stepped
  <2>1. UNCHANGED <<active, password, token, req>> BY <1>1 DEF vars
  <2>2. RowsAge BY <2>1, RowsUnchanged
  <2>3. StaysRevoked BY <2>1 DEF StaysRevoked
  <2>4. token' \in [Tokens -> Row] /\ active' \in [Accounts -> BOOLEAN]
    BY <2>1 DEF SessInv, TypeOK
  <2> QED BY <2>1, <2>2, <2>3, <2>4, RowsStep
<1>2. ASSUME NEW h \in Handlers, Proceed(h)
      PROVE  Stepped
  BY <1>2, RefreshAccountSteps, RefreshRevokeSteps, PurgeSteps, ChangeCommitSteps,
     CreateSteps DEF Proceed
<1>3. ASSUME NEW h \in Handlers, Arrive(h) \/ Receive(h) \/ Crash(h)
      PROVE  Stepped
  BY <1>3, ArriveSteps, ReceiveSteps, CrashSteps
<1>4. ASSUME NEW t \in Tokens, Logout(t) \/ Expire(t)
      PROVE  Stepped
  BY <1>4, LogoutSteps, ExpireSteps
<1>5. ASSUME NEW a \in Accounts, NEW on \in BOOLEAN, SetActive(a, on)
      PROVE  Stepped
  BY <1>5, SetActiveSteps
<1> QED BY <1>1, <1>2, <1>3, <1>4, <1>5 DEF Next

(* The server, whoever sends the requests.                                 *)
LEMMA SessionsInvariant == Spec => []SessInv
<1>1. Init => SessInv BY SessionsInitially
<1>2. SessInv /\ [Next]_vars => SessInv' BY SessionsNext DEF Stepped
<1> QED BY <1>1, <1>2, PTL DEF Spec

(* However many requests present the tokens of one login at once, it never *)
(* has two usable tokens, nor one usable and another on the way.           *)
THEOREM OneKeyASession == Spec => []OneKey
<1>1. SessInv => OneKey BY DEF SessInv
<1> QED BY <1>1, SessionsInvariant, PTL

(* Sessions implements KeyRing, step by step: the conditional revocation   *)
(* hands a key in, a stored row hands the next one out or opens a session, *)
(* a request that breaks off drops it, and revocations, expired rows that  *)
(* are purged and password changes end sessions.                           *)
THEOREM SessionsAreRings == Spec => KeyRingSpec
<1>1. Init => Ring!Init BY SessionsInitially
<1>2. SessInv /\ [Next]_vars => [Ring!Next]_(Ring!vars) BY SessionsNext DEF Stepped
<1> QED BY <1>1, <1>2, SessionsInvariant, PTL DEF Spec, KeyRingSpec, Ring!Spec

(* A token that was revoked, or whose row is deleted, is never usable      *)
(* again, and a token that is still usable is never deleted.               *)
THEOREM RevokedForGood == Spec => RevokedStays
<1>1. SessInv /\ [Next]_vars =>
        [\A t \in Tokens :
           /\ token[t].state \in {"revoked", "gone"} => token'[t].state \in {"revoked", "gone"}
           /\ token[t].state = "live" => token'[t].state # "gone"]_vars
  BY SessionsNext DEF Stepped, StaysRevoked
<1> QED BY <1>1, SessionsInvariant, PTL DEF Spec, RevokedStays

-----------------------------------------------------------------------------
(* A token is settled when it is the key of its session or its session is  *)
(* over: the one to present, if any is.  Both as a function of the rows    *)
(* and the requests.                                                       *)
PassingIn(tok, rq, s) ==
  \E h \in Handlers : /\ rq[h].step \in {"purge", "create"}
                      /\ rq[h].token # None /\ tok[rq[h].token].session = s
SettledIn(tok, rq, x) ==
  \/ KeyIn(tok, tok[x].session) = x
  \/ KeyIn(tok, tok[x].session) = None /\ ~PassingIn(tok, rq, tok[x].session)
Settled(x) == SettledIn(token, req, x)

LEMMA PassingRead ==
  /\ \A s : PassingIn(token, req, s) <=> \E h \in Handlers : Holds(h, s)
  /\ \A s : PassingIn(token', req', s) <=> \E h \in Handlers : Holds(h, s)'
  BY DEF PassingIn, Holds

(* Rows that were handed out stay, in their session.                       *)
RowsStay ==
  \A t \in Tokens : token[t].state # "unused" =>
    token'[t].state # "unused" /\ token'[t].session = token[t].session

(* It stays so until it is handed in: an ended session never opens again.  *)
LEMMA SettledStays ==
  ASSUME SessInv, Stepped, RowsStay, NEW x \in Tokens, token[x].state # "unused",
         Settled(x),
         \A h \in Handlers : req[h].token \in Tokens /\ req[h].step = "revoke"
                             /\ req'[h].step \in {"purge", "create"}
                             => token[req[h].token].session # token[x].session
  PROVE  SettledIn(token', req', x)
<1>1. PICK s \in Tokens : s = token[x].session /\ token[s].state # "unused"
  BY DEF SessInv, RowsKept
<1>0. s = token'[x].session BY <1>1 DEF RowsStay
<1> DEFINE K == [z \in Tokens |-> KeyOf(z)]
           P == {z \in Tokens : \E g \in Handlers : Holds(g, z)}
           I == {t \in Tokens : token[t].state # "unused"}
<1>2. KeyOf(s) = x \/ (KeyOf(s) = None /\ ~PassingIn(token, req, s))
  BY <1>1, KeysRead DEF Settled, SettledIn
<1>3. SUFFICES KeyOf(s)' = x \/ (KeyOf(s)' = None /\ ~PassingIn(token', req', s))
  BY <1>0, KeysRead DEF SettledIn
<1>4. ~PassingIn(token, req, s)
  <2>1. CASE KeyOf(s) = x
    <3>1. x # None BY SessionsAssumption
    <3>2. PICK t \in Tokens : Unrevoked(t) /\ token[t].session = s
      BY <2>1, <3>1, KeyNow DEF SessInv
    <3> QED BY <3>2, PassingRead DEF SessInv, OneKey
  <2> QED BY <2>1, <1>2
<1>5. ~PassingIn(token', req', s)
  <2>1. ASSUME NEW h \in Handlers, Holds(h, s)' PROVE FALSE
    <3>1. req[h].step = "revoke" /\ req[h].token \in Tokens
          /\ token[req[h].token].session = s
      BY <1>4, <2>1, PassingRead DEF Stepped, HandsIn
    <3>2. req'[h].step \in {"purge", "create"} BY <2>1 DEF Holds
    <3> QED BY <1>1, <3>1, <3>2
  <2> QED BY <2>1, PassingRead
<1>6. s \notin P /\ s \notin P' BY <1>4, <1>5, PassingRead
<1>7. s \in I BY <1>1
<1>8. K[s] = KeyOf(s) /\ K'[s] = KeyOf(s)' OBVIOUS
<1>9. K'[s] = K[s] \/ K'[s] = None
  <2>1. CASE UNCHANGED Ring!vars BY <2>1 DEF Ring!vars
  <2>2. ASSUME NEW t \in Tokens, Ring!Open(t) \/ Ring!HandIn(t) \/ Ring!Drop(t)
        PROVE  K'[s] = K[s] \/ K'[s] = None
    <3>1. CASE Ring!Open(t) BY <3>1, <1>7 DEF Ring!Open
    <3>2. CASE Ring!HandIn(t) BY <3>2 DEF Ring!HandIn
    <3>3. CASE Ring!Drop(t) BY <3>3 DEF Ring!Drop
    <3> QED BY <2>2, <3>1, <3>2, <3>3
  <2>3. ASSUME NEW z \in Tokens, NEW t \in Tokens, Ring!HandOut(z, t)
        PROVE  K'[s] = K[s] \/ K'[s] = None
    BY <2>3, <1>6 DEF Ring!HandOut
  <2>4. ASSUME NEW S \in SUBSET Tokens, Ring!Over(S)
        PROVE  K'[s] = K[s] \/ K'[s] = None
    BY <2>4 DEF Ring!Over
  <2> QED BY <2>1, <2>2, <2>3, <2>4 DEF Stepped, Ring!Next
<1> QED BY <1>2, <1>5, <1>8, <1>9

(* What a settled token says of the others of its session.                 *)
LEMMA SettledAlone ==
  ASSUME SessInv, NEW x \in Tokens, token[x].state # "unused", Settled(x)
  PROVE  \A t \in Tokens : Unrevoked(t) /\ token[t].session = token[x].session => t = x
<1>1. token[x].session \in Tokens BY DEF SessInv, RowsKept
<1>2. x # None /\ \A t \in Tokens : t # None BY SessionsAssumption
<1> QED BY <1>1, <1>2, KeyNow, KeysRead DEF SessInv, Settled, SettledIn

LEMMA UsableSettled ==
  ASSUME SessInv, NEW x \in Tokens, Unrevoked(x)
  PROVE  Settled(x)
<1>1. token[x].session \in Tokens BY DEF SessInv, RowsKept, Unrevoked
<1> QED BY <1>1, KeyNow, KeysRead DEF SessInv, Settled, SettledIn

-----------------------------------------------------------------------------
(* The browser.  What holds however pages are reloaded and answers lost:   *)
(* nobody changes a password here, an answer brings a token that exists,   *)
(* and so does the stored one.                                             *)
Answers ==
  \A h \in Handlers :
    /\ req[h].step # "change"
    /\ req[h].step = "ok" => req[h].new \in Tokens /\ token[req[h].new].state # "unused"
Remembered == stored # None => token[stored].state # "unused"
WebKept == WebTypeOK /\ SessInv /\ Answers /\ Remembered

-----------------------------------------------------------------------------
(* What a step of the server does, as the browser sees it.                 *)
LEMMA RowsRemain ==
  ASSUME SessInv, [Next]_vars
  PROVE  RowsStay
<1>1. ASSUME RowsAge PROVE RowsStay BY <1>1 DEF RowsAge, RowsStay
<1>2. ASSUME UNCHANGED token PROVE RowsStay BY <1>2 DEF RowsStay
<1>3. ASSUME NEW T, Revoke(T) PROVE RowsStay
  BY <1>1, <1>3, RevokeAges DEF SessInv
<1>4. CASE UNCHANGED vars BY <1>2, <1>4 DEF vars
<1>5. ASSUME NEW h \in Handlers, Arrive(h) PROVE RowsStay
  BY <1>2, <1>5 DEF Arrive, Login, IssueFor, Change, Refresh
<1>6. ASSUME NEW h \in Handlers, Receive(h) \/ Crash(h) PROVE RowsStay
  BY <1>2, <1>6 DEF Receive, Crash
<1>7. ASSUME NEW h \in Handlers, Proceed(h) PROVE RowsStay
  <2>1. CASE RefreshAccount(h) BY <1>2, <2>1 DEF RefreshAccount
  <2>2. CASE RefreshRevoke(h) BY <1>2, <1>3, <2>2 DEF RefreshRevoke
  <2>3. CASE Purge(h) BY <1>1, <2>3, PurgeAges DEF SessInv
  <2>4. CASE ChangeCommit(h) BY <1>3, <2>4 DEF ChangeCommit
  <2>5. ASSUME NEW t \in Tokens, Create(h, t) PROVE RowsStay
    BY <2>5, CreateStores DEF RowsStay
  <2> QED BY <1>7, <2>1, <2>2, <2>3, <2>4, <2>5 DEF Proceed
<1>8. ASSUME NEW t \in Tokens, Logout(t) PROVE RowsStay BY <1>3, <1>8 DEF Logout
<1>9. ASSUME NEW t \in Tokens, Expire(t) PROVE RowsStay
  BY <1>1, <1>9, ExpireAges DEF SessInv
<1>10. ASSUME NEW a \in Accounts, NEW on \in BOOLEAN, SetActive(a, on) PROVE RowsStay
  BY <1>2, <1>10 DEF SetActive
<1> QED BY <1>4, <1>5, <1>6, <1>7, <1>8, <1>9, <1>10 DEF Next

Others(h) == \A g \in Handlers : g # h => req'[g] = req[g]

LEMMA RefreshSets ==
  ASSUME SessInv, NEW h \in Handlers, NEW x \in Tokens, Refresh(h, x)
  PROVE  /\ req[h].step = "idle" /\ Others(h) /\ UNCHANGED <<active, password, token>>
         /\ req'[h].token = x /\ req'[h].step \in {"account", "refused"}
         /\ token[x].state # "unused" /\ req'[h].new = None
<1>1. token[x].state # "unused" /\ token[x].account \in Accounts
  BY DEF Refresh, SessInv, RowsKept
<1>2. /\ UNCHANGED <<active, password, token>> /\ req[h].step = "idle"
      /\ \/ req' = [req EXCEPT ![h] =
              [Idle EXCEPT !.step = "account", !.account = token[x].account, !.token = x]]
         \/ req' = [req EXCEPT ![h] = [Idle EXCEPT !.step = "refused", !.token = x]]
  BY DEF Refresh, Start
<1>3. /\ [Idle EXCEPT !.step = "account", !.account = token[x].account, !.token = x].step
           = "account"
      /\ [Idle EXCEPT !.step = "account", !.account = token[x].account, !.token = x].token
           = x
      /\ [Idle EXCEPT !.step = "account", !.account = token[x].account, !.token = x].new
           = None
      /\ [Idle EXCEPT !.step = "refused", !.token = x].step = "refused"
      /\ [Idle EXCEPT !.step = "refused", !.token = x].token = x
      /\ [Idle EXCEPT !.step = "refused", !.token = x].new = None
  BY DEF Idle
<1> QED BY <1>1, <1>2, <1>3 DEF Others, SessInv, TypeOK

LEMMA LoginSets ==
  ASSUME SessInv, NEW h \in Handlers, NEW a \in Accounts, Login(h, a)
  PROVE  /\ req[h].step = "idle" /\ Others(h) /\ UNCHANGED <<active, password, token>>
         /\ req'[h].token = None /\ req'[h].step = "purge"
<1> DEFINE e == [Idle EXCEPT !.step = "purge", !.account = a, !.saw = password[a]]
<1>1. req' = [req EXCEPT ![h] = e] /\ req[h].step = "idle"
      /\ UNCHANGED <<active, password, token>>
  BY DEF Login, Start
<1>2. e.token = None /\ e.step = "purge" BY DEF Idle
<1> QED BY <1>1, <1>2 DEF Others, SessInv, TypeOK

LEMMA ReceiveSets ==
  ASSUME SessInv, NEW h \in Handlers, Receive(h)
  PROVE  /\ req[h].step \in {"ok", "refused"} /\ Others(h)
         /\ req'[h] = Idle /\ UNCHANGED <<active, password, token>>
  BY DEF Receive, Others, SessInv, TypeOK

LEMMA ProceedSets ==
  ASSUME SessInv, NEW h \in Handlers, Proceed(h)
  PROVE  /\ Others(h) /\ req'[h].token = req[h].token
         /\ \/ req[h].step = "account" /\ req'[h].step = "revoke"
            \/ req[h].step = "account" /\ req'[h].step = "refused"
            \/ req[h].step = "revoke" /\ req'[h].step = "purge"
            \/ req[h].step = "revoke" /\ req'[h].step = "refused"
            \/ req[h].step = "purge" /\ req'[h].step = "create"
            \/ req[h].step = "change" /\ req'[h].step = "ok"
            \/ /\ req[h].step = "create" /\ req'[h].step = "ok"
               /\ req'[h].new \in Tokens
               /\ token[req'[h].new].state = "unused"
               /\ Unrevoked(req[h].new)'
               /\ IF req[h].token = None
                  THEN token'[req'[h].new].session = req'[h].new
                  ELSE token'[req'[h].new].session = token[req[h].token].session
<1>1. CASE RefreshAccount(h)
  <2> DEFINE to == IF active[req[h].account] THEN "revoke" ELSE "refused"
  <2>1. Goto(h, to) /\ to \in {"revoke", "refused"} /\ req[h].step = "account"
    BY <1>1 DEF RefreshAccount
  <2> HIDE DEF to
  <2> QED BY <2>1, StepSet, StepsNamed DEF SessInv, Others
<1>2. CASE RefreshRevoke(h)
  <2>1. req[h].step = "revoke" /\ (Goto(h, "purge") \/ Goto(h, "refused"))
    BY <1>2 DEF RefreshRevoke
  <2> QED BY <2>1, StepSet, StepsNamed DEF SessInv, Others
<1>3. CASE Purge(h)
  <2>1. req[h].step = "purge" /\ Goto(h, "create") BY <1>3 DEF Purge
  <2> QED BY <2>1, StepSet, StepsNamed DEF SessInv, Others
<1>4. CASE ChangeCommit(h)
  <2>1. req[h].step = "change" /\ Goto(h, "ok") BY <1>4 DEF ChangeCommit
  <2> QED BY <2>1, StepSet, StepsNamed DEF SessInv, Others
<1>5. ASSUME NEW t \in Tokens, Create(h, t)
      PROVE  /\ Others(h) /\ req'[h].token = req[h].token
             /\ req[h].step = "create" /\ req'[h].step = "ok"
             /\ req'[h].new = t /\ token[t].state = "unused"
             /\ Unrevoked(t)'
             /\ IF req[h].token = None THEN token'[t].session = t
                ELSE token'[t].session = token[req[h].token].session
  BY <1>5, CreateStores DEF Others, Unrevoked
<1>6. CASE \E t \in Tokens : Create(h, t)
  <2>1. PICK t \in Tokens : Create(h, t) BY <1>6
  <2>2. req'[h].new = t BY <1>5, <2>1
  <2>3. Unrevoked(req[h].new)' BY <1>5, <2>1, <2>2 DEF Unrevoked
  <2> QED BY <1>5, <2>1, <2>2, <2>3
<1> QED BY <1>1, <1>2, <1>3, <1>4, <1>6 DEF Proceed

(* Everything the browser does to the server is a step of the server.      *)
LEMMA BrowserAsks ==
  ASSUME WebTypeOK, [WebNext]_allVars
  PROVE  [Next]_vars
<1>1. ASSUME UNCHANGED server PROVE [Next]_vars BY <1>1 DEF server, vars
<1>2. ASSUME NEW h \in Handlers, NEW t \in Tokens, Refresh(h, t) PROVE Next
  BY <1>2 DEF Next, Arrive
<1>3. ASSUME NEW h \in Handlers, NEW a \in Accounts, Login(h, a) PROVE Next
  BY <1>3 DEF Next, Arrive
<1>4. ASSUME NEW h \in Handlers, Receive(h) \/ Crash(h) \/ Proceed(h) PROVE Next
  BY <1>4 DEF Next
<1>5. ASSUME NEW t \in Tokens, Logout(t) \/ Expire(t) PROVE Next BY <1>5 DEF Next
<1>6. stored # None => stored \in Tokens BY DEF WebTypeOK
<1>7. CASE UNCHANGED allVars BY <1>1, <1>7 DEF allVars, server
<1>8. ASSUME NEW T \in Tabs, Open(T) PROVE [Next]_vars
  BY <1>1, <1>2, <1>6, <1>8 DEF Open
<1>9. ASSUME NEW T \in Tabs, RetryRestore(T) \/ Retry(T) PROVE [Next]_vars
  BY <1>2, <1>6, <1>9 DEF RetryRestore, Retry, Send
<1>10. ASSUME NEW T \in Tabs, SignOut(T) PROVE [Next]_vars BY <1>1, <1>10 DEF SignOut
<1>11. ASSUME NEW T \in Tabs, SignIn(T) PROVE [Next]_vars BY <1>3, <1>11 DEF SignIn
<1>12. ASSUME NEW T \in Tabs, SignedIn(T) PROVE [Next]_vars
  <2>1. login[T] \in Handlers BY <1>12 DEF SignedIn, WebTypeOK
  <2> QED BY <1>4, <1>12, <2>1 DEF SignedIn
<1>13. ASSUME NEW T \in Tabs, NEW h \in Handlers, Answered(T, h) PROVE [Next]_vars
  BY <1>4, <1>13 DEF Answered
<1>14. ASSUME NEW T \in Tabs, NEW h \in Handlers, Lost(T, h) PROVE [Next]_vars
  BY <1>1, <1>14 DEF Lost
<1>18. ASSUME NEW T \in Tabs, Greeted(T) \/ Unheard(T) PROVE [Next]_vars
  BY <1>1, <1>18 DEF Greeted, Unheard
<1>19. ASSUME NEW T \in Tabs, Denied(T) PROVE [Next]_vars
  BY <1>1, <1>2, <1>6, <1>19 DEF Denied, Send
<1>15. ASSUME NEW h \in Handlers, Serve(h) PROVE [Next]_vars
  BY <1>4, <1>15 DEF Serve
<1>16. ASSUME NEW t \in Tokens, SayBye(t) PROVE [Next]_vars
  BY <1>1, <1>5, <1>16 DEF SayBye
<1>17. ASSUME NEW a \in Accounts, NEW on \in BOOLEAN, SetActive(a, on) PROVE Next
  BY <1>17 DEF Next
<1> QED BY <1>5, <1>7, <1>8, <1>9, <1>10, <1>11, <1>12, <1>13, <1>14, <1>15, <1>16, <1>17,
           <1>18, <1>19
        DEF WebNext

(* What is known of a step of the browser from the server's side.          *)
LEMMA ServerSide ==
  ASSUME WebKept, [WebNext]_allVars
  PROVE  Stepped /\ RowsStay
  BY BrowserAsks, SessionsNext, RowsRemain DEF WebKept

LEMMA AnswersSet ==
  ASSUME Answers, RowsStay, NEW h \in Handlers, Others(h), req'[h].step # "change",
         req'[h].step = "ok" => req'[h].new \in Tokens /\ token'[req'[h].new].state # "unused"
  PROVE  Answers'
  BY DEF Answers, Others, RowsStay

LEMMA AnswersStay ==
  ASSUME Answers, RowsStay, UNCHANGED req
  PROVE  Answers'
  BY DEF Answers, RowsStay

LEMMA AnswersKept ==
  ASSUME WebKept, WebNext
  PROVE  Answers'
<1>1. RowsStay /\ Answers /\ SessInv BY ServerSide DEF WebKept
<1>2. ASSUME UNCHANGED req PROVE Answers' BY <1>1, <1>2, AnswersStay
<1>3. ASSUME NEW h \in Handlers, NEW t \in Tokens, Refresh(h, t) PROVE Answers'
  BY <1>1, <1>3, RefreshSets, AnswersSet
<1>4. ASSUME NEW h \in Handlers, NEW a \in Accounts, Login(h, a) PROVE Answers'
  BY <1>1, <1>4, LoginSets, AnswersSet
<1>5. ASSUME NEW h \in Handlers, Receive(h) PROVE Answers'
  BY <1>1, <1>5, ReceiveSets, AnswersSet, IdleTyped
<1>6. ASSUME NEW h \in Handlers, Crash(h) PROVE Answers'
  <2>1. Others(h) /\ req'[h] = Idle BY <1>1, <1>6 DEF Crash, Others, SessInv, TypeOK
  <2> QED BY <1>1, <2>1, AnswersSet, IdleTyped
<1>7. ASSUME NEW h \in Handlers, Proceed(h) PROVE Answers'
  <2>1. req[h].step # "change" BY <1>1 DEF Answers
  <2>2. /\ Others(h) /\ req'[h].step # "change"
        /\ req'[h].step = "ok" => req'[h].new \in Tokens /\ Unrevoked(req[h].new)'
    BY <1>1, <1>7, <2>1, ProceedSets
  <2>3. req'[h].step = "ok" => token'[req'[h].new].state # "unused"
    BY <2>2 DEF Unrevoked
  <2> QED BY <1>1, <2>2, <2>3, AnswersSet
<1>8. stored # None => stored \in Tokens BY DEF WebKept, WebTypeOK
<1>9. ASSUME NEW T \in Tabs, Open(T) \/ RetryRestore(T) \/ Retry(T) PROVE Answers'
  BY <1>2, <1>3, <1>8, <1>9 DEF Open, RetryRestore, Retry, Send, server
<1>10. ASSUME NEW T \in Tabs, SignOut(T) PROVE Answers' BY <1>2, <1>10 DEF SignOut, server
<1>11. ASSUME NEW T \in Tabs, SignIn(T) PROVE Answers' BY <1>4, <1>11 DEF SignIn
<1>12. ASSUME NEW T \in Tabs, SignedIn(T) PROVE Answers'
  <2>1. login[T] \in Handlers BY <1>12 DEF SignedIn, WebKept, WebTypeOK
  <2> QED BY <1>5, <1>12, <2>1 DEF SignedIn
<1>13. ASSUME NEW T \in Tabs, NEW h \in Handlers, Answered(T, h) PROVE Answers'
  BY <1>5, <1>13 DEF Answered
<1>14. ASSUME NEW T \in Tabs, NEW h \in Handlers, Lost(T, h) PROVE Answers'
  BY <1>2, <1>14 DEF Lost, server
<1>18. ASSUME NEW T \in Tabs, Greeted(T) \/ Unheard(T) PROVE Answers'
  BY <1>2, <1>18 DEF Greeted, Unheard, server
<1>19. ASSUME NEW T \in Tabs, Denied(T) PROVE Answers'
  BY <1>2, <1>3, <1>8, <1>19 DEF Denied, Send, server
<1>15. ASSUME NEW h \in Handlers, Serve(h) PROVE Answers'
  BY <1>5, <1>6, <1>7, <1>15 DEF Serve
<1>16. ASSUME NEW t \in Tokens, SayBye(t) \/ Expire(t) PROVE Answers'
  BY <1>2, <1>16 DEF SayBye, Logout, Expire, server
<1>17. ASSUME NEW a \in Accounts, NEW on \in BOOLEAN, SetActive(a, on) PROVE Answers'
  BY <1>2, <1>17 DEF SetActive
<1> QED BY <1>9, <1>10, <1>11, <1>12, <1>13, <1>14, <1>15, <1>16, <1>17, <1>18, <1>19
        DEF WebNext

(* The browser's own variables keep their shape, the stored token is one   *)
(* that was handed out, and a page that restores a session neither waits   *)
(* for ever nor forgets it.                                                *)
ClientOK ==
  /\ stored \in Tokens \cup {None}
  /\ view \in [Tabs -> Views]
  /\ flights \in [Tabs -> SUBSET Handlers]
  /\ login \in [Tabs -> Handlers \cup {None}]
  /\ bye \subseteq Tokens /\ denied \subseteq Tabs
  /\ opens \in 0..MaxOpens /\ losses \in 0..MaxLosses

Restores == {"restoring", "me", "renewing", "again", "offline"}
Elsewhere(T) == \E U \in Tabs \ {T} : view[U] # "closed"

(* A page that restores, at whichever request, has a token to try again    *)
(* with, or its load of the user came back 401, or another tab was opened. *)
MayRestore ==
  \A T \in Tabs : view[T] \in Restores =>
    stored # None \/ T \in denied \/ Elsewhere(T)

(* A second refresh is only sent after such a 401.                         *)
RenewsDenied == \A T \in Tabs : view[T] = "renewing" => T \in denied

ClientKept == ClientOK /\ Remembered /\ RestoringWaits /\ MayRestore /\ RenewsDenied

(* One tab shows and awaits something else.                                *)
Shows(T, v, F) ==
  /\ v \in Views /\ v # "closed" /\ view' = [view EXCEPT ![T] = v]
  /\ F \in SUBSET Handlers /\ flights' = [flights EXCEPT ![T] = F]
  /\ v \in {"restoring", "renewing"} => F # {}
  /\ v = "renewing" => T \in denied'
  /\ v \in Restores => stored' # None \/ T \in denied' \/ Elsewhere(T)

(* The rest keeps its shape and a stored token exists.                     *)
Carries(T) ==
  /\ login' \in [Tabs -> Handlers \cup {None}] /\ bye' \subseteq Tokens
  /\ opens' \in 0..MaxOpens /\ losses' \in 0..MaxLosses
  /\ denied' \subseteq Tabs /\ denied \ {T} \subseteq denied'
  /\ stored' \in Tokens \cup {None}
  /\ stored' # None => token'[stored'].state # "unused"

LEMMA ClientSet ==
  ASSUME ClientKept, RowsStay, NEW T \in Tabs, NEW v, NEW F, Shows(T, v, F), Carries(T)
  PROVE  ClientKept'
<1> USE DEF Shows, Carries
<1>1. /\ view' \in [Tabs -> Views] /\ view'[T] = v
      /\ \A U \in Tabs : U # T => view'[U] = view[U]
  BY DEF ClientKept, ClientOK
<1>2. /\ flights' \in [Tabs -> SUBSET Handlers] /\ flights'[T] = F
      /\ \A U \in Tabs : U # T => flights'[U] = flights[U]
  BY DEF ClientKept, ClientOK
<1>3. ClientOK' BY <1>1, <1>2 DEF ClientOK
<1>4. Remembered' BY DEF Remembered
<1>5. RestoringWaits'
  BY <1>1, <1>2 DEF ClientKept, RestoringWaits
<1>6. MayRestore'
  <2> SUFFICES ASSUME NEW U \in Tabs, view'[U] \in Restores,
                      stored' = None, U \notin denied'
               PROVE  \E V \in Tabs \ {U} : view'[V] # "closed"
    BY DEF MayRestore, Elsewhere
  <2>1. CASE U = T
    <3>1. PICK V \in Tabs \ {T} : view[V] # "closed" BY <1>1, <2>1 DEF Elsewhere
    <3> QED BY <1>1, <2>1, <3>1
  <2>2. CASE U # T BY <1>1, <2>2 DEF ClientKept, MayRestore, Elsewhere
  <2> QED BY <2>1, <2>2
<1>7. RenewsDenied' BY <1>1 DEF ClientKept, RenewsDenied
<1> QED BY <1>3, <1>4, <1>5, <1>6, <1>7 DEF ClientKept

LEMMA ClientStays ==
  ASSUME ClientKept, RowsStay, UNCHANGED client
  PROVE  ClientKept'
<1>1. UNCHANGED <<stored, view, flights, login, bye, denied, opens, losses>> BY DEF client
<1>2. Remembered'
  BY <1>1 DEF Remembered, RowsStay, ClientKept, ClientOK
<1>3. ClientOK' BY <1>1 DEF ClientOK, ClientKept
<1>4. RestoringWaits' /\ MayRestore' /\ RenewsDenied'
  BY <1>1 DEF RestoringWaits, MayRestore, RenewsDenied, ClientKept, Elsewhere
<1> QED BY <1>2, <1>3, <1>4 DEF ClientKept

LEMMA BoundsMove ==
  /\ \A n \in 0..MaxOpens : n < MaxOpens => n + 1 \in 0..MaxOpens
  /\ \A n \in 0..MaxLosses : n < MaxLosses => n + 1 \in 0..MaxLosses
  BY MemberWebAssumption

LEMMA ViewsNamed ==
  /\ "closed" \in Views /\ "login" \in Views /\ "restoring" \in Views
  /\ "me" \in Views /\ "renewing" \in Views /\ "again" \in Views
  /\ "offline" \in Views /\ "home" \in Views
  /\ "offline" \in Restores /\ "me" \in Restores /\ "again" \in Restores
  /\ "home" \notin Restores /\ "login" \notin Restores
  BY DEF Views, Restores

LEMMA ClientNext ==
  ASSUME WebKept, ClientKept, WebNext
  PROVE  ClientKept'
<1>1. RowsStay /\ SessInv /\ Answers BY ServerSide DEF WebKept
<1>2. /\ stored \in Tokens \cup {None} /\ view \in [Tabs -> Views]
      /\ flights \in [Tabs -> SUBSET Handlers]
      /\ login \in [Tabs -> Handlers \cup {None}] /\ bye \subseteq Tokens
      /\ denied \subseteq Tabs /\ opens \in 0..MaxOpens /\ losses \in 0..MaxLosses
  BY DEF ClientKept, ClientOK
<1>3. stored # None => stored \in Tokens /\ token[stored].state # "unused"
  BY <1>2 DEF ClientKept, Remembered
<1>4. stored # None => token'[stored].state # "unused" BY <1>1, <1>3 DEF RowsStay
<1>5. ASSUME NEW T \in Tabs
      PROVE  flights[T] \in SUBSET Handlers /\ view[T] \in Views
  BY <1>2
<1>6. ASSUME NEW T \in Tabs
      PROVE  /\ view[T] \in {"restoring", "renewing"} => flights[T] # {}
             /\ view[T] \in Restores =>
                  stored # None \/ T \in denied \/ Elsewhere(T)
  BY DEF ClientKept, RestoringWaits, MayRestore
<1>7. ASSUME NEW T \in Tabs, UNCHANGED <<view, flights>>
      PROVE  view' = [view EXCEPT ![T] = view[T]] /\ flights' = [flights EXCEPT ![T] = flights[T]]
  BY <1>2, <1>7
<1>8. ASSUME NEW T \in Tabs, Open(T) PROVE ClientKept'
  <2>1. /\ opens' \in 0..MaxOpens /\ login' \in [Tabs -> Handlers \cup {None}]
        /\ denied' \subseteq Tabs /\ denied \ {T} \subseteq denied'
        /\ UNCHANGED <<stored, bye, losses>>
    BY <1>2, <1>8, BoundsMove DEF Open
  <2>4. Carries(T) BY <1>2, <1>4, <2>1 DEF Carries
  <2>2. ASSUME NEW h \in Handlers, stored # None,
               flights' = [flights EXCEPT ![T] = {h}],
               view' = [view EXCEPT ![T] = "restoring"]
        PROVE  ClientKept'
    <3>1. {h} \in SUBSET Handlers /\ {h} # {} OBVIOUS
    <3>2. Shows(T, "restoring", {h}) BY <2>2, <3>1, ViewsNamed, <2>1 DEF Shows
    <3> QED BY <1>1, <2>4, <3>2, ClientSet
  <2>3. ASSUME stored = None, flights' = [flights EXCEPT ![T] = {}],
               view' = [view EXCEPT ![T] = "login"]
        PROVE  ClientKept'
    <3>1. {} \in SUBSET Handlers OBVIOUS
    <3>2. Shows(T, "login", {}) BY <2>3, <3>1, ViewsNamed DEF Shows
    <3> QED BY <1>1, <2>4, <3>2, ClientSet
  <2> QED BY <1>8, <2>2, <2>3 DEF Open
<1>9. ASSUME NEW T \in Tabs, RetryRestore(T) PROVE ClientKept'
  <2>1. /\ view' = [view EXCEPT ![T] = "restoring"]
        /\ denied' \subseteq Tabs /\ denied \ {T} \subseteq denied'
        /\ UNCHANGED <<stored, login, bye, opens, losses>>
    BY <1>2, <1>9 DEF RetryRestore
  <2>2. PICK h \in Handlers : flights' = [flights EXCEPT ![T] = flights[T] \cup {h}]
    BY <1>2, <1>9 DEF RetryRestore, Send
  <2>3. flights[T] \cup {h} \in SUBSET Handlers /\ flights[T] \cup {h} # {} BY <1>5
  <2>4. stored' # None BY <1>9, <2>1 DEF RetryRestore
  <2>5. Carries(T) BY <1>2, <1>4, <2>1 DEF Carries
  <2>6. Shows(T, "restoring", flights[T] \cup {h})
    BY <2>1, <2>2, <2>3, <2>4, ViewsNamed DEF Shows
  <2> QED BY <1>1, <2>5, <2>6, ClientSet
<1>10. ASSUME NEW T \in Tabs, Retry(T) PROVE ClientKept'
  <2>1. view[T] = "home" /\ UNCHANGED <<stored, view, login, bye, denied, opens, losses>>
    BY <1>10 DEF Retry
  <2>2. PICK h \in Handlers : flights' = [flights EXCEPT ![T] = flights[T] \cup {h}]
    BY <1>2, <1>10 DEF Retry, Send
  <2>3. flights[T] \cup {h} \in SUBSET Handlers BY <1>5
  <2>4. view' = [view EXCEPT ![T] = "home"] BY <1>2, <2>1
  <2>5. Carries(T) BY <1>2, <1>4, <2>1 DEF Carries
  <2>6. Shows(T, "home", flights[T] \cup {h})
    BY <2>2, <2>3, <2>4, ViewsNamed DEF Shows
  <2> QED BY <1>1, <2>5, <2>6, ClientSet
<1>11. ASSUME NEW T \in Tabs, SignOut(T) PROVE ClientKept'
  <2>1. /\ view' = [view EXCEPT ![T] = "login"] /\ stored' = None
        /\ bye' = bye \cup ({stored} \ {None})
        /\ UNCHANGED <<flights, login, denied, opens, losses>>
    BY <1>11 DEF SignOut
  <2>2. bye' \subseteq Tokens BY <1>2, <2>1
  <2>3. flights' = [flights EXCEPT ![T] = flights[T]] BY <1>2, <2>1
  <2>4. Carries(T) BY <1>2, <2>1, <2>2 DEF Carries
  <2>5. Shows(T, "login", flights[T]) BY <1>5, <2>1, <2>3, ViewsNamed DEF Shows
  <2> QED BY <1>1, <2>4, <2>5, ClientSet
<1>12. ASSUME NEW T \in Tabs, SignIn(T) PROVE ClientKept'
  <2>1. view[T] = "login" /\ UNCHANGED <<stored, view, flights, bye, denied, opens, losses>>
    BY <1>12 DEF SignIn
  <2>2. login' \in [Tabs -> Handlers \cup {None}] BY <1>2, <1>12 DEF SignIn
  <2>3. view' = [view EXCEPT ![T] = "login"] /\ flights' = [flights EXCEPT ![T] = flights[T]]
    BY <1>2, <2>1
  <2>4. Carries(T) BY <1>2, <1>4, <2>1, <2>2 DEF Carries
  <2>5. Shows(T, "login", flights[T]) BY <1>5, <2>3, ViewsNamed DEF Shows
  <2> QED BY <1>1, <2>4, <2>5, ClientSet
<1>13. ASSUME NEW T \in Tabs, SignedIn(T) PROVE ClientKept'
  <2>1. /\ login[T] # None /\ req[login[T]].step = "ok" /\ stored' = req[login[T]].new
        /\ view' = [view EXCEPT ![T] = "home"] /\ login' = [login EXCEPT ![T] = None]
        /\ UNCHANGED <<flights, bye, denied, opens, losses>>
    BY <1>13 DEF SignedIn
  <2>2. login[T] \in Handlers BY <1>2, <2>1
  <2>3. stored' \in Tokens /\ token[stored'].state # "unused"
    BY <1>1, <2>1, <2>2 DEF Answers
  <2>4. token'[stored'].state # "unused" BY <1>1, <2>3 DEF RowsStay
  <2>5. login' \in [Tabs -> Handlers \cup {None}] BY <1>2, <2>1
  <2>6. flights' = [flights EXCEPT ![T] = flights[T]] BY <1>2, <2>1
  <2>7. Carries(T) BY <1>2, <2>1, <2>3, <2>4, <2>5 DEF Carries
  <2>8. Shows(T, "home", flights[T]) BY <1>5, <2>1, <2>6, ViewsNamed DEF Shows
  <2> QED BY <1>1, <2>7, <2>8, ClientSet
<1>14. ASSUME NEW T \in Tabs, NEW h \in Handlers, Answered(T, h) PROVE ClientKept'
  <2>1. /\ flights' = [flights EXCEPT ![T] = flights[T] \ {h}]
        /\ UNCHANGED <<login, bye, denied, opens, losses>>
    BY <1>2, <1>14 DEF Answered
  <2>2. flights[T] \ {h} \in SUBSET Handlers BY <1>5
  <2>3. ASSUME req[h].step = "ok", stored' = req[h].new
        PROVE  /\ stored' \in Tokens /\ stored' # None
               /\ token'[stored'].state # "unused"
    <3>1. stored' \in Tokens /\ token[stored'].state # "unused"
      BY <1>1, <2>3 DEF Answers
    <3> QED BY <1>1, <3>1, SessionsAssumption DEF RowsStay
  <2>4. CASE /\ req[h].step = "ok" /\ stored' = req[h].new
             /\ view' = [view EXCEPT ![T] = Onward(view[T])]
    <3> DEFINE v == Onward(view[T])
    <3>1. v \in Views /\ v \notin {"restoring", "renewing"} /\ view' = [view EXCEPT ![T] = v]
      BY <1>5, <2>4, ViewsNamed DEF Onward
    <3>2. CASE view[T] # "closed"
      <4>1. v # "closed" BY <3>2 DEF Onward
      <4> HIDE DEF v
      <4>2. Carries(T) BY <1>2, <2>1, <2>3, <2>4 DEF Carries
      <4>3. Shows(T, v, flights[T] \ {h})
        BY <2>1, <2>2, <2>3, <2>4, <3>1, <4>1 DEF Shows
      <4> QED BY <1>1, <4>2, <4>3, ClientSet
    <3>3. CASE view[T] = "closed"
      <4>1. UNCHANGED view BY <1>2, <2>4, <3>3 DEF Onward
      <4>2. /\ flights' \in [Tabs -> SUBSET Handlers]
            /\ \A U \in Tabs : U # T => flights'[U] = flights[U]
        BY <1>2, <2>1, <2>2
      <4>3. stored' \in Tokens /\ stored' # None /\ token'[stored'].state # "unused"
        BY <2>3, <2>4
      <4>4. ClientOK' BY <1>2, <2>1, <2>4, <4>1, <4>2, <4>3 DEF ClientOK
      <4>5. Remembered' BY <4>3 DEF Remembered
      <4>6. RestoringWaits'
        <5>1. \A U \in Tabs : view[U] \in {"restoring", "renewing"} => U # T BY <3>3
        <5> QED BY <1>6, <4>1, <4>2, <5>1 DEF RestoringWaits
      <4>7. MayRestore' /\ RenewsDenied'
        BY <2>1, <4>1, <4>3 DEF ClientKept, MayRestore, RenewsDenied
      <4> QED BY <4>4, <4>5, <4>6, <4>7 DEF ClientKept
    <3> QED BY <3>2, <3>3
  <2>5. CASE stored' = None /\ view' = [view EXCEPT ![T] = "login"]
    <3>1. Carries(T) BY <1>2, <2>1, <2>5 DEF Carries
    <3>2. Shows(T, "login", flights[T] \ {h}) BY <2>1, <2>2, <2>5, ViewsNamed DEF Shows
    <3> QED BY <1>1, <3>1, <3>2, ClientSet
  <2> QED BY <1>2, <1>14, <2>4, <2>5 DEF Answered
<1>15. ASSUME NEW T \in Tabs, NEW h \in Handlers, Lost(T, h) PROVE ClientKept'
  <2>1. /\ flights' = [flights EXCEPT ![T] = flights[T] \ {h}]
        /\ losses' \in 0..MaxLosses /\ UNCHANGED <<login, bye, denied, opens>>
    BY <1>2, <1>15, BoundsMove DEF Lost
  <2>2. flights[T] \ {h} \in SUBSET Handlers BY <1>5
  <2>3. CASE view' = [view EXCEPT ![T] = "login"] /\ stored' = None
    <3>1. Carries(T) BY <1>2, <2>1, <2>3 DEF Carries
    <3>2. Shows(T, "login", flights[T] \ {h}) BY <2>1, <2>2, <2>3, ViewsNamed DEF Shows
    <3> QED BY <1>1, <3>1, <3>2, ClientSet
  <2>4. CASE view[T] = "restoring" /\ view' = [view EXCEPT ![T] = "offline"]
             /\ UNCHANGED stored
    <3>1. stored' # None \/ T \in denied' \/ Elsewhere(T)
      BY <1>6, <2>1, <2>4 DEF Restores
    <3>2. Carries(T) BY <1>2, <1>4, <2>1, <2>4 DEF Carries
    <3>3. Shows(T, "offline", flights[T] \ {h})
      BY <2>1, <2>2, <2>4, <3>1, ViewsNamed DEF Shows
    <3> QED BY <1>1, <3>2, <3>3, ClientSet
  <2>5. CASE view[T] = "renewing" /\ view' = [view EXCEPT ![T] = "offline"]
             /\ stored' = None
    <3>1. T \in denied'
      BY <2>1, <2>5 DEF ClientKept, RenewsDenied
    <3>2. Carries(T) BY <1>2, <2>1, <2>5 DEF Carries
    <3>3. Shows(T, "offline", flights[T] \ {h})
      BY <2>1, <2>2, <2>5, <3>1, ViewsNamed DEF Shows
    <3> QED BY <1>1, <3>2, <3>3, ClientSet
  <2> QED BY <1>15, <2>3, <2>4, <2>5 DEF Lost
<1>19. ASSUME NEW T \in Tabs, Greeted(T) PROVE ClientKept'
  <2>1. /\ view' = [view EXCEPT ![T] = "home"]
        /\ UNCHANGED <<stored, flights, login, bye, denied, opens, losses>>
    BY <1>19 DEF Greeted
  <2>2. flights' = [flights EXCEPT ![T] = flights[T]] BY <1>2, <2>1
  <2>3. Carries(T) BY <1>2, <1>4, <2>1 DEF Carries
  <2>4. Shows(T, "home", flights[T]) BY <1>5, <2>1, <2>2, ViewsNamed DEF Shows
  <2> QED BY <1>1, <2>3, <2>4, ClientSet
<1>20. ASSUME NEW T \in Tabs, Denied(T) PROVE ClientKept'
  <2>1. /\ denied' = denied \cup {T} /\ UNCHANGED <<login, bye, opens, losses>>
    BY <1>20 DEF Denied
  <2>2. T \in denied' /\ denied' \subseteq Tabs /\ denied \ {T} \subseteq denied'
    BY <1>2, <2>1
  <2>3. CASE /\ \E h \in Handlers : Send(T, h, stored)
             /\ view' = [view EXCEPT ![T] = "renewing"] /\ UNCHANGED stored
    <3>1. PICK h \in Handlers : flights' = [flights EXCEPT ![T] = flights[T] \cup {h}]
      BY <1>2, <2>3 DEF Send
    <3>2. flights[T] \cup {h} \in SUBSET Handlers /\ flights[T] \cup {h} # {} BY <1>5
    <3>3. Carries(T) BY <1>2, <1>4, <2>1, <2>2, <2>3 DEF Carries
    <3>4. Shows(T, "renewing", flights[T] \cup {h})
      BY <2>2, <2>3, <3>1, <3>2, ViewsNamed DEF Shows
    <3> QED BY <1>1, <3>3, <3>4, ClientSet
  <2>4. CASE view' = [view EXCEPT ![T] = "login"] /\ stored' = None /\ UNCHANGED flights
    <3>1. flights' = [flights EXCEPT ![T] = flights[T]] BY <1>2, <2>4
    <3>2. Carries(T) BY <1>2, <2>1, <2>2, <2>4 DEF Carries
    <3>3. Shows(T, "login", flights[T]) BY <1>5, <2>4, <3>1, ViewsNamed DEF Shows
    <3> QED BY <1>1, <3>2, <3>3, ClientSet
  <2> QED BY <1>20, <2>3, <2>4 DEF Denied
<1>21. ASSUME NEW T \in Tabs, Unheard(T) PROVE ClientKept'
  <2>1. /\ losses' \in 0..MaxLosses /\ UNCHANGED <<flights, login, bye, denied, opens>>
        /\ view[T] \in {"me", "again"}
    BY <1>2, <1>21, BoundsMove DEF Unheard
  <2>2. flights' = [flights EXCEPT ![T] = flights[T]] BY <1>2, <2>1
  <2>3. CASE view' = [view EXCEPT ![T] = "offline"] /\ UNCHANGED stored
    <3>1. stored' # None \/ T \in denied' \/ Elsewhere(T)
      BY <1>6, <2>1, <2>3 DEF Restores
    <3>2. Carries(T) BY <1>2, <1>4, <2>1, <2>3 DEF Carries
    <3>3. Shows(T, "offline", flights[T]) BY <1>5, <2>2, <2>3, <3>1, ViewsNamed DEF Shows
    <3> QED BY <1>1, <3>2, <3>3, ClientSet
  <2>4. CASE view' = [view EXCEPT ![T] = "login"] /\ stored' = None
    <3>2. Carries(T) BY <1>2, <2>1, <2>4 DEF Carries
    <3>3. Shows(T, "login", flights[T]) BY <1>5, <2>2, <2>4, ViewsNamed DEF Shows
    <3> QED BY <1>1, <3>2, <3>3, ClientSet
  <2> QED BY <1>21, <2>3, <2>4 DEF Unheard
<1>16. ASSUME NEW h \in Handlers, Serve(h) PROVE ClientKept'
  BY <1>1, <1>16, ClientStays DEF Serve
<1>17. ASSUME NEW t \in Tokens, SayBye(t) PROVE ClientKept'
  <2>1. /\ UNCHANGED <<stored, view, flights, login, denied, opens>> /\ bye' = bye \ {t}
        /\ losses' \in 0..MaxLosses
    BY <1>2, <1>17, BoundsMove DEF SayBye
  <2>2. ClientOK' BY <1>2, <2>1 DEF ClientOK
  <2>3. Remembered' BY <1>4, <2>1 DEF Remembered
  <2>4. RestoringWaits' /\ MayRestore' /\ RenewsDenied'
    BY <2>1 DEF RestoringWaits, MayRestore, RenewsDenied, ClientKept, Elsewhere
  <2> QED BY <2>2, <2>3, <2>4 DEF ClientKept
<1>18. ASSUME UNCHANGED client PROVE ClientKept' BY <1>1, <1>18, ClientStays
<1> QED BY <1>8, <1>9, <1>10, <1>11, <1>12, <1>13, <1>14, <1>15, <1>16, <1>17, <1>18,
           <1>19, <1>20, <1>21
        DEF WebNext

LEMMA ClientInitially ==
  ASSUME WebInit
  PROVE  ClientKept /\ SessInv /\ Answers
<1>1. SessInv BY SessionsInitially DEF WebInit
<1>2. \A h \in Handlers : req[h].step = "idle" BY DEF WebInit, Init, Idle
<1>3. Answers BY <1>2 DEF Answers
<1>4. 0 \in 0..MaxOpens /\ 0 \in 0..MaxLosses BY MemberWebAssumption
<1>5. ClientOK BY <1>4, ViewsNamed DEF WebInit, ClientOK
<1>6. \A T \in Tabs : view[T] = "closed" BY DEF WebInit
<1>7. stored = None BY DEF WebInit
<1> QED BY <1>1, <1>3, <1>5, <1>6, <1>7
        DEF ClientKept, Remembered, RestoringWaits, MayRestore, RenewsDenied, Restores

(* Together inductive, whatever the browser does.                          *)
BrowserKept == SessInv /\ Answers /\ ClientKept

LEMMA KeptIsTyped == ASSUME BrowserKept PROVE WebKept
BY DEF BrowserKept, WebKept, WebTypeOK, ClientKept, ClientOK, SessInv

LEMMA BrowserNext == ASSUME BrowserKept, [WebNext]_allVars PROVE BrowserKept'
<1>1. SessInv' BY KeptIsTyped, ServerSide DEF Stepped
<1>2. SessInv /\ Answers /\ ClientKept /\ WebKept BY KeptIsTyped DEF BrowserKept
<1>3. CASE WebNext
  BY <1>1, <1>2, <1>3, AnswersKept, ClientNext DEF BrowserKept
<1>4. CASE UNCHANGED allVars
  <2>1. UNCHANGED req /\ UNCHANGED client BY <1>4 DEF allVars, client
  <2>2. RowsStay BY <1>2, ServerSide
  <2> QED BY <1>1, <1>2, <2>1, <2>2, AnswersStay, ClientStays DEF BrowserKept
<1> QED BY <1>3, <1>4

LEMMA BrowserInvariant == WebSpec => [](WebKept /\ ClientKept)
<1>1. BrowserKept => WebKept /\ ClientKept BY KeptIsTyped DEF BrowserKept
<1>2. WebInit => BrowserKept BY ClientInitially DEF BrowserKept
<1>3. BrowserKept /\ [WebNext]_allVars => BrowserKept' BY BrowserNext
<1> QED BY <1>1, <1>2, <1>3, PTL DEF WebSpec

(* Every tab, however many, is a client of the server and no more: what is *)
(* proved of Sessions holds of it under the member web app too.            *)
THEOREM BrowserIsAClient == WebSpec => Spec
<1>1. WebInit => Init BY DEF WebInit
<1>2. WebKept /\ [WebNext]_allVars => [Next]_vars BY BrowserAsks DEF WebKept
<1> QED BY <1>1, <1>2, BrowserInvariant, PTL DEF WebSpec, Spec

(* Whatever is lost and reloaded while a session is restored, the page     *)
(* neither waits for ever nor, offline, has forgotten the token, unless    *)
(* another tab was opened or its load of the user came back 401.           *)
THEOREM RestoringIsSafe == WebSpec => []RestoreSafe
<1>1. ClientKept => RestoreSafe
  BY DEF ClientKept, RestoreSafe, MayRestore, OfflineKeepsToken, Restores, Elsewhere
<1> QED BY <1>1, BrowserInvariant, PTL

-----------------------------------------------------------------------------
(* What holds besides while no page was reloaded and no answer lost.       *)
(* Before the first page is opened nothing is under way ...                *)
Nobody ==
  /\ opens = 0 /\ stored = None
  /\ \A T \in Tabs : view[T] = "closed" /\ flights[T] = {} /\ login[T] = None
  /\ \A h \in Handlers : req[h].step = "idle"

(* ... then one page is open; it sends one refresh at a time and none      *)
(* while it waits for a login; all requests are its own;                   *)
PageAt(T) ==
  /\ \A U \in Tabs : U # T => view[U] = "closed" /\ flights[U] = {} /\ login[U] = None
  /\ view[T] \in {"login", "home"} /\ opens # 0
  /\ login[T] # None => view[T] = "login"
  /\ \A g, h \in flights[T] : g = h
OwnAt(T) ==
  /\ \A h \in Handlers : req[h].step # "idle" => h \in flights[T] \/ login[T] = h
  /\ \A h \in flights[T] : req[h].token # None /\ req[h].step # "idle"
  /\ login[T] # None => /\ req[login[T]].token = None
                        /\ req[login[T]].step \in {"purge", "create", "ok"}

(* a refresh that can still be refused presents a settled token, an answer *)
(* brings one, of another session if it answers a login, and the stored    *)
(* token is settled or being exchanged.                                    *)
PresentsAt(T) ==
  \A h \in flights[T] :
    req[h].step \in {"account", "revoke", "refused"} => Settled(req[h].token)
BringsAt(T) ==
  /\ \A h \in Handlers : req[h].step = "ok" => Settled(req[h].new)
  /\ \A h \in flights[T] : req[h].step = "ok" =>
       token[req[h].new].session = token[req[h].token].session
  /\ \A h \in flights[T] : login[T] # None /\ req[login[T]].step = "ok" =>
       token[req[h].token].session # token[req[login[T]].new].session
StoresAt(T) ==
  stored # None =>
    \/ Settled(stored)
    \/ \E h \in flights[T] : /\ req[h].step \in {"purge", "create", "ok"}
                             /\ token[req[h].token].session = token[stored].session
AtTab(T) == PageAt(T) /\ OwnAt(T) /\ PresentsAt(T) /\ BringsAt(T) /\ StoresAt(T)

Serial == Nobody \/ \E T \in Tabs : AtTab(T)
Undisturbed == opens <= 1 /\ losses = 0

LEMMA SettledNext ==
  ASSUME SessInv, Stepped, RowsStay,
         \A h \in Handlers : req[h].step = "revoke" =>
                               req'[h].step \notin {"purge", "create"}
  PROVE  \A x \in Tokens : token[x].state # "unused" /\ Settled(x) =>
           SettledIn(token', req', x)
  BY SettledStays

LEMMA Referred ==
  ASSUME WebKept
  PROVE  /\ stored # None => stored \in Tokens /\ token[stored].state # "unused"
         /\ \A h \in Handlers : req[h].token # None =>
              req[h].token \in Tokens /\ token[req[h].token].state # "unused"
         /\ \A h \in Handlers : req[h].step = "ok" =>
              req[h].new \in Tokens /\ token[req[h].new].state # "unused"
<1>1. stored # None => stored \in Tokens /\ token[stored].state # "unused"
  BY DEF WebKept, WebTypeOK, Remembered
<1>2. \A h \in Handlers : req[h].token # None =>
        req[h].token \in Tokens /\ token[req[h].token].state # "unused"
  BY DEF WebKept, SessInv, TypeOK, Req, RequestsKept
<1>3. \A h \in Handlers : req[h].step = "ok" =>
        req[h].new \in Tokens /\ token[req[h].new].state # "unused"
  BY DEF WebKept, Answers
<1> QED BY <1>1, <1>2, <1>3

LEMMA FlightsAre ==
  ASSUME WebKept, NEW T \in Tabs
  PROVE  /\ \A h \in flights[T] : h \in Handlers
         /\ login[T] # None => login[T] \in Handlers
  BY DEF WebKept, WebTypeOK

(* Steps that only change rows.                                            *)
LEMMA RowsSerial ==
  ASSUME WebKept, Serial, Stepped, RowsStay,
         UNCHANGED <<req, stored, view, flights, login, opens>>
  PROVE  Serial'
<1>1. CASE Nobody BY <1>1 DEF Nobody, Serial
<1>2. ASSUME NEW T \in Tabs, AtTab(T) PROVE Serial'
  <2>1. PageAt(T)' /\ OwnAt(T)' BY <1>2 DEF AtTab, PageAt, OwnAt
  <2>2. \A x \in Tokens : token[x].state # "unused" /\ Settled(x) =>
          SettledIn(token', req', x)
    BY SettledNext DEF WebKept
  <2>3. \A x \in Tokens : token[x].state # "unused" => token'[x].session = token[x].session
    BY DEF RowsStay
  <2>4. PresentsAt(T)'
    BY <1>2, <2>2, Referred, FlightsAre DEF AtTab, OwnAt, PresentsAt, Settled
  <2>5. BringsAt(T)'
    <3>1. \A h \in Handlers : req'[h].step = "ok" => SettledIn(token', req', req'[h].new)
      BY <1>2, <2>2, Referred DEF AtTab, BringsAt
    <3>2. \A h \in flights'[T] : req'[h].step = "ok" =>
            token'[req'[h].new].session = token'[req'[h].token].session
      BY <1>2, <2>3, Referred, FlightsAre DEF AtTab, BringsAt, OwnAt
    <3>3. \A h \in flights'[T] : login'[T] # None /\ req'[login'[T]].step = "ok" =>
            token'[req'[h].token].session # token'[req'[login'[T]].new].session
      BY <1>2, <2>3, Referred, FlightsAre DEF AtTab, BringsAt, OwnAt
    <3> QED BY <3>1, <3>2, <3>3 DEF BringsAt, Settled
  <2>6. StoresAt(T)'
    BY <1>2, <2>2, <2>3, Referred, FlightsAre DEF AtTab, StoresAt, OwnAt, Settled
  <2> QED BY <2>1, <2>4, <2>5, <2>6 DEF AtTab, Serial
<1> QED BY <1>1, <1>2 DEF Serial

(* The first page is opened.                                               *)
LEMMA OpenSerial ==
  ASSUME WebKept, Nobody, NEW T \in Tabs, Open(T)
  PROVE  Serial'
<1>1. /\ opens' = opens + 1 /\ stored' = None /\ UNCHANGED req
      /\ login' = [login EXCEPT ![T] = None] /\ flights' = [flights EXCEPT ![T] = {}]
      /\ view' = [view EXCEPT ![T] = "login"]
  BY DEF Open, Nobody, server
<1>2. opens \in Nat BY DEF WebKept, WebTypeOK
<1>3. opens' # 0 BY <1>1, <1>2
<1>4. /\ view'[T] = "login" /\ flights'[T] = {} /\ login'[T] = None
      /\ \A U \in Tabs : U # T => /\ view'[U] = "closed" /\ flights'[U] = {}
                                  /\ login'[U] = None
  BY <1>1 DEF WebKept, WebTypeOK, Nobody
<1>5. \A h \in Handlers : req'[h].step = "idle" BY <1>1 DEF Nobody
<1>6. AtTab(T)'
  BY <1>1, <1>3, <1>4, <1>5
     DEF AtTab, PageAt, OwnAt, PresentsAt, BringsAt, StoresAt
<1> QED BY <1>6 DEF Serial

(* The page sends a refresh, with the stored token.                        *)
LEMMA RetrySerial ==
  ASSUME WebKept, NEW T \in Tabs, AtTab(T), Stepped, RowsStay, Retry(T)
  PROVE  Serial'
<1>1. /\ view[T] = "home" /\ stored # None /\ flights[T] = {}
      /\ UNCHANGED <<stored, view, login, bye, denied, opens, losses>>
  BY DEF Retry
<1>2. PICK h \in Handlers : Refresh(h, stored) /\ flights' = [flights EXCEPT ![T] = {h}]
  BY <1>1 DEF Retry, Send, WebKept, WebTypeOK
<1>3. stored \in Tokens /\ token[stored].state # "unused" BY <1>1, Referred
<1>4. /\ req[h].step = "idle" /\ Others(h) /\ UNCHANGED token
      /\ req'[h].token = stored /\ req'[h].step \in {"account", "refused"}
  BY <1>2, <1>3, RefreshSets DEF WebKept
<1>5. flights'[T] = {h} /\ \A U \in Tabs : U # T => flights'[U] = flights[U]
  BY <1>2 DEF WebKept, WebTypeOK
<1>6. login[T] = None BY <1>1 DEF AtTab, PageAt
<1>7. PageAt(T)' BY <1>1, <1>5 DEF AtTab, PageAt
<1>8. OwnAt(T)' BY <1>1, <1>4, <1>5, <1>6 DEF AtTab, OwnAt, Others
<1>9. \A x \in Tokens : token[x].state # "unused" /\ Settled(x) => SettledIn(token', req', x)
  <2>1. \A g \in Handlers : req[g].step = "revoke" =>
          req'[g].step \notin {"purge", "create"}
    BY <1>4 DEF Others
  <2> QED BY <2>1, SettledNext DEF WebKept
<1>10. Settled(stored) BY <1>1 DEF AtTab, StoresAt
<1>11. SettledIn(token', req', stored) BY <1>3, <1>9, <1>10
<1>12. PresentsAt(T)' BY <1>4, <1>5, <1>11 DEF PresentsAt, Settled
<1>13. BringsAt(T)'
  <2>1. \A g \in Handlers : req'[g].step = "ok" => SettledIn(token', req', req'[g].new)
    BY <1>4, <1>9, Referred DEF AtTab, BringsAt, Others
  <2> QED BY <1>1, <1>4, <1>5, <1>6, <2>1 DEF BringsAt, Settled
<1>14. StoresAt(T)' BY <1>1, <1>11 DEF StoresAt, Settled
<1> QED BY <1>7, <1>8, <1>12, <1>13, <1>14 DEF AtTab, Serial

(* Its answer.                                                             *)
LEMMA AnsweredSerial ==
  ASSUME WebKept, NEW T \in Tabs, AtTab(T), Stepped, RowsStay, losses' = losses,
         NEW h \in Handlers, Answered(T, h)
  PROVE  Serial'
<1>1. /\ h \in flights[T] /\ flights' = [flights EXCEPT ![T] = flights[T] \ {h}]
      /\ Receive(h) /\ UNCHANGED <<login, bye, opens>>
  BY DEF Answered, WebKept, WebTypeOK
<1>2. /\ Others(h) /\ req'[h] = Idle /\ UNCHANGED token
  BY <1>1, ReceiveSets DEF WebKept
<1>3. /\ flights'[T] = {} /\ \A U \in Tabs : U # T => flights'[U] = flights[U]
  BY <1>1 DEF AtTab, PageAt, WebKept, WebTypeOK
<1>4. view[T] \in {"login", "home"}
  BY DEF AtTab, PageAt, WebKept, WebTypeOK
<1>5. \/ req[h].step = "ok" /\ stored' = req[h].new /\ UNCHANGED view
      \/ stored' = None /\ view' = [view EXCEPT ![T] = "login"]
  <2>1. [view EXCEPT ![T] = Onward(view[T])] = view
    BY <1>4 DEF WebKept, WebTypeOK, Onward
  <2>2. \/ /\ req[h].step = "ok" /\ stored' = req[h].new
           /\ view' = [view EXCEPT ![T] = Onward(view[T])]
        \/ stored' = None /\ view' = [view EXCEPT ![T] = "login"]
    BY DEF Answered, WebKept, WebTypeOK
  <2> QED BY <2>1, <2>2
<1>6. /\ view'[T] = view[T] \/ view'[T] = "login"
      /\ \A U \in Tabs : U # T => view'[U] = view[U]
  BY <1>5 DEF WebKept, WebTypeOK
<1>7. PageAt(T)' BY <1>1, <1>3, <1>4, <1>6 DEF AtTab, PageAt
<1>8. req[h].token # None /\ login[T] # h BY <1>1, MemberWebAssumption DEF AtTab, OwnAt
<1>9. \A g \in Handlers : req'[g].step # "idle" => g # h BY <1>2, IdleTyped
<1>10. OwnAt(T)'
  <2>1. \A g \in Handlers : req'[g].step # "idle" => login[T] = g
    <3> SUFFICES ASSUME NEW g \in Handlers, req'[g].step # "idle" PROVE login[T] = g
      OBVIOUS
    <3>1. g # h /\ req[g].step # "idle" BY <1>2, <1>9 DEF Others
    <3>2. g \notin flights[T] BY <1>1, <3>1 DEF AtTab, PageAt
    <3> QED BY <3>1, <3>2 DEF AtTab, OwnAt
  <2>2. login[T] # None => req'[login[T]] = req[login[T]]
    BY <1>2, <1>8, FlightsAre DEF Others
  <2> QED BY <1>1, <1>3, <2>1, <2>2 DEF AtTab, OwnAt
<1>11. \A x \in Tokens : token[x].state # "unused" /\ Settled(x) => SettledIn(token', req', x)
  <2>1. \A g \in Handlers : req[g].step = "revoke" =>
          req'[g].step \notin {"purge", "create"}
    BY <1>2, IdleTyped DEF Others
  <2> QED BY <2>1, SettledNext DEF WebKept
<1>12. PresentsAt(T)' BY <1>3 DEF PresentsAt
<1>13. BringsAt(T)'
  <2>1. \A g \in Handlers : req'[g].step = "ok" => SettledIn(token', req', req'[g].new)
    BY <1>2, <1>9, <1>11, Referred, IdleTyped DEF AtTab, BringsAt, Others
  <2> QED BY <1>3, <2>1 DEF BringsAt, Settled
<1>14. StoresAt(T)'
  <2>1. CASE req[h].step = "ok" /\ stored' = req[h].new
    <3>1. SettledIn(token', req', stored')
      BY <1>11, <2>1, Referred DEF AtTab, BringsAt
    <3> QED BY <3>1 DEF StoresAt, Settled
  <2>2. CASE stored' = None BY <2>2 DEF StoresAt
  <2> QED BY <1>5, <2>1, <2>2
<1> QED BY <1>7, <1>10, <1>12, <1>13, <1>14 DEF AtTab, Serial

(* Its user signs out and in.                                              *)
LEMMA SignOutSerial ==
  ASSUME WebKept, NEW T \in Tabs, AtTab(T), Stepped, RowsStay, SignOut(T)
  PROVE  Serial'
<1>1. /\ view[T] = "home" /\ view' = [view EXCEPT ![T] = "login"] /\ stored' = None
      /\ UNCHANGED <<token, req, flights, login, opens>>
  BY DEF SignOut, server
<1>2. view'[T] = "login" /\ \A U \in Tabs : U # T => view'[U] = view[U]
  BY <1>1 DEF WebKept, WebTypeOK
<1>3. PageAt(T)' /\ OwnAt(T)' BY <1>1, <1>2 DEF AtTab, PageAt, OwnAt
<1>4. \A x \in Tokens : token[x].state # "unused" /\ Settled(x) => SettledIn(token', req', x)
  BY <1>1 DEF Settled
<1>5. PresentsAt(T)'
  BY <1>1, <1>3 DEF AtTab, PresentsAt, Settled
<1>6. BringsAt(T)' BY <1>1 DEF AtTab, BringsAt, Settled
<1>7. StoresAt(T)' BY <1>1 DEF StoresAt
<1> QED BY <1>3, <1>5, <1>6, <1>7 DEF AtTab, Serial

LEMMA SignInSerial ==
  ASSUME WebKept, NEW T \in Tabs, AtTab(T), Stepped, RowsStay, SignIn(T)
  PROVE  Serial'
<1>1. /\ view[T] = "login" /\ login[T] = None
      /\ UNCHANGED <<stored, view, flights, bye, denied, opens, losses>>
  BY DEF SignIn
<1>2. PICK h \in Handlers, a \in Accounts :
        Login(h, a) /\ login' = [login EXCEPT ![T] = h]
  BY DEF SignIn
<1>3. /\ req[h].step = "idle" /\ Others(h) /\ UNCHANGED token
      /\ req'[h].token = None /\ req'[h].step = "purge"
  BY <1>2, LoginSets DEF WebKept
<1>4. login'[T] = h /\ \A U \in Tabs : U # T => login'[U] = login[U]
  BY <1>2 DEF WebKept, WebTypeOK
<1>5. h \notin flights[T] BY <1>3 DEF AtTab, OwnAt
<1>6. \A g \in flights[T] : g \in Handlers /\ req'[g] = req[g]
  BY <1>3, <1>5, FlightsAre DEF Others
<1>7. PageAt(T)' BY <1>1, <1>4 DEF AtTab, PageAt
<1>8. OwnAt(T)'
  <2>1. \A g \in Handlers : req'[g].step # "idle" => g \in flights[T] \/ h = g
    <3> SUFFICES ASSUME NEW g \in Handlers, g # h, req'[g].step # "idle"
                 PROVE  g \in flights[T]
      OBVIOUS
    <3>1. req[g].step # "idle" BY <1>3 DEF Others
    <3>2. login[T] # g BY <1>1, MemberWebAssumption
    <3> QED BY <3>1, <3>2 DEF AtTab, OwnAt
  <2>2. \A g \in flights[T] : req'[g].token # None /\ req'[g].step # "idle"
    BY <1>6 DEF AtTab, OwnAt
  <2> QED BY <1>1, <1>3, <1>4, <2>1, <2>2 DEF OwnAt
<1>9. \A x \in Tokens : token[x].state # "unused" /\ Settled(x) => SettledIn(token', req', x)
  <2>1. \A g \in Handlers : req[g].step = "revoke" =>
          req'[g].step \notin {"purge", "create"}
    BY <1>3 DEF Others
  <2> QED BY <2>1, SettledNext DEF WebKept
<1>10. PresentsAt(T)'
  <2>1. \A g \in flights[T] : req[g].token \in Tokens /\ token[req[g].token].state # "unused"
    BY <1>6, Referred DEF AtTab, OwnAt
  <2> QED BY <1>1, <1>6, <1>9, <2>1 DEF AtTab, PresentsAt, Settled
<1>11. BringsAt(T)'
  <2>1. \A g \in Handlers : req'[g].step = "ok" => SettledIn(token', req', req'[g].new)
    BY <1>3, <1>9, Referred DEF AtTab, BringsAt, Others
  <2>2. \A g \in flights'[T] : req'[g].step = "ok" =>
          token'[req'[g].new].session = token'[req'[g].token].session
    BY <1>1, <1>3, <1>6 DEF AtTab, BringsAt
  <2>3. req'[login'[T]].step # "ok" BY <1>3, <1>4
  <2> QED BY <2>1, <2>2, <2>3 DEF BringsAt, Settled
<1>12. StoresAt(T)'
  <2> SUFFICES ASSUME stored # None
               PROVE  \/ SettledIn(token', req', stored)
                      \/ \E g \in flights[T] :
                           /\ req'[g].step \in {"purge", "create", "ok"}
                           /\ token[req'[g].token].session = token[stored].session
    BY <1>1, <1>3 DEF StoresAt, Settled
  <2>1. CASE Settled(stored) BY <1>9, <2>1, Referred
  <2>2. CASE ~Settled(stored) BY <1>6, <2>2 DEF AtTab, StoresAt
  <2> QED BY <2>1, <2>2
<1> QED BY <1>7, <1>8, <1>10, <1>11, <1>12 DEF AtTab, Serial

LEMMA SignedInSerial ==
  ASSUME WebKept, NEW T \in Tabs, AtTab(T), Stepped, RowsStay, SignedIn(T)
  PROVE  Serial'
<1>1. PICK h \in Handlers : h = login[T]
  BY FlightsAre DEF SignedIn
<1>2. /\ login[T] # None /\ req[h].step = "ok" /\ Receive(h) /\ stored' = req[h].new
      /\ view' = [view EXCEPT ![T] = "home"] /\ login' = [login EXCEPT ![T] = None]
      /\ UNCHANGED <<flights, bye, denied, opens, losses>>
  BY <1>1 DEF SignedIn
<1>3. /\ Others(h) /\ req'[h] = Idle /\ UNCHANGED token
  BY <1>2, ReceiveSets DEF WebKept
<1>4. /\ login'[T] = None /\ view'[T] = "home"
      /\ \A U \in Tabs : U # T => login'[U] = login[U] /\ view'[U] = view[U]
  BY <1>2 DEF WebKept, WebTypeOK
<1>5. h \notin flights[T] BY <1>1, <1>2 DEF AtTab, OwnAt
<1>6. \A g \in flights[T] : g \in Handlers /\ req'[g] = req[g]
  BY <1>3, <1>5, FlightsAre DEF Others
<1>7. PageAt(T)' BY <1>2, <1>4 DEF AtTab, PageAt
<1>8. \A g \in Handlers : req'[g].step # "idle" => g # h /\ req'[g] = req[g]
  BY <1>3, IdleTyped DEF Others
<1>9. OwnAt(T)' BY <1>1, <1>2, <1>4, <1>6, <1>8 DEF AtTab, OwnAt
<1>10. \A x \in Tokens : token[x].state # "unused" /\ Settled(x) => SettledIn(token', req', x)
  <2>1. \A g \in Handlers : req[g].step = "revoke" =>
          req'[g].step \notin {"purge", "create"}
    BY <1>3, IdleTyped DEF Others
  <2> QED BY <2>1, SettledNext DEF WebKept
<1>11. PresentsAt(T)'
  <2>1. \A g \in flights[T] : req[g].token \in Tokens /\ token[req[g].token].state # "unused"
    BY <1>6, Referred DEF AtTab, OwnAt
  <2> QED BY <1>2, <1>6, <1>10, <2>1 DEF AtTab, PresentsAt, Settled
<1>12. BringsAt(T)'
  <2>1. \A g \in Handlers : req'[g].step = "ok" => SettledIn(token', req', req'[g].new)
    BY <1>8, <1>10, Referred, IdleTyped DEF AtTab, BringsAt
  <2>2. \A g \in flights'[T] : req'[g].step = "ok" =>
          token'[req'[g].new].session = token'[req'[g].token].session
    BY <1>2, <1>3, <1>6 DEF AtTab, BringsAt
  <2> QED BY <1>4, <2>1, <2>2 DEF BringsAt, Settled
<1>13. StoresAt(T)'
  <2>1. SettledIn(token', req', stored')
    BY <1>2, <1>10, Referred DEF AtTab, BringsAt
  <2> QED BY <2>1 DEF StoresAt, Settled
<1> QED BY <1>7, <1>9, <1>11, <1>12, <1>13 DEF AtTab, Serial

(* The server works on the one refresh, or on the login.                   *)
LEMMA ServeSerial ==
  ASSUME WebKept, NEW T \in Tabs, AtTab(T), Stepped, RowsStay, UNCHANGED client,
         NEW h \in Handlers, Proceed(h)
  PROVE  Serial'
<1>1. UNCHANGED <<stored, view, flights, login, opens>> BY DEF client
<1>2. /\ Others(h) /\ req'[h].token = req[h].token
      /\ \/ req[h].step = "account" /\ req'[h].step = "revoke"
         \/ req[h].step = "account" /\ req'[h].step = "refused"
         \/ req[h].step = "revoke" /\ req'[h].step = "purge"
         \/ req[h].step = "revoke" /\ req'[h].step = "refused"
         \/ req[h].step = "purge" /\ req'[h].step = "create"
         \/ /\ req[h].step = "create" /\ req'[h].step = "ok"
            /\ req'[h].new \in Tokens
            /\ token[req'[h].new].state = "unused"
            /\ Unrevoked(req[h].new)'
            /\ IF req[h].token = None
               THEN token'[req'[h].new].session = req'[h].new
               ELSE token'[req'[h].new].session = token[req[h].token].session
  BY ProceedSets DEF WebKept, Answers
<1>3. h \in flights[T] \/ login[T] = h BY <1>2 DEF AtTab, OwnAt
<1>4. \A g \in flights[T] : /\ g \in Handlers /\ req[g].token \in Tokens
                            /\ token[req[g].token].state # "unused"
  BY FlightsAre, Referred DEF AtTab, OwnAt
<1>5. login[T] # None => login[T] \in Handlers BY FlightsAre
<1>6. \A x \in Tokens : token[x].state # "unused" => token'[x].session = token[x].session
  BY DEF RowsStay
<1>7. PageAt(T)' BY <1>1 DEF AtTab, PageAt
<1>8. OwnAt(T)'
  <2>1. \A g \in Handlers : req'[g].step # "idle" => g \in flights[T] \/ login[T] = g
    BY <1>2, <1>3 DEF AtTab, OwnAt, Others
  <2>2. \A g \in flights[T] : req'[g].token # None /\ req'[g].step # "idle"
    BY <1>2, <1>4 DEF AtTab, OwnAt, Others
  <2>3. login[T] # None => /\ req'[login[T]].token = None
                           /\ req'[login[T]].step \in {"purge", "create", "ok"}
    BY <1>2, <1>5 DEF AtTab, OwnAt, Others
  <2> QED BY <1>1, <2>1, <2>2, <2>3 DEF OwnAt
(* A refresh under way is the only one, so that what it hands in is no     *)
(* token another answer brings.                                            *)
<1>9. \A x \in Tokens : token[x].state # "unused" /\ Settled(x)
                        /\ (req[h].step = "revoke" /\ req'[h].step = "purge" =>
                              token[req[h].token].session # token[x].session)
                        => SettledIn(token', req', x)
  <2> SUFFICES ASSUME NEW x \in Tokens, token[x].state # "unused", Settled(x),
                      req[h].step = "revoke" /\ req'[h].step = "purge" =>
                        token[req[h].token].session # token[x].session
               PROVE  SettledIn(token', req', x)
    OBVIOUS
  <2>1. \A g \in Handlers : req[g].token \in Tokens /\ req[g].step = "revoke"
                            /\ req'[g].step \in {"purge", "create"}
                            => token[req[g].token].session # token[x].session
    BY <1>2 DEF Others
  <2> QED BY <2>1, SettledStays DEF WebKept
<1>10. req[h].step \in {"account", "revoke"} => h \in flights[T]
  BY <1>3, MemberWebAssumption DEF AtTab, OwnAt
<1>11. \A g \in flights[T] : g # h => h \notin flights[T] BY DEF AtTab, PageAt
<1>12. PresentsAt(T)'
  <2> SUFFICES ASSUME NEW g \in flights[T],
                      req'[g].step \in {"account", "revoke", "refused"}
               PROVE  SettledIn(token', req', req'[g].token)
    BY <1>1 DEF PresentsAt, Settled
  <2>1. req'[g].token = req[g].token /\ req[g].step \in {"account", "revoke", "refused"}
    BY <1>2, <1>4 DEF Others
  <2>2. Settled(req[g].token) BY <2>1 DEF AtTab, PresentsAt
  <2>3. ~(req[h].step = "revoke" /\ req'[h].step = "purge")
    BY <1>2, <1>4, <1>10, <1>11
  <2> QED BY <1>4, <1>9, <2>1, <2>2, <2>3
<1>13. \A g \in Handlers : req'[g].step = "ok" => SettledIn(token', req', req'[g].new)
  <2> SUFFICES ASSUME NEW g \in Handlers, req'[g].step = "ok"
               PROVE  SettledIn(token', req', req'[g].new)
    OBVIOUS
  <2>1. CASE g = h
    <3>1. PICK t \in Tokens : t = req'[h].new BY <1>2, <2>1
    <3>2. Unrevoked(t)'
      BY <1>2, <2>1, <3>1 DEF Unrevoked
    <3>3. SessInv' BY DEF Stepped
    <3>4. token'[t].session \in Tokens BY <3>2, <3>3 DEF SessInv, RowsKept, Unrevoked
    <3>5. PICK s \in Tokens : s = token'[t].session BY <3>4
    <3>6. KeyOf(s)' = t BY <3>2, <3>3, <3>5, KeyNext DEF SessInv
    <3>7. SettledIn(token', req', t) BY <3>5, <3>6, KeysRead DEF SettledIn
    <3> QED BY <2>1, <3>1, <3>7
  <2>2. CASE g # h
    <3>1. req'[g] = req[g] /\ req[g].step = "ok" BY <1>2, <2>2 DEF Others
    <3>2. /\ req[g].new \in Tokens /\ token[req[g].new].state # "unused"
          /\ Settled(req[g].new)
      BY <3>1, Referred DEF AtTab, BringsAt
    <3>3. req[h].step = "revoke" /\ req'[h].step = "purge" =>
            token[req[h].token].session # token[req[g].new].session
      <4>1. CASE g \in flights[T] BY <1>10, <1>11, <2>2, <4>1
      <4>2. CASE login[T] = g
        BY <1>5, <1>10, <3>1, <4>2, MemberWebAssumption DEF AtTab, BringsAt
      <4> QED BY <3>1, <4>1, <4>2 DEF AtTab, OwnAt
    <3> QED BY <1>9, <3>1, <3>2, <3>3
  <2> QED BY <2>1, <2>2
<1>14. \A g \in flights[T] : req'[g].step = "ok" =>
         token'[req'[g].new].session = token'[req'[g].token].session
  <2> SUFFICES ASSUME NEW g \in flights[T], req'[g].step = "ok"
               PROVE  token'[req'[g].new].session = token'[req'[g].token].session
    OBVIOUS
  <2>1. CASE g = h
    <3>1. req[h].token # None BY <2>1 DEF AtTab, OwnAt
    <3> QED BY <1>2, <1>4, <1>6, <2>1, <3>1
  <2>2. CASE g # h
    <3>1. req'[g] = req[g] BY <1>2, <1>4, <2>2 DEF Others
    <3>2. req[g].new \in Tokens /\ token[req[g].new].state # "unused"
      BY <1>4, <3>1, Referred
    <3>3. token[req[g].new].session = token[req[g].token].session
      BY <3>1 DEF AtTab, BringsAt
    <3> QED BY <1>4, <1>6, <3>1, <3>2, <3>3
  <2> QED BY <2>1, <2>2
<1>15. \A g \in flights[T] : login[T] # None /\ req'[login[T]].step = "ok" =>
         token'[req'[g].token].session # token'[req'[login[T]].new].session
  <2> SUFFICES ASSUME NEW g \in flights[T], login[T] # None, req'[login[T]].step = "ok"
               PROVE  token'[req'[g].token].session # token'[req'[login[T]].new].session
    OBVIOUS
  <2>1. req'[g].token = req[g].token BY <1>2, <1>4 DEF Others
  <2>2. token'[req[g].token].session = token[req[g].token].session BY <1>4, <1>6
  <2>3. CASE login[T] = h
    <3>1. req[h].token = None BY <2>3 DEF AtTab, OwnAt
    <3>2. /\ token'[req'[h].new].session = req'[h].new
          /\ token[req'[h].new].state = "unused"
      BY <1>2, <2>3, <3>1
    <3>3. token[token[req[g].token].session].state # "unused"
      BY <1>4 DEF WebKept, SessInv, RowsKept
    <3> QED BY <2>1, <2>2, <2>3, <3>2, <3>3
  <2>4. CASE login[T] # h
    <3>1. req'[login[T]] = req[login[T]] BY <1>2, <1>5, <2>4 DEF Others
    <3>2. /\ req[login[T]].new \in Tokens /\ token[req[login[T]].new].state # "unused"
      BY <1>5, <3>1, Referred
    <3>3. token[req[g].token].session # token[req[login[T]].new].session
      BY <3>1 DEF AtTab, BringsAt
    <3> QED BY <1>6, <2>1, <2>2, <3>1, <3>2, <3>3
  <2> QED BY <2>3, <2>4
<1>16. BringsAt(T)' BY <1>1, <1>13, <1>14, <1>15 DEF BringsAt, Settled
<1>17. StoresAt(T)'
  <2> SUFFICES ASSUME stored # None
               PROVE  \/ SettledIn(token', req', stored)
                      \/ \E g \in flights[T] :
                           /\ req'[g].step \in {"purge", "create", "ok"}
                           /\ token'[req'[g].token].session = token'[stored].session
    BY <1>1 DEF StoresAt, Settled
  <2>1. stored \in Tokens /\ token[stored].state # "unused" BY Referred
  <2>2. \A g \in flights[T] : /\ req'[g].token = req[g].token
                              /\ token'[req[g].token].session = token[req[g].token].session
    BY <1>2, <1>4, <1>6 DEF Others
  <2>3. CASE Settled(stored)
    <3>1. CASE /\ req[h].step = "revoke" /\ req'[h].step = "purge"
               /\ token[req[h].token].session = token[stored].session
      BY <1>6, <1>10, <2>1, <2>2, <3>1
    <3> QED BY <1>9, <2>1, <2>3, <3>1
  <2>4. CASE \E g \in flights[T] : /\ req[g].step \in {"purge", "create", "ok"}
                                   /\ token[req[g].token].session = token[stored].session
    <3>1. PICK g \in flights[T] : /\ req[g].step \in {"purge", "create", "ok"}
                                  /\ token[req[g].token].session = token[stored].session
      BY <2>4
    <3>2. req'[g].step \in {"purge", "create", "ok"}
      BY <1>2, <1>4, <3>1 DEF Others
    <3> QED BY <1>6, <2>1, <2>2, <3>1, <3>2
  <2> QED BY <2>3, <2>4 DEF AtTab, StoresAt
<1> QED BY <1>7, <1>8, <1>12, <1>16, <1>17 DEF AtTab, Serial

LEMMA Disturbed ==
  ASSUME WebKept, WebNext, Undisturbed'
  PROVE  /\ Undisturbed /\ losses' = losses
         /\ \A T \in Tabs : Open(T) => opens = 0
<1>1. opens \in Nat /\ losses \in Nat BY DEF WebKept, WebTypeOK
<1>2. opens' <= 1 /\ losses' = 0 BY DEF Undisturbed
<1>3. ASSUME NEW T \in Tabs, Open(T)
      PROVE  opens' = opens + 1 /\ losses' = losses
  BY <1>3 DEF Open
<1>4. \/ losses' = losses \/ losses' = losses + 1
  <2>1. ASSUME NEW T \in Tabs,
               \/ Open(T) \/ RetryRestore(T) \/ Retry(T) \/ Greeted(T) \/ Denied(T)
               \/ SignOut(T) \/ SignIn(T) \/ SignedIn(T)
        PROVE  losses' = losses
    BY <2>1 DEF Open, RetryRestore, Retry, Greeted, Denied, SignOut, SignIn, SignedIn
  <2>2. ASSUME NEW T \in Tabs, NEW h \in Handlers, Answered(T, h) \/ Lost(T, h)
        PROVE  losses' = losses \/ losses' = losses + 1
    BY <2>2 DEF Answered, Lost
  <2>6. ASSUME NEW T \in Tabs, Unheard(T) PROVE losses' = losses + 1
    BY <2>6 DEF Unheard
  <2>3. ASSUME NEW t \in Tokens, SayBye(t)
        PROVE  losses' = losses \/ losses' = losses + 1
    BY <2>3 DEF SayBye
  <2>4. ASSUME UNCHANGED client PROVE losses' = losses BY <2>4 DEF client
  <2>5. ASSUME NEW h \in Handlers, Serve(h) PROVE losses' = losses
    BY <2>4, <2>5 DEF Serve
  <2> QED BY <2>1, <2>2, <2>3, <2>4, <2>5, <2>6 DEF WebNext
<1>5. \/ opens' = opens \/ opens' = opens + 1
  <2>1. ASSUME NEW T \in Tabs,
               \/ RetryRestore(T) \/ Retry(T) \/ Greeted(T) \/ Denied(T) \/ Unheard(T)
               \/ SignOut(T) \/ SignIn(T) \/ SignedIn(T)
        PROVE  opens' = opens
    BY <2>1 DEF RetryRestore, Retry, Greeted, Denied, Unheard, SignOut, SignIn, SignedIn
  <2>2. ASSUME NEW T \in Tabs, NEW h \in Handlers, Answered(T, h) \/ Lost(T, h)
        PROVE  opens' = opens
    BY <2>2 DEF Answered, Lost
  <2>3. ASSUME NEW t \in Tokens, SayBye(t) PROVE opens' = opens BY <2>3 DEF SayBye
  <2>4. ASSUME UNCHANGED client PROVE opens' = opens BY <2>4 DEF client
  <2>5. ASSUME NEW h \in Handlers, Serve(h) PROVE opens' = opens
    BY <2>4, <2>5 DEF Serve
  <2> QED BY <1>3, <2>1, <2>2, <2>3, <2>4, <2>5 DEF WebNext
<1>6. losses' = losses /\ losses = 0 BY <1>1, <1>2, <1>4
<1>7. opens <= 1 BY <1>1, <1>2, <1>5
<1>8. ASSUME NEW T \in Tabs, Open(T) PROVE opens = 0 BY <1>1, <1>2, <1>3, <1>8
<1> QED BY <1>6, <1>7, <1>8 DEF Undisturbed

(* A step with one page open, and nothing lost or opened.                  *)
LEMMA TabSerial ==
  ASSUME WebKept, Stepped, RowsStay, NEW T \in Tabs, AtTab(T), WebNext,
         losses' = losses, \A U \in Tabs : ~Open(U)
  PROVE  Serial'
<1>1. /\ \A U \in Tabs : U # T => view[U] = "closed" /\ flights[U] = {} /\ login[U] = None
      /\ view[T] \in {"login", "home"}
  BY DEF AtTab, PageAt
<1>2. losses \in Nat BY DEF WebKept, WebTypeOK
<1>3. losses' # losses + 1 BY <1>2
<1>4. Serial BY DEF Serial
<1>5. ASSUME NEW U \in Tabs, RetryRestore(U) PROVE Serial'
  BY <1>1, <1>5 DEF RetryRestore
<1>16. ASSUME NEW U \in Tabs, Greeted(U) \/ Denied(U) \/ Unheard(U) PROVE Serial'
  BY <1>1, <1>16 DEF Greeted, Denied, Unheard
<1>6. ASSUME NEW U \in Tabs, Retry(U) PROVE Serial'
  <2>1. U = T BY <1>1, <1>6 DEF Retry
  <2> QED BY <1>6, <2>1, RetrySerial
<1>7. ASSUME NEW U \in Tabs, SignOut(U) PROVE Serial'
  <2>1. U = T BY <1>1, <1>7 DEF SignOut
  <2> QED BY <1>7, <2>1, SignOutSerial
<1>8. ASSUME NEW U \in Tabs, SignIn(U) PROVE Serial'
  <2>1. U = T BY <1>1, <1>8 DEF SignIn
  <2> QED BY <1>8, <2>1, SignInSerial
<1>9. ASSUME NEW U \in Tabs, SignedIn(U) PROVE Serial'
  <2>1. U = T BY <1>1, <1>9 DEF SignedIn
  <2> QED BY <1>9, <2>1, SignedInSerial
<1>10. ASSUME NEW U \in Tabs, NEW h \in Handlers, Answered(U, h) PROVE Serial'
  <2>1. U = T BY <1>1, <1>10 DEF Answered
  <2> QED BY <1>10, <2>1, AnsweredSerial
<1>11. ASSUME NEW U \in Tabs, NEW h \in Handlers, Lost(U, h) PROVE Serial'
  BY <1>3, <1>11 DEF Lost
<1>12. ASSUME NEW h \in Handlers, Serve(h) PROVE Serial'
  <2>1. UNCHANGED client BY <1>12 DEF Serve
  <2>2. CASE Proceed(h) BY <2>1, <2>2, ServeSerial
  <2>3. CASE ~Owned(h) /\ (Receive(h) \/ Crash(h))
    <3>1. req[h].step # "idle" BY <2>3 DEF Receive, Crash
    <3>2. Owned(h) BY <3>1 DEF AtTab, OwnAt, Owned
    <3> QED BY <2>3, <3>2
  <2> QED BY <1>12, <2>2, <2>3 DEF Serve
<1>13. ASSUME NEW t \in Tokens, SayBye(t) PROVE Serial'
  <2>1. Logout(t) \/ UNCHANGED server BY <1>13 DEF SayBye
  <2>2. UNCHANGED <<req, stored, view, flights, login, opens>>
    BY <1>13, <2>1 DEF SayBye, Logout, server
  <2> QED BY <1>4, <2>2, RowsSerial
<1>14. ASSUME NEW t \in Tokens, Expire(t), UNCHANGED client PROVE Serial'
  BY <1>4, <1>14, RowsSerial DEF Expire, client
<1>15. ASSUME NEW a \in Accounts, NEW on \in BOOLEAN, SetActive(a, on), UNCHANGED client
       PROVE  Serial'
  BY <1>4, <1>15, RowsSerial DEF SetActive, client
<1> QED BY <1>5, <1>6, <1>7, <1>8, <1>9, <1>10, <1>11, <1>12, <1>13, <1>14, <1>15, <1>16
        DEF WebNext

(* A step before any page is open.                                         *)
LEMMA NobodySerial ==
  ASSUME WebKept, Stepped, RowsStay, Nobody, WebNext
  PROVE  Serial'
<1>1. /\ \A T \in Tabs : view[T] = "closed" /\ flights[T] = {} /\ login[T] = None
      /\ \A h \in Handlers : req[h].step = "idle"
  BY DEF Nobody
<1>2. Serial BY DEF Serial
<1>3. ASSUME NEW T \in Tabs, Open(T) PROVE Serial' BY <1>3, OpenSerial
<1>4. ASSUME NEW T \in Tabs,
             \/ RetryRestore(T) \/ Retry(T) \/ Greeted(T) \/ Denied(T) \/ Unheard(T)
             \/ SignOut(T) \/ SignIn(T) \/ SignedIn(T)
      PROVE  Serial'
  BY <1>1, <1>4
     DEF RetryRestore, Retry, Greeted, Denied, Unheard, SignOut, SignIn, SignedIn
<1>5. ASSUME NEW T \in Tabs, NEW h \in Handlers, Answered(T, h) \/ Lost(T, h)
      PROVE  Serial'
  BY <1>1, <1>5 DEF Answered, Lost
<1>6. ASSUME NEW h \in Handlers, Serve(h) PROVE Serial'
  <2>1. ~Receive(h) /\ ~Crash(h) BY <1>1 DEF Receive, Crash
  <2>2. ~Proceed(h) BY <1>1, ProceedSets DEF WebKept
  <2> QED BY <1>6, <2>1, <2>2 DEF Serve
<1>7. ASSUME NEW t \in Tokens, SayBye(t) PROVE Serial'
  <2>1. Logout(t) \/ UNCHANGED server BY <1>7 DEF SayBye
  <2>2. UNCHANGED <<req, stored, view, flights, login, opens>>
    BY <1>7, <2>1 DEF SayBye, Logout, server
  <2> QED BY <1>2, <2>2, RowsSerial
<1>8. ASSUME NEW t \in Tokens, Expire(t), UNCHANGED client PROVE Serial'
  BY <1>2, <1>8, RowsSerial DEF Expire, client
<1>9. ASSUME NEW a \in Accounts, NEW on \in BOOLEAN, SetActive(a, on), UNCHANGED client
      PROVE  Serial'
  BY <1>2, <1>9, RowsSerial DEF SetActive, client
<1> QED BY <1>3, <1>4, <1>5, <1>6, <1>7, <1>8, <1>9 DEF WebNext

LEMMA SerialInvariant == WebSpec => [](WebKept /\ (Undisturbed => Serial))
<1> DEFINE I == Undisturbed => Serial
<1>1. WebInit => I
  <2>1. WebInit => Nobody BY DEF WebInit, Init, Nobody, Idle
  <2> QED BY <2>1 DEF Serial
<1>2. I /\ WebKept /\ [WebNext]_allVars => I'
  <2> SUFFICES ASSUME I, WebKept, [WebNext]_allVars, Undisturbed' PROVE Serial'
    OBVIOUS
  <2>1. Stepped /\ RowsStay BY ServerSide
  <2>2. CASE UNCHANGED allVars
    <3>1. UNCHANGED <<req, stored, view, flights, login, opens, losses>>
      BY <2>2 DEF allVars
    <3>2. Serial BY <3>1 DEF Undisturbed
    <3> QED BY <2>1, <3>1, <3>2, RowsSerial
  <2>3. CASE WebNext
    <3>1. /\ Undisturbed /\ losses' = losses
          /\ \A T \in Tabs : Open(T) => opens = 0
      BY <2>3, Disturbed
    <3>2. Serial BY <3>1
    <3>3. CASE Nobody BY <2>1, <2>3, <3>3, NobodySerial
    <3>4. ASSUME NEW T \in Tabs, AtTab(T) PROVE Serial'
      <4>1. opens # 0 BY <3>4 DEF AtTab, PageAt
      <4>2. \A U \in Tabs : ~Open(U) BY <3>1, <4>1
      <4> QED BY <2>1, <2>3, <3>1, <3>4, <4>2, TabSerial
    <3> QED BY <3>2, <3>3, <3>4 DEF Serial
  <2> QED BY <2>2, <2>3
<1> HIDE DEF I
<1>3. WebSpec => []WebKept BY BrowserInvariant, PTL
<1>4. WebSpec => []I BY <1>1, <1>2, <1>3, PTL DEF WebSpec
<1>5. I => (Undisturbed => Serial) BY DEF I
<1> QED BY <1>3, <1>4, <1>5, PTL

(* As long as the page is not reloaded and no answer lost, no refresh is   *)
(* refused while its session lives on under another token.                 *)
THEOREM RefusalsNeeded == WebSpec => []NoNeedlessRefusal
<1>1. WebKept /\ (Undisturbed => Serial) => NoNeedlessRefusal
  <2> SUFFICES ASSUME WebKept, Undisturbed => Serial, opens = 1, losses = 0,
                      NEW T \in Tabs, NEW h \in flights[T], req[h].step = "refused",
                      NEW t \in Tokens \ {req[h].token}, Unrevoked(t)
               PROVE  token[t].session # token[req[h].token].session
    BY DEF NoNeedlessRefusal
  <2>1. PICK U \in Tabs : AtTab(U)
    BY DEF Undisturbed, Serial, Nobody
  <2>2. U = T BY <2>1 DEF AtTab, PageAt
  <2>3. h \in Handlers /\ req[h].token # None /\ Settled(req[h].token)
    BY <2>1, <2>2, FlightsAre DEF AtTab, OwnAt, PresentsAt
  <2>4. req[h].token \in Tokens /\ token[req[h].token].state # "unused"
    BY <2>3, Referred
  <2> QED BY <2>3, <2>4, SettledAlone DEF WebKept
<1> QED BY <1>1, SerialInvariant, PTL

=============================================================================
