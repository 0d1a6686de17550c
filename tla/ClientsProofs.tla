----------------------------- MODULE ClientsProofs -----------------------------
(***************************************************************************)
(* What is proved of Clients: the session keys under both clients, the     *)
(* loads of PageLoads for any number of requests and reloads, the pages of *)
(* AdminQueries for any number of writes, and the guards of Requests, from *)
(* RequestsProofs, beside them.                                            *)
(***************************************************************************)
EXTENDS Clients, SessionsProofs, Sequences

(* A step of one desk leaves the others' variables alone.                  *)
LEMMA DeskSteps ==
  ASSUME [ClientsNext]_clientVars
  PROVE  /\ UNCHANGED desk
         /\ desk = "server" => [Next]_vars
         /\ desk = "browser" => [WebNext]_allVars
         /\ desk \notin {"server", "browser"} => UNCHANGED allVars
         /\ desk = "loads" => [Pg!Next]_(Pg!vars)
         /\ desk = "admin" => [Adm!Next]_(Adm!vars)
         /\ desk = "requests" => [Guards!Next]_(Guards!vars)
<1>1. CASE UNCHANGED clientVars
  BY <1>1 DEF clientVars, allVars, vars, others, From7, Pg!vars, Adm!vars, Guards!vars
<1>2. CASE ClientsNext
  BY <1>2 DEF ClientsNext, others, From7
<1> QED BY <1>1, <1>2

-----------------------------------------------------------------------------
(* The sessions: whoever sends the requests, the server's invariant holds; *)
(* at the browser's desk that of the browser does.                         *)
KeysKept == SessInv /\ (desk = "browser" => BrowserKept)

LEMMA KeysInitially == ASSUME ClientsInit PROVE KeysKept /\ Ring!Init
<1>1. WebInit /\ Init BY DEF ClientsInit, WebInit
<1> QED BY <1>1, ClientInitially, SessionsInitially DEF KeysKept, BrowserKept

LEMMA KeysNext ==
  ASSUME KeysKept, [ClientsNext]_clientVars
  PROVE  [Next]_vars /\ KeysKept'
<1>1. [Next]_vars
  <2>1. CASE desk = "server" BY <2>1, DeskSteps
  <2>2. CASE desk = "browser"
    BY <2>2, DeskSteps, KeptIsTyped, BrowserAsks DEF KeysKept, WebKept
  <2>3. CASE desk \notin {"server", "browser"}
    BY <2>3, DeskSteps DEF allVars, vars
  <2> QED BY <2>1, <2>2, <2>3
<1>2. SessInv' BY <1>1, SessionsNext DEF KeysKept, Stepped
<1>3. desk' = "browser" => BrowserKept'
  BY DeskSteps, BrowserNext DEF KeysKept
<1> QED BY <1>1, <1>2, <1>3 DEF KeysKept

(* A login hands out one key at a time, whoever asks: what each client and *)
(* anybody else does to the sessions implements KeyRing, step by step.     *)
THEOREM ClientsAreRings == ClientsSpec => SessionsAreKeyRings
<1>1. ClientsInit => KeysKept /\ Ring!Init BY KeysInitially
<1>2. KeysKept /\ [ClientsNext]_clientVars => KeysKept' BY KeysNext
<1>3. KeysKept /\ [ClientsNext]_clientVars =>
        [(desk \in {"server", "browser"}) => RingStep]_clientVars
  <2> SUFFICES ASSUME KeysKept, [ClientsNext]_clientVars PROVE RingStep
    OBVIOUS
  <2>1. [Ring!Next]_(Ring!vars) BY KeysNext, SessionsNext DEF KeysKept, Stepped
  <2> QED BY <2>1 DEF RingStep
<1> QED BY <1>1, <1>2, <1>3, PTL DEF ClientsSpec, SessionsAreKeyRings

(* A token that was revoked stays so, under both clients and under         *)
(* requests of anybody's.                                                  *)
THEOREM RevokedUnderClients == ClientsSpec => RevokedStays
<1>1. ClientsInit => KeysKept BY KeysInitially
<1>2. KeysKept /\ [ClientsNext]_clientVars => KeysKept' BY KeysNext
<1>3. KeysKept /\ [ClientsNext]_clientVars =>
        [\A t \in Tokens :
           /\ token[t].state \in {"revoked", "gone"} => token'[t].state \in {"revoked", "gone"}
           /\ token[t].state = "live" => token'[t].state # "gone"]_vars
  BY KeysNext, SessionsNext DEF KeysKept, Stepped, StaysRevoked
<1> QED BY <1>1, <1>2, <1>3, PTL DEF ClientsSpec, RevokedStays

-----------------------------------------------------------------------------
(* The loads of a page.  A load that is still wanted is of the page's own  *)
(* nonce, so that its answer ends the wait, and was sent after the user    *)
(* asked for it; before its effect has run a page has asked for nothing,   *)
(* and a page is on the screen of a user.                                  *)
Bounds == Lifetime \in Nat /\ LastTick \in Nat /\ MaxVersion \in Nat /\ MaxReloads \in Nat

LEMMA BoundsAreNumbers ==
  /\ Bounds
  /\ None \notin Nat /\ None \notin Users /\ None \notin Pg!Load
BY ClientsAssumption DEF Bounds

Wanted(l) ==
  /\ y6[l].nonce = y5.nonce
  /\ y6[l].data # None => y6[l].data.version >= y5.asked
PageKept ==
  /\ Pg!TypeOK
  /\ y5.phase # "shown" => y5.nonce = 0 /\ y5.asked = 0
  /\ y5.phase # "away" => y1 # None
  /\ y5.asked <= y3
  /\ \A l \in Pg!Live : Wanted(l)
  /\ Pg!ReloadIsNew

LEMMA AwayPage ==
  /\ Pg!Away \in Pg!Page
  /\ Pg!Away.phase = "away" /\ Pg!Away.nonce = 0 /\ Pg!Away.key = -1
  /\ Pg!Away.data = None /\ Pg!Away.asked = 0
BY BoundsAreNumbers DEF Pg!Away, Pg!Page, Bounds

(* A clean-up leaves no load wanted, and what the others are.              *)
LEMMA CleanUp ==
  ASSUME y6 \in [Loads -> Pg!Load \cup {None}]
  PROVE  /\ Pg!Cancelled \in [Loads -> Pg!Load \cup {None}]
         /\ \A l \in Loads : Pg!Cancelled[l] # None => ~Pg!Cancelled[l].live
<1> SUFFICES ASSUME NEW l \in Loads
             PROVE  /\ Pg!Cancelled[l] \in Pg!Load \cup {None}
                    /\ Pg!Cancelled[l] # None => ~Pg!Cancelled[l].live
  BY DEF Pg!Cancelled
<1>1. CASE l \in Pg!Live
  <2>1. y6[l] \in Pg!Load /\ Pg!Cancelled[l] = [y6[l] EXCEPT !.live = FALSE]
    BY <1>1 DEF Pg!Live, Pg!Cancelled
  <2> QED BY <2>1 DEF Pg!Load
<1>2. CASE l \notin Pg!Live
  BY <1>2 DEF Pg!Live, Pg!Cancelled, Pg!Load
<1> QED BY <1>1, <1>2

LEMMA NoneLive ==
  ASSUME y6 \in [Loads -> Pg!Load \cup {None}], y6' = Pg!Cancelled
  PROVE  y6' \in [Loads -> Pg!Load \cup {None}] /\ Pg!Live' = {}
BY CleanUp DEF Pg!Live

(* A request that is sent is the one the page waits for, with no data yet. *)
LEMMA SentLoad ==
  ASSUME y6 \in [Loads -> Pg!Load \cup {None}], y1 \in Users,
         NEW n \in 0..MaxReloads, Pg!Send(n)
  PROVE  /\ y6' \in [Loads -> Pg!Load \cup {None}] /\ Pg!Live' # {}
         /\ \A l \in Pg!Live' : y6'[l].nonce = n /\ y6'[l].data = None
<1> DEFINE new == [nonce |-> n, by |-> y1, data |-> None, live |-> TRUE]
<1>1. PICK l \in Loads : y6' = [Pg!Cancelled EXCEPT ![l] = new]
  BY DEF Pg!Send
<1>2. new \in Pg!Load /\ new.nonce = n /\ new.data = None /\ new.live
  BY DEF Pg!Load
<1>3. new # None
  BY <1>1, <1>2, BoundsAreNumbers
<1> HIDE DEF new
<1>4. y6' \in [Loads -> Pg!Load \cup {None}] /\ y6'[l] = new
      /\ \A m \in Loads : m # l => y6'[m] = Pg!Cancelled[m]
  BY <1>1, <1>2, CleanUp
<1> QED BY <1>2, <1>3, <1>4, CleanUp DEF Pg!Live

LEMMA PageInitially == ASSUME Pg!Init PROVE PageKept
<1>1. Pg!Live = {} BY DEF Pg!Init, Pg!Live
<1>2. Pg!TypeOK BY AwayPage, BoundsAreNumbers DEF Pg!Init, Pg!TypeOK, Bounds
<1>3. Pg!ReloadIsNew BY AwayPage DEF Pg!Init, Pg!ReloadIsNew
<1> QED BY <1>1, <1>2, <1>3, AwayPage DEF Pg!Init, PageKept

(* What an action leaves alone stays as it was.                            *)
LEMMA PageStays ==
  ASSUME PageKept, UNCHANGED <<y3, y5, y6>>,
         y1' \in Users \cup {None}, y5.phase # "away" => y1' # None, y2' \in 0..LastTick,
         y4' \in Pg!Entry \cup {None}
  PROVE  PageKept'
<1>1. Pg!Live' = Pg!Live BY DEF Pg!Live
<1>2. Pg!TypeOK' BY DEF PageKept, Pg!TypeOK
<1>3. Pg!ReloadIsNew' BY <1>1 DEF PageKept, Pg!ReloadIsNew, Pg!Loaded
<1> QED BY <1>1, <1>2, <1>3 DEF PageKept, Wanted

(* The page is given up: nothing is wanted and nothing was asked for.      *)
LEMMA PageLeft ==
  ASSUME PageKept, y5' = Pg!Away, y6' = Pg!Cancelled, UNCHANGED <<y2, y3>>,
         y1' \in Users \cup {None}, y4' \in Pg!Entry \cup {None}
  PROVE  PageKept'
<1>1. y6' \in [Loads -> Pg!Load \cup {None}] /\ Pg!Live' = {}
  BY NoneLive DEF PageKept, Pg!TypeOK
<1>2. Pg!TypeOK' BY <1>1, AwayPage DEF PageKept, Pg!TypeOK
<1>3. Pg!ReloadIsNew' BY AwayPage DEF Pg!ReloadIsNew
<1>4. 0 <= y3 BY BoundsAreNumbers DEF PageKept, Pg!TypeOK
<1> QED BY <1>1, <1>2, <1>3, <1>4, AwayPage DEF PageKept

(* A page that has asked waits for what it asked for.                      *)
LEMMA PageAsks ==
  ASSUME PageKept, y1 \in Users, UNCHANGED <<y1, y2, y3>>, y4' \in Pg!Entry \cup {None},
         NEW n \in 0..MaxReloads, Pg!Send(n), y5' \in Pg!Page,
         y5'.phase = "shown", y5'.nonce = n, y5'.key # n, y5'.asked <= y3
  PROVE  PageKept'
<1>1. /\ y6' \in [Loads -> Pg!Load \cup {None}] /\ Pg!Live' # {}
      /\ \A l \in Pg!Live' : y6'[l].nonce = n /\ y6'[l].data = None
  BY SentLoad DEF PageKept, Pg!TypeOK
<1>2. Pg!TypeOK' BY <1>1 DEF PageKept, Pg!TypeOK
<1>3. Pg!ReloadIsNew' BY <1>1 DEF Pg!ReloadIsNew, Pg!Loaded
<1>4. \A l \in Pg!Live' : Wanted(l)' BY <1>1 DEF Wanted
<1> QED BY <1>2, <1>3, <1>4, BoundsAreNumbers DEF PageKept

LEMMA EnterKept == ASSUME PageKept, Pg!Enter PROVE PageKept'
<1>1. /\ UNCHANGED <<y1, y2, y3, y4, y6>> /\ y5 = Pg!Away /\ y1 # None
      /\ y5' \in Pg!Page /\ y5'.phase = "rendered" /\ y5'.nonce = 0 /\ y5'.asked = 0
  <2>1. 0 \in 0..MaxReloads BY BoundsAreNumbers DEF Bounds
  <2>2. CASE Pg!Fresh
    <3>1. y4.data \in Pg!Data BY <2>2 DEF Pg!Fresh, PageKept, Pg!TypeOK, Pg!Entry
    <3>2. y5' = [Pg!Away EXCEPT !.phase = "rendered", !.key = 0, !.data = y4.data]
      BY <2>2 DEF Pg!Enter
    <3>3. 0 \in -1..MaxReloads /\ "rendered" \in {"away", "rendered", "shown"}
      BY <2>1
    <3>4. y5' \in Pg!Page /\ y5'.phase = "rendered" /\ y5'.nonce = 0 /\ y5'.asked = 0
      BY <3>1, <3>2, <3>3, AwayPage DEF Pg!Page
    <3> QED BY <3>4 DEF Pg!Enter
  <2>3. CASE ~Pg!Fresh
    <3>1. y5' = [Pg!Away EXCEPT !.phase = "rendered"] BY <2>3 DEF Pg!Enter
    <3> QED BY <3>1, AwayPage DEF Pg!Enter, Pg!Page
  <2> QED BY <2>2, <2>3
<1>2. Pg!Live' = Pg!Live BY <1>1 DEF Pg!Live
<1>3. Pg!TypeOK' BY <1>1 DEF PageKept, Pg!TypeOK
<1>4. \A l \in Pg!Live' : Wanted(l)'
  BY <1>1, <1>2, AwayPage DEF PageKept, Wanted
<1>5. 0 <= y3' BY <1>1, BoundsAreNumbers DEF PageKept, Pg!TypeOK
<1> QED BY <1>1, <1>3, <1>4, <1>5 DEF PageKept, Pg!ReloadIsNew

LEMMA EffectKept == ASSUME PageKept, Pg!Effect PROVE PageKept'
<1>1. /\ UNCHANGED <<y1, y2, y3, y4>> /\ y5 \in Pg!Page /\ y5.phase = "rendered"
      /\ y5' = [y5 EXCEPT !.phase = "shown"] /\ y5.nonce = 0 /\ y5.asked = 0
  BY DEF Pg!Effect, PageKept, Pg!TypeOK
<1>2. /\ y5' \in Pg!Page /\ y5'.phase = "shown" /\ y5'.nonce = 0 /\ y5'.asked = 0
      /\ y5'.key = y5.key
  BY <1>1 DEF Pg!Page
<1>3. /\ y6' \in [Loads -> Pg!Load \cup {None}]
      /\ \A l \in Pg!Live' :
           y6'[l].nonce = 0 /\ (y6'[l].data # None => y6'[l].data.version >= 0)
  <2>1. CASE UNCHANGED y6
    <3>1. Pg!Live' = Pg!Live BY <2>1 DEF Pg!Live
    <3> QED BY <1>1, <2>1, <3>1 DEF PageKept, Pg!TypeOK, Wanted
  <2>2. CASE Pg!Send(0)
    <3>1. y1 \in Users BY <1>1 DEF PageKept, Pg!TypeOK
    <3>2. 0 \in 0..MaxReloads BY BoundsAreNumbers DEF Bounds
    <3> QED BY <2>2, <3>1, <3>2, SentLoad DEF PageKept, Pg!TypeOK
  <2> QED BY <2>1, <2>2 DEF Pg!Effect
<1>4. Pg!TypeOK' BY <1>1, <1>2, <1>3 DEF PageKept, Pg!TypeOK
<1>5. Pg!ReloadIsNew' BY <1>2 DEF Pg!ReloadIsNew
<1>6. \A l \in Pg!Live' : Wanted(l)' BY <1>2, <1>3 DEF Wanted
<1>7. 0 <= y3' BY <1>1, BoundsAreNumbers DEF PageKept, Pg!TypeOK
<1> QED BY <1>1, <1>2, <1>4, <1>5, <1>6, <1>7 DEF PageKept

LEMMA ReloadKept == ASSUME PageKept, Pg!Reload PROVE PageKept'
<1>1. /\ UNCHANGED <<y1, y2, y3, y4>> /\ y5 \in Pg!Page /\ y5.phase = "shown"
      /\ y5.key = y5.nonce /\ y5.nonce < MaxReloads
      /\ y5' = [y5 EXCEPT !.nonce = y5.nonce + 1, !.asked = y3]
  BY DEF Pg!Reload, PageKept, Pg!TypeOK
<1>2. y5.nonce \in Nat /\ y5.nonce + 1 \in 0..MaxReloads /\ y3 \in 0..MaxVersion /\ y3 <= y3
  BY <1>1, BoundsAreNumbers DEF Pg!Page, Bounds, PageKept, Pg!TypeOK
<1>3. /\ y5' \in Pg!Page /\ y5'.phase = "shown" /\ y5'.nonce = y5.nonce + 1
      /\ y5'.key = y5.nonce /\ y5'.asked = y3
  BY <1>1, <1>2 DEF Pg!Page
<1>4. Pg!Send(y5.nonce + 1)
  BY <1>2 DEF Pg!Reload, Pg!Skips
<1>5. y1 \in Users BY <1>1 DEF PageKept, Pg!TypeOK
<1>6. y5'.key # y5.nonce + 1 BY <1>2, <1>3
<1>7. y4' \in Pg!Entry \cup {None} BY <1>1 DEF PageKept, Pg!TypeOK
<1> QED BY <1>1, <1>2, <1>3, <1>4, <1>5, <1>6, <1>7, PageAsks

LEMMA PullKept == ASSUME PageKept, Pg!Pull PROVE PageKept'
<1>1. /\ UNCHANGED <<y1, y2, y3>> /\ y5.phase = "shown" /\ y4' = None /\ Pg!Send(0)
      /\ y5' = [Pg!Away EXCEPT !.phase = "shown", !.asked = y3]
  BY DEF Pg!Pull
<1>2. 0 \in 0..MaxReloads /\ y3 \in 0..MaxVersion /\ y3 <= y3
  BY BoundsAreNumbers DEF Bounds, PageKept, Pg!TypeOK
<1>3. /\ y5' \in Pg!Page /\ y5'.phase = "shown" /\ y5'.nonce = 0
      /\ y5'.key = -1 /\ y5'.asked = y3
  BY <1>1, <1>2, AwayPage DEF Pg!Page
<1>4. y1 \in Users BY <1>1 DEF PageKept, Pg!TypeOK
<1> QED BY <1>1, <1>2, <1>3, <1>4, PageAsks

(* What the server reads now is as new as what anybody has asked for.      *)
LEMMA ServeKept == ASSUME PageKept, NEW l \in Loads, Pg!Serve(l) PROVE PageKept'
<1>1. /\ UNCHANGED <<y1, y2, y3, y4, y5>> /\ y6[l] \in Pg!Load /\ y6[l].data = None
      /\ y6' = [y6 EXCEPT ![l].data = [of |-> y6[l].by, version |-> y3]]
      /\ y6 \in [Loads -> Pg!Load \cup {None}] /\ y3 \in 0..MaxVersion
  BY DEF Pg!Serve, PageKept, Pg!TypeOK
<1>2. /\ y6'[l] \in Pg!Load /\ y6'[l].live = y6[l].live /\ y6'[l].nonce = y6[l].nonce
      /\ y6'[l].data.version = y3 /\ \A m \in Loads : m # l => y6'[m] = y6[m]
  BY <1>1 DEF Pg!Load, Pg!Data
<1>3. y6' \in [Loads -> Pg!Load \cup {None}]
  BY <1>1, <1>2
<1>4. Pg!Live' = Pg!Live
  BY <1>1, <1>2, BoundsAreNumbers DEF Pg!Live
<1>5. Pg!TypeOK' BY <1>1, <1>3 DEF PageKept, Pg!TypeOK
<1>6. Pg!ReloadIsNew' BY <1>1, <1>4 DEF PageKept, Pg!ReloadIsNew, Pg!Loaded
<1>7. y3 >= y5.asked BY <1>1, BoundsAreNumbers DEF PageKept, Pg!TypeOK, Pg!Page
<1>8. \A m \in Pg!Live' : Wanted(m)'
  BY <1>1, <1>2, <1>4, <1>7 DEF PageKept, Wanted, Pg!Live
<1> QED BY <1>1, <1>5, <1>6, <1>8 DEF PageKept

(* An answer that is wanted ends the wait with what it brought, data or an *)
(* error; one that is not changes nothing that is shown.                   *)
LEMMA AnswerKept ==
  ASSUME PageKept, NEW l \in Loads, y6[l] # None, NEW d \in Pg!Data \cup {None},
         d \in {None, y6[l].data}, y6' = [y6 EXCEPT ![l] = None],
         y5' = IF y6[l].live THEN [y5 EXCEPT !.key = y6[l].nonce, !.data = d] ELSE y5,
         UNCHANGED <<y1, y2, y3>>, y4' \in Pg!Entry \cup {None}
  PROVE  PageKept'
<1>1. /\ y5 \in Pg!Page /\ y6[l] \in Pg!Load /\ y6 \in [Loads -> Pg!Load \cup {None}]
  BY DEF PageKept, Pg!TypeOK
<1>2. y6' \in [Loads -> Pg!Load \cup {None}] /\ Pg!Live' = Pg!Live \ {l}
      /\ \A m \in Pg!Live' : y6'[m] = y6[m]
  BY <1>1 DEF Pg!Live
<1>3. CASE y6[l].live
  <2>1. l \in Pg!Live BY <1>3 DEF Pg!Live
  <2>2. y6[l].nonce = y5.nonce /\ (d # None => d.version >= y5.asked)
    BY <2>1 DEF PageKept, Wanted
  <2>3. y6[l].nonce \in -1..MaxReloads
    BY <1>1, BoundsAreNumbers DEF Pg!Load, Bounds
  <2>4. /\ y5' \in Pg!Page /\ y5'.key = y5.nonce /\ y5'.data = d /\ y5'.phase = y5.phase
        /\ y5'.nonce = y5.nonce /\ y5'.asked = y5.asked
    BY <1>1, <1>3, <2>2, <2>3 DEF Pg!Page
  <2>5. Pg!ReloadIsNew' BY <2>2, <2>4 DEF Pg!ReloadIsNew, Pg!Loaded
  <2>6. \A m \in Pg!Live' : Wanted(m)' BY <1>2, <2>4 DEF PageKept, Wanted
  <2>7. Pg!TypeOK' BY <1>2, <2>4 DEF PageKept, Pg!TypeOK
  <2> QED BY <2>4, <2>5, <2>6, <2>7 DEF PageKept
<1>4. CASE ~y6[l].live
  <2>1. y5' = y5 /\ Pg!Live' = Pg!Live BY <1>2, <1>4 DEF Pg!Live
  <2>2. Pg!ReloadIsNew' BY <2>1 DEF PageKept, Pg!ReloadIsNew, Pg!Loaded
  <2>3. \A m \in Pg!Live' : Wanted(m)' BY <1>2, <2>1 DEF PageKept, Wanted
  <2>4. Pg!TypeOK' BY <1>2, <2>1 DEF PageKept, Pg!TypeOK
  <2> QED BY <2>1, <2>2, <2>3, <2>4 DEF PageKept
<1> QED BY <1>3, <1>4

LEMMA ChangeKept == ASSUME PageKept, Pg!Change PROVE PageKept'
<1>1. UNCHANGED <<y1, y2, y4, y5, y6>> /\ y3 \in 0..MaxVersion /\ y3' = y3 + 1
      /\ y3 < MaxVersion /\ y5 \in Pg!Page /\ y5.asked <= y3
  BY DEF Pg!Change, PageKept, Pg!TypeOK
<1>2. y3' \in 0..MaxVersion /\ y5.asked <= y3'
  BY <1>1, BoundsAreNumbers DEF Bounds, Pg!Page
<1>3. Pg!Live' = Pg!Live BY <1>1 DEF Pg!Live
<1>4. Pg!TypeOK' BY <1>1, <1>2 DEF PageKept, Pg!TypeOK
<1>5. Pg!ReloadIsNew' BY <1>1, <1>3 DEF PageKept, Pg!ReloadIsNew, Pg!Loaded
<1> QED BY <1>1, <1>2, <1>3, <1>4, <1>5 DEF PageKept, Wanted

LEMMA PageNext == ASSUME PageKept, [Pg!Next]_(Pg!vars) PROVE PageKept'
<1>1. y1 \in Users \cup {None} /\ y2 \in 0..LastTick /\ y4 \in Pg!Entry \cup {None}
  BY DEF PageKept, Pg!TypeOK
<1>2. CASE Pg!Leave BY <1>1, <1>2, PageLeft DEF Pg!Leave
<1>3. CASE Pg!SignOut BY <1>1, <1>3, PageLeft DEF Pg!SignOut
<1>4. CASE Pg!Tick
  <2>1. y2' \in 0..LastTick /\ UNCHANGED <<y1, y3, y4, y5, y6>>
    BY <1>1, <1>4, BoundsAreNumbers DEF Pg!Tick, Bounds
  <2> QED BY <1>1, <2>1, PageStays DEF PageKept
<1>5. ASSUME NEW u \in Users, Pg!SignIn(u) PROVE PageKept'
  BY <1>1, <1>5, PageStays, BoundsAreNumbers DEF Pg!SignIn
<1>6. ASSUME NEW l \in Loads, Pg!Answer(l) PROVE PageKept'
  <2>1. y6[l] \in Pg!Load /\ y6[l].data \in Pg!Data
    BY <1>6 DEF Pg!Answer, PageKept, Pg!TypeOK, Pg!Load
  <2>2. [at |-> y2, data |-> y6[l].data] \in Pg!Entry
    BY <1>1, <2>1 DEF Pg!Entry
  <2> QED BY <1>6, <2>1, <2>2, AnswerKept DEF Pg!Answer
<1>7. ASSUME NEW l \in Loads, Pg!Fail(l) PROVE PageKept'
  BY <1>1, <1>7, AnswerKept DEF Pg!Fail
<1>8. CASE UNCHANGED Pg!vars
  <2>1. UNCHANGED <<y1, y2, y3, y4, y5, y6>> BY <1>8 DEF Pg!vars
  <2> QED BY <1>1, <2>1, PageStays DEF PageKept
<1> QED BY <1>2, <1>3, <1>4, <1>5, <1>6, <1>7, <1>8, EnterKept, EffectKept, ReloadKept,
           PullKept, ServeKept, ChangeKept DEF Pg!Next

(* After the user asked for a reload, the screen waits or shows data the   *)
(* server read since, whatever else of that address is on its way.         *)
THEOREM ReloadsAreNew == ClientsSpec => []ReloadIsNew
<1> DEFINE I == desk = "loads" => PageKept
<1>1. ClientsInit => I BY PageInitially DEF ClientsInit
<1>2. I /\ [ClientsNext]_clientVars => I' BY DeskSteps, PageNext
<1>3. I => ReloadIsNew BY DEF PageKept, ReloadIsNew
<1> HIDE DEF I
<1> QED BY <1>1, <1>2, <1>3, PTL DEF ClientsSpec

-----------------------------------------------------------------------------
(* The pages of the administrators' application.  What a write of a page   *)
(* owes a query of that page: to change nothing the query shows, or to     *)
(* make it be read again, unless the pair is one of those left stale.      *)
Covers(w, q) ==
  \/ w.changes \cap q.shows = {}
  \/ <<w, q>> \in Adm!Forgotten \cup Adm!Overtaken
  \/ \E key \in Adm!Stale(w) : Adm!IsPrefix(key, q.key)
AllCovered(p) == \A w \in p.writes, q \in p.queries : Covers(w, q)

(* A key matches by its first parts.                                       *)
LEMMA KeysStart ==
  ASSUME NEW a, NEW b, NEW c, NEW d, NEW e
  PROVE  /\ Adm!IsPrefix(<<a>>, <<a>>) /\ Adm!IsPrefix(<<a>>, <<a, b>>)
         /\ Adm!IsPrefix(<<a>>, <<a, b, c>>) /\ Adm!IsPrefix(<<a>>, <<a, b, c, d>>)
         /\ Adm!IsPrefix(<<a>>, <<a, b, c, d, e>>)
         /\ Adm!IsPrefix(<<a, b>>, <<a, b>>) /\ Adm!IsPrefix(<<a, b>>, <<a, b, c>>)
         /\ Adm!IsPrefix(<<a, b>>, <<a, b, c, d>>)
<1> USE DEF Adm!IsPrefix
<1>1. Adm!IsPrefix(<<a>>, <<a>>)
  OBVIOUS
<1>2. Adm!IsPrefix(<<a>>, <<a, b>>)
  OBVIOUS
<1>3. Adm!IsPrefix(<<a>>, <<a, b, c>>)
  OBVIOUS
<1>4. Adm!IsPrefix(<<a>>, <<a, b, c, d>>)
  OBVIOUS
<1>5. Adm!IsPrefix(<<a>>, <<a, b, c, d, e>>)
  OBVIOUS
<1>6. Adm!IsPrefix(<<a, b>>, <<a, b>>)
  OBVIOUS
<1>7. Adm!IsPrefix(<<a, b>>, <<a, b, c>>)
  OBVIOUS
<1>8. Adm!IsPrefix(<<a, b>>, <<a, b, c, d>>)
  OBVIOUS
<1> HIDE DEF Adm!IsPrefix
<1> QED BY <1>1, <1>2, <1>3, <1>4, <1>5, <1>6, <1>7, <1>8

(* Every write makes the counts of the layout be read again.               *)
LEMMA OfInbox == \A w : Covers(w, Adm!Inbox)
BY KeysStart DEF Covers, Adm!Inbox, Adm!Query, Adm!Stale, Adm!Always

LEMMA Exempted ==
  /\ Covers(Adm!CancelReservation, Adm!Payments) /\ Covers(Adm!CheckInReservation, Adm!Slots)
  /\ Covers(Adm!ReviewLeave, Adm!Absences) /\ Covers(Adm!Resign, Adm!HrFiles)
  /\ Covers(Adm!ChangeContract, Adm!Rounds) /\ Covers(Adm!SetOverride, Adm!Overrides)
  /\ Covers(Adm!SetRoleDefault, Adm!RoleDefaults) /\ Covers(Adm!AttachFile, Adm!Post)
  /\ Covers(Adm!RemoveFile, Adm!Post)
BY DEF Covers, Adm!Forgotten, Adm!Overtaken

(* Page by page, write by write: the queries other than the exempted.      *)
LEMMA MembersPageCovered == AllCovered(Adm!MembersPage)
<1> USE DEF Adm!MemberList, Adm!Branches,
            Covers, Adm!Query, Adm!Form, Adm!Button, Adm!Write, Adm!Stale, Adm!Always
<1>1. Covers(Adm!RegisterMember, Adm!MemberList) /\ Covers(Adm!RegisterMember, Adm!Branches)
  BY KeysStart DEF Adm!RegisterMember
<1> HIDE DEF Adm!MemberList, Adm!Branches, Covers
<1> QED BY <1>1, OfInbox, Exempted
           DEF Adm!MembersPage, Adm!Page, AllCovered

LEMMA MemberDetailPageCovered == AllCovered(Adm!MemberDetailPage)
<1> USE DEF Adm!Member, Adm!Enrollments, Adm!PtSessions, Adm!MemberReservations,
            Adm!Programs, Adm!Instructors,
            Covers, Adm!Query, Adm!Form, Adm!Button, Adm!Write, Adm!Stale, Adm!Always
<1>1. Covers(Adm!Enroll, Adm!Member) /\ Covers(Adm!Enroll, Adm!Enrollments)
     /\ Covers(Adm!Enroll, Adm!PtSessions) /\ Covers(Adm!Enroll, Adm!MemberReservations)
     /\ Covers(Adm!Enroll, Adm!Programs) /\ Covers(Adm!Enroll, Adm!Instructors)
  BY KeysStart DEF Adm!Enroll
<1>2. Covers(Adm!BuyPt, Adm!Member) /\ Covers(Adm!BuyPt, Adm!Enrollments)
     /\ Covers(Adm!BuyPt, Adm!PtSessions) /\ Covers(Adm!BuyPt, Adm!MemberReservations)
     /\ Covers(Adm!BuyPt, Adm!Programs) /\ Covers(Adm!BuyPt, Adm!Instructors)
  BY KeysStart DEF Adm!BuyPt, Adm!PtKeys
<1>3. Covers(Adm!UsePt, Adm!Member) /\ Covers(Adm!UsePt, Adm!Enrollments)
     /\ Covers(Adm!UsePt, Adm!PtSessions) /\ Covers(Adm!UsePt, Adm!MemberReservations)
     /\ Covers(Adm!UsePt, Adm!Programs) /\ Covers(Adm!UsePt, Adm!Instructors)
  BY KeysStart DEF Adm!UsePt, Adm!PtKeys
<1>4. Covers(Adm!EditMember, Adm!Member) /\ Covers(Adm!EditMember, Adm!Enrollments)
     /\ Covers(Adm!EditMember, Adm!PtSessions)
     /\ Covers(Adm!EditMember, Adm!MemberReservations)
     /\ Covers(Adm!EditMember, Adm!Programs) /\ Covers(Adm!EditMember, Adm!Instructors)
  BY KeysStart DEF Adm!EditMember
<1>5. Covers(Adm!SetMemberStatus, Adm!Member)
     /\ Covers(Adm!SetMemberStatus, Adm!Enrollments)
     /\ Covers(Adm!SetMemberStatus, Adm!PtSessions)
     /\ Covers(Adm!SetMemberStatus, Adm!MemberReservations)
     /\ Covers(Adm!SetMemberStatus, Adm!Programs)
     /\ Covers(Adm!SetMemberStatus, Adm!Instructors)
  BY KeysStart DEF Adm!SetMemberStatus
<1> HIDE DEF Adm!Member, Adm!Enrollments, Adm!PtSessions, Adm!MemberReservations,
             Adm!Programs, Adm!Instructors, Covers
<1> QED BY <1>1, <1>2, <1>3, <1>4, <1>5, OfInbox, Exempted
           DEF Adm!MemberDetailPage, Adm!Page, AllCovered

LEMMA StaffPageCovered == AllCovered(Adm!StaffPage)
<1> USE DEF Adm!StaffList, Adm!Me, Adm!MyChanges, Adm!PendingChanges,
            Covers, Adm!Query, Adm!Form, Adm!Button, Adm!Write, Adm!Stale, Adm!Always
<1>1. Covers(Adm!Hire, Adm!StaffList) /\ Covers(Adm!Hire, Adm!Me)
     /\ Covers(Adm!Hire, Adm!MyChanges) /\ Covers(Adm!Hire, Adm!PendingChanges)
  BY KeysStart DEF Adm!Hire
<1>2. Covers(Adm!AskChange, Adm!StaffList) /\ Covers(Adm!AskChange, Adm!Me)
     /\ Covers(Adm!AskChange, Adm!MyChanges) /\ Covers(Adm!AskChange, Adm!PendingChanges)
  BY KeysStart DEF Adm!AskChange
<1>3. Covers(Adm!CancelChange, Adm!StaffList) /\ Covers(Adm!CancelChange, Adm!Me)
     /\ Covers(Adm!CancelChange, Adm!MyChanges)
     /\ Covers(Adm!CancelChange, Adm!PendingChanges)
  BY KeysStart DEF Adm!CancelChange
<1>4. Covers(Adm!ReviewChange, Adm!StaffList) /\ Covers(Adm!ReviewChange, Adm!Me)
     /\ Covers(Adm!ReviewChange, Adm!MyChanges)
     /\ Covers(Adm!ReviewChange, Adm!PendingChanges)
  BY KeysStart DEF Adm!ReviewChange
<1> HIDE DEF Adm!StaffList, Adm!Me, Adm!MyChanges, Adm!PendingChanges, Covers
<1> QED BY <1>1, <1>2, <1>3, <1>4, OfInbox, Exempted
           DEF Adm!StaffPage, Adm!Page, AllCovered

LEMMA StaffDetailPageCovered == AllCovered(Adm!StaffDetailPage)
<1> USE DEF Adm!StaffRecord, Adm!Assignments, Adm!Records, Adm!HrFiles, Adm!Overrides,
            Adm!WorkLogHistory, Adm!Balance, Adm!StaffLeave, Adm!Branches,
            Covers, Adm!Query, Adm!Form, Adm!Button, Adm!Write, Adm!Stale, Adm!Always
<1>1. Covers(Adm!EditStaff, Adm!StaffRecord) /\ Covers(Adm!EditStaff, Adm!Assignments)
     /\ Covers(Adm!EditStaff, Adm!Records) /\ Covers(Adm!EditStaff, Adm!HrFiles)
     /\ Covers(Adm!EditStaff, Adm!Overrides) /\ Covers(Adm!EditStaff, Adm!WorkLogHistory)
     /\ Covers(Adm!EditStaff, Adm!Balance) /\ Covers(Adm!EditStaff, Adm!StaffLeave)
     /\ Covers(Adm!EditStaff, Adm!Branches)
  BY KeysStart DEF Adm!EditStaff
<1>2. Covers(Adm!Resign, Adm!StaffRecord) /\ Covers(Adm!Resign, Adm!Assignments)
     /\ Covers(Adm!Resign, Adm!Records) /\ Covers(Adm!Resign, Adm!Overrides)
     /\ Covers(Adm!Resign, Adm!WorkLogHistory) /\ Covers(Adm!Resign, Adm!Balance)
     /\ Covers(Adm!Resign, Adm!StaffLeave) /\ Covers(Adm!Resign, Adm!Branches)
  BY KeysStart DEF Adm!Resign
<1>3. Covers(Adm!Assign, Adm!StaffRecord) /\ Covers(Adm!Assign, Adm!Assignments)
     /\ Covers(Adm!Assign, Adm!Records) /\ Covers(Adm!Assign, Adm!HrFiles)
     /\ Covers(Adm!Assign, Adm!Overrides) /\ Covers(Adm!Assign, Adm!WorkLogHistory)
     /\ Covers(Adm!Assign, Adm!Balance) /\ Covers(Adm!Assign, Adm!StaffLeave)
     /\ Covers(Adm!Assign, Adm!Branches)
  BY KeysStart DEF Adm!Assign
<1>4. Covers(Adm!CorrectRecord, Adm!StaffRecord)
     /\ Covers(Adm!CorrectRecord, Adm!Assignments)
     /\ Covers(Adm!CorrectRecord, Adm!Records) /\ Covers(Adm!CorrectRecord, Adm!HrFiles)
     /\ Covers(Adm!CorrectRecord, Adm!Overrides)
     /\ Covers(Adm!CorrectRecord, Adm!WorkLogHistory)
     /\ Covers(Adm!CorrectRecord, Adm!Balance) /\ Covers(Adm!CorrectRecord, Adm!StaffLeave)
     /\ Covers(Adm!CorrectRecord, Adm!Branches)
  BY KeysStart DEF Adm!CorrectRecord
<1>5. Covers(Adm!SetOverride, Adm!StaffRecord) /\ Covers(Adm!SetOverride, Adm!Assignments)
     /\ Covers(Adm!SetOverride, Adm!Records) /\ Covers(Adm!SetOverride, Adm!HrFiles)
     /\ Covers(Adm!SetOverride, Adm!WorkLogHistory) /\ Covers(Adm!SetOverride, Adm!Balance)
     /\ Covers(Adm!SetOverride, Adm!StaffLeave) /\ Covers(Adm!SetOverride, Adm!Branches)
  BY KeysStart DEF Adm!SetOverride
<1> HIDE DEF Adm!StaffRecord, Adm!Assignments, Adm!Records, Adm!HrFiles, Adm!Overrides,
             Adm!WorkLogHistory, Adm!Balance, Adm!StaffLeave, Adm!Branches, Covers
<1> QED BY <1>1, <1>2, <1>3, <1>4, <1>5, OfInbox, Exempted
           DEF Adm!StaffDetailPage, Adm!Page, AllCovered

LEMMA AttendancePageCovered == AllCovered(Adm!AttendancePage)
<1> USE DEF Adm!MyRecords, Adm!Balance, Adm!MyLeave, Adm!WorkLogs, Adm!Summary,
            Adm!PendingLeave, Adm!Absences,
            Covers, Adm!Query, Adm!Form, Adm!Button, Adm!Write, Adm!Stale, Adm!Always
<1>1. Covers(Adm!CheckIn, Adm!MyRecords) /\ Covers(Adm!CheckIn, Adm!Balance)
     /\ Covers(Adm!CheckIn, Adm!MyLeave) /\ Covers(Adm!CheckIn, Adm!WorkLogs)
     /\ Covers(Adm!CheckIn, Adm!Summary) /\ Covers(Adm!CheckIn, Adm!PendingLeave)
     /\ Covers(Adm!CheckIn, Adm!Absences)
  BY KeysStart DEF Adm!CheckIn, Adm!AttendanceKeys
<1>2. Covers(Adm!CheckOut, Adm!MyRecords) /\ Covers(Adm!CheckOut, Adm!Balance)
     /\ Covers(Adm!CheckOut, Adm!MyLeave) /\ Covers(Adm!CheckOut, Adm!WorkLogs)
     /\ Covers(Adm!CheckOut, Adm!Summary) /\ Covers(Adm!CheckOut, Adm!PendingLeave)
     /\ Covers(Adm!CheckOut, Adm!Absences)
  BY KeysStart DEF Adm!CheckOut, Adm!AttendanceKeys
<1>3. Covers(Adm!RequestLeave, Adm!MyRecords) /\ Covers(Adm!RequestLeave, Adm!Balance)
     /\ Covers(Adm!RequestLeave, Adm!MyLeave) /\ Covers(Adm!RequestLeave, Adm!WorkLogs)
     /\ Covers(Adm!RequestLeave, Adm!Summary) /\ Covers(Adm!RequestLeave, Adm!PendingLeave)
     /\ Covers(Adm!RequestLeave, Adm!Absences)
  BY KeysStart DEF Adm!RequestLeave, Adm!LeaveKeys
<1>4. Covers(Adm!ReviewLeave, Adm!MyRecords) /\ Covers(Adm!ReviewLeave, Adm!Balance)
     /\ Covers(Adm!ReviewLeave, Adm!MyLeave) /\ Covers(Adm!ReviewLeave, Adm!WorkLogs)
     /\ Covers(Adm!ReviewLeave, Adm!Summary) /\ Covers(Adm!ReviewLeave, Adm!PendingLeave)
  BY KeysStart DEF Adm!ReviewLeave, Adm!LeaveKeys
<1>5. Covers(Adm!KeepWorkLog, Adm!MyRecords) /\ Covers(Adm!KeepWorkLog, Adm!Balance)
     /\ Covers(Adm!KeepWorkLog, Adm!MyLeave) /\ Covers(Adm!KeepWorkLog, Adm!WorkLogs)
     /\ Covers(Adm!KeepWorkLog, Adm!Summary) /\ Covers(Adm!KeepWorkLog, Adm!PendingLeave)
     /\ Covers(Adm!KeepWorkLog, Adm!Absences)
  BY KeysStart DEF Adm!KeepWorkLog
<1>6. Covers(Adm!ConfirmAbsences, Adm!MyRecords) /\ Covers(Adm!ConfirmAbsences, Adm!Balance)
     /\ Covers(Adm!ConfirmAbsences, Adm!MyLeave)
     /\ Covers(Adm!ConfirmAbsences, Adm!WorkLogs)
     /\ Covers(Adm!ConfirmAbsences, Adm!Summary)
     /\ Covers(Adm!ConfirmAbsences, Adm!PendingLeave)
     /\ Covers(Adm!ConfirmAbsences, Adm!Absences)
  BY KeysStart DEF Adm!ConfirmAbsences, Adm!AttendanceKeys
<1> HIDE DEF Adm!MyRecords, Adm!Balance, Adm!MyLeave, Adm!WorkLogs, Adm!Summary,
             Adm!PendingLeave, Adm!Absences, Covers
<1> QED BY <1>1, <1>2, <1>3, <1>4, <1>5, <1>6, OfInbox, Exempted
           DEF Adm!AttendancePage, Adm!Page, AllCovered

LEMMA ProgramsPageCovered == AllCovered(Adm!ProgramsPage)
<1> USE DEF Adm!Programs, Adm!FilteredPrograms, Adm!Timetable, Adm!Instructors,
            Adm!Facilities,
            Covers, Adm!Query, Adm!Form, Adm!Button, Adm!Write, Adm!Stale, Adm!Always
<1>1. Covers(Adm!SaveProgram, Adm!Programs) /\ Covers(Adm!SaveProgram, Adm!FilteredPrograms)
     /\ Covers(Adm!SaveProgram, Adm!Timetable) /\ Covers(Adm!SaveProgram, Adm!Instructors)
     /\ Covers(Adm!SaveProgram, Adm!Facilities)
  BY KeysStart DEF Adm!SaveProgram
<1>2. Covers(Adm!SetProgramStatus, Adm!Programs)
     /\ Covers(Adm!SetProgramStatus, Adm!FilteredPrograms)
     /\ Covers(Adm!SetProgramStatus, Adm!Timetable)
     /\ Covers(Adm!SetProgramStatus, Adm!Instructors)
     /\ Covers(Adm!SetProgramStatus, Adm!Facilities)
  BY KeysStart DEF Adm!SetProgramStatus
<1>3. Covers(Adm!EndProgram, Adm!Programs) /\ Covers(Adm!EndProgram, Adm!FilteredPrograms)
     /\ Covers(Adm!EndProgram, Adm!Timetable) /\ Covers(Adm!EndProgram, Adm!Instructors)
     /\ Covers(Adm!EndProgram, Adm!Facilities)
  BY KeysStart DEF Adm!EndProgram
<1> HIDE DEF Adm!Programs, Adm!FilteredPrograms, Adm!Timetable, Adm!Instructors,
             Adm!Facilities, Covers
<1> QED BY <1>1, <1>2, <1>3, OfInbox, Exempted
           DEF Adm!ProgramsPage, Adm!Page, AllCovered

LEMMA ReservationsPageCovered == AllCovered(Adm!ReservationsPage)
<1> USE DEF Adm!Reservations, Adm!Payments, Adm!Slots, Adm!Programs,
            Covers, Adm!Query, Adm!Form, Adm!Button, Adm!Write, Adm!Stale, Adm!Always
<1>1. Covers(Adm!CancelReservation, Adm!Reservations)
     /\ Covers(Adm!CancelReservation, Adm!Slots)
     /\ Covers(Adm!CancelReservation, Adm!Programs)
  BY KeysStart DEF Adm!CancelReservation
<1>2. Covers(Adm!CheckInReservation, Adm!Reservations)
     /\ Covers(Adm!CheckInReservation, Adm!Payments)
     /\ Covers(Adm!CheckInReservation, Adm!Programs)
  BY KeysStart DEF Adm!CheckInReservation
<1>3. Covers(Adm!CreateSlot, Adm!Reservations) /\ Covers(Adm!CreateSlot, Adm!Payments)
     /\ Covers(Adm!CreateSlot, Adm!Slots) /\ Covers(Adm!CreateSlot, Adm!Programs)
  BY KeysStart DEF Adm!CreateSlot
<1> HIDE DEF Adm!Reservations, Adm!Payments, Adm!Slots, Adm!Programs, Covers
<1> QED BY <1>1, <1>2, <1>3, OfInbox, Exempted
           DEF Adm!ReservationsPage, Adm!Page, AllCovered

LEMMA InstructorsPageCovered == AllCovered(Adm!InstructorsPage)
<1> USE DEF Adm!Instructors,
            Covers, Adm!Query, Adm!Form, Adm!Button, Adm!Write, Adm!Stale, Adm!Always
<1>1. Covers(Adm!CreateInstructor, Adm!Instructors)
  BY KeysStart DEF Adm!CreateInstructor
<1>2. Covers(Adm!SwitchInstructor, Adm!Instructors)
  BY KeysStart DEF Adm!SwitchInstructor
<1> HIDE DEF Adm!Instructors, Covers
<1> QED BY <1>1, <1>2, OfInbox, Exempted
           DEF Adm!InstructorsPage, Adm!Page, AllCovered

LEMMA FacilitiesPageCovered == AllCovered(Adm!FacilitiesPage)
<1> USE DEF Adm!Facilities,
            Covers, Adm!Query, Adm!Form, Adm!Button, Adm!Write, Adm!Stale, Adm!Always
<1>1. Covers(Adm!CreateFacility, Adm!Facilities)
  BY KeysStart DEF Adm!CreateFacility
<1>2. Covers(Adm!EditFacility, Adm!Facilities)
  BY KeysStart DEF Adm!EditFacility
<1>3. Covers(Adm!CorrectCount, Adm!Facilities)
  BY KeysStart DEF Adm!CorrectCount
<1>4. Covers(Adm!SwitchFacility, Adm!Facilities)
  BY KeysStart DEF Adm!SwitchFacility
<1> HIDE DEF Adm!Facilities, Covers
<1> QED BY <1>1, <1>2, <1>3, <1>4, OfInbox, Exempted
           DEF Adm!FacilitiesPage, Adm!Page, AllCovered

LEMMA AssetsPageCovered == AllCovered(Adm!AssetsPage)
<1> USE DEF Adm!Assets, Adm!Branches,
            Covers, Adm!Query, Adm!Form, Adm!Button, Adm!Write, Adm!Stale, Adm!Always
<1>1. Covers(Adm!CreateAsset, Adm!Assets) /\ Covers(Adm!CreateAsset, Adm!Branches)
  BY KeysStart DEF Adm!CreateAsset
<1>2. Covers(Adm!EditAsset, Adm!Assets) /\ Covers(Adm!EditAsset, Adm!Branches)
  BY KeysStart DEF Adm!EditAsset
<1>3. Covers(Adm!MoveAsset, Adm!Assets) /\ Covers(Adm!MoveAsset, Adm!Branches)
  BY KeysStart DEF Adm!MoveAsset
<1> HIDE DEF Adm!Assets, Adm!Branches, Covers
<1> QED BY <1>1, <1>2, <1>3, OfInbox, Exempted
           DEF Adm!AssetsPage, Adm!Page, AllCovered

LEMMA DocumentsPageCovered == AllCovered(Adm!DocumentsPage)
<1> USE DEF Adm!Documents, Adm!RetentionAlerts,
            Covers, Adm!Query, Adm!Form, Adm!Button, Adm!Write, Adm!Stale, Adm!Always
<1>1. Covers(Adm!UploadDocument, Adm!Documents)
     /\ Covers(Adm!UploadDocument, Adm!RetentionAlerts)
  BY KeysStart DEF Adm!UploadDocument
<1>2. Covers(Adm!DeleteDocument, Adm!Documents)
     /\ Covers(Adm!DeleteDocument, Adm!RetentionAlerts)
  BY KeysStart DEF Adm!DeleteDocument
<1> HIDE DEF Adm!Documents, Adm!RetentionAlerts, Covers
<1> QED BY <1>1, <1>2, OfInbox, Exempted
           DEF Adm!DocumentsPage, Adm!Page, AllCovered

LEMMA PostDetailPageCovered == AllCovered(Adm!PostDetailPage)
<1> USE DEF Adm!Post,
            Covers, Adm!Query, Adm!Form, Adm!Button, Adm!Write, Adm!Stale, Adm!Always
<1>1. Covers(Adm!DeletePost, Adm!Post)
  BY KeysStart DEF Adm!DeletePost
<1> HIDE DEF Adm!Post, Covers
<1> QED BY <1>1, OfInbox, Exempted
           DEF Adm!PostDetailPage, Adm!Page, AllCovered

LEMMA PostEditorPageCovered == AllCovered(Adm!PostEditorPage)
<1> USE DEF Adm!Post, Adm!Branches, Adm!BranchFacilities,
            Covers, Adm!Query, Adm!Form, Adm!Button, Adm!Write, Adm!Stale, Adm!Always
<1>1. Covers(Adm!SavePost, Adm!Post) /\ Covers(Adm!SavePost, Adm!Branches)
     /\ Covers(Adm!SavePost, Adm!BranchFacilities)
  BY KeysStart DEF Adm!SavePost
<1>2. Covers(Adm!AttachFile, Adm!Branches) /\ Covers(Adm!AttachFile, Adm!BranchFacilities)
  BY KeysStart DEF Adm!AttachFile
<1>3. Covers(Adm!RemoveFile, Adm!Branches) /\ Covers(Adm!RemoveFile, Adm!BranchFacilities)
  BY KeysStart DEF Adm!RemoveFile
<1> HIDE DEF Adm!Post, Adm!Branches, Adm!BranchFacilities, Covers
<1> QED BY <1>1, <1>2, <1>3, OfInbox, Exempted
           DEF Adm!PostEditorPage, Adm!Page, AllCovered

LEMMA SupportRequestsPageCovered == AllCovered(Adm!SupportRequestsPage)
<1> USE DEF Adm!SupportRequests,
            Covers, Adm!Query, Adm!Form, Adm!Button, Adm!Write, Adm!Stale, Adm!Always
<1>1. Covers(Adm!AskSupport, Adm!SupportRequests)
  BY KeysStart DEF Adm!AskSupport
<1>2. Covers(Adm!MoveSupport, Adm!SupportRequests)
  BY KeysStart DEF Adm!MoveSupport
<1> HIDE DEF Adm!SupportRequests, Covers
<1> QED BY <1>1, <1>2, OfInbox, Exempted
           DEF Adm!SupportRequestsPage, Adm!Page, AllCovered

LEMMA DashboardPageCovered == AllCovered(Adm!DashboardPage)
<1> USE DEF Adm!Branches,
            Covers, Adm!Query, Adm!Form, Adm!Button, Adm!Write, Adm!Stale, Adm!Always
<1>1. Covers(Adm!CreateBranch, Adm!Branches)
  BY KeysStart DEF Adm!CreateBranch
<1> HIDE DEF Adm!Branches, Covers
<1> QED BY <1>1, OfInbox, Exempted
           DEF Adm!DashboardPage, Adm!Page, AllCovered

LEMMA BranchDetailPageCovered == AllCovered(Adm!BranchDetailPage)
<1> USE DEF Adm!Branches, Adm!BranchStaff, Adm!BranchPrograms, Adm!ProgramsSummary,
            Adm!BranchFacilities, Adm!Performance, Adm!BranchAssets, Adm!AssignedMembers,
            Adm!Rounds, Adm!History,
            Covers, Adm!Query, Adm!Form, Adm!Button, Adm!Write, Adm!Stale, Adm!Always
<1>1. Covers(Adm!ChangeContract, Adm!Branches)
     /\ Covers(Adm!ChangeContract, Adm!BranchStaff)
     /\ Covers(Adm!ChangeContract, Adm!BranchPrograms)
     /\ Covers(Adm!ChangeContract, Adm!ProgramsSummary)
     /\ Covers(Adm!ChangeContract, Adm!BranchFacilities)
     /\ Covers(Adm!ChangeContract, Adm!Performance)
     /\ Covers(Adm!ChangeContract, Adm!BranchAssets)
     /\ Covers(Adm!ChangeContract, Adm!AssignedMembers)
     /\ Covers(Adm!ChangeContract, Adm!History)
  BY KeysStart DEF Adm!ChangeContract
<1>2. Covers(Adm!EditContract, Adm!Branches) /\ Covers(Adm!EditContract, Adm!BranchStaff)
     /\ Covers(Adm!EditContract, Adm!BranchPrograms)
     /\ Covers(Adm!EditContract, Adm!ProgramsSummary)
     /\ Covers(Adm!EditContract, Adm!BranchFacilities)
     /\ Covers(Adm!EditContract, Adm!Performance)
     /\ Covers(Adm!EditContract, Adm!BranchAssets)
     /\ Covers(Adm!EditContract, Adm!AssignedMembers)
     /\ Covers(Adm!EditContract, Adm!Rounds) /\ Covers(Adm!EditContract, Adm!History)
  BY KeysStart DEF Adm!EditContract
<1>3. Covers(Adm!AddFile, Adm!Branches) /\ Covers(Adm!AddFile, Adm!BranchStaff)
     /\ Covers(Adm!AddFile, Adm!BranchPrograms) /\ Covers(Adm!AddFile, Adm!ProgramsSummary)
     /\ Covers(Adm!AddFile, Adm!BranchFacilities) /\ Covers(Adm!AddFile, Adm!Performance)
     /\ Covers(Adm!AddFile, Adm!BranchAssets) /\ Covers(Adm!AddFile, Adm!AssignedMembers)
     /\ Covers(Adm!AddFile, Adm!Rounds) /\ Covers(Adm!AddFile, Adm!History)
  BY KeysStart DEF Adm!AddFile
<1>4. Covers(Adm!ArchiveFile, Adm!Branches) /\ Covers(Adm!ArchiveFile, Adm!BranchStaff)
     /\ Covers(Adm!ArchiveFile, Adm!BranchPrograms)
     /\ Covers(Adm!ArchiveFile, Adm!ProgramsSummary)
     /\ Covers(Adm!ArchiveFile, Adm!BranchFacilities)
     /\ Covers(Adm!ArchiveFile, Adm!Performance)
     /\ Covers(Adm!ArchiveFile, Adm!BranchAssets)
     /\ Covers(Adm!ArchiveFile, Adm!AssignedMembers) /\ Covers(Adm!ArchiveFile, Adm!Rounds)
     /\ Covers(Adm!ArchiveFile, Adm!History)
  BY KeysStart DEF Adm!ArchiveFile
<1> HIDE DEF Adm!Branches, Adm!BranchStaff, Adm!BranchPrograms, Adm!ProgramsSummary,
             Adm!BranchFacilities, Adm!Performance, Adm!BranchAssets, Adm!AssignedMembers,
             Adm!Rounds, Adm!History, Covers
<1> QED BY <1>1, <1>2, <1>3, <1>4, OfInbox, Exempted
           DEF Adm!BranchDetailPage, Adm!Page, AllCovered

LEMMA ContractRetentionPageCovered == AllCovered(Adm!ContractRetentionPage)
<1> USE DEF Adm!Retention,
            Covers, Adm!Query, Adm!Form, Adm!Button, Adm!Write, Adm!Stale, Adm!Always
<1>1. Covers(Adm!PurgeFiles, Adm!Retention)
  BY KeysStart DEF Adm!PurgeFiles
<1> HIDE DEF Adm!Retention, Covers
<1> QED BY <1>1, OfInbox, Exempted
           DEF Adm!ContractRetentionPage, Adm!Page, AllCovered

LEMMA PermissionsPageCovered == AllCovered(Adm!PermissionsPage)
<1> USE DEF Adm!StaffRoles, Adm!RoleDefaults,
            Covers, Adm!Query, Adm!Form, Adm!Button, Adm!Write, Adm!Stale, Adm!Always
<1>1. Covers(Adm!SwitchRole, Adm!StaffRoles) /\ Covers(Adm!SwitchRole, Adm!RoleDefaults)
  BY KeysStart DEF Adm!SwitchRole
<1>2. Covers(Adm!SetRoleDefault, Adm!StaffRoles)
  BY KeysStart DEF Adm!SetRoleDefault
<1> HIDE DEF Adm!StaffRoles, Adm!RoleDefaults, Covers
<1> QED BY <1>1, <1>2, OfInbox, Exempted
           DEF Adm!PermissionsPage, Adm!Page, AllCovered

(* No page forgets a query that its own writes change, but for the pairs   *)
(* that are left stale.                                                    *)
LEMMA PagesCovered == \A p \in Adm!Pages : AllCovered(p)
<1>1. /\ AllCovered(Adm!HqAttendancePage) /\ AllCovered(Adm!BoardPage)
      /\ AllCovered(Adm!AuditLogsPage)
  BY DEF AllCovered, Adm!HqAttendancePage, Adm!BoardPage, Adm!AuditLogsPage, Adm!Page
<1> QED
  BY <1>1, MembersPageCovered, MemberDetailPageCovered, StaffPageCovered,
     StaffDetailPageCovered, AttendancePageCovered, ProgramsPageCovered,
     ReservationsPageCovered, InstructorsPageCovered, FacilitiesPageCovered,
     AssetsPageCovered, DocumentsPageCovered, PostDetailPageCovered,
     PostEditorPageCovered, SupportRequestsPageCovered, DashboardPageCovered,
     BranchDetailPageCovered, ContractRetentionPageCovered, PermissionsPageCovered
  DEF Adm!Pages

(* The writes that were sent are the page's own, no version is newer than  *)
(* the database, and unless one of the pairs left stale was sent, what is  *)
(* shown at rest, and what arrives next, has what the answered ones left.  *)
SentWrite ==
  [write: y2, live: BOOLEAN, step: {"sent", "committed", "answered", "failed"}, version: Nat]
AdminTypes ==
  /\ y4 \in Seq(SentWrite)
  /\ y5 \in Nat /\ y9 \in Nat /\ y6 \in Nat \cup {None}
  /\ y7 \in [step: {"sent", "read"}, version: Nat] \cup {None}
StaleNone == \A i \in DOMAIN y4 : <<y4[i].write, y1>> \notin Adm!Forgotten \cup Adm!Overtaken
UpToDate ==
  /\ Adm!Settled => y6 \in Nat /\ y6 >= y9
  /\ y7 # None /\ y7.step = "read" => y7.version >= y9
AdminKept ==
  /\ AdminTypes
  /\ \A w \in y2 : w.changes \cap y1.shows # {} /\ Covers(w, y1)
  /\ y9 <= y5 /\ \A i \in DOMAIN y4 : y4[i].version <= y5
  /\ StaleNone => UpToDate

LEMMA NoneIsNoFetch ==
  /\ None \notin Nat /\ None \notin [step: {"sent", "read"}, version: Nat]
  /\ Adm!Sent \in [step: {"sent", "read"}, version: Nat] /\ Adm!Sent.step = "sent"
BY ClientsAssumption DEF Adm!Sent

LEMMA LaterOf ==
  ASSUME NEW a \in Nat, NEW b \in Nat
  PROVE  Adm!Max({a, b}) \in {a, b} /\ Adm!Max({a, b}) >= a /\ Adm!Max({a, b}) >= b
<1>1. \E x \in {a, b} : \A y \in {a, b} : x >= y
  OBVIOUS
<1> DEFINE m == CHOOSE x \in {a, b} : \A y \in {a, b} : x >= y
<1>2. m \in {a, b} /\ \A y \in {a, b} : m >= y
  BY <1>1
<1>3. Adm!Max({a, b}) = m
  BY DEF Adm!Max
<1> HIDE DEF m
<1> QED BY <1>2, <1>3

LEMMA AdminInitially == ASSUME Adm!Init PROVE AdminKept
<1>1. y4 = <<>> /\ y5 = 0 /\ y6 = None /\ y7 = Adm!Sent /\ y9 = 0
  BY DEF Adm!Init
<1>2. AdminTypes BY <1>1, NoneIsNoFetch DEF AdminTypes
<1>3. UpToDate BY <1>1, NoneIsNoFetch DEF UpToDate, Adm!Settled
<1>4. \A w \in y2 : w.changes \cap y1.shows # {} /\ Covers(w, y1)
  <2>1. PICK p \in Adm!Pages :
          y1 \in p.queries /\ y2 = {w \in p.writes : w.changes \cap y1.shows # {}}
    BY DEF Adm!Init
  <2> QED BY <2>1, PagesCovered DEF AllCovered
<1> QED BY <1>1, <1>2, <1>3, <1>4 DEF AdminKept

(* The query: nothing is written, and what is shown or on its way is read  *)
(* from the database as it is.                                             *)
LEMMA RowsRead ==
  ASSUME AdminKept, UNCHANGED <<y1, y2, y4, y5, y9>>, y6' \in Nat \cup {None},
         y7' \in [step: {"sent", "read"}, version: Nat] \cup {None},
         UpToDate => UpToDate'
  PROVE  AdminKept'
<1>1. AdminTypes' BY DEF AdminKept, AdminTypes, SentWrite
<1>2. StaleNone' <=> StaleNone BY DEF StaleNone
<1> QED BY <1>1, <1>2 DEF AdminKept

(* The writes: those sent stay sent.                                       *)
LEMMA StaleStays ==
  ASSUME UNCHANGED y1, DOMAIN y4 \subseteq DOMAIN y4',
         \A i \in DOMAIN y4 : y4'[i].write = y4[i].write
  PROVE  StaleNone' => StaleNone
BY DEF StaleNone

LEMMA WritesMove ==
  ASSUME AdminKept, UNCHANGED <<y1, y2, y6, y7, y8, y9>>, y5' \in Nat, y5 <= y5',
         y4' \in Seq(SentWrite), DOMAIN y4 \subseteq DOMAIN y4',
         \A i \in DOMAIN y4 : y4'[i].write = y4[i].write,
         \A i \in DOMAIN y4' : y4'[i].version <= y5'
  PROVE  AdminKept'
<1>1. AdminTypes' BY DEF AdminKept, AdminTypes, SentWrite
<1>2. StaleNone' => StaleNone BY StaleStays
<1>3. UpToDate' <=> UpToDate BY DEF UpToDate, Adm!Settled
<1>4. y9' <= y5' BY DEF AdminKept, AdminTypes
<1> QED BY <1>1, <1>2, <1>3, <1>4 DEF AdminKept

LEMMA EndedWrites ==
  ASSUME y4 \in Seq(SentWrite), NEW i \in DOMAIN y4,
         NEW how \in {"answered", "failed"}, y4' = Adm!Ended(i, how)
  PROVE  /\ y4' \in Seq(SentWrite) /\ DOMAIN y4' = DOMAIN y4
         /\ \A j \in DOMAIN y4 : /\ y4'[j].write = y4[j].write
                                 /\ y4'[j].version = IF j = i THEN 0 ELSE y4[j].version
<1> DEFINE e == [y4[i] EXCEPT !.step = how, !.live = FALSE, !.version = 0]
<1>1. y4[i] \in SentWrite OBVIOUS
<1>2. e \in SentWrite /\ e.write = y4[i].write /\ e.version = 0
  BY <1>1 DEF SentWrite
<1>3. y4' = [y4 EXCEPT ![i] = e] BY DEF Adm!Ended
<1> HIDE DEF e
<1>4. y4' \in Seq(SentWrite) /\ DOMAIN y4' = DOMAIN y4 BY <1>2, <1>3
<1> QED BY <1>2, <1>3, <1>4

(* What the writes of the page make stale is read again.                   *)
LEMMA AnswerShown == ASSUME AdminKept, NEW i \in DOMAIN y4, Adm!Answer(i) PROVE AdminKept'
<1> DEFINE w == y4[i].write
<1>1. /\ UNCHANGED <<y1, y2, y5, y8>> /\ y4' = Adm!Ended(i, "answered")
      /\ y9' = IF Adm!First THEN y9 ELSE Adm!Max({y9, y4[i].version})
      /\ y6' \in {y6, y4[i].version}
      /\ y6 = None => y6' = y6
      /\ y7' = Adm!Invalidated(w)
  BY DEF Adm!Answer
<1>2. /\ y4 \in Seq(SentWrite) /\ y4[i] \in SentWrite /\ y9 \in Nat /\ y5 \in Nat
      /\ y4[i].version <= y5 /\ y9 <= y5
  BY DEF AdminKept, AdminTypes
<1>3. y4[i].version \in Nat /\ w \in y2 BY <1>2 DEF SentWrite
<1>4. y9' \in Nat /\ y9' <= y5' BY <1>1, <1>2, <1>3, LaterOf
<1>5. /\ y4' \in Seq(SentWrite) /\ DOMAIN y4' = DOMAIN y4
      /\ \A j \in DOMAIN y4 : /\ y4'[j].write = y4[j].write
                              /\ y4'[j].version = IF j = i THEN 0 ELSE y4[j].version
  BY <1>1, <1>2, EndedWrites
<1>6. \A j \in DOMAIN y4' : y4'[j].version <= y5'
  BY <1>1, <1>2, <1>5 DEF AdminKept
<1>7. AdminTypes'
  <2>1. y7' \in {y7, Adm!Sent} BY <1>1 DEF Adm!Invalidated
  <2> QED
    BY <1>1, <1>3, <1>4, <1>5, <2>1, NoneIsNoFetch DEF AdminKept, AdminTypes, SentWrite
<1>8. ASSUME StaleNone' PROVE UpToDate'
  <2>1. StaleNone BY <1>1, <1>5, <1>8, StaleStays
  <2>2. <<w, y1>> \notin Adm!Forgotten \cup Adm!Overtaken BY <2>1 DEF StaleNone
  <2>3. \E key \in Adm!Stale(w) : Adm!Matches(key)
    BY <1>3, <2>2 DEF AdminKept, Covers, Adm!Matches
  <2>4. CASE Adm!First
    <3>1. UNCHANGED <<y6, y7, y8, y9>> BY <1>1, <2>4 DEF Adm!First, Adm!Invalidated
    <3>2. UpToDate BY <2>1 DEF AdminKept
    <3> QED BY <3>1, <3>2 DEF UpToDate, Adm!Settled
  <2>5. CASE ~Adm!First
    <3>1. y7' = Adm!Sent BY <1>1, <2>3, <2>5 DEF Adm!Invalidated
    <3> QED BY <3>1, NoneIsNoFetch DEF UpToDate, Adm!Settled
  <2> QED BY <2>4, <2>5
<1> QED BY <1>1, <1>4, <1>6, <1>7, <1>8 DEF AdminKept

LEMMA AdminNext == ASSUME AdminKept, [Adm!Next]_(Adm!vars) PROVE AdminKept'
<1>1. AdminTypes /\ y4 \in Seq(SentWrite) /\ y5 \in Nat /\ y9 \in Nat /\ y9 <= y5
      /\ \A i \in DOMAIN y4 : y4[i] \in SentWrite /\ y4[i].version <= y5
  BY DEF AdminKept, AdminTypes
<1>2. CASE Adm!Focus
  BY <1>1, <1>2, RowsRead, NoneIsNoFetch DEF Adm!Focus, AdminTypes, UpToDate, Adm!Settled
<1>3. CASE Adm!Turn
  BY <1>1, <1>3, RowsRead, NoneIsNoFetch DEF Adm!Turn, UpToDate, Adm!Settled
<1>4. CASE Adm!Read
  <2>1. y7' = [step |-> "read", version |-> y5] /\ UNCHANGED <<y1, y2, y4, y5, y6, y8, y9>>
    BY <1>4 DEF Adm!Read
  <2>2. y7' \in [step: {"sent", "read"}, version: Nat] /\ y7'.version = y5
    BY <1>1, <2>1
  <2>3. UpToDate' BY <1>1, <2>1, <2>2, NoneIsNoFetch DEF UpToDate, Adm!Settled
  <2> QED BY <1>1, <2>1, <2>2, <2>3, RowsRead DEF AdminTypes
<1>5. CASE Adm!Arrive
  <2>1. y7 \in [step: {"sent", "read"}, version: Nat] /\ y7.version \in Nat
    BY <1>1, <1>5 DEF Adm!Arrive, AdminTypes
  <2>2. UpToDate => UpToDate'
    BY <1>5, <2>1 DEF Adm!Arrive, UpToDate, Adm!Settled
  <2> QED BY <1>5, <2>1, <2>2, RowsRead DEF Adm!Arrive
<1>6. CASE Adm!FetchFails
  BY <1>1, <1>6, RowsRead, NoneIsNoFetch DEF Adm!FetchFails, AdminTypes, UpToDate, Adm!Settled
<1>7. ASSUME UNCHANGED <<y1, y2, y4, y5, y6, y7, y8, y9>> PROVE AdminKept'
  BY <1>1, <1>7, WritesMove DEF SentWrite
<1>8. ASSUME NEW w \in y2, Adm!Open(w) PROVE AdminKept'
  BY <1>7, <1>8 DEF Adm!Open, Adm!unread
<1>9. ASSUME NEW w \in y2, Adm!Submit(w) PROVE AdminKept'
  <2> DEFINE e == [write |-> w, live |-> TRUE, step |-> "sent", version |-> 0]
  <2>1. y4' = Append(y4, e) /\ UNCHANGED <<y1, y2, y5, y6, y7, y8, y9>>
    BY <1>9 DEF Adm!Submit, Adm!unread
  <2>2. e \in SentWrite /\ e.version = 0 BY DEF SentWrite
  <2> HIDE DEF e
  <2>3. /\ y4' \in Seq(SentWrite) /\ DOMAIN y4 \subseteq DOMAIN y4'
        /\ \A i \in DOMAIN y4 : y4'[i] = y4[i]
        /\ \A i \in DOMAIN y4' : i \in DOMAIN y4 \/ y4'[i] = e
    BY <1>1, <2>1, <2>2
  <2>4. \A i \in DOMAIN y4' : y4'[i].version <= y5'
    BY <1>1, <2>1, <2>2, <2>3
  <2> QED BY <1>1, <2>1, <2>3, <2>4, WritesMove
<1>10. CASE Adm!Close
  <2>1. y4' = [i \in DOMAIN y4 |-> [y4[i] EXCEPT !.live = FALSE]]
        /\ UNCHANGED <<y1, y2, y5, y6, y7, y8, y9>>
    BY <1>10 DEF Adm!Close, Adm!unread
  <2>2. \A i \in DOMAIN y4 : y4'[i] \in SentWrite /\ y4'[i].write = y4[i].write
                             /\ y4'[i].version = y4[i].version
    BY <1>1, <2>1 DEF SentWrite
  <2>3. y4' \in Seq(SentWrite) /\ DOMAIN y4' = DOMAIN y4
    BY <1>1, <2>1, <2>2
  <2> QED BY <1>1, <2>1, <2>2, <2>3, WritesMove
<1>11. ASSUME NEW i \in DOMAIN y4, Adm!Commit(i) PROVE AdminKept'
  <2> DEFINE e == [y4[i] EXCEPT !.step = "committed", !.version = y5 + 1]
  <2>1. y5' = y5 + 1 /\ UNCHANGED <<y1, y2, y6, y7, y8, y9>>
    BY <1>11 DEF Adm!Commit
  <2>2. y4' = [y4 EXCEPT ![i] = e] BY <1>11 DEF Adm!Commit
  <2>3. y5 + 1 \in Nat BY <1>1
  <2>4. e \in SentWrite /\ e.write = y4[i].write /\ e.version = y5 + 1
    BY <1>1, <2>3 DEF SentWrite
  <2> HIDE DEF e
  <2>5. y4' \in Seq(SentWrite) /\ DOMAIN y4' = DOMAIN y4
        /\ \A j \in DOMAIN y4 : y4'[j] = IF j = i THEN e ELSE y4[j]
    BY <1>1, <2>2, <2>4
  <2>6. \A j \in DOMAIN y4 : y4'[j].write = y4[j].write /\ y4'[j].version <= y5 + 1
    <3>1. \A j \in DOMAIN y4 : y4[j].version \in Nat BY <1>1 DEF SentWrite
    <3>2. \A n \in Nat : n <= y5 => n <= y5 + 1 BY <1>1
    <3>3. y5 + 1 <= y5 + 1 BY <2>3
    <3> QED BY <1>1, <2>4, <2>5, <3>1, <3>2, <3>3
  <2>7. y5 <= y5' BY <1>1, <2>1
  <2> QED BY <1>1, <2>1, <2>3, <2>5, <2>6, <2>7, WritesMove
<1>12. ASSUME NEW i \in DOMAIN y4, Adm!WriteFails(i) PROVE AdminKept'
  <2>1. y4' = Adm!Ended(i, "failed") /\ UNCHANGED <<y1, y2, y5, y6, y7, y8, y9>>
    BY <1>12 DEF Adm!WriteFails, Adm!unread
  <2>2. /\ y4' \in Seq(SentWrite) /\ DOMAIN y4' = DOMAIN y4
        /\ \A j \in DOMAIN y4 : /\ y4'[j].write = y4[j].write
                                /\ y4'[j].version = IF j = i THEN 0 ELSE y4[j].version
    BY <1>1, <2>1, EndedWrites
  <2>3. \A j \in DOMAIN y4' : y4'[j].version <= y5'
    BY <1>1, <2>1, <2>2
  <2> QED BY <1>1, <2>1, <2>2, <2>3, WritesMove
<1>13. CASE UNCHANGED Adm!vars BY <1>7, <1>13 DEF Adm!vars
<1> QED BY <1>2, <1>3, <1>4, <1>5, <1>6, <1>8, <1>9, <1>10, <1>11, <1>12, <1>13, AnswerShown
        DEF Adm!Next

(* On every page, for every query, unless a write that is known to leave   *)
(* the query stale was sent: the rows at rest have what the answered       *)
(* writes of the page changed, those answered during the first fetch of    *)
(* the key excepted.                                                       *)
THEOREM RowsAfterWrites == ClientsSpec => []ShownAfterWrite
<1> DEFINE I == desk = "admin" => AdminKept
<1>1. ClientsInit => I BY AdminInitially DEF ClientsInit
<1>2. I /\ [ClientsNext]_clientVars => I' BY DeskSteps, AdminNext
<1>3. I => ShownAfterWrite
  BY DEF AdminKept, StaleNone, UpToDate, ShownAfterWrite, Adm!ShownAfterWrite
<1> HIDE DEF I
<1> QED BY <1>1, <1>2, <1>3, PTL DEF ClientsSpec

-----------------------------------------------------------------------------
(* The guards: RequestsProofs at the desk's variables.  Its definitions    *)
(* are those of Guards, read a second time.                                *)
Gp == INSTANCE RequestsProofs WITH
        route <- y1, account <- y2, row <- y3, request <- y4, known <- y5, moves <- y6,
        Branches <- Sites

LEMMA SameRoutes == Guards!Signatures = Gp!Signatures
<1> USE DEF Guards!HQ, Gp!HQ, Guards!Manager, Gp!Manager, Guards!Office, Gp!Office,
            Guards!Employees, Gp!Employees, Guards!Anyone, Gp!Anyone, Guards!Ceiling,
            Gp!Ceiling, Guards!PERMISSION_CATALOG, Gp!PERMISSION_CATALOG, Guards!Exempt,
            Gp!Exempt, Guards!Can, Gp!Can, Guards!Governed, Gp!Governed, Guards!OwnerOf,
            Gp!OwnerOf, Guards!Ref, Gp!Ref, Guards!Owner, Gp!Owner, Guards!Named, Gp!Named,
            Guards!Within, Gp!Within, Guards!Own, Gp!Own, Guards!Nothing, Gp!Nothing,
            Guards!Route, Gp!Route, Guards!List, Gp!List
<1>1. Guards!MembersController = Gp!MembersController
  BY DEF Guards!MembersController, Gp!MembersController
<1>2. Guards!StaffController = Gp!StaffController
  BY DEF Guards!StaffController, Gp!StaffController
<1>3. Guards!StaffChangeRequestsController = Gp!StaffChangeRequestsController
  BY DEF Guards!StaffChangeRequestsController, Gp!StaffChangeRequestsController
<1>4. Guards!AttendanceController = Gp!AttendanceController
  BY DEF Guards!AttendanceController, Gp!AttendanceController
<1>5. Guards!ReservationsController = Gp!ReservationsController
  BY DEF Guards!ReservationsController, Gp!ReservationsController
<1>6. Guards!PaymentsController = Gp!PaymentsController
  BY DEF Guards!PaymentsController, Gp!PaymentsController
<1>7. Guards!ProgramsController = Gp!ProgramsController
  BY DEF Guards!ProgramsController, Gp!ProgramsController
<1>8. Guards!PostsController = Gp!PostsController
  BY DEF Guards!PostsController, Gp!PostsController
<1>9. Guards!FacilitiesController = Gp!FacilitiesController
  BY DEF Guards!FacilitiesController, Gp!FacilitiesController
<1>10. Guards!InstructorsController = Gp!InstructorsController
  BY DEF Guards!InstructorsController, Gp!InstructorsController
<1>11. Guards!AssetsController = Gp!AssetsController
  BY DEF Guards!AssetsController, Gp!AssetsController
<1>12. Guards!BranchesController = Gp!BranchesController
  BY DEF Guards!BranchesController, Gp!BranchesController
<1>13. Guards!DocumentsController = Gp!DocumentsController
  BY DEF Guards!DocumentsController, Gp!DocumentsController
<1>14. Guards!SupportRequestsController = Gp!SupportRequestsController
  BY DEF Guards!SupportRequestsController, Gp!SupportRequestsController
<1>15. Guards!InboxController = Gp!InboxController
  BY DEF Guards!InboxController, Gp!InboxController
<1>16. Guards!PermissionsController = Gp!PermissionsController
  BY DEF Guards!PermissionsController, Gp!PermissionsController
<1>17. Guards!AuditLogsController = Gp!AuditLogsController
  BY DEF Guards!AuditLogsController, Gp!AuditLogsController
<1>18. Guards!AuthController = Gp!AuthController
  BY DEF Guards!AuthController, Gp!AuthController
<1> QED
  BY <1>1, <1>2, <1>3, <1>4, <1>5, <1>6, <1>7, <1>8, <1>9, <1>10, <1>11, <1>12, <1>13,
     <1>14, <1>15, <1>16, <1>17, <1>18
  DEF Guards!Signatures, Gp!Signatures

LEMMA SameStart == Guards!Init <=> Gp!Init
<1>1. Guards!Account = Gp!Account /\ Guards!Row = Gp!Row
  BY DEF Guards!HQ, Gp!HQ, Guards!Manager, Gp!Manager, Guards!Office, Gp!Office,
         Guards!Employees, Gp!Employees, Guards!Anyone, Gp!Anyone, Guards!Account, Gp!Account,
         Guards!Row, Gp!Row
<1>2. Guards!Possible(y2, y3) <=> Gp!Possible(y2, y3)
  BY DEF Guards!HQ, Gp!HQ, Guards!Manager, Gp!Manager, Guards!Office, Gp!Office,
         Guards!Employees, Gp!Employees, Guards!Employed, Gp!Employed, Guards!Possible,
         Gp!Possible
<1> QED BY <1>1, <1>2, SameRoutes DEF Guards!Init, Gp!Init

LEMMA SameSteps == Guards!Next <=> Gp!Next
BY DEF Guards!HQ, Gp!HQ, Guards!Manager, Gp!Manager, Guards!Office, Gp!Office,
       Guards!Employees, Gp!Employees, Guards!Anyone, Gp!Anyone, Guards!Employed, Gp!Employed,
       Guards!Become, Gp!Become, Guards!Moving, Gp!Moving, Guards!Transfer, Gp!Transfer,
       Guards!MoveRow, Gp!MoveRow, Guards!SwitchRole, Gp!SwitchRole, Guards!Deactivate,
       Gp!Deactivate, Guards!SetPersonal, Gp!SetPersonal, Guards!ChangePassword,
       Gp!ChangePassword, Guards!Remove, Gp!Remove, Guards!Pass, Gp!Pass, Guards!Decide,
       Gp!Decide, Guards!judge, Gp!judge, Guards!visibleWhere, Gp!visibleWhere,
       Guards!JwtAuthGuard, Gp!JwtAuthGuard, Guards!RolesGuard, Gp!RolesGuard,
       Guards!enforceBranchParam, Gp!enforceBranchParam, Guards!buildRequestUser,
       Gp!buildRequestUser, Guards!Unread, Gp!Unread, Guards!ReadAccount, Gp!ReadAccount,
       Guards!ReadProfile, Gp!ReadProfile, Guards!ReadExceptions, Gp!ReadExceptions,
       Guards!ReadOwner, Gp!ReadOwner, Guards!allows, Gp!allows, Guards!ReadPermission,
       Gp!ReadPermission, Guards!InHandler, Gp!InHandler, Guards!Handle, Gp!Handle,
       Guards!Send, Gp!Send, Guards!Next, Gp!Next

LEMMA SameDecision == Guards!DecidedAsKnown <=> Gp!DecidedAsKnown
BY DEF Guards!DecidedAsKnown, Gp!DecidedAsKnown, Guards!Admits, Gp!Admits, Guards!Belongs,
       Gp!Belongs, Guards!Personal, Gp!Personal, Guards!Shared, Gp!Shared,
       Guards!buildRequestUser, Gp!buildRequestUser

(* Beside the other clients, too: every request is handled, or refused,    *)
(* for an account and a row each part of which was so while it was under   *)
(* way.                                                                    *)
THEOREM DecidedAtTheDesk == ClientsSpec => []DecidedAsKnown
<1> DEFINE I == desk = "requests" => Gp!DecisionInv
<1>1. Gp!NoneApart BY ClientsAssumption DEF Gp!NoneApart
<1>2. ClientsInit => I BY <1>1, SameStart, Gp!InitOK DEF ClientsInit
<1>3. I /\ [ClientsNext]_clientVars => I'
  <2> SUFFICES ASSUME desk = "requests", Gp!DecisionInv, [ClientsNext]_clientVars
               PROVE  Gp!DecisionInv'
    BY DeskSteps
  <2>1. [Gp!Next]_(Gp!vars)
    BY DeskSteps, SameSteps DEF Guards!vars, Gp!vars
  <2> QED BY <1>1, <2>1, Gp!StepOK
<1>4. I => DecidedAsKnown BY SameDecision DEF Gp!DecisionInv, DecidedAsKnown
<1> HIDE DEF I
<1> QED BY <1>2, <1>3, <1>4, PTL DEF ClientsSpec
=============================================================================
