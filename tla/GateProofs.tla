------------------------------ MODULE GateProofs ------------------------------
(***************************************************************************)
(* Proofs about the desks of Office behind the gate of a branch: assets,   *)
(* facilities, support requests, documents, courses and posts.             *)
(***************************************************************************)
EXTENDS Office, TLAPS

-----------------------------------------------------------------------------
(* The gate: what holds of the locks on the branch at each of these desks. *)
Gt == INSTANCE BranchGate WITH contract <- x1

GateTxn == {Gt!Idle} \cup [step: {"contract"}, lock: {"update"}, to: Gt!GateStatus]

(* Who holds the share lock was let in, and stays the only kind of holder  *)
(* until it goes: an update lock excludes every other.                     *)
Gated ==
  /\ x1 \in Gt!GateStatus
  /\ DOMAIN txn = Handlers
  /\ \A h \in Handlers : txn[h].step = "contract" => txn[h] \in GateTxn
  /\ \A h \in Handlers : txn[h].lock = "share" => x1 # "TERMINATED"
  /\ \A g, h \in Handlers : txn[h].lock = "update" /\ g # h => txn[g].lock = "none"

LEMMA GatedInit == Gt!GateInit => Gated
BY DEF Gt!GateInit, Gated, Gt!Idle, Gt!GateStatus

(* What a handler does under the lock it holds, or while it releases it.   *)
LEMMA GatedHandler ==
  ASSUME Gated, x1' = x1, NEW h \in Handlers, NEW t, txn' = [txn EXCEPT ![h] = t],
         t.step # "contract", t.lock \in {"none", txn[h].lock}
  PROVE  Gated' /\ \A g \in Handlers : txn'[g] = IF g = h THEN t ELSE txn[g]
BY DEF Gated

(* A request is let in.                                                    *)
LEMMA GatedLetIn ==
  ASSUME Gated, x1' = x1, NEW h \in Handlers, NEW t, txn' = [txn EXCEPT ![h] = t],
         t.step # "contract", t.lock = "share", Gt!Shareable, x1 # "TERMINATED"
  PROVE  Gated' /\ \A g \in Handlers : txn'[g] = IF g = h THEN t ELSE txn[g]
<1>1. \A g \in Handlers : txn'[g] = IF g = h THEN t ELSE txn[g]
  BY DEF Gated
<1> QED BY <1>1 DEF Gated, Gt!Shareable

(* The contract's own steps, and a handler that gives up.                  *)
LEMMA GatedGate ==
  ASSUME Gated, NEW h \in Handlers, Gt!Gate(h)
  PROVE  Gated' /\ \E t \in GateTxn : /\ txn' = [txn EXCEPT ![h] = t]
                                      /\ \A g \in Handlers : txn'[g] = IF g = h THEN t ELSE txn[g]
<1>0. Gt!Idle \in GateTxn /\ Gt!Idle.step = "idle" /\ Gt!Idle.lock = "none"
  BY DEF GateTxn, Gt!Idle
<1>1. ASSUME NEW to \in {"ACTIVE", "TERMINATED"}, Gt!ContractLock(h, to)
      PROVE  Gated' /\ \E t \in GateTxn : /\ txn' = [txn EXCEPT ![h] = t]
                                          /\ \A g \in Handlers : txn'[g] = IF g = h THEN t ELSE txn[g]
  <2> DEFINE t == [step |-> "contract", lock |-> "update", to |-> to]
  <2>1. t \in GateTxn /\ t.lock = "update"
    BY DEF GateTxn, Gt!GateStatus
  <2>2. txn' = [txn EXCEPT ![h] = t] /\ x1' = x1 /\ \A g \in Handlers : txn[g].lock = "none"
    BY <1>1 DEF Gt!ContractLock, Gt!Begin
  <2> HIDE DEF t
  <2>3. \A g \in Handlers : txn'[g] = IF g = h THEN t ELSE txn[g]
    BY <2>2 DEF Gated
  <2>4. Gated'
    BY <2>1, <2>2, <2>3 DEF Gated
  <2> QED BY <2>1, <2>2, <2>3, <2>4
<1>2. CASE Gt!ContractCommit(h)
  <2>1. /\ txn' = [txn EXCEPT ![h] = Gt!Idle] /\ txn[h].lock = "update"
        /\ x1' \in Gt!GateStatus
    BY <1>2 DEF Gt!ContractCommit, Gt!End, Gated, GateTxn, Gt!Idle
  <2>2. \A g \in Handlers : txn'[g] = IF g = h THEN Gt!Idle ELSE txn[g]
    BY <2>1 DEF Gated
  <2>3. Gated'
    BY <1>0, <2>1, <2>2 DEF Gated
  <2> QED BY <1>0, <2>1, <2>2, <2>3
<1>3. CASE Gt!Abort(h)
  BY <1>0, <1>3, GatedHandler DEF Gt!Abort, Gt!End
<1> QED BY <1>1, <1>2, <1>3 DEF Gt!Gate

-----------------------------------------------------------------------------
(* Assets                                                                  *)

AssetTxn ==
  GateTxn \cup [step: {"allocate"}, lock: {"share"}]
          \cup [step: {"insert"}, lock: {"share"}, code: Nat]
          \cup [step: {"status"}, lock: {"none"}, id: AssetIds, saw: Ast!Status,
                to: Ast!Status]

AssetTypes ==
  /\ txn \in [Handlers -> AssetTxn]
  /\ x2 \in [AssetIds -> Ast!Row] /\ x3 \in Nat
  /\ x4 \in [AssetIds -> Seq(Ast!Status \X Ast!Status)]

(* One registration at a time has drawn a code, the next one.              *)
CodeDrawn ==
  \A h \in Handlers : txn[h].step = "insert" =>
    /\ txn[h].code = x3 + 1
    /\ \A g \in Handlers : txn[g].step = "insert" => g = h

(* The codes of the rows are 1, 2, ... up to the last, each of one row.    *)
CodesGiven ==
  /\ \A i \in AssetIds : x2[i].code <= x3
  /\ \A n \in 1..x3 : \E i \in AssetIds : x2[i].code = n
  /\ \A i, j \in AssetIds : x2[i].code = x2[j].code /\ x2[i].code # 0 => i = j

(* A change of status is a step of the life cycle of an asset that exists. *)
StatusAsked ==
  \A h \in Handlers : txn[h].step = "status" =>
    /\ x2[txn[h].id].code # 0
    /\ txn[h].to \in Ast!NextStatus[txn[h].saw]

(* Where an asset is after the first n entries of s, and whether s tells   *)
(* how it came to where it is.                                             *)
At(s, n) == IF n = 0 THEN "NORMAL" ELSE s[n][2]
Tells(s, status) ==
  /\ \A n \in 1..Len(s) :
       s[n][1] = At(s, n - 1) /\ s[n][2] \in Ast!NextStatus[At(s, n - 1)]
  /\ status = At(s, Len(s))
TrailsTell ==
  \A i \in AssetIds :
    Tells(x4[i], x2[i].status) /\ (x2[i].code = 0 => x4[i] = <<>>)

AssetInv == Gated /\ AssetTypes /\ CodeDrawn /\ CodesGiven /\ StatusAsked /\ TrailsTell

(* At the desk of assets only its handlers work.                           *)
LEMMA AssetDesk ==
  ASSUME [OfficeNext]_vars, desk = "assets"
  PROVE  desk' = "assets" /\ [Ast!Next]_(Ast!vars)
BY DEF OfficeNext, vars, Ast!vars, Ast!rows, From3, From5

LEMMA AssetGate ==
  ASSUME NEW h \in Handlers
  PROVE  /\ Ast!Gate(h) => Gt!Gate(h)
         /\ \A t : Ast!LetIn(h, t) => Gt!LetIn(h, t)
         /\ Ast!Idle = Gt!Idle
BY DEF Ast!Gate, Gt!Gate, Ast!ContractLock, Gt!ContractLock, Ast!ContractCommit,
       Gt!ContractCommit, Ast!Abort, Gt!Abort, Ast!LetIn, Gt!LetIn, Ast!Begin, Gt!Begin,
       Ast!End, Gt!End, Ast!Idle, Gt!Idle, Ast!Shareable, Gt!Shareable

LEMMA AssetInit == Ast!Init => AssetInv
<1> SUFFICES ASSUME Ast!Init PROVE AssetInv
  OBVIOUS
<1>1. Gated
  BY GatedInit DEF Ast!Init, Ast!GateInit, Gt!GateInit, Ast!Idle, Gt!Idle
<1>2. txn \in [Handlers -> AssetTxn] /\ \A h \in Handlers : txn[h].step = "idle"
  BY DEF Ast!Init, Ast!GateInit, AssetTxn, GateTxn, Ast!Idle, Gt!Idle
<1>3. x2 \in [AssetIds -> Ast!Row] /\ \A i \in AssetIds : x2[i] = Ast!NoRow
  BY DEF Ast!Init, Ast!NoRow, Ast!Row, Ast!Status, Ast!NextStatus
<1>4. x3 = 0 /\ x4 = [i \in AssetIds |-> <<>>]
  BY DEF Ast!Init
<1>5. AssetTypes
  BY <1>2, <1>3, <1>4 DEF AssetTypes
<1>6. TrailsTell
  BY <1>3, <1>4 DEF TrailsTell, Tells, At, Ast!NoRow
<1>7. CodesGiven
  BY <1>3, <1>4 DEF CodesGiven, Ast!NoRow
<1> QED BY <1>1, <1>2, <1>5, <1>6, <1>7 DEF AssetInv, CodeDrawn, StatusAsked

(* A trail goes on where it ended.                                         *)
LEMMA TellsOn ==
  ASSUME NEW s \in Seq(Ast!Status \X Ast!Status), NEW a, Tells(s, a),
         NEW b \in Ast!NextStatus[a]
  PROVE  Tells(Append(s, <<a, b>>), b)
<1> DEFINE z == Append(s, <<a, b>>)
           m == Len(s)
<1>1. /\ m \in Nat /\ Len(z) = m + 1 /\ z[m + 1] = <<a, b>>
      /\ \A n \in 1..m : z[n] = s[n]
  OBVIOUS
<1>2. a = At(s, m) /\ \A n \in 1..m :
        s[n][1] = At(s, n - 1) /\ s[n][2] \in Ast!NextStatus[At(s, n - 1)]
  BY DEF Tells
<1> HIDE DEF z, m
<1>3. \A n \in 0..m : At(z, n) = At(s, n)
  BY <1>1 DEF At
<1>4. At(z, m + 1) = b
  BY <1>1 DEF At
<1>5. ASSUME NEW n \in 1..(m + 1)
      PROVE  z[n][1] = At(z, n - 1) /\ z[n][2] \in Ast!NextStatus[At(z, n - 1)]
  <2>1. CASE n = m + 1
    <3>1. n - 1 = m /\ z[n] = <<a, b>>
      BY <1>1, <2>1
    <3>2. At(z, n - 1) = a
      BY <1>1, <1>2, <1>3, <3>1
    <3> QED BY <3>1, <3>2
  <2>2. CASE n \in 1..m
    <3>1. n - 1 \in 0..m /\ z[n] = s[n]
      BY <1>1, <2>2
    <3>2. At(z, n - 1) = At(s, n - 1)
      BY <1>3, <3>1
    <3> QED BY <1>2, <2>2, <3>1, <3>2
  <2> QED BY <1>1, <2>1, <2>2
<1>6. Tells(z, b)
  BY <1>1, <1>4, <1>5 DEF Tells
<1> QED BY <1>6 DEF z

(* A step of one handler that leaves the rows alone.                       *)
LEMMA AssetQuiet ==
  ASSUME AssetInv, Gated', UNCHANGED <<x2, x3, x4>>,
         NEW h \in Handlers, NEW t \in AssetTxn, txn' = [txn EXCEPT ![h] = t],
         t.step = "insert" => /\ t.code = x3 + 1
                              /\ \A g \in Handlers : txn[g].step # "insert",
         t.step = "status" => /\ x2[t.id].code # 0
                              /\ t.to \in Ast!NextStatus[t.saw]
  PROVE  AssetInv'
<1>1. \A g \in Handlers : txn'[g] = IF g = h THEN t ELSE txn[g]
  BY DEF AssetInv, AssetTypes
<1>2. AssetTypes' /\ CodeDrawn'
  BY <1>1 DEF AssetInv, AssetTypes, CodeDrawn
<1>3. CodesGiven' /\ TrailsTell'
  BY DEF AssetInv, CodesGiven, TrailsTell
<1>4. StatusAsked'
  BY <1>1 DEF AssetInv, StatusAsked
<1> QED BY <1>2, <1>3, <1>4 DEF AssetInv

LEMMA AssetStep == AssetInv /\ [Ast!Next]_(Ast!vars) => AssetInv'
<1> SUFFICES ASSUME AssetInv, [Ast!Next]_(Ast!vars) PROVE AssetInv'
  OBVIOUS
<1>0. /\ Gt!Idle \in AssetTxn /\ Gt!Idle.step = "idle" /\ Gt!Idle.lock = "none"
      /\ Ast!Idle = Gt!Idle
  BY DEF AssetTxn, GateTxn, Gt!Idle, Ast!Idle
<1>1. ASSUME NEW h \in Handlers, Ast!Gate(h), UNCHANGED Ast!rows
      PROVE  AssetInv'
  <2>1. PICK t \in GateTxn : Gated' /\ txn' = [txn EXCEPT ![h] = t]
    BY <1>1, AssetGate, GatedGate DEF AssetInv
  <2>2. t \in AssetTxn /\ t.step \notin {"insert", "status"}
    BY DEF AssetTxn, GateTxn, Gt!Idle
  <2>3. UNCHANGED <<x2, x3, x4>>
    BY <1>1 DEF Ast!rows
  <2> QED BY <2>1, <2>2, <2>3, AssetQuiet
<1>2. ASSUME NEW h \in Handlers, Ast!Create(h)
      PROVE  AssetInv'
  <2> DEFINE t == [step |-> "allocate", lock |-> "share"]
  <2>1. t \in AssetTxn /\ t.step = "allocate" /\ t.lock = "share"
    BY DEF AssetTxn
  <2>2. /\ txn' = [txn EXCEPT ![h] = t] /\ UNCHANGED <<x1, x2, x3, x4>>
        /\ Gt!Shareable /\ x1 # "TERMINATED"
    BY <1>2, AssetGate DEF Ast!Create, Gt!LetIn, Gt!Begin, Ast!rows
  <2> HIDE DEF t
  <2>3. Gated'
    BY <2>1, <2>2, GatedLetIn DEF AssetInv
  <2> QED BY <2>1, <2>2, <2>3, AssetQuiet
<1>3. ASSUME NEW h \in Handlers, Ast!Allocate(h)
      PROVE  AssetInv'
  <2> DEFINE t == [step |-> "insert", lock |-> "share", code |-> x3 + 1]
  <2>1. /\ t \in AssetTxn /\ t.step = "insert" /\ t.code = x3 + 1
        /\ t.lock = txn[h].lock
    BY <1>3 DEF AssetTxn, Ast!Allocate, AssetInv, AssetTypes, GateTxn, Gt!Idle
  <2>2. /\ txn' = [txn EXCEPT ![h] = t] /\ UNCHANGED <<x1, x2, x3, x4>>
        /\ \A g \in Handlers : txn[g].step # "insert"
    BY <1>3 DEF Ast!Allocate, Ast!SequenceFree, Ast!rows
  <2> HIDE DEF t
  <2>3. Gated'
    BY <2>1, <2>2, GatedHandler DEF AssetInv
  <2> QED BY <2>1, <2>2, <2>3, AssetQuiet
<1>4. ASSUME NEW h \in Handlers, NEW i \in AssetIds, Ast!Insert(h, i)
      PROVE  AssetInv'
  <2>1. /\ txn' = [txn EXCEPT ![h] = Gt!Idle] /\ x1' = x1 /\ x4' = x4
        /\ txn[h].code = x3 + 1 /\ x3' = x3 + 1 /\ x2[i].code = 0
        /\ x2' = [x2 EXCEPT ![i] = [code |-> x3 + 1, status |-> "NORMAL"]]
    BY <1>0, <1>4 DEF Ast!Insert, Ast!End, AssetInv, CodeDrawn, Ast!Rows
  <2>2. /\ Gated'
        /\ \A g \in Handlers : txn'[g] = IF g = h THEN Gt!Idle ELSE txn[g]
    BY <1>0, <2>1, GatedHandler DEF AssetInv
  <2>3. \A j \in AssetIds :
          x2'[j] = IF j = i THEN [code |-> x3 + 1, status |-> "NORMAL"] ELSE x2[j]
    BY <2>1 DEF AssetInv, AssetTypes
  <2>4. AssetTypes'
    <3>1. [code |-> x3 + 1, status |-> "NORMAL"] \in Ast!Row
      BY DEF AssetInv, AssetTypes, Ast!Row, Ast!Status, Ast!NextStatus
    <3> QED BY <1>0, <2>1, <3>1 DEF AssetInv, AssetTypes
  <2>5. CodeDrawn'
    BY <1>0, <1>4, <2>2 DEF AssetInv, CodeDrawn, Ast!Insert
  <2>6. CodesGiven'
    <3>1. x3 \in Nat /\ \A j \in AssetIds : x2[j].code \in Nat /\ x2[j].code <= x3
      BY DEF AssetInv, AssetTypes, CodesGiven, Ast!Row
    <3>2. \A n \in 1..x3' : \E j \in AssetIds : x2'[j].code = n
      <4> SUFFICES ASSUME NEW n \in 1..x3' PROVE \E j \in AssetIds : x2'[j].code = n
        OBVIOUS
      <4>1. CASE n = x3 + 1
        BY <2>3, <4>1
      <4>2. CASE n \in 1..x3
        <5>1. PICK j \in AssetIds : x2[j].code = n
          BY <4>2 DEF AssetInv, CodesGiven
        <5> QED BY <2>1, <2>3, <4>2, <5>1
      <4> QED BY <2>1, <3>1, <4>1, <4>2
    <3>3. \A j \in AssetIds : x2'[j].code <= x3'
      BY <2>1, <2>3, <3>1
    <3>4. \A j, k \in AssetIds : x2'[j].code = x2'[k].code /\ x2'[j].code # 0 => j = k
      BY <2>3, <3>1 DEF AssetInv, CodesGiven
    <3> QED BY <3>2, <3>3, <3>4 DEF CodesGiven
  <2>7. StatusAsked'
    BY <1>0, <2>1, <2>2, <2>3 DEF AssetInv, StatusAsked
  <2>8. TrailsTell'
    <3>1. x4[i] = <<>> /\ x2[i].status = "NORMAL"
      BY <2>1 DEF AssetInv, TrailsTell, Tells, At
    <3>2. \A j \in AssetIds : x2'[j].status = x2[j].status
      BY <2>3, <3>1
    <3>3. \A j \in AssetIds : x2'[j].code = 0 => x2[j].code = 0
      BY <2>1, <2>3
    <3> QED BY <2>1, <3>2, <3>3 DEF AssetInv, TrailsTell
  <2> QED BY <2>2, <2>4, <2>5, <2>6, <2>7, <2>8 DEF AssetInv
<1>5. ASSUME NEW h \in Handlers, NEW i \in AssetIds, NEW to \in Ast!Status,
             Ast!UpdateStatus(h, i, to)
      PROVE  AssetInv'
  <2> DEFINE t == [step |-> "status", lock |-> "none", id |-> i, saw |-> x2[i].status,
                   to |-> to]
  <2>1. /\ t \in AssetTxn /\ t.step = "status" /\ t.lock = "none" /\ t.id = i
        /\ t.saw = x2[i].status /\ t.to = to
    BY DEF AssetTxn, AssetInv, AssetTypes, Ast!Row
  <2>2. /\ txn' = [txn EXCEPT ![h] = t] /\ UNCHANGED <<x1, x2, x3, x4>>
        /\ x2[i].code # 0 /\ to \in Ast!NextStatus[x2[i].status]
    BY <1>5 DEF Ast!UpdateStatus, Ast!Begin, Ast!rows, Ast!Rows
  <2> HIDE DEF t
  <2>3. Gated'
    BY <2>1, <2>2, GatedHandler DEF AssetInv
  <2> QED BY <2>1, <2>2, <2>3, AssetQuiet
<1>6. ASSUME NEW h \in Handlers, Ast!StatusCommit(h)
      PROVE  AssetInv'
  <2>1. txn' = [txn EXCEPT ![h] = Gt!Idle] /\ x1' = x1 /\ x3' = x3
    BY <1>0, <1>6 DEF Ast!StatusCommit, Ast!End
  <2>2. /\ Gated'
        /\ \A g \in Handlers : txn'[g] = IF g = h THEN Gt!Idle ELSE txn[g]
    BY <1>0, <2>1, GatedHandler DEF AssetInv
  <2>3. CASE UNCHANGED <<x2, x4>>
    BY <1>0, <2>1, <2>2, <2>3, AssetQuiet
  <2>4. CASE ~UNCHANGED <<x2, x4>>
    <3> DEFINE i == txn[h].id
               to == txn[h].to
               saw == txn[h].saw
    <3>1. /\ i \in AssetIds /\ saw \in Ast!Status /\ to \in Ast!Status
          /\ to \in Ast!NextStatus[saw] /\ x2[i].code # 0
      BY <1>6 DEF Ast!StatusCommit, AssetInv, AssetTypes, AssetTxn, GateTxn, Gt!Idle, StatusAsked
    <3>2. /\ x2[i].status = saw
          /\ x2' = [x2 EXCEPT ![i].status = to]
          /\ x4' = [x4 EXCEPT ![i] = Append(x4[i], <<saw, to>>)]
      BY <1>6, <2>4 DEF Ast!StatusCommit, Ast!Still
    <3> HIDE DEF i, to, saw
    <3>3. /\ x4[i] \in Seq(Ast!Status \X Ast!Status)
          /\ x4'[i] = Append(x4[i], <<saw, to>>)
          /\ \A j \in AssetIds \ {i} : x4'[j] = x4[j]
      BY <3>1, <3>2 DEF AssetInv, AssetTypes
    <3>4. \A j \in AssetIds : /\ x2'[j].code = x2[j].code
                               /\ x2'[j].status = IF j = i THEN to ELSE x2[j].status
      BY <3>1, <3>2 DEF AssetInv, AssetTypes, Ast!Row
    <3>5. AssetTypes'
      <4>1. x2' \in [AssetIds -> Ast!Row]
        BY <3>1, <3>2 DEF AssetInv, AssetTypes, Ast!Row
      <4>2. Append(x4[i], <<saw, to>>) \in Seq(Ast!Status \X Ast!Status)
        BY <3>1, <3>3
      <4>3. x4' \in [AssetIds -> Seq(Ast!Status \X Ast!Status)]
        BY <3>2, <4>2 DEF AssetInv, AssetTypes
      <4> QED BY <1>0, <2>1, <4>1, <4>3 DEF AssetInv, AssetTypes
    <3>6. CodeDrawn'
      BY <1>0, <2>1, <2>2 DEF AssetInv, CodeDrawn
    <3>7. CodesGiven'
      <4>1. \A j \in AssetIds : x2'[j].code = x2[j].code
        BY <3>4
      <4> QED BY <2>1, <4>1 DEF AssetInv, CodesGiven
    <3>8. StatusAsked'
      <4>1. \A g \in Handlers : txn[g].step = "status" => txn[g].id \in AssetIds
        BY DEF AssetInv, AssetTypes, AssetTxn, GateTxn, Gt!Idle
      <4>2. \A j \in AssetIds : x2'[j].code = x2[j].code
        BY <3>4
      <4> QED BY <1>0, <2>2, <4>1, <4>2 DEF AssetInv, StatusAsked
    <3>9. Tells(x4'[i], x2'[i].status)
      <4>1. Tells(x4[i], saw)
        BY <3>1, <3>2 DEF AssetInv, TrailsTell
      <4>2. x2'[i].status = to
        BY <3>1, <3>4
      <4> QED BY <3>1, <3>3, <4>1, <4>2, TellsOn
    <3>10. \A j \in AssetIds \ {i} : x4'[j] = x4[j] /\ x2'[j].status = x2[j].status
      BY <3>3, <3>4
    <3>11. TrailsTell'
      <4>1. \A j \in AssetIds : x2'[j].code = x2[j].code
        BY <3>4
      <4> QED BY <3>1, <3>9, <3>10, <4>1 DEF AssetInv, TrailsTell
    <3> QED BY <2>2, <3>5, <3>6, <3>7, <3>8, <3>11 DEF AssetInv
  <2> QED BY <2>3, <2>4
<1>7. CASE UNCHANGED Ast!vars
  BY <1>7
  DEF Ast!vars, Ast!rows, AssetInv, Gated, AssetTypes, CodeDrawn, CodesGiven, StatusAsked,
      TrailsTell
<1> QED BY <1>1, <1>2, <1>3, <1>4, <1>5, <1>6, <1>7 DEF Ast!Next

(* It holds whenever the desk of assets is at work.                        *)
AssetsAt == desk = "assets" => AssetInv
LEMMA AssetsInvariant == OfficeSpec => []AssetsAt
<1>1. OfficeInit => AssetsAt
  BY AssetInit DEF OfficeInit, AssetsAt
<1>2. AssetsAt /\ [OfficeNext]_vars => AssetsAt'
  <2> SUFFICES ASSUME AssetsAt, [OfficeNext]_vars, desk' = "assets" PROVE AssetInv'
    BY DEF AssetsAt
  <2>1. desk = "assets"
    BY DEF OfficeNext, vars
  <2> QED BY <2>1, AssetDesk, AssetStep DEF AssetsAt
<1> QED BY <1>1, <1>2, PTL DEF OfficeSpec

(* Asset codes are given one after the other, once each and none skipped,  *)
(* however many registrations run at once and whichever of them fail after *)
(* they have drawn a code.                                                 *)
THEOREM AssetCodesInOrder == OfficeSpec => []CodesInOrder
<1>1. AssetsAt => CodesInOrder
  <2> SUFFICES ASSUME AssetInv PROVE Ast!CodesInOrder
    BY DEF AssetsAt, CodesInOrder
  <2>1. x3 \in Nat /\ \A i \in AssetIds : x2[i].code \in Nat
    BY DEF AssetInv, AssetTypes, Ast!Row
  <2>2. {x2[i].code : i \in Ast!Rows} = 1..x3
    BY <2>1 DEF AssetInv, CodesGiven, Ast!Rows
  <2>3. \A i, j \in Ast!Rows : x2[i].code = x2[j].code => i = j
    BY DEF AssetInv, CodesGiven, Ast!Rows
  <2> QED BY <2>2, <2>3 DEF Ast!CodesInOrder
<1> QED BY <1>1, AssetsInvariant, PTL

(* The audit entries of every asset tell how it came to its status.        *)
LEMMA TrailsToldHere == AssetInv => Ast!TrailTells
<1> SUFFICES ASSUME AssetInv, NEW i \in Ast!Rows
             PROVE  Tells(x4[i], x2[i].status)
  BY DEF Ast!TrailTells, Tells, At
<1> QED BY DEF AssetInv, TrailsTell, Ast!Rows

LEMMA AssetsTyped == AssetInv => Ast!TypeOK
<1> SUFFICES ASSUME AssetInv PROVE Ast!TypeOK
  OBVIOUS
<1>1. x1 \in Ast!GateStatus
  BY DEF AssetInv, Gated, Gt!GateStatus, Ast!GateStatus
<1>2. \A h \in Handlers : txn[h] \in AssetTxn
  BY DEF AssetInv, AssetTypes
<1> QED
  BY <1>1, <1>2
  DEF AssetInv, AssetTypes, Ast!TypeOK, Ast!GateTypeOK, AssetTxn, GateTxn, Gt!GateStatus,
      Ast!GateStatus, Gt!Idle, Ast!Idle

(* Only who was let in adds a row.                                         *)
LEMMA AssetsNothingNew == AssetInv /\ [Ast!Next]_(Ast!vars) => Ast!NothingNew
<1> SUFFICES ASSUME AssetInv, [Ast!Next]_(Ast!vars), Ast!Rows' # Ast!Rows
             PROVE  x1 # "TERMINATED"
  BY DEF Ast!NothingNew
<1>1. x2' # x2
  BY DEF Ast!Rows
<1>2. ASSUME NEW h \in Handlers, NEW i \in AssetIds, Ast!Insert(h, i)
      PROVE  x1 # "TERMINATED"
  BY <1>2 DEF Ast!Insert, AssetInv, Gated, AssetTypes, AssetTxn, GateTxn, Gt!Idle
<1>3. ASSUME NEW h \in Handlers, Ast!StatusCommit(h)
      PROVE  FALSE
  <2>1. x2' = [x2 EXCEPT ![txn[h].id].status = txn[h].to]
    BY <1>1, <1>3 DEF Ast!StatusCommit
  <2>2. \A i \in AssetIds : x2'[i].code = x2[i].code
    BY <2>1 DEF AssetInv, AssetTypes, Ast!Row
  <2> QED BY <2>2 DEF Ast!Rows
<1> QED
  BY <1>1, <1>2, <1>3
  DEF Ast!Next, Ast!vars, Ast!rows, Ast!Create, Ast!Allocate, Ast!UpdateStatus

-----------------------------------------------------------------------------
(* Facilities                                                              *)

FacilityTxn ==
  GateTxn \cup [step: {"create"}, lock: {"share"}, capacity: RoomSizes]
          \cup [step: {"update"}, lock: {"none"}, capacity: RoomSizes, count: Counts \cup {0}]
          \cup [step: {"count"}, lock: {"none"}, count: Counts, capacity: RoomSizes]
          \cup [step: {"count_write"}, lock: {"share"}, count: Counts, capacity: RoomSizes]

(* A facility has room for somebody, and whoever has read it found it.     *)
FacilityInv ==
  /\ Gated
  /\ txn \in [Handlers -> FacilityTxn]
  /\ x2 \in Fac!Row
  /\ x2.capacity = 0 => x2 = Fac!NoRow
  /\ \A h \in Handlers :
       /\ txn[h].step \in {"create", "update"} => txn[h].capacity # 0
       /\ txn[h].step \in {"update", "count", "count_write"} => x2 # Fac!NoRow

(* At the desk of facilities only its handlers work.                       *)
LEMMA FacilityDesk ==
  ASSUME [OfficeNext]_vars, desk = "facilities"
  PROVE  desk' = "facilities" /\ [Fac!Next]_(Fac!vars)
BY DEF OfficeNext, vars, Fac!vars, From3

LEMMA FacilityGate ==
  ASSUME NEW h \in Handlers
  PROVE  /\ Fac!Gate(h) => Gt!Gate(h)
         /\ \A t : Fac!LetIn(h, t) => Gt!LetIn(h, t)
         /\ Fac!Idle = Gt!Idle /\ Fac!Shareable = Gt!Shareable
BY DEF Fac!Gate, Gt!Gate, Fac!ContractLock, Gt!ContractLock, Fac!ContractCommit,
       Gt!ContractCommit, Fac!Abort, Gt!Abort, Fac!LetIn, Gt!LetIn, Fac!Begin, Gt!Begin,
       Fac!End, Gt!End, Fac!Idle, Gt!Idle, Fac!Shareable, Gt!Shareable

LEMMA SizesAreNat == RoomSizes \subseteq Nat /\ Counts \subseteq Nat
BY OfficeAssumption

LEMMA FacilityInit == Fac!Init => FacilityInv
<1> SUFFICES ASSUME Fac!Init PROVE FacilityInv
  OBVIOUS
<1>1. Gated
  BY GatedInit DEF Fac!Init, Fac!GateInit, Gt!GateInit, Fac!Idle, Gt!Idle
<1>2. txn \in [Handlers -> FacilityTxn] /\ \A h \in Handlers : txn[h].step = "idle"
  BY DEF Fac!Init, Fac!GateInit, FacilityTxn, GateTxn, Fac!Idle, Gt!Idle
<1>3. x2 = Fac!NoRow /\ x2 \in Fac!Row
  BY DEF Fac!Init, Fac!NoRow, Fac!Row
<1> QED BY <1>1, <1>2, <1>3 DEF FacilityInv

(* Crowding has five levels.                                               *)
LEMMA LevelIsLevel ==
  ASSUME NEW count \in Nat, NEW capacity \in Nat
  PROVE  Fac!Level(count, capacity) \in 1..5
<1> DEFINE step == {n \in 1..4 : count * 100 <= 20 * n * capacity}
<1>1. step \subseteq 1..4
  OBVIOUS
<1> HIDE DEF step
<1>2. ASSUME step # {} PROVE \E n \in step : \A k \in step : n <= k
  <2>1. \A k \in step : k = 1 \/ k = 2 \/ k = 3 \/ k = 4
    BY <1>1
  <2>2. CASE 1 \in step
    BY <2>1, <2>2
  <2>3. CASE 1 \notin step /\ 2 \in step
    BY <2>1, <2>3
  <2>4. CASE 1 \notin step /\ 2 \notin step /\ 3 \in step
    BY <2>1, <2>4
  <2>5. CASE step = {4}
    BY <2>5
  <2> QED BY <1>2, <2>1, <2>2, <2>3, <2>4, <2>5
<1> DEFINE least == CHOOSE n \in step : \A k \in step : n <= k
<1>3. step # {} => least \in step
  BY <1>2
<1> HIDE DEF least
<1>4. step # {} => least \in 1..4
  BY <1>1, <1>3
<1>5. Fac!Level(count, capacity) = IF step = {} THEN 5 ELSE least
  BY DEF step, least, Fac!Level
<1>6. CASE step = {}
  BY <1>5, <1>6
<1>7. CASE step # {}
  BY <1>4, <1>5, <1>7
<1> QED BY <1>6, <1>7

(* A step of one handler that leaves the facility alone.                   *)
LEMMA FacilityQuiet ==
  ASSUME FacilityInv, Gated', UNCHANGED x2,
         NEW h \in Handlers, NEW t \in FacilityTxn, txn' = [txn EXCEPT ![h] = t],
         t.step \in {"create", "update"} => t.capacity # 0,
         t.step \in {"update", "count", "count_write"} => x2 # Fac!NoRow
  PROVE  FacilityInv'
<1>1. \A g \in Handlers : txn'[g] = IF g = h THEN t ELSE txn[g]
  BY DEF FacilityInv
<1> QED BY <1>1 DEF FacilityInv

(* A handler that writes the facility, which has room then.                *)
LEMMA FacilityWritten ==
  ASSUME FacilityInv, x1' = x1, x2' \in Fac!Row, x2'.capacity # 0,
         txn' = txn \/ \E h \in Handlers : txn' = [txn EXCEPT ![h] = Gt!Idle]
  PROVE  FacilityInv'
<1>0. Gt!Idle \in FacilityTxn /\ Gt!Idle.step = "idle" /\ Gt!Idle.lock = "none"
  BY DEF FacilityTxn, GateTxn, Gt!Idle
<1>1. x2' # Fac!NoRow
  BY DEF Fac!NoRow
<1>2. Gated'
  <2>1. CASE txn' = txn
    BY <2>1 DEF FacilityInv, Gated
  <2> QED BY <1>0, <2>1, GatedHandler DEF FacilityInv
<1> QED BY <1>0, <1>1, <1>2 DEF FacilityInv

LEMMA FacilityStep == FacilityInv /\ [Fac!Next]_(Fac!vars) => FacilityInv'
<1> SUFFICES ASSUME FacilityInv, [Fac!Next]_(Fac!vars) PROVE FacilityInv'
  OBVIOUS
<1>0. /\ Gt!Idle \in FacilityTxn /\ Gt!Idle.step = "idle" /\ Gt!Idle.lock = "none"
      /\ Fac!Idle = Gt!Idle
  BY DEF FacilityTxn, GateTxn, Gt!Idle, Fac!Idle
<1>1. ASSUME NEW h \in Handlers, Fac!Gate(h), UNCHANGED x2
      PROVE  FacilityInv'
  <2>1. PICK t \in GateTxn : Gated' /\ txn' = [txn EXCEPT ![h] = t]
    BY <1>1, FacilityGate, GatedGate DEF FacilityInv
  <2>2. t \in FacilityTxn /\ t.step \in {"idle", "contract"}
    BY DEF FacilityTxn, GateTxn, Gt!Idle
  <2> QED BY <1>1, <2>1, <2>2, FacilityQuiet
<1>2. ASSUME NEW h \in Handlers, NEW n \in RoomSizes, Fac!Create(h, n)
      PROVE  FacilityInv'
  <2> DEFINE t == [step |-> "create", lock |-> "share", capacity |-> n]
  <2>1. t \in FacilityTxn /\ t.step = "create" /\ t.lock = "share" /\ t.capacity # 0
    BY <1>2, SizesAreNat DEF FacilityTxn, Fac!Create
  <2>2. /\ txn' = [txn EXCEPT ![h] = t] /\ UNCHANGED <<x1, x2>>
        /\ Gt!Shareable /\ x1 # "TERMINATED"
    BY <1>2, FacilityGate DEF Fac!Create, Gt!LetIn, Gt!Begin
  <2> HIDE DEF t
  <2>3. Gated'
    BY <2>1, <2>2, GatedLetIn DEF FacilityInv
  <2> QED BY <2>1, <2>2, <2>3, FacilityQuiet
<1>3. ASSUME NEW h \in Handlers, Fac!CreateCommit(h)
      PROVE  FacilityInv'
  <2>1. txn[h].capacity \in RoomSizes \ {0}
    BY <1>3 DEF Fac!CreateCommit, FacilityInv, FacilityTxn, GateTxn, Gt!Idle
  <2>2. /\ txn' = [txn EXCEPT ![h] = Gt!Idle] /\ x1' = x1
        /\ x2' = [Fac!NoRow EXCEPT !.capacity = txn[h].capacity]
    BY <1>0, <1>3 DEF Fac!CreateCommit, Fac!End
  <2>3. x2' = [capacity |-> txn[h].capacity, count |-> 0, level |-> 1, active |-> TRUE]
    BY <2>2 DEF Fac!NoRow
  <2>4. x2' \in Fac!Row /\ x2'.capacity # 0
    BY <2>1, <2>3 DEF Fac!Row
  <2> QED BY <2>2, <2>4, FacilityWritten
<1>4. ASSUME NEW h \in Handlers, NEW n \in RoomSizes, Fac!Update(h, n)
      PROVE  FacilityInv'
  <2> DEFINE t == [step |-> "update", lock |-> "none", capacity |-> n, count |-> x2.count]
  <2>1. /\ t \in FacilityTxn /\ t.step = "update" /\ t.lock = "none" /\ t.capacity # 0
    BY <1>4, SizesAreNat DEF FacilityTxn, Fac!Update, FacilityInv, Fac!Row
  <2>2. txn' = [txn EXCEPT ![h] = t] /\ UNCHANGED <<x1, x2>> /\ x2 # Fac!NoRow
    BY <1>4 DEF Fac!Update, Fac!Begin
  <2> HIDE DEF t
  <2>3. Gated'
    BY <2>1, <2>2, GatedHandler DEF FacilityInv
  <2> QED BY <2>1, <2>2, <2>3, FacilityQuiet
<1>5. ASSUME NEW h \in Handlers, Fac!UpdateWrite(h)
      PROVE  FacilityInv'
  <2>1. txn[h].capacity \in RoomSizes \ {0} /\ txn[h].count \in Counts \cup {0}
    BY <1>5 DEF Fac!UpdateWrite, FacilityInv, FacilityTxn, GateTxn, Gt!Idle
  <2>2. Fac!Level(txn[h].count, txn[h].capacity) \in 1..5
    BY <2>1, SizesAreNat, LevelIsLevel
  <2>3. /\ txn' = [txn EXCEPT ![h] = Gt!Idle] /\ x1' = x1
        /\ x2' = [x2 EXCEPT !.capacity = txn[h].capacity,
                            !.level = Fac!Level(txn[h].count, txn[h].capacity)]
    BY <1>0, <1>5 DEF Fac!UpdateWrite, Fac!End
  <2>4. x2' \in Fac!Row /\ x2'.capacity # 0
    BY <2>1, <2>2, <2>3 DEF FacilityInv, Fac!Row
  <2> QED BY <2>3, <2>4, FacilityWritten
<1>6. CASE Fac!Toggle
  <2>1. x2' \in Fac!Row /\ x2'.capacity # 0 /\ x1' = x1 /\ txn' = txn
    BY <1>6 DEF Fac!Toggle, FacilityInv, Fac!Row
  <2> QED BY <2>1, FacilityWritten
<1>7. ASSUME NEW h \in Handlers, NEW n \in Counts, Fac!SetCount(h, n)
      PROVE  FacilityInv'
  <2> DEFINE t == [step |-> "count", lock |-> "none", count |-> n, capacity |-> x2.capacity]
  <2>1. x2.capacity \in RoomSizes
    BY <1>7 DEF Fac!SetCount, FacilityInv, Fac!Row
  <2>2. t \in FacilityTxn /\ t.step = "count" /\ t.lock = "none"
    BY <2>1 DEF FacilityTxn
  <2>3. txn' = [txn EXCEPT ![h] = t] /\ UNCHANGED <<x1, x2>> /\ x2 # Fac!NoRow
    BY <1>7 DEF Fac!SetCount, Fac!Begin
  <2> HIDE DEF t
  <2>4. Gated'
    BY <2>2, <2>3, GatedHandler DEF FacilityInv
  <2> QED BY <2>2, <2>3, <2>4, FacilityQuiet
<1>8. ASSUME NEW h \in Handlers, Fac!CountLetIn(h)
      PROVE  FacilityInv'
  <2>1. UNCHANGED <<x1, x2>> /\ txn[h].step = "count" /\ Gt!Shareable /\ x2 # Fac!NoRow
    BY <1>8, FacilityGate DEF Fac!CountLetIn, FacilityInv
  <2>2. CASE Fac!End(h)
    <3>1. txn' = [txn EXCEPT ![h] = Gt!Idle]
      BY <1>0, <2>2 DEF Fac!End
    <3>2. Gated'
      BY <1>0, <2>1, <3>1, GatedHandler DEF FacilityInv
    <3> QED BY <1>0, <2>1, <3>1, <3>2, FacilityQuiet
  <2>3. CASE x1 # "TERMINATED"
    <3> DEFINE t == [txn[h] EXCEPT !.step = "count_write", !.lock = "share"]
    <3>1. t \in FacilityTxn /\ t.step = "count_write" /\ t.lock = "share"
      <4>1. txn[h] \in [step: {"count"}, lock: {"none"}, count: Counts, capacity: RoomSizes]
        BY <2>1 DEF FacilityInv, FacilityTxn, GateTxn, Gt!Idle
      <4> QED BY <4>1 DEF FacilityTxn
    <3>2. txn' = [txn EXCEPT ![h] = t]
      BY <1>8, <2>3 DEF Fac!CountLetIn
    <3> HIDE DEF t
    <3>3. Gated'
      BY <2>1, <2>3, <3>1, <3>2, GatedLetIn DEF FacilityInv
    <3> QED BY <2>1, <3>1, <3>2, <3>3, FacilityQuiet
  <2> QED BY <1>8, <2>2, <2>3 DEF Fac!CountLetIn
<1>9. ASSUME NEW h \in Handlers, Fac!CountWrite(h)
      PROVE  FacilityInv'
  <2>1. txn[h].capacity \in RoomSizes /\ txn[h].count \in Counts /\ x2 # Fac!NoRow
    BY <1>9 DEF Fac!CountWrite, FacilityInv, FacilityTxn, GateTxn, Gt!Idle
  <2>2. Fac!Level(txn[h].count, txn[h].capacity) \in 1..5
    BY <2>1, SizesAreNat, LevelIsLevel
  <2>3. /\ txn' = [txn EXCEPT ![h] = Gt!Idle] /\ x1' = x1
        /\ x2' = [x2 EXCEPT !.count = txn[h].count,
                            !.level = Fac!Level(txn[h].count, txn[h].capacity)]
    BY <1>0, <1>9 DEF Fac!CountWrite, Fac!End
  <2>4. x2' \in Fac!Row /\ x2'.capacity # 0
    BY <2>1, <2>2, <2>3 DEF FacilityInv, Fac!Row
  <2> QED BY <2>3, <2>4, FacilityWritten
<1>10. CASE UNCHANGED Fac!vars
  BY <1>10 DEF Fac!vars, FacilityInv, Gated
<1> QED
  BY <1>1, <1>2, <1>3, <1>4, <1>5, <1>6, <1>7, <1>8, <1>9, <1>10 DEF Fac!Next

(* It holds whenever the desk of facilities is at work.                    *)
FacilitiesAt == desk = "facilities" => FacilityInv
LEMMA FacilitiesInvariant == OfficeSpec => []FacilitiesAt
<1>1. OfficeInit => FacilitiesAt
  BY FacilityInit DEF OfficeInit, FacilitiesAt
<1>2. FacilitiesAt /\ [OfficeNext]_vars => FacilitiesAt'
  <2> SUFFICES ASSUME FacilitiesAt, [OfficeNext]_vars, desk' = "facilities" PROVE FacilityInv'
    BY DEF FacilitiesAt
  <2>1. desk = "facilities"
    BY DEF OfficeNext, vars
  <2> QED BY <2>1, FacilityDesk, FacilityStep DEF FacilitiesAt
<1> QED BY <1>1, <1>2, PTL DEF OfficeSpec

LEMMA FacilitiesTyped == FacilityInv => Fac!TypeOK
<1> SUFFICES ASSUME FacilityInv PROVE Fac!TypeOK
  OBVIOUS
<1>1. x1 \in Fac!GateStatus
  BY DEF FacilityInv, Gated, Gt!GateStatus, Fac!GateStatus
<1>2. \A h \in Handlers : txn[h] \in FacilityTxn
  BY DEF FacilityInv
<1> QED
  BY <1>1, <1>2
  DEF FacilityInv, Fac!TypeOK, Fac!GateTypeOK, FacilityTxn, GateTxn, Gt!GateStatus,
      Fac!GateStatus, Gt!Idle, Fac!Idle

(* Only who was let in registers a facility or counts people there.        *)
LEMMA FacilitiesNothingNew == FacilityInv /\ [Fac!Next]_(Fac!vars) => Fac!NothingNew
<1> SUFFICES ASSUME FacilityInv, [Fac!Next]_(Fac!vars),
                    (x2 = Fac!NoRow /\ x2' # Fac!NoRow) \/ x2'.count # x2.count
             PROVE  x1 # "TERMINATED"
  BY DEF Fac!NothingNew
<1>1. x2' # x2
  OBVIOUS
<1>2. ASSUME NEW h \in Handlers, Fac!CreateCommit(h) \/ Fac!CountWrite(h)
      PROVE  x1 # "TERMINATED"
  BY <1>2
  DEF Fac!CreateCommit, Fac!CountWrite, FacilityInv, Gated, FacilityTxn, GateTxn, Gt!Idle
<1>3. ASSUME NEW h \in Handlers, Fac!UpdateWrite(h)
      PROVE  FALSE
  BY <1>3 DEF Fac!UpdateWrite, FacilityInv, Fac!Row
<1>4. CASE Fac!Toggle
  BY <1>4 DEF Fac!Toggle, FacilityInv, Fac!Row
<1> QED
  BY <1>1, <1>2, <1>3, <1>4
  DEF Fac!Next, Fac!vars, Fac!Create, Fac!Update, Fac!SetCount, Fac!CountLetIn

-----------------------------------------------------------------------------
(* Support requests                                                        *)

SupportTxn ==
  GateTxn \cup [step: {"create"}, lock: {"share"}, id: SupportIds]
          \cup [step: {"change"}, lock: {"none"}, id: SupportIds, who: Handling,
                saw: DOMAIN Sup!NextStatus, to: DOMAIN Sup!NextStatus, answered: BOOLEAN]

(* A request that is being sent is nobody else's yet; a change is a step   *)
(* of the life cycle, with an answer if it rejects.                        *)
SupportAsks ==
  \A h \in Handlers :
    LET t == txn[h]
    IN  /\ t.step = "create" =>
             /\ x2[t.id] = Sup!NoRow
             /\ \A g \in Handlers : txn[g].step = "create" /\ txn[g].id = t.id => g = h
        /\ t.step = "change" =>
             /\ t.to \in Sup!NextStatus[t.saw]
             /\ t.to = "REJECTED" => t.answered

(* Who rejected a request answered it.                                     *)
RejectedAnswered ==
  \A i \in SupportIds : x2[i].status = "REJECTED" => x2[i].response = x2[i].handler

SupportInv ==
  /\ Gated
  /\ txn \in [Handlers -> SupportTxn]
  /\ x2 \in [SupportIds -> Sup!Row]
  /\ SupportAsks /\ RejectedAnswered

(* At the desk of support requests only its handlers work.                 *)
LEMMA SupportDesk ==
  ASSUME [OfficeNext]_vars, desk = "support"
  PROVE  desk' = "support" /\ [Sup!Next]_(Sup!vars)
BY DEF OfficeNext, vars, Sup!vars, From3

LEMMA SupportGate ==
  ASSUME NEW h \in Handlers
  PROVE  /\ Sup!Gate(h) => Gt!Gate(h)
         /\ \A t : Sup!LetIn(h, t) => Gt!LetIn(h, t)
         /\ Sup!Idle = Gt!Idle
BY DEF Sup!Gate, Gt!Gate, Sup!ContractLock, Gt!ContractLock, Sup!ContractCommit,
       Gt!ContractCommit, Sup!Abort, Gt!Abort, Sup!LetIn, Gt!LetIn, Sup!Begin, Gt!Begin,
       Sup!End, Gt!End, Sup!Idle, Gt!Idle, Sup!Shareable, Gt!Shareable

(* The life cycle of a request: what is closed or not there has no next.   *)
LEMMA SupportCycle ==
  /\ DOMAIN Sup!NextStatus = {"REQUESTED", "IN_PROGRESS", "DONE", "REJECTED", "ABSENT"}
  /\ \A a \in {"DONE", "REJECTED", "ABSENT"} : Sup!NextStatus[a] = {}
<1>1. DOMAIN Sup!NextStatus = {"REQUESTED", "IN_PROGRESS", "DONE", "REJECTED", "ABSENT"}
  BY DEF Sup!NextStatus
<1>2. /\ Sup!NextStatus["DONE"] = {} /\ Sup!NextStatus["REJECTED"] = {}
      /\ Sup!NextStatus["ABSENT"] = {}
  BY DEF Sup!NextStatus
<1> QED BY <1>1, <1>2

LEMMA SupportInit == Sup!Init => SupportInv
<1> SUFFICES ASSUME Sup!Init PROVE SupportInv
  OBVIOUS
<1>1. Gated
  BY GatedInit DEF Sup!Init, Sup!GateInit, Gt!GateInit, Sup!Idle, Gt!Idle
<1>2. txn \in [Handlers -> SupportTxn] /\ \A h \in Handlers : txn[h].step = "idle"
  BY DEF Sup!Init, Sup!GateInit, SupportTxn, GateTxn, Sup!Idle, Gt!Idle
<1>3. /\ Sup!NoRow \in Sup!Row /\ Sup!NoRow.status = "ABSENT"
  BY SupportCycle DEF Sup!NoRow, Sup!Row
<1>4. x2 \in [SupportIds -> Sup!Row] /\ \A i \in SupportIds : x2[i].status = "ABSENT"
  BY <1>3 DEF Sup!Init
<1> QED BY <1>1, <1>2, <1>4 DEF SupportInv, SupportAsks, RejectedAnswered

(* A step of one handler that leaves the requests alone.                   *)
LEMMA SupportQuiet ==
  ASSUME SupportInv, Gated', UNCHANGED x2,
         NEW h \in Handlers, NEW t \in SupportTxn, txn' = [txn EXCEPT ![h] = t],
         t.step = "create" =>
           /\ x2[t.id] = Sup!NoRow
           /\ \A g \in Handlers : txn[g].step = "create" => txn[g].id # t.id,
         t.step = "change" =>
           t.to \in Sup!NextStatus[t.saw] /\ (t.to = "REJECTED" => t.answered)
  PROVE  SupportInv'
<1>1. \A g \in Handlers : txn'[g] = IF g = h THEN t ELSE txn[g]
  BY DEF SupportInv
<1>2. SupportAsks'
  BY <1>1 DEF SupportInv, SupportAsks
<1> QED BY <1>2 DEF SupportInv, RejectedAnswered

(* A request that is sent, or answered.                                    *)
LEMMA SupportWritten ==
  ASSUME SupportInv, x1' = x1, NEW h \in Handlers, txn' = [txn EXCEPT ![h] = Gt!Idle],
         NEW i \in SupportIds, NEW r \in Sup!Row, x2' = [x2 EXCEPT ![i] = r],
         \A g \in Handlers \ {h} : txn[g].step = "create" => txn[g].id # i,
         r.status = "REJECTED" => r.response = r.handler
  PROVE  SupportInv'
<1>0. Gt!Idle \in SupportTxn /\ Gt!Idle.step = "idle" /\ Gt!Idle.lock = "none"
  BY DEF SupportTxn, GateTxn, Gt!Idle
<1>1. Gated' /\ \A g \in Handlers : txn'[g] = IF g = h THEN Gt!Idle ELSE txn[g]
  BY <1>0, GatedHandler DEF SupportInv
<1>2. \A j \in SupportIds : x2'[j] = IF j = i THEN r ELSE x2[j]
  BY DEF SupportInv
<1>3. \A g \in Handlers : txn[g].step = "create" => txn[g].id \in SupportIds
  BY DEF SupportInv, SupportTxn, GateTxn, Gt!Idle
<1>4. SupportAsks'
  BY <1>0, <1>1, <1>2, <1>3 DEF SupportInv, SupportAsks
<1>5. RejectedAnswered'
  BY <1>2 DEF SupportInv, RejectedAnswered
<1> QED BY <1>0, <1>1, <1>4, <1>5 DEF SupportInv

(* What the answer of a handler makes of a request it still finds as read. *)
Answered(t) ==
  [status |-> t.to, handler |-> t.who,
   response |-> IF t.answered THEN t.who ELSE x2[t.id].response,
   resolved |-> t.to \in Sup!Closed]

LEMMA SupportAnswer ==
  ASSUME SupportInv, NEW h \in Handlers, Sup!ChangeCommit(h)
  PROVE  /\ txn[h].id \in SupportIds /\ txn' = [txn EXCEPT ![h] = Gt!Idle] /\ x1' = x1
         /\ \/ x2' = x2
            \/ /\ x2' = [x2 EXCEPT ![txn[h].id] = Answered(txn[h])]
               /\ Answered(txn[h]) \in Sup!Row
               /\ x2[txn[h].id].status \notin {"DONE", "REJECTED", "ABSENT"}
               /\ txn[h].to = "REJECTED" => txn[h].answered
<1>1. /\ txn[h].id \in SupportIds /\ txn[h].who \in Handling
      /\ txn[h].saw \in DOMAIN Sup!NextStatus /\ txn[h].to \in DOMAIN Sup!NextStatus
      /\ txn[h].answered \in BOOLEAN
      /\ txn[h].to \in Sup!NextStatus[txn[h].saw] /\ (txn[h].to = "REJECTED" => txn[h].answered)
  BY DEF Sup!ChangeCommit, SupportInv, SupportAsks, SupportTxn, GateTxn, Gt!Idle
<1>2. txn' = [txn EXCEPT ![h] = Gt!Idle] /\ x1' = x1
  BY DEF Sup!ChangeCommit, Sup!End, Sup!Idle, Gt!Idle
<1>3. x2' = IF x2[txn[h].id].status = txn[h].saw
            THEN [x2 EXCEPT ![txn[h].id] = Answered(txn[h])] ELSE x2
  BY DEF Sup!ChangeCommit, Sup!Still, Answered
<1>4. Answered(txn[h]) \in Sup!Row
  <2>1. x2[txn[h].id].response \in Handling \cup {None}
    BY <1>1 DEF SupportInv, Sup!Row
  <2> QED BY <1>1, <2>1 DEF Answered, Sup!Row
<1>5. txn[h].saw \notin {"DONE", "REJECTED", "ABSENT"}
  BY <1>1, SupportCycle
<1> QED BY <1>1, <1>2, <1>3, <1>4, <1>5

LEMMA SupportStep == SupportInv /\ [Sup!Next]_(Sup!vars) => SupportInv'
<1> SUFFICES ASSUME SupportInv, [Sup!Next]_(Sup!vars) PROVE SupportInv'
  OBVIOUS
<1>0. /\ Gt!Idle \in SupportTxn /\ Gt!Idle.step = "idle" /\ Gt!Idle.lock = "none"
      /\ Sup!Idle = Gt!Idle
  BY DEF SupportTxn, GateTxn, Gt!Idle, Sup!Idle
<1>1. ASSUME NEW h \in Handlers, Sup!Gate(h), UNCHANGED x2
      PROVE  SupportInv'
  <2>1. PICK t \in GateTxn : Gated' /\ txn' = [txn EXCEPT ![h] = t]
    BY <1>1, SupportGate, GatedGate DEF SupportInv
  <2>2. t \in SupportTxn /\ t.step \in {"idle", "contract"}
    BY DEF SupportTxn, GateTxn, Gt!Idle
  <2> QED BY <1>1, <2>1, <2>2, SupportQuiet
<1>2. ASSUME NEW h \in Handlers, NEW i \in SupportIds, Sup!Create(h, i)
      PROVE  SupportInv'
  <2> DEFINE t == [step |-> "create", lock |-> "share", id |-> i]
  <2>1. t \in SupportTxn /\ t.step = "create" /\ t.lock = "share" /\ t.id = i
    BY DEF SupportTxn
  <2>2. /\ txn' = [txn EXCEPT ![h] = t] /\ UNCHANGED <<x1, x2>>
        /\ Gt!Shareable /\ x1 # "TERMINATED"
    BY <1>2, SupportGate DEF Sup!Create, Gt!LetIn, Gt!Begin
  <2>3. x2[i] = Sup!NoRow /\ \A g \in Handlers : txn[g].step = "create" => txn[g].id # i
    BY <1>2 DEF Sup!Create
  <2> HIDE DEF t
  <2>4. Gated'
    BY <2>1, <2>2, GatedLetIn DEF SupportInv
  <2> QED BY <2>1, <2>2, <2>3, <2>4, SupportQuiet
<1>3. ASSUME NEW h \in Handlers, Sup!CreateCommit(h)
      PROVE  SupportInv'
  <2> DEFINE i == txn[h].id
             r == [x2[i] EXCEPT !.status = "REQUESTED"]
  <2>1. i \in SupportIds
    BY <1>3 DEF Sup!CreateCommit, SupportInv, SupportTxn, GateTxn, Gt!Idle
  <2>2. /\ txn' = [txn EXCEPT ![h] = Gt!Idle] /\ x1' = x1
        /\ x2' = [x2 EXCEPT ![i] = r]
    BY <1>0, <1>3 DEF Sup!CreateCommit, Sup!End
  <2>3. r \in Sup!Row /\ r.status = "REQUESTED"
    BY <2>1, SupportCycle DEF SupportInv, Sup!Row
  <2>4. \A g \in Handlers \ {h} : txn[g].step = "create" => txn[g].id # i
    BY <1>3 DEF Sup!CreateCommit, SupportInv, SupportAsks
  <2> HIDE DEF i, r
  <2> QED BY ZenonT(60), <2>1, <2>2, <2>3, <2>4, SupportWritten
<1>4. ASSUME NEW h \in Handlers, NEW i \in SupportIds, NEW to \in DOMAIN Sup!NextStatus,
             NEW who \in Handling, NEW answered \in BOOLEAN,
             Sup!ChangeStatus(h, i, to, who, answered)
      PROVE  SupportInv'
  <2> DEFINE t == [step |-> "change", lock |-> "none", id |-> i, who |-> who,
                   saw |-> x2[i].status, to |-> to, answered |-> answered]
  <2>1. x2[i].status \in DOMAIN Sup!NextStatus
    BY DEF SupportInv, Sup!Row
  <2>2. /\ t \in SupportTxn /\ t.step = "change" /\ t.lock = "none"
        /\ t.to = to /\ t.saw = x2[i].status /\ t.answered = answered
    BY <2>1 DEF SupportTxn
  <2>3. /\ txn' = [txn EXCEPT ![h] = t] /\ UNCHANGED <<x1, x2>>
        /\ to \in Sup!NextStatus[x2[i].status] /\ (to = "REJECTED" => answered)
    BY <1>4 DEF Sup!ChangeStatus, Sup!Begin
  <2> HIDE DEF t
  <2>4. Gated'
    BY <2>2, <2>3, GatedHandler DEF SupportInv
  <2> QED BY <2>2, <2>3, <2>4, SupportQuiet
<1>5. ASSUME NEW h \in Handlers, Sup!ChangeCommit(h)
      PROVE  SupportInv'
  <2> DEFINE i == txn[h].id
             r == Answered(txn[h])
  <2>1. /\ i \in SupportIds /\ txn' = [txn EXCEPT ![h] = Gt!Idle] /\ x1' = x1
        /\ \/ x2' = x2
           \/ /\ x2' = [x2 EXCEPT ![i] = r] /\ r \in Sup!Row
              /\ x2[i].status # "ABSENT" /\ (txn[h].to = "REJECTED" => txn[h].answered)
    BY <1>5, SupportAnswer
  <2>2. r.status = txn[h].to /\ r.handler = txn[h].who
        /\ (txn[h].answered => r.response = txn[h].who)
    BY DEF Answered
  <2> HIDE DEF r
  <2>3. CASE x2' = x2
    <3>1. Gated'
      BY <1>0, <2>1, GatedHandler DEF SupportInv
    <3> QED BY <1>0, <2>1, <2>3, <3>1, SupportQuiet
  <2>4. CASE x2' # x2
    <3>1. \A g \in Handlers : txn[g].step = "create" => txn[g].id # i
      BY <2>1, <2>4 DEF SupportInv, SupportAsks, Sup!NoRow
    <3>2. r.status = "REJECTED" => r.response = r.handler
      BY <2>1, <2>2, <2>4
    <3>3. x2' = [x2 EXCEPT ![i] = r] /\ r \in Sup!Row
      BY <2>1, <2>4
    <3> HIDE DEF i
    <3> QED BY <2>1, <3>1, <3>2, <3>3, SupportWritten
  <2> QED BY <2>3, <2>4
<1>6. CASE UNCHANGED Sup!vars
  BY <1>6 DEF Sup!vars, SupportInv, Gated, SupportAsks, RejectedAnswered
<1> QED BY <1>1, <1>2, <1>3, <1>4, <1>5, <1>6 DEF Sup!Next

(* It holds whenever the desk of support is at work.                       *)
SupportAt == desk = "support" => SupportInv
LEMMA SupportInvariant == OfficeSpec => []SupportAt
<1>1. OfficeInit => SupportAt
  BY SupportInit DEF OfficeInit, SupportAt
<1>2. SupportAt /\ [OfficeNext]_vars => SupportAt'
  <2> SUFFICES ASSUME SupportAt, [OfficeNext]_vars, desk' = "support" PROVE SupportInv'
    BY DEF SupportAt
  <2>1. desk = "support"
    BY DEF OfficeNext, vars
  <2> QED BY <2>1, SupportDesk, SupportStep DEF SupportAt
<1> QED BY <1>1, <1>2, PTL DEF OfficeSpec

LEMMA SupportTyped == SupportInv => Sup!TypeOK
<1> SUFFICES ASSUME SupportInv PROVE Sup!TypeOK
  OBVIOUS
<1>1. x1 \in Sup!GateStatus
  BY DEF SupportInv, Gated, Gt!GateStatus, Sup!GateStatus
<1>2. \A h \in Handlers : txn[h] \in SupportTxn
  BY DEF SupportInv
<1> QED
  BY <1>1, <1>2
  DEF SupportInv, Sup!TypeOK, Sup!GateTypeOK, SupportTxn, GateTxn, Gt!GateStatus,
      Sup!GateStatus, Gt!Idle, Sup!Idle

(* Which step writes a request, and what it finds.                         *)
LEMMA SupportWrites ==
  ASSUME SupportInv, [Sup!Next]_(Sup!vars), x2' # x2
  PROVE  \E h \in Handlers :
           \/ /\ Sup!CreateCommit(h) /\ txn[h].id \in SupportIds
              /\ txn[h].lock = "share" /\ x2[txn[h].id] = Sup!NoRow
           \/ Sup!ChangeCommit(h)
<1>1. ASSUME NEW h \in Handlers, Sup!CreateCommit(h)
      PROVE  /\ txn[h].id \in SupportIds /\ txn[h].lock = "share"
             /\ x2[txn[h].id] = Sup!NoRow
  BY <1>1 DEF Sup!CreateCommit, SupportInv, SupportAsks, SupportTxn, GateTxn, Gt!Idle
<1> QED BY <1>1 DEF Sup!Next, Sup!vars, Sup!Create, Sup!ChangeStatus

(* What is closed stays closed as it is, and a rejection has its answer.   *)
LEMMA SupportClosedStays == SupportInv /\ [Sup!Next]_(Sup!vars) => Sup!ClosedStays
<1> SUFFICES ASSUME SupportInv, [Sup!Next]_(Sup!vars), NEW i \in SupportIds
             PROVE  /\ x2[i].status \in {"DONE", "REJECTED"} => x2'[i] = x2[i]
                    /\ x2'[i].status = "REJECTED" => x2'[i].response = x2'[i].handler
  BY DEF Sup!ClosedStays, Sup!Closed
<1>1. x2'[i].status = "REJECTED" => x2'[i].response = x2'[i].handler
  BY SupportStep DEF SupportInv, RejectedAnswered
<1>2. ASSUME NEW h \in Handlers, x2[txn[h].id] = Sup!NoRow, txn[h].id \in SupportIds,
             Sup!CreateCommit(h)
      PROVE  x2[i].status \in {"DONE", "REJECTED"} => x2'[i] = x2[i]
  BY <1>2 DEF Sup!CreateCommit, Sup!NoRow, SupportInv
<1>3. ASSUME NEW h \in Handlers, Sup!ChangeCommit(h)
      PROVE  x2[i].status \in {"DONE", "REJECTED"} => x2'[i] = x2[i]
  BY <1>3, SupportAnswer DEF SupportInv
<1> QED BY <1>1, <1>2, <1>3, SupportWrites

(* Only who was let in sends a request.                                    *)
LEMMA SupportNothingNew == SupportInv /\ [Sup!Next]_(Sup!vars) => Sup!NothingNew
<1> SUFFICES ASSUME SupportInv, [Sup!Next]_(Sup!vars), NEW i \in SupportIds,
                    x2[i] = Sup!NoRow, x2'[i] # Sup!NoRow
             PROVE  x1 # "TERMINATED"
  BY DEF Sup!NothingNew
<1>1. ASSUME NEW h \in Handlers, Sup!ChangeCommit(h)
      PROVE  x2'[i] = x2[i]
  <2>1. x2[i].status = "ABSENT"
    BY DEF Sup!NoRow
  <2>2. txn[h].id # i \/ x2' = x2
    BY <1>1, <2>1, SupportAnswer
  <2>3. \/ x2' = x2
        \/ x2' = [x2 EXCEPT ![txn[h].id] = Answered(txn[h])]
    BY <1>1, SupportAnswer
  <2> QED BY <2>2, <2>3 DEF SupportInv
<1>2. PICK h \in Handlers : txn[h].lock = "share"
  BY <1>1, SupportWrites
<1> QED BY <1>2 DEF SupportInv, Gated

-----------------------------------------------------------------------------
(* Documents                                                               *)

DocTxn ==
  GateTxn \cup [step: {"create"}, lock: {"none", "share"}, doc: Docs, hr: BOOLEAN,
                base: 0..LastDay \cup {None}]
          \cup [step: {"resign"}, lock: {"none"}, day: 1..LastDay]

DocTypes ==
  /\ txn \in [Handlers -> DocTxn]
  /\ x2 \in 1..LastDay /\ x3 \in 0..LastDay
  /\ x4 \in [Docs -> Hrd!Row]

(* A day from which a record may count: not earlier than the day before    *)
(* the person left, or the day before today while they are at work.        *)
CountsFrom(base) ==
  /\ base # 0
  /\ IF x3 # 0 THEN base >= x3 - 1 ELSE base >= x2 - 1

(* One resignation at a time runs, of somebody at work; what a             *)
(* registration has read is a day to count from.                           *)
DocAsks ==
  \A h \in Handlers :
    LET t == txn[h]
    IN  /\ t.step = "resign" =>
             /\ x3 = 0 /\ t.day <= x2
             /\ \A g \in Handlers : txn[g].step = "resign" => g = h
        /\ t.step = "create" /\ t.base # None /\ t.hr => CountsFrom(t.base)

DocInv ==
  /\ Gated /\ DocTypes /\ DocAsks
  /\ Hrd!KeptFromLeaving

(* At the desk of documents only its handlers work.                        *)
LEMMA DocDesk ==
  ASSUME [OfficeNext]_vars, desk = "documents"
  PROVE  desk' = "documents" /\ [Hrd!Next]_(Hrd!vars)
BY DEF OfficeNext, vars, Hrd!vars, Hrd!rows, From3, From5

LEMMA DocGate ==
  ASSUME NEW h \in Handlers
  PROVE  /\ Hrd!Gate(h) => Gt!Gate(h)
         /\ \A t : Hrd!LetIn(h, t) => Gt!LetIn(h, t)
         /\ Hrd!Idle = Gt!Idle
BY DEF Hrd!Gate, Gt!Gate, Hrd!ContractLock, Gt!ContractLock, Hrd!ContractCommit,
       Gt!ContractCommit, Hrd!Abort, Gt!Abort, Hrd!LetIn, Gt!LetIn, Hrd!Begin, Gt!Begin,
       Hrd!End, Gt!End, Hrd!Idle, Gt!Idle, Hrd!Shareable, Gt!Shareable

LEMMA LastDayFacts == LastDay \in Nat \ {0} /\ None \notin Nat
BY OfficeAssumption

LEMMA DocInit == Hrd!Init => DocInv
<1> SUFFICES ASSUME Hrd!Init PROVE DocInv
  OBVIOUS
<1>1. Gated
  BY GatedInit DEF Hrd!Init, Hrd!GateInit, Gt!GateInit, Hrd!Idle, Gt!Idle
<1>2. txn \in [Handlers -> DocTxn] /\ \A h \in Handlers : txn[h].step = "idle"
  BY DEF Hrd!Init, Hrd!GateInit, DocTxn, GateTxn, Hrd!Idle, Gt!Idle
<1>3. Hrd!NoRow \in Hrd!Row /\ Hrd!NoRow.state = "ABSENT"
  BY LastDayFacts DEF Hrd!NoRow, Hrd!Row
<1>4. x2 = 1 /\ x3 = 0 /\ x4 = [d \in Docs |-> Hrd!NoRow]
  BY DEF Hrd!Init
<1>5. DocTypes
  BY <1>2, <1>3, <1>4, LastDayFacts DEF DocTypes
<1> QED BY <1>1, <1>2, <1>3, <1>4, <1>5 DEF DocInv, DocAsks, Hrd!KeptFromLeaving

(* A step of one handler that leaves the rows alone.                       *)
LEMMA DocQuiet ==
  ASSUME DocInv, Gated', UNCHANGED <<x2, x3, x4>>,
         NEW h \in Handlers, NEW t \in DocTxn, txn' = [txn EXCEPT ![h] = t],
         t.step = "resign" =>
           x3 = 0 /\ t.day <= x2 /\ \A g \in Handlers : txn[g].step # "resign",
         t.step = "create" /\ t.base # None /\ t.hr => CountsFrom(t.base)
  PROVE  DocInv'
<1>1. \A g \in Handlers : txn'[g] = IF g = h THEN t ELSE txn[g]
  BY DEF DocInv, DocTypes
<1>2. DocTypes'
  BY DEF DocInv, DocTypes
<1>3. DocAsks'
  <2>1. \A b : CountsFrom(b)' <=> CountsFrom(b)
    BY DEF CountsFrom
  <2> QED BY <1>1, <2>1 DEF DocInv, DocAsks, CountsFrom
<1> QED BY <1>2, <1>3 DEF DocInv, Hrd!KeptFromLeaving

LEMMA DocStep == DocInv /\ [Hrd!Next]_(Hrd!vars) => DocInv'
<1> SUFFICES ASSUME DocInv, [Hrd!Next]_(Hrd!vars) PROVE DocInv'
  OBVIOUS
<1>0. /\ Gt!Idle \in DocTxn /\ Gt!Idle.step = "idle" /\ Gt!Idle.lock = "none"
      /\ Hrd!Idle = Gt!Idle
  BY DEF DocTxn, GateTxn, Gt!Idle, Hrd!Idle
<1>1. ASSUME NEW h \in Handlers, Hrd!Gate(h), UNCHANGED Hrd!rows
      PROVE  DocInv'
  <2>1. PICK t \in GateTxn : Gated' /\ txn' = [txn EXCEPT ![h] = t]
    BY <1>1, DocGate, GatedGate DEF DocInv
  <2>2. t \in DocTxn /\ t.step \in {"idle", "contract"}
    BY DEF DocTxn, GateTxn, Gt!Idle
  <2>3. UNCHANGED <<x2, x3, x4>>
    BY <1>1 DEF Hrd!rows
  <2> QED BY <2>1, <2>2, <2>3, DocQuiet
<1>2. ASSUME NEW h \in Handlers, NEW d \in Docs, NEW hr \in BOOLEAN, NEW ofBranch \in BOOLEAN,
             Hrd!Create(h, d, hr, ofBranch)
      PROVE  DocInv'
  <2> DEFINE t == [step |-> "create", lock |-> IF ofBranch THEN "share" ELSE "none",
                   doc |-> d, hr |-> hr, base |-> None]
  <2>1. /\ t \in DocTxn /\ t.step = "create" /\ t.base = None
        /\ t.lock = IF ofBranch THEN "share" ELSE "none"
    BY DEF DocTxn
  <2>2. UNCHANGED <<x2, x3, x4>>
    BY <1>2 DEF Hrd!Create, Hrd!rows
  <2>3. /\ txn' = [txn EXCEPT ![h] = t] /\ x1' = x1
        /\ ofBranch => Gt!Shareable /\ x1 # "TERMINATED"
    <3>1. \/ ofBranch /\ Hrd!LetIn(h, t)
          \/ ~ofBranch /\ Hrd!Begin(h, t) /\ UNCHANGED x1
      BY <1>2 DEF Hrd!Create
    <3> QED BY <3>1, DocGate DEF Gt!LetIn, Gt!Begin, Hrd!Begin
  <2> HIDE DEF t
  <2>4. Gated'
    <3>1. CASE ofBranch
      BY <2>1, <2>3, <3>1, GatedLetIn DEF DocInv
    <3>2. CASE ~ofBranch
      BY <2>1, <2>3, <3>2, GatedHandler DEF DocInv
    <3> QED BY <3>1, <3>2
  <2> QED BY <2>1, <2>2, <2>3, <2>4, DocQuiet
<1>3. ASSUME NEW h \in Handlers, Hrd!CreateRead(h)
      PROVE  DocInv'
  <2> DEFINE b == Hrd!Base(txn[h].hr)
             t == [txn[h] EXCEPT !.base = b]
  <2>1. txn[h] \in [step: {"create"}, lock: {"none", "share"}, doc: Docs, hr: BOOLEAN,
                    base: 0..LastDay \cup {None}]
    BY <1>3 DEF Hrd!CreateRead, DocInv, DocTypes, DocTxn, GateTxn, Gt!Idle
  <2>2. b \in 0..LastDay /\ (txn[h].hr => CountsFrom(b))
    BY LastDayFacts DEF Hrd!Base, DocInv, DocTypes, CountsFrom
  <2>3. txn' = [txn EXCEPT ![h] = t] /\ UNCHANGED <<x1, x2, x3, x4>>
    BY <1>3 DEF Hrd!CreateRead, Hrd!rows
  <2> HIDE DEF b
  <2>4. t \in DocTxn /\ t.step = "create" /\ t.base = b /\ t.hr = txn[h].hr
        /\ t.lock = txn[h].lock
    BY <2>1, <2>2 DEF DocTxn
  <2> HIDE DEF t
  <2>5. Gated'
    BY <2>3, <2>4, GatedHandler DEF DocInv
  <2> QED BY <2>2, <2>3, <2>4, <2>5, DocQuiet
<1>4. ASSUME NEW h \in Handlers, Hrd!CreateInsert(h)
      PROVE  DocInv'
  <2> DEFINE r == [state |-> "KEPT", hr |-> txn[h].hr,
                   ofBranch |-> txn[h].lock = "share", base |-> txn[h].base]
             d == txn[h].doc
  <2>1. /\ txn[h] \in [step: {"create"}, lock: {"none", "share"}, doc: Docs, hr: BOOLEAN,
                       base: 0..LastDay \cup {None}]
        /\ txn[h].base # None
    BY <1>4 DEF Hrd!CreateInsert, DocInv, DocTypes, DocTxn, GateTxn, Gt!Idle
  <2>2. /\ txn' = [txn EXCEPT ![h] = Gt!Idle] /\ UNCHANGED <<x1, x2, x3>>
        /\ x4' = [x4 EXCEPT ![d] = r]
    BY <1>0, <1>4 DEF Hrd!CreateInsert, Hrd!End
  <2>3. /\ d \in Docs /\ r \in Hrd!Row /\ r.base = txn[h].base /\ r.hr = txn[h].hr
    BY <2>1 DEF Hrd!Row
  <2>4. txn[h].hr => CountsFrom(txn[h].base)
    BY <2>1 DEF DocInv, DocAsks
  <2> HIDE DEF r, d
  <2>5. Gated' /\ \A g \in Handlers : txn'[g] = IF g = h THEN Gt!Idle ELSE txn[g]
    BY <1>0, <2>2, GatedHandler DEF DocInv
  <2>6. DocTypes'
    BY <1>0, <2>2, <2>3 DEF DocInv, DocTypes
  <2>7. DocAsks'
    BY <1>0, <2>2, <2>5 DEF DocInv, DocAsks, CountsFrom
  <2>8. Hrd!KeptFromLeaving'
    <3>1. \A e \in Docs : x4'[e] = IF e = d THEN r ELSE x4[e]
      BY <2>2 DEF DocInv, DocTypes
    <3> QED BY <2>2, <2>3, <2>4, <3>1 DEF DocInv, Hrd!KeptFromLeaving, CountsFrom
  <2> QED BY <2>5, <2>6, <2>7, <2>8 DEF DocInv
<1>5. ASSUME NEW d \in Docs, Hrd!SoftDelete(d)
      PROVE  DocInv'
  <2>1. UNCHANGED <<x1, x2, x3, txn>> /\ x4' = [x4 EXCEPT ![d].state = "DELETED"]
    BY <1>5 DEF Hrd!SoftDelete
  <2>2. Gated' /\ DocAsks'
    BY <2>1 DEF DocInv, Gated, DocAsks, CountsFrom
  <2>3. x4' \in [Docs -> Hrd!Row]
    BY <2>1 DEF DocInv, DocTypes, Hrd!Row
  <2>4. DocTypes'
    BY <2>1, <2>3 DEF DocInv, DocTypes
  <2>5. \A e \in Docs : x4'[e].state = "KEPT" => x4'[e] = x4[e]
    BY <2>1 DEF DocInv, DocTypes, Hrd!Row
  <2>6. Hrd!KeptFromLeaving'
    BY <2>1, <2>5 DEF DocInv, Hrd!KeptFromLeaving
  <2> QED BY <2>2, <2>4, <2>6 DEF DocInv
<1>6. ASSUME NEW h \in Handlers, Hrd!Resign(h)
      PROVE  DocInv'
  <2> DEFINE t == [step |-> "resign", lock |-> "none", day |-> x2]
  <2>1. t \in DocTxn /\ t.step = "resign" /\ t.lock = "none" /\ t.day = x2
    BY DEF DocTxn, DocInv, DocTypes
  <2>2. /\ txn' = [txn EXCEPT ![h] = t] /\ UNCHANGED <<x1, x2, x3, x4>>
        /\ x3 = 0 /\ \A g \in Handlers : txn[g].step # "resign"
    BY <1>6 DEF Hrd!Resign, Hrd!Begin, Hrd!rows
  <2>3. x2 <= x2
    BY DEF DocInv, DocTypes
  <2> HIDE DEF t
  <2>4. Gated'
    BY <2>1, <2>2, GatedHandler DEF DocInv
  <2> QED BY <2>1, <2>2, <2>3, <2>4, DocQuiet
<1>7. ASSUME NEW h \in Handlers, Hrd!ResignCommit(h)
      PROVE  DocInv'
  <2> DEFINE day == txn[h].day
  <2>1. /\ day \in 1..LastDay /\ day <= x2 /\ x3 = 0
        /\ \A g \in Handlers : txn[g].step = "resign" => g = h
    BY <1>7 DEF Hrd!ResignCommit, DocInv, DocTypes, DocAsks, DocTxn, GateTxn, Gt!Idle
  <2>2. /\ txn' = [txn EXCEPT ![h] = Gt!Idle] /\ UNCHANGED <<x1, x2>> /\ x3' = day
        /\ x4' = [d \in Docs |-> IF x4[d].hr /\ x4[d].state = "KEPT"
                                 THEN [x4[d] EXCEPT !.base = day] ELSE x4[d]]
    BY <1>0, <1>7 DEF Hrd!ResignCommit, Hrd!End, Hrd!Recalculated
  <2> HIDE DEF day
  <2>3. Gated' /\ \A g \in Handlers : txn'[g] = IF g = h THEN Gt!Idle ELSE txn[g]
    BY <1>0, <2>2, GatedHandler DEF DocInv
  <2>4. \A d \in Docs : /\ x4'[d] \in Hrd!Row
                        /\ x4'[d].state = "KEPT" /\ x4'[d].hr => x4'[d].base = day
    BY <2>1, <2>2 DEF DocInv, DocTypes, Hrd!Row
  <2>5. DocTypes'
    <3>1. x4' \in [Docs -> Hrd!Row]
      BY <2>2, <2>4
    <3> QED BY <1>0, <2>1, <2>2, <3>1 DEF DocInv, DocTypes
  <2>6. DocAsks'
    <3>2. \A g \in Handlers : txn[g].step = "create" /\ txn[g].base # None => txn[g].base \in Int
      BY DEF DocInv, DocTypes, DocTxn, GateTxn, Gt!Idle
    <3>3. \A g \in Handlers : txn'[g].step # "resign"
      BY <1>0, <2>1, <2>3
    <3>4. ASSUME NEW g \in Handlers, txn'[g].step = "create", txn'[g].base # None, txn'[g].hr
          PROVE  CountsFrom(txn[g].base)'
      <4>1. txn'[g] = txn[g]
        BY <1>0, <2>3, <3>4
      <4>2. CountsFrom(txn[g].base) /\ txn[g].base \in Int
        BY <3>2, <3>4, <4>1 DEF DocInv, DocAsks
      <4> QED BY <2>1, <2>2, <4>1, <4>2 DEF CountsFrom, DocInv, DocTypes
    <3> QED BY <3>3, <3>4 DEF DocAsks
  <2>7. Hrd!KeptFromLeaving'
    BY <2>1, <2>2, <2>4 DEF Hrd!KeptFromLeaving
  <2> QED BY <2>3, <2>5, <2>6, <2>7 DEF DocInv
<1>8. CASE Hrd!Midnight
  <2>1. /\ UNCHANGED <<x1, x3, x4, txn>> /\ x2' = x2 + 1 /\ x2 < LastDay
        /\ \A h \in Handlers : txn[h].step = "create" => txn[h].base \in {None, 0, x3, x2}
    BY <1>8 DEF Hrd!Midnight
  <2>2. Gated'
    BY <2>1 DEF DocInv, Gated
  <2>3. DocTypes'
    BY <2>1, LastDayFacts DEF DocInv, DocTypes
  <2>4. DocAsks'
    <3>1. \A h \in Handlers : txn[h].step = "resign" => txn[h].day \in Int /\ txn[h].day <= x2
      BY DEF DocInv, DocTypes, DocAsks, DocTxn, GateTxn, Gt!Idle
    <3>2. \A h \in Handlers : txn[h].step = "resign" => txn[h].day <= x2'
      BY <2>1, <3>1 DEF DocInv, DocTypes
    <3>3. ASSUME NEW h \in Handlers, txn[h].step = "create", txn[h].base # None, txn[h].hr
          PROVE  CountsFrom(txn[h].base)'
      <4>1. CountsFrom(txn[h].base)
        BY <3>3 DEF DocInv, DocAsks
      <4>2. txn[h].base \in {x3, x2}
        BY <2>1, <3>3, <4>1 DEF CountsFrom
      <4> QED BY <2>1, <4>1, <4>2 DEF CountsFrom, DocInv, DocTypes
    <3> QED BY <2>1, <3>2, <3>3 DEF DocInv, DocAsks, CountsFrom
  <2>5. Hrd!KeptFromLeaving'
    BY <2>1 DEF DocInv, Hrd!KeptFromLeaving
  <2> QED BY <2>2, <2>3, <2>4, <2>5 DEF DocInv
<1>9. CASE UNCHANGED Hrd!vars
  BY <1>9
  DEF Hrd!vars, Hrd!rows, DocInv, Gated, DocTypes, DocAsks, CountsFrom, Hrd!KeptFromLeaving
<1> QED BY <1>1, <1>2, <1>3, <1>4, <1>5, <1>6, <1>7, <1>8, <1>9 DEF Hrd!Next

(* It holds whenever the desk of documents is at work.                     *)
DocsAt == desk = "documents" => DocInv
LEMMA DocsInvariant == OfficeSpec => []DocsAt
<1>1. OfficeInit => DocsAt
  BY DocInit DEF OfficeInit, DocsAt
<1>2. DocsAt /\ [OfficeNext]_vars => DocsAt'
  <2> SUFFICES ASSUME DocsAt, [OfficeNext]_vars, desk' = "documents" PROVE DocInv'
    BY DEF DocsAt
  <2>1. desk = "documents"
    BY DEF OfficeNext, vars
  <2> QED BY <2>1, DocDesk, DocStep DEF DocsAt
<1> QED BY <1>1, <1>2, PTL DEF OfficeSpec

(* The personnel records of somebody who left are kept from that day, or   *)
(* the day before if their registration ran across a midnight, however     *)
(* registrations, the resignation and midnights cross each other.          *)
THEOREM RecordsKept == OfficeSpec => []KeptFromLeaving
<1>1. DocsAt => KeptFromLeaving
  BY DEF DocsAt, DocInv, KeptFromLeaving
<1> QED BY <1>1, DocsInvariant, PTL

LEMMA DocsTyped == DocInv => Hrd!TypeOK
<1> SUFFICES ASSUME DocInv PROVE Hrd!TypeOK
  OBVIOUS
<1>1. x1 \in Hrd!GateStatus
  BY DEF DocInv, Gated, Gt!GateStatus, Hrd!GateStatus
<1>2. \A h \in Handlers : txn[h] \in DocTxn
  BY DEF DocInv, DocTypes
<1> QED
  BY <1>1, <1>2
  DEF DocInv, DocTypes, Hrd!TypeOK, Hrd!GateTypeOK, DocTxn, GateTxn, Gt!GateStatus,
      Hrd!GateStatus, Gt!Idle, Hrd!Idle

(* Only who was let in adds a document of the branch.                      *)
LEMMA DocsNothingNew == DocInv /\ [Hrd!Next]_(Hrd!vars) => Hrd!NothingNew
<1> SUFFICES ASSUME DocInv, [Hrd!Next]_(Hrd!vars), NEW d \in Docs,
                    x4[d] = Hrd!NoRow, x4'[d].ofBranch
             PROVE  x1 # "TERMINATED"
  BY DEF Hrd!NothingNew
<1>1. x4'[d] # x4[d] /\ ~x4[d].hr /\ x4[d].state = "ABSENT"
  BY DEF Hrd!NoRow
<1>2. ASSUME NEW h \in Handlers, Hrd!CreateInsert(h)
      PROVE  txn[h].lock = "share"
  <2> DEFINE r == [state |-> "KEPT", hr |-> txn[h].hr,
                   ofBranch |-> txn[h].lock = "share", base |-> txn[h].base]
  <2>1. x4' = [x4 EXCEPT ![txn[h].doc] = r]
    BY <1>2 DEF Hrd!CreateInsert
  <2>2. x4'[d] = r
    BY <1>1, <2>1 DEF DocInv, DocTypes
  <2>3. r.ofBranch <=> txn[h].lock = "share"
    OBVIOUS
  <2> HIDE DEF r
  <2> QED BY <2>2, <2>3
<1>3. ASSUME NEW e \in Docs, Hrd!SoftDelete(e)
      PROVE  FALSE
  BY <1>1, <1>3 DEF Hrd!SoftDelete, DocInv, DocTypes
<1>4. ASSUME NEW h \in Handlers, Hrd!ResignCommit(h)
      PROVE  FALSE
  BY <1>1, <1>4 DEF Hrd!ResignCommit, Hrd!Recalculated
<1> QED
  BY <1>1, <1>2, <1>3, <1>4
  DEF Hrd!Next, Hrd!vars, Hrd!rows, Hrd!Create, Hrd!CreateRead, Hrd!Resign, Hrd!Midnight,
      DocInv, Gated

-----------------------------------------------------------------------------
(* Courses                                                                 *)

CourseTxn ==
  GateTxn \cup [step: {"enroll"}, lock: {"share"}, id: Enrollments]
          \cup [step: {"buy"}, lock: {"share"}, id: Packages, total: PackageSizes]
          \cup [step: {"use", "used"}, lock: {"none"}, id: Packages, used: Nat]

CourseTypes ==
  /\ txn \in [Handlers -> CourseTxn]
  /\ x2 \subseteq Enrollments
  /\ x3 \in [Packages -> Crs!Row] /\ x4 \in [Packages -> Nat]

(* A package that is being bought is nobody else's yet; whoever uses one   *)
(* found it, and one handler at a time has taken a session off it.         *)
CourseAsks ==
  \A h \in Handlers :
    LET t == txn[h]
    IN  /\ t.step = "buy" =>
             /\ x3[t.id] = Crs!NoRow
             /\ \A g \in Handlers : txn[g].step = "buy" /\ txn[g].id = t.id => g = h
        /\ t.step \in {"use", "used"} => x3[t.id] # Crs!NoRow
        /\ t.step = "used" =>
             /\ t.used = x3[t.id].used + 1 /\ t.used <= x3[t.id].total
             /\ \A g \in Handlers : txn[g].step = "used" /\ txn[g].id = t.id => g = h

CourseInv == Gated /\ CourseTypes /\ CourseAsks /\ Crs!EveryUseCounted

(* At the desk of courses only its handlers work.                          *)
LEMMA CourseDesk ==
  ASSUME [OfficeNext]_vars, desk = "courses"
  PROVE  desk' = "courses" /\ [Crs!Next]_(Crs!vars)
BY DEF OfficeNext, vars, Crs!vars, Crs!rows, From3, From5

LEMMA CourseGate ==
  ASSUME NEW h \in Handlers
  PROVE  /\ Crs!Gate(h) => Gt!Gate(h)
         /\ \A t : Crs!LetIn(h, t) => Gt!LetIn(h, t)
         /\ Crs!Idle = Gt!Idle
BY DEF Crs!Gate, Gt!Gate, Crs!ContractLock, Gt!ContractLock, Crs!ContractCommit,
       Gt!ContractCommit, Crs!Abort, Gt!Abort, Crs!LetIn, Gt!LetIn, Crs!Begin, Gt!Begin,
       Crs!End, Gt!End, Crs!Idle, Gt!Idle, Crs!Shareable, Gt!Shareable

LEMMA PackageSizesAreNat == PackageSizes \subseteq Nat
BY OfficeAssumption

LEMMA CourseInit == Crs!Init => CourseInv
<1> SUFFICES ASSUME Crs!Init PROVE CourseInv
  OBVIOUS
<1>1. Gated
  BY GatedInit DEF Crs!Init, Crs!GateInit, Gt!GateInit, Crs!Idle, Gt!Idle
<1>2. txn \in [Handlers -> CourseTxn] /\ \A h \in Handlers : txn[h].step = "idle"
  BY DEF Crs!Init, Crs!GateInit, CourseTxn, GateTxn, Crs!Idle, Gt!Idle
<1>3. Crs!NoRow \in Crs!Row /\ Crs!NoRow.used = 0 /\ Crs!NoRow.total = 0
  BY DEF Crs!NoRow, Crs!Row
<1>4. x2 = {} /\ x3 = [p \in Packages |-> Crs!NoRow] /\ x4 = [p \in Packages |-> 0]
  BY DEF Crs!Init
<1>5. CourseTypes
  BY <1>2, <1>3, <1>4 DEF CourseTypes
<1> QED BY <1>1, <1>2, <1>3, <1>4, <1>5 DEF CourseInv, CourseAsks, Crs!EveryUseCounted

(* A step of one handler that leaves the packages alone.                   *)
LEMMA CourseQuiet ==
  ASSUME CourseInv, Gated', UNCHANGED <<x3, x4>>, x2' \subseteq Enrollments,
         NEW h \in Handlers, NEW t \in CourseTxn, txn' = [txn EXCEPT ![h] = t],
         t.step = "buy" =>
           /\ x3[t.id] = Crs!NoRow
           /\ \A g \in Handlers : txn[g].step = "buy" => txn[g].id # t.id,
         t.step \in {"use", "used"} => x3[t.id] # Crs!NoRow,
         t.step = "used" =>
           /\ t.used = x3[t.id].used + 1 /\ t.used <= x3[t.id].total
           /\ \A g \in Handlers : txn[g].step = "used" => txn[g].id # t.id
  PROVE  CourseInv'
<1>1. \A g \in Handlers : txn'[g] = IF g = h THEN t ELSE txn[g]
  BY DEF CourseInv, CourseTypes
<1>2. CourseTypes'
  BY DEF CourseInv, CourseTypes
<1>3. CourseAsks'
  <2>1. ASSUME NEW g \in Handlers, txn'[g].step = "buy"
        PROVE  /\ x3[txn'[g].id] = Crs!NoRow
               /\ \A k \in Handlers : txn'[k].step = "buy" /\ txn'[k].id = txn'[g].id => k = g
    BY <1>1, <2>1 DEF CourseInv, CourseAsks
  <2>2. ASSUME NEW g \in Handlers, txn'[g].step = "used"
        PROVE  /\ txn'[g].used = x3[txn'[g].id].used + 1
               /\ txn'[g].used <= x3[txn'[g].id].total
               /\ \A k \in Handlers : txn'[k].step = "used" /\ txn'[k].id = txn'[g].id => k = g
    BY <1>1, <2>2 DEF CourseInv, CourseAsks
  <2>3. \A g \in Handlers : txn'[g].step \in {"use", "used"} => x3[txn'[g].id] # Crs!NoRow
    BY <1>1 DEF CourseInv, CourseAsks
  <2> QED BY <2>1, <2>2, <2>3 DEF CourseAsks
<1> QED BY <1>2, <1>3 DEF CourseInv, Crs!EveryUseCounted

LEMMA CourseStep == CourseInv /\ [Crs!Next]_(Crs!vars) => CourseInv'
<1> SUFFICES ASSUME CourseInv, [Crs!Next]_(Crs!vars) PROVE CourseInv'
  OBVIOUS
<1>0. /\ Gt!Idle \in CourseTxn /\ Gt!Idle.step = "idle" /\ Gt!Idle.lock = "none"
      /\ Crs!Idle = Gt!Idle
  BY DEF CourseTxn, GateTxn, Gt!Idle, Crs!Idle
<1>00. x2 \subseteq Enrollments
  BY DEF CourseInv, CourseTypes
<1>1. ASSUME NEW h \in Handlers, Crs!Gate(h), UNCHANGED Crs!rows
      PROVE  CourseInv'
  <2>1. PICK t \in GateTxn : Gated' /\ txn' = [txn EXCEPT ![h] = t]
    BY <1>1, CourseGate, GatedGate DEF CourseInv
  <2>2. t \in CourseTxn /\ t.step \in {"idle", "contract"}
    BY DEF CourseTxn, GateTxn, Gt!Idle
  <2>3. UNCHANGED <<x2, x3, x4>>
    BY <1>1 DEF Crs!rows
  <2> QED BY <1>00, <2>1, <2>2, <2>3, CourseQuiet
<1>2. ASSUME NEW h \in Handlers, NEW e \in Enrollments, Crs!Enroll(h, e)
      PROVE  CourseInv'
  <2> DEFINE t == [step |-> "enroll", lock |-> "share", id |-> e]
  <2>1. t \in CourseTxn /\ t.step = "enroll" /\ t.lock = "share"
    BY DEF CourseTxn
  <2>2. /\ txn' = [txn EXCEPT ![h] = t] /\ UNCHANGED <<x1, x2, x3, x4>>
        /\ Gt!Shareable /\ x1 # "TERMINATED"
    BY <1>2, CourseGate DEF Crs!Enroll, Gt!LetIn, Gt!Begin, Crs!rows
  <2> HIDE DEF t
  <2>3. Gated'
    BY <2>1, <2>2, GatedLetIn DEF CourseInv
  <2> QED BY <1>00, <2>1, <2>2, <2>3, CourseQuiet
<1>3. ASSUME NEW h \in Handlers, Crs!EnrollCommit(h)
      PROVE  CourseInv'
  <2>1. txn[h].id \in Enrollments
    BY <1>3 DEF Crs!EnrollCommit, CourseInv, CourseTypes, CourseTxn, GateTxn, Gt!Idle
  <2>2. /\ txn' = [txn EXCEPT ![h] = Gt!Idle] /\ UNCHANGED <<x1, x3, x4>>
        /\ x2' \subseteq Enrollments
    BY <1>0, <1>00, <1>3, <2>1 DEF Crs!EnrollCommit, Crs!End
  <2>3. Gated'
    BY <1>0, <2>2, GatedHandler DEF CourseInv
  <2> QED BY <1>0, <2>2, <2>3, CourseQuiet
<1>4. ASSUME NEW h \in Handlers, NEW p \in Packages, NEW n \in PackageSizes, Crs!Buy(h, p, n)
      PROVE  CourseInv'
  <2> DEFINE t == [step |-> "buy", lock |-> "share", id |-> p, total |-> n]
  <2>1. t \in CourseTxn /\ t.step = "buy" /\ t.lock = "share" /\ t.id = p
    BY DEF CourseTxn
  <2>2. /\ txn' = [txn EXCEPT ![h] = t] /\ UNCHANGED <<x1, x2, x3, x4>>
        /\ Gt!Shareable /\ x1 # "TERMINATED"
    BY <1>4, CourseGate DEF Crs!Buy, Gt!LetIn, Gt!Begin, Crs!rows
  <2>3. x3[p] = Crs!NoRow /\ \A g \in Handlers : txn[g].step = "buy" => txn[g].id # p
    BY <1>4 DEF Crs!Buy
  <2> HIDE DEF t
  <2>4. Gated'
    BY <2>1, <2>2, GatedLetIn DEF CourseInv
  <2> QED BY <1>00, <2>1, <2>2, <2>3, <2>4, CourseQuiet
<1>5. ASSUME NEW h \in Handlers, Crs!BuyCommit(h)
      PROVE  CourseInv'
  <2> DEFINE p == txn[h].id
             r == [total |-> txn[h].total, used |-> 0]
  <2>1. /\ p \in Packages /\ r \in Crs!Row /\ r.used = 0 /\ x3[p] = Crs!NoRow
        /\ r.total \in Nat
        /\ \A g \in Handlers : txn[g].step = "buy" /\ txn[g].id = p => g = h
    <3>1. p \in Packages /\ txn[h].total \in PackageSizes
      BY <1>5 DEF Crs!BuyCommit, CourseInv, CourseTypes, CourseTxn, GateTxn, Gt!Idle
    <3> QED BY <1>5, <3>1, PackageSizesAreNat DEF Crs!BuyCommit, CourseInv, CourseAsks, Crs!Row
  <2>2. /\ txn' = [txn EXCEPT ![h] = Gt!Idle] /\ UNCHANGED <<x1, x2, x4>>
        /\ x3' = [x3 EXCEPT ![p] = r]
    BY <1>0, <1>5 DEF Crs!BuyCommit, Crs!End
  <2> HIDE DEF p, r
  <2>3. Gated' /\ \A g \in Handlers : txn'[g] = IF g = h THEN Gt!Idle ELSE txn[g]
    BY <1>0, <2>2, GatedHandler DEF CourseInv
  <2>4. CourseTypes'
    BY <1>0, <2>1, <2>2 DEF CourseInv, CourseTypes
  <2>5. \A q \in Packages : x3'[q] = IF q = p THEN r ELSE x3[q]
    BY <2>2 DEF CourseInv, CourseTypes
  <2>6. \A g \in Handlers : txn[g].step \in {"buy", "use", "used"} => txn[g].id \in Packages
    BY DEF CourseInv, CourseTypes, CourseTxn, GateTxn, Gt!Idle
  <2>7. \A g \in Handlers \ {h} : txn[g].step \in {"buy", "use", "used"} => txn[g].id # p
    BY <2>1 DEF CourseInv, CourseAsks
  <2>8. CourseAsks'
    <3>1. \A g \in Handlers : txn'[g].step \in {"buy", "use", "used"} =>
            /\ txn'[g] = txn[g] /\ g # h /\ x3'[txn[g].id] = x3[txn[g].id]
      BY <1>0, <2>3, <2>5, <2>6, <2>7
    <3> QED BY <3>1 DEF CourseInv, CourseAsks
  <2>9. Crs!EveryUseCounted'
    <3>1. x4[p] = 0
      BY <2>1 DEF CourseInv, Crs!EveryUseCounted, Crs!NoRow
    <3> QED BY <2>1, <2>2, <2>5, <3>1 DEF CourseInv, Crs!EveryUseCounted
  <2> QED BY <2>3, <2>4, <2>8, <2>9 DEF CourseInv
<1>6. ASSUME NEW h \in Handlers, NEW p \in Packages, Crs!Use(h, p)
      PROVE  CourseInv'
  <2> DEFINE t == [step |-> "use", lock |-> "none", id |-> p, used |-> x3[p].used]
  <2>1. t \in CourseTxn /\ t.step = "use" /\ t.lock = "none" /\ t.id = p
    BY DEF CourseTxn, CourseInv, CourseTypes, Crs!Row
  <2>2. txn' = [txn EXCEPT ![h] = t] /\ UNCHANGED <<x1, x2, x3, x4>> /\ x3[p] # Crs!NoRow
    BY <1>6 DEF Crs!Use, Crs!Begin, Crs!rows
  <2> HIDE DEF t
  <2>3. Gated'
    BY <2>1, <2>2, GatedHandler DEF CourseInv
  <2> QED BY <1>00, <2>1, <2>2, <2>3, CourseQuiet
<1>7. ASSUME NEW h \in Handlers, Crs!UseUpdate(h)
      PROVE  CourseInv'
  <2> DEFINE p == txn[h].id
             t == [txn[h] EXCEPT !.step = "used", !.used = x3[p].used + 1]
  <2>1. /\ txn[h] \in [step: {"use", "used"}, lock: {"none"}, id: Packages, used: Nat]
        /\ txn[h].step = "use" /\ x3[p] # Crs!NoRow
    BY <1>7 DEF Crs!UseUpdate, CourseInv, CourseTypes, CourseAsks, CourseTxn, GateTxn, Gt!Idle
  <2>2. UNCHANGED <<x1, x2, x3, x4>>
    BY <1>7 DEF Crs!UseUpdate, Crs!rows
  <2>3. CASE Crs!End(h)
    <3>1. txn' = [txn EXCEPT ![h] = Gt!Idle]
      BY <1>0, <2>3 DEF Crs!End
    <3>2. Gated'
      BY <1>0, <2>2, <3>1, GatedHandler DEF CourseInv
    <3> QED BY <1>0, <1>00, <2>2, <3>1, <3>2, CourseQuiet
  <2>4. CASE ~Crs!End(h)
    <3>1. /\ x3[p].used < x3[p].total /\ txn' = [txn EXCEPT ![h] = t]
          /\ \A g \in Handlers : txn[g].step = "used" => txn[g].id # p
      BY <1>7, <2>4 DEF Crs!UseUpdate, Crs!Taken, Crs!Updating
    <3>2. /\ t \in CourseTxn /\ t.step = "used" /\ t.lock = txn[h].lock /\ t.id = p
          /\ t.used = x3[p].used + 1 /\ x3[p].used \in Nat /\ x3[p].total \in Nat
      <4>1. x3[p] \in Crs!Row
        BY <2>1 DEF CourseInv, CourseTypes
      <4> DEFINE n == x3[p].used
                 m == x3[p].total
      <4>2. n \in Nat /\ m \in PackageSizes \cup {0}
        BY <4>1 DEF Crs!Row
      <4> HIDE DEF m
      <4>3. m \in Nat
        BY <4>2, PackageSizesAreNat
      <4> HIDE DEF n
      <4>4. n + 1 \in Nat
        BY <4>2
      <4>5. t = [txn[h] EXCEPT !.step = "used", !.used = n + 1]
        BY DEF n
      <4> HIDE DEF t
      <4>6. /\ t \in [step: {"use", "used"}, lock: {"none"}, id: Packages, used: Nat]
            /\ t.step = "used" /\ t.lock = txn[h].lock /\ t.id = p /\ t.used = n + 1
        BY <2>1, <4>4, <4>5
      <4> QED BY <4>2, <4>3, <4>6 DEF CourseTxn, n, m
    <3> HIDE DEF t, p
    <3>3. t.used <= x3[p].total
      BY <3>1, <3>2
    <3>4. Gated'
      BY <2>2, <3>1, <3>2, GatedHandler DEF CourseInv
    <3> QED BY <1>00, <2>1, <2>2, <3>1, <3>2, <3>3, <3>4, CourseQuiet
  <2> QED BY <2>3, <2>4
<1>8. ASSUME NEW h \in Handlers, Crs!UseCommit(h)
      PROVE  CourseInv'
  <2> DEFINE p == txn[h].id
             u == txn[h].used
  <2>1. /\ p \in Packages /\ u = x3[p].used + 1 /\ u <= x3[p].total
        /\ \A g \in Handlers : txn[g].step = "used" /\ txn[g].id = p => g = h
    BY <1>8 DEF Crs!UseCommit, CourseInv, CourseTypes, CourseAsks, CourseTxn, GateTxn, Gt!Idle
  <2>2. /\ txn' = [txn EXCEPT ![h] = Gt!Idle] /\ UNCHANGED <<x1, x2>>
        /\ x3' = [x3 EXCEPT ![p].used = u] /\ x4' = [x4 EXCEPT ![p] = x4[p] + 1]
    BY <1>0, <1>8 DEF Crs!UseCommit, Crs!End
  <2> HIDE DEF p, u
  <2>3. x3[p].used \in Nat /\ x3[p] \in Crs!Row /\ x4[p] \in Nat
    BY <2>1 DEF CourseInv, CourseTypes, Crs!Row
  <2>4. Gated' /\ \A g \in Handlers : txn'[g] = IF g = h THEN Gt!Idle ELSE txn[g]
    BY <1>0, <2>2, GatedHandler DEF CourseInv
  <2>5. CourseTypes'
    <3>1. x3' \in [Packages -> Crs!Row] /\ x4' \in [Packages -> Nat]
      BY <2>1, <2>2, <2>3 DEF CourseInv, CourseTypes, Crs!Row
    <3> QED BY <1>0, <2>2, <3>1 DEF CourseInv, CourseTypes
  <2>6. \A q \in Packages :
          IF q = p THEN x3'[q].used = u /\ x3'[q].total = x3[q].total ELSE x3'[q] = x3[q]
    BY <2>2 DEF CourseInv, CourseTypes, Crs!Row
  <2>7. x3'[p] # Crs!NoRow /\ x3[p] # Crs!NoRow
    BY <1>8, <2>1, <2>3, <2>6 DEF Crs!NoRow, Crs!UseCommit, CourseInv, CourseAsks, p
  <2>8. CourseAsks'
    <3>1. \A g \in Handlers : txn[g].step \in {"buy", "use", "used"} => txn[g].id \in Packages
      BY DEF CourseInv, CourseTypes, CourseTxn, GateTxn, Gt!Idle
    <3>2. \A g \in Handlers : txn'[g].step \in {"buy", "use", "used"} => txn'[g] = txn[g] /\ g # h
      BY <1>0, <2>4
    <3>3. \A g \in Handlers : txn'[g].step \in {"buy", "used"} =>
            txn[g].id # p /\ x3'[txn[g].id] = x3[txn[g].id]
      BY <2>1, <2>6, <2>7, <3>1, <3>2 DEF CourseInv, CourseAsks
    <3>4. \A g \in Handlers : txn'[g].step = "use" => x3'[txn[g].id] # Crs!NoRow
      BY <2>6, <2>7, <3>1, <3>2 DEF CourseInv, CourseAsks
    <3> QED BY <3>2, <3>3, <3>4 DEF CourseInv, CourseAsks
  <2>9. Crs!EveryUseCounted'
    BY <2>1, <2>2, <2>3, <2>6 DEF CourseInv, CourseTypes, Crs!EveryUseCounted
  <2> QED BY <2>4, <2>5, <2>8, <2>9 DEF CourseInv
<1>9. CASE UNCHANGED Crs!vars
  BY <1>9
  DEF Crs!vars, Crs!rows, CourseInv, Gated, CourseTypes, CourseAsks, Crs!EveryUseCounted
<1> QED BY <1>1, <1>2, <1>3, <1>4, <1>5, <1>6, <1>7, <1>8, <1>9 DEF Crs!Next

(* It holds whenever the desk of courses is at work.                       *)
CoursesAt == desk = "courses" => CourseInv
LEMMA CoursesInvariant == OfficeSpec => []CoursesAt
<1>1. OfficeInit => CoursesAt
  BY CourseInit DEF OfficeInit, CoursesAt
<1>2. CoursesAt /\ [OfficeNext]_vars => CoursesAt'
  <2> SUFFICES ASSUME CoursesAt, [OfficeNext]_vars, desk' = "courses" PROVE CourseInv'
    BY DEF CoursesAt
  <2>1. desk = "courses"
    BY DEF OfficeNext, vars
  <2> QED BY <2>1, CourseDesk, CourseStep DEF CoursesAt
<1> QED BY <1>1, <1>2, PTL DEF OfficeSpec

(* Every PT session that was given is taken off its package and written    *)
(* down, and no package gives more than was paid for, however many times   *)
(* the button is pressed at once.                                          *)
THEOREM UsesCounted == OfficeSpec => []EveryUseCounted
<1>1. CoursesAt => EveryUseCounted
  BY DEF CoursesAt, CourseInv, EveryUseCounted
<1> QED BY <1>1, CoursesInvariant, PTL

LEMMA CoursesTyped == CourseInv => Crs!TypeOK
<1> SUFFICES ASSUME CourseInv PROVE Crs!TypeOK
  OBVIOUS
<1>1. x1 \in Crs!GateStatus
  BY DEF CourseInv, Gated, Gt!GateStatus, Crs!GateStatus
<1>2. \A h \in Handlers : txn[h] \in CourseTxn
  BY DEF CourseInv, CourseTypes
<1> QED
  BY <1>1, <1>2
  DEF CourseInv, CourseTypes, Crs!TypeOK, Crs!GateTypeOK, CourseTxn, GateTxn, Gt!GateStatus,
      Crs!GateStatus, Gt!Idle, Crs!Idle

(* Only who was let in enrols a member or sells a package.                 *)
LEMMA CoursesNothingNew == CourseInv /\ [Crs!Next]_(Crs!vars) => Crs!NothingNew
<1> SUFFICES ASSUME CourseInv, [Crs!Next]_(Crs!vars),
                    x2' # x2 \/ \E p \in Packages : x3[p] = Crs!NoRow /\ x3'[p] # Crs!NoRow
             PROVE  x1 # "TERMINATED"
  BY DEF Crs!NothingNew
<1>1. x2' # x2 \/ x3' # x3
  OBVIOUS
<1>2. ASSUME NEW h \in Handlers, Crs!EnrollCommit(h) \/ Crs!BuyCommit(h)
      PROVE  x1 # "TERMINATED"
  BY <1>2
  DEF Crs!EnrollCommit, Crs!BuyCommit, CourseInv, Gated, CourseTypes, CourseTxn, GateTxn, Gt!Idle
<1>3. ASSUME NEW h \in Handlers, Crs!UseCommit(h)
      PROVE  FALSE
  <2>1. x3[txn[h].id] # Crs!NoRow /\ x2' = x2
    BY <1>3 DEF Crs!UseCommit, CourseInv, CourseAsks
  <2>2. x3' = [x3 EXCEPT ![txn[h].id].used = txn[h].used]
    BY <1>3 DEF Crs!UseCommit
  <2>3. \A p \in Packages : p # txn[h].id => x3'[p] = x3[p]
    BY <2>2 DEF CourseInv, CourseTypes
  <2> QED BY <2>1, <2>3
<1> QED
  BY <1>1, <1>2, <1>3
  DEF Crs!Next, Crs!vars, Crs!rows, Crs!Enroll, Crs!Buy, Crs!Use, Crs!UseUpdate

-----------------------------------------------------------------------------
(* Posts                                                                   *)

PostTxn ==
  GateTxn \cup [step: {"create"}, lock: {"none", "share"}, id: PostIds,
                scope: {"HQ", "BRANCH"}]
          \cup [step: {"update", "delete", "view"}, lock: {"none"}, id: PostIds]

(* What a branch writes to its members holds the lock of the branch.       *)
PostInv ==
  /\ Gated
  /\ txn \in [Handlers -> PostTxn]
  /\ x2 \in [PostIds -> Pos!Row]
  /\ \A h \in Handlers :
       txn[h].step = "create" /\ txn[h].scope = "BRANCH" => txn[h].lock = "share"

(* At the desk of posts only its handlers work.                            *)
LEMMA PostDesk ==
  ASSUME [OfficeNext]_vars, desk = "posts"
  PROVE  desk' = "posts" /\ [Pos!Next]_(Pos!vars)
BY DEF OfficeNext, vars, Pos!vars, From3

LEMMA PostGate ==
  ASSUME NEW h \in Handlers
  PROVE  /\ Pos!Gate(h) => Gt!Gate(h)
         /\ \A t : Pos!LetIn(h, t) => Gt!LetIn(h, t)
         /\ Pos!Idle = Gt!Idle
BY DEF Pos!Gate, Gt!Gate, Pos!ContractLock, Gt!ContractLock, Pos!ContractCommit,
       Gt!ContractCommit, Pos!Abort, Gt!Abort, Pos!LetIn, Gt!LetIn, Pos!Begin, Gt!Begin,
       Pos!End, Gt!End, Pos!Idle, Gt!Idle, Pos!Shareable, Gt!Shareable

LEMMA EditsAreNat == MaxEdits \in Nat
BY OfficeAssumption

LEMMA PostInit == Pos!Init => PostInv
<1> SUFFICES ASSUME Pos!Init PROVE PostInv
  OBVIOUS
<1>1. Gated
  BY GatedInit DEF Pos!Init, Pos!GateInit, Gt!GateInit, Pos!Idle, Gt!Idle
<1>2. txn \in [Handlers -> PostTxn] /\ \A h \in Handlers : txn[h].step = "idle"
  BY DEF Pos!Init, Pos!GateInit, PostTxn, GateTxn, Pos!Idle, Gt!Idle
<1>3. x2 \in [PostIds -> Pos!Row]
  BY EditsAreNat DEF Pos!Init, Pos!NoRow, Pos!Row
<1> QED BY <1>1, <1>2, <1>3 DEF PostInv

(* A step of one handler, which may write one post.                        *)
LEMMA PostMoves ==
  ASSUME PostInv, Gated', x2' \in [PostIds -> Pos!Row],
         NEW h \in Handlers, NEW t \in PostTxn, txn' = [txn EXCEPT ![h] = t],
         t.step = "create" /\ t.scope = "BRANCH" => t.lock = "share"
  PROVE  PostInv'
<1>1. \A g \in Handlers : txn'[g] = IF g = h THEN t ELSE txn[g]
  BY DEF PostInv
<1> QED BY <1>1 DEF PostInv

LEMMA PostStep == PostInv /\ [Pos!Next]_(Pos!vars) => PostInv'
<1> SUFFICES ASSUME PostInv, [Pos!Next]_(Pos!vars) PROVE PostInv'
  OBVIOUS
<1>0. /\ Gt!Idle \in PostTxn /\ Gt!Idle.step = "idle" /\ Gt!Idle.lock = "none"
      /\ Pos!Idle = Gt!Idle
  BY DEF PostTxn, GateTxn, Gt!Idle, Pos!Idle
<1>00. x2 \in [PostIds -> Pos!Row]
  BY DEF PostInv
<1>1. ASSUME NEW h \in Handlers, Pos!Gate(h), UNCHANGED x2
      PROVE  PostInv'
  <2>1. PICK t \in GateTxn : Gated' /\ txn' = [txn EXCEPT ![h] = t]
    BY <1>1, PostGate, GatedGate DEF PostInv
  <2>2. t \in PostTxn /\ t.step \in {"idle", "contract"}
    BY DEF PostTxn, GateTxn, Gt!Idle
  <2> QED BY <1>00, <1>1, <2>1, <2>2, PostMoves
<1>2. ASSUME NEW h \in Handlers, NEW i \in PostIds, NEW scope \in {"HQ", "BRANCH"},
             Pos!Create(h, i, scope)
      PROVE  PostInv'
  <2> DEFINE t == [step |-> "create", lock |-> IF scope = "BRANCH" THEN "share" ELSE "none",
                   id |-> i, scope |-> scope]
  <2>1. /\ t \in PostTxn /\ t.step = "create" /\ t.scope = scope
        /\ t.lock = IF scope = "BRANCH" THEN "share" ELSE "none"
    BY DEF PostTxn
  <2>2. UNCHANGED x2
    BY <1>2 DEF Pos!Create
  <2>3. /\ txn' = [txn EXCEPT ![h] = t] /\ x1' = x1
        /\ scope = "BRANCH" => Gt!Shareable /\ x1 # "TERMINATED"
    <3>1. \/ scope = "BRANCH" /\ Pos!LetIn(h, t)
          \/ scope = "HQ" /\ Pos!Begin(h, t) /\ UNCHANGED x1
      BY <1>2 DEF Pos!Create
    <3> QED BY <3>1, PostGate DEF Gt!LetIn, Gt!Begin, Pos!Begin
  <2> HIDE DEF t
  <2>4. Gated'
    <3>1. CASE scope = "BRANCH"
      BY <2>1, <2>3, <3>1, GatedLetIn DEF PostInv
    <3>2. CASE scope = "HQ"
      BY <2>1, <2>3, <3>2, GatedHandler DEF PostInv
    <3> QED BY <3>1, <3>2
  <2> QED BY <1>00, <2>1, <2>2, <2>3, <2>4, PostMoves
<1>3. ASSUME NEW h \in Handlers, NEW i \in PostIds, NEW what \in {"update", "delete", "view"},
             Pos!Find(h, i, what)
      PROVE  PostInv'
  <2> DEFINE t == [step |-> what, lock |-> "none", id |-> i]
  <2>1. t \in PostTxn /\ t.step = what /\ t.lock = "none"
    BY DEF PostTxn
  <2>2. txn' = [txn EXCEPT ![h] = t] /\ UNCHANGED <<x1, x2>>
    BY <1>3 DEF Pos!Find, Pos!Begin
  <2> HIDE DEF t
  <2>3. Gated'
    BY <2>1, <2>2, GatedHandler DEF PostInv
  <2> QED BY <1>00, <2>1, <2>2, <2>3, PostMoves
<1>4. ASSUME NEW h \in Handlers,
             Pos!CreateCommit(h) \/ Pos!UpdateWrite(h) \/ Pos!DeleteWrite(h) \/ Pos!ViewWrite(h)
      PROVE  PostInv'
  <2>1. /\ txn' = [txn EXCEPT ![h] = Gt!Idle] /\ x1' = x1
        /\ txn[h].id \in PostIds
        /\ txn[h].step = "create" => txn[h].scope \in {"HQ", "BRANCH"}
    BY <1>0, <1>4
    DEF Pos!CreateCommit, Pos!UpdateWrite, Pos!DeleteWrite, Pos!ViewWrite, Pos!End, PostInv,
        PostTxn, GateTxn, Gt!Idle
  <2>2. Gated'
    BY <1>0, <2>1, GatedHandler DEF PostInv
  <2>3. CASE Pos!CreateCommit(h)
    <3> DEFINE r == [Pos!NoRow EXCEPT !.state = "PUBLISHED", !.scope = txn[h].scope]
    <3>1. r \in Pos!Row
      <4>1. Pos!NoRow \in Pos!Row
        BY EditsAreNat DEF Pos!NoRow, Pos!Row
      <4> QED BY <2>1, <2>3, <4>1 DEF Pos!CreateCommit, Pos!Row
    <3>2. x2' = [x2 EXCEPT ![txn[h].id] = r]
      BY <2>3 DEF Pos!CreateCommit
    <3> HIDE DEF r
    <3>3. x2' \in [PostIds -> Pos!Row]
      BY <1>00, <3>1, <3>2
    <3> QED BY <1>0, <2>1, <2>2, <3>3, PostMoves
  <2>4. CASE Pos!UpdateWrite(h) \/ Pos!DeleteWrite(h) \/ Pos!ViewWrite(h)
    <3>1. x2' \in [PostIds -> Pos!Row]
      BY <1>00, <2>1, <2>4, EditsAreNat
      DEF Pos!UpdateWrite, Pos!DeleteWrite, Pos!ViewWrite, Pos!Row
    <3> QED BY <1>0, <2>1, <2>2, <3>1, PostMoves
  <2> QED BY <1>4, <2>3, <2>4
<1>5. CASE UNCHANGED Pos!vars
  BY <1>5 DEF Pos!vars, PostInv, Gated
<1> QED BY <1>1, <1>2, <1>3, <1>4, <1>5 DEF Pos!Next

(* It holds whenever the desk of posts is at work.                         *)
PostsAt == desk = "posts" => PostInv
LEMMA PostsInvariant == OfficeSpec => []PostsAt
<1>1. OfficeInit => PostsAt
  BY PostInit DEF OfficeInit, PostsAt
<1>2. PostsAt /\ [OfficeNext]_vars => PostsAt'
  <2> SUFFICES ASSUME PostsAt, [OfficeNext]_vars, desk' = "posts" PROVE PostInv'
    BY DEF PostsAt
  <2>1. desk = "posts"
    BY DEF OfficeNext, vars
  <2> QED BY <2>1, PostDesk, PostStep DEF PostsAt
<1> QED BY <1>1, <1>2, PTL DEF OfficeSpec

LEMMA PostsTyped == PostInv => Pos!TypeOK
<1> SUFFICES ASSUME PostInv PROVE Pos!TypeOK
  OBVIOUS
<1>1. x1 \in Pos!GateStatus
  BY DEF PostInv, Gated, Gt!GateStatus, Pos!GateStatus
<1>2. \A h \in Handlers : txn[h] \in PostTxn
  BY DEF PostInv
<1> QED
  BY <1>1, <1>2
  DEF PostInv, Pos!TypeOK, Pos!GateTypeOK, PostTxn, GateTxn, Gt!GateStatus, Pos!GateStatus,
      Gt!Idle, Pos!Idle

(* What a step does to a post that is not published or not there.          *)
LEMMA PostWrites ==
  ASSUME PostInv, [Pos!Next]_(Pos!vars), NEW i \in PostIds
  PROVE  /\ x2[i].state = "DELETED" => x2'[i] = [x2[i] EXCEPT !.views = x2'[i].views]
         /\ x2[i] = Pos!NoRow /\ x2'[i].state # "ABSENT" =>
              \E h \in Handlers : /\ txn[h].step = "create"
                                  /\ x2'[i].scope = "BRANCH" => txn[h].scope = "BRANCH"
<1>0. x2 \in [PostIds -> Pos!Row] /\ Pos!NoRow.state = "ABSENT"
  BY DEF PostInv, Pos!NoRow
<1>1. CASE x2' = x2
  BY <1>0, <1>1 DEF Pos!Row
<1>2. ASSUME NEW h \in Handlers, Pos!CreateCommit(h)
      PROVE  /\ x2[i].state = "DELETED" => x2'[i] = x2[i]
             /\ x2'[i] # x2[i] => txn[h].step = "create" /\ x2'[i].scope = txn[h].scope
  <2> DEFINE r == [Pos!NoRow EXCEPT !.state = "PUBLISHED", !.scope = txn[h].scope]
  <2>1. /\ txn[h].step = "create" /\ x2[txn[h].id] = Pos!NoRow
        /\ x2' = [x2 EXCEPT ![txn[h].id] = r]
    BY <1>2 DEF Pos!CreateCommit
  <2>2. r.scope = txn[h].scope
    BY DEF Pos!NoRow
  <2> HIDE DEF r
  <2> QED BY <1>0, <2>1, <2>2
<1>3. ASSUME NEW h \in Handlers, Pos!UpdateWrite(h) \/ Pos!DeleteWrite(h), x2' # x2
      PROVE  x2[i].state # "PUBLISHED" => x2'[i] = x2[i]
  BY <1>0, <1>3 DEF Pos!UpdateWrite, Pos!DeleteWrite, Pos!Editable, Pos!Published
<1>4. ASSUME NEW h \in Handlers, Pos!ViewWrite(h)
      PROVE  x2'[i] = [x2[i] EXCEPT !.views = x2'[i].views]
  <2> DEFINE j == txn[h].id
  <2>1. x2' = [x2 EXCEPT ![j].views = x2[j].views + 1]
    BY <1>4 DEF Pos!ViewWrite
  <2> HIDE DEF j
  <2>2. CASE i = j
    BY <1>0, <2>1, <2>2 DEF Pos!Row
  <2>3. CASE i # j
    BY <1>0, <2>1, <2>3 DEF Pos!Row
  <2> QED BY <2>2, <2>3
<1>5. x2[i] = [x2[i] EXCEPT !.views = x2[i].views]
  BY <1>0 DEF Pos!Row
<1>6. ASSUME NEW h \in Handlers, Pos!ViewWrite(h), x2[i] = Pos!NoRow
      PROVE  x2'[i].state = "ABSENT"
  BY <1>0, <1>4, <1>6 DEF Pos!Row
<1>7. x2' # x2 => \E h \in Handlers :
        Pos!CreateCommit(h) \/ Pos!UpdateWrite(h) \/ Pos!DeleteWrite(h) \/ Pos!ViewWrite(h)
  BY DEF Pos!Next, Pos!vars, Pos!Create, Pos!Find
<1>8. x2[i].state = "DELETED" => x2'[i] = [x2[i] EXCEPT !.views = x2'[i].views]
  BY <1>1, <1>2, <1>3, <1>4, <1>5, <1>7
<1>9. ASSUME x2[i] = Pos!NoRow, x2'[i].state # "ABSENT"
      PROVE  \E h \in Handlers : /\ txn[h].step = "create"
                                 /\ x2'[i].scope = "BRANCH" => txn[h].scope = "BRANCH"
  <2>1. x2'[i] # x2[i] /\ x2' # x2 /\ x2[i].state # "PUBLISHED"
    BY <1>0, <1>9
  <2>2. \E h \in Handlers : Pos!CreateCommit(h)
    BY <1>3, <1>6, <1>7, <1>9, <2>1
  <2> QED BY <1>2, <2>1, <2>2
<1> QED BY <1>8, <1>9

(* A deleted post keeps its text.                                          *)
LEMMA PostsDeletedStay == PostInv /\ [Pos!Next]_(Pos!vars) => Pos!DeletedStays
BY PostWrites DEF Pos!DeletedStays

(* Only who was let in writes to the members of the branch.                *)
LEMMA PostsNothingNew == PostInv /\ [Pos!Next]_(Pos!vars) => Pos!NothingNew
<1> SUFFICES ASSUME PostInv, [Pos!Next]_(Pos!vars), NEW i \in PostIds,
                    x2[i] = Pos!NoRow, x2'[i].state # "ABSENT", x2'[i].scope = "BRANCH"
             PROVE  x1 # "TERMINATED"
  BY DEF Pos!NothingNew
<1>1. PICK h \in Handlers : txn[h].step = "create" /\ txn[h].scope = "BRANCH"
  BY PostWrites
<1> QED BY <1>1 DEF PostInv, Gated

-----------------------------------------------------------------------------
(* All desks behind the gate                                               *)

(* An answer under way does not change a closed support request, nor an    *)
(* edition under way a deleted post.                                       *)
THEOREM FinalStays == OfficeSpec => FinalKept
<1>1. SupportAt /\ PostsAt /\ [OfficeNext]_vars =>
        [/\ desk = "support" => Sup!ClosedStays
         /\ desk = "posts" => Pos!DeletedStays]_vars
  BY SupportDesk, SupportClosedStays, PostDesk, PostsDeletedStay DEF SupportAt, PostsAt
<1> QED BY <1>1, SupportInvariant, PostsInvariant, PTL DEF OfficeSpec, FinalKept

(* Nothing new appears at a branch whose contract is terminated, however   *)
(* the termination and the requests that were let in before cross.         *)
THEOREM TerminatedStaysEmpty == OfficeSpec => NothingNewAtTerminated
<1>1. /\ AssetsAt /\ FacilitiesAt /\ SupportAt /\ DocsAt /\ CoursesAt /\ PostsAt
      /\ [OfficeNext]_vars
      => [/\ desk = "assets" => Ast!NothingNew
          /\ desk = "facilities" => Fac!NothingNew
          /\ desk = "support" => Sup!NothingNew
          /\ desk = "documents" => Hrd!NothingNew
          /\ desk = "courses" => Crs!NothingNew
          /\ desk = "posts" => Pos!NothingNew]_vars
  BY AssetDesk, AssetsNothingNew, FacilityDesk, FacilitiesNothingNew, SupportDesk,
     SupportNothingNew, DocDesk, DocsNothingNew, CourseDesk, CoursesNothingNew, PostDesk,
     PostsNothingNew
  DEF AssetsAt, FacilitiesAt, SupportAt, DocsAt, CoursesAt, PostsAt
<1> QED
  BY <1>1, AssetsInvariant, FacilitiesInvariant, SupportInvariant, DocsInvariant,
     CoursesInvariant, PostsInvariant, PTL
  DEF OfficeSpec, NothingNewAtTerminated
=============================================================================
