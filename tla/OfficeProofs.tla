------------------------------ MODULE OfficeProofs ------------------------------
(***************************************************************************)
(* Proofs about the other desks of Office, contracts, programs and         *)
(* permissions, and about all of them.                                     *)
(***************************************************************************)
EXTENDS PeopleProofs, GateProofs, SequenceTheorems

-----------------------------------------------------------------------------
(* Programs                                                                *)

(* A pricing, price and capacity that fit each other.                      *)
Fits(p) ==
  /\ p.pricing = "PAID_SESSION" => p.capacity # None /\ p.capacity >= 1
  /\ p.pricing = "FREE_ACCESS" => p.price = 0 /\ p.capacity = None

ProgramTxn ==
  {Prg!Idle, [step |-> "report"]}
  \cup [step: {"update"}, to: Prg!Triple]
  \cup [step: {"status"}, saw: DOMAIN Prg!NextStatus, to: DOMAIN Prg!NextStatus]
  \cup [step: {"slot"}, slot: Slots, seats: Capacities]
  \cup [step: {"book"}, member: Visitors, slot: Slots]

(* The row fits and so does what an update that read it is about to write, *)
(* though it writes all three whatever the row holds by then; a program    *)
(* that exists has a pricing and a price.                                  *)
ProgramInv ==
  /\ x1 \in Prg!Program
  /\ x2 \in [Slots -> Prg!Slot]
  /\ x3 \subseteq Visitors \X Slots
  /\ x4 = None \/ x4 \subseteq Visitors \X Slots
  /\ txn \in [Handlers -> ProgramTxn]
  /\ Fits(x1)
  /\ x1.status # "ABSENT" => x1.pricing # None /\ x1.price # None
  /\ \A h \in Handlers :
       /\ txn[h].step = "update" => Fits(txn[h].to)
       /\ txn[h].step = "status" => txn[h].saw # "ABSENT"

(* At the desk of programs only its handlers work.                         *)
LEMMA ProgramDesk ==
  ASSUME [OfficeNext]_vars, desk = "programs"
  PROVE  desk' = "programs" /\ [Prg!Next]_(Prg!vars)
BY DEF OfficeNext, vars, Prg!vars, From3, From5

LEMMA ProgramFacts ==
  /\ Prices \subseteq Nat /\ Capacities \subseteq Nat /\ None \notin Nat
  /\ None \notin {"FREE_ACCESS", "PAID_SESSION", "PT_PACKAGE"}
BY OfficeAssumption

(* The life cycle of a program: one that is not there has no next.         *)
LEMMA ProgramCycle ==
  /\ DOMAIN Prg!NextStatus = {"PREPARING", "RUNNING", "PAUSED", "ENDED", "ABSENT"}
  /\ Prg!NextStatus["ABSENT"] = {}
BY DEF Prg!NextStatus

LEMMA ProgramInit == Prg!Init => ProgramInv
<1> SUFFICES ASSUME Prg!Init PROVE ProgramInv
  OBVIOUS
<1>1. Prg!Absent \in Prg!Program /\ Prg!Absent.pricing = None /\ Prg!Absent.status = "ABSENT"
  BY ProgramCycle DEF Prg!Absent, Prg!Program
<1>2. x1 = Prg!Absent /\ x3 = {} /\ x4 = None
  BY DEF Prg!Init
<1>3. x2 \in [Slots -> Prg!Slot]
  BY DEF Prg!Init, Prg!Slot
<1>4. txn \in [Handlers -> ProgramTxn] /\ \A h \in Handlers : txn[h].step = "idle"
  BY DEF Prg!Init, ProgramTxn, Prg!Idle
<1> QED BY <1>1, <1>2, <1>3, <1>4, ProgramFacts DEF ProgramInv, Fits

(* What is written fits, whatever of it was asked for.                     *)
LEMMA NormalizedFits ==
  ASSUME NEW pricing \in Prg!Pricing, NEW price \in Prices \cup {0},
         NEW capacity \in Capacities \cup {None}, Prg!WithCapacity(pricing, capacity)
  PROVE  /\ Prg!Normalized(pricing, price, capacity) \in Prg!Triple
         /\ Fits(Prg!Normalized(pricing, price, capacity))
<1>1. CASE pricing = "FREE_ACCESS"
  BY <1>1, ProgramFacts DEF Prg!Normalized, Prg!Triple, Fits, Prg!Pricing
<1>2. CASE pricing = "PAID_SESSION"
  BY <1>2, ProgramFacts DEF Prg!Normalized, Prg!Triple, Fits, Prg!WithCapacity, Prg!Pricing
<1>3. CASE pricing = "PT_PACKAGE"
  BY <1>3, ProgramFacts DEF Prg!Normalized, Prg!Triple, Fits, Prg!Pricing
<1> QED BY <1>1, <1>2, <1>3 DEF Prg!Pricing

(* A row that is written so fits, too.                                     *)
LEMMA PricedFits ==
  ASSUME NEW row \in Prg!Program, NEW p \in Prg!Triple, Fits(p)
  PROVE  /\ Prg!Priced(row, p) \in Prg!Program /\ Fits(Prg!Priced(row, p))
         /\ Prg!Priced(row, p).status = row.status
         /\ Prg!Priced(row, p).pricing # None /\ Prg!Priced(row, p).price # None
<1> DEFINE r == Prg!Priced(row, p)
<1>1. /\ r \in Prg!Program /\ r.status = row.status /\ r.pricing = p.pricing
      /\ r.price = p.price /\ r.capacity = p.capacity
  BY DEF Prg!Priced, Prg!Program, Prg!Triple
<1> HIDE DEF r
<1>2. r.pricing # None
  <2>1. p.pricing \in {"FREE_ACCESS", "PAID_SESSION", "PT_PACKAGE"}
    BY DEF Prg!Triple, Prg!Pricing
  <2> QED BY <1>1, <2>1, ProgramFacts
<1>2a. r.price # None
  <2>0. p.price \in Prices \cup {0}
    BY DEF Prg!Triple
  <2>1. p.price \in Nat
    <3>1. \A x \in Prices \cup {0} : x \in Nat
      BY ProgramFacts
    <3> QED BY <2>0, <3>1
  <2> QED BY <1>1, <2>1, ProgramFacts
<1>3. Fits(r)
  BY <1>1 DEF Fits
<1> QED BY <1>1, <1>2, <1>2a, <1>3 DEF r

(* A step of one handler that leaves the program alone.                    *)
LEMMA ProgramQuiet ==
  ASSUME ProgramInv, x1' = x1, x2' \in [Slots -> Prg!Slot], x3' \subseteq Visitors \X Slots,
         x4' = None \/ x4' \subseteq Visitors \X Slots,
         NEW h \in Handlers, NEW t \in ProgramTxn, txn' = [txn EXCEPT ![h] = t],
         t.step = "update" => Fits(t.to), t.step = "status" => t.saw # "ABSENT"
  PROVE  ProgramInv'
<1>1. \A g \in Handlers : txn'[g] = IF g = h THEN t ELSE txn[g]
  BY DEF ProgramInv
<1> QED BY <1>1 DEF ProgramInv, Fits

LEMMA ProgramStep == ProgramInv /\ [Prg!Next]_(Prg!vars) => ProgramInv'
<1> SUFFICES ASSUME ProgramInv, [Prg!Next]_(Prg!vars) PROVE ProgramInv'
  OBVIOUS
<1>0. /\ Prg!Idle \in ProgramTxn /\ Prg!Idle.step = "idle"
      /\ [step |-> "report"] \in ProgramTxn
  BY DEF ProgramTxn, Prg!Idle
<1>00. /\ x2 \in [Slots -> Prg!Slot] /\ x3 \subseteq Visitors \X Slots
       /\ x4 = None \/ x4 \subseteq Visitors \X Slots
  BY DEF ProgramInv
<1>1. ASSUME NEW ask \in Prg!Asks, Prg!Create(ask)
      PROVE  ProgramInv'
  <2> DEFINE p == Prg!Normalized(ask.pricing, ask.price, ask.capacity)
             row == [Prg!Absent EXCEPT !.status = "PREPARING"]
  <2>1. p \in Prg!Triple /\ Fits(p)
    BY <1>1, NormalizedFits DEF Prg!Create, Prg!Asks
  <2>2. row \in Prg!Program /\ row.status = "PREPARING"
    BY ProgramCycle DEF Prg!Absent, Prg!Program
  <2>3. x1' = Prg!Priced(row, p) /\ UNCHANGED <<x2, x3, x4, txn>>
    BY <1>1 DEF Prg!Create
  <2> HIDE DEF p, row
  <2>4. x1' \in Prg!Program /\ Fits(x1)' /\ x1'.pricing # None /\ x1'.price # None
    BY <2>1, <2>2, <2>3, PricedFits DEF Fits
  <2> QED BY <2>3, <2>4 DEF ProgramInv, Fits
<1>2. ASSUME NEW h \in Handlers, NEW ask \in Prg!Asks, Prg!Update(h, ask)
      PROVE  ProgramInv'
  <2> DEFINE pricing == Prg!Or(ask.pricing, x1.pricing)
             price == Prg!Or(ask.price, x1.price)
             capacity == Prg!Or(ask.capacity, x1.capacity)
             p == Prg!Normalized(pricing, price, capacity)
             t == [step |-> "update", to |-> p]
  <2>1. /\ pricing \in Prg!Pricing /\ price \in Prices \cup {0}
        /\ capacity \in Capacities \cup {None}
    BY <1>2 DEF Prg!Update, Prg!Or, Prg!Asks, ProgramInv, Prg!Program
  <2>2. Prg!WithCapacity(pricing, capacity)
    BY <1>2 DEF Prg!Update
  <2>3. txn' = [txn EXCEPT ![h] = t] /\ UNCHANGED <<x1, x2, x3, x4>>
    BY <1>2 DEF Prg!Update, Prg!Begin
  <2> HIDE DEF pricing, price, capacity
  <2>4. p \in Prg!Triple /\ Fits(p)
    BY <2>1, <2>2, NormalizedFits
  <2> HIDE DEF p
  <2>5. t \in ProgramTxn /\ t.step = "update" /\ t.to = p
    BY <2>4 DEF ProgramTxn
  <2> HIDE DEF t
  <2> QED BY <1>00, <2>3, <2>4, <2>5, ProgramQuiet
<1>3. ASSUME NEW h \in Handlers, Prg!UpdateWrite(h)
      PROVE  ProgramInv'
  <2>1. txn[h].to \in Prg!Triple /\ Fits(txn[h].to)
    BY <1>3 DEF Prg!UpdateWrite, ProgramInv, ProgramTxn, Prg!Idle
  <2>2. /\ x1' = Prg!Priced(x1, txn[h].to) /\ UNCHANGED <<x2, x3, x4>>
        /\ txn' = [txn EXCEPT ![h] = Prg!Idle]
    BY <1>3 DEF Prg!UpdateWrite, Prg!End
  <2>3. x1' \in Prg!Program /\ Fits(x1)' /\ x1'.pricing # None /\ x1'.price # None
    BY <2>1, <2>2, PricedFits DEF ProgramInv, Fits
  <2>4. \A g \in Handlers : txn'[g] = IF g = h THEN Prg!Idle ELSE txn[g]
    BY <2>2 DEF ProgramInv
  <2> QED BY <1>0, <2>2, <2>3, <2>4 DEF ProgramInv, Fits
<1>4. ASSUME NEW h \in Handlers, NEW to \in DOMAIN Prg!NextStatus, Prg!UpdateStatus(h, to)
      PROVE  ProgramInv'
  <2> DEFINE t == [step |-> "status", saw |-> x1.status, to |-> to]
  <2>1. x1.status \in DOMAIN Prg!NextStatus
    BY DEF ProgramInv, Prg!Program
  <2>2. x1.status # "ABSENT"
    BY <1>4, ProgramCycle DEF Prg!UpdateStatus
  <2>3. t \in ProgramTxn /\ t.step = "status" /\ t.saw = x1.status
    BY <2>1 DEF ProgramTxn
  <2>4. txn' = [txn EXCEPT ![h] = t] /\ UNCHANGED <<x1, x2, x3, x4>>
    BY <1>4 DEF Prg!UpdateStatus, Prg!Begin
  <2> HIDE DEF t
  <2> QED BY <1>00, <2>2, <2>3, <2>4, ProgramQuiet
<1>5. ASSUME NEW h \in Handlers, Prg!StatusWrite(h)
      PROVE  ProgramInv'
  <2>1. txn[h].to \in DOMAIN Prg!NextStatus /\ txn[h].saw # "ABSENT"
    BY <1>5 DEF Prg!StatusWrite, ProgramInv, ProgramTxn, Prg!Idle
  <2>2. CASE x1.status = txn[h].saw
    <3>1. /\ x1' = [x1 EXCEPT !.status = txn[h].to] /\ UNCHANGED <<x2, x3>> /\ x4' = None
          /\ txn' = [txn EXCEPT ![h] = [step |-> "report"]]
      BY <1>5, <2>2 DEF Prg!StatusWrite
    <3>2. /\ x1' \in Prg!Program /\ x1'.pricing = x1.pricing /\ x1'.price = x1.price
          /\ x1'.capacity = x1.capacity
      BY <2>1, <3>1 DEF ProgramInv, Prg!Program
    <3>3. x1.pricing # None /\ x1.price # None
      BY <2>1, <2>2 DEF ProgramInv
    <3>4. Fits(x1)'
      BY <3>2 DEF ProgramInv, Fits
    <3>5. \A g \in Handlers : txn'[g] = IF g = h THEN [step |-> "report"] ELSE txn[g]
      BY <3>1 DEF ProgramInv
    <3> QED BY <1>0, <3>1, <3>2, <3>3, <3>4, <3>5 DEF ProgramInv, Fits
  <2>3. CASE x1.status # txn[h].saw
    BY <1>0, <1>00, <1>5, <2>3, ProgramQuiet DEF Prg!StatusWrite, Prg!End
  <2> QED BY <2>2, <2>3
<1>6. ASSUME NEW h \in Handlers, Prg!StatusReport(h)
      PROVE  ProgramInv'
  BY <1>0, <1>00, <1>6, ProgramQuiet DEF Prg!StatusReport, Prg!End, Prg!FutureActive
<1>7. ASSUME NEW h \in Handlers, NEW s \in Slots, NEW capacity \in Capacities \cup {None},
             Prg!CreateSlot(h, s, capacity)
      PROVE  ProgramInv'
  <2> DEFINE n == Prg!Or(capacity, x1.capacity)
             t == [step |-> "slot", slot |-> s, seats |-> n]
  <2>1. n \in Capacities
    BY <1>7 DEF Prg!CreateSlot, Prg!Or, ProgramInv, Prg!Program
  <2>2. txn' = [txn EXCEPT ![h] = t] /\ UNCHANGED <<x1, x2, x3, x4>>
    BY <1>7 DEF Prg!CreateSlot, Prg!Begin
  <2> HIDE DEF n
  <2>3. t \in ProgramTxn /\ t.step = "slot"
    BY <2>1 DEF ProgramTxn
  <2> HIDE DEF t
  <2> QED BY <1>00, <2>2, <2>3, ProgramQuiet
<1>8. ASSUME NEW h \in Handlers, Prg!SlotInsert(h)
      PROVE  ProgramInv'
  <2>1. txn[h].slot \in Slots /\ txn[h].seats \in Capacities
    BY <1>8 DEF Prg!SlotInsert, ProgramInv, ProgramTxn, Prg!Idle
  <2>2. /\ x2' = [x2 EXCEPT ![txn[h].slot] = [seats |-> txn[h].seats, phase |-> "ahead"]]
        /\ UNCHANGED <<x1, x3, x4>> /\ txn' = [txn EXCEPT ![h] = Prg!Idle]
    BY <1>8 DEF Prg!SlotInsert, Prg!End
  <2>3. [seats |-> txn[h].seats, phase |-> "ahead"] \in Prg!Slot
    BY <2>1 DEF Prg!Slot
  <2>4. x2' \in [Slots -> Prg!Slot]
    BY <1>00, <2>2, <2>3
  <2> QED BY <1>0, <1>00, <2>2, <2>4, ProgramQuiet
<1>9. ASSUME NEW h \in Handlers, NEW m \in Visitors, NEW s \in Slots, Prg!Book(h, m, s)
      PROVE  ProgramInv'
  <2> DEFINE t == [step |-> "book", member |-> m, slot |-> s]
  <2>1. t \in ProgramTxn /\ t.step = "book"
    BY DEF ProgramTxn
  <2>2. txn' = [txn EXCEPT ![h] = t] /\ UNCHANGED <<x1, x2, x3, x4>>
    BY <1>9 DEF Prg!Book, Prg!Begin
  <2> HIDE DEF t
  <2> QED BY <1>00, <2>1, <2>2, ProgramQuiet
<1>10. ASSUME NEW h \in Handlers, Prg!BookInsert(h)
       PROVE  ProgramInv'
  <2>1. txn[h].member \in Visitors /\ txn[h].slot \in Slots
    BY <1>10 DEF Prg!BookInsert, ProgramInv, ProgramTxn, Prg!Idle
  <2>2. /\ x3' = x3 \cup {<<txn[h].member, txn[h].slot>>}
        /\ UNCHANGED <<x1, x2, x4>> /\ txn' = [txn EXCEPT ![h] = Prg!Idle]
    BY <1>10 DEF Prg!BookInsert, Prg!End
  <2>3. x3' \subseteq Visitors \X Slots
    BY <1>00, <2>1, <2>2
  <2> QED BY <1>0, <1>00, <2>2, <2>3, ProgramQuiet
<1>11. ASSUME NEW b \in x3, Prg!Leave(b)
       PROVE  ProgramInv'
  BY <1>11 DEF Prg!Leave, ProgramInv, Fits
<1>12. ASSUME NEW s \in Slots, Prg!Pass(s)
       PROVE  ProgramInv'
  <2>1. PICK i \in 1..2 : x2' = [x2 EXCEPT ![s].phase = Prg!Phases[i + 1]]
    BY <1>12 DEF Prg!Pass
  <2>1a. Prg!Phases[1 + 1] = "started" /\ Prg!Phases[2 + 1] = "past"
    BY DEF Prg!Phases
  <2> DEFINE phase == Prg!Phases[i + 1]
  <2>1b. phase \in {"ahead", "started", "past"}
    <3>1. i = 1 \/ i = 2
      OBVIOUS
    <3> QED BY <2>1a, <3>1
  <2>1c. x2' = [x2 EXCEPT ![s].phase = phase]
    BY <2>1
  <2> HIDE DEF phase
  <2>2. x2' \in [Slots -> Prg!Slot]
    BY <1>00, <2>1b, <2>1c DEF Prg!Slot
  <2> QED BY <1>12, <2>2 DEF Prg!Pass, ProgramInv, Fits
<1>13. ASSUME NEW h \in Handlers, Prg!Abort(h)
       PROVE  ProgramInv'
  BY <1>0, <1>00, <1>13, ProgramQuiet DEF Prg!Abort, Prg!End
<1>14. CASE UNCHANGED Prg!vars
  BY <1>14 DEF Prg!vars, ProgramInv, Fits
<1> QED
  BY <1>1, <1>2, <1>3, <1>4, <1>5, <1>6, <1>7, <1>8, <1>9, <1>10, <1>11, <1>12, <1>13, <1>14
  DEF Prg!Next

(* It holds whenever the desk of programs is at work.                      *)
ProgramsAt == desk = "programs" => ProgramInv
LEMMA ProgramsInvariant == OfficeSpec => []ProgramsAt
<1>1. OfficeInit => ProgramsAt
  BY ProgramInit DEF OfficeInit, ProgramsAt
<1>2. ProgramsAt /\ [OfficeNext]_vars => ProgramsAt'
  <2> SUFFICES ASSUME ProgramsAt, [OfficeNext]_vars, desk' = "programs" PROVE ProgramInv'
    BY DEF ProgramsAt
  <2>1. desk = "programs"
    BY DEF OfficeNext, vars
  <2> QED BY <2>1, ProgramDesk, ProgramStep DEF ProgramsAt
<1> QED BY <1>1, <1>2, PTL DEF OfficeSpec

(* The price and the capacity of a program fit its pricing whatever two    *)
(* managers change at once, each from the row as it was read.              *)
THEOREM PricingFits == OfficeSpec => []PricingAgrees
<1>1. ProgramsAt => PricingAgrees
  BY DEF ProgramsAt, ProgramInv, Fits, PricingAgrees, Prg!PricingAgrees
<1> QED BY <1>1, ProgramsInvariant, PTL

LEMMA ProgramsTyped == ProgramInv => Prg!TypeOK
<1> SUFFICES ASSUME ProgramInv PROVE Prg!TypeOK
  OBVIOUS
<1>1. \A h \in Handlers : txn[h] \in ProgramTxn
  BY DEF ProgramInv
<1> QED BY <1>1 DEF ProgramInv, Prg!TypeOK, ProgramTxn

-----------------------------------------------------------------------------
(* Permissions                                                             *)

Exception == BOOLEAN \cup {None}
PermissionTxn ==
  {Prm!Idle}
  \cup [step: {"fill"}, env: Envs, version: 0..MaxChanges, read: 0..LastTick]
  \cup [step: {"role", "invalidate"}, env: Envs, allow: BOOLEAN, seen: 0..MaxChanges]
  \cup [step: {"own"}, env: Envs, before: Exception, next: Exception]

PermissionTypes ==
  /\ x1 \in {"role", "own"} /\ x2 \in 0..LastTick
  /\ x3 \in Seq(Prm!Entry) /\ Len(x3) <= MaxChanges /\ x4 \in BOOLEAN
  /\ x5 \in Seq(Prm!OwnEntry) /\ x6 \in Exception
  /\ x7 \in [Envs -> Prm!Cached \cup {None}]
  /\ x8 \in [Envs -> 0..MaxChanges]
  /\ txn \in [Handlers -> PermissionTxn]

(* What a log says at a version, and whether each of its entries starts    *)
(* where the one before it ended.                                          *)
Says(log, v) == IF v = 0 THEN TRUE ELSE log[v].after
Chained(log) ==
  \A v \in 1..Len(log) : log[v].before = Says(log, v - 1) /\ log[v].after # log[v].before
LastSaid(log) == IF log = <<>> THEN None ELSE log[Len(log)].after

(* A map of version v was the newest at a time: the change that follows it *)
(* came then or later.                                                     *)
NewestAt(log, v, at) == v <= Len(log) /\ (v < Len(log) => log[v + 1].at >= at)

(* A read under way was of the newest version, not longer ago than a read  *)
(* takes.  In an environment that serves one request at a time it has seen *)
(* every change applied there.                                             *)
TxnFresh(t, log, now, applied) ==
  /\ t.step = "fill" =>
       /\ NewestAt(log, t.version, t.read)
       /\ t.read <= now /\ now <= t.read + ReadLimit
       /\ t.env \in Serial => t.version >= applied[t.env]
  /\ t.step \in {"role", "invalidate"} => t.seen <= Len(log)

(* A cached map was the newest not longer than a read before it was kept.  *)
CacheFresh(c, e, log, now, applied) ==
  c # None =>
    /\ NewestAt(log, c.version, c.at - ReadLimit)
    /\ c.at <= now
    /\ e \in Serial => c.version >= applied[e]

OneAtATime ==
  \A g, h \in Handlers :
    /\ txn[g].step # "idle" /\ txn[h].step # "idle"
    /\ txn[g].env = txn[h].env /\ txn[g].env \in Serial
    => g = h

PermissionInv ==
  /\ PermissionTypes
  /\ Chained(x3) /\ x4 = ~Says(x3, Len(x3)) /\ x6 = LastSaid(x5)
  /\ \A h \in Handlers : TxnFresh(txn[h], x3, x2, x8)
  /\ \A e \in Envs : CacheFresh(x7[e], e, x3, x2, x8) /\ x8[e] <= Len(x3)
  /\ OneAtATime

(* At the desk of permissions only its handlers work.                      *)
LEMMA PermissionDesk ==
  ASSUME [OfficeNext]_vars, desk = "permissions"
  PROVE  desk' = "permissions" /\ [Prm!Next]_(Prm!vars)
BY DEF OfficeNext, vars, Prm!vars, Prm!tables, From3

LEMMA PermissionFacts ==
  Lifetime \in Nat /\ ReadLimit \in Nat /\ LastTick \in Nat /\ MaxChanges \in Nat
BY OfficeAssumption

LEMMA SaysFirst == \A log : Says(log, 0) = TRUE
BY DEF Says

LEMMA SaysThen == \A log, v : v # 0 => Says(log, v) = log[v].after
BY DEF Says

LEMMA PermissionInit == Prm!Init => PermissionInv
<1> SUFFICES ASSUME Prm!Init PROVE PermissionInv
  OBVIOUS
<1>0. /\ x3 = <<>> /\ x4 = FALSE /\ x5 = <<>> /\ x6 = None
      /\ x7 = [e \in Envs |-> None] /\ x8 = [e \in Envs |-> 0]
      /\ x1 \in {"role", "own"} /\ x2 \in {0, LastTick}
  BY DEF Prm!Init
<1>1. PermissionTypes /\ \A h \in Handlers : txn[h].step = "idle"
  <2>1. /\ txn \in [Handlers -> PermissionTxn]
        /\ \A h \in Handlers : txn[h].step = "idle"
    BY DEF Prm!Init, PermissionTxn, Prm!Idle
  <2>2. x3 \in Seq(Prm!Entry) /\ Len(x3) <= MaxChanges /\ x5 \in Seq(Prm!OwnEntry)
    BY <1>0, PermissionFacts
  <2>3. x4 \in BOOLEAN /\ x6 \in Exception
    BY <1>0 DEF Exception
  <2>4. x2 \in 0..LastTick /\ x8 \in [Envs -> 0..MaxChanges]
    BY <1>0, PermissionFacts
  <2> QED BY <1>0, <2>1, <2>2, <2>3, <2>4 DEF PermissionTypes
<1>2. Chained(x3) /\ x4 = ~Says(x3, Len(x3)) /\ x6 = LastSaid(x5)
  <2>1. Len(x3) = 0
    BY <1>0
  <2>2. Says(x3, Len(x3)) = TRUE
    BY <2>1, SaysFirst
  <2>3. Chained(x3)
    BY <1>0 DEF Chained
  <2>4. x6 = LastSaid(x5)
    BY <1>0 DEF LastSaid
  <2> QED BY <1>0, <2>2, <2>3, <2>4
<1>3. \A h \in Handlers : TxnFresh(txn[h], x3, x2, x8)
  BY <1>1 DEF TxnFresh
<1>4. \A e \in Envs : CacheFresh(x7[e], e, x3, x2, x8) /\ x8[e] <= Len(x3)
  BY DEF Prm!Init, CacheFresh
<1> QED BY <1>1, <1>2, <1>3, <1>4 DEF PermissionInv, OneAtATime

(* One more entry changes nothing of those before it.                      *)
LEMMA LogGrows ==
  ASSUME NEW S, NEW log \in Seq(S), NEW e \in S, NEW z, z = Append(log, e)
  PROVE  /\ z \in Seq(S) /\ z # <<>>
         /\ Len(z) = Len(log) + 1 /\ z[Len(z)] = e
         /\ \A i \in 1..Len(log) : z[i] = log[i]
OBVIOUS

LEMMA NewestGrows ==
  ASSUME NEW log \in Seq(Prm!Entry), NEW e \in Prm!Entry, NEW v \in Nat, NEW at \in Int,
         NewestAt(log, v, at), e.at >= at
  PROVE  NewestAt(Append(log, e), v, at)
<1> DEFINE z == Append(log, e)
<1>1. /\ Len(z) = Len(log) + 1 /\ z[Len(z)] = e
      /\ \A i \in 1..Len(log) : z[i] = log[i]
  BY LogGrows
<1> SUFFICES NewestAt(z, v, at)
  OBVIOUS
<1> HIDE DEF z
<1>2. Len(log) \in Nat
  OBVIOUS
<1>3. CASE v < Len(log)
  <2>1. v + 1 \in 1..Len(log)
    BY <1>2, <1>3
  <2> QED BY <1>1, <1>2, <1>3, <2>1 DEF NewestAt
<1>4. CASE v = Len(log)
  <2>1. z[v + 1] = e /\ v <= Len(z)
    BY <1>1, <1>2, <1>4
  <2> QED BY <2>1 DEF NewestAt
<1> QED BY <1>2, <1>3, <1>4 DEF NewestAt

(* A request begins, goes on in the same environment or ends, and changes  *)
(* nothing else.                                                           *)
LEMMA PermissionQuiet ==
  ASSUME PermissionInv, UNCHANGED <<x1, x2, x3, x4, x5, x6, x7, x8>>,
         NEW h \in Handlers, NEW t \in PermissionTxn, txn' = [txn EXCEPT ![h] = t],
         TxnFresh(t, x3, x2, x8),
         \/ t.step = "idle"
         \/ txn[h].step # "idle" /\ t.env = txn[h].env
         \/ t.env \notin Serial \/ Prm!Serving(t.env) = {}
  PROVE  PermissionInv'
<1>1. \A g \in Handlers : txn'[g] = IF g = h THEN t ELSE txn[g]
  BY DEF PermissionInv, PermissionTypes
<1>2. PermissionTypes'
  BY DEF PermissionInv, PermissionTypes
<1>3. OneAtATime'
  BY <1>1 DEF PermissionInv, OneAtATime, Prm!Serving
<1>4. \A g \in Handlers : TxnFresh(txn'[g], x3', x2', x8')
  BY <1>1 DEF PermissionInv
<1>5. Chained(x3') /\ x4' = ~Says(x3', Len(x3')) /\ x6' = LastSaid(x5')
  BY DEF PermissionInv
<1>6. \A e \in Envs : CacheFresh(x7'[e], e, x3', x2', x8') /\ x8'[e] <= Len(x3')
  BY DEF PermissionInv
<1> QED BY <1>2, <1>3, <1>4, <1>5, <1>6 DEF PermissionInv

(* A request ends: the handler is free again.                              *)
LEMMA PermissionEnd ==
  ASSUME PermissionInv, NEW h \in Handlers, Prm!End(h)
  PROVE  /\ \A g \in Handlers : txn'[g] = IF g = h THEN Prm!Idle ELSE txn[g]
         /\ txn' \in [Handlers -> PermissionTxn] /\ OneAtATime'
         /\ Prm!Idle.step = "idle"
<1>1. Prm!Idle \in PermissionTxn /\ Prm!Idle.step = "idle"
  BY DEF PermissionTxn, Prm!Idle
<1>2. \A g \in Handlers : txn'[g] = IF g = h THEN Prm!Idle ELSE txn[g]
  BY DEF Prm!End, PermissionInv, PermissionTypes
<1>3. txn' \in [Handlers -> PermissionTxn]
  BY <1>1 DEF Prm!End, PermissionInv, PermissionTypes
<1> QED BY <1>1, <1>2, <1>3 DEF PermissionInv, OneAtATime

LEMMA PermissionStep == PermissionInv /\ [Prm!Next]_(Prm!vars) => PermissionInv'
<1> SUFFICES ASSUME PermissionInv, [Prm!Next]_(Prm!vars) PROVE PermissionInv'
  OBVIOUS
<1> USE PermissionFacts
<1>0. PermissionTypes /\ OneAtATime
  BY DEF PermissionInv
<1>1. CASE Prm!Tick
  <2>1. /\ x2' = x2 + 1 /\ x2 < LastTick /\ UNCHANGED <<x1, x3, x4, x5, x6, x7, x8, txn>>
        /\ \A h \in Handlers : txn[h].step = "fill" => x2 - txn[h].read < ReadLimit
    BY <1>1 DEF Prm!Tick, Prm!tables
  <2>2. x2' \in 0..LastTick /\ x2 \in Nat
    BY <1>0, <2>1 DEF PermissionTypes
  <2>3. ASSUME NEW h \in Handlers PROVE TxnFresh(txn[h], x3, x2', x8)
    <3>1. TxnFresh(txn[h], x3, x2, x8)
      BY DEF PermissionInv
    <3>2. txn[h].step = "fill" => txn[h].read \in Nat
      BY <1>0 DEF PermissionTypes, PermissionTxn, Prm!Idle
    <3> QED BY <2>1, <2>2, <3>1, <3>2 DEF TxnFresh
  <2>4. ASSUME NEW e \in Envs PROVE CacheFresh(x7[e], e, x3, x2', x8)
    <3>1. CacheFresh(x7[e], e, x3, x2, x8)
      BY DEF PermissionInv
    <3>2. x7[e] # None => x7[e].at \in Nat
      BY <1>0 DEF PermissionTypes, Prm!Cached
    <3> QED BY <2>1, <2>2, <3>1, <3>2 DEF CacheFresh
  <2>5. PermissionTypes' /\ OneAtATime'
    BY <1>0, <2>1, <2>2 DEF PermissionTypes, OneAtATime
  <2>6. \A h \in Handlers : TxnFresh(txn'[h], x3', x2', x8')
    BY <2>1, <2>3
  <2>7. \A e \in Envs : CacheFresh(x7'[e], e, x3', x2', x8') /\ x8'[e] <= Len(x3')
    BY <2>1, <2>4 DEF PermissionInv
  <2>8. Chained(x3') /\ x4' = ~Says(x3', Len(x3')) /\ x6' = LastSaid(x5')
    BY <2>1 DEF PermissionInv
  <2> QED BY <2>5, <2>6, <2>7, <2>8 DEF PermissionInv
<1>2. ASSUME NEW e \in Envs, Prm!Recycle(e)
      PROVE  PermissionInv'
  <2>1. x7' = [x7 EXCEPT ![e] = None] /\ UNCHANGED <<x1, x2, x3, x4, x5, x6, x8, txn>>
    BY <1>2 DEF Prm!Recycle, Prm!tables
  <2>2. PermissionTypes' /\ OneAtATime'
    BY <1>0, <2>1 DEF PermissionTypes, OneAtATime
  <2>3. \A d \in Envs : x7'[d] = IF d = e THEN None ELSE x7[d]
    BY <1>0, <2>1 DEF PermissionTypes
  <2>4. \A d \in Envs : CacheFresh(x7'[d], d, x3', x2', x8') /\ x8'[d] <= Len(x3')
    BY <2>1, <2>3 DEF PermissionInv, CacheFresh
  <2>5. \A h \in Handlers : TxnFresh(txn'[h], x3', x2', x8')
    BY <2>1 DEF PermissionInv
  <2>6. Chained(x3') /\ x4' = ~Says(x3', Len(x3')) /\ x6' = LastSaid(x5')
    BY <2>1 DEF PermissionInv
  <2> QED BY <2>2, <2>4, <2>5, <2>6 DEF PermissionInv
<1>3. ASSUME NEW h \in Handlers, Prm!Store(h)
      PROVE  PermissionInv'
  <2> DEFINE t == txn[h]
             c == [at |-> x2, version |-> txn[h].version]
  <2>1. /\ t.step = "fill" /\ x7' = [x7 EXCEPT ![t.env] = c] /\ Prm!End(h)
        /\ UNCHANGED <<x1, x2, x3, x4, x5, x6, x8>>
    BY <1>3 DEF Prm!Store, Prm!tables
  <2>2. t.env \in Envs /\ t.version \in 0..MaxChanges /\ t.read \in 0..LastTick
    <3>1. t \in PermissionTxn
      BY <1>0 DEF PermissionTypes
    <3>2. t \in [step: {"fill"}, env: Envs, version: 0..MaxChanges, read: 0..LastTick]
      BY <2>1, <3>1 DEF PermissionTxn, Prm!Idle
    <3> QED BY <3>2
  <2>3. c \in Prm!Cached /\ c.at = x2 /\ c.version = t.version
    BY <1>0, <2>2 DEF PermissionTypes, Prm!Cached
  <2>4. TxnFresh(t, x3, x2, x8)
    BY DEF PermissionInv
  <2>5. CacheFresh(c, t.env, x3, x2, x8)
    <3>1. x2 \in Nat /\ Len(x3) \in Nat
      BY <1>0 DEF PermissionTypes
    <3>2. t.version < Len(x3) => x3[t.version + 1].at \in Nat
      <4>1. t.version < Len(x3) => t.version + 1 \in 1..Len(x3)
        BY <2>2, <3>1
      <4>2. t.version < Len(x3) => x3[t.version + 1] \in Prm!Entry
        BY <1>0, <4>1 DEF PermissionTypes
      <4> QED BY <4>2 DEF Prm!Entry
    <3> QED BY SMTT(40), <2>1, <2>2, <2>3, <2>4, <3>1, <3>2 DEF CacheFresh, TxnFresh, NewestAt
  <2> HIDE DEF c
  <2>6. /\ x7' \in [Envs -> Prm!Cached \cup {None}]
        /\ \A d \in Envs : x7'[d] = IF d = t.env THEN c ELSE x7[d]
    BY <1>0, <2>1, <2>2, <2>3 DEF PermissionTypes
  <2>7. \A d \in Envs : CacheFresh(x7'[d], d, x3', x2', x8') /\ x8'[d] <= Len(x3')
    BY <2>1, <2>5, <2>6 DEF PermissionInv
  <2>8. /\ \A g \in Handlers : txn'[g] = IF g = h THEN Prm!Idle ELSE txn[g]
        /\ txn' \in [Handlers -> PermissionTxn] /\ OneAtATime'
        /\ Prm!Idle.step = "idle"
    BY <2>1, PermissionEnd
  <2>9. \A g \in Handlers : TxnFresh(txn'[g], x3', x2', x8')
    BY <2>1, <2>8 DEF PermissionInv, TxnFresh
  <2>10. PermissionTypes'
    BY <1>0, <2>1, <2>6, <2>8 DEF PermissionTypes
  <2>11. Chained(x3') /\ x4' = ~Says(x3', Len(x3')) /\ x6' = LastSaid(x5')
    BY <2>1 DEF PermissionInv
  <2> QED BY <2>7, <2>8, <2>9, <2>10, <2>11 DEF PermissionInv
<1>4. ASSUME NEW h \in Handlers, NEW e \in Envs, Prm!Judge(h, e)
      PROVE  PermissionInv'
  <2> DEFINE t == [step |-> "fill", env |-> e, version |-> Len(x3), read |-> x2]
  <2>1. /\ txn' = [txn EXCEPT ![h] = t]
        /\ e \notin Serial \/ Prm!Serving(e) = {}
        /\ UNCHANGED <<x1, x2, x3, x4, x5, x6, x7, x8>>
    BY <1>4 DEF Prm!Judge, Prm!Begin, Prm!tables, Prm!Version
  <2>2. t \in PermissionTxn
    BY <1>0 DEF PermissionTypes, PermissionTxn
  <2>3. TxnFresh(t, x3, x2, x8)
    BY <1>0 DEF PermissionTypes, TxnFresh, NewestAt, PermissionInv
  <2>4. t.env = e
    OBVIOUS
  <2> HIDE DEF t
  <2> QED BY <2>1, <2>2, <2>3, <2>4, PermissionQuiet
<1>5. ASSUME NEW h \in Handlers, NEW e \in Envs, NEW allow \in BOOLEAN, Prm!SetRole(h, e, allow)
      PROVE  PermissionInv'
  <2> PICK step \in {"role", "invalidate"} :
        txn' = [txn EXCEPT ![h] = [step |-> step, env |-> e, allow |-> allow, seen |-> 0]]
    BY <1>5 DEF Prm!SetRole, Prm!Begin
  <2> DEFINE t == [step |-> step, env |-> e, allow |-> allow, seen |-> 0]
  <2>1. /\ e \notin Serial \/ Prm!Serving(e) = {}
        /\ UNCHANGED <<x1, x2, x3, x4, x5, x6, x7, x8>>
    BY <1>5 DEF Prm!SetRole, Prm!Begin, Prm!tables
  <2>2. t \in PermissionTxn /\ t.env = e /\ t.step \in {"role", "invalidate"} /\ t.seen = 0
    BY <1>0 DEF PermissionTypes, PermissionTxn
  <2> HIDE DEF t
  <2>3. TxnFresh(t, x3, x2, x8)
    BY <1>0, <2>2 DEF PermissionTypes, TxnFresh
  <2> QED BY <2>1, <2>2, <2>3, PermissionQuiet DEF t
<1>6. ASSUME NEW h \in Handlers, Prm!RoleWrite(h)
      PROVE  PermissionInv'
  <2>0. txn[h] \in [step: {"role", "invalidate"}, env: Envs, allow: BOOLEAN, seen: 0..MaxChanges]
    BY <1>0, <1>6 DEF Prm!RoleWrite, PermissionTypes, PermissionTxn, Prm!Idle
  <2> DEFINE allow == txn[h].allow
             entry == [at |-> x2, before |-> ~allow, after |-> allow]
             t == [txn[h] EXCEPT !.step = "invalidate", !.seen = Len(x3) + 1]
  <2>1. CASE /\ x4 = allow /\ Len(x3) < MaxChanges /\ x4' = ~allow
             /\ x3' = Append(x3, entry) /\ txn' = [txn EXCEPT ![h] = t]
    <3>1. entry \in Prm!Entry /\ entry.at = x2 /\ entry.before = ~allow /\ entry.after = allow
      BY <1>0, <2>0 DEF PermissionTypes, Prm!Entry
    <3>2. Len(x3) \in Nat
      BY <1>0 DEF PermissionTypes
    <3>3. /\ t \in PermissionTxn /\ t.step = "invalidate" /\ t.env = txn[h].env
          /\ t.seen = Len(x3) + 1
      <4>1. Len(x3) + 1 \in 0..MaxChanges
        BY <2>1, <3>2
      <4>2. /\ t \in [step: {"role", "invalidate"}, env: Envs, allow: BOOLEAN, seen: 0..MaxChanges]
            /\ t.step = "invalidate" /\ t.env = txn[h].env /\ t.seen = Len(x3) + 1
        BY <2>0, <4>1
      <4> QED BY <4>2 DEF PermissionTxn
    <3> HIDE DEF entry, t, allow
    <3>4. /\ x3' \in Seq(Prm!Entry) /\ x3' # <<>>
          /\ Len(x3') = Len(x3) + 1 /\ x3'[Len(x3')] = entry
          /\ \A i \in 1..Len(x3) : x3'[i] = x3[i]
      BY <1>0, <2>1, <3>1, LogGrows DEF PermissionTypes
    <3>5. UNCHANGED <<x1, x2, x5, x6, x7, x8>>
      BY <1>6 DEF Prm!RoleWrite
    <3>6. \A g \in Handlers : txn'[g] = IF g = h THEN t ELSE txn[g]
      BY <1>0, <2>1 DEF PermissionTypes
    <3>7. PermissionTypes'
      BY <1>0, <2>0, <2>1, <3>3, <3>4, <3>5 DEF PermissionTypes, allow
    <3>8. OneAtATime'
      BY <1>0, <1>6, <3>3, <3>6 DEF OneAtATime, Prm!RoleWrite
    <3>9. ASSUME NEW v \in Nat, NEW at \in Int, NewestAt(x3, v, at), x2 >= at
          PROVE  NewestAt(x3', v, at)
      BY <1>0, <2>1, <3>1, <3>9, NewestGrows DEF PermissionTypes
    <3>10. ASSUME NEW g \in Handlers PROVE TxnFresh(txn'[g], x3', x2', x8')
      <4>1. TxnFresh(txn[g], x3, x2, x8)
        BY DEF PermissionInv
      <4>2. CASE g = h
        BY <3>2, <3>3, <3>4, <3>6, <4>2 DEF TxnFresh
      <4>3. CASE g # h /\ txn[g].step = "fill"
        <5>1. txn[g].version \in Nat /\ txn[g].read \in Int /\ x2 \in Int
          BY <1>0, <4>3 DEF PermissionTypes, PermissionTxn, Prm!Idle
        <5>2. NewestAt(x3', txn[g].version, txn[g].read)
          BY <3>9, <4>1, <4>3, <5>1 DEF TxnFresh
        <5> QED BY <3>5, <3>6, <4>1, <4>3, <5>2 DEF TxnFresh
      <4>4. CASE g # h /\ txn[g].step # "fill"
        <5>1. txn[g].step \in {"role", "invalidate"} => txn[g].seen \in Nat
          BY <1>0 DEF PermissionTypes, PermissionTxn, Prm!Idle
        <5> QED BY <3>2, <3>4, <3>6, <4>1, <4>4, <5>1 DEF TxnFresh
      <4> QED BY <4>2, <4>3, <4>4
    <3>11. ASSUME NEW e \in Envs PROVE CacheFresh(x7'[e], e, x3', x2', x8') /\ x8'[e] <= Len(x3')
      <4>1. CacheFresh(x7[e], e, x3, x2, x8) /\ x8[e] <= Len(x3) /\ x8[e] \in Nat
        BY <1>0 DEF PermissionInv, PermissionTypes
      <4>2. x7[e] # None => x7[e].version \in Nat /\ x7[e].at \in Nat /\ x2 \in Nat
        BY <1>0 DEF PermissionTypes, Prm!Cached
      <4>3. x7[e] # None => NewestAt(x3', x7[e].version, x7[e].at - ReadLimit)
        BY <3>9, <4>1, <4>2 DEF CacheFresh
      <4> QED BY <3>2, <3>4, <3>5, <4>1, <4>3 DEF CacheFresh
    <3>12. Chained(x3') /\ x4' = ~Says(x3', Len(x3'))
      <4>1. Chained(x3) /\ x4 = ~Says(x3, Len(x3)) /\ allow \in BOOLEAN
        BY <2>0 DEF PermissionInv, allow
      <4>2. ASSUME NEW v \in 0..Len(x3) PROVE Says(x3', v) = Says(x3, v)
        <5>1. CASE v = 0
          BY <5>1, SaysFirst
        <5>2. CASE v # 0
          <6>1. x3'[v] = x3[v]
            BY <3>2, <3>4, <5>2
          <6> QED BY <5>2, <6>1, SaysThen
        <5> QED BY <5>1, <5>2
      <4>3. Says(x3', Len(x3')) = allow
        <5>1. Len(x3') # 0
          BY <3>2, <3>4
        <5> QED BY <3>1, <3>4, <5>1, SaysThen
      <4>4. ASSUME NEW v \in 1..Len(x3')
            PROVE  x3'[v].before = Says(x3', v - 1) /\ x3'[v].after # x3'[v].before
        <5>1. CASE v \in 1..Len(x3)
          <6>1. v - 1 \in 0..Len(x3)
            BY <3>2, <5>1
          <6>2. x3'[v] = x3[v]
            BY <3>4, <5>1
          <6> QED BY <4>1, <4>2, <5>1, <6>1, <6>2 DEF Chained
        <5>2. CASE v = Len(x3')
          <6>1. v - 1 = Len(x3) /\ Len(x3) \in 0..Len(x3)
            BY <3>2, <3>4, <5>2
          <6>2. Says(x3', v - 1) = Says(x3, Len(x3))
            BY <4>2, <6>1
          <6>3. Says(x3, Len(x3)) \in BOOLEAN
            <7>1. CASE Len(x3) = 0
              BY <7>1, SaysFirst
            <7>2. CASE Len(x3) # 0
              <8>1. x3[Len(x3)] \in Prm!Entry
                BY <1>0, <3>2, <7>2 DEF PermissionTypes
              <8>2. x3[Len(x3)].after \in BOOLEAN
                BY <8>1 DEF Prm!Entry
              <8> QED BY <7>2, <8>2, SaysThen
            <7> QED BY <7>1, <7>2
          <6> PICK before \in BOOLEAN : before = ~allow
            OBVIOUS
          <6>4. before = Says(x3, Len(x3))
            BY <2>1, <4>1, <6>3
          <6>5. x3'[v] = entry
            BY <3>4, <5>2
          <6>6. before # allow
            BY <4>1
          <6>7. x3'[v].before = before /\ x3'[v].after = allow
            BY <3>1, <6>5
          <6> QED BY <6>2, <6>4, <6>6, <6>7
        <5> QED BY <3>2, <3>4, <5>1, <5>2
      <4> QED BY <2>1, <4>3, <4>4 DEF Chained
    <3>13. x6' = LastSaid(x5')
      BY <3>5 DEF PermissionInv
    <3> QED BY <3>7, <3>8, <3>10, <3>11, <3>12, <3>13 DEF PermissionInv
  <2>2. CASE Prm!End(h) /\ UNCHANGED <<x3, x4>>
    <3>1. /\ \A g \in Handlers : txn'[g] = IF g = h THEN Prm!Idle ELSE txn[g]
          /\ txn' \in [Handlers -> PermissionTxn] /\ OneAtATime'
          /\ Prm!Idle.step = "idle"
      BY <2>2, PermissionEnd
    <3>2. UNCHANGED <<x1, x2, x3, x4, x5, x6, x7, x8>>
      BY <1>6, <2>2 DEF Prm!RoleWrite
    <3>3. \A g \in Handlers : TxnFresh(txn'[g], x3', x2', x8')
      BY <3>1, <3>2 DEF PermissionInv, TxnFresh
    <3>4. PermissionTypes'
      BY <1>0, <3>1, <3>2 DEF PermissionTypes
    <3> QED BY <3>1, <3>2, <3>3, <3>4 DEF PermissionInv
  <2>3. \/ /\ x4 = allow /\ Len(x3) < MaxChanges /\ x4' = ~allow
           /\ x3' = Append(x3, entry) /\ txn' = [txn EXCEPT ![h] = t]
        \/ Prm!End(h) /\ UNCHANGED <<x3, x4>>
    BY <1>6 DEF Prm!RoleWrite, Prm!RoleChangeable, Prm!Version
  <2> QED BY <2>1, <2>2, <2>3
<1>7. ASSUME NEW h \in Handlers, Prm!Invalidate(h)
      PROVE  PermissionInv'
  <2> DEFINE e == txn[h].env
             n == Prm!Later(x8[e], txn[h].seen)
  <2>1. /\ txn[h].step = "invalidate" /\ Prm!End(h)
        /\ x7' = [x7 EXCEPT ![e] = None] /\ x8' = [x8 EXCEPT ![e] = n]
        /\ UNCHANGED <<x1, x2, x3, x4, x5, x6>>
    BY <1>7 DEF Prm!Invalidate, Prm!Forgotten, Prm!tables
  <2>2. e \in Envs /\ txn[h].seen \in 0..MaxChanges
    BY <1>0, <2>1 DEF PermissionTypes, PermissionTxn, Prm!Idle
  <2>3. n \in 0..MaxChanges /\ n <= Len(x3)
    <3>1. x8[e] <= Len(x3) /\ x8[e] \in 0..MaxChanges
      BY <1>0, <2>2 DEF PermissionInv, PermissionTypes
    <3>2. txn[h].seen <= Len(x3)
      BY <2>1 DEF PermissionInv, TxnFresh
    <3> QED BY <2>2, <3>1, <3>2 DEF Prm!Later
  <2>4. /\ \A g \in Handlers : txn'[g] = IF g = h THEN Prm!Idle ELSE txn[g]
        /\ txn' \in [Handlers -> PermissionTxn] /\ OneAtATime'
        /\ Prm!Idle.step = "idle"
    BY <2>1, PermissionEnd
  <2> HIDE DEF n, e
  <2>5. /\ \A d \in Envs : x7'[d] = IF d = e THEN None ELSE x7[d]
        /\ \A d \in Envs : x8'[d] = IF d = e THEN n ELSE x8[d]
    BY <1>0, <2>1 DEF PermissionTypes
  <2>6. PermissionTypes'
    BY <1>0, <2>1, <2>3, <2>4 DEF PermissionTypes
  <2>7. ASSUME NEW d \in Envs PROVE CacheFresh(x7'[d], d, x3', x2', x8') /\ x8'[d] <= Len(x3')
    BY <2>1, <2>3, <2>5 DEF PermissionInv, CacheFresh
  <2>8. ASSUME NEW g \in Handlers PROVE TxnFresh(txn'[g], x3', x2', x8')
    <3>1. CASE g = h
      BY <2>4, <3>1 DEF TxnFresh
    <3>2. CASE g # h
      <4>1. TxnFresh(txn[g], x3, x2, x8) /\ txn'[g] = txn[g]
        BY <2>4, <3>2 DEF PermissionInv
      <4>2. txn[g].step = "fill" => txn[g].env \in Envs
        BY <1>0 DEF PermissionTypes, PermissionTxn, Prm!Idle
      <4>3. txn[g].step = "fill" /\ txn[g].env \in Serial => txn[g].env # e
        BY <1>0, <2>1, <3>2 DEF OneAtATime, e
      <4>4. txn[g].step = "fill" /\ txn[g].env \in Serial => x8'[txn[g].env] = x8[txn[g].env]
        BY <2>5, <4>2, <4>3
      <4> QED BY <2>1, <4>1, <4>4 DEF TxnFresh
    <3> QED BY <3>1, <3>2
  <2>9. Chained(x3') /\ x4' = ~Says(x3', Len(x3')) /\ x6' = LastSaid(x5')
    BY <2>1 DEF PermissionInv
  <2> QED BY <2>4, <2>6, <2>7, <2>8, <2>9 DEF PermissionInv
<1>8. ASSUME NEW h \in Handlers, NEW e \in Envs, NEW next \in Exception, Prm!SetOwn(h, e, next)
      PROVE  PermissionInv'
  <2> DEFINE t == [step |-> "own", env |-> e, before |-> x6, next |-> next]
  <2>1. /\ txn' = [txn EXCEPT ![h] = t]
        /\ e \notin Serial \/ Prm!Serving(e) = {}
        /\ UNCHANGED <<x1, x2, x3, x4, x5, x6, x7, x8>>
    BY <1>8 DEF Prm!SetOwn, Prm!Begin, Prm!tables
  <2>2. t \in PermissionTxn /\ t.env = e /\ t.step = "own"
    BY <1>0 DEF PermissionTypes, PermissionTxn
  <2> HIDE DEF t
  <2>3. TxnFresh(t, x3, x2, x8)
    BY <2>2 DEF TxnFresh
  <2> QED BY <2>1, <2>2, <2>3, PermissionQuiet
<1>9. ASSUME NEW h \in Handlers, Prm!OwnWrite(h)
      PROVE  PermissionInv'
  <2>0. txn[h] \in [step: {"own"}, env: Envs, before: Exception, next: Exception]
    <3>1. txn[h].step = "own"
      BY <1>9 DEF Prm!OwnWrite
    <3>2. txn[h] \in PermissionTxn
      BY <1>0 DEF PermissionTypes
    <3> QED BY <3>1, <3>2 DEF PermissionTxn, Prm!Idle
  <2> DEFINE entry == [before |-> txn[h].before, after |-> txn[h].next]
  <2>1. /\ \A g \in Handlers : txn'[g] = IF g = h THEN Prm!Idle ELSE txn[g]
        /\ txn' \in [Handlers -> PermissionTxn] /\ OneAtATime'
        /\ Prm!Idle.step = "idle"
    BY <1>9, PermissionEnd DEF Prm!OwnWrite
  <2>2. UNCHANGED <<x1, x2, x3, x4, x7, x8>>
    BY <1>9 DEF Prm!OwnWrite
  <2>3. entry \in Prm!OwnEntry /\ entry.after = txn[h].next /\ txn[h].next \in Exception
    BY <2>0 DEF Prm!OwnEntry, Exception
  <2>4. \/ x6' = txn[h].next /\ x5' = Append(x5, entry)
        \/ x6' = x6 /\ x5' = x5
    BY <1>9 DEF Prm!OwnWrite
  <2> HIDE DEF entry
  <2>5. x5' \in Seq(Prm!OwnEntry) /\ x6' \in Exception /\ x6' = LastSaid(x5')
    <3>1. x5 \in Seq(Prm!OwnEntry) /\ x6 \in Exception /\ x6 = LastSaid(x5)
      BY <1>0 DEF PermissionInv, PermissionTypes
    <3>2. CASE x6' = txn[h].next /\ x5' = Append(x5, entry)
      <4>1. x5' \in Seq(Prm!OwnEntry) /\ x5' # <<>> /\ x5'[Len(x5')] = entry
        BY <2>3, <3>1, <3>2, LogGrows
      <4> QED BY <2>3, <3>2, <4>1 DEF LastSaid
    <3> QED BY <2>4, <3>1, <3>2
  <2>6. PermissionTypes'
    BY <1>0, <2>1, <2>2, <2>5 DEF PermissionTypes
  <2>7. \A g \in Handlers : TxnFresh(txn'[g], x3', x2', x8')
    BY <2>1, <2>2 DEF PermissionInv, TxnFresh
  <2>8. \A e \in Envs : CacheFresh(x7'[e], e, x3', x2', x8') /\ x8'[e] <= Len(x3')
    BY <2>2 DEF PermissionInv
  <2>9. Chained(x3') /\ x4' = ~Says(x3', Len(x3'))
    BY <2>2 DEF PermissionInv
  <2> QED BY <2>1, <2>5, <2>6, <2>7, <2>8, <2>9 DEF PermissionInv
<1>10. ASSUME NEW h \in Handlers, Prm!Abort(h)
       PROVE  PermissionInv'
  <2>1. /\ \A g \in Handlers : txn'[g] = IF g = h THEN Prm!Idle ELSE txn[g]
        /\ txn' \in [Handlers -> PermissionTxn] /\ OneAtATime'
        /\ Prm!Idle.step = "idle"
    BY <1>10, PermissionEnd DEF Prm!Abort
  <2>2. UNCHANGED <<x1, x2, x3, x4, x5, x6, x7, x8>>
    BY <1>10 DEF Prm!Abort, Prm!tables
  <2>3. \A g \in Handlers : TxnFresh(txn'[g], x3', x2', x8')
    BY <2>1, <2>2 DEF PermissionInv, TxnFresh
  <2>4. PermissionTypes'
    BY <1>0, <2>1, <2>2 DEF PermissionTypes
  <2> QED BY <2>1, <2>2, <2>3, <2>4 DEF PermissionInv
<1>11. CASE UNCHANGED Prm!vars
  BY <1>11 DEF Prm!vars, Prm!tables, PermissionInv, PermissionTypes, OneAtATime
<1> QED
  BY <1>1, <1>2, <1>3, <1>4, <1>5, <1>6, <1>7, <1>8, <1>9, <1>10, <1>11 DEF Prm!Next, Exception

(* It holds whenever the desk of permissions is at work.                   *)
PermissionsAt == desk = "permissions" => PermissionInv
LEMMA PermissionsInvariant == OfficeSpec => []PermissionsAt
<1>1. OfficeInit => PermissionsAt
  BY PermissionInit DEF OfficeInit, PermissionsAt
<1>2. PermissionsAt /\ [OfficeNext]_vars => PermissionsAt'
  <2> SUFFICES ASSUME PermissionsAt, [OfficeNext]_vars, desk' = "permissions" PROVE PermissionInv'
    BY DEF PermissionsAt
  <2>1. desk = "permissions"
    BY DEF OfficeNext, vars
  <2> QED BY <2>1, PermissionDesk, PermissionStep DEF PermissionsAt
<1> QED BY <1>1, <1>2, PTL DEF OfficeSpec

(* A change of a role's cell reaches every environment within the life of  *)
(* a cached map and the time of a read, and at once an environment that    *)
(* serves one request at a time, whatever changes, reads and restarts      *)
(* cross each other.                                                       *)
THEOREM RoleChangesArrive == OfficeSpec => []RoleChangeReaches
<1>1. PermissionsAt => RoleChangeReaches
  <2> SUFFICES ASSUME PermissionsAt, desk = "permissions"
               PROVE  Prm!StaleBounded /\ Prm!SerialApplies
    BY DEF RoleChangeReaches
  <2>1. PermissionInv
    BY DEF PermissionsAt
  <2>2. ASSUME NEW e \in Envs, Prm!Usable(e), x7[e].version < Len(x3)
        PROVE  x2 - x3[x7[e].version + 1].at < Lifetime + ReadLimit
    <3>1. /\ x7[e] # None /\ x2 - x7[e].at < Lifetime
          /\ NewestAt(x3, x7[e].version, x7[e].at - ReadLimit)
      BY <2>1, <2>2 DEF Prm!Usable, PermissionInv, CacheFresh
    <3>2. x7[e].version \in Nat /\ x7[e].at \in Nat /\ x2 \in Nat
      BY <2>1, <3>1 DEF PermissionInv, PermissionTypes, Prm!Cached
    <3>3. x7[e].version + 1 \in 1..Len(x3)
      BY <2>1, <2>2, <3>2 DEF PermissionInv, PermissionTypes
    <3>4. x3[x7[e].version + 1].at \in Nat
      <4>1. x3[x7[e].version + 1] \in Prm!Entry
        BY <2>1, <3>3 DEF PermissionInv, PermissionTypes
      <4> QED BY <4>1 DEF Prm!Entry
    <3>5. x3[x7[e].version + 1].at >= x7[e].at - ReadLimit
      BY <2>2, <3>1 DEF NewestAt
    <3>6. x2 - x7[e].at < Lifetime
      BY <3>1
    <3> QED BY <3>2, <3>4, <3>5, <3>6, PermissionFacts
  <2>3. ASSUME NEW e \in Serial, Prm!Usable(e) PROVE x7[e].version >= x8[e]
    BY <2>1, <2>3, OfficeAssumption DEF Prm!Usable, PermissionInv, CacheFresh
  <2> QED BY <2>2, <2>3 DEF Prm!StaleBounded, Prm!SerialApplies, Prm!AppliedIn, Prm!Version
<1> QED BY <1>1, PermissionsInvariant, PTL

LEMMA RoleChangesTold == PermissionInv => Prm!AuditChain
BY DEF PermissionInv, Prm!AuditChain, Chained, Says, LastSaid, Prm!RoleAllows, Prm!Version

LEMMA PermissionsTyped == PermissionInv => Prm!TypeOK
<1> SUFFICES ASSUME PermissionInv PROVE Prm!TypeOK
  OBVIOUS
<1>1. PermissionTypes /\ \A h \in Handlers : txn[h] \in PermissionTxn
  BY DEF PermissionInv, PermissionTypes
<1> QED BY <1>1 DEF PermissionTypes, Prm!TypeOK, PermissionTxn, Exception

-----------------------------------------------------------------------------
(* Contracts                                                               *)

ContractTypes ==
  /\ x1 \in 1..LastDay /\ x2 \in Con!ContractStatus
  /\ x3 \in Seq(Con!Round) /\ Len(x3) \in 1..MaxRounds
  /\ x4 \in [Paths -> Con!File]
  /\ x5 \in [Paths -> Seq({"ARCHIVED", "PURGED"})] /\ x6 \subseteq Paths
  /\ txn \in [Handlers -> Con!Txn]

(* A termination agreement is in force in a round.                         *)
Agreed(files, n) ==
  \E p \in Paths : /\ files[p].round = n /\ files[p].kind = "TERMINATION_AGREEMENT"
                   /\ ~files[p].replaced

(* The last round alone has the day of a termination, and it is agreed on. *)
Dated(status, rounds, files) ==
  /\ status = "TERMINATED" <=> rounds[Len(rounds)].terminatedAt # 0
  /\ status = "TERMINATED" => Agreed(files, Len(rounds))
  /\ \A n \in 1..(Len(rounds) - 1) : rounds[n].terminatedAt = 0
Ordered(rounds) ==
  /\ \A n \in 1..Len(rounds) : rounds[n].start <= rounds[n].end
  /\ \A n \in 2..Len(rounds) : rounds[n - 1].start < rounds[n].start

(* What a file's audit entries say is what its row says, and a file that   *)
(* is not archived has its object.                                         *)
FileTold(f, told, kept, last) ==
  /\ f.round <= last
  /\ f.round = 0 => ~f.archived
  /\ f.round # 0 /\ ~f.archived => kept
  /\ ~f.archived => ~f.purged /\ told = <<>>
  /\ f.archived /\ ~f.purged => told = <<"ARCHIVED">>
  /\ f.purged => told = <<"ARCHIVED", "PURGED">>

(* What the writer of the branch was let through for still holds when it   *)
(* writes, because it has the lock.                                        *)
Corrects(t, rounds) ==
  LET n == Len(rounds)
      start == Con!Or(t.start, rounds[n].start)
  IN  /\ start <= Con!Or(t.end, rounds[n].end)
      /\ n > 1 /\ start # rounds[n].start => start > rounds[n - 1].start
MayWrite(t, status, rounds, files) ==
  /\ t.step = "lock" => t.op \in {"attach", "correct"}
  /\ t.step = "write" =>
       /\ t.current = Len(rounds)
       /\ t.op \in {"renew", "attach", "correct", "status"}
       /\ t.op \in {"attach", "correct"} => t.screen = Len(rounds)
       /\ t.op \in {"renew", "attach"} => status # "TERMINATED"
       /\ t.op = "renew" =>
            /\ t.start \in Dates /\ t.end \in Dates /\ t.start <= t.end
            /\ t.start > rounds[Len(rounds)].start /\ Len(rounds) < MaxRounds
       /\ t.op = "correct" => Corrects(t, rounds)
       /\ t.op = "status" =>
            /\ t.day # 0
            /\ t.to = "TERMINATED" /\ status # "TERMINATED" => Agreed(files, Len(rounds))

(* A file asked for was found in the storage, and only a file with a row   *)
(* leaves it.  Files under a purge have rows, archived ones once judged.   *)
Purging(t) == t.step \in {"judge", "remove", "commit"}
HasFiles(t, files, kept) ==
  /\ t.op \in {"renew", "attach"} => \A p \in t.paths : p \in kept \/ files[p].round # 0
  /\ Purging(t) => \A p \in t.paths : files[p].round # 0
  /\ t.step \in {"remove", "commit"} =>
       \A p \in t.paths : files[p].archived /\ ~files[p].purged

ContractLocks ==
  /\ \A g, h \in Handlers : txn[g].step = "write" /\ txn[h].step = "write" => g = h
  /\ \A g, h \in Handlers : Purging(txn[g]) /\ Purging(txn[h]) /\ g # h =>
       \A p \in txn[g].paths : p \notin txn[h].paths

ContractInv ==
  /\ ContractTypes /\ ContractLocks
  /\ Dated(x2, x3, x4) /\ Ordered(x3)
  /\ \A p \in Paths : FileTold(x4[p], x5[p], p \in x6, Len(x3))
  /\ \A h \in Handlers : MayWrite(txn[h], x2, x3, x4) /\ HasFiles(txn[h], x4, x6)

(* At the desk of contracts only its handlers work.                        *)
LEMMA ContractDesk ==
  ASSUME [OfficeNext]_vars, desk = "contracts"
  PROVE  desk' = "contracts" /\ [Con!Next]_(Con!vars)
BY DEF OfficeNext, vars, Con!vars, Con!tables, From3, From7

LEMMA ContractFacts ==
  /\ Dates \subseteq Nat \ {0} /\ LastDay \in Nat \ {0} /\ MaxRounds \in Nat \ {0}
  /\ FirstTerm \in [start: Dates, end: Dates] /\ FirstTerm.start <= FirstTerm.end
  /\ Terms \subseteq [start: Dates, end: Dates]
  /\ Fixes \subseteq [start: Dates \cup {0}, end: Dates \cup {0}]
  /\ ContractAsks \subseteq Con!ContractStatus
BY OfficeAssumption DEF Con!ContractStatus

LEMMA ContractIdle ==
  /\ Con!Idle \in Con!Txn /\ Con!Idle.step = "idle" /\ Con!Idle.op = "none"
  /\ Con!Idle.paths = {} /\ Con!Idle.kind = "CONTRACT"
  /\ Con!Idle.start = 0 /\ Con!Idle.end = 0 /\ Con!Idle.screen = 0
BY ContractFacts DEF Con!Idle, Con!Txn, Con!Kinds, Con!ContractStatus

LEMMA NoFileFacts ==
  /\ Con!NoFile \in Con!File /\ Con!NoFile.round = 0 /\ Con!NoFile.replaced = FALSE
  /\ Con!NoFile.archived = FALSE /\ Con!NoFile.purged = FALSE
BY ContractFacts DEF Con!NoFile, Con!File, Con!Kinds

LEMMA ContractInit == Con!Init => ContractInv
<1> SUFFICES ASSUME Con!Init PROVE ContractInv
  OBVIOUS
<1> DEFINE r == [start |-> FirstTerm.start, end |-> FirstTerm.end, terminatedAt |-> 0]
           first == [Con!NoFile EXCEPT !.round = 1]
<1>1. PICK p \in Paths :
        x4 = [q \in Paths |-> IF q = p THEN first ELSE Con!NoFile] /\ x6 = {p}
  BY DEF Con!Init
<1>2. x1 = 1 /\ x2 = "ACTIVE" /\ x3 = <<r>> /\ x5 = [q \in Paths |-> <<>>]
  BY DEF Con!Init
<1>3. \A h \in Handlers : txn[h] = Con!Idle
  BY DEF Con!Init
<1>4. r \in Con!Round /\ r.start <= r.end /\ r.terminatedAt = 0
  BY ContractFacts DEF Con!Round
<1>5. /\ first \in Con!File /\ first.round = 1 /\ first.archived = FALSE
      /\ first.purged = FALSE
  <2>1. 1 \in 0..MaxRounds
    BY ContractFacts
  <2> QED BY <2>1, NoFileFacts DEF Con!File
<1> HIDE DEF r, first
<1>6. x3 \in Seq(Con!Round) /\ Len(x3) = 1 /\ x3[1] = r
  BY <1>2, <1>4
<1>7. ContractTypes
  <2>1. x4 \in [Paths -> Con!File]
    BY <1>1, <1>5, NoFileFacts
  <2>2. txn \in [Handlers -> Con!Txn]
    BY ContractIdle DEF Con!Init
  <2>3. x1 \in 1..LastDay /\ Len(x3) \in 1..MaxRounds
    BY <1>2, <1>6, ContractFacts
  <2>4. x5 \in [Paths -> Seq({"ARCHIVED", "PURGED"})]
    BY <1>2
  <2> QED BY <1>1, <1>2, <1>6, <2>1, <2>2, <2>3, <2>4 DEF ContractTypes, Con!ContractStatus
<1>8. Dated(x2, x3, x4) /\ Ordered(x3)
  BY <1>2, <1>4, <1>6 DEF Dated, Ordered
<1>9. ASSUME NEW q \in Paths PROVE FileTold(x4[q], x5[q], q \in x6, Len(x3))
  <2>1. x5[q] = <<>>
    BY <1>2
  <2>2. CASE q = p
    BY <1>1, <1>5, <1>6, <2>1, <2>2 DEF FileTold
  <2>3. CASE q # p
    BY <1>1, <1>6, <2>1, <2>3, NoFileFacts DEF FileTold
  <2> QED BY <2>2, <2>3
<1>10. \A h \in Handlers : MayWrite(txn[h], x2, x3, x4) /\ HasFiles(txn[h], x4, x6)
  BY <1>3, ContractIdle DEF MayWrite, HasFiles, Purging
<1>11. ContractLocks
  BY <1>3, ContractIdle DEF ContractLocks, Purging
<1> QED BY <1>7, <1>8, <1>9, <1>10, <1>11 DEF ContractInv

(* A request begins, goes on or ends and nothing else changes: who writes  *)
(* has found the branch free, who purges the files.                        *)
LEMMA ContractQuiet ==
  ASSUME ContractInv, UNCHANGED <<x1, x2, x3, x4, x5, x6>>,
         NEW h \in Handlers, NEW t \in Con!Txn, txn' = [txn EXCEPT ![h] = t],
         MayWrite(t, x2, x3, x4), HasFiles(t, x4, x6),
         t.step = "write" => txn[h].step = "write" \/ Con!BranchFree,
         Purging(t) => \/ Purging(txn[h]) /\ t.paths = txn[h].paths
                       \/ Con!FilesFree(t.paths)
  PROVE  ContractInv'
<1>1. \A g \in Handlers : txn'[g] = IF g = h THEN t ELSE txn[g]
  BY DEF ContractInv, ContractTypes
<1>2. ContractTypes'
  BY DEF ContractInv, ContractTypes
<1>3. ASSUME NEW g \in Handlers, NEW k \in Handlers, txn'[g].step = "write", txn'[k].step = "write"
      PROVE  g = k
  BY <1>1, <1>3 DEF ContractInv, ContractLocks, Con!BranchFree, Con!LocksBranch
<1>4. ASSUME NEW g \in Handlers, NEW k \in Handlers, Purging(txn'[g]), Purging(txn'[k]), g # k,
             NEW p \in txn'[g].paths
      PROVE  p \notin txn'[k].paths
  <2>1. CASE g # h /\ k # h
    BY <1>1, <1>4, <2>1 DEF ContractInv, ContractLocks
  <2>2. CASE g = h
    BY <1>1, <1>4, <2>2 DEF ContractInv, ContractLocks, Con!FilesFree, Con!LocksFile, Purging
  <2>3. CASE k = h
    BY <1>1, <1>4, <2>3 DEF ContractInv, ContractLocks, Con!FilesFree, Con!LocksFile, Purging
  <2> QED BY <2>1, <2>2, <2>3
<1>5. ContractLocks'
  BY <1>3, <1>4 DEF ContractLocks
<1>6. \A g \in Handlers : MayWrite(txn'[g], x2', x3', x4') /\ HasFiles(txn'[g], x4', x6')
  BY <1>1 DEF ContractInv
<1>7. /\ Dated(x2', x3', x4') /\ Ordered(x3')
      /\ \A p \in Paths : FileTold(x4'[p], x5'[p], p \in x6', Len(x3'))
  BY DEF ContractInv
<1> QED BY <1>2, <1>5, <1>6, <1>7 DEF ContractInv

(* A request ends.                                                         *)
LEMMA ContractEnd ==
  ASSUME ContractInv, NEW h \in Handlers, Con!End(h)
  PROVE  /\ \A g \in Handlers : txn'[g] = IF g = h THEN Con!Idle ELSE txn[g]
         /\ txn' \in [Handlers -> Con!Txn] /\ ContractLocks'
<1>1. \A g \in Handlers : txn'[g] = IF g = h THEN Con!Idle ELSE txn[g]
  BY DEF Con!End, ContractInv, ContractTypes
<1>2. txn' \in [Handlers -> Con!Txn]
  BY ContractIdle DEF Con!End, ContractInv, ContractTypes
<1>3. ContractLocks'
  BY <1>1, ContractIdle DEF ContractInv, ContractLocks, Purging
<1> QED BY <1>1, <1>2, <1>3

LEMMA IdleAllowed ==
  \A status, rounds, files, kept :
    MayWrite(Con!Idle, status, rounds, files) /\ HasFiles(Con!Idle, files, kept)
BY ContractIdle DEF MayWrite, HasFiles, Purging

(* A file is attached to a round as the one in force: it is new, and those *)
(* it replaces keep all the rest.                                          *)
LEMMA AttachedFiles ==
  ASSUME ContractInv, NEW p \in Paths, x4[p].round = 0, p \in x6,
         NEW n \in 1..MaxRounds, NEW kind \in Con!Kinds, x4' = Con!Attached(p, n, kind),
         x5' = x5, x6' = x6, Len(x3) \in 1..Len(x3'), n <= Len(x3'), Len(x3') \in Nat
  PROVE  /\ x4' \in [Paths -> Con!File]
         /\ \A q \in Paths : FileTold(x4'[q], x5'[q], q \in x6', Len(x3'))
         /\ \A q \in Paths \ {p} : /\ x4'[q].round = x4[q].round
                                   /\ x4'[q].archived = x4[q].archived
                                   /\ x4'[q].purged = x4[q].purged
<1> DEFINE f == [Con!NoFile EXCEPT !.round = n, !.kind = kind]
<1>1. f \in Con!File /\ f.round = n /\ f.archived = FALSE /\ f.purged = FALSE
  <2>1. n \in 0..MaxRounds
    BY ContractFacts
  <2> QED BY <2>1, NoFileFacts DEF Con!File
<1>2. x4' = [q \in Paths |->
               IF q = p THEN f
               ELSE IF q \in Con!InForce(n, kind) THEN [x4[q] EXCEPT !.replaced = TRUE]
               ELSE x4[q]]
  BY DEF Con!Attached
<1> HIDE DEF f
<1>3. ASSUME NEW q \in Paths PROVE FileTold(x4[q], x5[q], q \in x6, Len(x3)) /\ x4[q] \in Con!File
  BY DEF ContractInv, ContractTypes
<1>4. x4'[p] = f
  BY <1>2
<1>5. ASSUME NEW q \in Paths, q # p
      PROVE  /\ x4'[q] \in Con!File /\ x4'[q].round = x4[q].round
             /\ x4'[q].archived = x4[q].archived /\ x4'[q].purged = x4[q].purged
  <2> DEFINE g == [x4[q] EXCEPT !.replaced = TRUE]
  <2>1. /\ g \in Con!File /\ g.round = x4[q].round
        /\ g.archived = x4[q].archived /\ g.purged = x4[q].purged
    BY <1>3 DEF Con!File
  <2>2. x4'[q] = g \/ x4'[q] = x4[q]
    BY <1>2, <1>5
  <2> HIDE DEF g
  <2> QED BY <1>3, <2>1, <2>2
<1>6. x4' \in [Paths -> Con!File]
  BY <1>1, <1>2, <1>4, <1>5
<1>7. ASSUME NEW q \in Paths PROVE FileTold(x4'[q], x5'[q], q \in x6', Len(x3'))
  <2>1. CASE q = p
    <3>1. x5[p] = <<>>
      BY <1>3 DEF FileTold
    <3> QED BY <1>1, <1>4, <2>1, <3>1 DEF FileTold
  <2>2. CASE q # p
    <3>1. x4[q].round <= Len(x3) /\ x4[q].round \in Nat
      BY <1>3 DEF FileTold, Con!File
    <3>2. x4'[q].round <= Len(x3')
      BY <1>5, <2>2, <3>1
    <3> QED BY <1>3, <1>5, <2>2, <3>2 DEF FileTold
  <2> QED BY <2>1, <2>2
<1> QED BY <1>5, <1>6, <1>7

LEMMA AppendToOne == Append(<<"ARCHIVED">>, "PURGED") = <<"ARCHIVED", "PURGED">>
<1> DEFINE z == Append(<<"ARCHIVED">>, "PURGED")
           S == {"ARCHIVED", "PURGED"}
<1>1. <<"ARCHIVED">> \in Seq(S) /\ Len(<<"ARCHIVED">>) = 1 /\ <<"ARCHIVED">>[1] = "ARCHIVED"
  OBVIOUS
<1>2. z \in Seq(S) /\ Len(z) = 2 /\ z[1] = "ARCHIVED" /\ z[2] = "PURGED"
  BY <1>1, LogGrows
<1> DEFINE y == <<"ARCHIVED", "PURGED">>
<1>3. y \in Seq(S) /\ Len(y) = 2 /\ y[1] = "ARCHIVED" /\ y[2] = "PURGED"
  OBVIOUS
<1> HIDE DEF z, y, S
<1>4. \A i \in 1..Len(z) : z[i] = y[i]
  BY <1>2, <1>3
<1>5. z = y
  BY <1>2, <1>3, <1>4, SeqEqual
<1> QED BY <1>5 DEF z, y

(* What others have of the files is not touched by a file that is new.     *)
LEMMA FilesStay ==
  ASSUME NEW t \in Con!Txn, HasFiles(t, x4, x6), NEW p \in Paths, x4[p].round = 0, p \in x6,
         x6' = x6,
         \A q \in Paths \ {p} : /\ x4'[q].round = x4[q].round
                                /\ x4'[q].archived = x4[q].archived
                                /\ x4'[q].purged = x4[q].purged
  PROVE  HasFiles(t, x4', x6')
<1>1. t.paths \subseteq Paths
  BY DEF Con!Txn
<1> QED BY <1>1 DEF HasFiles, Purging

(* A request goes on as Locked: with the lock, at the last round.          *)
LEMMA LockedTyped ==
  ASSUME ContractTypes, NEW t \in Con!Txn
  PROVE  /\ Con!Locked(t) \in Con!Txn /\ Con!Locked(t).step = "write"
         /\ Con!Locked(t).current = Len(x3)
         /\ Con!Locked(t).op = t.op /\ Con!Locked(t).paths = t.paths
         /\ Con!Locked(t).start = t.start /\ Con!Locked(t).end = t.end
         /\ Con!Locked(t).screen = t.screen /\ Con!Locked(t).day = t.day
         /\ Con!Locked(t).to = t.to
<1>1. Len(x3) \in 0..MaxRounds
  BY ContractFacts DEF ContractTypes
<1> QED BY <1>1 DEF Con!Locked, Con!Current, Con!Txn

(* A request that changes neither the branch's row, its rounds nor which   *)
(* agreements are in force leaves the writer what it was let through for.  *)
LEMMA WriterKept ==
  ASSUME NEW t, NEW status, NEW rounds, NEW files, NEW files2,
         MayWrite(t, status, rounds, files),
         Agreed(files, Len(rounds)) => Agreed(files2, Len(rounds))
  PROVE  MayWrite(t, status, rounds, files2)
BY DEF MayWrite

LEMMA ContractStep == ContractInv /\ [Con!Next]_(Con!vars) => ContractInv'
<1> SUFFICES ASSUME ContractInv, [Con!Next]_(Con!vars) PROVE ContractInv'
  OBVIOUS
<1>0. ContractTypes /\ ContractLocks
  BY DEF ContractInv
<1>00. \A h \in Handlers : /\ txn[h] \in Con!Txn
                           /\ MayWrite(txn[h], x2, x3, x4) /\ HasFiles(txn[h], x4, x6)
  BY DEF ContractInv, ContractTypes
<1>1. CASE Con!Midnight
  <2>1. x1' = x1 + 1 /\ x1 < LastDay /\ UNCHANGED <<x2, x3, x4, x5, x6, txn>>
    BY <1>1 DEF Con!Midnight, Con!tables
  <2>2. x1' \in 1..LastDay
    BY <1>0, <2>1, ContractFacts DEF ContractTypes
  <2> QED BY <2>1, <2>2 DEF ContractInv, ContractTypes, ContractLocks
<1>2. ASSUME NEW p \in Paths, Con!Upload(p)
      PROVE  ContractInv'
  <2>1. x6' = x6 \cup {p} /\ UNCHANGED <<x1, x2, x3, x4, x5, txn>>
    BY <1>2 DEF Con!Upload, Con!tables
  <2>2. ContractTypes' /\ ContractLocks'
    BY <1>0, <2>1 DEF ContractTypes, ContractLocks
  <2>3. \A q \in Paths : FileTold(x4'[q], x5'[q], q \in x6', Len(x3'))
    BY <2>1 DEF ContractInv, FileTold
  <2>4. \A h \in Handlers : HasFiles(txn'[h], x4', x6')
    BY <1>00, <2>1 DEF HasFiles
  <2> QED BY <1>00, <2>1, <2>2, <2>3, <2>4 DEF ContractInv
<1>3. ASSUME NEW p \in Paths, Con!Archive(p)
      PROVE  ContractInv'
  <2> DEFINE row == [x4[p] EXCEPT !.archived = TRUE]
  <2>1. /\ x4' = [x4 EXCEPT ![p] = row] /\ x5' = [x5 EXCEPT ![p] = Append(x5[p], "ARCHIVED")]
        /\ UNCHANGED <<x1, x2, x3, x6, txn>>
        /\ x4[p].round # 0 /\ ~x4[p].archived /\ ~x4[p].purged
        /\ \A h \in Handlers : Purging(txn[h]) => p \notin txn[h].paths
    BY <1>3 DEF Con!Archive, Con!Exists, Con!FilesFree, Con!LocksFile, Purging
  <2>2. x4[p] \in Con!File
    BY <1>0 DEF ContractTypes
  <2>3. /\ row \in Con!File /\ row.archived = TRUE /\ row.round = x4[p].round
        /\ row.kind = x4[p].kind /\ row.replaced = x4[p].replaced /\ row.purged = x4[p].purged
    BY <2>2 DEF Con!File
  <2> HIDE DEF row
  <2>4. /\ \A q \in Paths : x4'[q] = IF q = p THEN row ELSE x4[q]
        /\ \A q \in Paths : x5'[q] = IF q = p THEN Append(x5[p], "ARCHIVED") ELSE x5[q]
    BY <1>0, <2>1 DEF ContractTypes
  <2>5. FileTold(x4[p], x5[p], p \in x6, Len(x3))
    BY DEF ContractInv
  <2>6. x5'[p] = <<"ARCHIVED">>
    <3>1. x5[p] = <<>>
      BY <2>1, <2>5 DEF FileTold
    <3>2. x5'[p] = Append(<<>>, "ARCHIVED")
      BY <2>4, <3>1
    <3> QED BY <3>2
  <2>7. x5'[p] \in Seq({"ARCHIVED", "PURGED"})
    BY <2>6
  <2>8. ContractTypes' /\ ContractLocks'
    <3>1. x4' \in [Paths -> Con!File]
      BY <1>0, <2>1, <2>3 DEF ContractTypes
    <3>2. x5' \in [Paths -> Seq({"ARCHIVED", "PURGED"})]
      BY <1>0, <2>1, <2>4, <2>7 DEF ContractTypes
    <3> QED BY <1>0, <2>1, <3>1, <3>2 DEF ContractTypes, ContractLocks
  <2>9. ASSUME NEW q \in Paths PROVE FileTold(x4'[q], x5'[q], q \in x6', Len(x3'))
    <3>1. CASE q = p
      BY <2>1, <2>3, <2>4, <2>5, <2>6, <3>1 DEF FileTold
    <3>2. CASE q # p
      BY <2>1, <2>4, <3>2 DEF ContractInv
    <3> QED BY <3>1, <3>2
  <2>10. \A n : Agreed(x4, n) => Agreed(x4', n)
    BY <2>3, <2>4 DEF Agreed
  <2>11. Dated(x2', x3', x4') /\ Ordered(x3')
    BY <2>1, <2>10 DEF ContractInv, Dated
  <2>12. ASSUME NEW h \in Handlers
         PROVE  MayWrite(txn'[h], x2', x3', x4') /\ HasFiles(txn'[h], x4', x6')
    <3>1. MayWrite(txn[h], x2, x3, x4')
      BY <1>00, <2>10, WriterKept
    <3>2. txn[h].paths \subseteq Paths
      BY <1>00 DEF Con!Txn
    <3>3. HasFiles(txn[h], x4', x6)
      BY <1>00, <2>1, <2>3, <2>4, <3>2 DEF HasFiles, Purging
    <3> QED BY <2>1, <3>1, <3>3
  <2> QED BY <2>8, <2>9, <2>11, <2>12 DEF ContractInv
<1>4. ASSUME NEW h \in Handlers, NEW p \in Paths, NEW term \in Terms, Con!Renew(h, p, term)
      PROVE  ContractInv'
  <2> DEFINE a == [Con!Idle EXCEPT !.op = "renew", !.paths = {p},
                                   !.start = term.start, !.end = term.end]
             t == Con!Locked(a)
  <2>0. term.start \in Dates /\ term.end \in Dates
    BY ContractFacts
  <2>1. /\ a \in Con!Txn /\ a.op = "renew" /\ a.paths = {p} /\ a.start = term.start
        /\ a.end = term.end
    BY <2>0, ContractIdle DEF Con!Txn
  <2>2. /\ txn' = [txn EXCEPT ![h] = t] /\ UNCHANGED <<x1, x2, x3, x4, x5, x6>>
        /\ Con!BranchFree /\ p \in x6 /\ x2 # "TERMINATED" /\ term.start <= term.end
        /\ term.start > x3[Len(x3)].start /\ Len(x3) < MaxRounds
    BY <1>4 DEF Con!Renew, Con!Begin, Con!MayRenew, Con!Current, Con!tables
  <2> HIDE DEF a
  <2>3. /\ t \in Con!Txn /\ t.step = "write" /\ t.current = Len(x3) /\ t.op = "renew"
        /\ t.paths = {p} /\ t.start = term.start /\ t.end = term.end
    BY <1>0, <2>1, LockedTyped
  <2> HIDE DEF t
  <2>4. MayWrite(t, x2, x3, x4) /\ HasFiles(t, x4, x6) /\ ~Purging(t)
    BY <2>0, <2>2, <2>3 DEF MayWrite, HasFiles, Purging
  <2> QED BY <2>2, <2>3, <2>4, ContractQuiet
<1>5. ASSUME NEW h \in Handlers, NEW p \in Paths, NEW kind \in Con!Kinds, Con!SetFile(h, p, kind)
      PROVE  ContractInv'
  <2> DEFINE t == [Con!Idle EXCEPT !.op = "attach", !.step = "lock", !.paths = {p},
                                   !.kind = kind, !.screen = Len(x3)]
  <2>0. Len(x3) \in 0..MaxRounds
    BY <1>0, ContractFacts DEF ContractTypes
  <2>1. t \in Con!Txn /\ t.op = "attach" /\ t.step = "lock" /\ t.paths = {p}
    BY <2>0, ContractIdle DEF Con!Txn
  <2>2. /\ txn' = [txn EXCEPT ![h] = t] /\ UNCHANGED <<x1, x2, x3, x4, x5, x6>> /\ p \in x6
    BY <1>5 DEF Con!SetFile, Con!Begin, Con!Current, Con!tables
  <2> HIDE DEF t
  <2>3. MayWrite(t, x2, x3, x4) /\ HasFiles(t, x4, x6) /\ ~Purging(t)
    BY <2>1, <2>2 DEF MayWrite, HasFiles, Purging
  <2> QED BY <2>1, <2>2, <2>3, ContractQuiet
<1>6. ASSUME NEW h \in Handlers, NEW fix \in Fixes, Con!Correct(h, fix)
      PROVE  ContractInv'
  <2> DEFINE t == [Con!Idle EXCEPT !.op = "correct", !.step = "lock", !.screen = Len(x3),
                                   !.start = fix.start, !.end = fix.end]
  <2>0. /\ Len(x3) \in 0..MaxRounds
        /\ fix.start \in Dates \cup {0} /\ fix.end \in Dates \cup {0}
    BY <1>0, ContractFacts DEF ContractTypes
  <2>1. t \in Con!Txn /\ t.op = "correct" /\ t.step = "lock"
    BY <2>0, ContractIdle DEF Con!Txn
  <2>2. txn' = [txn EXCEPT ![h] = t] /\ UNCHANGED <<x1, x2, x3, x4, x5, x6>>
    BY <1>6 DEF Con!Correct, Con!Begin, Con!Current, Con!tables
  <2> HIDE DEF t
  <2>3. MayWrite(t, x2, x3, x4) /\ HasFiles(t, x4, x6) /\ ~Purging(t)
    BY <2>1, <2>2 DEF MayWrite, HasFiles, Purging
  <2> QED BY <2>1, <2>2, <2>3, ContractQuiet
<1>7. ASSUME NEW h \in Handlers, NEW to \in ContractAsks, Con!ChangeStatus(h, to)
      PROVE  ContractInv'
  <2> DEFINE a == [Con!Idle EXCEPT !.op = "status", !.to = to, !.day = x1]
             t == Con!Locked(a)
  <2>0. to \in Con!ContractStatus /\ x1 \in 0..LastDay /\ x1 # 0
    BY <1>0, ContractFacts DEF ContractTypes
  <2>1. a \in Con!Txn /\ a.op = "status" /\ a.to = to /\ a.day = x1 /\ a.paths = {}
    BY <2>0, ContractIdle DEF Con!Txn
  <2>2. /\ txn' = [txn EXCEPT ![h] = t] /\ UNCHANGED <<x1, x2, x3, x4, x5, x6>>
        /\ Con!BranchFree
        /\ to = "TERMINATED" /\ x2 # "TERMINATED" => Agreed(x4, Len(x3))
    BY <1>7 DEF Con!ChangeStatus, Con!Begin, Con!Current, Con!tables, Con!MayTerminate,
                Con!InForce, Agreed
  <2> HIDE DEF a
  <2>3. /\ t \in Con!Txn /\ t.step = "write" /\ t.current = Len(x3) /\ t.op = "status"
        /\ t.to = to /\ t.day = x1
    BY <1>0, <2>1, LockedTyped
  <2> HIDE DEF t
  <2>4. MayWrite(t, x2, x3, x4) /\ HasFiles(t, x4, x6) /\ ~Purging(t)
    BY <2>0, <2>2, <2>3 DEF MayWrite, HasFiles, Purging
  <2> QED BY <2>2, <2>3, <2>4, ContractQuiet
<1>8. ASSUME NEW h \in Handlers, Con!ScreenLock(h)
      PROVE  ContractInv'
  <2>1. CASE txn' = [txn EXCEPT ![h] = Con!Locked(txn[h])] /\ Con!OnScreen(txn[h])
             /\ IF txn[h].op = "attach" THEN x2 # "TERMINATED" ELSE Con!MayCorrect(txn[h])
    <3> DEFINE t == Con!Locked(txn[h])
    <3>1. /\ t \in Con!Txn /\ t.step = "write" /\ t.current = Len(x3) /\ t.op = txn[h].op
          /\ t.paths = txn[h].paths /\ t.screen = txn[h].screen /\ t.start = txn[h].start
          /\ t.end = txn[h].end
      BY <1>0, <1>00, LockedTyped
    <3>2. /\ txn[h].step = "lock" /\ Con!BranchFree /\ UNCHANGED <<x1, x2, x3, x4, x5, x6>>
      BY <1>8 DEF Con!ScreenLock, Con!tables
    <3> HIDE DEF t
    <3>3. t.op \in {"attach", "correct"} /\ HasFiles(t, x4, x6) /\ ~Purging(t)
      BY <1>00, <3>1, <3>2 DEF MayWrite, HasFiles, Purging
    <3>4. t.screen = Len(x3)
      BY <2>1, <3>1 DEF Con!OnScreen, Con!Current
    <3>5. t.op = "attach" => x2 # "TERMINATED"
      BY <2>1, <3>1
    <3>6. t.op = "correct" => Corrects(t, x3)
      BY <2>1, <3>1 DEF Con!MayCorrect, Con!Current, Corrects
    <3>7. MayWrite(t, x2, x3, x4)
      BY <3>1, <3>3, <3>4, <3>5, <3>6 DEF MayWrite
    <3> QED BY <2>1, <3>1, <3>2, <3>3, <3>7, ContractQuiet DEF t
  <2>2. CASE Con!End(h)
    BY <1>8, <2>2, ContractIdle, IdleAllowed, ContractQuiet
    DEF Con!ScreenLock, Con!End, Con!tables, Purging
  <2> QED BY <1>8, <2>1, <2>2 DEF Con!ScreenLock
<1>9. ASSUME NEW h \in Handlers, Con!RenewWrite(h)
      PROVE  ContractInv'
  <2>1. ASSUME Con!Refuse(h) PROVE ContractInv'
    BY <2>1, ContractIdle, IdleAllowed, ContractQuiet DEF Con!Refuse, Con!End, Con!tables, Purging
  <2> DEFINE t == txn[h]
             n == t.current + 1
             r == [start |-> t.start, end |-> t.end, terminatedAt |-> 0]
  <2>2. ASSUME NEW p \in t.paths, x4[p].round = 0, n > Len(x3), x3' = Append(x3, r),
               x4' = Con!Attached(p, n, "CONTRACT"), x2' = "ACTIVE", Con!End(h),
               UNCHANGED <<x1, x5, x6>>
        PROVE  ContractInv'
    <3>1. t.step = "write" /\ t.op = "renew"
      BY <1>9 DEF Con!RenewWrite
    <3>2. /\ t.current = Len(x3) /\ x2 # "TERMINATED" /\ t.start \in Dates /\ t.end \in Dates
          /\ t.start <= t.end /\ t.start > x3[Len(x3)].start /\ Len(x3) < MaxRounds
      BY <1>00, <3>1 DEF MayWrite
    <3>3. r \in Con!Round /\ r.start = t.start /\ r.end = t.end /\ r.terminatedAt = 0
      BY <3>2, ContractFacts DEF Con!Round
    <3> HIDE DEF r
    <3>4. /\ x3' \in Seq(Con!Round) /\ Len(x3') = Len(x3) + 1 /\ x3'[Len(x3')] = r
          /\ \A i \in 1..Len(x3) : x3'[i] = x3[i]
      BY <1>0, <2>2, <3>3, LogGrows DEF ContractTypes
    <3>5. Len(x3) \in 1..MaxRounds /\ n = Len(x3') /\ n \in 1..MaxRounds /\ n # 0
      BY <1>0, <3>2, <3>4, ContractFacts DEF ContractTypes
    <3>6. Dated(x2', x3', x4')
      <4>1. x3[Len(x3)].terminatedAt = 0 /\ \A i \in 1..(Len(x3) - 1) : x3[i].terminatedAt = 0
        BY <3>2 DEF ContractInv, Dated
      <4>2. \A i \in 1..(Len(x3') - 1) : x3'[i].terminatedAt = 0
        BY <3>4, <3>5, <4>1
      <4> QED BY <2>2, <3>3, <3>4, <4>2 DEF Dated
    <3>7. Ordered(x3')
      <4>1. Ordered(x3)
        BY DEF ContractInv
      <4>2. ASSUME NEW i \in 1..Len(x3') PROVE x3'[i].start <= x3'[i].end
        <5>1. CASE i = Len(x3')
          BY <3>2, <3>3, <3>4, <5>1
        <5>2. CASE i \in 1..Len(x3)
          BY <3>4, <4>1, <5>2 DEF Ordered
        <5> QED BY <3>4, <3>5, <5>1, <5>2
      <4>3. ASSUME NEW i \in 2..Len(x3') PROVE x3'[i - 1].start < x3'[i].start
        <5>1. CASE i = Len(x3')
          <6>1. i - 1 = Len(x3) /\ x3'[i - 1] = x3[Len(x3)]
            BY <3>4, <3>5, <5>1
          <6>2. x3[Len(x3)].start \in Nat /\ t.start \in Nat
            <7>1. x3[Len(x3)] \in Con!Round
              BY <1>0, <3>5 DEF ContractTypes
            <7>2. x3[Len(x3)].start \in Dates
              BY <7>1 DEF Con!Round
            <7> QED BY <3>2, <7>2, ContractFacts
          <6> QED BY <3>2, <3>3, <3>4, <5>1, <6>1, <6>2
        <5>2. CASE i \in 2..Len(x3)
          <6>1. i \in 1..Len(x3) /\ i - 1 \in 1..Len(x3)
            BY <3>5, <5>2
          <6> QED BY <3>4, <4>1, <5>2, <6>1 DEF Ordered
        <5> QED BY <3>4, <3>5, <5>1, <5>2
      <4> QED BY <4>2, <4>3 DEF Ordered
    <3>8. p \in Paths /\ p \in x6
      BY <1>00, <2>2, <3>1 DEF HasFiles, Con!Txn
    <3>9. /\ x4' \in [Paths -> Con!File]
          /\ \A q \in Paths : FileTold(x4'[q], x5'[q], q \in x6', Len(x3'))
          /\ \A q \in Paths \ {p} : /\ x4'[q].round = x4[q].round
                                    /\ x4'[q].archived = x4[q].archived
                                    /\ x4'[q].purged = x4[q].purged
      BY <1>0, <2>2, <3>4, <3>5, <3>8, AttachedFiles DEF Con!Kinds
    <3>10. /\ \A g \in Handlers : txn'[g] = IF g = h THEN Con!Idle ELSE txn[g]
           /\ txn' \in [Handlers -> Con!Txn] /\ ContractLocks'
      BY <2>2, ContractEnd
    <3>11. ContractTypes'
      BY <1>0, <2>2, <3>4, <3>5, <3>9, <3>10 DEF ContractTypes, Con!ContractStatus
    <3>12. ASSUME NEW g \in Handlers
           PROVE  MayWrite(txn'[g], x2', x3', x4') /\ HasFiles(txn'[g], x4', x6')
      <4>1. CASE g = h
        BY <3>10, <4>1, IdleAllowed
      <4>2. CASE g # h
        <5>1. txn'[g] = txn[g] /\ txn[g].step # "write"
          BY <1>0, <3>1, <3>10, <4>2 DEF ContractLocks
        <5>2. MayWrite(txn[g], x2', x3', x4')
          BY <1>00, <5>1 DEF MayWrite
        <5>3. HasFiles(txn[g], x4', x6')
          BY <1>00, <2>2, <3>8, <3>9, FilesStay
        <5> QED BY <5>1, <5>2, <5>3
      <4> QED BY <4>1, <4>2
    <3> QED BY <3>6, <3>7, <3>9, <3>10, <3>11, <3>12 DEF ContractInv
  <2>3. \E p \in t.paths :
          \/ /\ x4[p].round = 0 /\ n > Len(x3) /\ x3' = Append(x3, r)
             /\ x4' = Con!Attached(p, n, "CONTRACT") /\ x2' = "ACTIVE" /\ Con!End(h)
             /\ UNCHANGED <<x1, x5, x6>>
          \/ Con!Refuse(h)
    BY <1>9 DEF Con!RenewWrite, Con!Exists
  <2> QED BY <2>1, <2>2, <2>3
<1>10. ASSUME NEW h \in Handlers, Con!SetFileWrite(h)
       PROVE  ContractInv'
  <2>1. ASSUME Con!Refuse(h) PROVE ContractInv'
    BY <2>1, ContractIdle, IdleAllowed, ContractQuiet DEF Con!Refuse, Con!End, Con!tables, Purging
  <2> DEFINE t == txn[h]
  <2>2. ASSUME NEW p \in t.paths, x4[p].round = 0, x4' = Con!Attached(p, t.current, t.kind),
               Con!End(h), UNCHANGED <<x1, x2, x3, x5, x6>>
        PROVE  ContractInv'
    <3>1. t.step = "write" /\ t.op = "attach"
      BY <1>10 DEF Con!SetFileWrite
    <3>2. /\ t.current = Len(x3) /\ x2 # "TERMINATED" /\ t.kind \in Con!Kinds
          /\ Len(x3) \in 1..MaxRounds
      BY <1>0, <1>00, <3>1 DEF MayWrite, Con!Txn, ContractTypes
    <3>3. p \in Paths /\ p \in x6
      BY <1>00, <2>2, <3>1 DEF HasFiles, Con!Txn
    <3>4. /\ x4' \in [Paths -> Con!File]
          /\ \A q \in Paths : FileTold(x4'[q], x5'[q], q \in x6', Len(x3'))
          /\ \A q \in Paths \ {p} : /\ x4'[q].round = x4[q].round
                                    /\ x4'[q].archived = x4[q].archived
                                    /\ x4'[q].purged = x4[q].purged
      BY <1>0, <2>2, <3>2, <3>3, AttachedFiles
    <3>5. /\ \A g \in Handlers : txn'[g] = IF g = h THEN Con!Idle ELSE txn[g]
          /\ txn' \in [Handlers -> Con!Txn] /\ ContractLocks'
      BY <2>2, ContractEnd
    <3>6. ContractTypes'
      BY <1>0, <2>2, <3>4, <3>5 DEF ContractTypes
    <3>7. Dated(x2', x3', x4') /\ Ordered(x3')
      BY <2>2, <3>2 DEF ContractInv, Dated
    <3>8. ASSUME NEW g \in Handlers
          PROVE  MayWrite(txn'[g], x2', x3', x4') /\ HasFiles(txn'[g], x4', x6')
      <4>1. CASE g = h
        BY <3>5, <4>1, IdleAllowed
      <4>2. CASE g # h
        <5>1. txn'[g] = txn[g] /\ txn[g].step # "write"
          BY <1>0, <3>1, <3>5, <4>2 DEF ContractLocks
        <5>2. MayWrite(txn[g], x2', x3', x4')
          BY <1>00, <5>1 DEF MayWrite
        <5>3. HasFiles(txn[g], x4', x6')
          BY <1>00, <2>2, <3>3, <3>4, FilesStay
        <5> QED BY <5>1, <5>2, <5>3
      <4> QED BY <4>1, <4>2
    <3> QED BY <3>4, <3>5, <3>6, <3>7, <3>8 DEF ContractInv
  <2>3. \E p \in t.paths :
          \/ /\ x4[p].round = 0 /\ x4' = Con!Attached(p, t.current, t.kind) /\ Con!End(h)
             /\ UNCHANGED <<x1, x2, x3, x5, x6>>
          \/ Con!Refuse(h)
    BY <1>10 DEF Con!SetFileWrite, Con!Exists
  <2> QED BY <2>1, <2>2, <2>3
<1>11. ASSUME NEW h \in Handlers, Con!CorrectWrite(h)
       PROVE  ContractInv'
  <2> DEFINE t == txn[h]
             n == t.current
             start == Con!Or(t.start, x3[n].start)
             end == Con!Or(t.end, x3[n].end)
             r == [x3[n] EXCEPT !.start = start, !.end = end]
  <2>1. /\ t.step = "write" /\ t.op = "correct" /\ x3' = [x3 EXCEPT ![n] = r] /\ Con!End(h)
        /\ UNCHANGED <<x1, x2, x4, x5, x6>>
    BY <1>11 DEF Con!CorrectWrite
  <2>2. n = Len(x3) /\ Corrects(t, x3) /\ Len(x3) \in 1..MaxRounds
    BY <1>0, <1>00, <2>1 DEF MayWrite, ContractTypes
  <2>3. x3[n] \in Con!Round
    BY <1>0, <2>2 DEF ContractTypes
  <2>4. t.start \in Dates \cup {0} /\ t.end \in Dates \cup {0}
    BY <1>00 DEF Con!Txn
  <2>5. start \in Dates /\ end \in Dates
    BY <2>3, <2>4 DEF Con!Or, Con!Round
  <2>6. /\ r \in Con!Round /\ r.terminatedAt = x3[n].terminatedAt
        /\ r.start = start /\ r.end = end
    BY <2>3, <2>5 DEF Con!Round
  <2>7. /\ r.start <= r.end
        /\ n > 1 /\ r.start # x3[n].start => r.start > x3[n - 1].start
    BY <2>2, <2>6 DEF Corrects
  <2> HIDE DEF r, start, end
  <2>8. /\ x3' \in Seq(Con!Round) /\ Len(x3') = Len(x3)
        /\ \A i \in 1..Len(x3) : x3'[i] = IF i = n THEN r ELSE x3[i]
    BY <1>0, <2>1, <2>2, <2>6 DEF ContractTypes
  <2>9. Dated(x2', x3', x4')
    <3>1. x3'[n].terminatedAt = x3[n].terminatedAt
      BY <2>2, <2>6, <2>8
    <3>2. \A i \in 1..(Len(x3) - 1) : x3'[i] = x3[i]
      BY <2>2, <2>8
    <3> QED BY <2>1, <2>2, <2>8, <3>1, <3>2 DEF ContractInv, Dated
  <2>10. Ordered(x3')
    <3>1. Ordered(x3)
      BY DEF ContractInv
    <3>2. ASSUME NEW i \in 1..Len(x3') PROVE x3'[i].start <= x3'[i].end
      BY <2>2, <2>7, <2>8, <3>1 DEF Ordered
    <3>3. ASSUME NEW i \in 2..Len(x3') PROVE x3'[i - 1].start < x3'[i].start
      <4>1. i \in 1..Len(x3) /\ i - 1 \in 1..Len(x3) /\ i - 1 # n
        BY <2>2, <2>8
      <4>2. x3'[i - 1] = x3[i - 1]
        BY <2>8, <4>1
      <4>3. CASE i # n
        BY <2>8, <3>1, <4>1, <4>2, <4>3 DEF Ordered
      <4>4. CASE i = n
        <5>1. x3'[i] = r /\ x3[n - 1].start < x3[n].start
          BY <2>8, <3>1, <4>1, <4>4 DEF Ordered
        <5>2. r.start \in Nat /\ x3[n - 1].start \in Nat
          <6>1. x3[n - 1] \in Con!Round
            BY <1>0, <4>1, <4>4 DEF ContractTypes
          <6>2. x3[n - 1].start \in Dates /\ r.start \in Dates
            BY <2>6, <6>1 DEF Con!Round
          <6> QED BY <6>2, ContractFacts
        <5> QED BY <2>2, <2>7, <4>2, <4>4, <5>1, <5>2
      <4> QED BY <4>3, <4>4
    <3> QED BY <3>2, <3>3 DEF Ordered
  <2>11. /\ \A g \in Handlers : txn'[g] = IF g = h THEN Con!Idle ELSE txn[g]
         /\ txn' \in [Handlers -> Con!Txn] /\ ContractLocks'
    BY <2>1, ContractEnd
  <2>12. ContractTypes'
    BY <1>0, <2>1, <2>8, <2>11 DEF ContractTypes
  <2>13. \A p \in Paths : FileTold(x4'[p], x5'[p], p \in x6', Len(x3'))
    BY <2>1, <2>8 DEF ContractInv
  <2>14. ASSUME NEW g \in Handlers
         PROVE  MayWrite(txn'[g], x2', x3', x4') /\ HasFiles(txn'[g], x4', x6')
    <3>1. CASE g = h
      BY <2>11, <3>1, IdleAllowed
    <3>2. CASE g # h
      <4>1. txn'[g] = txn[g] /\ txn[g].step # "write"
        BY <1>0, <2>1, <2>11, <3>2 DEF ContractLocks
      <4>2. MayWrite(txn[g], x2', x3', x4')
        BY <1>00, <4>1 DEF MayWrite
      <4> QED BY <1>00, <2>1, <4>1, <4>2
    <3> QED BY <3>1, <3>2
  <2> QED BY <2>9, <2>10, <2>11, <2>12, <2>13, <2>14 DEF ContractInv
<1>12. ASSUME NEW h \in Handlers, Con!StatusWrite(h)
       PROVE  ContractInv'
  <2> DEFINE t == txn[h]
             n == t.current
             day == IF t.to = "TERMINATED" THEN t.day ELSE 0
             r == [x3[n] EXCEPT !.terminatedAt = day]
  <2>1. /\ t.step = "write" /\ t.op = "status" /\ x2' = t.to /\ Con!End(h)
        /\ UNCHANGED <<x1, x4, x5, x6>>
        /\ IF (t.to = "TERMINATED") = (x2 = "TERMINATED") THEN x3' = x3
           ELSE x3' = [x3 EXCEPT ![n] = r]
    BY <1>12 DEF Con!StatusWrite
  <2>2. /\ n = Len(x3) /\ t.day # 0 /\ Len(x3) \in 1..MaxRounds
        /\ t.to = "TERMINATED" /\ x2 # "TERMINATED" => Agreed(x4, Len(x3))
        /\ t.to \in Con!ContractStatus /\ t.day \in 0..LastDay
    BY <1>0, <1>00, <2>1 DEF MayWrite, ContractTypes, Con!Txn
  <2>3. x3[n] \in Con!Round
    BY <1>0, <2>2 DEF ContractTypes
  <2>4. day \in 0..LastDay /\ (t.to = "TERMINATED" <=> day # 0)
    BY <2>2, ContractFacts
  <2> HIDE DEF day
  <2>5. /\ r \in Con!Round /\ r.terminatedAt = day
        /\ r.start = x3[n].start /\ r.end = x3[n].end
    BY <2>3, <2>4 DEF Con!Round
  <2> HIDE DEF r
  <2>6. /\ x3' \in Seq(Con!Round) /\ Len(x3') = Len(x3)
        /\ \A i \in 1..Len(x3) : i # n => x3'[i] = x3[i]
        /\ \A i \in 1..Len(x3) : x3'[i].start = x3[i].start /\ x3'[i].end = x3[i].end
    <3>1. CASE x3' = x3
      BY <1>0, <3>1 DEF ContractTypes
    <3>2. CASE x3' = [x3 EXCEPT ![n] = r]
      <4>1. /\ x3' \in Seq(Con!Round) /\ Len(x3') = Len(x3)
            /\ \A i \in 1..Len(x3) : x3'[i] = IF i = n THEN r ELSE x3[i]
        BY <1>0, <2>2, <2>5, <3>2 DEF ContractTypes
      <4> QED BY <2>5, <4>1
    <3> QED BY <2>1, <3>1, <3>2
  <2>7. Dated(x2, x3, x4)
    BY DEF ContractInv
  <2>8. t.to = "TERMINATED" <=> x3'[n].terminatedAt # 0
    <3>1. CASE (t.to = "TERMINATED") = (x2 = "TERMINATED")
      BY <2>1, <2>2, <2>7, <3>1 DEF Dated
    <3>2. CASE ~((t.to = "TERMINATED") = (x2 = "TERMINATED"))
      <4>1. x3' = [x3 EXCEPT ![n] = r]
        BY <2>1, <3>2
      <4>2. x3'[n] = r
        BY <1>0, <2>2, <4>1 DEF ContractTypes
      <4> QED BY <2>4, <2>5, <4>2
    <3> QED BY <3>1, <3>2
  <2>9. Dated(x2', x3', x4')
    <3>1. \A i \in 1..(Len(x3) - 1) : x3'[i].terminatedAt = 0
      BY <2>2, <2>6, <2>7 DEF Dated
    <3>2. t.to = "TERMINATED" => Agreed(x4, Len(x3))
      BY <2>2, <2>7 DEF Dated
    <3> QED BY <2>1, <2>2, <2>6, <2>8, <3>1, <3>2 DEF Dated
  <2>10. Ordered(x3')
    <3>1. Ordered(x3)
      BY DEF ContractInv
    <3>2. \A i \in 1..Len(x3') : x3'[i].start <= x3'[i].end
      BY <2>6, <3>1 DEF Ordered
    <3>3. ASSUME NEW i \in 2..Len(x3') PROVE x3'[i - 1].start < x3'[i].start
      <4>1. i \in 1..Len(x3) /\ i - 1 \in 1..Len(x3)
        BY <2>2, <2>6
      <4> QED BY <2>6, <3>1, <4>1 DEF Ordered
    <3> QED BY <3>2, <3>3 DEF Ordered
  <2>11. /\ \A g \in Handlers : txn'[g] = IF g = h THEN Con!Idle ELSE txn[g]
         /\ txn' \in [Handlers -> Con!Txn] /\ ContractLocks'
    BY <2>1, ContractEnd
  <2>12. ContractTypes'
    BY <1>0, <2>1, <2>2, <2>6, <2>11 DEF ContractTypes
  <2>13. \A p \in Paths : FileTold(x4'[p], x5'[p], p \in x6', Len(x3'))
    BY <2>1, <2>6 DEF ContractInv
  <2>14. ASSUME NEW g \in Handlers
         PROVE  MayWrite(txn'[g], x2', x3', x4') /\ HasFiles(txn'[g], x4', x6')
    <3>1. CASE g = h
      BY <2>11, <3>1, IdleAllowed
    <3>2. CASE g # h
      <4>1. txn'[g] = txn[g] /\ txn[g].step # "write"
        BY <1>0, <2>1, <2>11, <3>2 DEF ContractLocks
      <4>2. MayWrite(txn[g], x2', x3', x4')
        BY <1>00, <4>1 DEF MayWrite
      <4> QED BY <1>00, <2>1, <4>1, <4>2
    <3> QED BY <3>1, <3>2
  <2> QED BY <2>9, <2>10, <2>11, <2>12, <2>13, <2>14 DEF ContractInv
<1>13. ASSUME NEW h \in Handlers, NEW P \in SUBSET Paths, Con!Purge(h, P)
       PROVE  ContractInv'
  <2> DEFINE t == [Con!Idle EXCEPT !.op = "purge", !.step = "judge", !.paths = P, !.day = x1]
  <2>0. x1 \in 0..LastDay
    BY <1>0, ContractFacts DEF ContractTypes
  <2>1. t \in Con!Txn /\ t.op = "purge" /\ t.step = "judge" /\ t.paths = P
    BY <2>0, ContractIdle DEF Con!Txn
  <2>2. /\ txn' = [txn EXCEPT ![h] = t] /\ UNCHANGED <<x1, x2, x3, x4, x5, x6>>
        /\ Con!FilesFree(P) /\ \A p \in P : x4[p].round # 0
    BY <1>13 DEF Con!Purge, Con!Begin, Con!Exists, Con!tables
  <2> HIDE DEF t
  <2>3. MayWrite(t, x2, x3, x4) /\ HasFiles(t, x4, x6)
    BY <2>1, <2>2 DEF MayWrite, HasFiles, Purging
  <2> QED BY <2>1, <2>2, <2>3, ContractQuiet
<1>14. ASSUME NEW h \in Handlers, Con!PurgeJudge(h)
       PROVE  ContractInv'
  <2> DEFINE t == [txn[h] EXCEPT !.step = "remove"]
  <2>1. txn[h].step = "judge" /\ UNCHANGED <<x1, x2, x3, x4, x5, x6>>
    BY <1>14 DEF Con!PurgeJudge, Con!tables
  <2>2. CASE (\A p \in txn[h].paths : Con!Purgeable(p, txn[h].day)) /\ Con!Goto(h, "remove")
    <3>1. /\ t \in Con!Txn /\ t.step = "remove" /\ t.paths = txn[h].paths /\ t.op = txn[h].op
      BY <1>00 DEF Con!Txn
    <3>2. txn' = [txn EXCEPT ![h] = t]
      BY <1>0, <2>2 DEF Con!Goto, ContractTypes
    <3> HIDE DEF t
    <3>3. MayWrite(t, x2, x3, x4) /\ HasFiles(t, x4, x6) /\ Purging(txn[h])
      BY <1>00, <2>1, <2>2, <3>1 DEF MayWrite, HasFiles, Purging, Con!Purgeable
    <3> QED BY <2>1, <3>1, <3>2, <3>3, ContractQuiet
  <2>3. CASE Con!End(h)
    BY <2>1, <2>3, ContractIdle, IdleAllowed, ContractQuiet DEF Con!End, Purging
  <2> QED BY <1>14, <2>2, <2>3 DEF Con!PurgeJudge
<1>15. ASSUME NEW h \in Handlers, Con!PurgeRemove(h)
       PROVE  ContractInv'
  <2> DEFINE t == [txn[h] EXCEPT !.step = "commit"]
             P == txn[h].paths
  <2>1. /\ txn[h].step = "remove" /\ x6' = x6 \ P /\ UNCHANGED <<x1, x2, x3, x4, x5>>
        /\ txn' = [txn EXCEPT ![h] = t]
    BY <1>0, <1>15 DEF Con!PurgeRemove, Con!Goto, Con!tables, ContractTypes
  <2>2. t \in Con!Txn /\ t.step = "commit" /\ t.paths = P /\ t.op = txn[h].op
    BY <1>00 DEF Con!Txn
  <2> HIDE DEF t
  <2>3. \A g \in Handlers : txn'[g] = IF g = h THEN t ELSE txn[g]
    BY <1>0, <2>1 DEF ContractTypes
  <2>4. \A p \in P : x4[p].archived /\ ~x4[p].purged /\ x4[p].round # 0
    BY <1>00, <2>1 DEF HasFiles, Purging
  <2>5. ContractTypes'
    BY <1>0, <2>1, <2>2 DEF ContractTypes
  <2>6. ContractLocks'
    BY <1>0, <2>1, <2>2, <2>3 DEF ContractLocks, Purging
  <2>7. \A p \in Paths : FileTold(x4'[p], x5'[p], p \in x6', Len(x3'))
    BY <2>1, <2>4 DEF ContractInv, FileTold
  <2>8. ASSUME NEW g \in Handlers
        PROVE  MayWrite(txn'[g], x2', x3', x4') /\ HasFiles(txn'[g], x4', x6')
    <3>1. CASE g = h
      BY <1>00, <2>1, <2>2, <2>3, <2>4, <3>1 DEF MayWrite, HasFiles, Purging
    <3>2. CASE g # h
      BY <1>00, <2>1, <2>3, <2>4, <3>2 DEF HasFiles
    <3> QED BY <3>1, <3>2
  <2>9. Dated(x2', x3', x4') /\ Ordered(x3')
    BY <2>1 DEF ContractInv
  <2> QED BY <2>5, <2>6, <2>7, <2>8, <2>9 DEF ContractInv
<1>16. ASSUME NEW h \in Handlers, Con!PurgeCommit(h)
       PROVE  ContractInv'
  <2> DEFINE P == txn[h].paths
  <2>1. /\ txn[h].step = "commit" /\ Con!End(h) /\ UNCHANGED <<x1, x2, x3, x6>>
        /\ x4' = [p \in Paths |-> IF p \in P THEN [x4[p] EXCEPT !.purged = TRUE] ELSE x4[p]]
        /\ x5' = [p \in Paths |-> IF p \in P THEN Append(x5[p], "PURGED") ELSE x5[p]]
    BY <1>16 DEF Con!PurgeCommit
  <2>2. \A p \in P : x4[p].archived /\ ~x4[p].purged /\ x4[p].round # 0
    BY <1>00, <2>1 DEF HasFiles, Purging
  <2>3. ASSUME NEW p \in Paths
        PROVE  /\ x4'[p] \in Con!File /\ x4'[p].round = x4[p].round /\ x4'[p].kind = x4[p].kind
               /\ x4'[p].replaced = x4[p].replaced /\ x4'[p].archived = x4[p].archived
               /\ p \notin P => x4'[p] = x4[p] /\ x5'[p] = x5[p]
               /\ p \in P => x4'[p].purged = TRUE
    <3>1. x4[p] \in Con!File
      BY <1>0 DEF ContractTypes
    <3>2. CASE p \in P
      <4> DEFINE f == [x4[p] EXCEPT !.purged = TRUE]
      <4>1. /\ f \in Con!File /\ f.round = x4[p].round /\ f.kind = x4[p].kind
            /\ f.replaced = x4[p].replaced /\ f.archived = x4[p].archived /\ f.purged = TRUE
        BY <3>1 DEF Con!File
      <4>2. x4'[p] = f
        BY <2>1, <3>2
      <4> HIDE DEF f
      <4> QED BY <3>2, <4>1, <4>2
    <3>3. CASE p \notin P
      BY <2>1, <3>1, <3>3
    <3> QED BY <3>2, <3>3
  <2>4. ASSUME NEW p \in Paths, p \in P
        PROVE  x5'[p] = <<"ARCHIVED", "PURGED">>
    <3>1. FileTold(x4[p], x5[p], p \in x6, Len(x3))
      BY DEF ContractInv
    <3>2. x5[p] = <<"ARCHIVED">>
      BY <2>2, <2>4, <3>1 DEF FileTold
    <3>3. x5'[p] = Append(<<"ARCHIVED">>, "PURGED")
      BY <2>1, <2>4, <3>2
    <3> QED BY <3>3, AppendToOne
  <2>5. ASSUME NEW p \in Paths PROVE FileTold(x4'[p], x5'[p], p \in x6', Len(x3'))
    <3>1. FileTold(x4[p], x5[p], p \in x6, Len(x3))
      BY DEF ContractInv
    <3>2. CASE p \in P
      BY <2>1, <2>2, <2>3, <2>4, <3>1, <3>2 DEF FileTold
    <3>3. CASE p \notin P
      BY <2>1, <2>3, <3>1, <3>3
    <3> QED BY <3>2, <3>3
  <2>6. /\ \A g \in Handlers : txn'[g] = IF g = h THEN Con!Idle ELSE txn[g]
        /\ txn' \in [Handlers -> Con!Txn] /\ ContractLocks'
    BY <2>1, ContractEnd
  <2>7. ContractTypes'
    <3>1. x4' \in [Paths -> Con!File]
      BY <2>1, <2>3
    <3>2. \A p \in Paths : x5'[p] \in Seq({"ARCHIVED", "PURGED"})
      <4> TAKE p \in Paths
      <4>1. CASE p \in P
        <5>1. <<"ARCHIVED", "PURGED">> \in Seq({"ARCHIVED", "PURGED"})
          OBVIOUS
        <5> QED BY <2>4, <4>1, <5>1
      <4>2. CASE p \notin P
        BY <1>0, <2>3, <4>2 DEF ContractTypes
      <4> QED BY <4>1, <4>2
    <3>3. x5' \in [Paths -> Seq({"ARCHIVED", "PURGED"})]
      BY <2>1, <3>2
    <3> QED BY <1>0, <2>1, <2>6, <3>1, <3>3 DEF ContractTypes
  <2>8. \A n : Agreed(x4, n) => Agreed(x4', n)
    BY <2>3 DEF Agreed
  <2>9. Dated(x2', x3', x4') /\ Ordered(x3')
    BY <2>1, <2>8 DEF ContractInv, Dated
  <2>10. ASSUME NEW g \in Handlers
         PROVE  MayWrite(txn'[g], x2', x3', x4') /\ HasFiles(txn'[g], x4', x6')
    <3>1. CASE g = h
      BY <2>6, <3>1, IdleAllowed
    <3>2. CASE g # h
      <4>1. txn'[g] = txn[g] /\ txn[g].paths \subseteq Paths
        BY <1>00, <2>6, <3>2 DEF Con!Txn
      <4>2. MayWrite(txn[g], x2, x3, x4')
        BY <1>00, <2>8, WriterKept
      <4>3. Purging(txn[g]) => \A p \in txn[g].paths : p \notin P
        BY <1>0, <2>1, <3>2 DEF ContractLocks, Purging
      <4>4. HasFiles(txn[g], x4', x6)
        <5>1. HasFiles(txn[g], x4, x6)
          BY <1>00
        <5>2. \A p \in txn[g].paths : x4'[p].round = x4[p].round
          BY <2>3, <4>1
        <5>3. Purging(txn[g]) =>
                \A p \in txn[g].paths : x4'[p] = x4[p]
          BY <2>3, <4>1, <4>3
        <5> QED BY <5>1, <5>2, <5>3 DEF HasFiles, Purging
      <4> QED BY <2>1, <4>1, <4>2, <4>4
    <3> QED BY <3>1, <3>2
  <2> QED BY <2>5, <2>6, <2>7, <2>9, <2>10 DEF ContractInv
<1>17. ASSUME NEW h \in Handlers, Con!Abort(h)
       PROVE  ContractInv'
  BY <1>17, ContractIdle, IdleAllowed, ContractQuiet
  DEF Con!Abort, Con!Refuse, Con!End, Con!tables, Purging
<1>18. CASE UNCHANGED Con!vars
  BY <1>18 DEF Con!vars, Con!tables, ContractInv, ContractTypes, ContractLocks
<1> QED
  BY <1>1, <1>2, <1>3, <1>4, <1>5, <1>6, <1>7, <1>8, <1>9, <1>10, <1>11, <1>12, <1>13, <1>14,
     <1>15, <1>16, <1>17, <1>18 DEF Con!Next

(* It holds whenever the desk of contracts is at work.                     *)
ContractsAt == desk = "contracts" => ContractInv
LEMMA ContractsInvariant == OfficeSpec => []ContractsAt
<1>1. OfficeInit => ContractsAt
  BY ContractInit DEF OfficeInit, ContractsAt
<1>2. ContractsAt /\ [OfficeNext]_vars => ContractsAt'
  <2> SUFFICES ASSUME ContractsAt, [OfficeNext]_vars, desk' = "contracts" PROVE ContractInv'
    BY DEF ContractsAt
  <2>1. desk = "contracts"
    BY DEF OfficeNext, vars
  <2> QED BY <2>1, ContractDesk, ContractStep DEF ContractsAt
<1> QED BY <1>1, <1>2, PTL DEF OfficeSpec

(* A branch is terminated exactly when its last round says since when, and *)
(* its rounds follow each other, whatever renewals, corrections and        *)
(* terminations cross each other.                                          *)
THEOREM ContractsDated == OfficeSpec => []ContractDates
<1>1. ContractsAt => ContractDates
  BY DEF ContractsAt, ContractInv, ContractDates, Con!TerminationDated, Con!RoundsInOrder,
         Con!Current, Con!InForce, Dated, Agreed, Ordered
<1> QED BY <1>1, ContractsInvariant, PTL

(* A file is recorded as archived and then as purged, once each, and its   *)
(* object is gone only after it was archived.                              *)
THEOREM PurgesFollowArchives == OfficeSpec => []ArchivedThenPurged
<1>1. ContractsAt => ArchivedThenPurged
  <2> SUFFICES ASSUME ContractsAt, desk = "contracts", NEW p \in Paths
               PROVE  /\ x5[p] \in {<<>>, <<"ARCHIVED">>, <<"ARCHIVED", "PURGED">>}
                      /\ x4[p].round # 0 /\ p \notin x6 => x5[p] # <<>>
    BY DEF ArchivedThenPurged, Con!ArchivedThenPurged, Con!Exists
  <2>1. FileTold(x4[p], x5[p], p \in x6, Len(x3))
    BY DEF ContractsAt, ContractInv
  <2>2. x5[p] = <<>> \/ x5[p] = <<"ARCHIVED">> \/ x5[p] = <<"ARCHIVED", "PURGED">>
    BY <2>1 DEF FileTold
  <2>3. <<"ARCHIVED">> # <<>> /\ <<"ARCHIVED", "PURGED">> # <<>>
    OBVIOUS
  <2>4. x4[p].round # 0 /\ p \notin x6 => x4[p].archived
    BY <2>1 DEF FileTold
  <2>5. x4[p].archived => x5[p] = <<"ARCHIVED">> \/ x5[p] = <<"ARCHIVED", "PURGED">>
    BY <2>1 DEF FileTold
  <2> QED BY <2>2, <2>3, <2>4, <2>5
<1> QED BY <1>1, ContractsInvariant, PTL

(* A correction or a file changes the round its sender looked at and no    *)
(* other, although a renewal may open one meanwhile.                       *)
THEOREM ScreensAreMeant == OfficeSpec => OnlyTheScreen
<1>1. ContractsAt /\ [OfficeNext]_vars => [desk = "contracts" => Con!MeantForScreen]_vars
  <2> SUFFICES ASSUME ContractsAt, [OfficeNext]_vars, desk = "contracts",
                      NEW h \in Handlers, txn[h].step = "write",
                      txn[h].op \in {"correct", "attach"}, txn'[h].step = "idle",
                      NEW n \in 1..Len(x3) \ {txn[h].screen}
               PROVE  /\ x3'[n] = x3[n]
                      /\ \A p \in Paths : x4'[p].round = n <=> x4[p].round = n
    BY DEF Con!MeantForScreen, Con!Current, Con!FilesOf
  <2>1. ContractInv /\ ContractTypes /\ txn \in [Handlers -> Con!Txn] /\ [Con!Next]_(Con!vars)
    BY ContractDesk DEF ContractsAt, ContractInv, ContractTypes
  <2>2. txn[h].screen = Len(x3) /\ txn[h].current = Len(x3)
    BY <2>1 DEF ContractInv, MayWrite
  <2>3. \A k \in Handlers : txn[k].step = "write" => k = h
    BY <2>1 DEF ContractInv, ContractLocks
  <2>4. \A k \in Handlers : \A t :
          txn' = [txn EXCEPT ![k] = t] => txn'[k] = t /\ (k # h => txn'[h] = txn[h])
    BY <2>1
  <2>5. n # txn[h].current /\ n # 0 /\ n <= Len(x3) /\ Len(x3) \in Nat
    BY <2>1, <2>2 DEF ContractTypes
  <2>6. ASSUME NEW k \in Handlers, Con!SetFileWrite(k)
        PROVE  x3' = x3 /\ \A p \in Paths : x4'[p].round = n <=> x4[p].round = n
    <3>1. CASE Con!Refuse(k)
      BY <3>1 DEF Con!Refuse, Con!tables
    <3>2. ASSUME NEW p \in txn[k].paths, x4[p].round = 0, x3' = x3,
                 x4' = Con!Attached(p, txn[k].current, txn[k].kind)
          PROVE  \A q \in Paths : x4'[q].round = n <=> x4[q].round = n
      <4>1. k = h
        BY <2>3, <2>6 DEF Con!SetFileWrite
      <4> TAKE q \in Paths
      <4>2. x4[q] \in Con!File
        BY <2>1 DEF ContractTypes
      <4>3. CASE q = p
        <5> DEFINE f == [Con!NoFile EXCEPT !.round = txn[k].current, !.kind = txn[k].kind]
        <5>1. f.round = txn[k].current
          BY NoFileFacts DEF Con!File
        <5>2. x4'[q] = f
          BY <3>2, <4>3 DEF Con!Attached
        <5> HIDE DEF f
        <5> QED BY <2>5, <3>2, <4>1, <4>3, <5>1, <5>2
      <4>4. CASE q # p
        <5>1. x4'[q] = x4[q] \/ x4'[q] = [x4[q] EXCEPT !.replaced = TRUE]
          BY <3>2, <4>4 DEF Con!Attached
        <5>2. [x4[q] EXCEPT !.replaced = TRUE].round = x4[q].round
          BY <4>2 DEF Con!File
        <5> QED BY <5>1, <5>2
      <4> QED BY <4>3, <4>4
    <3> QED BY <2>6, <3>1, <3>2 DEF Con!SetFileWrite, Con!Exists
  <2>7. ASSUME NEW k \in Handlers, Con!CorrectWrite(k)
        PROVE  x4' = x4 /\ x3'[n] = x3[n]
    <3>1. k = h
      BY <2>3, <2>7 DEF Con!CorrectWrite
    <3> PICK r : x3' = [x3 EXCEPT ![txn[k].current] = r]
      BY <2>7 DEF Con!CorrectWrite
    <3>2. x3'[n] = x3[n]
      BY <2>1, <2>5, <3>1 DEF ContractTypes
    <3> QED BY <2>7, <3>2 DEF Con!CorrectWrite
  <2>8. CASE UNCHANGED <<x3, x4>>
    BY <2>8
  <2>9. ASSUME NEW p \in Paths, Con!Archive(p) PROVE FALSE
    BY <2>9 DEF Con!Archive
  <2>10. ASSUME NEW k \in Handlers, Con!RenewWrite(k) PROVE FALSE
    BY <2>3, <2>10 DEF Con!RenewWrite
  <2>11. ASSUME NEW k \in Handlers, Con!StatusWrite(k) PROVE FALSE
    BY <2>3, <2>11 DEF Con!StatusWrite
  <2>12. ASSUME NEW k \in Handlers, Con!PurgeCommit(k) PROVE FALSE
    <3>1. k # h
      BY <2>12 DEF Con!PurgeCommit
    <3> QED BY <2>4, <2>12, <3>1 DEF Con!PurgeCommit, Con!End
  <2>13. \/ UNCHANGED <<x3, x4>>
         \/ \E p \in Paths : Con!Archive(p)
         \/ \E k \in Handlers : \/ Con!SetFileWrite(k) \/ Con!CorrectWrite(k)
                               \/ Con!RenewWrite(k) \/ Con!StatusWrite(k) \/ Con!PurgeCommit(k)
    BY <2>1 DEF Con!Next, Con!vars, Con!tables, Con!Midnight, Con!Upload, Con!Renew, Con!SetFile,
                Con!Correct, Con!ChangeStatus, Con!ScreenLock, Con!Purge, Con!PurgeJudge,
                Con!PurgeRemove, Con!Abort, Con!Refuse
  <2> QED BY <2>6, <2>7, <2>8, <2>9, <2>10, <2>11, <2>12, <2>13
<1> QED BY <1>1, ContractsInvariant, PTL DEF OfficeSpec, OnlyTheScreen

LEMMA ContractsTyped == ContractInv => Con!TypeOK
BY DEF ContractInv, ContractTypes, Con!TypeOK

-----------------------------------------------------------------------------
(* All desks                                                               *)

(* Every variable of the desk at work keeps its shape.                     *)
THEOREM OfficeTyped == OfficeSpec => []OfficeTypeOK
<1>1. /\ LeaveAt /\ FilesAt /\ ProfilesAt /\ AccountsAt /\ AttendanceAt
      /\ AssetsAt /\ FacilitiesAt /\ SupportAt /\ DocsAt /\ CoursesAt /\ PostsAt
      /\ ProgramsAt /\ PermissionsAt /\ ContractsAt
      => OfficeTypeOK
  BY AssetsTyped, FacilitiesTyped, SupportTyped, DocsTyped, CoursesTyped, PostsTyped,
     ProfilesTyped, ProgramsTyped, PermissionsTyped, ContractsTyped
  DEF OfficeTypeOK, LeaveAt, LeaveInv, LeaveKept, FilesAt, FilesInv, ProfilesAt, AccountsAt,
      AccountsInv, AttendanceAt, AttendanceInv, AssetsAt, FacilitiesAt, SupportAt, DocsAt,
      CoursesAt, PostsAt, ProgramsAt, PermissionsAt, ContractsAt
<1> QED
  BY <1>1, LeaveInvariant, FilesInvariant, ProfilesInvariant, AccountsInvariant,
     AttendanceInvariant, AssetsInvariant, FacilitiesInvariant, SupportInvariant, DocsInvariant,
     CoursesInvariant, PostsInvariant, ProgramsInvariant, PermissionsInvariant,
     ContractsInvariant, PTL

(* The audit entries of a role's cell and of an asset tell what happened   *)
(* to it, each starting where the one before it ended; a change request has *)
(* one entry with the value it asked for if it was approved, else none.    *)
THEOREM AuditsTell == OfficeSpec => []AuditTellsAll
<1>1. PermissionsAt /\ AssetsAt /\ ProfilesAt => AuditTellsAll
  BY RoleChangesTold, TrailsToldHere, RequestsApplied
  DEF AuditTellsAll, PermissionsAt, AssetsAt, ProfilesAt
<1> QED BY <1>1, PermissionsInvariant, AssetsInvariant, ProfilesInvariant, PTL
=============================================================================
