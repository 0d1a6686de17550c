-------------------------------- MODULE Programs --------------------------------
(***************************************************************************)
(* ProgramService and ProgramsController: one program, its slots and the   *)
(* active reservations of its slots.  Every write is a single statement    *)
(* that follows an unlocked read, so a handler is the gap between the two. *)
(* Of a booking (module Booking has all of it) only its read of the        *)
(* program and its insert are kept.                                        *)
(***************************************************************************)
EXTENDS Integers, FiniteSets

CONSTANTS
  Members,
  Slots,        (* ids of schedule slots                                   *)
  Prices,       (* prices asked for                                        *)
  Capacities,   (* capacities asked for, of a program or of a slot         *)
  Handlers, None

VARIABLES
  program,      (* the Program row; status ABSENT before it exists         *)
  slot,         (* Slots -> [seats, phase]; phase NONE before it exists    *)
  booked,       (* active reservations: pairs of a member and a slot       *)
  report,       (* affectedReservations of the last transition's answer    *)
  txn
vars == <<program, slot, booked, report, txn>>

NextStatus ==
  [PREPARING |-> {"RUNNING", "ENDED"}, RUNNING |-> {"PAUSED", "ENDED"},
   PAUSED |-> {"RUNNING", "ENDED"}, ENDED |-> {}, ABSENT |-> {}]
Pricing == {"FREE_ACCESS", "PAID_SESSION", "PT_PACKAGE"}
Program == [status: DOMAIN NextStatus, pricing: Pricing \cup {None},
            price: Prices \cup {0, None}, capacity: Capacities \cup {None}]
Absent == [status |-> "ABSENT", pricing |-> None, price |-> None, capacity |-> None]

(* What an update may give: a field it leaves out is None.                 *)
Asks == [pricing: Pricing \cup {None}, price: Prices \cup {None},
         capacity: Capacities \cup {None}]
(* The slot is on a later day; today, but has started; on an earlier day.  *)
Phases == <<"ahead", "started", "past">>
Slot == [seats: Capacities \cup {None}, phase: {"NONE", "ahead", "started", "past"}]

Idle == [step |-> "idle"]
Begin(h, t) == txn[h] = Idle /\ txn' = [txn EXCEPT ![h] = t]
End(h) == txn' = [txn EXCEPT ![h] = Idle]

-----------------------------------------------------------------------------
(* assertCapacityForPricingType                                            *)
WithCapacity(pricing, capacity) ==
  pricing = "PAID_SESSION" => capacity # None /\ capacity >= 1

(* normalizePricing: a FREE_ACCESS program has no price and no capacity; a *)
(* PT_PACKAGE keeps the price and the capacity it is given, or none.       *)
Normalized(pricing, price, capacity) ==
  IF pricing = "FREE_ACCESS" THEN [pricing |-> pricing, price |-> 0, capacity |-> None]
  ELSE [pricing |-> pricing, price |-> price, capacity |-> capacity]

Or(given, kept) == IF given = None THEN kept ELSE given

WrongPriced(row, p) ==
  [row EXCEPT !.pricing = p.pricing, !.price = p.price,
              !.capacity = Or(p.capacity, row.capacity)]
(* What is written: a capacity that was normalised away becomes null.      *)
Priced(row, p) == [row EXCEPT !.pricing = p.pricing, !.price = p.price,
                              !.capacity = p.capacity]

Create(ask) ==
  /\ program.status = "ABSENT"
  /\ ask.pricing # None /\ ask.price # None
  /\ WithCapacity(ask.pricing, ask.capacity)
  /\ program' = Priced([Absent EXCEPT !.status = "PREPARING"],
                       Normalized(ask.pricing, ask.price, ask.capacity))
  /\ UNCHANGED <<slot, booked, report, txn>>

(* update: what it does not give it takes from the row it read ...         *)
Update(h, ask) ==
  LET pricing == Or(ask.pricing, program.pricing)
      capacity == Or(ask.capacity, program.capacity)
  IN  /\ program.status # "ABSENT"
      /\ WithCapacity(pricing, capacity)
      /\ Begin(h, [step |-> "update",
                   to |-> Normalized(pricing, Or(ask.price, program.price), capacity)])
      /\ UNCHANGED <<program, slot, booked, report>>

(* ... and it writes all three whatever the row holds by then.             *)
UpdateWrite(h) ==
  /\ txn[h].step = "update"
  /\ program' = Priced(program, txn[h].to)
  /\ End(h)
  /\ UNCHANGED <<slot, booked, report>>

-----------------------------------------------------------------------------
(* updateStatus and remove: the transition is judged on a read ...         *)
UpdateStatus(h, to) ==
  /\ to \in NextStatus[program.status]
  /\ Begin(h, [step |-> "status", saw |-> program.status, to |-> to])
  /\ UNCHANGED <<program, slot, booked, report>>

(* ... and made if the status is still the one that was read ...           *)
StatusWrite(h) ==
  /\ txn[h].step = "status"
  /\ \/ /\ program.status = txn[h].saw
        /\ program' = [program EXCEPT !.status = txn[h].to]
        /\ report' = None
        /\ txn' = [txn EXCEPT ![h] = [step |-> "report"]]
     \/ /\ program.status # txn[h].saw
        /\ End(h)
        /\ UNCHANGED <<program, report>>
  /\ UNCHANGED <<slot, booked>>

(* ... and the controller answers with the active reservations of slots    *)
(* that are not before today.                                              *)
FutureActive == {b \in booked : slot[b[2]].phase # "past"}

StatusReport(h) ==
  /\ txn[h].step = "report"
  /\ report' = FutureActive
  /\ End(h)
  /\ UNCHANGED <<program, slot, booked>>

-----------------------------------------------------------------------------
(* createSlot: the pricing and the capacity of the program as it was read. *)
CreateSlot(h, s, capacity) ==
  /\ program.pricing = "PAID_SESSION"
  /\ Or(capacity, program.capacity) \notin {None, 0}
  /\ \A g \in Handlers : txn[g].step = "slot" => txn[g].slot # s
  /\ Begin(h, [step |-> "slot", slot |-> s, seats |-> Or(capacity, program.capacity)])
  /\ UNCHANGED <<program, slot, booked, report>>

SlotInsert(h) ==
  /\ txn[h].step = "slot"
  /\ slot' = [slot EXCEPT ![txn[h].slot] = [seats |-> txn[h].seats, phase |-> "ahead"]]
  /\ End(h)
  /\ UNCHANGED <<program, booked, report>>

(* ReservationService.create up to its read of the program; the slot's row *)
(* stays locked ...                                                        *)
Book(h, m, s) ==
  /\ slot[s].phase # "NONE"
  /\ \A g \in Handlers : txn[g].step = "book" => txn[g].slot # s
  /\ program.pricing = "PAID_SESSION" /\ program.status = "RUNNING"
  /\ Begin(h, [step |-> "book", member |-> m, slot |-> s])
  /\ UNCHANGED <<program, slot, booked, report>>

(* ... and its checks of the slot and its insert.                          *)
BookInsert(h) ==
  /\ txn[h].step = "book"
  /\ LET b == <<txn[h].member, txn[h].slot>>
     IN  /\ slot[b[2]].phase = "ahead"
         /\ b \notin booked
         /\ Cardinality({x \in booked : x[2] = b[2]}) < slot[b[2]].seats
         /\ booked' = booked \cup {b}
  /\ End(h)
  /\ UNCHANGED <<program, slot, report>>

(* A cancellation or a check-in.                                           *)
Leave(b) ==
  /\ b \in booked
  /\ booked' = booked \ {b}
  /\ UNCHANGED <<program, slot, report, txn>>

(* A slot begins; its day ends.                                            *)
Pass(s) ==
  /\ \E i \in 1..2 : /\ slot[s].phase = Phases[i]
                     /\ slot' = [slot EXCEPT ![s].phase = Phases[i + 1]]
  /\ UNCHANGED <<program, booked, report, txn>>

(* A request is refused, fails or dies before it writes.                   *)
Abort(h) ==
  /\ txn[h] # Idle
  /\ End(h)
  /\ UNCHANGED <<program, slot, booked, report>>

Init ==
  /\ program = Absent
  /\ slot = [s \in Slots |-> [seats |-> None, phase |-> "NONE"]]
  /\ booked = {} /\ report = None
  /\ txn = [h \in Handlers |-> Idle]

Next ==
  \/ \E ask \in Asks : Create(ask) \/ \E h \in Handlers : Update(h, ask)
  \/ \E h \in Handlers :
       \/ UpdateWrite(h) \/ StatusWrite(h) \/ StatusReport(h)
       \/ SlotInsert(h) \/ BookInsert(h) \/ Abort(h)
       \/ \E to \in DOMAIN NextStatus : UpdateStatus(h, to)
       \/ \E s \in Slots :
            \/ \E capacity \in Capacities \cup {None} : CreateSlot(h, s, capacity)
            \/ \E m \in Members : Book(h, m, s)
  \/ \E b \in booked : Leave(b)
  \/ \E s \in Slots : Pass(s)

Spec == Init /\ [][Next]_vars

-----------------------------------------------------------------------------
Triple == [pricing: Pricing, price: Prices \cup {0}, capacity: Capacities \cup {None}]
TypeOK ==
  /\ program \in Program
  /\ slot \in [Slots -> Slot]
  /\ booked \subseteq Members \X Slots
  /\ report = None \/ report \subseteq Members \X Slots
  /\ \A h \in Handlers : txn[h] \in
       {Idle, [step |-> "report"]}
       \cup [step: {"update"}, to: Triple]
       \cup [step: {"status"}, saw: DOMAIN NextStatus, to: DOMAIN NextStatus]
       \cup [step: {"slot"}, slot: Slots, seats: Capacities]
       \cup [step: {"book"}, member: Members, slot: Slots]

(* A PAID_SESSION program always has seats to sell and a FREE_ACCESS one   *)
(* neither price nor capacity, although two managers may change pricing,   *)
(* price and capacity at once, turn a PT_PACKAGE without a capacity into   *)
(* either, and each give only some of the three (ADR-PRG-01; A-6 of the    *)
(* program domain).                                                        *)
PricingAgrees ==
  /\ program.pricing = "PAID_SESSION" => program.capacity # None /\ program.capacity >= 1
  /\ program.pricing = "FREE_ACCESS" => program.price = 0 /\ program.capacity = None

(* ADR-PRG-02 and programs.controller.ts:55: the answer to a transition    *)
(* tells the manager at once who is affected, so once a program is paused  *)
(* or ended every active reservation of a coming slot is in that answer.   *)
(* The code does not keep it: a booking that read RUNNING before the       *)
(* transition is inserted after the answer.                                *)
NobodyLeftOut ==
  program.status \in {"PAUSED", "ENDED"} /\ report # None => FutureActive \subseteq report
=============================================================================
