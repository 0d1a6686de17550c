------------------------------ MODULE Permissions ------------------------------
(***************************************************************************)
(* PermissionService with its cache of the role defaults, and the writes   *)
(* of PermissionAdminService (setRoleCell, setStaffCell), for one cell of  *)
(* the matrix: one role, feature and action, and one person of that role.  *)
(*                                                                         *)
(* Several server environments share the database; each has its own cache. *)
(* An environment behind lambda.ts serves one request at a time, one       *)
(* behind main.ts any number.  A cached map is known by its version: how   *)
(* many changes of the role cell it has seen.                              *)
(***************************************************************************)
EXTENDS Integers, Sequences

CONSTANTS
  Envs,         (* environments                                            *)
  Serial,       (* those that serve one request at a time                  *)
  Lifetime,     (* ROLE_CACHE_MS, in ticks of the model                    *)
  ReadLimit,    (* ticks the answer of the database may take               *)
  LastTick,     (* bound: the clock stops                                  *)
  MaxChanges,   (* bound: changes of a cell                                *)
  Handlers, None

VARIABLES
  kind,      (* what the administrators change: a role's cell or a person's *)
  clock,
  roleLog,   (* audit entries of the role cell, by version: [at, before, after] *)
  roleRow,   (* is there a RolePermission row (it always says "denied")?   *)
  ownLog,    (* audit entries of the personal exception                    *)
  own,       (* AccountPermission.allowed of the person, None if no row    *)
  cache,     (* Envs -> [at, version] of roleCache, or None                *)
  applied,   (* Envs -> the last version a change made there has applied   *)
  txn
tables == <<roleLog, roleRow, ownLog, own>>
vars == <<kind, clock, roleLog, roleRow, ownLog, own, cache, applied, txn>>

Version == Len(roleLog)
Entry == [at: 0..LastTick, before: BOOLEAN, after: BOOLEAN]
OwnEntry == [before: BOOLEAN \cup {None}, after: BOOLEAN \cup {None}]
Cached == [at: 0..LastTick, version: 0..MaxChanges]
Idle == [step |-> "idle"]

(* The requests an environment is serving.                                 *)
Serving(e) == {h \in Handlers : txn[h].step # "idle" /\ txn[h].env = e}

(* Requests of one environment overlap only where it is not serial.        *)
Begin(h, t) ==
  /\ txn[h] = Idle
  /\ t.env \notin Serial \/ Serving(t.env) = {}
  /\ txn' = [txn EXCEPT ![h] = t]
End(h) == txn' = [txn EXCEPT ![h] = Idle]

-----------------------------------------------------------------------------
(* allows and effective, by way of roleDefaults.                           *)

WrongUsable(e) == cache[e] # None
Usable(e) == cache[e] # None /\ clock - cache[e].at < Lifetime

(* What the role's cell said at a version, and what a person may do.       *)
RoleAllows(v) == IF v = 0 THEN TRUE ELSE roleLog[v].after
Allowed(exception, v) == IF exception # None THEN exception ELSE RoleAllows(v)

(* A request that finds no usable map reads the table.  The personal       *)
(* exception came with the account when the request was let in.            *)
Judge(h, e) ==
  /\ ~Usable(e)
  /\ Begin(h, [step |-> "fill", env |-> e, version |-> Version, read |-> clock])
  /\ UNCHANGED <<kind, clock, tables, cache, applied>>

(* The answer comes back, and the map is kept from that moment.            *)
Store(h) ==
  LET t == txn[h]
  IN  /\ t.step = "fill"
      /\ cache' = [cache EXCEPT ![t.env] = [at |-> clock, version |-> t.version]]
      /\ End(h)
      /\ UNCHANGED <<kind, clock, tables, applied>>

-----------------------------------------------------------------------------
(* setRoleCell: the cell is read in the transaction ...                    *)
SetRole(h, e, allow) ==
  /\ kind = "role" /\ Version < MaxChanges
  /\ Begin(h, [step |-> IF roleRow = ~allow THEN "invalidate" ELSE "role",
               env |-> e, allow |-> allow, seen |-> 0])
  /\ UNCHANGED <<kind, clock, tables, cache, applied>>

WrongRoleChangeable(allow) == TRUE
(* A row that is gone cannot be deleted, one that is there not be created. *)
RoleChangeable(allow) == roleRow = allow

(* ... and the row deleted or created with the audit entry ...             *)
RoleWrite(h) ==
  LET allow == txn[h].allow
  IN  /\ txn[h].step = "role"
      /\ \/ /\ RoleChangeable(allow) /\ Version < MaxChanges
            /\ roleRow' = ~allow
            /\ roleLog' = Append(roleLog, [at |-> clock, before |-> ~allow, after |-> allow])
            /\ txn' = [txn EXCEPT ![h] = [@ EXCEPT !.step = "invalidate",
                                                   !.seen = Version + 1]]
         \/ /\ ~RoleChangeable(allow)
            /\ End(h)
            /\ UNCHANGED <<roleRow, roleLog>>
      /\ UNCHANGED <<kind, clock, ownLog, own, cache, applied>>

Later(v, w) == IF v < w THEN w ELSE v
WrongForgotten(e) == cache
(* What invalidate leaves of the caches.                                   *)
Forgotten(e) == [cache EXCEPT ![e] = None]

(* ... before this environment forgets its map.                            *)
Invalidate(h) ==
  LET e == txn[h].env
  IN  /\ txn[h].step = "invalidate"
      /\ cache' = Forgotten(e)
      /\ applied' = [applied EXCEPT ![e] = Later(@, txn[h].seen)]
      /\ End(h)
      /\ UNCHANGED <<kind, clock, tables>>

-----------------------------------------------------------------------------
(* setStaffCell: the exception is read; nothing to do if it is that        *)
(* already ...                                                             *)
SetOwn(h, e, next) ==
  /\ kind = "own" /\ own # next
  /\ Begin(h, [step |-> "own", env |-> e, before |-> own, next |-> next])
  /\ UNCHANGED <<kind, clock, tables, cache, applied>>

(* ... deleted if it is still there, or upserted whatever it is by now.    *)
OwnWrite(h) ==
  LET t == txn[h]
      possible == t.next = None => own # None
  IN  /\ t.step = "own"
      /\ \/ /\ possible /\ Len(ownLog) < MaxChanges
            /\ own' = t.next
            /\ ownLog' = Append(ownLog, [before |-> t.before, after |-> t.next])
         \/ /\ ~possible
            /\ UNCHANGED <<own, ownLog>>
      /\ End(h)
      /\ UNCHANGED <<kind, clock, roleLog, roleRow, cache, applied>>

-----------------------------------------------------------------------------
(* A request fails or dies.                                                *)
Abort(h) ==
  /\ txn[h] # Idle
  /\ End(h)
  /\ UNCHANGED <<kind, clock, tables, cache, applied>>

(* Time passes; no answer takes longer than ReadLimit.                     *)
Tick ==
  /\ clock < LastTick
  /\ \A h \in {g \in Handlers : txn[g].step = "fill"} : clock - txn[h].read < ReadLimit
  /\ clock' = clock + 1
  /\ UNCHANGED <<kind, tables, cache, applied, txn>>

(* An environment is recycled, with all it has in memory.                  *)
Recycle(e) ==
  /\ Serving(e) = {}
  /\ cache' = [cache EXCEPT ![e] = None]
  /\ UNCHANGED <<kind, clock, tables, applied, txn>>

Init ==
  /\ \/ kind = "role" /\ clock = 0
     \/ kind = "own" /\ clock = LastTick    (* read with every request: no age *)
  /\ roleLog = <<>> /\ roleRow = FALSE /\ ownLog = <<>> /\ own = None
  /\ cache = [e \in Envs |-> None]
  /\ applied = [e \in Envs |-> 0]
  /\ txn = [h \in Handlers |-> Idle]

Next ==
  \/ Tick
  \/ \E e \in Envs : Recycle(e)
  \/ \E h \in Handlers :
       \/ Store(h) \/ RoleWrite(h) \/ Invalidate(h) \/ OwnWrite(h) \/ Abort(h)
       \/ \E e \in Envs :
            \/ Judge(h, e)
            \/ \E allow \in BOOLEAN : SetRole(h, e, allow)
            \/ \E next \in BOOLEAN \cup {None} : SetOwn(h, e, next)

Spec == Init /\ [][Next]_vars

-----------------------------------------------------------------------------
TypeOK ==
  /\ kind \in {"role", "own"}
  /\ clock \in 0..LastTick
  /\ roleLog \in Seq(Entry) /\ Len(roleLog) <= MaxChanges /\ roleRow \in BOOLEAN
  /\ ownLog \in Seq(OwnEntry) /\ own \in BOOLEAN \cup {None}
  /\ cache \in [Envs -> Cached \cup {None}]
  /\ applied \in [Envs -> 0..MaxChanges]
  /\ \A h \in Handlers : txn[h] \in
       {Idle}
       \cup [step: {"fill"}, env: Envs, version: 0..MaxChanges, read: 0..LastTick]
       \cup [step: {"role", "invalidate"}, env: Envs, allow: BOOLEAN, seen: 0..MaxChanges]
       \cup [step: {"own"}, env: Envs, before: BOOLEAN \cup {None},
             next: BOOLEAN \cup {None}]

(* A change of a role's cell reaches every environment within the life of  *)
(* a cached map and the time one read may take: the map counts its life    *)
(* from the answer (permission.service.ts:24-26).  What is judged by an    *)
(* older map was changed less long ago than that, whatever changes, fills  *)
(* and restarts cross each other.                                          *)
StaleBounded ==
  \A e \in Envs : Usable(e) /\ cache[e].version < Version =>
    clock - roleLog[cache[e].version + 1].at < Lifetime + ReadLimit

(* D60 (decision 5) and permission.service.ts:7: a changed value is in     *)
(* force 30 seconds later at most, the life of a cached map.  Not so when  *)
(* the map was read just before the change and the answer took a while.    *)
WithinLifetime ==
  \A e \in Envs : Usable(e) /\ cache[e].version < Version =>
    clock - roleLog[cache[e].version + 1].at <= Lifetime

(* Whatever two administrators set at once, the audit entries of a role's  *)
(* cell tell its whole story: each change starts from what the one before  *)
(* it left, and the last one says what the table holds now.  The last      *)
(* entry of a personal exception says what holds now, too.                 *)
AuditChain ==
  /\ \A v \in 1..Version : /\ roleLog[v].before = RoleAllows(v - 1)
                           /\ roleLog[v].after # roleLog[v].before
  /\ roleRow = ~RoleAllows(Version)
  /\ own = IF ownLog = <<>> THEN None ELSE ownLog[Len(ownLog)].after

(* Once a change made in an environment is answered, that environment      *)
(* judges nobody by a map from before it.                                  *)
AppliedIn(e) == Usable(e) => cache[e].version >= applied[e]

(* It is so where requests do not overlap ...                              *)
SerialApplies == \A e \in Serial : AppliedIn(e)

(* ... and permission.service.ts:17 says it of every environment.  It is   *)
(* not so where requests overlap: a fill that read the table before the    *)
(* change stores its map after invalidate().                               *)
AppliedAtOnce == \A e \in Envs : AppliedIn(e)
=============================================================================
