---------------------------- MODULE DnsPlanProofs ----------------------------
(***************************************************************************)
(* The DNS plan, proved for any set of domains, every clock and every wait *)
(* the provider asks for.                                                  *)
(*                                                                         *)
(* Five invariants, each resting on the ones before it:                    *)
(*   TInv     types, and stamps that do not lie ahead of the clock;        *)
(*   Course   the token is kept, and who runs works on a moved record;     *)
(*   WaitInv  what the provider asked for has passed or is held back, so   *)
(*            no operation begins too early;                               *)
(*   LInv     the state of a record tells what was sent for it, so nothing *)
(*            is mutated twice, lost, or taken from others;                *)
(*   OInv     every record is valid and an observation fits the attempt it *)
(*            belongs to, so what was seen can be saved.                   *)
(***************************************************************************)
EXTENDS DnsPlan, Integers, TLAPS

RetryType == [attempts : Nat, last : Nat, wait : Nat]

UpkeepType == [attempts : Nat, last : Nat, wait : Nat, outcome : Nat,
               blocked : BOOLEAN, resolved : BOOLEAN]

PhaseType == [retry : RetryType, blocked : BOOLEAN,
              again : RetryType, againBlocked : BOOLEAN, upkeep : UpkeepType]

RowType == [state : RowStates, id : Nat, checked : Nat, outcome : Nat,
            create : PhaseType, cleanup : PhaseType]

OpType == [step : Steps, row : Rows, mode : Modes, cleanup : BOOLEAN,
           readOnly : BOOLEAN, next : RowType]

OrderType == [state : {"not-started", "dns-ready", "validated"}, expires : Nat]

PlanType == [prepared : Nat, config : Nat, expires : Nat]

WireType == [kind : {"post", "delete"}, row : Rows, id : Nat]

ZoneType == [id : Nat, row : Rows, marked : BOOLEAN, ours : BOOLEAN]

HintType == [at : Nat, blocked : BOOLEAN]

Typed ==
    /\ now \in Nat /\ config \in Nat /\ configs \in Nat /\ ids \in Nat
    /\ order \in OrderType /\ started \in BOOLEAN /\ plan \in PlanType
    /\ rows \in [Rows -> RowType] /\ op \in OpType
    /\ zone \subseteq ZoneType /\ wire \subseteq WireType
    /\ posts \in [Rows -> Nat] /\ deletes \in [Rows -> Nat] /\ asked \in [Rows -> Nat]

----------------------------------------------------------------------------
(* The policies of a phase                                                 *)

LEMMA LaterIsOne == ASSUME NEW a \in Nat, NEW b \in Nat
                    PROVE  /\ Later(a, b) \in Nat /\ Later(a, b) >= a /\ Later(a, b) >= b
                           /\ Later(a, b) \in {a, b}
BY DEF Later

LEMMA ReservedRetry ==
    ASSUME NEW s \in RetryType, NEW t \in Nat, NEW j \in Nat, Reservable(s, t, j)
    PROVE  LET n == Reserve(s, t, j)
           IN  /\ n \in RetryType /\ n.attempts = s.attempts + 1 /\ n.last = t
               /\ ValidRetry(n) /\ s.attempts < MaxAttempts
               /\ s.attempts > 0 => t >= s.wait
<1> DEFINE n == Reserve(s, t, j)
<1>1. s.attempts \in Nat /\ s.wait \in Nat
    BY DEF RetryType
<1>2. n.attempts = s.attempts + 1 /\ n.last = t /\ n.wait = t + Unit * 2 ^ s.attempts + j
    BY DEF Reserve
<1>3. n.wait \in Int
    <2>1. \A k \in Nat : 2 ^ k \in Int
        OBVIOUS
    <2>2. 2 ^ s.attempts \in Int
        BY <1>1, <2>1
    <2>3. ASSUME NEW k \in Int PROVE t + Unit * k + j \in Int
        BY RetryAssumption
    <2>4. QED
        BY <1>2, <2>2, <2>3
<1>4. ValidRetry(n) /\ Ready(s, t)
    BY DEF Reservable
<1>5. n # NoRetry
    BY <1>1, <1>2 DEF NoRetry
<1>6. n.wait \in Nat
    BY <1>2, <1>3, <1>4, <1>5 DEF ValidRetry
<1>7. n = [attempts |-> n.attempts, last |-> n.last, wait |-> n.wait]
    BY <1>2 DEF Reserve
<1>8. n \in RetryType
    <2> HIDE DEF n
    <2>1. n.attempts \in Nat /\ n.last \in Nat
        BY <1>1, <1>2
    <2>2. QED
        BY <1>6, <1>7, <2>1 DEF RetryType
<1>9. QED
    BY <1>1, <1>2, <1>4, <1>8 DEF Ready

LEMMA LengthenedRetry ==
    ASSUME NEW s \in RetryType, NEW h \in HintType
    PROVE  LET n == Lengthen(s, h)
           IN  /\ n \in RetryType /\ n.attempts = s.attempts /\ n.last = s.last
               /\ n.wait = Later(s.wait, h.at)
BY DEF RetryType, HintType, Lengthen, Later

LEMMA EmptyPhase ==
    /\ NoRetry \in RetryType /\ NoMaintenance \in UpkeepType /\ NoPhase \in PhaseType
    /\ NewRow \in RowType
<1>1. NoRetry \in RetryType
    BY DEF NoRetry, RetryType
<1>2. NoMaintenance \in UpkeepType
    BY DEF NoMaintenance, UpkeepType
<1>3. NoPhase \in PhaseType
    BY <1>1, <1>2 DEF NoPhase, PhaseType
<1>4. NewRow \in RowType
    BY <1>3 DEF NewRow, RowType, RowStates
<1>5. QED
    BY <1>1, <1>2, <1>3, <1>4

\* What an attempt of each kind grants and leaves.
LEMMA OrdinaryGrant ==
    ASSUME NEW f \in PhaseType, now \in Nat, NEW g \in OrdinaryAttempt(f)
    PROVE  /\ g \in PhaseType
           /\ g.retry \in RetryType /\ g.retry.last = now
           /\ g.retry.attempts = f.retry.attempts + 1
           /\ ValidRetry(g.retry)
           /\ g.blocked = f.blocked /\ ~f.blocked
           /\ g.again = f.again /\ g.againBlocked = f.againBlocked /\ g.upkeep = f.upkeep
           /\ f.retry.attempts < MaxAttempts
           /\ f.retry.attempts > 0 => now >= f.retry.wait
<1>1. PICK j \in 0 .. MaxJitter : /\ ~f.blocked /\ Reservable(f.retry, now, j)
                                  /\ g = [f EXCEPT !.retry = Reserve(f.retry, now, j)]
    BY DEF OrdinaryAttempt
<1>2. j \in Nat /\ f.retry \in RetryType
    BY RetryAssumption DEF PhaseType
<1> DEFINE n == Reserve(f.retry, now, j)
<1>3. /\ n \in RetryType /\ n.attempts = f.retry.attempts + 1 /\ n.last = now
      /\ ValidRetry(n) /\ f.retry.attempts < MaxAttempts
      /\ f.retry.attempts > 0 => now >= f.retry.wait
    BY <1>1, <1>2, ReservedRetry
<1>4. g = [f EXCEPT !.retry = n]
    BY <1>1
<1> HIDE DEF n
<1>5. /\ g \in PhaseType /\ g.retry = n /\ g.blocked = f.blocked /\ g.again = f.again
      /\ g.againBlocked = f.againBlocked /\ g.upkeep = f.upkeep
    BY <1>3, <1>4 DEF PhaseType
<1>6. QED
    BY <1>1, <1>3, <1>5

LEMMA RecoveryGrant ==
    ASSUME NEW f \in PhaseType, now \in Nat, NEW g \in RecoveryAttempt(f)
    PROVE  /\ g \in PhaseType
           /\ g.again \in RetryType /\ g.again.last = now
           /\ g.again.attempts = f.again.attempts + 1
           /\ ValidRetry(g.again)
           /\ g.retry = f.retry /\ g.blocked = f.blocked /\ g.againBlocked = f.againBlocked
           /\ g.upkeep = f.upkeep
           /\ RecoverGranted(f) /\ Ready(f.again, now)
<1>1. PICK j \in 0 .. MaxJitter : /\ RecoverGranted(f) /\ Reservable(f.again, now, j)
                                  /\ g = [f EXCEPT !.again = Reserve(f.again, now, j)]
    BY DEF RecoveryAttempt
<1>2. j \in Nat /\ f.again \in RetryType
    BY RetryAssumption DEF PhaseType
<1> DEFINE n == Reserve(f.again, now, j)
<1>3. /\ n \in RetryType /\ n.attempts = f.again.attempts + 1 /\ n.last = now
      /\ ValidRetry(n)
    BY <1>1, <1>2, ReservedRetry
<1>4. g = [f EXCEPT !.again = n]
    BY <1>1
<1> HIDE DEF n
<1>5. /\ g \in PhaseType /\ g.again = n /\ g.blocked = f.blocked /\ g.retry = f.retry
      /\ g.againBlocked = f.againBlocked /\ g.upkeep = f.upkeep
    BY <1>3, <1>4 DEF PhaseType
<1>6. QED
    BY <1>1, <1>3, <1>5 DEF Reservable

LEMMA MaintenanceGrant ==
    ASSUME NEW f \in PhaseType, now \in Nat, NEW g \in MaintenanceAttempt(f)
    PROVE  /\ g \in PhaseType
           /\ g.retry = f.retry /\ g.blocked = f.blocked /\ g.again = f.again
           /\ g.againBlocked = f.againBlocked
           /\ g.upkeep = [attempts |-> f.upkeep.attempts + 1, last |-> now,
                          wait |-> now + Day, outcome |-> 0,
                          blocked |-> FALSE, resolved |-> FALSE]
           /\ Terminal(f) /\ f.upkeep.attempts < MaxMaintenance
           /\ now >= Later(MaintenanceFloor(f), f.upkeep.wait)
<1> DEFINE u == [attempts |-> f.upkeep.attempts + 1, last |-> now,
                 wait |-> now + Day, outcome |-> 0, blocked |-> FALSE, resolved |-> FALSE]
<1>1. /\ Terminal(f) /\ f.upkeep.attempts < MaxMaintenance
      /\ now >= Later(MaintenanceFloor(f), f.upkeep.wait)
      /\ g = [f EXCEPT !.upkeep = u]
    BY DEF MaintenanceAttempt
<1>2. f.upkeep.attempts \in Nat /\ Day \in Nat
    BY PlanAssumption DEF PhaseType, UpkeepType
<1>3. u \in UpkeepType
    BY <1>2 DEF UpkeepType
<1> HIDE DEF u
<1>4. /\ g \in PhaseType /\ g.upkeep = u /\ g.blocked = f.blocked /\ g.retry = f.retry
      /\ g.againBlocked = f.againBlocked /\ g.again = f.again
    BY <1>1, <1>3 DEF PhaseType
<1>5. QED
    BY <1>1, <1>4 DEF u

LEMMA AttemptTyped ==
    ASSUME NEW f \in PhaseType, now \in Nat, NEW mode \in Modes, NEW g \in Attempt(f, mode)
    PROVE  g \in PhaseType
<1>1. CASE mode = "recover"
    BY <1>1, RecoveryGrant DEF Attempt
<1>2. CASE mode = "maintenance"
    BY <1>2, MaintenanceGrant DEF Attempt
<1>3. CASE mode \in {"add", "check", "cleanup"}
    BY <1>3, OrdinaryGrant DEF Attempt
<1>4. QED
    BY <1>1, <1>2, <1>3 DEF Modes

\* The record an intent is committed for.
LEMMA ReservedFields ==
    ASSUME NEW r \in RowType, NEW mode \in Modes, NEW f \in PhaseType
    PROVE  LET n == Reserved(r, mode, f)
           IN  /\ n \in RowType /\ n.id = r.id /\ n.checked = r.checked /\ n.outcome = 0
               /\ n.state = IF mode \in {"recover", "maintenance"} THEN r.state
                            ELSE IF CleansUp(r, mode) THEN "deleting" ELSE "creating"
               /\ n.create = IF CleansUp(r, mode) THEN r.create ELSE f
               /\ n.cleanup = IF CleansUp(r, mode) THEN f ELSE r.cleanup
<1> DEFINE n == Reserved(r, mode, f)
           moved == IF mode \in {"recover", "maintenance"} THEN r.state
                    ELSE IF CleansUp(r, mode) THEN "deleting" ELSE "creating"
           q == [r EXCEPT !.state = moved, !.outcome = 0]
<1>1. moved \in RowStates
    BY DEF RowType, RowStates
<1> HIDE DEF moved
<1>2. /\ q \in RowType /\ q.state = moved /\ q.outcome = 0 /\ q.id = r.id
      /\ q.checked = r.checked /\ q.create = r.create /\ q.cleanup = r.cleanup
    BY <1>1 DEF RowType
<1> HIDE DEF q
<1>3. n = IF CleansUp(r, mode) THEN [q EXCEPT !.cleanup = f] ELSE [q EXCEPT !.create = f]
    BY DEF Reserved, q, moved
<1> HIDE DEF n
<1>4. CASE CleansUp(r, mode)
    <2>1. n = [q EXCEPT !.cleanup = f]
        BY <1>3, <1>4
    <2>2. /\ n \in RowType /\ n.state = q.state /\ n.outcome = q.outcome /\ n.id = q.id
          /\ n.checked = q.checked /\ n.create = q.create /\ n.cleanup = f
        BY <1>2, <2>1 DEF RowType
    <2>3. QED
        BY <1>2, <1>4, <2>2 DEF n, moved
<1>5. CASE ~CleansUp(r, mode)
    <2>1. n = [q EXCEPT !.create = f]
        BY <1>3, <1>5
    <2>2. /\ n \in RowType /\ n.state = q.state /\ n.outcome = q.outcome /\ n.id = q.id
          /\ n.checked = q.checked /\ n.create = f /\ n.cleanup = q.cleanup
        BY <1>2, <2>1 DEF RowType
    <2>3. QED
        BY <1>2, <1>5, <2>2 DEF n, moved
<1>6. QED
    BY <1>4, <1>5

\* The record as an outcome is saved with it.
LEMMA PublishedFields ==
    ASSUME NEW r \in RowType, NEW f \in PhaseType, now \in Nat
    PROVE  LET n == Published(r, f)
           IN  /\ n \in RowType /\ n.state = r.state /\ n.id = r.id
               /\ n.checked = r.checked /\ n.outcome = now
               /\ n.create = IF op.cleanup THEN r.create ELSE f
               /\ n.cleanup = IF op.cleanup THEN f ELSE r.cleanup
<1>1. CASE op.cleanup
    <2>1. Published(r, f) = [r EXCEPT !.cleanup = f, !.outcome = now]
        BY <1>1 DEF Published
    <2>2. QED
        BY <1>1, <2>1 DEF RowType
<1>2. CASE ~op.cleanup
    <2>1. Published(r, f) = [r EXCEPT !.create = f, !.outcome = now]
        BY <1>2 DEF Published
    <2>2. QED
        BY <1>2, <2>1 DEF RowType
<1>3. QED
    BY <1>1, <1>2

LEMMA HintsTyped == ASSUME now \in Nat PROVE Hints \subseteq HintType
<1>1. ASSUME NEW w \in Waits PROVE RetryAfter(w, now) \in HintType
    <2>1. now + w \in Nat
        BY PlanAssumption
    <2>2. [at |-> now + w, blocked |-> FALSE] \in HintType /\ BadHint \in HintType
        BY <2>1 DEF HintType, BadHint
    <2>3. QED
        BY <2>2 DEF RetryAfter
<1>2. NoHint \in HintType /\ BadHint \in HintType
    BY DEF HintType, NoHint, BadHint
<1>3. ASSUME NEW h \in Hints PROVE h \in HintType
    <2>1. h \in {NoHint, BadHint} \/ \E w \in Waits : h = RetryAfter(w, now)
        BY DEF Hints
    <2>2. QED
        BY <1>1, <1>2, <2>1
<1>4. QED
    BY <1>3

\* The policy a failed call saves.
LEMMA DeferredFields ==
    ASSUME NEW f \in PhaseType, NEW h \in HintType, now \in Nat
    PROVE  LET n == Deferred(f, h)
           IN  /\ n \in PhaseType
               /\ n.retry.last = f.retry.last /\ n.retry.attempts = f.retry.attempts
               /\ n.again.last = f.again.last /\ n.again.attempts = f.again.attempts
<1> DEFINE n == Deferred(f, h)
<1>0. f.retry \in RetryType /\ f.again \in RetryType /\ f.upkeep \in UpkeepType
    BY DEF PhaseType
<1>1. CASE op.mode = "maintenance"
    <2> DEFINE last == f.upkeep.last
               u == [f.upkeep EXCEPT !.blocked = TRUE, !.wait = last + Week, !.outcome = now]
               v == [f.upkeep EXCEPT !.wait = Later(f.upkeep.wait, h.at), !.outcome = now]
    <2>1. Week \in Nat /\ last \in Nat
        BY <1>0, PlanAssumption, RetryAssumption DEF UpkeepType
    <2>2. u \in UpkeepType
        <3>1. \A w \in Nat : [f.upkeep EXCEPT !.blocked = TRUE, !.wait = w, !.outcome = now] \in UpkeepType
            BY <1>0 DEF UpkeepType
        <3>2. last + Week \in Nat
            BY <2>1
        <3>3. QED
            BY <3>1, <3>2
    <2>3. v \in UpkeepType
        BY <1>0, LaterIsOne DEF UpkeepType, HintType
    <2>4. n = [f EXCEPT !.upkeep = u] \/ n = [f EXCEPT !.upkeep = v]
        BY <1>1 DEF Deferred
    <2> HIDE DEF u, v, n
    <2>5. QED
        BY <2>2, <2>3, <2>4 DEF PhaseType, n
<1>2. CASE op.mode = "recover"
    <2> DEFINE a == Lengthen(f.again, h)
    <2>1. a \in RetryType /\ a.last = f.again.last /\ a.attempts = f.again.attempts
        BY <1>0, LengthenedRetry
    <2>2. n = [f EXCEPT !.againBlocked = TRUE] \/ n = [f EXCEPT !.again = a]
        BY <1>2 DEF Deferred
    <2> HIDE DEF a, n
    <2>3. QED
        BY <2>1, <2>2 DEF PhaseType, n
<1>3. CASE op.mode \notin {"recover", "maintenance"}
    <2> DEFINE a == Lengthen(f.retry, h)
    <2>1. a \in RetryType /\ a.last = f.retry.last /\ a.attempts = f.retry.attempts
        BY <1>0, LengthenedRetry
    <2>2. n = [f EXCEPT !.blocked = TRUE] \/ n = [f EXCEPT !.retry = a]
        BY <1>3 DEF Deferred
    <2> HIDE DEF a, n
    <2>3. QED
        BY <2>1, <2>2 DEF PhaseType, n
<1>4. QED
    BY <1>1, <1>2, <1>3

LEMMA ReceiptFields ==
    ASSUME NEW f \in PhaseType, NEW r \in RowType, now \in Nat
    PROVE  LET n == Receipt(f, r)
           IN  /\ n \in PhaseType /\ n.retry = f.retry /\ n.again = f.again
               /\ n.blocked = f.blocked /\ n.againBlocked = f.againBlocked
<1>1. CASE op.mode # "maintenance"
    BY <1>1 DEF Receipt
<1>2. CASE op.mode = "maintenance"
    <2> DEFINE done == r.state = (IF op.cleanup THEN "deleted" ELSE "created")
               at == IF done THEN r.checked ELSE now
               u == [f.upkeep EXCEPT !.resolved = done, !.outcome = at]
    <2>1. at \in Nat /\ done \in BOOLEAN
        BY DEF RowType
    <2> HIDE DEF done, at
    <2>2. u \in UpkeepType
        BY <2>1 DEF PhaseType, UpkeepType
    <2>3. Receipt(f, r) = [f EXCEPT !.upkeep = u]
        BY <1>2 DEF Receipt, done, at
    <2> HIDE DEF u
    <2>4. QED
        BY <2>2, <2>3 DEF PhaseType
<1>3. QED
    BY <1>1, <1>2

----------------------------------------------------------------------------
(* The fields of the operation in flight, step by step                     *)

LEMMA IdleFields ==
    /\ Idle \in OpType /\ Idle.step = "idle" /\ Idle.next = NewRow
    /\ NewRow.id = 0 /\ NewRow.checked = 0 /\ NewRow.outcome = 0 /\ NewRow.state = "new"
<1>1. (CHOOSE r \in Rows : TRUE) \in Rows
    BY PlanAssumption
<1>2. Idle.next \in RowType /\ Idle.next = NewRow
    BY EmptyPhase DEF Idle
<1>3. Idle \in OpType
    <2>1. NewRow \in RowType
        BY EmptyPhase
    <2>2. QED
        BY <1>1, <2>1 DEF Idle, OpType, Steps, Modes
<1>4. QED
    BY <1>2, <1>3 DEF Idle, NewRow

LEMMA StepFields ==
    ASSUME op \in OpType, NEW s \in Steps, Step(s)
    PROVE  /\ op' \in OpType /\ op'.step = s /\ op'.row = op.row /\ op'.mode = op.mode
           /\ op'.cleanup = op.cleanup /\ op'.readOnly = op.readOnly /\ op'.next = op.next
           /\ UNCHANGED <<now, saved, remote, ghosts>>
BY DEF Step, OpType

LEMMA SealFields ==
    ASSUME op \in OpType, NEW r \in RowType, Seal(r)
    PROVE  /\ op' \in OpType /\ op'.step = "sealing" /\ op'.row = op.row /\ op'.mode = op.mode
           /\ op'.cleanup = op.cleanup /\ op'.readOnly = op.readOnly /\ op'.next = r
           /\ UNCHANGED <<now, saved, remote, ghosts>>
<1>1. op' = [op EXCEPT !.step = "sealing", !.next = r] /\ UNCHANGED <<now, saved, remote, ghosts>>
    BY DEF Seal
<1>2. QED
    BY <1>1 DEF OpType, Steps

\* What is observed becomes the record to be saved.
LEMMA SeenCreated ==
    ASSUME NEW r \in RowType, NEW i \in Nat, now \in Nat
    PROVE  LET n == [r EXCEPT !.state = "created", !.id = i, !.checked = now]
           IN  /\ n \in RowType /\ n.state = "created" /\ n.id = i /\ n.checked = now
               /\ n.create = r.create /\ n.cleanup = r.cleanup /\ n.outcome = r.outcome
<1>1. \A s \in RowStates : [r EXCEPT !.state = s, !.id = i, !.checked = now] \in RowType
    BY DEF RowType
<1>2. "created" \in RowStates
    BY DEF RowStates
<1>3. QED
    BY <1>1, <1>2 DEF RowType

LEMMA Seen ==
    ASSUME NEW r \in RowType, NEW s \in RowStates, now \in Nat
    PROVE  LET n == [r EXCEPT !.state = s, !.checked = now]
           IN  /\ n \in RowType /\ n.state = s /\ n.id = r.id /\ n.checked = now
               /\ n.create = r.create /\ n.cleanup = r.cleanup /\ n.outcome = r.outcome
BY DEF RowType

----------------------------------------------------------------------------
(* Types and ranges                                                        *)

Ranges ==
    /\ now \in 1 .. MaxTime /\ config <= configs /\ configs <= MaxConfigs /\ ids <= MaxIds
    /\ \A r \in Rows : rows[r].id <= ids /\ rows[r].checked <= now /\ rows[r].outcome <= now
    /\ op.next.id <= ids /\ op.next.checked <= now
    /\ \A x \in zone : x.id <= ids

TInv == Typed /\ Ranges

LEMMA InitTInv == Init => TInv
<1> SUFFICES ASSUME Init PROVE TInv
    OBVIOUS
<1>1. rows \in [Rows -> RowType] /\ op \in OpType
    BY EmptyPhase, IdleFields DEF Init
<1>2. Typed
    BY <1>1 DEF Init, Typed, NoOrder, OrderType, NoPlan, PlanType
<1>3. op.next.id = 0 /\ op.next.checked = 0
    BY IdleFields DEF Init
<1>4. \A r \in Rows : rows[r].id = 0 /\ rows[r].checked = 0 /\ rows[r].outcome = 0
    BY IdleFields DEF Init
<1>5. Ranges
    BY <1>3, <1>4, PlanAssumption DEF Init, Ranges
<1>6. QED
    BY <1>2, <1>5 DEF TInv

\* A row is saved for the operation that ends.
LEMMA SavedTInv ==
    ASSUME TInv, NEW r \in Rows, NEW n \in RowType, n.id <= ids, n.checked <= now,
           n.outcome <= now, rows' = [rows EXCEPT ![r] = n], op' \in OpType,
           op'.next.id <= ids, op'.next.checked <= now, asked' \in [Rows -> Nat],
           UNCHANGED <<now, config, configs, order, started, plan, remote, posts, deletes>>
    PROVE  TInv'
<1>1. rows' \in [Rows -> RowType]
    BY DEF TInv, Typed
<1>2. Typed'
    BY <1>1 DEF TInv, Typed, remote
<1>3. \A s \in Rows : rows'[s].id <= ids /\ rows'[s].checked <= now /\ rows'[s].outcome <= now
    BY <1>1 DEF TInv, Ranges, Typed
<1>4. Ranges'
    BY <1>3 DEF TInv, Ranges, remote
<1>5. QED
    BY <1>2, <1>4 DEF TInv

\* Only the operation in flight changes.
LEMMA OpTInv ==
    ASSUME TInv, op' \in OpType, op'.next.id <= ids, op'.next.checked <= now,
           UNCHANGED <<now, saved, remote, ghosts>>
    PROVE  TInv'
BY DEF TInv, Typed, Ranges, saved, remote, ghosts

\* The saved rows start over.
LEMMA NewRowsTInv ==
    ASSUME TInv
    PROVE  LET q == [r \in Rows |-> NewRow]
           IN  /\ q \in [Rows -> RowType]
               /\ \A r \in Rows : q[r].id <= ids /\ q[r].checked <= now /\ q[r].outcome <= now
<1>1. ids \in Nat /\ now \in Nat
    BY DEF TInv, Typed
<1>2. QED
    BY <1>1, EmptyPhase, IdleFields

LEMMA ClockAndOrderTInv ==
    ASSUME TInv,
           Tick \/ SaveConfig \/ RemoveConfig \/ OrderReady \/ OrderValidated
    PROVE  TInv'
<1>1. CASE Tick
    BY <1>1, PlanAssumption DEF Tick, TInv, Typed, Ranges, saved, remote, ghosts, RowType, OpType
<1>2. CASE SaveConfig
    BY <1>2, PlanAssumption DEF SaveConfig, TInv, Typed, Ranges, remote, ghosts
<1>3. CASE RemoveConfig
    BY <1>3 DEF RemoveConfig, TInv, Typed, Ranges, remote, ghosts
<1>4. CASE OrderReady
    BY <1>4, PlanAssumption DEF OrderReady, TInv, Typed, Ranges, remote, ghosts, OrderType
<1>5. CASE OrderValidated
    BY <1>5 DEF OrderValidated, TInv, Typed, Ranges, remote, ghosts, OrderType
<1>6. QED
    BY <1>1, <1>2, <1>3, <1>4, <1>5

LEMMA CloseTInv == ASSUME TInv, CloseRequest PROVE TInv'
<1>1. /\ rows' \in [Rows -> RowType]
      /\ \A r \in Rows : rows'[r].id <= ids /\ rows'[r].checked <= now /\ rows'[r].outcome <= now
    BY NewRowsTInv DEF CloseRequest
<1>2. order' \in OrderType /\ plan' \in PlanType
    BY DEF CloseRequest, NoOrder, OrderType, NoPlan, PlanType
<1>3. QED
    BY <1>1, <1>2 DEF CloseRequest, TInv, Typed, Ranges, remote, ghosts

LEMMA PrepareTInv == ASSUME TInv, Prepare PROVE TInv'
<1>1. /\ rows' \in [Rows -> RowType]
      /\ \A r \in Rows : rows'[r].id <= ids /\ rows'[r].checked <= now /\ rows'[r].outcome <= now
    BY NewRowsTInv DEF Prepare
<1>2. plan' \in PlanType
    BY DEF Prepare, PlanType, TInv, Typed, OrderType
<1>3. QED
    BY <1>1, <1>2 DEF Prepare, TInv, Typed, Ranges, remote

LEMMA RowFacts ==
    ASSUME TInv
    PROVE  /\ op \in OpType /\ op.row \in Rows /\ now \in Nat /\ ids \in Nat
           /\ op.next \in RowType /\ op.next.id <= ids /\ op.next.checked <= now
           /\ Row \in RowType /\ Phase \in PhaseType
           /\ Row.id <= ids /\ Row.checked <= now /\ Row.outcome <= now
<1>1. op \in OpType /\ rows \in [Rows -> RowType] /\ now \in Nat /\ ids \in Nat
    BY DEF TInv, Typed
<1>2. op.row \in Rows /\ op.next \in RowType
    BY <1>1 DEF OpType
<1>3. Row \in RowType
    BY <1>1, <1>2 DEF Row
<1>4. Phase \in PhaseType
    BY <1>3 DEF Phase, RowType
<1>5. QED
    BY <1>1, <1>2, <1>3, <1>4 DEF TInv, Ranges, Row

LEMMA BeginEffect ==
    ASSUME TInv, NEW r \in Rows, NEW mode \in Modes, Begin(r, mode)
    PROVE  LET row == rows[r]
               f == IF CleansUp(row, mode) THEN row.cleanup ELSE row.create
           IN  /\ op.step = "idle" /\ plan.prepared # 0 /\ ModeFits(row, mode) /\ InTime(row)
               /\ row \in RowType /\ f \in PhaseType
               /\ \E g \in Attempt(f, mode) :
                      /\ g \in PhaseType /\ ValidRow(Reserved(row, mode, g))
                      /\ rows' = [rows EXCEPT ![r] = Reserved(row, mode, g)]
               /\ op' \in OpType /\ op'.step = "begun" /\ op'.row = r /\ op'.mode = mode
               /\ op'.cleanup = CleansUp(row, mode) /\ op'.readOnly = ReadsOnly(row)
               /\ op'.next = NewRow
               /\ UNCHANGED <<now, config, configs, order, started, plan, remote, ghosts>>
<1> DEFINE row == rows[r]
           f == IF CleansUp(row, mode) THEN row.cleanup ELSE row.create
           o == [step |-> "begun", row |-> r, mode |-> mode,
                 cleanup |-> CleansUp(row, mode), readOnly |-> ReadsOnly(row),
                 next |-> NewRow]
<1>1. row \in RowType /\ now \in Nat
    BY DEF TInv, Typed
<1>2. f \in PhaseType
    BY <1>1 DEF RowType
<1>3. /\ op.step = "idle" /\ plan.prepared # 0 /\ ModeFits(row, mode) /\ InTime(row)
      /\ op' = o
      /\ UNCHANGED <<now, config, configs, order, started, plan, remote, ghosts>>
    BY DEF Begin
<1>4. PICK g \in Attempt(f, mode) : /\ ValidRow(Reserved(row, mode, g))
                                    /\ rows' = [rows EXCEPT ![r] = Reserved(row, mode, g)]
    BY DEF Begin
<1>5. g \in PhaseType
    BY <1>1, <1>2, AttemptTyped
<1>6. o \in OpType
    <2>1. CleansUp(row, mode) \in BOOLEAN /\ ReadsOnly(row) \in BOOLEAN
        BY DEF CleansUp, ReadsOnly
    <2>2. NewRow \in RowType /\ "begun" \in Steps
        BY EmptyPhase DEF Steps
    <2> HIDE DEF row
    <2>3. QED
        BY <2>1, <2>2 DEF OpType
<1>7. QED
    BY <1>1, <1>2, <1>3, <1>4, <1>5, <1>6

LEMMA BeginTInv ==
    ASSUME TInv, NEW r \in Rows, NEW mode \in Modes, Begin(r, mode) PROVE TInv'
<1> DEFINE row == rows[r]
           f == IF CleansUp(row, mode) THEN row.cleanup ELSE row.create
<1>1. PICK g \in Attempt(f, mode) :
          g \in PhaseType /\ rows' = [rows EXCEPT ![r] = Reserved(row, mode, g)]
    BY BeginEffect
<1>2. row \in RowType /\ op' \in OpType /\ op'.next = NewRow
      /\ UNCHANGED <<now, config, configs, order, started, plan, remote, ghosts>>
    BY BeginEffect
<1> DEFINE n == Reserved(row, mode, g)
<1>3. n \in RowType /\ n.id = row.id /\ n.checked = row.checked /\ n.outcome = 0
    BY <1>1, <1>2, ReservedFields
<1>4. now \in Nat /\ ids \in Nat /\ row.id <= ids /\ row.checked <= now
      /\ asked \in [Rows -> Nat]
    BY DEF TInv, Typed, Ranges
<1>5. rows' = [rows EXCEPT ![r] = n]
    BY <1>1
<1>6. op'.next.id <= ids /\ op'.next.checked <= now
    BY <1>2, <1>4, IdleFields
<1> HIDE DEF n, row
<1>7. n.id <= ids /\ n.checked <= now /\ n.outcome <= now
    BY <1>3, <1>4
<1>8. /\ asked' \in [Rows -> Nat] /\ op' \in OpType
      /\ UNCHANGED <<now, config, configs, order, started, plan, remote, posts, deletes>>
    BY <1>2, <1>4 DEF ghosts
<1>9. QED
    BY <1>3, <1>5, <1>6, <1>7, <1>8, SavedTInv

LEMMA LookTInv ==
    ASSUME TInv, ListForCreate \/ ReadForCleanup \/ ConfirmMissing \/ Confirmed
    PROVE  TInv'
<1>1. /\ op \in OpType /\ now \in Nat /\ ids \in Nat /\ Row \in RowType
      /\ op.next.id <= ids /\ op.next.checked <= now
      /\ Row.id <= ids /\ Row.checked <= now
    BY RowFacts
<1>2. ASSUME NEW s \in Steps, Step(s) PROVE TInv'
    BY <1>1, <1>2, StepFields, OpTInv
<1>3. ASSUME NEW n \in RowType, n.id <= ids, n.checked <= now, Seal(n) PROVE TInv'
    BY <1>1, <1>3, SealFields, OpTInv
<1>4. ASSUME Seal(Row) PROVE TInv'
    BY <1>1, <1>3, <1>4
<1>5. ASSUME NEW x \in zone, Seal([Row EXCEPT !.state = "created", !.id = x.id, !.checked = now])
      PROVE  TInv'
    <2>1. x.id \in Nat /\ x.id <= ids
        BY DEF TInv, Typed, Ranges, ZoneType
    <2> DEFINE n == [Row EXCEPT !.state = "created", !.id = x.id, !.checked = now]
    <2>2. n \in RowType /\ n.id = x.id /\ n.checked = now
        BY <1>1, <2>1, SeenCreated
    <2> HIDE DEF n
    <2>3. Seal(n)
        BY <1>5 DEF n
    <2>4. QED
        BY <1>1, <1>3, <2>1, <2>2, <2>3
<1>6. ASSUME NEW s \in RowStates, Seal([Row EXCEPT !.state = s, !.checked = now])
      PROVE  TInv'
    <2> DEFINE n == [Row EXCEPT !.state = s, !.checked = now]
    <2>1. n \in RowType /\ n.id = Row.id /\ n.checked = now
        BY <1>1, Seen
    <2> HIDE DEF n
    <2>2. Seal(n)
        BY <1>6 DEF n
    <2>3. QED
        BY <1>1, <1>3, <2>1, <2>2
<1>7. CASE ListForCreate
    <2>1. \/ Seal(Row) \/ Step("clear")
          \/ \E x \in zone : Seal([Row EXCEPT !.state = "created", !.id = x.id, !.checked = now])
          \/ Seal([Row EXCEPT !.state = "borrowed", !.checked = now])
        BY <1>7 DEF ListForCreate, Matching
    <2>2. QED
        BY <1>2, <1>4, <1>5, <1>6, <2>1 DEF Steps, RowStates
<1>8. CASE ReadForCleanup
    <2>1. Step("missing") \/ Seal(Row) \/ Step("clear")
        BY <1>8 DEF ReadForCleanup
    <2>2. QED
        BY <1>2, <1>4, <2>1 DEF Steps
<1>9. CASE ConfirmMissing
    BY <1>6, <1>9 DEF ConfirmMissing, RowStates
<1>10. CASE Confirmed
    <2>1. \/ \E x \in zone : Seal([Row EXCEPT !.state = "created", !.id = x.id, !.checked = now])
          \/ Seal([Row EXCEPT !.state = "deleted", !.checked = now])
        BY <1>10 DEF Confirmed, Matching
    <2>2. QED
        BY <1>5, <1>6, <2>1 DEF RowStates
<1>11. QED
    BY <1>7, <1>8, <1>9, <1>10

LEMMA SendFields ==
    ASSUME TInv, Send
    PROVE  LET m == [kind |-> IF op.cleanup THEN "delete" ELSE "post", row |-> op.row, id |-> Row.id]
           IN  /\ op.step = "clear" /\ ~op.readOnly /\ wire' = wire \cup {m} /\ m \in WireType
               /\ IF op.cleanup
                  THEN deletes' = [deletes EXCEPT ![op.row] = @ + 1] /\ UNCHANGED posts
                  ELSE posts' = [posts EXCEPT ![op.row] = @ + 1] /\ UNCHANGED deletes
               /\ op' \in OpType /\ op'.step = "sent" /\ op'.row = op.row /\ op'.mode = op.mode
               /\ op'.cleanup = op.cleanup /\ op'.readOnly = op.readOnly /\ op'.next = op.next
               /\ UNCHANGED <<now, saved, zone, ids, asked>>
<1>1. op.row \in Rows /\ Row \in RowType /\ op \in OpType
    BY RowFacts
<1>2. [kind |-> IF op.cleanup THEN "delete" ELSE "post", row |-> op.row, id |-> Row.id] \in WireType
    BY <1>1 DEF WireType, RowType
<1>3. op' = [op EXCEPT !.step = "sent"]
    BY DEF Send
<1>4. /\ op' \in OpType /\ op'.step = "sent" /\ op'.row = op.row /\ op'.mode = op.mode
      /\ op'.cleanup = op.cleanup /\ op'.readOnly = op.readOnly /\ op'.next = op.next
    BY <1>1, <1>3 DEF OpType, Steps
<1>5. QED
    BY <1>2, <1>4 DEF Send

LEMMA SendTInv == ASSUME TInv, Send PROVE TInv'
<1>1. wire' \subseteq WireType
    BY SendFields DEF TInv, Typed
<1>2. posts' \in [Rows -> Nat] /\ deletes' \in [Rows -> Nat]
    BY SendFields, RowFacts DEF TInv, Typed
<1>3. op' \in OpType /\ op'.next = op.next /\ UNCHANGED <<now, saved, zone, ids, asked>>
    BY SendFields
<1>4. QED
    BY <1>1, <1>2, <1>3 DEF TInv, Typed, Ranges, saved

LEMMA FailFields ==
    ASSUME TInv, NEW h \in Hints, FailCall(h)
    PROVE  LET n == Published(Row, Deferred(Phase, h))
               honoured == PolicyLast + Week
               until == IF h.blocked \/ h.at > honoured THEN honoured ELSE h.at
           IN  /\ op.step # "idle" /\ Allowed /\ h \in HintType /\ until \in Nat
               /\ Deferred(Phase, h) \in PhaseType
               /\ n \in RowType /\ n.state = Row.state /\ n.id = Row.id
               /\ n.checked = Row.checked /\ n.outcome = now
               /\ ValidRow(n) /\ rows' = [rows EXCEPT ![op.row] = n]
               /\ asked' = [asked EXCEPT ![op.row] = Later(asked[op.row], until)]
               /\ asked' \in [Rows -> Nat] /\ op' = Idle
               /\ UNCHANGED <<now, config, configs, order, started, plan, remote, posts, deletes>>
<1> DEFINE n == Published(Row, Deferred(Phase, h))
           honoured == PolicyLast + Week
           until == IF h.blocked \/ h.at > honoured THEN honoured ELSE h.at
<1>1. op \in OpType /\ op.row \in Rows /\ now \in Nat /\ Row \in RowType /\ Phase \in PhaseType
    BY RowFacts
<1>2. h \in HintType
    BY <1>1, HintsTyped
<1>3. Deferred(Phase, h) \in PhaseType
    BY <1>1, <1>2, DeferredFields
<1>4. /\ n \in RowType /\ n.state = Row.state /\ n.id = Row.id
      /\ n.checked = Row.checked /\ n.outcome = now
    BY <1>1, <1>3, PublishedFields
<1>5. PolicyLast \in Nat /\ Week \in Nat
    BY <1>1, PlanAssumption, RetryAssumption DEF PolicyLast, PhaseType, RetryType, UpkeepType
<1>6. until \in Nat
    BY <1>2, <1>5 DEF HintType
<1>7. /\ op.step # "idle" /\ Allowed /\ ValidRow(n) /\ rows' = [rows EXCEPT ![op.row] = n]
      /\ asked' = [asked EXCEPT ![op.row] = Later(asked[op.row], until)] /\ op' = Idle
      /\ UNCHANGED <<now, config, configs, order, started, plan, remote, posts, deletes>>
    BY DEF FailCall
<1>8. asked' \in [Rows -> Nat]
    <2>1. asked \in [Rows -> Nat] /\ asked[op.row] \in Nat
        BY <1>1 DEF TInv, Typed
    <2>2. Later(asked[op.row], until) \in Nat
        BY <1>6, <2>1, LaterIsOne
    <2> HIDE DEF until
    <2>3. QED
        BY <1>7, <2>1, <2>2
<1>9. QED
    BY <1>2, <1>3, <1>4, <1>6, <1>7, <1>8

LEMMA OutcomeFields ==
    ASSUME TInv
    PROVE  /\ Outcome \in RowType /\ Outcome.state = op.next.state /\ Outcome.id = op.next.id
           /\ Outcome.checked = op.next.checked /\ Outcome.outcome = now
           /\ Receipt(Phase, op.next) \in PhaseType
           /\ Outcome.create = IF op.cleanup THEN op.next.create ELSE Receipt(Phase, op.next)
           /\ Outcome.cleanup = IF op.cleanup THEN Receipt(Phase, op.next) ELSE op.next.cleanup
<1>1. now \in Nat /\ op.next \in RowType /\ Phase \in PhaseType
    BY RowFacts
<1>2. Receipt(Phase, op.next) \in PhaseType
    BY <1>1, ReceiptFields
<1>3. QED
    BY <1>1, <1>2, PublishedFields DEF Outcome

LEMMA EndTInv == ASSUME TInv, (\E h \in Hints : FailCall(h)) \/ SaveOutcome \/ Abandon PROVE TInv'
<1>1. /\ op.row \in Rows /\ now \in Nat /\ ids \in Nat
      /\ op.next.id <= ids /\ op.next.checked <= now /\ Row.id <= ids /\ Row.checked <= now
      /\ asked \in [Rows -> Nat]
    BY RowFacts DEF TInv, Typed
<1>2. Idle \in OpType /\ Idle.next.id <= ids /\ Idle.next.checked <= now
    BY <1>1, IdleFields
<1>3. ASSUME NEW h \in Hints, FailCall(h) PROVE TInv'
    <2> DEFINE n == Published(Row, Deferred(Phase, h))
    <2>1. /\ n \in RowType /\ n.id = Row.id /\ n.checked = Row.checked /\ n.outcome = now
          /\ rows' = [rows EXCEPT ![op.row] = n] /\ asked' \in [Rows -> Nat] /\ op' = Idle
          /\ UNCHANGED <<now, config, configs, order, started, plan, remote, posts, deletes>>
        BY <1>3, FailFields
    <2> HIDE DEF n
    <2>2. /\ n.id <= ids /\ n.checked <= now /\ n.outcome <= now
          /\ op' \in OpType /\ op'.next.id <= ids /\ op'.next.checked <= now
        BY <1>1, <1>2, <2>1
    <2>3. QED
        BY <1>1, <2>1, <2>2, SavedTInv
<1>4. CASE SaveOutcome
    <2>1. /\ Outcome \in RowType /\ Outcome.id = op.next.id
          /\ Outcome.checked = op.next.checked /\ Outcome.outcome = now
        BY OutcomeFields
    <2>2. /\ rows' = [rows EXCEPT ![op.row] = Outcome] /\ op' = Idle /\ asked' = asked
          /\ UNCHANGED <<now, config, configs, order, started, plan, remote, posts, deletes>>
        BY <1>4 DEF SaveOutcome, ghosts
    <2>3. /\ Outcome.id <= ids /\ Outcome.checked <= now /\ Outcome.outcome <= now
          /\ op' \in OpType /\ op'.next.id <= ids /\ op'.next.checked <= now
        BY <1>1, <1>2, <2>1, <2>2
    <2>4. QED
        BY <1>1, <2>1, <2>2, <2>3, SavedTInv
<1>5. CASE Abandon
    BY <1>2, <1>5, OpTInv DEF Abandon
<1>6. QED
    BY <1>3, <1>4, <1>5

LEMMA HandleFields ==
    ASSUME TInv, NEW m \in wire, Handle(m)
    PROVE  /\ m \in WireType /\ wire' = wire \ {m}
           /\ \/ /\ m.kind = "post" /\ ids < MaxIds /\ ids' = ids + 1
                 /\ zone' = zone \cup {[id |-> ids + 1, row |-> m.row,
                                        marked |-> TRUE, ours |-> TRUE]}
              \/ m.kind = "delete" /\ zone' = {x \in zone : x.id # m.id} /\ ids' = ids
           /\ op' \in OpType /\ op'.row = op.row /\ op'.mode = op.mode
           /\ op'.cleanup = op.cleanup /\ op'.readOnly = op.readOnly /\ op'.next = op.next
           /\ \/ /\ op.step = "sent" /\ op.row = m.row
                 /\ op'.step = IF m.kind = "post" THEN "created" ELSE "deleted"
              \/ ~(op.step = "sent" /\ op.row = m.row) /\ op' = op
           /\ UNCHANGED <<now, saved, ghosts>>
<1>1. m \in WireType /\ op \in OpType
    BY DEF TInv, Typed
<1>2. m.kind \in {"post", "delete"}
    BY <1>1 DEF WireType
<1>3. \A s \in Steps : LET o == [op EXCEPT !.step = s]
                       IN  /\ o \in OpType /\ o.step = s /\ o.row = op.row /\ o.mode = op.mode
                           /\ o.cleanup = op.cleanup /\ o.readOnly = op.readOnly
                           /\ o.next = op.next
    BY <1>1 DEF OpType
<1>4. CASE op.step = "sent" /\ op.row = m.row
    <2> DEFINE s == IF m.kind = "post" THEN "created" ELSE "deleted"
    <2>1. op' = [op EXCEPT !.step = s] /\ s \in Steps
        BY <1>4 DEF Handle, Steps
    <2> HIDE DEF s
    <2>2. /\ op' \in OpType /\ op'.step = s /\ op'.row = op.row /\ op'.mode = op.mode
          /\ op'.cleanup = op.cleanup /\ op'.readOnly = op.readOnly /\ op'.next = op.next
        BY <1>3, <2>1
    <2>3. QED
        BY <1>1, <1>2, <1>4, <2>2 DEF Handle, s
<1>5. CASE ~(op.step = "sent" /\ op.row = m.row)
    BY <1>1, <1>2, <1>5 DEF Handle
<1>6. QED
    BY <1>4, <1>5

LEMMA RemoteTInv ==
    ASSUME TInv,
           \/ \E m \in wire : Handle(m) \/ Drop(m)
           \/ \E r \in Rows : OthersAdd(r)
           \/ \E x \in zone : OthersChange(x)
    PROVE  TInv'
<1>1. ASSUME NEW m \in wire, Handle(m) PROVE TInv'
    <2>1. /\ m \in WireType /\ wire' = wire \ {m}
          /\ op' \in OpType /\ op'.next = op.next
          /\ UNCHANGED <<now, saved, ghosts>>
        BY <1>1, HandleFields
    <2>2. /\ ids' \in Nat /\ ids <= ids' /\ ids' <= MaxIds /\ zone' \subseteq ZoneType
          /\ \A x \in zone' : x.id <= ids'
        <3>1. CASE m.kind = "post" /\ ids < MaxIds /\ ids' = ids + 1
                   /\ zone' = zone \cup {[id |-> ids + 1, row |-> m.row,
                                          marked |-> TRUE, ours |-> TRUE]}
            <4> DEFINE x == [id |-> ids + 1, row |-> m.row, marked |-> TRUE, ours |-> TRUE]
            <4>1. ids \in Nat /\ x \in ZoneType /\ x.id = ids + 1
                BY <2>1 DEF TInv, Typed, ZoneType, WireType
            <4>2. \A y \in zone : y \in ZoneType /\ y.id <= ids /\ y.id \in Nat
                BY DEF TInv, Typed, Ranges, ZoneType
            <4>3. zone' = zone \cup {x}
                BY <3>1
            <4> HIDE DEF x
            <4>4. QED
                BY <3>1, <4>1, <4>2, <4>3, PlanAssumption
        <3>2. CASE m.kind = "delete" /\ zone' = {x \in zone : x.id # m.id} /\ ids' = ids
            BY <3>2 DEF TInv, Typed, Ranges
        <3>3. QED
            BY <1>1, <3>1, <3>2, HandleFields
    <2>3. Typed'
        BY <2>1, <2>2 DEF TInv, Typed, saved, ghosts
    <2>4. Ranges'
        BY <2>1, <2>2 DEF TInv, Typed, Ranges, saved, ghosts, RowType, OpType
    <2>5. QED
        BY <2>3, <2>4 DEF TInv
<1>2. ASSUME NEW m \in wire, Drop(m) PROVE TInv'
    BY <1>2 DEF Drop, TInv, Typed, Ranges, saved, ghosts
<1>3. ASSUME NEW r \in Rows, OthersAdd(r) PROVE TInv'
    <2> DEFINE x == [id |-> ids + 1, row |-> r, marked |-> FALSE, ours |-> FALSE]
    <2>1. ids \in Nat /\ x \in ZoneType /\ x.id = ids + 1
        BY DEF TInv, Typed, ZoneType
    <2>2. \A y \in zone : y \in ZoneType /\ y.id <= ids /\ y.id \in Nat
        BY DEF TInv, Typed, Ranges, ZoneType
    <2>3. /\ zone' = zone \cup {x} /\ ids < MaxIds /\ ids' = ids + 1
          /\ UNCHANGED <<now, saved, op, wire, ghosts>>
        BY <1>3 DEF OthersAdd
    <2> HIDE DEF x
    <2>4. ids' \in Nat /\ zone' \subseteq ZoneType /\ \A y \in zone' : y.id <= ids'
        BY <2>1, <2>2, <2>3
    <2>5. Typed'
        BY <2>3, <2>4 DEF TInv, Typed, saved, ghosts
    <2>6. Ranges'
        BY <2>3, <2>4, <2>1, PlanAssumption DEF TInv, Typed, Ranges, saved, ghosts, RowType, OpType
    <2>7. QED
        BY <2>5, <2>6 DEF TInv
<1>4. ASSUME NEW x \in zone, OthersChange(x) PROVE TInv'
    <2>1. x \in ZoneType /\ x.id <= ids
        BY DEF TInv, Typed, Ranges
    <2>2. [x EXCEPT !.marked = FALSE] \in ZoneType /\ [x EXCEPT !.marked = FALSE].id = x.id
        BY <2>1 DEF ZoneType
    <2>3. zone' \subseteq ZoneType /\ \A y \in zone' : y.id <= ids
        BY <1>4, <2>1, <2>2 DEF OthersChange, TInv, Typed, Ranges
    <2>4. QED
        BY <1>4, <2>3 DEF OthersChange, TInv, Typed, Ranges, saved, ghosts
<1>5. QED
    BY <1>1, <1>2, <1>3, <1>4

LEMMA NextTInv == TInv /\ [Next]_vars => TInv'
<1> SUFFICES ASSUME TInv, [Next]_vars PROVE TInv'
    OBVIOUS
<1>1. CASE Next
    BY <1>1, ClockAndOrderTInv, CloseTInv, PrepareTInv, BeginTInv, LookTInv, SendTInv,
       EndTInv, RemoteTInv DEF Next
<1>2. CASE UNCHANGED vars
    BY <1>2 DEF vars, saved, remote, ghosts, TInv, Typed, Ranges
<1>3. QED
    BY <1>1, <1>2

LEMMA SpecTInv == Spec => []TInv
BY InitTInv, NextTInv, PTL DEF Spec

----------------------------------------------------------------------------
(* The token of the plan, and the record an operation works on             *)

\* The intent of an operation, as it is committed.
LEMMA BegunRow ==
    ASSUME TInv, NEW r \in Rows, NEW mode \in Modes, Begin(r, mode)
    PROVE  /\ rows'[r] \in RowType
           /\ rows'[r].id = rows[r].id /\ rows'[r].checked = rows[r].checked
           /\ rows'[r].outcome = 0
           /\ rows'[r].state = IF op'.cleanup THEN "deleting" ELSE "creating"
           /\ \A s \in Rows \ {r} : rows'[s] = rows[s]
           /\ op'.row = r /\ op'.step = "begun" /\ op'.mode = mode
           /\ op'.cleanup = CleansUp(rows[r], mode) /\ op'.readOnly = ReadsOnly(rows[r])
           /\ ValidRow(rows'[r])
           /\ IF op'.cleanup
              THEN /\ rows[r].state \in {"created", "deleting"}
                   /\ rows'[r].create = rows[r].create
                   /\ rows'[r].cleanup \in Attempt(rows[r].cleanup, mode)
              ELSE /\ rows[r].state \in {"new", "creating"}
                   /\ rows'[r].cleanup = rows[r].cleanup
                   /\ rows'[r].create \in Attempt(rows[r].create, mode)
<1> DEFINE row == rows[r]
           f == IF CleansUp(row, mode) THEN row.cleanup ELSE row.create
<1>1. PICK g \in Attempt(f, mode) : /\ g \in PhaseType
                                    /\ ValidRow(Reserved(row, mode, g))
                                    /\ rows' = [rows EXCEPT ![r] = Reserved(row, mode, g)]
    BY BeginEffect
<1>2. /\ row \in RowType /\ ModeFits(row, mode) /\ op'.row = r /\ op'.step = "begun"
      /\ op'.mode = mode
      /\ op'.cleanup = CleansUp(row, mode) /\ op'.readOnly = ReadsOnly(row)
    BY BeginEffect
<1> DEFINE n == Reserved(row, mode, g)
<1>3. /\ n \in RowType /\ n.id = row.id /\ n.checked = row.checked /\ n.outcome = 0
      /\ n.state = IF mode \in {"recover", "maintenance"} THEN row.state
                   ELSE IF CleansUp(row, mode) THEN "deleting" ELSE "creating"
      /\ n.create = IF CleansUp(row, mode) THEN row.create ELSE g
      /\ n.cleanup = IF CleansUp(row, mode) THEN g ELSE row.cleanup
    BY <1>1, <1>2, ReservedFields
<1>4. rows \in [Rows -> RowType]
    BY DEF TInv, Typed
<1>5. rows'[r] = n /\ \A s \in Rows \ {r} : rows'[s] = rows[s]
    BY <1>1, <1>4
<1>6. /\ CleansUp(row, mode) => row.state \in {"created", "deleting"}
      /\ ~CleansUp(row, mode) => row.state \in {"new", "creating"}
      /\ mode \in {"recover", "maintenance"} =>
             row.state = IF CleansUp(row, mode) THEN "deleting" ELSE "creating"
    BY <1>2 DEF ModeFits, CleansUp, Modes
<1> HIDE DEF n, row
<1>7. n.state = IF CleansUp(row, mode) THEN "deleting" ELSE "creating"
    BY <1>3, <1>6
<1>8. CASE CleansUp(row, mode)
    BY <1>1, <1>2, <1>3, <1>5, <1>6, <1>7, <1>8 DEF n, row
<1>9. CASE ~CleansUp(row, mode)
    BY <1>1, <1>2, <1>3, <1>5, <1>6, <1>7, <1>9 DEF n, row
<1>10. QED
    BY <1>8, <1>9

\* The operation goes on, or ends, and nothing that is saved has changed.
OpGoesOn ==
    /\ op'.step # "idle" => /\ op.step # "idle" /\ op'.row = op.row /\ op'.mode = op.mode
                            /\ op'.cleanup = op.cleanup /\ op'.readOnly = op.readOnly
    /\ UNCHANGED saved

LEMMA OpSteps ==
    ASSUME TInv,
           \/ ListForCreate \/ ReadForCleanup \/ ConfirmMissing \/ Send \/ Confirmed \/ Abandon
           \/ \E m \in wire : Handle(m) \/ Drop(m)
           \/ \E r \in Rows : OthersAdd(r)
           \/ \E x \in zone : OthersChange(x)
    PROVE  OpGoesOn /\ now' = now /\ asked' = asked
<1>1. /\ op \in OpType /\ now \in Nat /\ Row \in RowType
    BY RowFacts
<1>2. ASSUME NEW s \in Steps, Step(s), op.step # "idle" PROVE OpGoesOn /\ now' = now /\ asked' = asked
    BY <1>1, <1>2, StepFields DEF OpGoesOn, ghosts
<1>3. ASSUME NEW n, Seal(n), op.step # "idle" PROVE OpGoesOn /\ now' = now /\ asked' = asked
    <2>1. op' = [op EXCEPT !.step = "sealing", !.next = n] /\ UNCHANGED <<now, saved, remote, ghosts>>
        BY <1>3 DEF Seal
    <2>2. /\ op'.row = op.row /\ op'.mode = op.mode
          /\ op'.cleanup = op.cleanup /\ op'.readOnly = op.readOnly
        BY <1>1, <2>1 DEF OpType
    <2>3. QED
        BY <1>3, <2>1, <2>2 DEF OpGoesOn, ghosts
<1>4. CASE ListForCreate
    <2>1. op.step # "idle" /\ ((\E n : Seal(n)) \/ Step("clear"))
        BY <1>4 DEF ListForCreate
    <2>2. QED
        BY <1>2, <1>3, <2>1 DEF Steps
<1>5. CASE ReadForCleanup
    <2>1. op.step # "idle" /\ ((\E n : Seal(n)) \/ Step("clear") \/ Step("missing"))
        BY <1>5 DEF ReadForCleanup
    <2>2. QED
        BY <1>2, <1>3, <2>1 DEF Steps
<1>6. CASE ConfirmMissing
    BY <1>3, <1>6 DEF ConfirmMissing
<1>7. CASE Confirmed
    <2>1. op.step # "idle" /\ (\E n : Seal(n))
        BY <1>7 DEF Confirmed
    <2>2. QED
        BY <1>3, <2>1
<1>8. CASE Send
    BY <1>8, SendFields DEF OpGoesOn
<1>9. CASE Abandon
    BY <1>9, IdleFields DEF Abandon, OpGoesOn, ghosts
<1>10. ASSUME NEW m \in wire, Handle(m) PROVE OpGoesOn /\ now' = now /\ asked' = asked
    BY <1>10, HandleFields DEF OpGoesOn, ghosts
<1>11. ASSUME NEW m \in wire, Drop(m) PROVE OpGoesOn /\ now' = now /\ asked' = asked
    BY <1>11 DEF Drop, OpGoesOn, ghosts
<1>12. ASSUME NEW r \in Rows, OthersAdd(r) PROVE OpGoesOn /\ now' = now /\ asked' = asked
    BY <1>12 DEF OthersAdd, OpGoesOn, ghosts
<1>13. ASSUME NEW x \in zone, OthersChange(x) PROVE OpGoesOn /\ now' = now /\ asked' = asked
    BY <1>13 DEF OthersChange, OpGoesOn, ghosts
<1>14. QED
    BY <1>4, <1>5, <1>6, <1>7, <1>8, <1>9, <1>10, <1>11, <1>12, <1>13

\* The token stays, and who runs works on a record of the plan that its intent
\* has moved.
Course ==
    /\ order.state # "not-started" => started
    /\ TokenKept
    /\ plan.prepared # 0 => order.state # "not-started"
    /\ op.step # "idle" =>
          plan.prepared # 0 /\ Row.state = IF op.cleanup THEN "deleting" ELSE "creating"

LEMMA InitCourse == Init => Course
BY IdleFields DEF Init, Course, TokenKept, NoOrder, NoPlan

LEMMA NextCourse == TInv /\ TInv' /\ Course /\ [Next]_vars => Course'
<1> SUFFICES ASSUME TInv, TInv', Course, [Next]_vars PROVE Course'
    OBVIOUS
<1>1. ASSUME OpGoesOn PROVE Course'
    BY <1>1 DEF OpGoesOn, Course, saved, TokenKept, Row
<1>2. CASE Tick
    BY <1>2 DEF Tick, Course, saved, TokenKept, Row
<1>3. CASE SaveConfig \/ RemoveConfig
    BY <1>3 DEF SaveConfig, RemoveConfig, CanChange, Course, TokenKept
<1>4. CASE OrderReady \/ OrderValidated
    BY <1>4 DEF OrderReady, OrderValidated, Course, TokenKept
<1>5. CASE CloseRequest
    BY <1>5 DEF CloseRequest, Course, TokenKept, NoPlan, NoOrder
<1>6. CASE Prepare
    BY <1>6 DEF Prepare, Course, TokenKept
<1>7. ASSUME NEW r \in Rows, NEW mode \in Modes, Begin(r, mode) PROVE Course'
    <2>1. rows'[r].state = IF op'.cleanup THEN "deleting" ELSE "creating"
        BY <1>7, BegunRow
    <2>2. op'.row = r /\ plan.prepared # 0
          /\ UNCHANGED <<now, config, configs, order, started, plan, remote, ghosts>>
        BY <1>7, BeginEffect
    <2>3. Row' = rows'[r]
        BY <2>2 DEF Row
    <2>4. QED
        BY <2>1, <2>2, <2>3 DEF Course, TokenKept
<1>8. CASE (\E h \in Hints : FailCall(h)) \/ SaveOutcome
    <2>1. op'.step = "idle" /\ UNCHANGED <<config, order, started, plan>>
        BY <1>8, IdleFields DEF FailCall, SaveOutcome
    <2>2. QED
        BY <2>1 DEF Course, TokenKept
<1>9. CASE UNCHANGED vars
    BY <1>9 DEF vars, saved, Course, TokenKept, Row
<1>10. QED
    BY <1>1, <1>2, <1>3, <1>4, <1>5, <1>6, <1>7, <1>8, <1>9, OpSteps DEF Next

LEMMA SpecCourse == Spec => []Course
BY SpecTInv, InitCourse, NextCourse, PTL DEF Spec

----------------------------------------------------------------------------
(* Waiting                                                                 *)

OrdinaryAt(f, t) == ~f.blocked /\ Ready(f.retry, t)

RecoverAt(f, t) ==
    /\ ~f.blocked /\ f.retry.attempts = MaxAttempts /\ t >= f.retry.wait
    /\ ~f.againBlocked /\ Ready(f.again, t)

UpkeepAt(f, t) == Terminal(f) /\ t >= Later(MaintenanceFloor(f), f.upkeep.wait)

\* No policy of the phase grants an attempt before moment a.
Held(f, a) ==
    \A t \in Nat : OrdinaryAt(f, t) \/ RecoverAt(f, t) \/ UpkeepAt(f, t) => t >= a

\* What the provider asked for has passed, or the phase that was refused is
\* held back until then.
Waiting(r) ==
    \/ asked[r] <= now
    \/ rows[r].state = "creating" /\ Held(rows[r].create, asked[r])
    \/ rows[r].state = "deleting" /\ Held(rows[r].cleanup, asked[r])

\* The attempt that runs was granted by the policy that its failure will hold
\* back.
GrantKept ==
    CASE op.mode = "recover" ->
            Phase.again.attempts > 0 /\ Phase.retry.attempts = MaxAttempts
      [] op.mode = "maintenance" -> Terminal(Phase)
      [] OTHER -> Phase.retry.attempts > 0

WaitInv ==
    /\ plan.prepared # 0 => \A r \in Rows : Waiting(r)
    /\ op.step # "idle" => asked[op.row] <= now /\ GrantKept

\* A granted attempt is in time.
LEMMA GrantInTime ==
    ASSUME NEW f \in PhaseType, now \in Nat, NEW mode \in Modes, NEW g \in Attempt(f, mode)
    PROVE  /\ OrdinaryAt(f, now) \/ RecoverAt(f, now) \/ UpkeepAt(f, now)
           /\ CASE mode = "recover" -> g.again.attempts > 0 /\ g.retry.attempts = MaxAttempts
                [] mode = "maintenance" -> Terminal(g)
                [] OTHER -> g.retry.attempts > 0
<1>0. f.retry \in RetryType /\ f.again \in RetryType
    BY DEF PhaseType
<1>1. CASE mode = "recover"
    <2>1. /\ g.again.attempts = f.again.attempts + 1 /\ g.retry = f.retry
          /\ RecoverGranted(f) /\ Ready(f.again, now)
        BY <1>1, RecoveryGrant DEF Attempt
    <2>2. QED
        BY <1>0, <1>1, <2>1 DEF RecoverAt, RecoverGranted, RetryType
<1>2. CASE mode = "maintenance"
    <2>1. /\ g.retry = f.retry /\ g.blocked = f.blocked /\ g.again = f.again
          /\ g.againBlocked = f.againBlocked /\ Terminal(f)
          /\ now >= Later(MaintenanceFloor(f), f.upkeep.wait)
        BY <1>2, MaintenanceGrant DEF Attempt
    <2>2. QED
        BY <1>2, <2>1 DEF UpkeepAt, Terminal
<1>3. CASE mode \in {"add", "check", "cleanup"}
    <2>1. g \in OrdinaryAttempt(f)
        BY <1>3 DEF Attempt
    <2>2. /\ g.retry.attempts = f.retry.attempts + 1 /\ ~f.blocked
        BY <2>1, OrdinaryGrant
    <2>3. OrdinaryAt(f, now)
        BY <2>1 DEF OrdinaryAttempt, Reservable, OrdinaryAt
    <2>4. QED
        BY <1>0, <1>3, <2>2, <2>3 DEF RetryType
<1>4. QED
    BY <1>1, <1>2, <1>3 DEF Modes

LEMMA FloorBounds ==
    ASSUME NEW f \in PhaseType
    PROVE  LET last == Later(f.retry.last, f.again.last)
               wait == Later(f.retry.wait, f.again.wait)
           IN  /\ MaintenanceFloor(f) \in Nat /\ Week \in Nat /\ Day \in Nat
               /\ last \in Nat /\ wait \in Nat
               /\ MaintenanceFloor(f) >= wait
               /\ MaintenanceFloor(f) >= last + Day
               /\ f.blocked \/ f.againBlocked => MaintenanceFloor(f) >= last + Week
<1> DEFINE last == Later(f.retry.last, f.again.last)
           wait == Later(f.retry.wait, f.again.wait)
           delay == IF f.blocked \/ f.againBlocked THEN Week ELSE Day
<1>1. Week \in Nat /\ Day \in Nat /\ Day <= Week
    BY PlanAssumption, RetryAssumption
<1>2. last \in Nat /\ wait \in Nat
    BY LaterIsOne DEF PhaseType, RetryType
<1>3. delay \in Nat /\ delay >= Day /\ (f.blocked \/ f.againBlocked => delay = Week)
    BY <1>1
<1> HIDE DEF last, wait, delay
<1>4. MaintenanceFloor(f) = Later(wait, last + delay)
    BY DEF MaintenanceFloor, last, wait, delay
<1>5. /\ MaintenanceFloor(f) \in Nat /\ MaintenanceFloor(f) >= wait
      /\ MaintenanceFloor(f) >= last + delay
    <2>1. last + delay \in Nat
        BY <1>2, <1>3
    <2>2. /\ Later(wait, last + delay) \in Nat /\ Later(wait, last + delay) >= wait
          /\ Later(wait, last + delay) >= last + delay
        BY <1>2, <2>1, LaterIsOne
    <2>3. QED
        BY <1>4, <2>2
<1>6. QED
    BY <1>1, <1>2, <1>3, <1>5 DEF last, wait

\* A failed call holds its phase back until the moment it was told.
LEMMA DeferredHolds ==
    ASSUME TInv, GrantKept, NEW h \in HintType, Deferred(Phase, h) \in PhaseType
    PROVE  LET honoured == PolicyLast + Week
           IN  Held(Deferred(Phase, h), IF h.blocked \/ h.at > honoured THEN honoured ELSE h.at)
<1> DEFINE f == Phase
           n == Deferred(f, h)
           honoured == PolicyLast + Week
           until == IF h.blocked \/ h.at > honoured THEN honoured ELSE h.at
<1>1. f \in PhaseType /\ n \in PhaseType /\ now \in Nat /\ op \in OpType
    BY RowFacts
<1>2. /\ f.retry \in RetryType /\ f.again \in RetryType /\ f.upkeep \in UpkeepType
      /\ n.retry \in RetryType /\ n.again \in RetryType /\ n.upkeep \in UpkeepType
    BY <1>1 DEF PhaseType
<1>3. /\ MaintenanceFloor(n) \in Nat /\ Week \in Nat
      /\ MaintenanceFloor(n) >= Later(n.retry.wait, n.again.wait)
      /\ n.blocked \/ n.againBlocked =>
             MaintenanceFloor(n) >= Later(n.retry.last, n.again.last) + Week
    BY <1>1, FloorBounds
<1>4. /\ Later(n.retry.wait, n.again.wait) >= n.retry.wait
      /\ Later(n.retry.wait, n.again.wait) >= n.again.wait
      /\ Later(n.retry.last, n.again.last) >= n.retry.last
      /\ Later(n.retry.last, n.again.last) >= n.again.last
      /\ Later(n.retry.wait, n.again.wait) \in Nat
      /\ Later(n.retry.last, n.again.last) \in Nat
    BY <1>2, LaterIsOne DEF RetryType
<1>5. ASSUME NEW t \in Nat, OrdinaryAt(n, t) \/ RecoverAt(n, t) \/ UpkeepAt(n, t)
      PROVE  t >= until
    <2>1. UpkeepAt(n, t) => t >= MaintenanceFloor(n) /\ t >= n.upkeep.wait
        <3>1. n.upkeep.wait \in Nat
            BY <1>2 DEF UpkeepType
        <3>2. /\ Later(MaintenanceFloor(n), n.upkeep.wait) \in Nat
              /\ Later(MaintenanceFloor(n), n.upkeep.wait) >= MaintenanceFloor(n)
              /\ Later(MaintenanceFloor(n), n.upkeep.wait) >= n.upkeep.wait
            BY <1>3, <3>1, LaterIsOne
        <3>3. QED
            BY <1>3, <3>1, <3>2 DEF UpkeepAt
    <2>2. CASE op.mode = "maintenance"
        <3>1. PolicyLast = f.upkeep.last /\ Terminal(f)
            BY <2>2 DEF PolicyLast, GrantKept
        <3>2. /\ n.retry = f.retry /\ n.blocked = f.blocked
              /\ n.again = f.again /\ n.againBlocked = f.againBlocked
              /\ n.upkeep.wait = IF h.blocked \/ h.at > honoured THEN honoured
                                 ELSE Later(f.upkeep.wait, h.at)
            <4> DEFINE u == [f.upkeep EXCEPT !.blocked = TRUE, !.wait = honoured, !.outcome = now]
                       v == [f.upkeep EXCEPT !.wait = Later(f.upkeep.wait, h.at), !.outcome = now]
            <4>1. n = IF h.blocked \/ h.at > honoured THEN [f EXCEPT !.upkeep = u]
                                                      ELSE [f EXCEPT !.upkeep = v]
                BY <2>2, <3>1 DEF Deferred
            <4>2. u.wait = honoured /\ v.wait = Later(f.upkeep.wait, h.at)
                BY <1>2 DEF UpkeepType
            <4> HIDE DEF u, v, n, honoured
            <4>3. ASSUME NEW w PROVE LET g == [f EXCEPT !.upkeep = w]
                                     IN  /\ g.upkeep = w /\ g.retry = f.retry /\ g.again = f.again
                                         /\ g.blocked = f.blocked
                                         /\ g.againBlocked = f.againBlocked
                <5> HIDE DEF f
                <5>1. QED
                    BY <1>1 DEF PhaseType
            <4>4. CASE h.blocked \/ h.at > honoured
                BY <4>1, <4>2, <4>3, <4>4
            <4>5. CASE ~(h.blocked \/ h.at > honoured)
                BY <4>1, <4>2, <4>3, <4>5
            <4>6. QED
                BY <4>4, <4>5
        <3>3. n.upkeep.wait >= until
            <4>1. f.upkeep.wait \in Nat /\ f.upkeep.last \in Nat /\ h.at \in Nat
                BY <1>2 DEF UpkeepType, HintType
            <4>2. Later(f.upkeep.wait, h.at) >= h.at
                BY <4>1, LaterIsOne
            <4>3. honoured \in Nat
                BY <1>3, <3>1, <4>1
            <4> HIDE DEF n, f, honoured
            <4>4. QED
                BY <3>2, <4>2, <4>3
        <3>4. ~OrdinaryAt(n, t) /\ ~RecoverAt(n, t)
            BY <1>2, <3>1, <3>2 DEF Terminal, OrdinaryAt, RecoverAt, Ready, RetryType
        <3>5. until \in Nat /\ n.upkeep.wait \in Nat
            BY <1>2, <1>3, <3>1 DEF HintType, UpkeepType
        <3>6. QED
            BY <1>5, <2>1, <3>3, <3>4, <3>5
    <2>3. CASE op.mode = "recover"
        <3>1. /\ PolicyLast = f.again.last /\ f.again.attempts > 0
              /\ f.retry.attempts = MaxAttempts
            BY <2>3 DEF PolicyLast, GrantKept
        <3>2. n = IF Refused(f.again, h) THEN [f EXCEPT !.againBlocked = TRUE]
                                         ELSE [f EXCEPT !.again = Lengthen(f.again, h)]
            BY <2>3 DEF Deferred
        <3>3. until \in Nat
            BY <1>2, <1>3, <3>1 DEF HintType, RetryType
        <3>4. CASE Refused(f.again, h)
            <4>1. /\ n.againBlocked = TRUE /\ n.retry = f.retry /\ n.again = f.again
                BY <1>1, <3>2, <3>4 DEF PhaseType
            <4>2. ~OrdinaryAt(n, t) /\ ~RecoverAt(n, t)
                BY <1>2, <3>1, <4>1 DEF OrdinaryAt, RecoverAt, Ready, RetryType
            <4>3. MaintenanceFloor(n) >= honoured
                BY <1>2, <1>3, <1>4, <3>1, <4>1 DEF RetryType
            <4>4. honoured >= until
                BY <1>2, <1>3, <3>1 DEF RetryType, HintType
            <4>5. QED
                BY <1>2, <1>3, <1>5, <2>1, <3>1, <3>3, <4>2, <4>3, <4>4 DEF RetryType
        <3>5. CASE ~Refused(f.again, h)
            <4>1. /\ n.retry = f.retry /\ n.again = Lengthen(f.again, h)
                  /\ n.blocked = f.blocked /\ n.againBlocked = f.againBlocked
                BY <1>1, <3>2, <3>5 DEF PhaseType
            <4>2. n.again.wait = Later(f.again.wait, h.at) /\ n.again.attempts = f.again.attempts
                BY <1>2, <4>1, LengthenedRetry
            <4>3. ~h.blocked /\ n.again.wait >= h.at
                BY <1>2, <3>5, <4>2, LaterIsOne DEF Refused, RetryType, HintType
            <4>4. until = h.at
                BY <1>2, <1>3, <3>1, <3>5, <4>3, PlanAssumption DEF Refused, HintType, RetryType
            <4>5. ~OrdinaryAt(n, t)
                BY <1>2, <3>1, <4>1 DEF OrdinaryAt, Ready, RetryType
            <4>6. RecoverAt(n, t) => t >= n.again.wait
                BY <1>2, <3>1, <4>2 DEF RecoverAt, Ready, RetryType
            <4>7. n.again.wait \in Nat
                BY <1>2 DEF RetryType
            <4>8. QED
                BY <1>3, <1>4, <1>5, <2>1, <3>3, <4>3, <4>4, <4>5, <4>6, <4>7
        <3>6. QED
            BY <3>4, <3>5
    <2>4. CASE op.mode \notin {"recover", "maintenance"}
        <3>1. PolicyLast = f.retry.last /\ f.retry.attempts > 0
            BY <2>4 DEF PolicyLast, GrantKept
        <3>2. n = IF Refused(f.retry, h) THEN [f EXCEPT !.blocked = TRUE]
                                         ELSE [f EXCEPT !.retry = Lengthen(f.retry, h)]
            BY <2>4 DEF Deferred
        <3>3. until \in Nat
            BY <1>2, <1>3, <3>1 DEF HintType, RetryType
        <3>4. CASE Refused(f.retry, h)
            <4>1. n.blocked = TRUE /\ n.retry = f.retry /\ n.again = f.again
                BY <1>1, <3>2, <3>4 DEF PhaseType
            <4>2. ~OrdinaryAt(n, t) /\ ~RecoverAt(n, t)
                BY <4>1 DEF OrdinaryAt, RecoverAt
            <4>3. MaintenanceFloor(n) >= honoured
                BY <1>2, <1>3, <1>4, <3>1, <4>1 DEF RetryType
            <4>4. honoured >= until
                BY <1>2, <1>3, <3>1 DEF RetryType, HintType
            <4>5. QED
                BY <1>2, <1>3, <1>5, <2>1, <3>1, <3>3, <4>2, <4>3, <4>4 DEF RetryType
        <3>5. CASE ~Refused(f.retry, h)
            <4>1. /\ n.again = f.again /\ n.retry = Lengthen(f.retry, h)
                  /\ n.blocked = f.blocked /\ n.againBlocked = f.againBlocked
                BY <1>1, <3>2, <3>5 DEF PhaseType
            <4>2. n.retry.wait = Later(f.retry.wait, h.at) /\ n.retry.attempts = f.retry.attempts
                BY <1>2, <4>1, LengthenedRetry
            <4>3. ~h.blocked /\ n.retry.wait >= h.at
                BY <1>2, <3>5, <4>2, LaterIsOne DEF Refused, RetryType, HintType
            <4>4. until = h.at
                BY <1>2, <1>3, <3>1, <3>5, <4>3, PlanAssumption DEF Refused, HintType, RetryType
            <4>5. OrdinaryAt(n, t) \/ RecoverAt(n, t) => t >= n.retry.wait
                BY <1>2, <3>1, <4>2 DEF OrdinaryAt, RecoverAt, Ready, RetryType
            <4>6. n.retry.wait \in Nat
                BY <1>2 DEF RetryType
            <4>7. QED
                BY <1>3, <1>4, <1>5, <2>1, <3>3, <4>3, <4>4, <4>5, <4>6
        <3>6. QED
            BY <3>4, <3>5
    <2>5. QED
        BY <2>2, <2>3, <2>4
<1>6. QED
    BY <1>5 DEF Held

LEMMA InitWait == Init => WaitInv
BY IdleFields DEF Init, WaitInv, NoPlan

\* An operation begins when its record has waited.
LEMMA BeginWaited ==
    ASSUME TInv, WaitInv, NEW r \in Rows, NEW mode \in Modes, Begin(r, mode)
    PROVE  asked[r] <= now
<1>1. Waiting(r) /\ now \in Nat /\ asked[r] \in Nat
    BY BeginEffect DEF WaitInv, TInv, Typed
<1>2. rows[r] \in RowType
    BY BeginEffect
<1>3. CASE op'.cleanup
    <2>1. /\ rows[r].state \in {"created", "deleting"} /\ rows[r].cleanup \in PhaseType
          /\ rows'[r].cleanup \in Attempt(rows[r].cleanup, mode)
        BY <1>2, <1>3, BegunRow DEF RowType
    <2>2. \/ OrdinaryAt(rows[r].cleanup, now) \/ RecoverAt(rows[r].cleanup, now)
          \/ UpkeepAt(rows[r].cleanup, now)
        BY <1>1, <2>1, GrantInTime
    <2>3. QED
        BY <1>1, <2>1, <2>2 DEF Waiting, Held
<1>4. CASE ~op'.cleanup
    <2>1. /\ rows[r].state \in {"new", "creating"} /\ rows[r].create \in PhaseType
          /\ rows'[r].create \in Attempt(rows[r].create, mode)
        BY <1>2, <1>4, BegunRow DEF RowType
    <2>2. \/ OrdinaryAt(rows[r].create, now) \/ RecoverAt(rows[r].create, now)
          \/ UpkeepAt(rows[r].create, now)
        BY <1>1, <2>1, GrantInTime
    <2>3. QED
        BY <1>1, <2>1, <2>2 DEF Waiting, Held
<1>5. QED
    BY <1>3, <1>4

LEMMA BeginWait ==
    ASSUME TInv, WaitInv, NEW r \in Rows, NEW mode \in Modes, Begin(r, mode)
    PROVE  WaitInv'
<1>1. asked[r] <= now /\ asked' = asked /\ now' = now /\ plan.prepared # 0 /\ plan' = plan
    BY BeginWaited, BeginEffect DEF ghosts
<1>2. \A s \in Rows \ {r} : rows'[s] = rows[s]
    BY BegunRow
<1>3. \A s \in Rows : Waiting(s)'
    BY <1>1, <1>2 DEF WaitInv, Waiting
<1>4. op'.row = r /\ op'.mode = mode /\ rows[r] \in RowType /\ now \in Nat
    BY BegunRow, BeginEffect DEF TInv, Typed
<1>5. Phase' = IF op'.cleanup THEN rows'[r].cleanup ELSE rows'[r].create
    BY <1>4 DEF Phase, Row
<1>6. PICK f \in PhaseType : Phase' \in Attempt(f, mode)
    <2>1. rows[r].cleanup \in PhaseType /\ rows[r].create \in PhaseType
        BY <1>4 DEF RowType
    <2>2. CASE op'.cleanup
        BY <1>5, <2>1, <2>2, BegunRow
    <2>3. CASE ~op'.cleanup
        BY <1>5, <2>1, <2>3, BegunRow
    <2>4. QED
        BY <2>2, <2>3
<1>7. GrantKept'
    BY <1>4, <1>6, GrantInTime DEF GrantKept
<1>8. QED
    BY <1>1, <1>3, <1>4, <1>7 DEF WaitInv

LEMMA FailWait ==
    ASSUME TInv, Course, WaitInv, NEW h \in Hints, FailCall(h) PROVE WaitInv'
<1>0. PICK r \in Rows : r = op.row
    BY RowFacts
<1> DEFINE f == Deferred(Phase, h)
           n == Published(Row, f)
           honoured == PolicyLast + Week
           until == IF h.blocked \/ h.at > honoured THEN honoured ELSE h.at
<1>1. /\ op.step # "idle" /\ h \in HintType /\ until \in Nat /\ f \in PhaseType
      /\ rows' = [rows EXCEPT ![r] = n]
      /\ asked' = [asked EXCEPT ![r] = Later(asked[r], until)]
      /\ op' = Idle /\ n.state = Row.state
      /\ UNCHANGED <<now, plan>>
    BY <1>0, FailFields
<1>2. now \in Nat /\ rows \in [Rows -> RowType] /\ asked \in [Rows -> Nat]
    BY DEF TInv, Typed
<1>3. asked[r] <= now /\ GrantKept
    BY <1>0, <1>1 DEF WaitInv
<1>4. Held(f, until)
    BY <1>1, <1>3, DeferredHolds
<1>5. Row \in RowType /\ Row.state = IF op.cleanup THEN "deleting" ELSE "creating"
    BY <1>1, RowFacts DEF Course
<1>6. /\ n.create = IF op.cleanup THEN Row.create ELSE f
      /\ n.cleanup = IF op.cleanup THEN f ELSE Row.cleanup
    BY <1>1, <1>2, <1>5, PublishedFields
<1> HIDE DEF n, f, until
<1>7. Waiting(r)'
    <2>1. rows'[r] = n /\ asked'[r] = Later(asked[r], until) /\ now' = now
        BY <1>1, <1>2
    <2>2. asked[r] \in Nat /\ Later(asked[r], until) \in {asked[r], until}
        BY <1>1, <1>2, LaterIsOne
    <2>3. CASE asked'[r] = asked[r]
        BY <1>3, <2>1, <2>3 DEF Waiting
    <2>4. CASE asked'[r] = until
        <3>1. CASE op.cleanup
            BY <1>1, <1>4, <1>5, <1>6, <2>1, <2>4, <3>1 DEF Waiting
        <3>2. CASE ~op.cleanup
            BY <1>1, <1>4, <1>5, <1>6, <2>1, <2>4, <3>2 DEF Waiting
        <3>3. QED
            BY <3>1, <3>2
    <2>5. QED
        BY <2>1, <2>2, <2>3, <2>4
<1>8. ASSUME NEW s \in Rows \ {r}, Waiting(s) PROVE Waiting(s)'
    <2>1. rows'[s] = rows[s] /\ asked'[s] = asked[s] /\ now' = now
        BY <1>1, <1>2
    <2>2. QED
        BY <1>8, <2>1 DEF Waiting
<1>9. op'.step = "idle"
    BY <1>1, IdleFields
<1>10. QED
    BY <1>1, <1>7, <1>8, <1>9 DEF WaitInv

LEMMA NextWait == TInv /\ TInv' /\ Course /\ WaitInv /\ [Next]_vars => WaitInv'
<1> SUFFICES ASSUME TInv, TInv', Course, WaitInv, [Next]_vars PROVE WaitInv'
    OBVIOUS
<1>1. ASSUME OpGoesOn, now' = now, asked' = asked PROVE WaitInv'
    BY <1>1 DEF OpGoesOn, saved, WaitInv, Waiting, GrantKept, Phase, Row
<1>2. CASE Tick
    <2>1. /\ now' = now + 1 /\ now \in Nat /\ \A r \in Rows : asked[r] \in Nat
          /\ asked' = asked /\ rows' = rows /\ op' = op /\ plan' = plan
        BY <1>2 DEF Tick, saved, ghosts, TInv, Typed
    <2>2. op.row \in Rows
        BY RowFacts
    <2>3. \A r \in Rows : asked[r] <= now => asked[r] <= now'
        BY <2>1
    <2>4. plan.prepared # 0 => \A r \in Rows : Waiting(r)'
        BY <2>1, <2>3 DEF WaitInv, Waiting
    <2>5. GrantKept => GrantKept'
        BY <2>1 DEF GrantKept, Phase, Row
    <2>6. QED
        BY <2>1, <2>2, <2>3, <2>4, <2>5 DEF WaitInv
<1>3. CASE SaveConfig \/ RemoveConfig \/ OrderReady \/ OrderValidated
    BY <1>3 DEF SaveConfig, RemoveConfig, OrderReady, OrderValidated, ghosts, WaitInv, Waiting
<1>4. CASE CloseRequest
    BY <1>4 DEF CloseRequest, NoPlan, WaitInv
<1>5. CASE Prepare
    <2>1. \A r \in Rows : asked'[r] <= now'
        BY <1>5 DEF Prepare, TInv, Typed
    <2>2. QED
        BY <1>5, <2>1 DEF Prepare, WaitInv, Waiting
<1>6. ASSUME NEW r \in Rows, NEW mode \in Modes, Begin(r, mode) PROVE WaitInv'
    BY <1>6, BeginWait
<1>7. ASSUME NEW h \in Hints, FailCall(h) PROVE WaitInv'
    BY <1>7, FailWait
<1>8. CASE SaveOutcome
    <2>1. /\ rows' = [rows EXCEPT ![op.row] = Outcome] /\ op' = Idle /\ op.step # "idle"
          /\ now' = now /\ plan' = plan /\ asked' = asked
        BY <1>8 DEF SaveOutcome, ghosts
    <2>2. rows \in [Rows -> RowType]
        BY DEF TInv, Typed
    <2>3. asked[op.row] <= now
        BY <2>1 DEF WaitInv
    <2>4. plan.prepared # 0 => \A r \in Rows : Waiting(r)'
        BY <2>1, <2>2, <2>3 DEF WaitInv, Waiting
    <2>5. QED
        BY <2>1, <2>4, IdleFields DEF WaitInv
<1>9. CASE UNCHANGED vars
    BY <1>9 DEF vars, saved, ghosts, WaitInv, Waiting, GrantKept, Phase, Row
<1>10. QED
    BY <1>1, <1>2, <1>3, <1>4, <1>5, <1>6, <1>7, <1>8, <1>9, OpSteps DEF Next

LEMMA SpecWait == Spec => []WaitInv
BY SpecTInv, SpecCourse, InitWait, NextWait, PTL DEF Spec

\* No operation on a record begins before the moment until which a saved
\* answer of the provider asked to wait, in whatever mode it is made.
THEOREM SpecWaitRespected == Spec => WaitRespected
<1>1. TInv /\ WaitInv /\ [Next]_vars =>
          [op.step = "idle" /\ op'.step = "begun" => now >= asked[op'.row]]_vars
    <2> SUFFICES ASSUME TInv, WaitInv, Next, op.step = "idle", op'.step = "begun"
                 PROVE  now >= asked[op'.row]
        BY DEF vars
    <2>1. ASSUME NEW r \in Rows, NEW mode \in Modes, Begin(r, mode)
          PROVE  now >= asked[op'.row]
        <3>1. op'.row = r /\ asked[r] \in Nat /\ now \in Nat
            BY <2>1, BegunRow DEF TInv, Typed
        <3>2. QED
            BY <2>1, <3>1, BeginWaited
    <2>2. ~OpGoesOn
        BY DEF OpGoesOn
    <2>3. op' # op /\ op' # Idle
        BY IdleFields
    <2>4. QED
        BY <2>1, <2>2, <2>3, OpSteps DEF Next, Tick, SaveConfig, RemoveConfig, OrderReady,
           OrderValidated, CloseRequest, Prepare, FailCall, SaveOutcome
<1>2. QED
    BY <1>1, SpecTInv, SpecWait, PTL DEF Spec, WaitRespected

----------------------------------------------------------------------------
(* Mutations                                                               *)

OwnId(i) == i <= ids /\ \A x \in zone : x.id = i => x.ours

NoPost(r) == \A m \in wire : m.kind = "post" => m.row # r

NoOurs(r) == \A x \in zone : x.ours => x.row # r

\* One creation of a record is under way or in the zone, never both; what is
\* marked is ours, and so is what a deletion on its way names.
Zoned ==
    /\ \A x \in zone : x.marked => x.ours
    /\ \A x, y \in zone : x.id = y.id => x = y
    /\ \A x, y \in zone : x.ours /\ y.ours /\ x.row = y.row => x = y
    /\ \A m, n \in wire : m.kind = "post" /\ n.kind = "post" /\ m.row = n.row => m = n
    /\ \A m \in wire : m.kind = "post" => NoOurs(m.row)
    /\ \A m \in wire : m.kind = "delete" => OwnId(m.id)

Counted ==
    /\ MutatedOnce
    /\ \A x \in zone : x.ours => posts[x.row] = 1 /\ plan.prepared # 0
    /\ \A m \in wire : m.kind = "post" => posts[m.row] = 1 /\ plan.prepared # 0

\* Nothing is under way when a plan is made.
Fresh == plan.prepared = 0 /\ (order.state # "not-started" \/ ~started) => wire = {}

\* The state of a record tells what was sent for it.
Traces(r) ==
    LET s == rows[r].state
    IN  /\ s \in {"new", "borrowed"} => posts[r] = 0
        /\ s \notin {"deleting", "deleted"} => deletes[r] = 0
        /\ \A m \in wire : m.row = r =>
              IF m.kind = "post" THEN s = "creating"
              ELSE s \in {"deleting", "deleted"} /\ m.id = rows[r].id
        /\ \A x \in zone : x.ours /\ x.row = r =>
              s \in {"creating", "created", "deleting"} /\ (s # "creating" => x.id = rows[r].id)
        /\ s \in {"created", "deleting", "deleted"} => OwnId(rows[r].id)

\* An observation that may be saved is still true when it is.
Sealable(n) ==
    \/ n.state = Row.state /\ n.id = Row.id
    \/ ~op.cleanup /\ n.state = "borrowed" /\ posts[op.row] = 0
    \/ /\ ~op.cleanup /\ n.state = "created" /\ OwnId(n.id) /\ NoPost(op.row)
       /\ \A x \in zone : x.ours /\ x.row = op.row => x.id = n.id
    \/ op.cleanup /\ n.state = "deleted" /\ n.id = Row.id /\ NoOurs(op.row)

InFlight ==
    /\ op.step \in {"begun", "clear"} /\ ~op.readOnly =>
          IF op.cleanup THEN deletes[op.row] = 0 ELSE posts[op.row] = 0
    /\ op.step = "missing" => op.cleanup
    /\ op.step = "created" => ~op.cleanup /\ NoPost(op.row)
    /\ op.step = "deleted" => op.cleanup /\ NoOurs(op.row)
    /\ op.step = "sealing" => Sealable(op.next)

\* The ledger of mutations.
LInv ==
    /\ Zoned /\ Counted /\ Fresh
    /\ plan.prepared # 0 => \A r \in Rows : Traces(r)
    /\ op.step # "idle" => InFlight

LEMMA InitLInv == Init => LInv
BY IdleFields DEF Init, LInv, Zoned, Counted, MutatedOnce, Fresh, NoPlan

\* The facts about the record that is worked on.
LEMMA AtWork ==
    ASSUME TInv, Course, LInv, op.step # "idle"
    PROVE  /\ InFlight /\ plan.prepared # 0 /\ Traces(op.row)
           /\ Row.state = IF op.cleanup THEN "deleting" ELSE "creating"
           /\ op.row \in Rows /\ Row \in RowType
BY RowFacts DEF LInv, Course

\* Steps that change neither what is saved nor what is remote: what they add
\* to the operation in flight is all that has to be shown.
LEMMA LookLInv ==
    ASSUME TInv, Course, LInv, UNCHANGED <<now, saved, remote, ghosts>>,
           op'.step # "idle" => InFlight'
    PROVE  LInv'
<1>1. /\ zone' = zone /\ wire' = wire /\ ids' = ids /\ posts' = posts /\ deletes' = deletes
      /\ rows' = rows /\ plan' = plan /\ order' = order /\ started' = started
    BY DEF saved, remote, ghosts
<1>2. Zoned' /\ Counted' /\ Fresh'
    BY <1>1 DEF LInv, Zoned, Counted, MutatedOnce, Fresh, OwnId, NoOurs
<1>3. plan'.prepared # 0 => \A r \in Rows : Traces(r)'
    BY <1>1 DEF LInv, Traces, OwnId
<1>4. QED
    BY <1>2, <1>3 DEF LInv

LEMMA SealLInv ==
    ASSUME TInv, Course, LInv, op.step # "idle", NEW n \in RowType, Seal(n), Sealable(n)
    PROVE  LInv'
<1>1. op \in OpType /\ Row \in RowType
    BY RowFacts
<1>2. /\ op'.step = "sealing" /\ op'.row = op.row /\ op'.cleanup = op.cleanup /\ op'.next = n
      /\ UNCHANGED <<now, saved, remote, ghosts>>
    BY <1>1, SealFields
<1>3. PICK r \in Rows : r = op.row
    BY RowFacts
<1>4. /\ zone' = zone /\ wire' = wire /\ ids' = ids /\ posts' = posts /\ rows' = rows
    BY <1>2 DEF saved, remote, ghosts
<1>5. Sealable(op.next)'
    BY <1>2, <1>3, <1>4 DEF Sealable, Row, OwnId, NoPost, NoOurs
<1>6. InFlight'
    BY <1>2, <1>5 DEF InFlight
<1>7. QED
    BY <1>2, <1>6, LookLInv

LEMMA ListLInv == ASSUME TInv, Course, LInv, ListForCreate PROVE LInv'
<1>1. /\ op.step = "begun" /\ ~op.cleanup /\ op \in OpType /\ Row \in RowType /\ now \in Nat
      /\ InFlight /\ Traces(op.row) /\ Row.state = "creating" /\ Zoned
    BY AtWork, RowFacts DEF ListForCreate, LInv
<1>2. ASSUME NEW n \in RowType, Seal(n), Sealable(n) PROVE LInv'
    BY <1>1, <1>2, SealLInv
<1>3. ASSUME Seal(Row) PROVE LInv'
    BY <1>1, <1>2, <1>3 DEF Sealable
<1>4. ASSUME Step("clear"), ~op.readOnly PROVE LInv'
    <2>1. /\ op'.step = "clear" /\ op'.row = op.row /\ op'.cleanup = op.cleanup
          /\ op'.readOnly = op.readOnly /\ UNCHANGED <<now, saved, remote, ghosts>>
        BY <1>1, <1>4, StepFields DEF Steps
    <2>2. InFlight'
        BY <1>1, <2>1 DEF InFlight, ghosts
    <2>3. QED
        BY <2>1, <2>2, LookLInv
<1>5. ASSUME NEW x \in zone, x.row = op.row, x.marked,
             Seal([Row EXCEPT !.state = "created", !.id = x.id, !.checked = now])
      PROVE  LInv'
    <2> DEFINE n == [Row EXCEPT !.state = "created", !.id = x.id, !.checked = now]
    <2>1. x \in ZoneType /\ x.id \in Nat /\ x.id <= ids
        BY DEF TInv, Typed, Ranges, ZoneType
    <2>2. n \in RowType /\ n.state = "created" /\ n.id = x.id
        BY <1>1, <2>1, SeenCreated
    <2>3. x.ours
        BY <1>1, <1>5 DEF Zoned
    <2>4. NoPost(op.row)
        BY <1>1, <1>5, <2>3 DEF Zoned, NoPost, NoOurs
    <2>5. OwnId(x.id)
        BY <1>1, <2>1, <2>3 DEF Zoned, OwnId
    <2>6. \A y \in zone : y.ours /\ y.row = op.row => y.id = x.id
        BY <1>1, <1>5, <2>3 DEF Zoned
    <2> HIDE DEF n
    <2>7. Sealable(n)
        BY <1>1, <2>2, <2>4, <2>5, <2>6 DEF Sealable
    <2>8. Seal(n)
        BY <1>5 DEF n
    <2>9. QED
        BY <1>2, <2>2, <2>7, <2>8
<1>6. ASSUME ~op.readOnly, Seal([Row EXCEPT !.state = "borrowed", !.checked = now])
      PROVE  LInv'
    <2> DEFINE n == [Row EXCEPT !.state = "borrowed", !.checked = now]
    <2>1. n \in RowType /\ n.state = "borrowed"
        BY <1>1, Seen DEF RowStates
    <2> HIDE DEF n
    <2>2. Sealable(n)
        BY <1>1, <1>6, <2>1 DEF Sealable, InFlight
    <2>3. Seal(n)
        BY <1>6 DEF n
    <2>4. QED
        BY <1>2, <2>1, <2>2, <2>3
<1>7. QED
    BY <1>3, <1>4, <1>5, <1>6 DEF ListForCreate, Matching, Owns

LEMMA CleanupLInv ==
    ASSUME TInv, Course, LInv, ReadForCleanup \/ ConfirmMissing PROVE LInv'
<1>1. /\ op.step # "idle" /\ op.cleanup /\ op \in OpType /\ Row \in RowType /\ now \in Nat
      /\ InFlight /\ Traces(op.row) /\ Row.state = "deleting" /\ Zoned
    BY AtWork, RowFacts DEF ReadForCleanup, ConfirmMissing, LInv, InFlight
<1>2. ASSUME NEW n \in RowType, Seal(n), Sealable(n) PROVE LInv'
    BY <1>1, <1>2, SealLInv
<1>3. CASE ReadForCleanup
    <2>1. op.step = "begun"
        BY <1>3 DEF ReadForCleanup
    <2>2. ASSUME NEW s \in {"missing", "clear"}, Step(s), s = "clear" => ~op.readOnly PROVE LInv'
        <3>1. /\ op'.step = s /\ op'.row = op.row /\ op'.cleanup = op.cleanup
              /\ op'.readOnly = op.readOnly /\ UNCHANGED <<now, saved, remote, ghosts>>
            BY <1>1, <2>2, StepFields DEF Steps
        <3>2. InFlight'
            BY <1>1, <2>1, <2>2, <3>1 DEF InFlight, ghosts
        <3>3. QED
            BY <3>1, <3>2, LookLInv
    <2>3. ASSUME Seal(Row) PROVE LInv'
        BY <1>1, <1>2, <2>3 DEF Sealable
    <2>4. Step("missing") \/ Seal(Row) \/ (Step("clear") /\ ~op.readOnly)
        BY <1>3 DEF ReadForCleanup
    <2>5. QED
        BY <2>2, <2>3, <2>4
<1>4. CASE ConfirmMissing
    <2> DEFINE n == [Row EXCEPT !.state = "deleted", !.checked = now]
    <2>1. n \in RowType /\ n.state = "deleted" /\ n.id = Row.id
        BY <1>1, Seen DEF RowStates
    <2>2. \A x \in zone : x.row = op.row => x.id # Row.id
        BY <1>4 DEF ConfirmMissing, Matching
    <2>3. NoOurs(op.row)
        BY <1>1, <2>2 DEF Traces, NoOurs, Row
    <2> HIDE DEF n
    <2>4. Sealable(n)
        BY <1>1, <2>1, <2>3 DEF Sealable
    <2>5. Seal(n)
        BY <1>4 DEF ConfirmMissing, n
    <2>6. QED
        BY <1>2, <2>1, <2>4, <2>5
<1>5. QED
    BY <1>3, <1>4

LEMMA ConfirmedLInv == ASSUME TInv, Course, LInv, Confirmed PROVE LInv'
<1>1. /\ op.step \in {"created", "deleted"} /\ op \in OpType /\ Row \in RowType /\ now \in Nat
      /\ InFlight /\ Zoned
    BY AtWork, RowFacts DEF Confirmed, LInv
<1>2. ASSUME NEW n \in RowType, Seal(n), Sealable(n) PROVE LInv'
    BY <1>1, <1>2, SealLInv
<1>3. CASE op.step = "created"
    <2>1. PICK x \in zone : /\ x.row = op.row /\ x.marked
                            /\ Seal([Row EXCEPT !.state = "created", !.id = x.id, !.checked = now])
        BY <1>3 DEF Confirmed, Matching, Owns
    <2> DEFINE n == [Row EXCEPT !.state = "created", !.id = x.id, !.checked = now]
    <2>2. x \in ZoneType /\ x.id \in Nat /\ x.id <= ids
        BY DEF TInv, Typed, Ranges, ZoneType
    <2>3. n \in RowType /\ n.state = "created" /\ n.id = x.id
        BY <1>1, <2>2, SeenCreated
    <2>4. x.ours /\ OwnId(x.id) /\ \A y \in zone : y.ours /\ y.row = op.row => y.id = x.id
        BY <1>1, <2>1, <2>2 DEF Zoned, OwnId
    <2> HIDE DEF n
    <2>5. Sealable(n)
        BY <1>1, <1>3, <2>3, <2>4 DEF Sealable, InFlight
    <2>6. Seal(n)
        BY <2>1 DEF n
    <2>7. QED
        BY <1>2, <2>3, <2>5, <2>6
<1>4. CASE op.step = "deleted"
    <2> DEFINE n == [Row EXCEPT !.state = "deleted", !.checked = now]
    <2>1. n \in RowType /\ n.state = "deleted" /\ n.id = Row.id
        BY <1>1, Seen DEF RowStates
    <2> HIDE DEF n
    <2>2. Sealable(n)
        BY <1>1, <1>4, <2>1 DEF Sealable, InFlight
    <2>3. Seal(n)
        BY <1>4 DEF Confirmed, n
    <2>4. QED
        BY <1>2, <2>1, <2>2, <2>3
<1>5. QED
    BY <1>1, <1>3, <1>4

LEMMA SendLInv == ASSUME TInv, Course, LInv, Send PROVE LInv'
<1> DEFINE m == [kind |-> IF op.cleanup THEN "delete" ELSE "post", row |-> op.row, id |-> Row.id]
<1>1. /\ op.step = "clear" /\ ~op.readOnly /\ wire' = wire \cup {m}
      /\ IF op.cleanup
         THEN deletes' = [deletes EXCEPT ![op.row] = @ + 1] /\ UNCHANGED posts
         ELSE posts' = [posts EXCEPT ![op.row] = @ + 1] /\ UNCHANGED deletes
      /\ op'.step = "sent"
      /\ UNCHANGED <<now, saved, zone, ids, asked>>
    BY SendFields
<1>2. /\ InFlight /\ plan.prepared # 0 /\ Traces(op.row)
      /\ Row.state = IF op.cleanup THEN "deleting" ELSE "creating"
    BY <1>1, AtWork
<1>3. PICK r \in Rows : r = op.row
    BY RowFacts
<1>4. /\ m.row = r /\ m.id = rows[r].id /\ m.kind = IF op.cleanup THEN "delete" ELSE "post"
    BY <1>3 DEF Row
<1> HIDE DEF m
<1>5. /\ posts \in [Rows -> Nat] /\ deletes \in [Rows -> Nat]
      /\ zone' = zone /\ ids' = ids /\ rows' = rows /\ plan' = plan
    BY <1>1 DEF TInv, Typed, saved
<1>6. Fresh'
    BY <1>2, <1>5 DEF Fresh
<1>7. InFlight'
    BY <1>1 DEF InFlight
<1>8. Zoned /\ Counted /\ \A s \in Rows : Traces(s)
    BY <1>2 DEF LInv
<1>9. CASE op.cleanup
    <2>1. deletes[r] = 0 /\ rows[r].state = "deleting" /\ m.kind = "delete"
        BY <1>1, <1>2, <1>3, <1>4, <1>9 DEF InFlight, Row
    <2>2. deletes' = [deletes EXCEPT ![r] = 1] /\ posts' = posts
        BY <1>1, <1>3, <1>5, <1>9, <2>1
    <2>3. OwnId(m.id)
        BY <1>4, <1>8, <2>1 DEF Traces
    <2>4. Zoned'
        BY <1>1, <1>5, <1>8, <2>1, <2>3 DEF Zoned, OwnId, NoOurs
    <2>5. Counted'
        BY <1>1, <1>5, <1>8, <2>1, <2>2 DEF Counted, MutatedOnce
    <2>6. \A s \in Rows : Traces(s)'
        BY <1>1, <1>4, <1>5, <1>8, <2>1, <2>2 DEF Traces, OwnId
    <2>7. QED
        BY <1>6, <1>7, <2>4, <2>5, <2>6 DEF LInv
<1>10. CASE ~op.cleanup
    <2>1. posts[r] = 0 /\ rows[r].state = "creating" /\ m.kind = "post"
        BY <1>1, <1>2, <1>3, <1>4, <1>10 DEF InFlight, Row
    <2>2. posts' = [posts EXCEPT ![r] = 1] /\ deletes' = deletes
        BY <1>1, <1>3, <1>5, <1>10, <2>1
    <2>3. NoOurs(r) /\ NoPost(r)
        BY <1>8, <2>1 DEF Counted, NoOurs, NoPost
    <2>4. Zoned'
        BY <1>1, <1>4, <1>5, <1>8, <2>1, <2>3 DEF Zoned, OwnId, NoOurs, NoPost
    <2>5. Counted'
        BY <1>1, <1>2, <1>3, <1>4, <1>5, <1>8, <2>1, <2>2, <2>3 DEF Counted, MutatedOnce, NoOurs, NoPost
    <2>6. \A s \in Rows : Traces(s)'
        BY <1>1, <1>4, <1>5, <1>8, <2>1, <2>2 DEF Traces, OwnId
    <2>7. QED
        BY <1>6, <1>7, <2>4, <2>5, <2>6 DEF LInv
<1>11. QED
    BY <1>9, <1>10

\* The record was in the zone before, though it may have lost its marker.
Stays(x) == \E y \in zone : y.id = x.id /\ y.row = x.row /\ y.ours = x.ours /\ (x.marked => y.marked)

\* The provider loses a mutation, or others change the zone.
LEMMA OthersLInv ==
    ASSUME TInv, Course, LInv, wire' \subseteq wire, UNCHANGED <<now, saved, op, ghosts>>,
           ids' \in {ids, ids + 1},
           \A x, y \in zone' : x.id = y.id => x = y,
           \A x \in zone' : Stays(x) \/ (x.id = ids + 1 /\ ~x.ours /\ ~x.marked)
    PROVE  LInv'
<1>1. ids \in Nat /\ ids <= ids' /\ \A i \in Nat : i <= ids => i # ids + 1 /\ i <= ids'
    BY RowFacts
<1>2. ASSUME NEW x \in zone', x.ours PROVE Stays(x)
    BY <1>2
<1>3. ASSUME NEW i \in Nat, OwnId(i) PROVE OwnId(i)'
    BY <1>1, <1>3 DEF OwnId, Stays
<1>4. ASSUME NEW r \in Rows, NoOurs(r) PROVE NoOurs(r)'
    BY <1>2, <1>4 DEF NoOurs, Stays
<1>5. ASSUME NEW r \in Rows, NoPost(r) PROVE NoPost(r)'
    BY <1>5 DEF NoPost
<1>6. /\ zone \subseteq ZoneType /\ wire \subseteq WireType /\ rows \in [Rows -> RowType]
      /\ op.row \in Rows /\ op.next \in RowType
    BY RowFacts DEF TInv, Typed
<1>7. rows' = rows /\ plan' = plan /\ order' = order /\ started' = started
      /\ posts' = posts /\ deletes' = deletes /\ op' = op
    BY DEF saved, ghosts
<1>8. Zoned'
    <2>1. \A x \in zone' : x.marked => x.ours
        BY DEF LInv, Zoned, Stays
    <2>2. \A x, y \in zone' : x.ours /\ y.ours /\ x.row = y.row => x = y
        <3> SUFFICES ASSUME NEW x \in zone', NEW y \in zone', x.ours, y.ours, x.row = y.row
                     PROVE  x.id = y.id
            OBVIOUS
        <3>1. Stays(x) /\ Stays(y)
            BY <1>2
        <3>2. QED
            BY <3>1 DEF Stays, LInv, Zoned
    <2>3. \A m \in wire' : m.kind = "post" => NoOurs(m.row)'
        BY <1>4, <1>6 DEF LInv, Zoned, WireType
    <2>4. \A m \in wire' : m.kind = "delete" => OwnId(m.id)'
        BY <1>3, <1>6 DEF LInv, Zoned, WireType
    <2>5. \A m, n \in wire' : m.kind = "post" /\ n.kind = "post" /\ m.row = n.row => m = n
        BY DEF LInv, Zoned
    <2>6. QED
        BY <2>1, <2>2, <2>3, <2>4, <2>5 DEF Zoned
<1>9. Counted' /\ Fresh'
    <2>1. \A x \in zone' : x.ours => posts[x.row] = 1 /\ plan.prepared # 0
        BY <1>2 DEF LInv, Counted, Stays
    <2>2. QED
        BY <1>7, <2>1 DEF LInv, Counted, MutatedOnce, Fresh
<1>10. ASSUME plan.prepared # 0 PROVE \A r \in Rows : Traces(r)'
    <2> SUFFICES ASSUME NEW r \in Rows PROVE Traces(r)'
        OBVIOUS
    <2>1. Traces(r)
        BY <1>10 DEF LInv
    <2>2. rows[r].id \in Nat
        BY <1>6 DEF RowType
    <2>3. \A x \in zone' : x.ours /\ x.row = r =>
              /\ rows[r].state \in {"creating", "created", "deleting"}
              /\ rows[r].state # "creating" => x.id = rows[r].id
        BY <1>2, <2>1 DEF Traces, Stays
    <2>4. OwnId(rows[r].id) => OwnId(rows[r].id)'
        BY <1>3, <1>7, <2>2 DEF OwnId
    <2>5. QED
        BY <1>7, <2>1, <2>3, <2>4 DEF Traces
<1>11. ASSUME InFlight PROVE InFlight'
    <2>1. PICK r \in Rows : r = op.row
        BY <1>6
    <2>2. PICK n \in RowType : n = op.next
        BY <1>6
    <2>3. (NoPost(r) => NoPost(r)') /\ (NoOurs(r) => NoOurs(r)') /\ (OwnId(n.id) => OwnId(n.id)')
        BY <1>3, <1>4, <1>5 DEF RowType
    <2>4. \A x \in zone' : x.ours /\ x.row = r => \E y \in zone : y.ours /\ y.row = r /\ y.id = x.id
        BY <1>2 DEF Stays
    <2>5. Sealable(n) => Sealable(n)'
        BY <1>7, <2>1, <2>3, <2>4 DEF Sealable, Row
    <2>6. QED
        BY <1>7, <1>11, <2>1, <2>2, <2>3, <2>5 DEF InFlight, NoPost, NoOurs
<1>12. QED
    BY <1>7, <1>8, <1>9, <1>10, <1>11 DEF LInv

LEMMA OthersStepsLInv ==
    ASSUME TInv, Course, LInv,
           \/ \E m \in wire : Drop(m)
           \/ \E r \in Rows : OthersAdd(r)
           \/ \E x \in zone : OthersChange(x)
    PROVE  LInv'
<1>1. /\ zone \subseteq ZoneType /\ ids \in Nat /\ Zoned
      /\ \A x \in zone : x.id \in Nat /\ x.id <= ids
    BY DEF TInv, Typed, Ranges, LInv, ZoneType
<1>2. \A x \in zone : Stays(x)
    BY DEF Stays
<1>3. CASE \E m \in wire : Drop(m)
    BY <1>1, <1>2, <1>3, OthersLInv DEF Drop, Zoned
<1>4. ASSUME NEW r \in Rows, OthersAdd(r) PROVE LInv'
    <2> DEFINE n == [id |-> ids + 1, row |-> r, marked |-> FALSE, ours |-> FALSE]
    <2>1. /\ zone' = zone \cup {n} /\ ids' = ids + 1 /\ wire' = wire
          /\ UNCHANGED <<now, saved, op, ghosts>>
        BY <1>4 DEF OthersAdd
    <2>2. n.id = ids + 1 /\ ~n.ours /\ ~n.marked
        OBVIOUS
    <2> HIDE DEF n
    <2>3. \A x, y \in zone' : x.id = y.id => x = y
        BY <1>1, <2>1, <2>2 DEF Zoned
    <2>4. \A x \in zone' : Stays(x) \/ (x.id = ids + 1 /\ ~x.ours /\ ~x.marked)
        BY <1>2, <2>1, <2>2
    <2>5. QED
        BY <2>1, <2>3, <2>4, OthersLInv
<1>5. ASSUME NEW x \in zone, OthersChange(x) PROVE LInv'
    <2>1. ids' = ids /\ wire' = wire /\ UNCHANGED <<now, saved, op, ghosts>>
        BY <1>5 DEF OthersChange
    <2>2. CASE zone' = zone \ {x}
        BY <1>1, <1>2, <2>1, <2>2, OthersLInv DEF Zoned
    <2>3. CASE x.marked /\ zone' = (zone \ {x}) \cup {[x EXCEPT !.marked = FALSE]}
        <3> DEFINE n == [x EXCEPT !.marked = FALSE]
        <3>1. n.id = x.id /\ n.row = x.row /\ n.ours = x.ours /\ ~n.marked
            BY <1>1 DEF ZoneType
        <3> HIDE DEF n
        <3>2. zone' = (zone \ {x}) \cup {n}
            BY <2>3 DEF n
        <3>3. \A y, z \in zone' : y.id = z.id => y = z
            BY <1>1, <3>1, <3>2 DEF Zoned
        <3>4. \A y \in zone' : Stays(y)
            BY <1>2, <3>1, <3>2 DEF Stays
        <3>5. QED
            BY <2>1, <3>3, <3>4, OthersLInv
    <2>4. QED
        BY <1>5, <2>2, <2>3 DEF OthersChange
<1>6. QED
    BY <1>3, <1>4, <1>5

\* The provider handles a creation, however late.
LEMMA CreatedLInv ==
    ASSUME TInv, Course, LInv, NEW m \in wire, Handle(m), m.kind = "post" PROVE LInv'
<1> DEFINE n == [id |-> ids + 1, row |-> m.row, marked |-> TRUE, ours |-> TRUE]
<1>1. /\ m \in WireType /\ m.row \in Rows /\ wire' = wire \ {m} /\ ids' = ids + 1 /\ zone' = zone \cup {n}
      /\ op'.row = op.row /\ op'.mode = op.mode /\ op'.cleanup = op.cleanup
      /\ op'.readOnly = op.readOnly /\ op'.next = op.next
      /\ \/ op.step = "sent" /\ op.row = m.row /\ op'.step = "created"
         \/ ~(op.step = "sent" /\ op.row = m.row) /\ op' = op
      /\ UNCHANGED <<now, saved, ghosts>>
    BY HandleFields DEF WireType
<1>2. n.id = ids + 1 /\ n.row = m.row /\ n.marked /\ n.ours
    OBVIOUS
<1> HIDE DEF n
<1>3. /\ rows' = rows /\ plan' = plan /\ order' = order /\ started' = started
      /\ posts' = posts /\ deletes' = deletes
    BY <1>1 DEF saved, ghosts
<1>4. /\ ids \in Nat /\ \A i \in Nat : i <= ids => i # ids + 1 /\ i <= ids'
      /\ \A x \in zone : x.id \in Nat /\ x.id <= ids
      /\ wire \subseteq WireType /\ rows \in [Rows -> RowType]
    BY <1>1 DEF TInv, Typed, Ranges, ZoneType
<1>5. /\ Zoned /\ Counted /\ Fresh /\ posts[m.row] = 1 /\ plan.prepared # 0
      /\ NoOurs(m.row) /\ \A r \in Rows : Traces(r)
    BY DEF LInv, Counted, Zoned
<1>6. rows[m.row].state = "creating"
    BY <1>1, <1>5 DEF Traces
<1>7. ASSUME NEW i \in Nat, OwnId(i) PROVE OwnId(i)'
    BY <1>1, <1>2, <1>4, <1>7 DEF OwnId
<1>8. ASSUME NEW r \in Rows PROVE /\ NoPost(r) => NoPost(r)'
                                  /\ NoOurs(r) /\ r # m.row => NoOurs(r)'
                                  /\ r = m.row => NoPost(r)'
    BY <1>1, <1>2, <1>5 DEF NoPost, NoOurs, Zoned
<1>9. Zoned'
    <2>1. \A x \in zone' : x.marked => x.ours
        BY <1>1, <1>2, <1>5 DEF Zoned
    <2>2. \A x, y \in zone' : x.id = y.id => x = y
        BY <1>1, <1>2, <1>4, <1>5 DEF Zoned
    <2>3. \A x, y \in zone' : x.ours /\ y.ours /\ x.row = y.row => x = y
        BY <1>1, <1>2, <1>5 DEF Zoned, NoOurs
    <2>4. \A k \in wire' : k.kind = "post" => NoOurs(k.row)'
        <3> SUFFICES ASSUME NEW k \in wire', k.kind = "post" PROVE NoOurs(k.row)'
            OBVIOUS
        <3>1. k \in wire /\ k # m /\ k.row \in Rows
            BY <1>1, <1>4 DEF WireType
        <3>2. k.row # m.row /\ NoOurs(k.row)
            BY <1>5, <3>1 DEF Zoned
        <3>3. QED
            BY <1>8, <3>1, <3>2
    <2>5. \A k \in wire' : k.kind = "delete" => OwnId(k.id)'
        BY <1>1, <1>4, <1>5, <1>7 DEF Zoned, WireType
    <2>6. \A k, l \in wire' : k.kind = "post" /\ l.kind = "post" /\ k.row = l.row => k = l
        BY <1>1, <1>5 DEF Zoned
    <2>7. QED
        BY <2>1, <2>2, <2>3, <2>4, <2>5, <2>6 DEF Zoned
<1>10. Counted' /\ Fresh'
    BY <1>1, <1>2, <1>3, <1>5 DEF Counted, MutatedOnce, Fresh
<1>11. \A r \in Rows : Traces(r)'
    <2> SUFFICES ASSUME NEW r \in Rows PROVE Traces(r)'
        OBVIOUS
    <2>1. Traces(r) /\ rows[r].id \in Nat
        BY <1>4, <1>5 DEF RowType
    <2>2. OwnId(rows[r].id) => OwnId(rows[r].id)'
        BY <1>3, <1>7, <2>1 DEF OwnId
    <2>3. \A x \in zone' : x.ours /\ x.row = r =>
              /\ rows[r].state \in {"creating", "created", "deleting"}
              /\ rows[r].state # "creating" => x.id = rows[r].id
        BY <1>1, <1>2, <1>6, <2>1 DEF Traces
    <2>4. QED
        BY <1>1, <1>3, <2>1, <2>2, <2>3 DEF Traces
<1>12. ASSUME op'.step # "idle" PROVE InFlight'
    <2>1. op.step # "idle"
        BY <1>1, <1>12
    <2>2. InFlight /\ Row.state = IF op.cleanup THEN "deleting" ELSE "creating"
        BY <2>1, AtWork
    <2>3. PICK r \in Rows : r = op.row
        BY RowFacts
    <2>4. op.cleanup => r # m.row
        BY <1>6, <2>2, <2>3 DEF Row
    <2>5. CASE op.step = "sent" /\ op.row = m.row
        <3>1. ~op.cleanup /\ NoPost(r)'
            BY <1>8, <2>3, <2>4, <2>5
        <3>2. QED
            BY <1>1, <2>3, <2>5, <3>1 DEF InFlight, NoPost
    <2>6. CASE op' = op
        <3>1. PICK k \in RowType : k = op.next
            BY RowFacts
        <3>2. OwnId(k.id) => OwnId(k.id)'
            BY <1>7 DEF RowType
        <3>3. /\ NoPost(r) => r # m.row /\ NoPost(r)'
              /\ NoOurs(r) /\ op.cleanup => NoOurs(r)'
              /\ NoPost(r) => \A x \in zone' : x.row = r => x \in zone
            BY <1>1, <1>2, <1>8, <2>4 DEF NoPost
        <3>4. Sealable(k) => Sealable(k)'
            BY <1>3, <2>3, <2>6, <3>2, <3>3 DEF Sealable, Row
        <3>5. QED
            BY <1>3, <2>2, <2>3, <2>6, <3>1, <3>3, <3>4 DEF InFlight, NoPost, NoOurs
    <2>7. QED
        BY <1>1, <2>5, <2>6
<1>13. QED
    BY <1>9, <1>10, <1>11, <1>12 DEF LInv

\* The provider handles a deletion, however late.
LEMMA DeletedLInv ==
    ASSUME TInv, Course, LInv, NEW m \in wire, Handle(m), m.kind = "delete" PROVE LInv'
<1>1. /\ m \in WireType /\ m.row \in Rows /\ wire' = wire \ {m} /\ ids' = ids
      /\ zone' = {x \in zone : x.id # m.id}
      /\ op'.row = op.row /\ op'.mode = op.mode /\ op'.cleanup = op.cleanup
      /\ op'.readOnly = op.readOnly /\ op'.next = op.next
      /\ \/ op.step = "sent" /\ op.row = m.row /\ op'.step = "deleted"
         \/ ~(op.step = "sent" /\ op.row = m.row) /\ op' = op
      /\ UNCHANGED <<now, saved, ghosts>>
    BY HandleFields DEF WireType
<1>2. /\ rows' = rows /\ plan' = plan /\ order' = order /\ started' = started
      /\ posts' = posts /\ deletes' = deletes
    BY <1>1 DEF saved, ghosts
<1>3. Zoned' /\ Counted' /\ Fresh'
    BY <1>1, <1>2 DEF LInv, Zoned, Counted, MutatedOnce, Fresh, OwnId, NoOurs
<1>4. plan.prepared # 0 => \A r \in Rows : Traces(r)'
    BY <1>1, <1>2 DEF LInv, Traces, OwnId
<1>5. ASSUME op'.step # "idle" PROVE InFlight'
    <2>1. op.step # "idle"
        BY <1>1, <1>5
    <2>2. /\ InFlight /\ Row.state = IF op.cleanup THEN "deleting" ELSE "creating"
          /\ plan.prepared # 0
        BY <2>1, AtWork
    <2>3. PICK r \in Rows : r = op.row
        BY RowFacts
    <2>4. CASE op.step = "sent" /\ op.row = m.row
        <3>1. Traces(r)
            BY <2>2 DEF LInv
        <3>2. rows[r].state = "deleting" /\ m.id = rows[r].id /\ op.cleanup
            BY <2>2, <2>3, <2>4, <3>1 DEF Traces, Row
        <3>3. NoOurs(r)'
            BY <1>1, <3>1, <3>2 DEF Traces, NoOurs
        <3>4. QED
            BY <1>1, <2>3, <2>4, <3>2, <3>3 DEF InFlight, NoOurs
    <2>5. CASE op' = op
        BY <1>1, <1>2, <2>2, <2>3, <2>5 DEF InFlight, Sealable, Row, OwnId, NoPost, NoOurs
    <2>6. QED
        BY <1>1, <2>4, <2>5
<1>6. QED
    BY <1>2, <1>3, <1>4, <1>5 DEF LInv

\* Steps that leave what is remote alone and save one record: the zone and
\* the wire are judged by the new record.
LEMMA SavedRowLInv ==
    ASSUME TInv, LInv, NEW r \in Rows, plan.prepared # 0,
           \A s \in Rows \ {r} : rows'[s] = rows[s], Traces(r)',
           UNCHANGED <<order, started, plan, remote, posts, deletes>>,
           op'.step # "idle" => InFlight'
    PROVE  LInv'
<1>1. /\ zone' = zone /\ wire' = wire /\ ids' = ids /\ posts' = posts /\ deletes' = deletes
      /\ plan' = plan /\ order' = order /\ started' = started
    BY DEF remote
<1>2. Zoned' /\ Counted' /\ Fresh'
    BY <1>1 DEF LInv, Zoned, Counted, MutatedOnce, Fresh, OwnId, NoOurs
<1>3. ASSUME NEW s \in Rows \ {r} PROVE Traces(s)'
    <2>1. Traces(s) /\ rows'[s] = rows[s]
        BY DEF LInv
    <2>2. QED
        BY <1>1, <2>1 DEF Traces, OwnId
<1>4. QED
    BY <1>2, <1>3 DEF LInv

LEMMA BeginLInv ==
    ASSUME TInv, Course, LInv, NEW r \in Rows, NEW mode \in Modes, Begin(r, mode)
    PROVE  LInv'
<1>1. /\ plan.prepared # 0 /\ op'.step = "begun" /\ op'.row = r
      /\ UNCHANGED <<now, config, configs, order, started, plan, remote, ghosts>>
    BY BeginEffect
<1>2. /\ zone' = zone /\ wire' = wire /\ ids' = ids /\ posts' = posts /\ deletes' = deletes
    BY <1>1 DEF remote, ghosts
<1>3. /\ rows'[r].id = rows[r].id
      /\ rows'[r].state = IF op'.cleanup THEN "deleting" ELSE "creating"
      /\ rows[r].state \in IF op'.cleanup THEN {"created", "deleting"} ELSE {"new", "creating"}
      /\ op'.readOnly = (rows[r].state \in {"creating", "deleting"})
      /\ \A s \in Rows \ {r} : rows'[s] = rows[s]
    BY BegunRow DEF ReadsOnly
<1>4. Traces(r) /\ Counted
    BY <1>1 DEF LInv
<1>5. Traces(r)'
    <2>1. CASE op'.cleanup
        BY <1>2, <1>3, <1>4, <2>1 DEF Traces, OwnId
    <2>2. CASE ~op'.cleanup
        BY <1>2, <1>3, <1>4, <2>2 DEF Traces, OwnId
    <2>3. QED
        BY <2>1, <2>2
<1>6. InFlight'
    <2>1. CASE op'.cleanup
        BY <1>1, <1>2, <1>3, <1>4, <2>1 DEF InFlight, Traces
    <2>2. CASE ~op'.cleanup
        BY <1>1, <1>2, <1>3, <1>4, <2>2 DEF InFlight, Traces
    <2>3. QED
        BY <2>1, <2>2
<1>7. QED
    BY <1>1, <1>2, <1>3, <1>5, <1>6, SavedRowLInv

LEMMA FailLInv == ASSUME TInv, Course, LInv, NEW h \in Hints, FailCall(h) PROVE LInv'
<1> DEFINE n == Published(Row, Deferred(Phase, h))
<1>1. /\ op.step # "idle" /\ n.state = Row.state /\ n.id = Row.id
      /\ rows' = [rows EXCEPT ![op.row] = n] /\ op' = Idle
      /\ UNCHANGED <<now, config, configs, order, started, plan, remote, posts, deletes>>
    BY FailFields
<1> HIDE DEF n
<1>2. plan.prepared # 0 /\ Traces(op.row) /\ op.row \in Rows
    BY <1>1, AtWork
<1>3. PICK r \in Rows : r = op.row
    BY <1>2
<1>4. /\ rows'[r] = n /\ \A s \in Rows \ {r} : rows'[s] = rows[s]
    BY <1>1, <1>3 DEF TInv, Typed
<1>5. Traces(r)'
    BY <1>1, <1>2, <1>3, <1>4 DEF Traces, OwnId, Row, remote
<1>6. op'.step = "idle"
    BY <1>1, IdleFields
<1>7. QED
    BY <1>1, <1>2, <1>4, <1>5, <1>6, SavedRowLInv

LEMMA OutcomeLInv == ASSUME TInv, Course, LInv, SaveOutcome PROVE LInv'
<1>1. /\ op.step = "sealing" /\ Outcome.state = op.next.state /\ Outcome.id = op.next.id
      /\ rows' = [rows EXCEPT ![op.row] = Outcome] /\ op' = Idle
      /\ UNCHANGED <<now, config, configs, order, started, plan, remote, ghosts>>
    BY OutcomeFields DEF SaveOutcome
<1>2. /\ plan.prepared # 0 /\ Traces(op.row) /\ op.row \in Rows /\ InFlight
      /\ Row.state = IF op.cleanup THEN "deleting" ELSE "creating"
    BY <1>1, AtWork
<1>3. PICK r \in Rows : r = op.row
    BY <1>2
<1>4. /\ rows'[r].state = op.next.state /\ rows'[r].id = op.next.id
      /\ \A s \in Rows \ {r} : rows'[s] = rows[s]
    BY <1>1, <1>3 DEF TInv, Typed
<1>5. Sealable(op.next) /\ Traces(r) /\ Counted
    BY <1>1, <1>2, <1>3 DEF InFlight, LInv
<1>6. rows[r].state = IF op.cleanup THEN "deleting" ELSE "creating"
    BY <1>2, <1>3 DEF Row
<1>7. /\ zone' = zone /\ wire' = wire /\ ids' = ids /\ posts' = posts /\ deletes' = deletes
    BY <1>1 DEF remote, ghosts
<1>8. Traces(r)'
    <2>1. CASE op.next.state = Row.state /\ op.next.id = Row.id
        BY <1>3, <1>4, <1>5, <1>7, <2>1 DEF Traces, OwnId, Row
    <2>2. CASE ~op.cleanup /\ op.next.state = "borrowed" /\ posts[op.row] = 0
        <3>1. /\ \A m \in wire : m.row # r
              /\ \A x \in zone : x.ours => x.row # r
            BY <1>3, <1>5, <1>6, <2>2 DEF Traces, Counted
        <3>2. QED
            BY <1>3, <1>4, <1>5, <1>6, <1>7, <2>2, <3>1 DEF Traces
    <2>3. CASE /\ ~op.cleanup /\ op.next.state = "created" /\ OwnId(op.next.id) /\ NoPost(op.row)
               /\ \A x \in zone : x.ours /\ x.row = op.row => x.id = op.next.id
        BY <1>3, <1>4, <1>5, <1>6, <1>7, <2>3 DEF Traces, OwnId, NoPost
    <2>4. CASE op.cleanup /\ op.next.state = "deleted" /\ op.next.id = Row.id /\ NoOurs(op.row)
        BY <1>3, <1>4, <1>5, <1>6, <1>7, <2>4 DEF Traces, OwnId, NoOurs, Row
    <2>5. QED
        BY <1>5, <2>1, <2>2, <2>3, <2>4 DEF Sealable
<1>9. op'.step = "idle"
    BY <1>1, IdleFields
<1>10. UNCHANGED <<order, started, plan, remote, posts, deletes>>
    BY <1>1 DEF ghosts
<1>11. QED
    BY <1>2, <1>4, <1>8, <1>9, <1>10, SavedRowLInv

LEMMA OrderLInv ==
    ASSUME TInv, Course, LInv,
           \/ Tick \/ SaveConfig \/ RemoveConfig \/ OrderReady \/ OrderValidated
           \/ UNCHANGED vars
    PROVE  LInv'
<1>1. /\ zone' = zone /\ wire' = wire /\ ids' = ids /\ posts' = posts /\ deletes' = deletes
      /\ plan' = plan /\ rows' = rows /\ op' = op
    BY DEF Tick, SaveConfig, RemoveConfig, OrderReady, OrderValidated, vars, saved, remote, ghosts
<1>2. Zoned' /\ Counted' /\ (plan.prepared # 0 => \A r \in Rows : Traces(r)')
    BY <1>1 DEF LInv, Zoned, Counted, MutatedOnce, OwnId, NoOurs, Traces
<1>3. \/ order' = order /\ started' = started
      \/ ~started /\ started'
      \/ order.state = "dns-ready" /\ started' = started
    BY DEF Tick, SaveConfig, RemoveConfig, OrderReady, OrderValidated, vars, saved
<1>4. Fresh'
    BY <1>1, <1>3 DEF LInv, Fresh
<1>5. InFlight => InFlight'
    <2>1. PICK r \in Rows : r = op.row
        BY RowFacts
    <2>2. QED
        BY <1>1, <2>1 DEF InFlight, Sealable, Row, OwnId, NoPost, NoOurs
<1>6. QED
    BY <1>1, <1>2, <1>4, <1>5 DEF LInv

LEMMA CloseLInv == ASSUME TInv, Course, LInv, CloseRequest PROVE LInv'
<1>1. /\ op.step = "idle" /\ order.state # "not-started" /\ Closable
      /\ order' = NoOrder /\ plan' = NoPlan /\ started' = started /\ op' = op
      /\ zone' = zone /\ wire' = wire /\ ids' = ids /\ posts' = posts /\ deletes' = deletes
    BY DEF CloseRequest, remote, ghosts
<1>2. /\ zone \subseteq ZoneType /\ wire \subseteq WireType
    BY DEF TInv, Typed
<1>3. /\ \A x \in zone : ~x.ours
      /\ \A m \in wire : m.kind # "post"
    <2>1. CASE plan.prepared = 0
        BY <2>1 DEF LInv, Counted
    <2>2. CASE plan.prepared # 0 /\ \A r \in Rows : ~Owed(rows[r])
        BY <1>2, <2>2 DEF LInv, Traces, Owed, ZoneType, WireType
    <2>3. QED
        BY <1>1, <2>1, <2>2 DEF Closable
<1>4. Zoned' /\ Counted'
    BY <1>1, <1>3 DEF LInv, Zoned, Counted, MutatedOnce, OwnId, NoOurs
<1>5. Fresh'
    BY <1>1 DEF Fresh, NoOrder, Course
<1>6. QED
    BY <1>1, <1>4, <1>5 DEF LInv, NoPlan

LEMMA PrepareLInv == ASSUME TInv, Course, LInv, Prepare PROVE LInv'
<1>1. /\ op.step = "idle" /\ plan.prepared = 0 /\ order.state = "dns-ready" /\ op' = op
      /\ rows' = [r \in Rows |-> NewRow]
      /\ posts' = [r \in Rows |-> 0] /\ deletes' = [r \in Rows |-> 0]
      /\ zone' = zone /\ wire' = wire /\ ids' = ids
      /\ plan'.prepared = now /\ now # 0
    BY RowFacts DEF Prepare, remote, TInv, Ranges
<1>2. wire = {} /\ \A x \in zone : ~x.ours
    BY <1>1 DEF LInv, Fresh, Counted
<1>3. Zoned' /\ Counted' /\ Fresh'
    BY <1>1, <1>2 DEF LInv, Zoned, Counted, MutatedOnce, Fresh
<1>4. \A r \in Rows : Traces(r)'
    BY <1>1, <1>2, IdleFields DEF Traces
<1>5. QED
    BY <1>1, <1>3, <1>4 DEF LInv

LEMMA NextLInv == TInv /\ Course /\ LInv /\ [Next]_vars => LInv'
<1> SUFFICES ASSUME TInv, Course, LInv, [Next]_vars PROVE LInv'
    OBVIOUS
<1>1. CASE Abandon
    <2>1. op'.step = "idle" /\ UNCHANGED <<now, saved, remote, ghosts>>
        BY <1>1, IdleFields DEF Abandon
    <2>2. QED
        BY <2>1, LookLInv
<1>2. ASSUME NEW m \in wire, Handle(m) PROVE LInv'
    <2>1. m.kind \in {"post", "delete"}
        BY <1>2 DEF TInv, Typed, WireType
    <2>2. QED
        BY <1>2, <2>1, CreatedLInv, DeletedLInv
<1>3. QED
    BY <1>1, <1>2, OrderLInv, CloseLInv, PrepareLInv, BeginLInv, ListLInv, CleanupLInv,
       SendLInv, ConfirmedLInv, FailLInv, OutcomeLInv, OthersStepsLInv DEF Next

LEMMA SpecLInv == Spec => []LInv
BY SpecTInv, SpecCourse, InitLInv, NextLInv, PTL DEF Spec

\* While a record of the plan may be in the zone, or may still be created by a
\* late request, the plan, its token and a row that is owed are on file, and
\* the state has its type.
THEOREM SpecPlanKept == Spec => []PlanKept
<1>1. TInv => TypeOK
    <2> SUFFICES ASSUME TInv PROVE TypeOK
        OBVIOUS
    <2>1. /\ now \in Nat /\ config \in Nat /\ configs \in Nat /\ ids \in Nat /\ op \in OpType
          /\ order \in OrderType /\ plan \in PlanType /\ rows \in [Rows -> RowType] /\ started \in BOOLEAN
          /\ posts \in [Rows -> Nat] /\ deletes \in [Rows -> Nat] /\ asked \in [Rows -> Nat]
        BY DEF TInv, Typed
    <2>2. MaxConfigs \in Nat /\ MaxIds \in Nat
        BY PlanAssumption
    <2>3. config \in 0 .. MaxConfigs /\ configs \in 0 .. MaxConfigs /\ ids \in 0 .. MaxIds
        BY <2>1, <2>2 DEF TInv, Ranges
    <2>4. \A r \in Rows : /\ rows[r].state \in RowStates /\ rows[r].id \in 0 .. MaxIds
                          /\ rows[r].checked \in 0 .. now /\ rows[r].outcome \in 0 .. now
        BY <2>1, <2>2 DEF TInv, Ranges, RowType
    <2>5. now \in 1 .. MaxTime
        BY DEF TInv, Ranges
    <2>6. QED
        BY <2>1, <2>3, <2>4, <2>5 DEF TypeOK, OrderType, PlanType, OpType
<1>2. TInv /\ LInv => NeverLost
    BY DEF TInv, Typed, ZoneType, WireType, LInv, Counted, Traces, NeverLost, Owed
<1>3. TInv /\ Course /\ LInv => PlanKept
    BY <1>1, <1>2 DEF Course, PlanKept
<1>4. QED
    BY <1>3, SpecTInv, SpecCourse, SpecLInv, PTL

\* A record is created at most once and deleted at most once over the life of
\* its plan, and a deletion on its way names nothing somebody else created.
THEOREM SpecMutations == Spec => []Mutations
<1>1. LInv => Mutations
    BY DEF LInv, Zoned, Counted, OwnId, Mutations, OnlyOwnDeleted
<1>2. QED
    BY <1>1, SpecLInv, PTL

----------------------------------------------------------------------------
(* What was observed can be saved                                          *)

\* No attempt of the phase lies ahead of the clock.
Lately(f) == f.retry.last <= now /\ f.again.last <= now /\ f.upkeep.last <= now

\* What the policies of a phase are while an attempt of that mode runs.
Attempted(f, mode) ==
    CASE mode = "recover" ->
            /\ ~f.blocked /\ ~f.againBlocked /\ f.retry.attempts = MaxAttempts
            /\ f.again.attempts > 0 /\ f.upkeep.attempts = 0
      [] mode = "maintenance" ->
            /\ Terminal(f) /\ f.upkeep.attempts > 0 /\ ~f.upkeep.blocked
            /\ ~f.upkeep.resolved /\ f.upkeep.wait = f.upkeep.last + Day
      [] OTHER ->
            /\ ~f.blocked /\ f.retry.attempts > 0
            /\ f.again.attempts = 0 /\ f.upkeep.attempts = 0

\* What an observation may have put in the place of the record.
Observed(n) ==
    /\ n.create = Row.create /\ n.cleanup = Row.cleanup
    /\ \/ n = Row
       \/ /\ n.checked >= PolicyLast /\ n.checked # 0
          /\ IF op.cleanup THEN n.state = "deleted" /\ n.id = Row.id
             ELSE \/ n.state = "created" /\ n.id # 0
                  \/ n.state = "borrowed" /\ n.id = Row.id /\ ~op.readOnly

Running ==
    /\ Row.outcome = 0 /\ Attempted(Phase, op.mode)
    /\ ~op.cleanup /\ ~op.readOnly => op.mode = "add"
    /\ op.step = "sealing" => Observed(op.next)

\* Records are valid and behind the clock, and the call fits its record.
OInv ==
    /\ plan.prepared # 0 =>
          \A r \in Rows : /\ ValidRow(rows[r])
                          /\ Lately(rows[r].create) /\ Lately(rows[r].cleanup)
    /\ \A x \in zone : x.id # 0
    /\ op.step # "idle" => Running

\* What a call leaves of its phase: the attempt, with a wait, a block or a
\* receipt that its policy admits.
Goes(f, g) ==
    /\ g.retry.last = f.retry.last /\ g.retry.attempts = f.retry.attempts
    /\ g.again.last = f.again.last /\ g.again.attempts = f.again.attempts
    /\ g.upkeep.last = f.upkeep.last /\ g.upkeep.attempts = f.upkeep.attempts
    /\ ValidRetry(g.retry)
    /\ f.again.attempts > 0 => ValidRetry(g.again) /\ g.retry = f.retry /\ g.blocked = f.blocked
    /\ f.upkeep.attempts > 0 =>
          /\ g.again = f.again /\ g.retry = f.retry
          /\ g.blocked = f.blocked /\ g.againBlocked = f.againBlocked
          /\ g.upkeep.wait >= g.upkeep.last + Day /\ g.upkeep.wait <= g.upkeep.last + Week
          /\ g.upkeep.blocked => g.upkeep.wait = g.upkeep.last + Week
          /\ ~g.upkeep.resolved /\ g.upkeep.outcome = now

LEMMA LengthenedValid ==
    ASSUME NEW s \in RetryType, NEW h \in HintType, ValidRetry(s), ~Refused(s, h)
    PROVE  ValidRetry(Lengthen(s, h))
<1> DEFINE n == Lengthen(s, h)
<1>1. /\ n \in RetryType /\ n.attempts = s.attempts /\ n.last = s.last /\ n.wait = Later(s.wait, h.at)
    BY LengthenedRetry
<1>2. s.attempts # 0 /\ s # NoRetry /\ h.at <= s.last + MaxProviderWait
    BY RetryAssumption DEF Refused, NoRetry, RetryType, HintType
<1> HIDE DEF n
<1>3. s.attempts \in 1 .. MaxAttempts /\ s.last < s.wait /\ s.wait <= s.last + MaxProviderWait
    BY <1>2 DEF ValidRetry
<1>4. ValidRetry(n)
    BY <1>1, <1>2, <1>3, RetryAssumption DEF ValidRetry, Later, RetryType, HintType
<1>5. QED
    BY <1>4 DEF n

LEMMA DeferredGoes ==
    ASSUME NEW f \in PhaseType, NEW h \in HintType, now \in Nat, op.mode \in Modes,
           Attempted(f, op.mode), ValidRetry(f.retry), f.again.attempts > 0 => ValidRetry(f.again)
    PROVE  Goes(f, Deferred(f, h))
<1> DEFINE n == Deferred(f, h)
<1>0. f.retry \in RetryType /\ f.again \in RetryType /\ f.upkeep \in UpkeepType
      /\ Week \in Nat /\ Day \in Nat /\ Day <= Week
    BY PlanAssumption, RetryAssumption DEF PhaseType
<1>1. CASE op.mode = "maintenance"
    <2> DEFINE last == f.upkeep.last
               u == [f.upkeep EXCEPT !.blocked = TRUE, !.wait = last + Week, !.outcome = now]
               v == [f.upkeep EXCEPT !.wait = Later(f.upkeep.wait, h.at), !.outcome = now]
               w == IF h.blocked \/ h.at > last + Week THEN u ELSE v
    <2>1. last \in Nat /\ f.upkeep.wait = last + Day /\ ~f.upkeep.resolved /\ ~f.upkeep.blocked
        BY <1>0, <1>1 DEF UpkeepType, Attempted
    <2>2. /\ u.last = last /\ u.attempts = f.upkeep.attempts /\ u.wait = last + Week
          /\ ~u.resolved /\ u.outcome = now /\ u.blocked
        BY <1>0, <2>1 DEF UpkeepType
    <2>3. /\ v.last = last /\ v.attempts = f.upkeep.attempts /\ v.wait = Later(f.upkeep.wait, h.at)
          /\ ~v.resolved /\ v.outcome = now /\ ~v.blocked
        BY <1>0, <2>1 DEF UpkeepType
    <2>4. n = [f EXCEPT !.upkeep = w]
        BY <1>1 DEF Deferred
    <2> HIDE DEF u, v
    <2>5. /\ w.last = last /\ w.attempts = f.upkeep.attempts /\ ~w.resolved /\ w.outcome = now
          /\ w.blocked => w.wait = last + Week
        BY <2>2, <2>3
    <2>6. w.wait >= last + Day /\ w.wait <= last + Week
        <3>1. CASE h.blocked \/ h.at > last + Week
            BY <1>0, <2>1, <2>2, <3>1
        <3>2. CASE ~(h.blocked \/ h.at > last + Week)
            BY <1>0, <2>1, <2>3, <3>2 DEF Later, HintType
        <3>3. QED
            BY <3>1, <3>2
    <2> HIDE DEF w, n
    <2>7. /\ n.upkeep = w /\ n.retry = f.retry /\ n.again = f.again
          /\ n.blocked = f.blocked /\ n.againBlocked = f.againBlocked
        BY <2>4 DEF PhaseType
    <2>8. Goes(f, n)
        BY <2>5, <2>6, <2>7 DEF Goes
    <2>9. QED
        BY <2>8 DEF n
<1>2. CASE op.mode = "recover"
    <2> DEFINE a == Lengthen(f.again, h)
    <2>1. a.last = f.again.last /\ a.attempts = f.again.attempts
        BY <1>0, LengthenedRetry
    <2>2. f.upkeep.attempts = 0 /\ ValidRetry(f.again)
        BY <1>2 DEF Attempted
    <2>3. \/ n = [f EXCEPT !.againBlocked = TRUE]
          \/ n = [f EXCEPT !.again = a] /\ ValidRetry(a)
        BY <1>0, <1>2, <2>2, LengthenedValid DEF Deferred
    <2> HIDE DEF a, n
    <2>4. /\ n.retry = f.retry /\ n.upkeep = f.upkeep /\ n.blocked = f.blocked
          /\ n.again = f.again \/ (n.again = a /\ ValidRetry(a))
        BY <2>3 DEF PhaseType
    <2>5. Goes(f, n)
        BY <2>1, <2>2, <2>4 DEF Goes
    <2>6. QED
        BY <2>5 DEF n
<1>3. CASE op.mode \notin {"recover", "maintenance"}
    <2> DEFINE a == Lengthen(f.retry, h)
    <2>1. a.last = f.retry.last /\ a.attempts = f.retry.attempts
        BY <1>0, LengthenedRetry
    <2>2. f.upkeep.attempts = 0 /\ f.again.attempts = 0
        BY <1>3 DEF Attempted
    <2>3. \/ n = [f EXCEPT !.blocked = TRUE]
          \/ n = [f EXCEPT !.retry = a] /\ ValidRetry(a)
        BY <1>0, <1>3, LengthenedValid DEF Deferred
    <2> HIDE DEF a, n
    <2>4. /\ n.again = f.again /\ n.upkeep = f.upkeep
          /\ n.retry = f.retry \/ (n.retry = a /\ ValidRetry(a))
        BY <2>3 DEF PhaseType
    <2>5. Goes(f, n)
        BY <2>1, <2>2, <2>4 DEF Goes
    <2>6. QED
        BY <2>5 DEF n
<1>4. QED
    BY <1>1, <1>2, <1>3

\* The receipt of a call that saw nothing new.
LEMMA ReceiptGoes ==
    ASSUME NEW f \in PhaseType, NEW r \in RowType, now \in Nat, op.mode \in Modes,
           r.state \notin {"created", "deleted"},
           Attempted(f, op.mode), ValidRetry(f.retry), f.again.attempts > 0 => ValidRetry(f.again)
    PROVE  Goes(f, Receipt(f, r))
<1>0. /\ f.upkeep \in UpkeepType /\ Week \in Nat /\ Day \in Nat /\ Day <= Week
    BY PlanAssumption, RetryAssumption DEF PhaseType
<1>1. CASE op.mode # "maintenance"
    <2>1. Receipt(f, r) = f /\ f.upkeep.attempts = 0
        BY <1>1 DEF Receipt, Attempted
    <2>2. QED
        BY <2>1 DEF Goes
<1>2. CASE op.mode = "maintenance"
    <2> DEFINE n == Receipt(f, r)
               u == [f.upkeep EXCEPT !.resolved = FALSE, !.outcome = now]
    <2>1. n = [f EXCEPT !.upkeep = u]
        BY <1>2 DEF Receipt
    <2>2. /\ u.last = f.upkeep.last /\ u.attempts = f.upkeep.attempts /\ u.wait = f.upkeep.wait
          /\ ~u.resolved /\ u.outcome = now /\ u.blocked = f.upkeep.blocked
        BY <1>0 DEF UpkeepType
    <2>3. f.upkeep.wait = f.upkeep.last + Day /\ ~f.upkeep.blocked /\ f.upkeep.last \in Nat
        BY <1>0, <1>2 DEF Attempted, UpkeepType
    <2> HIDE DEF u, n
    <2>4. /\ n.upkeep = u /\ n.retry = f.retry /\ n.again = f.again
          /\ n.blocked = f.blocked /\ n.againBlocked = f.againBlocked
        BY <2>1 DEF PhaseType
    <2>5. Goes(f, n)
        BY <1>0, <2>2, <2>3, <2>4 DEF Goes
    <2>6. QED
        BY <2>5 DEF n
<1>3. QED
    BY <1>1, <1>2

\* What an observation at moment at leaves of the phase it settles.
Settles(f, g, at) ==
    /\ g.retry = f.retry /\ g.again = f.again
    /\ g.blocked = f.blocked /\ g.againBlocked = f.againBlocked
    /\ g.upkeep.attempts = f.upkeep.attempts /\ g.upkeep.last = f.upkeep.last
    /\ f.upkeep.attempts > 0 =>
          /\ g.upkeep.resolved /\ ~g.upkeep.blocked
          /\ g.upkeep.outcome = at /\ g.upkeep.wait = g.upkeep.last + Day

\* The receipt of an observation that settles the record.
LEMMA ReceiptSettles ==
    ASSUME NEW f \in PhaseType, NEW r \in RowType, now \in Nat, op.mode \in Modes,
           r.state = IF op.cleanup THEN "deleted" ELSE "created",
           Attempted(f, op.mode)
    PROVE  Settles(f, Receipt(f, r), r.checked)
<1>0. f.upkeep \in UpkeepType
    BY DEF PhaseType
<1>1. CASE op.mode # "maintenance"
    BY <1>1 DEF Receipt, Attempted, Settles
<1>2. CASE op.mode = "maintenance"
    <2> DEFINE n == Receipt(f, r)
               u == [f.upkeep EXCEPT !.resolved = TRUE, !.outcome = r.checked]
    <2>1. n = [f EXCEPT !.upkeep = u]
        BY <1>2 DEF Receipt
    <2>2. /\ u.last = f.upkeep.last /\ u.attempts = f.upkeep.attempts /\ u.wait = f.upkeep.wait
          /\ u.resolved /\ u.outcome = r.checked /\ u.blocked = f.upkeep.blocked
        BY <1>0 DEF UpkeepType
    <2>3. f.upkeep.wait = f.upkeep.last + Day /\ ~f.upkeep.blocked
        BY <1>2 DEF Attempted
    <2> HIDE DEF u, n
    <2>4. /\ n.upkeep = u /\ n.retry = f.retry /\ n.again = f.again
          /\ n.blocked = f.blocked /\ n.againBlocked = f.againBlocked
        BY <2>1 DEF PhaseType
    <2>5. QED
        BY <2>2, <2>3, <2>4 DEF n, Settles
<1>3. QED
    BY <1>1, <1>2

LEMMA ContactBound ==
    ASSUME NEW r \in RowType, now \in Nat, Lately(r.create), Lately(r.cleanup)
    PROVE  LastContact(r) <= now
<1>1. \A f \in PhaseType : Lately(f) => /\ Later(f.again.last, f.upkeep.last) \in Nat
                                        /\ Later(f.again.last, f.upkeep.last) <= now
    BY DEF Lately, PhaseType, RetryType, UpkeepType, Later
<1> DEFINE a == Later(r.create.again.last, r.create.upkeep.last)
           b == Later(r.cleanup.again.last, r.cleanup.upkeep.last)
           c == IF r.cleanup.retry.attempts > 0 THEN r.cleanup.retry.last ELSE r.create.retry.last
<1>2. a \in Nat /\ a <= now /\ b \in Nat /\ b <= now
    BY <1>1 DEF RowType
<1>3. c \in Nat /\ c <= now
    BY DEF RowType, PhaseType, RetryType, Lately
<1>4. LastContact(r) = Later(Later(a, b), c)
    BY DEF LastContact
<1> HIDE DEF a, b, c
<1>5. QED
    BY <1>2, <1>3, <1>4 DEF Later

\* What is demanded of every record that is no longer new.
Base(r) ==
    /\ ValidRetry(r.create.retry) /\ r.create.retry.attempts > 0
    /\ r.create.retry.last >= plan.prepared
    /\ r.outcome # 0 => r.outcome >= LastContact(r)

LEMMA NoPhaseFields ==
    /\ NoPhase.upkeep.attempts = 0 /\ NoPhase.again.attempts = 0 /\ ~NoPhase.blocked
    /\ NoPhase.retry = NoRetry /\ NoPhase.retry.attempts = 0
    /\ NoPhase.retry.last = 0 /\ NoPhase.again.last = 0 /\ NoPhase.upkeep.last = 0
    /\ ValidRetry(NoRetry) /\ NewRow.create = NoPhase /\ NewRow.cleanup = NoPhase
BY DEF NoPhase, NoMaintenance, NoRetry, ValidRetry, NewRow

\* The record by its state: new, being created, created, borrowed, being
\* deleted, deleted.
LEMMA NewValid == ValidRow(NewRow)
<1>1. \A p, d : ValidMaintenance(NewRow, NoPhase, p, d) /\ ValidRecovery(NewRow, NoPhase, p)
    BY NoPhaseFields DEF ValidMaintenance, ValidRecovery
<1>2. QED
    BY <1>1, NoPhaseFields, IdleFields DEF ValidRow

LEMMA CreatingValid ==
    ASSUME NEW r \in RowType, r.state = "creating"
    PROVE  ValidRow(r) <=> /\ Base(r)
                           /\ ValidMaintenance(r, r.create, TRUE, FALSE)
                           /\ ValidRecovery(r, r.create, TRUE)
                           /\ r.id = 0 /\ r.cleanup = NoPhase /\ r.checked = 0
<1>1. r.create.retry.attempts \in Nat
    BY DEF RowType, PhaseType, RetryType
<1>2. QED
    BY <1>1, NoPhaseFields DEF ValidRow, Base, ValidMaintenance, ValidRecovery

LEMMA CreatedValid ==
    ASSUME NEW r \in RowType, r.state = "created"
    PROVE  ValidRow(r) <=> /\ Base(r)
                           /\ ValidMaintenance(r, r.create, FALSE, TRUE)
                           /\ ValidRecovery(r, r.create, FALSE)
                           /\ CheckedRow(r) /\ r.outcome >= r.checked
                           /\ Unblocked(r, r.create) /\ r.id # 0 /\ r.cleanup = NoPhase
<1>1. r.create.retry.attempts \in Nat
    BY DEF RowType, PhaseType, RetryType
<1>2. QED
    BY <1>1, NoPhaseFields DEF ValidRow, Base, ValidMaintenance, ValidRecovery

LEMMA BorrowedValid ==
    ASSUME NEW r \in RowType, r.state = "borrowed",
           Base(r), r.create.upkeep.attempts = 0, r.create.again.attempts = 0,
           CheckedRow(r), r.outcome >= r.checked,
           ~r.create.blocked, r.id = 0, r.cleanup = NoPhase
    PROVE  ValidRow(r)
<1>1. \A p, d : /\ ValidMaintenance(r, r.cleanup, p, d) /\ ValidRecovery(r, r.cleanup, p)
                /\ ValidMaintenance(r, r.create, p, d) /\ ValidRecovery(r, r.create, p)
    BY NoPhaseFields DEF ValidMaintenance, ValidRecovery
<1>2. QED
    BY <1>1, NoPhaseFields DEF ValidRow, Base

LEMMA CleanedValid ==
    ASSUME NEW r \in RowType, r.state \in {"deleting", "deleted"}
    PROVE  ValidRow(r) <=>
               /\ Base(r)
               /\ ValidMaintenance(r, r.create, FALSE, TRUE)
               /\ ValidRecovery(r, r.create, FALSE)
               /\ ValidMaintenance(r, r.cleanup, r.state = "deleting", r.state = "deleted")
               /\ ValidRecovery(r, r.cleanup, r.state = "deleting")
               /\ CheckedRow(r) /\ Unblocked(r, r.create) /\ r.id # 0
               /\ r.cleanup.retry.attempts > 0 /\ ValidRetry(r.cleanup.retry)
               /\ r.cleanup.retry.last >= r.create.retry.last
               /\ IF r.state = "deleting" THEN r.checked <= r.cleanup.retry.last
                  ELSE /\ Unblocked(r, r.cleanup)
                       /\ r.checked >= r.cleanup.retry.last /\ r.outcome >= r.checked
<1>1. r.create.retry.attempts \in Nat
    BY DEF RowType, PhaseType, RetryType
<1>2. QED
    BY <1>1, NoPhaseFields DEF ValidRow, Base, ValidMaintenance, ValidRecovery

LEMMA PhaseGoes ==
    ASSUME NEW r \in RowType, NEW n \in RowType, NEW f \in PhaseType, NEW g \in PhaseType,
           now \in Nat, Lately(f), Goes(f, g), n.outcome = now,
           ValidMaintenance(r, f, TRUE, FALSE), ValidRecovery(r, f, TRUE)
    PROVE  /\ ValidMaintenance(n, g, TRUE, FALSE) /\ ValidRecovery(n, g, TRUE)
           /\ Lately(g)
<1>1. /\ Day \in Nat /\ Week \in Nat /\ Day <= Week
      /\ f.upkeep \in UpkeepType /\ g.upkeep \in UpkeepType
    BY PlanAssumption, RetryAssumption DEF PhaseType
<1>2. Lately(g)
    BY DEF Lately, Goes
<1>3. ASSUME g.upkeep.attempts > 0
      PROVE  /\ Terminal(g) /\ g.upkeep.attempts <= MaxMaintenance
             /\ g.upkeep.last >= MaintenanceFloor(g)
    <2>1. /\ f.upkeep.attempts > 0 /\ g.retry = f.retry /\ g.again = f.again
          /\ g.blocked = f.blocked /\ g.againBlocked = f.againBlocked
          /\ g.upkeep.last = f.upkeep.last /\ g.upkeep.attempts = f.upkeep.attempts
        BY <1>3 DEF Goes
    <2>2. Terminal(f) /\ f.upkeep.attempts <= MaxMaintenance /\ f.upkeep.last >= MaintenanceFloor(f)
        BY <2>1 DEF ValidMaintenance
    <2>3. Terminal(g) /\ MaintenanceFloor(g) = MaintenanceFloor(f)
        BY <2>1, <2>2 DEF Terminal, MaintenanceFloor
    <2>4. QED
        BY <2>1, <2>2, <2>3
<1>4. ASSUME g.upkeep.attempts > 0
      PROVE  LET m == g.upkeep
                 gap == m.wait - m.last
             IN  /\ gap >= Day /\ gap <= Week /\ (m.blocked => gap >= Week)
                 /\ m.outcome >= m.last /\ ~m.resolved /\ m.outcome = n.outcome
    <2>1. f.upkeep.attempts > 0
        BY <1>4 DEF Goes
    <2>2. QED
        BY <1>1, <2>1 DEF Goes, Lately, UpkeepType
<1>5. ValidMaintenance(n, g, TRUE, FALSE)
    BY <1>3, <1>4 DEF ValidMaintenance
<1>6. ValidRecovery(n, g, TRUE)
    BY DEF ValidRecovery, Goes
<1>7. QED
    BY <1>2, <1>5, <1>6

\* What a settled phase demands stays true when the record is seen again.
LEMMA SettledKept ==
    ASSUME NEW r \in RowType, NEW n \in RowType, n.create = r.create, n.checked >= r.checked,
           ValidMaintenance(r, r.create, FALSE, TRUE), ValidRecovery(r, r.create, FALSE),
           CheckedRow(r), Unblocked(r, r.create)
    PROVE  /\ ValidMaintenance(n, n.create, FALSE, TRUE) /\ ValidRecovery(n, n.create, FALSE)
           /\ CheckedRow(n) /\ Unblocked(n, n.create)
<1>1. /\ r.checked \in Nat /\ n.checked \in Nat /\ r.create.retry \in RetryType
      /\ r.create.again \in RetryType /\ r.create.upkeep \in UpkeepType
    BY DEF RowType, PhaseType
<1>2. CheckedRow(n)
    BY <1>1 DEF CheckedRow, RetryType
<1>3. MaintenanceResolved(r, r.create) => MaintenanceResolved(n, n.create)
    BY <1>1 DEF MaintenanceResolved, UpkeepType
<1>4. Unblocked(n, n.create)
    BY <1>3 DEF Unblocked
<1>5. ValidRecovery(n, n.create, FALSE)
    BY <1>1, <1>3 DEF ValidRecovery, RetryType
<1>6. ValidMaintenance(n, n.create, FALSE, TRUE)
    BY <1>1 DEF ValidMaintenance, UpkeepType
<1>7. QED
    BY <1>2, <1>4, <1>5, <1>6

LEMMA CreatingGoes ==
    ASSUME NEW r \in RowType, NEW n \in RowType, now \in Nat, ValidRow(r), r.state = "creating",
           Lately(r.create), Lately(r.cleanup), Goes(r.create, n.create),
           n.state = r.state, n.id = r.id, n.checked = r.checked, n.cleanup = r.cleanup,
           n.outcome = now
    PROVE  ValidRow(n)
<1>1. /\ Base(r) /\ ValidMaintenance(r, r.create, TRUE, FALSE) /\ ValidRecovery(r, r.create, TRUE)
      /\ r.id = 0 /\ r.cleanup = NoPhase /\ r.checked = 0
    BY CreatingValid
<1>2. r.create \in PhaseType /\ n.create \in PhaseType
    BY DEF RowType
<1>3. /\ ValidMaintenance(n, n.create, TRUE, FALSE) /\ ValidRecovery(n, n.create, TRUE)
      /\ Lately(n.create)
    BY <1>1, <1>2, PhaseGoes
<1>4. Base(n)
    BY <1>1, <1>3, ContactBound DEF Base, Goes
<1>5. QED
    BY <1>1, <1>3, <1>4, CreatingValid

LEMMA DeletingGoes ==
    ASSUME NEW r \in RowType, NEW n \in RowType, now \in Nat, ValidRow(r), r.state = "deleting",
           Lately(r.create), Lately(r.cleanup), Goes(r.cleanup, n.cleanup),
           n.state = r.state, n.id = r.id, n.checked = r.checked, n.create = r.create,
           n.outcome = now
    PROVE  ValidRow(n)
<1>1. /\ Base(r)
      /\ ValidMaintenance(r, r.create, FALSE, TRUE) /\ ValidRecovery(r, r.create, FALSE)
      /\ CheckedRow(r) /\ Unblocked(r, r.create) /\ r.id # 0
      /\ r.cleanup.retry.attempts > 0 /\ ValidRetry(r.cleanup.retry)
      /\ r.cleanup.retry.last >= r.create.retry.last /\ r.checked <= r.cleanup.retry.last
    BY CleanedValid
<1>2. ValidMaintenance(r, r.cleanup, TRUE, FALSE) /\ ValidRecovery(r, r.cleanup, TRUE)
    BY CleanedValid DEF ValidMaintenance, ValidRecovery
<1>3. r.cleanup \in PhaseType /\ n.cleanup \in PhaseType /\ r.checked \in Nat
    BY DEF RowType
<1>4. /\ ValidMaintenance(n, n.cleanup, TRUE, FALSE) /\ ValidRecovery(n, n.cleanup, TRUE)
      /\ Lately(n.cleanup)
    BY <1>2, <1>3, PhaseGoes
<1>5. n.checked >= r.checked
    BY <1>3
<1>6. /\ ValidMaintenance(n, n.create, FALSE, TRUE) /\ ValidRecovery(n, n.create, FALSE)
      /\ CheckedRow(n) /\ Unblocked(n, n.create)
    BY <1>1, <1>5, SettledKept
<1>7. Base(n)
    BY <1>1, <1>4, ContactBound DEF Base
<1>8. /\ ValidMaintenance(n, n.cleanup, n.state = "deleting", n.state = "deleted")
      /\ ValidRecovery(n, n.cleanup, n.state = "deleting")
    BY <1>4 DEF ValidMaintenance, ValidRecovery
<1>9. /\ n.cleanup.retry.attempts > 0 /\ ValidRetry(n.cleanup.retry)
      /\ n.cleanup.retry.last >= n.create.retry.last /\ n.checked <= n.cleanup.retry.last
    BY <1>1 DEF Goes
<1>10. QED
    BY <1>1, <1>6, <1>7, <1>8, <1>9, CleanedValid

\* The moment of the attempt of that mode.
LastOf(f, mode) ==
    CASE mode = "recover" -> f.again.last
      [] mode = "maintenance" -> f.upkeep.last
      [] OTHER -> f.retry.last

LEMMA PhaseSettles ==
    ASSUME NEW r \in RowType, NEW n \in RowType, NEW f \in PhaseType, NEW g \in PhaseType,
           NEW mode \in Modes, Attempted(f, mode), Settles(f, g, n.checked),
           n.checked >= LastOf(f, mode), n.checked # 0, ValidRetry(f.retry),
           ValidMaintenance(r, f, TRUE, FALSE), ValidRecovery(r, f, TRUE)
    PROVE  /\ ValidMaintenance(n, g, FALSE, TRUE) /\ ValidRecovery(n, g, FALSE)
           /\ Unblocked(n, g) /\ n.checked >= g.retry.last
<1>1. /\ Day \in Nat /\ Week \in Nat /\ Day <= Week /\ n.checked \in Nat
      /\ f.upkeep \in UpkeepType /\ g.upkeep \in UpkeepType
      /\ f.retry \in RetryType /\ f.again \in RetryType
    BY PlanAssumption, RetryAssumption DEF PhaseType, RowType
<1>2. CASE mode = "maintenance"
    <2>1. f.upkeep.attempts > 0 /\ n.checked >= f.upkeep.last
        BY <1>2 DEF Attempted, LastOf
    <2>2. Terminal(f) /\ f.upkeep.attempts <= MaxMaintenance /\ f.upkeep.last >= MaintenanceFloor(f)
        BY <2>1 DEF ValidMaintenance
    <2>3. f.upkeep.last >= f.retry.last /\ f.upkeep.last >= f.again.last
        <3> DEFINE last == Later(f.retry.last, f.again.last)
        <3>1. last >= f.retry.last /\ last >= f.again.last /\ last \in Nat
            BY <1>1, LaterIsOne DEF RetryType
        <3>2. MaintenanceFloor(f) \in Nat /\ MaintenanceFloor(f) >= last + Day
            BY FloorBounds
        <3> HIDE DEF last
        <3>3. QED
            BY <1>1, <2>2, <3>1, <3>2 DEF RetryType, UpkeepType
    <2>4. Terminal(g) /\ MaintenanceFloor(g) = MaintenanceFloor(f)
        BY <2>2 DEF Terminal, MaintenanceFloor, Settles
    <2>5. /\ g.upkeep.resolved /\ ~g.upkeep.blocked /\ g.upkeep.outcome = n.checked
          /\ g.upkeep.last = f.upkeep.last /\ g.upkeep.wait = g.upkeep.last + Day
          /\ g.upkeep.attempts = f.upkeep.attempts
        BY <2>1 DEF Settles
    <2>6. ValidMaintenance(n, g, FALSE, TRUE)
        <3>1. g.upkeep.wait - g.upkeep.last = Day
            BY <1>1, <2>5 DEF UpkeepType
        <3>2. QED
            BY <1>1, <2>1, <2>2, <2>4, <2>5, <3>1 DEF ValidMaintenance, UpkeepType
    <2>7. MaintenanceResolved(n, g)
        BY <2>1, <2>5 DEF MaintenanceResolved
    <2>8. n.checked >= g.retry.last /\ n.checked >= g.again.last
        BY <1>1, <2>1, <2>3 DEF Settles, RetryType, UpkeepType
    <2>9. ValidRecovery(n, g, FALSE)
        BY <2>7, <2>8 DEF ValidRecovery, Settles
    <2>10. QED
        BY <2>6, <2>7, <2>8, <2>9 DEF Unblocked
<1>3. CASE mode = "recover"
    <2>1. /\ ~f.blocked /\ ~f.againBlocked /\ f.again.attempts > 0 /\ f.upkeep.attempts = 0
          /\ n.checked >= f.again.last /\ f.retry.attempts = MaxAttempts
        BY <1>3 DEF Attempted, LastOf
    <2>2. f.again.last >= f.retry.wait
        BY <2>1 DEF ValidRecovery
    <2>3. f.retry.wait > f.retry.last
        BY <1>1, <2>1, RetryAssumption DEF ValidRetry, NoRetry, RetryType
    <2>4. n.checked >= f.retry.last
        BY <1>1, <2>1, <2>2, <2>3 DEF RetryType
    <2>5. ValidMaintenance(n, g, FALSE, TRUE) /\ ValidRecovery(n, g, FALSE) /\ Unblocked(n, g)
        BY <2>1 DEF ValidMaintenance, ValidRecovery, Unblocked, Settles
    <2>6. QED
        BY <2>4, <2>5 DEF Settles
<1>4. CASE mode \notin {"maintenance", "recover"}
    <2>1. /\ ~f.blocked /\ f.again.attempts = 0 /\ f.upkeep.attempts = 0
          /\ n.checked >= f.retry.last
        BY <1>4 DEF Attempted, LastOf
    <2>2. QED
        BY <2>1 DEF ValidMaintenance, ValidRecovery, Unblocked, Settles
<1>5. QED
    BY <1>2, <1>3, <1>4

LEMMA SettlesLately ==
    ASSUME NEW f, NEW g, NEW at, Settles(f, g, at), Lately(f) PROVE Lately(g)
BY DEF Settles, Lately

LEMMA CreatingSettles ==
    ASSUME NEW r \in RowType, NEW n \in RowType, now \in Nat, ValidRow(r), r.state = "creating",
           Lately(r.create), Lately(r.cleanup), NEW mode \in Modes, Attempted(r.create, mode),
           Settles(r.create, n.create, n.checked), n.cleanup = r.cleanup,
           n.state = "created", n.id # 0, n.checked # 0, n.checked >= LastOf(r.create, mode),
           n.checked <= now, n.outcome = now
    PROVE  ValidRow(n)
<1>1. /\ Base(r) /\ ValidMaintenance(r, r.create, TRUE, FALSE) /\ ValidRecovery(r, r.create, TRUE)
      /\ r.cleanup = NoPhase
    BY CreatingValid
<1>2. r.create \in PhaseType /\ n.create \in PhaseType /\ n.checked \in Nat
    BY DEF RowType
<1>3. /\ ValidMaintenance(n, n.create, FALSE, TRUE) /\ ValidRecovery(n, n.create, FALSE)
      /\ Unblocked(n, n.create) /\ n.checked >= n.create.retry.last
    BY <1>1, <1>2, PhaseSettles DEF Base
<1>4. Lately(n.create)
    BY SettlesLately
<1>5. Base(n)
    BY <1>1, <1>4, ContactBound DEF Base, Settles
<1>6. CheckedRow(n)
    BY <1>3 DEF CheckedRow
<1>7. QED
    BY <1>1, <1>2, <1>3, <1>5, <1>6, CreatedValid

LEMMA CreatingBorrows ==
    ASSUME NEW r \in RowType, NEW n \in RowType, now \in Nat, ValidRow(r), r.state = "creating",
           Lately(r.create), Lately(r.cleanup), Attempted(r.create, "add"),
           n.create = r.create, n.cleanup = r.cleanup,
           n.state = "borrowed", n.id = r.id, n.checked # 0, n.checked >= r.create.retry.last,
           n.checked <= now, n.outcome = now
    PROVE  ValidRow(n)
<1>1. Base(r) /\ r.id = 0 /\ r.cleanup = NoPhase
    BY CreatingValid
<1>2. ~r.create.blocked /\ r.create.again.attempts = 0 /\ r.create.upkeep.attempts = 0
    BY DEF Attempted
<1>3. Base(n)
    BY <1>1, ContactBound DEF Base
<1>4. CheckedRow(n) /\ n.outcome >= n.checked
    BY DEF CheckedRow, RowType
<1>5. QED
    BY <1>1, <1>2, <1>3, <1>4, BorrowedValid

LEMMA DeletingSettles ==
    ASSUME NEW r \in RowType, NEW n \in RowType, now \in Nat, ValidRow(r), r.state = "deleting",
           Lately(r.create), Lately(r.cleanup), NEW mode \in Modes, Attempted(r.cleanup, mode),
           Settles(r.cleanup, n.cleanup, n.checked), n.create = r.create,
           n.state = "deleted", n.id = r.id, n.checked # 0, n.checked >= LastOf(r.cleanup, mode),
           n.checked <= now, n.outcome = now
    PROVE  ValidRow(n)
<1>1. /\ Base(r)
      /\ ValidMaintenance(r, r.create, FALSE, TRUE) /\ ValidRecovery(r, r.create, FALSE)
      /\ CheckedRow(r) /\ Unblocked(r, r.create) /\ r.id # 0
      /\ r.cleanup.retry.attempts > 0 /\ ValidRetry(r.cleanup.retry)
      /\ r.cleanup.retry.last >= r.create.retry.last /\ r.checked <= r.cleanup.retry.last
    BY CleanedValid
<1>2. ValidMaintenance(r, r.cleanup, TRUE, FALSE) /\ ValidRecovery(r, r.cleanup, TRUE)
    BY CleanedValid DEF ValidMaintenance, ValidRecovery
<1>3. /\ r.cleanup \in PhaseType /\ n.cleanup \in PhaseType /\ r.checked \in Nat /\ n.checked \in Nat
      /\ r.cleanup.retry \in RetryType
    BY DEF RowType, PhaseType
<1>4. /\ ValidMaintenance(n, n.cleanup, FALSE, TRUE) /\ ValidRecovery(n, n.cleanup, FALSE)
      /\ Unblocked(n, n.cleanup) /\ n.checked >= n.cleanup.retry.last
    BY <1>1, <1>2, <1>3, PhaseSettles
<1>5. n.cleanup.retry = r.cleanup.retry
    BY DEF Settles
<1>6. n.checked >= r.checked
    BY <1>1, <1>3, <1>4, <1>5 DEF RetryType
<1>7. /\ ValidMaintenance(n, n.create, FALSE, TRUE) /\ ValidRecovery(n, n.create, FALSE)
      /\ CheckedRow(n) /\ Unblocked(n, n.create)
    BY <1>1, <1>6, SettledKept
<1>8. Lately(n.cleanup)
    BY SettlesLately
<1>9. Base(n)
    BY <1>1, <1>8, ContactBound DEF Base
<1>10. /\ ValidMaintenance(n, n.cleanup, n.state = "deleting", n.state = "deleted")
       /\ ValidRecovery(n, n.cleanup, n.state = "deleting")
    BY <1>4 DEF ValidMaintenance, ValidRecovery
<1>11. QED
    BY <1>1, <1>4, <1>5, <1>7, <1>9, <1>10, CleanedValid

\* An attempt begins on a phase whose earlier policies allow it.
LEMMA AttemptBegins ==
    ASSUME NEW f \in PhaseType, now \in Nat, NEW mode \in Modes, NEW g \in Attempt(f, mode),
           f.again.attempts > 0 => f.retry.attempts = MaxAttempts,
           f.upkeep.attempts > 0 => Terminal(f), Lately(f)
    PROVE  Attempted(g, mode) /\ Lately(g)
<1>1. /\ f.retry \in RetryType /\ f.again \in RetryType /\ f.upkeep \in UpkeepType
      /\ MaxAttempts \in Nat
    BY RetryAssumption DEF PhaseType
<1>2. CASE mode = "recover"
    <2>1. /\ g.again.last = now /\ g.again.attempts = f.again.attempts + 1
          /\ g.retry = f.retry /\ g.blocked = f.blocked /\ g.againBlocked = f.againBlocked
          /\ g.upkeep = f.upkeep /\ RecoverGranted(f) /\ Ready(f.again, now)
        BY <1>2, RecoveryGrant DEF Attempt
    <2>2. f.upkeep.attempts = 0
        BY <1>1, <2>1 DEF RecoverGranted, Ready, Terminal, RetryType, UpkeepType
    <2>3. QED
        BY <1>1, <1>2, <2>1, <2>2 DEF Attempted, Lately, RecoverGranted, RetryType
<1>3. CASE mode = "maintenance"
    <2> DEFINE u == [attempts |-> f.upkeep.attempts + 1, last |-> now, wait |-> now + Day,
                     outcome |-> 0, blocked |-> FALSE, resolved |-> FALSE]
    <2>1. /\ g.retry = f.retry /\ g.blocked = f.blocked /\ g.again = f.again
          /\ g.againBlocked = f.againBlocked /\ Terminal(f) /\ g.upkeep = u
        BY <1>3, MaintenanceGrant DEF Attempt
    <2>2. /\ u.attempts = f.upkeep.attempts + 1 /\ u.last = now /\ u.wait = now + Day
          /\ ~u.blocked /\ ~u.resolved
        OBVIOUS
    <2> HIDE DEF u
    <2>3. QED
        BY <1>1, <1>3, <2>1, <2>2 DEF Attempted, Lately, Terminal, UpkeepType
<1>4. CASE mode \in {"add", "check", "cleanup"}
    <2>1. /\ g.retry.last = now /\ g.retry.attempts = f.retry.attempts + 1
          /\ g.blocked = f.blocked /\ ~f.blocked /\ g.again = f.again /\ g.upkeep = f.upkeep
          /\ f.retry.attempts < MaxAttempts
        BY <1>4, OrdinaryGrant DEF Attempt
    <2>2. f.again.attempts = 0 /\ f.upkeep.attempts = 0
        BY <1>1, <2>1 DEF Terminal, RetryType, UpkeepType
    <2>3. QED
        BY <1>1, <1>4, <2>1, <2>2 DEF Attempted, Lately, RetryType
<1>5. QED
    BY <1>2, <1>3, <1>4 DEF Modes

LEMMA InitOInv == Init => OInv
BY IdleFields DEF Init, OInv, NoPlan

\* The demands on a record do not change while the plan does not.
LEMMA SameDemand == ASSUME NEW r, plan' = plan PROVE ValidRow(r)' <=> ValidRow(r)
BY DEF ValidRow

LEMMA SameClock == ASSUME NEW f, now' = now PROVE Lately(f)' <=> Lately(f)
BY DEF Lately

\* Steps that change nothing that is saved.
LEMMA GoesOnOInv ==
    ASSUME TInv, OInv, OpGoesOn, now' = now, \A x \in zone' : x.id # 0,
           op'.step = "sealing" => (op.step = "sealing" /\ op'.next = op.next) \/ Observed(op'.next)
    PROVE  OInv'
<1>1. rows' = rows /\ plan' = plan
    BY DEF OpGoesOn, saved
<1>2. plan.prepared # 0 =>
          \A r \in Rows : ValidRow(rows[r])' /\ Lately(rows[r].create)' /\ Lately(rows[r].cleanup)'
    <2> SUFFICES ASSUME plan.prepared # 0, NEW r \in Rows
                 PROVE  ValidRow(rows[r])' /\ Lately(rows[r].create)' /\ Lately(rows[r].cleanup)'
        OBVIOUS
    <2>1. PICK v : v = rows[r]
        OBVIOUS
    <2>2. ValidRow(v) /\ Lately(v.create) /\ Lately(v.cleanup)
        BY <2>1 DEF OInv
    <2>3. ValidRow(v)' /\ Lately(v.create)' /\ Lately(v.cleanup)'
        BY <1>1, <2>2, SameDemand DEF Lately
    <2>4. rows'[r] = v
        BY <1>1, <2>1
    <2>5. QED
        BY <2>3, <2>4
<1>3. ASSUME op'.step # "idle" PROVE Running'
    <2>1. /\ op.step # "idle" /\ op'.row = op.row /\ op'.mode = op.mode
          /\ op'.cleanup = op.cleanup /\ op'.readOnly = op.readOnly
        BY <1>3 DEF OpGoesOn
    <2>2. Row' = Row /\ Phase' = Phase /\ PolicyLast' = PolicyLast
        BY <1>1, <2>1 DEF Row, Phase, PolicyLast
    <2>3. Running
        BY <2>1 DEF OInv
    <2>4. PICK f : f = Phase
        OBVIOUS
    <2>5. Attempted(f, op.mode) => Attempted(Phase, op.mode)'
        BY <2>1, <2>2, <2>4 DEF Attempted, Terminal
    <2>6. op'.step = "sealing" => Observed(op'.next)
        BY <2>3 DEF Running
    <2>7. op'.step = "sealing" => Observed(op.next)'
        BY <2>1, <2>2, <2>6 DEF Observed
    <2>8. QED
        BY <2>1, <2>2, <2>3, <2>4, <2>5, <2>7 DEF Running
<1>4. QED
    BY <1>1, <1>2, <1>3 DEF OInv

\* What the steps of the call observe.
LEMMA LooksObserved ==
    ASSUME TInv, Course, LInv, OInv,
           ListForCreate \/ ReadForCleanup \/ ConfirmMissing \/ Confirmed, op'.step = "sealing"
    PROVE  Observed(op'.next)
<1>1. /\ op \in OpType /\ Row \in RowType /\ now \in Nat /\ now # 0 /\ op.row \in Rows
    BY RowFacts DEF TInv, Ranges
<1>2. \A x \in zone : x.id # 0 /\ x.id \in Nat
    BY DEF OInv, TInv, Typed, ZoneType
<1>3. /\ op.step # "idle" /\ now >= PolicyLast
    BY DEF ListForCreate, ReadForCleanup, ConfirmMissing, Confirmed, Allowed
<1>4. ASSUME NEW n \in RowType, Seal(n), Observed(n) PROVE Observed(op'.next)
    BY <1>1, <1>4, SealFields
<1>5. ASSUME NEW s \in Steps \ {"sealing"}, Step(s) PROVE FALSE
    BY <1>1, <1>5, StepFields
<1>6. ASSUME Seal(Row) PROVE Observed(op'.next)
    BY <1>1, <1>4, <1>6 DEF Observed
<1>7. ASSUME NEW x \in zone, ~op.cleanup,
             Seal([Row EXCEPT !.state = "created", !.id = x.id, !.checked = now])
      PROVE  Observed(op'.next)
    <2> DEFINE n == [Row EXCEPT !.state = "created", !.id = x.id, !.checked = now]
    <2>1. /\ n \in RowType /\ n.state = "created" /\ n.id = x.id /\ n.checked = now
          /\ n.create = Row.create /\ n.cleanup = Row.cleanup
        BY <1>1, <1>2, SeenCreated
    <2> HIDE DEF n
    <2>2. Observed(n)
        BY <1>1, <1>2, <1>3, <1>7, <2>1 DEF Observed
    <2>3. Seal(n)
        BY <1>7 DEF n
    <2>4. QED
        BY <1>4, <2>1, <2>2, <2>3
<1>8. ASSUME NEW s \in RowStates,
             IF op.cleanup THEN s = "deleted" ELSE s = "borrowed" /\ ~op.readOnly,
             Seal([Row EXCEPT !.state = s, !.checked = now])
      PROVE  Observed(op'.next)
    <2> DEFINE n == [Row EXCEPT !.state = s, !.checked = now]
    <2>1. /\ n \in RowType /\ n.state = s /\ n.id = Row.id /\ n.checked = now
          /\ n.create = Row.create /\ n.cleanup = Row.cleanup
        BY <1>1, Seen
    <2> HIDE DEF n
    <2>2. Observed(n)
        BY <1>1, <1>3, <1>8, <2>1 DEF Observed
    <2>3. Seal(n)
        BY <1>8 DEF n
    <2>4. QED
        BY <1>4, <2>1, <2>2, <2>3
<1>9. "borrowed" \in RowStates /\ "deleted" \in RowStates
      /\ "clear" \in Steps \ {"sealing"} /\ "missing" \in Steps \ {"sealing"}
    BY DEF RowStates, Steps
<1>10. CASE ListForCreate
    <2>1. \/ Seal(Row) \/ Step("clear")
          \/ \E x \in zone : /\ ~op.cleanup
                             /\ Seal([Row EXCEPT !.state = "created", !.id = x.id, !.checked = now])
          \/ ~op.cleanup /\ ~op.readOnly /\ Seal([Row EXCEPT !.state = "borrowed", !.checked = now])
        BY <1>10 DEF ListForCreate, Matching
    <2>2. QED
        BY <1>5, <1>6, <1>7, <1>8, <1>9, <2>1
<1>11. CASE ReadForCleanup
    <2>1. Seal(Row) \/ Step("clear") \/ Step("missing")
        BY <1>11 DEF ReadForCleanup
    <2>2. QED
        BY <1>5, <1>6, <1>9, <2>1
<1>12. InFlight
    BY <1>3, AtWork
<1>13. CASE ConfirmMissing
    <2>1. op.cleanup /\ Seal([Row EXCEPT !.state = "deleted", !.checked = now])
        BY <1>12, <1>13 DEF ConfirmMissing, InFlight
    <2>2. QED
        BY <1>8, <1>9, <2>1
<1>14. CASE Confirmed
    <2>1. \/ \E x \in zone : /\ ~op.cleanup
                             /\ Seal([Row EXCEPT !.state = "created", !.id = x.id, !.checked = now])
          \/ op.cleanup /\ Seal([Row EXCEPT !.state = "deleted", !.checked = now])
        BY <1>12, <1>14 DEF Confirmed, InFlight, Matching
    <2>2. QED
        BY <1>7, <1>8, <1>9, <2>1
<1>15. QED
    BY <1>10, <1>11, <1>13, <1>14

LEMMA OpStepsOInv ==
    ASSUME TInv, Course, LInv, OInv,
           \/ ListForCreate \/ ReadForCleanup \/ ConfirmMissing \/ Send \/ Confirmed \/ Abandon
           \/ \E m \in wire : Handle(m) \/ Drop(m)
           \/ \E r \in Rows : OthersAdd(r)
           \/ \E x \in zone : OthersChange(x)
    PROVE  OInv'
<1>1. OpGoesOn /\ now' = now
    BY OpSteps
<1>2. /\ op \in OpType /\ ids \in Nat /\ zone \subseteq ZoneType
      /\ \A x \in zone : x.id # 0
    BY RowFacts DEF TInv, Typed, OInv
<1>3. CASE ListForCreate \/ ReadForCleanup \/ ConfirmMissing \/ Confirmed
    <2>1. zone' = zone
        BY <1>3 DEF ListForCreate, ReadForCleanup, ConfirmMissing, Confirmed, Step, Seal, remote
    <2>2. QED
        BY <1>1, <1>2, <1>3, <2>1, LooksObserved, GoesOnOInv
<1>4. CASE Send
    <2>1. zone' = zone /\ op'.step = "sent"
        BY <1>4, SendFields
    <2>2. QED
        BY <1>1, <1>2, <2>1, GoesOnOInv
<1>5. CASE Abandon
    <2>1. zone' = zone /\ op'.step = "idle"
        BY <1>5, IdleFields DEF Abandon, remote
    <2>2. QED
        BY <1>1, <1>2, <2>1, GoesOnOInv
<1>6. ASSUME NEW m \in wire, Handle(m) PROVE OInv'
    <2>1. op'.next = op.next /\ (op'.step = "sealing" => op.step = "sealing")
        BY <1>6, HandleFields
    <2>2. \A x \in zone' : x.id # 0
        BY <1>2, <1>6, HandleFields
    <2>3. QED
        BY <1>1, <2>1, <2>2, GoesOnOInv
<1>7. CASE \/ \E m \in wire : Drop(m)
           \/ \E r \in Rows : OthersAdd(r)
           \/ \E x \in zone : OthersChange(x)
    <2>1. op' = op
        BY <1>7 DEF Drop, OthersAdd, OthersChange
    <2>2. \A x \in zone : [x EXCEPT !.marked = FALSE].id # 0
        BY <1>2 DEF ZoneType
    <2>3. \A r \in Rows : [id |-> ids + 1, row |-> r, marked |-> FALSE, ours |-> FALSE].id # 0
        BY <1>2
    <2>4. \A x \in zone' : x.id # 0
        <3>1. CASE \E m \in wire : Drop(m)
            BY <1>2, <3>1 DEF Drop
        <3>2. CASE \E r \in Rows : OthersAdd(r)
            BY <1>2, <2>3, <3>2 DEF OthersAdd
        <3>3. CASE \E x \in zone : OthersChange(x)
            BY <1>2, <2>2, <3>3 DEF OthersChange
        <3>4. QED
            BY <1>7, <3>1, <3>2, <3>3
    <2>5. QED
        BY <1>1, <2>1, <2>4, GoesOnOInv
<1>8. QED
    BY <1>3, <1>4, <1>5, <1>6, <1>7

\* Steps that save one record, valid and behind the clock.
LEMMA SavedRowOInv ==
    ASSUME TInv, OInv, NEW r \in Rows, NEW n \in RowType, plan.prepared # 0,
           rows'[r] = n, \A s \in Rows \ {r} : rows'[s] = rows[s],
           ValidRow(n), Lately(n.create), Lately(n.cleanup),
           plan' = plan, now' = now, zone' = zone, op'.step # "idle" => Running'
    PROVE  OInv'
<1>1. ASSUME NEW s \in Rows
      PROVE  ValidRow(rows[s])' /\ Lately(rows[s].create)' /\ Lately(rows[s].cleanup)'
    <2>1. PICK v : v = rows'[s]
        OBVIOUS
    <2>2. ValidRow(v) /\ Lately(v.create) /\ Lately(v.cleanup)
        BY <2>1 DEF OInv
    <2>3. ValidRow(v)' /\ Lately(v.create)' /\ Lately(v.cleanup)'
        BY <2>2, SameDemand DEF Lately
    <2>4. QED
        BY <2>1, <2>3
<1>2. QED
    BY <1>1 DEF OInv

LEMMA BeginOInv ==
    ASSUME TInv, OInv, NEW r \in Rows, NEW mode \in Modes, Begin(r, mode)
    PROVE  OInv'
<1>1. /\ plan.prepared # 0 /\ plan' = plan /\ now' = now /\ zone' = zone
      /\ op'.step = "begun" /\ op'.row = r /\ op'.mode = mode
      /\ now \in Nat /\ ModeFits(rows[r], mode) /\ rows[r] \in RowType
    BY BeginEffect DEF remote, TInv, Typed
<1>2. PICK v \in RowType : v = rows[r]
    BY <1>1
<1>3. PICK n \in RowType : n = rows'[r]
    BY BegunRow
<1>4. /\ n.outcome = 0 /\ ValidRow(n) /\ \A s \in Rows \ {r} : rows'[s] = rows[s]
      /\ op'.cleanup = CleansUp(v, mode) /\ op'.readOnly = ReadsOnly(v)
      /\ IF op'.cleanup
         THEN v.state \in {"created", "deleting"} /\ n.create = v.create
              /\ n.cleanup \in Attempt(v.cleanup, mode)
         ELSE v.state \in {"new", "creating"} /\ n.cleanup = v.cleanup
              /\ n.create \in Attempt(v.create, mode)
    BY <1>2, <1>3, BegunRow
<1>5. /\ ValidRow(v) /\ Lately(v.create) /\ Lately(v.cleanup)
      /\ v.create \in PhaseType /\ v.cleanup \in PhaseType
    BY <1>1, <1>2 DEF OInv, RowType
<1>6. \A f \in {v.create, v.cleanup} : /\ f.again.attempts > 0 => f.retry.attempts = MaxAttempts
                                       /\ f.upkeep.attempts > 0 => Terminal(f)
    BY <1>5 DEF ValidRow, ValidMaintenance, ValidRecovery
<1>7. /\ Lately(n.create) /\ Lately(n.cleanup)
      /\ Attempted(IF op'.cleanup THEN n.cleanup ELSE n.create, mode)
    <2>1. CASE op'.cleanup
        <3>1. Attempted(n.cleanup, mode) /\ Lately(n.cleanup)
            BY <1>1, <1>4, <1>5, <1>6, <2>1, AttemptBegins
        <3>2. QED
            BY <1>4, <1>5, <2>1, <3>1
    <2>2. CASE ~op'.cleanup
        <3>1. Attempted(n.create, mode) /\ Lately(n.create)
            BY <1>1, <1>4, <1>5, <1>6, <2>2, AttemptBegins
        <3>2. QED
            BY <1>4, <1>5, <2>2, <3>1
    <2>3. QED
        BY <2>1, <2>2
<1>8. ~op'.cleanup /\ ~op'.readOnly => mode = "add"
    BY <1>1, <1>2, <1>4 DEF ReadsOnly, ModeFits
<1>9. Running'
    <2>1. Row' = n
        BY <1>1, <1>3 DEF Row
    <2>2. Phase' = IF op'.cleanup THEN n.cleanup ELSE n.create
        BY <2>1 DEF Phase
    <2>3. PICK g : g = IF op'.cleanup THEN n.cleanup ELSE n.create
        OBVIOUS
    <2>4. Attempted(g, mode)
        BY <1>7, <2>3
    <2>5. Attempted(Phase, op.mode)'
        BY <1>1, <2>2, <2>3, <2>4 DEF Attempted, Terminal
    <2>6. QED
        BY <1>1, <1>4, <1>8, <2>1, <2>5 DEF Running
<1>10. QED
    BY <1>1, <1>3, <1>4, <1>7, <1>9, SavedRowOInv

\* What the call has to work with.
LEMMA RunningFacts ==
    ASSUME TInv, Course, OInv, op.step # "idle"
    PROVE  /\ Row \in RowType /\ Phase \in PhaseType /\ now \in Nat /\ op.mode \in Modes
           /\ op.row \in Rows /\ Running /\ ValidRow(Row) /\ plan.prepared # 0
           /\ Lately(Row.create) /\ Lately(Row.cleanup)
           /\ Row.state = IF op.cleanup THEN "deleting" ELSE "creating"
           /\ Phase = IF op.cleanup THEN Row.cleanup ELSE Row.create
           /\ Attempted(Phase, op.mode)
           /\ ValidRetry(Phase.retry) /\ (Phase.again.attempts > 0 => ValidRetry(Phase.again))
<1>1. /\ Row \in RowType /\ Phase \in PhaseType /\ now \in Nat /\ op.row \in Rows
      /\ op.mode \in Modes /\ Running /\ Attempted(Phase, op.mode) /\ plan.prepared # 0
      /\ Row.state = IF op.cleanup THEN "deleting" ELSE "creating"
      /\ Phase = IF op.cleanup THEN Row.cleanup ELSE Row.create
    BY RowFacts DEF OpType, OInv, Course, Running, Phase
<1>2. ValidRow(Row) /\ Lately(Row.create) /\ Lately(Row.cleanup)
    BY <1>1 DEF OInv, Row
<1>3. ValidRetry(Phase.retry) /\ (Phase.again.attempts > 0 => ValidRetry(Phase.again))
    <2>1. CASE op.cleanup
        BY <1>1, <1>2, <2>1, CleanedValid DEF ValidRecovery
    <2>2. CASE ~op.cleanup
        BY <1>1, <1>2, <2>2, CreatingValid DEF ValidRecovery, Base
    <2>3. QED
        BY <2>1, <2>2
<1>4. QED
    BY <1>1, <1>2, <1>3

LEMMA FailValid ==
    ASSUME TInv, Course, OInv, op.step # "idle", NEW h \in HintType
    PROVE  LET n == Published(Row, Deferred(Phase, h))
           IN  /\ n \in RowType /\ ValidRow(n) /\ Lately(n.create) /\ Lately(n.cleanup)
<1> DEFINE f == Deferred(Phase, h)
           n == Published(Row, f)
<1>1. /\ Row \in RowType /\ Phase \in PhaseType /\ now \in Nat /\ op.mode \in Modes
      /\ ValidRow(Row) /\ Lately(Row.create) /\ Lately(Row.cleanup)
      /\ Row.state = IF op.cleanup THEN "deleting" ELSE "creating"
      /\ Phase = IF op.cleanup THEN Row.cleanup ELSE Row.create
    BY RunningFacts
<1>2. f \in PhaseType /\ Goes(Phase, f)
    BY <1>1, RunningFacts, DeferredFields, DeferredGoes
<1> HIDE DEF f
<1>3. /\ n \in RowType /\ n.state = Row.state /\ n.id = Row.id
      /\ n.checked = Row.checked /\ n.outcome = now
      /\ n.create = IF op.cleanup THEN Row.create ELSE f
      /\ n.cleanup = IF op.cleanup THEN f ELSE Row.cleanup
    BY <1>1, <1>2, PublishedFields
<1> HIDE DEF n
<1>4. Lately(Phase) => Lately(f)
    BY <1>2 DEF Goes, Lately
<1>5. CASE op.cleanup
    BY <1>1, <1>2, <1>3, <1>4, <1>5, DeletingGoes DEF f, n
<1>6. CASE ~op.cleanup
    BY <1>1, <1>2, <1>3, <1>4, <1>6, CreatingGoes DEF f, n
<1>7. QED
    BY <1>5, <1>6

LEMMA OutcomeValid ==
    ASSUME TInv, Course, OInv, op.step = "sealing"
    PROVE  Outcome \in RowType /\ ValidRow(Outcome) /\ Lately(Outcome.create) /\ Lately(Outcome.cleanup)
<1> DEFINE o == Outcome
           f == Receipt(Phase, op.next)
<1>1. /\ Row \in RowType /\ Phase \in PhaseType /\ now \in Nat /\ op.mode \in Modes
      /\ ValidRow(Row) /\ Lately(Row.create) /\ Lately(Row.cleanup)
      /\ Row.state = IF op.cleanup THEN "deleting" ELSE "creating"
      /\ Phase = IF op.cleanup THEN Row.cleanup ELSE Row.create
      /\ Attempted(Phase, op.mode)
    BY RunningFacts
<1>2. /\ o \in RowType /\ o.state = op.next.state /\ o.id = op.next.id
      /\ o.checked = op.next.checked /\ o.outcome = now /\ f \in PhaseType
      /\ o.create = IF op.cleanup THEN op.next.create ELSE f
      /\ o.cleanup = IF op.cleanup THEN f ELSE op.next.cleanup
    BY OutcomeFields
<1>3. op.next \in RowType /\ op.next.checked <= now
    BY RowFacts
<1>4. Observed(op.next) /\ (~op.cleanup /\ ~op.readOnly => op.mode = "add")
    BY RunningFacts DEF Running
<1>5. /\ o.create = IF op.cleanup THEN Row.create ELSE f
      /\ o.cleanup = IF op.cleanup THEN f ELSE Row.cleanup
    BY <1>2, <1>4 DEF Observed
<1>6. PolicyLast = LastOf(Phase, op.mode)
    BY DEF PolicyLast, LastOf
<1>7. CASE op.next = Row
    <2>1. Goes(Phase, f)
        BY <1>1, <1>3, <1>7, RunningFacts, ReceiptGoes
    <2>2. Lately(Phase) => Lately(f)
        BY <2>1 DEF Goes, Lately
    <2> HIDE DEF f, o
    <2>3. CASE op.cleanup
        BY <1>1, <1>2, <1>5, <1>7, <2>1, <2>2, <2>3, DeletingGoes DEF o
    <2>4. CASE ~op.cleanup
        BY <1>1, <1>2, <1>5, <1>7, <2>1, <2>2, <2>4, CreatingGoes DEF o
    <2>5. QED
        BY <2>3, <2>4
<1>8. CASE op.cleanup /\ op.next # Row
    <2>1. /\ op.next.state = "deleted" /\ op.next.id = Row.id
          /\ op.next.checked >= PolicyLast /\ op.next.checked # 0
        BY <1>4, <1>8 DEF Observed
    <2>2. Settles(Phase, f, op.next.checked)
        BY <1>1, <1>3, <1>8, <2>1, ReceiptSettles
    <2>3. Lately(Phase) => Lately(f)
        BY <2>2, SettlesLately
    <2> HIDE DEF f, o
    <2>4. QED
        BY <1>1, <1>2, <1>3, <1>5, <1>6, <1>8, <2>1, <2>2, <2>3, DeletingSettles DEF o
<1>9. CASE ~op.cleanup /\ op.next.state = "created" /\ op.next # Row
    <2>1. /\ op.next.id # 0 /\ op.next.checked >= PolicyLast /\ op.next.checked # 0
        BY <1>4, <1>9 DEF Observed
    <2>2. Settles(Phase, f, op.next.checked)
        BY <1>1, <1>3, <1>9, <2>1, ReceiptSettles
    <2>3. Lately(Phase) => Lately(f)
        BY <2>2, SettlesLately
    <2> HIDE DEF f, o
    <2>4. QED
        BY <1>1, <1>2, <1>3, <1>5, <1>6, <1>9, <2>1, <2>2, <2>3, CreatingSettles DEF o
<1>10. CASE ~op.cleanup /\ op.next.state # "created" /\ op.next # Row
    <2>1. /\ op.next.state = "borrowed" /\ op.next.id = Row.id /\ op.mode = "add"
          /\ op.next.checked >= PolicyLast /\ op.next.checked # 0
        BY <1>4, <1>10 DEF Observed
    <2>2. f = Phase
        BY <2>1 DEF Receipt
    <2>3. PolicyLast = Phase.retry.last
        BY <2>1 DEF PolicyLast
    <2> HIDE DEF f, o
    <2>4. QED
        BY <1>1, <1>2, <1>3, <1>5, <1>10, <2>1, <2>2, <2>3, CreatingBorrows DEF o
<1>11. QED
    BY <1>7, <1>8, <1>9, <1>10

LEMMA EndOInv ==
    ASSUME TInv, Course, OInv, (\E h \in Hints : FailCall(h)) \/ SaveOutcome PROVE OInv'
<1>1. ASSUME NEW n \in RowType, ValidRow(n), Lately(n.create), Lately(n.cleanup), op.step # "idle",
             rows' = [rows EXCEPT ![op.row] = n], op' = Idle, plan' = plan, now' = now, zone' = zone
      PROVE  OInv'
    <2>1. PICK r \in Rows : r = op.row
        BY RowFacts
    <2>2. rows'[r] = n /\ \A s \in Rows \ {r} : rows'[s] = rows[s]
        BY <1>1, <2>1 DEF TInv, Typed
    <2>3. op'.step = "idle" /\ plan.prepared # 0
        BY <1>1, IdleFields, RunningFacts
    <2>4. QED
        BY <1>1, <2>2, <2>3, SavedRowOInv
<1>2. ASSUME NEW h \in Hints, FailCall(h) PROVE OInv'
    <2> DEFINE n == Published(Row, Deferred(Phase, h))
    <2>1. /\ op.step # "idle" /\ h \in HintType /\ rows' = [rows EXCEPT ![op.row] = n] /\ op' = Idle
          /\ plan' = plan /\ now' = now /\ zone' = zone
        BY <1>2, FailFields DEF remote
    <2>2. n \in RowType /\ ValidRow(n) /\ Lately(n.create) /\ Lately(n.cleanup)
        BY <2>1, FailValid
    <2> HIDE DEF n
    <2>3. QED
        BY <1>1, <2>1, <2>2
<1>3. CASE SaveOutcome
    <2>1. /\ op.step = "sealing" /\ rows' = [rows EXCEPT ![op.row] = Outcome] /\ op' = Idle
          /\ plan' = plan /\ now' = now /\ zone' = zone
        BY <1>3 DEF SaveOutcome, remote
    <2>2. PICK n \in RowType : n = Outcome
        BY <2>1, OutcomeValid
    <2>3. ValidRow(n) /\ Lately(n.create) /\ Lately(n.cleanup)
        BY <2>1, <2>2, OutcomeValid
    <2>4. QED
        BY <1>1, <2>1, <2>2, <2>3
<1>4. QED
    BY <1>2, <1>3

LEMMA NextOInv == TInv /\ Course /\ LInv /\ OInv /\ [Next]_vars => OInv'
<1> SUFFICES ASSUME TInv, Course, LInv, OInv, [Next]_vars PROVE OInv'
    OBVIOUS
<1>1. CASE \/ Tick \/ SaveConfig \/ RemoveConfig \/ OrderReady \/ OrderValidated
           \/ UNCHANGED vars
    <2>1. /\ rows' = rows /\ plan' = plan /\ op' = op /\ zone' = zone
          /\ now' = now \/ now' = now + 1
        BY <1>1 DEF Tick, SaveConfig, RemoveConfig, OrderReady, OrderValidated, vars, saved, remote
    <2>2. ASSUME NEW f \in PhaseType, Lately(f) PROVE Lately(f)'
        BY <2>1, <2>2, RowFacts DEF Lately, PhaseType, RetryType, UpkeepType
    <2>3. ASSUME plan.prepared # 0, NEW r \in Rows
          PROVE  ValidRow(rows[r])' /\ Lately(rows[r].create)' /\ Lately(rows[r].cleanup)'
        <3>1. PICK v \in RowType : v = rows[r]
            BY DEF TInv, Typed
        <3>2. ValidRow(v) /\ Lately(v.create) /\ Lately(v.cleanup)
            BY <2>3, <3>1 DEF OInv
        <3>3. ValidRow(v)' /\ Lately(v.create)' /\ Lately(v.cleanup)'
            BY <2>1, <2>2, <3>2, SameDemand DEF RowType
        <3>4. QED
            BY <2>1, <3>1, <3>3
    <2>4. Running => Running'
        BY <2>1 DEF Running, Attempted, Terminal, Observed, PolicyLast, Phase, Row
    <2>5. QED
        BY <2>1, <2>3, <2>4 DEF OInv
<1>2. CASE CloseRequest
    BY <1>2 DEF CloseRequest, NoPlan, OInv, remote
<1>3. CASE Prepare
    <2>1. /\ rows' = [r \in Rows |-> NewRow] /\ zone' = zone /\ op' = op /\ op.step = "idle"
          /\ now' = now /\ now \in Nat
        BY <1>3, RowFacts DEF Prepare, remote
    <2>2. \A p, d : /\ ValidMaintenance(NewRow, NoPhase, p, d)'
                    /\ ValidRecovery(NewRow, NoPhase, p)'
        BY NoPhaseFields DEF ValidMaintenance, ValidRecovery
    <2>3. ValidRow(NewRow)'
        BY <2>2, NoPhaseFields, IdleFields DEF ValidRow
    <2>4. Lately(NewRow.create)' /\ Lately(NewRow.cleanup)'
        BY <2>1, NoPhaseFields DEF Lately
    <2>5. \A r \in Rows : rows'[r] = NewRow
        BY <2>1
    <2>6. QED
        BY <2>1, <2>3, <2>4, <2>5 DEF OInv
<1>4. QED
    BY <1>1, <1>2, <1>3, BeginOInv, OpStepsOInv, EndOInv DEF Next

LEMMA SpecOInv == Spec => []OInv
BY SpecTInv, SpecCourse, SpecLInv, InitOInv, NextOInv, PTL DEF Spec

\* What a permitted call observed can be saved, and so can the wait of a
\* failed one: the record passes what opening the image demands of it.
THEOREM SpecOutcomeSaveable == Spec => []OutcomeSaveable
<1>1. TInv /\ Course /\ OInv => OutcomeSaveable
    <2> SUFFICES ASSUME TInv, Course, OInv PROVE OutcomeSaveable
        OBVIOUS
    <2>1. op.step = "sealing" => ValidRow(Outcome)
        BY OutcomeValid
    <2>2. ASSUME op.step \notin {"idle", "sealing"}, NEW h \in Hints
          PROVE  ValidRow(Published(Row, Deferred(Phase, h)))
        <3>1. h \in HintType
            BY <2>2, RowFacts, HintsTyped
        <3>2. QED
            BY <2>2, <3>1, FailValid
    <2>3. QED
        BY <2>1, <2>2 DEF OutcomeSaveable
<1>2. QED
    BY <1>1, SpecTInv, SpecCourse, SpecOInv, PTL
=============================================================================
