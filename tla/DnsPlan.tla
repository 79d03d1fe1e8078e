------------------------------- MODULE DnsPlan -------------------------------
(***************************************************************************)
(* The DNS plan of a certificate order: one challenge TXT record per       *)
(* domain, created and deleted at Cloudflare through operations that hold  *)
(* the writer lock, commit their intent before they call out and commit    *)
(* what they saw afterwards.  The provider, other users of the zone, and a *)
(* process that may die at any step interleave with them.                  *)
(*                                                                         *)
(* op is the operation in flight, forgotten by a crash; wire holds the     *)
(* mutations that left the host and that the provider has not handled yet, *)
(* however late.  order stands for what the plan reads of the order.       *)
(* Creation and cleanup of a record each carry the same policies, a Phase: *)
(* its attempts, the read-only attempts granted when those are used up     *)
(* (recovery) and the daily reads of an operator (maintenance).            *)
(***************************************************************************)
EXTENDS ProviderRetry, FiniteSets

CONSTANTS
    Rows,           \* the domains of the order that need a record
    MaxTime,        \* the last second of the model's clock
    Day, Week,      \* 24 h and MaxProviderWait, the maintenance delays
    MaxMaintenance, \* maxDNSMaintenance
    OrderLife,      \* seconds the CA gives an order
    MaxIds,         \* records the provider ever numbers
    MaxConfigs,     \* Cloudflare configurations ever saved
    Waits           \* Retry-After values the provider uses

ASSUME PlanAssumption ==
    /\ Rows # {}
    /\ MaxTime \in Nat \ {0} /\ Day \in Nat \ {0} /\ Week = MaxProviderWait
    /\ Day <= Week /\ OrderLife \in Nat /\ MaxMaintenance \in Nat
    /\ MaxIds \in Nat /\ MaxConfigs \in Nat
    /\ Waits \subseteq Nat

VARIABLES
    now,     \* the clock of the host
    config,  \* CloudflareConfigs: generation of the saved token, 0 = none
    configs, \* configurations saved so far
    order,   \* state and deadline of the current order
    started, \* has the one order of a behaviour been started?
    plan,    \* PreparedAt (0 = no plan), configuration and Expires
    rows,    \* the plan's records
    op,      \* the operation that holds the writer lock
    zone,    \* TXT records the provider holds
    ids,     \* record ids handed out so far
    wire,    \* mutations sent and not handled yet
    posts,   \* creations sent for a record of the current plan
    deletes, \* deletions sent for a record of the current plan
    asked    \* until when the saved answers of the provider ask to wait

saved  == <<config, configs, order, started, plan, rows>>
remote == <<zone, ids, wire>>
ghosts == <<posts, deletes, asked>>
vars   == <<now, saved, op, remote, ghosts>>

----------------------------------------------------------------------------
(* Saved records                                                           *)

Later(a, b) == IF a >= b THEN a ELSE b

NoMaintenance == [attempts |-> 0, last |-> 0, wait |-> 0, outcome |-> 0,
                  blocked |-> FALSE, resolved |-> FALSE]

NoPhase == [retry |-> NoRetry, blocked |-> FALSE,
            again |-> NoRetry, againBlocked |-> FALSE,
            upkeep |-> NoMaintenance]

NewRow == [state |-> "new", id |-> 0, checked |-> 0, outcome |-> 0,
           create |-> NoPhase, cleanup |-> NoPhase]

RowStates == {"new", "creating", "created", "borrowed", "deleting", "deleted"}

NoPlan == [prepared |-> 0, config |-> 0, expires |-> 0]

NoOrder == [state |-> "not-started", expires |-> 0]

\* A phase with no ordinary or recovery attempt left.
Terminal(f) ==
    \/ f.blocked
    \/ /\ f.retry.attempts = MaxAttempts
       /\ f.againBlocked \/ f.again.attempts = MaxAttempts

\* The first moment of a maintenance read of a terminal phase.
MaintenanceFloor(f) ==
    LET delay == IF f.blocked \/ f.againBlocked THEN Week ELSE Day
    IN  Later(Later(f.retry.wait, f.again.wait),
              Later(f.retry.last, f.again.last) + delay)

MaintenanceResolved(r, f) ==
    f.upkeep.resolved /\ f.upkeep.outcome # 0 /\ r.checked >= f.upkeep.last

ValidMaintenance(r, f, pending, done) ==
    LET m == f.upkeep
        gap == m.wait - m.last
    IN  m.attempts > 0 =>
            /\ Terminal(f)
            /\ m.attempts <= MaxMaintenance
            /\ m.last >= MaintenanceFloor(f)
            /\ gap >= Day /\ gap <= Week /\ (m.blocked => gap >= Week)
            /\ (m.outcome # 0 => m.outcome >= m.last)
            /\ IF m.resolved
               THEN done /\ ~m.blocked /\ m.outcome # 0 /\ r.checked >= m.outcome
               ELSE pending /\ m.outcome = r.outcome

ValidRecovery(r, f, pending) ==
    f.again.attempts > 0 =>
        /\ ValidRetry(f.again)
        /\ f.retry.attempts = MaxAttempts
        /\ f.again.last >= f.retry.wait
        /\ ~f.blocked
        /\ pending \/ /\ f.againBlocked => MaintenanceResolved(r, f)
                      /\ r.checked >= f.again.last

LastContact(r) ==
    LET last(f) == Later(f.again.last, f.upkeep.last)
    IN  Later(Later(last(r.create), last(r.cleanup)),
              IF r.cleanup.retry.attempts > 0 THEN r.cleanup.retry.last
                                              ELSE r.create.retry.last)

CheckedRow(r) == r.checked # 0 /\ r.checked >= r.create.retry.last

Unblocked(r, f) == f.blocked => MaintenanceResolved(r, f)

\* What opening the image demands of a record of the current plan.
ValidRow(r) ==
    /\ ValidRetry(r.create.retry)
    /\ ValidMaintenance(r, r.create, r.state = "creating",
                        r.state \in {"created", "deleting", "deleted"})
    /\ ValidMaintenance(r, r.cleanup, r.state = "deleting", r.state = "deleted")
    /\ ValidRecovery(r, r.create, r.state = "creating")
    /\ ValidRecovery(r, r.cleanup, r.state = "deleting")
    /\ r.create.again.attempts > 0 => r.state \notin {"new", "borrowed"}
    /\ r.cleanup.again.attempts > 0 => r.state \in {"deleting", "deleted"}
    /\ r.outcome # 0 => r.outcome >= LastContact(r)
    /\ r.state = "new" <=> r.create.retry.attempts = 0
    /\ r.state # "new" => r.create.retry.last >= plan.prepared
    /\ CASE r.state = "new" -> r = NewRow
         [] r.state = "creating" ->
                r.id = 0 /\ r.cleanup = NoPhase /\ r.checked = 0
         [] r.state = "borrowed" ->
                /\ CheckedRow(r) /\ r.outcome >= r.checked
                /\ ~r.create.blocked /\ r.id = 0 /\ r.cleanup = NoPhase
         [] r.state = "created" ->
                /\ CheckedRow(r) /\ r.outcome >= r.checked
                /\ Unblocked(r, r.create) /\ r.id # 0 /\ r.cleanup = NoPhase
         [] OTHER ->
                /\ CheckedRow(r) /\ Unblocked(r, r.create) /\ r.id # 0
                /\ r.cleanup.retry.attempts > 0 /\ ValidRetry(r.cleanup.retry)
                /\ r.cleanup.retry.last >= r.create.retry.last
                /\ IF r.state = "deleting"
                   THEN r.checked <= r.cleanup.retry.last
                   ELSE /\ Unblocked(r, r.cleanup)
                        /\ r.checked >= r.cleanup.retry.last
                        /\ r.outcome >= r.checked

\* A record whose plan cannot be closed: it still reserves events.
Owed(r) == r.state \in {"creating", "created", "deleting"}

----------------------------------------------------------------------------
Idle == [step |-> "idle", row |-> CHOOSE r \in Rows : TRUE, mode |-> "add",
         cleanup |-> FALSE, readOnly |-> FALSE, next |-> NewRow]

Modes == {"add", "check", "cleanup", "recover", "maintenance"}

Steps == {"idle", "begun", "missing", "clear", "sent", "created", "deleted",
          "sealing"}

TypeOK ==
    /\ now \in 1 .. MaxTime
    /\ config \in 0 .. MaxConfigs /\ configs \in 0 .. MaxConfigs
    /\ order.state \in {"not-started", "dns-ready", "validated"}
    /\ started \in BOOLEAN
    /\ plan.prepared \in Nat /\ plan.config \in Nat
    /\ DOMAIN rows = Rows
    /\ \A r \in Rows :
          /\ rows[r].state \in RowStates /\ rows[r].id \in 0 .. MaxIds
          /\ rows[r].checked \in 0 .. now /\ rows[r].outcome \in 0 .. now
    /\ op.step \in Steps /\ op.row \in Rows /\ op.mode \in Modes
    /\ posts \in [Rows -> Nat] /\ deletes \in [Rows -> Nat]
    /\ asked \in [Rows -> Nat] /\ ids \in 0 .. MaxIds

Init ==
    /\ now = 1
    /\ config = 0 /\ configs = 0
    /\ order = NoOrder /\ started = FALSE
    /\ plan = NoPlan
    /\ rows = [r \in Rows |-> NewRow]
    /\ op = Idle
    /\ zone = {} /\ ids = 0 /\ wire = {}
    /\ posts = [r \in Rows |-> 0]
    /\ deletes = [r \in Rows |-> 0]
    /\ asked = [r \in Rows |-> 0]

Tick == now < MaxTime /\ now' = now + 1 /\ UNCHANGED <<saved, op, remote, ghosts>>

----------------------------------------------------------------------------
(* The configuration and the order                                         *)

\* A token can be rotated at any time.
AlwaysChangeable == TRUE

\* Initial save is always possible; a saved token stays while an order does.
CanChange == config = 0 \/ order.state = "not-started"

SaveConfig ==
    /\ op.step = "idle" /\ CanChange
    /\ configs < MaxConfigs
    /\ configs' = configs + 1
    /\ config' = configs + 1
    /\ UNCHANGED <<now, order, started, plan, rows, op, remote, ghosts>>

RemoveConfig ==
    /\ op.step = "idle" /\ CanChange
    /\ config # 0
    /\ config' = 0
    /\ UNCHANGED <<now, configs, order, started, plan, rows, op, remote, ghosts>>

\* Finishing a new order, whose challenges are shown (dns-ready).  A second
\* order has other tokens and therefore other records: one is enough here.
OrderReady ==
    /\ op.step = "idle" /\ ~started
    /\ order' = [state |-> "dns-ready", expires |-> now + OrderLife]
    /\ started' = TRUE
    /\ UNCHANGED <<now, config, configs, plan, rows, op, remote, ghosts>>

\* Validation leaves dns-ready, and its answers only shorten the deadline.
OrderValidated ==
    /\ op.step = "idle" /\ order.state = "dns-ready"
    /\ \E e \in {order.expires, now + 1} :
           /\ now < e /\ e <= order.expires
           /\ order' = [state |-> "validated", expires |-> e]
    /\ UNCHANGED <<now, config, configs, started, plan, rows, op, remote, ghosts>>

\* The part of closing a request that concerns the plan: it is refused while
\* any record still reserves events, and takes the plan into the closed scope.
Closable == plan.prepared = 0 \/ \A r \in Rows : ~Owed(rows[r])

CloseRequest ==
    /\ op.step = "idle" /\ order.state # "not-started"
    /\ order.state = "validated" \/ now >= order.expires
    /\ Closable
    /\ order' = NoOrder
    /\ plan' = NoPlan
    /\ rows' = [r \in Rows |-> NewRow]
    /\ UNCHANGED <<now, config, configs, started, op, remote, ghosts>>

----------------------------------------------------------------------------
(* Operations on the plan                                                  *)

\* prepareStagingDNSPlan, the first commit of a mode "add" operation.
Prepare ==
    /\ op.step = "idle" /\ plan.prepared = 0
    /\ order.state = "dns-ready" /\ config # 0
    /\ now < order.expires
    /\ plan' = [prepared |-> now, config |-> config, expires |-> order.expires]
    /\ rows' = [r \in Rows |-> NewRow]
    /\ posts' = [r \in Rows |-> 0]
    /\ deletes' = [r \in Rows |-> 0]
    /\ asked' = [r \in Rows |-> 0]
    /\ UNCHANGED <<now, config, configs, order, started, op, remote>>

\* The order of the checks in beginDNSOperation: mode against state, clock,
\* deadline of a first creation, policy of the phase.
ModeFits(r, mode) ==
    CASE mode = "add" -> r.state \in {"new", "creating"}
      [] mode = "cleanup" -> r.state = "created"
      [] OTHER -> r.state \in {"creating", "deleting"}

CleansUp(r, mode) ==
    mode = "cleanup" \/ (mode # "add" /\ r.state = "deleting")

\* A retry of an unconfirmed creation may create again.
NeverReadsOnly(r) == FALSE

ReadsOnly(r) == r.state \in {"creating", "deleting"}

Deadline == IF plan.expires <= order.expires THEN plan.expires ELSE order.expires

InTime(r) ==
    /\ now >= Later(plan.prepared, Later(r.checked, r.outcome))
    /\ r.state = "new" => now < Deadline /\ order.state = "dns-ready"

\* The phase with one more attempt reserved, as the set of its outcomes.
OrdinaryAttempt(f) ==
    {[f EXCEPT !.retry = Reserve(f.retry, now, j)] :
        j \in {x \in 0 .. MaxJitter : ~f.blocked /\ Reservable(f.retry, now, x)}}

RecoverGranted(f) ==
    /\ ~f.blocked /\ f.retry.attempts = MaxAttempts
    /\ now >= f.retry.wait
    /\ ~f.againBlocked

RecoveryAttempt(f) ==
    {[f EXCEPT !.again = Reserve(f.again, now, j)] :
        j \in {x \in 0 .. MaxJitter :
                  RecoverGranted(f) /\ Reservable(f.again, now, x)}}

MaintenanceAttempt(f) ==
    {[f EXCEPT !.upkeep = [attempts |-> f.upkeep.attempts + 1, last |-> now,
                           wait |-> now + Day, outcome |-> 0,
                           blocked |-> FALSE, resolved |-> FALSE]] :
        x \in {y \in {f} :
                  /\ Terminal(f) /\ f.upkeep.attempts < MaxMaintenance
                  /\ now >= Later(MaintenanceFloor(f), f.upkeep.wait)}}

Attempt(f, mode) ==
    CASE mode = "recover" -> RecoveryAttempt(f)
      [] mode = "maintenance" -> MaintenanceAttempt(f)
      [] OTHER -> OrdinaryAttempt(f)

\* The committed intent: an ordinary attempt moves the record, any attempt
\* clears the outcome.
Reserved(r, mode, f) ==
    LET cleanup == CleansUp(r, mode)
        moved == IF mode \in {"recover", "maintenance"} THEN r.state
                 ELSE IF cleanup THEN "deleting" ELSE "creating"
        row == [r EXCEPT !.state = moved, !.outcome = 0]
    IN  IF cleanup THEN [row EXCEPT !.cleanup = f] ELSE [row EXCEPT !.create = f]

Begin(r, mode) ==
    LET row == rows[r]
        phase == IF CleansUp(row, mode) THEN row.cleanup ELSE row.create
    IN  /\ op.step = "idle" /\ plan.prepared # 0
        /\ ModeFits(row, mode)
        /\ InTime(row)
        /\ \E f \in Attempt(phase, mode) :
               /\ ValidRow(Reserved(row, mode, f))
               /\ rows' = [rows EXCEPT ![r] = Reserved(row, mode, f)]
        /\ op' = [step |-> "begun", row |-> r, mode |-> mode,
                  cleanup |-> CleansUp(row, mode), readOnly |-> ReadsOnly(row),
                  next |-> NewRow]
        /\ UNCHANGED <<now, config, configs, order, started, plan, remote, ghosts>>

----------------------------------------------------------------------------
(* The call, under the lock and under allowed()                            *)

Row == rows[op.row]

Phase == IF op.cleanup THEN Row.cleanup ELSE Row.create

PolicyLast ==
    CASE op.mode = "recover" -> Phase.again.last
      [] op.mode = "maintenance" -> Phase.upkeep.last
      [] OTHER -> Phase.retry.last

\* A first creation ends with the order; reads and cleanup outlive it.
Allowed ==
    /\ now >= PolicyLast
    /\ op.cleanup \/ op.readOnly \/ now < Deadline

\* Records of the zone under the plan's exact name and value.
Matching(r) == {x \in zone : x.row = r}

\* Any record of the same name and value is taken for ours.
OwnsAny(x) == TRUE

\* owns: the record carries this plan's owner marker.
Owns(x) == x.marked

Step(s) == op' = [op EXCEPT !.step = s] /\ UNCHANGED <<now, saved, remote, ghosts>>

Seal(row) ==
    /\ op' = [op EXCEPT !.step = "sealing", !.next = row]
    /\ UNCHANGED <<now, saved, remote, ghosts>>

\* Creation, or its read-only reconciliation, lists the exact records.
ListForCreate ==
    /\ op.step = "begun" /\ ~op.cleanup /\ Allowed
    /\ \/ /\ Matching(op.row) = {}
          /\ IF op.readOnly THEN Seal(Row) ELSE Step("clear")
       \/ \E x \in Matching(op.row) :
             /\ Matching(op.row) = {x}
             /\ IF op.readOnly
                THEN /\ Owns(x)
                     /\ Seal([Row EXCEPT !.state = "created", !.id = x.id,
                                         !.checked = now])
                ELSE /\ ~x.marked
                     /\ Seal([Row EXCEPT !.state = "borrowed", !.checked = now])

\* Cleanup reads the record by its id; a 404 may be wrong.
ReadForCleanup ==
    /\ op.step = "begun" /\ op.cleanup /\ Allowed
    /\ \/ Step("missing")
       \/ \E x \in zone :
             /\ x.id = Row.id /\ Owns(x)
             /\ IF op.readOnly THEN Seal(Row) ELSE Step("clear")

\* A bare 404 counts as absence.
DeletedOn404 ==
    /\ op.step = "missing" /\ Allowed
    /\ Seal([Row EXCEPT !.state = "deleted", !.checked = now])

\* The complete list must lack the record too before it counts as deleted.
ConfirmMissing ==
    /\ op.step = "missing" /\ Allowed
    /\ Cardinality(Matching(op.row)) <= 1
    /\ \A x \in Matching(op.row) : x.id # Row.id
    /\ Seal([Row EXCEPT !.state = "deleted", !.checked = now])

\* The only mutation of an operation: checkpoint, then POST or DELETE.
Send ==
    /\ op.step = "clear" /\ ~op.readOnly /\ Allowed
    /\ wire' = wire \cup {[kind |-> IF op.cleanup THEN "delete" ELSE "post",
                           row |-> op.row, id |-> Row.id]}
    /\ IF op.cleanup
       THEN deletes' = [deletes EXCEPT ![op.row] = @ + 1] /\ UNCHANGED posts
       ELSE posts' = [posts EXCEPT ![op.row] = @ + 1] /\ UNCHANGED deletes
    /\ op' = [op EXCEPT !.step = "sent"]
    /\ UNCHANGED <<now, saved, zone, ids, asked>>

\* The answer of a mutation that the provider handled in time.
Confirmed ==
    /\ Allowed
    /\ \/ /\ op.step = "created"
          /\ \E x \in Matching(op.row) :
                /\ x.id = ids /\ Owns(x)
                /\ Seal([Row EXCEPT !.state = "created", !.id = x.id,
                                    !.checked = now])
       \/ /\ op.step = "deleted"
          /\ Seal([Row EXCEPT !.state = "deleted", !.checked = now])

Hints == {NoHint, BadHint} \cup {RetryAfter(w, now) : w \in Waits}

\* What a failed call saves: only the policy of its own phase.
Deferred(f, h) ==
    CASE op.mode = "maintenance" ->
            LET last == f.upkeep.last
            IN  IF h.blocked \/ h.at > last + Week
                THEN [f EXCEPT !.upkeep.blocked = TRUE, !.upkeep.wait = last + Week,
                               !.upkeep.outcome = now]
                ELSE [f EXCEPT !.upkeep.wait = Later(@, h.at),
                               !.upkeep.outcome = now]
      [] op.mode = "recover" ->
            IF Refused(f.again, h) THEN [f EXCEPT !.againBlocked = TRUE]
                                   ELSE [f EXCEPT !.again = Lengthen(@, h)]
      [] OTHER ->
            IF Refused(f.retry, h) THEN [f EXCEPT !.blocked = TRUE]
                                   ELSE [f EXCEPT !.retry = Lengthen(@, h)]

\* The outcome is stamped with the next permitted moment.
PublishedAtWait(r, f) ==
    IF op.cleanup THEN [r EXCEPT !.cleanup = f, !.outcome = f.retry.wait]
                  ELSE [r EXCEPT !.create = f, !.outcome = f.retry.wait]

Published(r, f) ==
    IF op.cleanup THEN [r EXCEPT !.cleanup = f, !.outcome = now]
                  ELSE [r EXCEPT !.create = f, !.outcome = now]

\* The call fails, for a reason that says nothing of what it did.  The model
\* commits the wait at once: Deferred and OutcomeAt read the clock together.
FailCall(h) ==
    /\ op.step \in {"begun", "missing", "clear", "sent", "created", "deleted"}
    /\ Allowed
    /\ LET row == Published(Row, Deferred(Phase, h))
           honoured == PolicyLast + Week
           until == IF h.blocked \/ h.at > honoured THEN honoured ELSE h.at
       IN  /\ ValidRow(row)
           /\ rows' = [rows EXCEPT ![op.row] = row]
           /\ asked' = [asked EXCEPT ![op.row] = Later(@, until)]
    /\ op' = Idle
    /\ UNCHANGED <<now, config, configs, order, started, plan, remote, posts, deletes>>

\* The receipt is stamped when it is published.
ReceiptAtPublication(f, r) ==
    IF op.mode # "maintenance" THEN f
    ELSE [f EXCEPT !.upkeep.resolved = r.state = (IF op.cleanup THEN "deleted" ELSE "created"),
                   !.upkeep.outcome = now]

\* The receipt of a maintenance read is bound to the observation, not to the
\* later moment at which it is published.
Receipt(f, r) ==
    IF op.mode # "maintenance" THEN f
    ELSE LET done == r.state = (IF op.cleanup THEN "deleted" ELSE "created")
         IN  [f EXCEPT !.upkeep.resolved = done,
                       !.upkeep.outcome = IF done THEN r.checked ELSE now]

Outcome == Published(op.next, Receipt(Phase, op.next))

SaveOutcome ==
    /\ op.step = "sealing" /\ Allowed
    /\ ValidRow(Outcome)
    /\ rows' = [rows EXCEPT ![op.row] = Outcome]
    /\ op' = Idle
    /\ UNCHANGED <<now, config, configs, order, started, plan, remote, ghosts>>

\* The process dies, the session ends or the deadline passes during the call.
Abandon ==
    /\ op.step # "idle"
    /\ op' = Idle
    /\ UNCHANGED <<now, saved, remote, ghosts>>

----------------------------------------------------------------------------
(* The provider and other users of the zone                                *)

\* A mutation is handled at any time after it was sent, or never.  Another
\* user's record of the same name and value does not exclude a creation.
Handle(m) ==
    /\ wire' = wire \ {m}
    /\ IF m.kind = "post"
       THEN /\ ids < MaxIds /\ ids' = ids + 1
            /\ zone' = zone \cup {[id |-> ids + 1, row |-> m.row,
                                   marked |-> TRUE, ours |-> TRUE]}
       ELSE zone' = {x \in zone : x.id # m.id} /\ UNCHANGED ids
    /\ op' = IF op.step = "sent" /\ op.row = m.row
             THEN [op EXCEPT !.step = IF m.kind = "post" THEN "created" ELSE "deleted"]
             ELSE op
    /\ UNCHANGED <<now, saved, ghosts>>

Drop(m) ==
    /\ wire' = wire \ {m}
    /\ UNCHANGED <<now, saved, op, zone, ids, ghosts>>

\* Someone else adds the same record without our marker, removes any record
\* or edits the comment away.
OthersAdd(r) ==
    /\ order.state # "not-started" /\ ids < MaxIds
    /\ ids' = ids + 1
    /\ zone' = zone \cup {[id |-> ids + 1, row |-> r,
                           marked |-> FALSE, ours |-> FALSE]}
    /\ UNCHANGED <<now, saved, op, wire, ghosts>>

OthersChange(x) ==
    /\ \/ zone' = zone \ {x}
       \/ x.marked /\ zone' = (zone \ {x}) \cup {[x EXCEPT !.marked = FALSE]}
    /\ UNCHANGED <<now, saved, op, ids, wire, ghosts>>

----------------------------------------------------------------------------
Next ==
    \/ Tick
    \/ SaveConfig \/ RemoveConfig
    \/ OrderReady \/ OrderValidated \/ CloseRequest
    \/ Prepare
    \/ \E r \in Rows, mode \in Modes : Begin(r, mode)
    \/ ListForCreate \/ ReadForCleanup \/ ConfirmMissing
    \/ Send \/ Confirmed
    \/ \E h \in Hints : FailCall(h)
    \/ SaveOutcome \/ Abandon
    \/ \E m \in wire : Handle(m) \/ Drop(m)
    \/ \E r \in Rows : OthersAdd(r)
    \/ \E x \in zone : OthersChange(x)

Spec == Init /\ [][Next]_vars

----------------------------------------------------------------------------
(* Properties                                                              *)

\* A record is created at most once and deleted at most once over the life of
\* its plan, whatever crashes, lost answers and retries do: after the first
\* intent every attempt is read-only.
MutatedOnce == \A r \in Rows : posts[r] <= 1 /\ deletes[r] <= 1

\* A record this plan created, or may still create when a late request
\* arrives, is on file as one that is owed, and its plan has not been closed.
NeverLost ==
    \A r \in Rows :
        (\/ \E x \in zone : x.row = r /\ x.ours
         \/ \E m \in wire : m.row = r /\ m.kind = "post")
        => plan.prepared # 0 /\ Owed(rows[r])

\* A deletion on its way names no record that somebody else created, also
\* when an identical record of theirs was in the zone.
OnlyOwnDeleted ==
    \A m \in wire : m.kind = "delete" =>
        \A x \in zone : x.id = m.id => x.ours

\* The token a plan was prepared with stays saved as long as the plan is
\* current: otherwise the image would not open and nothing could be cleaned up.
TokenKept == plan.prepared # 0 => config # 0 /\ config = plan.config

\* While a record may be out there, the plan, its token and its row are on file.
PlanKept == TypeOK /\ NeverLost /\ TokenKept

\* Our mutations: one of each kind for each record, and only on what is ours.
Mutations == MutatedOnce /\ OnlyOwnDeleted

\* What a permitted call observed can be saved: the image with the outcome,
\* or with the wait of a failed call, passes the authentication that sealing
\* applies to it, although its stamps are read at different moments.
OutcomeSaveable ==
    Allowed =>
        /\ op.step = "sealing" => ValidRow(Outcome)
        /\ op.step \notin {"idle", "sealing"} =>
              \A h \in Hints : ValidRow(Published(Row, Deferred(Phase, h)))

\* No operation on a record begins before the moment until which a saved
\* answer of the provider asked to wait, in whatever mode it is made.
WaitRespected ==
    [][op.step = "idle" /\ op'.step = "begun" => now >= asked[op'.row]]_vars
===============================================================================
