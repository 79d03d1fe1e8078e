----------------------------- MODULE RenewalJob -----------------------------
(***************************************************************************)
(* The renewal job: it reads the saved state of a renewal, lets            *)
(* DecideRenewalCycle name the next action, runs that action as a store    *)
(* operation, and starts over, until the new pair is saved and the DNS     *)
(* records of the old challenge are gone.  Nothing of a job survives a     *)
(* restart but the saved state; the operator starts another.               *)
(*                                                                         *)
(* The stored state is seen as DecideRenewalCycle sees it: deadlines and   *)
(* waits are over or not.  An operation commits its intent, talks to the   *)
(* provider and commits the outcome; it may be cut off at every point.     *)
(***************************************************************************)
EXTENDS Naturals, FiniteSets

CONSTANTS
    Rows,         \* 1 .. n, the DNS records of an order's challenges
    MaxTries,     \* attempts per record and phase (6)
    ActionLimit,  \* actions of one job (160)
    PollLimit,    \* reads of a kind of one job (12)
    MaxRoom,      \* closures the request ledger takes before it is archived (64)
    MaxTroubles   \* times that something goes wrong

ASSUME JobAssumption ==
    /\ Rows \subseteq Nat /\ IsFiniteSet(Rows)
    /\ MaxTries \in Nat \ {0} /\ ActionLimit \in Nat \ {0} /\ PollLimit \in Nat \ {0}
    /\ MaxRoom \in Nat /\ MaxTroubles \in Nat

VARIABLES
    timing,     \* when to renew: its plan, and whether that time has come
    wait,       \* the CA's saved wait: over, not yet over, or a block without end
    order,      \* the order of the current request; mine if for this renewal
    expired,    \* its deadline is over
    rows,       \* the DNS plan, empty if there is none
    key,        \* the certificate key is prepared
    issuance,   \* how far issuance is
    superseded, \* a successor of the certificate was saved
    full,       \* the store has no room for another order's events
    room,       \* closures that the request ledger still takes
    lapsed,     \* the certificate to renew is no longer valid
    obstacles,  \* what else the operator has to settle first
    job,        \* the job and its counters
    op,         \* the action it runs
    ca,         \* the CA's side of the order, and what it was sent
    zone,       \* records of ours in the zone
    placed,     \* orders placed
    troubles    \* times that something went wrong

request == <<order, expired, rows, key, issuance, superseded>>
limits == <<full, room, lapsed, obstacles>>
saved == <<timing, wait, request, limits>>
remote == <<ca, zone, placed>>
jobVars == <<saved, job, op, remote, troubles>>

OrderStates == {"not-started", "request-pending", "order-known", "dns-ready",
                "dns-acknowledged", "validation-pending", "validation-waiting",
                "validation-failed", "domain-verified"}

IssuanceStates == {"not-started", "issuance-pending", "not-issued",
                   "awaiting-certificate", "issuance-failed", "certificate-saved"}

RowStates == {"new", "creating", "created", "borrowed", "deleting", "deleted"}

Waits == {"over", "held", "blocked"}

\* A reading of another certificate is not finished; no DNS credential is
\* saved; the one saved is for another zone.
Obstacles == {"other-work", "dns-unsaved", "other-zone"}

Polls == {"timing", "validation-read", "certificate-read"}

DnsMode == {"dns-add", "dns-check", "dns-cleanup"}

\* Actions that start an operation of the store.
Actions == Polls \cup DnsMode \cup
               {"close", "order", "order-read", "dns-plan", "ack", "validate", "key",
                "certificate"}

NoJob == [state |-> "none", actions |-> 0, polls |-> [p \in Polls |-> 0]]
NoOp == [action |-> "none", row |-> 0, step |-> "idle"]
NoOrder == [state |-> "not-started", mine |-> FALSE, required |-> FALSE]
NoCa == [order |-> "none", accepted |-> FALSE, finalized |-> FALSE]

JobTypeOK ==
    /\ timing \in [state : {"none", "pending", "ari", "error"}, due : BOOLEAN,
                   fresh : BOOLEAN]
    /\ wait \in Waits
    /\ order \in [state : OrderStates, mine : BOOLEAN, required : BOOLEAN]
    /\ expired \in BOOLEAN /\ key \in BOOLEAN /\ superseded \in BOOLEAN
    /\ DOMAIN rows \in {{}, Rows}
    /\ \A i \in DOMAIN rows : rows[i].state \in RowStates /\ rows[i].tries \in 0 .. MaxTries
    /\ issuance \in IssuanceStates
    /\ full \in BOOLEAN /\ room \in 0 .. MaxRoom /\ lapsed \in BOOLEAN
    /\ obstacles \subseteq Obstacles
    /\ job.state \in {"none", "waiting", "paused", "complete"}
    /\ job.actions \in 0 .. ActionLimit
    /\ job.polls \in [Polls -> 0 .. PollLimit]
    /\ op.action \in Actions \cup {"none"} /\ op.step \in {"idle", "begun", "sent"}
    /\ op.action # "none" => job.state = "waiting"
    /\ zone \subseteq Rows /\ placed \in Nat /\ troubles \in 0 .. MaxTroubles

\* The certificate to renew came from a request that is complete, closed or not.
JobInit ==
    /\ timing = [state |-> "none", due |-> FALSE, fresh |-> FALSE]
    /\ wait \in Waits
    /\ \/ order = NoOrder /\ issuance = "not-started" /\ key = FALSE
       \/ /\ order = [NoOrder EXCEPT !.state = "domain-verified"]
          /\ issuance = "certificate-saved" /\ key = TRUE
    /\ expired = FALSE /\ rows = <<>> /\ superseded = FALSE
    /\ full = FALSE /\ room \in 0 .. MaxRoom /\ lapsed = FALSE
    /\ obstacles \in {{}, {"other-work"}, {"dns-unsaved"}, {"other-zone"}}
    /\ job = NoJob /\ op = NoOp
    /\ ca = NoCa /\ zone = {} /\ placed = 0
    /\ troubles = 0

----------------------------------------------------------------------------
(* DecideRenewalCycle                                                      *)

Do(action) == [action |-> action, row |-> 0]

Bound == order.mine /\ order.state # "not-started"
Saved == Bound /\ issuance = "certificate-saved"

Owed(i) == rows[i].state \in {"creating", "created", "deleting"}

\* The request can be closed: it is complete, or its known deadline is over,
\* and no record is left in the zone.
Closable ==
    /\ \A i \in DOMAIN rows : ~Owed(i)
    /\ order.state \notin {"not-started", "request-pending", "order-known"}
    /\ issuance = "certificate-saved" \/ expired

\* The ledger has to take the closed request as well.
Available == Closable /\ room >= 1

\* The closures that a renewal still needs: its own, and first that of a
\* request which stands.
Needed == IF ~Bound /\ order.state # "not-started" THEN 2 ELSE 1

\* The waits and reads before a new order.
DecideOrder ==
    IF \/ room < Needed
       \/ order.state # "not-started" /\ ~Available
       \/ \E i \in DOMAIN rows : rows[i].state \notin {"borrowed", "deleted"}
    THEN Do("pause")
    ELSE IF wait # "over" THEN Do("wait")
    ELSE IF timing.state = "none" THEN Do("timing")
    ELSE IF timing.state # "ari" THEN Do("pause")
    ELSE IF ~timing.due THEN Do(IF timing.fresh THEN "wait" ELSE "timing")
    ELSE Do(IF order.state # "not-started" THEN "close" ELSE "order")

\* Mutant: a finished renewal only cleans up what it has begun to.
RowActionLeaves(i) ==
    LET s == rows[i].state IN
    IF Saved THEN IF s = "deleting" THEN "dns-check" ELSE "none"
    ELSE CASE s = "new" -> "dns-add"
           [] s = "creating" -> "dns-check"
           [] OTHER -> "none"

\* What a record needs next; "none" if nothing, "pause" if that is unclear.
RowAction(i) ==
    LET s == rows[i].state IN
    IF Saved
    THEN CASE s = "created" -> "dns-cleanup"
           [] s = "deleting" -> "dns-check"
           [] s \in {"borrowed", "deleted"} -> "none"
           [] OTHER -> "pause"
    ELSE CASE s = "new" /\ order.state \in {"dns-ready", "dns-acknowledged"} -> "dns-add"
           [] s = "creating" -> "dns-check"
           [] s \in {"created", "borrowed"} -> "none"
           [] OTHER -> "pause"

Exhausted(i) ==
    \/ RowAction(i) = "pause"
    \/ RowAction(i) # "none" /\ (rows[i].blocked \/ rows[i].tries >= MaxTries)

\* A wait of one record holds every other.
Held(need) == \E i \in need : rows[i].held

First(need) == CHOOSE i \in need : \A j \in need : i <= j

\* Mutant: a record without a wait goes ahead of one that waits.
RowsThenAround(rest) ==
    LET need == {i \in DOMAIN rows : RowAction(i) # "none"}
        able == {i \in need : ~rows[i].held} IN
    IF \E i \in DOMAIN rows : Exhausted(i) THEN Do("pause")
    ELSE IF able # {} THEN [action |-> RowAction(First(able)), row |-> First(able)]
    ELSE IF need # {} THEN Do("wait")
    ELSE rest

\* The records first, in their order; then what is left to do.
RowsThen(rest) ==
    LET need == {i \in DOMAIN rows : RowAction(i) # "none"} IN
    IF \E i \in DOMAIN rows : Exhausted(i) THEN Do("pause")
    ELSE IF Held(need) THEN Do("wait")
    ELSE IF need # {} THEN [action |-> RowAction(First(need)), row |-> First(need)]
    ELSE rest

AfterRows ==
    CASE Saved -> Do("complete")
      [] order.state = "dns-ready" /\ ~Saved -> Do("ack")
      [] order.state = "dns-acknowledged" /\ ~Saved -> Do("validate")
      [] order.state \in {"validation-pending", "validation-waiting"} /\ ~Saved ->
             Do("validation-read")
      [] order.state = "domain-verified" /\ ~Saved ->
             IF ~key THEN Do("key")
             ELSE IF issuance = "not-started" THEN Do("certificate")
             ELSE Do("certificate-read")
      [] OTHER -> Do("pause")

\* Mutant: the records of an order are not asked for before it goes on.
DecideRequestUnplanned ==
    IF \/ room < Needed \/ expired
       \/ order.state \in {"request-pending", "validation-failed"}
       \/ issuance = "issuance-failed"
    THEN Do("pause")
    ELSE IF wait # "over" THEN Do("wait")
    ELSE IF order.state = "order-known" THEN Do("order-read")
    ELSE RowsThen(AfterRows)

\* Mutant: a wait of the CA that is saved during a request is not looked at.
DecideRequestAtOnce ==
    IF \/ room < Needed \/ expired
       \/ order.state \in {"request-pending", "validation-failed"}
       \/ issuance = "issuance-failed"
    THEN Do("pause")
    ELSE IF order.state = "order-known" THEN Do("order-read")
    ELSE IF /\ order.required /\ DOMAIN rows = {}
            /\ order.state \in {"dns-ready", "dns-acknowledged"}
    THEN Do("dns-plan")
    ELSE RowsThen(AfterRows)

DecideRequest ==
    IF \/ room < Needed \/ expired
       \/ order.state \in {"request-pending", "validation-failed"}
       \/ issuance = "issuance-failed"
    THEN Do("pause")
    ELSE IF wait # "over" THEN Do("wait")
    ELSE IF order.state = "order-known" THEN Do("order-read")
    ELSE IF /\ order.required /\ DOMAIN rows = {}
            /\ order.state \in {"dns-ready", "dns-acknowledged"}
    THEN Do("dns-plan")
    ELSE RowsThen(AfterRows)

\* Mutant: the records of a finished renewal wait for the CA, too.
HinderedWhenBlocked ==
    \/ wait = "blocked"
    \/ ~Saved /\ (full \/ (~Bound /\ (lapsed \/ superseded)) \/ timing.state = "pending")

\* Mutant: a certificate that has a successor is renewed again.
HinderedUnlessSuperseded ==
    ~Saved /\ (full \/ (~Bound /\ lapsed) \/ timing.state = "pending" \/ wait = "blocked")

\* What pauses whatever comes next.  A finished renewal only cleans up, and
\* needs neither room nor the CA.
Hindered ==
    ~Saved /\ (full \/ (~Bound /\ (lapsed \/ superseded)) \/ timing.state = "pending"
                    \/ wait = "blocked")

DecideRenewalCycle ==
    IF obstacles # {} \/ Hindered THEN Do("pause")
    ELSE IF ~Bound THEN DecideOrder
    ELSE IF Saved THEN RowsThen(AfterRows)
    ELSE DecideRequest

----------------------------------------------------------------------------
(* The job                                                                 *)

Running == job.state = "waiting" /\ op = NoOp

\* newRenewalJob.
StartJob ==
    /\ job.state # "waiting"
    /\ DecideRenewalCycle.action \notin {"pause", "complete"}
    /\ job' = [NoJob EXCEPT !.state = "waiting"]
    /\ UNCHANGED <<saved, op, remote, troubles>>

\* The tick: the limits, then the decision.
PauseOrComplete ==
    /\ Running
    /\ LET d == DecideRenewalCycle IN
       \/ /\ job.actions >= ActionLimit \/ d.action = "pause"
             \/ (d.action \in Polls /\ job.polls[d.action] >= PollLimit)
          /\ job' = [job EXCEPT !.state = "paused"]
       \/ /\ job.actions < ActionLimit /\ d.action = "complete"
          /\ job' = [job EXCEPT !.state = "complete"]
    /\ UNCHANGED <<saved, op, remote, troubles>>

\* The action that the job may take now.
Chosen == IF Running /\ job.actions < ActionLimit THEN DecideRenewalCycle ELSE Do("none")

\* Mutant: reads are not counted against their own limit.
TakesUnlimited(action) ==
    /\ Chosen.action = action
    /\ job' = [job EXCEPT !.actions = @ + 1,
                          !.polls = [p \in Polls |-> IF p = action THEN @[p] + 1 ELSE @[p]]]

Takes(action) ==
    /\ Chosen.action = action
    /\ action \in Polls => job.polls[action] < PollLimit
    /\ job' = [job EXCEPT !.actions = @ + 1,
                          !.polls = [p \in Polls |-> IF p = action THEN @[p] + 1 ELSE @[p]]]

\* The intent is saved and the operation goes on.
Begin(action) ==
    /\ Takes(action)
    /\ op' = [action |-> action, row |-> Chosen.row, step |-> "begun"]

At(action, step) == op.action = action /\ op.step = step

Advance == op' = [op EXCEPT !.step = "sent"]
End == op' = NoOp

----------------------------------------------------------------------------
(* What the store's operations themselves demand                           *)

\* The credential of the order's zone is saved.
DnsReady == obstacles \subseteq {"other-work"}

AcceptsDns(mode, i) ==
    /\ i \in DOMAIN rows /\ DnsReady
    /\ ~rows[i].held /\ ~rows[i].blocked /\ rows[i].tries < MaxTries
    /\ CASE mode = "dns-add" ->
               /\ rows[i].state = "new" /\ ~expired
               /\ order.state \in {"dns-ready", "dns-acknowledged"}
         [] mode = "dns-cleanup" -> rows[i].state = "created"
         [] OTHER -> rows[i].state \in {"creating", "deleting"}

\* Validation and issuance exclude each other and end with the deadline.
AcceptsCa(action) ==
    /\ wait = "over"
    /\ CASE action = "timing" ->
               /\ timing.state # "pending" /\ ~timing.fresh
               /\ ~superseded /\ ~lapsed
         [] action = "order" -> order.state = "not-started" /\ room >= 1
         [] action = "order-read" ->
                order.state \in {"order-known", "dns-ready", "dns-acknowledged"}
         [] action = "validate" ->
                order.state = "dns-acknowledged" /\ issuance = "not-started" /\ ~expired
         [] action = "validation-read" ->
                /\ order.state \in {"validation-pending", "validation-waiting",
                                    "validation-failed", "domain-verified"}
                /\ issuance = "not-started" /\ ~expired
         [] action = "certificate" ->
                /\ order.state = "domain-verified" /\ key /\ ~expired
                /\ issuance = "not-started"
         [] action = "certificate-read" ->
                /\ issuance \in {"issuance-pending", "not-issued", "awaiting-certificate"}
                /\ ~expired

Accepts(d) ==
    CASE d.action \in DnsMode -> AcceptsDns(d.action, d.row)
      [] d.action = "close" -> Available
      [] d.action = "dns-plan" ->
             /\ order.state \in {"dns-ready", "dns-acknowledged"} /\ ~expired
             /\ order.required /\ DOMAIN rows = {} /\ DnsReady
      [] d.action = "ack" -> order.state = "dns-ready" /\ ~expired
      [] d.action = "key" ->
             /\ order.state = "domain-verified" /\ ~expired
             /\ ~key /\ issuance = "not-started"
      [] OTHER -> AcceptsCa(d.action)

----------------------------------------------------------------------------
(* When to renew                                                           *)

\* constrainStagingWait: an answer of the CA may ask for a wait, or for one
\* without end; what is saved is never taken back.
Constrained == IF wait = "over" THEN Waits ELSE {wait, "blocked"}

BeginTiming ==
    /\ Begin("timing") /\ AcceptsCa("timing")
    /\ timing' = [timing EXCEPT !.state = "pending", !.fresh = TRUE]
    /\ UNCHANGED <<wait, request, limits, remote, troubles>>

\* The CA names the time, or does not support that, which leaves the fallback.
\* A time that has come is not postponed (RenewalTiming!NeverPostponed).
Known == {[state |-> "ari", due |-> d, fresh |-> TRUE] : d \in {TRUE, timing.due}}

FinishTiming ==
    /\ At("timing", "begun") /\ End
    /\ timing' \in Known
    /\ UNCHANGED <<wait, job, request, limits, remote, troubles>>

----------------------------------------------------------------------------
(* The order                                                               *)

\* The current request is put aside with its order, plan, key and issuance.
Reset ==
    /\ order' = NoOrder /\ expired' = FALSE /\ rows' = <<>>
    /\ key' = FALSE /\ issuance' = "not-started"
    /\ ca' = NoCa
    /\ room' = room - 1
    /\ UNCHANGED <<timing, wait, superseded, full, lapsed, obstacles, zone, placed, troubles>>

CloseRequest == Takes("close") /\ Available /\ Reset /\ UNCHANGED op

BeginOrder ==
    /\ Begin("order") /\ AcceptsCa("order")
    /\ order' = [state |-> "request-pending", mine |-> TRUE, required |-> FALSE]
    /\ UNCHANGED <<timing, wait, expired, rows, key, issuance, superseded, limits,
                   remote, troubles>>

PlaceOrder ==
    /\ At("order", "begun") /\ Advance
    /\ ca' = [ca EXCEPT !.order = "pending"]
    /\ placed' = placed + 1
    /\ UNCHANGED <<saved, job, zone, troubles>>

\* The URL is saved before the instructions are read.
Checkpoint ==
    /\ At("order", "sent") /\ order.state = "request-pending"
    /\ order' = [order EXCEPT !.state = "order-known"]
    /\ UNCHANGED <<timing, wait, expired, rows, key, issuance, superseded, limits,
                   job, op, remote, troubles>>

BeginOrderRead ==
    /\ Begin("order-read") /\ AcceptsCa("order-read")
    /\ UNCHANGED <<saved, remote, troubles>>

\* A name that the CA validated before needs no record.
FinishOrder ==
    /\ \/ At("order", "sent")
       \/ At("order-read", "begun")
    /\ order.state = "order-known" /\ End
    /\ \E required \in BOOLEAN :
           order' = [order EXCEPT !.state = "dns-ready", !.required = required]
    /\ ca' = [ca EXCEPT !.order = IF order'.required THEN "pending" ELSE "ready"]
    /\ wait' \in Constrained
    /\ UNCHANGED <<timing, expired, rows, key, issuance, superseded, limits, job, zone,
                   placed, troubles>>

----------------------------------------------------------------------------
(* The records                                                             *)

NewRow == [state |-> "new", tries |-> 0, held |-> FALSE, blocked |-> FALSE]

PreparePlan ==
    /\ Takes("dns-plan") /\ Accepts(Do("dns-plan"))
    /\ rows' = [i \in Rows |-> NewRow]
    /\ UNCHANGED <<timing, wait, order, expired, key, issuance, superseded, limits, op,
                   remote, troubles>>

\* The attempt and the wait after it are saved first.
BeginDns(mode) ==
    /\ Begin(mode) /\ AcceptsDns(mode, Chosen.row)
    /\ rows' = [rows EXCEPT ![Chosen.row] =
                   [state |-> CASE mode = "dns-add" -> "creating"
                                [] mode = "dns-cleanup" -> "deleting"
                                [] OTHER -> @.state,
                    tries |-> @.tries + 1, held |-> TRUE, blocked |-> FALSE]]
    /\ UNCHANGED <<timing, wait, order, expired, key, issuance, superseded, limits,
                   remote, troubles>>

\* Only the first attempt of a phase changes the zone.
SendDns ==
    /\ op.action \in {"dns-add", "dns-cleanup"} /\ op.step = "begun" /\ Advance
    /\ zone' = IF op.action = "dns-add" THEN zone \cup {op.row} ELSE zone \ {op.row}
    /\ UNCHANGED <<saved, job, ca, placed, troubles>>

\* The record, or its absence, was seen; a phase that ends has no wait.
FinishDns ==
    /\ \/ op.action \in {"dns-add", "dns-cleanup"} /\ op.step = "sent"
       \/ op.action = "dns-check"
    /\ End
    /\ LET r == rows[op.row] IN
       rows' = CASE r.state = "creating" /\ op.row \in zone ->
                        [rows EXCEPT ![op.row] = [NewRow EXCEPT !.state = "created"]]
                 [] r.state = "deleting" /\ op.row \notin zone ->
                        [rows EXCEPT ![op.row] = [NewRow EXCEPT !.state = "deleted"]]
                 [] OTHER -> rows
    /\ UNCHANGED <<timing, wait, order, expired, key, issuance, superseded, limits, job,
                   remote, troubles>>

\* Someone else's record of that value is left alone, now and later.
Borrow ==
    /\ At("dns-add", "begun") /\ End
    /\ rows' = [rows EXCEPT ![op.row] = [NewRow EXCEPT !.state = "borrowed"]]
    /\ UNCHANGED <<timing, wait, order, expired, key, issuance, superseded, limits, job,
                   remote, troubles>>

----------------------------------------------------------------------------
(* Validation and issuance                                                 *)

Acknowledge ==
    /\ Takes("ack") /\ Accepts(Do("ack"))
    /\ order' = [order EXCEPT !.state = "dns-acknowledged"]
    /\ UNCHANGED <<timing, wait, expired, rows, key, issuance, superseded, limits, op,
                   remote, troubles>>

BeginValidation(action) ==
    /\ Begin(action) /\ AcceptsCa(action)
    /\ order' = [order EXCEPT !.state = "validation-pending"]
    /\ UNCHANGED <<timing, wait, expired, rows, key, issuance, superseded, limits, remote,
                   troubles>>

\* Only the operation that follows the acknowledgement accepts.
Accept ==
    /\ At("validate", "begun") /\ ca.order = "pending" /\ Advance
    /\ ca' = [ca EXCEPT !.accepted = TRUE]
    /\ UNCHANGED <<saved, job, zone, placed, troubles>>

FinishValidation ==
    /\ \/ op.action = "validate" /\ (op.step = "sent" \/ ca.order # "pending")
       \/ op.action = "validation-read"
    /\ End
    /\ order' = [order EXCEPT !.state =
                    CASE ca.order = "pending" -> "validation-waiting"
                      [] ca.order = "invalid" -> "validation-failed"
                      [] OTHER -> "domain-verified"]
    /\ wait' \in Constrained
    /\ UNCHANGED <<timing, expired, rows, key, issuance, superseded, limits, job, remote,
                   troubles>>

PrepareKey ==
    /\ Takes("key") /\ Accepts(Do("key"))
    /\ key' = TRUE
    /\ UNCHANGED <<timing, wait, order, expired, rows, issuance, superseded, limits, op,
                   remote, troubles>>

BeginCertificate(action) ==
    /\ Begin(action) /\ AcceptsCa(action)
    /\ issuance' = IF action = "certificate" THEN "issuance-pending" ELSE issuance
    /\ UNCHANGED <<timing, wait, order, expired, rows, key, superseded, limits, remote,
                   troubles>>

Finalize ==
    /\ At("certificate", "begun") /\ ca.order = "ready" /\ Advance
    /\ ca' = [ca EXCEPT !.finalized = TRUE]
    /\ UNCHANGED <<saved, job, zone, placed, troubles>>

FinishCertificate ==
    /\ At("certificate", "sent") \/ At("certificate-read", "begun")
    /\ End
    /\ issuance' = IF ca.order = "valid" THEN "certificate-saved"
                   ELSE IF ca.order = "invalid" THEN "issuance-failed"
                   ELSE IF ca.finalized THEN "awaiting-certificate"
                   ELSE "not-issued"
    /\ superseded' = (superseded \/ ca.order = "valid")
    /\ wait' \in Constrained
    /\ UNCHANGED <<timing, order, expired, rows, key, limits, job, remote, troubles>>

----------------------------------------------------------------------------
(* The CA, the passing of time, and the operator                           *)

CaValidates ==
    /\ ca.order = "pending" /\ ca.accepted
    /\ ca' = [ca EXCEPT !.order = "ready"]
    /\ UNCHANGED <<saved, job, op, zone, placed, troubles>>

CaIssues ==
    /\ ca.order = "ready" /\ ca.finalized
    /\ ca' = [ca EXCEPT !.order = "valid"]
    /\ UNCHANGED <<saved, job, op, zone, placed, troubles>>

\* Waits run out between operations; a block does not.
WaitOver ==
    /\ wait = "held" /\ op = NoOp
    /\ wait' = "over"
    /\ UNCHANGED <<timing, request, limits, job, op, remote, troubles>>

RowWaitOver(i) ==
    /\ i \in DOMAIN rows /\ rows[i].held /\ op = NoOp
    /\ rows' = [rows EXCEPT ![i].held = FALSE]
    /\ UNCHANGED <<timing, wait, order, expired, key, issuance, superseded, limits, job, op,
                   remote, troubles>>

ReadingDue ==
    /\ timing.fresh /\ op = NoOp
    /\ timing' = [timing EXCEPT !.fresh = FALSE]
    /\ UNCHANGED <<wait, request, limits, job, op, remote, troubles>>

RenewalDue ==
    /\ timing.state # "none" /\ ~timing.due
    /\ timing' = [timing EXCEPT !.due = TRUE]
    /\ UNCHANGED <<wait, request, limits, job, op, remote, troubles>>

\* Only an order that can no longer succeed gets old enough, or one that some
\* trouble made wait.
Stuck ==
    \/ order.state = "validation-failed" \/ issuance = "issuance-failed"
    \/ order.state \in {"validation-pending", "validation-waiting"} /\ ~ca.accepted
    \/ issuance # "not-started" /\ ~ca.finalized

Expires(cost) ==
    /\ ~expired /\ op = NoOp /\ issuance # "certificate-saved"
    /\ order.state \notin {"not-started", "request-pending", "order-known"}
    /\ expired' = TRUE
    /\ troubles' = troubles + cost
    /\ UNCHANGED <<timing, wait, order, rows, key, issuance, superseded, limits, job, op,
                   remote>>

ExpiresStuck == Stuck /\ Expires(0)

\* A commit of the operator makes the running job give up.
Yields == job' = IF job.state = "waiting" THEN [job EXCEPT !.state = "paused"] ELSE job

OperatorCloses ==
    /\ op = NoOp /\ Available /\ (Bound \/ obstacles # {})
    /\ Reset /\ Yields /\ UNCHANGED op

\* The interrupted reading is given up, and another made by hand.
OperatorReadsTiming ==
    /\ op = NoOp /\ timing.state \in {"pending", "error"} /\ ~timing.fresh
    /\ wait = "over" /\ ~superseded /\ ~lapsed
    /\ timing' \in Known
    /\ Yields
    /\ UNCHANGED <<wait, request, limits, op, remote, troubles>>

\* A saved credential is replaced only with no request; a first one always.
OperatorSettles(o) ==
    /\ op = NoOp /\ o \in obstacles
    /\ o = "other-zone" => order.state = "not-started"
    /\ obstacles' = obstacles \ {o}
    /\ Yields
    /\ UNCHANGED <<timing, wait, request, full, room, lapsed, op, remote, troubles>>

----------------------------------------------------------------------------
(* Troubles                                                                *)

Trouble == troubles < MaxTroubles /\ troubles' = troubles + 1

\* The process ends, or the session.
Crash ==
    /\ Trouble
    /\ job.state = "waiting"
    /\ job' = NoJob /\ End
    /\ UNCHANGED <<saved, remote>>

\* The provider fails or its answer is lost: the job pauses.  What the answer
\* said of later calls is saved, if that can be saved.
Fails ==
    /\ Trouble
    /\ op # NoOp
    /\ End /\ job' = [job EXCEPT !.state = "paused"]
    /\ IF op.action \in DnsMode
       THEN /\ \E b \in BOOLEAN : rows' = [rows EXCEPT ![op.row].blocked = b]
            /\ UNCHANGED wait
       ELSE wait' \in Constrained /\ UNCHANGED rows
    /\ timing' = IF op.action = "timing" THEN [timing EXCEPT !.state = "error"] ELSE timing
    /\ UNCHANGED <<order, expired, key, issuance, superseded, limits, remote>>

CaRefuses ==
    /\ Trouble
    /\ \/ ca.order = "pending" /\ ca.accepted
       \/ ca.order = "ready" /\ ca.finalized
    /\ ca' = [ca EXCEPT !.order = "invalid"]
    /\ UNCHANGED <<saved, job, op, zone, placed>>

ExpiresEarly == troubles < MaxTroubles /\ ~Stuck /\ Expires(1)

FillsUp ==
    /\ Trouble
    /\ ~full /\ full' = TRUE
    /\ UNCHANGED <<timing, wait, request, room, lapsed, obstacles, job, op, remote>>

\* The certificate to renew runs out before it is renewed.
Lapses ==
    /\ Trouble
    /\ op = NoOp /\ ~lapsed /\ lapsed' = TRUE
    /\ UNCHANGED <<timing, wait, request, full, room, obstacles, job, op, remote>>

\* The operator removes or replaces the credential, or a reading of another
\* certificate is cut off.
Obstructs(o) ==
    /\ Trouble
    /\ op = NoOp /\ o \notin obstacles
    /\ o # "other-work" => order.state = "not-started" /\ DnsReady
    /\ obstacles' = obstacles \cup {o}
    /\ Yields
    /\ UNCHANGED <<timing, wait, request, full, room, lapsed, op, remote>>

----------------------------------------------------------------------------
JobNext ==
    \/ StartJob \/ PauseOrComplete
    \/ BeginTiming \/ FinishTiming
    \/ CloseRequest \/ BeginOrder \/ PlaceOrder \/ Checkpoint \/ BeginOrderRead \/ FinishOrder
    \/ PreparePlan \/ (\E m \in DnsMode : BeginDns(m)) \/ SendDns \/ FinishDns \/ Borrow
    \/ Acknowledge \/ (\E a \in {"validate", "validation-read"} : BeginValidation(a))
    \/ Accept \/ FinishValidation
    \/ PrepareKey \/ (\E a \in {"certificate", "certificate-read"} : BeginCertificate(a))
    \/ Finalize \/ FinishCertificate
    \/ CaValidates \/ CaIssues \/ WaitOver \/ (\E i \in Rows : RowWaitOver(i))
    \/ ReadingDue \/ RenewalDue \/ ExpiresStuck \/ OperatorCloses \/ OperatorReadsTiming
    \/ Crash \/ Fails \/ CaRefuses \/ ExpiresEarly \/ FillsUp \/ Lapses
    \/ (\E o \in Obstacles : OperatorSettles(o) \/ Obstructs(o))

JobSpec == JobInit /\ [][JobNext]_jobVars

\* Every operation ends by its timeout and the job ticks every minute; the CA
\* answers in the end and time passes.  The operator restarts a job that
\* paused, closes what has expired or stands in the way of a credential, repeats
\* an interrupted reading and settles what else stands in the way.
Job ==
    \/ PauseOrComplete \/ CloseRequest \/ PreparePlan \/ Acknowledge \/ PrepareKey
    \/ BeginTiming \/ BeginOrder \/ BeginOrderRead
    \/ (\E m \in DnsMode : BeginDns(m))
    \/ (\E a \in {"validate", "validation-read"} : BeginValidation(a))
    \/ (\E a \in {"certificate", "certificate-read"} : BeginCertificate(a))
Operation ==
    \/ FinishTiming \/ PlaceOrder \/ Checkpoint \/ FinishOrder \/ SendDns \/ FinishDns
    \/ Accept \/ FinishValidation \/ Finalize \/ FinishCertificate

FairSpec ==
    /\ JobSpec
    /\ WF_jobVars(Job) /\ WF_jobVars(Operation)
    /\ WF_jobVars(CaValidates) /\ WF_jobVars(CaIssues)
    /\ WF_jobVars(WaitOver) /\ \A i \in Rows : WF_jobVars(RowWaitOver(i))
    /\ WF_jobVars(ReadingDue) /\ WF_jobVars(RenewalDue)
    /\ SF_jobVars(ExpiresStuck)  \* possible between any two operations
    /\ WF_jobVars(StartJob) /\ WF_jobVars(OperatorReadsTiming)
    /\ WF_jobVars((expired \/ obstacles # {}) /\ OperatorCloses)
    /\ \A o \in Obstacles : WF_jobVars(OperatorSettles(o))

----------------------------------------------------------------------------
(* Properties                                                              *)

\* What the decision proposes, the store's own checks accept: the job never
\* runs into a refusal that would pause it (tickRenewalJob).
ProposalAccepted == Chosen.action \in Actions => Accepts(Chosen)

\* The job reports completion, and a request is put aside, only when no record
\* of it is left in the zone.
CleanBeforeComplete == job.state = "complete" \/ DOMAIN rows = {} => zone = {}

\* The saved state is sound, and so is what a job that ended leaves behind.
JobState == JobTypeOK /\ CleanBeforeComplete

\* The CA is asked to look at the records only when each is in place
\* (DecideRenewalCycle puts the records before "ack" and "validate").
ReadyBeforeAccept ==
    [][~ca.accepted /\ ca'.accepted =>
           /\ order.required => DOMAIN rows = Rows
           /\ \A i \in DOMAIN rows : rows[i].state = "borrowed" \/ i \in zone]_jobVars

\* While one record waits for the DNS provider the job leaves the others
\* alone: "A saved hold must not be sidestepped by picking a different row".
HoldsAll ==
    [][op = NoOp /\ op'.action \in DnsMode => \A i \in DOMAIN rows : ~rows[i].held]_jobVars

\* A certificate gets one successor: however often the job is restarted, it
\* orders no other once the first is saved.
OneSuccessor == [][superseded => placed' = placed]_jobVars

\* The job's own bounds on what it asks of the providers.
JobSteps == ReadyBeforeAccept /\ HoldsAll /\ OneSuccessor

\* Only the operator can clear this up, and the store asks for nothing more by
\* itself: what became of an order or of a record is unknown, room has to be
\* made, the CA gave a block without end (nothing takes it back), or the
\* certificate ran out before its renewal was ordered.
Unclear ==
    /\ op = NoOp
    /\ \/ order.state = "request-pending" /\ order.mine
       \/ \E i \in DOMAIN rows : RowAction(i) # "none" /\ Exhausted(i) /\ ~expired
       \/ \E i \in DOMAIN rows : Owed(i) /\ expired
       \/ ~Saved /\ (full \/ wait = "blocked" \/ room < Needed)
       \/ ~Bound /\ lapsed

\* A renewal that goes on after every pause ends with the new pair saved and
\* the records gone, or at a point that only the operator can clear up.
Completes == <>((superseded /\ zone = {}) \/ Unclear)
=============================================================================
