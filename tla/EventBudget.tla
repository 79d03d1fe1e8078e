----------------------------- MODULE EventBudget -----------------------------
(***************************************************************************)
(* The bounds of an inventory image and what is held back from them.       *)
(* Every commit takes one generation and one history event, both of them   *)
(* finite, and an operation that has asked a provider for something        *)
(* irreversible must still be able to save the answer.  So addEvent keeps  *)
(* room for the answers that are owed, decode refuses an image without it, *)
(* and events and closed requests can be moved into archive pages.         *)
(*                                                                         *)
(* m is the image as these rules see it: counts, and which answers are     *)
(* owed.  What the operations do to anything else, when the clock allows   *)
(* them and what the providers say is StagingRequest, DnsPlan and          *)
(* RenewalTiming; here every one of their outcomes is possible.            *)
(***************************************************************************)
EXTENDS Naturals, FiniteSetsExt, SequencesExt

CONSTANTS
    Rows,               \* records of a DNS plan
    Certificates,       \* certificates with a timing plan
    MaxGeneration,      \* maxGeneration (1 000 000)
    MaxHistory,         \* maxHistory (1024)
    MinArchive,         \* minArchiveEvents (512)
    MaxArchives,        \* maxHistoryArchives (4)
    MaxRecords,         \* maxRecords (500)
    MaxClosed,          \* maxClosedRequests (32)
    MinClosed,          \* minClosedRequestArchive (16)
    MaxClosedPages,     \* maxClosedRequestArchives (4)
    MaxReserve,         \* what dnsTotalReserve ever holds back (256)
    MaxAttempts         \* providerretry.MaxAttempts (6)

\* In the code an archive page and the largest reserve fit in one history
\* (512 + 256 <= 1024), so archiving a page always makes room for it.
ASSUME BudgetAssumption ==
    /\ {MaxGeneration, MaxHistory, MaxArchives, MaxRecords, MaxClosed,
        MaxClosedPages, MaxReserve} \subseteq Nat
    /\ MinClosed \in 1 .. MaxClosed
    /\ {MaxGeneration, MaxAttempts} \subseteq Nat \ {0}
    /\ {MinArchive, MaxReserve} \subseteq Nat \ {0, 1}
    /\ MinArchive + MaxReserve <= MaxHistory
    /\ IsFiniteSet(Rows) /\ IsFiniteSet(Certificates)

VARIABLE m

----------------------------------------------------------------------------
(* The image                                                               *)

Registrations == {"none", "prepared", "pending", "registered"}

OrderStates == {"none", "request-pending", "order-known", "dns-ready",
                "dns-acknowledged", "validation-pending",
                "validation-waiting", "domain-verified"}

\* checks and cleanups count ordinary attempts; again and cleanedAgain those
\* of the recovery policies.  owed: the answer of the last attempt is not
\* saved (OutcomeAt is empty).
NoRow == [state |-> "none", owed |-> FALSE, checks |-> 0, again |-> 0,
          cleanups |-> 0, cleanedAgain |-> 0]

NewImage ==
    [generation |-> 1, history |-> 0, pages |-> <<>>, records |-> 0,
     closed |-> 0, closedPages |-> 0, registration |-> "none",
     order |-> "none", issuance |-> "none",
     row |-> [r \in Rows |-> NoRow], timing |-> {}]

----------------------------------------------------------------------------
(* What is held back                                                       *)

One(b) == IF b THEN 1 ELSE 0

Retries(n) == IF n = 0 THEN 0 ELSE 2 * (MaxAttempts - n)

\* A cleanup shares the slots of the checks.
SharedSlots(r) ==
    CASE r.state = "creating" -> One(r.owed) + 2 * (MaxAttempts - r.checks) + 1
      [] r.state = "created" -> 1
      [] r.state = "deleting" -> One(r.owed) + 2 * (MaxAttempts - r.cleanups) + 1
      [] OTHER -> 0

RowReserve(r) ==
    CASE r.state = "creating" ->
            One(r.owed) + 2 * (MaxAttempts - r.checks) + 2 * MaxAttempts + 1
                + Retries(r.again)
      [] r.state = "created" -> 2 * MaxAttempts + 1
      [] r.state = "deleting" ->
            One(r.owed) + 2 * (MaxAttempts - r.cleanups) + 1
                + Retries(r.cleanedAgain)
      [] OTHER -> 0

DnsPlanReserve(n) == SumFunction([d \in Rows |-> RowReserve(n.row[d])])

\* The instructions of an order are owed no event.
LocatedOnly(n) == One(n.order \in {"request-pending", "validation-pending"})

OrderReserve(n) ==
    CASE n.order = "request-pending" -> 2
      [] n.order \in {"order-known", "validation-pending"} -> 1
      [] OTHER -> 0

PendingIssuance(n) == n.issuance = "pending"

DnsTotalReserve(n) ==
    LET own == DnsPlanReserve(n) + Cardinality(n.timing)
    IN  IF own = 0 THEN 0
        ELSE own + One(n.registration = "pending") + OrderReserve(n)
                 + One(PendingIssuance(n))

\* How addEvent and decode leave room for r more events.
Room(n, r) ==
    /\ n.history < MaxHistory - r
    /\ n.generation + r <= MaxGeneration

\* A pending registration or issuance is given no slot of its own.
OrderRoom(n) ==
    /\ n.history < MaxHistory
    /\ OrderReserve(n) > 0 => Room(n, OrderReserve(n))
    /\ LET total == DnsTotalReserve(n)
       IN  total <= MaxReserve /\ (total > 0 => Room(n, total))

\* addEvent's conditions on n, whose generation is already the new one.
EventFits(n) ==
    /\ n.history < MaxHistory
    /\ n.registration = "pending" => Room(n, 1)
    /\ OrderReserve(n) > 0 => Room(n, OrderReserve(n))
    /\ PendingIssuance(n) => Room(n, 1) /\ n.records < MaxRecords
    /\ LET total == DnsTotalReserve(n)
       IN  total <= MaxReserve /\ (total > 0 => Room(n, total))

\* What decode demands of the numbers of an image.
Opens(n) ==
    /\ n.generation <= MaxGeneration /\ n.history <= MaxHistory
    /\ n.records <= MaxRecords
    /\ Len(n.pages) <= MaxArchives /\ (n.pages # <<>> => n.history > 0)
    /\ \A i \in DOMAIN n.pages : n.pages[i] \in MinArchive .. MaxHistory
    /\ n.history > 0 => n.generation = 1 + n.history + SumFunction(n.pages)
    /\ n.closed <= MaxClosed /\ n.closedPages <= MaxClosedPages
    /\ PendingIssuance(n) =>
           /\ n.records < MaxRecords /\ n.history < MaxHistory
           /\ n.generation < MaxGeneration
    /\ LET total == DnsTotalReserve(n)
       IN  /\ total <= MaxReserve
           /\ n.generation + total <= MaxGeneration
           /\ n.history + total <= MaxHistory

\* The image that commits the changes in n.
Next1(n) == [n EXCEPT !.generation = @ + 1]
Logged(n) == [Next1(n) EXCEPT !.history = @ + 1]

\* Every operation opens the image it has built before it gives it away.
Admitted(n) ==
    /\ n.generation < MaxGeneration
    /\ EventFits(Next1(n))
    /\ Opens(Logged(n))

Commit(n) == Admitted(n) /\ m' = Logged(n)

----------------------------------------------------------------------------
(* Account, order and issuance                                             *)

BudgetInit == m = NewImage

\* Owners, locations, keys, provider waits, configurations: one event each.
Edit == Commit(m)

Import == \E k \in 1 .. 2 :
    /\ m.records + k <= MaxRecords
    /\ Commit([m EXCEPT !.records = @ + k])

DeleteRecord == \E pending \in SUBSET m.timing :
    /\ m.records > 0 /\ Cardinality(pending) <= 1
    /\ Commit([m EXCEPT !.records = @ - 1, !.timing = @ \ pending])

PrepareAccount ==
    /\ m.registration = "none"
    /\ Commit([m EXCEPT !.registration = "prepared"])

BeginRegistration ==
    /\ m.registration = "prepared"
    /\ m.generation + 2 <= MaxGeneration /\ m.history + 2 <= MaxHistory
    /\ Commit([m EXCEPT !.registration = "pending"])

Registered(n) == [n EXCEPT !.registration = "registered"]

FinishRegistration ==
    /\ m.registration = "pending"
    /\ \/ Commit(Registered(m))
       \/ Commit([m EXCEPT !.registration = "prepared"])

\* Orders are started while the ledger of closed requests is full.
BeginOrderAnyway ==
    /\ m.registration = "registered" /\ m.order = "none"
    /\ m.generation + 3 <= MaxGeneration /\ m.history + 3 <= MaxHistory
    /\ Commit([m EXCEPT !.order = "request-pending"])

\* beginStagingOrderAt and BeginStagingRenewal.
BeginOrder ==
    /\ m.registration = "registered" /\ m.order = "none"
    /\ m.generation + 3 <= MaxGeneration /\ m.history + 3 <= MaxHistory
    /\ m.closed < MaxClosed
    /\ Commit([m EXCEPT !.order = "request-pending"])

Located(n) == [n EXCEPT !.order = "order-known"]
Instructed(n) == [n EXCEPT !.order = "dns-ready"]

UpdateOrder ==
    \/ m.order = "request-pending" /\ Commit(Located(m))
    \/ /\ m.order \in {"order-known", "dns-ready", "dns-acknowledged"}
       /\ Commit(Instructed(m))
    \/ /\ m.order = "dns-ready"
       /\ Commit([m EXCEPT !.order = "dns-acknowledged"])

BeginValidation ==
    /\ m.issuance = "none"
    /\ m.order \in {"dns-acknowledged", "validation-pending",
                    "validation-waiting", "domain-verified"}
    /\ m.generation + 2 <= MaxGeneration /\ m.history + 2 <= MaxHistory
    /\ Commit([m EXCEPT !.order = "validation-pending"])

Validated(n, state) == [n EXCEPT !.order = state]

FinishValidation ==
    /\ m.order = "validation-pending"
    /\ \E s \in {"validation-waiting", "domain-verified"} : Commit(Validated(m, s))

\* issuanceCapacity, then the intent; the final pair keeps its record slot.
IssuanceCapacity ==
    /\ m.generation + 2 <= MaxGeneration /\ m.history + 2 <= MaxHistory
    /\ m.records < MaxRecords

BeginIssuance ==
    /\ m.order = "domain-verified" /\ m.issuance = "none"
    /\ IssuanceCapacity
    /\ Commit([m EXCEPT !.issuance = "pending"])

\* An answer without a certificate never takes the last slots.
ObserveIssuance ==
    /\ PendingIssuance(m)
    /\ m.generation + 1 < MaxGeneration /\ m.history + 1 < MaxHistory
    /\ m.records < MaxRecords
    /\ Commit(m)

PairSaved(n) == [n EXCEPT !.issuance = "saved", !.records = @ + 1]

FinishIssuance ==
    /\ PendingIssuance(m)
    /\ m.history < MaxHistory /\ m.records < MaxRecords
    /\ Commit(PairSaved(m))

\* Complete, or expired with or without its issuance.
Closable ==
    /\ m.order \notin {"none", "request-pending", "order-known"}
    /\ \A d \in Rows : m.row[d].state \notin {"creating", "created", "deleting"}

CloseRequest ==
    /\ Closable
    /\ m.closed < MaxClosed /\ m.history < MaxHistory
    /\ Commit([m EXCEPT !.closed = @ + 1, !.order = "none",
                        !.issuance = "none", !.row = [d \in Rows |-> NoRow]])

----------------------------------------------------------------------------
(* DNS rows and renewal timing                                             *)

PrepareDns ==
    /\ m.order = "dns-ready" /\ \A d \in Rows : m.row[d] = NoRow
    /\ m.history < MaxHistory
    /\ Commit([m EXCEPT !.row = [d \in Rows |-> [NoRow EXCEPT !.state = "new"]]])

\* A check is granted however many there were.
CheckForEver(r) ==
    IF r.state \in {"new", "creating"}
    THEN {[r EXCEPT !.state = "creating", !.checks = @ + 1, !.owed = TRUE]}
    ELSE {}

\* Checks, cleanups and their recoveries: the attempts a row may reserve.
Check(r) ==
    IF r.state \in {"new", "creating"} /\ r.checks < MaxAttempts
    THEN {[r EXCEPT !.state = "creating", !.checks = @ + 1, !.owed = TRUE]}
    ELSE {}

Cleanup(r) ==
    IF r.state \in {"created", "deleting"} /\ r.cleanups < MaxAttempts
    THEN {[r EXCEPT !.state = "deleting", !.cleanups = @ + 1, !.owed = TRUE]}
    ELSE {}

Recovery(r) ==
    CASE r.state = "creating" /\ r.checks = MaxAttempts
                              /\ r.again < MaxAttempts ->
            {[r EXCEPT !.again = @ + 1, !.owed = TRUE]}
      [] r.state = "deleting" /\ r.cleanups = MaxAttempts
                              /\ r.cleanedAgain < MaxAttempts ->
            {[r EXCEPT !.cleanedAgain = @ + 1, !.owed = TRUE]}
      [] OTHER -> {}

Maintenance(r) ==
    IF \/ r.state = "creating" /\ r.checks = MaxAttempts
       \/ r.state = "deleting" /\ r.cleanups = MaxAttempts
    THEN {[r EXCEPT !.owed = TRUE]} ELSE {}

WithRow(n, d, r) == [n EXCEPT !.row[d] = r]

\* The attempt leaves room for itself and for everything owed after it.
CanBegin(d, r) ==
    LET n == WithRow(m, d, r)
        reserve == DnsTotalReserve(n)
    IN  /\ reserve <= MaxReserve
        /\ m.generation + reserve + 1 <= MaxGeneration
        /\ m.history + reserve + 1 <= MaxHistory
        /\ Admitted(n)

BeginDns == \E d \in Rows :
    \E r \in UNION {Check(m.row[d]), Cleanup(m.row[d]), Recovery(m.row[d]),
                    Maintenance(m.row[d])} :
        CanBegin(d, r) /\ m' = Logged(WithRow(m, d, r))

\* What the call of an attempt may have shown.
RowOutcomes(r) ==
    LET in(states) == {[r EXCEPT !.state = s, !.owed = FALSE] : s \in states}
    IN  IF ~r.owed THEN {}
        ELSE IF r.state = "creating" THEN in({"creating", "created", "borrowed"})
        ELSE in({"deleting", "deleted"})

FinishDns == \E d \in Rows : \E r \in RowOutcomes(m.row[d]) : Commit(WithRow(m, d, r))

BeginTiming == \E c \in Certificates \ m.timing :
    Commit([m EXCEPT !.timing = @ \cup {c}])

\* Observed, refused or interrupted.
TimingDone(n, c) == [n EXCEPT !.timing = @ \ {c}]

FinishTiming == \E c \in m.timing : Commit(TimingDone(m, c))

----------------------------------------------------------------------------
(* Archives                                                                *)

\* The history must be full before it may be archived.
FullOnly(n) ==
    /\ n.history >= MaxHistory /\ Len(n.pages) < MaxArchives
    /\ n.generation < MaxGeneration

CanArchive(n) ==
    /\ n.history >= MinArchive /\ Len(n.pages) < MaxArchives
    /\ n.generation < MaxGeneration

Archived(n) == [n EXCEPT !.pages = Append(@, n.history), !.history = 0]

ArchiveHistory == CanArchive(m) /\ Commit(Archived(m))

ArchiveClosedRequests ==
    /\ m.closed >= MinClosed /\ m.closedPages < MaxClosedPages
    /\ Commit([m EXCEPT !.closedPages = @ + 1, !.closed = 0])

----------------------------------------------------------------------------
(* What the status page offers                                             *)

\* Mutant: only the room that a DNS plan and timing reads share is counted.
SharedReserve(n) == DnsTotalReserve(n)

\* Answers that are owed outside of a DNS plan or timing read are added here.
EventsReserved(n) ==
    LET total == DnsTotalReserve(n)
    IN  IF total # 0 THEN total
        ELSE One(n.registration = "pending") + OrderReserve(n)
                 + One(PendingIssuance(n))

\* dnsAutomationState; a record under maintenance counts as unknown.
DnsState(n) ==
    LET in(states) == \E d \in Rows : n.row[d].state \in states
    IN  IF in({"creating", "deleting"}) THEN "unknown"
        ELSE IF in({"created"}) THEN "cleanup-needed"
        ELSE "none"

\* The request as it may be shown, at any hour: it may have expired.
RequestStates(n) ==
    LET closing == IF n.closed < MaxClosed /\ n.history < MaxHistory
                   THEN "close-needed" ELSE "capacity"
    IN  IF n.order = "none" THEN {IF n.closed < MaxClosed THEN "none" ELSE "capacity"}
        ELSE IF n.order \in {"request-pending", "order-known"} THEN {"unknown"}
        ELSE IF n.issuance = "saved" THEN {closing}
        ELSE {"active", closing}

\* A check takes an event and a generation, and so does its answer.
TimingOffered(n) ==
    /\ n.registration = "registered" /\ DnsState(n) = "none"
    /\ RequestStates(n) \cap {"none", "close-needed"} # {}
    /\ n.history + EventsReserved(n) + 2 <= MaxHistory
    /\ n.generation + EventsReserved(n) + 2 <= MaxGeneration

BudgetNext ==
    \/ Edit \/ Import \/ DeleteRecord
    \/ PrepareAccount \/ BeginRegistration \/ FinishRegistration
    \/ BeginOrder \/ UpdateOrder \/ BeginValidation \/ FinishValidation
    \/ BeginIssuance \/ ObserveIssuance \/ FinishIssuance \/ CloseRequest
    \/ PrepareDns \/ BeginDns \/ FinishDns \/ BeginTiming \/ FinishTiming
    \/ ArchiveHistory \/ ArchiveClosedRequests

BudgetSpec == BudgetInit /\ [][BudgetNext]_m

----------------------------------------------------------------------------
(* Properties                                                              *)

\* Every number of the image stays within what its codec reads back.
BudgetTypeOK ==
    /\ m.generation \in 1 .. MaxGeneration /\ m.history \in 0 .. MaxHistory
    /\ m.records \in 0 .. MaxRecords /\ m.closed \in 0 .. MaxClosed
    /\ m.pages \in SeqOf(MinArchive .. MaxHistory, MaxArchives)
    /\ m.closedPages \in 0 .. MaxClosedPages
    /\ m.registration \in Registrations /\ m.order \in OrderStates
    /\ m.issuance \in {"none", "pending", "saved"}
    /\ m.timing \subseteq Certificates
    /\ \A d \in Rows : {m.row[d].checks, m.row[d].again, m.row[d].cleanups,
                        m.row[d].cleanedAgain} \subseteq 0 .. MaxAttempts

\* The images that save an answer a provider may already have given.
Answers ==
    UNION {
        IF m.registration = "pending" THEN {Registered(m)} ELSE {},
        CASE m.order = "request-pending" -> {Located(m)}
          [] m.order = "order-known" -> {Instructed(m)}
          [] m.order = "validation-pending" -> {Validated(m, "domain-verified")}
          [] OTHER -> {},
        IF PendingIssuance(m) THEN {PairSaved(m)} ELSE {},
        {TimingDone(m, c) : c \in m.timing},
        UNION {{WithRow(m, d, r) : r \in RowOutcomes(m.row[d])} : d \in Rows}}

\* Whatever else was committed in between, the answer of a registration, an
\* order, a validation, a finalization, a DNS attempt or a timing read that
\* is owed can still be saved: it fits the history, the generations, the
\* record table, and the image it makes opens.
AnswerFits == \A n \in Answers : Admitted(n)

\* A record that was or may have been created can be checked and cleaned up
\* to the last of its ordinary attempts: "No shared slots" (dns_plan.go:245).
CleanupFits ==
    \A d \in Rows : \A r \in Check(m.row[d]) \cup Cleanup(m.row[d]) :
        m.row[d].state # "new" => CanBegin(d, r)

\* An order that was started finds a slot in the ledger when it is closed.
ClosingFits == m.order # "none" => m.closed < MaxClosed

\* What is owed always finds its place.
OwedFits == BudgetTypeOK /\ AnswerFits /\ CleanupFits /\ ClosingFits

\* When an edit is refused for want of events, and a page and generations
\* are left, archiving is allowed and makes it fit.
ArchiveHelps ==
    LET stuck == /\ ~EventFits(Next1(m))
                 /\ Len(m.pages) < MaxArchives
                 /\ m.generation + 2 + MaxReserve <= MaxGeneration
    IN  stuck => CanArchive(m) /\ EventFits(Next1(Logged(Archived(m))))

\* A timing read that the page offers is not refused for want of room, though
\* the page and the writer count what is held back each in their own way
\* (while less than MaxReserve is held back: that limit the page ignores).
OfferedStarts ==
    \A c \in Certificates \ m.timing :
        TimingOffered(m) /\ EventsReserved(m) < MaxReserve
            => Admitted([m EXCEPT !.timing = @ \cup {c}])
===============================================================================
