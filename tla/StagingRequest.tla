--------------------------- MODULE StagingRequest ---------------------------
(***************************************************************************)
(* One certificate request of a Rootwell inventory, from the CA order to   *)
(* the saved pair and its deletion, and the closed requests behind it.     *)
(*                                                                         *)
(* The inventory is one encrypted image.  Every operation takes the access *)
(* writer lock, decodes the image, commits the intent of an irreversible   *)
(* outbound request BEFORE sending it, keeps the lock while the CA answers *)
(* and commits the result.  op is that operation in flight; every other    *)
(* image variable is durable.  A crash, a revoked permit, a lost answer or *)
(* a refused commit is Abandon: op is forgotten, the image is kept.        *)
(*                                                                         *)
(* A CA order URL stands for the order, for the private key prepared for   *)
(* it (one fresh key per order) and for the certificate issued from it.    *)
(* Stamps are in seconds, 0 standing for an empty stamp.  The account is   *)
(* registered before the first order.                                      *)
(***************************************************************************)
EXTENDS Naturals, Sequences, FiniteSets

CONSTANTS
    Urls,           \* order URLs the CA can hand out
    NoUrl,          \* the empty URL, the empty certificate fingerprint
    MaxTime,        \* the last second of the model's clock
    MaxClosed,      \* maxClosedRequests
    BackwardClock,  \* may the host's clock step back?
    Reimport        \* may a deleted issued certificate be imported again?

ASSUME ConstantsAssumption ==
    /\ NoUrl \notin Urls
    /\ MaxTime \in Nat \ {0}
    /\ MaxClosed \in Nat
    /\ BackwardClock \in BOOLEAN
    /\ Reimport \in BOOLEAN

VARIABLES
    now,        \* the clock of the host, time.Now()
    order,      \* ACMEOrders: the order of the current request
    request,    \* ACMECertificateRequests: its prepared key and CSR
    issuance,   \* ACMEIssuances: the finalize intent and its completion
    closed,     \* allClosedRequests: the scopes of the closed requests
    certs,      \* Records and Materials, per issued certificate
    op,         \* the operation that holds the writer lock
    ca,         \* the CA: the status of each order
    accepted,   \* challenge acceptances sent, per order
    finalized   \* finalize requests sent, per order

image == <<order, request, issuance, closed, certs>>
sent  == <<accepted, finalized>>
vars  == <<now, image, op, ca, sent>>

----------------------------------------------------------------------------
(* Types                                                                   *)

Stamp == 0 .. MaxTime + 1

Started == {"validation-pending", "validation-waiting", "validation-failed",
            "domain-verified"}

OrderStates == {"not-started", "request-pending", "order-known", "dns-ready",
                "dns-acknowledged"} \cup Started

CaStates == {"none", "pending", "ready", "processing", "valid", "invalid"}

Observations == {"", "pending", "ready", "processing", "invalid"}

Orders ==
    [state : OrderStates, url : Urls \cup {NoUrl}, source : Urls \cup {NoUrl},
     started : Stamp, expires : Stamp, checked : Stamp]

Requests ==
    [state : {"none", "key-prepared", "key-transferred"}, prepared : Stamp]

\* saved and deleted are the completion's SavedAt and DeletedAt; deletedAfter,
\* the number of requests closed before the deletion, is the position of
\* its generation among the ClosedGenerations.
Issuances ==
    [started : Stamp, observation : Observations, checked : Stamp,
     expires : Stamp, saved : Stamp, deleted : Stamp, deletedAfter : Nat]

Scopes ==
    [at : Stamp, reason : {"complete", "expired"},
     order : Orders, request : Requests, issuance : Issuances]

NoOrder == [state |-> "not-started", url |-> NoUrl, source |-> NoUrl,
            started |-> 0, expires |-> 0, checked |-> 0]

NoRequest == [state |-> "none", prepared |-> 0]

NoIssuance == [started |-> 0, observation |-> "", checked |-> 0, expires |-> 0,
               saved |-> 0, deleted |-> 0, deletedAfter |-> 0]

Idle == [kind |-> "idle", since |-> 0, url |-> NoUrl, answer |-> "none"]

OpKinds == {"idle", "order", "resume", "validate", "revalidate",
            "finalize", "fetch"}

Ops == [kind : OpKinds, since : 0 .. MaxTime, url : Urls \cup {NoUrl},
        answer : CaStates \cup {"accepted", "sent"}]

TypeOK ==
    /\ now \in 1 .. MaxTime
    /\ order \in Orders
    /\ request \in Requests
    /\ issuance \in Issuances
    /\ closed \in Seq(Scopes)
    /\ certs \in [Urls -> {"absent", "public", "pair"}]
    /\ op \in Ops
    /\ ca \in [Urls -> CaStates]
    /\ accepted \in [Urls -> Nat]
    /\ finalized \in [Urls -> Nat]

Init ==
    /\ now = 1
    /\ order = NoOrder
    /\ request = NoRequest
    /\ issuance = NoIssuance
    /\ closed = <<>>
    /\ certs = [u \in Urls |-> "absent"]
    /\ op = Idle
    /\ ca = [u \in Urls |-> "none"]
    /\ accepted = [u \in Urls |-> 0]
    /\ finalized = [u \in Urls |-> 0]

----------------------------------------------------------------------------
(* Authentication: what decode demands of an image.  A scope s is the      *)
(* current request or a closed one; k is the set of saved certificates.    *)

Lesser(a, b) == IF a <= b THEN a ELSE b

OrderAuthentic(o) ==
    CASE o.state \in {"not-started", "request-pending", "order-known"} ->
            o.expires = 0 /\ o.checked = 0
      [] o.state \in {"dns-ready", "dns-acknowledged", "validation-pending"} ->
            o.expires > o.started /\ o.checked = 0
      [] OTHER ->
            /\ o.expires > o.started
            /\ o.checked \in o.started .. o.expires - 1

RequestAuthentic(s) ==
    s.request.state /= "none" =>
        /\ s.order.state \in Started
        /\ s.request.prepared \in s.order.started .. s.order.expires - 1
        /\ s.request.state = "key-transferred" =>
               /\ s.issuance.started /= 0
               /\ certs[s.order.url] = "pair"

CompletionAuthentic(s) ==
    /\ s.order.state = "domain-verified"
    /\ s.order.checked <= s.issuance.started
    /\ s.issuance.observation = ""
    /\ s.issuance.saved \in s.issuance.started .. s.issuance.expires - 1
    /\ IF s.issuance.deleted /= 0
       THEN /\ s.issuance.saved <= s.issuance.deleted
            /\ s.request.state = "none"
            /\ certs[s.order.url] = "absent"
       ELSE /\ s.request.state = "key-transferred"
            /\ s.request.prepared <= s.issuance.started

IssuanceAuthentic(s) ==
    s.issuance.started /= 0 =>
        /\ s.issuance.expires \in s.issuance.started + 1 .. s.order.expires
        /\ IF s.issuance.saved /= 0
           THEN CompletionAuthentic(s)
           ELSE /\ s.order.state = "domain-verified"
                /\ s.request.state = "key-prepared"
                /\ s.request.prepared <= s.issuance.started
                /\ s.order.checked <= s.issuance.started
                /\ s.issuance.observation /= "" =>
                       s.issuance.checked \in
                           s.issuance.started .. s.issuance.expires - 1

ScopeAuthentic(s) ==
    /\ OrderAuthentic(s.order)
    /\ RequestAuthentic(s)
    /\ IssuanceAuthentic(s)

Current == [order |-> order, request |-> request, issuance |-> issuance]

\* The order's deadline, shortened by the issuance's own.
Deadline(s) == IF s.issuance.started = 0 THEN s.order.expires
               ELSE Lesser(s.order.expires, s.issuance.expires)

\* closeEligibility: is the clock at or past every stamp of the scope?
ClockAvailable(s, at) ==
    /\ s.order.started <= at
    /\ s.order.checked <= at
    /\ s.issuance.started <= at
    /\ s.issuance.checked <= at
    /\ s.issuance.saved <= at
    /\ s.issuance.deleted <= at

CloseReason(s, at) ==
    IF s.order.state = "not-started" THEN "not-started"
    ELSE IF s.order.url = NoUrl \/ s.order.expires = 0 THEN "unknown-order"
    ELSE IF ~ClockAvailable(s, at) THEN "clock-unavailable"
    ELSE IF s.issuance.saved /= 0 THEN "complete"
    ELSE IF Deadline(s) <= at THEN "expired"
    ELSE "active"

Deleted(s) == s.issuance.saved /= 0 /\ s.issuance.deleted /= 0

ClosedScopeAuthentic(i) ==
    LET s == closed[i] IN
    /\ ScopeAuthentic(s)
    /\ IF s.reason = "complete"
       THEN /\ s.issuance.saved /= 0
            /\ s.issuance.saved <= s.at
            /\ Deleted(s) =>
                   IF s.issuance.deletedAfter < i
                   THEN s.issuance.deleted <= s.at
                   ELSE s.at <= s.issuance.deleted
       ELSE CloseReason(s, s.at) = "expired"

\* A renewal is bound to an earlier closed request that saved its source, and
\* the source outlives the renewal: deleted only after that was closed, too.
BoundTo(o, i, at) ==
    o.source /= NoUrl =>
        \E j \in 1 .. i - 1 :
            LET a == closed[j] IN
            /\ a.issuance.saved /= 0
            /\ a.order.url = o.source
            /\ a.at <= o.started
            /\ Deleted(a) => /\ at /= 0
                             /\ at <= a.issuance.deleted
                             /\ i <= a.issuance.deletedAfter

ClosedUrls == {closed[i].order.url : i \in DOMAIN closed}

Authentic ==
    /\ ScopeAuthentic(Current)
    /\ order.url \notin ClosedUrls
    /\ \A i \in DOMAIN closed :
           /\ ClosedScopeAuthentic(i)
           /\ BoundTo(closed[i].order, i, closed[i].at)
           /\ \A j \in 1 .. i - 1 :
                  /\ closed[j].order.url /= closed[i].order.url
                  /\ closed[j].at <= closed[i].at
    /\ BoundTo(order, Len(closed) + 1, 0)
    /\ order.state /= "not-started" =>
           \A i \in DOMAIN closed : closed[i].at <= order.started

----------------------------------------------------------------------------
(* Mutants: plausible mistakes in the definitions below.  Each run finds its *)
(* properties violated once one of them takes the place of the original.     *)

\* An attempt whose first operation was lost accepts again.
RetryAccepts(state) ==
    CASE state \in {"dns-acknowledged", "validation-pending"} -> "validate"
      [] state \in Started -> "revalidate"
      [] OTHER -> "idle"

\* The CA's later answer extends the saved deadline.
VerdictExtends(expires) == now < expires

\* An intent without an observation may be finalized again.
LeaseUnlessObserved == IF issuance.observation = "" THEN "finalize" ELSE "fetch"

\* The intent is committed with the answer only.
NoIntent == NoIssuance

\* Deletion does not look at the open renewal.
NeverInUse(u) == FALSE

\* The deletion is recorded, the transferred request stays.
TombstoneKeepsRequest(s, u) ==
    IF s.issuance.saved /= 0 /\ s.order.url = u
    THEN [s EXCEPT !.issuance.deleted = now,
                   !.issuance.deletedAfter = Len(closed)]
    ELSE s

\* Deletion removes the closed request instead of marking it.
ClosedPruned(u) ==
    LET other(s) == s.issuance.saved = 0 \/ s.order.url /= u
    IN  SelectSeq(closed, other)

\* The closed order forgets what it renewed.
ClosedWithoutSource(reason) ==
    [at |-> now, reason |-> reason, order |-> [order EXCEPT !.source = NoUrl],
     request |-> request, issuance |-> issuance]

----------------------------------------------------------------------------
(* The clock, and the operation that holds the writer lock                 *)

Tick ==
    /\ now' \in IF BackwardClock THEN (1 .. MaxTime) \ {now}
                                 ELSE {now + 1} \cap (1 .. MaxTime)
    /\ UNCHANGED <<image, op, ca, sent>>

Unlocked == op.kind = "idle"

\* stagingProviderPermit: the permit lapses when the clock steps back.
Permitted == op.since <= now

Begin(kind, url) ==
    op' = [kind |-> kind, since |-> now, url |-> url, answer |-> "none"]

End == op' = Idle

\* The process crashes, the session ends, the answer is lost, or a commit is
\* refused or uncertain: nothing but the operation in flight is lost.
Abandon ==
    /\ ~Unlocked
    /\ End
    /\ UNCHANGED <<now, image, ca, sent>>

----------------------------------------------------------------------------
(* Placing an order                                                        *)

RenewalSource(u) ==
    \E i \in DOMAIN closed :
        /\ closed[i].order.url = u
        /\ closed[i].issuance.saved /= 0
        /\ closed[i].issuance.deleted = 0

\* BeginStagingOrder (source = NoUrl) and BeginStagingRenewal.
BeginOrder(source) ==
    /\ Unlocked
    /\ Authentic
    /\ order.state = "not-started"
    /\ Len(closed) < MaxClosed
    /\ source /= NoUrl => RenewalSource(source)
    /\ order' = [NoOrder EXCEPT !.state = "request-pending", !.source = source,
                                !.started = now]
    /\ Begin("order", NoUrl)
    /\ UNCHANGED <<now, request, issuance, closed, certs, ca, sent>>
    /\ Authentic'

\* The CA creates an order, or answers with one it holds for these names.
NewOrder(u) ==
    /\ op.kind = "order"
    /\ op.url = NoUrl
    /\ Permitted
    /\ ca[u] \in {"none", "pending", "ready"}
    /\ ca' \in IF ca[u] = "none"
               THEN {[ca EXCEPT ![u] = "pending"], [ca EXCEPT ![u] = "ready"]}
               ELSE {ca}
    /\ op' = [op EXCEPT !.url = u]
    /\ UNCHANGED <<now, image, sent>>

\* runStagingOrder's checkpoint: the URL is committed before the body is read.
Checkpoint ==
    /\ op.kind = "order"
    /\ op.url /= NoUrl
    /\ order.state = "request-pending"
    /\ Permitted
    /\ order' = [order EXCEPT !.state = "order-known", !.url = op.url]
    /\ UNCHANGED <<now, request, issuance, closed, certs, op, ca, sent>>
    /\ Authentic'

BeginResume ==
    /\ Unlocked
    /\ Authentic
    /\ order.state \in {"order-known", "dns-ready", "dns-acknowledged"}
    /\ Begin("resume", order.url)
    /\ UNCHANGED <<now, image, ca, sent>>

\* The answer's instructions replace the saved ones and their deadline.
FinishInstructions(expires) ==
    /\ op.kind \in {"order", "resume"}
    /\ order.state \in {"order-known", "dns-ready", "dns-acknowledged"}
    /\ ca[op.url] \in {"pending", "ready"}
    /\ Permitted
    /\ now < expires
    /\ order' = [order EXCEPT !.state = "dns-ready", !.expires = expires]
    /\ End
    /\ UNCHANGED <<now, request, issuance, closed, certs, ca, sent>>
    /\ Authentic'

Acknowledge ==
    /\ Unlocked
    /\ Authentic
    /\ order.state = "dns-ready"
    /\ now < order.expires
    /\ order' = [order EXCEPT !.state = "dns-acknowledged"]
    /\ UNCHANGED <<now, request, issuance, closed, certs, op, ca, sent>>
    /\ Authentic'

----------------------------------------------------------------------------
(* Validating the domain                                                   *)

\* Only an acknowledged order starts an operation that may accept challenges;
\* every later one is read-only.
ValidationKind(state) ==
    CASE state = "dns-acknowledged" -> "validate"
      [] state \in Started -> "revalidate"
      [] OTHER -> "idle"

BeginValidation ==
    /\ Unlocked
    /\ Authentic
    /\ ValidationKind(order.state) /= "idle"
    /\ issuance.started = 0
    /\ now < order.expires
    /\ order' = [order EXCEPT !.state = "validation-pending", !.checked = 0]
    /\ Begin(ValidationKind(order.state), order.url)
    /\ UNCHANGED <<now, request, issuance, closed, certs, ca, sent>>
    /\ Authentic'

\* GetOrder and GetAuthorization: the status the operation goes by from now on.
ReadStatus ==
    /\ op.kind \in {"validate", "revalidate", "fetch"}
    /\ op.answer = "none"
    /\ Permitted
    /\ op' = [op EXCEPT !.answer = ca[op.url]]
    /\ UNCHANGED <<now, image, ca, sent>>

\* client.Accept: the CA may now check the published DNS answers.
SendAccept ==
    /\ op.kind = "validate"
    /\ op.answer = "pending"
    /\ Permitted
    /\ op' = [op EXCEPT !.answer = "accepted"]
    /\ accepted' = [accepted EXCEPT ![op.url] = @ + 1]
    /\ UNCHANGED <<now, image, ca, finalized>>

ValidationState(answer) ==
    CASE answer \in {"pending", "accepted"} -> "validation-waiting"
      [] answer = "ready" -> "domain-verified"
      [] answer = "invalid" -> "validation-failed"

VerdictWindow(expires) == now < expires /\ expires <= order.expires

FinishValidation(expires) ==
    /\ op.kind \in {"validate", "revalidate"}
    /\ op.answer \in {"accepted", "pending", "ready", "invalid"}
    /\ op.kind = "validate" => op.answer /= "pending"
    /\ Permitted
    /\ order.state = "validation-pending"
    /\ VerdictWindow(expires)
    /\ order' = [order EXCEPT !.state = ValidationState(op.answer),
                              !.expires = expires, !.checked = now]
    /\ End
    /\ UNCHANGED <<now, request, issuance, closed, certs, ca, sent>>
    /\ Authentic'

----------------------------------------------------------------------------
(* Preparing the key, finalizing the order and saving the pair             *)

PrepareRequest ==
    /\ Unlocked
    /\ Authentic
    /\ order.state = "domain-verified"
    /\ order.checked <= now
    /\ now < order.expires
    /\ request.state = "none"
    /\ issuance.started = 0
    /\ request' = [state |-> "key-prepared", prepared |-> now]
    /\ UNCHANGED <<now, order, issuance, closed, certs, op, ca, sent>>
    /\ Authentic'

\* beginStagingIssuanceAt's conditions on a first attempt and on a refresh.
IssuanceWindow ==
    /\ request.state = "key-prepared"
    /\ order.state = "domain-verified"
    /\ issuance.saved = 0
    /\ order.checked <= now
    /\ request.prepared <= now
    /\ issuance.started <= now
    /\ issuance.checked <= now
    /\ now < Deadline(Current)

\* mintIssuanceAttempt: only the operation that writes the intent may finalize.
Lease == IF issuance.started = 0 THEN "finalize" ELSE "fetch"

\* The intent of a first attempt, in the image before anything is sent.
Intent == [NoIssuance EXCEPT !.started = now, !.expires = order.expires]

BeginIssuance ==
    /\ Unlocked
    /\ Authentic
    /\ IssuanceWindow
    /\ issuance.started = 0
    /\ issuance' = Intent
    /\ Begin(Lease, order.url)
    /\ UNCHANGED <<now, order, request, closed, certs, ca, sent>>
    /\ Authentic'

\* Every later attempt reads the same order and changes nothing before it.
BeginFetch ==
    /\ Unlocked
    /\ Authentic
    /\ IssuanceWindow
    /\ issuance.started /= 0
    /\ Begin(Lease, order.url)
    /\ UNCHANGED <<now, image, ca, sent>>

\* CreateOrderCert, after the order was read again and is ready.
SendFinalize ==
    /\ op.kind = "finalize"
    /\ op.answer = "none"
    /\ ca[op.url] = "ready"
    /\ Permitted
    /\ now < Deadline(Current)
    /\ op' = [op EXCEPT !.answer = "sent"]
    /\ finalized' = [finalized EXCEPT ![op.url] = @ + 1]
    /\ UNCHANGED <<now, image, ca, accepted>>

ReadFinalizeAnswer ==
    /\ op.kind = "finalize"
    /\ op.answer = "sent"
    /\ ca[op.url] \in {"processing", "valid"}
    /\ Permitted
    /\ op' = [op EXCEPT !.answer = ca[op.url]]
    /\ UNCHANGED <<now, image, ca, sent>>

\* The window in which the answer may still be committed: receipt.Expires.
ReceiptWindow(expires) ==
    /\ Permitted
    /\ issuance.started <= now
    /\ issuance.checked <= now
    /\ now < expires
    /\ expires <= Deadline(Current)

\* The statuses a first attempt and a later read may save.
Observable(kind) ==
    IF kind = "finalize" THEN {"processing"}
                         ELSE {"pending", "ready", "processing", "invalid"}

\* ConstrainStagingIssuance and ObserveStagingIssuance in one commit.
FinishObserve(expires) ==
    /\ op.kind \in {"finalize", "fetch"}
    /\ op.answer \in Observable(op.kind)
    /\ ReceiptWindow(expires)
    /\ issuance' = [issuance EXCEPT !.observation = op.answer, !.checked = now,
                                    !.expires = expires]
    /\ End
    /\ UNCHANGED <<now, order, request, closed, certs, ca, sent>>
    /\ Authentic'

\* FinishStagingIssuance: the pair is saved and its key moves into it.
FinishComplete(expires) ==
    /\ op.kind \in {"finalize", "fetch"}
    /\ op.answer = "valid"
    /\ ReceiptWindow(expires)
    /\ issuance.saved = 0
    /\ request.state = "key-prepared"
    /\ certs[op.url] = "absent"
    /\ certs' = [certs EXCEPT ![op.url] = "pair"]
    /\ request' = [request EXCEPT !.state = "key-transferred"]
    /\ issuance' = [issuance EXCEPT !.observation = "", !.checked = 0,
                                    !.expires = expires, !.saved = now]
    /\ End
    /\ UNCHANGED <<now, order, closed, ca, sent>>
    /\ Authentic'

----------------------------------------------------------------------------
(* Saved certificates and closed requests                                  *)

Tombstoned(u) ==
    \/ order.url = u /\ Deleted(Current)
    \/ \E i \in DOMAIN closed : closed[i].order.url = u /\ Deleted(closed[i])

\* Append: an issued certificate is public, anyone may import it.  The result
\* is committed without being decoded.
ImportCertificate(u) ==
    /\ Unlocked
    /\ Authentic
    /\ ca[u] = "valid"
    /\ certs[u] = "absent"
    /\ Reimport \/ ~Tombstoned(u)
    /\ certs' = [certs EXCEPT ![u] = "public"]
    /\ UNCHANGED <<now, order, request, issuance, closed, op, ca, sent>>

RenewalSourceInUse(u) == order.source = u

SavedBy(s, u) == s.issuance.saved /= 0 /\ s.order.url = u

\* deleteCompletion: s after the certificate of u has been removed.
Tombstone(s, u) ==
    IF SavedBy(s, u)
    THEN [s EXCEPT !.request = NoRequest,
                   !.issuance = [@ EXCEPT !.deleted = now,
                                          !.deletedAfter = Len(closed)]]
    ELSE s

\* deleteClosedCompletion, over every closed scope.
TombstoneClosed(u) == [i \in DOMAIN closed |-> Tombstone(closed[i], u)]

\* DeleteRecord: it, too, commits its result without decoding it.
DeleteRecord(u) ==
    /\ Unlocked
    /\ Authentic
    /\ certs[u] /= "absent"
    /\ ~RenewalSourceInUse(u)
    /\ SavedBy(Current, u) => issuance.saved <= now
    /\ \A i \in DOMAIN closed :
           SavedBy(closed[i], u) => closed[i].issuance.saved <= now
    /\ certs' = [certs EXCEPT ![u] = "absent"]
    /\ request' = Tombstone(Current, u).request
    /\ issuance' = Tombstone(Current, u).issuance
    /\ closed' = TombstoneClosed(u)
    /\ UNCHANGED <<now, order, op, ca, sent>>

ClosedScope(reason) ==
    [at |-> now, reason |-> reason, order |-> order, request |-> request,
     issuance |-> issuance]

CloseRequest ==
    /\ Unlocked
    /\ Authentic
    /\ Len(closed) < MaxClosed
    /\ \A i \in DOMAIN closed : closed[i].at <= now
    /\ LET reason == CloseReason(Current, now) IN
           /\ reason \in {"complete", "expired"}
           /\ closed' = Append(closed, ClosedScope(reason))
    /\ order' = NoOrder
    /\ request' = NoRequest
    /\ issuance' = NoIssuance
    /\ UNCHANGED <<now, certs, op, ca, sent>>
    /\ Authentic'

----------------------------------------------------------------------------
(* The CA: a finalize request may arrive long after its sender crashed     *)

Validate(u) ==
    /\ ca[u] = "pending"
    /\ accepted[u] > 0
    /\ ca' = [ca EXCEPT ![u] = "ready"]
    /\ UNCHANGED <<now, image, op, sent>>

FinalizeArrives(u) ==
    /\ ca[u] = "ready"
    /\ finalized[u] > 0
    /\ ca' \in {[ca EXCEPT ![u] = "processing"], [ca EXCEPT ![u] = "valid"]}
    /\ UNCHANGED <<now, image, op, sent>>

Issue(u) ==
    /\ ca[u] = "processing"
    /\ ca' = [ca EXCEPT ![u] = "valid"]
    /\ UNCHANGED <<now, image, op, sent>>

Reject(u) ==
    /\ ca[u] \in {"pending", "ready", "processing"}
    /\ ca' = [ca EXCEPT ![u] = "invalid"]
    /\ UNCHANGED <<now, image, op, sent>>

----------------------------------------------------------------------------

Next ==
    \/ Tick
    \/ Abandon
    \/ \E source \in Urls \cup {NoUrl} : BeginOrder(source)
    \/ \E u \in Urls : NewOrder(u)
    \/ Checkpoint
    \/ BeginResume
    \/ \E e \in Stamp : FinishInstructions(e)
    \/ Acknowledge
    \/ BeginValidation
    \/ ReadStatus
    \/ SendAccept
    \/ \E e \in Stamp : FinishValidation(e)
    \/ PrepareRequest
    \/ BeginIssuance
    \/ BeginFetch
    \/ SendFinalize
    \/ ReadFinalizeAnswer
    \/ \E e \in Stamp : FinishObserve(e)
    \/ \E e \in Stamp : FinishComplete(e)
    \/ \E u \in Urls : ImportCertificate(u)
    \/ \E u \in Urls : DeleteRecord(u)
    \/ CloseRequest
    \/ \E u \in Urls : Validate(u) \/ FinalizeArrives(u) \/ Issue(u) \/ Reject(u)

Spec == Init /\ [][Next]_vars

----------------------------------------------------------------------------
(* Properties                                                              *)

\* Whatever crashes, retries and late answers happen, an order's challenges
\* are accepted by one operation and its finalize request is sent once: only
\* the first acknowledged attempt accepts, only the first intent finalizes.
SingleAuthority ==
    \A u \in Urls : accepted[u] <= 1 /\ finalized[u] <= 1

Intended(u, s) == s.order.url = u /\ s.issuance.started /= 0

\* An order whose finalize request was sent is on record for ever, in the
\* current request or in a closed one: no crash between the commit of the
\* intent and the answer, and no closure, makes the program forget it.
IntentKept ==
    \A u \in Urls :
        finalized[u] > 0 =>
            \/ Intended(u, Current)
            \/ \E i \in DOMAIN closed : Intended(u, closed[i])

\* A finalize request leaves only while its own intent is the current one, its
\* domain verified, its key held and nothing saved: what BeginIssuance checked
\* still holds when SendFinalize acts on it.
FinalizeUnderIntent ==
    [][finalized' /= finalized =>
           /\ Intended(op.url, Current)
           /\ issuance.started <= now
           /\ issuance.saved = 0
           /\ order.state = "domain-verified"
           /\ request.state = "key-prepared"]_vars

KeyHolders(u) ==
    {i \in DOMAIN closed :
        closed[i].order.url = u /\ closed[i].request.state = "key-prepared"}
    \cup (IF order.url = u /\ request.state = "key-prepared"
          THEN {Len(closed) + 1} ELSE {})
    \cup (IF certs[u] = "pair" THEN {0} ELSE {})

\* The private key of an order moves, it is never copied nor lost: once its
\* certificate was asked for it is in exactly one of the current request, a
\* closed request or the saved pair, until the pair is deleted.
KeyHeldOnce ==
    \A u \in Urls :
        /\ Cardinality(KeyHolders(u)) <= 1
        /\ finalized[u] > 0 /\ ~Tombstoned(u) => KeyHolders(u) /= {}

\* An import of a certificate whose saved pair was deleted.
ImportsDeleted == \E u \in Urls : Tombstoned(u) /\ certs[u] = "absent" /\ certs'[u] = "public"

\* A deletion at a moment before one of the closures on record.
DeletesEarly ==
    \E i, j \in DOMAIN closed :
        ~Deleted(closed[i]) /\ Deleted(closed'[i]) /\ closed'[i].issuance.deleted < closed[j].at

\* The image on disk decodes: every scope, closed or current, authenticates
\* against the others and against the saved certificates.  No operation can
\* repair it, since each starts by decoding it.  Two steps do lose it, which
\* DeletionReadable and ImportReadable are about: a deletion after the clock was
\* stepped back and an import of a deleted certificate.  There is no other.
StaysReadable ==
    [][Authentic => Authentic' \/ ImportsDeleted \/ DeletesEarly]_vars

\* "later deletion preserves authenticated historical tombstones after closure"
\* (docs/SECURITY-INVARIANTS.md:2058): an image from which DeleteRecord removed
\* a certificate still decodes.
DeletionReadable ==
    [][(\E u \in Urls : certs[u] /= "absent" /\ certs'[u] = "absent")
           => Authentic']_vars

\* "explicit reimport after deletion" leaves a readable image
\* (internal/inventorystore/manifest_test.go:372-377).
ImportReadable ==
    [][(\E u \in Urls : certs[u] = "absent" /\ certs'[u] = "public")
           => Authentic']_vars

\* The certificate an open renewal replaces stays saved, with its key, until
\* the renewal is closed: neither the operator nor a second deletion of a
\* stale tab takes it away.
AnchorHeld == order.source /= NoUrl => certs[order.source] = "pair"

\* No private key that is still needed is lost or doubled.
Custody == KeyHeldOnce /\ AnchorHeld

\* completedRenewalSources: the certificates some completed renewal replaced.
Superseded ==
    {s.order.source : s \in {t \in {Current} \cup {closed[i] : i \in DOMAIN closed} :
                                t.issuance.saved /= 0}} \ {NoUrl}

\* A certificate once superseded stays superseded, through closure and through
\* the deletion of either pair: the evidence for its retirement is not lost.
SupersededKept == [][Superseded \subseteq Superseded']_vars

\* Closed requests are an append-only ledger.  The one change an entry ever
\* sees is its tombstone, which takes the key with it, and none after that.
ClosedKept ==
    [][/\ Len(closed) <= Len(closed')
       /\ \A i \in DOMAIN closed :
              LET s == closed[i]
                  t == closed'[i]
              IN  /\ s.order = t.order
                  /\ s.at = t.at
                  /\ s.issuance.started = t.issuance.started
                  /\ s.issuance.saved = t.issuance.saved
                  /\ s /= t => /\ ~Deleted(s) /\ Deleted(t)
                               /\ t.request.state = "none"]_vars

\* What the ledger says of the past is never taken back.
LedgerKept == ClosedKept /\ SupersededKept

\* From the first validation on, an order's deadline only narrows: no later
\* read of the CA, and no retry, extends the time a verdict or an intent is
\* good for.
DeadlineNarrows ==
    [][order.state \in Started /\ order'.url = order.url =>
           Deadline(Current)' <= Deadline(Current)]_vars

----------------------------------------------------------------------------
(* The abstract specification this one implements                          *)

StageOf(s, u) ==
    IF Deleted(s) THEN "deleted"
    ELSE IF s.issuance.saved /= 0 THEN "saved"
    ELSE IF finalized[u] > 0 THEN "spent"
    ELSE IF s.issuance.started = 0 THEN "located"
    ELSE IF op.kind = "finalize" THEN "leased"
    ELSE "forfeited"

Stage ==
    [u \in Urls |->
        IF u = order.url THEN StageOf(Current, u)
        ELSE IF \E i \in DOMAIN closed : closed[i].order.url = u
        THEN LET i == CHOOSE j \in DOMAIN closed : closed[j].order.url = u
             IN  IF closed[i].issuance.saved = 0 THEN "expired"
                 ELSE StageOf(closed[i], u)
        ELSE "unknown"]

Authority == INSTANCE IssuanceAuthority WITH stage <- Stage, active <- order.url

\* The flow implements IssuanceAuthority: one authority per order, spent or
\* forfeited once and for all, and one active order.
ImplementsAuthority == Authority!Spec
=============================================================================
