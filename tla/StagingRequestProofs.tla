------------------------- MODULE StagingRequestProofs -------------------------
(***************************************************************************)
(* Theorems about StagingRequest, for every number of orders, every clock  *)
(* (stepping back or not) and every history of imports.  Three invariants: *)
(* IInv, what has been sent; CustodyInv, where each key is; AnswerInv, what*)
(* the CA can have answered.  The last part is the refinement of           *)
(* IssuanceAuthority, which needs all three.                               *)
(***************************************************************************)
EXTENDS StagingRequest, FiniteSetTheorems, TLAPS

Placed == order.url \in Urls

\* What the operation in flight relies on while it holds the writer lock.
OpInv ==
    /\ op.kind \in {"validate", "revalidate"} =>
           /\ Placed
           /\ op.url = order.url
           /\ order.state \in Started
           /\ issuance.started = 0
    /\ op.kind \in {"finalize", "fetch"} =>
           /\ Placed
           /\ op.url = order.url
           /\ issuance.started /= 0
           /\ issuance.saved = 0
           /\ order.state = "domain-verified"
           /\ request.state = "key-prepared"
    /\ op.kind = "finalize" => issuance.started = op.since
    /\ op.kind = "resume" => op.url \in Urls
    /\ op.kind = "finalize" /\ op.answer = "none" => finalized[op.url] = 0
    /\ op.kind = "validate" /\ op.answer \in {"none", "pending"} =>
           accepted[op.url] = 0

\* The current order's URL is new, and nothing is known of an order without one.
OrderInv ==
    /\ order.state \in {"not-started", "request-pending"} <=> ~Placed
    /\ Placed => order.url \notin ClosedUrls
    /\ ~Placed => issuance.started = 0

\* Why neither request can be sent twice: both leave a durable trace.
SentInv ==
    /\ SingleAuthority
    /\ IntentKept
    /\ \A u \in Urls :
           accepted[u] > 0 =>
               \/ order.url = u /\ order.state \in Started
               \/ u \in ClosedUrls

IInv == TypeOK /\ OpInv /\ OrderInv /\ SentInv

----------------------------------------------------------------------------
(* Lemmas                                                                  *)

\* Every closed request is a well-typed scope.
LEMMA ClosedScopes ==
    ASSUME TypeOK
    PROVE  /\ DOMAIN closed = 1 .. Len(closed)
           /\ Len(closed) \in Nat
           /\ \A i \in DOMAIN closed :
                  /\ closed[i] \in Scopes
                  /\ closed[i].order \in Orders
                  /\ closed[i].issuance \in Issuances
                  /\ closed[i].request \in Requests
  <1>1. closed \in Seq(Scopes)
    BY DEF TypeOK
  <1>2. /\ DOMAIN closed = 1 .. Len(closed)
        /\ Len(closed) \in Nat
        /\ \A i \in DOMAIN closed : closed[i] \in Scopes
    BY <1>1
  <1>3. ASSUME NEW s \in Scopes
        PROVE  /\ s.order \in Orders
               /\ s.issuance \in Issuances
               /\ s.request \in Requests
    BY DEF Scopes
  <1>. QED BY <1>2, <1>3

\* The empty request and the idle operation are well typed.
LEMMA EmptyTypes ==
    /\ NoOrder \in Orders
    /\ NoRequest \in Requests
    /\ NoIssuance \in Issuances
    /\ Idle \in Ops
  <1>1. 0 \in Stamp /\ 0 \in 0 .. MaxTime
    BY ConstantsAssumption DEF Stamp
  <1>. QED
    BY <1>1 DEF NoOrder, Orders, OrderStates, NoRequest, Requests, NoIssuance,
                Issuances, Observations, Idle, Ops, OpKinds, CaStates

\* The fields of the current request and of the operation, typed.
LEMMA CurrentType ==
    ASSUME TypeOK
    PROVE  /\ order.url \in Urls \cup {NoUrl}
           /\ order.state \in OrderStates
           /\ order.started \in Stamp /\ order.expires \in Stamp
           /\ order.checked \in Stamp
           /\ issuance.started \in Stamp /\ issuance.expires \in Stamp
           /\ issuance.saved \in Stamp
           /\ op.kind \in OpKinds
           /\ op.url \in Urls \cup {NoUrl}
           /\ op.answer \in CaStates \cup {"accepted", "sent"}
           /\ op.since \in 0 .. MaxTime
           /\ now \in Stamp /\ now \in 0 .. MaxTime /\ now /= 0
  BY ConstantsAssumption DEF TypeOK, Orders, Issuances, Ops, Stamp

\* A scope stays a scope when its request and issuance are replaced.
LEMMA ScopeExcept ==
    ASSUME NEW s \in Scopes, NEW r \in Requests, NEW i \in Issuances,
           NEW t, t = [s EXCEPT !.request = r, !.issuance = i]
    PROVE  /\ t \in Scopes
           /\ t.order = s.order
           /\ t.at = s.at
           /\ t.issuance = i
  BY DEF Scopes

\* Tombstones change neither the identity nor the intent of a scope.
LEMMA TombstoneClosedKeeps ==
    ASSUME TypeOK, NEW u \in Urls, NEW s \in Scopes
    PROVE  /\ Tombstone(s, u) \in Scopes
           /\ Tombstone(s, u).order = s.order
           /\ Tombstone(s, u).at = s.at
           /\ Tombstone(s, u).issuance.started = s.issuance.started
           /\ Tombstone(s, u).issuance.saved = s.issuance.saved
  <1>1. CASE SavedBy(s, u)
    <2> DEFINE issued == [s.issuance EXCEPT !.deleted = now,
                                            !.deletedAfter = Len(closed)]
    <2>1. s.issuance \in Issuances
      BY DEF Scopes
    <2>2. /\ issued \in Issuances
          /\ issued.started = s.issuance.started
          /\ issued.saved = s.issuance.saved
      BY <2>1, CurrentType, ClosedScopes DEF Issuances
    <2>3. Tombstone(s, u) = [s EXCEPT !.request = NoRequest, !.issuance = issued]
      BY <1>1 DEF Tombstone
    <2>4. NoRequest \in Requests
      BY EmptyTypes
    <2>. HIDE DEF issued
    <2>5. /\ Tombstone(s, u) \in Scopes
          /\ Tombstone(s, u).order = s.order
          /\ Tombstone(s, u).at = s.at
          /\ Tombstone(s, u).issuance = issued
      BY <2>2, <2>3, <2>4 DEF Scopes
    <2>. QED
      BY <2>2, <2>5
  <1>2. CASE ~SavedBy(s, u)
    BY <1>2 DEF Tombstone
  <1>. QED BY <1>1, <1>2

\* A tombstone on the current request keeps its intent, too.
LEMMA TombstoneCurrentKeeps ==
    ASSUME TypeOK, NEW u \in Urls
    PROVE  /\ Tombstone(Current, u).request \in Requests
           /\ Tombstone(Current, u).issuance \in Issuances
           /\ Tombstone(Current, u).issuance.started = issuance.started
           /\ Tombstone(Current, u).issuance.saved = issuance.saved
  <1>1. CASE SavedBy(Current, u)
    <2>1. /\ Tombstone(Current, u).request = NoRequest
          /\ Tombstone(Current, u).issuance =
                 [issuance EXCEPT !.deleted = now, !.deletedAfter = Len(closed)]
      BY <1>1 DEF Tombstone, Current
    <2>. QED
      BY <2>1, EmptyTypes, CurrentType, ClosedScopes DEF TypeOK, Issuances
  <1>2. CASE ~SavedBy(Current, u)
    BY <1>2 DEF Tombstone, Current, TypeOK
  <1>. QED BY <1>1, <1>2

\* An empty inventory satisfies the inductive invariant.
LEMMA InitInv == Init => IInv
  <1> SUFFICES ASSUME Init PROVE IInv
    OBVIOUS
  <1>1. TypeOK
    BY EmptyTypes, ConstantsAssumption DEF Init, TypeOK, CaStates
  <1>2. OpInv
    BY DEF Init, OpInv, Idle
  <1>3. ~Placed /\ order.state = "not-started" /\ issuance.started = 0
    BY ConstantsAssumption DEF Init, Placed, NoOrder, NoIssuance
  <1>4. OrderInv /\ SentInv
    BY <1>3 DEF Init, OrderInv, SentInv, SingleAuthority, IntentKept
  <1>. QED BY <1>1, <1>2, <1>4 DEF IInv

----------------------------------------------------------------------------
(* The operation in flight                                                 *)

\* What Begin leaves in op.
LEMMA BeginOp ==
    ASSUME TypeOK, NEW k \in OpKinds, NEW u \in Urls \cup {NoUrl}, Begin(k, u)
    PROVE  /\ op' \in Ops
           /\ op'.kind = k /\ op'.url = u
           /\ op'.since = now /\ op'.answer = "none"
  BY CurrentType DEF Begin, Ops, CaStates

\* What End leaves in op.
LEMMA EndOp ==
    ASSUME End
    PROVE  op' \in Ops /\ op'.kind = "idle"
  BY EmptyTypes DEF End, Idle

\* An answer changes nothing else of the operation.
LEMMA AnswerOp ==
    ASSUME TypeOK, NEW a \in CaStates \cup {"accepted", "sent"},
           op' = [op EXCEPT !.answer = a]
    PROVE  /\ op' \in Ops
           /\ op'.kind = op.kind /\ op'.url = op.url
           /\ op'.since = op.since /\ op'.answer = a
  <1>1. op \in Ops
    BY DEF TypeOK
  <1>. QED BY <1>1 DEF Ops

\* Without an operation in flight there is nothing to rely on.
LEMMA IdleOpInv == op'.kind = "idle" => OpInv'
  BY DEF OpInv

----------------------------------------------------------------------------
(* Frames: what most actions leave alone                                   *)

\* The request keeps its identity and its progress; nothing is sent or closed.
LEMMA SentFrame ==
    ASSUME IInv,
           order'.url = order.url,
           order.state \in {"not-started", "request-pending"}
               <=> order'.state \in {"not-started", "request-pending"},
           order.state \in Started => order'.state \in Started,
           issuance'.started = issuance.started,
           UNCHANGED <<closed, sent>>
    PROVE  OrderInv' /\ SentInv'
  BY DEF IInv, OrderInv, SentInv, SingleAuthority, IntentKept, Intended, Current,
         Placed, ClosedUrls, sent

\* The operation, what it sent and the request it works on stay the same.
LEMMA OpFrame ==
    ASSUME OpInv,
           op'.kind = op.kind, op'.url = op.url, op'.since = op.since,
           op'.answer = op.answer,
           UNCHANGED <<order, request, issuance, sent>>
    PROVE  OpInv'
  BY DEF OpInv, Placed, sent

\* A stuttering step preserves the invariant.
LEMMA UnchangedInv == IInv /\ UNCHANGED vars => IInv'
  <1> SUFFICES ASSUME IInv, UNCHANGED vars PROVE IInv'
    OBVIOUS
  <1>1. TypeOK'
    BY DEF IInv, TypeOK, vars, image, sent
  <1>2. OpInv'
    BY OpFrame DEF IInv, vars, image, sent
  <1>3. OrderInv' /\ SentInv'
    BY SentFrame DEF IInv, vars, image, sent
  <1>. QED BY <1>1, <1>2, <1>3 DEF IInv

----------------------------------------------------------------------------
(* The clock, the CA and lost operations                                   *)

\* The clock, stepping either way, preserves the invariant.
LEMMA TickInv == IInv /\ Tick => IInv'
  <1> SUFFICES ASSUME IInv, Tick PROVE IInv'
    OBVIOUS
  <1>1. now' \in 1 .. MaxTime
    BY DEF Tick, IInv, TypeOK
  <1>2. TypeOK'
    BY <1>1 DEF Tick, IInv, TypeOK, image, sent
  <1>3. OpInv'
    BY OpFrame DEF Tick, IInv, image
  <1>4. OrderInv' /\ SentInv'
    BY SentFrame DEF Tick, IInv, image
  <1>. QED BY <1>2, <1>3, <1>4 DEF IInv

\* A crash in the middle of any operation preserves the invariant.
LEMMA AbandonInv == IInv /\ Abandon => IInv'
  <1> SUFFICES ASSUME IInv, Abandon PROVE IInv'
    OBVIOUS
  <1>1. TypeOK'
    BY EndOp DEF Abandon, IInv, TypeOK, image, sent
  <1>2. OpInv'
    BY EndOp, IdleOpInv DEF Abandon
  <1>3. OrderInv' /\ SentInv'
    BY SentFrame DEF Abandon, IInv, image
  <1>. QED BY <1>1, <1>2, <1>3 DEF IInv

CaStep(u) == Validate(u) \/ FinalizeArrives(u) \/ Issue(u) \/ Reject(u)

\* What the CA does on its own preserves the invariant.
LEMMA CaInv == ASSUME IInv, NEW u \in Urls, CaStep(u) PROVE IInv'
  <1>1. UNCHANGED <<now, image, op, sent>>
    BY DEF CaStep, Validate, FinalizeArrives, Issue, Reject
  <1>2. ca' \in [Urls -> CaStates]
    BY DEF CaStep, Validate, FinalizeArrives, Issue, Reject, IInv, TypeOK, CaStates
  <1>3. TypeOK'
    BY <1>1, <1>2 DEF IInv, TypeOK, image, sent
  <1>4. OpInv'
    BY <1>1, OpFrame DEF IInv, image
  <1>5. OrderInv' /\ SentInv'
    BY <1>1, SentFrame DEF IInv, image
  <1>. QED BY <1>3, <1>4, <1>5 DEF IInv

----------------------------------------------------------------------------
(* Placing an order                                                        *)

\* BeginStagingOrder and BeginStagingRenewal preserve the invariant.
LEMMA BeginOrderInv ==
    ASSUME IInv, NEW source \in Urls \cup {NoUrl}, BeginOrder(source) PROVE IInv'
  <1>1. /\ order' \in Orders
        /\ order'.state = "request-pending" /\ order'.url = NoUrl
    BY EmptyTypes, CurrentType
    DEF BeginOrder, IInv, Orders, OrderStates, NoOrder
  <1>2. Begin("order", NoUrl) /\ order.state = "not-started"
    BY DEF BeginOrder
  <1>3. op' \in Ops /\ op'.kind = "order"
    BY <1>2, BeginOp DEF IInv, OpKinds
  <1>4. UNCHANGED <<now, request, issuance, closed, certs, ca, sent>>
    BY DEF BeginOrder
  <1>5. TypeOK'
    BY <1>1, <1>3, <1>4 DEF IInv, TypeOK, sent
  <1>6. OpInv'
    BY <1>3 DEF OpInv
  <1>7. order.url = NoUrl
    BY <1>2, CurrentType DEF IInv, OrderInv, Placed
  <1>8. OrderInv' /\ SentInv'
    BY <1>1, <1>2, <1>4, <1>7, SentFrame DEF Started
  <1>. QED BY <1>5, <1>6, <1>8 DEF IInv

\* The CA's answer to a new order preserves the invariant.
LEMMA NewOrderInv == ASSUME IInv, NEW u \in Urls, NewOrder(u) PROVE IInv'
  <1>1. /\ UNCHANGED <<now, image, sent>>
        /\ op.kind = "order"
        /\ op' = [op EXCEPT !.url = u]
    BY DEF NewOrder
  <1>2. op \in Ops
    BY DEF IInv, TypeOK
  <1>3. op' \in Ops /\ op'.kind = "order"
    BY <1>1, <1>2 DEF Ops
  <1>4. ca' \in [Urls -> CaStates]
    BY DEF NewOrder, IInv, TypeOK, CaStates
  <1>5. TypeOK'
    BY <1>1, <1>3, <1>4 DEF IInv, TypeOK, image, sent
  <1>6. OpInv'
    BY <1>3 DEF OpInv
  <1>7. OrderInv' /\ SentInv'
    BY <1>1, SentFrame DEF IInv, image
  <1>. QED BY <1>5, <1>6, <1>7 DEF IInv

\* Committing the order URL preserves the invariant.
LEMMA CheckpointInv == IInv /\ Checkpoint => IInv'
  <1> SUFFICES ASSUME IInv, Checkpoint PROVE IInv'
    OBVIOUS
  <1>1. /\ op.kind = "order" /\ op.url \in Urls
        /\ order.state = "request-pending"
        /\ order' = [order EXCEPT !.state = "order-known", !.url = op.url]
        /\ UNCHANGED <<now, request, issuance, closed, certs, op, ca, sent>>
    BY CurrentType DEF Checkpoint, IInv
  <1>2. order \in Orders
    BY DEF IInv, TypeOK
  <1>3. /\ order' \in Orders
        /\ order'.state = "order-known" /\ order'.url = op.url
    BY <1>1, <1>2 DEF Orders, OrderStates
  <1>4. order'.url \notin ClosedUrls'
    BY DEF Checkpoint, Authentic
  <1>5. TypeOK'
    BY <1>1, <1>3 DEF IInv, TypeOK, sent
  <1>6. OpInv'
    BY <1>1 DEF OpInv
  <1>7. ~Placed /\ issuance.started = 0
    BY <1>1 DEF IInv, OrderInv
  <1>8. OrderInv'
    BY <1>1, <1>3, <1>4, <1>7 DEF OrderInv, Placed
  <1>9. SentInv'
    BY <1>1, <1>3, <1>7
    DEF IInv, SentInv, SingleAuthority, IntentKept, Intended, Current, Placed,
        ClosedUrls, sent
  <1>. QED BY <1>5, <1>6, <1>8, <1>9 DEF IInv

\* Resuming an order preserves the invariant.
LEMMA BeginResumeInv == IInv /\ BeginResume => IInv'
  <1> SUFFICES ASSUME IInv, BeginResume PROVE IInv'
    OBVIOUS
  <1>1. /\ Begin("resume", order.url)
        /\ order.state \in {"order-known", "dns-ready", "dns-acknowledged"}
        /\ UNCHANGED <<now, image, ca, sent>>
    BY DEF BeginResume
  <1>2. order.url \in Urls
    BY <1>1 DEF IInv, OrderInv, Placed
  <1>3. op' \in Ops /\ op'.kind = "resume" /\ op'.url \in Urls
    BY <1>1, <1>2, BeginOp DEF IInv, OpKinds
  <1>4. TypeOK'
    BY <1>1, <1>3 DEF IInv, TypeOK, image, sent
  <1>5. OpInv'
    BY <1>3 DEF OpInv
  <1>6. OrderInv' /\ SentInv'
    BY <1>1, SentFrame DEF image
  <1>. QED BY <1>4, <1>5, <1>6 DEF IInv

\* Saving the DNS instructions preserves the invariant.
LEMMA FinishInstructionsInv ==
    ASSUME IInv, NEW expires \in Stamp, FinishInstructions(expires) PROVE IInv'
  <1>1. /\ End
        /\ order.state \in {"order-known", "dns-ready", "dns-acknowledged"}
        /\ order' = [order EXCEPT !.state = "dns-ready", !.expires = expires]
        /\ UNCHANGED <<now, request, issuance, closed, certs, ca, sent>>
    BY DEF FinishInstructions
  <1>2. order \in Orders
    BY DEF IInv, TypeOK
  <1>3. /\ order' \in Orders
        /\ order'.state = "dns-ready" /\ order'.url = order.url
    BY <1>1, <1>2 DEF Orders, OrderStates
  <1>4. TypeOK'
    BY <1>1, <1>3, EndOp DEF IInv, TypeOK, sent
  <1>5. OpInv'
    BY <1>1, EndOp, IdleOpInv
  <1>6. OrderInv' /\ SentInv'
    BY <1>1, <1>3, SentFrame DEF Started
  <1>. QED BY <1>4, <1>5, <1>6 DEF IInv

\* AcknowledgeStagingDNS preserves the invariant.
LEMMA AcknowledgeInv == IInv /\ Acknowledge => IInv'
  <1> SUFFICES ASSUME IInv, Acknowledge PROVE IInv'
    OBVIOUS
  <1>1. /\ op.kind = "idle" /\ order.state = "dns-ready"
        /\ order' = [order EXCEPT !.state = "dns-acknowledged"]
        /\ UNCHANGED <<now, request, issuance, closed, certs, op, ca, sent>>
    BY DEF Acknowledge, Unlocked
  <1>2. order \in Orders
    BY DEF IInv, TypeOK
  <1>3. /\ order' \in Orders
        /\ order'.state = "dns-acknowledged" /\ order'.url = order.url
    BY <1>1, <1>2 DEF Orders, OrderStates
  <1>4. TypeOK'
    BY <1>1, <1>3 DEF IInv, TypeOK, sent
  <1>5. OpInv'
    BY <1>1, IdleOpInv
  <1>6. OrderInv' /\ SentInv'
    BY <1>1, <1>3, SentFrame DEF Started
  <1>. QED BY <1>4, <1>5, <1>6 DEF IInv

----------------------------------------------------------------------------
(* Validating the domain                                                   *)

\* BeginStagingValidation preserves the invariant.
LEMMA BeginValidationInv == IInv /\ BeginValidation => IInv'
  <1> SUFFICES ASSUME IInv, BeginValidation PROVE IInv'
    OBVIOUS
  <1> DEFINE kind == ValidationKind(order.state)
  <1>1. /\ kind /= "idle"
        /\ Begin(kind, order.url)
        /\ issuance.started = 0
        /\ order' = [order EXCEPT !.state = "validation-pending", !.checked = 0]
        /\ UNCHANGED <<now, request, issuance, closed, certs, ca, sent>>
    BY DEF BeginValidation
  <1>2. /\ kind \in {"validate", "revalidate"}
        /\ kind = "validate" => order.state = "dns-acknowledged"
        /\ kind = "revalidate" => order.state \in Started
    BY <1>1 DEF ValidationKind
  <1>3. order.state \notin {"not-started", "request-pending"}
    BY <1>2 DEF Started
  <1>4. Placed /\ order.url \notin ClosedUrls
    BY <1>3 DEF IInv, OrderInv
  <1>5. order \in Orders /\ 0 \in Stamp
    BY ConstantsAssumption DEF IInv, TypeOK, Stamp
  <1>6. /\ order' \in Orders
        /\ order'.state = "validation-pending" /\ order'.url = order.url
    BY <1>1, <1>5 DEF Orders, OrderStates, Started
  <1>. HIDE DEF kind
  <1>7. op' \in Ops /\ op'.kind = kind /\ op'.url = order.url /\ op'.answer = "none"
    BY <1>1, <1>2, <1>4, BeginOp DEF IInv, OpKinds, Placed
  <1>8. kind = "validate" => accepted[order.url] = 0
    <2>1. accepted[order.url] \in Nat
      BY <1>4 DEF IInv, TypeOK, Placed
    <2>2. order.state = "dns-acknowledged" => ~(accepted[order.url] > 0)
      BY <1>4 DEF IInv, SentInv, Placed, Started
    <2>. QED BY <1>2, <2>1, <2>2
  <1>9. TypeOK'
    BY <1>1, <1>6, <1>7 DEF IInv, TypeOK, sent
  <1>10. OpInv'
    BY <1>1, <1>2, <1>4, <1>6, <1>7, <1>8 DEF OpInv, Placed, Started, sent
  <1>11. OrderInv' /\ SentInv'
    BY <1>1, <1>3, <1>6, SentFrame DEF Started
  <1>. QED BY <1>9, <1>10, <1>11 DEF IInv

\* Reading the order at the CA preserves the invariant.
LEMMA ReadStatusInv == IInv /\ ReadStatus => IInv'
  <1> SUFFICES ASSUME IInv, ReadStatus PROVE IInv'
    OBVIOUS
  <1>1. /\ op.kind \in {"validate", "revalidate", "fetch"}
        /\ op.answer = "none"
        /\ op' = [op EXCEPT !.answer = ca[op.url]]
        /\ UNCHANGED <<now, image, ca, sent>>
    BY DEF ReadStatus
  <1>2. op.url \in Urls
    BY <1>1 DEF IInv, OpInv, Placed
  <1>3. ca[op.url] \in CaStates
    BY <1>2 DEF IInv, TypeOK
  <1>4. /\ op' \in Ops /\ op'.kind = op.kind /\ op'.url = op.url
        /\ op'.since = op.since
    BY <1>1, <1>3, AnswerOp DEF IInv
  <1>5. TypeOK'
    BY <1>1, <1>4 DEF IInv, TypeOK, image, sent
  <1>6. OpInv'
    BY <1>1, <1>4 DEF IInv, OpInv, Placed, image, sent
  <1>7. OrderInv' /\ SentInv'
    BY <1>1, SentFrame DEF image
  <1>. QED BY <1>5, <1>6, <1>7 DEF IInv

\* Accepting the challenges preserves the invariant.
LEMMA SendAcceptInv == IInv /\ SendAccept => IInv'
  <1> SUFFICES ASSUME IInv, SendAccept PROVE IInv'
    OBVIOUS
  <1>1. /\ op.kind = "validate" /\ op.answer = "pending"
        /\ op' = [op EXCEPT !.answer = "accepted"]
        /\ accepted' = [accepted EXCEPT ![op.url] = @ + 1]
        /\ UNCHANGED <<now, image, ca, finalized>>
    BY DEF SendAccept
  <1>2. /\ op.url \in Urls /\ op.url = order.url /\ order.state \in Started
        /\ accepted[op.url] = 0
    BY <1>1 DEF IInv, OpInv, Placed
  <1>3. /\ op' \in Ops /\ op'.kind = "validate" /\ op'.url = op.url
        /\ op'.answer = "accepted"
    BY <1>1, AnswerOp DEF IInv
  <1>4. accepted \in [Urls -> Nat]
    BY DEF IInv, TypeOK
  <1>5. /\ accepted' \in [Urls -> Nat]
        /\ accepted'[op.url] = 1
        /\ \A u \in Urls : u /= op.url => accepted'[u] = accepted[u]
    BY <1>1, <1>2, <1>4
  <1>6. TypeOK'
    BY <1>1, <1>3, <1>5 DEF IInv, TypeOK, image
  <1>7. OpInv'
    BY <1>1, <1>3 DEF IInv, OpInv, Placed, image
  <1>8. OrderInv'
    BY <1>1 DEF IInv, OrderInv, Placed, ClosedUrls, image
  <1>9. SentInv'
    BY <1>1, <1>2, <1>5
    DEF IInv, SentInv, SingleAuthority, IntentKept, Intended, Current,
        ClosedUrls, image
  <1>. QED BY <1>6, <1>7, <1>8, <1>9 DEF IInv

\* FinishStagingValidation preserves the invariant.
LEMMA FinishValidationInv ==
    ASSUME IInv, NEW expires \in Stamp, FinishValidation(expires) PROVE IInv'
  <1> DEFINE state == ValidationState(op.answer)
  <1>1. /\ End
        /\ order.state = "validation-pending"
        /\ op.answer \in {"accepted", "pending", "ready", "invalid"}
        /\ order' = [order EXCEPT !.state = state, !.expires = expires,
                                  !.checked = now]
        /\ UNCHANGED <<now, request, issuance, closed, certs, ca, sent>>
    BY DEF FinishValidation
  <1>2. state \in Started
    BY <1>1 DEF ValidationState, Started
  <1>3. order \in Orders /\ now \in Stamp
    BY CurrentType DEF IInv, TypeOK
  <1>. HIDE DEF state
  <1>4. order' \in Orders /\ order'.state = state /\ order'.url = order.url
    BY <1>1, <1>2, <1>3 DEF Orders, OrderStates
  <1>5. TypeOK'
    BY <1>1, <1>4, EndOp DEF IInv, TypeOK, sent
  <1>6. OpInv'
    BY <1>1, EndOp, IdleOpInv
  <1>7. OrderInv' /\ SentInv'
    BY <1>1, <1>2, <1>4, SentFrame DEF Started
  <1>. QED BY <1>5, <1>6, <1>7 DEF IInv

----------------------------------------------------------------------------
(* Preparing the key, finalizing the order and saving the pair             *)

\* Preparing the key and its CSR preserves the invariant.
LEMMA PrepareRequestInv == IInv /\ PrepareRequest => IInv'
  <1> SUFFICES ASSUME IInv, PrepareRequest PROVE IInv'
    OBVIOUS
  <1>1. /\ op.kind = "idle"
        /\ request' = [state |-> "key-prepared", prepared |-> now]
        /\ UNCHANGED <<now, order, issuance, closed, certs, op, ca, sent>>
    BY DEF PrepareRequest, Unlocked
  <1>2. request' \in Requests
    BY <1>1, CurrentType DEF IInv, Requests
  <1>3. TypeOK'
    BY <1>1, <1>2 DEF IInv, TypeOK, sent
  <1>4. OpInv'
    BY <1>1, IdleOpInv
  <1>5. OrderInv' /\ SentInv'
    BY <1>1, SentFrame
  <1>. QED BY <1>3, <1>4, <1>5 DEF IInv

\* Committing the finalize intent preserves the invariant.
LEMMA BeginIssuanceInv == IInv /\ BeginIssuance => IInv'
  <1> SUFFICES ASSUME IInv, BeginIssuance PROVE IInv'
    OBVIOUS
  <1>1. /\ issuance.started = 0
        /\ order.state = "domain-verified"
        /\ request.state = "key-prepared"
        /\ issuance' = [NoIssuance EXCEPT !.started = now,
                                          !.expires = order.expires]
        /\ Begin("finalize", order.url)
        /\ UNCHANGED <<now, order, request, closed, certs, ca, sent>>
    BY DEF BeginIssuance, IssuanceWindow, Intent, Lease
  <1>2. Placed /\ order.url \notin ClosedUrls
    BY <1>1 DEF IInv, OrderInv
  <1>3. now \in Stamp /\ now /= 0 /\ order.expires \in Stamp
    BY CurrentType DEF IInv
  <1>4. /\ issuance' \in Issuances
        /\ issuance'.started = now /\ issuance'.saved = 0
    BY <1>1, <1>3, EmptyTypes DEF NoIssuance, Issuances
  <1>5. /\ op' \in Ops /\ op'.kind = "finalize" /\ op'.url = order.url
        /\ op'.since = now
    BY <1>1, <1>2, BeginOp DEF IInv, OpKinds, Placed
  <1>6. finalized[order.url] = 0
    <2>1. finalized[order.url] \in Nat
      BY <1>2 DEF IInv, TypeOK, Placed
    <2>2. ~(finalized[order.url] > 0)
      BY <1>1, <1>2
      DEF IInv, SentInv, IntentKept, Intended, Current, ClosedUrls, Placed
    <2>. QED BY <2>1, <2>2
  <1>7. TypeOK'
    BY <1>1, <1>4, <1>5 DEF IInv, TypeOK, sent
  <1>8. OpInv'
    BY <1>1, <1>2, <1>3, <1>4, <1>5, <1>6 DEF OpInv, Placed, sent
  <1>9. OrderInv'
    BY <1>1, <1>2 DEF IInv, OrderInv, Placed, ClosedUrls
  <1>10. SentInv'
    BY <1>1, <1>3, <1>4
    DEF IInv, SentInv, SingleAuthority, IntentKept, Intended, Current,
        ClosedUrls, sent
  <1>. QED BY <1>7, <1>8, <1>9, <1>10 DEF IInv

\* A later read of a finalized order preserves the invariant.
LEMMA BeginFetchInv == IInv /\ BeginFetch => IInv'
  <1> SUFFICES ASSUME IInv, BeginFetch PROVE IInv'
    OBVIOUS
  <1>1. /\ issuance.started /= 0 /\ issuance.saved = 0
        /\ order.state = "domain-verified"
        /\ request.state = "key-prepared"
        /\ Begin("fetch", order.url)
        /\ UNCHANGED <<now, image, ca, sent>>
    BY DEF BeginFetch, IssuanceWindow, Lease
  <1>2. Placed
    BY <1>1 DEF IInv, OrderInv
  <1>3. op' \in Ops /\ op'.kind = "fetch" /\ op'.url = order.url
    BY <1>1, <1>2, BeginOp DEF IInv, OpKinds, Placed
  <1>4. TypeOK'
    BY <1>1, <1>3 DEF IInv, TypeOK, image, sent
  <1>5. OpInv'
    BY <1>1, <1>2, <1>3 DEF OpInv, Placed, image
  <1>6. OrderInv' /\ SentInv'
    BY <1>1, SentFrame DEF image
  <1>. QED BY <1>4, <1>5, <1>6 DEF IInv

\* Sending the finalize request preserves the invariant.
LEMMA SendFinalizeInv == IInv /\ SendFinalize => IInv'
  <1> SUFFICES ASSUME IInv, SendFinalize PROVE IInv'
    OBVIOUS
  <1>1. /\ op.kind = "finalize" /\ op.answer = "none"
        /\ op' = [op EXCEPT !.answer = "sent"]
        /\ finalized' = [finalized EXCEPT ![op.url] = @ + 1]
        /\ UNCHANGED <<now, image, ca, accepted>>
    BY DEF SendFinalize
  <1>2. /\ op.url \in Urls /\ op.url = order.url /\ issuance.started /= 0
        /\ finalized[op.url] = 0
    BY <1>1 DEF IInv, OpInv, Placed
  <1>3. /\ op' \in Ops /\ op'.kind = "finalize" /\ op'.url = op.url
        /\ op'.since = op.since /\ op'.answer = "sent"
    BY <1>1, AnswerOp DEF IInv
  <1>4. finalized \in [Urls -> Nat]
    BY DEF IInv, TypeOK
  <1>5. /\ finalized' \in [Urls -> Nat]
        /\ finalized'[op.url] = 1
        /\ \A u \in Urls : u /= op.url => finalized'[u] = finalized[u]
    BY <1>1, <1>2, <1>4
  <1>6. TypeOK'
    BY <1>1, <1>3, <1>5 DEF IInv, TypeOK, image
  <1>7. OpInv'
    BY <1>1, <1>3 DEF IInv, OpInv, Placed, image
  <1>8. OrderInv'
    BY <1>1 DEF IInv, OrderInv, Placed, ClosedUrls, image
  <1>9. SentInv'
    BY <1>1, <1>2, <1>5
    DEF IInv, SentInv, SingleAuthority, IntentKept, Intended, Current,
        ClosedUrls, image
  <1>. QED BY <1>6, <1>7, <1>8, <1>9 DEF IInv

\* Reading the finalize answer preserves the invariant.
LEMMA ReadFinalizeAnswerInv == IInv /\ ReadFinalizeAnswer => IInv'
  <1> SUFFICES ASSUME IInv, ReadFinalizeAnswer PROVE IInv'
    OBVIOUS
  <1>1. /\ op.kind = "finalize"
        /\ ca[op.url] \in {"processing", "valid"}
        /\ op' = [op EXCEPT !.answer = ca[op.url]]
        /\ UNCHANGED <<now, image, ca, sent>>
    BY DEF ReadFinalizeAnswer
  <1>2. /\ op' \in Ops /\ op'.kind = op.kind /\ op'.url = op.url
        /\ op'.since = op.since /\ op'.answer /= "none"
    BY <1>1, AnswerOp DEF IInv, CaStates
  <1>3. TypeOK'
    BY <1>1, <1>2 DEF IInv, TypeOK, image, sent
  <1>4. OpInv'
    BY <1>1, <1>2 DEF IInv, OpInv, Placed, image, sent
  <1>5. OrderInv' /\ SentInv'
    BY <1>1, SentFrame DEF image
  <1>. QED BY <1>3, <1>4, <1>5 DEF IInv

\* ObserveStagingIssuance preserves the invariant.
LEMMA FinishObserveInv ==
    ASSUME IInv, NEW expires \in Stamp, FinishObserve(expires) PROVE IInv'
  <1>1. /\ End
        /\ op.answer \in Observations
        /\ issuance' = [issuance EXCEPT !.observation = op.answer,
                                        !.checked = now, !.expires = expires]
        /\ UNCHANGED <<now, order, request, closed, certs, ca, sent>>
    BY DEF FinishObserve, Observable, Observations
  <1>2. issuance \in Issuances /\ now \in Stamp
    BY CurrentType DEF IInv, TypeOK
  <1>3. issuance' \in Issuances /\ issuance'.started = issuance.started
    BY <1>1, <1>2 DEF Issuances
  <1>4. TypeOK'
    BY <1>1, <1>3, EndOp DEF IInv, TypeOK, sent
  <1>5. OpInv'
    BY <1>1, EndOp, IdleOpInv
  <1>6. OrderInv' /\ SentInv'
    BY <1>1, <1>3, SentFrame
  <1>. QED BY <1>4, <1>5, <1>6 DEF IInv

\* FinishStagingIssuance preserves the invariant.
LEMMA FinishCompleteInv ==
    ASSUME IInv, NEW expires \in Stamp, FinishComplete(expires) PROVE IInv'
  <1>1. /\ End
        /\ op.kind \in {"finalize", "fetch"}
        /\ certs' = [certs EXCEPT ![op.url] = "pair"]
        /\ request' = [request EXCEPT !.state = "key-transferred"]
        /\ issuance' = [issuance EXCEPT !.observation = "", !.checked = 0,
                                        !.expires = expires, !.saved = now]
        /\ UNCHANGED <<now, order, closed, ca, sent>>
    BY DEF FinishComplete
  <1>2. issuance \in Issuances /\ now \in Stamp /\ 0 \in Stamp
    BY CurrentType, ConstantsAssumption DEF IInv, TypeOK, Stamp
  <1>3. issuance' \in Issuances /\ issuance'.started = issuance.started
    BY <1>1, <1>2 DEF Issuances, Observations
  <1>4. request' \in Requests
    BY <1>1 DEF IInv, TypeOK, Requests
  <1>5. certs' \in [Urls -> {"absent", "public", "pair"}]
    BY <1>1 DEF IInv, TypeOK
  <1>6. TypeOK'
    BY <1>1, <1>3, <1>4, <1>5, EndOp DEF IInv, TypeOK, sent
  <1>7. OpInv'
    BY <1>1, EndOp, IdleOpInv
  <1>8. OrderInv' /\ SentInv'
    BY <1>1, <1>3, SentFrame
  <1>. QED BY <1>6, <1>7, <1>8 DEF IInv

----------------------------------------------------------------------------
(* Saved certificates and closed requests                                  *)

\* Importing an issued certificate preserves the invariant.
LEMMA ImportCertificateInv ==
    ASSUME IInv, NEW u \in Urls, ImportCertificate(u) PROVE IInv'
  <1>1. /\ op.kind = "idle"
        /\ certs' = [certs EXCEPT ![u] = "public"]
        /\ UNCHANGED <<now, order, request, issuance, closed, op, ca, sent>>
    BY DEF ImportCertificate, Unlocked
  <1>2. TypeOK'
    BY <1>1 DEF IInv, TypeOK, sent
  <1>3. OpInv'
    BY <1>1, IdleOpInv
  <1>4. OrderInv' /\ SentInv'
    BY <1>1, SentFrame
  <1>. QED BY <1>2, <1>3, <1>4 DEF IInv

\* DeleteRecord and its tombstones preserve the invariant.
LEMMA DeleteRecordInv ==
    ASSUME IInv, NEW u \in Urls, DeleteRecord(u) PROVE IInv'
  <1>1. /\ op.kind = "idle"
        /\ certs' = [certs EXCEPT ![u] = "absent"]
        /\ request' = Tombstone(Current, u).request
        /\ issuance' = Tombstone(Current, u).issuance
        /\ closed' = [i \in DOMAIN closed |-> Tombstone(closed[i], u)]
        /\ UNCHANGED <<now, order, op, ca, sent>>
    BY DEF DeleteRecord, Unlocked, TombstoneClosed
  <1>2. TypeOK
    BY DEF IInv
  <1>3. /\ request' \in Requests /\ issuance' \in Issuances
        /\ issuance'.started = issuance.started
    BY <1>1, <1>2, TombstoneCurrentKeeps
  <1>4. /\ DOMAIN closed' = DOMAIN closed
        /\ \A i \in DOMAIN closed :
               /\ closed'[i] \in Scopes
               /\ closed'[i].order = closed[i].order
               /\ closed'[i].issuance.started = closed[i].issuance.started
    BY <1>1, <1>2, ClosedScopes, TombstoneClosedKeeps
  <1>5. closed' \in Seq(Scopes)
    BY <1>1, <1>2, <1>4, ClosedScopes
  <1>6. TypeOK'
    BY <1>1, <1>3, <1>5 DEF IInv, TypeOK, sent
  <1>7. OpInv'
    BY <1>1, IdleOpInv
  <1>8. ClosedUrls' = ClosedUrls
    BY <1>4 DEF ClosedUrls
  <1>9. OrderInv'
    BY <1>1, <1>3, <1>8 DEF IInv, OrderInv, Placed
  <1>10. SentInv'
    BY <1>1, <1>3, <1>4, <1>8
    DEF IInv, SentInv, SingleAuthority, IntentKept, Intended, Current, sent
  <1>. QED BY <1>6, <1>7, <1>9, <1>10 DEF IInv

\* Closing the request preserves the invariant.
LEMMA CloseRequestInv == IInv /\ CloseRequest => IInv'
  <1> SUFFICES ASSUME IInv, CloseRequest PROVE IInv'
    OBVIOUS
  <1> DEFINE scope == ClosedScope(CloseReason(Current, now))
  <1>1. /\ op.kind = "idle"
        /\ CloseReason(Current, now) \in {"complete", "expired"}
        /\ closed' = Append(closed, scope)
        /\ order' = NoOrder /\ request' = NoRequest /\ issuance' = NoIssuance
        /\ UNCHANGED <<now, certs, op, ca, sent>>
    BY DEF CloseRequest, Unlocked
  <1>2. scope \in Scopes /\ scope.order = order /\ scope.issuance = issuance
    BY <1>1, CurrentType DEF IInv, TypeOK, ClosedScope, Scopes
  <1>3. closed \in Seq(Scopes)
    BY DEF IInv, TypeOK
  <1>. HIDE DEF scope
  <1>4. /\ closed' \in Seq(Scopes)
        /\ DOMAIN closed' = DOMAIN closed \cup {Len(closed) + 1}
        /\ closed'[Len(closed) + 1] = scope
        /\ \A i \in DOMAIN closed : closed'[i] = closed[i]
    BY <1>1, <1>2, <1>3
  <1>5. TypeOK'
    BY <1>1, <1>4, EmptyTypes DEF IInv, TypeOK, sent
  <1>6. OpInv'
    BY <1>1, IdleOpInv
  <1>7. ClosedUrls' = ClosedUrls \cup {order.url}
    BY <1>2, <1>4 DEF ClosedUrls
  <1>8. OrderInv'
    BY <1>1, ConstantsAssumption DEF OrderInv, Placed, NoOrder, NoIssuance
  <1>9. SingleAuthority'
    BY <1>1 DEF IInv, SentInv, SingleAuthority, sent
  <1>10. IntentKept'
    BY <1>1, <1>2, <1>4
    DEF IInv, SentInv, IntentKept, Intended, Current, sent
  <1>11. SentInv'
    BY <1>1, <1>7, <1>9, <1>10 DEF IInv, SentInv, sent
  <1>. QED BY <1>5, <1>6, <1>8, <1>11 DEF IInv

----------------------------------------------------------------------------
(* Theorems                                                                *)

\* Every step of the flow preserves the inductive invariant.
LEMMA StepInv == IInv /\ [Next]_vars => IInv'
  <1> SUFFICES ASSUME IInv, [Next]_vars PROVE IInv'
    OBVIOUS
  <1>1. CASE Tick \/ Abandon
    BY <1>1, TickInv, AbandonInv
  <1>2. CASE \E source \in Urls \cup {NoUrl} : BeginOrder(source)
    BY <1>2, BeginOrderInv
  <1>3. CASE \E u \in Urls : NewOrder(u)
    BY <1>3, NewOrderInv
  <1>4. CASE Checkpoint \/ BeginResume \/ Acknowledge
    BY <1>4, CheckpointInv, BeginResumeInv, AcknowledgeInv
  <1>5. CASE \E e \in Stamp : FinishInstructions(e)
    BY <1>5, FinishInstructionsInv
  <1>6. CASE BeginValidation \/ ReadStatus \/ SendAccept
    BY <1>6, BeginValidationInv, ReadStatusInv, SendAcceptInv
  <1>7. CASE \E e \in Stamp : FinishValidation(e)
    BY <1>7, FinishValidationInv
  <1>8. CASE PrepareRequest \/ BeginIssuance \/ BeginFetch
    BY <1>8, PrepareRequestInv, BeginIssuanceInv, BeginFetchInv
  <1>9. CASE SendFinalize \/ ReadFinalizeAnswer
    BY <1>9, SendFinalizeInv, ReadFinalizeAnswerInv
  <1>10. CASE \E e \in Stamp : FinishObserve(e)
    BY <1>10, FinishObserveInv
  <1>11. CASE \E e \in Stamp : FinishComplete(e)
    BY <1>11, FinishCompleteInv
  <1>12. CASE \E u \in Urls : ImportCertificate(u)
    BY <1>12, ImportCertificateInv
  <1>13. CASE \E u \in Urls : DeleteRecord(u)
    BY <1>13, DeleteRecordInv
  <1>14. CASE CloseRequest
    BY <1>14, CloseRequestInv
  <1>15. CASE \E u \in Urls : Validate(u) \/ FinalizeArrives(u) \/ Issue(u) \/ Reject(u)
    BY <1>15, CaInv DEF CaStep
  <1>16. CASE UNCHANGED vars
    BY <1>16, UnchangedInv
  <1>. QED
    BY <1>1, <1>2, <1>3, <1>4, <1>5, <1>6, <1>7, <1>8, <1>9, <1>10, <1>11, <1>12,
       <1>13, <1>14, <1>15, <1>16
    DEF Next

\* IInv holds in every state of every behaviour of the flow.
THEOREM Invariance == Spec => []IInv
  BY InitInv, StepInv, PTL DEF Spec

\* Every variable keeps its type: the model never leaves the program's states.
THEOREM TypeCorrect == Spec => []TypeOK
  BY Invariance, PTL DEF IInv

\* However often the process crashes, the clock steps back, answers are lost and
\* certificates are imported again: one acceptance and one finalize per order.
THEOREM AuthorityOnce == Spec => []SingleAuthority
  BY Invariance, PTL DEF IInv, SentInv

\* The image never forgets an order whose finalize request was sent.
THEOREM IntentNeverForgotten == Spec => []IntentKept
  BY Invariance, PTL DEF IInv, SentInv

\* A finalize request is only ever sent under its own, still valid intent.
THEOREM FinalizesUnderIntent == Spec => FinalizeUnderIntent
  <1>1. ASSUME IInv, [Next]_vars, finalized' /= finalized
        PROVE  /\ Intended(op.url, Current)
               /\ issuance.started <= now
               /\ issuance.saved = 0
               /\ order.state = "domain-verified"
               /\ request.state = "key-prepared"
    <2>1. SendFinalize
      BY <1>1
      DEF Next, vars, sent, Tick, Abandon, BeginOrder, NewOrder, Checkpoint,
          BeginResume, FinishInstructions, Acknowledge, BeginValidation, ReadStatus,
          SendAccept, FinishValidation, PrepareRequest, BeginIssuance, BeginFetch,
          ReadFinalizeAnswer, FinishObserve, FinishComplete, ImportCertificate,
          DeleteRecord, CloseRequest, Validate, FinalizeArrives, Issue, Reject
    <2>2. op.kind = "finalize" /\ Permitted
      BY <2>1 DEF SendFinalize
    <2>. QED
      BY <1>1, <2>2 DEF IInv, OpInv, Permitted, Intended, Current
  <1>. QED
    BY <1>1, Invariance, PTL DEF Spec, FinalizeUnderIntent

----------------------------------------------------------------------------
(* Custody: the key of an order, the certificate it became and the         *)
(* certificate an open renewal replaces                                    *)

\* Where the key of the scope s is, c being the saved certificates: prepared
\* until its pair is saved, in the pair until that is deleted.
Keyed(s, c) ==
    /\ s.issuance.started = 0 => s.issuance.saved = 0
    /\ s.issuance.saved = 0 =>
           /\ s.issuance.deleted = 0
           /\ s.request.state /= "key-transferred"
           /\ s.issuance.started /= 0 => s.request.state = "key-prepared"
    /\ s.issuance.saved /= 0 =>
           /\ s.issuance.deleted = 0 => s.request.state = "key-transferred"
           /\ s.issuance.deleted /= 0 => s.request.state = "none"
    /\ s.order.url \in Urls =>
           (c[s.order.url] = "pair"
                <=> s.issuance.saved /= 0 /\ s.issuance.deleted = 0)

\* Each order has one scope, and a saved pair belongs to the scope of its order.
CustodyInv ==
    /\ Keyed(Current, certs)
    /\ ~Placed => request.state = "none"
    /\ \A i \in DOMAIN closed :
           /\ Keyed(closed[i], certs)
           /\ closed[i].order.url \in Urls
           /\ closed[i].at /= 0
    /\ \A i, j \in DOMAIN closed : closed[i].order.url = closed[j].order.url => i = j
    /\ \A u \in Urls : certs[u] = "pair" => u = order.url \/ u \in ClosedUrls
    /\ AnchorHeld

\* The steps that leave every key, certificate and closed request where it is.
Quiet ==
    \/ Tick
    \/ Abandon
    \/ \E u \in Urls : NewOrder(u) \/ CaStep(u)
    \/ BeginResume
    \/ \E e \in Stamp : FinishInstructions(e) \/ FinishValidation(e)
    \/ Acknowledge
    \/ BeginValidation
    \/ ReadStatus
    \/ SendAccept
    \/ BeginFetch
    \/ SendFinalize
    \/ ReadFinalizeAnswer
    \/ UNCHANGED vars

\* They keep the order's identity and all the rest of the image.
LEMMA QuietKeeps ==
    ASSUME TypeOK, Quiet
    PROVE  /\ order'.url = order.url /\ order'.source = order.source
           /\ UNCHANGED <<request, issuance, closed, certs>>
  <1>1. order \in Orders
    BY DEF TypeOK
  <1>2. CASE UNCHANGED image
    BY <1>2 DEF image
  <1>3. CASE \E e \in Stamp : FinishInstructions(e)
    BY <1>1, <1>3 DEF FinishInstructions, Orders
  <1>4. CASE \E e \in Stamp : FinishValidation(e)
    BY <1>1, <1>4 DEF FinishValidation, Orders
  <1>5. CASE Acknowledge \/ BeginValidation
    BY <1>1, <1>5 DEF Acknowledge, BeginValidation, Orders
  <1>6. CASE Tick \/ Abandon \/ \E u \in Urls : NewOrder(u) \/ CaStep(u)
    BY <1>2, <1>6
    DEF Tick, Abandon, NewOrder, CaStep, Validate, FinalizeArrives, Issue, Reject
  <1>7. CASE BeginResume \/ ReadStatus \/ SendAccept \/ BeginFetch
             \/ SendFinalize \/ ReadFinalizeAnswer \/ UNCHANGED vars
    BY <1>2, <1>7
    DEF BeginResume, ReadStatus, SendAccept, BeginFetch, SendFinalize,
        ReadFinalizeAnswer, vars
  <1>. QED BY <1>3, <1>4, <1>5, <1>6, <1>7 DEF Quiet

\* Next, sorted by what a step does to the keys.
LEMMA StepSorts ==
    ASSUME [Next]_vars
    PROVE  \/ Quiet
           \/ \E source \in Urls \cup {NoUrl} : BeginOrder(source)
           \/ Checkpoint
           \/ PrepareRequest
           \/ BeginIssuance
           \/ \E e \in Stamp : FinishObserve(e)
           \/ \E e \in Stamp : FinishComplete(e)
           \/ \E u \in Urls : ImportCertificate(u)
           \/ \E u \in Urls : DeleteRecord(u)
           \/ CloseRequest
  BY DEF Next, Quiet, CaStep

\* The fields of the current request.
LEMMA CurrentFields ==
    /\ Current.order = order
    /\ Current.request = request
    /\ Current.issuance = issuance
  BY DEF Current

\* An order without a URL has no key and no intent.
LEMMA UnplacedEmpty ==
    ASSUME IInv, CustodyInv, ~Placed
    PROVE  /\ order.url = NoUrl
           /\ request.state = "none"
           /\ issuance.started = 0 /\ issuance.saved = 0 /\ issuance.deleted = 0
  BY CurrentType, CurrentFields DEF IInv, OrderInv, CustodyInv, Keyed, Placed

\* With the same order URL, keys and certificates custody is the same.
LEMMA CustodyFrame ==
    ASSUME CustodyInv,
           order'.url = order.url, order'.source = order.source,
           UNCHANGED <<request, issuance, closed, certs>>
    PROVE  CustodyInv'
  <1>1. Keyed(Current, certs)'
    BY DEF CustodyInv, Keyed, Current
  <1>. QED BY <1>1 DEF CustodyInv, Keyed, Placed, ClosedUrls, AnchorHeld

\* A scope whose certificate is not touched stays keyed.
LEMMA KeyedFrame ==
    ASSUME NEW s, NEW c, NEW d, Keyed(s, c),
           s.order.url \in Urls => (c[s.order.url] = "pair" <=> d[s.order.url] = "pair")
    PROVE  Keyed(s, d)
  BY DEF Keyed

\* Beginning an order or a renewal preserves custody: the source has its pair.
LEMMA BeginOrderCustody ==
    ASSUME IInv, CustodyInv, NEW source \in Urls \cup {NoUrl}, BeginOrder(source)
    PROVE  CustodyInv'
  <1>1. /\ order.state = "not-started"
        /\ source /= NoUrl => RenewalSource(source)
        /\ order' = [NoOrder EXCEPT !.state = "request-pending", !.source = source,
                                    !.started = now]
        /\ UNCHANGED <<request, issuance, closed, certs>>
    BY DEF BeginOrder
  <1>2. ~Placed
    BY <1>1 DEF IInv, OrderInv
  <1>3. order'.url = NoUrl /\ order'.source = source
    BY <1>1 DEF NoOrder
  <1>4. Keyed(Current, certs)'
    BY <1>1, <1>2, <1>3, UnplacedEmpty, ConstantsAssumption DEF Keyed, Current
  <1>5. AnchorHeld'
    <2>. SUFFICES ASSUME source /= NoUrl PROVE certs[source] = "pair"
      BY <1>1, <1>3 DEF AnchorHeld
    <2>1. PICK i \in DOMAIN closed :
              /\ closed[i].order.url = source
              /\ closed[i].issuance.saved /= 0
              /\ closed[i].issuance.deleted = 0
      BY <1>1 DEF RenewalSource
    <2>. QED BY <2>1 DEF CustodyInv, Keyed
  <1>6. order.url = NoUrl
    BY <1>2, UnplacedEmpty
  <1>. QED BY <1>1, <1>2, <1>3, <1>4, <1>5, <1>6 DEF CustodyInv, ClosedUrls, Placed

\* Committing the order URL preserves custody: the URL is new.
LEMMA CheckpointCustody ==
    ASSUME IInv, CustodyInv, Checkpoint PROVE CustodyInv'
  <1>1. /\ op.url \in Urls
        /\ order.state = "request-pending"
        /\ order' = [order EXCEPT !.state = "order-known", !.url = op.url]
        /\ UNCHANGED <<request, issuance, closed, certs>>
        /\ Authentic'
    BY CurrentType DEF Checkpoint, IInv
  <1>2. order'.url = op.url /\ order'.source = order.source
    BY <1>1 DEF IInv, TypeOK, Orders
  <1>3. ~Placed
    BY <1>1 DEF IInv, OrderInv
  <1>4. op.url \notin ClosedUrls
    BY <1>1, <1>2 DEF Authentic, ClosedUrls
  <1>5. op.url /= order.url
    BY <1>1, <1>3 DEF Placed
  <1>6. certs[op.url] /= "pair"
    BY <1>1, <1>4, <1>5 DEF CustodyInv
  <1>7. Keyed(Current, certs)'
    BY <1>1, <1>2, <1>3, <1>6, UnplacedEmpty DEF Keyed, Current
  <1>8. \A u \in Urls : certs[u] = "pair" => u \in ClosedUrls
    BY <1>3 DEF CustodyInv, Placed
  <1>. QED BY <1>1, <1>2, <1>7, <1>8 DEF CustodyInv, ClosedUrls, Placed, AnchorHeld

\* Preparing a key, writing an intent and saving an observation preserve custody.
LEMMA ProgressCustody ==
    ASSUME IInv, CustodyInv,
           \/ PrepareRequest
           \/ BeginIssuance
           \/ \E e \in Stamp : FinishObserve(e)
    PROVE  CustodyInv'
  <1>1. UNCHANGED <<order, closed, certs>>
    BY DEF PrepareRequest, BeginIssuance, FinishObserve
  <1>2. Placed /\ Keyed(Current, certs)'
    <2>1. CASE PrepareRequest
      <3>1. /\ issuance.started = 0 /\ order.state = "domain-verified"
            /\ request' = [state |-> "key-prepared", prepared |-> now]
            /\ issuance' = issuance
        BY <2>1 DEF PrepareRequest
      <3>2. Keyed(Current, certs)'
        BY <1>1, <3>1 DEF CustodyInv, Keyed, Current
      <3>. QED BY <3>1, <3>2 DEF IInv, OrderInv
    <2>2. CASE BeginIssuance
      <3>1. /\ issuance.started = 0 /\ order.state = "domain-verified"
            /\ request.state = "key-prepared" /\ request' = request
            /\ issuance' = [NoIssuance EXCEPT !.started = now, !.expires = order.expires]
        BY <2>2 DEF BeginIssuance, IssuanceWindow, Intent
      <3>2. issuance'.started = now /\ issuance'.saved = 0 /\ issuance'.deleted = 0
        BY <3>1 DEF NoIssuance
      <3>3. Keyed(Current, certs)'
        BY <1>1, <3>1, <3>2, CurrentType DEF IInv, CustodyInv, Keyed, Current
      <3>. QED BY <3>1, <3>3 DEF IInv, OrderInv
    <2>3. ASSUME NEW e \in Stamp, FinishObserve(e)
          PROVE  Placed /\ Keyed(Current, certs)'
      <3>1. /\ op.kind \in {"finalize", "fetch"} /\ request' = request
            /\ issuance' = [issuance EXCEPT !.observation = op.answer,
                                            !.checked = now, !.expires = e]
        BY <2>3 DEF FinishObserve
      <3>2. /\ issuance'.started = issuance.started /\ issuance'.saved = issuance.saved
            /\ issuance'.deleted = issuance.deleted
        BY <3>1 DEF IInv, TypeOK, Issuances
      <3>3. Keyed(Current, certs)'
        BY <1>1, <3>1, <3>2 DEF CustodyInv, Keyed, Current
      <3>. QED BY <3>1, <3>3 DEF IInv, OpInv
    <2>. QED BY <2>1, <2>2, <2>3
  <1>. QED BY <1>1, <1>2 DEF CustodyInv, Placed, ClosedUrls, AnchorHeld

\* Saving the pair preserves custody: its key leaves the request with it.
LEMMA FinishCompleteCustody ==
    ASSUME IInv, CustodyInv, NEW e \in Stamp, FinishComplete(e) PROVE CustodyInv'
  <1>1. /\ op.kind \in {"finalize", "fetch"}
        /\ certs[op.url] = "absent"
        /\ certs' = [certs EXCEPT ![op.url] = "pair"]
        /\ request' = [request EXCEPT !.state = "key-transferred"]
        /\ issuance' = [issuance EXCEPT !.observation = "", !.checked = 0,
                                        !.expires = e, !.saved = now]
        /\ issuance.saved = 0
        /\ UNCHANGED <<order, closed>>
    BY DEF FinishComplete
  <1>2. /\ op.url = order.url /\ order.url \in Urls /\ order.url \notin ClosedUrls
        /\ issuance.started /= 0
    BY <1>1 DEF IInv, OpInv, OrderInv, Placed
  <1>3. /\ certs' \in [Urls -> {"absent", "public", "pair"}]
        /\ certs'[order.url] = "pair"
        /\ \A u \in Urls : u /= order.url => certs'[u] = certs[u]
    BY <1>1, <1>2 DEF IInv, TypeOK
  <1>4. /\ issuance'.started = issuance.started /\ issuance'.saved = now
        /\ issuance'.deleted = issuance.deleted /\ now /= 0
        /\ request'.state = "key-transferred"
    BY <1>1, CurrentType DEF IInv, TypeOK, Issuances, Requests
  <1>5. Keyed(Current, certs)'
    BY <1>1, <1>2, <1>3, <1>4 DEF CustodyInv, Keyed, Current
  <1>6. ASSUME NEW i \in DOMAIN closed PROVE Keyed(closed[i], certs')
    <2>1. closed[i].order.url \in Urls /\ closed[i].order.url /= order.url
      BY <1>2 DEF CustodyInv, ClosedUrls
    <2>. QED BY <1>3, <2>1, KeyedFrame DEF CustodyInv
  <1>7. AnchorHeld'
    BY <1>1, <1>2, <1>3 DEF CustodyInv, AnchorHeld, IInv, TypeOK, Orders
  <1>8. \A u \in Urls : certs'[u] = "pair" => u = order'.url \/ u \in ClosedUrls'
    BY <1>1, <1>2, <1>3 DEF CustodyInv, ClosedUrls
  <1>9. Placed'
    BY <1>1, <1>2 DEF Placed
  <1>. QED BY <1>1, <1>5, <1>6, <1>7, <1>8, <1>9 DEF CustodyInv

\* Importing an absent certificate preserves custody: it brings no key.
LEMMA ImportCustody ==
    ASSUME IInv, CustodyInv, NEW u \in Urls, ImportCertificate(u) PROVE CustodyInv'
  <1>1. /\ certs[u] = "absent"
        /\ certs' = [certs EXCEPT ![u] = "public"]
        /\ UNCHANGED <<order, request, issuance, closed>>
    BY DEF ImportCertificate
  <1>2. \A v \in Urls : certs'[v] = "pair" <=> certs[v] = "pair"
    BY <1>1 DEF IInv, TypeOK
  <1>3. Keyed(Current, certs)'
    BY <1>1, <1>2 DEF CustodyInv, Keyed, Current
  <1>4. \A i \in DOMAIN closed : Keyed(closed[i], certs')
    BY <1>2, KeyedFrame DEF CustodyInv
  <1>5. AnchorHeld'
    BY <1>1, <1>2 DEF CustodyInv, AnchorHeld, IInv, TypeOK, Orders
  <1>. QED BY <1>1, <1>2, <1>3, <1>4, <1>5 DEF CustodyInv, Placed, ClosedUrls

\* What a tombstone writes into a closed scope.
LEMMA TombstoneClosedMarks ==
    ASSUME TypeOK, NEW u \in Urls, NEW s \in Scopes
    PROVE  /\ ~SavedBy(s, u) => Tombstone(s, u) = s
           /\ SavedBy(s, u) =>
                  /\ Tombstone(s, u).request = NoRequest
                  /\ Tombstone(s, u).issuance =
                         [s.issuance EXCEPT !.deleted = now, !.deletedAfter = Len(closed)]
                  /\ Tombstone(s, u).issuance.deleted = now
                  /\ Tombstone(s, u).issuance.deletedAfter = Len(closed)
                  /\ Tombstone(s, u).reason = s.reason
  <1>1. CASE SavedBy(s, u)
    <2> DEFINE issued == [s.issuance EXCEPT !.deleted = now,
                                            !.deletedAfter = Len(closed)]
    <2>1. issued.deleted = now /\ issued.deletedAfter = Len(closed)
      BY DEF Scopes, Issuances
    <2>2. Tombstone(s, u) = [s EXCEPT !.request = NoRequest, !.issuance = issued]
      BY <1>1 DEF Tombstone
    <2>. HIDE DEF issued
    <2>3. /\ Tombstone(s, u).request = NoRequest
          /\ Tombstone(s, u).issuance = issued
          /\ Tombstone(s, u).reason = s.reason
      BY <2>2 DEF Scopes
    <2>. QED BY <1>1, <2>1, <2>3 DEF issued
  <1>2. CASE ~SavedBy(s, u)
    BY <1>2 DEF Tombstone
  <1>. QED BY <1>1, <1>2

\* What a tombstone writes into the current request.
LEMMA TombstoneCurrentMarks ==
    ASSUME TypeOK, NEW u \in Urls
    PROVE  /\ ~SavedBy(Current, u) => /\ Tombstone(Current, u).request = request
                                      /\ Tombstone(Current, u).issuance = issuance
           /\ SavedBy(Current, u) =>
                  /\ Tombstone(Current, u).request = NoRequest
                  /\ Tombstone(Current, u).issuance =
                         [issuance EXCEPT !.deleted = now, !.deletedAfter = Len(closed)]
                  /\ Tombstone(Current, u).issuance.deleted = now
  <1>1. CASE SavedBy(Current, u)
    <2>1. /\ Tombstone(Current, u).request = NoRequest
          /\ Tombstone(Current, u).issuance =
                 [issuance EXCEPT !.deleted = now, !.deletedAfter = Len(closed)]
      BY <1>1 DEF Tombstone, Current
    <2>. QED BY <1>1, <2>1 DEF TypeOK, Issuances
  <1>2. CASE ~SavedBy(Current, u)
    BY <1>2 DEF Tombstone, Current
  <1>. QED BY <1>1, <1>2

\* Deleting a certificate preserves custody: its tombstone takes the key, too.
LEMMA DeleteRecordCustody ==
    ASSUME IInv, CustodyInv, NEW u \in Urls, DeleteRecord(u) PROVE CustodyInv'
  <1>1. /\ order.source /= u
        /\ certs' = [certs EXCEPT ![u] = "absent"]
        /\ request' = Tombstone(Current, u).request
        /\ issuance' = Tombstone(Current, u).issuance
        /\ closed' = [i \in DOMAIN closed |-> Tombstone(closed[i], u)]
        /\ order' = order
    BY DEF DeleteRecord, RenewalSourceInUse, TombstoneClosed
  <1>2. TypeOK
    BY DEF IInv
  <1>3. /\ certs'[u] = "absent"
        /\ \A v \in Urls : v /= u => certs'[v] = certs[v]
    BY <1>1, <1>2 DEF TypeOK
  <1>4. now /= 0 /\ NoRequest.state = "none"
    BY <1>2, CurrentType DEF NoRequest
  <1>5. Keyed(Current, certs)'
    <2>1. /\ issuance'.started = issuance.started
          /\ issuance'.saved = issuance.saved
      BY <1>1, <1>2, TombstoneCurrentKeeps
    <2>2. CASE SavedBy(Current, u)
      <3>1. /\ request'.state = "none" /\ issuance'.deleted = now
            /\ issuance.saved /= 0 /\ order.url = u
        BY <1>1, <1>2, <1>4, <2>2, TombstoneCurrentMarks DEF SavedBy, Current
      <3>. QED BY <1>1, <1>3, <1>4, <2>1, <3>1 DEF CustodyInv, Keyed, Current
    <2>3. CASE ~SavedBy(Current, u)
      <3>1. /\ request' = request /\ issuance' = issuance
            /\ issuance.saved = 0 \/ order.url /= u
        BY <1>1, <1>2, <2>3, TombstoneCurrentMarks DEF SavedBy, Current
      <3>. QED BY <1>1, <1>3, <3>1 DEF CustodyInv, Keyed, Current
    <2>. QED BY <2>2, <2>3
  <1>6. DOMAIN closed' = DOMAIN closed
    BY <1>1
  <1>7. ASSUME NEW i \in DOMAIN closed
        PROVE  /\ Keyed(closed'[i], certs')
               /\ closed'[i].order = closed[i].order
               /\ closed'[i].at = closed[i].at
    <2>1. closed'[i] = Tombstone(closed[i], u) /\ closed[i] \in Scopes
      BY <1>1, <1>2, ClosedScopes
    <2>2. /\ closed'[i].order = closed[i].order
          /\ closed'[i].at = closed[i].at
          /\ closed'[i].issuance.started = closed[i].issuance.started
          /\ closed'[i].issuance.saved = closed[i].issuance.saved
      BY <1>2, <2>1, TombstoneClosedKeeps
    <2>3. Keyed(closed[i], certs)
      BY DEF CustodyInv
    <2>4. CASE SavedBy(closed[i], u)
      <3>1. closed[i].issuance.saved /= 0 /\ closed[i].order.url = u
        BY <2>4 DEF SavedBy
      <3>2. closed'[i].request = NoRequest /\ closed'[i].issuance.deleted = now
        BY <1>2, <2>1, <2>4, TombstoneClosedMarks
      <3>3. closed'[i].request.state = "none"
        BY <1>4, <3>2
      <3>. QED BY <1>3, <1>4, <2>2, <2>3, <3>1, <3>2, <3>3 DEF Keyed
    <2>5. CASE ~SavedBy(closed[i], u)
      <3>1. closed'[i] = closed[i]
        BY <1>2, <2>1, <2>5, TombstoneClosedMarks
      <3>2. closed[i].issuance.saved = 0 \/ closed[i].order.url /= u
        BY <2>5 DEF SavedBy
      <3>. QED BY <1>3, <2>3, <3>1, <3>2 DEF Keyed
    <2>. QED BY <2>4, <2>5
  <1>8. ClosedUrls' = ClosedUrls
    BY <1>6, <1>7 DEF ClosedUrls
  <1>9. \A v \in Urls : certs'[v] = "pair" => v = order'.url \/ v \in ClosedUrls'
    BY <1>1, <1>3, <1>8 DEF CustodyInv
  <1>10. ~Placed' => request'.state = "none"
    <2>1. CASE SavedBy(Current, u)
      BY <1>1, <1>2, <1>4, <2>1, TombstoneCurrentMarks
    <2>2. CASE ~SavedBy(Current, u)
      BY <1>1, <1>2, <2>2, TombstoneCurrentMarks DEF CustodyInv, Placed
    <2>. QED BY <2>1, <2>2
  <1>11. AnchorHeld'
    BY <1>1, <1>2, <1>3 DEF CustodyInv, AnchorHeld, TypeOK, Orders
  <1>. QED BY <1>5, <1>6, <1>7, <1>9, <1>10, <1>11 DEF CustodyInv

\* What CloseRequest leaves: one more scope, and no request.
LEMMA CloseRequestMoves ==
    ASSUME TypeOK, CloseRequest
    PROVE  \E s \in Scopes :
               /\ s.at = now /\ s.reason = CloseReason(Current, now)
               /\ s.order = order /\ s.request = request /\ s.issuance = issuance
               /\ s.reason \in {"complete", "expired"}
               /\ closed' = Append(closed, s)
               /\ closed' \in Seq(Scopes)
               /\ Len(closed') = Len(closed) + 1
               /\ DOMAIN closed' = DOMAIN closed \cup {Len(closed) + 1}
               /\ closed'[Len(closed) + 1] = s
               /\ \A i \in DOMAIN closed : closed'[i] = closed[i]
               /\ order' = NoOrder /\ request' = NoRequest /\ issuance' = NoIssuance
               /\ UNCHANGED <<now, certs, op, ca, sent>>
  <1> DEFINE reason == CloseReason(Current, now)
             scope == ClosedScope(reason)
  <1>1. /\ reason \in {"complete", "expired"}
        /\ closed' = Append(closed, scope)
        /\ order' = NoOrder /\ request' = NoRequest /\ issuance' = NoIssuance
        /\ UNCHANGED <<now, certs, op, ca, sent>>
    BY DEF CloseRequest
  <1>. HIDE DEF reason
  <1>2. /\ scope \in Scopes /\ scope.order = order /\ scope.issuance = issuance
        /\ scope.request = request /\ scope.at = now /\ scope.reason = reason
    BY <1>1, CurrentType DEF TypeOK, ClosedScope, Scopes
  <1>3. closed \in Seq(Scopes)
    BY DEF TypeOK
  <1>. HIDE DEF scope
  <1>4. /\ closed' \in Seq(Scopes) /\ Len(closed') = Len(closed) + 1
        /\ DOMAIN closed' = DOMAIN closed \cup {Len(closed) + 1}
        /\ closed'[Len(closed) + 1] = scope
        /\ \A i \in DOMAIN closed : closed'[i] = closed[i]
    BY <1>1, <1>2, <1>3
  <1>. QED BY <1>1, <1>2, <1>4 DEF reason

\* A request that may be closed has an order, known to the CA.
LEMMA ClosableIsPlaced ==
    ASSUME TypeOK, CloseReason(Current, now) \in {"complete", "expired"}
    PROVE  Placed
  <1>1. order.url /= NoUrl
    BY CurrentFields DEF CloseReason
  <1>. QED BY <1>1, CurrentType DEF Placed

\* Closing the request preserves custody: the key moves with it.
LEMMA CloseRequestCustody ==
    ASSUME IInv, CustodyInv, CloseRequest PROVE CustodyInv'
  <1>1. TypeOK
    BY DEF IInv
  <1>2. PICK s \in Scopes :
               /\ s.at = now /\ s.reason = CloseReason(Current, now)
               /\ s.order = order /\ s.request = request /\ s.issuance = issuance
               /\ s.reason \in {"complete", "expired"}
               /\ DOMAIN closed' = DOMAIN closed \cup {Len(closed) + 1}
               /\ closed'[Len(closed) + 1] = s
               /\ \A i \in DOMAIN closed : closed'[i] = closed[i]
               /\ order' = NoOrder /\ request' = NoRequest /\ issuance' = NoIssuance
               /\ UNCHANGED certs
    BY <1>1, CloseRequestMoves
  <1>3. Placed
    BY <1>1, <1>2, ClosableIsPlaced
  <1>4. order.url \notin ClosedUrls
    BY <1>3 DEF IInv, OrderInv
  <1>5. Keyed(s, certs)
    BY <1>2, CurrentFields DEF CustodyInv, Keyed
  <1>6. Keyed(Current, certs)'
    BY <1>2, ConstantsAssumption DEF Keyed, Current, NoOrder, NoRequest, NoIssuance
  <1>7. ASSUME NEW i \in DOMAIN closed'
        PROVE  /\ Keyed(closed'[i], certs')
               /\ closed'[i].order.url \in Urls
               /\ closed'[i].at /= 0
    BY <1>1, <1>2, <1>3, <1>5, CurrentType DEF CustodyInv, Placed
  <1>8. ASSUME NEW i \in DOMAIN closed', NEW j \in DOMAIN closed',
               closed'[i].order.url = closed'[j].order.url
        PROVE  i = j
    BY <1>2, <1>4, <1>8 DEF CustodyInv, ClosedUrls
  <1>9. ClosedUrls' = ClosedUrls \cup {order.url}
    BY <1>2 DEF ClosedUrls
  <1>10. \A u \in Urls : certs'[u] = "pair" => u = order'.url \/ u \in ClosedUrls'
    BY <1>2, <1>9 DEF CustodyInv
  <1>11. AnchorHeld' /\ request'.state = "none"
    BY <1>2 DEF AnchorHeld, NoOrder, NoRequest
  <1>. QED BY <1>6, <1>7, <1>8, <1>10, <1>11 DEF CustodyInv

\* The empty inventory keeps custody.
LEMMA InitCustody == Init => CustodyInv
  <1> SUFFICES ASSUME Init PROVE CustodyInv
    OBVIOUS
  <1>1. /\ order = NoOrder /\ request = NoRequest /\ issuance = NoIssuance
        /\ closed = <<>> /\ DOMAIN closed = {}
        /\ certs = [u \in Urls |-> "absent"]
    BY DEF Init
  <1>2. Keyed(Current, certs)
    BY <1>1 DEF Keyed, Current, NoOrder, NoRequest, NoIssuance
  <1>. QED BY <1>1, <1>2 DEF CustodyInv, NoRequest, AnchorHeld, NoOrder

\* Every step of the flow preserves custody.
LEMMA StepCustody == IInv /\ CustodyInv /\ [Next]_vars => CustodyInv'
  <1> SUFFICES ASSUME IInv, CustodyInv, [Next]_vars PROVE CustodyInv'
    OBVIOUS
  <1>1. CASE Quiet
    BY <1>1, QuietKeeps, CustodyFrame DEF IInv
  <1>2. CASE \E source \in Urls \cup {NoUrl} : BeginOrder(source)
    BY <1>2, BeginOrderCustody
  <1>3. CASE Checkpoint
    BY <1>3, CheckpointCustody
  <1>4. CASE PrepareRequest \/ BeginIssuance \/ \E e \in Stamp : FinishObserve(e)
    BY <1>4, ProgressCustody
  <1>5. CASE \E e \in Stamp : FinishComplete(e)
    BY <1>5, FinishCompleteCustody
  <1>6. CASE \E u \in Urls : ImportCertificate(u)
    BY <1>6, ImportCustody
  <1>7. CASE \E u \in Urls : DeleteRecord(u)
    BY <1>7, DeleteRecordCustody
  <1>8. CASE CloseRequest
    BY <1>8, CloseRequestCustody
  <1>. QED BY <1>1, <1>2, <1>3, <1>4, <1>5, <1>6, <1>7, <1>8, StepSorts

\* Custody is kept in every state of every behaviour of the flow.
LEMMA CustodyAlways == Spec => []CustodyInv
  <1>1. Spec => CustodyInv
    BY InitCustody DEF Spec
  <1>. QED BY <1>1, Invariance, StepCustody, PTL DEF Spec

\* A key has at most one holder, and one if its certificate was asked for.
LEMMA CustodyHolds == IInv /\ CustodyInv => Custody
  <1> SUFFICES ASSUME IInv, CustodyInv PROVE Custody
    OBVIOUS
  <1> SUFFICES ASSUME NEW u \in Urls
               PROVE  /\ Cardinality(KeyHolders(u)) <= 1
                      /\ finalized[u] > 0 /\ ~Tombstoned(u) => KeyHolders(u) /= {}
    BY DEF Custody, KeyHeldOnce, CustodyInv
  <1>1. DOMAIN closed = 1 .. Len(closed) /\ Len(closed) \in Nat
    BY ClosedScopes DEF IInv
  <1>2. order.url = u => u \notin ClosedUrls
    BY DEF IInv, OrderInv, Placed
  <1>3. ASSUME NEW i \in DOMAIN closed, closed[i].order.url = u
        PROVE  closed[i].request.state = "key-prepared" => certs[u] /= "pair"
    BY <1>3 DEF CustodyInv, Keyed
  <1>4. order.url = u /\ request.state = "key-prepared" => certs[u] /= "pair"
    BY CurrentFields DEF CustodyInv, Keyed
  <1>5. \A x, y \in KeyHolders(u) : x = y
    BY <1>1, <1>2, <1>3, <1>4 DEF KeyHolders, CustodyInv, ClosedUrls
  <1>6. Cardinality(KeyHolders(u)) <= 1
    <2>1. CASE KeyHolders(u) = {}
      BY <2>1, FS_EmptySet
    <2>2. CASE KeyHolders(u) /= {}
      <3>1. PICK x : x \in KeyHolders(u)
        BY <2>2
      <3>2. KeyHolders(u) = {x}
        BY <1>5, <3>1
      <3>3. Cardinality({x}) = 1
        BY FS_Singleton
      <3>. QED BY <3>2, <3>3
    <2>. QED BY <2>1, <2>2
  <1>7. ASSUME finalized[u] > 0, ~Tombstoned(u) PROVE KeyHolders(u) /= {}
    <2>1. CASE Intended(u, Current)
      <3>1. order.url = u /\ issuance.started /= 0
        BY <2>1, CurrentFields DEF Intended
      <3>2. issuance.saved /= 0 => issuance.deleted = 0
        BY <1>7, <3>1, CurrentFields DEF Tombstoned, Deleted
      <3>3. request.state = "key-prepared" \/ certs[u] = "pair"
        BY <3>1, <3>2, CurrentFields DEF CustodyInv, Keyed
      <3>. QED BY <3>1, <3>3 DEF KeyHolders
    <2>2. ASSUME NEW i \in DOMAIN closed, Intended(u, closed[i])
          PROVE  KeyHolders(u) /= {}
      <3>1. closed[i].order.url = u /\ closed[i].issuance.started /= 0
        BY <2>2 DEF Intended
      <3>2. closed[i].issuance.saved /= 0 => closed[i].issuance.deleted = 0
        BY <1>7, <3>1 DEF Tombstoned, Deleted
      <3>3. Keyed(closed[i], certs)
        BY DEF CustodyInv
      <3>4. closed[i].request.state = "key-prepared" \/ certs[u] = "pair"
        BY <3>1, <3>2, <3>3 DEF Keyed
      <3>. QED BY <3>1, <3>4 DEF KeyHolders
    <2>. QED BY <1>7, <2>1, <2>2 DEF IInv, SentInv, IntentKept
  <1>. QED BY <1>6, <1>7

\* The private key of every order is in one place, from the day its certificate
\* was asked for to the day its pair is deleted, whatever crashes, closures and
\* imports happen; and a renewal never loses the certificate it renews.
THEOREM KeysInCustody == Spec => []Custody
  BY Invariance, CustodyAlways, CustodyHolds, PTL

----------------------------------------------------------------------------
(* The ledger of closed requests, and the deadline of an order             *)

\* Deleting a certificate marks the one closed request that saved it, and that
\* was not marked before.
LEMMA DeleteRecordLedger ==
    ASSUME IInv, CustodyInv, NEW u \in Urls, DeleteRecord(u)
    PROVE  /\ DOMAIN closed' = DOMAIN closed
           /\ Len(closed') = Len(closed)
           /\ \A i \in DOMAIN closed :
                  /\ closed'[i].order = closed[i].order
                  /\ closed'[i].at = closed[i].at
                  /\ closed'[i].issuance.started = closed[i].issuance.started
                  /\ closed'[i].issuance.saved = closed[i].issuance.saved
                  /\ closed'[i] /= closed[i] =>
                         /\ SavedBy(closed[i], u)
                         /\ ~Deleted(closed[i]) /\ Deleted(closed'[i])
                         /\ closed'[i].issuance.deleted = now
                         /\ closed'[i].request.state = "none"
  <1>1. TypeOK
    BY DEF IInv
  <1>2. /\ closed' = [i \in DOMAIN closed |-> Tombstone(closed[i], u)]
        /\ certs[u] /= "absent"
        /\ Authentic
    BY DEF DeleteRecord, TombstoneClosed
  <1>3. DOMAIN closed' = DOMAIN closed /\ Len(closed') = Len(closed)
    BY <1>1, <1>2, ClosedScopes
  <1>4. now /= 0 /\ NoRequest.state = "none"
    BY <1>1, CurrentType DEF NoRequest
  <1>5. ASSUME NEW i \in DOMAIN closed
        PROVE  /\ closed'[i].order = closed[i].order
               /\ closed'[i].at = closed[i].at
               /\ closed'[i].issuance.started = closed[i].issuance.started
               /\ closed'[i].issuance.saved = closed[i].issuance.saved
               /\ closed'[i] /= closed[i] =>
                      /\ SavedBy(closed[i], u)
                      /\ ~Deleted(closed[i]) /\ Deleted(closed'[i])
                      /\ closed'[i].issuance.deleted = now
                      /\ closed'[i].request.state = "none"
    <2>1. closed'[i] = Tombstone(closed[i], u) /\ closed[i] \in Scopes
      BY <1>1, <1>2, ClosedScopes
    <2>2. /\ closed'[i].order = closed[i].order
          /\ closed'[i].at = closed[i].at
          /\ closed'[i].issuance.started = closed[i].issuance.started
          /\ closed'[i].issuance.saved = closed[i].issuance.saved
      BY <1>1, <2>1, TombstoneClosedKeeps
    <2>3. ASSUME closed'[i] /= closed[i]
          PROVE  /\ SavedBy(closed[i], u)
                 /\ ~Deleted(closed[i]) /\ Deleted(closed'[i])
                 /\ closed'[i].issuance.deleted = now
                 /\ closed'[i].request.state = "none"
      <3>1. SavedBy(closed[i], u)
        BY <1>1, <2>1, <2>3, TombstoneClosedMarks
      <3>2. closed'[i].request = NoRequest /\ closed'[i].issuance.deleted = now
        BY <1>1, <2>1, <3>1, TombstoneClosedMarks
      <3>3. closed[i].order.url = u /\ closed[i].issuance.saved /= 0
        BY <3>1 DEF SavedBy
      <3>4. closed[i].issuance.started /= 0
        BY <3>3 DEF CustodyInv, Keyed
      <3>5. CompletionAuthentic(closed[i])
        BY <1>2, <3>3, <3>4
        DEF Authentic, ClosedScopeAuthentic, ScopeAuthentic, IssuanceAuthentic
      <3>6. closed[i].issuance.deleted = 0
        BY <1>2, <3>3, <3>5 DEF CompletionAuthentic
      <3>. QED BY <1>4, <2>2, <3>1, <3>2, <3>3, <3>6 DEF Deleted
    <2>. QED BY <2>2, <2>3
  <1>. QED BY <1>3, <1>5

\* A step other than a deletion or a closure leaves the closed requests alone.
LEMMA LedgerFrame ==
    ASSUME TypeOK, [Next]_vars, ~CloseRequest, \A u \in Urls : ~DeleteRecord(u)
    PROVE  closed' = closed
  <1>1. CASE Quiet
    BY <1>1, QuietKeeps
  <1>. QED
    BY <1>1, StepSorts
    DEF BeginOrder, Checkpoint, PrepareRequest, BeginIssuance, FinishObserve,
        FinishComplete, ImportCertificate

\* Closed requests stay, and an entry changes once, by its tombstone.
LEMMA StepLedger ==
    ASSUME IInv, CustodyInv, [Next]_vars
    PROVE  /\ Len(closed) <= Len(closed')
           /\ \A i \in DOMAIN closed :
                  LET s == closed[i]
                      t == closed'[i]
                  IN  /\ s.order = t.order
                      /\ s.at = t.at
                      /\ s.issuance.started = t.issuance.started
                      /\ s.issuance.saved = t.issuance.saved
                      /\ s /= t => /\ ~Deleted(s) /\ Deleted(t)
                                   /\ t.request.state = "none"
  <1>1. Len(closed) \in Nat
    BY ClosedScopes DEF IInv
  <1>2. CASE CloseRequest
    <2>1. /\ Len(closed') = Len(closed) + 1
          /\ \A i \in DOMAIN closed : closed'[i] = closed[i]
      BY <1>2, CloseRequestMoves DEF IInv
    <2>. QED BY <1>1, <2>1
  <1>3. ASSUME NEW u \in Urls, DeleteRecord(u)
        PROVE  /\ Len(closed) <= Len(closed')
               /\ \A i \in DOMAIN closed :
                      LET s == closed[i]
                          t == closed'[i]
                      IN  /\ s.order = t.order
                          /\ s.at = t.at
                          /\ s.issuance.started = t.issuance.started
                          /\ s.issuance.saved = t.issuance.saved
                          /\ s /= t => /\ ~Deleted(s) /\ Deleted(t)
                                       /\ t.request.state = "none"
    BY <1>1, <1>3, DeleteRecordLedger
  <1>4. CASE closed' = closed
    BY <1>1, <1>4
  <1>. QED BY <1>2, <1>3, <1>4, LedgerFrame DEF IInv

\* The ledger of closed requests is append-only but for tombstones.
THEOREM ClosedOnlyMarked == Spec => ClosedKept
  BY Invariance, CustodyAlways, StepLedger, PTL DEF Spec, ClosedKept

\* A saved pair stays with the current request until that is closed.
LEMMA SavedStays ==
    ASSUME IInv, CustodyInv, [Next]_vars, ~CloseRequest, issuance.saved /= 0
    PROVE  issuance'.saved /= 0 /\ order'.source = order.source
  <1>1. TypeOK /\ order \in Orders /\ issuance \in Issuances
    BY DEF IInv, TypeOK
  <1>2. Placed /\ issuance.started /= 0
    BY UnplacedEmpty, CurrentFields DEF CustodyInv, Keyed
  <1>3. order.state \notin {"not-started", "request-pending"}
    BY <1>2 DEF IInv, OrderInv
  <1>4. CASE Quiet
    BY <1>1, <1>4, QuietKeeps
  <1>5. \A source \in Urls \cup {NoUrl} : ~BeginOrder(source)
    BY <1>3 DEF BeginOrder
  <1>6. ~Checkpoint
    BY <1>3 DEF Checkpoint
  <1>7. CASE PrepareRequest \/ \E u \in Urls : ImportCertificate(u)
    BY <1>7 DEF PrepareRequest, ImportCertificate
  <1>8. ~BeginIssuance
    BY <1>2 DEF BeginIssuance
  <1>9. ASSUME NEW e \in Stamp, FinishObserve(e)
        PROVE  issuance'.saved /= 0 /\ order'.source = order.source
    BY <1>1, <1>9 DEF FinishObserve, Issuances
  <1>10. \A e \in Stamp : ~FinishComplete(e)
    BY DEF FinishComplete
  <1>11. ASSUME NEW u \in Urls, DeleteRecord(u)
         PROVE  issuance'.saved /= 0 /\ order'.source = order.source
    <2>1. issuance' = Tombstone(Current, u).issuance /\ order' = order
      BY <1>11 DEF DeleteRecord
    <2>. QED BY <1>1, <2>1, TombstoneCurrentKeeps
  <1>. QED BY <1>4, <1>5, <1>6, <1>7, <1>8, <1>9, <1>10, <1>11, StepSorts

\* No step takes back that a certificate was superseded.
LEMMA StepSuperseded ==
    ASSUME IInv, CustodyInv, [Next]_vars PROVE Superseded \subseteq Superseded'
  <1> SUFFICES ASSUME NEW x \in Superseded PROVE x \in Superseded'
    OBVIOUS
  <1>1. /\ x /= NoUrl
        /\ \/ issuance.saved /= 0 /\ order.source = x
           \/ \E i \in DOMAIN closed :
                  closed[i].issuance.saved /= 0 /\ closed[i].order.source = x
    BY CurrentFields DEF Superseded
  <1>2. ASSUME \/ issuance'.saved /= 0 /\ order'.source = x
               \/ \E i \in DOMAIN closed' :
                      closed'[i].issuance.saved /= 0 /\ closed'[i].order.source = x
        PROVE  x \in Superseded'
    <2>1. Current'.issuance = issuance' /\ Current'.order = order'
      BY DEF Current
    <2>. QED BY <1>1, <1>2, <2>1 DEF Superseded
  <1>3. ASSUME issuance.saved /= 0, order.source = x PROVE x \in Superseded'
    <2>1. CASE CloseRequest
      <3>1. \E i \in DOMAIN closed' :
                closed'[i].order = order /\ closed'[i].issuance = issuance
        BY <2>1, CloseRequestMoves DEF IInv
      <3>. QED BY <1>2, <1>3, <3>1
    <2>2. CASE ~CloseRequest
      BY <1>2, <1>3, <2>2, SavedStays
    <2>. QED BY <2>1, <2>2
  <1>4. ASSUME NEW i \in DOMAIN closed,
               closed[i].issuance.saved /= 0, closed[i].order.source = x
        PROVE  x \in Superseded'
    <2>1. /\ closed'[i].order = closed[i].order
          /\ closed'[i].issuance.saved = closed[i].issuance.saved
          /\ Len(closed) <= Len(closed')
      BY StepLedger
    <2>2. IInv'
      BY StepInv
    <2>3. DOMAIN closed' = 1 .. Len(closed') /\ Len(closed') \in Nat
      <3>1. closed' \in Seq(Scopes)
        BY <2>2 DEF IInv, TypeOK
      <3>. QED BY <3>1
    <2>4. i \in DOMAIN closed'
      BY <2>1, <2>3, ClosedScopes DEF IInv
    <2>. QED BY <1>2, <1>4, <2>1, <2>4
  <1>. QED BY <1>1, <1>3, <1>4

\* What the ledger says of the past is kept: its closed requests, and which
\* certificates a completed renewal has replaced.
THEOREM LedgerNeverRewritten == Spec => LedgerKept
  <1>1. Spec => SupersededKept
    BY Invariance, CustodyAlways, StepSuperseded, PTL DEF Spec, SupersededKept
  <1>. QED BY <1>1, ClosedOnlyMarked DEF LedgerKept

\* The earlier of two deadlines.
LEMMA LesserBounds ==
    ASSUME NEW a \in Stamp, NEW b \in Stamp
    PROVE  Lesser(a, b) \in Stamp /\ Lesser(a, b) <= a /\ Lesser(a, b) <= b
  BY DEF Lesser, Stamp

\* The deadline of the current request, by its fields.
LEMMA DeadlineIs ==
    ASSUME TypeOK
    PROVE  /\ Deadline(Current) = IF issuance.started = 0 THEN order.expires
                                  ELSE Lesser(order.expires, issuance.expires)
           /\ Deadline(Current) \in Stamp /\ Deadline(Current) <= order.expires
  <1>1. order.expires \in Stamp /\ issuance.expires \in Stamp
    BY CurrentType
  <1>2. Deadline(Current) = IF issuance.started = 0 THEN order.expires
                            ELSE Lesser(order.expires, issuance.expires)
    BY CurrentFields DEF Deadline
  <1>3. /\ Lesser(order.expires, issuance.expires) \in Stamp
        /\ Lesser(order.expires, issuance.expires) <= order.expires
    BY <1>1, LesserBounds
  <1>4. order.expires <= order.expires
    BY <1>1 DEF Stamp
  <1>. QED BY <1>1, <1>2, <1>3, <1>4

\* Once validation has begun no step extends the deadline.
LEMMA StepDeadline ==
    ASSUME IInv, [Next]_vars, order.state \in Started, order'.url = order.url
    PROVE  Deadline(Current)' <= Deadline(Current)
  <1>1. TypeOK /\ order \in Orders /\ issuance \in Issuances /\ Placed
    BY DEF IInv, TypeOK, OrderInv, Started
  <1>2. /\ Deadline(Current) = IF issuance.started = 0 THEN order.expires
                               ELSE Lesser(order.expires, issuance.expires)
        /\ Deadline(Current) \in Stamp /\ Deadline(Current) <= order.expires
    BY <1>1, DeadlineIs
  <1>3. Deadline(Current)' = IF issuance'.started = 0 THEN order'.expires
                             ELSE Lesser(order'.expires, issuance'.expires)
    BY DEF Deadline, Current
  <1>4. Deadline(Current) <= Deadline(Current)
    BY <1>2 DEF Stamp
  <1>5. order.state \notin {"not-started", "request-pending", "order-known",
                            "dns-ready", "dns-acknowledged"}
    BY DEF Started
  <1>6. IInv'
    BY StepInv
  <1>7. order'.expires \in Stamp /\ issuance'.expires \in Stamp
    BY <1>6 DEF IInv, TypeOK, Orders, Issuances
  <1>8. ASSUME order'.expires = order.expires, issuance'.expires = issuance.expires,
               issuance'.started = issuance.started
        PROVE  Deadline(Current)' <= Deadline(Current)
    BY <1>2, <1>3, <1>4, <1>8
  <1>9. CASE UNCHANGED <<order, issuance>>
    BY <1>8, <1>9
  <1>10. CASE Quiet
    <2>1. issuance' = issuance
      BY <1>1, <1>10, QuietKeeps
    <2>2. ASSUME NEW e \in Stamp, FinishInstructions(e) PROVE FALSE
      BY <1>5, <2>2 DEF FinishInstructions
    <2>3. ASSUME NEW e \in Stamp, FinishValidation(e)
          PROVE  Deadline(Current)' <= Deadline(Current)
      <3>1. op.kind \in {"validate", "revalidate"} /\ e <= order.expires
        BY <2>3 DEF FinishValidation, VerdictWindow
      <3>2. issuance.started = 0
        BY <3>1 DEF IInv, OpInv
      <3>3. order'.expires = e
        BY <1>1, <2>3 DEF FinishValidation, Orders
      <3>. QED BY <1>2, <1>3, <2>1, <3>1, <3>2, <3>3
    <2>4. CASE Acknowledge \/ BeginValidation
      <3>1. order'.expires = order.expires
        BY <1>1, <2>4 DEF Acknowledge, BeginValidation, Orders
      <3>. QED BY <1>8, <2>1, <3>1
    <2>5. CASE Tick \/ Abandon \/ \E u \in Urls : NewOrder(u) \/ CaStep(u)
      <3>1. order' = order
        BY <2>5
        DEF Tick, Abandon, NewOrder, CaStep, Validate, FinalizeArrives, Issue,
            Reject, image
      <3>. QED BY <1>9, <2>1, <3>1
    <2>6. CASE BeginResume \/ ReadStatus \/ SendAccept \/ BeginFetch
               \/ SendFinalize \/ ReadFinalizeAnswer \/ UNCHANGED vars
      <3>1. order' = order
        BY <2>6
        DEF BeginResume, ReadStatus, SendAccept, BeginFetch, SendFinalize,
            ReadFinalizeAnswer, image, vars
      <3>. QED BY <1>9, <2>1, <3>1
    <2>. QED BY <1>10, <2>2, <2>3, <2>4, <2>5, <2>6 DEF Quiet
  <1>11. /\ ~Checkpoint
         /\ \A source \in Urls \cup {NoUrl} : ~BeginOrder(source)
    BY <1>5 DEF Checkpoint, BeginOrder
  <1>12. CASE PrepareRequest \/ \E u \in Urls : ImportCertificate(u)
    BY <1>9, <1>12 DEF PrepareRequest, ImportCertificate
  <1>13. CASE BeginIssuance
    <2>1. issuance.started = 0 /\ order' = order
      BY <1>13 DEF BeginIssuance
    <2>2. Deadline(Current)' <= order.expires
      BY <1>3, <1>7, <2>1, LesserBounds DEF Stamp
    <2>. QED BY <1>2, <2>1, <2>2
  <1>14. ASSUME NEW e \in Stamp, FinishObserve(e) \/ FinishComplete(e)
         PROVE  Deadline(Current)' <= Deadline(Current)
    <2>1. /\ e <= Deadline(Current) /\ order' = order
          /\ op.kind \in {"finalize", "fetch"}
      BY <1>14 DEF FinishObserve, FinishComplete, ReceiptWindow
    <2>2. issuance.started /= 0
      BY <2>1 DEF IInv, OpInv
    <2>3. issuance'.expires = e /\ issuance'.started = issuance.started
      BY <1>1, <1>14 DEF FinishObserve, FinishComplete, Issuances
    <2>4. Deadline(Current)' = Lesser(order.expires, e)
      BY <1>3, <2>1, <2>2, <2>3
    <2>5. Lesser(order.expires, e) \in Stamp /\ Lesser(order.expires, e) <= e
      BY <1>7, <2>1, LesserBounds
    <2>. QED BY <1>2, <2>1, <2>4, <2>5 DEF Stamp
  <1>15. ASSUME NEW u \in Urls, DeleteRecord(u)
         PROVE  Deadline(Current)' <= Deadline(Current)
    <2>1. issuance' = Tombstone(Current, u).issuance /\ order' = order
      BY <1>15 DEF DeleteRecord
    <2>2. issuance'.started = issuance.started
      BY <1>1, <2>1, TombstoneCurrentKeeps
    <2>3. issuance'.expires = issuance.expires
      BY <1>1, <2>1, TombstoneCurrentMarks DEF Issuances
    <2>. QED BY <1>8, <2>1, <2>2, <2>3
  <1>16. ~CloseRequest
    <2>. SUFFICES ASSUME CloseRequest PROVE FALSE
      OBVIOUS
    <2>1. order'.url = NoUrl
      BY DEF CloseRequest, NoOrder
    <2>. QED BY <1>1, <2>1, ConstantsAssumption DEF Placed
  <1>. QED BY <1>10, <1>11, <1>12, <1>13, <1>14, <1>15, <1>16, StepSorts

\* From the first validation on, no verdict, observation or retry extends the
\* time an order's verdict or its finalize intent is good for.
THEOREM DeadlineOnlyNarrows == Spec => DeadlineNarrows
  BY Invariance, StepDeadline, PTL DEF Spec, DeadlineNarrows

----------------------------------------------------------------------------
(* The image stays readable                                                *)

\* What ScopeAuthentic demands of a scope by itself ...
Timed(s) ==
    /\ OrderAuthentic(s.order)
    /\ s.request.state /= "none" =>
           /\ s.order.state \in Started
           /\ s.request.prepared \in s.order.started .. s.order.expires - 1
           /\ s.request.state = "key-transferred" => s.issuance.started /= 0
    /\ s.issuance.started /= 0 =>
           /\ s.issuance.expires \in s.issuance.started + 1 .. s.order.expires
           /\ s.order.state = "domain-verified"
           /\ s.order.checked <= s.issuance.started
           /\ s.issuance.saved /= 0 =>
                  /\ s.issuance.observation = ""
                  /\ s.issuance.saved \in s.issuance.started .. s.issuance.expires - 1
                  /\ s.issuance.deleted /= 0 =>
                         /\ s.issuance.saved <= s.issuance.deleted
                         /\ s.request.state = "none"
                  /\ s.issuance.deleted = 0 =>
                         /\ s.request.state = "key-transferred"
                         /\ s.request.prepared <= s.issuance.started
           /\ s.issuance.saved = 0 =>
                  /\ s.request.state = "key-prepared"
                  /\ s.request.prepared <= s.issuance.started
                  /\ s.issuance.observation /= "" =>
                         s.issuance.checked \in
                             s.issuance.started .. s.issuance.expires - 1

\* ... and of the saved certificates c.
Matches(s, c) ==
    /\ s.request.state = "key-transferred" => c[s.order.url] = "pair"
    /\ s.issuance.started /= 0 /\ Deleted(s) => c[s.order.url] = "absent"

\* What ClosedScopeAuthentic demands of the i-th closed scope on top of that.
Reasoned(s, i) ==
    IF s.reason = "complete"
    THEN /\ s.issuance.saved /= 0
         /\ s.issuance.saved <= s.at
         /\ Deleted(s) => IF s.issuance.deletedAfter < i
                          THEN s.issuance.deleted <= s.at
                          ELSE s.at <= s.issuance.deleted
    ELSE CloseReason(s, s.at) = "expired"

\* BoundTo in the ledger c.
Renews(o, i, at, c) ==
    o.source /= NoUrl =>
        \E j \in 1 .. i - 1 :
            /\ c[j].issuance.saved /= 0
            /\ c[j].order.url = o.source
            /\ c[j].at <= o.started
            /\ Deleted(c[j]) => /\ at /= 0
                                /\ at <= c[j].issuance.deleted
                                /\ i <= c[j].issuance.deletedAfter

\* The i-th closed scope and those before it in the ledger c.
Follows(i, c) ==
    \A j \in 1 .. i - 1 :
        /\ c[j].order.url /= c[i].order.url
        /\ c[j].at <= c[i].at

\* A scope authenticates by itself and against the saved certificates.
LEMMA ScopeParts ==
    ASSUME NEW s PROVE ScopeAuthentic(s) <=> Timed(s) /\ Matches(s, certs)
  BY DEF ScopeAuthentic, RequestAuthentic, IssuanceAuthentic, CompletionAuthentic,
         Timed, Matches, Deleted

\* So does the current request after a step ...
LEMMA CurrentPartsNext ==
    ASSUME Timed(Current'), Matches(Current', certs') PROVE ScopeAuthentic(Current)'
  <1>1. PICK s : s = Current'
    OBVIOUS
  <1>2. Timed(s) /\ Matches(s, certs')
    BY <1>1
  <1>3. ScopeAuthentic(s)'
    BY <1>2
    DEF ScopeAuthentic, RequestAuthentic, IssuanceAuthentic, CompletionAuthentic,
        Timed, Matches, Deleted
  <1>. QED
    BY <1>1, <1>3
    DEF ScopeAuthentic, RequestAuthentic, IssuanceAuthentic, CompletionAuthentic

\* ... and a closed one.
LEMMA ClosedPartsNext ==
    ASSUME NEW i, Timed(closed'[i]), Matches(closed'[i], certs')
    PROVE  ScopeAuthentic(closed[i])'
  <1>1. PICK s : s = closed'[i]
    OBVIOUS
  <1>2. Timed(s) /\ Matches(s, certs')
    BY <1>1
  <1>3. ScopeAuthentic(s)'
    BY <1>2
    DEF ScopeAuthentic, RequestAuthentic, IssuanceAuthentic, CompletionAuthentic,
        Timed, Matches, Deleted
  <1>. QED
    BY <1>1, <1>3
    DEF ScopeAuthentic, RequestAuthentic, IssuanceAuthentic, CompletionAuthentic

\* A readable image, part by part.
LEMMA AuthenticParts ==
    ASSUME Authentic
    PROVE  /\ Timed(Current) /\ Matches(Current, certs)
           /\ order.url \notin ClosedUrls
           /\ \A i \in DOMAIN closed :
                  /\ Timed(closed[i]) /\ Matches(closed[i], certs)
                  /\ Reasoned(closed[i], i)
                  /\ Renews(closed[i].order, i, closed[i].at, closed)
                  /\ Follows(i, closed)
           /\ Renews(order, Len(closed) + 1, 0, closed)
           /\ order.state /= "not-started" =>
                  \A i \in DOMAIN closed : closed[i].at <= order.started
  BY ScopeParts DEF Authentic, ClosedScopeAuthentic, Reasoned, BoundTo, Renews, Follows

\* Its parts make an image readable after a step.
LEMMA AuthenticNext ==
    ASSUME Timed(Current'), Matches(Current', certs'),
           order'.url \notin ClosedUrls',
           \A i \in DOMAIN closed' :
               /\ Timed(closed'[i]) /\ Matches(closed'[i], certs')
               /\ Reasoned(closed'[i], i)
               /\ Renews(closed'[i].order, i, closed'[i].at, closed')
               /\ Follows(i, closed'),
           Renews(order', Len(closed') + 1, 0, closed'),
           order'.state /= "not-started" =>
               \A i \in DOMAIN closed' : closed'[i].at <= order'.started
    PROVE  Authentic'
  <1>1. ScopeAuthentic(Current)'
    BY CurrentPartsNext
  <1>2. \A i \in DOMAIN closed' : ScopeAuthentic(closed[i])'
    BY ClosedPartsNext
  <1>3. \A i \in DOMAIN closed' : ClosedScopeAuthentic(i)'
    BY <1>2 DEF ClosedScopeAuthentic, Reasoned
  <1>4. \A i \in DOMAIN closed' : BoundTo(closed[i].order, i, closed[i].at)'
    BY DEF BoundTo, Renews
  <1>5. BoundTo(order, Len(closed) + 1, 0)'
    BY DEF BoundTo, Renews
  <1>. QED BY <1>1, <1>3, <1>4, <1>5 DEF Authentic, Follows

\* A step that leaves the image alone leaves it readable.
LEMMA ReadableFrame == Authentic /\ UNCHANGED image => Authentic'
  <1> SUFFICES ASSUME Authentic, UNCHANGED image PROVE Authentic'
    OBVIOUS
  <1>1. UNCHANGED <<order, closed, certs>> /\ Current' = Current /\ ClosedUrls' = ClosedUrls
    BY DEF image, Current, ClosedUrls
  <1>2. /\ Timed(Current') /\ Matches(Current', certs')
        /\ order'.url \notin ClosedUrls'
        /\ order'.state /= "not-started" =>
               \A i \in DOMAIN closed' : closed'[i].at <= order'.started
    BY <1>1, AuthenticParts
  <1>3. \A i \in DOMAIN closed' :
            /\ Timed(closed'[i]) /\ Matches(closed'[i], certs')
            /\ Reasoned(closed'[i], i)
            /\ Renews(closed'[i].order, i, closed'[i].at, closed')
            /\ Follows(i, closed')
    BY <1>1, AuthenticParts
  <1>4. Renews(order', Len(closed') + 1, 0, closed')
    BY <1>1, AuthenticParts
  <1>. QED BY <1>2, <1>3, <1>4, AuthenticNext

\* Importing a certificate without a tombstone leaves the image readable.
LEMMA ImportReads ==
    ASSUME IInv, CustodyInv, NEW u \in Urls, ImportCertificate(u), ~ImportsDeleted
    PROVE  Authentic'
  <1>1. /\ Authentic
        /\ certs[u] = "absent"
        /\ certs' = [certs EXCEPT ![u] = "public"]
        /\ UNCHANGED <<order, request, issuance, closed>>
    BY DEF ImportCertificate
  <1>2. /\ certs'[u] = "public"
        /\ \A v \in Urls : v /= u => certs'[v] = certs[v]
    BY <1>1 DEF IInv, TypeOK
  <1>3. ~Tombstoned(u)
    BY <1>1, <1>2 DEF ImportsDeleted
  <1>4. Current' = Current /\ ClosedUrls' = ClosedUrls
    BY <1>1 DEF Current, ClosedUrls
  <1>5. Matches(Current', certs')
    <2>1. CASE Placed
      <3>1. order.url \in Urls /\ Current.order = order
        BY <2>1, CurrentFields DEF Placed
      <3>2. Current.request.state = "key-transferred" => certs[order.url] = "pair"
        BY <1>1, <3>1, AuthenticParts DEF Matches
      <3>3. order.url = u => ~Deleted(Current)
        BY <1>3 DEF Tombstoned
      <3>. QED BY <1>1, <1>2, <1>4, <3>1, <3>2, <3>3, AuthenticParts DEF Matches
    <2>2. CASE ~Placed
      BY <1>4, <2>2, UnplacedEmpty, CurrentFields DEF Matches
    <2>. QED BY <2>1, <2>2
  <1>6. ASSUME NEW i \in DOMAIN closed PROVE Matches(closed[i], certs')
    <2>1. closed[i].order.url \in Urls
      BY DEF CustodyInv
    <2>2. Matches(closed[i], certs)
      BY <1>1, AuthenticParts
    <2>3. closed[i].order.url = u => ~Deleted(closed[i])
      BY <1>3 DEF Tombstoned
    <2>. QED BY <1>1, <1>2, <2>1, <2>2, <2>3 DEF Matches
  <1>7. /\ Timed(Current') /\ order'.url \notin ClosedUrls'
        /\ order'.state /= "not-started" =>
               \A i \in DOMAIN closed' : closed'[i].at <= order'.started
    BY <1>1, <1>4, AuthenticParts
  <1>8. \A i \in DOMAIN closed' :
            /\ Timed(closed'[i]) /\ Matches(closed'[i], certs')
            /\ Reasoned(closed'[i], i)
            /\ Renews(closed'[i].order, i, closed'[i].at, closed')
            /\ Follows(i, closed')
    BY <1>1, <1>6, AuthenticParts
  <1>9. Renews(order', Len(closed') + 1, 0, closed')
    BY <1>1, AuthenticParts
  <1>. QED BY <1>5, <1>7, <1>8, <1>9, AuthenticNext

\* A scope closed as expired has saved nothing.
LEMMA SavedIsComplete ==
    ASSUME NEW s, NEW i, Reasoned(s, i), s.issuance.saved /= 0
    PROVE  s.reason = "complete"
  BY DEF Reasoned, CloseReason

\* Marking a saved scope as deleted now keeps it authentic by itself.
LEMMA TombstoneTimed ==
    ASSUME TypeOK, NEW s, NEW t, NEW i \in Issuances,
           Timed(s), s.issuance = i, i.saved /= 0, i.saved <= now,
           t.order = s.order, t.request = NoRequest,
           t.issuance = [i EXCEPT !.deleted = now, !.deletedAfter = Len(closed)],
           i.started /= 0
    PROVE  Timed(t)
  <1>1. /\ t.issuance.started = i.started /\ t.issuance.saved = i.saved
        /\ t.issuance.expires = i.expires /\ t.issuance.observation = i.observation
        /\ t.issuance.checked = i.checked /\ t.issuance.deleted = now
    BY DEF Issuances
  <1>2. t.request.state = "none" /\ now /= 0
    BY CurrentType DEF NoRequest
  <1>. QED BY <1>1, <1>2 DEF Timed

\* A deletion at a moment not before any closure leaves the image readable.
LEMMA DeleteReads ==
    ASSUME IInv, CustodyInv, NEW u \in Urls, DeleteRecord(u), ~DeletesEarly
    PROVE  Authentic'
  <1>1. TypeOK /\ Authentic
    BY DEF IInv, DeleteRecord
  <1>2. /\ order.source /= u
        /\ certs' = [certs EXCEPT ![u] = "absent"]
        /\ request' = Tombstone(Current, u).request
        /\ issuance' = Tombstone(Current, u).issuance
        /\ closed' = [i \in DOMAIN closed |-> Tombstone(closed[i], u)]
        /\ order' = order
        /\ SavedBy(Current, u) => issuance.saved <= now
        /\ \A i \in DOMAIN closed :
               SavedBy(closed[i], u) => closed[i].issuance.saved <= now
    BY DEF DeleteRecord, RenewalSourceInUse, TombstoneClosed
  <1>3. /\ certs'[u] = "absent"
        /\ \A v \in Urls : v /= u => certs'[v] = certs[v]
    BY <1>1, <1>2 DEF TypeOK
  <1>4. /\ DOMAIN closed = 1 .. Len(closed) /\ Len(closed) \in Nat
        /\ DOMAIN closed' = DOMAIN closed /\ Len(closed') = Len(closed)
    BY <1>1, ClosedScopes, DeleteRecordLedger
  <1>5. now /= 0 /\ now \in Stamp
    BY <1>1, CurrentType
  <1>6. ASSUME NEW i \in DOMAIN closed
        PROVE  /\ closed'[i].order = closed[i].order
               /\ closed'[i].at = closed[i].at /\ closed[i].at \in Stamp
               /\ closed'[i].issuance.saved = closed[i].issuance.saved
               /\ ~SavedBy(closed[i], u) => closed'[i] = closed[i]
               /\ SavedBy(closed[i], u) =>
                      /\ closed'[i].reason = closed[i].reason
                      /\ closed'[i].request = NoRequest
                      /\ closed'[i].issuance =
                             [closed[i].issuance EXCEPT !.deleted = now,
                                                        !.deletedAfter = Len(closed)]
                      /\ closed'[i].issuance.deleted = now
                      /\ closed'[i].issuance.deletedAfter = Len(closed)
                      /\ Deleted(closed'[i])
                      /\ \A j \in DOMAIN closed : closed[j].at <= now
    <2>1. closed'[i] = Tombstone(closed[i], u) /\ closed[i] \in Scopes
      BY <1>1, <1>2, ClosedScopes
    <2>2. /\ closed'[i].order = closed[i].order
          /\ closed'[i].at = closed[i].at
          /\ closed'[i].issuance.saved = closed[i].issuance.saved
      BY <1>1, <2>1, TombstoneClosedKeeps
    <2>3. \A j \in DOMAIN closed : closed[j].at \in Stamp
      BY <1>1, ClosedScopes DEF Scopes
    <2>4. ASSUME SavedBy(closed[i], u)
          PROVE  /\ closed'[i].reason = closed[i].reason
                 /\ closed'[i].request = NoRequest
                 /\ closed'[i].issuance =
                        [closed[i].issuance EXCEPT !.deleted = now,
                                                   !.deletedAfter = Len(closed)]
                 /\ closed'[i].issuance.deleted = now
                 /\ closed'[i].issuance.deletedAfter = Len(closed)
                 /\ Deleted(closed'[i])
                 /\ \A j \in DOMAIN closed : closed[j].at <= now
      <3>1. /\ closed'[i].reason = closed[i].reason
            /\ closed'[i].request = NoRequest
            /\ closed'[i].issuance =
                   [closed[i].issuance EXCEPT !.deleted = now,
                                              !.deletedAfter = Len(closed)]
            /\ closed'[i].issuance.deleted = now
            /\ closed'[i].issuance.deletedAfter = Len(closed)
        <4> DEFINE t == Tombstone(closed[i], u)
        <4>1. /\ t.request = NoRequest /\ t.reason = closed[i].reason
              /\ t.issuance = [closed[i].issuance EXCEPT !.deleted = now,
                                                         !.deletedAfter = Len(closed)]
              /\ t.issuance.deleted = now /\ t.issuance.deletedAfter = Len(closed)
          BY <1>1, <2>1, <2>4, TombstoneClosedMarks
        <4>. HIDE DEF t
        <4>2. t = closed'[i]
          BY <2>1 DEF t
        <4>. QED BY <4>1, <4>2
      <3>2. closed'[i].issuance.saved /= 0
        BY <2>2, <2>4 DEF SavedBy
      <3>3. Deleted(closed'[i])
        BY <1>5, <3>1, <3>2 DEF Deleted
      <3>4. closed'[i] /= closed[i]
        <4>1. closed[i].request.state = "none" => closed[i].issuance.deleted /= 0
          BY <2>2, <3>2 DEF CustodyInv, Keyed
        <4>2. SUFFICES ASSUME closed'[i] = closed[i] PROVE FALSE
          OBVIOUS
        <4>3. Deleted(closed[i])
          BY <3>3, <4>2
        <4>4. closed[i].issuance.started /= 0 /\ closed[i].order.url = u
          BY <2>4 DEF CustodyInv, Keyed, SavedBy
        <4>5. certs[u] = "absent"
          BY <1>1, <4>3, <4>4, AuthenticParts DEF Matches
        <4>. QED BY <4>5 DEF DeleteRecord
      <3>5. ~Deleted(closed[i])
        BY <3>4, DeleteRecordLedger
      <3>6. \A j \in DOMAIN closed : ~(now < closed[j].at)
        BY <3>1, <3>3, <3>5 DEF DeletesEarly
      <3>. QED BY <1>5, <2>3, <3>1, <3>3, <3>6 DEF Stamp
    <2>. QED BY <2>1, <2>2, <2>3, <2>4, <1>1, TombstoneClosedMarks
  <1>7. Timed(Current') /\ Matches(Current', certs')
    <2>1. /\ Current.order = order /\ Current'.order = order
          /\ Current'.request = request' /\ Current'.issuance = issuance'
      BY <1>2 DEF Current
    <2>2. CASE SavedBy(Current, u)
      <3>1. /\ request' = NoRequest
            /\ issuance' = [issuance EXCEPT !.deleted = now, !.deletedAfter = Len(closed)]
            /\ issuance \in Issuances
        BY <1>1, <1>2, <2>2, TombstoneCurrentMarks DEF TypeOK
      <3>2. issuance.saved /= 0 /\ issuance.saved <= now /\ order.url = u
        BY <1>2, <2>1, <2>2, CurrentFields DEF SavedBy
      <3>3. issuance.started /= 0
        BY <3>2, CurrentFields DEF CustodyInv, Keyed
      <3>4. Timed(Current')
        BY <1>1, <2>1, <3>1, <3>2, <3>3, AuthenticParts, CurrentFields, TombstoneTimed
      <3>5. Matches(Current', certs')
        BY <1>3, <2>1, <3>1, <3>2 DEF Matches, NoRequest
      <3>. QED BY <3>4, <3>5
    <2>3. CASE ~SavedBy(Current, u)
      <3>1. request' = request /\ issuance' = issuance
        BY <1>1, <1>2, <2>3, TombstoneCurrentMarks
      <3>2. Current' = Current
        BY <1>2, <3>1 DEF Current
      <3>3. Timed(Current) /\ Matches(Current, certs)
        BY <1>1, AuthenticParts
      <3>4. Matches(Current, certs')
        <4>1. CASE Placed
          <5>1. order.url = u => issuance.saved = 0
            BY <2>3, CurrentFields DEF SavedBy
          <5>2. order.url = u => request.state /= "key-transferred" /\ ~Deleted(Current)
            BY <5>1, CurrentFields DEF CustodyInv, Keyed, Deleted
          <5>. QED BY <1>3, <3>3, <4>1, <5>2, CurrentFields DEF Matches, Placed
        <4>2. CASE ~Placed
          BY <4>2, UnplacedEmpty, CurrentFields DEF Matches
        <4>. QED BY <4>1, <4>2
      <3>. QED BY <3>2, <3>3, <3>4
    <2>. QED BY <2>2, <2>3
  <1>8. ASSUME NEW i \in DOMAIN closed
        PROVE  Timed(closed'[i]) /\ Matches(closed'[i], certs') /\ Reasoned(closed'[i], i)
    <2>1. Timed(closed[i]) /\ Matches(closed[i], certs) /\ Reasoned(closed[i], i)
      BY <1>1, AuthenticParts
    <2>2. CASE SavedBy(closed[i], u)
      <3>1. closed[i].issuance.saved /= 0 /\ closed[i].order.url = u
        BY <2>2 DEF SavedBy
      <3>2. closed[i].issuance \in Issuances /\ closed[i].issuance.started /= 0
        BY <1>1, <3>1, ClosedScopes DEF CustodyInv, Keyed
      <3>3. Timed(closed'[i])
        <4>1. PICK t : t = closed'[i]
          OBVIOUS
        <4>2. /\ t.order = closed[i].order /\ t.request = NoRequest
              /\ t.issuance = [closed[i].issuance EXCEPT !.deleted = now,
                                                         !.deletedAfter = Len(closed)]
          BY <1>6, <2>2, <4>1
        <4>3. closed[i].issuance.saved <= now
          BY <1>2, <2>2
        <4>4. Timed(t)
          BY <1>1, <2>1, <3>1, <3>2, <4>2, <4>3, TombstoneTimed
        <4>. QED BY <4>1, <4>4
      <3>4. Matches(closed'[i], certs')
        <4>1. closed'[i].request = NoRequest /\ closed'[i].order.url = u
          BY <1>6, <2>2, <3>1
        <4>2. closed'[i].request.state = "none"
          BY <4>1 DEF NoRequest
        <4>. QED BY <1>3, <4>1, <4>2 DEF Matches
      <3>5. closed[i].reason = "complete" /\ closed[i].issuance.saved <= closed[i].at
        BY <2>1, <3>1, SavedIsComplete DEF Reasoned
      <3>6. ~(Len(closed) < i)
        BY <1>4
      <3>7. Reasoned(closed'[i], i)
        BY <1>6, <2>2, <3>1, <3>5, <3>6 DEF Reasoned
      <3>. QED BY <3>3, <3>4, <3>7
    <2>3. CASE ~SavedBy(closed[i], u)
      <3>1. closed'[i] = closed[i]
        BY <1>6, <2>3
      <3>2. closed[i].order.url = u => closed[i].issuance.saved = 0
        BY <2>3 DEF SavedBy
      <3>3. closed[i].order.url = u =>
                closed[i].request.state /= "key-transferred" /\ ~Deleted(closed[i])
        BY <3>2 DEF CustodyInv, Keyed, Deleted
      <3>4. closed[i].order.url \in Urls
        BY DEF CustodyInv
      <3>5. Matches(closed[i], certs')
        BY <1>3, <2>1, <3>3, <3>4 DEF Matches
      <3>. QED BY <2>1, <3>1, <3>5
    <2>. QED BY <2>2, <2>3
  <1>9. ASSUME NEW i \in DOMAIN closed
        PROVE  /\ Renews(closed'[i].order, i, closed'[i].at, closed')
               /\ Follows(i, closed')
    <2>1. /\ Renews(closed[i].order, i, closed[i].at, closed)
          /\ Follows(i, closed)
      BY <1>1, AuthenticParts
    <2>2. \A j \in 1 .. i - 1 : j \in DOMAIN closed
      BY <1>4
    <2>3. Follows(i, closed')
      BY <1>6, <2>1, <2>2 DEF Follows
    <2>4. ASSUME closed[i].order.source /= NoUrl
          PROVE  Renews(closed[i].order, i, closed[i].at, closed')
      <3>1. PICK j \in 1 .. i - 1 :
                /\ closed[j].issuance.saved /= 0
                /\ closed[j].order.url = closed[i].order.source
                /\ closed[j].at <= closed[i].order.started
                /\ Deleted(closed[j]) => /\ closed[i].at /= 0
                                         /\ closed[i].at <= closed[j].issuance.deleted
                                         /\ i <= closed[j].issuance.deletedAfter
        BY <2>1, <2>4 DEF Renews
      <3>2. j \in DOMAIN closed
        BY <2>2
      <3>3. closed[i].at /= 0 /\ i <= Len(closed)
        BY <1>4 DEF CustodyInv
      <3>4. Deleted(closed'[j]) => /\ closed[i].at /= 0
                                   /\ closed[i].at <= closed'[j].issuance.deleted
                                   /\ i <= closed'[j].issuance.deletedAfter
        <4>1. CASE SavedBy(closed[j], u)
          BY <1>6, <3>2, <3>3, <4>1
        <4>2. CASE ~SavedBy(closed[j], u)
          BY <1>6, <3>1, <3>2, <4>2
        <4>. QED BY <4>1, <4>2
      <3>. QED BY <1>6, <3>1, <3>2, <3>4 DEF Renews
    <2>5. Renews(closed[i].order, i, closed[i].at, closed')
      BY <2>4 DEF Renews
    <2>. QED BY <1>6, <2>3, <2>5
  <1>10. Renews(order', Len(closed') + 1, 0, closed')
    <2>. SUFFICES ASSUME order.source /= NoUrl
                  PROVE  Renews(order, Len(closed) + 1, 0, closed')
      BY <1>2, <1>4 DEF Renews
    <2>1. PICK j \in 1 .. (Len(closed) + 1) - 1 :
              /\ closed[j].issuance.saved /= 0
              /\ closed[j].order.url = order.source
              /\ closed[j].at <= order.started
              /\ ~Deleted(closed[j])
      BY <1>1, AuthenticParts DEF Renews
    <2>2. j \in DOMAIN closed
      BY <1>4
    <2>3. ~SavedBy(closed[j], u)
      BY <1>2, <2>1 DEF SavedBy
    <2>4. closed'[j] = closed[j]
      BY <1>6, <2>2, <2>3
    <2>. QED BY <2>1, <2>4 DEF Renews
  <1>11. order'.url \notin ClosedUrls'
    <2>1. ClosedUrls' = ClosedUrls
      BY <1>4, <1>6 DEF ClosedUrls
    <2>. QED BY <1>1, <1>2, <2>1, AuthenticParts
  <1>12. order'.state /= "not-started" =>
             \A i \in DOMAIN closed' : closed'[i].at <= order'.started
    BY <1>1, <1>2, <1>4, <1>6, AuthenticParts
  <1>. QED BY <1>4, <1>7, <1>8, <1>9, <1>10, <1>11, <1>12, AuthenticNext

\* Every other step decodes the image it commits, or leaves it alone.
LEMMA OtherReads ==
    ASSUME IInv, [Next]_vars, Authentic,
           \A u \in Urls : ~ImportCertificate(u) /\ ~DeleteRecord(u)
    PROVE  Authentic'
  <1>1. CASE Quiet
    <2>1. CASE Tick \/ Abandon \/ \E u \in Urls : NewOrder(u) \/ CaStep(u)
      BY <2>1, ReadableFrame
      DEF Tick, Abandon, NewOrder, CaStep, Validate, FinalizeArrives, Issue, Reject
    <2>2. CASE BeginResume \/ ReadStatus \/ SendAccept \/ BeginFetch
               \/ SendFinalize \/ ReadFinalizeAnswer \/ UNCHANGED vars
      BY <2>2, ReadableFrame
      DEF BeginResume, ReadStatus, SendAccept, BeginFetch, SendFinalize,
          ReadFinalizeAnswer, vars
    <2>3. CASE \/ Acknowledge \/ BeginValidation
               \/ \E e \in Stamp : FinishInstructions(e) \/ FinishValidation(e)
      BY <2>3 DEF Acknowledge, BeginValidation, FinishInstructions, FinishValidation
    <2>. QED BY <1>1, <2>1, <2>2, <2>3 DEF Quiet
  <1>. QED
    BY <1>1, StepSorts
    DEF BeginOrder, Checkpoint, PrepareRequest, BeginIssuance, FinishObserve,
        FinishComplete, CloseRequest

\* The image stays readable, whatever the program does, but for the two steps
\* the findings are about: a deletion under a clock that was stepped back to
\* before a closure, and an import of a certificate deleted before.
THEOREM ReadableButForTwoSteps == Spec => StaysReadable
  <1>1. ASSUME IInv, CustodyInv, [Next]_vars
        PROVE  Authentic => Authentic' \/ ImportsDeleted \/ DeletesEarly
    BY <1>1, ImportReads, DeleteReads, OtherReads
  <1>. QED BY <1>1, Invariance, CustodyAlways, PTL DEF Spec, StaysReadable

----------------------------------------------------------------------------
(* The flow implements IssuanceAuthority                                   *)

\* What the CA answers of a finalized order, and what is read from it, follows
\* a finalize request.
AnswerInv ==
    /\ \A u \in Urls : ca[u] \in {"processing", "valid"} => finalized[u] > 0
    /\ op.kind = "finalize" /\ op.answer /= "none" => finalized[op.url] > 0
    /\ op.kind = "fetch" /\ op.answer \in {"processing", "valid"} =>
           finalized[op.url] > 0

\* Every step of the flow preserves it.
LEMMA StepAnswer == IInv /\ AnswerInv /\ [Next]_vars => AnswerInv'
  <1> SUFFICES ASSUME IInv, AnswerInv, [Next]_vars PROVE AnswerInv'
    OBVIOUS
  <1>1. TypeOK
    BY DEF IInv
  <1>2. ASSUME UNCHANGED <<ca, finalized>>, op'.kind \notin {"finalize", "fetch"}
        PROVE  AnswerInv'
    BY <1>2 DEF AnswerInv
  <1>3. ASSUME UNCHANGED <<ca, finalized>>, op'.answer = "none" PROVE AnswerInv'
    BY <1>3 DEF AnswerInv
  <1>4. ASSUME UNCHANGED <<ca, finalized, op>> PROVE AnswerInv'
    BY <1>4 DEF AnswerInv
  <1>5. ASSUME End, UNCHANGED <<ca, finalized>> PROVE AnswerInv'
    BY <1>2, <1>5, EndOp
  <1>6. CASE Quiet
    <2>1. CASE Tick \/ Acknowledge \/ UNCHANGED vars
      BY <1>4, <2>1 DEF Tick, Acknowledge, vars, sent
    <2>2. CASE Abandon \/ \E e \in Stamp : FinishInstructions(e) \/ FinishValidation(e)
      BY <1>5, <2>2 DEF Abandon, FinishInstructions, FinishValidation, sent
    <2>3. ASSUME NEW u \in Urls, NewOrder(u) PROVE AnswerInv'
      <3>1. op.kind = "order" /\ op' = [op EXCEPT !.url = u] /\ finalized' = finalized
        BY <2>3 DEF NewOrder, sent
      <3>2. op'.kind = "order"
        BY <1>1, <3>1 DEF TypeOK, Ops
      <3>3. \A v \in Urls : ca'[v] \in {"processing", "valid"} => ca'[v] = ca[v]
        BY <1>1, <2>3 DEF NewOrder, TypeOK
      <3>. QED BY <3>1, <3>2, <3>3 DEF AnswerInv
    <2>4. ASSUME NEW u \in Urls, CaStep(u) PROVE AnswerInv'
      <3>1. UNCHANGED <<op, finalized>>
        BY <2>4 DEF CaStep, Validate, FinalizeArrives, Issue, Reject, sent
      <3>2. \A v \in Urls : ca'[v] \in {"processing", "valid"} =>
                ca[v] \in {"processing", "valid"} \/ finalized[v] > 0
        BY <1>1, <2>4 DEF CaStep, Validate, FinalizeArrives, Issue, Reject, TypeOK
      <3>. QED BY <3>1, <3>2 DEF AnswerInv
    <2>5. CASE BeginResume \/ BeginFetch \/ BeginValidation
      <3>1. UNCHANGED <<ca, finalized>> /\ op'.answer = "none"
        BY <2>5 DEF BeginResume, BeginFetch, BeginValidation, Begin, sent
      <3>. QED BY <1>3, <3>1
    <2>6. CASE ReadStatus
      <3>1. /\ op.kind \in {"validate", "revalidate", "fetch"}
            /\ op' = [op EXCEPT !.answer = ca[op.url]]
            /\ UNCHANGED <<ca, finalized>>
        BY <2>6 DEF ReadStatus, sent
      <3>2. op.url \in Urls
        BY <3>1 DEF IInv, OpInv, Placed
      <3>3. op'.kind = op.kind /\ op'.url = op.url /\ op'.answer = ca[op.url]
        BY <1>1, <3>1 DEF TypeOK, Ops
      <3>. QED BY <3>1, <3>2, <3>3 DEF AnswerInv
    <2>7. CASE SendAccept
      <3>1. op.kind = "validate" /\ op' = [op EXCEPT !.answer = "accepted"]
            /\ UNCHANGED <<ca, finalized>>
        BY <2>7 DEF SendAccept
      <3>2. op'.kind = "validate"
        BY <1>1, <3>1 DEF TypeOK, Ops
      <3>. QED BY <1>2, <3>1, <3>2
    <2>8. CASE SendFinalize
      <3>1. /\ op.kind = "finalize" /\ op' = [op EXCEPT !.answer = "sent"]
            /\ finalized' = [finalized EXCEPT ![op.url] = @ + 1]
            /\ ca' = ca
        BY <2>8 DEF SendFinalize
      <3>2. op.url \in Urls /\ finalized \in [Urls -> Nat]
        BY <1>1, <3>1 DEF IInv, OpInv, Placed, TypeOK
      <3>3. op'.kind = "finalize" /\ op'.url = op.url
        BY <1>1, <3>1 DEF TypeOK, Ops
      <3>4. /\ finalized'[op.url] > 0
            /\ \A v \in Urls : finalized[v] > 0 => finalized'[v] > 0
        BY <3>1, <3>2
      <3>. QED BY <3>1, <3>3, <3>4 DEF AnswerInv
    <2>9. CASE ReadFinalizeAnswer
      <3>1. /\ op.kind = "finalize" /\ op.answer = "sent"
            /\ op' = [op EXCEPT !.answer = ca[op.url]]
            /\ UNCHANGED <<ca, finalized>>
        BY <2>9 DEF ReadFinalizeAnswer, sent
      <3>2. op'.kind = "finalize" /\ op'.url = op.url
        BY <1>1, <3>1 DEF TypeOK, Ops
      <3>. QED BY <3>1, <3>2 DEF AnswerInv
    <2>. QED BY <1>6, <2>1, <2>2, <2>3, <2>4, <2>5, <2>6, <2>7, <2>8, <2>9 DEF Quiet
  <1>7. ASSUME NEW source \in Urls \cup {NoUrl}, BeginOrder(source) PROVE AnswerInv'
    <2>1. UNCHANGED <<ca, finalized>> /\ op'.answer = "none"
      BY <1>7 DEF BeginOrder, Begin, sent
    <2>. QED BY <1>3, <2>1
  <1>8. CASE BeginIssuance
    <2>1. UNCHANGED <<ca, finalized>> /\ op'.answer = "none"
      BY <1>8 DEF BeginIssuance, Begin, sent
    <2>. QED BY <1>3, <2>1
  <1>9. CASE Checkpoint \/ PrepareRequest
    BY <1>4, <1>9 DEF Checkpoint, PrepareRequest, sent
  <1>10. ASSUME NEW e \in Stamp, FinishObserve(e) \/ FinishComplete(e) PROVE AnswerInv'
    BY <1>5, <1>10 DEF FinishObserve, FinishComplete, sent
  <1>11. ASSUME NEW u \in Urls, ImportCertificate(u) \/ DeleteRecord(u) PROVE AnswerInv'
    BY <1>4, <1>11 DEF ImportCertificate, DeleteRecord, sent
  <1>12. CASE CloseRequest
    BY <1>4, <1>12 DEF CloseRequest, sent
  <1>. QED BY <1>6, <1>7, <1>8, <1>9, <1>10, <1>11, <1>12, StepSorts

\* Everything the refinement rests on.
AuthorityInv == IInv /\ CustodyInv /\ AnswerInv

\* It holds in every state of every behaviour of the flow.
LEMMA AuthorityAlways == Spec => []AuthorityInv
  <1>1. Init => AnswerInv
    BY DEF Init, AnswerInv, Idle
  <1>2. Spec => AnswerInv
    BY <1>1 DEF Spec
  <1>. QED BY <1>2, Invariance, CustodyAlways, StepAnswer, PTL DEF Spec, AuthorityInv

\* How far the current order and a closed one have come, by their fields.
CurrentStage ==
    IF issuance.saved /= 0
    THEN IF issuance.deleted = 0 THEN "saved" ELSE "deleted"
    ELSE IF finalized[order.url] > 0 THEN "spent"
    ELSE IF issuance.started = 0 THEN "located"
    ELSE IF op.kind = "finalize" THEN "leased"
    ELSE "forfeited"

ClosedStage(s) ==
    IF s.issuance.saved = 0 THEN "expired"
    ELSE IF s.issuance.deleted = 0 THEN "saved"
    ELSE "deleted"

StageFacts ==
    \A u \in Urls :
        /\ u = order.url => Stage[u] = CurrentStage
        /\ \A i \in DOMAIN closed :
               closed[i].order.url = u =>
                   u /= order.url /\ Stage[u] = ClosedStage(closed[i])
        /\ u /= order.url /\ u \notin ClosedUrls => Stage[u] = "unknown"

\* The mapping, read through the one scope an order has.
LEMMA StageIs == AuthorityInv => StageFacts
  <1> SUFFICES ASSUME AuthorityInv, NEW u \in Urls
               PROVE  /\ u = order.url => Stage[u] = CurrentStage
                      /\ \A i \in DOMAIN closed :
                             closed[i].order.url = u =>
                                 u /= order.url /\ Stage[u] = ClosedStage(closed[i])
                      /\ u /= order.url /\ u \notin ClosedUrls => Stage[u] = "unknown"
    BY DEF StageFacts
  <1>1. ASSUME u = order.url PROVE Stage[u] = CurrentStage
    <2>1. Stage[u] = StageOf(Current, u)
      BY <1>1 DEF Stage
    <2>. QED BY <1>1, <2>1, CurrentFields DEF StageOf, CurrentStage, Deleted
  <1>2. ASSUME NEW i \in DOMAIN closed, closed[i].order.url = u
        PROVE  u /= order.url /\ Stage[u] = ClosedStage(closed[i])
    <2>1. u /= order.url
      BY <1>2 DEF AuthorityInv, IInv, OrderInv, Placed, ClosedUrls
    <2> DEFINE k == CHOOSE j \in DOMAIN closed : closed[j].order.url = u
    <2>2. k \in DOMAIN closed /\ closed[k].order.url = u
      BY <1>2
    <2>3. k = i
      BY <1>2, <2>2 DEF AuthorityInv, CustodyInv
    <2>4. Stage[u] = IF closed[k].issuance.saved = 0 THEN "expired"
                     ELSE StageOf(closed[k], u)
      BY <1>2, <2>1 DEF Stage
    <2>. HIDE DEF k
    <2>. QED BY <2>1, <2>3, <2>4 DEF StageOf, ClosedStage, Deleted
  <1>3. ASSUME u /= order.url, u \notin ClosedUrls PROVE Stage[u] = "unknown"
    BY <1>3 DEF Stage, ClosedUrls
  <1>. QED BY <1>1, <1>2, <1>3

\* The same after a step.
LEMMA StageIsNext == (AuthorityInv => StageFacts)'
  BY StageIs, PTL

\* Stages are the same function but for the stage of one order.
LEMMA StageMove ==
    ASSUME NEW u \in Urls, NEW x, Stage'[u] = x,
           \A v \in Urls : v /= u => Stage'[v] = Stage[v]
    PROVE  Stage' = [Stage EXCEPT ![u] = x]
  <1>1. Stage = [v \in Urls |-> Stage[v]]
    BY DEF Stage
  <1>2. Stage' = [v \in Urls |-> Stage'[v]]
    BY DEF Stage
  <1>. QED BY <1>1, <1>2

\* Stages that are the same for every order are the same function.
LEMMA StageStay ==
    ASSUME \A v \in Urls : Stage'[v] = Stage[v]
    PROVE  Stage' = Stage
  <1>1. Stage = [v \in Urls |-> Stage[v]]
    BY DEF Stage
  <1>2. Stage' = [v \in Urls |-> Stage'[v]]
    BY DEF Stage
  <1>. QED BY <1>1, <1>2

\* While closed requests stay, so do the stages of all but the current order.
LEMMA StageFrame ==
    ASSUME StageFacts, StageFacts', closed' = closed,
           NEW v \in Urls, v /= order.url, v /= order'.url
    PROVE  Stage'[v] = Stage[v]
  <1>1. ClosedUrls' = ClosedUrls
    BY DEF ClosedUrls
  <1>2. CASE v \in ClosedUrls
    <2>1. PICK i \in DOMAIN closed : closed[i].order.url = v
      BY <1>2 DEF ClosedUrls
    <2>2. Stage[v] = ClosedStage(closed[i])
      BY <2>1 DEF StageFacts
    <2>3. i \in DOMAIN closed' /\ closed'[i].order.url = v
      BY <2>1
    <2>4. Stage'[v] = ClosedStage(closed'[i])
      BY <2>3 DEF StageFacts
    <2>. QED BY <2>2, <2>4
  <1>3. CASE v \notin ClosedUrls
    BY <1>1, <1>3 DEF StageFacts
  <1>. QED BY <1>2, <1>3

\* While the current order keeps its URL and its stage, too, nothing moves.
LEMMA StageKept ==
    ASSUME StageFacts, StageFacts', closed' = closed, order'.url = order.url,
           Placed => CurrentStage' = CurrentStage
    PROVE  UNCHANGED <<Stage, order.url>>
  <1>1. ASSUME NEW v \in Urls PROVE Stage'[v] = Stage[v]
    <2>1. CASE v = order.url
      <3>1. Stage[v] = CurrentStage /\ Stage'[v] = CurrentStage'
        BY <2>1 DEF StageFacts
      <3>. QED BY <2>1, <3>1 DEF Placed
    <2>2. CASE v /= order.url
      BY <2>2, StageFrame
    <2>. QED BY <2>1, <2>2
  <1>. QED BY <1>1, StageStay

\* While closed requests stay, a change of the current stage moves its order.
LEMMA StageMoved ==
    ASSUME StageFacts, StageFacts', closed' = closed, order'.url = order.url, Placed
    PROVE  /\ Stage[order.url] = CurrentStage
           /\ Stage' = [Stage EXCEPT ![order.url] = CurrentStage']
  <1>1. Stage[order.url] = CurrentStage /\ Stage'[order.url] = CurrentStage'
    BY DEF StageFacts, Placed
  <1>2. \A v \in Urls : v /= order.url => Stage'[v] = Stage[v]
    BY StageFrame
  <1>. QED BY <1>1, <1>2, StageMove DEF Placed

\* The stage of the current order, by what it reads.
LEMMA CurrentStageFrame ==
    ASSUME issuance'.started = issuance.started, issuance'.saved = issuance.saved,
           issuance'.deleted = issuance.deleted, order'.url = order.url,
           finalized' = finalized,
           op'.kind = "finalize" <=> op.kind = "finalize"
    PROVE  CurrentStage' = CurrentStage
  BY DEF CurrentStage

\* No operation but a finalization, abandoned or sent, moves an order quietly.
LEMMA QuietStages ==
    ASSUME AuthorityInv, StageFacts, StageFacts', Quiet, ~Abandon, ~SendFinalize
    PROVE  UNCHANGED <<Stage, order.url>>
  <1>1. TypeOK
    BY DEF AuthorityInv, IInv
  <1>2. order'.url = order.url /\ UNCHANGED <<issuance, closed>>
    BY <1>1, QuietKeeps
  <1>3. finalized' = finalized /\ (op'.kind = "finalize" <=> op.kind = "finalize")
    <2>1. CASE Tick \/ Acknowledge \/ UNCHANGED vars \/ \E u \in Urls : CaStep(u)
      BY <2>1
      DEF Tick, Acknowledge, CaStep, Validate, FinalizeArrives, Issue, Reject, vars, sent
    <2>2. CASE \E e \in Stamp : FinishInstructions(e) \/ FinishValidation(e)
      BY <2>2, EndOp DEF FinishInstructions, FinishValidation, sent
    <2>3. ASSUME NEW u \in Urls, NewOrder(u)
          PROVE  finalized' = finalized /\ (op'.kind = "finalize" <=> op.kind = "finalize")
      BY <1>1, <2>3 DEF NewOrder, TypeOK, Ops, sent
    <2>4. CASE BeginResume
      BY <2>4 DEF BeginResume, Begin, Unlocked, sent
    <2>5. CASE BeginValidation
      <3>1. ValidationKind(order.state) /= "finalize"
        BY DEF ValidationKind
      <3>. QED BY <2>5, <3>1 DEF BeginValidation, Begin, Unlocked, sent
    <2>6. CASE BeginFetch
      BY <2>6 DEF BeginFetch, Begin, Lease, Unlocked, sent
    <2>7. CASE ReadStatus \/ SendAccept \/ ReadFinalizeAnswer
      BY <1>1, <2>7 DEF ReadStatus, SendAccept, ReadFinalizeAnswer, TypeOK, Ops, sent
    <2>. QED BY <2>1, <2>2, <2>3, <2>4, <2>5, <2>6, <2>7 DEF Quiet
  <1>. QED BY <1>2, <1>3, CurrentStageFrame, StageKept

\* A finalization that is abandoned before it sent anything forfeits.
LEMMA AbandonStages ==
    ASSUME AuthorityInv, StageFacts, StageFacts', Abandon
    PROVE  (Authority!Forfeit(order.url) /\ Placed) \/ UNCHANGED <<Stage, order.url>>
  <1>1. /\ UNCHANGED <<order, issuance, closed, finalized>>
        /\ op'.kind = "idle"
    BY EndOp DEF Abandon, image, sent
  <1>2. CASE op.kind = "finalize" /\ op.answer = "none"
    <2>1. /\ Placed /\ op.url = order.url /\ issuance.started /= 0
          /\ issuance.saved = 0 /\ finalized[order.url] = 0
      BY <1>2 DEF AuthorityInv, IInv, OpInv
    <2>2. CurrentStage = "leased" /\ CurrentStage' = "forfeited"
      BY <1>1, <1>2, <2>1 DEF CurrentStage
    <2>. QED BY <1>1, <2>1, <2>2, StageMoved DEF Authority!Forfeit, Authority!Move
  <1>3. CASE op.kind = "finalize" /\ op.answer /= "none"
    <2>1. op.url = order.url /\ finalized[order.url] > 0
      BY <1>3 DEF AuthorityInv, AnswerInv, IInv, OpInv
    <2>2. CurrentStage' = CurrentStage
      BY <1>1, <2>1 DEF CurrentStage
    <2>. QED BY <1>1, <2>2, StageKept
  <1>4. CASE op.kind /= "finalize"
    BY <1>1, <1>4, CurrentStageFrame, StageKept
  <1>. QED BY <1>2, <1>3, <1>4

\* The one finalize request spends the authority.
LEMMA SendFinalizeStages ==
    ASSUME AuthorityInv, StageFacts, StageFacts', SendFinalize
    PROVE  Placed /\ Authority!Spend(order.url)
  <1>1. /\ op.kind = "finalize" /\ op.answer = "none"
        /\ finalized' = [finalized EXCEPT ![op.url] = @ + 1]
        /\ UNCHANGED <<order, issuance, closed>>
    BY DEF SendFinalize, image
  <1>2. /\ Placed /\ op.url = order.url /\ issuance.started /= 0
        /\ issuance.saved = 0 /\ finalized[order.url] = 0
    BY <1>1 DEF AuthorityInv, IInv, OpInv
  <1>3. finalized'[order.url] = 1
    BY <1>1, <1>2 DEF AuthorityInv, IInv, TypeOK, Placed
  <1>4. CurrentStage = "leased" /\ CurrentStage' = "spent"
    BY <1>1, <1>2, <1>3 DEF CurrentStage
  <1>. QED BY <1>1, <1>2, <1>4, StageMoved DEF Authority!Spend, Authority!Move

\* Committing the URL of an order locates it.
LEMMA CheckpointStages ==
    ASSUME AuthorityInv, AuthorityInv', StageFacts, StageFacts', Checkpoint
    PROVE  op.url \in Urls /\ Authority!Locate(op.url)
  <1>1. /\ op.url \in Urls /\ order.state = "request-pending"
        /\ order' = [order EXCEPT !.state = "order-known", !.url = op.url]
        /\ UNCHANGED <<issuance, closed, finalized>>
    BY CurrentType DEF Checkpoint, AuthorityInv, IInv, sent
  <1>2. order'.url = op.url /\ ~Placed /\ order.url = NoUrl
    BY <1>1, CurrentType DEF AuthorityInv, IInv, TypeOK, Orders, OrderInv, Placed
  <1>3. issuance.started = 0 /\ issuance.saved = 0
    BY <1>2, UnplacedEmpty DEF AuthorityInv
  <1>4. op.url /= order.url /\ op.url \notin ClosedUrls
    <2>1. op.url \notin ClosedUrls'
      BY <1>1, <1>2 DEF AuthorityInv, IInv, OrderInv, Placed
    <2>2. ClosedUrls' = ClosedUrls
      BY <1>1 DEF ClosedUrls
    <2>. QED BY <1>1, <1>2, <2>1, <2>2 DEF Placed
  <1>5. ~(finalized[op.url] > 0)
    BY <1>1, <1>3, <1>4, CurrentFields
    DEF AuthorityInv, IInv, SentInv, IntentKept, Intended, ClosedUrls
  <1>6. Stage[op.url] = "unknown"
    BY <1>1, <1>4 DEF StageFacts
  <1>7. Stage'[op.url] = "located"
    <2>1. Stage'[op.url] = CurrentStage'
      BY <1>1, <1>2 DEF StageFacts
    <2>. QED BY <1>1, <1>2, <1>3, <1>5, <2>1 DEF CurrentStage
  <1>8. ASSUME NEW v \in Urls, v /= op.url PROVE Stage'[v] = Stage[v]
    <2>1. v /= order.url
      BY <1>2 DEF Placed
    <2>. QED BY <1>1, <1>2, <1>8, <2>1, StageFrame
  <1>9. Stage' = [Stage EXCEPT ![op.url] = "located"]
    BY <1>1, <1>7, <1>8, StageMove
  <1>. QED BY <1>1, <1>2, <1>6, <1>9 DEF Authority!Locate, Authority!Move

\* The intent leases the authority.
LEMMA BeginIssuanceStages ==
    ASSUME AuthorityInv, StageFacts, StageFacts', BeginIssuance
    PROVE  Placed /\ Authority!Lease(order.url)
  <1>1. /\ issuance.started = 0 /\ order.state = "domain-verified"
        /\ issuance' = [NoIssuance EXCEPT !.started = now, !.expires = order.expires]
        /\ op'.kind = "finalize"
        /\ UNCHANGED <<order, closed, finalized>>
    BY DEF BeginIssuance, IssuanceWindow, Intent, Begin, Lease, sent
  <1>2. Placed /\ issuance.saved = 0 /\ order.url \notin ClosedUrls
    BY <1>1, CurrentFields DEF AuthorityInv, IInv, OrderInv, CustodyInv, Keyed
  <1>3. ~(finalized[order.url] > 0)
    BY <1>1, <1>2, CurrentFields
    DEF AuthorityInv, IInv, SentInv, IntentKept, Intended, ClosedUrls, Placed
  <1>4. issuance'.started = now /\ issuance'.saved = 0 /\ now /= 0
    BY <1>1, CurrentType DEF NoIssuance, AuthorityInv, IInv
  <1>5. CurrentStage = "located" /\ CurrentStage' = "leased"
    BY <1>1, <1>2, <1>3, <1>4 DEF CurrentStage
  <1>. QED BY <1>1, <1>2, <1>5, StageMoved DEF Authority!Lease, Authority!Move

\* An observation leaves a spent or forfeited order where it is.
LEMMA FinishObserveStages ==
    ASSUME AuthorityInv, StageFacts, StageFacts', NEW e \in Stamp, FinishObserve(e)
    PROVE  UNCHANGED <<Stage, order.url>>
  <1>1. /\ op.kind \in {"finalize", "fetch"} /\ op.answer \in Observable(op.kind)
        /\ issuance' = [issuance EXCEPT !.observation = op.answer,
                                        !.checked = now, !.expires = e]
        /\ op'.kind = "idle"
        /\ UNCHANGED <<order, closed, finalized>>
    BY EndOp DEF FinishObserve, sent
  <1>2. /\ issuance'.started = issuance.started /\ issuance'.saved = issuance.saved
        /\ issuance'.deleted = issuance.deleted
    BY <1>1 DEF AuthorityInv, IInv, TypeOK, Issuances
  <1>3. CASE op.kind = "finalize"
    <2>1. op.answer /= "none"
      BY <1>1, <1>3 DEF Observable
    <2>2. op.url = order.url /\ finalized[order.url] > 0
      BY <1>3, <2>1 DEF AuthorityInv, AnswerInv, IInv, OpInv
    <2>3. CurrentStage' = CurrentStage
      BY <1>1, <1>2, <2>2 DEF CurrentStage
    <2>. QED BY <1>1, <2>3, StageKept
  <1>4. CASE op.kind /= "finalize"
    BY <1>1, <1>2, <1>4, CurrentStageFrame, StageKept
  <1>. QED BY <1>3, <1>4

\* Saving the pair saves a spent order, and only that.
LEMMA FinishCompleteStages ==
    ASSUME AuthorityInv, StageFacts, StageFacts', NEW e \in Stamp, FinishComplete(e)
    PROVE  Placed /\ Authority!Save(order.url)
  <1>1. /\ op.kind \in {"finalize", "fetch"} /\ op.answer = "valid"
        /\ issuance.saved = 0
        /\ issuance' = [issuance EXCEPT !.observation = "", !.checked = 0,
                                        !.expires = e, !.saved = now]
        /\ UNCHANGED <<order, closed, finalized>>
    BY DEF FinishComplete, sent
  <1>2. Placed /\ op.url = order.url /\ finalized[order.url] > 0
    BY <1>1 DEF AuthorityInv, AnswerInv, IInv, OpInv
  <1>3. /\ issuance'.saved = now /\ now /= 0
        /\ issuance'.deleted = issuance.deleted
    BY <1>1, CurrentType DEF AuthorityInv, IInv, TypeOK, Issuances
  <1>4. issuance.deleted = 0
    BY <1>1, CurrentFields DEF AuthorityInv, CustodyInv, Keyed
  <1>5. CurrentStage = "spent" /\ CurrentStage' = "saved"
    BY <1>1, <1>2, <1>3, <1>4 DEF CurrentStage
  <1>. QED BY <1>1, <1>2, <1>5, StageMoved DEF Authority!Save, Authority!Move

\* Deleting a certificate deletes the saved order it belongs to, if any.
LEMMA DeleteRecordStages ==
    ASSUME AuthorityInv, StageFacts, StageFacts', NEW u \in Urls, DeleteRecord(u)
    PROVE  Authority!Delete(u) \/ UNCHANGED <<Stage, order.url>>
  <1>1. TypeOK /\ IInv /\ CustodyInv
    BY DEF AuthorityInv, IInv
  <1>2. /\ Authentic
        /\ certs[u] /= "absent"
        /\ request' = Tombstone(Current, u).request
        /\ issuance' = Tombstone(Current, u).issuance
        /\ closed' = [i \in DOMAIN closed |-> Tombstone(closed[i], u)]
        /\ UNCHANGED <<now, order, op, finalized>>
    BY DEF DeleteRecord, TombstoneClosed, sent
  <1>3. now /= 0
    BY <1>1, CurrentType
  <1>4. /\ DOMAIN closed' = DOMAIN closed
        /\ \A i \in DOMAIN closed :
               /\ closed'[i].order = closed[i].order
               /\ closed'[i].issuance.saved = closed[i].issuance.saved
               /\ closed'[i] /= closed[i] =>
                      /\ SavedBy(closed[i], u)
                      /\ ~Deleted(closed[i]) /\ Deleted(closed'[i])
    BY <1>1, DeleteRecordLedger
  <1>5. ASSUME NEW v \in Urls, v /= u \/ ~\E i \in DOMAIN closed : SavedBy(closed[i], u),
               v /= order.url
        PROVE  Stage'[v] = Stage[v]
    <2>1. CASE v \in ClosedUrls
      <3>1. PICK i \in DOMAIN closed : closed[i].order.url = v
        BY <2>1 DEF ClosedUrls
      <3>2. ~SavedBy(closed[i], u)
        BY <1>5, <3>1 DEF SavedBy
      <3>3. closed'[i] = closed[i]
        BY <1>4, <3>2
      <3>4. Stage[v] = ClosedStage(closed[i]) /\ Stage'[v] = ClosedStage(closed'[i])
        BY <1>4, <3>1, <3>3 DEF StageFacts
      <3>. QED BY <3>3, <3>4
    <2>2. CASE v \notin ClosedUrls
      <3>1. v \notin ClosedUrls'
        BY <1>4, <2>2 DEF ClosedUrls
      <3>. QED BY <1>2, <1>5, <2>2, <3>1 DEF StageFacts
    <2>. QED BY <2>1, <2>2
  <1>6. issuance'.started = issuance.started /\ issuance'.saved = issuance.saved
    BY <1>1, <1>2, TombstoneCurrentKeeps
  <1>7. CASE SavedBy(Current, u)
    <2>1. order.url = u /\ issuance.saved /= 0 /\ Placed
      BY <1>7, CurrentFields DEF SavedBy, Placed
    <2>2. issuance.deleted = 0
      <3>1. issuance.started /= 0
        BY <1>1, <2>1, CurrentFields DEF CustodyInv, Keyed
      <3>2. ~Deleted(Current)
        BY <1>2, <2>1, <3>1, AuthenticParts, CurrentFields DEF Matches
      <3>. QED BY <2>1, <3>2, CurrentFields DEF Deleted
    <2>3. issuance'.deleted = now
      BY <1>1, <1>2, <1>7, TombstoneCurrentMarks
    <2>4. Stage[u] = "saved" /\ Stage'[u] = "deleted"
      BY <1>2, <1>3, <1>6, <2>1, <2>2, <2>3 DEF StageFacts, CurrentStage
    <2>5. \A v \in Urls : v /= u => Stage'[v] = Stage[v]
      BY <1>5, <2>1
    <2>6. Stage' = [Stage EXCEPT ![u] = "deleted"]
      BY <2>4, <2>5, StageMove
    <2>. QED BY <1>2, <2>4, <2>6 DEF Authority!Delete, Authority!Move
  <1>8. ASSUME NEW i \in DOMAIN closed, SavedBy(closed[i], u)
        PROVE  Authority!Delete(u)
    <2>1. closed[i].order.url = u /\ closed[i].issuance.saved /= 0
      BY <1>8 DEF SavedBy
    <2>2. u /= order.url
      BY <1>1, <2>1 DEF IInv, OrderInv, Placed, ClosedUrls
    <2>3. ~SavedBy(Current, u)
      BY <2>2, CurrentFields DEF SavedBy
    <2>4. issuance' = issuance
      BY <1>1, <1>2, <2>3, TombstoneCurrentMarks
    <2>5. ~Deleted(closed[i])
      <3>1. closed[i].issuance.started /= 0
        BY <1>1, <2>1 DEF CustodyInv, Keyed
      <3>. QED BY <1>2, <2>1, <3>1, AuthenticParts DEF Matches
    <2>6. closed'[i].issuance.deleted = now
      <3>1. closed[i] \in Scopes /\ closed'[i] = Tombstone(closed[i], u)
        BY <1>1, <1>2, ClosedScopes
      <3>2. Tombstone(closed[i], u).issuance.deleted = now
        BY <1>1, <1>8, <3>1, TombstoneClosedMarks
      <3>. QED BY <3>1, <3>2
    <2>7. Stage[u] = ClosedStage(closed[i]) /\ Stage'[u] = ClosedStage(closed'[i])
      BY <1>4, <2>1 DEF StageFacts
    <2>8. Stage[u] = "saved" /\ Stage'[u] = "deleted"
      BY <1>3, <1>4, <2>1, <2>5, <2>6, <2>7 DEF ClosedStage, Deleted
    <2>9. ASSUME NEW v \in Urls, v /= u PROVE Stage'[v] = Stage[v]
      <3>1. CASE v = order.url
        <4>1. CurrentStage' = CurrentStage
          BY <1>2, <2>4, CurrentStageFrame
        <4>. QED BY <1>2, <3>1, <4>1 DEF StageFacts
      <3>2. CASE v /= order.url
        BY <1>5, <2>9, <3>2
      <3>. QED BY <3>1, <3>2
    <2>10. Stage' = [Stage EXCEPT ![u] = "deleted"]
      BY <2>8, <2>9, StageMove
    <2>. QED BY <1>2, <2>8, <2>10 DEF Authority!Delete, Authority!Move
  <1>9. CASE ~SavedBy(Current, u) /\ ~\E i \in DOMAIN closed : SavedBy(closed[i], u)
    <2>1. issuance' = issuance
      BY <1>1, <1>2, <1>9, TombstoneCurrentMarks
    <2>2. CurrentStage' = CurrentStage
      BY <1>2, <2>1, CurrentStageFrame
    <2>3. ASSUME NEW v \in Urls PROVE Stage'[v] = Stage[v]
      <3>1. CASE v = order.url
        BY <1>2, <2>2, <3>1 DEF StageFacts
      <3>2. CASE v /= order.url
        BY <1>5, <1>9, <3>2
      <3>. QED BY <3>1, <3>2
    <2>. QED BY <1>2, <2>3, StageStay
  <1>. QED BY <1>7, <1>8, <1>9

\* Closing the request ends the active order: saved, deleted or expired.
LEMMA CloseRequestStages ==
    ASSUME AuthorityInv, StageFacts, StageFacts', CloseRequest
    PROVE  Placed /\ Authority!Close(order.url)
  <1>1. TypeOK
    BY DEF AuthorityInv, IInv
  <1>2. PICK s \in Scopes :
               /\ s.reason = CloseReason(Current, now)
               /\ s.order = order /\ s.issuance = issuance
               /\ s.reason \in {"complete", "expired"}
               /\ DOMAIN closed' = DOMAIN closed \cup {Len(closed) + 1}
               /\ closed'[Len(closed) + 1] = s
               /\ \A i \in DOMAIN closed : closed'[i] = closed[i]
               /\ order' = NoOrder
    BY <1>1, CloseRequestMoves
  <1>3. Placed /\ order'.url = NoUrl /\ NoUrl \notin Urls
    BY <1>1, <1>2, ClosableIsPlaced, ConstantsAssumption DEF NoOrder
  <1>4. op.kind = "idle"
    BY DEF CloseRequest, Unlocked
  <1>5. /\ Stage[order.url] = CurrentStage
        /\ Stage'[order.url] = ClosedStage(s)
    BY <1>2, <1>3 DEF StageFacts, Placed
  <1>6. ASSUME NEW v \in Urls, v /= order.url PROVE Stage'[v] = Stage[v]
    <2>1. v /= order'.url
      BY <1>3
    <2>2. CASE v \in ClosedUrls
      <3>1. PICK i \in DOMAIN closed : closed[i].order.url = v
        BY <2>2 DEF ClosedUrls
      <3>2. i \in DOMAIN closed' /\ closed'[i] = closed[i]
        BY <1>2, <3>1
      <3>3. Stage[v] = ClosedStage(closed[i]) /\ Stage'[v] = ClosedStage(closed'[i])
        BY <3>1, <3>2 DEF StageFacts
      <3>. QED BY <3>2, <3>3
    <2>3. CASE v \notin ClosedUrls
      <3>1. v \notin ClosedUrls'
        BY <1>2, <1>6, <2>3 DEF ClosedUrls
      <3>. QED BY <1>6, <2>1, <2>3, <3>1 DEF StageFacts
    <2>. QED BY <2>2, <2>3
  <1>7. CASE issuance.saved /= 0
    <2>1. Stage'[order.url] = Stage[order.url] /\ Stage[order.url] \in {"saved", "deleted"}
      BY <1>2, <1>5, <1>7 DEF CurrentStage, ClosedStage
    <2>2. \A v \in Urls : Stage'[v] = Stage[v]
      BY <1>6, <2>1
    <2>. QED BY <1>3, <2>1, <2>2, StageStay DEF Authority!Close
  <1>8. CASE issuance.saved = 0
    <2>1. /\ Stage'[order.url] = "expired"
          /\ Stage[order.url] \in {"located", "forfeited", "spent"}
      BY <1>2, <1>4, <1>5, <1>8 DEF CurrentStage, ClosedStage
    <2>2. Stage' = [Stage EXCEPT ![order.url] = "expired"]
      BY <1>3, <1>6, <2>1, StageMove DEF Placed
    <2>. QED BY <1>3, <2>1, <2>2 DEF Authority!Close, Authority!Move
  <1>. QED BY <1>7, <1>8

\* Every step of the flow is a step of the authority, or leaves it alone.
LEMMA NextAuthority ==
    AuthorityInv /\ AuthorityInv' /\ [Next]_vars
        => [Authority!Next]_<<Stage, order.url>>
  <1> SUFFICES ASSUME AuthorityInv, AuthorityInv', [Next]_vars
               PROVE  Authority!Next \/ UNCHANGED <<Stage, order.url>>
    OBVIOUS
  <1>1. StageFacts /\ StageFacts'
    BY StageIs, StageIsNext
  <1>2. ASSUME NEW u \in Urls,
               \/ Authority!Locate(u) \/ Authority!Lease(u) \/ Authority!Spend(u)
               \/ Authority!Forfeit(u) \/ Authority!Save(u) \/ Authority!Delete(u)
               \/ Authority!Close(u)
        PROVE  Authority!Next
    BY <1>2 DEF Authority!Next
  <1>3. CASE Quiet
    <2>1. CASE Abandon
      BY <1>1, <1>2, <2>1, AbandonStages DEF Placed
    <2>2. CASE SendFinalize
      BY <1>1, <1>2, <2>2, SendFinalizeStages DEF Placed
    <2>. QED BY <1>1, <1>3, <2>1, <2>2, QuietStages
  <1>4. ASSUME NEW source \in Urls \cup {NoUrl}, BeginOrder(source)
        PROVE  UNCHANGED <<Stage, order.url>>
    <2>1. ~Placed /\ order'.url = NoUrl /\ closed' = closed
      BY <1>4 DEF BeginOrder, NoOrder, AuthorityInv, IInv, OrderInv
    <2>2. order.url = NoUrl
      BY <2>1, UnplacedEmpty DEF AuthorityInv
    <2>. QED BY <1>1, <2>1, <2>2, StageKept
  <1>5. CASE Checkpoint
    BY <1>1, <1>2, <1>5, CheckpointStages
  <1>6. CASE PrepareRequest \/ \E u \in Urls : ImportCertificate(u)
    <2>1. UNCHANGED <<order, issuance, closed, op, finalized>>
      BY <1>6 DEF PrepareRequest, ImportCertificate, sent
    <2>. QED BY <1>1, <2>1, CurrentStageFrame, StageKept
  <1>7. CASE BeginIssuance
    BY <1>1, <1>2, <1>7, BeginIssuanceStages DEF Placed
  <1>8. ASSUME NEW e \in Stamp, FinishObserve(e) PROVE UNCHANGED <<Stage, order.url>>
    BY <1>1, <1>8, FinishObserveStages
  <1>9. ASSUME NEW e \in Stamp, FinishComplete(e) PROVE Authority!Next
    BY <1>1, <1>2, <1>9, FinishCompleteStages DEF Placed
  <1>10. ASSUME NEW u \in Urls, DeleteRecord(u)
         PROVE  Authority!Next \/ UNCHANGED <<Stage, order.url>>
    BY <1>1, <1>2, <1>10, DeleteRecordStages
  <1>11. CASE CloseRequest
    BY <1>1, <1>2, <1>11, CloseRequestStages DEF Placed
  <1>. QED
    BY <1>3, <1>4, <1>5, <1>6, <1>7, <1>8, <1>9, <1>10, <1>11, StepSorts

\* The empty inventory knows no order.
LEMMA InitAuthority == Init => Authority!Init
  <1> SUFFICES ASSUME Init PROVE Authority!Init
    OBVIOUS
  <1>1. order.url = NoUrl /\ NoUrl \notin Urls /\ DOMAIN closed = {}
    BY ConstantsAssumption DEF Init, NoOrder
  <1>2. Stage = [u \in Urls |-> "unknown"]
    BY <1>1 DEF Stage
  <1>. QED BY <1>1, <1>2 DEF Authority!Init

\* The flow implements IssuanceAuthority, whatever crashes, clock steps and
\* imports happen: an order gives one finalize authority once, to be spent or
\* forfeited, and one order is active at a time.
THEOREM FlowImplementsAuthority == Spec => ImplementsAuthority
  <1>1. Spec => Authority!Init
    BY InitAuthority DEF Spec
  <1>. QED
    BY <1>1, AuthorityAlways, NextAuthority, PTL
    DEF Spec, ImplementsAuthority, Authority!Spec
===============================================================================
