------------------------- MODULE RenewalTimingProofs -------------------------
(***************************************************************************)
(* The renewal timing, proved for any certificates, clock, windows and     *)
(* waits: every answer that comes in time can be saved, the CA is never    *)
(* asked too soon, and a renewal is never put off.                         *)
(***************************************************************************)
EXTENDS RenewalTiming, TLAPS

Sources == {"none", "fallback", "ari"}

WindowType == [start : Nat, end : Nat]

AriType == [start : Nat, end : Nat, checked : Nat, after : Nat]

PlanType == [outcome : Outcomes, prepared : Nat, started : Nat, out : Nat,
             next : Nat, failures : Nat, source : Sources, renewAt : Nat,
             fallback : Nat, choice : WindowType, computed : Nat, ari : AriType]

WaitType == [seen : Nat, until : Nat, blocked : BOOLEAN]

HintType == [at : Nat, blocked : BOOLEAN]

ReadType == [kind : {"read"}, certificate : Certificates, started : Nat,
             until : Nat, sent : Nat]

CallType == [kind : {"ca"}, started : Nat, until : Nat, sent : Nat]

Typed ==
    /\ now \in 1 .. MaxTime /\ steps \in Nat
    /\ held \subseteq Certificates /\ superseded \subseteq Certificates
    /\ plan \in [Certificates -> PlanType]
    /\ wait \in WaitType /\ stamped \in 0 .. MaxTime
    /\ op \in {NoOp} \cup ReadType \cup CallType
    /\ asked \in Nat /\ quiet \in [Certificates -> 0 .. Minute]

\* Every plan opens, and the wait; the wait was saved with an event.
Opens ==
    /\ \A c \in Certificates : plan[c] # NoPlan => c \in held /\ ValidPlan(plan[c])
    /\ ValidWait(wait) /\ wait.seen <= stamped

\* The plan a read works on is pending since the read began, its lease ends
\* within the lifetime, it began when the CA might be asked again, and the
\* clock has not run ahead of the time since it asked.
Reading ==
    op.kind = "read" =>
        LET c == op.certificate
        IN  /\ Pending(plan[c]) /\ plan[c].started = op.started
            /\ op.until <= op.started + LeaseTime /\ op.until <= Life.end
            /\ Life.start <= op.started /\ stamped <= op.started
            /\ plan[c].next >= op.started + ErrorDelay
            /\ op.sent = 0 => quiet[c] >= Minute
            /\ op.sent # 0 => /\ op.sent >= op.started
                              /\ quiet[c] >= Minute \/ op.sent + quiet[c] >= now

\* What the CA asked for is in the saved wait, or has passed when an event was
\* stamped; an operation that may call began after that.
Promised ==
    /\ wait.blocked \/ asked <= stamped \/ asked <= wait.until
    /\ op.kind = "ca" => ~wait.blocked /\ stamped <= op.started

\* What is left of the shortest delay passes before the next check is due.
Spaced ==
    \A c \in held : quiet[c] < Minute => Planned(c) /\ now + Minute <= plan[c].next + quiet[c]

IInv == Typed /\ Opens /\ Reading /\ Promised /\ Spaced /\ AnswerSaved

----------------------------------------------------------------------------
(* The policies                                                            *)

LEMMA Orders ==
    \A a, b \in Nat : /\ Latest(a, b) \in Nat /\ Earliest(a, b) \in Nat
                      /\ Latest(a, b) >= a /\ Latest(a, b) >= b /\ Latest(a, b) \in {a, b}
                      /\ Earliest(a, b) <= a /\ Earliest(a, b) <= b
                      /\ Earliest(a, b) \in {a, b}
BY DEF Latest, Earliest

\* The next check after an error is neither too early nor too late.
LEMMA ErrorCheck ==
    ASSUME NEW t \in Nat, NEW f \in 1 .. MaxFailures, NEW y \in BOOLEAN
    PROVE  /\ ErrorCheckAt(t, y, f) \in Nat
           /\ ErrorCheckAt(t, y, f) >= t + Minute
           /\ ErrorCheckAt(t, y, f) <= t + ErrorDelay
           /\ ~y => ErrorCheckAt(t, y, f) = t + ErrorDelay
<1>1. CASE y /\ f < MaxFailures
    <2>1. f \in 1 .. MaxFailures - 1
        BY <1>1, PolicyAssumption
    <2> DEFINE delay == Minute * 2 ^ (f - 1)
    <2>2. delay \in Minute .. ErrorDelay
        BY <2>1, DelaysAssumption
    <2>3. ErrorCheckAt(t, y, f) = t + delay
        BY <1>1 DEF ErrorCheckAt
    <2> HIDE DEF delay
    <2>4. /\ ErrorCheckAt(t, y, f) \in Nat /\ ErrorCheckAt(t, y, f) >= t + Minute
          /\ ErrorCheckAt(t, y, f) <= t + ErrorDelay
        BY <2>2, <2>3, PolicyAssumption
    <2>5. QED
        BY <1>1, <2>4
<1>2. CASE ~(y /\ f < MaxFailures)
    BY <1>2, PolicyAssumption, DelaysAssumption DEF ErrorCheckAt
<1>3. QED
    BY <1>1, <1>2

LEMMA NextCheckFits ==
    ASSUME NEW d \in Nat, NEW t \in Nat
    PROVE  /\ NextCheck(d, t) \in Nat
           /\ NextCheck(d, t) - t \in Minute .. CheckDay
BY PolicyAssumption DEF NextCheck, Latest, Earliest

\* A moment that is drawn lies in the window, or is the present.
LEMMA Selected ==
    ASSUME NEW w \in [start : Nat, end : Nat], NEW t \in Nat, NEW at \in Selections(Life, w, t)
    PROVE  /\ at \in Nat /\ at >= t /\ at >= w.start /\ (at < w.end \/ at = t)
           /\ Life.start <= t /\ at < Life.end
<1>1. PICK s \in w.start .. w.end - 1 : at = Latest(s, t)
    BY DEF Selections
<1>2. Life.start <= t /\ at < Life.end
    BY DEF Selections
<1>3. QED
    BY <1>1, <1>2 DEF Latest

\* Nor does a draw from the fallback window lead out of time.
LEMMA DrawnAhead ==
    ASSUME NEW t \in Nat, NEW at \in Selections(Life, FallbackWindow(Life), t)
    PROVE  at \in Nat
<1> DEFINE w == FallbackWindow(Life)
<1>1. PICK s \in w.start .. w.end - 1 : at = Latest(s, t)
    BY DEF Selections
<1>2. s \in Int
    BY <1>1
<1>3. QED
    BY <1>1, <1>2 DEF Latest

LEMMA Hinted ==
    ASSUME Typed, NEW h \in Hints
    PROVE  h \in HintType
<1>1. CASE h \in {NoHint, [at |-> 0, blocked |-> TRUE]}
    <2>1. ASSUME NEW b \in BOOLEAN PROVE [at |-> 0, blocked |-> b] \in HintType
        BY DEF HintType
    <2>2. QED
        BY <1>1, <2>1 DEF NoHint
<1>2. CASE \E d \in Retries : h = [at |-> now + d, blocked |-> FALSE]
    <2>1. PICK d \in Retries : h = [at |-> now + d, blocked |-> FALSE]
        BY <1>2
    <2>2. now + d \in Nat
        BY TimingAssumption DEF Typed
    <2>3. QED
        BY <2>1, <2>2 DEF HintType
<1>3. QED
    BY <1>1, <1>2 DEF Hints

\* A wait stays one that opens, blocks when it did, and reaches as far as it
\* did and as the answer asks.
LEMMA Constrains ==
    ASSUME Typed, ValidWait(wait), NEW h \in HintType, h # NoHint => now >= wait.seen
    PROVE  LET w == Constrained(wait, h)
           IN  /\ w \in WaitType /\ ValidWait(w)
               /\ wait.blocked => w.blocked
               /\ w.seen = wait.seen \/ w.seen = now
               /\ w.blocked \/ AskedBy(h) <= now \/ AskedBy(h) <= w.until
               /\ wait.until > now => w.until >= wait.until
<1> DEFINE beyond == h.at # 0 /\ h.at > now + MaxProviderWait
           blocked == wait.blocked \/ h.blocked \/ beyond
           fresh == IF h.at > now /\ ~beyond THEN h.at ELSE 0
           kept == IF wait.until > now /\ (fresh = 0 \/ wait.until > h.at)
                   THEN wait.until ELSE fresh
           w == Constrained(wait, h)
<1>1. /\ wait.seen \in Nat /\ wait.until \in Nat /\ wait.blocked \in BOOLEAN
      /\ h.at \in Nat /\ h.blocked \in BOOLEAN /\ now \in Nat /\ MaxProviderWait \in Nat
    BY TimingAssumption DEF Typed, WaitType, HintType
<1>2. CASE h = NoHint \/ (~blocked /\ h.at <= now)
    <2>1. w = wait
        BY <1>2 DEF Constrained
    <2>2. AskedBy(h) <= now
        BY <1>1, <1>2 DEF AskedBy, NoHint
    <2>3. QED
        BY <1>1, <2>1, <2>2 DEF Typed
<1>3. CASE ~(h = NoHint \/ (~blocked /\ h.at <= now))
    <2>1. w = [seen |-> now, until |-> kept, blocked |-> blocked]
        BY <1>3 DEF Constrained
    <2>2. w.seen = now /\ w.until = kept /\ w.blocked = blocked
        BY <2>1
    <2>3. kept \in Nat /\ blocked \in BOOLEAN
        BY <1>1
    <2>4. w \in WaitType
        BY <2>1, <2>3, <1>1 DEF WaitType
    <2>5. now >= wait.seen
        BY <1>3
    <2>6. wait # NoWait /\ wait.until # 0 => wait.until - wait.seen <= MaxProviderWait
        BY DEF ValidWait
    <2>7. wait = NoWait => wait.until = 0
        BY DEF NoWait
    <2>8. kept # 0 => kept > now /\ kept - now <= MaxProviderWait
        BY <1>1, <2>5, <2>6, <2>7
    <2>9. blocked \/ kept # 0
        BY <1>1, <1>3
    <2>10. ValidWait(w)
        BY <2>2, <2>8, <2>9 DEF ValidWait
    <2>11. blocked \/ AskedBy(h) <= now \/ AskedBy(h) <= kept
        BY <1>1, <1>3 DEF AskedBy
    <2>12. wait.until > now => kept >= wait.until
        BY <1>1
    <2>13. QED
        BY <2>2, <2>4, <2>10, <2>11, <2>12
<1>4. QED
    BY <1>2, <1>3
----------------------------------------------------------------------------
(* The steps                                                               *)

LEMMA NoPlans == NoPlan \in PlanType /\ ~Pending(NoPlan) /\ NoPlan.source = "none"
BY DEF NoPlan, NoWindow, NoInfo, PlanType, Outcomes, Sources, WindowType, AriType, Pending

LEMMA InitIInv == Init => IInv
<1> SUFFICES ASSUME Init PROVE IInv
    OBVIOUS
<1>1. Typed
    BY NoPlans, TimingAssumption, PolicyAssumption DEF Init, Typed, NoWait, WaitType
<1>2. Opens
    BY NoPlans DEF Init, Opens, ValidWait, NoWait
<1>3. Reading /\ Promised /\ Spaced /\ AnswerSaved
    BY TimingAssumption, PolicyAssumption
       DEF Init, Reading, Promised, Spaced, AnswerSaved, NoOp, NoWait
<1>4. QED
    BY <1>1, <1>2, <1>3 DEF IInv

\* What the operation in flight is.
LEMMA Ops ==
    ASSUME Typed
    PROVE  /\ op.kind = "read" => op \in ReadType
           /\ op.kind = "ca" => op \in CallType
           /\ op.kind \in {"none", "read", "ca"} /\ (op = NoOp <=> op.kind = "none")
BY DEF Typed, NoOp, ReadType, CallType

LEMMA TickKeeps == IInv /\ Tick => IInv'
<1> SUFFICES ASSUME IInv, Tick PROVE IInv'
    OBVIOUS
<1>1. UNCHANGED <<held, superseded, plan, wait, stamped, op, asked, refused>>
    BY DEF Tick, saved
<1>2. /\ now' \in 1 .. MaxTime /\ steps' \in Nat /\ quiet' \in [Certificates -> 0 .. Minute]
      /\ \A c \in Certificates : /\ quiet[c] >= Minute => quiet'[c] >= Minute
                                 /\ now' - now <= quiet'[c] - quiet[c] \/ quiet'[c] >= Minute
    <2>1. CASE now < MaxTime /\ now' = now + 1 /\ steps' = steps
               /\ quiet' = [c \in Certificates |-> Earliest(Minute, quiet[c] + 1)]
        BY <2>1, TimingAssumption, PolicyAssumption DEF IInv, Typed, Earliest
    <2>2. CASE now > 1 /\ now' = now - 1 /\ steps' = steps + 1 /\ quiet' = quiet
        BY <2>2, TimingAssumption, PolicyAssumption DEF IInv, Typed
    <2>3. QED
        BY <2>1, <2>2 DEF Tick
<1>3. Typed' /\ Opens' /\ Promised'
    BY <1>1, <1>2 DEF IInv, Typed, Opens, Promised
<1>4. Reading'
    <2> SUFFICES ASSUME op.kind = "read" PROVE Reading'
        BY <1>1 DEF Reading
    <2>1. op \in ReadType
        BY Ops DEF IInv
    <2>2. op.sent # 0 => \/ quiet'[op.certificate] >= Minute
                         \/ op.sent + quiet'[op.certificate] >= now'
        BY <1>2, <2>1, PolicyAssumption DEF IInv, Reading, Typed, ReadType
    <2>3. QED
        BY <1>1, <1>2, <2>1, <2>2 DEF IInv, Reading, ReadType
<1>5. Spaced'
    <2> SUFFICES ASSUME NEW c \in held, quiet'[c] < Minute
                 PROVE  Planned(c) /\ now' + Minute <= plan[c].next + quiet'[c]
        BY <1>1 DEF Spaced, Planned
    <2>1. c \in Certificates /\ plan[c].next \in Nat
        BY DEF IInv, Typed, PlanType
    <2>2. quiet[c] < Minute
        BY <1>2, <2>1, PolicyAssumption DEF IInv, Typed
    <2>3. QED
        BY <1>2, <2>1, <2>2, PolicyAssumption DEF IInv, Typed, Spaced
<1>6. QED
    BY <1>1, <1>3, <1>4, <1>5 DEF IInv, AnswerSaved

\* An event is stamped, and nothing else that the invariant speaks of changes.
LEMMA StampKeeps ==
    ASSUME IInv, Free, Stamp, now' = now, steps' = steps, held' = held,
           superseded' \subseteq Certificates,
           UNCHANGED <<plan, wait, op, asked, quiet, refused>>
    PROVE  IInv'
<1>1. stamped' \in 0 .. MaxTime /\ stamped' >= stamped
    BY TimingAssumption DEF IInv, Typed, Stamp, Latest
<1>2. op.kind = "none"
    BY DEF Free, NoOp
<1>3. Typed'
    BY <1>1 DEF IInv, Typed
<1>4. Opens' /\ Promised'
    BY <1>1, <1>2, TimingAssumption DEF IInv, Opens, Promised, Typed, WaitType
<1>5. QED
    BY <1>2, <1>3, <1>4 DEF IInv, Reading, Spaced, AnswerSaved, Planned

LEMMA EditKeeps == IInv /\ Edit => IInv'
BY StampKeeps DEF Edit, ghosts, IInv, Typed

LEMMA SupersedeKeeps ==
    ASSUME IInv, NEW c \in Certificates, Supersede(c)
    PROVE  IInv'
BY StampKeeps DEF Supersede, ghosts, IInv, Typed

\* A plan is saved of which the invariant may be told, while no operation runs.
LEMMA PlanKeeps ==
    ASSUME IInv, Free, NEW c \in Certificates, NEW p \in PlanType, SavePlan(c, p),
           now' = now, steps' = steps, superseded' = superseded, held' \subseteq held,
           UNCHANGED <<wait, asked, quiet, refused>>,
           p # NoPlan => c \in held' /\ ValidPlan(p),
           held \subseteq held' \cup {c},
           c \in held' /\ quiet[c] < Minute => p # NoPlan /\ now + Minute <= p.next + quiet[c]
    PROVE  /\ op' = op => IInv'
           /\ Opens' /\ Spaced' /\ stamped' \in 0 .. MaxTime /\ stamped' >= stamped
           /\ stamped' >= now /\ plan' \in [Certificates -> PlanType] /\ plan'[c] = p
           /\ ClockForward => stamped' = now
<1>1. /\ stamped' \in 0 .. MaxTime /\ stamped' >= stamped /\ stamped' >= now
      /\ ClockForward => stamped' = now
    BY TimingAssumption DEF IInv, Typed, SavePlan, Stamp, Latest, ClockForward
<1>2. plan' = [plan EXCEPT ![c] = p] /\ plan' \in [Certificates -> PlanType]
    BY DEF IInv, Typed, SavePlan
<1>3. op.kind = "none"
    BY DEF Free, NoOp
<1>4. Opens'
    <2>1. ASSUME NEW b \in Certificates, plan'[b] # NoPlan PROVE b \in held' /\ ValidPlan(plan'[b])
        <3>1. CASE b = c
            BY <1>2, <2>1, <3>1 DEF IInv, Typed
        <3>2. CASE b # c
            BY <1>2, <2>1, <3>2 DEF IInv, Typed, Opens
        <3>3. QED
            BY <3>1, <3>2
    <2>2. ValidWait(wait') /\ wait'.seen <= stamped'
        BY <1>1 DEF IInv, Typed, Opens, WaitType
    <2>3. QED
        BY <2>1, <2>2 DEF Opens
<1>5. Spaced'
    <2> SUFFICES ASSUME NEW b \in held', quiet'[b] < Minute
                 PROVE  Planned(b)' /\ now' + Minute <= plan'[b].next + quiet'[b]
        BY DEF Spaced
    <2>1. b \in Certificates /\ b \in held
        BY DEF IInv, Typed
    <2>2. CASE b = c
        BY <1>2, <2>2 DEF IInv, Typed, Planned
    <2>3. CASE b # c
        BY <1>2, <2>1, <2>3 DEF IInv, Typed, Spaced, Planned
    <2>4. QED
        BY <2>2, <2>3
<1>6. ASSUME op' = op PROVE IInv'
    <2>1. Typed'
        BY <1>1, <1>2, <1>6 DEF IInv, Typed
    <2>2. Promised'
        BY <1>1, <1>3, <1>6, TimingAssumption DEF IInv, Promised, Typed, WaitType
    <2>3. QED
        BY <1>3, <1>4, <1>5, <1>6, <2>1, <2>2 DEF IInv, Reading, AnswerSaved
<1>7. QED
    BY <1>1, <1>2, <1>4, <1>5, <1>6

LEMMA DeleteKeeps ==
    ASSUME IInv, NEW c \in Certificates, Delete(c)
    PROVE  IInv'
<1>1. c \notin held' /\ held' \subseteq held /\ held \subseteq held' \cup {c} /\ Free
    BY DEF Delete
<1>2. SavePlan(c, NoPlan) /\ UNCHANGED <<now, steps, superseded, wait, op, asked, quiet, refused>>
    BY DEF Delete, ghosts
<1>3. QED
    BY <1>1, <1>2, NoPlans, PlanKeeps

LEMMA InterruptKeeps ==
    ASSUME IInv, NEW c \in Certificates, Interrupt(c)
    PROVE  IInv'
<1> DEFINE o == plan[c]
           p == [o EXCEPT !.outcome = "interrupted", !.out = now]
<1>1. Free /\ c \in held /\ Pending(o) /\ ClockForwardFor(o) /\ SavePlan(c, p)
    BY DEF Interrupt
<1>2. UNCHANGED <<now, steps, held, superseded, wait, op, asked, quiet, refused>>
    BY DEF Interrupt, ghosts
<1>3. o \in PlanType /\ o # NoPlan /\ ValidPlan(o) /\ now \in Nat
    BY <1>1, NoPlans DEF IInv, Typed, Opens
<1>4. p \in PlanType /\ p.next = o.next /\ p # NoPlan
    BY <1>3 DEF PlanType, Outcomes, NoPlan
<1>5. ValidPlan(p)
    BY <1>1, <1>3 DEF ValidPlan, ValidStamps, ValidOutcome, ValidSource, ValidForSource,
       PlanType, Pending, ClockForwardFor, WindowType, AriType
<1>6. quiet[c] < Minute => now + Minute <= p.next + quiet[c]
    BY <1>1, <1>4 DEF IInv, Spaced
<1> HIDE DEF p
<1>7. QED
    BY <1>1, <1>2, <1>4, <1>5, <1>6, PlanKeeps

\* The intent of a read fits the check for its plan that was made before.
LEMMA BeginReadKeeps ==
    ASSUME IInv, NEW c \in Certificates, BeginRead(c)
    PROVE  IInv'
<1>1. Free /\ c \in held /\ CanRead(c)
    BY DEF BeginRead
<1>2. PICK o \in IF Planned(c) THEN {plan[c]} ELSE Prepared :
          ValidPlan(Intent(o)) /\ SavePlan(c, Intent(o))
    BY DEF BeginRead
<1> DEFINE p == Intent(o)
<1>3. UNCHANGED <<now, steps, held, superseded, wait, asked, quiet, refused>>
    BY DEF BeginRead, ghosts
<1>4. op' = [kind |-> "read", certificate |-> c, started |-> now,
             until |-> Earliest(now + LeaseTime, Life.end), sent |-> 0]
    BY DEF BeginRead
<1>5. now \in Nat /\ now # 0 /\ now <= MaxTime /\ now >= Life.start /\ LeaseTime \in Nat /\ Life.end \in Nat
    BY <1>1, TimingAssumption DEF IInv, Typed, CanRead
<1>6. o \in PlanType
    <2>1. CASE Planned(c)
        BY <1>2, <2>1 DEF IInv, Typed
    <2>2. CASE ~Planned(c)
        <3>1. PICK at \in Selections(Life, FallbackWindow(Life), now) :
                o = [NoPlan EXCEPT !.prepared = now, !.source = "fallback",
                                   !.renewAt = at, !.fallback = at]
            BY <1>2, <2>2 DEF Prepared
        <3>2. at \in Nat
            BY <1>5, DrawnAhead
        <3>3. QED
            BY <3>1, <3>2, <1>5, NoPlans DEF PlanType, Sources
    <2>3. QED
        BY <2>1, <2>2
<1>7. /\ p \in PlanType /\ Pending(p) /\ p.started = now /\ p # NoPlan
      /\ p.next >= now + Minute /\ p.next = now + ErrorDelay
    <2> DEFINE f == Earliest(MaxFailures, o.failures + 1)
    <2>1. f \in 1 .. MaxFailures /\ f \in Nat
        BY <1>6, PolicyAssumption DEF Earliest, PlanType
    <2>2. /\ ErrorCheckAt(now, FALSE, f) \in Nat
          /\ ErrorCheckAt(now, FALSE, f) >= now + Minute
          /\ ErrorCheckAt(now, FALSE, f) = now + ErrorDelay
        BY <2>1, <1>5, ErrorCheck
    <2>3. p = [o EXCEPT !.outcome = "pending", !.out = 0, !.failures = f, !.started = now,
                        !.next = ErrorCheckAt(now, FALSE, f)]
        BY DEF Intent
    <2> HIDE DEF f, p
    <2>4. p \in PlanType /\ p.outcome = "pending" /\ p.started = now
          /\ p.next = ErrorCheckAt(now, FALSE, f)
        BY <1>5, <1>6, <2>1, <2>2, <2>3 DEF PlanType, Outcomes
    <2>5. QED
        BY <2>2, <2>4, NoPlans DEF Pending
<1>8. quiet[c] >= Minute
    BY <1>1, <1>5, PolicyAssumption DEF IInv, Spaced, CanRead, Typed, PlanType
<1>9. ~(quiet[c] < Minute)
    BY <1>8, PolicyAssumption DEF IInv, Typed
<1>10. ValidPlan(p) /\ SavePlan(c, p)
    BY <1>2
<1> HIDE DEF p
<1>11. ClockForward /\ wait.seen <= now
    BY <1>1 DEF CanRead, ClockForwardFor, ClockForward
<1>12. /\ Opens' /\ Spaced' /\ stamped' \in 0 .. MaxTime /\ stamped' >= stamped
       /\ plan' \in [Certificates -> PlanType] /\ plan'[c] = p /\ stamped' = now
    BY <1>1, <1>3, <1>7, <1>9, <1>10, <1>11, PlanKeeps
<1>13. /\ op' \in ReadType /\ op'.kind = "read" /\ op'.certificate = c /\ op'.started = now
       /\ op'.until <= now + LeaseTime /\ op'.until <= Life.end /\ op'.sent = 0
    <2>1. now + LeaseTime \in Nat
        BY <1>5
    <2>2. /\ Earliest(now + LeaseTime, Life.end) \in Nat
          /\ Earliest(now + LeaseTime, Life.end) <= now + LeaseTime
          /\ Earliest(now + LeaseTime, Life.end) <= Life.end
        BY <1>5, <2>1, Orders
    <2>3. QED
        BY <1>4, <1>5, <2>2 DEF ReadType
<1>14. Typed'
    BY <1>3, <1>12, <1>13 DEF IInv, Typed
<1>15. Reading'
    <2>1. quiet[c] >= Minute
        BY <1>8
    <2>2. stamped' = now /\ plan'[c] = p /\ quiet' = quiet /\ now' = now
        BY <1>3, <1>12
    <2>3. p.outcome = "pending" /\ p.started = now /\ p.next = now + ErrorDelay
        BY <1>7 DEF Pending
    <2>4. op'.certificate = c /\ op'.started = now /\ op'.sent = 0
          /\ op'.until <= now + LeaseTime /\ op'.until <= Life.end
        BY <1>13
    <2>5. now + ErrorDelay >= now + ErrorDelay
        BY <1>5, PolicyAssumption
    <2>6. QED
        BY <1>5, <2>1, <2>2, <2>3, <2>4, <2>5 DEF Reading, Pending
<1>16. Promised'
    BY <1>3, <1>12, <1>13, TimingAssumption DEF IInv, Promised, Typed, WaitType
<1>17. QED
    BY <1>3, <1>12, <1>14, <1>15, <1>16 DEF IInv, AnswerSaved

LEMMA CallKeeps == IInv /\ Call => IInv'
<1> SUFFICES ASSUME IInv, Call PROVE IInv'
    OBVIOUS
<1> DEFINE c == op.certificate
<1>1. op \in ReadType /\ op.kind = "read" /\ op.sent = 0 /\ op.started <= now /\ now < op.until
    BY Ops DEF Call, Allowed, IInv
<1>2. /\ op' = [op EXCEPT !.sent = now] /\ quiet' = [quiet EXCEPT ![c] = 0]
      /\ UNCHANGED <<now, steps, held, superseded, plan, wait, stamped, asked, refused>>
    BY DEF Call, saved
<1>3. op' \in ReadType /\ op'.kind = "read" /\ op'.certificate = c /\ op'.started = op.started
      /\ op'.until = op.until /\ op'.sent = now
    BY <1>1, <1>2 DEF ReadType, IInv, Typed
<1>4. quiet' \in [Certificates -> 0 .. Minute] /\ quiet'[c] = 0 /\ c \in Certificates
      /\ \A b \in Certificates : b # c => quiet'[b] = quiet[b]
    BY <1>1, <1>2, PolicyAssumption DEF ReadType, IInv, Typed
<1>5. Typed' /\ Opens' /\ Promised'
    BY <1>2, <1>3, <1>4 DEF IInv, Typed, Opens, Promised
<1>6. Reading'
    BY <1>1, <1>2, <1>3, <1>4 DEF IInv, Reading, Typed, ReadType
<1>7. plan[c] # NoPlan /\ now + Minute <= plan[c].next
    <2>1. /\ Pending(plan[c]) /\ op.until <= op.started + LeaseTime
          /\ plan[c].next >= op.started + ErrorDelay
        BY <1>1 DEF IInv, Reading
    <2>2. QED
        BY <1>1, <2>1, NoPlans, TimingAssumption, PolicyAssumption DEF ReadType, IInv, Typed, PlanType
<1>8. Spaced'
    <2> SUFFICES ASSUME NEW b \in held, quiet'[b] < Minute
                 PROVE  Planned(b) /\ now + Minute <= plan[b].next + quiet'[b]
        BY <1>2 DEF Spaced, Planned
    <2>1. b \in Certificates /\ plan[b] \in PlanType /\ plan[b].next \in Nat
        BY DEF IInv, Typed, PlanType
    <2>2. CASE b = c
        BY <1>4, <1>7, <2>1, <2>2 DEF Planned
    <2>3. CASE b # c
        <3>1. quiet[b] < Minute /\ quiet'[b] = quiet[b]
            BY <1>4, <2>1, <2>3
        <3>2. QED
            BY <3>1 DEF IInv, Spaced
    <2>4. QED
        BY <2>2, <2>3
<1>9. QED
    BY <1>2, <1>5, <1>6, <1>8 DEF IInv, AnswerSaved

\* What an answer in time tells of the read.
LEMMA Answers ==
    ASSUME IInv, Answered
    PROVE  /\ op \in ReadType /\ op.kind = "read" /\ op.certificate \in Certificates
           /\ plan[op.certificate] \in PlanType /\ plan[op.certificate] # NoPlan
           /\ ValidPlan(plan[op.certificate]) /\ Pending(plan[op.certificate])
           /\ op.certificate \in held /\ plan[op.certificate].started = op.started
           /\ op.sent \in Nat /\ op.sent >= op.started
           /\ quiet[op.certificate] >= Minute \/ op.sent + quiet[op.certificate] >= now
           /\ now \in Nat /\ op.started \in Nat /\ op.started <= now
           /\ now < op.started + LeaseTime /\ now < Life.end /\ Life.start <= now
           /\ stamped <= now /\ wait.seen <= now
           /\ plan[op.certificate].failures \in 1 .. MaxFailures
<1> DEFINE c == op.certificate
<1>1. op \in ReadType /\ op.kind = "read" /\ op.sent # 0 /\ op.started <= now /\ now < op.until
    BY Ops DEF Answered, Allowed, IInv
<1>2. c \in Certificates /\ op.started \in Nat /\ op.until \in Nat /\ op.sent \in Nat
    BY <1>1 DEF ReadType
<1>3. plan[c] \in PlanType /\ now \in Nat /\ stamped \in Nat /\ wait.seen \in Nat
    BY <1>2 DEF IInv, Typed, WaitType
<1>4. /\ Pending(plan[c]) /\ plan[c].started = op.started /\ op.until <= op.started + LeaseTime
      /\ op.until <= Life.end /\ Life.start <= op.started /\ stamped <= op.started
      /\ op.sent >= op.started /\ (quiet[c] >= Minute \/ op.sent + quiet[c] >= now)
    BY <1>1 DEF IInv, Reading
<1>5. plan[c] # NoPlan
    BY <1>4, NoPlans
<1>6. ValidPlan(plan[c]) /\ c \in held /\ wait.seen <= stamped
    BY <1>2, <1>5 DEF IInv, Opens
<1>7. plan[c].failures \in 1 .. MaxFailures
    BY <1>3, <1>4, <1>6, PolicyAssumption DEF ValidPlan, ValidStamps, ValidOutcome, Pending, PlanType
<1>8. now < op.started + LeaseTime /\ now < Life.end /\ Life.start <= now
    BY <1>1, <1>2, <1>3, <1>4, TimingAssumption
<1>9. stamped <= now /\ wait.seen <= now
    BY <1>1, <1>2, <1>3, <1>4, <1>6
<1> HIDE DEF c
<1>10. QED
    BY <1>1, <1>2, <1>3, <1>4, <1>5, <1>6, <1>7, <1>8, <1>9 DEF c

\* A wait is saved with the event of its answer, and holds what was asked.
LEMMA WaitSaved ==
    ASSUME IInv, NEW h \in HintType, now >= wait.seen, SaveWait(h),
           now' = now, stamped' = now, stamped <= now
    PROVE  /\ wait' \in WaitType /\ ValidWait(wait') /\ wait'.seen <= stamped' /\ asked' \in Nat
           /\ wait'.blocked \/ asked' <= stamped' \/ asked' <= wait'.until
           /\ wait.blocked => wait'.blocked
           /\ wait.until > now => wait'.until >= wait.until
<1>1. wait' = Constrained(wait, h) /\ asked' = Latest(asked, AskedBy(h))
    BY DEF SaveWait
<1>2. AskedBy(h) \in Nat /\ asked' \in Nat /\ asked' \in {asked, AskedBy(h)}
    BY <1>1, TimingAssumption DEF AskedBy, Never, HintType, IInv, Typed, Latest
<1>3. /\ wait' \in WaitType /\ ValidWait(wait') /\ (wait.blocked => wait'.blocked)
      /\ wait.until > now => wait'.until >= wait.until
      /\ wait'.seen = wait.seen \/ wait'.seen = now
      /\ wait'.blocked \/ AskedBy(h) <= now \/ AskedBy(h) <= wait'.until
    BY <1>1, Constrains DEF IInv, Opens
<1>4. /\ now \in Nat /\ asked \in Nat /\ stamped \in Nat /\ wait.until \in Nat
      /\ wait'.until \in Nat /\ wait.seen \in Nat
    BY <1>3 DEF IInv, Typed, WaitType
<1>5. wait.blocked \/ asked <= stamped \/ asked <= wait.until
    BY DEF IInv, Promised
<1>6. wait'.blocked \/ asked <= now \/ asked <= wait'.until
    BY <1>3, <1>4, <1>5
<1>7. wait'.blocked \/ asked' <= now \/ asked' <= wait'.until
    BY <1>2, <1>3, <1>6
<1>8. wait'.seen <= stamped'
    BY <1>3, <1>4
<1>9. QED
    BY <1>2, <1>3, <1>7, <1>8

\* A plan that opens is saved with the wait of the answer, and is due late
\* enough.
LEMMA FinishKeeps ==
    ASSUME IInv, Answered, NEW p \in PlanType, ValidPlan(p), p # NoPlan, NEW h \in HintType,
           quiet[op.certificate] < Minute => now + Minute <= p.next + quiet[op.certificate],
           Finish(p, h)
    PROVE  IInv' /\ SavePlan(op.certificate, p) /\ SaveWait(h) /\ held' = held
<1> DEFINE c == op.certificate
<1>1. Constrainable(h) /\ ValidWait(Constrained(wait, h))
    BY Answers, Constrains DEF Constrainable, IInv, Opens
<1>2. SavePlan(c, p) /\ SaveWait(h) /\ op' = NoOp
      /\ UNCHANGED <<now, steps, held, superseded, quiet, refused>>
    BY <1>1 DEF Finish
<1>3. plan' = [plan EXCEPT ![c] = p] /\ c \in Certificates /\ c \in held
    BY <1>2, Answers DEF SavePlan
<1>4. plan' \in [Certificates -> PlanType] /\ plan'[c] = p
      /\ \A b \in Certificates : b # c => plan'[b] = plan[b]
    BY <1>3 DEF IInv, Typed
<1>5. stamped' = now
    BY <1>2, Answers DEF SavePlan, Stamp, Latest, IInv, Typed
<1>6. /\ wait' \in WaitType /\ ValidWait(wait') /\ wait'.seen <= stamped' /\ asked' \in Nat
      /\ wait'.blocked \/ asked' <= stamped' \/ asked' <= wait'.until
    BY <1>2, <1>5, Answers, WaitSaved
<1>7. Typed'
    BY <1>2, <1>4, <1>5, <1>6, TimingAssumption DEF IInv, Typed
<1>8. Opens'
    <2>1. ASSUME NEW b \in Certificates, plan'[b] # NoPlan
          PROVE  b \in held' /\ ValidPlan(plan'[b])
        BY <1>2, <1>3, <1>4, <2>1 DEF IInv, Opens
    <2>2. QED
        BY <1>6, <2>1 DEF Opens
<1>9. Promised'
    BY <1>2, <1>6 DEF Promised, NoOp
<1>10. Spaced'
    <2> SUFFICES ASSUME NEW b \in held', quiet'[b] < Minute
                 PROVE  Planned(b)' /\ now' + Minute <= plan'[b].next + quiet'[b]
        BY DEF Spaced
    <2>1. b \in Certificates /\ b \in held /\ quiet' = quiet
        BY <1>2 DEF IInv, Typed
    <2>2. CASE b = c
        <3>1. quiet[c] < Minute
            BY <2>1, <2>2
        <3>2. plan'[b] = p /\ now' = now /\ now + Minute <= p.next + quiet[c]
            BY <1>2, <1>4, <2>2, <3>1
        <3>3. QED
            BY <2>1, <2>2, <3>2 DEF Planned
    <2>3. CASE b # c
        <3>1. quiet[b] < Minute /\ plan'[b] = plan[b] /\ now' = now
            BY <1>2, <1>4, <2>1, <2>3
        <3>2. QED
            BY <2>1, <3>1 DEF IInv, Spaced, Planned
    <2>4. QED
        BY <2>2, <2>3
<1>11. op'.kind # "read"
    BY <1>2 DEF NoOp
<1>12. QED
    BY <1>2, <1>7, <1>8, <1>9, <1>10, <1>11 DEF IInv, Reading, AnswerSaved

\* What fails is due after the delay of its kind.
LEMMA FailedFits ==
    ASSUME IInv, Answered, NEW next \in Nat, next >= now + Minute,
           next <= now + Latest(CheckDay, ErrorDelay),
           NEW outcome \in {"error", "unsupported"},
           NEW failures \in Nat,
           failures = IF outcome = "error" THEN plan[op.certificate].failures ELSE 0
    PROVE  /\ Ended(outcome, failures, next) \in PlanType
           /\ ValidPlan(Ended(outcome, failures, next))
           /\ Ended(outcome, failures, next) # NoPlan
           /\ Ended(outcome, failures, next).next = next
<1> DEFINE o == plan[op.certificate]
           p == Ended(outcome, failures, next)
<1>1. o \in PlanType /\ ValidPlan(o) /\ Pending(o) /\ now \in Nat /\ o.started <= now
      /\ now < o.started + LeaseTime /\ o.failures \in 1 .. MaxFailures
    BY Answers
<1>2. p = [o EXCEPT !.outcome = outcome, !.out = now, !.failures = failures, !.next = next]
    BY DEF Ended
<1> HIDE DEF o, p
<1>3. p \in PlanType
    BY <1>1, <1>2 DEF PlanType, Outcomes
<1>4. /\ p.outcome = outcome /\ p.out = now /\ p.failures = failures /\ p.next = next
      /\ p.prepared = o.prepared /\ p.started = o.started /\ p.source = o.source
      /\ p.renewAt = o.renewAt /\ p.fallback = o.fallback /\ p.choice = o.choice
      /\ p.computed = o.computed /\ p.ari = o.ari
    BY <1>1, <1>2 DEF PlanType
<1>5. ValidStamps(p)
    <2>1. LeaseTime + Latest(CheckDay, ErrorDelay) <= MaxProviderWait
          /\ Latest(CheckDay, ErrorDelay) \in Nat /\ LeaseTime \in Nat /\ MaxProviderWait \in Nat
        BY TimingAssumption, PolicyAssumption, Orders
    <2>2. o.prepared # 0 /\ o.started >= o.prepared /\ failures \in 0 .. MaxFailures
        BY <1>1, PolicyAssumption DEF ValidPlan, ValidStamps, o
    <2>3. /\ o.started \in Nat /\ now \in Nat /\ Minute \in Nat /\ Minute >= 1
          /\ o.started <= now /\ now < o.started + LeaseTime
        BY <1>1, PolicyAssumption DEF PlanType
    <2>4. next > o.started /\ next - o.started <= MaxProviderWait
        BY <2>1, <2>3
    <2>5. QED
        BY <1>4, <2>2, <2>4 DEF ValidStamps
<1>6. ValidOutcome(p)
    <2>1. next > now /\ o.failures >= 1
        BY <1>1, PolicyAssumption
    <2>2. QED
        BY <1>1, <1>4, <2>1 DEF ValidOutcome, Pending, o
<1>7. ValidSource(p)
    BY <1>1, <1>3, <1>4 DEF ValidPlan, ValidSource, Pending, PlanType, AriType
<1>8. ValidForSource(p)
    BY <1>1, <1>4 DEF ValidPlan, ValidForSource
<1>9. p # NoPlan
    BY <1>4 DEF NoPlan
<1>10. QED
    BY <1>3, <1>4, <1>5, <1>6, <1>7, <1>8, <1>9 DEF ValidPlan, p

LEMMA ReadFailsKeeps == IInv /\ ReadFails => IInv'
<1> SUFFICES ASSUME IInv, ReadFails PROVE IInv'
    OBVIOUS
<1> DEFINE f == plan[op.certificate].failures
<1>1. Answered
    BY DEF ReadFails
<1>2. PICK y \in BOOLEAN, h \in Hints : Finish(Ended("error", f, ErrorCheckAt(now, y, f)), h)
    BY DEF ReadFails
<1> DEFINE n == ErrorCheckAt(now, y, f)
<1>3. f \in 1 .. MaxFailures /\ f \in Nat /\ now \in Nat /\ op.sent \in Nat
    BY <1>1, Answers
<1>4. n \in Nat /\ n >= now + Minute /\ n <= now + ErrorDelay
    BY <1>3, ErrorCheck
<1>5. n <= now + Latest(CheckDay, ErrorDelay)
    BY <1>3, <1>4, Orders, PolicyAssumption
<1>6. h \in HintType
    BY Hinted DEF IInv
<1> DEFINE p == Ended("error", f, n)
<1> HIDE DEF n
<1>7. p \in PlanType /\ ValidPlan(p) /\ p # NoPlan /\ p.next = n
    <2> DEFINE e == "error"
    <2>1. e \in {"error", "unsupported"} /\ f = IF e = "error" THEN plan[op.certificate].failures ELSE 0
        OBVIOUS
    <2> HIDE DEF e, f
    <2>2. Ended(e, f, n) \in PlanType /\ ValidPlan(Ended(e, f, n))
          /\ Ended(e, f, n) # NoPlan /\ Ended(e, f, n).next = n
        BY <1>1, <1>3, <1>4, <1>5, <2>1, FailedFits
    <2>3. QED
        BY <2>2 DEF e
<1>8. now + Minute <= n + quiet[op.certificate]
    <2>1. op.certificate \in Certificates
        BY <1>1, Answers
    <2>2. quiet[op.certificate] \in Nat
        BY <2>1, PolicyAssumption DEF IInv, Typed
    <2>3. QED
        BY <1>3, <1>4, <2>2, PolicyAssumption
<1>9. QED
    BY <1>1, <1>2, <1>3, <1>4, <1>6, <1>7, <1>8, FinishKeeps, PolicyAssumption DEF n

LEMMA UnsupportedKeeps == IInv /\ Unsupported => IInv'
<1> SUFFICES ASSUME IInv, Unsupported PROVE IInv'
    OBVIOUS
<1> DEFINE c == op.certificate
           p == Ended("unsupported", 0, now + CheckDay)
<1>1. Answered /\ Finish(p, NoHint)
    BY DEF Unsupported
<1>2. now \in Nat /\ c \in Certificates
    BY <1>1, Answers
<1>3. quiet[c] \in Nat /\ NoHint \in HintType
    BY <1>2, PolicyAssumption DEF IInv, Typed, HintType, NoHint
<1> DEFINE n == now + CheckDay
<1>4. n \in Nat /\ n >= now + Minute /\ n <= now + Latest(CheckDay, ErrorDelay)
    BY <1>2, Orders, PolicyAssumption
<1>5. p \in PlanType /\ ValidPlan(p) /\ p # NoPlan /\ p.next = n
    <2> DEFINE e == "unsupported"
               z == 0
    <2>1. e \in {"error", "unsupported"} /\ z \in Nat
          /\ z = IF e = "error" THEN plan[op.certificate].failures ELSE 0
        OBVIOUS
    <2> HIDE DEF e, z, n
    <2>2. Ended(e, z, n) \in PlanType /\ ValidPlan(Ended(e, z, n))
          /\ Ended(e, z, n) # NoPlan /\ Ended(e, z, n).next = n
        BY <1>1, <1>4, <2>1, FailedFits
    <2>3. QED
        BY <2>2 DEF e, z, n
<1>6. now + Minute <= p.next + quiet[c]
    BY <1>2, <1>3, <1>4, <1>5, PolicyAssumption
<1> HIDE DEF p
<1>7. QED
    BY <1>1, <1>3, <1>5, <1>6, FinishKeeps

\* A plan that is kept, or drawn, from renewal information opens.
LEMMA InformedFits ==
    ASSUME IInv, Answered, NEW i \in Information, Usable(Life, i, now),
           i.checked >= plan[op.certificate].started,
           NEW p,
           LET o == Ended("ari", 0, i.after)
           IN  IF SameWindow(o, i) THEN p = [o EXCEPT !.ari = i]
               ELSE \E at \in Selections(Life, i, now) : p = Drawn(o, i, at)
    PROVE  /\ p \in PlanType /\ ValidPlan(p) /\ p # NoPlan
           /\ quiet[op.certificate] < Minute => now + Minute <= p.next + quiet[op.certificate]
           /\ plan[op.certificate].source = "ari" =>
                  p.source = "ari" /\ p.renewAt <= plan[op.certificate].renewAt
<1> DEFINE c == op.certificate
           o == plan[c]
           e == Ended("ari", 0, i.after)
<1>1. /\ o \in PlanType /\ o # NoPlan /\ ValidPlan(o) /\ Pending(o) /\ now \in Nat
      /\ o.started = op.started /\ c \in Certificates /\ op.sent \in Nat /\ op.started \in Nat
      /\ op.started <= op.sent /\ op.started <= now /\ now < op.started + LeaseTime
      /\ quiet[c] >= Minute \/ op.sent + quiet[c] >= now
      /\ now < Life.end /\ Life.start <= now
    BY Answers
<1>2. quiet[c] \in 0 .. Minute /\ quiet[c] \in Nat
    BY <1>1, PolicyAssumption DEF IInv, Typed
<1>3. PICK w \in Windows, t \in op.sent .. now, d \in Retries :
          i = [start |-> w.start, end |-> w.end, checked |-> t, after |-> NextCheck(d, t)]
    BY DEF Information
<1>4. /\ t \in Nat /\ d \in Nat /\ w \in [start : Nat, end : Nat]
      /\ op.sent <= t /\ t <= now
    BY <1>1, <1>3, TimingAssumption
<1>5. NextCheck(d, t) \in Nat /\ NextCheck(d, t) - t \in Minute .. CheckDay
    BY <1>4, NextCheckFits
<1>6. /\ i \in AriType /\ i.checked = t /\ i.after \in Nat /\ i.checked \in Nat
      /\ i.start \in Nat /\ i.end \in Nat /\ i.after - i.checked \in Minute .. CheckDay
    BY <1>3, <1>4, <1>5 DEF AriType
<1>7. /\ i.start < i.end /\ i.end <= Life.end /\ i.checked <= now /\ i.checked < Life.end
      /\ now < i.after
    BY DEF Usable
<1>8. e = [o EXCEPT !.outcome = "ari", !.out = now, !.failures = 0, !.next = i.after]
    BY DEF Ended
<1> HIDE DEF e
<1>9. /\ e \in PlanType /\ e.outcome = "ari" /\ e.out = now /\ e.failures = 0
      /\ e.next = i.after /\ e.prepared = o.prepared /\ e.started = o.started
      /\ e.source = o.source /\ e.renewAt = o.renewAt /\ e.fallback = o.fallback
      /\ e.choice = o.choice /\ e.computed = o.computed /\ e.ari = o.ari
    BY <1>1, <1>6, <1>8 DEF PlanType, Outcomes
<1> HIDE DEF o
<1>10. /\ o.source \in Sources /\ o.prepared \in Nat /\ o.started \in Nat /\ o.out \in Nat
       /\ o.renewAt \in Nat /\ o.fallback \in Nat /\ o.computed \in Nat
       /\ o.choice \in WindowType /\ o.ari \in AriType
    BY <1>1 DEF PlanType
<1>11. /\ o.prepared # 0 /\ o.started >= o.prepared
       /\ o.fallback \in Life.start .. Life.end - 1 /\ o.renewAt \in Life.start .. Life.end - 1
       /\ o.fallback >= FallbackWindow(Life).start
       /\ o.fallback < FallbackWindow(Life).end \/ o.fallback = o.prepared
       /\ o.choice.end <= Life.end /\ o.computed < Life.end /\ o.ari.end <= Life.end
    BY <1>1 DEF ValidPlan, ValidStamps, ValidForSource
<1>12. /\ o.source = "fallback" => o.renewAt = o.fallback /\ o.choice = NoWindow /\ o.ari = NoInfo
       /\ o.source # "fallback" =>
             /\ o.source = "ari"
             /\ o.choice.start < o.choice.end /\ o.computed \in o.prepared .. o.started
             /\ o.renewAt >= Latest(o.computed, o.choice.start)
             /\ o.renewAt < o.choice.end \/ o.renewAt = o.computed
    BY <1>1 DEF ValidPlan, ValidSource, Pending
<1> DEFINE Good == /\ p \in PlanType /\ p.outcome = "ari" /\ p.out = now /\ p.failures = 0
                   /\ p.next = i.after /\ p.prepared = o.prepared /\ p.started = o.started
                   /\ p.source = "ari" /\ ValidSource(p) /\ ValidForSource(p)
                   /\ o.source = "ari" => p.renewAt <= o.renewAt
<1>13. ASSUME o.source = "ari", p = [e EXCEPT !.ari = i]
       PROVE  Good
    <2>1. /\ p \in PlanType /\ p.outcome = "ari" /\ p.out = now /\ p.failures = 0
          /\ p.next = i.after /\ p.prepared = o.prepared /\ p.started = o.started
          /\ p.source = "ari" /\ p.renewAt = o.renewAt /\ p.fallback = o.fallback
          /\ p.choice = o.choice /\ p.computed = o.computed /\ p.ari = i
        BY <1>6, <1>9, <1>13 DEF PlanType
    <2>2. ValidSource(p)
        <3>1. /\ o.choice.start < o.choice.end /\ o.computed \in o.prepared .. now
              /\ o.renewAt >= Latest(o.computed, o.choice.start)
              /\ o.renewAt < o.choice.end \/ o.renewAt = o.computed
            BY <1>1, <1>10, <1>12, <1>13
        <3>2. i.checked \in o.prepared .. now
            BY <1>1, <1>6, <1>7, <1>10, <1>11
        <3>3. QED
            BY <2>1, <3>1, <3>2, <1>6, <1>7 DEF ValidSource, Pending
    <2>3. ValidForSource(p)
        BY <2>1, <1>7, <1>10, <1>11 DEF ValidForSource
    <2>4. p.renewAt <= o.renewAt
        BY <2>1, <1>10
    <2>5. QED
        BY <2>1, <2>2, <2>3, <2>4
<1>14. ASSUME NEW at \in Selections(Life, i, now), o.source = "fallback" \/ at < o.renewAt,
              p = [e EXCEPT !.source = "ari", !.renewAt = at, !.computed = now,
                            !.choice = [start |-> i.start, end |-> i.end], !.ari = i]
       PROVE  Good
    <2>1. /\ at \in Nat /\ at >= now /\ at >= i.start /\ (at < i.end \/ at = now)
          /\ at < Life.end
        <3>1. PICK s \in i.start .. i.end - 1 : at = Latest(s, now)
            BY DEF Selections
        <3>2. at < Life.end
            BY DEF Selections
        <3>3. QED
            BY <1>1, <1>6, <3>1, <3>2 DEF Latest
    <2> DEFINE ch == [start |-> i.start, end |-> i.end]
    <2>2. ch \in WindowType /\ ch.start = i.start /\ ch.end = i.end
        BY <1>6 DEF WindowType
    <2> HIDE DEF ch
    <2>3. /\ p \in PlanType /\ p.outcome = "ari" /\ p.out = now /\ p.failures = 0
          /\ p.next = i.after /\ p.prepared = o.prepared /\ p.started = o.started
          /\ p.source = "ari" /\ p.renewAt = at /\ p.fallback = o.fallback
          /\ p.choice = ch /\ p.computed = now /\ p.ari = i
        <3>1. p = [e EXCEPT !.source = "ari", !.renewAt = at, !.computed = now,
                            !.choice = ch, !.ari = i]
            BY <1>14 DEF ch
        <3>2. QED
            BY <3>1, <2>1, <2>2, <1>1, <1>6, <1>9 DEF PlanType, Sources
    <2>4. ValidSource(p)
        <3>1. now \in o.prepared .. now /\ at >= Latest(now, i.start)
            BY <1>1, <1>6, <1>10, <1>11, <2>1 DEF Latest
        <3>2. i.checked \in o.prepared .. now
            BY <1>1, <1>6, <1>7, <1>10, <1>11
        <3>3. QED
            BY <2>1, <2>2, <2>3, <3>1, <3>2, <1>6, <1>7 DEF ValidSource, Pending
    <2>5. ValidForSource(p)
        <3>1. at \in Life.start .. Life.end - 1
            BY <1>1, <2>1, TimingAssumption
        <3>2. QED
            BY <2>2, <2>3, <3>1, <1>1, <1>7, <1>11 DEF ValidForSource
    <2>6. o.source = "ari" => p.renewAt <= o.renewAt
        BY <1>10, <1>14, <2>1, <2>3
    <2>7. QED
        BY <2>3, <2>4, <2>5, <2>6
<1> HIDE DEF Good
<1>15. Good
    <2>1. CASE SameWindow(e, i)
        <3>1. o.source = "ari"
            BY <1>6, <1>7, <1>9, <1>10, <1>12, <2>1 DEF SameWindow, NoInfo, Sources
        <3>2. QED
            BY <1>13, <2>1, <3>1 DEF e
    <2>2. CASE ~SameWindow(e, i)
        <3>1. PICK at \in Selections(Life, i, now) : p = Drawn(e, i, at)
            BY <2>2 DEF e
        <3>2. CASE e.source = "fallback" \/ at < e.renewAt
            BY <1>9, <1>14, <3>1, <3>2 DEF Drawn
        <3>3. CASE ~(e.source = "fallback" \/ at < e.renewAt)
            BY <1>9, <1>12, <1>13, <3>1, <3>3 DEF Drawn
        <3>4. QED
            BY <3>2, <3>3
    <2>3. QED
        BY <2>1, <2>2
<1>16. /\ p.outcome = "ari" /\ p.out = now /\ p.failures = 0 /\ p.next = i.after
       /\ p.prepared = o.prepared /\ p.started = o.started /\ p.source = "ari"
    BY <1>15 DEF Good
<1>17. ValidStamps(p) /\ ValidOutcome(p)
    <2>1. LeaseTime + CheckDay <= MaxProviderWait /\ LeaseTime \in Nat /\ MaxProviderWait \in Nat
        BY TimingAssumption, PolicyAssumption DEF Latest
    <2>2. i.after > o.started /\ i.after - o.started <= MaxProviderWait
        BY <1>1, <1>6, <1>7, <1>10, <2>1, PolicyAssumption
    <2>3. 0 \in 0 .. MaxFailures
        BY PolicyAssumption
    <2>4. ValidStamps(p)
        BY <1>11, <1>16, <2>2, <2>3 DEF ValidStamps
    <2>5. ValidOutcome(p)
        BY <1>1, <1>7, <1>10, <1>16 DEF ValidOutcome, Pending
    <2>6. QED
        BY <2>4, <2>5
<1>18. p # NoPlan
    BY <1>16 DEF NoPlan
<1>19. quiet[c] < Minute => now + Minute <= p.next + quiet[c]
    BY <1>1, <1>2, <1>4, <1>6, <1>16, PolicyAssumption
<1> HIDE DEF c
<1>20. QED
    BY <1>15, <1>17, <1>18, <1>19 DEF ValidPlan, Good, o, c

LEMMA ReadInformationKeeps ==
    ASSUME IInv, ReadInformation
    PROVE  /\ IInv' /\ held' = held
           /\ \E c \in Certificates, p \in PlanType :
                 /\ SavePlan(c, p)
                 /\ plan[c].source = "ari" => p.source = "ari" /\ p.renewAt <= plan[c].renewAt
<1> DEFINE c == op.certificate
<1>1. Answered
    BY DEF ReadInformation
<1>2. PICK i \in Information :
          /\ Usable(Life, i, now) /\ i.checked >= plan[c].started
          /\ IF SameWindow(Ended("ari", 0, i.after), i)
             THEN Finish([Ended("ari", 0, i.after) EXCEPT !.ari = i], NoHint)
             ELSE \E at \in Selections(Life, i, now) :
                      Finish(Drawn(Ended("ari", 0, i.after), i, at), NoHint)
    BY DEF ReadInformation
<1>3. PICK p :
          /\ LET e == Ended("ari", 0, i.after)
             IN  IF SameWindow(e, i) THEN p = [e EXCEPT !.ari = i]
                 ELSE \E at \in Selections(Life, i, now) : p = Drawn(e, i, at)
          /\ Finish(p, NoHint)
    <2> DEFINE e == Ended("ari", 0, i.after)
    <2> HIDE DEF e
    <2>1. CASE SameWindow(e, i)
        BY <1>2, <2>1 DEF e
    <2>2. CASE ~SameWindow(e, i)
        <3>1. PICK at \in Selections(Life, i, now) : Finish(Drawn(e, i, at), NoHint)
            BY <1>2, <2>2 DEF e
        <3>2. QED
            BY <2>2, <3>1 DEF e
    <2>3. QED
        BY <2>1, <2>2
<1>4. /\ p \in PlanType /\ ValidPlan(p) /\ p # NoPlan
      /\ quiet[c] < Minute => now + Minute <= p.next + quiet[c]
      /\ plan[c].source = "ari" => p.source = "ari" /\ p.renewAt <= plan[c].renewAt
    BY <1>1, <1>2, <1>3, InformedFits
<1>5. NoHint \in HintType
    BY DEF HintType, NoHint
<1>6. IInv' /\ SavePlan(c, p) /\ held' = held
    BY <1>1, <1>3, <1>4, <1>5, FinishKeeps
<1>7. c \in Certificates
    BY <1>1, Answers
<1>8. QED
    BY <1>4, <1>6, <1>7
LEMMA BeginOperationKeeps == IInv /\ BeginOperation => IInv'
<1> SUFFICES ASSUME IInv, BeginOperation PROVE IInv'
    OBVIOUS
<1>1. op' = [kind |-> "ca", started |-> now, until |-> MaxTime + 1, sent |-> 0]
      /\ UNCHANGED <<now, steps, held, superseded, plan, wait, asked, quiet, refused>>
    BY DEF BeginOperation, ghosts
<1>2. stamped' = now /\ stamped <= now
    BY TimingAssumption DEF BeginOperation, ClockForward, Stamp, Latest, IInv, Typed
<1>3. op' \in CallType /\ op'.kind = "ca" /\ op'.started = now
    BY <1>1, TimingAssumption DEF CallType, IInv, Typed
<1>4. ~wait.blocked
    BY DEF BeginOperation, Ready, NoWait
<1>5. Typed'
    BY <1>1, <1>2, <1>3, TimingAssumption DEF IInv, Typed
<1>6. Opens' /\ Promised'
    BY <1>1, <1>2, <1>3, <1>4, TimingAssumption DEF IInv, Opens, Promised, Typed, WaitType
<1>7. QED
    BY <1>1, <1>3, <1>5, <1>6 DEF IInv, Reading, Spaced, AnswerSaved, Planned

LEMMA SendKeeps == IInv /\ Send => IInv'
<1> SUFFICES ASSUME IInv, Send PROVE IInv'
    OBVIOUS
<1>1. op' = [op EXCEPT !.sent = now] /\ op \in CallType
      /\ UNCHANGED <<now, steps, held, superseded, plan, wait, stamped, asked, quiet, refused>>
    BY Ops DEF Send, saved, ghosts, IInv
<1>2. op' \in CallType /\ op'.kind = "ca" /\ op.kind = "ca" /\ op'.started = op.started
    BY <1>1 DEF CallType, IInv, Typed
<1>3. QED
    BY <1>1, <1>2 DEF IInv, Typed, Opens, Reading, Promised, Spaced, AnswerSaved, Planned

LEMMA EndOperationKeeps ==
    ASSUME IInv, EndOperation
    PROVE  /\ IInv' /\ UNCHANGED plan
           /\ wait.blocked => wait'.blocked
           /\ wait.until > now => wait'.until >= wait.until
<1>1. op' = NoOp /\ UNCHANGED <<now, steps, held, superseded, plan, quiet, refused>>
    BY DEF EndOperation
<1>2. PICK h \in Hints : SaveWait(h)
    BY DEF EndOperation
<1>3. h \in HintType
    BY Hinted DEF IInv
<1>4. stamped' = now /\ stamped <= now /\ now >= wait.seen
    BY TimingAssumption DEF EndOperation, ClockForward, Stamp, Latest, IInv, Typed
<1>5. /\ wait' \in WaitType /\ ValidWait(wait') /\ wait'.seen <= stamped' /\ asked' \in Nat
      /\ wait'.blocked \/ asked' <= stamped' \/ asked' <= wait'.until
      /\ wait.blocked => wait'.blocked
      /\ wait.until > now => wait'.until >= wait.until
    BY <1>1, <1>2, <1>3, <1>4, WaitSaved
<1>6. Typed'
    BY <1>1, <1>4, <1>5, TimingAssumption DEF IInv, Typed
<1>7. Opens' /\ Promised'
    BY <1>1, <1>5 DEF IInv, Opens, Promised, NoOp
<1>8. QED
    BY <1>1, <1>5, <1>6, <1>7 DEF IInv, Reading, Spaced, AnswerSaved, Planned, NoOp

LEMMA AbandonKeeps == IInv /\ Abandon => IInv'
BY DEF IInv, Abandon, saved, ghosts, Typed, Opens, Reading, Promised, Spaced, AnswerSaved, Planned, NoOp

LEMMA StutterKeeps == IInv /\ UNCHANGED vars => IInv'
BY DEF IInv, vars, saved, ghosts, Typed, Opens, Reading, Promised, Spaced, AnswerSaved, Planned

LEMMA NextKeeps == IInv /\ [Next]_vars => IInv'
<1> SUFFICES ASSUME IInv, [Next]_vars PROVE IInv'
    OBVIOUS
<1>1. CASE Tick
    BY <1>1, TickKeeps
<1>2. CASE Edit
    BY <1>2, EditKeeps
<1>3. ASSUME NEW c \in Certificates, Delete(c) PROVE IInv'
    BY <1>3, DeleteKeeps
<1>4. ASSUME NEW c \in Certificates, Supersede(c) PROVE IInv'
    BY <1>4, SupersedeKeeps
<1>5. ASSUME NEW c \in Certificates, BeginRead(c) PROVE IInv'
    BY <1>5, BeginReadKeeps
<1>6. ASSUME NEW c \in Certificates, Interrupt(c) PROVE IInv'
    BY <1>6, InterruptKeeps
<1>7. CASE Call
    BY <1>7, CallKeeps
<1>8. CASE ReadFails
    BY <1>8, ReadFailsKeeps
<1>9. CASE Unsupported
    BY <1>9, UnsupportedKeeps
<1>10. CASE ReadInformation
    BY <1>10, ReadInformationKeeps
<1>11. CASE BeginOperation \/ Send \/ EndOperation \/ Abandon
    BY <1>11, BeginOperationKeeps, SendKeeps, EndOperationKeeps, AbandonKeeps
<1>12. CASE UNCHANGED vars
    BY <1>12, StutterKeeps
<1>13. QED
    BY <1>1, <1>2, <1>3, <1>4, <1>5, <1>6, <1>7, <1>8, <1>9, <1>10, <1>11, <1>12 DEF Next

----------------------------------------------------------------------------
(* Theorems                                                                *)

\* The invariant holds in every state the image and the process can reach.
THEOREM Inductive == Spec => []IInv
<1>1. Init => IInv
    BY InitIInv
<1>2. IInv /\ [Next]_vars => IInv'
    BY NextKeeps
<1>3. QED
    BY <1>1, <1>2, PTL DEF Spec

\* Every plan and the wait open again, a read in flight has a pending plan, and
\* whatever the CA answers in time authenticates when it is to be saved.
THEOREM TimingAlwaysSaved == Spec => []TimingSaved
<1>1. IInv => TimingSaved
    <2> SUFFICES ASSUME IInv PROVE TimingSaved
        OBVIOUS
    <2>1. held \subseteq Certificates /\ superseded \subseteq Certificates
        BY DEF IInv, Typed
    <2>2. {now, stamped, wait.seen, wait.until} \subseteq 0 .. MaxTime + MaxProviderWait
        <3>1. /\ now \in Nat /\ now <= MaxTime /\ stamped \in Nat /\ stamped <= MaxTime
              /\ wait.seen \in Nat /\ wait.until \in Nat /\ wait.seen <= stamped
            BY DEF IInv, Typed, Opens, WaitType
        <3>2. wait.until # 0 => wait # NoWait /\ wait.until - wait.seen <= MaxProviderWait
            BY DEF IInv, Opens, ValidWait, NoWait
        <3>3. MaxTime \in Nat /\ MaxProviderWait \in Nat
            BY TimingAssumption
        <3>4. QED
            BY <3>1, <3>2, <3>3
    <2>3. ASSUME NEW c \in Certificates
          PROVE  /\ plan[c].outcome \in Outcomes /\ plan[c].source \in {"none", "fallback", "ari"}
                 /\ plan[c] # NoPlan => c \in held /\ ValidPlan(plan[c])
        BY DEF IInv, Typed, Opens, PlanType, Sources
    <2>4. op.kind = "read" => Pending(plan[op.certificate])
        BY DEF IInv, Reading
    <2>5. ValidWait(wait) /\ AnswerSaved
        BY DEF IInv, Opens
    <2>6. QED
        BY <2>1, <2>2, <2>3, <2>4, <2>5 DEF TimingSaved, TypeOK
<1>2. QED
    BY <1>1, Inductive, PTL

\* No call reaches the CA before every wait it was promised has passed; a wait
\* or a block that is still to pass survives every later answer and deletion;
\* and between two questions about one certificate the shortest delay passes.
THEOREM CallsAlwaysSpaced == Spec => CallsSpaced
<1>1. IInv /\ [Next]_vars => [(Call \/ Send) => now >= asked]_vars
    <2> SUFFICES ASSUME IInv, Call \/ Send PROVE now >= asked
        OBVIOUS
    <2>1. /\ now \in Nat /\ asked \in Nat /\ stamped \in Nat /\ wait.until \in Nat
          /\ wait.blocked \/ asked <= stamped \/ asked <= wait.until
        BY DEF IInv, Typed, WaitType, Promised
    <2>2. CASE Call
        BY <2>1, <2>2 DEF Call, Ready, ClockForwardFor, ClockForward, NoWait
    <2>3. CASE Send
        <3>1. op \in CallType /\ ~wait.blocked /\ stamped <= op.started
              /\ op.started <= now /\ now >= wait.until
            BY <2>3, Ops DEF Send, Allowed, IInv, Promised
        <3>2. op.started \in Nat
            BY <3>1 DEF CallType
        <3>3. QED
            BY <2>1, <3>1, <3>2
    <2>4. QED
        BY <2>2, <2>3
<1>2. IInv /\ [Next]_vars => [/\ wait.blocked => wait'.blocked
                              /\ wait.until > now => wait'.until >= wait.until]_wait
    <2> SUFFICES ASSUME IInv, Next, wait' # wait
                 PROVE  /\ wait.blocked => wait'.blocked
                        /\ wait.until > now => wait'.until >= wait.until
        BY DEF vars, saved
    <2>1. PICK h \in HintType : SaveWait(h) /\ now' = now /\ stamped' = now /\ stamped <= now
                                /\ now >= wait.seen
        <3>1. CASE ReadFails \/ Unsupported \/ ReadInformation
            <4>1. Answered
                BY <3>1 DEF ReadFails, Unsupported, ReadInformation
            <4>2. PICK h \in Hints \cup {NoHint} : \E p : Finish(p, h)
                <5>1. CASE ReadFails
                    BY <5>1 DEF ReadFails
                <5>2. CASE Unsupported
                    BY <5>2 DEF Unsupported
                <5>3. CASE ReadInformation
                    BY <5>3 DEF ReadInformation
                <5>4. QED
                    BY <3>1, <5>1, <5>2, <5>3
            <4>3. SaveWait(h) /\ Stamp /\ now' = now
                BY <4>2 DEF Finish, SavePlan
            <4>4. stamped <= now /\ wait.seen <= now /\ stamped' = now
                BY <4>1, <4>3, Answers DEF Stamp, Latest, IInv, Typed
            <4>5. h \in HintType /\ now >= wait.seen
                BY <4>4, Hinted DEF IInv, Typed, WaitType, Hints
            <4>6. QED
                BY <4>3, <4>4, <4>5
        <3>2. CASE EndOperation
            <4>1. PICK h \in Hints : SaveWait(h)
                BY <3>2 DEF EndOperation
            <4>2. stamped' = now /\ stamped <= now /\ now >= wait.seen /\ now' = now
                BY <3>2, TimingAssumption
                   DEF EndOperation, ClockForward, Stamp, Latest, IInv, Typed
            <4>3. h \in HintType
                BY Hinted DEF IInv
            <4>4. QED
                BY <4>1, <4>2, <4>3
        <3>3. QED
            BY <3>1, <3>2 DEF Next, Tick, Edit, Delete, Supersede, BeginRead, Interrupt, Call,
               BeginOperation, Send, Abandon, saved, ghosts
    <2>2. QED
        BY <2>1, WaitSaved
<1>3. IInv /\ [Next]_vars => [Call => quiet[op.certificate] >= Minute]_vars
    BY DEF IInv, Reading, Call
<1>4. QED
    BY <1>1, <1>2, <1>3, Inductive, PTL
       DEF Spec, CallsSpaced, PromisesKept, WaitNeverShortened, ReadsSpaced

\* Once drawn from a window of the CA a renewal is never put off: not by a new
\* window, nor by a failure, an interruption or the intent of another read.
THEOREM NeverPutOff == Spec => NeverPostponed
<1>1. ASSUME IInv, Next, NEW c \in held, c \in held', plan[c].source = "ari"
      PROVE  plan'[c].source = "ari" /\ plan'[c].renewAt <= plan[c].renewAt
    <2>1. /\ c \in Certificates /\ plan \in [Certificates -> PlanType]
          /\ plan[c].renewAt \in Nat /\ plan[c] # NoPlan
        BY <1>1, NoPlans DEF IInv, Typed, PlanType
    <2>2. CASE UNCHANGED plan
        BY <1>1, <2>1, <2>2
    <2>3. ASSUME NEW b \in Certificates, NEW p, SavePlan(b, p),
                 b = c => p.source = "ari" /\ p.renewAt <= plan[c].renewAt
          PROVE  plan'[c].source = "ari" /\ plan'[c].renewAt <= plan[c].renewAt
        <3>1. plan' = [plan EXCEPT ![b] = p]
            BY <2>3 DEF SavePlan
        <3>2. CASE b = c
            BY <2>1, <2>3, <3>1, <3>2
        <3>3. CASE b # c
            BY <1>1, <2>1, <3>1, <3>3
        <3>4. QED
            BY <3>2, <3>3
    <2>4. CASE \E b \in Certificates : Delete(b)
        <3>1. PICK b \in Certificates : Delete(b)
            BY <2>4
        <3>2. b # c /\ SavePlan(b, NoPlan)
            BY <1>1, <3>1 DEF Delete
        <3>3. QED
            BY <2>3, <3>2, NoPlans
    <2>5. CASE \E b \in Certificates : BeginRead(b)
        <3>1. PICK b \in Certificates : BeginRead(b)
            BY <2>5
        <3>2. PICK o \in IF Planned(b) THEN {plan[b]} ELSE Prepared : SavePlan(b, Intent(o))
            BY <3>1 DEF BeginRead
        <3>3. ASSUME b = c PROVE Intent(o).source = "ari" /\ Intent(o).renewAt <= plan[c].renewAt
            <4>1. o = plan[c] /\ o \in PlanType
                BY <2>1, <3>2, <3>3 DEF Planned
            <4>2. Intent(o).source = o.source /\ Intent(o).renewAt = o.renewAt
                BY <4>1 DEF Intent, PlanType
            <4>3. QED
                BY <1>1, <2>1, <4>1, <4>2
        <3>4. QED
            BY <2>3, <3>2, <3>3
    <2>6. CASE \E b \in Certificates : Interrupt(b)
        <3>1. PICK b \in Certificates :
                SavePlan(b, [plan[b] EXCEPT !.outcome = "interrupted", !.out = now])
            BY <2>6 DEF Interrupt
        <3> DEFINE p == [plan[b] EXCEPT !.outcome = "interrupted", !.out = now]
        <3>2. ASSUME b = c PROVE p.source = "ari" /\ p.renewAt <= plan[c].renewAt
            <4>1. plan[b] \in PlanType
                BY <2>1, <3>1
            <4>2. p.source = plan[b].source /\ p.renewAt = plan[b].renewAt
                BY <4>1 DEF PlanType
            <4>3. QED
                BY <1>1, <2>1, <3>2, <4>2
        <3> HIDE DEF p
        <3>3. SavePlan(b, p)
            BY <3>1 DEF p
        <3>4. QED
            BY <2>3, <3>2, <3>3
    <2>7. CASE ReadInformation
        <3>1. PICK b \in Certificates, p \in PlanType :
                /\ SavePlan(b, p)
                /\ plan[b].source = "ari" => p.source = "ari" /\ p.renewAt <= plan[b].renewAt
            BY <1>1, <2>7, ReadInformationKeeps
        <3>2. QED
            BY <1>1, <2>3, <3>1
    <2>8. CASE ReadFails \/ Unsupported
        <3>1. PICK outcome, failures, next, h : Finish(Ended(outcome, failures, next), h)
            <4>1. CASE ReadFails
                BY <4>1 DEF ReadFails
            <4>2. CASE Unsupported
                BY <4>2 DEF Unsupported
            <4>3. QED
                BY <2>8, <4>1, <4>2
        <3> DEFINE b == op.certificate
                   p == Ended(outcome, failures, next)
        <3>2. b \in Certificates /\ plan[b] \in PlanType
            BY <1>1, <2>8, Answers DEF ReadFails, Unsupported
        <3>3. p.source = plan[b].source /\ p.renewAt = plan[b].renewAt
            BY <3>2 DEF Ended, PlanType
        <3>4. SavePlan(b, p) \/ UNCHANGED plan
            BY <3>1 DEF Finish
        <3> HIDE DEF b, p
        <3>5. ASSUME b = c PROVE p.source = "ari" /\ p.renewAt <= plan[c].renewAt
            BY <1>1, <2>1, <3>3, <3>5
        <3>6. QED
            BY <2>2, <2>3, <3>2, <3>4, <3>5
    <2>9. QED
        BY <1>1, <2>2, <2>4, <2>5, <2>6, <2>7, <2>8 DEF Next, Tick, Edit, Supersede, Call,
           BeginOperation, Send, EndOperation, Abandon, saved
<1>2. IInv /\ [Next]_vars =>
        [\A c \in held \cap held' :
            plan[c].source = "ari" =>
                plan'[c].source = "ari" /\ plan'[c].renewAt <= plan[c].renewAt]_plan
    BY <1>1 DEF vars, saved
<1>3. QED
    BY <1>2, Inductive, PTL DEF Spec, NeverPostponed
=========================================================================
