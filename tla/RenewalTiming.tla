---------------------------- MODULE RenewalTiming ----------------------------
(***************************************************************************)
(* When a certificate is to be renewed, as an image keeps it: one plan per *)
(* certificate, refreshed by reads of the CA's renewal information, and    *)
(* one wait for the whole CA that every operation must let pass.           *)
(*                                                                         *)
(* A read holds the writer lock: it commits its intent, calls the CA once  *)
(* under a lease and commits what it saw.  Other CA operations hold the    *)
(* same lock and save a wait with their result or after their failure.     *)
(* The process may die, or its permit be withdrawn, at any step, and the   *)
(* clock of the host may step back.  Stamps are seconds, 0 is empty.       *)
(***************************************************************************)
EXTENDS RenewalPolicy

CONSTANTS
    Certificates,    \* certificates of the inventory, issued by the CA
    Life,            \* their lifetime, [start, end)
    MaxTime,         \* the last second of the model's clock
    MaxSteps,        \* times the clock may step back
    MaxProviderWait, \* the longest wait that is honoured (7 days)
    LeaseTime,       \* a read must end within this time (20 s)
    Windows,         \* windows the CA suggests
    Retries          \* Retry-After values of the CA

\* A lease (20 s) is over long before the longest wait (7 days), and with the
\* shortest delay (1 min) before the delay that follows an error (6 h).
ASSUME TimingAssumption ==
    /\ MaxTime \in Nat /\ MaxSteps \in Nat /\ LeaseTime \in Nat
    /\ MaxProviderWait \in Nat /\ Retries \subseteq Nat
    /\ LeaseTime + Latest(CheckDay, ErrorDelay) <= MaxProviderWait
    /\ LeaseTime + Minute <= ErrorDelay + 1
    /\ Life \in [start : Nat \ {0}, end : Nat] /\ Life.start < Life.end
    /\ Life.start <= MaxTime
    /\ Windows \subseteq [start : Nat, end : Nat]

VARIABLES
    now, steps,   \* the clock of the host and how often it stepped back
    held,         \* certificates in the inventory
    superseded,   \* those whose renewal is complete
    plan,         \* the timing plan of each certificate
    wait,         \* the saved wait of the CA
    stamped,      \* the latest stamp of an event
    op,           \* the operation that holds the writer lock
    asked,        \* until when the saved answers of the CA ask to wait
    quiet,        \* seconds that passed since the CA was asked about it, at most Minute
    refused       \* an answer came in time and could not be saved

saved == <<held, superseded, plan, wait, stamped>>
ghosts == <<asked, quiet, refused>>
vars == <<now, steps, saved, op, ghosts>>

NoWindow == [start |-> 0, end |-> 0]
NoInfo == [start |-> 0, end |-> 0, checked |-> 0, after |-> 0]
NoPlan == [outcome |-> "none", prepared |-> 0, started |-> 0, out |-> 0,
           next |-> 0, failures |-> 0, source |-> "none", renewAt |-> 0,
           fallback |-> 0, choice |-> NoWindow, computed |-> 0, ari |-> NoInfo]
NoWait == [seen |-> 0, until |-> 0, blocked |-> FALSE]
NoOp == [kind |-> "none"]

Pending(p) == p.outcome = "pending"
Planned(c) == plan[c] # NoPlan

----------------------------------------------------------------------------
(* What opening the image demands of a plan and of the wait                *)

ValidStamps(p) ==
    /\ p.prepared # 0 /\ p.started >= p.prepared
    /\ p.next > p.started /\ p.next - p.started <= MaxProviderWait
    /\ p.failures \in 0 .. MaxFailures

ValidOutcome(p) ==
    IF Pending(p) THEN p.out = 0 /\ p.failures >= 1
    ELSE /\ p.out >= p.started
         /\ CASE p.outcome = "ari" -> p.failures = 0 /\ p.source = "ari"
              [] p.outcome = "unsupported" -> p.failures = 0
              [] p.outcome \in {"error", "interrupted"} -> p.failures >= 1
         /\ p.outcome # "interrupted" => p.next > p.out

ValidSource(p) ==
    LET floor == IF Pending(p) THEN p.started ELSE p.out
    IN  IF p.source = "fallback"
        THEN p.renewAt = p.fallback /\ p.choice = NoWindow /\ p.ari = NoInfo
        ELSE /\ p.source = "ari" /\ p.choice.start < p.choice.end
             /\ p.computed \in p.prepared .. floor
             /\ p.renewAt >= Latest(p.computed, p.choice.start)
             /\ p.renewAt < p.choice.end \/ p.renewAt = p.computed
             /\ p.ari.start < p.ari.end
             /\ p.ari.checked \in p.prepared .. floor
             /\ p.ari.after - p.ari.checked \in Minute .. CheckDay

\* authenticateTimingPlans: the plan against its certificate.
ValidForSource(p) ==
    LET window == FallbackWindow(Life)
    IN  /\ p.fallback \in Life.start .. Life.end - 1
        /\ p.renewAt \in Life.start .. Life.end - 1
        /\ p.fallback >= window.start
        /\ p.fallback < window.end \/ p.fallback = p.prepared
        /\ p.ari.end <= Life.end /\ p.choice.end <= Life.end
        /\ p.computed < Life.end

ValidPlan(p) ==
    ValidStamps(p) /\ ValidOutcome(p) /\ ValidSource(p) /\ ValidForSource(p)

ValidWait(w) ==
    w # NoWait => /\ w.blocked \/ w.until # 0
                  /\ w.until # 0 => /\ w.until > w.seen
                                    /\ w.until - w.seen <= MaxProviderWait

----------------------------------------------------------------------------
(* The wait of the CA                                                      *)

\* A hint is nothing, a moment to wait for, or something unusable.
NoHint == [at |-> 0, blocked |-> FALSE]
Hints == {NoHint, [at |-> 0, blocked |-> TRUE]}
         \cup {[at |-> now + d, blocked |-> FALSE] : d \in Retries}

\* An unusable hint is forgotten.
ReadyUnlessWaiting(w) == w # NoWait => now >= w.seen /\ now >= w.until

Ready(w) ==
    w # NoWait => now >= w.seen /\ ~w.blocked /\ now >= w.until

\* timingClock: the clock has not stepped back behind anything saved.
ClockForward == now >= stamped /\ now >= wait.seen

ClockForwardFor(p) ==
    ClockForward /\ now >= p.prepared /\ now >= p.started /\ now >= p.out

\* constrainStagingWait: w after an operation that ends at now with hint h.
Constrained(w, h) ==
    LET beyond == h.at # 0 /\ h.at > now + MaxProviderWait
        blocked == w.blocked \/ h.blocked \/ beyond
        fresh == IF h.at > now /\ ~beyond THEN h.at ELSE 0
        kept == IF w.until > now /\ (fresh = 0 \/ w.until > h.at)
                THEN w.until ELSE fresh
    IN  IF h = NoHint \/ (~blocked /\ h.at <= now) THEN w
        ELSE [seen |-> now, until |-> kept, blocked |-> blocked]

Constrainable(h) == h # NoHint => now >= wait.seen

\* The ghost of what the saved answers ask for: blocked is for ever.
Never == MaxTime + 1

AskedBy(h) ==
    IF h.blocked \/ h.at > now + MaxProviderWait THEN Never ELSE h.at

----------------------------------------------------------------------------
(* Commits                                                                 *)

Stamp == stamped' = Latest(stamped, now)

SavePlan(c, p) == plan' = [plan EXCEPT ![c] = p] /\ Stamp

SaveWait(h) ==
    /\ wait' = Constrained(wait, h)
    /\ asked' = Latest(asked, AskedBy(h))

Free == op = NoOp

Init ==
    /\ now = Life.start /\ steps = 0
    /\ held = Certificates /\ superseded = {}
    /\ plan = [c \in Certificates |-> NoPlan]
    /\ wait = NoWait /\ stamped = 0 /\ op = NoOp
    /\ asked = 0 /\ quiet = [c \in Certificates |-> Minute] /\ refused = FALSE

\* A second passes, or the clock steps back by one.
Tick ==
    /\ \/ /\ now < MaxTime /\ now' = now + 1 /\ UNCHANGED steps
          /\ quiet' = [c \in Certificates |-> Earliest(Minute, quiet[c] + 1)]
       \/ /\ steps < MaxSteps /\ now > 1 /\ now' = now - 1 /\ steps' = steps + 1
          /\ UNCHANGED quiet
    /\ UNCHANGED <<saved, op, asked, refused>>

\* Any other commit: owners, orders, archives.
Edit == Free /\ Stamp /\ UNCHANGED <<now, steps, held, superseded, plan, wait, op, ghosts>>

\* A certificate is deleted and its plan stays in the image.
DeleteCertificateOnly(c) ==
    /\ Free /\ c \in held /\ held' = held \ {c} /\ Stamp
    /\ UNCHANGED <<now, steps, superseded, plan, wait, op, ghosts>>

\* The wait goes with the certificate it was received for.
DeleteWithWait(c) ==
    /\ Free /\ c \in held
    /\ held' = held \ {c} /\ SavePlan(c, NoPlan) /\ wait' = NoWait
    /\ UNCHANGED <<now, steps, superseded, op, ghosts>>

\* DeleteRecord takes the plan with the certificate, and not the wait.
Delete(c) ==
    /\ Free /\ c \in held
    /\ held' = held \ {c} /\ SavePlan(c, NoPlan)
    /\ UNCHANGED <<now, steps, superseded, wait, op, ghosts>>

\* The renewal of a certificate is saved.
Supersede(c) ==
    /\ Free /\ c \in held /\ superseded' = superseded \cup {c} /\ Stamp
    /\ UNCHANGED <<now, steps, held, plan, wait, op, ghosts>>

----------------------------------------------------------------------------
(* A read of the renewal information                                       *)

\* A read is possible again as soon as it was interrupted.
CanReadAgain(c) ==
    /\ now \in Life.start .. Life.end - 1 /\ c \notin superseded
    /\ Ready(wait) /\ ClockForwardFor(plan[c])
    /\ ~Pending(plan[c]) /\ (plan[c].outcome # "interrupted" => now >= plan[c].next)

CanRead(c) ==
    /\ now \in Life.start .. Life.end - 1 /\ c \notin superseded
    /\ Ready(wait) /\ ClockForwardFor(plan[c])
    /\ ~Pending(plan[c]) /\ now >= plan[c].next

\* The plans a first read may prepare: the fallback is drawn once.
Prepared ==
    {[NoPlan EXCEPT !.prepared = now, !.source = "fallback",
                    !.renewAt = at, !.fallback = at] :
        at \in Selections(Life, FallbackWindow(Life), now)}

\* The intent of one more read.
Intent(p) ==
    LET failures == Earliest(MaxFailures, p.failures + 1)
    IN  [p EXCEPT !.outcome = "pending", !.out = 0, !.failures = failures,
                  !.started = now,
                  !.next = ErrorCheckAt(now, FALSE, failures)]

BeginRead(c) ==
    /\ Free /\ c \in held /\ CanRead(c)
    /\ \E p \in IF Planned(c) THEN {plan[c]} ELSE Prepared :
          ValidPlan(Intent(p)) /\ SavePlan(c, Intent(p))
    /\ op' = [kind |-> "read", certificate |-> c, started |-> now,
              until |-> Earliest(now + LeaseTime, Life.end), sent |-> 0]
    /\ UNCHANGED <<now, steps, held, superseded, wait, ghosts>>

Allowed == op.started <= now /\ now < op.until

\* The one call of the lease.
Call ==
    /\ op.kind = "read" /\ op.sent = 0 /\ Allowed
    /\ Ready(wait) /\ ClockForwardFor(plan[op.certificate])
    /\ op' = [op EXCEPT !.sent = now]
    /\ quiet' = [quiet EXCEPT ![op.certificate] = 0]
    /\ UNCHANGED <<now, steps, saved, asked, refused>>

\* The plan is saved if it authenticates; an answer that does not is lost.
Finish(p, h) ==
    LET c == op.certificate
    IN  /\ op' = NoOp
        /\ IF ValidPlan(p) /\ Constrainable(h) /\ ValidWait(Constrained(wait, h))
           THEN SavePlan(c, p) /\ SaveWait(h) /\ UNCHANGED refused
           ELSE refused' = TRUE /\ UNCHANGED <<plan, wait, stamped, asked>>
        /\ UNCHANGED <<now, steps, held, superseded, quiet>>

Answered == op.kind = "read" /\ op.sent # 0 /\ Allowed

Ended(outcome, failures, next) ==
    [plan[op.certificate] EXCEPT !.outcome = outcome, !.out = now,
                                 !.failures = failures, !.next = next]

ReadFails ==
    /\ Answered
    /\ \E temporary \in BOOLEAN, h \in Hints :
          LET failures == plan[op.certificate].failures
          IN  Finish(Ended("error", failures,
                           ErrorCheckAt(now, temporary, failures)), h)

Unsupported == Answered /\ Finish(Ended("unsupported", 0, now + CheckDay), NoHint)

\* Renewal information the CA may give to a call made at op.sent.
Information ==
    {[start |-> w.start, end |-> w.end, checked |-> t,
      after |-> NextCheck(d, t)] :
        w \in Windows, t \in op.sent .. now, d \in Retries}

\* A new window moves the choice to whatever was drawn from it.
Redrawn(p, i, at) ==
    [p EXCEPT !.source = "ari", !.renewAt = at, !.computed = now,
              !.choice = [start |-> i.start, end |-> i.end], !.ari = i]

\* A new window only ever moves the choice to an earlier moment.
Drawn(p, i, at) ==
    IF p.source = "fallback" \/ at < p.renewAt
    THEN [p EXCEPT !.source = "ari", !.renewAt = at, !.computed = now,
                   !.choice = [start |-> i.start, end |-> i.end], !.ari = i]
    ELSE [p EXCEPT !.ari = i]

SameWindow(p, i) == p.ari.start = i.start /\ p.ari.end = i.end

ReadInformation ==
    /\ Answered
    /\ \E i \in Information :
          LET p == Ended("ari", 0, i.after)
          IN  /\ Usable(Life, i, now) /\ i.checked >= plan[op.certificate].started
              /\ IF SameWindow(p, i) THEN Finish([p EXCEPT !.ari = i], NoHint)
                 ELSE \E at \in Selections(Life, i, now) :
                          Finish(Drawn(p, i, at), NoHint)

\* A read that was left pending is retired; its count and wait remain.
Interrupt(c) ==
    /\ Free /\ c \in held /\ Pending(plan[c]) /\ ClockForwardFor(plan[c])
    /\ SavePlan(c, [plan[c] EXCEPT !.outcome = "interrupted", !.out = now])
    /\ UNCHANGED <<now, steps, held, superseded, wait, op, ghosts>>

----------------------------------------------------------------------------
(* Any other operation of the CA                                           *)

\* stagingProviderPermit, then the committed intent of the operation.
BeginOperation ==
    /\ Free /\ Ready(wait) /\ ClockForward /\ Stamp
    /\ op' = [kind |-> "ca", started |-> now, until |-> MaxTime + 1, sent |-> 0]
    /\ UNCHANGED <<now, steps, held, superseded, plan, wait, ghosts>>

Send ==
    /\ op.kind = "ca" /\ op.sent = 0 /\ Allowed /\ now >= wait.until
    /\ op' = [op EXCEPT !.sent = now]
    /\ UNCHANGED <<now, steps, saved, ghosts>>

\* The wait of the answer is committed, with the result or without it.
EndOperation ==
    /\ op.kind = "ca" /\ op.sent # 0 /\ Allowed /\ ClockForward
    /\ \E h \in Hints : SaveWait(h)
    /\ Stamp /\ op' = NoOp
    /\ UNCHANGED <<now, steps, held, superseded, plan, quiet, refused>>

\* Death, a withdrawn permit, a commit that fails, an answer that never comes.
Abandon ==
    /\ op # NoOp /\ op' = NoOp
    /\ UNCHANGED <<now, steps, saved, ghosts>>

Next ==
    \/ Tick \/ Edit
    \/ \E c \in Certificates : Delete(c) \/ Supersede(c) \/ BeginRead(c) \/ Interrupt(c)
    \/ Call \/ ReadFails \/ Unsupported \/ ReadInformation
    \/ BeginOperation \/ Send \/ EndOperation \/ Abandon

Spec == Init /\ [][Next]_vars

----------------------------------------------------------------------------
(* Properties                                                              *)

Outcomes == {"none", "pending", "ari", "unsupported", "error", "interrupted"}

\* Stamps, outcomes and sources keep their types, and an empty plan is the
\* plan of no certificate that is read.
TypeOK ==
    /\ held \subseteq Certificates /\ superseded \subseteq Certificates
    /\ {now, stamped, wait.seen, wait.until} \subseteq 0 .. MaxTime + MaxProviderWait
    /\ \A c \in Certificates :
          /\ plan[c].outcome \in Outcomes
          /\ plan[c].source \in {"none", "fallback", "ari"}
          /\ plan[c] # NoPlan => c \in held /\ ValidPlan(plan[c])
    /\ ValidWait(wait)
    /\ op.kind = "read" => Pending(plan[op.certificate])

\* Whatever the CA answers to a read within its lease, and however the clock
\* went meanwhile, what is to be saved of it authenticates: draws, checks and
\* waits stay inside the bounds the image is opened with.
AnswerSaved == ~refused

\* The image keeps its types and every answer that came in time.
TimingSaved == TypeOK /\ AnswerSaved

\* No call reaches the CA before the waits it was promised have passed, in
\* whatever order they were saved and whatever was deleted since.
PromisesKept ==
    [][(Call \/ Send) => now >= asked]_vars

\* A wait that is still to pass is never shortened, nor a block lifted, by a
\* later answer or by the deletion of the certificate it was received for.
WaitNeverShortened ==
    [][/\ wait.blocked => wait'.blocked
       /\ wait.until > now => wait'.until >= wait.until]_wait

\* The CA is not asked twice about one certificate within the shortest delay,
\* as time passes and not as the clock shows it: crashes, interruptions and
\* clock steps included, while a read is on its way too.
ReadsSpaced ==
    [][Call => quiet[op.certificate] >= Minute]_vars

\* The CA is never asked sooner than it was told, or than the policy allows.
CallsSpaced == PromisesKept /\ WaitNeverShortened /\ ReadsSpaced

\* Once drawn from the CA's windows, a renewal is never put off.
NeverPostponed ==
    [][\A c \in held \cap held' :
          plan[c].source = "ari" =>
              plan'[c].source = "ari" /\ plan'[c].renewAt <= plan[c].renewAt]_plan
===============================================================================
