-------------------------------- MODULE Gate --------------------------------
(***************************************************************************)
(* The server: its sessions, its requests, its two workers (the timing     *)
(* watch and the renewal job) and the inventory monitor.                   *)
(*                                                                         *)
(* All of them share a mutex, one slot for key derivation, one for the     *)
(* provider, and the writer lock of the directory.  A critical section is  *)
(* one step here; what is read before it, and what happens between two of  *)
(* them, is not.  A request and a worker pass the same stations: the       *)
(* derivation slot, a read of the store, the provider slot, the writer     *)
(* lock, and calls to the provider, each of which asks for a permit that   *)
(* the end of the session withdraws.  Time is the order of events: a       *)
(* session may expire, a wait may be over, whenever the clock could say so.*)
(***************************************************************************)
EXTENDS Naturals, FiniteSets

CONSTANTS
    Requests,     \* requests being handled
    Sessions,     \* session tokens, each issued at most once
    Nobody,       \* holds a free slot
    MaxSessions,  \* sessions kept at a time (32)
    MaxRevision,  \* revisions of the access file
    MaxGeneration, \* generations of the inventory
    MaxCalls      \* calls to the provider within one operation

Workers == {"watch", "renewal"}
Actors == Requests \cup Workers

ASSUME GateAssumption ==
    /\ Requests \cap Workers = {} /\ Nobody \notin Actors \cup Sessions
    /\ MaxSessions \in Nat \ {0}
    /\ MaxRevision \in Nat \ {0} /\ MaxGeneration \in Nat /\ MaxCalls \in Nat \ {0}

VARIABLES
    revision,     \* of the access file on disk
    generation,   \* of the inventory on disk
    writer,       \* who holds the writer lock
    mutex,        \* TRUE while someone waits and keeps the mutex
    issued,       \* tokens that were used
    sessions,     \* revision of each session in the map, 0 if it is not there
    expired,      \* sessions whose time is over
    derive,       \* who holds the derivation slot
    busy,         \* who holds the provider slot
    at,           \* where each actor is
    job,          \* the watch and the renewal job
    monitor,      \* the session the monitor's last result was read with
    looked,       \* the revision the monitor has read, 0 between its ticks
    reading,      \* the session the monitor is reading with
    closing,      \* how far Close is
    late,         \* calls a worker made since it was paused
    foreign       \* the store was changed by others since the worker started

shared == <<revision, generation, writer, mutex>>
logins == <<issued, sessions, expired>>
slots == <<derive, busy>>
watching == <<monitor, looked, reading>>
ghosts == <<late, foreign>>
vars == <<shared, logins, slots, at, job, watching, closing, ghosts>>

\* An actor's step, the step a permit leads to, the revision read before the
\* mutex, a request's session and its revision, the generation that a page
\* showed or an operation returned, and the calls so far.
Idle == [pc |-> "idle", goal |-> "idle", seen |-> 0, session |-> Nobody,
         rev |-> 0, gen |-> 0, calls |-> 0]

NoWork == [state |-> "none", owner |-> Nobody, rev |-> 0, gen |-> 0]

Steps == {"idle", "ask", "check", "slot", "read", "provider", "issue", "lock",
          "call", "finish", "record", "leave", "sign", "signed", "change", "revoke"}

States == {"none", "waiting", "running", "paused", "complete"}

TypeOK ==
    /\ revision \in 1 .. MaxRevision /\ generation \in 0 .. MaxGeneration
    /\ writer \in Actors \cup {Nobody} /\ mutex \in BOOLEAN
    /\ issued \subseteq Sessions /\ expired \subseteq issued
    /\ sessions \in [Sessions -> 0 .. revision]
    /\ Cardinality({s \in Sessions : sessions[s] # 0}) <= MaxSessions
    /\ derive \in Actors \cup {Nobody} /\ busy \in Actors \cup {Nobody}
    /\ \A x \in Actors : /\ at[x].pc \in Steps \cup {"sleep"}
                         /\ at[x].calls \in 0 .. MaxCalls
                         /\ at[x].pc \in {"call", "finish"} => writer = x
                         /\ at[x].pc = "issue" => derive = x
    /\ job \in [Workers -> [state : States, owner : Sessions \cup {Nobody},
                            rev : 0 .. revision, gen : 0 .. MaxGeneration]]
    /\ monitor \in Sessions \cup {Nobody} /\ reading \in Sessions \cup {Nobody}
    /\ looked \in 0 .. revision /\ (reading # Nobody => looked # 0)
    /\ closing \in {"open", "waiting", "closed"}

Init ==
    /\ revision = 1 /\ generation = 0 /\ writer = Nobody /\ mutex = FALSE
    /\ issued = {} /\ expired = {} /\ sessions = [s \in Sessions |-> 0]
    /\ derive = Nobody /\ busy = Nobody
    /\ at = [x \in Actors |-> Idle]
    /\ job = [k \in Workers |-> NoWork]
    /\ monitor = Nobody /\ looked = 0 /\ reading = Nobody
    /\ closing = "open"
    /\ late = [k \in Workers |-> 0] /\ foreign = [k \in Workers |-> FALSE]

----------------------------------------------------------------------------
(* The mutex, jobs and sessions                                            *)

Locked == ~mutex

Active(k) == job[k].state \in {"waiting", "running"}

\* The goroutine of a worker has returned: its done channel is closed.
Finished(k) == at[k].pc = "idle"

\* pauseRenewalLocked and pauseWatchLocked, for every job of ks; a completed
\* renewal keeps its result.
Paused(ks) ==
    [k \in Workers |-> IF k \in ks /\ job[k].state \notin {"none", "complete"}
                       THEN [job[k] EXCEPT !.state = "paused"] ELSE job[k]]

InMap(s) == s \in Sessions /\ sessions[s] # 0

Without(ss) == [s \in Sessions |-> IF s \in ss THEN 0 ELSE sessions[s]]

\* What the end of the sessions ss ends: their jobs, and, if any was there,
\* the monitor's result.
EndWith(ss) ==
    /\ job' = Paused({k \in Workers : job[k].owner \in ss})
    /\ monitor' = IF \E s \in ss : InMap(s) THEN Nobody ELSE monitor

\* forgetSessionLocked.
Forget(ss) == sessions' = Without(ss) /\ EndWith(ss) /\ expired' = expired \ ss

\* currentSession, for a request that carries the token s.
Current(s) == InMap(s) /\ sessions[s] = revision /\ s \notin expired

----------------------------------------------------------------------------
(* Signing in and out                                                      *)

\* Mutant: the slot is taken without a look at who has it.
TakeAnySlot(x) == derive' = x

\* Every request needs the derivation slot first, or is refused.
TakeSlot(x) == derive = Nobody /\ derive' = x

Go(x, pc) == at' = [at EXCEPT ![x].pc = pc]

\* sessionEndpoint: the revision is read before the password is checked.  (The
\* bound: there is a token left for everyone who signs in.)
SignIn(r) ==
    /\ at[r].pc = "idle" /\ closing = "open"
    /\ Cardinality({o \in Requests : at[o].pc \in {"sign", "signed"}})
         < Cardinality(Sessions \ issued)
    /\ TakeSlot(r)
    /\ at' = [at EXCEPT ![r] = [Idle EXCEPT !.pc = "sign", !.seen = revision]]
    /\ UNCHANGED <<shared, logins, busy, job, watching, closing, ghosts>>

\* The password opens the file and its revision is still the one read, or
\* the sign-in is refused.
SignInChecked(r) ==
    /\ at[r].pc = "sign"
    /\ Go(r, IF revision = at[r].seen THEN "signed" ELSE "leave")
    /\ UNCHANGED <<shared, logins, slots, job, watching, closing, ghosts>>

SignInFails(r) ==
    /\ at[r].pc = "sign"
    /\ Go(r, "leave")
    /\ UNCHANGED <<shared, logins, slots, job, watching, closing, ghosts>>

Kept == {o \in Sessions : InMap(o)}

\* When the map is full the session that expires first goes.
Evicted == IF Cardinality(Kept) < MaxSessions THEN {{}} ELSE {{o} : o \in Kept}

\* issueSession.  The file may have changed since; the session keeps the
\* revision that was read.
Issue(r, s) ==
    /\ at[r].pc = "signed" /\ Locked /\ s \notin issued
    /\ \E out \in Evicted :
         /\ sessions' = [Without(out) EXCEPT ![s] = at[r].seen]
         /\ EndWith(out) /\ expired' = expired \ out
    /\ issued' = issued \cup {s}
    /\ Go(r, "leave")
    /\ UNCHANGED <<shared, slots, looked, reading, closing, ghosts>>

\* Its owner signs out; or, no longer current, it is shown and is forgotten.
SignOut(s) ==
    /\ Locked /\ InMap(s)
    /\ Forget({s})
    /\ UNCHANGED <<shared, issued, slots, at, looked, reading, closing, ghosts>>

\* Its time is over; it stays in the map until someone looks.
Expire(s) ==
    /\ InMap(s) /\ s \notin expired
    /\ expired' = expired \cup {s}
    /\ UNCHANGED <<shared, issued, sessions, slots, at, job, watching, closing, ghosts>>

----------------------------------------------------------------------------
(* Changing the password                                                   *)

\* passwordEndpoint, for the session s.
ChangePassword(r, s) ==
    /\ at[r].pc = "idle" /\ closing = "open" /\ Current(s)
    /\ TakeSlot(r)
    /\ at' = [at EXCEPT ![r] = [Idle EXCEPT !.pc = "change", !.session = s]]
    /\ UNCHANGED <<shared, logins, busy, job, watching, closing, ghosts>>

\* The file is replaced under the writer lock, surely or not; if that is held
\* or the password is wrong, nothing changes.
ReplaceFile(r) ==
    /\ at[r].pc = "change"
    /\ \/ /\ writer = Nobody /\ revision < MaxRevision
          /\ revision' = revision + 1
          /\ Go(r, "revoke")
       \/ UNCHANGED revision /\ Go(r, "leave")
    /\ UNCHANGED <<generation, writer, mutex, logins, slots, job, watching, closing,
                   ghosts>>

RevokeAll(r) ==
    /\ at[r].pc = "revoke" /\ Locked
    /\ Forget({s \in Sessions : InMap(s)})
    /\ Go(r, "leave")
    /\ UNCHANGED <<shared, issued, slots, looked, reading, closing, ghosts>>

----------------------------------------------------------------------------
(* Workers start, sleep and stop                                           *)

\* Mutant: only a worker of its own kind is waited for.
OthersFinishedOfKind(k) == Finished(k)

\* A watch or a renewal that is running or finishing keeps others out.
OthersFinished(k) == \A o \in Workers : Finished(o)

\* Mutant: a server that is closing is not looked at.
MayStartAnyTime(s) == InMap(s) /\ s \notin expired

\* The session is still there; the access file is looked at by the worker.
MayStart(s) == InMap(s) /\ s \notin expired /\ closing = "open"

\* newRenewalJob and newTimingWatch, after a read of the store in the request;
\* the generation is the one read there, which may be past by now.
StartWorker(k, s, gen) ==
    /\ Locked /\ MayStart(s) /\ OthersFinished(k)
    /\ gen <= generation
    /\ job' = [job EXCEPT ![k] = [state |-> "waiting", owner |-> s,
                                   rev |-> sessions[s], gen |-> gen]]
    /\ at' = [at EXCEPT ![k] = [Idle EXCEPT !.pc = "ask", !.goal = "slot"]]
    /\ late' = [late EXCEPT ![k] = 0]
    /\ foreign' = [foreign EXCEPT ![k] = gen # generation]
    /\ UNCHANGED <<shared, logins, slots, watching, closing>>

StopWorker(k) ==
    /\ Locked /\ Active(k)
    /\ job' = Paused({k})
    /\ UNCHANGED <<shared, logins, slots, at, watching, closing, ghosts>>

\* Mutant: only completion cancels the worker's context.
CancelledComplete(k) == job[k].state = "complete"

Cancelled(k) == ~Active(k)

\* The context is cancelled, or the ticker fires: with both, either may win.
\* What is left of a worker that has returned is a summary.
Return(k) ==
    /\ at[k].pc = "sleep" /\ Cancelled(k)
    /\ Go(k, "idle")
    /\ job' = [job EXCEPT ![k] = NoWork]
    /\ late' = [late EXCEPT ![k] = 0] /\ foreign' = [foreign EXCEPT ![k] = FALSE]
    /\ UNCHANGED <<shared, logins, slots, watching, closing>>

Tick(k) ==
    /\ at[k].pc = "sleep"
    /\ at' = [at EXCEPT ![k].pc = "ask", ![k].goal = "slot"]
    /\ UNCHANGED <<shared, logins, slots, job, watching, closing, ghosts>>

----------------------------------------------------------------------------
(* What requests and workers have in common                                *)

\* An API operation of session s, on the generation its page showed.
BeginRequest(r, s) ==
    /\ at[r].pc = "idle" /\ closing = "open" /\ Current(s)
    /\ at' = [at EXCEPT ![r] = [Idle EXCEPT !.pc = "ask", !.goal = "slot", !.session = s,
                                             !.rev = sessions[s], !.gen = generation]]
    /\ UNCHANGED <<shared, logins, slots, job, watching, closing, ghosts>>

\* The session that a request was made with, or a worker started with.
Owner(x) == IF x \in Workers THEN job[x].owner ELSE at[x].session
OwnRevision(x) == IF x \in Workers THEN job[x].rev ELSE at[x].rev

\* A permit begins with a read of the file's revision, outside the mutex.
Ask(x) ==
    /\ at[x].pc = "ask"
    /\ at' = [at EXCEPT ![x].pc = "check", ![x].seen = revision]
    /\ UNCHANGED <<shared, logins, slots, job, watching, closing, ghosts>>

\* renewalSession, watchSession and a handler's permit: the session is there,
\* unexpired, of the revision read, and a worker is still active.
Live(x) ==
    /\ InMap(Owner(x)) /\ sessions[Owner(x)] = OwnRevision(x)
    /\ at[x].seen = OwnRevision(x) /\ Owner(x) \notin expired
    /\ x \in Workers => Active(x) /\ closing = "open"

\* A permit that fails pauses a worker that still thinks it is active.
Check(x) ==
    /\ at[x].pc = "check" /\ Locked
    /\ IF Live(x)
       THEN /\ at' = [at EXCEPT ![x].pc = at[x].goal, ![x].goal = "idle", ![x].seen = 0]
            /\ UNCHANGED job
       ELSE Go(x, "leave") /\ job' = Paused({x} \cap Workers)
    /\ UNCHANGED <<shared, logins, slots, watching, closing, ghosts>>

\* The derivation slot, or a later tick; a wait that is not over, too.
Slot(x) ==
    /\ at[x].pc = "slot"
    /\ \/ /\ TakeSlot(x)
          /\ at' = [at EXCEPT ![x].pc = "ask", ![x].goal = "read"]
       \/ Go(x, "leave") /\ UNCHANGED derive
    /\ UNCHANGED <<shared, logins, busy, job, watching, closing, ghosts>>

\* The generation an actor acts on: the page's, or the job's.
Expected(x) == IF x \in Workers THEN job[x].gen ELSE at[x].gen

\* Mutant: whatever the store holds now is acted on.
UnchangedFile(x) == revision = OwnRevision(x)

\* Every access to the store, under the writer lock: the revision is the
\* session's and the generation the expected one.
Unchanged(x) == revision = OwnRevision(x) /\ generation = Expected(x)

\* What is read decides: an action, a wait, a pause, or that it is complete.
\* A store that is busy or has changed pauses a worker.
ReadStore(x) ==
    /\ at[x].pc = "read" /\ Locked
    /\ IF writer = Nobody /\ Unchanged(x)
       THEN \/ /\ at' = [at EXCEPT ![x].pc = "ask", ![x].goal = "provider"]
               /\ UNCHANGED job
            \/ Go(x, "leave") /\ job' \in {job, Paused({x} \cap Workers)}
            \/ /\ x = "renewal" /\ Active(x)
               /\ job' = [job EXCEPT ![x].state = "complete"]
               /\ Go(x, "leave")
       ELSE Go(x, "leave") /\ job' = Paused({x} \cap Workers)
    /\ UNCHANGED <<shared, logins, slots, watching, closing, ghosts>>

\* startRegistrationProvider: busy, or too soon after the last call, defers.
\* A step that calls nobody does not need it.
Provider(x) ==
    /\ at[x].pc = "provider" /\ Locked
    /\ \/ busy = Nobody /\ busy' = x /\ Go(x, "issue")
       \/ UNCHANGED busy /\ Go(x, "issue")
       \/ UNCHANGED busy /\ Go(x, "leave")
    /\ UNCHANGED <<shared, logins, derive, job, watching, closing, ghosts>>

\* The action is counted, if the worker is still active.
IssueAction(x) ==
    /\ at[x].pc = "issue" /\ Locked
    /\ IF x \in Workers /\ ~Active(x)
       THEN Go(x, "leave") /\ UNCHANGED job
       ELSE /\ Go(x, "lock")
            /\ job' = [k \in Workers |-> IF k = x THEN [job[k] EXCEPT !.state = "running"]
                                         ELSE job[k]]
    /\ UNCHANGED <<shared, logins, slots, watching, closing, ghosts>>

\* A commit: whoever else has a job no longer knows the store.
CommitBy(x) ==
    /\ generation < MaxGeneration /\ generation' = generation + 1
    /\ foreign' = [k \in Workers |-> ~Finished(k) /\ (foreign[k] \/ k # x)]

\* The operation locks and checks.  One that calls the provider commits its
\* intent first and keeps the lock, any other commits all it does.
Lock(x) ==
    /\ at[x].pc = "lock" /\ Locked
    /\ IF writer = Nobody /\ Unchanged(x) /\ generation < MaxGeneration
       THEN /\ CommitBy(x)
            /\ writer' = IF busy = x THEN x ELSE Nobody
            /\ at' = [at EXCEPT ![x].pc = "ask", ![x].gen = generation',
                                ![x].goal = IF busy = x THEN "call" ELSE "record"]
            /\ UNCHANGED job
       ELSE /\ Go(x, "leave") /\ job' = Paused({x} \cap Workers)
            /\ UNCHANGED <<writer, generation, foreign>>
    /\ UNCHANGED <<revision, mutex, logins, slots, watching, closing, late>>

\* Mutant: one permit is good for the whole operation.
AfterCallOnce(x) == [at EXCEPT ![x].pc = "call", ![x].calls = @ + 1]

\* One exchange with the provider; before the next, a permit.
AfterCall(x) == [at EXCEPT ![x].pc = "ask", ![x].goal = "call", ![x].calls = @ + 1]

Call(x) ==
    /\ at[x].pc = "call"
    /\ \/ at[x].calls < MaxCalls - 1 /\ at' = AfterCall(x)
       \/ at' = [at EXCEPT ![x].pc = "finish", ![x].calls = @ + 1]
    /\ late' = [k \in Workers |-> IF k = x /\ ~Active(k) THEN late[k] + 1 ELSE late[k]]
    /\ UNCHANGED <<shared, logins, slots, job, watching, closing, foreign>>

\* The outcome is committed, session or not, and the lock released; or that
\* fails, and a worker pauses with its outcome unconfirmed.
Finish(x) ==
    /\ at[x].pc = "finish" /\ Locked
    /\ writer' = Nobody
    /\ \/ /\ CommitBy(x)
          /\ at' = [at EXCEPT ![x].pc = "ask", ![x].goal = "record", ![x].gen = generation']
          /\ UNCHANGED job
       \/ /\ Go(x, "leave") /\ job' = Paused({x} \cap Workers)
          /\ UNCHANGED <<generation, foreign>>
    /\ UNCHANGED <<revision, mutex, logins, slots, watching, closing, late>>

\* The job's generation is the one its action returned.
Record(x) ==
    /\ at[x].pc = "record" /\ Locked
    /\ Go(x, "leave")
    /\ job' = [k \in Workers |->
                 IF k = x /\ Active(k)
                 THEN [job[k] EXCEPT !.state = "waiting", !.gen = at[x].gen]
                 ELSE job[k]]
    /\ UNCHANGED <<shared, logins, slots, watching, closing, ghosts>>

\* Mutant: a way out that a changed access file takes forgets the slots.
ReleasedUnlessRefused(x, slot) == IF slot = x /\ revision = OwnRevision(x) THEN Nobody ELSE slot

\* The deferred releases run on every way out.
Released(x, slot) == IF slot = x THEN Nobody ELSE slot

Leave(x) ==
    /\ at[x].pc = "leave" /\ Locked
    /\ derive' = Released(x, derive)
    /\ busy' = Released(x, busy)
    /\ writer' = IF writer = x THEN Nobody ELSE writer
    /\ at' = [at EXCEPT ![x] = [Idle EXCEPT !.pc = IF x \in Workers THEN "sleep" ELSE "idle"]]
    /\ UNCHANGED <<revision, generation, mutex, logins, job, watching, closing, ghosts>>

----------------------------------------------------------------------------
(* The monitor, and closing                                                *)

\* The revision is read before the mutex is taken, so a session issued since
\* with a newer one is stale to the monitor.
Stale(s) == InMap(s) /\ (sessions[s] # looked \/ s \in expired)

LookAtFile ==
    /\ looked = 0 /\ closing # "closed"
    /\ looked' = revision
    /\ UNCHANGED <<shared, logins, slots, at, job, monitor, reading, closing, ghosts>>

\* tickMonitor drops what is stale and reads with a session that is ready.
Look ==
    /\ looked # 0 /\ reading = Nobody /\ Locked
    /\ sessions' = Without({s \in Sessions : Stale(s)})
    /\ expired' = {s \in expired : ~Stale(s)}
    /\ LET ready == {s \in Sessions : InMap(s) /\ ~Stale(s)} IN
       IF ready = {} THEN /\ job' = Paused({k \in Workers : Stale(job[k].owner)})
                          /\ monitor' = Nobody /\ looked' = 0 /\ UNCHANGED reading
       ELSE EndWith({s \in Sessions : Stale(s)}) /\ reading' \in ready /\ UNCHANGED looked
    /\ UNCHANGED <<shared, issued, slots, at, closing, ghosts>>

\* Mutant: what was read is published as it is.
MayPublishAlways(s) == TRUE

\* The session may have ended during the read.
MayPublish(s) == InMap(s) /\ s \notin expired

\* The read succeeds and is published under the mutex, or fails.
Publish ==
    /\ reading # Nobody /\ Locked
    /\ monitor' \in {Nobody} \cup {s \in {reading} : MayPublish(s)}
    /\ reading' = Nobody /\ looked' = 0
    /\ UNCHANGED <<shared, logins, slots, at, job, closing, ghosts>>

\* Mutant: Close waits for the workers before it lets go of the mutex.
KeepsMutexToTheEnd == TRUE

KeepsMutex == FALSE

\* Close stops the workers, waits until both have returned and the monitor has
\* stopped, and forgets every session.
CloseBegin ==
    /\ closing = "open" /\ Locked
    /\ closing' = "waiting" /\ mutex' = KeepsMutex
    /\ job' = Paused(Workers)
    /\ UNCHANGED <<revision, generation, writer, logins, slots, at, watching, ghosts>>

CloseEnd ==
    /\ closing = "waiting" /\ \A k \in Workers : Finished(k)
    /\ looked = 0
    /\ closing' = "closed" /\ mutex' = FALSE
    /\ Forget({s \in Sessions : InMap(s)})
    /\ UNCHANGED <<revision, generation, writer, issued, slots, at, looked, reading,
                   ghosts>>

----------------------------------------------------------------------------
(* The specification                                                       *)

\* The next step of an actor that is on its way.
Step(x) ==
    \/ Ask(x) \/ Check(x) \/ Slot(x) \/ ReadStore(x) \/ Provider(x)
    \/ IssueAction(x) \/ Lock(x) \/ Call(x) \/ Finish(x) \/ Record(x) \/ Leave(x)

Handle(r) ==
    \/ SignInChecked(r) \/ SignInFails(r) \/ ReplaceFile(r) \/ RevokeAll(r)
    \/ \E s \in Sessions : Issue(r, s)

Next ==
    \/ \E x \in Actors : Step(x)
    \/ \E r \in Requests :
         \/ SignIn(r) \/ Handle(r)
         \/ \E s \in Sessions : ChangePassword(r, s) \/ BeginRequest(r, s)
    \/ \E s \in Sessions : SignOut(s) \/ Expire(s)
    \/ \E k \in Workers :
         \/ \E s \in Sessions, gen \in 0 .. MaxGeneration : StartWorker(k, s, gen)
         \/ StopWorker(k) \/ Return(k) \/ Tick(k)
    \/ LookAtFile \/ Look \/ Publish
    \/ CloseBegin \/ CloseEnd

\* Goroutines run, tickers fire, handlers and provider calls end within their
\* timeouts, and a loop that is told to stop while its ticker fires, too, sooner
\* or later takes the one for the other: it chooses at random.
\* Nothing makes anyone sign in or out, start or stop a worker, or close.
Proceeds(x) == Step(x) \/ (x \in Requests /\ Handle(x)) \/ (x \in Workers /\ Tick(x))

Monitor == LookAtFile \/ Look \/ Publish

Fairness ==
    /\ \A x \in Actors : WF_vars(Proceeds(x))
    /\ \A k \in Workers : SF_vars(Return(k))
    /\ WF_vars(Monitor)
    /\ SF_vars(CloseEnd)

Spec == Init /\ [][Next]_vars
FairSpec == Spec /\ Fairness

----------------------------------------------------------------------------
(* Properties                                                              *)

\* A watch and a renewal never run, finish or wait at the same time.
OneWorker == Cardinality({k \in Workers : ~Finished(k)}) <= 1

\* Once Close has answered no worker is running, and none starts.
ClosedQuiet == closing = "closed" => \A k \in Workers : Finished(k)

\* The workers of the server, and their end with it.
WorkersOrderly == OneWorker /\ ClosedQuiet

\* A worker that was stopped, or whose session ended, makes at most the one
\* call to the provider that had its permit already.
StopHolds == \A k \in Workers : late[k] <= 1

\* The monitor shows only what a session that is still there may see.
MonitorNotLate == monitor # Nobody => InMap(monitor)

\* Nothing is done or shown for a session that is gone.
SessionsRespected == StopHolds /\ MonitorNotLate

\* A worker acts only on a store that nobody but itself has changed since the
\* generation it was started on.
WorksAlone ==
    [][\A k \in Workers :
         at[k].pc = "lock" /\ at'[k].pc = "ask" => ~foreign[k]]_vars

\* A worker whose session ended, in any way, returns, and Close, which waits
\* for both workers, ends: no worker stays on its way for ever without a
\* session, and the server does not stay half closed.  (At most one worker is
\* unfinished at a time, and none once it is closed.)
StopsInTheEnd ==
    []<>(closing # "waiting" /\ \A k \in Workers : Finished(k) \/ Current(job[k].owner))

\* Nobody keeps a slot, or the writer lock, for ever.  The other two are taken
\* by who holds the derivation slot, so that all are free between operations.
SlotsComeFree == []<>({derive, busy, writer} = {Nobody})

=============================================================================
