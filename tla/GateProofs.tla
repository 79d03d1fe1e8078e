------------------------------ MODULE GateProofs ------------------------------
(***************************************************************************)
(* What holds of the server for any number of requests and sessions.  The  *)
(* invariants are about its two workers, which share one job slot, and     *)
(* about the writer lock, which a worker keeps from the commit of its      *)
(* intent to that of its outcome.  Each has a lemma with one step per      *)
(* action; none looks at liveness.                                         *)
(***************************************************************************)
EXTENDS Gate, FiniteSetTheorems, TLAPS

Control == Steps \cup {"sleep"}

ActorType == [pc : Control, goal : Steps, seen : Nat, session : Sessions \cup {Nobody},
              rev : Nat, gen : Nat, calls : Nat]

JobType == [state : States, owner : Sessions \cup {Nobody}, rev : Nat, gen : Nat]

\* The types of what the other invariants speak of.
TypeInv ==
    /\ revision \in Nat /\ generation \in Nat
    /\ sessions \in [Sessions -> Nat] /\ issued \subseteq Sessions
    /\ at \in [Actors -> ActorType] /\ job \in [Workers -> JobType]
    /\ late \in [Workers -> Nat] /\ foreign \in [Workers -> BOOLEAN]
    /\ looked \in Nat

\* The goroutine of one worker at most has not returned, of none once Close has.
Alone ==
    /\ \A k, l \in Workers : k # l => at[k].pc = "idle" \/ at[l].pc = "idle"
    /\ closing = "closed" => \A k \in Workers : at[k].pc = "idle"

\* A worker that made a late call is past it, and an active one made none.
Stopped == \A k \in Workers :
    /\ late[k] \in {0, 1}
    /\ Active(k) => late[k] = 0
    /\ late[k] = 1 => at[k].pc \in {"ask", "check", "finish", "leave", "sleep"}

\* The monitor's session is in the map, and what is there was issued.
Shown ==
    /\ monitor # Nobody => InMap(monitor)
    /\ \A s \in Sessions : InMap(s) => s \in issued

\* Between the commit of an intent and that of its outcome.
Holding(x) ==
    \/ at[x].pc \in {"call", "finish"}
    \/ at[x].pc \in {"ask", "check"} /\ at[x].goal = "call"

\* Whoever is there has the writer lock, so that nobody else commits; and a
\* worker whose store was changed by others knows an older generation only.
Apart ==
    /\ \A x \in Actors : Holding(x) => writer = x
    /\ \A k \in Workers :
         /\ Holding(k) => ~foreign[k]
         /\ job[k].gen <= generation /\ at[k].gen <= generation
         /\ foreign[k] => job[k].gen < generation /\ at[k].gen < generation

\* Initially there is no worker, and no session.
LEMMA InitInvariants == Init => TypeInv /\ Alone /\ Stopped /\ Shown /\ Apart
BY GateAssumption DEF Init, TypeInv, Alone, Stopped, Shown, Apart, Holding, ActorType, JobType,
   Control, Steps, States, Actors, Workers, Idle, NoWork, Active, InMap

\* Every action keeps the types.
LEMMA TypeStep ==
    ASSUME TypeInv, [Next]_vars
    PROVE  TypeInv'
<1> USE DEF TypeInv, ActorType, JobType, Control, Steps, States, Actors,
     Workers, shared, logins, slots, watching, ghosts
<1>1. ASSUME NEW x \in Actors, Ask(x) PROVE TypeInv'
  BY <1>1 DEF Ask, Go
<1>2. ASSUME NEW x \in Actors, Check(x) PROVE TypeInv'
  BY <1>2 DEF Check, Live, Locked, Go, Paused, Active, Owner, OwnRevision,
     InMap
<1>3. ASSUME NEW x \in Actors, Slot(x) PROVE TypeInv'
  BY <1>3 DEF Slot, TakeSlot, Go
<1>4. ASSUME NEW x \in Actors, ReadStore(x) PROVE TypeInv'
  BY <1>4 DEF ReadStore, Locked, Go, Paused, Active
<1>5. ASSUME NEW x \in Actors, Provider(x) PROVE TypeInv'
  BY <1>5 DEF Provider, Go
<1>6. ASSUME NEW x \in Actors, IssueAction(x) PROVE TypeInv'
  BY <1>6 DEF IssueAction, Go, Active
<1>7. ASSUME NEW x \in Actors, Lock(x) PROVE TypeInv'
  <2>1. CASE CommitBy(x)
    <3>1. generation' \in Nat /\ foreign' \in [Workers -> BOOLEAN]
      BY <2>1 DEF CommitBy
    <3>2. at' \in [Actors -> ActorType] /\ job' \in [Workers -> JobType]
      BY <1>7, <3>1 DEF Lock, Go, Paused
    <3>3. QED
      BY <1>7, <3>1, <3>2 DEF Lock
  <2>2. CASE ~CommitBy(x)
    BY <1>7, <2>2 DEF Lock, Go, Paused
  <2>3. QED
    BY <2>1, <2>2
<1>8. ASSUME NEW x \in Actors, Call(x) PROVE TypeInv'
  BY <1>8 DEF Call, AfterCall, Active
<1>9. ASSUME NEW x \in Actors, Finish(x) PROVE TypeInv'
  <2>1. CASE CommitBy(x)
    <3>1. generation' \in Nat /\ foreign' \in [Workers -> BOOLEAN]
      BY <2>1 DEF CommitBy
    <3>2. at' \in [Actors -> ActorType] /\ job' \in [Workers -> JobType]
      BY <1>9, <3>1 DEF Finish, Go, Paused
    <3>3. QED
      BY <1>9, <3>1, <3>2 DEF Finish
  <2>2. CASE ~CommitBy(x)
    BY <1>9, <2>2 DEF Finish, Go, Paused
  <2>3. QED
    BY <2>1, <2>2
<1>10. ASSUME NEW x \in Actors, Record(x) PROVE TypeInv'
  <2>1. at' \in [Actors -> ActorType]
    BY <1>10 DEF Record, Go
  <2>2. ASSUME NEW k \in Workers, k = x
        PROVE  [job[k] EXCEPT !.state = "waiting", !.gen = at[x].gen] \in JobType
    BY <1>10, <2>2
  <2>3. job' \in [Workers -> JobType]
    BY <1>10, <2>2 DEF Record
  <2>4. QED
    BY <1>10, <2>1, <2>3 DEF Record
<1>11. ASSUME NEW x \in Actors, Leave(x) PROVE TypeInv'
  BY <1>11 DEF Leave, Released, Idle
<1>12. ASSUME NEW r \in Requests, SignIn(r) PROVE TypeInv'
  BY <1>12 DEF SignIn, TakeSlot, Idle
<1>13. ASSUME NEW r \in Requests, SignInChecked(r) PROVE TypeInv'
  BY <1>13 DEF SignInChecked, Go
<1>14. ASSUME NEW r \in Requests, SignInFails(r) PROVE TypeInv'
  BY <1>14 DEF SignInFails, Go
<1>15. ASSUME NEW r \in Requests, ReplaceFile(r) PROVE TypeInv'
  BY <1>15 DEF ReplaceFile, Go
<1>16. ASSUME NEW r \in Requests, RevokeAll(r) PROVE TypeInv'
  BY <1>16 DEF RevokeAll, Go, Forget, EndWith, Without, Paused, InMap
<1>17. ASSUME NEW r \in Requests, NEW s \in Sessions, Issue(r, s) PROVE TypeInv'
  BY <1>17 DEF Issue, Go, Evicted, EndWith, Without, Paused, InMap, Kept
<1>18. ASSUME NEW r \in Requests, NEW s \in Sessions, ChangePassword(r, s) PROVE TypeInv'
  BY <1>18 DEF ChangePassword, TakeSlot, Idle
<1>19. ASSUME NEW r \in Requests, NEW s \in Sessions, BeginRequest(r, s) PROVE TypeInv'
  BY <1>19 DEF BeginRequest, Idle, Current, InMap
<1>20. ASSUME NEW s \in Sessions, SignOut(s) PROVE TypeInv'
  BY <1>20 DEF SignOut, Forget, EndWith, Without, Paused, InMap
<1>21. ASSUME NEW s \in Sessions, Expire(s) PROVE TypeInv'
  BY <1>21 DEF Expire
<1>22. ASSUME NEW k \in Workers, NEW s \in Sessions, NEW gen \in 0 .. MaxGeneration,
             StartWorker(k, s, gen)
      PROVE  TypeInv'
  <2>1. gen \in Nat
    BY <1>22, GateAssumption
  <2>2. QED
    BY <1>22, <2>1 DEF StartWorker, Locked, MayStart, Idle
<1>23. ASSUME NEW k \in Workers, StopWorker(k) PROVE TypeInv'
  BY <1>23 DEF StopWorker, Paused
<1>24. ASSUME NEW k \in Workers, Return(k) PROVE TypeInv'
  BY <1>24 DEF Return, Cancelled, Go, NoWork
<1>25. ASSUME NEW k \in Workers, Tick(k) PROVE TypeInv'
  BY <1>25 DEF Tick
<1>26. ASSUME LookAtFile PROVE TypeInv'
  BY <1>26 DEF LookAtFile
<1>27. ASSUME Look PROVE TypeInv'
  BY <1>27 DEF Look, Stale, Without, Paused, EndWith, InMap
<1>28. ASSUME Publish PROVE TypeInv'
  BY <1>28 DEF Publish, MayPublish
<1>29. ASSUME CloseBegin PROVE TypeInv'
  BY <1>29 DEF CloseBegin, Paused
<1>30. ASSUME CloseEnd PROVE TypeInv'
  BY <1>30 DEF CloseEnd, Finished, Forget, EndWith, Without, Paused, InMap
<1>31. CASE UNCHANGED vars
  BY <1>31 DEF vars
<1>32. QED
  BY <1>1, <1>2, <1>3, <1>4, <1>5, <1>6, <1>7, <1>8, <1>9, <1>10, <1>11,
     <1>12, <1>13, <1>14, <1>15, <1>16, <1>17, <1>18, <1>19, <1>20, <1>21,
     <1>22, <1>23, <1>24, <1>25, <1>26, <1>27, <1>28, <1>29, <1>30, <1>31 DEF
     Next, Step, Handle

\* A worker starts only when both have returned, and never once Close is under way.
LEMMA AloneStep ==
    ASSUME TypeInv, Alone, [Next]_vars
    PROVE  Alone'
<1> USE DEF TypeInv, ActorType, JobType, Control, Steps, States, Actors,
     Workers, Alone, shared, logins, slots, watching, ghosts
<1>1. ASSUME NEW x \in Actors, Ask(x) PROVE Alone'
  BY <1>1 DEF Ask, Go
<1>2. ASSUME NEW x \in Actors, Check(x) PROVE Alone'
  BY <1>2 DEF Check, Live, Locked, Go, Paused, Active, Owner, OwnRevision,
     InMap
<1>3. ASSUME NEW x \in Actors, Slot(x) PROVE Alone'
  BY <1>3 DEF Slot, TakeSlot, Go
<1>4. ASSUME NEW x \in Actors, ReadStore(x) PROVE Alone'
  BY <1>4 DEF ReadStore, Locked, Go, Paused, Active
<1>5. ASSUME NEW x \in Actors, Provider(x) PROVE Alone'
  BY <1>5 DEF Provider, Go
<1>6. ASSUME NEW x \in Actors, IssueAction(x) PROVE Alone'
  BY <1>6 DEF IssueAction, Go, Active
<1>7. ASSUME NEW x \in Actors, Lock(x) PROVE Alone'
  BY <1>7 DEF Lock, Go, Paused, CommitBy, Finished
<1>8. ASSUME NEW x \in Actors, Call(x) PROVE Alone'
  BY <1>8 DEF Call, AfterCall, Active
<1>9. ASSUME NEW x \in Actors, Finish(x) PROVE Alone'
  BY <1>9 DEF Finish, Go, Paused, CommitBy, Finished
<1>10. ASSUME NEW x \in Actors, Record(x) PROVE Alone'
  BY <1>10 DEF Record, Go, Active
<1>11. ASSUME NEW x \in Actors, Leave(x) PROVE Alone'
  BY <1>11 DEF Leave, Released, Idle
<1>12. ASSUME NEW r \in Requests, SignIn(r) PROVE Alone'
  BY <1>12, GateAssumption DEF SignIn, TakeSlot, Idle
<1>13. ASSUME NEW r \in Requests, SignInChecked(r) PROVE Alone'
  BY <1>13 DEF SignInChecked, Go
<1>14. ASSUME NEW r \in Requests, SignInFails(r) PROVE Alone'
  BY <1>14 DEF SignInFails, Go
<1>15. ASSUME NEW r \in Requests, ReplaceFile(r) PROVE Alone'
  BY <1>15 DEF ReplaceFile, Go
<1>16. ASSUME NEW r \in Requests, RevokeAll(r) PROVE Alone'
  BY <1>16 DEF RevokeAll, Go, Forget, EndWith, Without, Paused, InMap
<1>17. ASSUME NEW r \in Requests, NEW s \in Sessions, Issue(r, s) PROVE Alone'
  BY <1>17 DEF Issue, Go, Evicted, EndWith, Without, Paused, InMap, Kept
<1>18. ASSUME NEW r \in Requests, NEW s \in Sessions, ChangePassword(r, s) PROVE Alone'
  BY <1>18, GateAssumption DEF ChangePassword, TakeSlot, Idle
<1>19. ASSUME NEW r \in Requests, NEW s \in Sessions, BeginRequest(r, s) PROVE Alone'
  BY <1>19, GateAssumption DEF BeginRequest, Idle, Current, InMap
<1>20. ASSUME NEW s \in Sessions, SignOut(s) PROVE Alone'
  BY <1>20 DEF SignOut, Forget, EndWith, Without, Paused, InMap
<1>21. ASSUME NEW s \in Sessions, Expire(s) PROVE Alone'
  BY <1>21 DEF Expire
<1>22. ASSUME NEW k \in Workers, NEW s \in Sessions, NEW gen \in 0 .. MaxGeneration,
             StartWorker(k, s, gen)
      PROVE  Alone'
  BY <1>22, GateAssumption DEF StartWorker, Locked, MayStart, OthersFinished,
     Finished, Idle, InMap
<1>23. ASSUME NEW k \in Workers, StopWorker(k) PROVE Alone'
  BY <1>23 DEF StopWorker, Paused
<1>24. ASSUME NEW k \in Workers, Return(k) PROVE Alone'
  BY <1>24 DEF Return, Cancelled, Go, NoWork
<1>25. ASSUME NEW k \in Workers, Tick(k) PROVE Alone'
  BY <1>25 DEF Tick
<1>26. ASSUME LookAtFile PROVE Alone'
  BY <1>26 DEF LookAtFile
<1>27. ASSUME Look PROVE Alone'
  BY <1>27 DEF Look, Stale, Without, Paused, EndWith, InMap
<1>28. ASSUME Publish PROVE Alone'
  BY <1>28 DEF Publish, MayPublish
<1>29. ASSUME CloseBegin PROVE Alone'
  BY <1>29 DEF CloseBegin, Paused
<1>30. ASSUME CloseEnd PROVE Alone'
  BY <1>30, GateAssumption DEF CloseEnd, Finished, Forget, EndWith, Without,
     Paused, InMap
<1>31. CASE UNCHANGED vars
  BY <1>31 DEF vars
<1>32. QED
  BY <1>1, <1>2, <1>3, <1>4, <1>5, <1>6, <1>7, <1>8, <1>9, <1>10, <1>11,
     <1>12, <1>13, <1>14, <1>15, <1>16, <1>17, <1>18, <1>19, <1>20, <1>21,
     <1>22, <1>23, <1>24, <1>25, <1>26, <1>27, <1>28, <1>29, <1>30, <1>31 DEF
     Next, Step, Handle

\* What a worker does late leads to a permit, which it is refused.
LEMMA StoppedStep ==
    ASSUME TypeInv, Stopped, [Next]_vars
    PROVE  Stopped'
<1> USE DEF TypeInv, ActorType, JobType, Control, Steps, States, Actors,
     Workers, Stopped, Active, shared, logins, slots, watching, ghosts
<1>1. ASSUME NEW x \in Actors, Ask(x) PROVE Stopped'
  BY <1>1 DEF Ask, Go
<1>2. ASSUME NEW x \in Actors, Check(x) PROVE Stopped'
  BY <1>2 DEF Check, Live, Locked, Go, Paused, Owner, OwnRevision, InMap
<1>3. ASSUME NEW x \in Actors, Slot(x) PROVE Stopped'
  BY <1>3 DEF Slot, TakeSlot, Go
<1>4. ASSUME NEW x \in Actors, ReadStore(x) PROVE Stopped'
  BY <1>4 DEF ReadStore, Locked, Go, Paused
<1>5. ASSUME NEW x \in Actors, Provider(x) PROVE Stopped'
  BY <1>5 DEF Provider, Go
<1>6. ASSUME NEW x \in Actors, IssueAction(x) PROVE Stopped'
  BY <1>6 DEF IssueAction, Go
<1>7. ASSUME NEW x \in Actors, Lock(x) PROVE Stopped'
  BY <1>7 DEF Lock, Go, Paused, CommitBy, Finished
<1>8. ASSUME NEW x \in Actors, Call(x) PROVE Stopped'
  BY <1>8 DEF Call, AfterCall
<1>9. ASSUME NEW x \in Actors, Finish(x) PROVE Stopped'
  BY <1>9 DEF Finish, Go, Paused, CommitBy, Finished
<1>10. ASSUME NEW x \in Actors, Record(x) PROVE Stopped'
  BY <1>10 DEF Record, Go
<1>11. ASSUME NEW x \in Actors, Leave(x) PROVE Stopped'
  BY <1>11 DEF Leave, Released, Idle
<1>12. ASSUME NEW r \in Requests, SignIn(r) PROVE Stopped'
  BY <1>12 DEF SignIn, TakeSlot, Idle
<1>13. ASSUME NEW r \in Requests, SignInChecked(r) PROVE Stopped'
  BY <1>13 DEF SignInChecked, Go
<1>14. ASSUME NEW r \in Requests, SignInFails(r) PROVE Stopped'
  BY <1>14 DEF SignInFails, Go
<1>15. ASSUME NEW r \in Requests, ReplaceFile(r) PROVE Stopped'
  BY <1>15 DEF ReplaceFile, Go
<1>16. ASSUME NEW r \in Requests, RevokeAll(r) PROVE Stopped'
  BY <1>16 DEF RevokeAll, Go, Forget, EndWith, Without, Paused, InMap
<1>17. ASSUME NEW r \in Requests, NEW s \in Sessions, Issue(r, s) PROVE Stopped'
  BY <1>17 DEF Issue, Go, Evicted, EndWith, Without, Paused, InMap, Kept
<1>18. ASSUME NEW r \in Requests, NEW s \in Sessions, ChangePassword(r, s) PROVE Stopped'
  BY <1>18 DEF ChangePassword, TakeSlot, Idle
<1>19. ASSUME NEW r \in Requests, NEW s \in Sessions, BeginRequest(r, s) PROVE Stopped'
  BY <1>19 DEF BeginRequest, Idle, Current, InMap
<1>20. ASSUME NEW s \in Sessions, SignOut(s) PROVE Stopped'
  BY <1>20 DEF SignOut, Forget, EndWith, Without, Paused, InMap
<1>21. ASSUME NEW s \in Sessions, Expire(s) PROVE Stopped'
  BY <1>21 DEF Expire
<1>22. ASSUME NEW k \in Workers, NEW s \in Sessions, NEW gen \in 0 .. MaxGeneration,
             StartWorker(k, s, gen)
      PROVE  Stopped'
  BY <1>22 DEF StartWorker, Locked, MayStart, OthersFinished, Finished, Idle,
     InMap
<1>23. ASSUME NEW k \in Workers, StopWorker(k) PROVE Stopped'
  BY <1>23 DEF StopWorker, Paused
<1>24. ASSUME NEW k \in Workers, Return(k) PROVE Stopped'
  BY <1>24 DEF Return, Cancelled, Go, NoWork
<1>25. ASSUME NEW k \in Workers, Tick(k) PROVE Stopped'
  BY <1>25 DEF Tick
<1>26. ASSUME LookAtFile PROVE Stopped'
  BY <1>26 DEF LookAtFile
<1>27. ASSUME Look PROVE Stopped'
  BY <1>27 DEF Look, Stale, Without, Paused, EndWith, InMap
<1>28. ASSUME Publish PROVE Stopped'
  BY <1>28 DEF Publish, MayPublish
<1>29. ASSUME CloseBegin PROVE Stopped'
  BY <1>29 DEF CloseBegin, Paused
<1>30. ASSUME CloseEnd PROVE Stopped'
  BY <1>30 DEF CloseEnd, Finished, Forget, EndWith, Without, Paused, InMap
<1>31. CASE UNCHANGED vars
  BY <1>31 DEF vars
<1>32. QED
  BY <1>1, <1>2, <1>3, <1>4, <1>5, <1>6, <1>7, <1>8, <1>9, <1>10, <1>11,
     <1>12, <1>13, <1>14, <1>15, <1>16, <1>17, <1>18, <1>19, <1>20, <1>21,
     <1>22, <1>23, <1>24, <1>25, <1>26, <1>27, <1>28, <1>29, <1>30, <1>31 DEF
     Next, Step, Handle

\* Whatever takes a session out of the map drops what the monitor shows.
LEMMA ShownStep ==
    ASSUME TypeInv, Shown, [Next]_vars
    PROVE  Shown'
<1> USE DEF TypeInv, Shown, InMap, shared, logins, slots, watching, ghosts
<1>1. ASSUME NEW x \in Actors, Ask(x) PROVE Shown'
  BY <1>1 DEF Ask, Go
<1>2. ASSUME NEW x \in Actors, Check(x) PROVE Shown'
  BY <1>2 DEF Check, Live, Locked, Go, Paused, Active, Owner, OwnRevision
<1>3. ASSUME NEW x \in Actors, Slot(x) PROVE Shown'
  BY <1>3 DEF Slot, TakeSlot, Go
<1>4. ASSUME NEW x \in Actors, ReadStore(x) PROVE Shown'
  BY <1>4 DEF ReadStore, Locked, Go, Paused, Active
<1>5. ASSUME NEW x \in Actors, Provider(x) PROVE Shown'
  BY <1>5 DEF Provider, Go
<1>6. ASSUME NEW x \in Actors, IssueAction(x) PROVE Shown'
  BY <1>6 DEF IssueAction, Go, Active
<1>7. ASSUME NEW x \in Actors, Lock(x) PROVE Shown'
  BY <1>7 DEF Lock, Go, Paused, CommitBy, Finished
<1>8. ASSUME NEW x \in Actors, Call(x) PROVE Shown'
  BY <1>8 DEF Call, AfterCall, Active
<1>9. ASSUME NEW x \in Actors, Finish(x) PROVE Shown'
  BY <1>9 DEF Finish, Go, Paused, CommitBy, Finished
<1>10. ASSUME NEW x \in Actors, Record(x) PROVE Shown'
  BY <1>10 DEF Record, Go, Active
<1>11. ASSUME NEW x \in Actors, Leave(x) PROVE Shown'
  BY <1>11 DEF Leave, Released, Idle
<1>12. ASSUME NEW r \in Requests, SignIn(r) PROVE Shown'
  BY <1>12 DEF SignIn, TakeSlot, Idle
<1>13. ASSUME NEW r \in Requests, SignInChecked(r) PROVE Shown'
  BY <1>13 DEF SignInChecked, Go
<1>14. ASSUME NEW r \in Requests, SignInFails(r) PROVE Shown'
  BY <1>14 DEF SignInFails, Go
<1>15. ASSUME NEW r \in Requests, ReplaceFile(r) PROVE Shown'
  BY <1>15 DEF ReplaceFile, Go
<1>16. ASSUME NEW r \in Requests, RevokeAll(r) PROVE Shown'
  BY <1>16 DEF RevokeAll, Go, Forget, EndWith, Without, Paused
<1>17. ASSUME NEW r \in Requests, NEW s \in Sessions, Issue(r, s) PROVE Shown'
  BY <1>17 DEF Issue, Go, Evicted, EndWith, Without, Paused, Kept
<1>18. ASSUME NEW r \in Requests, NEW s \in Sessions, ChangePassword(r, s) PROVE Shown'
  BY <1>18 DEF ChangePassword, TakeSlot, Idle
<1>19. ASSUME NEW r \in Requests, NEW s \in Sessions, BeginRequest(r, s) PROVE Shown'
  BY <1>19 DEF BeginRequest, Idle, Current
<1>20. ASSUME NEW s \in Sessions, SignOut(s) PROVE Shown'
  BY <1>20 DEF SignOut, Forget, EndWith, Without, Paused
<1>21. ASSUME NEW s \in Sessions, Expire(s) PROVE Shown'
  BY <1>21 DEF Expire
<1>22. ASSUME NEW k \in Workers, NEW s \in Sessions, NEW gen \in 0 .. MaxGeneration,
             StartWorker(k, s, gen)
      PROVE  Shown'
  BY <1>22 DEF StartWorker, Locked, MayStart, OthersFinished, Finished, Idle
<1>23. ASSUME NEW k \in Workers, StopWorker(k) PROVE Shown'
  BY <1>23 DEF StopWorker, Paused
<1>24. ASSUME NEW k \in Workers, Return(k) PROVE Shown'
  BY <1>24 DEF Return, Cancelled, Go, NoWork
<1>25. ASSUME NEW k \in Workers, Tick(k) PROVE Shown'
  BY <1>25 DEF Tick
<1>26. ASSUME LookAtFile PROVE Shown'
  BY <1>26 DEF LookAtFile
<1>27. ASSUME Look PROVE Shown'
  BY <1>27 DEF Look, Stale, Without, Paused, EndWith
<1>28. ASSUME Publish PROVE Shown'
  BY <1>28 DEF Publish, MayPublish
<1>29. ASSUME CloseBegin PROVE Shown'
  BY <1>29 DEF CloseBegin, Paused, Workers
<1>30. ASSUME CloseEnd PROVE Shown'
  BY <1>30 DEF CloseEnd, Finished, Forget, EndWith, Without, Paused
<1>31. CASE UNCHANGED vars
  BY <1>31 DEF vars
<1>32. QED
  BY <1>1, <1>2, <1>3, <1>4, <1>5, <1>6, <1>7, <1>8, <1>9, <1>10, <1>11,
     <1>12, <1>13, <1>14, <1>15, <1>16, <1>17, <1>18, <1>19, <1>20, <1>21,
     <1>22, <1>23, <1>24, <1>25, <1>26, <1>27, <1>28, <1>29, <1>30, <1>31 DEF
     Next, Step, Handle

\* Nobody commits while another is between its two commits, and each commit
\* leaves every other worker behind.
LEMMA ApartStep ==
    ASSUME TypeInv, Apart, [Next]_vars
    PROVE  Apart'
<1> USE DEF TypeInv, ActorType, JobType, Control, Steps, States, Actors,
     Workers, Apart, Holding, shared, logins, slots, watching, ghosts
<1>1. ASSUME NEW x \in Actors, Ask(x) PROVE Apart'
  BY <1>1, GateAssumption DEF Ask, Go
<1>2. ASSUME NEW x \in Actors, Check(x) PROVE Apart'
  BY <1>2, GateAssumption DEF Check, Live, Locked, Go, Paused, Active, Owner,
     OwnRevision, InMap
<1>3. ASSUME NEW x \in Actors, Slot(x) PROVE Apart'
  BY <1>3, GateAssumption DEF Slot, TakeSlot, Go
<1>4. ASSUME NEW x \in Actors, ReadStore(x) PROVE Apart'
  BY <1>4, GateAssumption DEF ReadStore, Locked, Go, Paused, Active
<1>5. ASSUME NEW x \in Actors, Provider(x) PROVE Apart'
  BY <1>5, GateAssumption DEF Provider, Go
<1>6. ASSUME NEW x \in Actors, IssueAction(x) PROVE Apart'
  BY <1>6, GateAssumption DEF IssueAction, Go, Active
<1>7. ASSUME NEW x \in Actors, Lock(x) PROVE Apart'
  BY <1>7, GateAssumption DEF Lock, Go, Paused, CommitBy, Finished
<1>8. ASSUME NEW x \in Actors, Call(x) PROVE Apart'
  BY <1>8, GateAssumption DEF Call, AfterCall, Active
<1>9. ASSUME NEW x \in Actors, Finish(x) PROVE Apart'
  BY <1>9, GateAssumption DEF Finish, Go, Paused, CommitBy, Finished
<1>10. ASSUME NEW x \in Actors, Record(x) PROVE Apart'
  BY <1>10, GateAssumption DEF Record, Go, Active
<1>11. ASSUME NEW x \in Actors, Leave(x) PROVE Apart'
  BY <1>11, GateAssumption DEF Leave, Released, Idle
<1>12. ASSUME NEW r \in Requests, SignIn(r) PROVE Apart'
  BY <1>12, GateAssumption DEF SignIn, TakeSlot, Idle
<1>13. ASSUME NEW r \in Requests, SignInChecked(r) PROVE Apart'
  BY <1>13, GateAssumption DEF SignInChecked, Go
<1>14. ASSUME NEW r \in Requests, SignInFails(r) PROVE Apart'
  BY <1>14, GateAssumption DEF SignInFails, Go
<1>15. ASSUME NEW r \in Requests, ReplaceFile(r) PROVE Apart'
  BY <1>15, GateAssumption DEF ReplaceFile, Go
<1>16. ASSUME NEW r \in Requests, RevokeAll(r) PROVE Apart'
  BY <1>16, GateAssumption DEF RevokeAll, Go, Forget, EndWith, Without,
     Paused, InMap
<1>17. ASSUME NEW r \in Requests, NEW s \in Sessions, Issue(r, s) PROVE Apart'
  BY <1>17, GateAssumption DEF Issue, Go, Evicted, EndWith, Without, Paused,
     InMap, Kept
<1>18. ASSUME NEW r \in Requests, NEW s \in Sessions, ChangePassword(r, s) PROVE Apart'
  BY <1>18, GateAssumption DEF ChangePassword, TakeSlot, Idle
<1>19. ASSUME NEW r \in Requests, NEW s \in Sessions, BeginRequest(r, s) PROVE Apart'
  BY <1>19, GateAssumption DEF BeginRequest, Idle, Current, InMap
<1>20. ASSUME NEW s \in Sessions, SignOut(s) PROVE Apart'
  BY <1>20, GateAssumption DEF SignOut, Forget, EndWith, Without, Paused,
     InMap
<1>21. ASSUME NEW s \in Sessions, Expire(s) PROVE Apart'
  BY <1>21, GateAssumption DEF Expire
<1>22. ASSUME NEW k \in Workers, NEW s \in Sessions, NEW gen \in 0 .. MaxGeneration,
             StartWorker(k, s, gen)
      PROVE  Apart'
  <2>1. gen \in Nat /\ gen <= generation /\ generation' = generation /\ writer' = writer
    BY <1>22, GateAssumption DEF StartWorker
  <2>2. /\ at' = [at EXCEPT ![k] = [Idle EXCEPT !.pc = "ask", !.goal = "slot"]]
        /\ job'[k].gen = gen /\ foreign'[k] = (gen # generation)
        /\ \A l \in Workers \ {k} : job'[l] = job[l] /\ foreign'[l] = foreign[l]
    BY <1>22 DEF StartWorker
  <2>3. /\ at'[k].gen = 0 /\ at'[k].pc = "ask" /\ at'[k].goal = "slot"
        /\ \A x \in Actors \ {k} : at'[x] = at[x]
    BY <2>2 DEF Idle
  <2>4. \A x \in Actors : Holding(x)' => Holding(x) /\ x # k
    BY <2>3
  <2>5. \A x \in Actors : Holding(x)' => writer' = x
    BY <2>1, <2>4
  <2>6. ASSUME NEW l \in Workers
        PROVE  /\ Holding(l)' => ~foreign'[l]
               /\ job'[l].gen <= generation' /\ at'[l].gen <= generation'
               /\ foreign'[l] => job'[l].gen < generation' /\ at'[l].gen < generation'
    <3>1. CASE l = k
      <4>1. ~Holding(l)'
        BY <2>4, <3>1
      <4>2. job'[l].gen = gen /\ at'[l].gen = 0
        BY <2>2, <2>3, <3>1
      <4>3. foreign'[l] => gen # generation
        BY <2>2, <3>1
      <4>4. gen \in Nat /\ generation \in Nat /\ gen <= generation /\ generation' = generation
        BY <2>1
      <4>5. QED
        BY <4>1, <4>2, <4>3, <4>4
    <3>2. CASE l # k
      BY <2>1, <2>2, <2>3, <2>4, <3>2
    <3>3. QED
      BY <3>1, <3>2
  <2>7. QED
    BY <2>5, <2>6
<1>23. ASSUME NEW k \in Workers, StopWorker(k) PROVE Apart'
  BY <1>23, GateAssumption DEF StopWorker, Paused
<1>24. ASSUME NEW k \in Workers, Return(k) PROVE Apart'
  BY <1>24, GateAssumption DEF Return, Cancelled, Go, NoWork
<1>25. ASSUME NEW k \in Workers, Tick(k) PROVE Apart'
  BY <1>25, GateAssumption DEF Tick
<1>26. ASSUME LookAtFile PROVE Apart'
  BY <1>26, GateAssumption DEF LookAtFile
<1>27. ASSUME Look PROVE Apart'
  BY <1>27, GateAssumption DEF Look, Stale, Without, Paused, EndWith, InMap
<1>28. ASSUME Publish PROVE Apart'
  BY <1>28, GateAssumption DEF Publish, MayPublish
<1>29. ASSUME CloseBegin PROVE Apart'
  BY <1>29, GateAssumption DEF CloseBegin, Paused
<1>30. ASSUME CloseEnd PROVE Apart'
  BY <1>30, GateAssumption DEF CloseEnd, Finished, Forget, EndWith, Without,
     Paused, InMap
<1>31. CASE UNCHANGED vars
  BY <1>31 DEF vars
<1>32. QED
  BY <1>1, <1>2, <1>3, <1>4, <1>5, <1>6, <1>7, <1>8, <1>9, <1>10, <1>11,
     <1>12, <1>13, <1>14, <1>15, <1>16, <1>17, <1>18, <1>19, <1>20, <1>21,
     <1>22, <1>23, <1>24, <1>25, <1>26, <1>27, <1>28, <1>29, <1>30, <1>31 DEF
     Next, Step, Handle

\* The step from the lock to the next permit is taken on an unchanged store.
LEMMA LockOnlyUnchanged ==
    ASSUME TypeInv, [Next]_vars, NEW k \in Workers, at[k].pc = "lock", at'[k].pc = "ask"
    PROVE  Unchanged(k)
<1> USE DEF TypeInv, ActorType, JobType, Control, Steps, States, Actors, Workers, shared,
     logins, slots, watching, ghosts, Go
<1>1. ASSUME NEW x \in Actors, Step(x) PROVE Unchanged(k)
  BY <1>1 DEF Step, Ask, Check, Slot, ReadStore, Provider, IssueAction, Lock, Call, AfterCall,
     Finish, Record, Leave, Idle
<1>2. ASSUME NEW r \in Requests, SignIn(r) \/ Handle(r) PROVE FALSE
  BY <1>2, GateAssumption DEF SignIn, Handle, SignInChecked, SignInFails, ReplaceFile, RevokeAll,
     Issue
<1>3. ASSUME NEW r \in Requests, NEW s \in Sessions, ChangePassword(r, s) \/ BeginRequest(r, s)
      PROVE  FALSE
  BY <1>3, GateAssumption DEF ChangePassword, BeginRequest
<1>4. ASSUME NEW s \in Sessions, SignOut(s) \/ Expire(s) PROVE FALSE
  BY <1>4 DEF SignOut, Expire
<1>5. ASSUME NEW l \in Workers, NEW s \in Sessions, NEW gen \in 0 .. MaxGeneration,
             StartWorker(l, s, gen)
      PROVE  FALSE
  BY <1>5 DEF StartWorker, OthersFinished, Finished
<1>6. ASSUME NEW l \in Workers, StopWorker(l) \/ Return(l) \/ Tick(l) PROVE FALSE
  BY <1>6 DEF StopWorker, Return, Tick
<1>7. ASSUME LookAtFile \/ Look \/ Publish \/ CloseBegin \/ CloseEnd PROVE FALSE
  BY <1>7 DEF LookAtFile, Look, Publish, CloseBegin, CloseEnd
<1>8. CASE UNCHANGED vars
  BY <1>8 DEF vars
<1>9. QED
  BY <1>1, <1>2, <1>3, <1>4, <1>5, <1>6, <1>7, <1>8 DEF Next

\* No number outgrows its bound: a revision that anyone carries is one that the
\* file has had.
Bounded ==
    /\ revision \in 1 .. MaxRevision /\ generation <= MaxGeneration
    /\ looked <= revision /\ (reading # Nobody => looked # 0)
    /\ \A s \in Sessions : sessions[s] <= revision
    /\ \A x \in Actors : at[x].seen <= revision /\ at[x].rev <= revision
    /\ \A k \in Workers : job[k].rev <= revision

\* From the derivation slot to the provider's.
Deriving(x) ==
    \/ at[x].pc \in {"read", "provider", "issue"}
    \/ at[x].pc \in {"ask", "check"} /\ at[x].goal \in {"read", "provider"}

\* Who holds the slots, and who is on the way with the derivation slot.
Held ==
    /\ writer \in Actors \cup {Nobody} /\ mutex \in BOOLEAN
    /\ derive \in Actors \cup {Nobody} /\ busy \in Actors \cup {Nobody}
    /\ monitor \in Sessions \cup {Nobody} /\ reading \in Sessions \cup {Nobody}
    /\ expired \subseteq issued /\ closing \in {"open", "waiting", "closed"}
    /\ \A x \in Actors : Deriving(x) => derive = x

\* Whoever may still call the provider has a call left.
CallsLeft(x) ==
    \/ at[x].pc \in {"finish", "leave", "record"}
    \/ at[x].goal = "record"
    \/ at[x].calls < MaxCalls

Calling == \A x \in Actors : at[x].calls <= MaxCalls /\ CallsLeft(x)

\* The map of sessions is no larger than it may be.
Few == IsFiniteSet(Kept) /\ Cardinality(Kept) <= MaxSessions

LEMMA InitBounds == Init => Bounded /\ Held /\ Calling /\ Few
<1> SUFFICES ASSUME Init PROVE Bounded /\ Held /\ Calling /\ Few
    OBVIOUS
<1>1. Bounded
    BY GateAssumption DEF Init, Bounded, Idle, NoWork
<1>2. Held
    BY DEF Init, Held, Deriving, Idle
<1>3. Calling
    BY GateAssumption DEF Init, Calling, CallsLeft, Idle
<1>4. Kept = {}
    BY DEF Init, Kept, InMap
<1>5. QED
    BY <1>1, <1>2, <1>3, <1>4, FS_EmptySet, GateAssumption DEF Few

\* What is carried was read from a file that has not become older since.
LEMMA BoundedStep ==
    ASSUME TypeInv, Bounded, [Next]_vars
    PROVE  Bounded'
<1> USE DEF TypeInv, ActorType, JobType, Control, Steps, States, Actors,
     Workers, Bounded, shared, logins, slots, watching, ghosts
<1>1. ASSUME NEW x \in Actors, Ask(x) PROVE Bounded'
  BY <1>1 DEF Ask, Go
<1>2. ASSUME NEW x \in Actors, Check(x) PROVE Bounded'
  BY <1>2 DEF Check, Live, Locked, Go, Paused, Active, Owner, OwnRevision,
     InMap
<1>3. ASSUME NEW x \in Actors, Slot(x) PROVE Bounded'
  BY <1>3 DEF Slot, TakeSlot, Go
<1>4. ASSUME NEW x \in Actors, ReadStore(x) PROVE Bounded'
  BY <1>4 DEF ReadStore, Locked, Go, Paused, Active
<1>5. ASSUME NEW x \in Actors, Provider(x) PROVE Bounded'
  BY <1>5 DEF Provider, Go
<1>6. ASSUME NEW x \in Actors, IssueAction(x) PROVE Bounded'
  BY <1>6 DEF IssueAction, Go, Active
<1>7. ASSUME NEW x \in Actors, Lock(x) PROVE Bounded'
  BY <1>7, GateAssumption DEF Lock, Go, Paused, CommitBy, Finished
<1>8. ASSUME NEW x \in Actors, Call(x) PROVE Bounded'
  BY <1>8 DEF Call, AfterCall, Active
<1>9. ASSUME NEW x \in Actors, Finish(x) PROVE Bounded'
  BY <1>9, GateAssumption DEF Finish, Go, Paused, CommitBy, Finished
<1>10. ASSUME NEW x \in Actors, Record(x) PROVE Bounded'
  BY <1>10 DEF Record, Go, Active
<1>11. ASSUME NEW x \in Actors, Leave(x) PROVE Bounded'
  BY <1>11 DEF Leave, Released, Idle
<1>12. ASSUME NEW r \in Requests, SignIn(r) PROVE Bounded'
  BY <1>12 DEF SignIn, TakeSlot, Idle
<1>13. ASSUME NEW r \in Requests, SignInChecked(r) PROVE Bounded'
  BY <1>13 DEF SignInChecked, Go
<1>14. ASSUME NEW r \in Requests, SignInFails(r) PROVE Bounded'
  BY <1>14 DEF SignInFails, Go
<1>15. ASSUME NEW r \in Requests, ReplaceFile(r) PROVE Bounded'
  BY <1>15, GateAssumption DEF ReplaceFile, Go
<1>16. ASSUME NEW r \in Requests, RevokeAll(r) PROVE Bounded'
  BY <1>16 DEF RevokeAll, Go, Forget, EndWith, Without, Paused, InMap
<1>17. ASSUME NEW r \in Requests, NEW s \in Sessions, Issue(r, s) PROVE Bounded'
  BY <1>17 DEF Issue, Go, Evicted, EndWith, Without, Paused, InMap, Kept
<1>18. ASSUME NEW r \in Requests, NEW s \in Sessions, ChangePassword(r, s) PROVE Bounded'
  BY <1>18 DEF ChangePassword, TakeSlot, Idle
<1>19. ASSUME NEW r \in Requests, NEW s \in Sessions, BeginRequest(r, s) PROVE Bounded'
  BY <1>19 DEF BeginRequest, Idle, Current, InMap
<1>20. ASSUME NEW s \in Sessions, SignOut(s) PROVE Bounded'
  BY <1>20 DEF SignOut, Forget, EndWith, Without, Paused, InMap
<1>21. ASSUME NEW s \in Sessions, Expire(s) PROVE Bounded'
  BY <1>21 DEF Expire
<1>22. ASSUME NEW k \in Workers, NEW s \in Sessions, NEW gen \in 0 .. MaxGeneration,
             StartWorker(k, s, gen)
      PROVE  Bounded'
  BY <1>22 DEF StartWorker, Locked, MayStart, OthersFinished,
     Finished, Idle, InMap
<1>23. ASSUME NEW k \in Workers, StopWorker(k) PROVE Bounded'
  BY <1>23 DEF StopWorker, Paused
<1>24. ASSUME NEW k \in Workers, Return(k) PROVE Bounded'
  BY <1>24 DEF Return, Cancelled, Go, NoWork
<1>25. ASSUME NEW k \in Workers, Tick(k) PROVE Bounded'
  BY <1>25 DEF Tick
<1>26. ASSUME LookAtFile PROVE Bounded'
  BY <1>26 DEF LookAtFile
<1>27. ASSUME Look PROVE Bounded'
  BY <1>27 DEF Look, Stale, Without, Paused, EndWith, InMap
<1>28. ASSUME Publish PROVE Bounded'
  BY <1>28 DEF Publish, MayPublish
<1>29. ASSUME CloseBegin PROVE Bounded'
  BY <1>29 DEF CloseBegin, Paused
<1>30. ASSUME CloseEnd PROVE Bounded'
  BY <1>30 DEF CloseEnd, Finished, Forget, EndWith, Without,
     Paused, InMap
<1>31. CASE UNCHANGED vars
  BY <1>31 DEF vars
<1>32. QED
  BY <1>1, <1>2, <1>3, <1>4, <1>5, <1>6, <1>7, <1>8, <1>9, <1>10, <1>11,
     <1>12, <1>13, <1>14, <1>15, <1>16, <1>17, <1>18, <1>19, <1>20, <1>21,
     <1>22, <1>23, <1>24, <1>25, <1>26, <1>27, <1>28, <1>29, <1>30, <1>31 DEF
     Next, Step, Handle

\* A slot is let go only by who holds it, on the way out.
LEMMA HeldStep ==
    ASSUME TypeInv, Shown, Held, [Next]_vars
    PROVE  Held'
<1> USE DEF TypeInv, ActorType, JobType, Control, Steps, States, Actors,
     Workers, Held, Deriving, Shown, InMap, shared, logins, slots, watching, ghosts
<1>1. ASSUME NEW x \in Actors, Ask(x) PROVE Held'
  BY <1>1 DEF Ask, Go
<1>2. ASSUME NEW x \in Actors, Check(x) PROVE Held'
  BY <1>2 DEF Check, Live, Locked, Go, Paused, Active, Owner, OwnRevision,
     InMap
<1>3. ASSUME NEW x \in Actors, Slot(x) PROVE Held'
  BY <1>3, GateAssumption DEF Slot, TakeSlot, Go
<1>4. ASSUME NEW x \in Actors, ReadStore(x) PROVE Held'
  BY <1>4 DEF ReadStore, Locked, Go, Paused, Active
<1>5. ASSUME NEW x \in Actors, Provider(x) PROVE Held'
  BY <1>5 DEF Provider, Go
<1>6. ASSUME NEW x \in Actors, IssueAction(x) PROVE Held'
  BY <1>6 DEF IssueAction, Go, Active
<1>7. ASSUME NEW x \in Actors, Lock(x) PROVE Held'
  BY <1>7 DEF Lock, Go, Paused, CommitBy, Finished
<1>8. ASSUME NEW x \in Actors, Call(x) PROVE Held'
  BY <1>8 DEF Call, AfterCall, Active
<1>9. ASSUME NEW x \in Actors, Finish(x) PROVE Held'
  BY <1>9 DEF Finish, Go, Paused, CommitBy, Finished
<1>10. ASSUME NEW x \in Actors, Record(x) PROVE Held'
  BY <1>10 DEF Record, Go, Active
<1>11. ASSUME NEW x \in Actors, Leave(x) PROVE Held'
  BY <1>11 DEF Leave, Released, Idle
<1>12. ASSUME NEW r \in Requests, SignIn(r) PROVE Held'
  BY <1>12, GateAssumption DEF SignIn, TakeSlot, Idle
<1>13. ASSUME NEW r \in Requests, SignInChecked(r) PROVE Held'
  BY <1>13 DEF SignInChecked, Go
<1>14. ASSUME NEW r \in Requests, SignInFails(r) PROVE Held'
  BY <1>14 DEF SignInFails, Go
<1>15. ASSUME NEW r \in Requests, ReplaceFile(r) PROVE Held'
  BY <1>15 DEF ReplaceFile, Go
<1>16. ASSUME NEW r \in Requests, RevokeAll(r) PROVE Held'
  BY <1>16 DEF RevokeAll, Go, Forget, EndWith, Without, Paused, InMap
<1>17. ASSUME NEW r \in Requests, NEW s \in Sessions, Issue(r, s) PROVE Held'
  BY <1>17 DEF Issue, Go, Evicted, EndWith, Without, Paused, InMap, Kept
<1>18. ASSUME NEW r \in Requests, NEW s \in Sessions, ChangePassword(r, s) PROVE Held'
  BY <1>18, GateAssumption DEF ChangePassword, TakeSlot, Idle
<1>19. ASSUME NEW r \in Requests, NEW s \in Sessions, BeginRequest(r, s) PROVE Held'
  BY <1>19 DEF BeginRequest, Idle, Current, InMap
<1>20. ASSUME NEW s \in Sessions, SignOut(s) PROVE Held'
  BY <1>20 DEF SignOut, Forget, EndWith, Without, Paused, InMap
<1>21. ASSUME NEW s \in Sessions, Expire(s) PROVE Held'
  BY <1>21 DEF Expire
<1>22. ASSUME NEW k \in Workers, NEW s \in Sessions, NEW gen \in 0 .. MaxGeneration,
             StartWorker(k, s, gen)
      PROVE  Held'
  BY <1>22 DEF StartWorker, Locked, MayStart, OthersFinished,
     Finished, Idle, InMap
<1>23. ASSUME NEW k \in Workers, StopWorker(k) PROVE Held'
  BY <1>23 DEF StopWorker, Paused
<1>24. ASSUME NEW k \in Workers, Return(k) PROVE Held'
  BY <1>24 DEF Return, Cancelled, Go, NoWork
<1>25. ASSUME NEW k \in Workers, Tick(k) PROVE Held'
  BY <1>25 DEF Tick
<1>26. ASSUME LookAtFile PROVE Held'
  BY <1>26 DEF LookAtFile
<1>27. ASSUME Look PROVE Held'
  BY <1>27 DEF Look, Stale, Without, Paused, EndWith, InMap
<1>28. ASSUME Publish PROVE Held'
  BY <1>28 DEF Publish, MayPublish
<1>29. ASSUME CloseBegin PROVE Held'
  BY <1>29 DEF CloseBegin, Paused, KeepsMutex
<1>30. ASSUME CloseEnd PROVE Held'
  BY <1>30 DEF CloseEnd, Finished, Forget, EndWith, Without,
     Paused, InMap
<1>31. CASE UNCHANGED vars
  BY <1>31 DEF vars
<1>32. QED
  BY <1>1, <1>2, <1>3, <1>4, <1>5, <1>6, <1>7, <1>8, <1>9, <1>10, <1>11,
     <1>12, <1>13, <1>14, <1>15, <1>16, <1>17, <1>18, <1>19, <1>20, <1>21,
     <1>22, <1>23, <1>24, <1>25, <1>26, <1>27, <1>28, <1>29, <1>30, <1>31 DEF
     Next, Step, Handle

\* The last call that fits leads to the outcome.
LEMMA CallingStep ==
    ASSUME TypeInv, Calling, [Next]_vars
    PROVE  Calling'
<1> USE DEF TypeInv, ActorType, JobType, Control, Steps, States, Actors,
     Workers, Calling, CallsLeft, shared, logins, slots, watching, ghosts
<1>1. ASSUME NEW x \in Actors, Ask(x) PROVE Calling'
  BY <1>1 DEF Ask, Go
<1>2. ASSUME NEW x \in Actors, Check(x) PROVE Calling'
  BY <1>2 DEF Check, Live, Locked, Go, Paused, Active, Owner, OwnRevision,
     InMap
<1>3. ASSUME NEW x \in Actors, Slot(x) PROVE Calling'
  BY <1>3 DEF Slot, TakeSlot, Go
<1>4. ASSUME NEW x \in Actors, ReadStore(x) PROVE Calling'
  BY <1>4 DEF ReadStore, Locked, Go, Paused, Active
<1>5. ASSUME NEW x \in Actors, Provider(x) PROVE Calling'
  BY <1>5 DEF Provider, Go
<1>6. ASSUME NEW x \in Actors, IssueAction(x) PROVE Calling'
  BY <1>6 DEF IssueAction, Go, Active
<1>7. ASSUME NEW x \in Actors, Lock(x) PROVE Calling'
  BY <1>7 DEF Lock, Go, Paused, CommitBy, Finished
<1>8. ASSUME NEW x \in Actors, Call(x) PROVE Calling'
  BY <1>8 DEF Call, AfterCall, Active
<1>9. ASSUME NEW x \in Actors, Finish(x) PROVE Calling'
  BY <1>9 DEF Finish, Go, Paused, CommitBy, Finished
<1>10. ASSUME NEW x \in Actors, Record(x) PROVE Calling'
  BY <1>10 DEF Record, Go, Active
<1>11. ASSUME NEW x \in Actors, Leave(x) PROVE Calling'
  BY <1>11, GateAssumption DEF Leave, Released, Idle
<1>12. ASSUME NEW r \in Requests, SignIn(r) PROVE Calling'
  BY <1>12, GateAssumption DEF SignIn, TakeSlot, Idle
<1>13. ASSUME NEW r \in Requests, SignInChecked(r) PROVE Calling'
  BY <1>13 DEF SignInChecked, Go
<1>14. ASSUME NEW r \in Requests, SignInFails(r) PROVE Calling'
  BY <1>14 DEF SignInFails, Go
<1>15. ASSUME NEW r \in Requests, ReplaceFile(r) PROVE Calling'
  BY <1>15 DEF ReplaceFile, Go
<1>16. ASSUME NEW r \in Requests, RevokeAll(r) PROVE Calling'
  BY <1>16 DEF RevokeAll, Go, Forget, EndWith, Without, Paused, InMap
<1>17. ASSUME NEW r \in Requests, NEW s \in Sessions, Issue(r, s) PROVE Calling'
  BY <1>17 DEF Issue, Go, Evicted, EndWith, Without, Paused, InMap, Kept
<1>18. ASSUME NEW r \in Requests, NEW s \in Sessions, ChangePassword(r, s) PROVE Calling'
  BY <1>18, GateAssumption DEF ChangePassword, TakeSlot, Idle
<1>19. ASSUME NEW r \in Requests, NEW s \in Sessions, BeginRequest(r, s) PROVE Calling'
  BY <1>19, GateAssumption DEF BeginRequest, Idle, Current, InMap
<1>20. ASSUME NEW s \in Sessions, SignOut(s) PROVE Calling'
  BY <1>20 DEF SignOut, Forget, EndWith, Without, Paused, InMap
<1>21. ASSUME NEW s \in Sessions, Expire(s) PROVE Calling'
  BY <1>21 DEF Expire
<1>22. ASSUME NEW k \in Workers, NEW s \in Sessions, NEW gen \in 0 .. MaxGeneration,
             StartWorker(k, s, gen)
      PROVE  Calling'
  BY <1>22, GateAssumption DEF StartWorker, Locked, MayStart, OthersFinished,
     Finished, Idle, InMap
<1>23. ASSUME NEW k \in Workers, StopWorker(k) PROVE Calling'
  BY <1>23 DEF StopWorker, Paused
<1>24. ASSUME NEW k \in Workers, Return(k) PROVE Calling'
  BY <1>24 DEF Return, Cancelled, Go, NoWork
<1>25. ASSUME NEW k \in Workers, Tick(k) PROVE Calling'
  BY <1>25 DEF Tick
<1>26. ASSUME LookAtFile PROVE Calling'
  BY <1>26 DEF LookAtFile
<1>27. ASSUME Look PROVE Calling'
  BY <1>27 DEF Look, Stale, Without, Paused, EndWith, InMap
<1>28. ASSUME Publish PROVE Calling'
  BY <1>28 DEF Publish, MayPublish
<1>29. ASSUME CloseBegin PROVE Calling'
  BY <1>29 DEF CloseBegin, Paused
<1>30. ASSUME CloseEnd PROVE Calling'
  BY <1>30 DEF CloseEnd, Finished, Forget, EndWith, Without,
     Paused, InMap
<1>31. CASE UNCHANGED vars
  BY <1>31 DEF vars
<1>32. QED
  BY <1>1, <1>2, <1>3, <1>4, <1>5, <1>6, <1>7, <1>8, <1>9, <1>10, <1>11,
     <1>12, <1>13, <1>14, <1>15, <1>16, <1>17, <1>18, <1>19, <1>20, <1>21,
     <1>22, <1>23, <1>24, <1>25, <1>26, <1>27, <1>28, <1>29, <1>30, <1>31 DEF
     Next, Step, Handle

\* A smaller map is no larger than it may be.
LEMMA FewerKept ==
    ASSUME Few, Kept' \subseteq Kept
    PROVE  Few'
<1>1. IsFiniteSet(Kept') /\ Cardinality(Kept') <= Cardinality(Kept)
    BY FS_Subset DEF Few
<1>2. Cardinality(Kept) \in Nat /\ Cardinality(Kept') \in Nat
    BY <1>1, FS_CardinalityType DEF Few
<1>3. QED
    BY <1>1, <1>2, GateAssumption DEF Few

\* A full map makes room before it takes another session.
LEMMA IssueFits ==
    ASSUME TypeInv, Few, NEW r \in Requests, NEW s \in Sessions, Issue(r, s)
    PROVE  Few'
<1>1. PICK out \in Evicted : sessions' = [Without(out) EXCEPT ![s] = at[r].seen]
    BY DEF Issue
<1> DEFINE Stay == Kept \ out
<1>2. Kept' \subseteq Stay \cup {s}
    BY <1>1 DEF Kept, InMap, Without
<1>3. Cardinality(Kept) \in Nat
    BY FS_CardinalityType DEF Few
<1>4. IsFiniteSet(Stay) /\ Cardinality(Stay) < MaxSessions /\ Cardinality(Stay) \in Nat
    <2>1. CASE Cardinality(Kept) < MaxSessions
        <3>1. Stay = Kept
            BY <1>1, <2>1 DEF Evicted
        <3>2. QED
            BY <2>1, <3>1, <1>3 DEF Few
    <2>2. CASE ~(Cardinality(Kept) < MaxSessions)
        <3>1. PICK o \in Kept : out = {o}
            BY <1>1, <2>2 DEF Evicted
        <3>2. IsFiniteSet(Kept \ {o}) /\ Cardinality(Kept \ {o}) = Cardinality(Kept) - 1
            BY FS_RemoveElement DEF Few
        <3>3. Cardinality(Stay) \in Nat
            BY <3>1, <3>2, FS_CardinalityType
        <3>4. QED
            BY <3>1, <3>2, <3>3, <1>3, GateAssumption DEF Few
    <2>3. QED
        BY <2>1, <2>2
<1>5. IsFiniteSet(Stay \cup {s}) /\ Cardinality(Stay \cup {s}) <= Cardinality(Stay) + 1
    <2>1. CASE s \in Stay
        <3>1. Stay \cup {s} = Stay
            BY <2>1
        <3>2. QED
            BY <3>1, <1>4
    <2>2. CASE s \notin Stay
        <3>1. IsFiniteSet(Stay \cup {s}) /\ Cardinality(Stay \cup {s}) = Cardinality(Stay) + 1
            BY <2>2, <1>4, FS_AddElement
        <3>2. QED
            BY <3>1, <1>4
    <2>3. QED
        BY <2>1, <2>2
<1>6. IsFiniteSet(Kept') /\ Cardinality(Kept') <= Cardinality(Stay \cup {s})
    BY <1>2, <1>5, FS_Subset
<1>7. Cardinality(Kept') \in Nat /\ Cardinality(Stay \cup {s}) \in Nat
    BY <1>5, <1>6, FS_CardinalityType
<1>8. QED
    <2> HIDE DEF Stay
    <2>1. Cardinality(Kept') <= MaxSessions
        BY <1>4, <1>5, <1>6, <1>7, GateAssumption
    <2>2. QED
        BY <2>1, <1>6 DEF Few

\* Only a sign-in adds a session to the map.
LEMMA FewStep ==
    ASSUME TypeInv, Few, [Next]_vars
    PROVE  Few'
<1> USE DEF TypeInv, shared, logins, slots, watching, ghosts
<1>1. ASSUME NEW s \in Sessions, NEW r \in Requests, Issue(r, s) PROVE Few'
    BY <1>1, IssueFits
<1>2. ASSUME sessions' = sessions PROVE Few'
    BY <1>2, FewerKept DEF Kept, InMap
<1>3. ASSUME NEW ss, sessions' = Without(ss) PROVE Few'
    <2>1. Kept' \subseteq Kept
        BY <1>3 DEF Kept, InMap, Without
    <2>2. QED
        BY <2>1, FewerKept
<1>4. ASSUME NEW x \in Actors, Step(x) PROVE Few'
    <2>1. sessions' = sessions
        BY <1>4 DEF Step, Ask, Check, Slot, ReadStore, Provider, IssueAction, Lock, Call, Finish,
           Record, Leave
    <2>2. QED
        BY <1>2, <2>1
<1>5. ASSUME NEW r \in Requests, SignIn(r) \/ Handle(r) PROVE Few'
    <2>1. CASE RevokeAll(r)
        BY <2>1, <1>3 DEF RevokeAll, Forget
    <2>2. CASE \E s \in Sessions : Issue(r, s)
        BY <2>2, <1>1
    <2>3. CASE SignIn(r) \/ SignInChecked(r) \/ SignInFails(r) \/ ReplaceFile(r)
        BY <2>3, <1>2 DEF SignIn, SignInChecked, SignInFails, ReplaceFile
    <2>4. QED
        BY <1>5, <2>1, <2>2, <2>3 DEF Handle
<1>6. ASSUME NEW s \in Sessions, SignOut(s) PROVE Few'
    BY <1>6, <1>3 DEF SignOut, Forget
<1>7. ASSUME Look PROVE Few'
    BY <1>7, <1>3 DEF Look
<1>8. ASSUME CloseEnd PROVE Few'
    BY <1>8, <1>3 DEF CloseEnd, Forget
<1>9. ASSUME NEW s \in Sessions, NEW r \in Requests, ChangePassword(r, s) \/ BeginRequest(r, s)
      PROVE  Few'
    BY <1>9, <1>2 DEF ChangePassword, BeginRequest
<1>10. ASSUME NEW k \in Workers, NEW s \in Sessions, NEW gen \in 0 .. MaxGeneration,
             StartWorker(k, s, gen)
       PROVE  Few'
    BY <1>10, <1>2 DEF StartWorker
<1>11. ASSUME NEW k \in Workers, StopWorker(k) \/ Return(k) \/ Tick(k) PROVE Few'
    BY <1>11, <1>2 DEF StopWorker, Return, Tick
<1>12. ASSUME NEW s \in Sessions, Expire(s) PROVE Few'
    BY <1>12, <1>2 DEF Expire
<1>13. ASSUME LookAtFile \/ Publish \/ CloseBegin PROVE Few'
    BY <1>13, <1>2 DEF LookAtFile, Publish, CloseBegin
<1>14. CASE UNCHANGED vars
    BY <1>14, <1>2 DEF vars
<1>15. QED
    BY <1>1, <1>4, <1>5, <1>6, <1>7, <1>8, <1>9, <1>10, <1>11, <1>12, <1>13, <1>14 DEF Next

\* The types hold in every state.
THEOREM GateTypes == Spec => []TypeInv
<1> QED
    BY InitInvariants, TypeStep, PTL DEF Spec

\* The server stays within its bounds: no more sessions than the map may hold,
\* no more calls than an operation makes, no revision or generation that the
\* files have not had; the writer lock is held during a call to the provider,
\* and the derivation slot from the sign-off of a step to the provider's slot.
THEOREM WithinBounds == Spec => []TypeOK
<1> DEFINE Inv == TypeInv /\ Shown /\ Apart /\ Bounded /\ Held /\ Calling /\ Few
<1>1. Init => Inv
    BY InitInvariants, InitBounds
<1>2. Inv /\ [Next]_vars => Inv'
    BY TypeStep, ShownStep, ApartStep, BoundedStep, HeldStep, CallingStep, FewStep
<1>3. Inv => TypeOK
    <2> SUFFICES ASSUME Inv PROVE TypeOK
        OBVIOUS
    <2>1. /\ revision \in 1 .. MaxRevision /\ generation \in 0 .. MaxGeneration
          /\ sessions \in [Sessions -> 0 .. revision] /\ looked \in 0 .. revision
        BY GateAssumption DEF TypeInv, Bounded
    <2>2. Cardinality({s \in Sessions : sessions[s] # 0}) <= MaxSessions
        <3>1. {s \in Sessions : sessions[s] # 0} = Kept
            BY DEF Kept, InMap
        <3>2. QED
            BY <3>1 DEF Few
    <2>3. \A x \in Actors : /\ at[x].pc \in Steps \cup {"sleep"}
                            /\ at[x].calls \in 0 .. MaxCalls
                            /\ at[x].pc \in {"call", "finish"} => writer = x
                            /\ at[x].pc = "issue" => derive = x
        BY GateAssumption DEF TypeInv, ActorType, Control, Calling, Apart, Holding, Held, Deriving
    <2>4. job \in [Workers -> [state : States, owner : Sessions \cup {Nobody},
                               rev : 0 .. revision, gen : 0 .. MaxGeneration]]
        BY GateAssumption DEF TypeInv, JobType, Bounded, Apart
    <2>5. QED
        BY <2>1, <2>2, <2>3, <2>4 DEF TypeOK, TypeInv, Held, Bounded
<1>4. QED
    BY <1>1, <1>2, <1>3, PTL DEF Spec

\* renewalJobMu serves both kinds of worker: in no state of the server are two
\* of them running, finishing or waiting.
THEOREM OneWorkerEver == Spec => []OneWorker
<1>1. Spec => []Alone
    BY InitInvariants, AloneStep, GateTypes, PTL DEF Spec
<1>2. Alone => OneWorker
    <2> SUFFICES ASSUME Alone PROVE OneWorker
        OBVIOUS
    <2> DEFINE Up == {k \in Workers : ~Finished(k)}
    <2>1. Up = {} \/ \E k \in Workers : Up = {k}
        BY DEF Alone, Finished, Workers
    <2>2. Cardinality(Up) \in {0, 1}
        BY <2>1, FS_EmptySet, FS_Singleton
    <2>3. QED
        BY <2>2 DEF OneWorker
<1>3. QED
    BY <1>1, <1>2, PTL

\* Close has joined every worker when it answers, and none starts afterwards.
THEOREM QuietOnceClosed == Spec => []ClosedQuiet
<1>1. Spec => []Alone
    BY InitInvariants, AloneStep, GateTypes, PTL DEF Spec
<1>2. Alone => ClosedQuiet
    BY DEF Alone, ClosedQuiet, Finished
<1>3. QED
    BY <1>1, <1>2, PTL

\* After a stop, or the end of its session, a worker makes at most the call
\* whose permit it already had: a permit comes before each exchange.
THEOREM StopsHold == Spec => []StopHolds
<1>1. Spec => []Stopped
    BY InitInvariants, StoppedStep, GateTypes, PTL DEF Spec
<1>2. Stopped => StopHolds
    BY DEF Stopped, StopHolds
<1>3. QED
    BY <1>1, <1>2, PTL

\* However a session ends, what the monitor read with it goes with it, a read
\* that was on its way at the time included.
THEOREM MonitorNeverLate == Spec => []MonitorNotLate
<1>1. Spec => []Shown
    BY InitInvariants, ShownStep, GateTypes, PTL DEF Spec
<1>2. Shown => MonitorNotLate
    BY DEF Shown, MonitorNotLate
<1>3. QED
    BY <1>1, <1>2, PTL

\* A worker counts an action and commits only on the store it knows: the
\* generation it carries from one action to the next excludes every change
\* that a request made in between.
THEOREM WorkersActAlone == Spec => WorksAlone
<1>1. Spec => []Apart
    BY InitInvariants, ApartStep, GateTypes, PTL DEF Spec
<1>2. ASSUME TypeInv, Apart, [Next]_vars
      PROVE  [\A k \in Workers : at[k].pc = "lock" /\ at'[k].pc = "ask" => ~foreign[k]]_vars
    BY <1>2, LockOnlyUnchanged DEF Apart, Unchanged, Expected, TypeInv, JobType
<1>3. QED
    BY <1>1, <1>2, GateTypes, PTL DEF Spec, WorksAlone

\* For any number of requests and sessions, the workers never overlap, and
\* none is left when Close has answered.
THEOREM WorkersAlwaysOrderly == Spec => []WorkersOrderly
<1>1. OneWorker /\ ClosedQuiet => WorkersOrderly
    BY DEF WorkersOrderly
<1>2. QED
    BY <1>1, OneWorkerEver, QuietOnceClosed, PTL

\* For any number of requests and sessions, neither a worker nor the monitor
\* goes on with a session that is gone.
THEOREM SessionsAlwaysRespected == Spec => []SessionsRespected
<1>1. StopHolds /\ MonitorNotLate => SessionsRespected
    BY DEF SessionsRespected
<1>2. QED
    BY <1>1, StopsHold, MonitorNeverLate, PTL
=============================================================================
