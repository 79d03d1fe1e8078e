---------------------------- MODULE ImageProofs -----------------------------
(***************************************************************************)
(* The inventory image, proved for any number of workers, commits, records *)
(* and certificates and any bounds.  Two parts: the file the image is kept *)
(* in (ImageFile) and the events and generations it has left (EventBudget).*)
(*                                                                         *)
(* The file is never torn, the answers to commits are true and stay true,  *)
(* and it implements ImageRegister.  The argument is the lock: only its    *)
(* holder is past "idle", so what it read is still the image when it       *)
(* renames, the commit it adds is not in any image before, and the         *)
(* directory sync that precedes the report makes durable the very image it *)
(* renamed.                                                                *)
(*                                                                         *)
(* In the image, whatever is owed fits.  The argument is a balance: what   *)
(* is committed leaves room for everything held back (an image is admitted *)
(* exactly when its successor is in balance), every answer and every       *)
(* further attempt lowers what is held back by at least the one event it   *)
(* takes, and the lifecycle of accounts, orders and issuances keeps two of *)
(* their answers from being owed at once.  What is held back is a sum over *)
(* the records, so the sums of the community modules come first.           *)
(***************************************************************************)
EXTENDS ImageFile, EventBudget, FiniteSetTheorems, WellFoundedInduction, TLAPS

-----------------------------------------------------------------------------
(* The file                                                                *)


\* Only the lock's holder is doing anything.
OneWriter == \A w \in Workers : worker[w].step /= "idle" => lock = w

\* Both names lead to whole images, and a power loss only goes back.
Whole ==
    /\ visible \in Images
    /\ entry \in Images
    /\ visible \in flushed
    /\ entry \in flushed
    /\ entry \subseteq visible

\* What a worker holds, step by step, against what is on disk.
InStep ==
    \A w \in Workers :
        /\ worker[w].step = "entered" => NextImage(w) = visible
        /\ worker[w].step \in {"built", "written"} =>
               /\ worker[w].image = visible
               /\ \E c \in Commits :
                      /\ worker[w].commit = {c}
                      /\ outcome[c] = "pending"
                      /\ c \notin visible
        /\ worker[w].step = "written" => NextImage(w) \in flushed
        /\ worker[w].step \in {"renamed", "synced"} =>
               /\ NextImage(w) = visible
               /\ \E c \in Commits :
                      worker[w].commit = {c} /\ outcome[c] = "pending"
        /\ worker[w].step = "synced" => entry = visible

\* What callers were told, against what is on disk.
Told ==
    \A c \in Commits :
        /\ outcome[c] = "reported" => c \in entry
        /\ outcome[c] \in {"unused", "refused"} => c \notin visible

IInv == TypeOK /\ OneWriter /\ Whole /\ InStep /\ Told

\* A worker's step returns the lock's other workers untouched and idle.
LEMMA Others ==
    ASSUME OneWriter, NEW w \in Workers, worker[w].step /= "idle"
    PROVE  \A v \in Workers \ {w} : worker[v].step = "idle"
BY DEF OneWriter

\* While the lock is free every worker is idle: Nobody is not a worker.
LEMMA FreeIdle ==
    ASSUME OneWriter, LockFree
    PROVE  \A v \in Workers : worker[v].step = "idle"
BY ImageAssumption DEF OneWriter, LockFree

\* The initial image is whole, durable, and nobody works on it.
LEMMA InitIInv == Init => IInv
<1> SUFFICES ASSUME Init PROVE IInv
    OBVIOUS
<1>1. TypeOK
    BY DEF Init, TypeOK, Images, Idle, WorkerStates, Steps, Outcomes
<1>2. OneWriter /\ InStep
    BY DEF Init, OneWriter, InStep, Idle
<1>3. Whole /\ Told
    BY DEF Init, Whole, Told, Images
<1> QED
    BY <1>1, <1>2, <1>3 DEF IInv

\* The types of what a worker holds.
LEMMA WorkerTypes ==
    ASSUME TypeOK, NEW w \in Workers
    PROVE  /\ worker[w] \in WorkerStates
           /\ worker[w].image \in Images
           /\ worker[w].commit \in SUBSET Commits
           /\ NextImage(w) \in Images
BY DEF TypeOK, WorkerStates, NextImage, Images

\* A read changes nothing but what its page shows.
LEMMA ReadStep ==
    ASSUME IInv, NEW w \in Workers, Read(w)
    PROVE  IInv'
<1>1. TypeOK'
    BY DEF IInv, TypeOK, Read, disk
<1> QED
    BY <1>1 DEF IInv, Read, disk, OneWriter, Whole, InStep, Told, NextImage

\* Entering: the holder's image is the visible one.
LEMMA EnterStep ==
    ASSUME IInv, NEW w \in Workers, Enter(w)
    PROVE  IInv'
<1>0. /\ TypeOK /\ OneWriter /\ Whole /\ InStep /\ Told
      /\ worker' = [worker EXCEPT ![w] = [step |-> "entered", image |-> visible,
                                          commit |-> {}]]
      /\ lock' = w
      /\ UNCHANGED <<visible, entry, flushed, shown, outcome>>
    BY DEF IInv, Enter, disk
<1>1. \A v \in Workers : worker[v].step = "idle"
    BY <1>0, FreeIdle DEF Enter
<1>2. worker'[w] = [step |-> "entered", image |-> visible, commit |-> {}]
      /\ \A v \in Workers \ {w} : worker'[v] = worker[v]
    BY <1>0 DEF TypeOK
<1>3. TypeOK'
    BY <1>0 DEF TypeOK, Whole, WorkerStates, Steps
<1>4. OneWriter'
    BY <1>0, <1>1, <1>2 DEF OneWriter
<1>5. Whole' /\ Told'
    BY <1>0 DEF Whole, Told
<1>6. InStep'
    BY <1>0, <1>1, <1>2 DEF InStep, NextImage
<1> QED
    BY <1>3, <1>4, <1>5, <1>6 DEF IInv

\* Building: an unused commit is in no image, so the next image is a new one.
LEMMA BuildStep ==
    ASSUME IInv, NEW w \in Workers, NEW c \in Commits, Build(w, c)
    PROVE  IInv'
<1>0. /\ TypeOK /\ OneWriter /\ Whole /\ InStep /\ Told
      /\ worker[w].step = "entered"
      /\ outcome[c] = "unused"
      /\ outcome' = [outcome EXCEPT ![c] = "pending"]
      /\ worker' = [worker EXCEPT ![w] = [step |-> "built", image |-> NextImage(w),
                                          commit |-> {c}]]
      /\ UNCHANGED <<visible, entry, flushed, lock, shown>>
    BY DEF IInv, Build, disk
<1>1. \A v \in Workers \ {w} : worker[v].step = "idle"
    BY <1>0, Others
<1>2. worker'[w] = [step |-> "built", image |-> NextImage(w), commit |-> {c}]
      /\ \A v \in Workers \ {w} : worker'[v] = worker[v]
    BY <1>0 DEF TypeOK
<1>3. NextImage(w) = visible /\ c \notin visible
    BY <1>0 DEF InStep, Told
<1>4. outcome'[c] = "pending" /\ \A d \in Commits \ {c} : outcome'[d] = outcome[d]
    BY <1>0 DEF TypeOK
<1>5. TypeOK'
    BY <1>0, WorkerTypes DEF TypeOK, WorkerStates, Steps, Outcomes
<1>6. OneWriter' /\ Whole'
    BY <1>0, <1>1, <1>2 DEF OneWriter, Whole
<1>7. Told'
    BY <1>0, <1>4 DEF Told
<1>8. InStep'
    BY <1>0, <1>1, <1>2, <1>3, <1>4 DEF InStep
<1> QED
    BY <1>5, <1>6, <1>7, <1>8 DEF IInv

\* A step of the lock's holder that only moves it on leaves the others idle.
LEMMA Advances ==
    ASSUME TypeOK, OneWriter, NEW w \in Workers, worker[w].step /= "idle",
           NEW s \in Steps, Advance(w, s), UNCHANGED lock
    PROVE  /\ worker'[w].step = s
           /\ worker'[w].image = worker[w].image
           /\ worker'[w].commit = worker[w].commit
           /\ NextImage(w)' = NextImage(w)
           /\ worker' \in [Workers -> WorkerStates]
           /\ \A v \in Workers \ {w} : worker'[v] = worker[v] /\ worker'[v].step = "idle"
           /\ OneWriter'
<1>1. worker' = [worker EXCEPT ![w].step = s] /\ worker \in [Workers -> WorkerStates]
    BY DEF Advance, TypeOK
<1>2. \A v \in Workers \ {w} : worker[v].step = "idle"
    BY Others
<1> QED
    BY <1>1, <1>2 DEF OneWriter, NextImage, WorkerStates

\* Unlocking: nobody works on the image any more.
LEMMA Unlocks ==
    ASSUME TypeOK, OneWriter, NEW w \in Workers, worker[w].step /= "idle", Unlock(w)
    PROVE  /\ \A v \in Workers : worker'[v].step = "idle"
           /\ worker' \in [Workers -> WorkerStates]
           /\ lock' = Nobody
           /\ OneWriter'
           /\ InStep'
<1>1. worker' = [worker EXCEPT ![w] = Idle] /\ lock' = Nobody
    BY DEF Unlock
<1>2. worker' \in [Workers -> WorkerStates]
    BY <1>1 DEF TypeOK, WorkerStates, Idle, Images, Steps
<1>3. \A v \in Workers : worker'[v].step = "idle"
    BY <1>1, Others DEF TypeOK, Idle
<1> QED
    BY <1>1, <1>2, <1>3 DEF OneWriter, InStep

\* The answer to w's commit changes the outcome of that commit alone.
LEMMA AnswerTypes ==
    ASSUME TypeOK, NEW w \in Workers, NEW a \in Outcomes
    PROVE  Answered(w, a) \in [Commits -> Outcomes]
BY DEF TypeOK, Answered

\* Writing: the next image is flushed before it gets the name.
LEMMA WriteFileStep ==
    ASSUME IInv, NEW w \in Workers, WriteFile(w)
    PROVE  IInv'
<1>0. /\ TypeOK /\ OneWriter /\ Whole /\ InStep /\ Told
      /\ worker[w].step = "built"
      /\ flushed' = flushed \cup {NextImage(w)}
      /\ Advance(w, "written")
      /\ UNCHANGED <<visible, entry, lock, shown, outcome>>
    BY DEF IInv, WriteFile, SyncFile
<1>1. "written" \in Steps
    BY DEF Steps
<1>2. /\ worker'[w].step = "written"
      /\ worker'[w].image = worker[w].image
      /\ worker'[w].commit = worker[w].commit
      /\ NextImage(w)' = NextImage(w)
      /\ worker' \in [Workers -> WorkerStates]
      /\ \A v \in Workers \ {w} : worker'[v].step = "idle"
      /\ OneWriter'
    BY <1>0, <1>1, Advances
<1>3. TypeOK'
    BY <1>0, <1>2, WorkerTypes DEF TypeOK
<1>4. Whole' /\ Told'
    BY <1>0 DEF Whole, Told
<1>5. InStep'
    BY <1>0, <1>2 DEF InStep
<1> QED
    BY <1>2, <1>3, <1>4, <1>5 DEF IInv

\* Refusing: the commit was in no image, and it is not put into one.
LEMMA RefuseStep ==
    ASSUME IInv, NEW w \in Workers, Refuse(w)
    PROVE  IInv'
<1>0. /\ TypeOK /\ OneWriter /\ Whole /\ InStep /\ Told
      /\ worker[w].step \in {"built", "written"}
      /\ outcome' = Answered(w, "refused")
      /\ Unlock(w)
      /\ UNCHANGED <<visible, entry, flushed, shown>>
    BY DEF IInv, Refuse, disk
<1>1. worker' \in [Workers -> WorkerStates] /\ lock' = Nobody /\ OneWriter' /\ InStep'
    BY <1>0, Unlocks
<1>2. TypeOK'
    BY <1>0, <1>1, AnswerTypes DEF TypeOK, Outcomes
<1>3. \A c \in worker[w].commit : c \notin visible
    BY <1>0 DEF InStep
<1>4. Told'
    BY <1>0, <1>3 DEF Told, Answered
<1>5. Whole'
    BY <1>0 DEF Whole
<1> QED
    BY <1>1, <1>2, <1>4, <1>5 DEF IInv

\* Renaming: the visible image gains the holder's commit and loses none.
LEMMA RenameStep ==
    ASSUME IInv, NEW w \in Workers, Rename(w)
    PROVE  /\ IInv'
           /\ \E c \in Commits \ visible : visible' = visible \cup {c}
<1>0. /\ TypeOK /\ OneWriter /\ Whole /\ InStep /\ Told
      /\ worker[w].step = "written"
      /\ visible' = NextImage(w)
      /\ Advance(w, "renamed")
      /\ UNCHANGED <<entry, flushed, lock, shown, outcome>>
    BY DEF IInv, Rename
<1>1. "renamed" \in Steps
    BY DEF Steps
<1>2. /\ worker'[w].step = "renamed"
      /\ worker'[w].image = worker[w].image
      /\ worker'[w].commit = worker[w].commit
      /\ NextImage(w)' = NextImage(w)
      /\ worker' \in [Workers -> WorkerStates]
      /\ \A v \in Workers \ {w} : worker'[v].step = "idle"
      /\ OneWriter'
    BY <1>0, <1>1, Advances
<1>3. PICK c \in Commits : /\ worker[w].commit = {c}
                           /\ outcome[c] = "pending"
                           /\ c \notin visible
    BY <1>0 DEF InStep
<1>4. visible' = visible \cup {c} /\ visible' \in flushed
    BY <1>0, <1>3 DEF InStep, NextImage
<1>5. TypeOK'
    BY <1>0, <1>2, WorkerTypes DEF TypeOK
<1>6. Whole'
    BY <1>0, <1>4 DEF Whole, Images
<1>7. Told'
    BY <1>0, <1>3, <1>4 DEF Told
<1>8. InStep'
    BY <1>0, <1>2, <1>3 DEF InStep
<1> QED
    BY <1>2, <1>3, <1>4, <1>5, <1>6, <1>7, <1>8 DEF IInv

\* Syncing the directory: what a power loss leaves is the renamed image.
LEMMA SyncRenameStep ==
    ASSUME IInv, NEW w \in Workers, SyncRename(w)
    PROVE  IInv'
<1>0. /\ TypeOK /\ OneWriter /\ Whole /\ InStep /\ Told
      /\ worker[w].step = "renamed"
      /\ entry' = visible
      /\ Advance(w, "synced")
      /\ UNCHANGED <<visible, flushed, lock, shown, outcome>>
    BY DEF IInv, SyncRename, SyncDirectory
<1>1. "synced" \in Steps
    BY DEF Steps
<1>2. /\ worker'[w].step = "synced"
      /\ worker'[w].commit = worker[w].commit
      /\ NextImage(w)' = NextImage(w)
      /\ worker' \in [Workers -> WorkerStates]
      /\ \A v \in Workers \ {w} : worker'[v].step = "idle"
      /\ OneWriter'
    BY <1>0, <1>1, Advances
<1>3. TypeOK'
    BY <1>0, <1>2 DEF TypeOK
<1>4. Whole' /\ Told'
    BY <1>0 DEF Whole, Told
<1>5. InStep'
    BY <1>0, <1>2 DEF InStep
<1> QED
    BY <1>2, <1>3, <1>4, <1>5 DEF IInv

\* Reporting: the renamed image is on disk, and the holder goes on from it.
LEMMA ReadBackStep ==
    ASSUME IInv, NEW w \in Workers, ReadBack(w)
    PROVE  /\ IInv'
           /\ \E c \in entry : Reported' = Reported \cup {c}
<1>0. /\ TypeOK /\ OneWriter /\ Whole /\ InStep /\ Told
      /\ worker[w].step = "synced"
      /\ outcome' = Answered(w, "reported")
      /\ Advance(w, "entered")
      /\ UNCHANGED <<visible, entry, flushed, lock, shown>>
    BY DEF IInv, ReadBack, disk
<1>1. "entered" \in Steps
    BY DEF Steps
<1>2. /\ worker'[w].step = "entered"
      /\ NextImage(w)' = NextImage(w)
      /\ worker' \in [Workers -> WorkerStates]
      /\ \A v \in Workers \ {w} : worker'[v].step = "idle"
      /\ OneWriter'
    BY <1>0, <1>1, Advances
<1>3. PICK c \in Commits : worker[w].commit = {c} /\ outcome[c] = "pending"
    BY <1>0 DEF InStep
<1>4. NextImage(w) = visible /\ entry = visible /\ c \in entry
    BY <1>0, <1>3 DEF InStep, NextImage
<1>5. outcome' = [d \in Commits |-> IF d = c THEN "reported" ELSE outcome[d]]
    BY <1>0, <1>3 DEF Answered
<1>6. TypeOK'
    BY <1>0, <1>2, AnswerTypes DEF TypeOK, Outcomes
<1>7. Whole'
    BY <1>0 DEF Whole
<1>8. Told'
    BY <1>0, <1>4, <1>5 DEF Told
<1>9. InStep'
    BY <1>0, <1>2, <1>4 DEF InStep
<1>10. Reported' = Reported \cup {c}
    BY <1>3, <1>5 DEF Reported
<1> QED
    BY <1>2, <1>4, <1>6, <1>7, <1>8, <1>9, <1>10 DEF IInv

\* Ending without a claim: a commit left uncertain promises nothing.
LEMMA EndStep ==
    ASSUME IInv, NEW w \in Workers, FailAfterRename(w) \/ Leave(w) \/ Kill(w)
    PROVE  /\ IInv'
           /\ UNCHANGED <<visible, entry, Reported>>
<1>0. /\ TypeOK /\ OneWriter /\ Whole /\ InStep /\ Told
      /\ worker[w].step /= "idle"
      /\ Unlock(w)
      /\ UNCHANGED <<visible, entry, flushed>>
    BY DEF IInv, FailAfterRename, Leave, Kill, disk
<1>1. worker' \in [Workers -> WorkerStates] /\ lock' = Nobody /\ OneWriter' /\ InStep'
    BY <1>0, Unlocks
<1>2. \A c \in Commits : /\ outcome'[c] \in {outcome[c], "uncertain"}
                         /\ outcome[c] = "reported" => outcome'[c] = "reported"
    <2>1. CASE FailAfterRename(w)
        <3>1. outcome' = Answered(w, "uncertain")
              /\ worker[w].step \in {"renamed", "synced"}
            BY <2>1 DEF FailAfterRename, AfterRename
        <3>2. \A c \in worker[w].commit : outcome[c] = "pending"
            BY <1>0, <3>1 DEF InStep
        <3> QED
            BY <3>1, <3>2 DEF Answered
    <2>2. CASE Leave(w)
        BY <2>2 DEF Leave, disk
    <2>3. CASE Kill(w)
        BY <2>3 DEF Kill, Lost
    <2> QED
        BY <2>1, <2>2, <2>3
<1>3. outcome' \in [Commits -> Outcomes]
    BY <1>0, AnswerTypes DEF FailAfterRename, AfterRename, Leave, Kill, Lost, TypeOK,
                             Outcomes, disk
<1>4. shown' \in [Workers -> Images]
    BY <1>0, WorkerTypes DEF FailAfterRename, Leave, Kill, TypeOK
<1>5. TypeOK' /\ Whole'
    BY <1>0, <1>1, <1>3, <1>4 DEF TypeOK, Whole
<1>6. Told' /\ Reported' = Reported
    BY <1>0, <1>2 DEF Told, Reported
<1> QED
    BY <1>0, <1>1, <1>5, <1>6 DEF IInv

\* The directory reaches the disk: no worker is affected.
LEMMA WriteBackStep ==
    ASSUME IInv, WriteBack
    PROVE  IInv'
BY DEF IInv, WriteBack, TypeOK, OneWriter, Whole, InStep, Told, NextImage

\* Power is lost: the entry is a flushed image, and so a whole one.
LEMMA LosePowerStep ==
    ASSUME IInv, LosePower
    PROVE  /\ IInv'
           /\ visible' = entry
           /\ UNCHANGED <<entry, Reported>>
<1>0. /\ TypeOK /\ OneWriter /\ Whole /\ InStep /\ Told
      /\ visible' = entry
      /\ entry' = entry
      /\ lock' = Nobody
      /\ worker' = [w \in Workers |-> Idle]
      /\ outcome' = [c \in Commits |-> IF outcome[c] = "pending" THEN "uncertain"
                                       ELSE outcome[c]]
      /\ UNCHANGED <<flushed, shown>>
    BY DEF IInv, LosePower, Whole
<1>1. TypeOK'
    BY <1>0 DEF TypeOK, Idle, WorkerStates, Steps, Outcomes, Images
<1>2. OneWriter' /\ InStep'
    BY <1>0 DEF OneWriter, InStep, Idle
<1>3. Whole' /\ Told'
    BY <1>0 DEF Whole, Told
<1>4. Reported' = Reported
    BY <1>0 DEF Reported
<1> QED
    BY <1>0, <1>1, <1>2, <1>3, <1>4 DEF IInv

\* Every step of the file keeps the invariant.
LEMMA NextIInv == IInv /\ [Next]_vars => IInv'
<1> SUFFICES ASSUME IInv, [Next]_vars PROVE IInv'
    OBVIOUS
<1>1. CASE UNCHANGED vars
    BY <1>1 DEF vars, disk, IInv, TypeOK, OneWriter, Whole, InStep, Told, NextImage
<1>2. ASSUME NEW w \in Workers, Read(w) \/ Enter(w) \/ Leave(w)
      PROVE  IInv'
    BY <1>2, ReadStep, EnterStep, EndStep
<1>3. ASSUME NEW w \in Workers, NEW c \in Commits, Build(w, c)
      PROVE  IInv'
    BY <1>3, BuildStep
<1>4. ASSUME NEW w \in Workers, WriteFile(w) \/ Refuse(w)
      PROVE  IInv'
    BY <1>4, WriteFileStep, RefuseStep
<1>5. ASSUME NEW w \in Workers, Rename(w) \/ SyncRename(w)
      PROVE  IInv'
    BY <1>5, RenameStep, SyncRenameStep
<1>6. ASSUME NEW w \in Workers, FailAfterRename(w) \/ ReadBack(w) \/ Kill(w)
      PROVE  IInv'
    BY <1>6, EndStep, ReadBackStep
<1>7. CASE WriteBack
    BY <1>7, WriteBackStep
<1>8. CASE LosePower
    BY <1>8, LosePowerStep
<1> QED
    BY <1>1, <1>2, <1>3, <1>4, <1>5, <1>6, <1>7, <1>8 DEF Next

\* The file's invariant: the lock, the disk, its holder and the answers agree.
THEOREM FileInvariant == Spec => []IInv
<1> QED
    BY InitIInv, NextIInv, PTL DEF Spec

\* Every variable of the file keeps its type.
THEOREM FileTypes == Spec => []TypeOK
<1>1. IInv => TypeOK
    BY DEF IInv
<1> QED
    BY <1>1, FileInvariant, PTL

\* The inventory file is a whole image at every moment, for any number of
\* workers and commits, kills and power losses included.
THEOREM FileNeverTorn == Spec => []NeverTorn
<1>1. IInv => NeverTorn
    BY ImageAssumption DEF IInv, Whole, NeverTorn, Torn, Images
<1> QED
    BY <1>1, FileInvariant, PTL

\* A commit reported as saved is in the image and survives a power loss, and
\* a refused one is in neither, from then on for ever.
THEOREM AnswersStayTrue == Spec => []AnswersHonest
<1>1. IInv => AnswersHonest
    BY DEF IInv, Whole, Told, AnswersHonest, Reported, Refused
<1> QED
    BY <1>1, FileInvariant, PTL

\* At every moment, kills and power losses included, the file is whole and what
\* was answered of it is true: FileHonest, the invariant the run checks.
THEOREM FileAlwaysHonest == Spec => []FileHonest
<1>1. NeverTorn /\ AnswersHonest => FileHonest
    BY DEF FileHonest
<1> QED
    BY <1>1, FileNeverTorn, AnswersStayTrue, PTL

\* Initially nothing is committed, settled or promised.
LEMMA InitRegister == Init => Register!Init
BY DEF Init, Register!Init, Reported

\* Every step of the file is a step of the register, or leaves it alone.
LEMMA NextRegister ==
    IInv /\ [Next]_vars => [Register!Next]_<<visible, entry, Reported>>
<1> SUFFICES ASSUME IInv, [Next]_vars
             PROVE  Register!Next \/ UNCHANGED <<visible, entry, Reported>>
    OBVIOUS
<1> USE DEF Register!Next
<1>0. ASSUME NEW w \in Workers, OneWriter, InStep, TypeOK,
             UNCHANGED <<visible, entry>>, outcome' = Answered(w, "refused"),
             worker[w].step \in {"built", "written"}
      PROVE  Reported' = Reported
    <2>1. \A c \in worker[w].commit : outcome[c] = "pending"
        BY <1>0 DEF InStep
    <2> QED
        BY <1>0, <2>1 DEF Reported, Answered
<1>1. CASE UNCHANGED vars
    BY <1>1 DEF vars, disk, Reported
<1>2. ASSUME NEW w \in Workers, Read(w) \/ Enter(w) \/ WriteFile(w)
      PROVE  UNCHANGED <<visible, entry, Reported>>
    BY <1>2 DEF Read, Enter, WriteFile, disk, Reported
<1>3. ASSUME NEW w \in Workers, NEW c \in Commits, Build(w, c)
      PROVE  UNCHANGED <<visible, entry, Reported>>
    BY <1>3 DEF Build, disk, Reported, IInv, TypeOK
<1>4. ASSUME NEW w \in Workers, Refuse(w)
      PROVE  UNCHANGED <<visible, entry, Reported>>
    BY <1>4, <1>0 DEF Refuse, disk, IInv
<1>5. ASSUME NEW w \in Workers, Rename(w)
      PROVE  Register!Commit
    <2>1. \E c \in Commits \ visible : visible' = visible \cup {c}
        BY <1>5, RenameStep
    <2>2. UNCHANGED <<entry, Reported>>
        BY <1>5 DEF Rename, Reported
    <2> QED
        BY <2>1, <2>2 DEF Register!Commit
<1>6. ASSUME NEW w \in Workers, SyncRename(w)
      PROVE  Register!Settle
    BY <1>6 DEF SyncRename, SyncDirectory, Reported, Register!Settle
<1>7. ASSUME NEW w \in Workers, ReadBack(w)
      PROVE  Register!Promise
    <2>1. \E c \in entry : Reported' = Reported \cup {c}
        BY <1>7, ReadBackStep
    <2>2. UNCHANGED <<visible, entry>>
        BY <1>7 DEF ReadBack, disk
    <2> QED
        BY <2>1, <2>2 DEF Register!Promise
<1>8. ASSUME NEW w \in Workers, FailAfterRename(w) \/ Leave(w) \/ Kill(w)
      PROVE  UNCHANGED <<visible, entry, Reported>>
    BY <1>8, EndStep
<1>9. CASE WriteBack
    BY <1>9 DEF WriteBack, Reported, Register!Settle
<1>10. CASE LosePower
    BY <1>10, LosePowerStep DEF Register!Lose
<1> QED
    BY <1>1, <1>2, <1>3, <1>4, <1>5, <1>6, <1>7, <1>8, <1>9, <1>10 DEF Next

\* The locked, synced and renamed file implements the register that every
\* operation on the inventory takes it to be.
THEOREM FileIsRegister == Spec => ImplementsRegister
<1>1. Spec => Register!Init
    BY InitRegister DEF Spec
<1> QED
    BY <1>1, FileInvariant, NextRegister, PTL DEF Spec, ImplementsRegister, Register!Spec

\* Renames follow one another: none drops a commit that another one made.
THEOREM RenamesBuildOnEachOther == Spec => NothingOverwritten
<1>1. ASSUME IInv, [Next]_vars, NEW w \in Workers, Renaming(w)
      PROVE  visible \subseteq visible'
    <2>1. ~LosePower
        BY <1>1 DEF Renaming, LosePower, Idle
    <2>2. ASSUME NEW v \in Workers, Rename(v) PROVE visible \subseteq visible'
        BY <1>1, <2>2, RenameStep
    <2> QED
        BY <1>1, <2>1, <2>2 DEF Next, vars, disk, Read, Enter, Leave, Build, WriteFile,
            Refuse, SyncRename, FailAfterRename, ReadBack, Kill, WriteBack
<1>2. IInv /\ [Next]_vars => [\A w \in Workers : Renaming(w) => visible \subseteq visible']_vars
    BY <1>1
<1> QED
    BY <1>2, FileInvariant, PTL DEF Spec, NothingOverwritten

-----------------------------------------------------------------------------
(* Sums over a finite set                                                  *)

\* A member of a set, the one the folds take first.
Picked(s) == CHOOSE x \in s : TRUE

\* g adds up fun over every set of its indices, one index after another.
Totals(g, fun) ==
    g = [s \in SUBSET DOMAIN fun |->
            IF s = {} THEN 0 ELSE fun[Picked(s)] + g[s \ {Picked(s)}]]

LEMMA SumDefinition ==
    ASSUME NEW fun
    PROVE  SumFunction(fun) = (CHOOSE g : Totals(g, fun))[DOMAIN fun]
BY DEF SumFunction, SumFunctionOnSet, FoldFunctionOnSet, MapThenFoldSet,
       Totals, Picked

\* What holds of the empty set, and of a set when it holds of the set less
\* any one element, holds of every finite set.
LEMMA SmallerSets ==
    ASSUME NEW D, IsFiniteSet(D), NEW P \in SUBSET (SUBSET D), {} \in P,
           \A s \in SUBSET D : s # {} /\ (\A x \in s : s \ {x} \in P) => s \in P
    PROVE  P = SUBSET D
<1> DEFINE T == (SUBSET D) \ P
<1>1. SUFFICES ASSUME T # {} PROVE FALSE
    OBVIOUS
<1>2. T \subseteq FiniteSubsetsOf(D)
    BY FS_FiniteSubsetsOfFinite
<1>3. PICK s \in T : \A t \in T : ~ (<<t, s>> \in StrictSubsetOrdering(D))
    <2> HIDE DEF T
    <2> QED BY <1>1, <1>2, FS_StrictSubsetOrderingWellFounded, WFMin
<1>4. ASSUME NEW x \in s PROVE s \ {x} \in P
    <2>1. /\ s \in SUBSET D /\ s \ {x} \in SUBSET D
          /\ s \ {x} \subseteq s /\ s \ {x} # s
        OBVIOUS
    <2>2. <<s \ {x}, s>> \in StrictSubsetOrdering(D)
        BY <2>1 DEF StrictSubsetOrdering
    <2> QED
        BY <1>3, <2>1, <2>2
<1>5. QED
    BY <1>3, <1>4

\* The same of the natural numbers.
LEMMA Counting ==
    ASSUME NEW P \in SUBSET Nat, 0 \in P, \A n \in P : n + 1 \in P
    PROVE  P = Nat
<1> DEFINE T == Nat \ P
<1>1. SUFFICES ASSUME T # {} PROVE FALSE
    OBVIOUS
<1>2. PICK n \in T : \A k \in T : ~ (<<k, n>> \in OpToRel(<, Nat))
    <2>1. T \subseteq Nat
        OBVIOUS
    <2> HIDE DEF T
    <2> QED BY <1>1, <2>1, NatLessThanWellFounded, WFMin
<1>3. \A k \in T : ~ (k < n)
    BY <1>2 DEF OpToRel
<1>4. n # 0 /\ n - 1 \in Nat /\ n - 1 < n /\ n = (n - 1) + 1
    OBVIOUS
<1>5. n - 1 \in P
    BY <1>3, <1>4
<1>6. QED
    BY <1>4, <1>5

\* The recursion of a fold ends: the sums exist, and they are numbers.
LEMMA TotalsExist ==
    ASSUME NEW D, IsFiniteSet(D), NEW fun \in [D -> Nat]
    PROVE  \E g \in [SUBSET D -> Nat] : Totals(g, fun)
<1> DEFINE Low(n) == {s \in SUBSET D : Cardinality(s) <= n}
           Step(g, s) == IF s = {} THEN 0 ELSE fun[Picked(s)] + g[s \ {Picked(s)}]
           Built == {n \in Nat : \E g \in [Low(n) -> Nat] :
                                     \A s \in Low(n) : g[s] = Step(g, s)}
<1>1. \A s \in SUBSET D : IsFiniteSet(s) /\ Cardinality(s) \in Nat
    BY FS_Subset, FS_CardinalityType
<1>2. 0 \in Built
    <2>1. \A s \in Low(0) : s = {}
        BY <1>1, FS_EmptySet
    <2>2. [s \in Low(0) |-> 0] \in [Low(0) -> Nat]
        OBVIOUS
    <2> QED
        BY <2>1, <2>2
<1>3. \A s \in SUBSET D : s # {} => /\ Picked(s) \in s
                                    /\ s \ {Picked(s)} \in SUBSET D
                                    /\ Cardinality(s \ {Picked(s)}) = Cardinality(s) - 1
    BY <1>1, FS_RemoveElement DEF Picked
<1>4. ASSUME NEW n \in Built PROVE n + 1 \in Built
    <2>1. PICK g \in [Low(n) -> Nat] : \A s \in Low(n) : g[s] = Step(g, s)
        OBVIOUS
    <2> DEFINE h == [s \in Low(n + 1) |-> Step(g, s)]
    <2>2. \A s \in Low(n + 1) : s # {} => s \ {Picked(s)} \in Low(n)
        BY <1>1, <1>3
    <2>3. \A s \in Low(n + 1) : Step(g, s) \in Nat
        BY <1>3, <2>2
    <2>4. h \in [Low(n + 1) -> Nat]
        BY <2>3
    <2>5. \A s \in Low(n) : s \in Low(n + 1) /\ h[s] = g[s]
        BY <1>1, <2>1
    <2>6. \A s \in Low(n + 1) : h[s] = Step(h, s)
        BY <2>2, <2>5
    <2>7. \E f \in [Low(n + 1) -> Nat] : \A s \in Low(n + 1) : f[s] = Step(f, s)
        <3> HIDE DEF h, Step, Low
        <3> QED BY <2>4, <2>6
    <2>8. n + 1 \in Nat
        OBVIOUS
    <2> HIDE DEF h, Step, Low
    <2> QED
        BY <2>7, <2>8
<1>5. Built = Nat
    <2> HIDE DEF Built
    <2>1. Built \subseteq Nat
        BY DEF Built
    <2> QED
        BY <1>2, <1>4, <2>1, Counting
<1>6. Low(Cardinality(D)) = SUBSET D
    BY FS_Subset
<1>7. PICK g \in [SUBSET D -> Nat] : \A s \in SUBSET D : g[s] = Step(g, s)
    <2>1. Cardinality(D) \in Built
        BY <1>5, FS_CardinalityType
    <2> HIDE DEF Low, Step
    <2> QED
        BY <2>1, <1>6
<1>8. Totals(g, fun)
    BY <1>7 DEF Totals
<1> QED
    BY <1>8

\* g holds the sum of fun over every set of indices, whatever element is
\* taken out first.
SumsOf(g, fun, D) ==
    /\ g \in [SUBSET D -> Nat]
    /\ g[{}] = 0
    /\ \A s \in SUBSET D : \A x \in s : g[s] = fun[x] + g[s \ {x}]

\* The sums do not depend on the order in which the elements are picked
LEMMA SumFacts ==
    ASSUME NEW D, IsFiniteSet(D), NEW fun \in [D -> Nat]
    PROVE  \E g : SumsOf(g, fun, D) /\ SumFunction(fun) = g[D]
<1> DEFINE g == CHOOSE g : Totals(g, fun)
<1>1. SumFunction(fun) = g[D]
    BY SumDefinition
<1>2. Totals(g, fun)
    BY TotalsExist
<1>3. DOMAIN g = SUBSET D
   BY <1>2 DEF Totals
<1>4. \A s \in SUBSET D :
          g[s] = IF s = {} THEN 0 ELSE fun[Picked(s)] + g[s \ {Picked(s)}]
    <2> HIDE DEF g
    <2> QED BY <1>2 DEF Totals
<1>5. \A s \in SUBSET D : s # {} => Picked(s) \in s
    BY DEF Picked
<1> HIDE DEF g
<1>6. g[{}] = 0
    BY <1>4
<1>7. \A s \in SUBSET D : g[s] \in Nat
    <2> DEFINE P == {s \in SUBSET D : g[s] \in Nat}
    <2>1. {} \in P
        BY <1>6
    <2>2. ASSUME NEW s \in SUBSET D, s # {}, \A x \in s : s \ {x} \in P
          PROVE  s \in P
        <3>1. Picked(s) \in D /\ g[s \ {Picked(s)}] \in Nat
            BY <1>5, <2>2
        <3> QED BY <1>4, <2>2, <3>1
    <2>3. P = SUBSET D
        <3> HIDE DEF P
        <3>1. P \in SUBSET (SUBSET D)
            BY DEF P
        <3> QED BY <2>1, <2>2, <3>1, SmallerSets
    <2> QED BY <2>3
<1>8. g \in [SUBSET D -> Nat]
    BY <1>2, <1>7 DEF Totals
<1>9. \A s \in SUBSET D : \A x \in s : g[s] = fun[x] + g[s \ {x}]
    <2> DEFINE P == {s \in SUBSET D : \A x \in s : g[s] = fun[x] + g[s \ {x}]}
    <2>1. {} \in P
        OBVIOUS
    <2>2. ASSUME NEW s \in SUBSET D, s # {}, \A x \in s : s \ {x} \in P
          PROVE  s \in P
        <3> DEFINE y == Picked(s)
        <3>1. y \in s /\ g[s] = fun[y] + g[s \ {y}]
            BY <1>4, <1>5, <2>2
        <3> HIDE DEF y
        <3>2. ASSUME NEW x \in s, x # y
              PROVE  g[s] = fun[x] + g[s \ {x}]
            <4>1. g[s \ {y}] = fun[x] + g[(s \ {y}) \ {x}]
                BY <2>2, <3>1, <3>2
            <4>2. g[s \ {x}] = fun[y] + g[(s \ {x}) \ {y}]
                BY <2>2, <3>1, <3>2
            <4>3. (s \ {y}) \ {x} = (s \ {x}) \ {y}
                OBVIOUS
            <4>4. /\ fun[x] \in Nat /\ fun[y] \in Nat
                  /\ g[(s \ {x}) \ {y}] \in Nat
                BY <1>7, <3>1
            <4> QED BY <3>1, <4>1, <4>2, <4>3, <4>4
        <3> QED BY <2>2, <3>1, <3>2
    <2>3. P = SUBSET D
        <3> HIDE DEF P
        <3>1. P \in SUBSET (SUBSET D)
            BY DEF P
        <3> QED BY <2>1, <2>2, <3>1, SmallerSets
    <2> QED BY <2>3
<1> QED
    BY <1>1, <1>6, <1>8, <1>9 DEF SumsOf

\* A sum of numbers is a number; of zeros, and of nothing, it is zero.
LEMMA SumType ==
    ASSUME NEW D, IsFiniteSet(D), NEW fun \in [D -> Nat]
    PROVE  SumFunction(fun) \in Nat
<1>1. PICK g : SumsOf(g, fun, D) /\ SumFunction(fun) = g[D]
    BY SumFacts
<1> QED
    BY <1>1 DEF SumsOf

LEMMA SumZero ==
    ASSUME NEW D, IsFiniteSet(D), NEW fun \in [D -> Nat], \A x \in D : fun[x] = 0
    PROVE  SumFunction(fun) = 0
<1>1. PICK g : SumsOf(g, fun, D) /\ SumFunction(fun) = g[D]
    BY SumFacts
<1> DEFINE P == {s \in SUBSET D : g[s] = 0}
<1>2. {} \in P
    BY <1>1 DEF SumsOf
<1>3. ASSUME NEW s \in SUBSET D, s # {}, \A x \in s : s \ {x} \in P
      PROVE  s \in P
    <2>1. PICK x \in s : TRUE
        BY <1>3
    <2>2. g[s] = 0 + 0
        BY <1>1, <1>3, <2>1 DEF SumsOf
    <2> QED
        BY <2>2
<1>4. P = SUBSET D
    <2>1. P \in SUBSET (SUBSET D)
        OBVIOUS
    <2> HIDE DEF P
    <2> QED
        BY <1>2, <1>3, <2>1, SmallerSets
<1> QED
    BY <1>1, <1>4

\* A sum changes by as much as one of its terms.
LEMMA SumUpdate ==
    ASSUME NEW D, IsFiniteSet(D), NEW fun \in [D -> Nat], NEW other \in [D -> Nat],
           NEW d \in D, \A x \in D \ {d} : other[x] = fun[x]
    PROVE  SumFunction(other) + fun[d] = SumFunction(fun) + other[d]
<1>2. PICK g : SumsOf(g, fun, D) /\ SumFunction(fun) = g[D]
    BY SumFacts
<1>3. PICK h : SumsOf(h, other, D) /\ SumFunction(other) = h[D]
    BY SumFacts
<1> DEFINE P == {s \in SUBSET D : d \notin s => h[s] = g[s]}
<1>4. {} \in P
    BY <1>2, <1>3 DEF SumsOf
<1>5. ASSUME NEW s \in SUBSET D, s # {}, \A x \in s : s \ {x} \in P
      PROVE  s \in P
    <2>1. SUFFICES ASSUME d \notin s PROVE h[s] = g[s]
        OBVIOUS
    <2>2. PICK x \in s : TRUE
        BY <1>5
    <2>3. h[s \ {x}] = g[s \ {x}] /\ other[x] = fun[x]
        BY <1>5, <2>1, <2>2
    <2> QED
        BY <1>2, <1>3, <2>2, <2>3 DEF SumsOf
<1>6. P = SUBSET D
    <2>1. P \in SUBSET (SUBSET D)
        OBVIOUS
    <2> HIDE DEF P
    <2> QED
        BY <1>4, <1>5, <2>1, SmallerSets
<1>7. h[D \ {d}] = g[D \ {d}] /\ g[D \ {d}] \in Nat
    BY <1>2, <1>6 DEF SumsOf
<1>8. /\ g[D] = fun[d] + g[D \ {d}] /\ h[D] = other[d] + h[D \ {d}]
      /\ fun[d] \in Nat /\ other[d] \in Nat
    BY <1>2, <1>3 DEF SumsOf
<1> QED
    BY <1>2, <1>3, <1>7, <1>8

-----------------------------------------------------------------------------
(* The budget of the image                                                 *)

RowStates == {"none", "new", "creating", "created", "borrowed", "deleting", "deleted"}

Attempts == 0 .. MaxAttempts

RowType ==
    [state : RowStates, owed : BOOLEAN, checks : Attempts, again : Attempts,
     cleanups : Attempts, cleanedAgain : Attempts]

ImageType ==
    [generation : Nat, history : Nat, pages : Seq(MinArchive .. MaxHistory),
     records : Nat, closed : Nat, closedPages : Nat,
     registration : Registrations, order : OrderStates,
     issuance : {"none", "pending", "saved"},
     row : [Rows -> RowType], timing : SUBSET Certificates]

\* No record is cleaned up again before it is being deleted, and no answer is
\* owed for one that is not being created or deleted.
RowInStep(r) ==
    /\ r.state \notin {"deleting", "deleted"} => r.cleanedAgain = 0
    /\ r.owed => r.state \in {"creating", "deleting"}

\* Orders are for registered accounts and have a place in the ledger kept for
\* them, and a certificate is asked for once its order's names are validated.
Lifecycle(n) ==
    /\ n.issuance # "none" => n.order = "domain-verified"
    /\ n.order # "none" => n.registration = "registered" /\ n.closed < MaxClosed
    /\ \A d \in Rows : RowInStep(n.row[d])

\* r more commits find their events and generations.
Affords(n, r) == n.history + r <= MaxHistory /\ n.generation + r <= MaxGeneration

\* The numbers are within their bounds, and every commit up to now has left
\* room for the answers that are owed.
Balanced(n) ==
    /\ n.generation = 1 + n.history + SumFunction(n.pages)
    /\ n.records <= MaxRecords /\ n.closed <= MaxClosed
    /\ n.closedPages <= MaxClosedPages /\ Len(n.pages) <= MaxArchives
    /\ Affords(n, 0)
    /\ n.registration = "pending" => Affords(n, 1)
    /\ Affords(n, OrderReserve(n))
    /\ PendingIssuance(n) => Affords(n, 1) /\ n.records < MaxRecords
    /\ Affords(n, DnsTotalReserve(n)) /\ DnsTotalReserve(n) <= MaxReserve

BudgetInv == m \in ImageType /\ Lifecycle(m) /\ Balanced(m)

LEMMA Bounds ==
    /\ MaxGeneration \in Nat \ {0} /\ MaxAttempts \in Nat \ {0}
    /\ MinArchive \in Nat \ {0, 1} /\ MaxReserve \in Nat \ {0, 1}
    /\ MaxHistory \in Nat /\ MaxArchives \in Nat /\ MaxRecords \in Nat
    /\ MaxClosed \in Nat /\ MaxClosedPages \in Nat
    /\ MinClosed \in 1 .. MaxClosed
    /\ MinArchive + MaxReserve <= MaxHistory
    /\ IsFiniteSet(Rows) /\ IsFiniteSet(Certificates)
BY BudgetAssumption

LEMMA OneValue == \A b \in BOOLEAN : One(b) = IF b THEN 1 ELSE 0
BY DEF One

LEMMA RetriesBound ==
    ASSUME NEW k \in Attempts
    PROVE  Retries(k) \in Nat
BY Bounds DEF Retries, Attempts

\* What a record holds back, state by state.
LEMMA RowReserveCases ==
    ASSUME NEW r \in RowType
    PROVE  /\ r.state = "creating" =>
                  RowReserve(r) = One(r.owed) + 2 * (MaxAttempts - r.checks)
                                      + 2 * MaxAttempts + 1 + Retries(r.again)
           /\ r.state = "created" => RowReserve(r) = 2 * MaxAttempts + 1
           /\ r.state = "deleting" =>
                  RowReserve(r) = One(r.owed) + 2 * (MaxAttempts - r.cleanups) + 1
                                      + Retries(r.cleanedAgain)
           /\ r.state \notin {"creating", "created", "deleting"} => RowReserve(r) = 0
BY DEF RowReserve

LEMMA RowReserveType ==
    ASSUME NEW r \in RowType
    PROVE  RowReserve(r) \in Nat
<1>1. /\ r.state \in RowStates /\ r.owed \in BOOLEAN
      /\ r.checks \in Attempts /\ r.again \in Attempts
      /\ r.cleanups \in Attempts /\ r.cleanedAgain \in Attempts
    BY DEF RowType
<1>2. One(r.owed) \in Nat
    BY <1>1 DEF One
<1>3. Retries(r.again) \in Nat /\ Retries(r.cleanedAgain) \in Nat
    BY <1>1, RetriesBound
<1>4. MaxAttempts - r.checks \in Nat /\ MaxAttempts - r.cleanups \in Nat
    BY <1>1, Bounds DEF Attempts
<1> QED
    BY <1>2, <1>3, <1>4, Bounds, RowReserveCases

LEMMA PlanReserveType ==
    ASSUME NEW n \in ImageType
    PROVE  DnsPlanReserve(n) \in Nat
<1> DEFINE f == [d \in Rows |-> RowReserve(n.row[d])]
<1>1. f \in [Rows -> Nat]
    BY RowReserveType DEF ImageType
<1> HIDE DEF f
<1>2. SumFunction(f) \in Nat
    BY <1>1, SumType, Bounds
<1> QED
    BY <1>2 DEF DnsPlanReserve, f

LEMMA OrderReserveCases ==
    ASSUME NEW n
    PROVE  OrderReserve(n) = IF n.order = "request-pending" THEN 2
                             ELSE IF n.order \in {"order-known", "validation-pending"} THEN 1
                             ELSE 0
BY DEF OrderReserve

LEMMA TimingCount ==
    ASSUME NEW n \in ImageType
    PROVE  IsFiniteSet(n.timing) /\ Cardinality(n.timing) \in Nat
<1>1. n.timing \in SUBSET Certificates
    BY DEF ImageType
<1> QED
    BY <1>1, Bounds, FS_Subset, FS_CardinalityType

\* What an image holds back: for its rows and timing reads, and, when those
\* hold back anything, for the other answers that are owed.
Own(n) == DnsPlanReserve(n) + Cardinality(n.timing)

Other(n) == One(n.registration = "pending") + OrderReserve(n) + One(PendingIssuance(n))

LEMMA Reserve ==
    ASSUME NEW n \in ImageType
    PROVE  /\ Own(n) \in Nat /\ Other(n) \in Nat
           /\ DnsTotalReserve(n) = IF Own(n) = 0 THEN 0 ELSE Own(n) + Other(n)
<1>1. DnsPlanReserve(n) \in Nat /\ Cardinality(n.timing) \in Nat
    BY PlanReserveType, TimingCount
<1>2. OrderReserve(n) \in Nat
    BY OrderReserveCases
<1>3. One(n.registration = "pending") \in Nat /\ One(PendingIssuance(n)) \in Nat
    BY DEF One
<1>4. Own(n) \in Nat /\ Other(n) \in Nat
    BY <1>1, <1>2, <1>3 DEF Own, Other
<1>5. DnsTotalReserve(n) =
          IF Own(n) = 0 THEN 0
          ELSE Own(n) + One(n.registration = "pending") + OrderReserve(n)
                   + One(PendingIssuance(n))
    BY DEF DnsTotalReserve, Own
<1> QED
    BY <1>2, <1>3, <1>4, <1>5 DEF Other

LEMMA LoggedImage ==
    ASSUME NEW n \in ImageType
    PROVE  /\ Next1(n) \in ImageType /\ Logged(n) \in ImageType
           /\ Next1(n).history = n.history /\ Logged(n).history = n.history + 1
           /\ \A x \in {Next1(n), Logged(n)} :
                  /\ x.generation = n.generation + 1 /\ x.pages = n.pages
                  /\ x.records = n.records /\ x.closed = n.closed
                  /\ x.closedPages = n.closedPages
                  /\ x.registration = n.registration /\ x.order = n.order
                  /\ x.issuance = n.issuance /\ x.row = n.row /\ x.timing = n.timing
<1>1. Next1(n) \in ImageType
    BY DEF ImageType, Next1
<1>2. Logged(n) \in ImageType
    <2>1. Next1(n).history + 1 \in Nat
        BY <1>1 DEF ImageType
    <2> QED
        BY <1>1, <2>1 DEF ImageType, Logged
<1>3. /\ Next1(n).history = n.history /\ Next1(n).generation = n.generation + 1
      /\ Next1(n).pages = n.pages /\ Next1(n).records = n.records
      /\ Next1(n).closed = n.closed /\ Next1(n).closedPages = n.closedPages
      /\ Next1(n).registration = n.registration /\ Next1(n).order = n.order
      /\ Next1(n).issuance = n.issuance /\ Next1(n).row = n.row
      /\ Next1(n).timing = n.timing
    BY DEF ImageType, Next1
<1> DEFINE new == Next1(n)
<1> HIDE DEF new
<1>4. LET log == [new EXCEPT !.history = @ + 1]
      IN  /\ log.history = new.history + 1 /\ log.generation = new.generation
          /\ log.pages = new.pages /\ log.records = new.records
          /\ log.closed = new.closed /\ log.closedPages = new.closedPages
          /\ log.registration = new.registration /\ log.order = new.order
          /\ log.issuance = new.issuance /\ log.row = new.row
          /\ log.timing = new.timing
    <2>1. new \in ImageType
        BY <1>1 DEF new
    <2> QED
        BY <2>1 DEF ImageType
<1> QED
    BY <1>1, <1>2, <1>3, <1>4 DEF Logged, new

LEMMA SameReserves ==
    ASSUME NEW n, NEW x, x.registration = n.registration, x.order = n.order,
           x.issuance = n.issuance, x.row = n.row, x.timing = n.timing
    PROVE  /\ OrderReserve(x) = OrderReserve(n)
           /\ PendingIssuance(x) = PendingIssuance(n)
           /\ DnsTotalReserve(x) = DnsTotalReserve(n)
           /\ Own(x) = Own(n) /\ Other(x) = Other(n)
<1>1. OrderReserve(x) = OrderReserve(n)
    BY OrderReserveCases
<1>2. PendingIssuance(x) = PendingIssuance(n)
    BY DEF PendingIssuance
<1>3. DnsPlanReserve(x) = DnsPlanReserve(n)
    BY DEF DnsPlanReserve
<1>4. Own(x) = Own(n) /\ Other(x) = Other(n)
    BY <1>1, <1>2, <1>3 DEF Own, Other
<1>5. DnsTotalReserve(x) = DnsTotalReserve(n)
    BY <1>1, <1>2, <1>3 DEF DnsTotalReserve
<1> QED
    BY <1>1, <1>2, <1>4, <1>5

LEMMA PagesSum ==
    ASSUME NEW n \in ImageType
    PROVE  /\ SumFunction(n.pages) \in Nat /\ Len(n.pages) \in Nat
           /\ n.pages \in [1 .. Len(n.pages) -> MinArchive .. MaxHistory]
<1>1. n.pages \in Seq(MinArchive .. MaxHistory)
    BY DEF ImageType
<1>2. /\ Len(n.pages) \in Nat /\ n.pages \in [1 .. Len(n.pages) -> Nat]
      /\ n.pages \in [1 .. Len(n.pages) -> MinArchive .. MaxHistory]
    BY <1>1, Bounds
<1>3. IsFiniteSet(1 .. Len(n.pages))
    BY <1>2, FS_Interval
<1> QED
    BY <1>2, <1>3, SumType

\* An image is admitted exactly when what it becomes is in balance.
LEMMA Admission ==
    ASSUME NEW n \in ImageType
    PROVE  Admitted(n) <=> Balanced(Logged(n))
<1> DEFINE new == Next1(n)
           log == Logged(n)
           total == DnsTotalReserve(n)
           order == OrderReserve(n)
           sum == SumFunction(n.pages)
<1>1. /\ n.generation \in Nat /\ n.history \in Nat /\ n.records \in Nat
      /\ n.closed \in Nat /\ n.closedPages \in Nat
      /\ n.pages \in Seq(MinArchive .. MaxHistory)
    BY DEF ImageType
<1>2. total \in Nat /\ order \in Nat /\ sum \in Nat /\ Len(n.pages) \in Nat
    BY Reserve, OrderReserveCases, PagesSum
<1>3. /\ new.generation = n.generation + 1 /\ new.history = n.history
      /\ new.records = n.records /\ new.registration = n.registration
      /\ new.issuance = n.issuance /\ OrderReserve(new) = order /\ DnsTotalReserve(new) = total
    BY LoggedImage, SameReserves
<1>4. /\ log.generation = n.generation + 1 /\ log.history = n.history + 1
      /\ log.records = n.records /\ log.registration = n.registration
      /\ log.closed = n.closed /\ log.closedPages = n.closedPages
      /\ log.pages = n.pages
      /\ log.issuance = n.issuance /\ OrderReserve(log) = order /\ DnsTotalReserve(log) = total
    BY LoggedImage, SameReserves
<1> HIDE DEF new, log, total, order, sum
<1>5. ASSUME NEW r \in Nat
      PROVE  Room(new, r) <=> Affords(log, r)
    <2>1. n.history < MaxHistory - r <=> n.history + 1 + r <= MaxHistory
        BY <1>1, Bounds
    <2> QED
        BY <2>1, <1>3, <1>4 DEF Room, Affords
<1>6. Affords(log, 0) <=> log.history <= MaxHistory /\ log.generation <= MaxGeneration
    BY <1>1, <1>4 DEF Affords
<1>7. Affords(log, 1) => /\ Affords(log, 0)
                         /\ log.history < MaxHistory /\ log.generation < MaxGeneration
    BY <1>1, <1>4, Bounds DEF Affords
<1>8. Affords(log, 0) <=> n.history < MaxHistory /\ n.generation < MaxGeneration
    BY <1>1, <1>4, Bounds DEF Affords
<1>9. log.history > 0
    BY <1>1, <1>4
<1>10. ASSUME EventFits(new), Opens(log) PROVE Balanced(log)
    <2>1. log.generation = 1 + log.history + SumFunction(log.pages)
        BY <1>9, <1>10 DEF Opens
    <2>2. /\ log.records <= MaxRecords /\ log.closed <= MaxClosed
          /\ log.closedPages <= MaxClosedPages /\ Len(log.pages) <= MaxArchives
          /\ Affords(log, 0)
        BY <1>6, <1>10 DEF Opens
    <2>3. log.registration = "pending" => Affords(log, 1)
        BY <1>3, <1>4, <1>5, <1>10 DEF EventFits
    <2>4. Affords(log, OrderReserve(log))
        <3>1. order > 0 => Room(new, order)
            BY <1>3, <1>10 DEF EventFits
        <3>2. order = 0 => Affords(log, order)
            BY <2>2
        <3> QED
            BY <1>2, <1>4, <1>5, <3>1, <3>2
    <2>5. PendingIssuance(log) => Affords(log, 1) /\ log.records < MaxRecords
        BY <1>3, <1>4, <1>5, <1>10 DEF EventFits, PendingIssuance
    <2>6. Affords(log, DnsTotalReserve(log)) /\ DnsTotalReserve(log) <= MaxReserve
        BY <1>10 DEF Opens, Affords
    <2> QED
        BY <2>1, <2>2, <2>3, <2>4, <2>5, <2>6 DEF Balanced
<1>11. ASSUME Balanced(log) PROVE n.generation < MaxGeneration /\ EventFits(new) /\ Opens(log)
    <2>1. /\ Affords(log, 0) /\ n.history < MaxHistory /\ n.generation < MaxGeneration
        BY <1>8, <1>11 DEF Balanced
    <2>2. new.registration = "pending" => Room(new, 1)
        BY <1>3, <1>4, <1>5, <1>11 DEF Balanced
    <2>3. Room(new, order) /\ Room(new, total) /\ total <= MaxReserve
        BY <1>2, <1>4, <1>5, <1>11 DEF Balanced
    <2>4. PendingIssuance(new) => Room(new, 1) /\ new.records < MaxRecords
        BY <1>3, <1>4, <1>5, <1>11 DEF Balanced, PendingIssuance
    <2>5. EventFits(new)
        BY <1>3, <2>1, <2>2, <2>3, <2>4 DEF EventFits
    <2>6. /\ log.generation <= MaxGeneration /\ log.history <= MaxHistory
          /\ log.records <= MaxRecords /\ Len(log.pages) <= MaxArchives
          /\ log.closed <= MaxClosed /\ log.closedPages <= MaxClosedPages
          /\ log.generation = 1 + log.history + SumFunction(log.pages)
        BY <1>6, <1>11 DEF Balanced
    <2>7. PendingIssuance(log) =>
              /\ log.records < MaxRecords /\ log.history < MaxHistory
              /\ log.generation < MaxGeneration
        BY <1>7, <1>11 DEF Balanced
    <2>8. /\ DnsTotalReserve(log) <= MaxReserve
          /\ log.generation + DnsTotalReserve(log) <= MaxGeneration
          /\ log.history + DnsTotalReserve(log) <= MaxHistory
        BY <1>11 DEF Balanced, Affords
    <2>9. \A i \in DOMAIN log.pages : log.pages[i] \in MinArchive .. MaxHistory
        BY <1>4, PagesSum
    <2>10. Opens(log)
        BY <1>9, <2>6, <2>7, <2>8, <2>9 DEF Opens
    <2> QED
        BY <2>1, <2>5, <2>10
<1>12. Admitted(n) <=> n.generation < MaxGeneration /\ EventFits(new) /\ Opens(log)
    BY DEF Admitted, new, log
<1> QED
    BY <1>10, <1>11, <1>12 DEF log

LEMMA SameLifecycle ==
    ASSUME NEW n, NEW x, Lifecycle(n), x.registration = n.registration,
           x.order = n.order, x.issuance = n.issuance, x.row = n.row,
           x.closed = n.closed
    PROVE  Lifecycle(x)
BY DEF Lifecycle

\* A commit of an image that is well formed keeps the invariant.
LEMMA CommitKeeps ==
    ASSUME NEW n \in ImageType, Lifecycle(n), Admitted(n), m' = Logged(n)
    PROVE  BudgetInv'
<1>1. Logged(n) \in ImageType /\ Lifecycle(Logged(n))
    BY LoggedImage, SameLifecycle
<1>2. Balanced(Logged(n))
    BY Admission
<1>3. /\ m' \in ImageType /\ Lifecycle(m') /\ Balanced(m')
    BY <1>1, <1>2
<1> QED
    BY <1>3 DEF BudgetInv

\* A row is changed alone.
LEMMA WithRowImage ==
    ASSUME NEW n \in ImageType, NEW d \in Rows, NEW r \in RowType
    PROVE  /\ WithRow(n, d, r) \in ImageType
           /\ WithRow(n, d, r).row = [n.row EXCEPT ![d] = r]
           /\ LET x == WithRow(n, d, r)
              IN  /\ x.generation = n.generation /\ x.history = n.history
                  /\ x.pages = n.pages /\ x.records = n.records
                  /\ x.closed = n.closed /\ x.closedPages = n.closedPages
                  /\ x.registration = n.registration /\ x.order = n.order
                  /\ x.issuance = n.issuance /\ x.timing = n.timing
<1>1. n.row \in [Rows -> RowType]
    BY DEF ImageType
<1>2. [n.row EXCEPT ![d] = r] \in [Rows -> RowType]
    BY <1>1
<1>3. WithRow(n, d, r) = [n EXCEPT !.row = [n.row EXCEPT ![d] = r]]
    BY DEF WithRow
<1> QED
    BY <1>2, <1>3 DEF ImageType

\* The rows an attempt or its answer may leave are well formed, and a record
\* that is not being deleted is not cleaned up again.
LEMMA RowSteps ==
    ASSUME NEW old \in RowType, RowInStep(old),
           NEW r \in Check(old) \cup Cleanup(old) \cup Recovery(old)
                         \cup Maintenance(old) \cup RowOutcomes(old)
    PROVE  r \in RowType /\ RowInStep(r)
<1>1. /\ old.state \in RowStates /\ old.owed \in BOOLEAN
      /\ old.checks \in Attempts /\ old.again \in Attempts
      /\ old.cleanups \in Attempts /\ old.cleanedAgain \in Attempts
    BY DEF RowType
<1>2. CASE r \in Check(old)
    <2>1. /\ old.state \in {"new", "creating"} /\ old.checks < MaxAttempts
          /\ r = [old EXCEPT !.state = "creating", !.checks = @ + 1, !.owed = TRUE]
        BY <1>2 DEF Check
    <2>2. old.checks + 1 \in Attempts
        BY <1>1, <2>1, Bounds DEF Attempts
    <2> QED
        BY <2>1, <2>2 DEF RowType, RowStates, RowInStep
<1>3. CASE r \in Cleanup(old)
    <2>1. /\ old.cleanups < MaxAttempts
          /\ r = [old EXCEPT !.state = "deleting", !.cleanups = @ + 1, !.owed = TRUE]
        BY <1>3 DEF Cleanup
    <2>2. old.cleanups + 1 \in Attempts
        BY <1>1, <2>1, Bounds DEF Attempts
    <2> QED
        BY <2>1, <2>2 DEF RowType, RowStates, RowInStep
<1>4. CASE r \in Recovery(old)
    <2>1. \/ /\ old.state = "creating" /\ old.again < MaxAttempts
             /\ r = [old EXCEPT !.again = @ + 1, !.owed = TRUE]
          \/ /\ old.state = "deleting" /\ old.cleanedAgain < MaxAttempts
             /\ r = [old EXCEPT !.cleanedAgain = @ + 1, !.owed = TRUE]
        BY <1>4 DEF Recovery
    <2>2. /\ old.again < MaxAttempts => old.again + 1 \in Attempts
          /\ old.cleanedAgain < MaxAttempts => old.cleanedAgain + 1 \in Attempts
        BY <1>1, Bounds DEF Attempts
    <2> QED
        BY <2>1, <2>2 DEF RowType, RowInStep
<1>5. CASE r \in Maintenance(old)
    <2>1. r = [old EXCEPT !.owed = TRUE] /\ old.state \in {"creating", "deleting"}
        BY <1>5 DEF Maintenance
    <2> QED
        BY <2>1 DEF RowType, RowInStep
<1>6. CASE r \in RowOutcomes(old)
    <2>1. PICK s \in {"creating", "created", "borrowed", "deleting", "deleted"} :
              /\ r = [old EXCEPT !.state = s, !.owed = FALSE]
              /\ s \in {"deleting", "deleted"} \/ old.state = "creating"
        BY <1>6 DEF RowOutcomes
    <2> QED
        BY <2>1 DEF RowType, RowStates, RowInStep
<1> QED
    BY <1>2, <1>3, <1>4, <1>5, <1>6

\* A commit that changes one row so keeps the invariant.
LEMMA RowKeeps ==
    ASSUME BudgetInv, NEW d \in Rows,
           NEW r \in Check(m.row[d]) \cup Cleanup(m.row[d]) \cup Recovery(m.row[d])
                         \cup Maintenance(m.row[d]) \cup RowOutcomes(m.row[d]),
           Admitted(WithRow(m, d, r)), m' = Logged(WithRow(m, d, r))
    PROVE  BudgetInv'
<1>1. m \in ImageType /\ Lifecycle(m) /\ m.row \in [Rows -> RowType]
    BY DEF BudgetInv, ImageType
<1>2. m.row[d] \in RowType
    BY <1>1
<1>3. RowInStep(m.row[d])
    BY <1>1 DEF Lifecycle
<1>4. r \in RowType /\ RowInStep(r)
    BY <1>2, <1>3, RowSteps
<1> DEFINE n == WithRow(m, d, r)
<1>5. /\ n \in ImageType /\ n.row = [m.row EXCEPT ![d] = r]
      /\ n.closed = m.closed /\ n.registration = m.registration
      /\ n.order = m.order /\ n.issuance = m.issuance
    BY <1>1, <1>4, WithRowImage
<1> HIDE DEF n
<1>6. \A e \in Rows : RowInStep(n.row[e])
    BY <1>1, <1>4, <1>5 DEF Lifecycle
<1>7. Lifecycle(n)
    BY <1>1, <1>5, <1>6 DEF Lifecycle
<1> QED
    BY <1>5, <1>7, CommitKeeps DEF n

LEMMA NoRowReserve ==
    /\ NoRow \in RowType /\ RowInStep(NoRow) /\ RowReserve(NoRow) = 0
    /\ [NoRow EXCEPT !.state = "new"] \in RowType
    /\ RowInStep([NoRow EXCEPT !.state = "new"])
<1>1. 0 \in Attempts
    BY Bounds DEF Attempts
<1>2. /\ NoRow \in RowType /\ NoRow.state = "none" /\ NoRow.cleanedAgain = 0
      /\ NoRow.owed = FALSE
    BY <1>1 DEF NoRow, RowType, RowStates
<1>3. RowReserve(NoRow) = 0
    BY <1>2, RowReserveCases
<1>4. "new" \in RowStates
    BY DEF RowStates
<1> QED
    BY <1>2, <1>3, <1>4 DEF RowType, RowInStep

LEMMA InitBudget == BudgetInit => BudgetInv
<1> SUFFICES ASSUME m = NewImage PROVE BudgetInv
    BY DEF BudgetInit
<1>1. m \in ImageType
    <2>1. [d \in Rows |-> NoRow] \in [Rows -> RowType]
        BY NoRowReserve
    <2>2. <<>> \in Seq(MinArchive .. MaxHistory)
        OBVIOUS
    <2>3. /\ "none" \in Registrations /\ "none" \in OrderStates
          /\ {} \in SUBSET Certificates
        BY DEF Registrations, OrderStates
    <2> QED
        BY <2>1, <2>2, <2>3 DEF NewImage, ImageType
<1>2. /\ m.generation = 1 /\ m.history = 0 /\ m.pages = <<>> /\ m.records = 0
      /\ m.closed = 0 /\ m.closedPages = 0 /\ m.registration = "none"
      /\ m.order = "none" /\ m.issuance = "none" /\ m.timing = {}
      /\ m.row = [d \in Rows |-> NoRow]
    BY DEF NewImage
<1>3. Lifecycle(m)
    BY <1>2, NoRowReserve DEF Lifecycle
<1>4. SumFunction(m.pages) = 0
    <2>1. m.pages \in [{} -> Nat]
        BY <1>2
    <2>2. IsFiniteSet({})
        BY FS_EmptySet
    <2>3. \A f \in [{} -> Nat] : SumFunction(f) = 0
        BY <2>2, SumZero
    <2> QED
        BY <2>1, <2>3
<1>5. DnsPlanReserve(m) = 0
    <2> DEFINE f == [d \in Rows |-> RowReserve(m.row[d])]
    <2>1. f \in [Rows -> Nat] /\ \A d \in Rows : f[d] = 0
        BY <1>2, NoRowReserve
    <2> HIDE DEF f
    <2>2. SumFunction(f) = 0
        BY <2>1, SumZero, Bounds
    <2> QED
        BY <2>2 DEF DnsPlanReserve, f
<1>6. DnsTotalReserve(m) = 0
    <2>1. Own(m) = 0
        BY <1>2, <1>5, FS_EmptySet DEF Own
    <2> QED
        BY <1>1, <2>1, Reserve
<1>7. OrderReserve(m) = 0
    BY <1>2, OrderReserveCases
<1>8. Len(m.pages) = 0
    BY <1>2
<1>9. Affords(m, 0)
    BY <1>2, Bounds DEF Affords
<1>10. Balanced(m)
    BY <1>2, <1>4, <1>6, <1>7, <1>8, <1>9, Bounds DEF Balanced, PendingIssuance
<1> QED
    BY <1>1, <1>3, <1>10 DEF BudgetInv

\* A change of the account, the order or the issuance, with its lifecycle.
LEMMA StatesKeep ==
    ASSUME BudgetInv, NEW n \in ImageType, n.row = m.row, Admitted(n), m' = Logged(n),
           n.issuance # "none" => n.order = "domain-verified",
           n.order # "none" => n.registration = "registered" /\ n.closed < MaxClosed
    PROVE  BudgetInv'
<1>1. Lifecycle(n)
    BY DEF BudgetInv, Lifecycle
<1> QED
    BY <1>1, CommitKeeps

\* What m is, plainly.
LEMMA ImageFacts ==
    ASSUME BudgetInv
    PROVE  /\ m \in ImageType
           /\ m.generation \in Nat /\ m.history \in Nat /\ m.records \in Nat
           /\ m.closed \in Nat /\ m.closedPages \in Nat
           /\ m.pages \in Seq(MinArchive .. MaxHistory)
           /\ m.row \in [Rows -> RowType] /\ m.timing \in SUBSET Certificates
           /\ m.issuance # "none" => m.order = "domain-verified"
           /\ m.order # "none" => m.registration = "registered" /\ m.closed < MaxClosed
BY DEF BudgetInv, ImageType, Lifecycle

LEMMA EditKeeps ==
    ASSUME BudgetInv, Edit \/ ObserveIssuance
    PROVE  BudgetInv'
<1>1. Admitted(m) /\ m' = Logged(m)
    BY DEF Edit, ObserveIssuance, Commit
<1> QED
    BY <1>1, ImageFacts, StatesKeep

LEMMA RecordsKeep ==
    ASSUME BudgetInv, Import \/ DeleteRecord
    PROVE  BudgetInv'
<1>1. PICK r \in Nat, t \in SUBSET Certificates :
          Commit([m EXCEPT !.records = r, !.timing = t])
    <2>1. CASE Import
        <3>1. PICK k \in 1 .. 2 : Commit([m EXCEPT !.records = @ + k])
            BY <2>1 DEF Import
        <3>2. m.records + k \in Nat
            BY ImageFacts
        <3>3. [m EXCEPT !.records = @ + k]
                  = [m EXCEPT !.records = m.records + k, !.timing = m.timing]
            BY ImageFacts DEF ImageType
        <3> QED
            BY <3>1, <3>2, <3>3, ImageFacts
    <2>2. CASE DeleteRecord
        <3>1. PICK p \in SUBSET m.timing :
                  /\ m.records > 0
                  /\ Commit([m EXCEPT !.records = @ - 1, !.timing = @ \ p])
            BY <2>2 DEF DeleteRecord
        <3>2. m.records - 1 \in Nat /\ m.timing \ p \in SUBSET Certificates
            BY <3>1, ImageFacts
        <3> QED
            BY <3>1, <3>2
    <2> QED
        BY <2>1, <2>2
<1> DEFINE n == [m EXCEPT !.records = r, !.timing = t]
<1>2. /\ n \in ImageType /\ n.row = m.row /\ n.issuance = m.issuance
      /\ n.order = m.order /\ n.registration = m.registration /\ n.closed = m.closed
    BY ImageFacts DEF ImageType
<1>3. Admitted(n) /\ m' = Logged(n)
    BY <1>1 DEF Commit
<1> HIDE DEF n
<1> QED
    BY <1>2, <1>3, ImageFacts, StatesKeep

LEMMA AccountKeeps ==
    ASSUME BudgetInv, PrepareAccount \/ BeginRegistration \/ FinishRegistration
    PROVE  BudgetInv'
<1>1. PICK s \in Registrations :
          /\ m.registration \in {"none", "prepared", "pending"}
          /\ Commit([m EXCEPT !.registration = s])
    BY DEF PrepareAccount, BeginRegistration, FinishRegistration, Registered,
           Registrations
<1> DEFINE n == [m EXCEPT !.registration = s]
<1>2. /\ n \in ImageType /\ n.row = m.row /\ n.issuance = m.issuance
      /\ n.order = m.order /\ n.closed = m.closed
    BY ImageFacts DEF ImageType
<1>3. Admitted(n) /\ m' = Logged(n)
    BY <1>1 DEF Commit
<1> HIDE DEF n
<1>4. m.order = "none" /\ m.issuance = "none"
    BY <1>1, ImageFacts
<1> QED
    BY <1>2, <1>3, <1>4, StatesKeep

\* No certificate is asked for while the order itself moves on.
LEMMA OrderKeeps ==
    ASSUME BudgetInv, BeginOrder \/ UpdateOrder \/ BeginValidation \/ FinishValidation
    PROVE  BudgetInv'
<1>1. PICK s \in OrderStates :
          /\ m.issuance = "none" /\ m.registration = "registered"
          /\ m.closed < MaxClosed
          /\ Commit([m EXCEPT !.order = s])
    <2>1. CASE BeginOrder
        BY <2>1, ImageFacts DEF BeginOrder, OrderStates
    <2>2. CASE UpdateOrder
        BY <2>2, ImageFacts DEF UpdateOrder, Located, Instructed, OrderStates
    <2>3. CASE BeginValidation
        BY <2>3, ImageFacts DEF BeginValidation, OrderStates
    <2>4. CASE FinishValidation
        BY <2>4, ImageFacts DEF FinishValidation, Validated, OrderStates
    <2> QED
        BY <2>1, <2>2, <2>3, <2>4
<1> DEFINE n == [m EXCEPT !.order = s]
<1>2. /\ n \in ImageType /\ n.row = m.row /\ n.issuance = m.issuance
      /\ n.registration = m.registration /\ n.closed = m.closed
    BY ImageFacts DEF ImageType
<1>3. Admitted(n) /\ m' = Logged(n)
    BY <1>1 DEF Commit
<1> HIDE DEF n
<1> QED
    BY <1>1, <1>2, <1>3, StatesKeep

LEMMA IssuanceKeeps ==
    ASSUME BudgetInv, BeginIssuance \/ FinishIssuance
    PROVE  BudgetInv'
<1>1. PICK s \in {"pending", "saved"}, r \in Nat :
          /\ m.order = "domain-verified"
          /\ Commit([m EXCEPT !.issuance = s, !.records = r])
    <2>1. CASE BeginIssuance
        <3>1. [m EXCEPT !.issuance = "pending"]
                  = [m EXCEPT !.issuance = "pending", !.records = m.records]
            BY ImageFacts DEF ImageType
        <3> QED
            BY <2>1, <3>1, ImageFacts DEF BeginIssuance
    <2>2. CASE FinishIssuance
        <3>1. m.records + 1 \in Nat /\ m.order = "domain-verified"
            BY <2>2, ImageFacts DEF FinishIssuance, PendingIssuance
        <3>2. Commit([m EXCEPT !.issuance = "saved", !.records = @ + 1])
            BY <2>2 DEF FinishIssuance, PairSaved
        <3> QED
            BY <3>1, <3>2
    <2> QED
        BY <2>1, <2>2
<1> DEFINE n == [m EXCEPT !.issuance = s, !.records = r]
<1>2. /\ n \in ImageType /\ n.row = m.row /\ n.order = m.order
      /\ n.registration = m.registration /\ n.closed = m.closed
    BY ImageFacts DEF ImageType
<1>3. Admitted(n) /\ m' = Logged(n)
    BY <1>1 DEF Commit
<1> HIDE DEF n
<1> QED
    BY <1>1, <1>2, <1>3, ImageFacts, StatesKeep

LEMMA CloseKeeps ==
    ASSUME BudgetInv, CloseRequest
    PROVE  BudgetInv'
<1> DEFINE rows == [d \in Rows |-> NoRow]
           n == [m EXCEPT !.closed = @ + 1, !.order = "none", !.issuance = "none",
                          !.row = rows]
<1>1. rows \in [Rows -> RowType] /\ \A d \in Rows : rows[d] = NoRow
    BY NoRowReserve
<1>2. Admitted(n) /\ m' = Logged(n)
    BY DEF CloseRequest, Commit
<1> HIDE DEF rows
<1>3. m.closed + 1 \in Nat /\ "none" \in OrderStates
    BY ImageFacts DEF OrderStates
<1>4. /\ n \in ImageType /\ n.row = rows /\ n.issuance = "none" /\ n.order = "none"
    BY <1>1, <1>3, ImageFacts DEF ImageType
<1> HIDE DEF n
<1>5. Lifecycle(n)
    BY <1>1, <1>4, NoRowReserve DEF Lifecycle
<1> QED
    BY <1>2, <1>4, <1>5, CommitKeeps

LEMMA PrepareKeeps ==
    ASSUME BudgetInv, PrepareDns
    PROVE  BudgetInv'
<1> DEFINE fresh == [NoRow EXCEPT !.state = "new"]
           rows == [d \in Rows |-> fresh]
           n == [m EXCEPT !.row = rows]
<1>1. fresh \in RowType /\ RowInStep(fresh)
    BY NoRowReserve
<1>2. Admitted(n) /\ m' = Logged(n)
    BY DEF PrepareDns, Commit
<1> HIDE DEF fresh
<1>3. rows \in [Rows -> RowType] /\ \A d \in Rows : rows[d] = fresh
    BY <1>1
<1> HIDE DEF rows
<1>4. /\ n \in ImageType /\ n.row = rows /\ n.issuance = m.issuance
      /\ n.order = m.order /\ n.registration = m.registration /\ n.closed = m.closed
    BY <1>3, ImageFacts DEF ImageType
<1> HIDE DEF n
<1>5. Lifecycle(n)
    BY <1>1, <1>3, <1>4, ImageFacts DEF Lifecycle
<1> QED
    BY <1>2, <1>4, <1>5, CommitKeeps

LEMMA DnsKeeps ==
    ASSUME BudgetInv, BeginDns \/ FinishDns
    PROVE  BudgetInv'
<1>1. CASE BeginDns
    <2>1. PICK d \in Rows :
              \E r \in UNION {Check(m.row[d]), Cleanup(m.row[d]), Recovery(m.row[d]),
                              Maintenance(m.row[d])} :
                  CanBegin(d, r) /\ m' = Logged(WithRow(m, d, r))
        BY <1>1 DEF BeginDns
    <2>2. PICK r \in Check(m.row[d]) \cup Cleanup(m.row[d]) \cup Recovery(m.row[d])
                         \cup Maintenance(m.row[d]) :
              CanBegin(d, r) /\ m' = Logged(WithRow(m, d, r))
        BY <2>1
    <2>3. Admitted(WithRow(m, d, r))
        BY <2>2 DEF CanBegin
    <2> QED
        BY <2>2, <2>3, RowKeeps
<1>2. CASE FinishDns
    <2>1. PICK d \in Rows : \E r \in RowOutcomes(m.row[d]) : Commit(WithRow(m, d, r))
        BY <1>2 DEF FinishDns
    <2>2. PICK r \in RowOutcomes(m.row[d]) : Commit(WithRow(m, d, r))
        BY <2>1
    <2> QED
        BY <2>2, RowKeeps DEF Commit
<1> QED
    BY <1>1, <1>2

LEMMA TimingKeeps ==
    ASSUME BudgetInv, BeginTiming \/ FinishTiming
    PROVE  BudgetInv'
<1>1. PICK t \in SUBSET Certificates : Commit([m EXCEPT !.timing = t])
    <2>1. CASE BeginTiming
        <3>1. PICK c \in Certificates \ m.timing : Commit([m EXCEPT !.timing = @ \cup {c}])
            BY <2>1 DEF BeginTiming
        <3> QED
            BY <3>1, ImageFacts
    <2>2. CASE FinishTiming
        <3>1. PICK c \in m.timing : Commit([m EXCEPT !.timing = @ \ {c}])
            BY <2>2 DEF FinishTiming, TimingDone
        <3> QED
            BY <3>1, ImageFacts
    <2> QED
        BY <2>1, <2>2
<1> DEFINE n == [m EXCEPT !.timing = t]
<1>2. /\ n \in ImageType /\ n.row = m.row /\ n.order = m.order
      /\ n.issuance = m.issuance /\ n.registration = m.registration
      /\ n.closed = m.closed
    BY ImageFacts DEF ImageType
<1>3. Admitted(n) /\ m' = Logged(n)
    BY <1>1 DEF Commit
<1> HIDE DEF n
<1> QED
    BY <1>2, <1>3, ImageFacts, StatesKeep

\* A page holds a history that was long enough, and never one that is too long.
LEMMA ArchiveImage ==
    ASSUME BudgetInv, CanArchive(m)
    PROVE  LET n == Archived(m)
           IN  /\ n \in ImageType /\ n.history = 0 /\ n.generation = m.generation
               /\ n.row = m.row /\ n.order = m.order /\ n.issuance = m.issuance
               /\ n.registration = m.registration /\ n.closed = m.closed
               /\ n.records = m.records /\ n.timing = m.timing
<1>1. m.history \in MinArchive .. MaxHistory
    BY ImageFacts, Bounds DEF CanArchive, BudgetInv, Balanced, Affords
<1>2. Append(m.pages, m.history) \in Seq(MinArchive .. MaxHistory)
    BY <1>1, ImageFacts
<1> QED
    BY <1>2, ImageFacts DEF ImageType, Archived

LEMMA ArchivesKeep ==
    ASSUME BudgetInv, ArchiveHistory \/ ArchiveClosedRequests
    PROVE  BudgetInv'
<1>1. CASE ArchiveHistory
    <2> DEFINE n == Archived(m)
    <2>1. CanArchive(m) /\ Admitted(n) /\ m' = Logged(n)
        BY <1>1 DEF ArchiveHistory, Commit
    <2>2. /\ n \in ImageType /\ n.row = m.row /\ n.order = m.order
          /\ n.issuance = m.issuance /\ n.registration = m.registration
          /\ n.closed = m.closed
        BY <2>1, ArchiveImage
    <2> HIDE DEF n
    <2> QED
        BY <2>1, <2>2, ImageFacts, StatesKeep
<1>2. CASE ArchiveClosedRequests
    <2> DEFINE n == [m EXCEPT !.closedPages = @ + 1, !.closed = 0]
    <2>1. Admitted(n) /\ m' = Logged(n)
        BY <1>2 DEF ArchiveClosedRequests, Commit
    <2>2. m.closedPages + 1 \in Nat /\ 0 < MaxClosed
        BY ImageFacts, Bounds
    <2>3. /\ n \in ImageType /\ n.row = m.row /\ n.order = m.order
          /\ n.issuance = m.issuance /\ n.registration = m.registration
          /\ n.closed = 0
        BY <2>2, ImageFacts DEF ImageType
    <2> HIDE DEF n
    <2> QED
        BY <2>1, <2>2, <2>3, ImageFacts, StatesKeep
<1> QED
    BY <1>1, <1>2

LEMMA BudgetStep == BudgetInv /\ [BudgetNext]_m => BudgetInv'
<1> SUFFICES ASSUME BudgetInv, [BudgetNext]_m PROVE BudgetInv'
    OBVIOUS
<1>1. CASE Edit \/ ObserveIssuance
    BY <1>1, EditKeeps
<1>2. CASE Import \/ DeleteRecord
    BY <1>2, RecordsKeep
<1>3. CASE PrepareAccount \/ BeginRegistration \/ FinishRegistration
    BY <1>3, AccountKeeps
<1>4. CASE BeginOrder \/ UpdateOrder \/ BeginValidation \/ FinishValidation
    BY <1>4, OrderKeeps
<1>5. CASE BeginIssuance \/ FinishIssuance
    BY <1>5, IssuanceKeeps
<1>6. CASE CloseRequest
    BY <1>6, CloseKeeps
<1>7. CASE PrepareDns
    BY <1>7, PrepareKeeps
<1>8. CASE BeginDns \/ FinishDns
    BY <1>8, DnsKeeps
<1>9. CASE BeginTiming \/ FinishTiming
    BY <1>9, TimingKeeps
<1>10. CASE ArchiveHistory \/ ArchiveClosedRequests
    BY <1>10, ArchivesKeep
<1>11. CASE UNCHANGED m
    BY <1>11 DEF BudgetInv, Lifecycle, Balanced, Affords, OrderReserve,
       PendingIssuance, DnsTotalReserve, DnsPlanReserve
<1> QED
    BY <1>1, <1>2, <1>3, <1>4, <1>5, <1>6, <1>7, <1>8, <1>9, <1>10, <1>11
       DEF BudgetNext

\* Every image the operations commit is well formed and in balance: addEvent
\* and decode leave room for everything that is owed, whatever was committed.
THEOREM BudgetInvariant == BudgetSpec => []BudgetInv
<1>1. BudgetInit => BudgetInv
    BY InitBudget
<1>2. BudgetInv /\ [BudgetNext]_m => BudgetInv'
    BY BudgetStep
<1> QED
    BY <1>1, <1>2, PTL DEF BudgetSpec

-----------------------------------------------------------------------------
(* What is owed fits                                                       *)

LEMMA FewerFit ==
    ASSUME NEW n \in ImageType, NEW a \in Nat, NEW b \in Nat, Affords(n, a), b <= a
    PROVE  Affords(n, b)
<1>1. n.history \in Nat /\ n.generation \in Nat
    BY DEF ImageType
<1> QED
    BY <1>1, Bounds DEF Affords

LEMMA OtherCases ==
    ASSUME NEW n \in ImageType
    PROVE  /\ OrderReserve(n) \in 0 .. 2 /\ OrderReserve(n) <= Other(n)
           /\ n.registration = "pending" => 1 <= Other(n)
           /\ PendingIssuance(n) => 1 <= Other(n)
<1>1. OrderReserve(n) \in 0 .. 2
    BY OrderReserveCases
<1>2. /\ One(n.registration = "pending") \in {0, 1} /\ One(PendingIssuance(n)) \in {0, 1}
      /\ n.registration = "pending" => One(n.registration = "pending") = 1
      /\ PendingIssuance(n) => One(PendingIssuance(n)) = 1
    BY DEF One
<1> QED
    BY <1>1, <1>2 DEF Other

\* The image x saves an answer: nothing else of m has changed.
SavesFrom(x) ==
    /\ x.generation = m.generation /\ x.history = m.history /\ x.pages = m.pages
    /\ x.closed = m.closed /\ x.closedPages = m.closedPages
    /\ x.records <= MaxRecords
    /\ PendingIssuance(x) => x.records < MaxRecords

LEMMA Balances ==
    ASSUME BudgetInv, NEW x \in ImageType, SavesFrom(x), Affords(m, 1),
           x.registration = "pending" \/ PendingIssuance(x) => Affords(m, 2),
           Affords(m, OrderReserve(x) + 1), Affords(m, DnsTotalReserve(x) + 1),
           DnsTotalReserve(x) <= MaxReserve
    PROVE  Admitted(x)
<1> DEFINE log == Logged(x)
<1>1. /\ log.generation = m.generation + 1 /\ log.history = m.history + 1
      /\ log.pages = m.pages /\ log.records = x.records /\ log.closed = m.closed
      /\ log.closedPages = m.closedPages /\ log.registration = x.registration
      /\ log.issuance = x.issuance
      /\ OrderReserve(log) = OrderReserve(x)
      /\ DnsTotalReserve(log) = DnsTotalReserve(x)
    BY LoggedImage, SameReserves DEF SavesFrom
<1> HIDE DEF log
<1>2. ASSUME NEW r \in Nat, Affords(m, r + 1)
      PROVE  Affords(log, r)
    <2>1. m.history + (r + 1) <= MaxHistory /\ m.generation + (r + 1) <= MaxGeneration
        BY <1>2 DEF Affords
    <2>2. m.history \in Nat /\ m.generation \in Nat
        BY ImageFacts
    <2>3. log.history + r <= MaxHistory /\ log.generation + r <= MaxGeneration
        BY <1>1, <2>1, <2>2, Bounds
    <2> QED
        BY <2>3 DEF Affords
<1>3. 0 + 1 = 1 /\ 1 + 1 = 2 /\ OrderReserve(x) \in Nat /\ DnsTotalReserve(x) \in Nat
    BY OtherCases, Reserve
<1>4. /\ Affords(log, 0)
      /\ Affords(log, OrderReserve(log)) /\ Affords(log, DnsTotalReserve(log))
      /\ x.registration = "pending" \/ PendingIssuance(x) => Affords(log, 1)
    BY <1>1, <1>2, <1>3
<1>5. log.generation = 1 + log.history + SumFunction(log.pages)
    <2>1. m.generation = 1 + m.history + SumFunction(m.pages)
        BY DEF BudgetInv, Balanced
    <2>2. SumFunction(m.pages) \in Nat
        BY ImageFacts, PagesSum
    <2> QED
        BY <1>1, <2>1, <2>2, ImageFacts
<1>6. /\ log.records <= MaxRecords /\ log.closed <= MaxClosed
      /\ log.closedPages <= MaxClosedPages /\ Len(log.pages) <= MaxArchives
    BY <1>1 DEF SavesFrom, BudgetInv, Balanced
<1>7. PendingIssuance(log) <=> PendingIssuance(x)
    BY <1>1 DEF PendingIssuance
<1>8. PendingIssuance(x) => log.records < MaxRecords
    BY <1>1 DEF SavesFrom
<1>9. Balanced(log)
    BY <1>1, <1>4, <1>5, <1>6, <1>7, <1>8 DEF Balanced
<1> QED
    BY <1>9, Admission DEF log

\* The answer of a record or a timing read: the image holds back less for
\* them, and what it holds back counts everything else that is owed.
LEMMA OwnAnswer ==
    ASSUME BudgetInv, NEW x \in ImageType, SavesFrom(x),
           Own(x) + 1 <= Own(m), x.registration = m.registration,
           x.order = m.order, x.issuance = m.issuance
    PROVE  /\ Admitted(x)
           /\ Affords(m, DnsTotalReserve(x) + 1) /\ DnsTotalReserve(x) <= MaxReserve
<1>1. /\ Own(m) \in Nat /\ Other(m) \in Nat /\ Own(x) \in Nat /\ Other(x) \in Nat
      /\ DnsTotalReserve(m) = IF Own(m) = 0 THEN 0 ELSE Own(m) + Other(m)
      /\ DnsTotalReserve(x) = IF Own(x) = 0 THEN 0 ELSE Own(x) + Other(x)
    BY ImageFacts, Reserve
<1>2. OrderReserve(x) = OrderReserve(m) /\ Other(x) = Other(m)
    BY OrderReserveCases DEF Other, PendingIssuance
<1>3. /\ DnsTotalReserve(m) \in Nat /\ DnsTotalReserve(x) \in Nat
      /\ DnsTotalReserve(x) + 1 <= DnsTotalReserve(m)
      /\ Other(m) + 1 <= DnsTotalReserve(m)
    BY <1>1, <1>2
<1>4. Affords(m, DnsTotalReserve(m)) /\ DnsTotalReserve(m) <= MaxReserve
    BY DEF BudgetInv, Balanced
<1>5. ASSUME NEW r \in Nat, r <= DnsTotalReserve(m) PROVE Affords(m, r)
    BY <1>3, <1>4, <1>5, FewerFit, ImageFacts
<1>6. OrderReserve(m) \in 0 .. 2 /\ OrderReserve(m) <= Other(m)
    BY OtherCases, ImageFacts
<1>7. m.registration = "pending" \/ PendingIssuance(m) => 1 <= Other(m)
    BY OtherCases, ImageFacts
<1>8. Affords(m, 1) /\ Affords(m, OrderReserve(x) + 1) /\ Affords(m, DnsTotalReserve(x) + 1)
    BY <1>1, <1>2, <1>3, <1>5, <1>6
<1>9. x.registration = "pending" \/ PendingIssuance(x) => Affords(m, 2)
    <2>1. 1 <= Other(m) => Affords(m, 2)
        BY <1>1, <1>3, <1>5
    <2> QED
        BY <1>7, <2>1 DEF PendingIssuance
<1>10. DnsTotalReserve(x) <= MaxReserve
    BY <1>3, <1>4, Bounds
<1> QED
    BY <1>8, <1>9, <1>10, Balances

\* The answer of a registration, an order or an issuance: it is the only one
\* of the three that is owed.
LEMMA OtherAnswer ==
    ASSUME BudgetInv, NEW x \in ImageType, SavesFrom(x), Own(x) = Own(m),
           Other(x) = OrderReserve(x), OrderReserve(x) + 1 <= Other(m),
           Affords(m, OrderReserve(x) + 1), x.registration # "pending",
           ~ PendingIssuance(x)
    PROVE  Admitted(x)
<1>1. /\ Own(m) \in Nat /\ Other(m) \in Nat /\ OrderReserve(x) \in Nat
      /\ DnsTotalReserve(m) = IF Own(m) = 0 THEN 0 ELSE Own(m) + Other(m)
      /\ DnsTotalReserve(x) = IF Own(x) = 0 THEN 0 ELSE Own(x) + Other(x)
    BY ImageFacts, Reserve, OtherCases
<1>2. Affords(m, DnsTotalReserve(m)) /\ DnsTotalReserve(m) <= MaxReserve
    BY DEF BudgetInv, Balanced
<1>3. Affords(m, 1)
    BY <1>1, FewerFit, ImageFacts
<1>4. CASE Own(m) = 0
    <2>1. DnsTotalReserve(x) = 0
        BY <1>1, <1>4
    <2> QED
        BY <1>3, <2>1, Bounds, Balances
<1>5. CASE Own(m) # 0
    <2>1. /\ DnsTotalReserve(x) \in Nat /\ DnsTotalReserve(m) \in Nat
          /\ DnsTotalReserve(x) + 1 <= DnsTotalReserve(m)
        BY <1>1, <1>5
    <2>2. Affords(m, DnsTotalReserve(x) + 1)
        BY <1>2, <2>1, FewerFit, ImageFacts
    <2>3. DnsTotalReserve(x) <= MaxReserve
        BY <1>2, <2>1, Bounds
    <2> QED
        BY <1>3, <2>2, <2>3, Balances
<1> QED
    BY <1>4, <1>5

\* Every attempt after the first, and every answer, lowers what its record
\* holds back.
LEMMA AttemptsLower ==
    ASSUME NEW old \in RowType, RowInStep(old), NEW r,
           \/ r \in Check(old) \cup Cleanup(old) /\ old.state # "new"
           \/ r \in RowOutcomes(old)
    PROVE  RowReserve(r) + 1 <= RowReserve(old)
<1>1. /\ old.state \in RowStates /\ old.owed \in BOOLEAN
      /\ old.checks \in Attempts /\ old.again \in Attempts
      /\ old.cleanups \in Attempts /\ old.cleanedAgain \in Attempts
    BY DEF RowType
<1>2. /\ Retries(old.again) \in Nat /\ Retries(old.cleanedAgain) \in Nat
      /\ Retries(0) = 0
    BY <1>1, RetriesBound DEF Retries
<1>3. /\ One(TRUE) = 1 /\ One(FALSE) = 0 /\ One(old.owed) \in {0, 1}
      /\ old.owed => One(old.owed) = 1
    BY DEF One
<1>4. r \in RowType
    BY RowSteps
<1>5. MaxAttempts \in Nat
    BY Bounds
<1>6. CASE r \in Check(old) /\ old.state # "new"
    <2>1. /\ old.state = "creating"
          /\ r = [old EXCEPT !.state = "creating", !.checks = @ + 1, !.owed = TRUE]
        BY <1>6 DEF Check
    <2>2. /\ r.state = "creating" /\ r.owed = TRUE /\ r.checks = old.checks + 1
          /\ r.again = old.again
        BY <2>1 DEF RowType
    <2>3. RowReserve(r) = 1 + 2 * (MaxAttempts - (old.checks + 1))
                              + 2 * MaxAttempts + 1 + Retries(old.again)
        BY <1>3, <1>4, <2>2, RowReserveCases
    <2>4. RowReserve(old) = One(old.owed) + 2 * (MaxAttempts - old.checks)
                              + 2 * MaxAttempts + 1 + Retries(old.again)
        BY <2>1, RowReserveCases
    <2> QED
        BY <1>1, <1>2, <1>3, <1>5, <2>3, <2>4 DEF Attempts
<1>7. CASE r \in Cleanup(old)
    <2>1. /\ old.state \in {"created", "deleting"}
          /\ r = [old EXCEPT !.state = "deleting", !.cleanups = @ + 1, !.owed = TRUE]
        BY <1>7 DEF Cleanup
    <2>2. /\ r.state = "deleting" /\ r.owed = TRUE /\ r.cleanups = old.cleanups + 1
          /\ r.cleanedAgain = old.cleanedAgain
        BY <2>1 DEF RowType
    <2>3. RowReserve(r) = 1 + 2 * (MaxAttempts - (old.cleanups + 1)) + 1
                              + Retries(old.cleanedAgain)
        BY <1>3, <1>4, <2>2, RowReserveCases
    <2>4. CASE old.state = "created"
        <3>1. Retries(old.cleanedAgain) = 0
            BY <1>2, <2>4 DEF RowInStep
        <3>2. RowReserve(old) = 2 * MaxAttempts + 1
            BY <2>4, RowReserveCases
        <3> QED
            BY <1>1, <1>5, <2>3, <3>1, <3>2 DEF Attempts
    <2>5. CASE old.state = "deleting"
        <3>1. RowReserve(old) = One(old.owed) + 2 * (MaxAttempts - old.cleanups) + 1
                                    + Retries(old.cleanedAgain)
            BY <2>5, RowReserveCases
        <3> QED
            BY <1>1, <1>2, <1>3, <1>5, <2>3, <3>1 DEF Attempts
    <2> QED
        BY <2>1, <2>4, <2>5
<1>8. CASE r \in RowOutcomes(old) /\ old.state = "creating"
    <2>1. PICK s \in {"creating", "created", "borrowed"} :
              r = [old EXCEPT !.state = s, !.owed = FALSE]
        BY <1>8 DEF RowOutcomes
    <2>2. r.state = s /\ r.owed = FALSE /\ r.checks = old.checks /\ r.again = old.again
        BY <2>1 DEF RowType
    <2>3. old.owed
        BY <1>8 DEF RowOutcomes
    <2>4. RowReserve(old) = 1 + 2 * (MaxAttempts - old.checks)
                              + 2 * MaxAttempts + 1 + Retries(old.again)
        BY <1>3, <1>8, <2>3, RowReserveCases
    <2>5. \/ RowReserve(r) = 0 + 2 * (MaxAttempts - old.checks)
                              + 2 * MaxAttempts + 1 + Retries(old.again)
          \/ RowReserve(r) = 2 * MaxAttempts + 1
          \/ RowReserve(r) = 0
        BY <1>3, <1>4, <2>2, RowReserveCases
    <2> QED
        BY <1>1, <1>2, <1>5, <2>4, <2>5 DEF Attempts
<1>9. CASE r \in RowOutcomes(old) /\ old.state = "deleting"
    <2>1. PICK s \in {"deleting", "deleted"} :
              r = [old EXCEPT !.state = s, !.owed = FALSE]
        BY <1>9 DEF RowOutcomes
    <2>2. /\ r.state = s /\ r.owed = FALSE /\ r.cleanups = old.cleanups
          /\ r.cleanedAgain = old.cleanedAgain
        BY <2>1 DEF RowType
    <2>3. old.owed
        BY <1>9 DEF RowOutcomes
    <2>4. RowReserve(old) = 1 + 2 * (MaxAttempts - old.cleanups) + 1
                              + Retries(old.cleanedAgain)
        BY <1>3, <1>9, <2>3, RowReserveCases
    <2>5. \/ RowReserve(r) = 0 + 2 * (MaxAttempts - old.cleanups) + 1
                              + Retries(old.cleanedAgain)
          \/ RowReserve(r) = 0
        BY <1>3, <1>4, <2>2, RowReserveCases
    <2> QED
        BY <1>1, <1>2, <1>5, <2>4, <2>5 DEF Attempts
<1>10. r \in RowOutcomes(old) => old.state \in {"creating", "deleting"}
    BY DEF RowOutcomes, RowInStep
<1> QED
    BY <1>6, <1>7, <1>8, <1>9, <1>10

\* What a row holds back passes on to the image.
LEMMA RowLowers ==
    ASSUME BudgetInv, NEW d \in Rows, NEW r \in RowType,
           RowReserve(r) + 1 <= RowReserve(m.row[d])
    PROVE  /\ Own(WithRow(m, d, r)) + 1 <= Own(m)
           /\ WithRow(m, d, r) \in ImageType /\ SavesFrom(WithRow(m, d, r))
<1> DEFINE x == WithRow(m, d, r)
           f == [e \in Rows |-> RowReserve(m.row[e])]
           g == [e \in Rows |-> RowReserve(x.row[e])]
<1>1. /\ x \in ImageType /\ x.row = [m.row EXCEPT ![d] = r]
      /\ x.generation = m.generation /\ x.history = m.history /\ x.pages = m.pages
      /\ x.closed = m.closed /\ x.closedPages = m.closedPages
      /\ x.records = m.records /\ x.issuance = m.issuance /\ x.timing = m.timing
    BY ImageFacts, WithRowImage
<1> HIDE DEF x
<1>2. f \in [Rows -> Nat] /\ f[d] = RowReserve(m.row[d])
    BY ImageFacts, RowReserveType
<1>3. g = [f EXCEPT ![d] = RowReserve(r)]
    BY <1>1, ImageFacts
<1>4. DnsPlanReserve(m) = SumFunction(f) /\ DnsPlanReserve(x) = SumFunction(g)
    BY DEF DnsPlanReserve
<1>5. RowReserve(r) \in Nat /\ RowReserve(m.row[d]) \in Nat
    BY ImageFacts, RowReserveType
<1> HIDE DEF f, g
<1>6. SumFunction(g) + f[d] = SumFunction(f) + RowReserve(r)
    <2>1. g \in [Rows -> Nat] /\ g[d] = RowReserve(r) /\ \A e \in Rows \ {d} : g[e] = f[e]
        BY <1>2, <1>3, <1>5
    <2>2. SumFunction(g) + f[d] = SumFunction(f) + g[d]
        BY <1>2, <2>1, Bounds, SumUpdate
    <2> QED
        BY <2>1, <2>2
<1>7. /\ DnsPlanReserve(x) \in Nat /\ DnsPlanReserve(m) \in Nat
      /\ Cardinality(m.timing) \in Nat
    BY <1>1, ImageFacts, PlanReserveType, TimingCount
<1>8. DnsPlanReserve(x) + 1 <= DnsPlanReserve(m)
    BY <1>2, <1>4, <1>5, <1>6, <1>7
<1>9. Own(x) + 1 <= Own(m)
    BY <1>1, <1>7, <1>8 DEF Own
<1>10. SavesFrom(x)
    BY <1>1 DEF SavesFrom, BudgetInv, Balanced, PendingIssuance
<1> QED
    BY <1>1, <1>9, <1>10 DEF x

LEMMA RowAnswersFit ==
    ASSUME BudgetInv, NEW d \in Rows, NEW r,
           \/ r \in RowOutcomes(m.row[d])
           \/ r \in Check(m.row[d]) \cup Cleanup(m.row[d]) /\ m.row[d].state # "new"
    PROVE  LET x == WithRow(m, d, r)
           IN  /\ Admitted(x)
               /\ Affords(m, DnsTotalReserve(x) + 1) /\ DnsTotalReserve(x) <= MaxReserve
<1>1. m.row[d] \in RowType /\ RowInStep(m.row[d])
    BY ImageFacts DEF BudgetInv, Lifecycle
<1>2. r \in RowType
    BY <1>1, RowSteps
<1>3. RowReserve(r) + 1 <= RowReserve(m.row[d])
    BY <1>1, AttemptsLower
<1> DEFINE x == WithRow(m, d, r)
<1>4. x \in ImageType /\ SavesFrom(x) /\ Own(x) + 1 <= Own(m)
    BY <1>2, <1>3, RowLowers
<1>5. x.registration = m.registration /\ x.order = m.order /\ x.issuance = m.issuance
    BY <1>2, ImageFacts, WithRowImage
<1> HIDE DEF x
<1>6. Admitted(x) /\ Affords(m, DnsTotalReserve(x) + 1) /\ DnsTotalReserve(x) <= MaxReserve
    BY <1>4, <1>5, OwnAnswer
<1> QED
    BY <1>6 DEF x

LEMMA TimingAnswerFits ==
    ASSUME BudgetInv, NEW c \in m.timing
    PROVE  Admitted(TimingDone(m, c))
<1> DEFINE x == TimingDone(m, c)
           rest == m.timing \ {c}
<1>1. rest \in SUBSET Certificates
    BY ImageFacts
<1>2. Cardinality(rest) = Cardinality(m.timing) - 1
    BY TimingCount, ImageFacts, FS_RemoveElement
<1>3. TimingDone(m, c) = [m EXCEPT !.timing = rest]
    BY DEF TimingDone
<1> HIDE DEF rest
<1>4. /\ x \in ImageType /\ x.timing = rest
      /\ x.row = m.row /\ x.order = m.order
      /\ x.issuance = m.issuance /\ x.registration = m.registration
      /\ x.closed = m.closed /\ x.closedPages = m.closedPages
      /\ x.records = m.records /\ x.pages = m.pages
      /\ x.generation = m.generation /\ x.history = m.history
    BY <1>1, <1>3, ImageFacts DEF ImageType
<1> HIDE DEF x
<1>5. SavesFrom(x)
    BY <1>4 DEF SavesFrom, BudgetInv, Balanced, PendingIssuance
<1>6. DnsPlanReserve(x) = DnsPlanReserve(m)
    BY <1>4 DEF DnsPlanReserve
<1>7. DnsPlanReserve(m) \in Nat /\ Cardinality(m.timing) \in Nat
    BY ImageFacts, PlanReserveType, TimingCount
<1>8. Own(x) + 1 <= Own(m)
    BY <1>2, <1>4, <1>6, <1>7 DEF Own
<1>9. Admitted(x)
    BY <1>4, <1>5, <1>8, OwnAnswer
<1> QED
    BY <1>9 DEF x

\* An image that differs from m in its account, order or issuance holds back
\* the same for rows and timing reads.
LEMMA SameOwn ==
    ASSUME NEW x, x.row = m.row, x.timing = m.timing
    PROVE  Own(x) = Own(m)
BY DEF Own, DnsPlanReserve

LEMMA RegistrationFits ==
    ASSUME BudgetInv, m.registration = "pending"
    PROVE  Admitted(Registered(m))
<1> DEFINE x == Registered(m)
<1>1. m.order = "none" /\ m.issuance = "none"
    BY ImageFacts
<1>2. /\ x \in ImageType /\ x.registration = "registered"
      /\ x.timing = m.timing /\ x.row = m.row /\ x.order = "none"
      /\ x.issuance = "none"
      /\ x.closed = m.closed /\ x.closedPages = m.closedPages
      /\ x.records = m.records /\ x.pages = m.pages
      /\ x.generation = m.generation /\ x.history = m.history
    BY <1>1, ImageFacts DEF ImageType, Registered, Registrations
<1> HIDE DEF x
<1>3. SavesFrom(x) /\ ~ PendingIssuance(x)
    BY <1>2 DEF SavesFrom, BudgetInv, Balanced, PendingIssuance
<1>4. OrderReserve(x) = 0 /\ OrderReserve(m) = 0
    BY <1>1, <1>2, OrderReserveCases
<1>5. Other(x) = 0 /\ Other(m) = 1
    BY <1>1, <1>2, <1>4 DEF Other, One, PendingIssuance
<1>6. Affords(m, 1)
    BY DEF BudgetInv, Balanced
<1>7. Own(x) = Own(m)
    BY <1>2, SameOwn
<1>8. /\ Other(x) = OrderReserve(x) /\ OrderReserve(x) + 1 <= Other(m)
      /\ OrderReserve(x) + 1 = 1
    BY <1>4, <1>5
<1>9. Admitted(x)
    BY <1>2, <1>3, <1>6, <1>7, <1>8, OtherAnswer
<1> QED
    BY <1>9 DEF x

LEMMA OrderFits ==
    ASSUME BudgetInv, NEW s \in OrderStates,
           \/ m.order = "request-pending" /\ s = "order-known"
           \/ m.order = "order-known" /\ s = "dns-ready"
           \/ m.order = "validation-pending" /\ s = "domain-verified"
    PROVE  Admitted([m EXCEPT !.order = s])
<1> DEFINE x == [m EXCEPT !.order = s]
<1>1. m.registration = "registered" /\ m.issuance = "none"
    BY ImageFacts
<1>2. /\ x \in ImageType /\ x.registration = "registered"
      /\ x.timing = m.timing /\ x.row = m.row /\ x.order = s
      /\ x.issuance = "none"
      /\ x.closed = m.closed /\ x.closedPages = m.closedPages
      /\ x.records = m.records /\ x.pages = m.pages
      /\ x.generation = m.generation /\ x.history = m.history
    BY <1>1, ImageFacts DEF ImageType
<1> HIDE DEF x
<1>3. SavesFrom(x) /\ ~ PendingIssuance(x)
    BY <1>2 DEF SavesFrom, BudgetInv, Balanced, PendingIssuance
<1>4. OrderReserve(x) + 1 = OrderReserve(m) /\ OrderReserve(x) \in Nat
    BY <1>2, OrderReserveCases
<1>5. One(m.registration = "pending") = 0 /\ One(x.registration = "pending") = 0
    BY <1>1, <1>2 DEF One
<1>6. One(PendingIssuance(m)) = 0 /\ One(PendingIssuance(x)) = 0
    BY <1>1, <1>2 DEF One, PendingIssuance
<1>7. OrderReserve(m) \in Nat
    BY ImageFacts, OtherCases
<1>8. Other(x) = OrderReserve(x) /\ Other(m) = OrderReserve(m)
    BY <1>4, <1>5, <1>6, <1>7 DEF Other
<1>9. Affords(m, OrderReserve(x) + 1) /\ OrderReserve(x) + 1 <= Other(m)
    BY <1>4, <1>7, <1>8 DEF BudgetInv, Balanced
<1>10. Own(x) = Own(m)
    BY <1>2, SameOwn
<1>11. Admitted(x)
    BY <1>2, <1>3, <1>8, <1>9, <1>10, OtherAnswer
<1> QED
    BY <1>11 DEF x

LEMMA IssuanceFits ==
    ASSUME BudgetInv, PendingIssuance(m)
    PROVE  Admitted(PairSaved(m))
<1> DEFINE x == PairSaved(m)
<1>1. /\ m.issuance = "pending" /\ m.order = "domain-verified"
      /\ m.registration = "registered" /\ m.records + 1 \in Nat
      /\ m.records + 1 <= MaxRecords
    BY ImageFacts, Bounds DEF PendingIssuance, BudgetInv, Balanced
<1>2. /\ x \in ImageType /\ x.registration = "registered"
      /\ x.timing = m.timing /\ x.row = m.row /\ x.order = "domain-verified"
      /\ x.issuance = "saved"
      /\ x.closed = m.closed /\ x.closedPages = m.closedPages
      /\ x.records = m.records + 1 /\ x.pages = m.pages
      /\ x.generation = m.generation /\ x.history = m.history
    BY <1>1, ImageFacts DEF ImageType, PairSaved
<1> HIDE DEF x
<1>3. SavesFrom(x) /\ ~ PendingIssuance(x)
    BY <1>1, <1>2 DEF SavesFrom, PendingIssuance
<1>4. OrderReserve(x) = 0 /\ OrderReserve(m) = 0
    BY <1>1, <1>2, OrderReserveCases
<1>5. Other(x) = 0 /\ Other(m) = 1
    BY <1>1, <1>2, <1>4 DEF Other, One, PendingIssuance
<1>6. Affords(m, 1)
    BY DEF BudgetInv, Balanced
<1>7. Own(x) = Own(m)
    BY <1>2, SameOwn
<1>8. /\ Other(x) = OrderReserve(x) /\ OrderReserve(x) + 1 <= Other(m)
      /\ OrderReserve(x) + 1 = 1
    BY <1>4, <1>5
<1>9. Admitted(x)
    BY <1>2, <1>3, <1>6, <1>7, <1>8, OtherAnswer
<1> QED
    BY <1>9 DEF x

LEMMA AnswersFit == BudgetInv => AnswerFits
<1> SUFFICES ASSUME BudgetInv, NEW n \in Answers PROVE Admitted(n)
    BY DEF AnswerFits
<1>1. CASE m.registration = "pending" /\ n = Registered(m)
    BY <1>1, RegistrationFits
<1>2. CASE m.order = "request-pending" /\ n = Located(m)
    BY <1>2, OrderFits DEF Located, OrderStates
<1>3. CASE m.order = "order-known" /\ n = Instructed(m)
    BY <1>3, OrderFits DEF Instructed, OrderStates
<1>4. CASE m.order = "validation-pending" /\ n = Validated(m, "domain-verified")
    BY <1>4, OrderFits DEF Validated, OrderStates
<1>5. CASE PendingIssuance(m) /\ n = PairSaved(m)
    BY <1>5, IssuanceFits
<1>6. CASE \E c \in m.timing : n = TimingDone(m, c)
    BY <1>6, TimingAnswerFits
<1>7. CASE \E d \in Rows : \E r \in RowOutcomes(m.row[d]) : n = WithRow(m, d, r)
    BY <1>7, RowAnswersFit
<1> QED
    BY <1>1, <1>2, <1>3, <1>4, <1>5, <1>6, <1>7 DEF Answers

LEMMA CleanupsFit == BudgetInv => CleanupFits
<1> SUFFICES ASSUME BudgetInv, NEW d \in Rows, m.row[d].state # "new",
                    NEW r \in Check(m.row[d]) \cup Cleanup(m.row[d])
             PROVE  CanBegin(d, r)
    BY DEF CleanupFits
<1> DEFINE x == WithRow(m, d, r)
<1>1. Admitted(x) /\ Affords(m, DnsTotalReserve(x) + 1) /\ DnsTotalReserve(x) <= MaxReserve
    BY RowAnswersFit
<1>2. DnsTotalReserve(x) \in Nat
    <2>1. r \in RowType
        BY ImageFacts, RowSteps DEF BudgetInv, Lifecycle
    <2>2. x \in ImageType
        BY <2>1, ImageFacts, WithRowImage
    <2> QED
        BY <2>2, Reserve
<1> DEFINE t == DnsTotalReserve(x)
<1>3. m.history + (t + 1) <= MaxHistory /\ m.generation + (t + 1) <= MaxGeneration
    BY <1>1 DEF Affords
<1>4. t \in Nat /\ t <= MaxReserve
    BY <1>1, <1>2
<1> HIDE DEF t
<1>5. m.history + t + 1 <= MaxHistory /\ m.generation + t + 1 <= MaxGeneration
    <2>1. m.history \in Nat /\ m.generation \in Nat
        BY ImageFacts
    <2> QED
        BY <1>3, <1>4, <2>1, Bounds
<1> QED
    BY <1>1, <1>4, <1>5 DEF CanBegin, t

LEMMA BudgetTyped == BudgetInv => BudgetTypeOK
<1> SUFFICES ASSUME BudgetInv PROVE BudgetTypeOK
    OBVIOUS
<1>1. /\ m.generation = 1 + m.history + SumFunction(m.pages)
      /\ m.records <= MaxRecords /\ m.closed <= MaxClosed
      /\ m.closedPages <= MaxClosedPages /\ Len(m.pages) <= MaxArchives
      /\ m.history + 0 <= MaxHistory /\ m.generation + 0 <= MaxGeneration
    BY DEF BudgetInv, Balanced, Affords
<1>2. /\ SumFunction(m.pages) \in Nat /\ Len(m.pages) \in Nat
      /\ m.pages \in [1 .. Len(m.pages) -> MinArchive .. MaxHistory]
    BY ImageFacts, PagesSum
<1>3. /\ m.generation \in 1 .. MaxGeneration /\ m.history \in 0 .. MaxHistory
      /\ m.records \in 0 .. MaxRecords /\ m.closed \in 0 .. MaxClosed
      /\ m.closedPages \in 0 .. MaxClosedPages
    BY <1>1, <1>2, ImageFacts, Bounds
<1>4. m.pages \in SeqOf(MinArchive .. MaxHistory, MaxArchives)
    <2>1. Len(m.pages) \in 0 .. MaxArchives
        BY <1>1, <1>2, Bounds
    <2> QED
        BY <1>2, <2>1 DEF SeqOf
<1>5. /\ m.registration \in Registrations /\ m.order \in OrderStates
      /\ m.issuance \in {"none", "pending", "saved"} /\ m.timing \subseteq Certificates
    BY DEF BudgetInv, ImageType
<1>6. \A d \in Rows : {m.row[d].checks, m.row[d].again, m.row[d].cleanups,
                        m.row[d].cleanedAgain} \subseteq 0 .. MaxAttempts
    BY ImageFacts DEF RowType, Attempts
<1> QED
    BY <1>3, <1>4, <1>5, <1>6 DEF BudgetTypeOK

LEMMA AllOwedFit == BudgetInv => OwedFits
<1>1. BudgetInv => ClosingFits
    BY ImageFacts DEF ClosingFits
<1> QED
    BY <1>1, BudgetTyped, AnswersFit, CleanupsFit DEF OwedFits

-----------------------------------------------------------------------------
(* What archiving and the status page promise                              *)

\* An edit is only refused for want of events: with less than a history worth
\* archiving, and generations to spare, every room that is held back is there.
LEMMA ShortHistoryFits ==
    ASSUME BudgetInv, m.history < MinArchive,
           m.generation + 2 + MaxReserve <= MaxGeneration
    PROVE  EventFits(Next1(m))
<1> DEFINE new == Next1(m)
           total == DnsTotalReserve(m)
<1>1. /\ new.generation = m.generation + 1 /\ new.history = m.history
      /\ new.records = m.records /\ new.issuance = m.issuance
      /\ OrderReserve(new) = OrderReserve(m) /\ DnsTotalReserve(new) = total
    BY ImageFacts, LoggedImage, SameReserves
<1>2. /\ total \in Nat /\ OrderReserve(m) \in 0 .. 2 /\ total <= MaxReserve
    BY ImageFacts, Reserve, OtherCases DEF BudgetInv, Balanced
<1> HIDE DEF new, total
<1>3. ASSUME NEW r \in Nat, r <= MaxReserve PROVE Room(new, r)
    <2>1. m.history \in Nat /\ m.generation \in Nat
        BY ImageFacts
    <2>2. m.history < MaxHistory - r /\ m.generation + 1 + r <= MaxGeneration
        BY <1>3, <2>1, Bounds
    <2> QED
        BY <1>1, <2>2 DEF Room
<1>4. 1 <= MaxReserve /\ OrderReserve(m) \in Nat /\ OrderReserve(m) <= MaxReserve
    BY <1>2, Bounds
<1>5. Room(new, 1) /\ Room(new, OrderReserve(m)) /\ Room(new, total)
    BY <1>2, <1>3, <1>4
<1>6. new.history < MaxHistory
    BY <1>1, ImageFacts, Bounds
<1>7. PendingIssuance(new) => new.records < MaxRecords
    BY <1>1 DEF BudgetInv, Balanced, PendingIssuance
<1>8. EventFits(new)
    BY <1>1, <1>2, <1>5, <1>6, <1>7 DEF EventFits
<1> QED
    BY <1>8 DEF new

LEMMA ArchivedFits ==
    ASSUME BudgetInv, CanArchive(m), m.generation + 2 + MaxReserve <= MaxGeneration
    PROVE  EventFits(Next1(Logged(Archived(m))))
<1> DEFINE page == Archived(m)
           log == Logged(page)
           new == Next1(log)
           total == DnsTotalReserve(m)
<1>1. /\ page \in ImageType /\ page.history = 0 /\ page.generation = m.generation
      /\ page.records = m.records /\ page.issuance = m.issuance
      /\ OrderReserve(page) = OrderReserve(m) /\ DnsTotalReserve(page) = total
    BY ArchiveImage, SameReserves
<1> HIDE DEF page
<1>2. /\ log \in ImageType /\ log.history = 0 + 1
      /\ log.generation = m.generation + 1
      /\ log.records = m.records /\ log.issuance = m.issuance
      /\ OrderReserve(log) = OrderReserve(m) /\ DnsTotalReserve(log) = total
    BY <1>1, LoggedImage, SameReserves
<1> HIDE DEF log
<1>3. /\ new.history = 0 + 1 /\ new.generation = m.generation + 1 + 1
      /\ new.records = m.records /\ new.issuance = m.issuance
      /\ OrderReserve(new) = OrderReserve(m) /\ DnsTotalReserve(new) = total
    BY <1>2, LoggedImage, SameReserves
<1>4. /\ total \in Nat /\ OrderReserve(m) \in 0 .. 2 /\ total <= MaxReserve
    BY ImageFacts, Reserve, OtherCases DEF BudgetInv, Balanced
<1> HIDE DEF new, total
<1>5. ASSUME NEW r \in Nat, r <= MaxReserve PROVE Room(new, r)
    <2>1. m.generation \in Nat
        BY ImageFacts
    <2>2. 0 + 1 < MaxHistory - r /\ m.generation + 1 + 1 + r <= MaxGeneration
        BY <1>5, <2>1, Bounds
    <2> QED
        BY <1>3, <2>2 DEF Room
<1>6. 1 <= MaxReserve /\ OrderReserve(m) \in Nat /\ OrderReserve(m) <= MaxReserve
    BY <1>4, Bounds
<1>7. Room(new, 1) /\ Room(new, OrderReserve(m)) /\ Room(new, total)
    BY <1>4, <1>5, <1>6
<1>8. new.history < MaxHistory
    BY <1>3, Bounds
<1>9. PendingIssuance(new) => new.records < MaxRecords
    BY <1>3 DEF BudgetInv, Balanced, PendingIssuance
<1>10. EventFits(new)
    BY <1>3, <1>4, <1>7, <1>8, <1>9 DEF EventFits
<1> QED
    BY <1>10 DEF new, log, page

LEMMA ArchivingHelps == BudgetInv => ArchiveHelps
<1> SUFFICES ASSUME BudgetInv, ~ EventFits(Next1(m)), Len(m.pages) < MaxArchives,
                    m.generation + 2 + MaxReserve <= MaxGeneration
             PROVE  CanArchive(m) /\ EventFits(Next1(Logged(Archived(m))))
    BY DEF ArchiveHelps
<1>1. m.history >= MinArchive
    BY ShortHistoryFits, ImageFacts, Bounds
<1>2. m.generation < MaxGeneration
    BY ImageFacts, Bounds
<1>3. CanArchive(m)
    BY <1>1, <1>2 DEF CanArchive
<1> QED
    BY <1>3, ArchivedFits

\* A timing read adds one to what the page counts, also when what the page
\* counts is held back by nothing else.
LEMMA OfferedHoldsOne ==
    ASSUME BudgetInv, m.registration = "registered", NEW c \in Certificates \ m.timing
    PROVE  LET x == [m EXCEPT !.timing = @ \cup {c}]
           IN  /\ x \in ImageType /\ SavesFrom(x)
               /\ x.registration = "registered" /\ x.issuance = m.issuance
               /\ OrderReserve(x) = OrderReserve(m)
               /\ EventsReserved(m) \in Nat
               /\ Other(m) <= EventsReserved(m)
               /\ DnsTotalReserve(x) = EventsReserved(m) + 1
<1> DEFINE more == m.timing \cup {c}
           x == [m EXCEPT !.timing = more]
<1>1. more \in SUBSET Certificates
    BY ImageFacts
<1>2. Cardinality(more) = Cardinality(m.timing) + 1
    BY TimingCount, ImageFacts, FS_AddElement
<1> HIDE DEF more
<1>3. /\ x \in ImageType /\ x.timing = more
      /\ x.row = m.row /\ x.order = m.order
      /\ x.issuance = m.issuance /\ x.registration = m.registration
      /\ x.closed = m.closed /\ x.closedPages = m.closedPages
      /\ x.records = m.records /\ x.pages = m.pages
      /\ x.generation = m.generation /\ x.history = m.history
    BY <1>1, ImageFacts DEF ImageType
<1> HIDE DEF x
<1>4. SavesFrom(x)
    BY <1>3 DEF SavesFrom, BudgetInv, Balanced, PendingIssuance
<1>5. OrderReserve(x) = OrderReserve(m) /\ Other(x) = Other(m)
    BY <1>3, OrderReserveCases DEF Other, PendingIssuance
<1>6. DnsPlanReserve(x) = DnsPlanReserve(m)
    BY <1>3 DEF DnsPlanReserve
<1>7. DnsPlanReserve(m) \in Nat /\ Cardinality(m.timing) \in Nat
    BY ImageFacts, PlanReserveType, TimingCount
<1>8. Own(x) = Own(m) + 1
    BY <1>2, <1>3, <1>6, <1>7 DEF Own
<1>9. /\ Own(m) \in Nat /\ Other(m) \in Nat
      /\ DnsTotalReserve(m) = IF Own(m) = 0 THEN 0 ELSE Own(m) + Other(m)
      /\ DnsTotalReserve(x) = IF Own(x) = 0 THEN 0 ELSE Own(x) + Other(x)
    BY <1>3, ImageFacts, Reserve
<1>10. EventsReserved(m) = IF DnsTotalReserve(m) # 0 THEN DnsTotalReserve(m) ELSE Other(m)
    BY DEF EventsReserved, Other
<1>11. /\ EventsReserved(m) \in Nat /\ Other(m) <= EventsReserved(m)
       /\ DnsTotalReserve(x) = EventsReserved(m) + 1
    BY <1>5, <1>8, <1>9, <1>10
<1> QED
    BY <1>3, <1>4, <1>5, <1>11 DEF x, more

LEMMA OffersStart == BudgetInv => OfferedStarts
<1> SUFFICES ASSUME BudgetInv, NEW c \in Certificates \ m.timing, TimingOffered(m),
                    EventsReserved(m) < MaxReserve
             PROVE  Admitted([m EXCEPT !.timing = @ \cup {c}])
    BY DEF OfferedStarts
<1> DEFINE x == [m EXCEPT !.timing = @ \cup {c}]
           count == EventsReserved(m)
<1>1. /\ m.registration = "registered"
      /\ m.history + count + 2 <= MaxHistory /\ m.generation + count + 2 <= MaxGeneration
    BY DEF TimingOffered
<1>2. /\ x \in ImageType /\ SavesFrom(x)
      /\ x.registration = "registered" /\ x.issuance = m.issuance
      /\ OrderReserve(x) = OrderReserve(m)
      /\ count \in Nat /\ Other(m) <= count /\ DnsTotalReserve(x) = count + 1
    BY <1>1, OfferedHoldsOne
<1> HIDE DEF x, count
<1>3. ASSUME NEW r \in Nat, r <= count + 2 PROVE Affords(m, r)
    <2>1. m.history \in Nat /\ m.generation \in Nat
        BY ImageFacts
    <2>2. m.history + r <= MaxHistory /\ m.generation + r <= MaxGeneration
        BY <1>1, <1>2, <1>3, <2>1, Bounds
    <2> QED
        BY <2>2 DEF Affords
<1>4. OrderReserve(m) \in 0 .. 2 /\ OrderReserve(m) <= Other(m) /\ Other(m) \in Nat
    BY OtherCases, ImageFacts, Reserve
<1>5. Affords(m, 1) /\ Affords(m, 2) /\ Affords(m, OrderReserve(x) + 1)
    BY <1>2, <1>3, <1>4
<1>6. Affords(m, DnsTotalReserve(x) + 1) /\ DnsTotalReserve(x) <= MaxReserve
    <2>1. count + 1 <= MaxReserve
        BY <1>2, Bounds DEF count
    <2>2. (count + 1) + 1 \in Nat /\ (count + 1) + 1 <= count + 2
        BY <1>2
    <2> QED
        BY <1>2, <1>3, <2>1, <2>2
<1>7. Admitted(x)
    BY <1>2, <1>5, <1>6, Balances
<1> QED
    BY <1>7 DEF x

-----------------------------------------------------------------------------

\* Whatever is committed in between, an answer a provider may already have
\* given, the cleanup of a record that may exist and the closing of an order
\* always find their event, generation and slot (addEvent, dnsTotalReserve).
THEOREM OwedAlwaysFits == BudgetSpec => []OwedFits
BY BudgetInvariant, AllOwedFit, PTL

\* An inventory that refuses an edit for want of events, and has a page and
\* generations left, can be archived, and then takes the edit (archiveStatus).
THEOREM ArchivingAlwaysHelps == BudgetSpec => []ArchiveHelps
BY BudgetInvariant, ArchivingHelps, PTL

\* A timing read the status page offers is not refused for want of room: the
\* page and the writer add up what is held back to the same (timingReadiness).
THEOREM OfferedReadsStart == BudgetSpec => []OfferedStarts
BY BudgetInvariant, OffersStart, PTL
===============================================================================
