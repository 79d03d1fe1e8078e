------------------------------ MODULE ImageFile ------------------------------
(***************************************************************************)
(* The inventory file: how requests and offline commands, each a worker,   *)
(* replace the encrypted image under the access writer lock.               *)
(*                                                                         *)
(* A worker reads the image, builds the next one from it and from the      *)
(* generation its page shows, writes it to a private temporary file, syncs *)
(* that, renames it over the inventory and syncs the directory.  Only then *)
(* is the commit reported, and only after that does a caller send what the *)
(* commit authorizes.  It may commit again, on its own image, before it    *)
(* unlocks.  Any step can fail, be killed or be cut off by a power loss.   *)
(*                                                                         *)
(* An image is the set of the commits made to it; its generation is their  *)
(* number.  What a commit contains is the subject of StagingRequest, which *)
(* takes the commit of an image to be one atomic step.                     *)
(***************************************************************************)
EXTENDS Naturals, FiniteSets

CONSTANTS
    Workers,    \* requests of the server and offline commands
    Commits,    \* the commits that can be made, each at most once
    Imports,    \* those that come without a page's generation
    Nobody,     \* the holder of a free lock
    Garbage,    \* what a power loss leaves of bytes that were not synced
    PowerLoss   \* may the host lose power?

ASSUME ImageAssumption ==
    /\ Nobody \notin Workers
    /\ Imports \subseteq Commits
    /\ Garbage \notin Commits
    /\ PowerLoss \in BOOLEAN

VARIABLES
    visible,    \* the inventory file as a reader finds it
    entry,      \* the inventory file a power loss would leave behind
    flushed,    \* the images whose bytes have been synced to disk
    lock,       \* the flock on .rootwell-access.lock
    worker,     \* what each worker is doing
    shown,      \* the image whose generation each worker's page shows
    outcome     \* what each commit's caller was told

disk == <<visible, entry, flushed>>
vars == <<disk, lock, worker, shown, outcome>>

Images == SUBSET Commits

\* A file that does not decode.
Torn == {Garbage}

Steps == {"idle", "entered", "built", "written", "renamed", "synced"}

Outcomes == {"unused", "pending", "refused", "uncertain", "reported"}

\* image is the one the worker builds on, and commit what it adds to it.
WorkerStates == [step : Steps, image : Images, commit : SUBSET Commits]

Idle == [step |-> "idle", image |-> {}, commit |-> {}]

TypeOK ==
    /\ visible \in Images \cup {Torn}
    /\ entry \in Images \cup {Torn}
    /\ flushed \in SUBSET Images
    /\ lock \in Workers \cup {Nobody}
    /\ worker \in [Workers -> WorkerStates]
    /\ shown \in [Workers -> Images]
    /\ outcome \in [Commits -> Outcomes]

Init ==
    /\ visible = {}
    /\ entry = {}
    /\ flushed = {{}}
    /\ lock = Nobody
    /\ worker = [w \in Workers |-> Idle]
    /\ shown = [w \in Workers |-> {}]
    /\ outcome = [c \in Commits |-> "unused"]

----------------------------------------------------------------------------
(* Mutants: plausible mistakes in the definitions below.                   *)

\* The temporary file is renamed before its bytes are on disk.
NotSynced(image) == UNCHANGED flushed

\* The lock is not waited for, its error is not looked at.
LockIgnored == TRUE

\* The directory is not synced before the commit is reported.
DirectoryNotSynced == UNCHANGED entry

\* A failed directory sync is answered as a failure that changed nothing.
NothingUncertain == "refused"

----------------------------------------------------------------------------
(* One worker                                                              *)

\* The worker's step becomes s; what it builds on and adds stays.
Advance(w, s) == worker' = [worker EXCEPT ![w].step = s]

NextImage(w) == worker[w].image \cup worker[w].commit

\* withAccessWriteLock: LOCK_EX | LOCK_NB, so a busy lock is an error.
LockFree == lock = Nobody

\* fn has returned, or its process is gone: the lock is released.
Unlock(w) ==
    /\ lock' = Nobody
    /\ worker' = [worker EXCEPT ![w] = Idle]

\* The commits of w that nobody has answered for yet, answered by answer.
Answered(w, answer) ==
    [c \in Commits |-> IF c \in worker[w].commit THEN answer ELSE outcome[c]]

\* A read-only request: lock, read, authenticate, unlock.
Read(w) ==
    /\ worker[w].step = "idle"
    /\ LockFree
    /\ visible \in Images
    /\ shown' = [shown EXCEPT ![w] = visible]
    /\ UNCHANGED <<disk, lock, worker, outcome>>

\* A change locks and reads; an image that does not decode stops it here.
Enter(w) ==
    /\ worker[w].step = "idle"
    /\ LockFree
    /\ visible \in Images
    /\ lock' = w
    /\ worker' = [worker EXCEPT ![w] = [step |-> "entered", image |-> visible,
                                        commit |-> {}]]
    /\ UNCHANGED <<disk, shown, outcome>>

\* The image w builds on has the generation that its page showed.
Expected(w) == Cardinality(worker[w].image) = Cardinality(shown[w])

\* Build the next image from the one read, or from the one w just committed.
\* Only the first compares the page's generation, later ones are w's own; an
\* import of certificates (AppendInventory) compares nothing.
Build(w, c) ==
    /\ worker[w].step = "entered"
    /\ worker[w].commit = {} /\ c \notin Imports => Expected(w)
    /\ outcome[c] = "unused"
    /\ outcome' = [outcome EXCEPT ![c] = "pending"]
    /\ worker' = [worker EXCEPT ![w] = [step |-> "built", image |-> NextImage(w),
                                        commit |-> {c}]]
    /\ UNCHANGED <<disk, lock, shown>>

\* f.Sync on the temporary file that holds the image.
SyncFile(image) == flushed' = flushed \cup {image}

\* writeAndSyncFile, into a new file of a random name.
WriteFile(w) ==
    /\ worker[w].step = "built"
    /\ SyncFile(NextImage(w))
    /\ Advance(w, "written")
    /\ UNCHANGED <<visible, entry, lock, shown, outcome>>

\* Creating, writing, syncing or renaming the file fails, or the operation's
\* permit lapses before it: the change is refused.
Refuse(w) ==
    /\ worker[w].step \in {"built", "written"}
    /\ outcome' = Answered(w, "refused")
    /\ Unlock(w)
    /\ UNCHANGED <<disk, shown>>

Rename(w) ==
    /\ worker[w].step = "written"
    /\ visible' = NextImage(w)
    /\ Advance(w, "renamed")
    /\ UNCHANGED <<entry, flushed, lock, shown, outcome>>

\* dir.Sync: the rename, and every one before it, is on disk.
SyncDirectory == entry' = visible

SyncRename(w) ==
    /\ worker[w].step = "renamed"
    /\ SyncDirectory
    /\ Advance(w, "synced")
    /\ UNCHANGED <<visible, flushed, lock, shown, outcome>>

\* The answer when the rename took place but its durability is unknown.
AfterRename == "uncertain"

\* The directory does not sync, or the file is not read back as written.
FailAfterRename(w) ==
    /\ worker[w].step \in {"renamed", "synced"}
    /\ outcome' = Answered(w, AfterRename)
    /\ Unlock(w)
    /\ UNCHANGED <<disk, shown>>

\* The file is read back and compared: the commit is reported to the caller,
\* who may go on with its image, still holding the lock.
ReadBack(w) ==
    /\ worker[w].step = "synced"
    /\ visible = NextImage(w)
    /\ outcome' = Answered(w, "reported")
    /\ Advance(w, "entered")
    /\ UNCHANGED <<disk, lock, shown>>

\* The request ends: with its last commit's generation in the answer, or with
\* an error (a stale generation, a refusal of the store, a failure after the
\* first of two commits) and none.
Leave(w) ==
    /\ worker[w].step = "entered"
    /\ \/ UNCHANGED shown
       \/ /\ worker[w].commit /= {}
          /\ shown' = [shown EXCEPT ![w] = NextImage(w)]
    /\ Unlock(w)
    /\ UNCHANGED <<disk, outcome>>

----------------------------------------------------------------------------
(* The host                                                                *)

\* What the killed worker had in flight nobody was told about.
Lost(w) == [c \in Commits |->
               IF c \in worker[w].commit /\ outcome[c] = "pending"
               THEN "uncertain" ELSE outcome[c]]

\* The process dies: its lock is released, its temporary file stays.
Kill(w) ==
    /\ worker[w].step /= "idle"
    /\ outcome' = Lost(w)
    /\ Unlock(w)
    /\ UNCHANGED <<disk, shown>>

\* The file system writes the directory back on its own.
WriteBack ==
    /\ entry /= visible
    /\ entry' = visible
    /\ UNCHANGED <<visible, flushed, lock, worker, shown, outcome>>

\* Every worker dies.  The file the disk names is whole only if its bytes were
\* synced before; a page in a browser outlives the host.
LosePower ==
    /\ PowerLoss
    /\ visible' = IF entry \in flushed THEN entry ELSE Torn
    /\ entry' = visible'
    /\ lock' = Nobody
    /\ worker' = [w \in Workers |-> Idle]
    /\ outcome' = [c \in Commits |-> IF outcome[c] = "pending" THEN "uncertain"
                                     ELSE outcome[c]]
    /\ UNCHANGED <<flushed, shown>>

----------------------------------------------------------------------------

Next ==
    \/ \E w \in Workers :
           \/ Read(w) \/ Enter(w) \/ Leave(w)
           \/ \E c \in Commits : Build(w, c)
           \/ WriteFile(w) \/ Refuse(w)
           \/ Rename(w) \/ SyncRename(w)
           \/ FailAfterRename(w) \/ ReadBack(w)
           \/ Kill(w)
    \/ WriteBack
    \/ LosePower

Spec == Init /\ [][Next]_vars

----------------------------------------------------------------------------
(* Properties                                                              *)

\* Whatever is killed or loses power at whatever step, the inventory file is
\* a whole image, old or new: the one thing no later operation could repair.
NeverTorn == visible /= Torn /\ entry /= Torn

Reported == {c \in Commits : outcome[c] = "reported"}

Refused == {c \in Commits : outcome[c] = "refused"}

\* The answers are true and stay true: a commit reported as saved is in the
\* image and in what a power loss leaves of it, through every later commit,
\* kill and loss; one refused is in neither and never will be.
AnswersHonest ==
    /\ Reported \subseteq visible \cap entry
    /\ Refused \cap (visible \cup entry) = {}

\* The file is whole, and what was said of it is so.
FileHonest == NeverTorn /\ AnswersHonest

Renaming(w) == worker[w].step = "written" /\ worker'[w].step = "renamed"

\* Workers replace the image one after the other and on top of each other:
\* no replacement drops a commit that another worker made in between.
NothingOverwritten ==
    [][\A w \in Workers : Renaming(w) => visible \subseteq visible']_vars

Register == INSTANCE ImageRegister
                WITH image <- visible, settled <- entry, promised <- Reported

\* The file implements the register that the rest of the program relies on.
ImplementsRegister == Register!Spec
=============================================================================
