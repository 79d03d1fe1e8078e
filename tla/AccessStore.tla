----------------------------- MODULE AccessStore -----------------------------
(***************************************************************************)
(* The access file of an installation, and the ceremonies that replace it, *)
(* back it up and restore it.                                              *)
(*                                                                         *)
(* A private directory holds access.json, which wraps the data key with    *)
(* the password and, once enrolled, with a recovery code; and the          *)
(* inventory, which only that key opens.  The server and the ceremonies    *)
(* exclude each other by the operation lock, every writer of the directory *)
(* holds the writer lock, and init takes neither.  A ceremony is a list of *)
(* file system steps, each of which may fail; its process may die and the  *)
(* host lose power between them, and the operator knows what was answered. *)
(***************************************************************************)
EXTENDS Naturals, Sequences, FiniteSets

CONSTANTS
    Dirs,          \* private data directories
    Legacy,        \* those that may hold an installation without identity
    Passwords,
    Sessions,      \* of the server
    NoFile, Torn,  \* a file that is absent, a file that does not open
    Nowhere,       \* what a server that is not running serves
    MaxSeals,      \* envelopes sealed
    MaxSnapshots   \* snapshot files written

ASSUME AccessAssumption ==
    /\ Legacy \subseteq Dirs /\ Nowhere \notin Dirs
    /\ MaxSeals \in Nat \ {0} /\ MaxSnapshots \in Nat
    /\ NoFile # Torn

VARIABLES
    disk,       \* access.json and the inventory of each directory, as read
    survive,    \* for each of them, what a power loss may leave
    job,        \* the writer that holds the directory's writer lock
    init,       \* the envelope an init is writing there
    initAt,     \* how far that init has come
    server,     \* the directory that is served
    session,    \* the revision each session signed in under
    snaps,      \* snapshot files, in directories of their own
    kept,       \* those a power loss leaves
    seals,      \* envelopes sealed so far
    candidate,  \* prepared identity upgrades of each directory
    known,      \* the passwords the operator may need there
    displayed,  \* recovery codes the operator has seen
    code,       \* the code that no ceremony has replaced since, 0 if none
    settled,    \* directories in which a change was reported done
    restored,   \* the installation fully restored into the directory, 0 if none
    strays,     \* installations that init made where an inventory was left, or
                \* whose access file it removed before it was in use
    removed     \* directories where it removed one that was in use by then

vars == <<disk, survive, job, init, initAt, server, session, snaps, kept, seals,
          candidate, known, displayed, code, settled, restored, strays, removed>>

\* A sealed envelope.  Its revision is unique; an identity and a recovery code
\* are named after the revision that made them, 0 being none.
Envelopes == [rev : 1 .. MaxSeals, id : 0 .. MaxSeals, pass : Passwords,
              ready : BOOLEAN, code : 0 .. MaxSeals]

\* An inventory image: the installation it belongs to, and whether anything
\* was committed to it.
Images == [id : 1 .. MaxSeals, used : BOOLEAN]

Snapshots == [access : Envelopes, image : Images \cup {NoFile}]

ASSUME FilesAssumption == {NoFile, Torn} \cap (Envelopes \cup Images) = {}

Whole(f) == f \notin {NoFile, Torn}

NoJob == [kind |-> "none", todo |-> <<>>, access |-> NoFile, image |-> NoFile,
          rev |-> 0]

Ceremonies == {"enroll", "rotate", "reset", "export", "initialize", "restore"}

\* Create, step by step: the name is taken, its bytes are written, and synced.
InitStages == {"none", "created", "written", "synced"}

TypeOK ==
    /\ disk \in [Dirs -> [access : Envelopes \cup {NoFile, Torn},
                          inventory : Images \cup {NoFile, Torn}]]
    /\ \A d \in Dirs :
         /\ disk[d].access \in survive[d].access
         /\ disk[d].inventory \in survive[d].inventory
         /\ job[d].kind \in Ceremonies \cup {"none", "change", "upgrade", "commit"}
         /\ init[d] \in Envelopes \cup {NoFile}
         /\ initAt[d] \in InitStages /\ (initAt[d] = "none" <=> init[d] = NoFile)
         /\ known[d] \subseteq Passwords
         /\ code[d] \in displayed \cup {0}
         /\ server = d => job[d].kind \notin Ceremonies
    /\ server \in Dirs \cup {Nowhere}
    /\ session \in [Sessions -> 0 .. seals]
    /\ kept \subseteq snaps /\ snaps \subseteq Snapshots
    /\ removed \subseteq Dirs
    /\ seals \in 0 .. MaxSeals

Init ==
    \E old \in [Legacy -> {NoFile} \cup
                 [rev : {1}, id : {0}, pass : Passwords, ready : {TRUE}, code : {0}]] :
      LET access(d) == IF d \in Legacy THEN old[d] ELSE NoFile IN
      /\ disk = [d \in Dirs |-> [access |-> access(d), inventory |-> NoFile]]
      /\ survive = [d \in Dirs |-> [access |-> {access(d)}, inventory |-> {NoFile}]]
      /\ known = [d \in Dirs |-> IF access(d) = NoFile THEN {} ELSE {access(d).pass}]
      /\ settled = {d \in Dirs : access(d) # NoFile}
      /\ seals = IF settled = {} THEN 0 ELSE 1
      /\ job = [d \in Dirs |-> NoJob]
      /\ init = [d \in Dirs |-> NoFile] /\ initAt = [d \in Dirs |-> "none"]
      /\ server = Nowhere
      /\ session = [s \in Sessions |-> 0]
      /\ snaps = {} /\ kept = {}
      /\ candidate = [d \in Dirs |-> {}]
      /\ displayed = {}
      /\ code = [d \in Dirs |-> 0]
      /\ restored = [d \in Dirs |-> 0]
      /\ strays = {} /\ removed = {}

----------------------------------------------------------------------------
(* Envelopes and locks                                                     *)

\* withAccessWriteLock: a busy lock is an error, so a writer finds it free.
Free(d) == job[d] = NoJob

\* Mutant: a ceremony does not ask whether the server runs.
OperationIgnored(d) == Free(d)

\* AcquireOperationLock: no server and no other ceremony in the directory.
OperationFree(d) == Free(d) /\ server # d

\* The next revision; a fresh salt and nonce make it unlike any other.
NextRev == seals + 1
Sealing == seals < MaxSeals /\ seals' = NextRev

\* Mutant: the wrap is not carried into the new envelope.
ResealedWithoutWrap(a, p) ==
    [rev |-> NextRev, id |-> a.id, pass |-> p, ready |-> TRUE, code |-> 0]

\* sealWithRecovery by a password change: key, identity and wrap are kept.
Resealed(a, p) ==
    [rev |-> NextRev, id |-> a.id, pass |-> p, ready |-> TRUE, code |-> a.code]

\* changeRecoveryLocked: a new code wraps the same key.
Recoded(a, p) ==
    [rev |-> NextRev, id |-> a.id, pass |-> p, ready |-> TRUE, code |-> NextRev]

\* Which recovery action is open to an envelope; the operator must hold the
\* password, or for a reset the code.
Recoverable(a, kind) ==
    /\ a.ready /\ a.id # 0
    /\ CASE kind = "enroll" -> a.code = 0
         [] kind = "rotate" -> a.code # 0
         [] kind = "reset" -> a.code \in displayed

\* createAccessSnapshot: both the password and the code are proven.
SnapshotAllowed(a) == a.ready /\ a.code \in displayed

----------------------------------------------------------------------------
(* Mutants of the ceremonies                                               *)

\* A code is shown once the file is renamed.
ScriptShownEarly(kind) ==
    CASE kind \in {"change", "upgrade"} -> <<"replace", "sync">>
      [] kind \in {"enroll", "rotate", "reset"} -> <<"replace">>
      [] kind = "export" -> <<"snapshot", "keep">>
      [] kind = "initialize" -> <<"snapshot", "keep", "create inventory",
                                  "write inventory", "sync">>
      [] kind = "restore" -> <<"create inventory", "write inventory", "sync",
                               "create access", "write access", "sync">>

\* A password change is reported before its rename is durable.
ScriptUnsynced(kind) ==
    CASE kind \in {"change", "upgrade"} -> <<"replace">>
      [] kind \in {"enroll", "rotate", "reset"} -> <<"replace", "sync", "check">>
      [] kind = "export" -> <<"snapshot", "keep">>
      [] kind = "initialize" -> <<"snapshot", "keep", "create inventory",
                                  "write inventory", "sync">>
      [] kind = "restore" -> <<"create inventory", "write inventory", "sync",
                               "create access", "write access", "sync">>

\* The inventory is enabled before its snapshot is safe, and a restored one
\* is not synced before the access file is written.
ScriptReordered(kind) ==
    CASE kind \in {"change", "upgrade"} -> <<"replace", "sync">>
      [] kind \in {"enroll", "rotate", "reset"} -> <<"replace", "sync", "check">>
      [] kind = "export" -> <<"snapshot", "keep">>
      [] kind = "initialize" -> <<"snapshot", "create inventory",
                                  "write inventory", "sync", "keep">>
      [] kind = "restore" -> <<"create inventory", "write inventory",
                               "create access", "write access", "sync">>

----------------------------------------------------------------------------
(* The file system steps of a ceremony                                     *)

Script(kind) ==
    CASE kind = "change" -> <<"replace", "sync">>
      [] kind \in {"upgrade", "enroll", "rotate", "reset"} ->
             <<"replace", "sync", "check">>
      [] kind = "export" -> <<"snapshot", "keep", "check">>
      [] kind = "initialize" ->
             <<"snapshot", "keep", "check",
               "create inventory", "write inventory", "sync", "check">>
      [] kind = "restore" ->
             <<"create inventory", "write inventory", "sync", "check",
               "create access", "write access", "sync", "check">>

\* A restore of an access-only snapshot has no inventory to write.
AccessOnly == <<"create access", "write access", "sync", "check">>

Start(d, kind, todo, access, image) ==
    job' = [job EXCEPT ![d] = [kind |-> kind, todo |-> todo, access |-> access,
                               image |-> image, rev |-> 0]]

\* The step s is next in d, and is done.
Doing(d, s) ==
    /\ job[d].todo # <<>> /\ Head(job[d].todo) = s
    /\ job' = [job EXCEPT ![d].todo = Tail(@)]

Put(d, file, f) ==
    /\ disk' = [disk EXCEPT ![d][file] = f]
    /\ survive' = [survive EXCEPT ![d][file] = @ \cup {f}]

\* replace: a synced temporary file is renamed over access.json.  From now on
\* either password may be the one that opens it, and no code is sure to.
Replace(d) ==
    /\ Doing(d, "replace")
    /\ Put(d, "access", job[d].access)
    /\ known' = [known EXCEPT ![d] = @ \cup {job[d].access.pass}]
    /\ code' = [code EXCEPT ![d] = IF job[d].kind \in {"enroll", "rotate", "reset"}
                                   THEN 0 ELSE @]
    /\ UNCHANGED <<init, initAt, server, session, snaps, kept, seals, candidate,
                   displayed, settled, restored, strays, removed>>

\* O_EXCL: the name is taken, with nothing in it yet.  Until the directory is
\* synced a power loss may leave the name with or without its bytes.
CreateFile(d, file) ==
    /\ disk[d][file] = NoFile
    /\ Put(d, file, Torn)

CreateInventory(d) ==
    /\ Doing(d, "create inventory")
    /\ CreateFile(d, "inventory")
    /\ UNCHANGED <<init, initAt, server, session, snaps, kept, seals, candidate,
                   known, displayed, code, settled, restored, strays, removed>>

WriteInventory(d) ==
    /\ Doing(d, "write inventory")
    /\ Put(d, "inventory", job[d].image)
    /\ UNCHANGED <<init, initAt, server, session, snaps, kept, seals, candidate,
                   known, displayed, code, settled, restored, strays, removed>>

CreateAccess(d) ==
    /\ Doing(d, "create access")
    /\ CreateFile(d, "access")
    /\ UNCHANGED <<init, initAt, server, session, snaps, kept, seals, candidate,
                   known, displayed, code, settled, restored, strays, removed>>

WriteAccess(d) ==
    /\ Doing(d, "write access")
    /\ Put(d, "access", job[d].access)
    /\ known' = [known EXCEPT ![d] = @ \cup {job[d].access.pass}]
    /\ UNCHANGED <<init, initAt, server, session, snaps, kept, seals, candidate,
                   displayed, code, settled, restored, strays, removed>>

\* syncAccessDirectory: every name in it is as it reads.
Sync(d) ==
    /\ Doing(d, "sync")
    /\ survive' = [survive EXCEPT ![d] = [access |-> {disk[d].access},
                                          inventory |-> {disk[d].inventory}]]
    /\ UNCHANGED <<disk, init, initAt, server, session, snaps, kept, seals,
                   candidate, known, displayed, code, settled, restored, strays,
                   removed>>

Snapshot(d) == [access |-> job[d].access, image |-> job[d].image]

WriteSnapshot(d) ==
    /\ Doing(d, "snapshot")
    /\ snaps' = snaps \cup {Snapshot(d)}
    /\ UNCHANGED <<disk, survive, init, initAt, server, session, kept, seals,
                   candidate, known, displayed, code, settled, restored, strays,
                   removed>>

KeepSnapshot(d) ==
    /\ Doing(d, "keep")
    /\ kept' = kept \cup {Snapshot(d)}
    /\ UNCHANGED <<disk, survive, init, initAt, server, session, snaps, seals,
                   candidate, known, displayed, code, settled, restored, strays,
                   removed>>

\* What was written is read back and compared: the snapshot, the inventory, and
\* at last the access file, which a failing init may have taken away.
Check(d) ==
    /\ Doing(d, "check")
    /\ Tail(job[d].todo) = <<>> /\ job[d].kind \notin {"export", "initialize"}
       => disk[d].access = job[d].access
    /\ UNCHANGED <<disk, survive, init, initAt, server, session, snaps, kept,
                   seals, candidate, known, displayed, code, settled, restored,
                   strays, removed>>

\* The ceremony answers: the password is the one of the new file, and the code
\* it made, or the one of the snapshot, is the operator's.
Answer(d) ==
    LET j == job[d] IN
    /\ j.kind \notin {"none", "commit"} /\ j.todo = <<>>
    /\ job' = [job EXCEPT ![d] = NoJob]
    /\ displayed' = displayed \cup ({j.access.code} \ {0})
    /\ IF j.kind \in {"export", "initialize"}
       THEN UNCHANGED <<known, code, settled>>
       ELSE /\ known' = [known EXCEPT ![d] = {j.access.pass}]
            /\ code' = [code EXCEPT ![d] = IF j.kind \in {"change", "upgrade"}
                                           THEN @ ELSE j.access.code]
            /\ settled' = settled \cup {d}
    /\ UNCHANGED <<disk, survive, init, initAt, server, session, snaps, kept,
                   seals, candidate, restored, strays, removed>>

\* A step fails: nothing has changed, or the answer is that it is uncertain.
Fail(d) ==
    /\ job[d].todo # <<>>
    /\ job' = [job EXCEPT ![d] = NoJob]
    /\ UNCHANGED <<disk, survive, init, initAt, server, session, snaps, kept,
                   seals, candidate, known, displayed, code, settled, restored,
                   strays, removed>>

----------------------------------------------------------------------------
(* init                                                                    *)

\* Create: under no lock, in any directory without an access file.  The
\* password was shown and confirmed before.
BeginInit(d) ==
    /\ init[d] = NoFile /\ CreateFile(d, "access") /\ Sealing
    /\ \E p \in Passwords :
         init' = [init EXCEPT ![d] = [rev |-> NextRev, id |-> NextRev, pass |-> p,
                                      ready |-> FALSE, code |-> 0]]
    /\ initAt' = [initAt EXCEPT ![d] = "created"]
    /\ strays' = IF disk[d].inventory = NoFile /\ Free(d) THEN strays
                 ELSE strays \cup {NextRev}
    /\ UNCHANGED <<job, server, session, snaps, kept, candidate, known, displayed,
                   code, settled, restored, removed>>

\* The file is whole, and may be served, before it is synced.  If another file
\* was renamed over the name since, the bytes go into one that has no name.
WriteInit(d) ==
    /\ initAt[d] = "created"
    /\ initAt' = [initAt EXCEPT ![d] = "written"]
    /\ IF disk[d].access = Torn
       THEN /\ Put(d, "access", init[d])
            /\ known' = [known EXCEPT ![d] = @ \cup {init[d].pass}]
       ELSE UNCHANGED <<disk, survive, known>>
    /\ UNCHANGED <<job, init, server, session, snaps, kept, seals, candidate,
                   displayed, code, settled, restored, strays, removed>>

\* Its bytes are on disk; as the directory is not synced, its name may not be.
SyncInit(d) ==
    /\ initAt[d] = "written"
    /\ initAt' = [initAt EXCEPT ![d] = "synced"]
    /\ UNCHANGED <<disk, survive, job, init, server, session, snaps, kept, seals,
                   candidate, known, displayed, code, settled, restored, strays,
                   removed>>

InitOver(d) ==
    /\ init' = [init EXCEPT ![d] = NoFile]
    /\ initAt' = [initAt EXCEPT ![d] = "none"]

\* It is closed.
EndInit(d) ==
    /\ initAt[d] = "synced"
    /\ InitOver(d)
    /\ UNCHANGED <<disk, survive, job, server, session, snaps, kept, seals, candidate,
                   known, displayed, code, settled, restored, strays, removed>>

\* The access file of d is in use: a change of it was reported, or is at work.
InUse(d) == d \in settled \/ job[d].kind \notin {"none", "restore"}

\* A write, sync or close that fails removes access.json by its name, under no
\* lock: whatever file stands there by now.
FailInit(d) ==
    /\ init[d] # NoFile
    /\ Put(d, "access", NoFile)
    /\ InitOver(d)
    /\ strays' = IF initAt[d] = "created" \/ InUse(d) THEN strays
                 ELSE strays \cup {init[d].id}
    /\ removed' = IF InUse(d) THEN removed \cup {d} ELSE removed
    /\ UNCHANGED <<job, server, session, snaps, kept, seals, candidate, known,
                   displayed, code, settled, restored>>

----------------------------------------------------------------------------
(* The server                                                              *)

Serve(d) ==
    /\ server = Nowhere /\ OperationFree(d)
    /\ disk[d].access # NoFile
    /\ server' = d
    /\ UNCHANGED <<disk, survive, job, init, initAt, session, snaps, kept,
                   seals, candidate, known, displayed, code, settled, restored,
                   strays, removed>>

SignIn(s) ==
    /\ server # Nowhere
    /\ Whole(disk[server].access) /\ disk[server].access.ready
    /\ session' = [session EXCEPT ![s] = disk[server].access.rev]
    /\ UNCHANGED <<disk, survive, job, init, initAt, server, snaps, kept, seals,
                   candidate, known, displayed, code, settled, restored, strays,
                   removed>>

\* change: the initial password, or a later one, is replaced by another.
ChangePassword(d) ==
    /\ server = d /\ Free(d)
    /\ Whole(disk[d].access)
    /\ \E p \in Passwords \ {disk[d].access.pass} :
         Start(d, "change", Script("change"), Resealed(disk[d].access, p), NoFile)
    /\ Sealing
    /\ UNCHANGED <<disk, survive, init, initAt, server, session, snaps, kept,
                   candidate, known, displayed, code, settled, restored, strays,
                   removed>>

\* Mutant: it is enough that the session was signed in.
CurrentOnce(d, s) == session[s] # 0

\* checkInventoryRevision, under the writer lock, by every inventory write.
Current(d, s) == session[s] = disk[d].access.rev

\* A session's change of the inventory; ImageFile has its steps.
Commit(d, s) ==
    /\ server = d /\ Free(d)
    /\ Whole(disk[d].access) /\ Current(d, s)
    /\ Whole(disk[d].inventory) /\ disk[d].inventory.id = disk[d].access.id
    /\ job' = [job EXCEPT ![d] = [NoJob EXCEPT !.kind = "commit", !.rev = session[s],
                                   !.image = [disk[d].inventory EXCEPT !.used = TRUE]]]
    /\ UNCHANGED <<disk, survive, init, initAt, server, session, snaps, kept,
                   seals, candidate, known, displayed, code, settled, restored,
                   strays, removed>>

\* The image is renamed over the old one, and its directory synced or not.
EndCommit(d) ==
    /\ job[d].kind = "commit"
    /\ job' = [job EXCEPT ![d] = NoJob]
    /\ disk' = [disk EXCEPT ![d].inventory = job[d].image]
    /\ survive' = [survive EXCEPT
         ![d].inventory = IF @ = {job[d].image} THEN @ ELSE @ \cup {job[d].image}]
    /\ UNCHANGED <<init, initAt, server, session, snaps, kept, seals, candidate,
                   known, displayed, code, settled, restored, strays, removed>>

----------------------------------------------------------------------------
(* The ceremonies                                                          *)

\* PrepareIdentityUpgrade reads without a lock and writes nothing.
Prepare(d) ==
    /\ Whole(disk[d].access) /\ disk[d].access.ready /\ disk[d].access.id = 0
    /\ candidate' = [candidate EXCEPT ![d] = @ \cup
         {[expected |-> disk[d].access.rev,
           access |-> [disk[d].access EXCEPT !.rev = NextRev, !.id = NextRev]]}]
    /\ Sealing
    /\ UNCHANGED <<disk, survive, job, init, initAt, server, session, snaps,
                   kept, known, displayed, code, settled, restored, strays,
                   removed>>

\* Mutant: it is enough that the password opens both.
FreshByPassword(d, c) == disk[d].access.pass = c.access.pass

\* commitIdentityUpgradeLocked: the candidate was made from this very file.
Fresh(d, c) ==
    /\ disk[d].access.rev = c.expected
    /\ disk[d].access.pass = c.access.pass
    /\ disk[d].access.ready /\ disk[d].access.id = 0

CommitUpgrade(d) ==
    /\ Free(d) /\ Whole(disk[d].access)
    /\ \E c \in candidate[d] :
         /\ Fresh(d, c)
         /\ Start(d, "upgrade", Script("upgrade"), c.access, NoFile)
    /\ UNCHANGED <<disk, survive, init, initAt, server, session, snaps, kept,
                   seals, candidate, known, displayed, code, settled, restored,
                   strays, removed>>

ChangeRecovery(d, kind) ==
    /\ OperationFree(d)
    /\ Whole(disk[d].access) /\ Recoverable(disk[d].access, kind)
    /\ \E p \in IF kind = "reset" THEN Passwords ELSE {disk[d].access.pass} :
         Start(d, kind, Script(kind), Recoded(disk[d].access, p), NoFile)
    /\ Sealing
    /\ UNCHANGED <<disk, survive, init, initAt, server, session, snaps, kept,
                   candidate, known, displayed, code, settled, restored, strays,
                   removed>>

\* ExportFullSnapshot of access file and inventory, or ExportAccessSnapshot.
Export(d) ==
    /\ OperationFree(d)
    /\ Whole(disk[d].access) /\ SnapshotAllowed(disk[d].access)
    /\ Cardinality(snaps) < MaxSnapshots
    /\ \E image \in {disk[d].inventory, NoFile} :
         /\ Whole(image) => image.id = disk[d].access.id
         /\ image # Torn
         /\ Start(d, "export", Script("export"), disk[d].access, image)
    /\ UNCHANGED <<disk, survive, init, initAt, server, session, snaps, kept,
                   seals, candidate, known, displayed, code, settled, restored,
                   strays, removed>>

\* InitializeInventory: the snapshot holds the empty image that is planned.
InitializeInventory(d) ==
    /\ OperationFree(d)
    /\ Whole(disk[d].access) /\ SnapshotAllowed(disk[d].access)
    /\ disk[d].inventory = NoFile
    /\ Cardinality(snaps) < MaxSnapshots
    /\ Start(d, "initialize", Script("initialize"), disk[d].access,
             [id |-> disk[d].access.id, used |-> FALSE])
    /\ UNCHANGED <<disk, survive, init, initAt, server, session, snaps, kept,
                   seals, candidate, known, displayed, code, settled, restored,
                   strays, removed>>

\* RestoreFullSnapshot and RestoreAccessSnapshot, into an empty directory.
Restore(d) ==
    /\ OperationFree(d)
    /\ disk[d] = [access |-> NoFile, inventory |-> NoFile]
    /\ \E s \in snaps :
         /\ Start(d, "restore", IF Whole(s.image) THEN Script("restore") ELSE AccessOnly,
                  s.access, s.image)
         /\ restored' = [restored EXCEPT ![d] = IF Whole(s.image) THEN s.access.id ELSE 0]
    /\ UNCHANGED <<disk, survive, init, initAt, server, session, snaps, kept,
                   seals, candidate, known, displayed, code, settled, strays,
                   removed>>

----------------------------------------------------------------------------
(* Deaths                                                                  *)

NoServer == server' = Nowhere /\ session' = [s \in Sessions |-> 0]

\* The server, or the ceremony of d, ends or dies.
Stop(d) ==
    /\ server = d \/ job[d] # NoJob
    /\ job' = [job EXCEPT ![d] = NoJob]
    /\ IF server = d THEN NoServer ELSE UNCHANGED <<server, session>>
    /\ UNCHANGED <<disk, survive, init, initAt, snaps, kept, seals, candidate,
                   known, displayed, code, settled, restored, strays, removed>>

KillInit(d) ==
    /\ init[d] # NoFile
    /\ InitOver(d)
    /\ UNCHANGED <<disk, survive, job, server, session, snaps, kept, seals,
                   candidate, known, displayed, code, settled, restored, strays,
                   removed>>

PowerLoss ==
    /\ \E d \in Dirs : job[d] # NoJob \/ init[d] # NoFile \/ server = d
    /\ disk' \in [Dirs -> [access : UNION {survive[d].access : d \in Dirs},
                           inventory : UNION {survive[d].inventory : d \in Dirs}]]
    /\ \A d \in Dirs : /\ disk'[d].access \in survive[d].access
                       /\ disk'[d].inventory \in survive[d].inventory
    /\ survive' = [d \in Dirs |-> [access |-> {disk'[d].access},
                                   inventory |-> {disk'[d].inventory}]]
    /\ snaps' = kept
    /\ job' = [d \in Dirs |-> NoJob]
    /\ init' = [d \in Dirs |-> NoFile] /\ initAt' = [d \in Dirs |-> "none"]
    /\ NoServer
    /\ UNCHANGED <<kept, seals, candidate, known, displayed, code, settled,
                   restored, strays, removed>>

Next ==
    \/ \E d \in Dirs :
         \/ Replace(d) \/ CreateInventory(d) \/ WriteInventory(d)
         \/ CreateAccess(d) \/ WriteAccess(d) \/ Sync(d)
         \/ WriteSnapshot(d) \/ KeepSnapshot(d) \/ Check(d)
         \/ Answer(d) \/ Fail(d)
         \/ BeginInit(d) \/ WriteInit(d) \/ SyncInit(d) \/ EndInit(d)
         \/ FailInit(d) \/ KillInit(d)
         \/ Serve(d) \/ ChangePassword(d)
         \/ \E s \in Sessions : Commit(d, s)
         \/ EndCommit(d)
         \/ Prepare(d) \/ CommitUpgrade(d)
         \/ \E kind \in {"enroll", "rotate", "reset"} : ChangeRecovery(d, kind)
         \/ Export(d) \/ InitializeInventory(d) \/ Restore(d)
         \/ Stop(d)
    \/ \E s \in Sessions : SignIn(s)
    \/ PowerLoss

Spec == Init /\ [][Next]_vars

----------------------------------------------------------------------------
(* Properties                                                              *)

\* The exception to all of them: Create takes no lock, so that the server may
\* serve the new file and change its password while init still syncs it; where
\* that sync or the close then fails, init removes the changed file, and nothing
\* more is promised of the directory.
Intact == Dirs \ removed

\* Whatever file a power loss leaves opens with a password that the operator
\* was told may be needed: the last one reported, or one of a change since
\* whose outcome was not reported as done.  Once a change was reported, there
\* is always such a file.
PasswordKnown ==
    \A d \in Intact : \A f \in survive[d].access :
        /\ Whole(f) => f.pass \in known[d]
        /\ d \in settled => Whole(f)

\* A recovery code that was shown opens the file, power loss or not, through
\* every password change, until another recovery ceremony writes a file.
CodeWorks ==
    \A d \in Intact : code[d] # 0 =>
        \A f \in survive[d].access : Whole(f) /\ f.code = code[d]

\* The operator can open what there is.
Unlockable == TypeOK /\ PasswordKnown /\ CodeWorks

\* The inventory belongs to the installation of the access file beside it,
\* except beside an access file that init made where an inventory was left by
\* a restore cut short, or one that a failing init removed and a power loss
\* brought back.
InventoryOpens ==
    \A d \in Intact : \A a \in survive[d].access, i \in survive[d].inventory :
        Whole(a) /\ Whole(i) /\ a.id \notin strays => a.id = i.id

\* An access file that a full restore wrote never stands beside an inventory
\* that is absent or torn, whatever cut the restore short.
RestoredWhole ==
    \A d \in Intact : \A a \in survive[d].access :
        Whole(a) /\ restored[d] # 0 /\ a.id = restored[d]
        => \A i \in survive[d].inventory : Whole(i)

\* From the moment an inventory that was not restored may exist, even one cut
\* short as it was made, a complete snapshot of its installation does, on disk.
BackedUp ==
    \A d \in Intact :
        restored[d] = 0 /\ survive[d].inventory # {NoFile} =>
          \E s \in kept : /\ Whole(s.image)
                          /\ \A i \in survive[d].inventory : Whole(i) => s.image.id = i.id

\* What stands beside an access file is whole, fits it, and has a backup.
FilesMatch == InventoryOpens /\ RestoredWhole /\ BackedUp

\* No session writes the inventory under another access file than the one it
\* signed in with: a password that was changed has no writers left.
NoRevokedWrite ==
    [][\A d \in Intact : job[d].kind = "commit" /\ disk'[d].inventory # disk[d].inventory
         => disk[d].access.rev = job[d].rev]_vars

==============================================================================
