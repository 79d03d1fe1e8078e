# Rootwell: a TLA+ model of its certificate inventory and issuance flow

Rootwell keeps TLS certificates and their private keys in one encrypted inventory
image and obtains new ones from the Let's Encrypt staging CA. It is one server
(`cmd/rootwelld`) and a few offline commands on a Linux host. What is hard about it
is not the cryptography but the protocol: a request at the CA that must be made at
most once, decided by a program that can crash between deciding and hearing the
answer, and recorded in a file that several processes replace.

Paths below are relative to `src/`.

## 1. Inventory of the system

| component | state it keeps | operations | what makes it correct |
|---|---|---|---|
| **staging request lifecycle** `internal/inventorystore/{orders,validation,certificate_requests,issuance,completion,closed_requests,renewal}.go`, driven by `internal/instanceaccess/acme_*_linux.go` | in the image: one order, one prepared key and CSR, one issuance intent/completion, the closed requests | place/resume an order, acknowledge DNS, validate, prepare a key, issue or fetch, save, close, renew, delete | accept and finalize at most once; no intent forgotten; a key is in one place; deadlines only narrow; the image always decodes |
| **CA transport** `internal/acmestaging` | none | `NewOrder`, `GetOrder`, `Accept`, `CreateOrderCert`, `FetchCert` | a mutation is sent only by the operation that owns it |
| **inventory image file** `internal/instanceaccess/{inventory,snapshot,access_lock}_linux.go` | `inventory` file, lock file, temporary files | read, replace, first creation, export, restore | never torn; reported is durable; no lost update |
| **image codec** `internal/inventorystore/manifest.go` | generation, records, history | decode (authenticates everything against everything), append, label, delete | what an operation commits, the next one can decode |
| **history, generation and record budget** `history.go`, `history_archive.go`, `request_archive.go` | 1024-event history, archives, reservations | add event, archive, reserve | a pending operation's outcome is never refused for want of room |
| **DNS plan** `dns_plan.go`, `dns_operation.go`, `dns_maintenance.go` | per record: create, check and cleanup attempts | prepare, begin, finish, defer, clean up | a record is created once, cleaned up if it may exist, retried at most six times |
| **provider wait, retry policy** `renewal_wait.go`, `ca_operation_wait.go`, `internal/providerretry` | earliest next contact | constrain, permit | a wait is never shortened, also across restarts |
| **renewal timing** `renewal_timing*.go`, `internal/renewalpolicy` | timing plan, attempt | begin, finish, interrupt, select | one use per attempt; the moment lies in the window |
| **cycle decision** `renewal_cycle.go`, `renewal_result.go` | none (derived) | next action | the action it names is enabled and makes progress |
| **renewal job, watch, gate** `cmd/rootwelld/{gate,renewal_job,timing_watch}*.go` | sessions, two background workers, mutex | log in/out, start, tick, pause, cancel, shut down | a worker never acts for a revoked session; everything ends |
| **account registration** `account_registration.go` | registration intent | prepare, begin, finish, reconcile | same key, one registration |
| **access store** `internal/instanceaccess/{access,recovery*,*snapshot}*.go` | `access.json`, snapshots | password change, upgrade, enroll, rotate, recover, restore | one of two passwords opens after any crash |
| **inventory records** `materials.go`, `keys.go`, `internal/publicinventory` | records, labels, attached keys | import, attach, label, delete | changes are made to what was displayed |
| certificate tools, CLI, browser bundle, probe, pages | none | parse, convert, verify | stateless |

Interaction. A page posts an operation with the generation it displays; the gate
checks the session and calls `instanceaccess`, which takes the access writer lock
(`flock`, never waiting), checks the access revision, reads and decodes the image,
asks `inventorystore` for the next image, replaces the file, perhaps calls
`acmestaging` **while holding the lock**, and replaces the file again with the
outcome. Background workers (renewal job, timing watch) do the same without a page.
So operations do not interleave with each other on the image; they interleave with
crashes, with the clock, with the CA and with requests still travelling to it, and,
at file level, with failures of every system call.

The hard behaviours, each at its line and with the property that covers it or the
reason none does, are the `hazards` of `PROJECT.json`.

## 2. What is modelled

### StagingRequest (core)

One certificate request from the CA order to the saved pair and its deletion, and
the closed requests behind it.

| variable | code |
|---|---|
| `order`, `request`, `issuance` | `ACMEOrders`, `ACMECertificateRequests`, `ACMEIssuances` of the manifest (`orderPayload`, `certificateRequestPayload`, `issuancePayload`) |
| `closed` | `allClosedRequests`, the live ledger and its archives as one sequence |
| `certs` | `Records` and `Materials` of each issued certificate: absent, public, or a pair with its key |
| `op` | the operation that holds the writer lock between its two commits: what it is, when its permit was taken, which order it is about, and what the CA last said |
| `now` | `time.Now()` in seconds; can be allowed to step back |
| `ca`, `accepted`, `finalized` | the CA (external), and the requests that left for it |

Each action is one critical stretch of one operation. The begin-actions
(`BeginOrder`, `BeginValidation`, `BeginIssuance`, `BeginFetch`, `BeginResume`) are
lock, decode, guard, commit of the intent. `NewOrder`, `ReadStatus`, `SendAccept`,
`SendFinalize`, `ReadFinalizeAnswer` are the conversation with the CA. `Checkpoint`
commits the order's URL before its body is read. The finish-actions commit the
outcome. `Abandon` is every way an operation can end without one: a crash of the
process, a revoked session, a lost answer, a refused or uncertain commit. An action
that checks its result by decoding it, as all but two in the code do, ends in
`Authentic'`. `Append` and `DeleteRecord` do not decode what they commit, and
neither do the model's `ImportCertificate` and `DeleteRecord`: this is what the two
findings are about.

`Authentic` is `decode`: the conditions under which each scope opens
(`OrderAuthentic` is `openOrder`, and so on) and those between closed scopes
(`authenticateClosedRequests`). It guards every operation, as in the code.

Abstractions. An order URL stands for the order, its key and its certificate: the
code makes one fresh key per order and matches the certificate against it.
Deadlines are read from the CA, so any value is possible. Stamps are seconds, 0 is
the empty string. Image generations, which also order tombstones against closures,
are the number of requests closed so far (`deletedAfter`). Generation checks make
stale pages fail before they do anything, so stale pages are not in this module;
ImageFile has them. The account is registered before the first order.

**IssuanceAuthority** is the abstract specification: per order, a stage that moves
from unknown through located, leased, spent (or forfeited), saved and deleted, or to
expired, with one active order. `StagingRequest` implements it under the mapping
`Stage` (`ImplementsAuthority`).

### ImageFile

`replaceInventoryWithHooks` under `withAccessWriteLock`, step by step: temporary
file, file sync, rename, directory sync, readback, for any number of concurrent
requests and commands (`Workers`), several commits under one lock, pages with old
generations (`shown`), failures and kills at each step, and power losses.

| variable | code or system |
|---|---|
| `visible` | the inventory file as `readInventory` finds it |
| `entry` | what the directory on disk names: what a power loss leaves |
| `flushed` | images whose file was synced |
| `lock`, `worker` | `flock` and the progress of each holder |
| `shown` | the image whose generation the worker's page displays (`expected`) |
| `outcome` | what the caller of each commit was told: `nil` (reported), an error before or at the rename (refused), `ErrInventoryUncertain` or nothing (uncertain) |

File-system assumption: a rename is atomic and reaches the disk at any time, or at
the latest when the directory is synced; a file's bytes are certain only once
synced. A directory sync that fails and is later followed by one that succeeds is
taken to have persisted both renames. The access revision check
(`checkInventoryRevision`) is part of AccessStore. `AppendInventory` takes no
generation and is modelled so (`Imports`).

**ImageRegister** is its abstract specification: a value that grows a commit at a
time, may fall back to what has settled, and has settled whatever was promised.

**How they compose.** StagingRequest takes each commit to be one atomic step that
either happens durably before the operation goes on, or leaves the operation
abandoned. This is what ImageFile shows of the file: an operation continues only
after `reported`, and a reported commit is in every later image
(`FileHonest`, `NothingOverwritten`). An *uncertain* commit is a step of
StagingRequest followed by `Abandon`. The one behaviour of ImageFile that
StagingRequest lacks is a power loss that undoes an uncertain commit: nothing has
been sent on the strength of it, so it is as if the operation had been abandoned
before it began, unless a later operation that only reads the CA has meanwhile been
answered, which authorizes nothing either.

### DnsPlan, with ProviderRetry

The challenge TXT records of one order: `PrepareStagingDNSPlan`, `RunStagingDNS` in
its five modes, and the Cloudflare configuration the plan depends on. `rows` is
`dnsPlanRecord` (state, provider id, and per phase the attempts, the recovery
attempts and the operator's maintenance); `plan`, `config` and `order` are what of
the plan, the configuration and the order the operations read. `zone` is the DNS
zone, `wire` the mutations that left and have not arrived.

`Begin` is `beginDNSOperationAt` and its commit. `ListForCreate`, `ReadForCleanup`,
`ConfirmMissing`, `Send`, `Confirmed` and `FailCall` are the paths of
`executeStagingDNSAttemptAt` and the Cloudflare client through one call; `SaveOutcome`
is the second commit, whose stamps are read at another moment than the permit's
(`Published`, `Receipt`). `Abandon` is a crash, a withdrawn permit or a failed
commit. `Handle` and `Drop` let a mutation arrive late or never; `OthersAdd` and
`OthersChange` are other users of the zone. `ProviderRetry` is
`internal/providerretry`: attempts, doubling waits, hints that only lengthen.

### EventBudget

The image as the limits see it: generations, history events, records, closed requests,
archive pages, and which answers are owed. `Commit` is `addEvent` together with what
sealing and decoding demand (`Admitted`); `DnsTotalReserve`, `OrderReserve`,
`RowReserve` and `IssuanceCapacity` are the reservation functions, each kept as the
code computes it, since the hazard is that writer, reader and page count differently.
Every operation of the other modules appears with its effect on the counts. Clocks
and providers are left out, so each outcome is possible whenever it is owed.

### RenewalTiming, with RenewalPolicy

When a certificate is renewed: `plan` is `timingPayload` of each certificate, `wait` the
CA-wide saved wait, `stamped` the latest event stamp (an older clock is refused). A
read is `BeginRead` (intent), `Call` under a lease, and one of `ReadInformation`,
`Unsupported`, `ReadFails`; `Interrupt` ends a read whose process died. `BeginOperation`,
`Send`, `EndOperation` stand for every other operation that contacts the CA and saves
its wait. `Delete` and `Supersede` are what the rest of the inventory does to a plan.
`asked` and `quiet` are history variables: what the saved answers asked for, and how
much time has really passed since the CA was asked about a certificate. `CallsSpaced` is
about that time and not about the host's clock: if the clock steps back while a read is
on its way, two calls can carry stamps less than a minute apart.
`RenewalPolicy` is the pure part: fallback window, clipping, the draw (any moment of
the window), the next check.

### AccessStore

The access file, the inventory beside it, and the ceremonies: init, password change,
identity upgrade, recovery enrolment, rotation and reset, inventory initialization,
export, full and access-only restore. A ceremony is a list of file-system steps
(`Script`), so that the order of writes, syncs, readback and answer is data that a
run can get wrong. `disk` is what a reader finds, `survive` every content a power loss
may leave; `known`, `displayed` and `code` are what the operator was told, which is
what the properties hold the files to.

`Create` (init) is the one writer without the lock, and has its steps for itself:
`BeginInit` creates the name exclusively, `WriteInit` makes the file whole (from then on
the server may serve it), `SyncInit` and `EndInit` sync and close it, `KillInit` is the
end of its process. `FailInit` is a failure of the write, the sync or the close
(`access.go:126-138`): it removes `access.json` by name, whatever file stands there by
then. If the server was started in that window and a change of the password was
reported, or is at work, this removes the changed file. The properties therefore
exclude the directories where it happened (`removed`, `Intact`); section 7 says
what that means. `strays` are installations that such an init made and removed before
anyone used them, or made beside an inventory that a restore had left: a power loss may bring
one back beside an inventory that is not its own.

Cryptography is modelled by what opens what: an envelope opens with the password or code it was sealed with and yields the
installation's identity.

### Gate

`cmd/rootwelld`: session map, derivation and provider slots, permits, the two workers,
requests, the monitor, `Close`. An actor passes the stations of
`tickRenewalJob` and `executeRenewalAction` (or of the watch, or of a request's
handler) one at a time: ask for a permit (read the access
revision, then check it under the mutex), take the derivation slot, read the store,
take the provider slot, take the writer lock, commit, call, commit, record, leave. A
critical section of the mutex is one step; `KeepsMutex` says whether `Close` keeps it
while it waits. `Return` is the end of a worker's goroutine, `Tick` its ticker,
`StopWorker`/`EndWith` cancellation. `late` and `foreign` are history variables: calls
made after the worker was stopped, and changes by others since it was started.

### RenewalJob

`DecideRenewalCycle` as an operator over the saved state, the job loop around it
(`PauseOrComplete`, `Takes`, the action and poll limits), and each operation the
decision can name with **its own** guards (`Accepts`), which live in other files and
must agree with it. Saved deadlines are over or not; the CA's wait is over, not yet
over, or a block, which nothing takes back (`renewal_wait.go:121`). `obstacles` are what
the decision looks at first: an interrupted reading of another certificate, a DNS
credential that is not saved or is for another zone. `room` is how many closures the
request ledger still takes, `lapsed` that the certificate to renew has expired; both
pause a renewal at the points where the code tests them. The CA and the zone
answer, refuse or stay silent. A crash forgets the job and keeps the saved state. The
pause for an unavailable account is left out: an account once registered stays
registered, and a source exists only under one.

### AccountRegistration

`account_registration.go` and its handlers: prepare the key, read the CA's terms under a preview
token bound to session, generation and key (`IssuePreview`, `PreviewValid`), commit
the intent, post, save the outcome, or look it up later (`StartReconcile`,
`AnswerLookup`). `wire` holds creations not handled yet, `open` that one was sent
whose outcome is unknown.

### InventoryRecords

Import with and without keys, attaching a key, owners, locations, deletion, listing
and pair download. One page is followed closely (`shown` is what it displays, and its
writes carry that generation); everybody else writes in between. `durable` is the
image a power loss is sure to leave, `uncertain` counts commits whose sync failed.
`Opens` is the part of `decode` about records and keys, which most of these writes do
not run on what they commit.

### How the modules fit together

Each module takes the others by what they guarantee. ImageFile justifies the
atomic commits of all the modules above it. StagingRequest, DnsPlan, RenewalTiming
and InventoryRecords are what EventBudget counts and RenewalJob drives; RenewalJob's
`Accepts` repeats the guards those modules have, from the same lines. Gate supplies the permits that
appear in them as "withdrawn at any step", and WorksAlone is what lets RenewalJob
treat a worker's operation as undisturbed. AccessStore's `NoRevokedWrite` is the file
side of the revision check that Gate has on the process side. There is no single
composed module: its state space would be the product of all, and the shared state
(generation, writer lock, permit) is present on both sides of every seam.

## 3. Runs

Times are with two workers on a small machine.

| run | states | bounds | checks |
|---|---|---|---|
| RenewalCycle | 295,540 | 2 orders (symmetric), 2 seconds, 2 closed requests, clock may step back, reimports | `Custody`, `SingleAuthority`, `IntentKept`, `StaysReadable`, `LedgerKept`, `FinalizeUnderIntent`, `DeadlineNarrows`, `ImplementsAuthority` |
| PowerLoss | 935,520 | 2 writers, 4 commits of which 1 import, power losses | `FileHonest`, `ImplementsRegister`, `NothingOverwritten` |
| Dns | 906,373 | 1 record, 2 attempts per policy, 5 seconds, 2 configurations, 2 record ids | `PlanKept`, `Mutations`, `OutcomeSaveable`, `WaitRespected` |
| Budget | 167,299 | 1 record, 1 certificate, history 16, generations 25, 2 attempts, archives of 6 and more | `OwedFits`, `ArchiveHelps`, `OfferedStarts` |
| TimingReads | 776,553 | 1 certificate of 5 seconds, 2 windows, 1 step back | `TimingSaved`, `CallsSpaced`, `NeverPostponed` |
| Access | 1,627,502 | 2 directories, each old or empty, 2 passwords (both symmetric), 4 seals, 1 snapshot, 1 session while one directory is in use | `Unlockable`, `FilesMatch`, `NoRevokedWrite` |
| Server | 353,976 | 1 request, 2 workers, 1 session, 2 revisions, 2 generations, 2 calls | `TypeOK`, `WorkersOrderly`, `SessionsRespected`, `WorksAlone`, `StopsInTheEnd`, `SlotsComeFree` |
| Job | 899,968 | 2 records, 2 tries, 20 actions, 2 polls, room for 0 to 2 closures, 2 troubles | `JobState`, `ProposalAccepted`, `JobSteps`, `Completes` |
| Account | 735,740 | 1 session, 2 terms, 2 seconds, 7 generations, 2 creations, 2 troubles | `Registered`, `NotSentTwice`, `Settles` |
| Records | 814,302 | 2 certificates (1 a CA), 2 keys, 2 locations, 4 generations, 1 uncertain commit | `ImageSound`, `ChangesWhatItShows`, `RecordsKept` |
| DeletionAfterClockStep | | 1 order, 2 seconds, clock may step back | `DeletionReadable`: violated |
| ImportAfterDeletion | | 1 order, 2 seconds, reimport | `ImportReadable`: violated |

What each run shows is the `about` line of its row in `PROJECT.json`. Some properties
are conjunctions of named parts (`Custody == KeyHeldOnce /\ AnchorHeld`, `OwedFits ==
BudgetTypeOK /\ AnswerFits /\ CleanupFits /\ ClosingFits`); each part has its comment where
it is defined.

Why the bounds are enough, and what they leave out:

- **RenewalCycle.** Two orders are the least in which a renewal, its source and the
  relation of two closed requests appear; two seconds separate before, at and after a
  deadline. `MaxClosed` scales `maxClosedRequests` (32). A longer chain of renewals is
  not covered.
- **PowerLoss.** Four commits let two writers commit twice each around a loss. More
  than two writers are covered by the proof.
- **Dns.** The records of a plan share only the token, the order and the deadline, so
  one record meets every step of the policy; two are in Job. Two attempts (six in the
  code) let one follow another after its wait, and five seconds are enough to use up
  the attempts of creation or cleanup and go on to recovery, twice, and maintenance.
- **Budget.** Limits are scaled so that each is met: the history fills, is archived and
  fills again, generations run out, the ledger fills. `OfferedStarts` is stated for
  less than `MaxReserve` held back: that limit (256) is one the page's projection
  leaves out.
- **TimingReads.** Five seconds hold a full life: a first read, a refreshed window, a
  wait beyond the usable range, a step back, expiry. Certificates share only the
  CA-wide wait, which the other operations (`BeginOperation`) also write.
- **Access.** Four seals allow an init or an old file, upgrade, enrolment and one more
  ceremony, or an init that fails, another one and two ceremonies, with a second
  directory to restore into or to init in at the same time. `Scope` (a CONSTRAINT) lets
  somebody sign in only while one of the directories is in use: what a session writes
  is in the directory that is served. A fifth seal, a second snapshot, or sessions
  beside a restore exceed the time a run may take; the proofs have no such bound.
- **Server.** One session: liveness excludes symmetry, and with a second session the
  liveness check no longer fits the time a run may take. So the eviction of an older
  session, and a request of another session, are in the proofs (any number of sessions
  and requests) and not in the run.
- **Job.** Two records give every order in which the rows can be worked on, and the
  case that one holds the others up. Two troubles are one fault and one more while it
  is being dealt with; a block by the CA, an expired source and a new obstacle are
  faults, too, and an obstacle or a wait may also be there from the start. Room for none, one
  or two closures are the three cases that the decision distinguishes. The mutant that drops the limits of a job fails, so the run meets
  them.
- **Account.** As for Server: one session in the run, any number in the proofs. Two
  terms let the CA change them under the operator's eyes.
- **Records.** Four generations allow import, attachment and two changes by the page
  and by others. One owner besides none, since owners only replace each other.

No run checks deadlock: each model stops when orders, clock, generations or commits
are used up. That nothing else stops it is what the liveness properties of Server, Job
and Account say.

**Fairness.** Three specifications have it; the others claim no liveness, since
their operations are started by an operator and may never be.

- *Gate.* Weak fairness of each actor's next step (`Proceeds`): goroutines run, tickers
  fire, and handlers and provider calls carry timeouts. Strong fairness of `Return`: a
  worker's loop selects between its stop channel and its ticker, and Go chooses among
  ready cases at random, so a tick cannot win for ever. Weak fairness of the monitor's
  loop; strong fairness of the end of `Close`, which waits for the workers' `done` channels and
  needs the mutex between other holders. Nothing obliges anyone to sign in, start or
  stop a worker, or close the server; `StopsInTheEnd` and `SlotsComeFree` need none of it.
- *RenewalJob.* Operations end (timeouts), the job ticks every minute, waits pass, and a
  stuck request reaches its deadline (strong: the deadline may arrive between any two
  operations, and the clock does not stop while one runs). The CA answers what it was
  asked. The operator restarts a job that paused, closes what has expired, repeats
  an interrupted reading, and settles what the decision finds in the way (saves a
  credential, closes the request that keeps a wrong one from being replaced), each of
  which the page asks for. `Completes` is a claim about that operator: it ends with the
  new pair saved and the zone clean, or at `Unclear`: the operator has to find out what
  became of an order or a record, or to make room in the history or the request ledger;
  the CA blocked the renewal, for which the code has no way on; or the certificate
  expired before its renewal was ordered.
- *AccountRegistration.* A handler goes on or gives up, the CA handles or
  loses a request, time passes, and some operator keeps signing in, refreshing and
  asking. `Settles` would be false without the last: nothing retries by itself.

**Mutants.** Every property of a passing run has at least one: a definition of the
model replaced by a plausible mistake (an intent not committed, a retry that accepts
again, a reservation that counts shared slots, a script that shows the code before it
syncs, a permit checked once instead of before each call), under which the run fails.

## 4. Findings

**A certificate deleted after the clock stepped back makes the image unreadable**
(DeletionAfterClockStep). `deleteCompletion` stamps `DeletedAt` with the present
clock and only requires it not to precede `SavedAt`; for a closed request,
`openClosedRequest` (`closed_requests.go:144`) requires it not to precede
`ClosedAt`. Save, close, step the clock back by a second, delete: the deletion
is committed undecoded and no operation can open the image again.
`docs/SECURITY-INVARIANTS.md:2058` promises that "later deletion preserves
authenticated historical tombstones after closure."

**An issued certificate imported again after its deletion does the same**
(ImportAfterDeletion). `Append` accepts it and commits undecoded;
`validateCompletion` rejects a record whose fingerprint has a tombstone.
`manifest_test.go:372-377` expects a reimport after deletion to leave a valid image,
and tests it for certificates that were imported, not issued, before.

`StaysReadable` of RenewalCycle is the other half: with clock steps and reimports
allowed, every step from an image that decodes leads to one that decodes, except a
reimport of a deleted issued certificate and a deletion stamped before a closure on
record.

## 5. Proofs

`tlapm` checks eight modules. Each theorem holds for every value of the constants that
the named assumptions of its module allow; these say what the code guarantees of its
own constants (a limit is at least one, a marker is no file, a provider wait is at most
seven days, half a history is worth archiving and leaves room for all that may be held
back) and set no upper bound.

| module | theorem | property |
|---|---|---|
| `StagingRequestProofs` | `AuthorityOnce`, `IntentNeverForgotten`, `FinalizesUnderIntent` | `SingleAuthority`, `IntentKept`, `FinalizeUnderIntent` |
| | `KeysInCustody` | `Custody` |
| | `LedgerNeverRewritten`, `DeadlineOnlyNarrows`, `ReadableButForTwoSteps` | `LedgerKept`, `DeadlineNarrows`, `StaysReadable` |
| | `FlowImplementsAuthority` | `ImplementsAuthority` |
| `ImageProofs` | `FileAlwaysHonest`, `RenamesBuildOnEachOther`, `FileIsRegister` | `FileHonest`, `NothingOverwritten`, `ImplementsRegister` |
| | `OwedAlwaysFits`, `ArchivingAlwaysHelps`, `OfferedReadsStart` | `OwedFits`, `ArchiveHelps`, `OfferedStarts` |
| `DnsPlanProofs` | `SpecPlanKept`, `SpecMutations`, `SpecOutcomeSaveable`, `SpecWaitRespected` | `PlanKept`, `Mutations`, `OutcomeSaveable`, `WaitRespected` |
| `AccessStoreProofs` | `SpecUnlockable`, `SpecFilesMatch`, `SpecNoRevokedWrite` | `Unlockable`, `FilesMatch`, `NoRevokedWrite` |
| `RenewalTimingProofs` | `TimingAlwaysSaved`, `CallsAlwaysSpaced`, `NeverPutOff` | `TimingSaved`, `CallsSpaced`, `NeverPostponed` |
| `GateProofs` | `WithinBounds`, `WorkersAlwaysOrderly`, `SessionsAlwaysRespected`, `WorkersActAlone` | `TypeOK`, `WorkersOrderly`, `SessionsRespected`, `WorksAlone` |
| `RegistrationProofs` | `RegistrationAgrees`, `CreationsApart` | `Registered`, `NotSentTwice` |
| `InventoryProofs` | `SpecImageSound`, `SpecRecordsKept`, `SpecChangesWhatItShows` | `ImageSound`, `RecordsKept`, `ChangesWhatItShows` |
| | `JobStateHolds`, `ProposalAlwaysAccepted`, `JobKeepsBounds` | `JobState`, `ProposalAccepted`, `JobSteps` |

With these, every safety property of every passing run is a theorem.
Two proof modules are about two components each: `ImageProofs` about the file of the
inventory image and the budget of the image, `InventoryProofs` about the saved
certificates and the job that renews one of them. So that both can be extended there,
the second of each pair names its initial states and steps for itself (`BudgetInit`,
`BudgetNext`, `BudgetSpec`; `JobInit`, `JobNext`, `JobSpec`).

**StagingRequest**, from `ConstantsAssumption`, with backward clocks and reimports. None
of the safety properties is inductive. `IInv` adds `OpInv`, what the operation in flight
still relies on (its order is the current one, its intent stands, nothing of its kind
has been sent before), `OrderInv`, that a current order's URL is in no closed request
(`Authentic` guarantees it where it is assigned), and in `SentInv` the durable trace an
acceptance leaves: the order is in a started state or closed. A second send is
impossible because an operation with the right to send exists only while that trace
does not. `CustodyInv` places the key of every scope, current or closed, by two stamps
(prepared until its pair is saved, in the pair until that is deleted), so that a key
is neither lost nor in two places. For `StaysReadable`, what `decode` demands is split into what it
demands of one scope, of a scope and the certificates, and of a closed scope and those
before it, so that a step is looked at only where it writes. `FlowImplementsAuthority` maps a step to one move of
one order or to a stutter; it needs all three invariants, `AnswerInv` among them, by
which what the CA answers of a finalized order follows a finalize request that was sent.

**ImageFile**, from `ImageAssumption`. The invariant says that only the lock's holder is
at work (`OneWriter`), that what it read is still the visible image until it renames and
the commit it adds is in no image yet (`InStep`), that both the visible and the durable
image were synced (`Whole`), and that every answer still agrees with them (`Told`).

**EventBudget**, from `BudgetAssumption`, for any finite sets of records and certificates
and any limits. None of the three properties is inductive: they say what one more commit
would find. `BudgetInv` says what every commit has left. `Balanced`: the generation is
one more than all events, archived ones included, and the history and the generations
have room for what is held back, for a registration, for an order and for an issuance
that are pending. `Lifecycle`: an order has a registered account and its place in the
ledger, an issuance a verified order, no answer is owed for a record that is not being
created or deleted, and recovery counts of a cleanup are zero before the cleanup; so two
of the answers that share a slot are never owed at once. The central lemma is
`Admission`: what `addEvent` demands before the event and `decode` after it amounts
exactly to `Balanced` of the image that is written, however differently the two count. Hence
every step keeps the invariant, and what is left is to show that answers balance:
`AttemptsLower` (each answer and each further attempt lowers what its record holds back
by at least the event it takes, in every state of the record) and `OtherAnswer`. In
`ShortHistoryFits` and `ArchivedFits` the limits themselves matter: 512 and 256 fit into
1024. What is held back is a sum over all records. That a fold over a finite set has a
value, and that this value does not depend on the order, is proved here from the
definition of the community modules (`TotalsExist`, `SumFacts`, `SumUpdate`), by the
least counterexample: a set of subsets that holds the empty one and grows by one element
at a time is the set of all of them (`SmallerSets`). This says of sets what an
induction theorem would say of predicates, and needs no operator parameter. TLC
checked `BudgetInv`, but for membership in its sequence types, at the bounds of the run Budget.

**DnsPlan**, from `PlanAssumption` and `RetryAssumption`, for any set of records, clock
and waits. Five invariants, each resting on the ones before it. `TInv`: types, and stamps
not ahead of the clock. `Course`: the token stays as long as the plan, and who runs
works on a record that its intent has moved. `WaitInv`: a wait that the provider asked
for has passed, or the phase that was refused is held back until then by its own retry
policy, so that no mode of operation is granted earlier. `LInv`: the state of a record
tells what was sent for it (a `borrowed` record was never posted, one `created` has an
identifier of our own, a request on the wire names a record in the state that sent it);
this is what excludes a second creation and the deletion of a foreign record. `OInv`:
records are valid and behind the clock, and what an operation may observe fits the
attempt it belongs to; `ValidRow` is then preserved by each kind of outcome.

**RenewalTiming**, from `PolicyAssumption`, `DelaysAssumption` and `TimingAssumption`, for
any certificates, windows, waits, lifetime and clock. `Opens`: every plan and the wait
pass what opening the image demands; each way a read can end is shown to lead to such a
plan again, from lemmas on what the policies return (`ErrorCheck`, `NextCheckFits`,
`Selected`, `Constrains`). `Reading` ties the read in flight to its pending plan, its
lease to the lifetime and its call to the clock. `Promised`: what the CA asked for is in
the saved wait, or was over when an event was stamped, and the image refuses a clock
behind its last event. `Spaced`: while less than the shortest delay has passed since
the CA was asked, what is left of it ends before the plan's next check.

**AccessStore**, from `AccessAssumption` and `FilesAssumption`, for any number of
directories, envelopes, sessions and snapshots. What a power loss may leave (`survive`)
is a set, and the properties are about all its members, so the invariant describes the
set: all access files in it are of one installation, or have no identity yet
(`AccessFile`). How far a ceremony has come is told by what is left of its script, and
`JobIn` says for each of them what is on disk and what may survive at that point: an
enrolment's code is not shown before the rename is synced, an initialization creates
the inventory only when its snapshot is kept, a restore writes the access file only when
the inventory is safe. A step acts in one directory, and each has a lemma for that one;
for all others `DirElsewhere` follows from what a step can add to the rest. All of this (`Dir`) is claimed of directories in which no
init removed a file in use; of the others only `Works` is kept, which what they have written
to snapshots rests on. `YoungIn` follows an installation from the moment init has written its
file until it is used: nothing in another directory or in a snapshot comes from it, so that its
removal, and its return after a power loss, concerns no one else. `Removal` shows
that a removal leaves the rest of the directory as the invariant says, or puts the
directory outside. What links
directories is `Numbered` (whatever bears a number was made from one that was sealed),
`Backed` (a snapshot is of one installation whose code was seen) and `OneHome` (a code
that nobody saw is in one directory).

**Gate**, from `GateAssumption`, for any number of requests, sessions and calls.
`Alone`: one goroutine at most has not returned. `Stopped` locates a worker that has
made its one late call past any further call. `Shown` ties the monitor to the session
map. `Apart`: whoever is between the commits of an operation has the writer lock, and a
worker whose store was changed by others knows only an older generation, so that the
check under the lock stops it. For `WithinBounds` there are `Bounded` (a revision that
anyone carries is one that the file has had), `Held` (who is on the way with the
derivation slot holds it), `Calling` (whoever may still call has a call left) and `Few`
(the map is full at most; a sign-in evicts one first).

**AccountRegistration**, from `RegistrationAssumption`, for any number of sessions, terms
and troubles. `OneKey`: a handler that runs has a key, and the CA has seen no
other. `Sound`: a creation leaves only under a saved intent and with none outstanding,
and an account is recorded only when the CA has it. `Confirmed`: the page that has the
preview's token shows that preview's terms. `InBounds` orders the stamps of a record.

**InventoryRecords**, from `RecordsAssumption`, for any set of certificates, keys, owners and
notes. The invariant is that both the image and the one that a power loss leaves open
(`Good`), and that the page shows the present image or an older one (`Following`).
Most writes commit what they do not decode; one lemma for each of the four operators
that build an image says that it leads from an image that opens to one that opens.

**RenewalJob**, from `JobAssumption`, for any set of records and any limits of tries,
actions, reads, closures and troubles. `ProposalAccepted` and `JobSteps` are about the
moment an action is decided and the moment it takes effect; the inductive invariant
`JobIInv` links the two. `InOrder`: issuance has begun only for a verified domain with a
prepared key. `RecordsKnown`: a record in the zone is on file as one that is owed, a
`created` record is in the zone, and only a record whose phase goes on has a wait.
`Underway`: what the operation in flight was decided on is still so (the record it works
on is in the state that its intent saved; when the CA is about to be asked, each record
is created or borrowed; an order that is being placed was begun without a successor).
The decision is looked at once, in `Decided`: by cases of `DecideRenewalCycle`, whatever
it names passes the guards of the operation it names (the CA's wait, blocks included, the
room of the ledger and the source among them), and the records are as that
operation needs them. The steps that take a proposal, and both properties, rest on it.
The invariant was first checked by TLC at the bounds of the run Job.

Only model-checked: all liveness (Server's `StopsInTheEnd` and `SlotsComeFree`, Job's
`Completes`, Account's `Settles`); fairness and ENABLED are beyond this prover.

## 6. Plan

All modules of the plan are written, and every safety property a run checks is proved.
What would add most now: a run of Server with two sessions for safety alone, and Dns with
two records, on a machine that allows more time; the proofs cover any number already.

## 7. Not modelled, and why

- Certificate parsing, verification, conversion and PFX tools, the CLI, the browser
  bundle and the probe: one input, one output, no state. Web pages, scripts and
  documents: presentation; the server decides every state change.
- Encryption and authentication of the image: an image that was not written by the
  program does not decode, and this is all the models use.
- Bytes: `dnsReservedBytes` and the size limits of an image are reservations like those of
  events; at small bounds a count of bytes says nothing that a count of events does not.
- Parsing of HTTP requests and of provider answers, nonces, redirects, cookies.
- `RunStagingIssuance` and `CompleteStagingIssuance` (no route of `cmd/rootwelld` calls
  them), `RunStagingProviderRead` (it saves nothing), and the two-call form of a DNS
  attempt in `dns_plan_linux.go` (no command uses it).
- The second commit of a failed CA call that saves its wait (`provider_wait_linux.go:56`)
  is one step with the failure; that it may be lost is `Abandon`.
- The timing watch's limit on its reads and the projections of its status page.
- After an uncertain commit is undone by a power loss, its generation number is given
  to another image, and a page that displayed the lost image matches it.
  `ChangesWhatItShows` is therefore stated for histories without an uncertain commit
  before the change. No document of the repository claims more.
- Nothing is promised of a directory where init removed a file in use
  (`access.go:131-138`, AccessStore above): a sync or close of the new file fails, after
  the server was started on it and its first password change was reported or begun. The
  reported change is then lost, and a recovery code that was shown opens nothing. Two
  commands have to be run at once, the second while the first still waits for the disk,
  and the disk has to fail. What the code says of `Create`, "it never replaces an existing
  installation" (`access.go:97`), remains true of names that existed before.
- Restoring an older snapshot forgets whatever happened since, including a sent
  finalize request; the documents say that there is no anti-rollback claim.
