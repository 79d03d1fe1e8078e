------------------------- MODULE AccountRegistration -------------------------
(***************************************************************************)
(* The staging account: its key is prepared once, its owner reads the CA's *)
(* current terms, confirms exactly these with a short-lived preview token, *)
(* and one request registers the key.  The intent is saved before the      *)
(* request leaves; an outcome that did not arrive is looked up later with  *)
(* the same key, and nothing is created while it is open.                  *)
(*                                                                         *)
(* Handlers take one at a time the derivation slot (op is the one that has *)
(* it).  Edits of the store by others, the end of a session, a crash, a    *)
(* clock that steps back, a change of the CA's terms and a request that    *)
(* the CA handles long after it was sent come in between.  A handler that  *)
(* gives up at any point, whatever the reason, is Abandon.                 *)
(***************************************************************************)
EXTENDS Naturals, FiniteSets

CONSTANTS
    Sessions,      \* browser sessions
    Terms,         \* the terms the CA publishes over time
    Nothing,       \* no terms, no session
    MaxTime,       \* the last second of the model's clock
    PreviewLife,   \* five minutes
    BackwardClock, \* may the clock step back, once?
    MaxGeneration, \* edits of the store
    MaxPreviews,   \* tokens issued
    MaxSent,       \* creations sent
    MaxTroubles    \* times that something goes wrong

ASSUME RegistrationAssumption ==
    /\ Nothing \notin Sessions \cup Terms /\ Terms # {}
    /\ MaxTime \in Nat \ {0} /\ PreviewLife \in Nat \ {0} /\ BackwardClock \in BOOLEAN
    /\ MaxGeneration \in Nat \ {0} /\ MaxPreviews \in Nat /\ MaxSent \in Nat
    /\ MaxTroubles \in Nat

VARIABLES
    now,        \* the clock of the host
    account,    \* the saved record
    production, \* the other account: when its key was prepared, or 0
    generation, \* of the inventory
    latest,     \* the latest event of its history
    alive,      \* sessions that are signed in
    tabs,       \* what the page of each session shows
    preview,    \* registrationPreview, the one of the process
    previews,   \* tokens issued
    cooling,    \* less than 30 s since the last call to the provider
    op,         \* the handler that runs
    published,  \* the terms in the CA's directory
    accounts,   \* keys the CA has an account for
    wire,       \* creations the CA has not handled yet
    sent,       \* creations sent
    open,       \* a creation was sent whose outcome is not known
    troubles    \* times that something went wrong

store == <<account, production, generation, latest>>
process == <<alive, tabs, preview, previews, cooling>>
remote == <<published, accounts, wire, sent, open>>
vars == <<now, store, process, op, remote, troubles>>

NoAccount == [key |-> 0, prepared |-> 0, state |-> "not-registered",
              terms |-> Nothing, started |-> 0, registered |-> 0]

NoPreview == [token |-> 0, session |-> Nothing, generation |-> 0, key |-> 0,
              terms |-> Nothing, issued |-> 0]

NewTab == [generation |-> 0, token |-> 0, terms |-> Nothing]

\* confirmed: the terms the operator had on the page.  since: when the permit
\* was given.  creation: the number of the request the operation waits for.
NoOp == [kind |-> "none", step |-> "idle", session |-> Nothing, generation |-> 0,
         terms |-> Nothing, confirmed |-> Nothing, since |-> 0, creation |-> 0]

Steps == {"idle", "terms", "check", "begin", "directory", "post", "sent", "found",
          "absent"}

States == {"not-registered", "registration-pending", "registered"}

TypeOK ==
    /\ now \in 1 .. MaxTime
    /\ account.key \in Nat /\ account.prepared \in 0 .. MaxTime
    /\ account.state \in States
    /\ account.terms \in Terms \cup {Nothing}
    /\ account.started # 0 => account.started >= account.prepared
    /\ account.registered # 0 => account.registered >= account.started
    /\ production \in 0 .. MaxTime
    /\ generation \in 1 .. MaxGeneration /\ latest \in 0 .. MaxTime
    /\ alive \subseteq Sessions
    /\ \A s \in Sessions : tabs[s].generation \in 0 .. generation
                           /\ tabs[s].token \in 0 .. previews
    /\ preview.token \in 0 .. previews /\ previews \in 0 .. MaxPreviews
    /\ cooling \in BOOLEAN /\ open \in BOOLEAN
    /\ op.kind \in {"none", "preview", "register", "reconcile"}
    /\ op.step \in Steps /\ op.session \in Sessions \cup {Nothing}
    /\ published \in Terms /\ accounts \subseteq Nat
    /\ sent \in 0 .. MaxSent /\ troubles \in 0 .. MaxTroubles

Init ==
    /\ now = 1 /\ account = NoAccount /\ production = 0
    /\ generation = 1 /\ latest = 0
    /\ alive = Sessions /\ tabs = [s \in Sessions |-> NewTab]
    /\ preview = NoPreview /\ previews = 0 /\ cooling = FALSE
    /\ op = NoOp
    /\ published \in Terms /\ accounts = {} /\ wire = {}
    /\ sent = 0 /\ open = FALSE /\ troubles = 0

----------------------------------------------------------------------------
(* The clock, the sessions and the rest of the store                       *)

Trouble == troubles < MaxTroubles /\ troubles' = troubles + 1

Tick ==
    /\ now < MaxTime /\ now' = now + 1
    /\ UNCHANGED <<store, process, op, remote, troubles>>

StepBack ==
    /\ BackwardClock /\ now > 1 /\ now' = now - 1 /\ Trouble
    /\ UNCHANGED <<store, process, op, remote>>

CoolDown ==
    /\ cooling /\ cooling' = FALSE
    /\ UNCHANGED <<now, store, alive, tabs, preview, previews, op, remote, troubles>>

\* Another token, another tab: sign-in starts with a fresh page.
SignIn(s) ==
    /\ s \notin alive /\ alive' = alive \cup {s}
    /\ tabs' = [tabs EXCEPT ![s] = NewTab]
    /\ UNCHANGED <<now, store, preview, previews, cooling, op, remote, troubles>>

SignOut(s) ==
    /\ s \in alive /\ Trouble /\ alive' = alive \ {s}
    /\ UNCHANGED <<now, store, tabs, preview, previews, cooling, op, remote>>

\* The writer lock is held while the terms are read and while an account is
\* registered or looked up.
Locked == op.step \notin {"idle", "check"}

Commit(record) ==
    /\ account' = record /\ generation' = generation + 1
    /\ latest' = IF now > latest THEN now ELSE latest

Room(n) == generation + n <= MaxGeneration

Pending == account.state = "registration-pending"

\* Mutant: an edit may take the room for the outcome.
SpareForOne == Room(1)

\* An open registration keeps room for its outcome.
Spare == Room(IF Pending THEN 2 ELSE 1)

\* Some other operation of the store.
Edit ==
    /\ ~Locked /\ Spare
    /\ Commit(account)
    /\ UNCHANGED <<now, production, process, op, remote, troubles>>

Refresh(s) ==
    /\ s \in alive /\ ~Locked
    /\ tabs' = [tabs EXCEPT ![s].generation = generation]
    /\ UNCHANGED <<now, store, alive, preview, previews, cooling, op, remote, troubles>>

\* A handler starts with a live session and the generation its page shows.
Asks(s) == op = NoOp /\ s \in alive /\ tabs[s].generation = generation

\* Mutant: a second tab may prepare another key.
NoRegistration == account.state # "registered"

\* A key is never replaced.
NoKey == account.key = 0

PrepareStagingAccount(s) ==
    /\ Asks(s) /\ NoKey /\ Room(1)
    /\ Commit([NoAccount EXCEPT !.key = account.key + 1, !.prepared = now])
    /\ UNCHANGED <<now, production, process, op, remote, troubles>>

\* timingClock: no production key before the last saved event.
PrepareProductionAccount(s) ==
    /\ Asks(s) /\ production = 0 /\ now >= latest /\ Spare
    /\ production' = now /\ Commit(account)
    /\ UNCHANGED <<now, process, op, remote, troubles>>

----------------------------------------------------------------------------
(* The preview                                                             *)

Prepared == account.key # 0 /\ account.state = "not-registered"

Begins(kind, step, s, terms) ==
    op' = [NoOp EXCEPT !.kind = kind, !.step = step, !.session = s,
                       !.generation = generation, !.since = now, !.terms = terms,
                       !.confirmed = terms]

Permitted == op.session \in alive /\ now >= op.since

StartPreview(s) ==
    /\ Asks(s) /\ Prepared /\ ~cooling
    /\ preview' = NoPreview /\ cooling' = TRUE
    /\ Begins("preview", "terms", s, Nothing)
    /\ UNCHANGED <<now, store, alive, tabs, previews, remote, troubles>>

\* registrationTerms: one read of the directory, under the writer lock.
ReadTerms ==
    /\ op.step = "terms" /\ Permitted
    /\ op' = [op EXCEPT !.step = "check", !.terms = published]
    /\ UNCHANGED <<now, store, process, remote, troubles>>

\* What was read before the terms must still hold.  The answer may be lost.
IssuePreview ==
    /\ op.step = "check" /\ op.session \in alive
    /\ Prepared /\ generation = op.generation
    /\ previews < MaxPreviews /\ previews' = previews + 1
    /\ preview' = [token |-> previews', session |-> op.session,
                   generation |-> generation, key |-> account.key,
                   terms |-> op.terms, issued |-> now]
    /\ \/ /\ tabs' = [tabs EXCEPT ![op.session].token = previews',
                                  ![op.session].terms = op.terms]
          /\ UNCHANGED troubles
       \/ Trouble /\ UNCHANGED tabs
    /\ op' = NoOp
    /\ UNCHANGED <<now, store, alive, cooling, remote>>

----------------------------------------------------------------------------
(* Registration                                                            *)

\* Mutant: any preview of the session will do.
PreviewOfSession(s) ==
    /\ preview.token # 0 /\ preview.session = s
    /\ preview.generation = generation /\ preview.key = account.key
    /\ now >= preview.issued /\ now < preview.issued + PreviewLife

\* The preview the operator confirms is the one kept, and it is recent.
PreviewValid(s) ==
    /\ preview.token # 0 /\ preview.token = tabs[s].token /\ preview.session = s
    /\ preview.generation = generation /\ preview.key = account.key
    /\ now >= preview.issued /\ now < preview.issued + PreviewLife

\* The operator confirms what the tab shows; the preview's terms are used.
StartRegister(s) ==
    /\ Asks(s) /\ Prepared /\ PreviewValid(s)
    /\ preview' = NoPreview /\ cooling' = TRUE
    /\ op' = [NoOp EXCEPT !.kind = "register", !.step = "begin", !.session = s,
                          !.generation = generation, !.since = now,
                          !.terms = preview.terms, !.confirmed = tabs[s].terms]
    /\ UNCHANGED <<now, store, alive, tabs, previews, remote, troubles>>

StartReconcile(s) ==
    /\ Asks(s) /\ Pending /\ ~cooling
    /\ cooling' = TRUE
    /\ Begins("reconcile", "directory", s, Nothing)
    /\ UNCHANGED <<now, store, alive, tabs, preview, previews, remote, troubles>>

Intent == [account EXCEPT !.state = "registration-pending", !.terms = op.terms,
                          !.started = now]

\* BeginStagingRegistration: refused by its own validation if the clock is
\* behind the preparation, or without room for an outcome.
BeginStagingRegistration ==
    /\ op.step = "begin" /\ Permitted
    /\ generation = op.generation /\ account.state = "not-registered"
    /\ now >= account.prepared /\ Room(2)
    /\ Commit(Intent)
    /\ op' = [op EXCEPT !.step = "directory", !.generation = generation']
    /\ UNCHANGED <<now, production, process, remote, troubles>>

\* The signer is lent for an open registration only.  Agreed terms must be the
\* CA's current ones; a lookup has none.
Discover ==
    /\ op.step = "directory" /\ Permitted /\ Pending /\ generation = op.generation
    /\ op.kind = "register" => published = op.terms
    /\ op' = [op EXCEPT !.step = "post"]
    /\ UNCHANGED <<now, store, process, remote, troubles>>

\* The one signed request of an operation; a lookup creates nothing.
Post ==
    /\ op.step = "post" /\ Permitted
    /\ IF op.kind = "register"
       THEN /\ sent < MaxSent /\ sent' = sent + 1 /\ open' = TRUE
            /\ wire' = wire \cup {[key |-> account.key, creation |-> sent']}
            /\ op' = [op EXCEPT !.step = "sent", !.creation = sent']
       ELSE op' = [op EXCEPT !.step = "sent"] /\ UNCHANGED <<sent, open, wire>>
    /\ UNCHANGED <<now, store, process, published, accounts, troubles>>

\* The CA handles a creation, perhaps when nobody waits any more: an account
\* of that key exists then, whether it is new or was there before.
Deliver(p) ==
    /\ p \in wire /\ wire' = wire \ {p}
    /\ accounts' = accounts \cup {p.key}
    /\ op' = IF op.step = "sent" /\ op.creation = p.creation
             THEN [op EXCEPT !.step = "found"] ELSE op
    /\ UNCHANGED <<now, store, process, published, sent, open, troubles>>

\* It is lost, or refused: the operation sees an error.
Lose(p) ==
    /\ p \in wire /\ wire' = wire \ {p} /\ Trouble
    /\ op' = IF op.creation = p.creation THEN NoOp ELSE op
    /\ UNCHANGED <<now, store, process, published, accounts, sent, open>>

\* onlyReturnExisting: the account, or accountDoesNotExist.
AnswerLookup ==
    /\ op.step = "sent" /\ op.kind = "reconcile"
    /\ op' = [op EXCEPT !.step = IF account.key \in accounts THEN "found" ELSE "absent"]
    /\ UNCHANGED <<now, store, process, remote, troubles>>

----------------------------------------------------------------------------
(* The outcome                                                             *)

\* Mutant: every answer of the CA confirms the account.
OutcomeFound(step) ==
    [account EXCEPT !.state = "registered", !.registered = now]

\* A found account is recorded; the intent of an absent one is dropped, the
\* key stays.
Outcome(step) ==
    IF step = "found"
    THEN [account EXCEPT !.state = "registered", !.registered = now]
    ELSE [NoAccount EXCEPT !.key = account.key, !.prepared = account.prepared]

\* Mutant: the time of the outcome is not compared with that of the intent.
SealableAnyTime == TRUE

\* The new record is validated like a stored one.
Sealable == op.step = "found" => now >= account.started

FinishStagingRegistration ==
    /\ op.step \in {"found", "absent"} /\ Permitted
    /\ Pending /\ generation = op.generation /\ Room(1)
    /\ Sealable
    /\ Commit(Outcome(op.step))
    /\ open' = FALSE /\ op' = NoOp
    /\ UNCHANGED <<now, production, process, published, accounts, wire, sent, troubles>>

\* Mutant: an operation that fails takes its intent back.
IntentTakenBack ==
    IF op.kind = "register" /\ op.step = "sent"
    THEN [account EXCEPT !.state = "not-registered", !.terms = Nothing, !.started = 0]
    ELSE account

\* A failure retains the intent.
AfterFailure == account

\* An error, a timeout, a cancelled request: what was committed stays.
Abandon ==
    /\ op # NoOp /\ op' = NoOp
    /\ \/ Trouble
       \/ /\ \/ ~Permitted
             \/ op.step = "directory" /\ op.kind = "register" /\ published # op.terms
             \/ op.step = "check" /\ ~(Prepared /\ generation = op.generation)
             \/ op.step \in {"begin", "found", "absent"} /\ generation # op.generation
             \/ op.step = "begin" /\ (now < account.prepared \/ ~Room(2))
             \/ ~Sealable
             \/ op.step = "check" /\ previews = MaxPreviews
             \/ op.step = "post" /\ op.kind = "register" /\ sent = MaxSent
          /\ UNCHANGED troubles
    /\ account' = AfterFailure
    /\ UNCHANGED <<now, production, generation, latest, process, remote>>

Crash ==
    /\ Trouble /\ op' = NoOp /\ preview' = NoPreview /\ alive' = {} /\ cooling' = FALSE
    /\ UNCHANGED <<now, store, tabs, previews, remote>>

NewTerms ==
    /\ Trouble
    /\ published' \in Terms \ {published}
    /\ UNCHANGED <<now, store, process, op, accounts, wire, sent, open>>

----------------------------------------------------------------------------
Next ==
    \/ Tick \/ StepBack \/ CoolDown \/ Edit \/ Crash \/ NewTerms \/ Abandon
    \/ \E s \in Sessions :
          \/ SignIn(s) \/ SignOut(s) \/ Refresh(s)
          \/ PrepareStagingAccount(s) \/ PrepareProductionAccount(s)
          \/ StartPreview(s) \/ StartRegister(s) \/ StartReconcile(s)
    \/ ReadTerms \/ IssuePreview
    \/ BeginStagingRegistration \/ Discover \/ Post \/ AnswerLookup
    \/ FinishStagingRegistration
    \/ \E p \in wire : Deliver(p) \/ Lose(p)

Spec == Init /\ [][Next]_vars

\* A handler goes on or gives up, the CA handles or loses a request, time
\* passes, and some operator signs in, looks at the page and asks again.
Handler == ReadTerms \/ IssuePreview \/ BeginStagingRegistration \/ Discover \/ Post
           \/ AnswerLookup \/ FinishStagingRegistration \/ Abandon

Fairness ==
    /\ WF_vars(Handler) /\ WF_vars(\E p \in wire : Deliver(p))
    /\ WF_vars(Tick) /\ WF_vars(CoolDown)
    /\ WF_vars(\E s \in Sessions : SignIn(s))
    /\ SF_vars(\E s \in Sessions : Refresh(s) /\ tabs' # tabs)
    /\ SF_vars(\E s \in Sessions : StartReconcile(s))

FairSpec == Spec /\ Fairness

----------------------------------------------------------------------------
(* Properties                                                              *)

\* A saved account exists at the CA, also when its outcome was looked up after
\* a crash, a lost answer or a late request.
AccountReal == account.state = "registered" => account.key \in accounts

\* Whatever the CA creates, and however late, belongs to the one saved key: no
\* account is left behind with a key that was replaced.
KeyOfAccounts ==
    /\ accounts \subseteq {account.key}
    /\ \A p \in wire : p.key = account.key

\* Terms are agreed to only if they are those the operator had on the page: not
\* those of another tab's preview, nor of a later one.
OnlyConfirmed == op.kind = "register" => op.terms = op.confirmed

\* The record, the CA and the operator agree on what was registered.
Registered == TypeOK /\ AccountReal /\ KeyOfAccounts /\ OnlyConfirmed

\* No creation is sent while the outcome of an earlier one is open: the CA was
\* asked in between and had no account.
NotSentTwice == [][sent' > sent => ~open]_vars

\* An open registration is settled, if the operator keeps asking: none stays
\* pending for ever.
Settles == []<>~Pending
=============================================================================
