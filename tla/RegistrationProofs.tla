-------------------------- MODULE RegistrationProofs --------------------------
(***************************************************************************)
(* What holds of the registration of the staging account for any number of *)
(* sessions, edits, previews, creations and troubles, and for a clock that *)
(* steps back.  The types are one invariant; the other, Faithful, ties the *)
(* handler that runs, the saved record, and what the CA has or may still   *)
(* get.                                                                    *)
(***************************************************************************)
EXTENDS AccountRegistration, TLAPS

Moments == 0 .. MaxTime

Kinds == {"none", "preview", "register", "reconcile"}

TermsOrNone == Terms \cup {Nothing}

AccountType == [key : Nat, prepared : Moments, state : States, terms : TermsOrNone,
                started : Moments, registered : Moments]

TabType == [generation : Nat, token : Nat, terms : TermsOrNone]

PreviewType == [token : Nat, session : Sessions \cup {Nothing}, generation : Nat,
                key : Nat, terms : TermsOrNone, issued : Moments]

OpType == [kind : Kinds, step : Steps, session : Sessions \cup {Nothing},
           generation : Nat, terms : TermsOrNone, confirmed : TermsOrNone,
           since : Moments, creation : Nat]

\* The shape of the records.
Shape ==
    /\ now \in Moments /\ 0 \in Moments /\ now # 0 /\ account \in AccountType /\ op \in OpType
    /\ tabs \in [Sessions -> TabType] /\ preview \in PreviewType
    /\ production \in Moments /\ latest \in Moments
    /\ generation \in Nat \ {0} /\ previews \in Nat /\ sent \in Nat /\ troubles \in Nat
    /\ alive \subseteq Sessions
    /\ published \in Terms /\ accounts \subseteq Nat
    /\ wire \subseteq [key : Nat, creation : Nat]

Flags == cooling \in BOOLEAN /\ open \in BOOLEAN

\* The bounds, and the order of the times of a record: its validation refuses
\* any other.
InBounds ==
    /\ account.started # 0 => account.started >= account.prepared
    /\ account.registered # 0 => account.registered >= account.started
    /\ account.state # "registered" => account.registered = 0
    /\ generation <= MaxGeneration /\ previews <= MaxPreviews
    /\ sent <= MaxSent /\ troubles <= MaxTroubles
    /\ preview.token <= previews
    /\ \A s \in Sessions : tabs[s].generation <= generation /\ tabs[s].token <= previews

\* A handler that runs has a key to work with; until there is one the CA has
\* seen none, and afterwards none but that.
OneKey ==
    /\ account.state # "not-registered" \/ op # NoOp => account.key # 0
    /\ account.key = 0 => accounts = {} /\ wire = {}
    /\ KeyOfAccounts

\* A creation leaves under an open intent, with no other outcome outstanding; an
\* account is recorded when the CA has it.
Sound ==
    /\ op.step = "post" => Pending
    /\ open => Pending
    /\ op.kind = "register" /\ op.step \in {"begin", "directory", "post"} => ~open
    /\ account.state = "registered" \/ op.step = "found" => account.key \in accounts

\* The page that has the kept preview's token shows its terms.
Confirmed ==
    /\ op.step \in {"terms", "check"} => op.kind = "preview"
    /\ OnlyConfirmed
    /\ \A s \in Sessions : preview.token # 0 /\ tabs[s].token = preview.token =>
                               tabs[s].terms = preview.terms

Faithful == OneKey /\ Sound /\ Confirmed

\* The process starts with an account that has no key yet.
LEMMA InitInvariants == Init => Shape /\ Flags /\ InBounds /\ Faithful
<1> SUFFICES ASSUME Init PROVE Shape /\ Flags /\ InBounds /\ Faithful
    OBVIOUS
<1>1. now \in Moments /\ 0 \in Moments /\ now # 0
    BY RegistrationAssumption DEF Init, Moments
<1>2. Flags
    BY DEF Init, Flags
<1>3. Shape
    BY <1>1, RegistrationAssumption DEF Init, Shape, NoAccount, NoPreview, NewTab, NoOp,
       AccountType, TabType, PreviewType, OpType, Kinds, Steps, States, TermsOrNone
<1>4. QED
    BY <1>1, <1>2, <1>3, RegistrationAssumption DEF Init, InBounds, Faithful, OneKey, Sound, Confirmed,
       KeyOfAccounts, OnlyConfirmed, Pending, NoAccount, NoPreview, NewTab, NoOp

\* A commit of a record of the right shape keeps the shape.
LEMMA CommitShape ==
    ASSUME Shape, NEW r \in AccountType, Commit(r)
    PROVE  /\ account' \in AccountType
           /\ generation' \in Nat \ {0} /\ latest' \in Moments
BY DEF Shape, Commit

\* Whoever commits with room for n edits stays within the generations.
LEMMA CommitBounds ==
    ASSUME Shape, NEW r, Commit(r), Room(1) \/ Room(2)
    PROVE  generation' = generation + 1 /\ generation' <= MaxGeneration
BY RegistrationAssumption DEF Shape, Commit, Room

\* Every action keeps the shape of the records.
LEMMA ShapeStep ==
    ASSUME Shape, [Next]_vars
    PROVE  Shape'
<1> USE DEF Shape, AccountType, TabType, PreviewType, OpType, Kinds, Steps, States,
     TermsOrNone, NoOp, NoAccount, NoPreview, NewTab, store, process, remote
<1>1. ASSUME Tick PROVE Shape'
  BY <1>1, RegistrationAssumption DEF Tick, Moments
<1>2. ASSUME StepBack PROVE Shape'
  BY <1>2, RegistrationAssumption DEF StepBack, Trouble, Moments
<1>3. ASSUME CoolDown PROVE Shape'
  BY <1>3, RegistrationAssumption DEF CoolDown
<1>4. ASSUME Edit PROVE Shape'
  <2>1. account \in AccountType
    BY <1>4, RegistrationAssumption DEF Edit, Locked, Spare, Room, Pending
  <2>2. Commit(account)
    BY <1>4 DEF Edit, Locked, Spare, Room, Pending
  <2>3. account' \in AccountType /\ generation' \in Nat \ {0} /\ latest' \in Moments
    BY <2>1, <2>2, CommitShape
  <2>4. QED
    BY <1>4, <2>3 DEF Edit, Locked, Spare, Room, Pending
<1>5. ASSUME Crash PROVE Shape'
  <2>1. preview' \in PreviewType
    BY <1>5, RegistrationAssumption DEF Crash, Trouble
  <2>2. op' \in OpType
    BY <1>5, RegistrationAssumption DEF Crash, Trouble
  <2>3. QED
    BY <1>5, <2>1, <2>2 DEF Crash, Trouble
<1>6. ASSUME NewTerms PROVE Shape'
  BY <1>6, RegistrationAssumption DEF NewTerms, Trouble
<1>7. ASSUME Abandon PROVE Shape'
  BY <1>7, RegistrationAssumption DEF Abandon, Trouble, AfterFailure
<1>8. ASSUME NEW s \in Sessions, SignIn(s) PROVE Shape'
  BY <1>8, RegistrationAssumption DEF SignIn
<1>9. ASSUME NEW s \in Sessions, SignOut(s) PROVE Shape'
  BY <1>9, RegistrationAssumption DEF SignOut, Trouble
<1>10. ASSUME NEW s \in Sessions, Refresh(s) PROVE Shape'
  BY <1>10, RegistrationAssumption DEF Refresh, Locked
<1>11. ASSUME NEW s \in Sessions, PrepareStagingAccount(s) PROVE Shape'
  <2>1. [NoAccount EXCEPT !.key = account.key + 1, !.prepared = now] \in AccountType
    <3>1. account.key + 1 \in Nat
      OBVIOUS
    <3>2. Nothing \in TermsOrNone
      OBVIOUS
    <3>3. QED
      BY <3>1, <3>2
  <2>2. Commit([NoAccount EXCEPT !.key = account.key + 1, !.prepared = now])
    BY <1>11 DEF PrepareStagingAccount, Asks, NoKey, Room
  <2>3. account' \in AccountType /\ generation' \in Nat \ {0} /\ latest' \in Moments
    BY <2>1, <2>2, CommitShape
  <2>4. QED
    BY <1>11, <2>3 DEF PrepareStagingAccount, Asks, NoKey, Room
<1>12. ASSUME NEW s \in Sessions, PrepareProductionAccount(s) PROVE Shape'
  <2>1. account \in AccountType
    BY <1>12, RegistrationAssumption DEF PrepareProductionAccount, Asks, Spare, Room, Pending
  <2>2. Commit(account)
    BY <1>12 DEF PrepareProductionAccount, Asks, Spare, Room, Pending
  <2>3. account' \in AccountType /\ generation' \in Nat \ {0} /\ latest' \in Moments
    BY <2>1, <2>2, CommitShape
  <2>4. QED
    BY <1>12, <2>3 DEF PrepareProductionAccount, Asks, Spare, Room, Pending
<1>13. ASSUME NEW s \in Sessions, StartPreview(s) PROVE Shape'
  <2>1. preview' \in PreviewType
    BY <1>13, RegistrationAssumption DEF StartPreview, Asks, Prepared, Begins
  <2>2. op' \in OpType
    BY <1>13, RegistrationAssumption DEF StartPreview, Asks, Prepared, Begins
  <2>3. QED
    BY <1>13, <2>1, <2>2 DEF StartPreview, Asks, Prepared, Begins
<1>14. ASSUME NEW s \in Sessions, StartRegister(s) PROVE Shape'
  <2>1. preview' \in PreviewType
    BY <1>14, RegistrationAssumption DEF StartRegister, Asks, Prepared, PreviewValid
  <2>2. op' \in OpType
    BY <1>14, RegistrationAssumption DEF StartRegister, Asks, Prepared, PreviewValid
  <2>3. QED
    BY <1>14, <2>1, <2>2 DEF StartRegister, Asks, Prepared, PreviewValid
<1>15. ASSUME NEW s \in Sessions, StartReconcile(s) PROVE Shape'
  <2>1. op' \in OpType
    BY <1>15, RegistrationAssumption DEF StartReconcile, Asks, Pending, Begins
  <2>2. QED
    BY <1>15, <2>1 DEF StartReconcile, Asks, Pending, Begins
<1>16. ASSUME ReadTerms PROVE Shape'
  BY <1>16, RegistrationAssumption DEF ReadTerms, Permitted
<1>17. ASSUME IssuePreview PROVE Shape'
  BY <1>17, RegistrationAssumption DEF IssuePreview, Prepared, Trouble
<1>18. ASSUME BeginStagingRegistration PROVE Shape'
  <2>1. Intent \in AccountType
    BY <1>18, RegistrationAssumption DEF BeginStagingRegistration, Permitted, Room, Intent
  <2>2. Commit(Intent)
    BY <1>18 DEF BeginStagingRegistration, Permitted, Room, Intent
  <2>3. account' \in AccountType /\ generation' \in Nat \ {0} /\ latest' \in Moments
    BY <2>1, <2>2, CommitShape
  <2>4. op' \in OpType
    BY <1>18, <2>3, RegistrationAssumption DEF BeginStagingRegistration, Permitted, Room, Intent
  <2>5. QED
    BY <1>18, <2>3, <2>4 DEF BeginStagingRegistration, Permitted, Room, Intent
<1>19. ASSUME Discover PROVE Shape'
  <2>1. op' = [op EXCEPT !.step = "post"]
    BY <1>19 DEF Discover
  <2>2. op' \in OpType
    BY <2>1
  <2>3. QED
    BY <1>19, <2>2 DEF Discover
<1>20. ASSUME Post PROVE Shape'
  <2>1. sent' \in Nat
    BY <1>20 DEF Post
  <2>2. op' \in OpType
    <3>1. CASE op.kind = "register"
      BY <1>20, <2>1, <3>1 DEF Post
    <3>2. CASE op.kind # "register"
      BY <1>20, <3>2 DEF Post
    <3>3. QED
      BY <3>1, <3>2
  <2>3. wire' \subseteq [key : Nat, creation : Nat]
    BY <1>20, <2>1 DEF Post
  <2>4. QED
    BY <1>20, <2>1, <2>2, <2>3 DEF Post
<1>21. ASSUME AnswerLookup PROVE Shape'
  BY <1>21, RegistrationAssumption DEF AnswerLookup
<1>22. ASSUME FinishStagingRegistration PROVE Shape'
  <2>1. Outcome(op.step) \in AccountType
    BY <1>22, RegistrationAssumption DEF FinishStagingRegistration, Permitted, Pending, Room, Sealable, Outcome
  <2>2. Commit(Outcome(op.step))
    BY <1>22 DEF FinishStagingRegistration, Permitted, Pending, Room, Sealable, Outcome
  <2>3. account' \in AccountType /\ generation' \in Nat \ {0} /\ latest' \in Moments
    BY <2>1, <2>2, CommitShape
  <2>4. op' \in OpType
    BY <1>22, <2>3, RegistrationAssumption DEF FinishStagingRegistration, Permitted, Pending, Room, Sealable, Outcome
  <2>5. QED
    BY <1>22, <2>3, <2>4 DEF FinishStagingRegistration, Permitted, Pending, Room, Sealable, Outcome
<1>23. ASSUME NEW p \in wire, Deliver(p) PROVE Shape'
  BY <1>23, RegistrationAssumption DEF Deliver
<1>24. ASSUME NEW p \in wire, Lose(p) PROVE Shape'
  BY <1>24, RegistrationAssumption DEF Lose, Trouble
<1>25. CASE UNCHANGED vars
  BY <1>25 DEF vars
<1>26. QED
  BY <1>1, <1>2, <1>3, <1>4, <1>5, <1>6, <1>7, <1>8, <1>9, <1>10, <1>11, <1>12, <1>13,
     <1>14, <1>15, <1>16, <1>17, <1>18, <1>19, <1>20, <1>21, <1>22, <1>23, <1>24, <1>25
     DEF Next

\* The flags stay flags.
LEMMA FlagsStep ==
    ASSUME Flags, [Next]_vars
    PROVE  Flags'
<1> USE DEF Flags, store, process, remote
<1>1. ASSUME Tick PROVE Flags'
  BY <1>1 DEF Tick, Moments
<1>2. ASSUME StepBack PROVE Flags'
  BY <1>2 DEF StepBack, Trouble, Moments
<1>3. ASSUME CoolDown PROVE Flags'
  BY <1>3 DEF CoolDown
<1>4. ASSUME Edit PROVE Flags'
  BY <1>4 DEF Edit, Commit, Locked, Spare, Room, Pending
<1>5. ASSUME Crash PROVE Flags'
  BY <1>5 DEF Crash, Trouble
<1>6. ASSUME NewTerms PROVE Flags'
  BY <1>6 DEF NewTerms, Trouble
<1>7. ASSUME Abandon PROVE Flags'
  BY <1>7 DEF Abandon, Trouble, AfterFailure
<1>8. ASSUME NEW s \in Sessions, SignIn(s) PROVE Flags'
  BY <1>8 DEF SignIn
<1>9. ASSUME NEW s \in Sessions, SignOut(s) PROVE Flags'
  BY <1>9 DEF SignOut, Trouble
<1>10. ASSUME NEW s \in Sessions, Refresh(s) PROVE Flags'
  BY <1>10 DEF Refresh, Locked
<1>11. ASSUME NEW s \in Sessions, PrepareStagingAccount(s) PROVE Flags'
  BY <1>11 DEF PrepareStagingAccount, Asks, NoKey, Room, Commit
<1>12. ASSUME NEW s \in Sessions, PrepareProductionAccount(s) PROVE Flags'
  BY <1>12 DEF PrepareProductionAccount, Asks, Spare, Room, Commit, Pending
<1>13. ASSUME NEW s \in Sessions, StartPreview(s) PROVE Flags'
  BY <1>13 DEF StartPreview, Asks, Prepared, Begins
<1>14. ASSUME NEW s \in Sessions, StartRegister(s) PROVE Flags'
  BY <1>14 DEF StartRegister, Asks, Prepared, PreviewValid
<1>15. ASSUME NEW s \in Sessions, StartReconcile(s) PROVE Flags'
  BY <1>15 DEF StartReconcile, Asks, Pending, Begins
<1>16. ASSUME ReadTerms PROVE Flags'
  BY <1>16 DEF ReadTerms, Permitted
<1>17. ASSUME IssuePreview PROVE Flags'
  BY <1>17 DEF IssuePreview, Prepared, Trouble
<1>18. ASSUME BeginStagingRegistration PROVE Flags'
  BY <1>18 DEF BeginStagingRegistration, Permitted, Room, Commit, Intent
<1>19. ASSUME Discover PROVE Flags'
  BY <1>19 DEF Discover, Permitted, Pending
<1>20. ASSUME Post PROVE Flags'
  BY <1>20 DEF Post, Permitted
<1>21. ASSUME AnswerLookup PROVE Flags'
  BY <1>21 DEF AnswerLookup
<1>22. ASSUME FinishStagingRegistration PROVE Flags'
  BY <1>22 DEF FinishStagingRegistration, Permitted, Pending, Room, Sealable, Commit,
     Outcome
<1>23. ASSUME NEW p \in wire, Deliver(p) PROVE Flags'
  BY <1>23 DEF Deliver
<1>24. ASSUME NEW p \in wire, Lose(p) PROVE Flags'
  BY <1>24 DEF Lose, Trouble
<1>25. CASE UNCHANGED vars
  BY <1>25 DEF vars
<1>26. QED
  BY <1>1, <1>2, <1>3, <1>4, <1>5, <1>6, <1>7, <1>8, <1>9, <1>10, <1>11, <1>12, <1>13,
     <1>14, <1>15, <1>16, <1>17, <1>18, <1>19, <1>20, <1>21, <1>22, <1>23, <1>24, <1>25
     DEF Next

\* Every action keeps the bounds: whoever writes leaves room for the outcome of an
\* open registration, and an outcome is not recorded at a time before its intent.
LEMMA BoundsStep ==
    ASSUME Shape, InBounds, [Next]_vars
    PROVE  InBounds'
<1> USE DEF Shape, AccountType, TabType, PreviewType, OpType, Kinds, Steps, States,
     TermsOrNone, NoOp, NoAccount, NoPreview, NewTab, InBounds, store, process, remote
<1>1. ASSUME Tick PROVE InBounds'
  BY <1>1, RegistrationAssumption DEF Tick, Moments
<1>2. ASSUME StepBack PROVE InBounds'
  BY <1>2, RegistrationAssumption DEF StepBack, Trouble, Moments
<1>3. ASSUME CoolDown PROVE InBounds'
  BY <1>3, RegistrationAssumption DEF CoolDown
<1>4. ASSUME Edit PROVE InBounds'
  BY <1>4, RegistrationAssumption DEF Edit, Commit, Locked, Spare, Room, Pending
<1>5. ASSUME Crash PROVE InBounds'
  BY <1>5, RegistrationAssumption DEF Crash, Trouble
<1>6. ASSUME NewTerms PROVE InBounds'
  BY <1>6, RegistrationAssumption DEF NewTerms, Trouble
<1>7. ASSUME Abandon PROVE InBounds'
  BY <1>7, RegistrationAssumption DEF Abandon, Trouble, AfterFailure
<1>8. ASSUME NEW s \in Sessions, SignIn(s) PROVE InBounds'
  BY <1>8, RegistrationAssumption DEF SignIn
<1>9. ASSUME NEW s \in Sessions, SignOut(s) PROVE InBounds'
  BY <1>9, RegistrationAssumption DEF SignOut, Trouble
<1>10. ASSUME NEW s \in Sessions, Refresh(s) PROVE InBounds'
  BY <1>10, RegistrationAssumption DEF Refresh, Locked
<1>11. ASSUME NEW s \in Sessions, PrepareStagingAccount(s) PROVE InBounds'
  BY <1>11, RegistrationAssumption DEF PrepareStagingAccount, Asks, NoKey, Room, Commit
<1>12. ASSUME NEW s \in Sessions, PrepareProductionAccount(s) PROVE InBounds'
  BY <1>12, RegistrationAssumption DEF PrepareProductionAccount, Asks, Spare, Room,
     Commit, Pending
<1>13. ASSUME NEW s \in Sessions, StartPreview(s) PROVE InBounds'
  BY <1>13, RegistrationAssumption DEF StartPreview, Asks, Prepared, Begins
<1>14. ASSUME NEW s \in Sessions, StartRegister(s) PROVE InBounds'
  BY <1>14, RegistrationAssumption DEF StartRegister, Asks, Prepared, PreviewValid
<1>15. ASSUME NEW s \in Sessions, StartReconcile(s) PROVE InBounds'
  BY <1>15, RegistrationAssumption DEF StartReconcile, Asks, Pending, Begins
<1>16. ASSUME ReadTerms PROVE InBounds'
  BY <1>16, RegistrationAssumption DEF ReadTerms, Permitted
<1>17. ASSUME IssuePreview PROVE InBounds'
  BY <1>17, RegistrationAssumption DEF IssuePreview, Prepared, Trouble
<1>18. ASSUME BeginStagingRegistration PROVE InBounds'
  <2>1. /\ account' = Intent /\ account'.started = now /\ account'.prepared = account.prepared
        /\ account'.registered = account.registered /\ now >= account.prepared
    BY <1>18 DEF BeginStagingRegistration, Commit, Intent
  <2>2. account.registered = 0
    BY <1>18 DEF BeginStagingRegistration, Commit, Intent
  <2>3. Commit(Intent) /\ Room(2)
    BY <1>18 DEF BeginStagingRegistration
  <2>4. generation' = generation + 1 /\ generation' <= MaxGeneration
    BY <2>3, CommitBounds
  <2>5. QED
    BY <1>18, <2>1, <2>2, <2>4 DEF BeginStagingRegistration
<1>19. ASSUME Discover PROVE InBounds'
  BY <1>19, RegistrationAssumption DEF Discover, Permitted, Pending
<1>20. ASSUME Post PROVE InBounds'
  BY <1>20, RegistrationAssumption DEF Post, Permitted
<1>21. ASSUME AnswerLookup PROVE InBounds'
  BY <1>21, RegistrationAssumption DEF AnswerLookup
<1>22. ASSUME FinishStagingRegistration PROVE InBounds'
  BY <1>22, RegistrationAssumption DEF FinishStagingRegistration, Permitted, Pending,
     Room, Sealable, Commit, Outcome
<1>23. ASSUME NEW p \in wire, Deliver(p) PROVE InBounds'
  BY <1>23, RegistrationAssumption DEF Deliver
<1>24. ASSUME NEW p \in wire, Lose(p) PROVE InBounds'
  BY <1>24, RegistrationAssumption DEF Lose, Trouble
<1>25. CASE UNCHANGED vars
  BY <1>25 DEF vars
<1>26. QED
  BY <1>1, <1>2, <1>3, <1>4, <1>5, <1>6, <1>7, <1>8, <1>9, <1>10, <1>11, <1>12, <1>13,
     <1>14, <1>15, <1>16, <1>17, <1>18, <1>19, <1>20, <1>21, <1>22, <1>23, <1>24, <1>25
     DEF Next

\* A key is prepared once, and only the saved one is ever sent.
LEMMA OneKeyStep ==
    ASSUME Shape, OneKey, [Next]_vars
    PROVE  OneKey'
<1> USE DEF Shape, AccountType, TabType, PreviewType, OpType, Kinds, Steps, States,
     TermsOrNone, NoOp, NoAccount, NoPreview, NewTab, OneKey, KeyOfAccounts, store,
     process, remote
<1>1. ASSUME Tick PROVE OneKey'
  BY <1>1 DEF Tick, Moments
<1>2. ASSUME StepBack PROVE OneKey'
  BY <1>2 DEF StepBack, Trouble, Moments
<1>3. ASSUME CoolDown PROVE OneKey'
  BY <1>3 DEF CoolDown
<1>4. ASSUME Edit PROVE OneKey'
  BY <1>4 DEF Edit, Commit, Locked, Spare, Room, Pending
<1>5. ASSUME Crash PROVE OneKey'
  BY <1>5 DEF Crash, Trouble
<1>6. ASSUME NewTerms PROVE OneKey'
  BY <1>6 DEF NewTerms, Trouble
<1>7. ASSUME Abandon PROVE OneKey'
  BY <1>7 DEF Abandon, Trouble, AfterFailure
<1>8. ASSUME NEW s \in Sessions, SignIn(s) PROVE OneKey'
  BY <1>8 DEF SignIn
<1>9. ASSUME NEW s \in Sessions, SignOut(s) PROVE OneKey'
  BY <1>9 DEF SignOut, Trouble
<1>10. ASSUME NEW s \in Sessions, Refresh(s) PROVE OneKey'
  BY <1>10 DEF Refresh, Locked
<1>11. ASSUME NEW s \in Sessions, PrepareStagingAccount(s) PROVE OneKey'
  BY <1>11 DEF PrepareStagingAccount, Asks, NoKey, Room, Commit
<1>12. ASSUME NEW s \in Sessions, PrepareProductionAccount(s) PROVE OneKey'
  BY <1>12 DEF PrepareProductionAccount, Asks, Spare, Room, Commit, Pending
<1>13. ASSUME NEW s \in Sessions, StartPreview(s) PROVE OneKey'
  BY <1>13 DEF StartPreview, Asks, Prepared, Begins
<1>14. ASSUME NEW s \in Sessions, StartRegister(s) PROVE OneKey'
  BY <1>14 DEF StartRegister, Asks, Prepared, PreviewValid
<1>15. ASSUME NEW s \in Sessions, StartReconcile(s) PROVE OneKey'
  BY <1>15 DEF StartReconcile, Asks, Pending, Begins
<1>16. ASSUME ReadTerms PROVE OneKey'
  BY <1>16 DEF ReadTerms, Permitted
<1>17. ASSUME IssuePreview PROVE OneKey'
  BY <1>17 DEF IssuePreview, Prepared, Trouble
<1>18. ASSUME BeginStagingRegistration PROVE OneKey'
  BY <1>18 DEF BeginStagingRegistration, Permitted, Room, Commit, Intent
<1>19. ASSUME Discover PROVE OneKey'
  BY <1>19 DEF Discover, Permitted, Pending
<1>20. ASSUME Post PROVE OneKey'
  BY <1>20 DEF Post, Permitted
<1>21. ASSUME AnswerLookup PROVE OneKey'
  BY <1>21 DEF AnswerLookup
<1>22. ASSUME FinishStagingRegistration PROVE OneKey'
  BY <1>22 DEF FinishStagingRegistration, Permitted, Pending, Room, Sealable, Commit,
     Outcome
<1>23. ASSUME NEW p \in wire, Deliver(p) PROVE OneKey'
  BY <1>23 DEF Deliver
<1>24. ASSUME NEW p \in wire, Lose(p) PROVE OneKey'
  BY <1>24 DEF Lose, Trouble
<1>25. CASE UNCHANGED vars
  BY <1>25 DEF vars
<1>26. QED
  BY <1>1, <1>2, <1>3, <1>4, <1>5, <1>6, <1>7, <1>8, <1>9, <1>10, <1>11, <1>12, <1>13,
     <1>14, <1>15, <1>16, <1>17, <1>18, <1>19, <1>20, <1>21, <1>22, <1>23, <1>24, <1>25
     DEF Next

\* A creation follows a settled outcome, and a record what the CA answered.
LEMMA SoundStep ==
    ASSUME Shape, OneKey, Sound, [Next]_vars
    PROVE  Sound'
<1> USE DEF Shape, AccountType, TabType, PreviewType, OpType, Kinds, Steps, States,
     TermsOrNone, NoOp, NoAccount, NoPreview, NewTab, OneKey, KeyOfAccounts, Sound,
     Pending, store, process, remote
<1>1. ASSUME Tick PROVE Sound'
  BY <1>1 DEF Tick, Moments
<1>2. ASSUME StepBack PROVE Sound'
  BY <1>2 DEF StepBack, Trouble, Moments
<1>3. ASSUME CoolDown PROVE Sound'
  BY <1>3 DEF CoolDown
<1>4. ASSUME Edit PROVE Sound'
  BY <1>4 DEF Edit, Commit, Locked, Spare, Room
<1>5. ASSUME Crash PROVE Sound'
  BY <1>5 DEF Crash, Trouble
<1>6. ASSUME NewTerms PROVE Sound'
  BY <1>6 DEF NewTerms, Trouble
<1>7. ASSUME Abandon PROVE Sound'
  BY <1>7 DEF Abandon, Trouble, AfterFailure
<1>8. ASSUME NEW s \in Sessions, SignIn(s) PROVE Sound'
  BY <1>8 DEF SignIn
<1>9. ASSUME NEW s \in Sessions, SignOut(s) PROVE Sound'
  BY <1>9 DEF SignOut, Trouble
<1>10. ASSUME NEW s \in Sessions, Refresh(s) PROVE Sound'
  BY <1>10 DEF Refresh, Locked
<1>11. ASSUME NEW s \in Sessions, PrepareStagingAccount(s) PROVE Sound'
  BY <1>11 DEF PrepareStagingAccount, Asks, NoKey, Room, Commit
<1>12. ASSUME NEW s \in Sessions, PrepareProductionAccount(s) PROVE Sound'
  BY <1>12 DEF PrepareProductionAccount, Asks, Spare, Room, Commit
<1>13. ASSUME NEW s \in Sessions, StartPreview(s) PROVE Sound'
  BY <1>13 DEF StartPreview, Asks, Prepared, Begins
<1>14. ASSUME NEW s \in Sessions, StartRegister(s) PROVE Sound'
  BY <1>14 DEF StartRegister, Asks, Prepared, PreviewValid
<1>15. ASSUME NEW s \in Sessions, StartReconcile(s) PROVE Sound'
  BY <1>15 DEF StartReconcile, Asks, Begins
<1>16. ASSUME ReadTerms PROVE Sound'
  BY <1>16 DEF ReadTerms, Permitted
<1>17. ASSUME IssuePreview PROVE Sound'
  BY <1>17 DEF IssuePreview, Prepared, Trouble
<1>18. ASSUME BeginStagingRegistration PROVE Sound'
  BY <1>18 DEF BeginStagingRegistration, Permitted, Room, Commit, Intent
<1>19. ASSUME Discover PROVE Sound'
  BY <1>19 DEF Discover, Permitted
<1>20. ASSUME Post PROVE Sound'
  BY <1>20 DEF Post, Permitted
<1>21. ASSUME AnswerLookup PROVE Sound'
  BY <1>21 DEF AnswerLookup
<1>22. ASSUME FinishStagingRegistration PROVE Sound'
  BY <1>22 DEF FinishStagingRegistration, Permitted, Room, Sealable, Commit, Outcome
<1>23. ASSUME NEW p \in wire, Deliver(p) PROVE Sound'
  BY <1>23 DEF Deliver
<1>24. ASSUME NEW p \in wire, Lose(p) PROVE Sound'
  BY <1>24 DEF Lose, Trouble
<1>25. CASE UNCHANGED vars
  BY <1>25 DEF vars
<1>26. QED
  BY <1>1, <1>2, <1>3, <1>4, <1>5, <1>6, <1>7, <1>8, <1>9, <1>10, <1>11, <1>12, <1>13,
     <1>14, <1>15, <1>16, <1>17, <1>18, <1>19, <1>20, <1>21, <1>22, <1>23, <1>24, <1>25
     DEF Next

\* A token is never used for two previews.
LEMMA ConfirmedStep ==
    ASSUME Shape, InBounds, Confirmed, [Next]_vars
    PROVE  Confirmed'
<1> USE DEF Shape, AccountType, TabType, PreviewType, OpType, Kinds, Steps, States,
     TermsOrNone, NoOp, NoAccount, NoPreview, NewTab, InBounds, Confirmed, OnlyConfirmed,
     store, process, remote
<1>1. ASSUME Tick PROVE Confirmed'
  BY <1>1 DEF Tick, Moments
<1>2. ASSUME StepBack PROVE Confirmed'
  BY <1>2 DEF StepBack, Trouble, Moments
<1>3. ASSUME CoolDown PROVE Confirmed'
  BY <1>3 DEF CoolDown
<1>4. ASSUME Edit PROVE Confirmed'
  BY <1>4 DEF Edit, Commit, Locked, Spare, Room, Pending
<1>5. ASSUME Crash PROVE Confirmed'
  BY <1>5 DEF Crash, Trouble
<1>6. ASSUME NewTerms PROVE Confirmed'
  BY <1>6 DEF NewTerms, Trouble
<1>7. ASSUME Abandon PROVE Confirmed'
  BY <1>7 DEF Abandon, Trouble, AfterFailure
<1>8. ASSUME NEW s \in Sessions, SignIn(s) PROVE Confirmed'
  BY <1>8 DEF SignIn
<1>9. ASSUME NEW s \in Sessions, SignOut(s) PROVE Confirmed'
  BY <1>9 DEF SignOut, Trouble
<1>10. ASSUME NEW s \in Sessions, Refresh(s) PROVE Confirmed'
  BY <1>10 DEF Refresh, Locked
<1>11. ASSUME NEW s \in Sessions, PrepareStagingAccount(s) PROVE Confirmed'
  BY <1>11 DEF PrepareStagingAccount, Asks, NoKey, Room, Commit
<1>12. ASSUME NEW s \in Sessions, PrepareProductionAccount(s) PROVE Confirmed'
  BY <1>12 DEF PrepareProductionAccount, Asks, Spare, Room, Commit, Pending
<1>13. ASSUME NEW s \in Sessions, StartPreview(s) PROVE Confirmed'
  BY <1>13 DEF StartPreview, Asks, Prepared, Begins
<1>14. ASSUME NEW s \in Sessions, StartRegister(s) PROVE Confirmed'
  BY <1>14 DEF StartRegister, Asks, Prepared, PreviewValid
<1>15. ASSUME NEW s \in Sessions, StartReconcile(s) PROVE Confirmed'
  BY <1>15 DEF StartReconcile, Asks, Pending, Begins
<1>16. ASSUME ReadTerms PROVE Confirmed'
  BY <1>16 DEF ReadTerms, Permitted
<1>17. ASSUME IssuePreview PROVE Confirmed'
  BY <1>17 DEF IssuePreview, Prepared, Trouble
<1>18. ASSUME BeginStagingRegistration PROVE Confirmed'
  BY <1>18 DEF BeginStagingRegistration, Permitted, Room, Commit, Intent
<1>19. ASSUME Discover PROVE Confirmed'
  BY <1>19 DEF Discover, Permitted, Pending
<1>20. ASSUME Post PROVE Confirmed'
  BY <1>20 DEF Post, Permitted
<1>21. ASSUME AnswerLookup PROVE Confirmed'
  BY <1>21 DEF AnswerLookup
<1>22. ASSUME FinishStagingRegistration PROVE Confirmed'
  BY <1>22 DEF FinishStagingRegistration, Permitted, Pending, Room, Sealable, Commit,
     Outcome
<1>23. ASSUME NEW p \in wire, Deliver(p) PROVE Confirmed'
  BY <1>23 DEF Deliver
<1>24. ASSUME NEW p \in wire, Lose(p) PROVE Confirmed'
  BY <1>24 DEF Lose, Trouble
<1>25. CASE UNCHANGED vars
  BY <1>25 DEF vars
<1>26. QED
  BY <1>1, <1>2, <1>3, <1>4, <1>5, <1>6, <1>7, <1>8, <1>9, <1>10, <1>11, <1>12, <1>13,
     <1>14, <1>15, <1>16, <1>17, <1>18, <1>19, <1>20, <1>21, <1>22, <1>23, <1>24, <1>25
     DEF Next

\* The invariants hold in every state.
LEMMA Invariants == Spec => [](Shape /\ Flags /\ InBounds /\ Faithful)
<1> QED
    BY InitInvariants, ShapeStep, FlagsStep, BoundsStep, OneKeyStep, SoundStep, ConfirmedStep,
       PTL DEF Spec, Faithful

\* Every variable keeps its type and its bounds.
THEOREM RegistrationTypes == Spec => []TypeOK
<1>1. Shape /\ Flags /\ InBounds => TypeOK
    BY RegistrationAssumption DEF Shape, Flags, InBounds, TypeOK, AccountType, TabType,
       PreviewType, OpType, Kinds, TermsOrNone, Moments
<1>2. QED
    BY <1>1, Invariants, PTL

\* An account that the store has as registered exists at the CA, for every order
\* in which answers are lost, requests arrive late and handlers end.
THEOREM AccountsReal == Spec => []AccountReal
<1>1. Faithful => AccountReal
    BY DEF Faithful, Sound, AccountReal
<1>2. QED
    BY <1>1, Invariants, PTL

\* The CA knows one key of this store, or none: the one that is saved.
THEOREM OneKeyEver == Spec => []KeyOfAccounts
<1>1. Faithful => KeyOfAccounts
    BY DEF Faithful, OneKey
<1>2. QED
    BY <1>1, Invariants, PTL

\* The terms that are agreed to are those the operator had before the eyes.
THEOREM TermsConfirmed == Spec => []OnlyConfirmed
<1>1. Faithful => OnlyConfirmed
    BY DEF Faithful, Confirmed
<1>2. QED
    BY <1>1, Invariants, PTL

\* A creation leaves only when the outcome of every earlier one is known.
THEOREM CreationsApart == Spec => NotSentTwice
<1>1. ASSUME Shape, Faithful, [Next]_vars
      PROVE  [sent' > sent => ~open]_vars
    <2>1. CASE Post
        BY <1>1, <2>1 DEF Post, Faithful, Sound, Shape
    <2>2. CASE ~Post
        <3>1. sent' = sent
            BY <1>1, <2>2 DEF Next, vars, Tick, StepBack, CoolDown, Edit, Crash, NewTerms, Abandon, SignIn,
               SignOut, Refresh, PrepareStagingAccount,
               PrepareProductionAccount, StartPreview, StartRegister,
               StartReconcile, ReadTerms, IssuePreview,
               BeginStagingRegistration, Discover, AnswerLookup,
               FinishStagingRegistration, Deliver, Lose, store, process,
               remote
        <3>2. QED
            BY <1>1, <3>1 DEF Shape
    <2>3. QED
        BY <2>1, <2>2
<1>2. QED
    BY <1>1, Invariants, PTL DEF Spec, NotSentTwice

\* The record, the CA and the operator agree, in every state.
THEOREM RegistrationAgrees == Spec => []Registered
<1>1. TypeOK /\ AccountReal /\ KeyOfAccounts /\ OnlyConfirmed => Registered
    BY DEF Registered
<1>2. QED
    BY <1>1, RegistrationTypes, AccountsReal, OneKeyEver, TermsConfirmed, PTL
=============================================================================
