-------------------------- MODULE AccessStoreProofs --------------------------
(***************************************************************************)
(* What holds of an installation's access file for any number of           *)
(* directories, envelopes, passwords, sessions and snapshots.              *)
(*                                                                         *)
(* The invariant IInv is for the most part about one directory (Dir): what *)
(* may survive there, and how far the ceremony at work has come, which is  *)
(* told by what is left of its script.  It says nothing of a directory     *)
(* where a failing init removed a file in use; of such a one only Works    *)
(* holds, which the snapshots of the others rest on.  What links           *)
(* directories (an installation's number, a code that was seen, a complete *)
(* snapshot) is in Numbered, Backed and OneHome, and for an installation   *)
(* that init is making in YoungIn: an init that fails leaves it to a power *)
(* loss to bring it back, so no other directory may have come by it.  An   *)
(* action works in one directory, so it has a lemma that Dir holds there   *)
(* afterwards; that it holds elsewhere follows for all of them from what   *)
(* an action can add to the rest.                                          *)
(***************************************************************************)
EXTENDS AccessStore, TLAPS

----------------------------------------------------------------------------
(* What is left to do of a ceremony                                        *)

Done == <<>>
ToCheck == <<"check">>
ToSync == <<"sync", "check">>
ToWriteAccess == <<"write access", "sync", "check">>
ToCreateAccess == <<"create access", "write access", "sync", "check">>
ToRecheck == <<"check", "create access", "write access", "sync", "check">>
ToSyncRestored == <<"sync", "check", "create access",
                    "write access", "sync", "check">>
ToWriteRestored == <<"write inventory", "sync", "check", "create access",
                     "write access", "sync", "check">>
ToCreateRestored == <<"create inventory", "write inventory", "sync", "check",
                      "create access", "write access", "sync", "check">>
ToWriteInventory == <<"write inventory", "sync", "check">>
ToCreateInventory == <<"create inventory", "write inventory", "sync", "check">>
ToCheckBackup == <<"check", "create inventory", "write inventory", "sync", "check">>
ToKeepBackup == <<"keep", "check", "create inventory",
                  "write inventory", "sync", "check">>
ToBackUp == <<"snapshot", "keep", "check", "create inventory",
              "write inventory", "sync", "check">>
ToKeep == <<"keep", "check">>
ToSnapshot == <<"snapshot", "keep", "check">>
ToReplace == <<"replace", "sync", "check">>
LastSync == <<"sync">>
ToReplaceOnly == <<"replace", "sync">>

Replacing == {"change", "upgrade", "enroll", "rotate", "reset"}

Kinds == Replacing \cup {"none", "commit", "export", "initialize", "restore"}

Left(kind) ==
    IF kind \in {"none", "commit"} THEN {Done}
    ELSE IF kind = "change" THEN {ToReplaceOnly, LastSync, Done}
    ELSE IF kind \in Replacing THEN {ToReplace, ToSync, ToCheck, Done}
    ELSE IF kind = "export" THEN {ToSnapshot, ToKeep, ToCheck, Done}
    ELSE IF kind = "initialize"
    THEN {ToBackUp, ToKeepBackup, ToCheckBackup, ToCreateInventory, ToWriteInventory,
          ToSync, ToCheck, Done}
    ELSE {ToCreateRestored, ToWriteRestored, ToSyncRestored, ToRecheck, ToCreateAccess,
          ToWriteAccess, ToSync, ToCheck, Done}

Todos == UNION {Left(kind) : kind \in Kinds}

\* The tail of a tuple of opaque elements, for each length that is needed.
LEMMA TailOf4 == \A a, b, c, d : Tail(<<a, b, c, d>>) = <<b, c, d>>
<1> TAKE a, b, c, d
<1>1. Len(Tail(<<a, b, c, d>>)) = 3
    OBVIOUS
<1>2. Tail(<<a, b, c, d>>)[1] = b
    OBVIOUS
<1>3. Tail(<<a, b, c, d>>)[2] = c
    OBVIOUS
<1>4. Tail(<<a, b, c, d>>)[3] = d
    OBVIOUS
<1>5. QED
    BY <1>1, <1>2, <1>3, <1>4

LEMMA TailOf5 == \A a, b, c, d, e : Tail(<<a, b, c, d, e>>) = <<b, c, d, e>>
<1> TAKE a, b, c, d, e
<1>1. Len(Tail(<<a, b, c, d, e>>)) = 4
    OBVIOUS
<1>2. Tail(<<a, b, c, d, e>>)[1] = b
    OBVIOUS
<1>3. Tail(<<a, b, c, d, e>>)[2] = c
    OBVIOUS
<1>4. Tail(<<a, b, c, d, e>>)[3] = d
    OBVIOUS
<1>5. Tail(<<a, b, c, d, e>>)[4] = e
    OBVIOUS
<1>6. QED
    BY <1>1, <1>2, <1>3, <1>4, <1>5

LEMMA TailOf6 == \A a, b, c, d, e, f : Tail(<<a, b, c, d, e, f>>) = <<b, c, d, e, f>>
<1> TAKE a, b, c, d, e, f
<1>1. Len(Tail(<<a, b, c, d, e, f>>)) = 5
    OBVIOUS
<1>2. Tail(<<a, b, c, d, e, f>>)[1] = b
    OBVIOUS
<1>3. Tail(<<a, b, c, d, e, f>>)[2] = c
    OBVIOUS
<1>4. Tail(<<a, b, c, d, e, f>>)[3] = d
    OBVIOUS
<1>5. Tail(<<a, b, c, d, e, f>>)[4] = e
    OBVIOUS
<1>6. Tail(<<a, b, c, d, e, f>>)[5] = f
    OBVIOUS
<1>7. QED
    BY <1>1, <1>2, <1>3, <1>4, <1>5, <1>6

LEMMA TailOf7 == \A a, b, c, d, e, f, g : Tail(<<a, b, c, d, e, f, g>>) = <<b, c, d, e, f, g>>
<1> TAKE a, b, c, d, e, f, g
<1>1. Len(Tail(<<a, b, c, d, e, f, g>>)) = 6
    OBVIOUS
<1>2. Tail(<<a, b, c, d, e, f, g>>)[1] = b
    OBVIOUS
<1>3. Tail(<<a, b, c, d, e, f, g>>)[2] = c
    OBVIOUS
<1>4. Tail(<<a, b, c, d, e, f, g>>)[3] = d
    OBVIOUS
<1>5. Tail(<<a, b, c, d, e, f, g>>)[4] = e
    OBVIOUS
<1>6. Tail(<<a, b, c, d, e, f, g>>)[5] = f
    OBVIOUS
<1>7. Tail(<<a, b, c, d, e, f, g>>)[6] = g
    OBVIOUS
<1>8. QED
    BY <1>1, <1>2, <1>3, <1>4, <1>5, <1>6, <1>7

LEMMA TailOf8 == \A a, b, c, d, e, f, g, h : Tail(<<a, b, c, d, e, f, g, h>>) = <<b, c, d, e, f, g, h>>
<1> TAKE a, b, c, d, e, f, g, h
<1>1. Len(Tail(<<a, b, c, d, e, f, g, h>>)) = 7
    OBVIOUS
<1>2. Tail(<<a, b, c, d, e, f, g, h>>)[1] = b
    OBVIOUS
<1>3. Tail(<<a, b, c, d, e, f, g, h>>)[2] = c
    OBVIOUS
<1>4. Tail(<<a, b, c, d, e, f, g, h>>)[3] = d
    OBVIOUS
<1>5. Tail(<<a, b, c, d, e, f, g, h>>)[4] = e
    OBVIOUS
<1>6. Tail(<<a, b, c, d, e, f, g, h>>)[5] = f
    OBVIOUS
<1>7. Tail(<<a, b, c, d, e, f, g, h>>)[6] = g
    OBVIOUS
<1>8. Tail(<<a, b, c, d, e, f, g, h>>)[7] = h
    OBVIOUS
<1>9. QED
    BY <1>1, <1>2, <1>3, <1>4, <1>5, <1>6, <1>7, <1>8

\* What remains after the next step.
LEMMA Tails ==
    /\ Tail(ToCheck) = Done
    /\ Tail(ToSync) = ToCheck
    /\ Tail(ToWriteAccess) = ToSync
    /\ Tail(ToCreateAccess) = ToWriteAccess
    /\ Tail(ToRecheck) = ToCreateAccess
    /\ Tail(ToSyncRestored) = ToRecheck
    /\ Tail(ToWriteRestored) = ToSyncRestored
    /\ Tail(ToCreateRestored) = ToWriteRestored
    /\ Tail(ToWriteInventory) = ToSync
    /\ Tail(ToCreateInventory) = ToWriteInventory
    /\ Tail(ToCheckBackup) = ToCreateInventory
    /\ Tail(ToKeepBackup) = ToCheckBackup
    /\ Tail(ToBackUp) = ToKeepBackup
    /\ Tail(ToKeep) = ToCheck
    /\ Tail(ToSnapshot) = ToKeep
    /\ Tail(ToReplace) = ToSync
    /\ Tail(LastSync) = Done
    /\ Tail(ToReplaceOnly) = LastSync
<1>1. Tail(ToCheck) = Done
    BY DEF ToCheck, Done
<1>2. Tail(ToSync) = ToCheck
    BY DEF ToSync, ToCheck
<1>3. Tail(ToWriteAccess) = ToSync
    BY DEF ToWriteAccess, ToSync
<1>4. Tail(ToCreateAccess) = ToWriteAccess
    <2>1. \E a, b, c, d : ToCreateAccess = <<a, b, c, d>> /\ ToWriteAccess = <<b, c, d>>
        BY Zenon DEF ToCreateAccess, ToWriteAccess
    <2>2. QED
        BY <2>1, TailOf4
<1>5. Tail(ToRecheck) = ToCreateAccess
    <2>1. \E a, b, c, d, e : ToRecheck = <<a, b, c, d, e>> /\ ToCreateAccess = <<b, c, d, e>>
        BY Zenon DEF ToRecheck, ToCreateAccess
    <2>2. QED
        BY <2>1, TailOf5
<1>6. Tail(ToSyncRestored) = ToRecheck
    <2>1. \E a, b, c, d, e, f : ToSyncRestored = <<a, b, c, d, e, f>> /\ ToRecheck = <<b, c, d, e, f>>
        BY Zenon DEF ToSyncRestored, ToRecheck
    <2>2. QED
        BY <2>1, TailOf6
<1>7. Tail(ToWriteRestored) = ToSyncRestored
    <2>1. \E a, b, c, d, e, f, g : ToWriteRestored = <<a, b, c, d, e, f, g>> /\ ToSyncRestored = <<b, c, d, e, f, g>>
        BY Zenon DEF ToWriteRestored, ToSyncRestored
    <2>2. QED
        BY <2>1, TailOf7
<1>8. Tail(ToCreateRestored) = ToWriteRestored
    <2>1. \E a, b, c, d, e, f, g, h : ToCreateRestored = <<a, b, c, d, e, f, g, h>> /\ ToWriteRestored = <<b, c, d, e, f, g, h>>
        BY Zenon DEF ToCreateRestored, ToWriteRestored
    <2>2. QED
        BY <2>1, TailOf8
<1>9. Tail(ToWriteInventory) = ToSync
    BY DEF ToWriteInventory, ToSync
<1>10. Tail(ToCreateInventory) = ToWriteInventory
    <2>1. \E a, b, c, d : ToCreateInventory = <<a, b, c, d>> /\ ToWriteInventory = <<b, c, d>>
        BY Zenon DEF ToCreateInventory, ToWriteInventory
    <2>2. QED
        BY <2>1, TailOf4
<1>11. Tail(ToCheckBackup) = ToCreateInventory
    <2>1. \E a, b, c, d, e : ToCheckBackup = <<a, b, c, d, e>> /\ ToCreateInventory = <<b, c, d, e>>
        BY Zenon DEF ToCheckBackup, ToCreateInventory
    <2>2. QED
        BY <2>1, TailOf5
<1>12. Tail(ToKeepBackup) = ToCheckBackup
    <2>1. \E a, b, c, d, e, f : ToKeepBackup = <<a, b, c, d, e, f>> /\ ToCheckBackup = <<b, c, d, e, f>>
        BY Zenon DEF ToKeepBackup, ToCheckBackup
    <2>2. QED
        BY <2>1, TailOf6
<1>13. Tail(ToBackUp) = ToKeepBackup
    <2>1. \E a, b, c, d, e, f, g : ToBackUp = <<a, b, c, d, e, f, g>> /\ ToKeepBackup = <<b, c, d, e, f, g>>
        BY Zenon DEF ToBackUp, ToKeepBackup
    <2>2. QED
        BY <2>1, TailOf7
<1>14. Tail(ToKeep) = ToCheck
    BY DEF ToKeep, ToCheck
<1>15. Tail(ToSnapshot) = ToKeep
    BY DEF ToSnapshot, ToKeep
<1>16. Tail(ToReplace) = ToSync
    BY DEF ToReplace, ToSync
<1>17. Tail(LastSync) = Done
    BY DEF LastSync, Done
<1>18. Tail(ToReplaceOnly) = LastSync
    BY DEF ToReplaceOnly, LastSync
<1>19. QED
    BY <1>1, <1>2, <1>3, <1>4, <1>5, <1>6, <1>7, <1>8, <1>9, <1>10, <1>11, <1>12, <1>13,
       <1>14, <1>15, <1>16, <1>17, <1>18

\* The next step.
LEMMA Heads ==
    /\ Head(ToCheck) = "check" /\ ToCheck # <<>>
    /\ Head(ToSync) = "sync" /\ ToSync # <<>>
    /\ Head(ToWriteAccess) = "write access" /\ ToWriteAccess # <<>>
    /\ Head(ToCreateAccess) = "create access" /\ ToCreateAccess # <<>>
    /\ Head(ToRecheck) = "check" /\ ToRecheck # <<>>
    /\ Head(ToSyncRestored) = "sync" /\ ToSyncRestored # <<>>
    /\ Head(ToWriteRestored) = "write inventory" /\ ToWriteRestored # <<>>
    /\ Head(ToCreateRestored) = "create inventory" /\ ToCreateRestored # <<>>
    /\ Head(ToWriteInventory) = "write inventory" /\ ToWriteInventory # <<>>
    /\ Head(ToCreateInventory) = "create inventory" /\ ToCreateInventory # <<>>
    /\ Head(ToCheckBackup) = "check" /\ ToCheckBackup # <<>>
    /\ Head(ToKeepBackup) = "keep" /\ ToKeepBackup # <<>>
    /\ Head(ToBackUp) = "snapshot" /\ ToBackUp # <<>>
    /\ Head(ToKeep) = "keep" /\ ToKeep # <<>>
    /\ Head(ToSnapshot) = "snapshot" /\ ToSnapshot # <<>>
    /\ Head(ToReplace) = "replace" /\ ToReplace # <<>>
    /\ Head(LastSync) = "sync" /\ LastSync # <<>>
    /\ Head(ToReplaceOnly) = "replace" /\ ToReplaceOnly # <<>>
BY DEF Done, ToCheck, ToSync, ToWriteAccess, ToCreateAccess, ToRecheck, ToSyncRestored,
       ToWriteRestored, ToCreateRestored, ToWriteInventory, ToCreateInventory,
       ToCheckBackup, ToKeepBackup, ToBackUp, ToKeep, ToSnapshot, ToReplace, LastSync,
       ToReplaceOnly

\* How many remain, which tells those of a ceremony apart.
LEMMA Lens ==
    /\ Len(Done) = 0
    /\ Len(ToCheck) = 1
    /\ Len(ToSync) = 2
    /\ Len(ToWriteAccess) = 3
    /\ Len(ToCreateAccess) = 4
    /\ Len(ToRecheck) = 5
    /\ Len(ToSyncRestored) = 6
    /\ Len(ToWriteRestored) = 7
    /\ Len(ToCreateRestored) = 8
    /\ Len(ToWriteInventory) = 3
    /\ Len(ToCreateInventory) = 4
    /\ Len(ToCheckBackup) = 5
    /\ Len(ToKeepBackup) = 6
    /\ Len(ToBackUp) = 7
    /\ Len(ToKeep) = 2
    /\ Len(ToSnapshot) = 3
    /\ Len(ToReplace) = 3
    /\ Len(LastSync) = 1
    /\ Len(ToReplaceOnly) = 2
BY DEF Done, ToCheck, ToSync, ToWriteAccess, ToCreateAccess, ToRecheck, ToSyncRestored,
       ToWriteRestored, ToCreateRestored, ToWriteInventory, ToCreateInventory,
       ToCheckBackup, ToKeepBackup, ToBackUp, ToKeep, ToSnapshot, ToReplace, LastSync,
       ToReplaceOnly


\* Every step that a ceremony takes, with what is left before and after it.
LEMMA Moves ==
    ASSUME NEW kind \in Kinds, NEW t \in Left(kind), t # <<>>
    PROVE  /\ Tail(t) \in Left(kind) /\ kind \notin {"none", "commit"}
           /\ Head(t) = "replace" =>
                 /\ kind \in Replacing
                 /\ t \in {ToReplace, ToReplaceOnly} /\ Tail(t) \in {ToSync, LastSync}
           /\ Head(t) = "sync" =>
                 \/ /\ kind \in Replacing
                    /\ t \in {ToSync, LastSync} /\ Tail(t) \in {ToCheck, Done}
                 \/ kind \in {"initialize", "restore"} /\ t = ToSync /\ Tail(t) = ToCheck
                 \/ kind = "restore" /\ t = ToSyncRestored /\ Tail(t) = ToRecheck
           /\ Head(t) = "check" =>
                 \/ t = ToCheck /\ Tail(t) = Done
                 \/ kind = "initialize" /\ t = ToCheckBackup /\ Tail(t) = ToCreateInventory
                 \/ kind = "restore" /\ t = ToRecheck /\ Tail(t) = ToCreateAccess
           /\ Head(t) = "snapshot" =>
                 \/ kind = "export" /\ t = ToSnapshot /\ Tail(t) = ToKeep
                 \/ kind = "initialize" /\ t = ToBackUp /\ Tail(t) = ToKeepBackup
           /\ Head(t) = "keep" =>
                 \/ kind = "export" /\ t = ToKeep /\ Tail(t) = ToCheck
                 \/ kind = "initialize" /\ t = ToKeepBackup /\ Tail(t) = ToCheckBackup
           /\ Head(t) = "create inventory" =>
                 \/ kind = "initialize" /\ t = ToCreateInventory /\ Tail(t) = ToWriteInventory
                 \/ kind = "restore" /\ t = ToCreateRestored /\ Tail(t) = ToWriteRestored
           /\ Head(t) = "write inventory" =>
                 \/ kind = "initialize" /\ t = ToWriteInventory /\ Tail(t) = ToSync
                 \/ kind = "restore" /\ t = ToWriteRestored /\ Tail(t) = ToSyncRestored
           /\ Head(t) = "create access" =>
                 kind = "restore" /\ t = ToCreateAccess /\ Tail(t) = ToWriteAccess
           /\ Head(t) = "write access" =>
                 kind = "restore" /\ t = ToWriteAccess /\ Tail(t) = ToSync
<1>1. Done = <<>>
    BY DEF Done
<1>2. CASE kind \in {"none", "commit"}
    BY <1>1, <1>2 DEF Left
<1>3. CASE kind \in Replacing
    <2>1. CASE kind = "change"
        BY <1>1, <2>1, Tails, Heads DEF Left, Replacing
    <2>2. CASE kind # "change"
        <3>1. t \in {ToReplace, ToSync, ToCheck, Done}
            BY <1>3, <2>2 DEF Left, Replacing
        <3>2. Left(kind) = {ToReplace, ToSync, ToCheck, Done}
            BY <1>3, <2>2 DEF Left, Replacing
        <3>3. CASE t = ToReplace
            BY <1>3, <3>2, <3>3, Tails, Heads DEF Replacing
        <3>4. CASE t = ToSync
            BY <1>3, <3>2, <3>4, Tails, Heads DEF Replacing
        <3>5. CASE t = ToCheck
            BY <1>3, <3>2, <3>5, Tails, Heads DEF Replacing
        <3>6. QED
            BY <1>1, <3>1, <3>3, <3>4, <3>5
    <2>3. QED
        BY <2>1, <2>2
<1>4. CASE kind = "export"
    BY <1>1, <1>4, Tails, Heads DEF Left, Replacing
<1>5. CASE kind = "initialize"
    BY <1>1, <1>5, Tails, Heads DEF Left, Replacing
<1>6. CASE kind = "restore"
    BY <1>1, <1>6, Tails, Heads DEF Left, Replacing
<1>7. QED
    BY <1>2, <1>3, <1>4, <1>5, <1>6 DEF Kinds

----------------------------------------------------------------------------
(* Types                                                                   *)

\* An envelope without an identity was never enrolled.
Sealed == {a \in Envelopes : a.id = 0 => a.code = 0}

\* What a snapshot file holds.
Backups == [access : Sealed, image : Images \cup {NoFile}]

AccessFiles == Sealed \cup {NoFile, Torn}

\* An init always gives its installation an identity.
InitFiles == {a \in Sealed : a.id # 0} \cup {NoFile}

InventoryFiles == Images \cup {NoFile, Torn}

JobType == [kind : Kinds, todo : Todos, access : Sealed \cup {NoFile},
            image : Images \cup {NoFile}, rev : 0 .. MaxSeals]

\* A ceremony has an access file at hand, a commit and an initialization an image.
ValidJob(j) ==
    /\ j.todo \in Left(j.kind)
    /\ j.kind = "none" => j = NoJob
    /\ j.kind \notin {"none", "commit"} => j.access \in Sealed
    /\ j.kind \in {"commit", "initialize"} => j.image \in Images

JobsTyped == job \in [Dirs -> JobType] /\ \A d \in Dirs : ValidJob(job[d])

FilesTyped ==
    /\ disk \in [Dirs -> [access : AccessFiles, inventory : InventoryFiles]]
    /\ survive \in [Dirs -> [access : SUBSET AccessFiles, inventory : SUBSET InventoryFiles]]
    /\ \A d \in Dirs : /\ disk[d].access \in survive[d].access
                       /\ disk[d].inventory \in survive[d].inventory

TypeInv ==
    /\ JobsTyped /\ FilesTyped
    /\ init \in [Dirs -> InitFiles] /\ initAt \in [Dirs -> InitStages]
    /\ \A d \in Dirs : initAt[d] = "none" <=> init[d] = NoFile
    /\ server \in Dirs \cup {Nowhere} /\ session \in [Sessions -> 0 .. MaxSeals]
    /\ snaps \subseteq Backups /\ kept \subseteq Backups
    /\ seals \in 0 .. MaxSeals
    /\ candidate \in [Dirs -> SUBSET [expected : 1 .. MaxSeals, access : Sealed]]
    /\ known \in [Dirs -> SUBSET Passwords]
    /\ displayed \subseteq 1 .. MaxSeals /\ code \in [Dirs -> 0 .. MaxSeals]
    /\ settled \subseteq Dirs /\ restored \in [Dirs -> 0 .. MaxSeals]
    /\ strays \subseteq 1 .. MaxSeals /\ removed \subseteq Dirs

\* A file that is put is the one that is read, and one that may survive.
LEMMA PutAccess ==
    ASSUME FilesTyped, NEW d \in Dirs, NEW f \in AccessFiles, Put(d, "access", f)
    PROVE  /\ FilesTyped'
           /\ disk'[d].access = f /\ disk'[d].inventory = disk[d].inventory
           /\ survive'[d].access = survive[d].access \cup {f}
           /\ survive'[d].inventory = survive[d].inventory
           /\ \A e \in Dirs \ {d} : disk'[e] = disk[e] /\ survive'[e] = survive[e]
BY DEF Put, FilesTyped

LEMMA PutInventory ==
    ASSUME FilesTyped, NEW d \in Dirs, NEW f \in InventoryFiles, Put(d, "inventory", f)
    PROVE  /\ FilesTyped'
           /\ disk'[d].inventory = f /\ disk'[d].access = disk[d].access
           /\ survive'[d].inventory = survive[d].inventory \cup {f}
           /\ survive'[d].access = survive[d].access
           /\ \A e \in Dirs \ {d} : disk'[e] = disk[e] /\ survive'[e] = survive[e]
BY DEF Put, FilesTyped

\* A step of a ceremony changes no more of its job than what is left of it.
LEMMA Steps ==
    ASSUME JobsTyped, NEW d \in Dirs, NEW s, Doing(d, s)
    PROVE  /\ JobsTyped'
           /\ job[d].todo \in Left(job[d].kind) /\ job[d].todo # <<>>
           /\ job[d].kind \in Kinds /\ Head(job[d].todo) = s
           /\ job'[d].todo = Tail(job[d].todo)
           /\ job'[d].kind = job[d].kind /\ job'[d].access = job[d].access
           /\ job'[d].image = job[d].image /\ job'[d].rev = job[d].rev
           /\ \A e \in Dirs \ {d} : job'[e] = job[e]
<1>1. /\ job[d].todo \in Left(job[d].kind) /\ job[d].todo # <<>> /\ job[d].kind \in Kinds
      /\ Head(job[d].todo) = s
    BY DEF JobsTyped, JobType, ValidJob, Doing
<1>2. Tail(job[d].todo) \in Left(job[d].kind) /\ job[d].kind \notin {"none", "commit"}
    BY <1>1, Moves
<1> DEFINE t == Tail(job[d].todo)
<1>3. t \in Todos
    BY <1>1, <1>2 DEF Todos
<1>4. job' = [job EXCEPT ![d].todo = t]
    BY DEF Doing
<1> HIDE DEF t
<1>5. /\ job' \in [Dirs -> JobType]
      /\ job'[d].kind = job[d].kind /\ job'[d].access = job[d].access
      /\ job'[d].image = job[d].image /\ job'[d].rev = job[d].rev /\ job'[d].todo = t
      /\ \A e \in Dirs \ {d} : job'[e] = job[e]
    BY <1>3, <1>4 DEF JobsTyped, JobType
<1>6. t \in Left(job[d].kind)
    BY <1>2 DEF t
<1>7. JobsTyped'
    BY <1>1, <1>2, <1>5, <1>6 DEF JobsTyped, ValidJob
<1>8. QED
    BY <1>1, <1>5, <1>7 DEF t

\* A job that ends, or that starts with a todo list of its kind.
LEMMA JobSet ==
    ASSUME JobsTyped, NEW d \in Dirs, NEW j \in JobType, ValidJob(j),
           job' = [job EXCEPT ![d] = j]
    PROVE  /\ JobsTyped' /\ job'[d] = j
           /\ \A e \in Dirs \ {d} : job'[e] = job[e]
BY DEF JobsTyped

LEMMA NoJobType == NoJob \in JobType /\ ValidJob(NoJob) /\ NoJob.kind = "none"
<1>1. Done = <<>>
    BY DEF Done
<1>2. Done \in Todos
    BY DEF Todos, Left, Kinds
<1>3. QED
    BY <1>1, <1>2, AccessAssumption DEF NoJob, ValidJob, JobType, Left, Kinds

\* The script of a ceremony is what is left of it at first.
LEMMA Scripts ==
    /\ Script("change") = ToReplaceOnly /\ Script("restore") = ToCreateRestored
    /\ Script("export") = ToSnapshot /\ Script("initialize") = ToBackUp
    /\ \A kind \in {"upgrade", "enroll", "rotate", "reset"} : Script(kind) = ToReplace
    /\ AccessOnly = ToCreateAccess
<1>1. Script("change") = ToReplaceOnly
    BY Zenon DEF Script, ToReplaceOnly
<1>2. Script("restore") = ToCreateRestored
    BY Zenon DEF Script, ToCreateRestored
<1>3. Script("export") = ToSnapshot
    BY Zenon DEF Script, ToSnapshot
<1>4. Script("initialize") = ToBackUp
    BY Zenon DEF Script, ToBackUp
<1>5. ASSUME NEW kind \in {"upgrade", "enroll", "rotate", "reset"} PROVE Script(kind) = ToReplace
    BY <1>5, Zenon DEF Script, ToReplace
<1>6. AccessOnly = ToCreateAccess
    BY Zenon DEF AccessOnly, ToCreateAccess
<1>7. QED
    BY <1>1, <1>2, <1>3, <1>4, <1>5, <1>6

\* A job that starts is one of its kind.
LEMMA Starts ==
    ASSUME JobsTyped, NEW d \in Dirs, NEW kind \in Kinds \ {"none", "commit"},
           NEW todo \in Left(kind), NEW access \in Sealed,
           NEW image \in Images \cup {NoFile}, kind = "initialize" => image \in Images,
           Start(d, kind, todo, access, image)
    PROVE  /\ JobsTyped'
           /\ job'[d] = [kind |-> kind, todo |-> todo, access |-> access, image |-> image,
                         rev |-> 0]
           /\ \A e \in Dirs \ {d} : job'[e] = job[e]
<1> DEFINE j == [kind |-> kind, todo |-> todo, access |-> access, image |-> image, rev |-> 0]
<1>1. j \in JobType
    BY AccessAssumption DEF JobType, Todos
<1>2. ValidJob(j)
    BY DEF ValidJob
<1>3. job' = [job EXCEPT ![d] = j]
    BY DEF Start
<1> HIDE DEF j
<1>4. JobsTyped' /\ job'[d] = j /\ \A e \in Dirs \ {d} : job'[e] = job[e]
    BY <1>1, <1>2, <1>3, JobSet
<1>5. QED
    BY <1>4 DEF j

\* What an envelope is made of, and that anything made so is one.
LEMMA Fields ==
    \A a \in Sealed :
        /\ a.rev \in 1 .. MaxSeals /\ a.id \in 0 .. MaxSeals /\ a.code \in 0 .. MaxSeals
        /\ a.pass \in Passwords /\ a.ready \in BOOLEAN /\ Whole(a)
        /\ a.id = 0 => a.code = 0
        /\ a = [rev |-> a.rev, id |-> a.id, pass |-> a.pass, ready |-> a.ready, code |-> a.code]
BY FilesAssumption DEF Sealed, Envelopes, Whole

LEMMA Made ==
    ASSUME NEW r \in 1 .. MaxSeals, NEW i \in 0 .. MaxSeals, NEW p \in Passwords,
           NEW y \in BOOLEAN, NEW c \in 0 .. MaxSeals, i = 0 => c = 0
    PROVE  /\ [rev |-> r, id |-> i, pass |-> p, ready |-> y, code |-> c] \in Sealed
           /\ [rev |-> r, id |-> i, pass |-> p, ready |-> TRUE, code |-> c] \in Sealed
           /\ [rev |-> r, id |-> i, pass |-> p, ready |-> FALSE, code |-> c] \in Sealed
<1>0. ASSUME NEW z \in BOOLEAN
      PROVE  [rev |-> r, id |-> i, pass |-> p, ready |-> z, code |-> c] \in Sealed
  <2> DEFINE e == [rev |-> r, id |-> i, pass |-> p, ready |-> z, code |-> c]
  <2>1. e \in Envelopes
      BY DEF Envelopes
  <2>2. e.id = i /\ e.code = c
      OBVIOUS
  <2>3. QED
      BY <2>1, <2>2 DEF Sealed
<1>1. QED
    BY <1>0

\* New envelopes are envelopes.
LEMMA Seals ==
    ASSUME NEW a \in Sealed, NEW p \in Passwords, NextRev \in 1 .. MaxSeals
    PROVE  /\ Resealed(a, p) \in Sealed
           /\ a.id # 0 => Recoded(a, p) \in Sealed
           /\ [a EXCEPT !.rev = NextRev, !.id = NextRev] \in Sealed
           /\ LET b == [a EXCEPT !.rev = NextRev, !.id = NextRev] IN
              b.rev = NextRev /\ b.id = NextRev /\ b.code = a.code /\ b.pass = a.pass
<1>1. /\ a.id \in 0 .. MaxSeals /\ a.code \in 0 .. MaxSeals /\ (a.id = 0 => a.code = 0)
      /\ a.pass \in Passwords /\ a.ready \in BOOLEAN
    BY Fields
<1>2. NextRev \in 0 .. MaxSeals /\ NextRev # 0
    BY AccessAssumption
<1>3. Resealed(a, p) \in Sealed
    BY <1>1, Made DEF Resealed
<1>4. a.id # 0 => Recoded(a, p) \in Sealed
    BY <1>1, <1>2, Made DEF Recoded
<1> DEFINE b == [a EXCEPT !.rev = NextRev, !.id = NextRev]
<1>5. b \in Envelopes
    BY <1>2 DEF Sealed, Envelopes
<1>6. b.rev = NextRev /\ b.id = NextRev /\ b.code = a.code /\ b.pass = a.pass
    BY DEF Sealed, Envelopes
<1>7. b \in Sealed
    BY <1>2, <1>5, <1>6 DEF Sealed
<1>8. QED
    BY <1>3, <1>4, <1>6, <1>7

\* The types hold at the start, and every action keeps them.
LEMMA InitTypes == Init => TypeInv
<1> SUFFICES ASSUME Init PROVE TypeInv
    OBVIOUS
<1>1. PICK old \in [Legacy -> {NoFile} \cup [rev : {1}, id : {0}, pass : Passwords,
                                              ready : {TRUE}, code : {0}]] :
        LET access(d) == IF d \in Legacy THEN old[d] ELSE NoFile IN
        /\ disk = [d \in Dirs |-> [access |-> access(d), inventory |-> NoFile]]
        /\ survive = [d \in Dirs |-> [access |-> {access(d)}, inventory |-> {NoFile}]]
        /\ known = [d \in Dirs |-> IF access(d) = NoFile THEN {} ELSE {access(d).pass}]
        /\ settled = {d \in Dirs : access(d) # NoFile}
        /\ seals = IF settled = {} THEN 0 ELSE 1
    BY DEF Init
<1>2. ASSUME NEW d \in Legacy PROVE old[d] \in Sealed \cup {NoFile}
    <2>1. CASE old[d] = NoFile
        BY <2>1
    <2>2. CASE old[d] \in [rev : {1}, id : {0}, pass : Passwords, ready : {TRUE}, code : {0}]
        <3>1. PICK q \in Passwords :
                old[d] = [rev |-> 1, id |-> 0, pass |-> q, ready |-> TRUE, code |-> 0]
            BY <2>2
        <3>2. 1 \in 1 .. MaxSeals /\ 0 \in 0 .. MaxSeals
            BY AccessAssumption
        <3>3. [rev |-> 1, id |-> 0, pass |-> q, ready |-> TRUE, code |-> 0] \in Sealed
            BY <3>2, Made, Zenon
        <3>4. QED
            BY <3>1, <3>3
    <2>3. QED
        BY <2>1, <2>2
<1>3. FilesTyped
    BY <1>1, <1>2 DEF FilesTyped, AccessFiles, InventoryFiles
<1>4. JobsTyped
    BY NoJobType DEF Init, JobsTyped
<1>5. known \in [Dirs -> SUBSET Passwords]
    <2>1. \A d \in Legacy : old[d] # NoFile => old[d].pass \in Passwords
        BY <1>2, Fields
    <2>2. QED
        BY <1>1, <2>1
<1>6. seals \in 0 .. MaxSeals /\ settled \subseteq Dirs
    BY <1>1, AccessAssumption
<1>7. QED
    BY <1>3, <1>4, <1>5, <1>6, AccessAssumption DEF TypeInv, Init, InitFiles, InitStages

LEMMA TypeStep ==
    ASSUME TypeInv, [Next]_vars
    PROVE  TypeInv'
<1>0. NextRev \in Nat /\ (Sealing => NextRev \in 1 .. MaxSeals /\ seals' \in 0 .. MaxSeals)
    BY AccessAssumption DEF TypeInv, NextRev, Sealing
<1>1. ASSUME NEW d \in Dirs, Replace(d) PROVE TypeInv'
    <2>1. Doing(d, "replace")
        BY <1>1 DEF Replace
    <2>2. JobsTyped' /\ job[d].access \in Sealed
        BY <2>1, Steps, Moves DEF TypeInv, JobsTyped, ValidJob
    <2>3. FilesTyped'
        BY <1>1, <2>2, PutAccess DEF Replace, TypeInv, AccessFiles
    <2>4. job[d].access.pass \in Passwords
        BY <2>2, Fields
    <2>5. known' \in [Dirs -> SUBSET Passwords] /\ code' \in [Dirs -> 0 .. MaxSeals]
        BY <1>1, <2>4, AccessAssumption DEF Replace, TypeInv
    <2>6. QED
        BY <1>1, <2>2, <2>3, <2>5 DEF Replace, TypeInv
<1>2. ASSUME NEW d \in Dirs, CreateInventory(d) PROVE TypeInv'
    <2>1. JobsTyped'
        BY <1>2, Steps DEF CreateInventory, TypeInv
    <2>2. FilesTyped'
        BY <1>2, PutInventory DEF CreateInventory, CreateFile, TypeInv, InventoryFiles
    <2>3. QED
        BY <1>2, <2>1, <2>2 DEF CreateInventory, TypeInv
<1>3. ASSUME NEW d \in Dirs, WriteInventory(d) PROVE TypeInv'
    <2>1. JobsTyped'
        BY <1>3, Steps DEF WriteInventory, TypeInv
    <2>2. job[d].image \in InventoryFiles
        BY DEF TypeInv, JobsTyped, JobType, InventoryFiles
    <2>3. FilesTyped'
        BY <1>3, <2>2, PutInventory DEF WriteInventory, TypeInv
    <2>4. QED
        BY <1>3, <2>1, <2>3 DEF WriteInventory, TypeInv
<1>4. ASSUME NEW d \in Dirs, CreateAccess(d) PROVE TypeInv'
    <2>1. JobsTyped'
        BY <1>4, Steps DEF CreateAccess, TypeInv
    <2>2. FilesTyped'
        BY <1>4, PutAccess DEF CreateAccess, CreateFile, TypeInv, AccessFiles
    <2>3. QED
        BY <1>4, <2>1, <2>2 DEF CreateAccess, TypeInv
<1>5. ASSUME NEW d \in Dirs, WriteAccess(d) PROVE TypeInv'
    <2>1. Doing(d, "write access")
        BY <1>5 DEF WriteAccess
    <2>2. JobsTyped' /\ job[d].access \in Sealed
        BY <2>1, Steps, Moves DEF TypeInv, JobsTyped, ValidJob
    <2>3. FilesTyped'
        BY <1>5, <2>2, PutAccess DEF WriteAccess, TypeInv, AccessFiles
    <2>4. job[d].access.pass \in Passwords
        BY <2>2, Fields
    <2>5. QED
        BY <1>5, <2>2, <2>3, <2>4 DEF WriteAccess, TypeInv
<1>6. ASSUME NEW d \in Dirs, Sync(d) PROVE TypeInv'
    <2>1. JobsTyped'
        BY <1>6, Steps DEF Sync, TypeInv
    <2>2. FilesTyped'
        BY <1>6 DEF Sync, TypeInv, FilesTyped
    <2>3. QED
        BY <1>6, <2>1, <2>2 DEF Sync, TypeInv
<1>7. ASSUME NEW d \in Dirs, WriteSnapshot(d) \/ KeepSnapshot(d) \/ Check(d) PROVE TypeInv'
    <2>1. PICK s \in {"snapshot", "keep", "check"} : Doing(d, s)
        BY <1>7 DEF WriteSnapshot, KeepSnapshot, Check
    <2>2. JobsTyped' /\ job[d].access \in Sealed
        BY <2>1, Steps, Moves DEF TypeInv, JobsTyped, ValidJob
    <2>3. Snapshot(d) \in Backups
        BY <2>2 DEF Snapshot, Backups, TypeInv, JobsTyped, JobType
    <2>4. snaps' \subseteq Backups /\ kept' \subseteq Backups
        BY <1>7, <2>3 DEF WriteSnapshot, KeepSnapshot, Check, TypeInv
    <2>5. FilesTyped'
        BY <1>7 DEF WriteSnapshot, KeepSnapshot, Check, TypeInv, FilesTyped
    <2>6. QED
        BY <1>7, <2>2, <2>4, <2>5 DEF WriteSnapshot, KeepSnapshot, Check, TypeInv
<1>8. ASSUME NEW d \in Dirs, Answer(d) PROVE TypeInv'
    <2>1. JobsTyped'
        BY <1>8, JobSet, NoJobType DEF Answer, TypeInv
    <2>2. job[d].access \in Sealed
        BY <1>8 DEF Answer, TypeInv, JobsTyped, ValidJob
    <2>3. FilesTyped'
        BY <1>8 DEF Answer, TypeInv, FilesTyped
    <2>4. job[d].access.code \in 0 .. MaxSeals /\ job[d].access.pass \in Passwords
        BY <2>2, Fields
    <2>5. displayed' \subseteq 1 .. MaxSeals
        <3>1. displayed' = displayed \cup ({job[d].access.code} \ {0})
            BY <1>8 DEF Answer
        <3>2. \A n \in {job[d].access.code} \ {0} : n \in 1 .. MaxSeals
            BY <2>4, AccessAssumption
        <3>3. QED
            BY <3>1, <3>2 DEF TypeInv
    <2>6. known' \in [Dirs -> SUBSET Passwords]
        <3>1. known' = known \/ known' = [known EXCEPT ![d] = {job[d].access.pass}]
            BY <1>8 DEF Answer
        <3>2. QED
            BY <2>4, <3>1 DEF TypeInv
    <2>7. code' \in [Dirs -> 0 .. MaxSeals]
        BY <1>8, <2>4 DEF Answer, TypeInv
    <2>8. settled' \subseteq Dirs
        BY <1>8 DEF Answer, TypeInv
    <2>9. QED
        BY <1>8, <2>1, <2>3, <2>5, <2>6, <2>7, <2>8 DEF Answer, TypeInv
<1>9. ASSUME NEW d \in Dirs, Fail(d) PROVE TypeInv'
    <2>1. JobsTyped'
        BY <1>9, JobSet, NoJobType DEF Fail, TypeInv
    <2>2. QED
        BY <1>9, <2>1 DEF Fail, TypeInv, FilesTyped
<1>10. ASSUME NEW d \in Dirs, BeginInit(d) PROVE TypeInv'
    <2>1. NextRev \in 1 .. MaxSeals /\ seals' \in 0 .. MaxSeals
        BY <1>0, <1>10 DEF BeginInit
    <2>2. FilesTyped'
        BY <1>10, PutAccess DEF BeginInit, CreateFile, TypeInv, AccessFiles
    <2>3. /\ init' \in [Dirs -> InitFiles] /\ initAt' \in [Dirs -> InitStages]
          /\ \A x \in Dirs : initAt'[x] = "none" <=> init'[x] = NoFile
        <3>1. PICK p \in Passwords :
                init' = [init EXCEPT ![d] = [rev |-> NextRev, id |-> NextRev, pass |-> p,
                                              ready |-> FALSE, code |-> 0]]
            BY <1>10 DEF BeginInit
        <3> DEFINE e == [rev |-> NextRev, id |-> NextRev, pass |-> p, ready |-> FALSE,
                         code |-> 0]
        <3>2. e \in Sealed /\ e.id # 0
            <4>1. NextRev \in 0 .. MaxSeals /\ NextRev # 0 /\ 0 \in 0 .. MaxSeals
                BY <2>1, AccessAssumption
            <4>2. e \in Sealed
                BY <2>1, <4>1, Made, Zenon
            <4>3. QED
                BY <4>1, <4>2
        <3>3. init' = [init EXCEPT ![d] = e]
            BY <3>1
        <3> HIDE DEF e
        <3>4. e \in InitFiles /\ e # NoFile
            <4>1. e # NoFile
                BY <3>2, Fields DEF Whole
            <4>2. QED
                BY <3>2, <4>1 DEF InitFiles
        <3>5. initAt' = [initAt EXCEPT ![d] = "created"] /\ "created" \in InitStages
            BY <1>10 DEF BeginInit, InitStages
        <3>6. QED
            BY <3>3, <3>4, <3>5 DEF TypeInv
    <2>4. strays' \subseteq 1 .. MaxSeals
        BY <1>10, <2>1 DEF BeginInit, TypeInv
    <2>5. QED
        BY <1>10, <2>1, <2>2, <2>3, <2>4 DEF BeginInit, TypeInv, JobsTyped
<1>11. ASSUME NEW d \in Dirs, WriteInit(d) PROVE TypeInv'
    <2>1. init[d] \in Sealed
        BY <1>11 DEF WriteInit, TypeInv, InitFiles
    <2>2. FilesTyped' /\ known' \in [Dirs -> SUBSET Passwords]
        <3>1. CASE disk[d].access = Torn
            <4>1. init[d].pass \in Passwords
                BY <2>1, Fields
            <4>2. known' \in [Dirs -> SUBSET Passwords]
                BY <1>11, <3>1, <4>1 DEF WriteInit, TypeInv
            <4>3. FilesTyped'
                BY <1>11, <2>1, <3>1, PutAccess DEF WriteInit, TypeInv, AccessFiles
            <4>4. QED
                BY <4>2, <4>3
        <3>2. CASE disk[d].access # Torn
            BY <1>11, <3>2 DEF WriteInit, TypeInv, FilesTyped
        <3>3. QED
            BY <3>1, <3>2
    <2>3. /\ initAt' \in [Dirs -> InitStages]
          /\ \A x \in Dirs : initAt'[x] = "none" <=> init'[x] = NoFile
        BY <1>11 DEF WriteInit, TypeInv, InitStages
    <2>4. QED
        BY <1>11, <2>2, <2>3 DEF WriteInit, TypeInv, JobsTyped
<1>12. ASSUME NEW d \in Dirs, SyncInit(d) \/ EndInit(d) \/ KillInit(d) PROVE TypeInv'
    <2>1. /\ init' \in [Dirs -> InitFiles] /\ initAt' \in [Dirs -> InitStages]
          /\ \A x \in Dirs : initAt'[x] = "none" <=> init'[x] = NoFile
        BY <1>12 DEF SyncInit, EndInit, KillInit, InitOver, TypeInv, InitStages, InitFiles
    <2>2. QED
        BY <1>12, <2>1 DEF SyncInit, EndInit, KillInit, TypeInv, FilesTyped, JobsTyped
<1>13. ASSUME NEW d \in Dirs, FailInit(d) PROVE TypeInv'
    <2>1. FilesTyped'
        BY <1>13, PutAccess DEF FailInit, TypeInv, AccessFiles
    <2>2. /\ init' \in [Dirs -> InitFiles] /\ initAt' \in [Dirs -> InitStages]
          /\ \A x \in Dirs : initAt'[x] = "none" <=> init'[x] = NoFile
        BY <1>13 DEF FailInit, InitOver, TypeInv, InitStages, InitFiles
    <2>3. strays' \subseteq 1 .. MaxSeals
        <3>1. init[d] \in Sealed /\ init[d].id # 0
            BY <1>13 DEF FailInit, TypeInv, InitFiles
        <3>2. init[d].id \in 1 .. MaxSeals
            BY <3>1, Fields, AccessAssumption
        <3>3. QED
            BY <1>13, <3>2 DEF FailInit, TypeInv
    <2>4. removed' \subseteq Dirs
        BY <1>13 DEF FailInit, TypeInv
    <2>5. QED
        BY <1>13, <2>1, <2>2, <2>3, <2>4 DEF FailInit, TypeInv, JobsTyped
<1>14. ASSUME NEW d \in Dirs, Serve(d) PROVE TypeInv'
    BY <1>14 DEF Serve, TypeInv, FilesTyped, JobsTyped
<1>15. ASSUME NEW s \in Sessions, SignIn(s) PROVE TypeInv'
    <2>1. disk[server].access \in Sealed
        BY <1>15 DEF SignIn, TypeInv, FilesTyped, AccessFiles, Whole
    <2>2. session' \in [Sessions -> 0 .. MaxSeals]
        BY <1>15, <2>1, Fields DEF SignIn, TypeInv
    <2>3. QED
        BY <1>15, <2>2 DEF SignIn, TypeInv, FilesTyped, JobsTyped
<1>16. ASSUME NEW d \in Dirs, ChangePassword(d) PROVE TypeInv'
    <2>1. disk[d].access \in Sealed /\ NextRev \in 1 .. MaxSeals /\ seals' \in 0 .. MaxSeals
        BY <1>0, <1>16 DEF ChangePassword, TypeInv, FilesTyped, AccessFiles, Whole
    <2>2. PICK p \in Passwords :
            Start(d, "change", Script("change"), Resealed(disk[d].access, p), NoFile)
        BY <1>16 DEF ChangePassword
    <2>3. Resealed(disk[d].access, p) \in Sealed
        BY <2>1, Seals
    <2>4. JobsTyped'
        BY <2>2, <2>3, Starts, Scripts DEF Kinds, Left, Replacing, TypeInv
    <2>5. QED
        BY <1>16, <2>1, <2>4 DEF ChangePassword, TypeInv, FilesTyped
<1>17. ASSUME NEW d \in Dirs, NEW s \in Sessions, Commit(d, s) PROVE TypeInv'
    <2> DEFINE j == [NoJob EXCEPT !.kind = "commit", !.rev = session[s],
                                  !.image = [disk[d].inventory EXCEPT !.used = TRUE]]
    <2>1. disk[d].inventory \in Images
        BY <1>17 DEF Commit, TypeInv, FilesTyped, InventoryFiles, Whole
    <2>2. [disk[d].inventory EXCEPT !.used = TRUE] \in Images
        BY <2>1 DEF Images
    <2>3. session[s] \in 0 .. MaxSeals
        BY DEF TypeInv
    <2>4. Done = <<>> /\ Done \in Todos
        BY DEF Done, Todos, Left, Kinds
    <2>5. j \in JobType /\ ValidJob(j)
        BY <2>2, <2>3, <2>4 DEF NoJob, JobType, ValidJob, Left, Kinds
    <2>6. job' = [job EXCEPT ![d] = j]
        BY <1>17 DEF Commit
    <2> HIDE DEF j
    <2>7. JobsTyped'
        BY <2>5, <2>6, JobSet DEF TypeInv
    <2>8. QED
        BY <1>17, <2>7 DEF Commit, TypeInv, FilesTyped
<1>18. ASSUME NEW d \in Dirs, EndCommit(d) PROVE TypeInv'
    <2>1. JobsTyped'
        BY <1>18, JobSet, NoJobType DEF EndCommit, TypeInv
    <2>2. job[d].image \in Images
        BY <1>18 DEF EndCommit, TypeInv, JobsTyped, ValidJob
    <2>3. FilesTyped'
        BY <1>18, <2>2 DEF EndCommit, TypeInv, FilesTyped, InventoryFiles
    <2>4. QED
        BY <1>18, <2>1, <2>3 DEF EndCommit, TypeInv
<1>19. ASSUME NEW d \in Dirs, Prepare(d) PROVE TypeInv'
    <2>1. disk[d].access \in Sealed /\ NextRev \in 1 .. MaxSeals /\ seals' \in 0 .. MaxSeals
        BY <1>0, <1>19 DEF Prepare, TypeInv, FilesTyped, AccessFiles, Whole
    <2> DEFINE c == [expected |-> disk[d].access.rev,
                     access |-> [disk[d].access EXCEPT !.rev = NextRev, !.id = NextRev]]
    <2>2. [disk[d].access EXCEPT !.rev = NextRev, !.id = NextRev] \in Sealed
          /\ disk[d].access.rev \in 1 .. MaxSeals
        <3>1. Passwords # {}
            BY <2>1, Fields
        <3>2. QED
            BY <2>1, <3>1, Seals, Fields
    <2>3. c \in [expected : 1 .. MaxSeals, access : Sealed]
        BY <2>2
    <2>4. candidate' = [candidate EXCEPT ![d] = @ \cup {c}]
        BY <1>19 DEF Prepare
    <2> HIDE DEF c
    <2>5. candidate' \in [Dirs -> SUBSET [expected : 1 .. MaxSeals, access : Sealed]]
        BY <2>3, <2>4 DEF TypeInv
    <2>6. QED
        BY <1>19, <2>1, <2>5 DEF Prepare, TypeInv, FilesTyped, JobsTyped
<1>20. ASSUME NEW d \in Dirs, CommitUpgrade(d) PROVE TypeInv'
    <2>1. PICK c \in candidate[d] :
            Start(d, "upgrade", Script("upgrade"), c.access, NoFile)
        BY <1>20 DEF CommitUpgrade
    <2>2. c.access \in Sealed
        BY DEF TypeInv
    <2>3. JobsTyped'
        BY <2>1, <2>2, Starts, Scripts DEF Kinds, Left, Replacing, TypeInv
    <2>4. QED
        BY <1>20, <2>3 DEF CommitUpgrade, TypeInv, FilesTyped
<1>21. ASSUME NEW d \in Dirs, NEW kind \in {"enroll", "rotate", "reset"}, ChangeRecovery(d, kind)
       PROVE  TypeInv'
    <2>1. disk[d].access \in Sealed /\ NextRev \in 1 .. MaxSeals /\ seals' \in 0 .. MaxSeals
        BY <1>0, <1>21 DEF ChangeRecovery, TypeInv, FilesTyped, AccessFiles, Whole
    <2>2. PICK p \in Passwords :
            Start(d, kind, Script(kind), Recoded(disk[d].access, p), NoFile)
        BY <1>21, <2>1, Fields DEF ChangeRecovery
    <2>3. Recoded(disk[d].access, p) \in Sealed
        BY <1>21, <2>1, Seals DEF ChangeRecovery, Recoverable
    <2>4. /\ kind \in Kinds \ {"none", "commit"} /\ kind # "initialize"
          /\ Script(kind) \in Left(kind)
        BY Scripts DEF Kinds, Left, Replacing
    <2>5. JobsTyped'
        BY <2>2, <2>3, <2>4, Starts DEF TypeInv
    <2>6. QED
        BY <1>21, <2>1, <2>5 DEF ChangeRecovery, TypeInv, FilesTyped
<1>22. ASSUME NEW d \in Dirs, Export(d) PROVE TypeInv'
    <2>1. disk[d].access \in Sealed
        BY <1>22 DEF Export, TypeInv, FilesTyped, AccessFiles, Whole
    <2>2. PICK image \in {disk[d].inventory, NoFile} :
            /\ image # Torn
            /\ Start(d, "export", Script("export"), disk[d].access, image)
        BY <1>22 DEF Export
    <2>3. image \in Images \cup {NoFile}
        BY <2>2 DEF TypeInv, FilesTyped, InventoryFiles
    <2>4. JobsTyped'
        BY <2>1, <2>2, <2>3, Starts, Scripts DEF Kinds, Left, Replacing, TypeInv
    <2>5. QED
        BY <1>22, <2>4 DEF Export, TypeInv, FilesTyped
<1>23. ASSUME NEW d \in Dirs, InitializeInventory(d) PROVE TypeInv'
    <2>1. disk[d].access \in Sealed
        BY <1>23 DEF InitializeInventory, TypeInv, FilesTyped, AccessFiles, Whole
    <2>2. [id |-> disk[d].access.id, used |-> FALSE] \in Images
        <3>1. disk[d].access.code # 0
            BY <1>23 DEF InitializeInventory, SnapshotAllowed, TypeInv
        <3>2. disk[d].access.id \in 1 .. MaxSeals
            BY <2>1, <3>1, Fields
        <3>3. QED
            BY <3>2 DEF Images
    <2>3. JobsTyped'
        BY <1>23, <2>1, <2>2, Starts, Scripts DEF InitializeInventory, Kinds, Left, Replacing, TypeInv
    <2>4. QED
        BY <1>23, <2>3 DEF InitializeInventory, TypeInv, FilesTyped
<1>24. ASSUME NEW d \in Dirs, Restore(d) PROVE TypeInv'
    <2>1. PICK s \in snaps :
            /\ Start(d, "restore", IF Whole(s.image) THEN Script("restore") ELSE AccessOnly,
                     s.access, s.image)
            /\ restored' = [restored EXCEPT ![d] = IF Whole(s.image) THEN s.access.id ELSE 0]
        BY <1>24 DEF Restore
    <2>2. s.access \in Sealed /\ s.image \in Images \cup {NoFile}
        BY DEF TypeInv, Backups
    <2>3. JobsTyped'
        BY <2>1, <2>2, Starts, Scripts DEF Kinds, Left, Replacing, TypeInv
    <2>4. restored' \in [Dirs -> 0 .. MaxSeals]
        BY <2>1, <2>2, Fields, AccessAssumption DEF TypeInv
    <2>5. QED
        BY <1>24, <2>3, <2>4 DEF Restore, TypeInv, FilesTyped
<1>25. ASSUME NEW d \in Dirs, Stop(d) PROVE TypeInv'
    <2>1. JobsTyped'
        BY <1>25, JobSet, NoJobType DEF Stop, TypeInv
    <2>2. session' \in [Sessions -> 0 .. MaxSeals] /\ server' \in Dirs \cup {Nowhere}
        BY <1>25, AccessAssumption DEF Stop, NoServer, TypeInv
    <2>3. QED
        BY <1>25, <2>1, <2>2 DEF Stop, TypeInv, FilesTyped
<1>26. ASSUME PowerLoss PROVE TypeInv'
    <2>1. JobsTyped'
        BY <1>26, NoJobType DEF PowerLoss, JobsTyped
    <2>2. FilesTyped'
        BY <1>26 DEF PowerLoss, TypeInv, FilesTyped
    <2>3. session' \in [Sessions -> 0 .. MaxSeals] /\ server' \in Dirs \cup {Nowhere}
        BY <1>26, AccessAssumption DEF PowerLoss, NoServer
    <2>4. /\ init' \in [Dirs -> InitFiles] /\ initAt' \in [Dirs -> InitStages]
          /\ \A x \in Dirs : initAt'[x] = "none" <=> init'[x] = NoFile
        BY <1>26 DEF PowerLoss, InitFiles, InitStages
    <2>5. QED
        BY <1>26, <2>1, <2>2, <2>3, <2>4 DEF PowerLoss, TypeInv
<1>27. CASE UNCHANGED vars
    BY <1>27 DEF vars, TypeInv, FilesTyped, JobsTyped
<1>28. QED
    BY <1>1, <1>2, <1>3, <1>4, <1>5, <1>6, <1>7, <1>8, <1>9, <1>10, <1>11, <1>12, <1>13, <1>14,
       <1>15, <1>16, <1>17, <1>18, <1>19, <1>20, <1>21, <1>22, <1>23, <1>24, <1>25, <1>26, <1>27
       DEF Next

----------------------------------------------------------------------------
(* One directory at a time                                                 *)

\* What a process does in one directory.
Acts(d) ==
    \/ Replace(d) \/ CreateInventory(d) \/ WriteInventory(d)
    \/ CreateAccess(d) \/ WriteAccess(d) \/ Sync(d)
    \/ WriteSnapshot(d) \/ KeepSnapshot(d) \/ Check(d)
    \/ Answer(d) \/ Fail(d)
    \/ BeginInit(d) \/ WriteInit(d) \/ SyncInit(d) \/ EndInit(d)
    \/ FailInit(d) \/ KillInit(d)
    \/ Serve(d) \/ ChangePassword(d)
    \/ \E s \in Sessions : Commit(d, s)
    \/ EndCommit(d)
    \/ Prepare(d) \/ CommitUpgrade(d)
    \/ \E kind \in {"enroll", "rotate", "reset"} : ChangeRecovery(d, kind)
    \/ Export(d) \/ InitializeInventory(d) \/ Restore(d)
    \/ Stop(d)

LEMMA NextActs ==
    Next <=> (\E d \in Dirs : Acts(d)) \/ (\E s \in Sessions : SignIn(s)) \/ PowerLoss
BY DEF Next, Acts

\* Nothing changes in the directory.
FilesSame(d) ==
    /\ disk'[d] = disk[d] /\ survive'[d] = survive[d] /\ candidate'[d] = candidate[d]
    /\ known'[d] = known[d] /\ code'[d] = code[d] /\ restored'[d] = restored[d]
    /\ d \in settled' => d \in settled
    /\ d \in settled => d \in settled'

Same(d) ==
    /\ FilesSame(d) /\ job'[d] = job[d] /\ init'[d] = init[d] /\ initAt'[d] = initAt[d]
    /\ d \in removed' => d \in removed

\* What only grows, and by what.
Grows(d) ==
    /\ strays \subseteq strays' /\ snaps \subseteq snaps' /\ kept \subseteq kept'
    /\ displayed \subseteq displayed'
    /\ \A n \in displayed' : n \in displayed \/ (n = job[d].access.code /\ Whole(job[d].access))
    /\ seals' \in {seals, seals + 1} /\ removed \subseteq removed'

\* A process leaves the other directories alone.
LEMMA Elsewhere ==
    ASSUME TypeInv, NEW d \in Dirs, NEW e \in Dirs, e # d, Acts(d)
    PROVE  Same(e) /\ (server' = e => server = e)
<1> USE DEF Same, FilesSame, TypeInv, FilesTyped, JobsTyped
<1>1. CASE Replace(d) \/ CreateInventory(d) \/ WriteInventory(d) \/ CreateAccess(d)
    BY <1>1 DEF Replace, CreateInventory, WriteInventory, CreateAccess, Doing, CreateFile, Put
<1>2. CASE WriteAccess(d) \/ Sync(d) \/ WriteSnapshot(d) \/ KeepSnapshot(d) \/ Check(d)
    BY <1>2 DEF WriteAccess, Sync, WriteSnapshot, KeepSnapshot, Check, Doing, Put
<1>3. CASE Answer(d)
    BY <1>3 DEF Answer
<1>4. CASE Fail(d) \/ KillInit(d) \/ Serve(d) \/ Stop(d)
    BY <1>4, AccessAssumption DEF Fail, KillInit, InitOver, Serve, Stop, NoServer
<1>5. CASE BeginInit(d) \/ WriteInit(d) \/ SyncInit(d) \/ EndInit(d) \/ FailInit(d)
    <2>1. CASE BeginInit(d) \/ SyncInit(d) \/ EndInit(d) \/ FailInit(d)
        BY <2>1 DEF BeginInit, SyncInit, EndInit, FailInit, InitOver, CreateFile, Put
    <2>2. CASE WriteInit(d)
        BY <2>2 DEF WriteInit, Put
    <2>3. QED
        BY <1>5, <2>1, <2>2
<1>6. CASE ChangePassword(d) \/ CommitUpgrade(d) \/ Export(d) \/ InitializeInventory(d)
           \/ Restore(d) \/ \E kind \in {"enroll", "rotate", "reset"} : ChangeRecovery(d, kind)
    BY <1>6 DEF ChangePassword, CommitUpgrade, Export, InitializeInventory, Restore,
                ChangeRecovery, Start
<1>7. CASE (\E s \in Sessions : Commit(d, s)) \/ EndCommit(d) \/ Prepare(d)
    BY <1>7 DEF Commit, EndCommit, Prepare
<1>8. QED
    BY <1>1, <1>2, <1>3, <1>4, <1>5, <1>6, <1>7 DEF Acts

LEMMA Growth ==
    ASSUME TypeInv, NEW d \in Dirs, Acts(d)
    PROVE  Grows(d)
<1> DEFINE Plain == /\ strays' = strays /\ snaps' = snaps /\ kept' = kept
                    /\ displayed' = displayed /\ seals' \in {seals, seals + 1}
                    /\ removed' = removed
<1>0. Plain => Grows(d)
    BY DEF Grows
<1>1. CASE Replace(d) \/ CreateInventory(d) \/ WriteInventory(d) \/ CreateAccess(d)
    <2>1. Plain
        BY <1>1 DEF Replace, CreateInventory, WriteInventory, CreateAccess
    <2>2. QED
        BY <1>0, <2>1
<1>2. CASE WriteAccess(d) \/ Sync(d) \/ Check(d) \/ Fail(d)
    <2>1. Plain
        BY <1>2 DEF WriteAccess, Sync, Check, Fail
    <2>2. QED
        BY <1>0, <2>1
<1>3. CASE WriteSnapshot(d) \/ KeepSnapshot(d)
    <2>1. /\ snaps \subseteq snaps' /\ kept \subseteq kept' /\ strays' = strays
          /\ displayed' = displayed /\ seals' = seals /\ removed' = removed
        BY <1>3 DEF WriteSnapshot, KeepSnapshot
    <2>2. QED
        BY <2>1 DEF Grows
<1>4. CASE Answer(d)
    <2>1. Whole(job[d].access)
        BY <1>4, Fields DEF Answer, TypeInv, JobsTyped, ValidJob
    <2>2. /\ snaps' = snaps /\ kept' = kept /\ strays' = strays /\ seals' = seals
          /\ displayed' = displayed \cup ({job[d].access.code} \ {0}) /\ removed' = removed
        BY <1>4 DEF Answer
    <2>3. QED
        BY <2>1, <2>2 DEF Grows
<1>5. CASE KillInit(d) \/ Serve(d) \/ Stop(d) \/ WriteInit(d) \/ SyncInit(d) \/ EndInit(d)
    <2>1. Plain
        BY <1>5 DEF KillInit, Serve, Stop, WriteInit, SyncInit, EndInit
    <2>2. QED
        BY <1>0, <2>1
<1>6. CASE BeginInit(d) \/ FailInit(d)
    <2>1. /\ snaps' = snaps /\ kept' = kept /\ strays \subseteq strays'
          /\ displayed' = displayed /\ seals' \in {seals, seals + 1}
          /\ removed \subseteq removed'
        BY <1>6 DEF BeginInit, FailInit, Sealing, NextRev
    <2>2. QED
        BY <2>1 DEF Grows
<1>7. CASE ChangePassword(d) \/ CommitUpgrade(d) \/ Export(d) \/ InitializeInventory(d)
           \/ Restore(d) \/ \E kind \in {"enroll", "rotate", "reset"} : ChangeRecovery(d, kind)
    <2>1. Plain
        BY <1>7 DEF ChangePassword, CommitUpgrade, Export, InitializeInventory, Restore,
                    ChangeRecovery, Sealing, NextRev
    <2>2. QED
        BY <1>0, <2>1
<1>8. CASE (\E s \in Sessions : Commit(d, s)) \/ EndCommit(d) \/ Prepare(d)
    <2>1. Plain
        BY <1>8 DEF Commit, EndCommit, Prepare, Sealing, NextRev
    <2>2. QED
        BY <1>0, <2>1
<1>9. QED
    BY <1>1, <1>2, <1>3, <1>4, <1>5, <1>6, <1>7, <1>8 DEF Acts

----------------------------------------------------------------------------
(* Where an envelope comes from                                            *)

\* The directory has the envelope, or may have it again, or is about to.
Held(d, f) ==
    /\ Whole(f)
    /\ \/ f \in survive[d].access \/ f = job[d].access \/ f = init[d]
       \/ \E c \in candidate[d] : f = c.access

\* It was held there before, or comes from a snapshot, or is sealed now.
Origin(d, f, y) ==
    \/ Held(d, f)
    \/ \E s \in snaps : f = s.access
    \/ /\ d = y /\ seals' = NextRev /\ f.rev = NextRev
       /\ f.id = NextRev \/ \E g : Held(d, g) /\ f.id = g.id
       /\ f.code \in {0, NextRev} \/ \E g : Held(d, g) /\ f.code = g.code

\* Nothing new is held there.
Passed(d) ==
    /\ survive'[d].access \subseteq survive[d].access \cup {job[d].access, init[d], NoFile, Torn}
    /\ \/ job'[d].access \in survive[d].access \cup {job[d].access, NoFile}
       \/ \E c \in candidate[d] : job'[d].access = c.access
    /\ init'[d] \in {init[d], NoFile}
    /\ candidate'[d] = candidate[d]

LEMMA PassedOn ==
    ASSUME NEW d \in Dirs, Passed(d), NEW f, Held(d, f)'
    PROVE  Held(d, f)
BY DEF Passed, Held, Whole

\* No process makes an envelope out of nothing.
LEMMA Flow ==
    ASSUME TypeInv, NEW d \in Dirs, Acts(d), NEW x \in Dirs, NEW f, Held(x, f)'
    PROVE  Origin(x, f, d)
<1>1. CASE x # d
    <2>1. Same(x)
        BY <1>1, Elsewhere
    <2>2. Passed(x)
        BY <2>1 DEF Same, FilesSame, Passed
    <2>3. QED
        BY <2>2, PassedOn DEF Origin
<1>2. CASE x = d
    <2>0. Passed(d) => Origin(x, f, d)
        BY <1>2, PassedOn DEF Origin
    <2> USE DEF TypeInv, FilesTyped, JobsTyped
    <2>1. CASE Replace(d) \/ CreateInventory(d) \/ WriteInventory(d) \/ CreateAccess(d)
        <3>1. /\ survive'[d].access \subseteq survive[d].access \cup {job[d].access, Torn}
              /\ init' = init /\ candidate' = candidate
            <4>1. CASE Replace(d)
                BY <4>1 DEF Replace, Put
            <4>2. CASE CreateInventory(d)
                BY <4>2 DEF CreateInventory, CreateFile, Put
            <4>3. CASE WriteInventory(d)
                BY <4>3 DEF WriteInventory, Put
            <4>4. CASE CreateAccess(d)
                BY <4>4 DEF CreateAccess, CreateFile, Put
            <4>5. QED
                BY <2>1, <4>1, <4>2, <4>3, <4>4
        <3>2. PICK s : Doing(d, s)
            BY <2>1 DEF Replace, CreateInventory, WriteInventory, CreateAccess
        <3>3. job'[d].access = job[d].access
            BY <3>2, Steps
        <3>4. Passed(d)
            BY <3>1, <3>3 DEF Passed
        <3>5. QED
            BY <2>0, <3>4
    <2>2. CASE WriteAccess(d) \/ Sync(d) \/ WriteSnapshot(d) \/ KeepSnapshot(d) \/ Check(d)
        <3>1. /\ survive'[d].access \subseteq survive[d].access \cup {job[d].access}
              /\ init' = init /\ candidate' = candidate
            <4>1. CASE WriteAccess(d)
                BY <4>1 DEF WriteAccess, Put
            <4>2. CASE Sync(d)
                BY <4>2 DEF Sync
            <4>3. CASE WriteSnapshot(d) \/ KeepSnapshot(d) \/ Check(d)
                BY <4>3 DEF WriteSnapshot, KeepSnapshot, Check
            <4>4. QED
                BY <2>2, <4>1, <4>2, <4>3
        <3>2. PICK s : Doing(d, s)
            BY <2>2 DEF WriteAccess, Sync, WriteSnapshot, KeepSnapshot, Check
        <3>3. job'[d].access = job[d].access
            BY <3>2, Steps
        <3>4. Passed(d)
            BY <3>1, <3>3 DEF Passed
        <3>5. QED
            BY <2>0, <3>4
    <2>3. CASE Answer(d) \/ Fail(d) \/ KillInit(d) \/ Serve(d) \/ Stop(d)
        <3>1. Passed(d)
            BY <2>3 DEF Passed, Answer, Fail, KillInit, InitOver, Serve, Stop, NoJob
        <3>2. QED
            BY <2>0, <3>1
    <2>4. CASE WriteInit(d) \/ SyncInit(d) \/ EndInit(d) \/ FailInit(d)
        <3>1. Passed(d)
            <4>1. CASE WriteInit(d)
                BY <4>1 DEF Passed, WriteInit, Put
            <4>2. CASE SyncInit(d) \/ EndInit(d) \/ FailInit(d)
                BY <4>2 DEF Passed, SyncInit, EndInit, FailInit, InitOver, Put
            <4>3. QED
                BY <2>4, <4>1, <4>2
        <3>2. QED
            BY <2>0, <3>1
    <2>5. CASE CommitUpgrade(d) \/ Export(d) \/ InitializeInventory(d)
        <3>1. Passed(d)
            BY <2>5 DEF Passed, CommitUpgrade, Export, InitializeInventory, Start
        <3>2. QED
            BY <2>0, <3>1
    <2>6. CASE (\E s \in Sessions : Commit(d, s)) \/ EndCommit(d)
        <3>1. /\ survive'[d].access = survive[d].access /\ job'[d].access = NoFile
              /\ init' = init /\ candidate' = candidate
            <4>1. CASE \E s \in Sessions : Commit(d, s)
                BY <4>1 DEF Commit, NoJob
            <4>2. CASE EndCommit(d)
                BY <4>2 DEF EndCommit, NoJob
            <4>3. QED
                BY <2>6, <4>1, <4>2
        <3>2. QED
            BY <2>0, <3>1 DEF Passed
    <2>7. CASE BeginInit(d)
        <3>1. PICK p \in Passwords :
                init' = [init EXCEPT ![d] = [rev |-> NextRev, id |-> NextRev, pass |-> p,
                                              ready |-> FALSE, code |-> 0]]
            BY <2>7 DEF BeginInit
        <3> DEFINE e == [rev |-> NextRev, id |-> NextRev, pass |-> p, ready |-> FALSE,
                         code |-> 0]
        <3>2. e.rev = NextRev /\ e.id = NextRev /\ e.code = 0
            OBVIOUS
        <3> HIDE DEF e
        <3>3. /\ init'[d] = e /\ job' = job /\ candidate' = candidate /\ seals' = NextRev
              /\ survive'[d].access = survive[d].access \cup {Torn}
            <4>1. init' = [init EXCEPT ![d] = e]
                BY <3>1 DEF e
            <4>2. init'[d] = e
                BY <4>1
            <4>3. QED
                BY <2>7, <4>2 DEF BeginInit, CreateFile, Put, Sealing
        <3>4. f = e \/ Held(d, f)
            BY <1>2, <3>3 DEF Held, Whole
        <3>5. QED
            BY <1>2, <3>2, <3>3, <3>4 DEF Origin
    <2>8. CASE ChangePassword(d)
        <3>1. PICK p : Start(d, "change", Script("change"), Resealed(disk[d].access, p), NoFile)
            BY <2>8 DEF ChangePassword
        <3> DEFINE e == Resealed(disk[d].access, p)
        <3>2. e.rev = NextRev /\ e.id = disk[d].access.id /\ e.code = disk[d].access.code
            BY DEF Resealed
        <3> HIDE DEF e
        <3>3. /\ job'[d].access = e /\ init' = init /\ candidate' = candidate
              /\ survive' = survive /\ seals' = NextRev
            BY <2>8, <3>1 DEF ChangePassword, Start, Sealing, e
        <3>4. f = e \/ Held(d, f)
            BY <1>2, <3>3 DEF Held
        <3>5. Held(d, disk[d].access)
            BY <2>8 DEF ChangePassword, Held
        <3>6. QED
            BY <1>2, <3>2, <3>3, <3>4, <3>5 DEF Origin
    <2>9. CASE \E kind \in {"enroll", "rotate", "reset"} : ChangeRecovery(d, kind)
        <3>0. PICK kind \in {"enroll", "rotate", "reset"} : ChangeRecovery(d, kind)
            BY <2>9
        <3>1. PICK p : Start(d, kind, Script(kind), Recoded(disk[d].access, p), NoFile)
            BY <3>0 DEF ChangeRecovery
        <3> DEFINE e == Recoded(disk[d].access, p)
        <3>2. e.rev = NextRev /\ e.id = disk[d].access.id /\ e.code = NextRev
            BY DEF Recoded
        <3> HIDE DEF e
        <3>3. /\ job'[d].access = e /\ init' = init /\ candidate' = candidate
              /\ survive' = survive /\ seals' = NextRev
            BY <3>0, <3>1 DEF ChangeRecovery, Start, Sealing, e
        <3>4. f = e \/ Held(d, f)
            BY <1>2, <3>3 DEF Held
        <3>5. Held(d, disk[d].access)
            BY <3>0 DEF ChangeRecovery, Held
        <3>6. QED
            BY <1>2, <3>2, <3>3, <3>4, <3>5 DEF Origin
    <2>10. CASE Prepare(d)
        <3> DEFINE e == [disk[d].access EXCEPT !.rev = NextRev, !.id = NextRev]
                   c == [expected |-> disk[d].access.rev, access |-> e]
        <3>1. disk[d].access \in Sealed /\ NextRev \in 1 .. MaxSeals /\ Passwords # {}
            BY <2>10, AccessAssumption, Fields DEF Prepare, AccessFiles, Whole, Sealing, NextRev
        <3>2. e.rev = NextRev /\ e.id = NextRev /\ e.code = disk[d].access.code
            BY <3>1, Seals
        <3>3. candidate' = [candidate EXCEPT ![d] = @ \cup {c}]
            BY <2>10 DEF Prepare
        <3>4. c.access = e
            OBVIOUS
        <3> HIDE DEF e, c
        <3>5. /\ job' = job /\ init' = init /\ candidate'[d] = candidate[d] \cup {c}
              /\ survive' = survive /\ seals' = NextRev
            BY <2>10, <3>3 DEF Prepare, Sealing
        <3>6. f = e \/ Held(d, f)
            BY <1>2, <3>4, <3>5 DEF Held
        <3>7. Held(d, disk[d].access)
            BY <2>10 DEF Prepare, Held
        <3>8. QED
            BY <1>2, <3>2, <3>5, <3>6, <3>7 DEF Origin
    <2>11. CASE Restore(d)
        <3>1. PICK s \in snaps :
                Start(d, "restore", IF Whole(s.image) THEN Script("restore") ELSE AccessOnly,
                      s.access, s.image)
            BY <2>11 DEF Restore
        <3>2. /\ job'[d].access = s.access /\ init' = init /\ candidate' = candidate
              /\ survive' = survive
            BY <2>11, <3>1 DEF Restore, Start
        <3>3. f = s.access \/ Held(d, f)
            <4>1. Held(d, f)'
                BY <1>2
            <4>2. QED
                BY <3>2, <4>1 DEF Held
        <3>4. QED
            BY <1>2, <3>3 DEF Origin
    <2>12. QED
        BY <2>1, <2>2, <2>3, <2>4, <2>5, <2>6, <2>7, <2>8, <2>9, <2>10, <2>11 DEF Acts
<1>3. QED
    BY <1>1, <1>2

----------------------------------------------------------------------------
(* Numbers                                                                 *)

\* Whatever bears a number was made from a revision that was sealed.
Numbered ==
    /\ \A d \in Dirs : \A f \in Sealed :
         Held(d, f) => f.rev <= seals /\ f.id <= seals /\ f.code <= seals
    /\ \A s \in snaps \cup kept :
         s.access.rev <= seals /\ s.access.id <= seals /\ s.access.code <= seals
    /\ \A n \in displayed \cup strays : n <= seals
    /\ \A d \in Dirs : restored[d] <= seals
    /\ \A s \in Sessions : session[s] <= seals

\* A snapshot is of one installation, whose code was seen.
Backed ==
    /\ kept \subseteq snaps
    /\ \A s \in snaps : /\ s.access.id # 0 /\ s.access.code \in displayed
                        /\ Whole(s.image) => s.image.id = s.access.id

\* A code that nobody saw belongs to one directory.
OneHome ==
    \A d, e \in Dirs : d # e =>
        \A f, g \in Sealed :
            Held(d, f) /\ Held(e, g) /\ f.code = g.code => f.code \in displayed \cup {0}

LEMMA HeldSealed ==
    ASSUME TypeInv, NEW d \in Dirs, NEW f, Held(d, f)
    PROVE  f \in Sealed
<1>1. CASE f \in survive[d].access \/ f = job[d].access
    BY <1>1 DEF TypeInv, FilesTyped, JobsTyped, JobType, AccessFiles, Held, Whole
<1>2. CASE f = init[d] \/ \E c \in candidate[d] : f = c.access
    BY <1>2 DEF TypeInv, InitFiles, Held, Whole
<1>3. QED
    BY <1>1, <1>2 DEF Held

\* What neither a session nor a power loss adds to.
LEMMA HeldOnly ==
    ASSUME TypeInv, (\E s \in Sessions : SignIn(s)) \/ PowerLoss \/ UNCHANGED vars,
           NEW d \in Dirs, NEW f, Held(d, f)'
    PROVE  Held(d, f)
<1>1. CASE \E s \in Sessions : SignIn(s)
    BY <1>1 DEF SignIn, Held
<1>2. CASE PowerLoss
    <2>1. /\ disk'[d].access \in survive[d].access /\ survive'[d].access = {disk'[d].access}
          /\ job'[d].access = NoFile /\ init'[d] = NoFile /\ candidate' = candidate
        BY <1>2 DEF PowerLoss, NoJob
    <2>2. QED
        BY <2>1 DEF Held, Whole
<1>3. CASE UNCHANGED vars
    BY <1>3 DEF vars, Held
<1>4. QED
    BY <1>1, <1>2, <1>3

LEMMA InitNumbered == Init => Numbered /\ Backed /\ OneHome
<1> SUFFICES ASSUME Init PROVE Numbered /\ Backed /\ OneHome
    OBVIOUS
<1>1. PICK old \in [Legacy -> {NoFile} \cup [rev : {1}, id : {0}, pass : Passwords,
                                              ready : {TRUE}, code : {0}]] :
        LET access(d) == IF d \in Legacy THEN old[d] ELSE NoFile IN
        /\ survive = [d \in Dirs |-> [access |-> {access(d)}, inventory |-> {NoFile}]]
        /\ settled = {d \in Dirs : access(d) # NoFile}
        /\ seals = IF settled = {} THEN 0 ELSE 1
    BY DEF Init
<1>2. /\ job = [d \in Dirs |-> NoJob] /\ init = [d \in Dirs |-> NoFile]
      /\ candidate = [d \in Dirs |-> {}]
    BY DEF Init
<1>3. ASSUME NEW d \in Dirs, NEW f, Held(d, f)
      PROVE  f.rev = 1 /\ f.id = 0 /\ f.code = 0 /\ seals = 1
    <2>1. job[d].access = NoFile /\ init[d] = NoFile /\ candidate[d] = {}
        BY <1>2 DEF NoJob
    <2>2. d \in Legacy /\ f = old[d] /\ f # NoFile
        BY <1>1, <1>3, <2>1 DEF Held, Whole
    <2>3. d \in settled
        BY <1>1, <2>2
    <2>4. QED
        BY <1>1, <2>2, <2>3
<1>4. snaps = {} /\ kept = {} /\ displayed = {} /\ strays = {}
    BY DEF Init
<1>5. \A d \in Dirs : restored[d] <= seals
    BY <1>1 DEF Init
<1>6. \A s \in Sessions : session[s] <= seals
    BY <1>1 DEF Init
<1>7. Numbered
    BY <1>3, <1>4, <1>5, <1>6 DEF Numbered
<1>8. QED
    BY <1>3, <1>4, <1>7 DEF Backed, OneHome

LEMMA NumberedStep ==
    ASSUME TypeInv, TypeInv', Numbered, [Next]_vars
    PROVE  Numbered'
<1>0. seals \in Nat /\ seals' \in Nat
    BY AccessAssumption DEF TypeInv
<1>1. ASSUME NEW d \in Dirs, Acts(d) PROVE Numbered'
    <2>1. Grows(d)
        BY <1>1, Growth
    <2>2. seals <= seals' /\ (seals' = NextRev => seals' = seals + 1)
        BY <1>0, <2>1 DEF Grows, NextRev
    <2>3. ASSUME NEW x \in Dirs, NEW f \in Sealed, Held(x, f)'
          PROVE  f.rev <= seals' /\ f.id <= seals' /\ f.code <= seals'
        <3>1. Origin(x, f, d)
            BY <1>1, <2>3, Flow
        <3>2. f.rev \in Nat /\ f.id \in Nat /\ f.code \in Nat
            BY Fields, AccessAssumption
        <3>3. CASE Held(x, f)
            BY <1>0, <2>2, <3>2, <3>3 DEF Numbered
        <3>4. CASE \E s \in snaps : f = s.access
            BY <1>0, <2>2, <3>2, <3>4 DEF Numbered
        <3>5. CASE /\ x = d /\ seals' = NextRev /\ f.rev = NextRev
                   /\ f.id = NextRev \/ \E g : Held(x, g) /\ f.id = g.id
                   /\ f.code \in {0, NextRev} \/ \E g : Held(x, g) /\ f.code = g.code
            <4>1. f.id <= seals'
                <5>1. CASE f.id = NextRev
                    BY <1>0, <3>5, <5>1
                <5>2. CASE \E g : Held(x, g) /\ f.id = g.id
                    <6>1. \E g \in Sealed : Held(x, g) /\ f.id = g.id
                        BY <5>2, HeldSealed
                    <6>2. f.id <= seals
                        BY <6>1 DEF Numbered
                    <6>3. QED
                        BY <1>0, <2>2, <3>2, <6>2
                <5>3. QED
                    BY <3>5, <5>1, <5>2
            <4>2. f.code <= seals'
                <5>1. CASE f.code \in {0, NextRev}
                    BY <1>0, <3>5, <5>1
                <5>2. CASE \E g : Held(x, g) /\ f.code = g.code
                    <6>1. \E g \in Sealed : Held(x, g) /\ f.code = g.code
                        BY <5>2, HeldSealed
                    <6>2. f.code <= seals
                        BY <6>1 DEF Numbered
                    <6>3. QED
                        BY <1>0, <2>2, <3>2, <6>2
                <5>3. QED
                    BY <3>5, <5>1, <5>2
            <4>3. QED
                BY <1>0, <3>5, <4>1, <4>2
        <3>6. QED
            BY <3>1, <3>3, <3>4, <3>5 DEF Origin
    <2>4. ASSUME Whole(job[d].access)
          PROVE  /\ job[d].access \in Sealed
                 /\ job[d].access.rev <= seals /\ job[d].access.id <= seals
                 /\ job[d].access.code <= seals
        <3>1. Held(d, job[d].access)
            BY <2>4 DEF Held
        <3>2. QED
            BY <3>1, HeldSealed DEF Numbered
    <2>5. ASSUME NEW s \in (snaps \cup kept)'
          PROVE  s.access.rev <= seals' /\ s.access.id <= seals' /\ s.access.code <= seals'
        <3>1. s \in snaps \cup kept \/ (s = Snapshot(d) /\ job[d].access \in Sealed)
            <4>1. CASE WriteSnapshot(d) \/ KeepSnapshot(d)
                <5>1. PICK t \in {"snapshot", "keep"} : Doing(d, t)
                    BY <4>1 DEF WriteSnapshot, KeepSnapshot
                <5>2. job[d].access \in Sealed
                    BY <5>1, Steps, Moves DEF TypeInv, JobsTyped, ValidJob
                <5>3. QED
                    BY <2>5, <4>1, <5>2 DEF WriteSnapshot, KeepSnapshot
            <4>2. CASE ~(WriteSnapshot(d) \/ KeepSnapshot(d))
                <5>1. snaps' = snaps /\ kept' = kept
                    BY <1>1, <4>2 DEF Acts, Replace, CreateInventory, WriteInventory,
                        CreateAccess, WriteAccess, Sync, Check, Answer, Fail, BeginInit,
                        WriteInit, SyncInit, EndInit, FailInit, KillInit, Serve, ChangePassword,
                        Commit, EndCommit, Prepare, CommitUpgrade, ChangeRecovery, Export,
                        InitializeInventory, Restore, Stop
                <5>2. QED
                    BY <2>5, <5>1
            <4>3. QED
                BY <4>1, <4>2
        <3>2. s.access \in Sealed
            BY <2>5 DEF TypeInv, Backups
        <3>3. s.access.rev \in Nat /\ s.access.id \in Nat /\ s.access.code \in Nat
            BY <3>2, Fields, AccessAssumption
        <3>4. CASE s \in snaps \cup kept
            BY <1>0, <2>2, <3>3, <3>4 DEF Numbered
        <3>5. CASE s = Snapshot(d) /\ job[d].access \in Sealed
            <4>1. s.access = job[d].access /\ Whole(job[d].access)
                BY <3>5, Fields DEF Snapshot
            <4>2. QED
                BY <1>0, <2>2, <2>4, <3>3, <4>1
        <3>6. QED
            BY <3>1, <3>4, <3>5
    <2>6. ASSUME NEW n \in displayed' PROVE n <= seals'
        <3>1. n \in Nat
            BY <2>6 DEF TypeInv
        <3>2. n <= seals
            BY <2>1, <2>4, <2>6 DEF Grows, Numbered
        <3>3. QED
            BY <1>0, <2>2, <3>1, <3>2
    <2>7. ASSUME NEW n \in strays' PROVE n <= seals'
        <3>1. n \in Nat
            BY <2>7 DEF TypeInv
        <3>2. n \in strays => n <= seals
            BY DEF Numbered
        <3>3. n <= seals \/ (n = NextRev /\ seals' = NextRev)
            <4>1. CASE BeginInit(d)
                BY <2>7, <3>2, <4>1 DEF BeginInit, Sealing
            <4>2. CASE FailInit(d)
                <5>1. Held(d, init[d])
                    BY <4>2, Fields DEF FailInit, Held, TypeInv, InitFiles
                <5>2. init[d].id <= seals
                    BY <5>1, HeldSealed DEF Numbered
                <5>3. QED
                    BY <2>7, <3>2, <4>2, <5>2 DEF FailInit
            <4>3. CASE ~(BeginInit(d) \/ FailInit(d))
                <5>1. strays' = strays
                    BY <1>1, <4>3 DEF Acts, Replace, CreateInventory, WriteInventory,
                        CreateAccess, WriteAccess, Sync, WriteSnapshot, KeepSnapshot, Check,
                        Answer, Fail, WriteInit, SyncInit, EndInit, KillInit, Serve,
                        ChangePassword, Commit, EndCommit, Prepare, CommitUpgrade, ChangeRecovery,
                        Export, InitializeInventory, Restore, Stop
                <5>2. QED
                    BY <2>7, <3>2, <5>1
            <4>4. QED
                BY <4>1, <4>2, <4>3
        <3>4. QED
            BY <1>0, <2>2, <3>1, <3>3
    <2>8. ASSUME NEW x \in Dirs PROVE restored'[x] <= seals'
        <3>1. restored'[x] \in Nat
            BY AccessAssumption DEF TypeInv
        <3>2. restored'[x] <= seals
            <4>1. CASE Restore(d)
                <5>1. PICK s \in snaps :
                        restored' = [restored EXCEPT ![d] = IF Whole(s.image) THEN s.access.id ELSE 0]
                    BY <4>1 DEF Restore
                <5>2. restored'[x] \in {restored[x], s.access.id, 0}
                    BY <5>1 DEF TypeInv
                <5>3. s.access.id <= seals /\ restored[x] <= seals /\ 0 <= seals
                    BY <1>0 DEF Numbered
                <5>4. QED
                    BY <5>2, <5>3
            <4>2. CASE ~Restore(d)
                <5>1. restored' = restored
                    BY <1>1, <4>2 DEF Acts, Replace, CreateInventory, WriteInventory,
                        CreateAccess, WriteAccess, Sync, WriteSnapshot, KeepSnapshot, Check,
                        Answer, Fail, BeginInit, WriteInit, SyncInit, EndInit, FailInit, KillInit,
                        Serve, ChangePassword, Commit, EndCommit, Prepare, CommitUpgrade,
                        ChangeRecovery, Export, InitializeInventory, Stop
                <5>2. QED
                    BY <5>1 DEF Numbered
            <4>3. QED
                BY <4>1, <4>2
        <3>3. QED
            BY <1>0, <2>2, <3>1, <3>2
    <2>9. ASSUME NEW s \in Sessions PROVE session'[s] <= seals'
        <3>1. session'[s] \in {session[s], 0}
            <4>1. CASE Stop(d)
                BY <4>1 DEF Stop, NoServer
            <4>2. CASE ~Stop(d)
                BY <1>1, <4>2 DEF Acts, Replace, CreateInventory, WriteInventory, CreateAccess,
                    WriteAccess, Sync, WriteSnapshot, KeepSnapshot, Check, Answer, Fail,
                    BeginInit, WriteInit, SyncInit, EndInit, FailInit, KillInit, Serve,
                    ChangePassword, Commit, EndCommit, Prepare, CommitUpgrade, ChangeRecovery,
                    Export, InitializeInventory, Restore
            <4>3. QED
                BY <4>1, <4>2
        <3>2. session[s] \in Nat /\ session[s] <= seals
            BY AccessAssumption DEF TypeInv, Numbered
        <3>3. QED
            BY <1>0, <2>2, <3>1, <3>2
    <2>10. QED
        BY <2>3, <2>5, <2>6, <2>7, <2>8, <2>9 DEF Numbered
<1>2. ASSUME (\E s \in Sessions : SignIn(s)) \/ PowerLoss \/ UNCHANGED vars PROVE Numbered'
    <2>1. /\ seals' = seals /\ kept' = kept /\ snaps' \in {snaps, kept} /\ displayed' = displayed
          /\ strays' = strays /\ restored' = restored
        <3>1. CASE \E s \in Sessions : SignIn(s)
            BY <3>1 DEF SignIn
        <3>2. CASE PowerLoss
            BY <3>2 DEF PowerLoss
        <3>3. CASE UNCHANGED vars
            BY <3>3 DEF vars
        <3>4. QED
            BY <1>2, <3>1, <3>2, <3>3
    <2>2. ASSUME NEW s \in Sessions PROVE session'[s] <= seals'
        <3>1. CASE \E t \in Sessions : SignIn(t)
            <4>1. PICK t \in Sessions : SignIn(t)
                BY <3>1
            <4>2. server \in Dirs /\ Held(server, disk[server].access)
                BY <4>1 DEF SignIn, TypeInv, FilesTyped, Held
            <4>3. disk[server].access.rev <= seals
                BY <4>2, HeldSealed DEF Numbered
            <4>4. session'[s] \in {session[s], disk[server].access.rev}
                BY <4>1 DEF SignIn, TypeInv
            <4>5. QED
                BY <2>1, <4>3, <4>4 DEF Numbered
        <3>2. CASE PowerLoss
            BY <1>0, <2>1, <3>2 DEF PowerLoss, NoServer
        <3>3. CASE UNCHANGED vars
            BY <3>3 DEF vars, Numbered
        <3>4. QED
            BY <1>2, <3>1, <3>2, <3>3
    <2>3. \A d \in Dirs : \A f \in Sealed :
            Held(d, f)' => f.rev <= seals' /\ f.id <= seals' /\ f.code <= seals'
        BY <1>2, <2>1, HeldOnly DEF Numbered
    <2>4. \A s \in (snaps \cup kept)' : s \in snaps \cup kept
        BY <2>1
    <2>5. QED
        BY <2>1, <2>2, <2>3, <2>4 DEF Numbered
<1>3. QED
    BY <1>1, <1>2, NextActs

LEMMA OneHomeStep ==
    ASSUME TypeInv, TypeInv', Numbered, Backed, OneHome, [Next]_vars
    PROVE  OneHome'
<1>0. seals \in Nat
    BY AccessAssumption DEF TypeInv
<1>1. ASSUME NEW y \in Dirs, Acts(y) PROVE OneHome'
    <2>1. Grows(y)
        BY <1>1, Growth
    <2>2. ASSUME NEW d \in Dirs, NEW f \in Sealed, Held(d, f)', f.code \notin displayed \cup {0}
          PROVE  \/ d = y /\ f.code = seals + 1
                 \/ \E g \in Sealed : Held(d, g) /\ g.code = f.code
        <3>1. Origin(d, f, y)
            BY <1>1, <2>2, Flow
        <3>2. \A s \in snaps : f # s.access
            BY <2>2 DEF Backed
        <3>3. CASE Held(d, f)
            BY <3>3
        <3>4. CASE /\ d = y /\ seals' = NextRev /\ f.rev = NextRev
                   /\ f.id = NextRev \/ \E g : Held(d, g) /\ f.id = g.id
                   /\ f.code \in {0, NextRev} \/ \E g : Held(d, g) /\ f.code = g.code
            BY <2>2, <3>4, HeldSealed DEF NextRev
        <3>5. QED
            BY <3>1, <3>2, <3>3, <3>4 DEF Origin
    <2>3. ASSUME NEW d \in Dirs, NEW e \in Dirs, d # e, NEW f \in Sealed, NEW g \in Sealed,
                 Held(d, f)', Held(e, g)', f.code = g.code, f.code \notin displayed \cup {0}
          PROVE  FALSE
        <3>1. \/ d = y /\ f.code = seals + 1
              \/ \E h \in Sealed : Held(d, h) /\ h.code = f.code
            BY <2>2, <2>3
        <3>2. \/ e = y /\ f.code = seals + 1
              \/ \E h \in Sealed : Held(e, h) /\ h.code = f.code
            BY <2>2, <2>3
        <3>3. \A h \in Sealed : Held(d, h) \/ Held(e, h) => h.code <= seals /\ h.code # seals + 1
            BY <1>0, Fields DEF Numbered
        <3>4. QED
            BY <2>3, <3>1, <3>2, <3>3 DEF OneHome
    <2>4. displayed \subseteq displayed'
        BY <2>1 DEF Grows
    <2>5. QED
        BY <2>3, <2>4 DEF OneHome
<1>2. ASSUME (\E s \in Sessions : SignIn(s)) \/ PowerLoss \/ UNCHANGED vars PROVE OneHome'
    <2>1. displayed' = displayed
        BY <1>2 DEF SignIn, PowerLoss, vars
    <2>2. QED
        BY <1>2, <2>1, HeldOnly DEF OneHome
<1>3. QED
    BY <1>1, <1>2, NextActs

----------------------------------------------------------------------------
(* What each directory keeps to                                            *)

\* Before the rename, and after the directory is synced.
Unreplaced == {ToReplace, ToReplaceOnly}
Synced == {ToCheck, Done}

\* How many steps remain.
Rem(d) == Len(job[d].todo)

\* Of the access files that may survive, all are of the installation that is
\* read, or had no identity yet and the one that is read was not enrolled since,
\* or they stray.
AccessFile(d) ==
    /\ \A f \in survive[d].access :
         Whole(f) => /\ \/ f.id \in strays
                        \/ /\ Whole(disk[d].access)
                           /\ f.id = disk[d].access.id
                              \/ (f.id = 0 /\ disk[d].access.code \notin displayed)
                     /\ f.id = 0 => d \in settled /\ restored[d] = 0
    /\ \A c \in candidate[d] : /\ c.access.id # 0 /\ c.access.code = 0
                               /\ d \in settled /\ restored[d] = 0

InventoryFile(d) ==
    /\ disk[d].inventory = NoFile => survive[d].inventory = {NoFile}
    /\ disk[d].inventory = Torn => \A i \in survive[d].inventory : ~Whole(i)

\* The four parts of what is promised of the files, in one directory.
OpensIn(d) ==
    /\ \A f \in survive[d].access :
         /\ Whole(f) => f.pass \in known[d]
         /\ d \in settled => Whole(f)
    /\ code[d] # 0 => d \in settled /\ \A f \in survive[d].access : f.code = code[d]

MatchIn(d) ==
    /\ \A a \in survive[d].access, i \in survive[d].inventory :
         Whole(a) /\ Whole(i) /\ a.id \notin strays => a.id = i.id
    /\ \A a \in survive[d].access :
         Whole(a) /\ restored[d] # 0 /\ a.id = restored[d]
         => \A i \in survive[d].inventory : Whole(i)
    /\ restored[d] = 0 /\ survive[d].inventory # {NoFile} =>
         \E s \in kept : /\ Whole(s.image)
                         /\ \A i \in survive[d].inventory : Whole(i) => s.image.id = i.id

FilesIn(d) == AccessFile(d) /\ InventoryFile(d) /\ OpensIn(d) /\ MatchIn(d)

\* What init writes is new, and so is the directory, or its installation strays.
\* Once written, it is the installation that is read.
Initing(d) ==
    init[d] # NoFile =>
        /\ init[d].id # 0 /\ init[d].code = 0
        /\ initAt[d] = "created" =>
             /\ disk[d].access = Torn /\ init[d].id # restored[d]
             /\ init[d].id \notin strays => survive[d].inventory = {NoFile} /\ job[d] = NoJob
        /\ initAt[d] # "created" => Whole(disk[d].access) /\ disk[d].access.id = init[d].id

\* An installation that init is making, or made and removed again, before its
\* recovery code was seen and before it was backed up: no other directory has it.
Young(d) == d \notin settled /\ (Whole(disk[d].access) => init[d] # NoFile)

YoungIn(d) ==
    Young(d) => \A f \in survive[d].access \cup {init[d]} :
        Whole(f) => /\ f.code \notin displayed
                    /\ \A s \in snaps : s.access.id # f.id
                    /\ \A e \in Dirs \ {d} : \A g \in Sealed : Held(e, g) => g.id # f.id

\* A ceremony that replaces the access file stays with its installation.
ReplacingIn(d) ==
    job[d].kind \in Replacing =>
        /\ job[d].todo \in Unreplaced =>
             /\ Whole(disk[d].access)
             /\ job[d].kind = "upgrade" => /\ disk[d].access.id = 0
                                           /\ job[d].access.id # 0 /\ job[d].access.code = 0
             /\ job[d].kind # "upgrade" => job[d].access.id = disk[d].access.id
             /\ job[d].kind = "change" => job[d].access.code = disk[d].access.code
             /\ job[d].kind \in {"enroll", "rotate", "reset"} =>
                  job[d].access.code \notin displayed
        /\ job[d].todo \notin Unreplaced => disk[d].access = job[d].access
        /\ job[d].todo \in Synced => survive[d].access = {disk[d].access}

\* An export and an initialization copy the access file that is there.
CopyingIn(d) ==
    job[d].kind \in {"export", "initialize"} =>
        /\ job[d].access = disk[d].access
        /\ \A f \in survive[d].access :
             Whole(f) /\ f.id \notin strays => f.id = job[d].access.id

InitializeIn(d) ==
    job[d].kind = "initialize" =>
        /\ Rem(d) > 3 => disk[d].inventory = NoFile
        /\ Rem(d) = 3 => disk[d].inventory = Torn

\* A restore writes the inventory, syncs it, and only then the access file.
RestoreIn(d) ==
    job[d].kind = "restore" =>
        /\ job[d].access.id # 0 /\ job[d].access.code \in displayed
        /\ Whole(job[d].image) => job[d].image.id = job[d].access.id
        /\ restored[d] = IF Whole(job[d].image) THEN job[d].access.id ELSE 0
        /\ Rem(d) > 4 => Whole(job[d].image)
        /\ Rem(d) > 2 => \A f \in survive[d].access :
                                      Whole(f) => f.id \in strays /\ f.id # restored[d]
        /\ Rem(d) = 8 => disk[d].inventory = NoFile
        /\ Rem(d) = 7 => disk[d].inventory = Torn
        /\ Rem(d) = 6 => disk[d].inventory = job[d].image
        /\ Rem(d) < 6 => survive[d].inventory = {job[d].image}
        /\ Rem(d) < 4 => init[d] = NoFile
        /\ Rem(d) = 3 => disk[d].access = Torn
        /\ Rem(d) < 3 => disk[d].access = job[d].access
        /\ Rem(d) < 2 => survive[d].access = {disk[d].access}

\* A commit holds the access file that its session signed in with.
CommitIn(d) ==
    job[d].kind = "commit" =>
        /\ Whole(disk[d].access) /\ disk[d].access.rev = job[d].rev
        /\ Whole(disk[d].inventory) /\ job[d].image.id = disk[d].inventory.id

\* The server and a ceremony exclude each other.
Apart(d) == server = d => job[d].kind \notin Ceremonies

JobIn(d) ==
    ReplacingIn(d) /\ CopyingIn(d) /\ InitializeIn(d) /\ RestoreIn(d) /\ CommitIn(d)

Dir(d) == FilesIn(d) /\ Initing(d) /\ JobIn(d)

\* A snapshot is taken of one installation, whose code was seen, and an
\* initialization has a safe one before it makes the inventory.
Copies(d) ==
    job[d].kind \in {"export", "initialize"} =>
        /\ job[d].access.code \in displayed
        /\ Whole(job[d].image) => job[d].image.id = job[d].access.id
        /\ job[d].kind = "export" /\ Rem(d) < 3 => Snapshot(d) \in snaps
        /\ job[d].kind = "initialize" /\ Rem(d) < 7 => Snapshot(d) \in snaps
        /\ job[d].kind = "initialize" /\ Rem(d) < 6 => Snapshot(d) \in kept

\* What not even a failing init can disturb.
Works(d) == Apart(d) /\ Copies(d) /\ code[d] \in displayed \cup {0}

IInv ==
    /\ TypeInv /\ Numbered /\ Backed /\ OneHome
    /\ \A d \in Dirs : Works(d)
    /\ \A d \in Intact : Dir(d) /\ YoungIn(d)

LEMMA Stages ==
    /\ ToReplace \in Unreplaced \ Synced /\ ToReplaceOnly \in Unreplaced \ Synced
    /\ ToSync \notin Unreplaced \cup Synced /\ LastSync \notin Unreplaced \cup Synced
    /\ ToCheck \in Synced \ Unreplaced /\ Done \in Synced \ Unreplaced
BY Heads DEF Unreplaced, Synced, Done

----------------------------------------------------------------------------
(* A directory in which nothing changes                                    *)

\* Where no file changes, codes that are seen elsewhere change nothing.
LEMMA FilesStay ==
    ASSUME NEW d \in Dirs, FilesIn(d), FilesSame(d), strays \subseteq strays', kept \subseteq kept',
           displayed \subseteq displayed',
           Whole(disk[d].access) /\ disk[d].access.code \in displayed'
             => disk[d].access.code \in displayed
    PROVE  FilesIn(d)'
<1>1. AccessFile(d)'
    BY DEF FilesIn, FilesSame, AccessFile
<1>2. InventoryFile(d)'
    BY DEF FilesIn, FilesSame, InventoryFile
<1>3. OpensIn(d)'
    BY DEF FilesIn, FilesSame, OpensIn
<1>4. MatchIn(d)'
    BY DEF FilesIn, FilesSame, MatchIn
<1>5. QED
    BY <1>1, <1>2, <1>3, <1>4 DEF FilesIn

LEMMA JobStays ==
    ASSUME NEW d \in Dirs, JobIn(d), Initing(d), Same(d), strays \subseteq strays',
           displayed \subseteq displayed',
           Whole(job[d].access) /\ job[d].access.code \in displayed'
             => job[d].access.code \in displayed,
           job[d].kind \in Replacing => Whole(job[d].access)
    PROVE  JobIn(d)' /\ Initing(d)'
<1> USE DEF Same, FilesSame
<1>1. ReplacingIn(d)'
    BY DEF JobIn, ReplacingIn, Replacing
<1>2. CopyingIn(d)'
    BY DEF JobIn, CopyingIn
<1>3. InitializeIn(d)'
    BY DEF JobIn, InitializeIn, Rem
<1>4. RestoreIn(d)'
    BY DEF JobIn, RestoreIn, Rem
<1>5. CommitIn(d)'
    BY DEF JobIn, CommitIn
<1>6. Initing(d)'
    BY DEF Initing
<1>7. QED
    BY <1>1, <1>2, <1>3, <1>4, <1>5, <1>6 DEF JobIn

\* A code that is seen while a process acts in one directory is not of another.
LEMMA SeenElsewhere ==
    ASSUME IInv, NEW d \in Dirs, Acts(d), NEW e \in Dirs, e # d,
           NEW f, Held(e, f), f.code \in displayed', f.code # 0
    PROVE  f.code \in displayed
<1>1. Grows(d)
    BY Growth DEF IInv
<1>2. CASE f.code = job[d].access.code /\ Whole(job[d].access)
    <2>1. Held(d, job[d].access)
        BY <1>2 DEF Held
    <2>2. f \in Sealed /\ job[d].access \in Sealed
        BY <2>1, HeldSealed DEF IInv
    <2>3. f.code \in displayed \cup {0}
        BY <1>2, <2>1, <2>2 DEF IInv, OneHome
    <2>4. QED
        BY <2>3
<1>3. QED
    BY <1>1, <1>2 DEF Grows

\* What a process does elsewhere.
LEMMA DirElsewhere ==
    ASSUME IInv, TypeInv', NEW d \in Dirs, Acts(d), NEW e \in Dirs, e \in Intact, e # d
    PROVE  Dir(e)'
<1>1. Same(e)
    BY Elsewhere DEF IInv
<1>2. Grows(d)
    BY Growth DEF IInv
<1>3. ASSUME NEW f, Held(e, f), f.code \in displayed' PROVE f.code \in displayed
    <2>1. f.code # 0
        BY <1>3 DEF TypeInv
    <2>2. QED
        BY <1>3, <2>1, SeenElsewhere
<1>4. Whole(disk[e].access) => Held(e, disk[e].access)
    BY DEF IInv, TypeInv, FilesTyped, Held
<1>5. Whole(job[e].access) => Held(e, job[e].access)
    BY DEF Held
<1>6. job[e].kind \in Replacing => Whole(job[e].access)
    BY Fields DEF IInv, TypeInv, JobsTyped, ValidJob, Replacing
<1>7. Dir(e)
    BY DEF IInv
<1>8. FilesIn(e)'
    BY <1>1, <1>2, <1>3, <1>4, <1>7, FilesStay DEF Same, Grows, Dir
<1>9. JobIn(e)' /\ Initing(e)'
    BY <1>1, <1>2, <1>3, <1>5, <1>6, <1>7, JobStays DEF Grows, Dir
<1>10. QED
    BY <1>8, <1>9 DEF Dir

----------------------------------------------------------------------------
(* Ceremonies that start and end                                           *)

\* What the types say of one directory.
LEMMA Local ==
    ASSUME TypeInv, NEW d \in Dirs
    PROVE  /\ disk[d].access \in AccessFiles /\ disk[d].inventory \in InventoryFiles
           /\ survive[d].access \subseteq AccessFiles
           /\ survive[d].inventory \subseteq InventoryFiles
           /\ disk[d].access \in survive[d].access /\ disk[d].inventory \in survive[d].inventory
           /\ job[d] \in JobType /\ ValidJob(job[d])
           /\ init[d] \in Sealed \cup {NoFile} /\ (init[d] # NoFile => init[d].id # 0)
           /\ initAt[d] = "none" <=> init[d] = NoFile
           /\ \A f \in survive[d].access : Whole(f) => f \in Sealed
           /\ \A i \in survive[d].inventory : Whole(i) => i \in Images
           /\ \A c \in candidate[d] : c.access \in Sealed
BY DEF TypeInv, FilesTyped, JobsTyped, AccessFiles, InventoryFiles, InitFiles, Whole

\* A job that is over leaves the files as they are.
LEMMA JobEnds ==
    ASSUME NEW d \in Dirs, Dir(d), FilesSame(d), job'[d] = NoJob, init' = init, initAt' = initAt,
           displayed' = displayed, strays' = strays, kept' = kept
    PROVE  Dir(d)'
<1>1. FilesIn(d)'
    BY FilesStay DEF Dir
<1>2. Initing(d)'
    BY DEF Dir, FilesSame, Initing
<1>3. job'[d].kind = "none"
    BY DEF NoJob
<1>4. JobIn(d)'
    BY <1>3 DEF JobIn, ReplacingIn, CopyingIn, InitializeIn, RestoreIn, CommitIn,
                Replacing, Ceremonies
<1>5. QED
    BY <1>1, <1>2, <1>4 DEF Dir

LEMMA StopKeeps ==
    ASSUME IInv, NEW d \in Dirs, d \in Intact, Fail(d) \/ Stop(d)
    PROVE  Dir(d)'
<1>1. job'[d] = NoJob /\ FilesSame(d)
    BY DEF Fail, Stop, IInv, TypeInv, JobsTyped, FilesSame
<1>2. init' = init /\ initAt' = initAt /\ displayed' = displayed /\ strays' = strays /\ kept' = kept
    BY DEF Fail, Stop
<1>3. QED
    BY <1>1, <1>2, JobEnds DEF IInv

\* A server that starts changes no file, nor does an init that syncs, ends or dies.
LEMMA ServeKeeps ==
    ASSUME IInv, NEW d \in Dirs, d \in Intact,
           Serve(d) \/ KillInit(d) \/ SyncInit(d) \/ EndInit(d)
    PROVE  Dir(d)'
<1>1. /\ FilesSame(d) /\ job' = job /\ displayed' = displayed /\ strays' = strays
      /\ kept' = kept /\ snaps' = snaps /\ disk' = disk /\ survive' = survive
      /\ restored' = restored
    BY DEF Serve, KillInit, SyncInit, EndInit, FilesSame
<1>2. Dir(d)
    BY DEF IInv
<1>3. FilesIn(d)'
    BY <1>1, <1>2, FilesStay DEF Dir
<1>4. ReplacingIn(d)' /\ CopyingIn(d)' /\ InitializeIn(d)' /\ CommitIn(d)'
    BY <1>1, <1>2 DEF Dir, JobIn, ReplacingIn, CopyingIn, InitializeIn, CommitIn, Rem
<1>5. init'[d] \in {init[d], NoFile}
    BY DEF Serve, KillInit, SyncInit, EndInit, InitOver, IInv, TypeInv
<1>6. RestoreIn(d)'
    BY <1>1, <1>2, <1>5 DEF Dir, JobIn, RestoreIn, Rem
<1>7. Initing(d)'
    <2>1. CASE Serve(d)
        BY <1>1, <1>2, <2>1 DEF Serve, Dir, Initing
    <2>2. CASE KillInit(d) \/ EndInit(d)
        <3>1. init'[d] = NoFile
            BY <2>2 DEF KillInit, EndInit, InitOver, IInv, TypeInv
        <3>2. QED
            BY <3>1 DEF Initing
    <2>3. CASE SyncInit(d)
        <3>1. init' = init /\ initAt[d] = "written" /\ initAt'[d] = "synced"
            BY <2>3 DEF SyncInit, IInv, TypeInv
        <3>2. QED
            BY <1>1, <1>2, <3>1 DEF Dir, Initing
    <2>4. QED
        BY <2>1, <2>2, <2>3
<1>8. QED
    BY <1>3, <1>4, <1>6, <1>7 DEF Dir, JobIn

\* A job that starts leaves the files as they are.
LEMMA JobStarts ==
    ASSUME NEW d \in Dirs, Dir(d), FilesSame(d), init' = init, initAt' = initAt,
           displayed' = displayed, strays' = strays, kept' = kept, disk[d].access # Torn,
           JobIn(d)'
    PROVE  Dir(d)'
<1>1. FilesIn(d)'
    BY FilesStay DEF Dir
<1>2. Initing(d)'
    BY DEF Dir, FilesSame, Initing
<1>3. QED
    BY <1>1, <1>2 DEF Dir

LEMMA ChangePasswordKeeps ==
    ASSUME IInv, NEW d \in Dirs, d \in Intact, ChangePassword(d)
    PROVE  Dir(d)'
<1> DEFINE a == disk[d].access
<1>1. /\ FilesSame(d) /\ init' = init /\ initAt' = initAt
      /\ displayed' = displayed /\ strays' = strays
      /\ kept' = kept /\ server' = server /\ Whole(a)
    BY DEF ChangePassword, FilesSame
<1>2. PICK p : Start(d, "change", Script("change"), Resealed(a, p), NoFile)
    BY DEF ChangePassword
<1>3. /\ job'[d].kind = "change" /\ job'[d].todo = ToReplaceOnly
      /\ job'[d].access.id = a.id /\ job'[d].access.code = a.code
    BY <1>2, Scripts DEF IInv, TypeInv, JobsTyped, Start, Resealed
<1>4. ReplacingIn(d)'
    BY <1>1, <1>3, Stages DEF ReplacingIn, FilesSame
<1>5. JobIn(d)'
    BY <1>3, <1>4 DEF JobIn, CopyingIn, InitializeIn, RestoreIn, CommitIn
<1>6. QED
    BY <1>1, <1>5, JobStarts DEF IInv, Whole

LEMMA CommitUpgradeKeeps ==
    ASSUME IInv, NEW d \in Dirs, d \in Intact, CommitUpgrade(d)
    PROVE  Dir(d)'
<1> DEFINE a == disk[d].access
<1>1. /\ FilesSame(d) /\ init' = init /\ initAt' = initAt
      /\ displayed' = displayed /\ strays' = strays
      /\ kept' = kept /\ server' = server /\ Whole(a)
    BY DEF CommitUpgrade, FilesSame
<1>2. PICK c \in candidate[d] :
        Fresh(d, c) /\ Start(d, "upgrade", Script("upgrade"), c.access, NoFile)
    BY DEF CommitUpgrade
<1>3. c.access.id # 0 /\ c.access.code = 0 /\ a.id = 0
    BY <1>2 DEF IInv, Dir, FilesIn, AccessFile, Fresh
<1>4. job'[d].kind = "upgrade" /\ job'[d].todo = ToReplace /\ job'[d].access = c.access
    BY <1>2, Scripts DEF IInv, TypeInv, JobsTyped, Start
<1>5. ReplacingIn(d)'
    BY <1>1, <1>3, <1>4, Stages DEF ReplacingIn, FilesSame
<1>6. JobIn(d)'
    BY <1>4, <1>5 DEF JobIn, CopyingIn, InitializeIn, RestoreIn, CommitIn
<1>7. QED
    BY <1>1, <1>4, <1>6, JobStarts DEF IInv, Whole

LEMMA ChangeRecoveryKeeps ==
    ASSUME IInv, NEW d \in Dirs, d \in Intact, NEW kind \in {"enroll", "rotate", "reset"},
           ChangeRecovery(d, kind)
    PROVE  Dir(d)'
<1> DEFINE a == disk[d].access
<1>1. /\ FilesSame(d) /\ init' = init /\ initAt' = initAt
      /\ displayed' = displayed /\ strays' = strays
      /\ kept' = kept /\ server' = server /\ Whole(a) /\ server # d
    BY DEF ChangeRecovery, FilesSame, OperationFree
<1>2. PICK p : Start(d, kind, Script(kind), Recoded(a, p), NoFile)
    BY DEF ChangeRecovery
<1>3. /\ job'[d].kind = kind /\ job'[d].todo = ToReplace
      /\ job'[d].access.id = a.id /\ job'[d].access.code = NextRev
    BY <1>2, Scripts DEF IInv, TypeInv, JobsTyped, Start, Recoded
<1>4. NextRev \notin displayed
    BY AccessAssumption DEF IInv, Numbered, TypeInv, NextRev
<1>5. ReplacingIn(d)'
    BY <1>1, <1>3, <1>4, Stages DEF ReplacingIn, FilesSame
<1>6. JobIn(d)'
    BY <1>3, <1>5 DEF JobIn, CopyingIn, InitializeIn, RestoreIn, CommitIn
<1>7. QED
    BY <1>1, <1>6, JobStarts DEF IInv, Whole

\* What is copied is the installation of every file that may survive.
LEMMA Copied ==
    ASSUME NEW d \in Dirs, Dir(d), disk[d].access.code \in displayed
    PROVE  \A f \in survive[d].access :
             Whole(f) /\ f.id \notin strays => f.id = disk[d].access.id
BY DEF Dir, FilesIn, AccessFile

LEMMA ExportKeeps ==
    ASSUME IInv, NEW d \in Dirs, d \in Intact, Export(d)
    PROVE  Dir(d)'
<1> DEFINE a == disk[d].access
<1>1. /\ FilesSame(d) /\ init' = init /\ initAt' = initAt
      /\ displayed' = displayed /\ strays' = strays
      /\ kept' = kept /\ Whole(a) /\ a.code \in displayed
    BY DEF Export, FilesSame, SnapshotAllowed
<1>2. PICK image \in {disk[d].inventory, NoFile} :
        Start(d, "export", Script("export"), a, image)
    BY DEF Export
<1>3. job'[d].kind = "export" /\ job'[d].access = a
    BY <1>2 DEF IInv, TypeInv, JobsTyped, Start
<1>4. CopyingIn(d)'
    BY <1>1, <1>3, Copied DEF IInv, CopyingIn, FilesSame
<1>5. JobIn(d)'
    BY <1>3, <1>4 DEF JobIn, ReplacingIn, Replacing, InitializeIn, RestoreIn, CommitIn
<1>6. QED
    BY <1>1, <1>5, JobStarts DEF IInv, Whole

LEMMA InitializeInventoryKeeps ==
    ASSUME IInv, NEW d \in Dirs, d \in Intact, InitializeInventory(d)
    PROVE  Dir(d)'
<1> DEFINE a == disk[d].access
<1>1. /\ FilesSame(d) /\ init' = init /\ initAt' = initAt
      /\ displayed' = displayed /\ strays' = strays
      /\ kept' = kept /\ Whole(a) /\ a.code \in displayed
      /\ disk[d].inventory = NoFile
    BY DEF InitializeInventory, FilesSame, SnapshotAllowed
<1>2. job'[d].kind = "initialize" /\ job'[d].todo = ToBackUp /\ job'[d].access = a
    BY Scripts DEF InitializeInventory, IInv, TypeInv, JobsTyped, Start
<1>3. CopyingIn(d)'
    BY <1>1, <1>2, Copied DEF IInv, CopyingIn, FilesSame
<1>4. InitializeIn(d)'
    BY <1>1, <1>2, Lens DEF InitializeIn, FilesSame, Rem
<1>5. JobIn(d)'
    BY <1>2, <1>3, <1>4 DEF JobIn, ReplacingIn, Replacing, RestoreIn, CommitIn
<1>6. QED
    BY <1>1, <1>5, JobStarts DEF IInv, Whole

\* A session commits under the access file that it signed in with.
LEMMA CommitKeeps ==
    ASSUME IInv, NEW d \in Dirs, d \in Intact, NEW s \in Sessions, Commit(d, s)
    PROVE  Dir(d)'
<1> DEFINE a == disk[d].access
<1>1. /\ FilesSame(d) /\ init' = init /\ initAt' = initAt
      /\ displayed' = displayed /\ strays' = strays
      /\ kept' = kept /\ server' = server /\ Whole(a) /\ a.rev = session[s]
      /\ Whole(disk[d].inventory)
    BY DEF Commit, FilesSame, Current
<1>2. disk[d].inventory \in Images
    BY <1>1, Local DEF IInv
<1>3. [disk[d].inventory EXCEPT !.used = TRUE].id = disk[d].inventory.id
    BY <1>2 DEF Images
<1>4. /\ job'[d].kind = "commit" /\ job'[d].rev = session[s]
      /\ job'[d].image = [disk[d].inventory EXCEPT !.used = TRUE]
    BY DEF Commit, IInv, TypeInv, JobsTyped, NoJob
<1>5. CommitIn(d)'
    BY <1>1, <1>3, <1>4 DEF CommitIn, FilesSame
<1>6. JobIn(d)'
    BY <1>4, <1>5 DEF JobIn, ReplacingIn, Replacing, CopyingIn, InitializeIn, RestoreIn
<1>7. QED
    BY <1>1, <1>4, <1>6, JobStarts DEF IInv, Whole

\* Where the access file does not open, nothing was settled, and what may come
\* back strays.
LEMMA NothingThere ==
    ASSUME TypeInv, NEW d \in Dirs, FilesIn(d), ~Whole(disk[d].access)
    PROVE  /\ \A f \in survive[d].access : Whole(f) => f.id \in strays
           /\ d \notin settled /\ code[d] = 0 /\ candidate[d] = {}
<1>1. \A f \in survive[d].access : Whole(f) => f.id \in strays
    BY DEF FilesIn, AccessFile
<1>2. disk[d].access \in survive[d].access
    BY Local
<1>3. d \notin settled
    BY <1>2 DEF FilesIn, OpensIn
<1>4. code[d] = 0 /\ candidate[d] = {}
    BY <1>3 DEF FilesIn, OpensIn, AccessFile
<1>5. QED
    BY <1>1, <1>3, <1>4

\* A restore finds nothing, and what may come back strays and was never backed up.
LEMMA RestoreKeeps ==
    ASSUME IInv, NEW d \in Dirs, d \in Intact, Restore(d)
    PROVE  Dir(d)'
<1>1. /\ disk[d].access = NoFile /\ disk[d].inventory = NoFile /\ server # d
      /\ disk' = disk /\ survive' = survive /\ init' = init /\ initAt' = initAt /\ candidate' = candidate
      /\ displayed' = displayed /\ strays' = strays /\ kept' = kept /\ snaps' = snaps
      /\ server' = server /\ known' = known /\ code' = code /\ settled' = settled
    BY DEF Restore, OperationFree
<1>2. PICK s \in snaps :
        /\ Start(d, "restore", IF Whole(s.image) THEN Script("restore") ELSE AccessOnly,
                 s.access, s.image)
        /\ restored' = [restored EXCEPT ![d] = IF Whole(s.image) THEN s.access.id ELSE 0]
    BY DEF Restore
<1>3. /\ job'[d].kind = "restore" /\ job'[d].access = s.access /\ job'[d].image = s.image
      /\ job'[d].todo = IF Whole(s.image) THEN ToCreateRestored ELSE ToCreateAccess
      /\ restored'[d] = IF Whole(s.image) THEN s.access.id ELSE 0
    BY <1>2, Scripts DEF IInv, TypeInv, JobsTyped, Start
<1>4. /\ s.access.id # 0 /\ s.access.code \in displayed
      /\ Whole(s.image) => s.image.id = s.access.id
      /\ s.image \in Images \cup {NoFile}
    BY DEF IInv, Backed, TypeInv, Backups
<1>5. FilesIn(d) /\ YoungIn(d)
    BY DEF IInv, Dir
<1>6. /\ \A f \in survive[d].access : Whole(f) => f.id \in strays /\ f.id # s.access.id
      /\ d \notin settled /\ survive[d].inventory = {NoFile} /\ candidate[d] = {}
    <2>1. ~Whole(disk[d].access)
        BY <1>1 DEF Whole
    <2>2. d \notin settled /\ candidate[d] = {}
        BY <1>5, <2>1, NothingThere DEF IInv
    <2>3. \A f \in survive[d].access : Whole(f) => f.id # s.access.id
        BY <1>5, <2>1, <2>2 DEF YoungIn, Young
    <2>4. \A f \in survive[d].access : Whole(f) => f.id \in strays
        BY <1>5, <2>1, NothingThere DEF IInv
    <2>5. QED
        BY <1>1, <1>5, <2>2, <2>3, <2>4 DEF FilesIn, InventoryFile
<1>a. 0 \notin strays
    BY DEF IInv, TypeInv
<1>7. AccessFile(d)'
    BY <1>1, <1>5, <1>6, <1>a DEF FilesIn, AccessFile
<1>8. InventoryFile(d)' /\ OpensIn(d)'
    BY <1>1, <1>5 DEF FilesIn, InventoryFile, OpensIn
<1>9. MatchIn(d)'
    <2>1. \A i \in survive[d].inventory : ~Whole(i)
        BY <1>6 DEF Whole
    <2>2. \A f \in survive[d].access : Whole(f) /\ restored'[d] # 0 => f.id # restored'[d]
        BY <1>3, <1>6
    <2>3. QED
        BY <1>1, <1>6, <2>1, <2>2 DEF MatchIn
<1>10. Initing(d)'
    <2>1. init[d] = NoFile
        BY <1>1, AccessAssumption DEF IInv, Dir, Initing, Whole
    <2>2. QED
        BY <1>1, <2>1 DEF Initing
<1>11. RestoreIn(d)'
    <2>1. \/ Rem(d)' = 8 /\ Whole(s.image)
          \/ Rem(d)' = 4 /\ s.image = NoFile
        <3>1. CASE Whole(s.image)
            BY <1>3, <3>1, Lens DEF Rem
        <3>2. CASE ~Whole(s.image)
            BY <1>3, <1>4, <3>2, FilesAssumption, Lens DEF Whole, Rem
        <3>3. QED
            BY <3>1, <3>2
    <2> DEFINE n == Rem(d)'
    <2> HIDE DEF n
    <2>2. (n = 8 /\ Whole(s.image)) \/ (n = 4 /\ s.image = NoFile)
        BY <2>1 DEF n
    <2>3. /\ n > 4 => Whole(job'[d].image)
          /\ n = 8 => disk'[d].inventory = NoFile
          /\ n < 6 => survive'[d].inventory = {job'[d].image}
          /\ n # 7 /\ n # 6 /\ n > 3 /\ ~(n < 4)
        BY <1>1, <1>3, <1>6, <2>2
    <2>4. \A f \in survive'[d].access : Whole(f) => f.id \in strays' /\ f.id # restored'[d]
        BY <1>1, <1>3, <1>6, <1>a
    <2>5. /\ job'[d].access.id # 0 /\ job'[d].access.code \in displayed'
          /\ Whole(job'[d].image) => job'[d].image.id = job'[d].access.id
          /\ restored'[d] = IF Whole(job'[d].image) THEN job'[d].access.id ELSE 0
        BY <1>1, <1>3, <1>4
    <2>6. /\ n > 2 => \A f \in survive'[d].access :
                         Whole(f) => f.id \in strays' /\ f.id # restored'[d]
          /\ n < 4 => init'[d] = NoFile
          /\ n = 7 => disk'[d].inventory = Torn
          /\ n = 6 => disk'[d].inventory = job'[d].image
          /\ n = 3 => disk'[d].access = Torn
          /\ n < 3 => disk'[d].access = job'[d].access
          /\ n < 2 => survive'[d].access = {disk'[d].access}
        BY <2>2, <2>3, <2>4
    <2>7. QED
        BY <2>3, <2>5, <2>6 DEF RestoreIn, n
<1>12. JobIn(d)'
    BY <1>1, <1>3, <1>11 DEF JobIn, ReplacingIn, Replacing, CopyingIn, InitializeIn,
                             CommitIn
<1>13. QED
    BY <1>7, <1>8, <1>9, <1>10, <1>12 DEF Dir, FilesIn

----------------------------------------------------------------------------
(* The steps of a ceremony                                                 *)

\* A step that leaves the access file alone concerns no init but a stray one.
LEMMA InitingStays ==
    ASSUME NEW d \in Dirs, Initing(d), init'[d] = init[d], initAt'[d] = initAt[d],
           job[d] # NoJob, disk'[d].access = disk[d].access, restored'[d] = restored[d],
           strays' = strays
    PROVE  Initing(d)'
BY DEF Initing

\* Every step of a ceremony: which it is, and how many remain.
LEMMA StepOf ==
    ASSUME TypeInv, NEW d \in Dirs, NEW s, Doing(d, s)
    PROVE  /\ job'[d].kind = job[d].kind /\ job'[d].access = job[d].access
           /\ job'[d].image = job[d].image /\ job'[d].rev = job[d].rev
           /\ job[d].access \in Sealed /\ job[d] # NoJob
           /\ s = "replace" => /\ job[d].kind \in Replacing
                               /\ job[d].todo \in Unreplaced
                               /\ job'[d].todo \notin Unreplaced \cup Synced
           /\ s = "sync" =>
                 \/ /\ job[d].kind \in Replacing
                    /\ job[d].todo \notin Unreplaced /\ job'[d].todo \notin Unreplaced
                 \/ job[d].kind \in {"initialize", "restore"} /\ Rem(d) = 2 /\ Rem(d)' = 1
                 \/ job[d].kind = "restore" /\ Rem(d) = 6 /\ Rem(d)' = 5
           /\ s = "check" =>
                 \/ /\ job[d].todo \in Synced \ Unreplaced /\ job'[d].todo \in Synced \ Unreplaced
                    /\ Rem(d) = 1 /\ Rem(d)' = 0
                 \/ job[d].kind \in {"initialize", "restore"} /\ Rem(d) = 5 /\ Rem(d)' = 4
           /\ s = "snapshot" =>
                 \/ job[d].kind = "export" /\ Rem(d) = 3 /\ Rem(d)' = 2
                 \/ job[d].kind = "initialize" /\ Rem(d) = 7 /\ Rem(d)' = 6
           /\ s = "keep" =>
                 \/ job[d].kind = "export" /\ Rem(d) = 2 /\ Rem(d)' = 1
                 \/ job[d].kind = "initialize" /\ Rem(d) = 6 /\ Rem(d)' = 5
           /\ s = "create inventory" =>
                 \/ job[d].kind = "initialize" /\ Rem(d) = 4 /\ Rem(d)' = 3
                 \/ job[d].kind = "restore" /\ Rem(d) = 8 /\ Rem(d)' = 7
           /\ s = "write inventory" =>
                 \/ job[d].kind = "initialize" /\ Rem(d) = 3 /\ Rem(d)' = 2
                 \/ job[d].kind = "restore" /\ Rem(d) = 7 /\ Rem(d)' = 6
           /\ s = "create access" => job[d].kind = "restore" /\ Rem(d) = 4 /\ Rem(d)' = 3
           /\ s = "write access" => job[d].kind = "restore" /\ Rem(d) = 3 /\ Rem(d)' = 2
<1> DEFINE kind == job[d].kind
           t == job[d].todo
           u == job'[d].todo
<1>1. /\ kind \in Kinds /\ t \in Left(kind) /\ t # <<>> /\ Head(t) = s /\ u = Tail(t)
      /\ job'[d].kind = kind /\ job'[d].access = job[d].access
      /\ job'[d].image = job[d].image /\ job'[d].rev = job[d].rev
    BY Steps DEF TypeInv
<1>2. Rem(d) = Len(t) /\ Rem(d)' = Len(u)
    BY DEF Rem
<1> HIDE DEF kind, t, u
<1>3. kind \notin {"none", "commit"}
    BY <1>1, Moves
<1>4. job[d].access \in Sealed
    BY <1>3, Local DEF ValidJob, kind
<1>5. job[d] # NoJob
    BY <1>3 DEF NoJob, kind
<1>6. s = "replace" => kind \in Replacing /\ t \in Unreplaced /\ u \notin Unreplaced \cup Synced
    <2>1. s = "replace" => /\ kind \in Replacing
                           /\ t \in {ToReplace, ToReplaceOnly} /\ u \in {ToSync, LastSync}
        BY <1>1, Moves
    <2>2. QED
        BY <2>1, Stages
<1>7. s = "sync" =>
        \/ kind \in Replacing /\ t \notin Unreplaced /\ u \notin Unreplaced
        \/ kind \in {"initialize", "restore"} /\ Rem(d) = 2 /\ Rem(d)' = 1
        \/ kind = "restore" /\ Rem(d) = 6 /\ Rem(d)' = 5
    <2>1. s = "sync" =>
             \/ /\ kind \in Replacing
                /\ t \in {ToSync, LastSync} /\ u \in {ToCheck, Done}
             \/ kind \in {"initialize", "restore"} /\ t = ToSync /\ u = ToCheck
             \/ kind = "restore" /\ t = ToSyncRestored /\ u = ToRecheck
        BY <1>1, Moves
    <2>2. QED
        BY <1>2, <2>1, Stages, Lens
<1>8. s = "check" =>
        \/ t \in Synced \ Unreplaced /\ u \in Synced \ Unreplaced /\ Rem(d) = 1 /\ Rem(d)' = 0
        \/ kind \in {"initialize", "restore"} /\ Rem(d) = 5 /\ Rem(d)' = 4
    <2>1. s = "check" =>
             \/ t = ToCheck /\ u = Done
             \/ kind = "initialize" /\ t = ToCheckBackup /\ u = ToCreateInventory
             \/ kind = "restore" /\ t = ToRecheck /\ u = ToCreateAccess
        BY <1>1, Moves
    <2>2. QED
        BY <1>2, <2>1, Stages, Lens
<1>9. /\ s = "snapshot" =>
            \/ kind = "export" /\ Rem(d) = 3 /\ Rem(d)' = 2
            \/ kind = "initialize" /\ Rem(d) = 7 /\ Rem(d)' = 6
      /\ s = "keep" =>
            \/ kind = "export" /\ Rem(d) = 2 /\ Rem(d)' = 1
            \/ kind = "initialize" /\ Rem(d) = 6 /\ Rem(d)' = 5
    <2>1. /\ s = "snapshot" =>
                \/ kind = "export" /\ t = ToSnapshot /\ u = ToKeep
                \/ kind = "initialize" /\ t = ToBackUp /\ u = ToKeepBackup
          /\ s = "keep" =>
                \/ kind = "export" /\ t = ToKeep /\ u = ToCheck
                \/ kind = "initialize" /\ t = ToKeepBackup /\ u = ToCheckBackup
        BY <1>1, Moves
    <2>2. QED
        BY <1>2, <2>1, Lens
<1>10. /\ s = "create inventory" =>
             \/ kind = "initialize" /\ Rem(d) = 4 /\ Rem(d)' = 3
             \/ kind = "restore" /\ Rem(d) = 8 /\ Rem(d)' = 7
       /\ s = "write inventory" =>
             \/ kind = "initialize" /\ Rem(d) = 3 /\ Rem(d)' = 2
             \/ kind = "restore" /\ Rem(d) = 7 /\ Rem(d)' = 6
    <2>1. /\ s = "create inventory" =>
                \/ kind = "initialize" /\ t = ToCreateInventory /\ u = ToWriteInventory
                \/ kind = "restore" /\ t = ToCreateRestored /\ u = ToWriteRestored
          /\ s = "write inventory" =>
                \/ kind = "initialize" /\ t = ToWriteInventory /\ u = ToSync
                \/ kind = "restore" /\ t = ToWriteRestored /\ u = ToSyncRestored
        BY <1>1, Moves
    <2>2. QED
        BY <1>2, <2>1, Lens
<1>11. /\ s = "create access" => kind = "restore" /\ Rem(d) = 4 /\ Rem(d)' = 3
       /\ s = "write access" => kind = "restore" /\ Rem(d) = 3 /\ Rem(d)' = 2
    <2>1. /\ s = "create access" => kind = "restore" /\ t = ToCreateAccess /\ u = ToWriteAccess
          /\ s = "write access" => kind = "restore" /\ t = ToWriteAccess /\ u = ToSync
        BY <1>1, Moves
    <2>2. QED
        BY <1>2, <2>1, Lens
<1>12. QED
    BY <1>1, <1>4, <1>5, <1>6, <1>7, <1>8, <1>9, <1>10, <1>11 DEF kind, t, u

LEMMA ReplaceKeeps ==
    ASSUME IInv, NEW d \in Dirs, d \in Intact, Replace(d)
    PROVE  Dir(d)'
<1> DEFINE a == disk[d].access
           b == job[d].access
<1>a. Doing(d, "replace")
    BY DEF Replace
<1>0. FilesIn(d) /\ JobIn(d) /\ Initing(d)
    BY DEF IInv, Dir
<1>1. /\ job[d].kind \in Replacing /\ job[d].todo \in Unreplaced
      /\ job'[d].todo \notin Unreplaced \cup Synced
      /\ job'[d].kind = job[d].kind /\ job'[d].access = b /\ b \in Sealed
    BY <1>a, StepOf DEF IInv
<1>2. /\ disk'[d].access = b /\ disk'[d].inventory = disk[d].inventory
      /\ survive'[d].access = survive[d].access \cup {b}
      /\ survive'[d].inventory = survive[d].inventory
    BY <1>1, PutAccess DEF Replace, IInv, TypeInv, AccessFiles
<1>3. /\ known'[d] = known[d] \cup {b.pass}
      /\ code'[d] = IF job[d].kind \in {"enroll", "rotate", "reset"} THEN 0 ELSE code[d]
      /\ init' = init /\ initAt' = initAt /\ kept' = kept /\ candidate' = candidate
      /\ displayed' = displayed /\ settled' = settled /\ restored' = restored
      /\ strays' = strays
    BY DEF Replace, IInv, TypeInv
<1>4. /\ Whole(a) /\ Whole(b) /\ a \in survive[d].access
      /\ job[d].kind = "upgrade" => a.id = 0 /\ b.id # 0 /\ b.code = 0
      /\ job[d].kind # "upgrade" => b.id = a.id
      /\ job[d].kind = "change" => b.code = a.code
      /\ job[d].kind \in {"enroll", "rotate", "reset"} => b.code \notin displayed
    BY <1>0, <1>1, Local, Fields DEF IInv, JobIn, ReplacingIn
<1>5. \/ job[d].kind = "upgrade" \/ job[d].kind = "change"
      \/ job[d].kind \in {"enroll", "rotate", "reset"}
    BY <1>1 DEF Replacing
<1>6. 0 \notin displayed /\ 0 \notin strays
    BY DEF IInv, TypeInv
<1>7. AccessFile(d)'
    <2>1. ASSUME NEW f \in survive[d].access, Whole(f)
          PROVE  f.id \in strays \/ f.id = b.id \/ (f.id = 0 /\ b.code \notin displayed)
        <3>1. f.id \in strays \/ f.id = a.id \/ (f.id = 0 /\ a.code \notin displayed)
            BY <1>0, <2>1 DEF FilesIn, AccessFile
        <3>2. QED
            BY <1>4, <1>5, <1>6, <3>1
    <2>2. \A f \in survive[d].access \cup {b} :
             Whole(f) /\ f.id = 0 => d \in settled /\ restored[d] = 0
        BY <1>0, <1>4 DEF FilesIn, AccessFile
    <2>3. QED
        BY <1>0, <1>2, <1>3, <1>4, <2>1, <2>2 DEF FilesIn, AccessFile
<1>8. InventoryFile(d)'
    BY <1>0, <1>2 DEF FilesIn, InventoryFile
<1>9. OpensIn(d)'
    <2>1. code'[d] # 0 => code'[d] = code[d] /\ b.code = code[d]
        <3>1. code[d] # 0 => a.code = code[d]
            BY <1>0, <1>4 DEF FilesIn, OpensIn
        <3>2. a.id = 0 => a.code = 0
            BY <1>4, Local, Fields DEF IInv
        <3>3. QED
            BY <1>3, <1>4, <1>5, <3>1, <3>2
    <2>2. QED
        BY <1>0, <1>2, <1>3, <1>4, <2>1 DEF FilesIn, OpensIn
<1>10. MatchIn(d)'
    <2>1. CASE job[d].kind = "upgrade"
        <3>1. \A i \in survive[d].inventory : Whole(i) => i.id # 0
            BY Local DEF IInv, Images
        <3>2. \A i \in survive[d].inventory : ~Whole(i)
            BY <1>0, <1>4, <1>6, <2>1, <3>1 DEF FilesIn, MatchIn
        <3>3. restored[d] = 0
            BY <1>0, <1>4, <2>1 DEF FilesIn, AccessFile
        <3>4. QED
            BY <1>0, <1>2, <1>3, <3>2, <3>3 DEF FilesIn, MatchIn
    <2>2. CASE job[d].kind # "upgrade"
        BY <1>0, <1>2, <1>3, <1>4, <2>2 DEF FilesIn, MatchIn
    <2>3. QED
        BY <2>1, <2>2
<1>11. Initing(d)'
    <2>1. init[d] # NoFile => initAt[d] # "created" /\ a.id = init[d].id /\ init[d].id # 0
        BY <1>0, <1>4 DEF Initing, Whole
    <2>2. QED
        BY <1>2, <1>3, <1>4, <1>5, <1>0, <2>1 DEF Initing
<1>12. ReplacingIn(d)'
    BY <1>1, <1>2 DEF ReplacingIn
<1>13. JobIn(d)'
    BY <1>0, <1>1, <1>3, <1>12 DEF JobIn, CopyingIn, InitializeIn, RestoreIn, CommitIn,
                                   Replacing
<1>14. QED
    BY <1>7, <1>8, <1>9, <1>10, <1>11, <1>13 DEF Dir, FilesIn

LEMMA CreateInventoryKeeps ==
    ASSUME IInv, NEW d \in Dirs, d \in Intact, CreateInventory(d)
    PROVE  Dir(d)'
<1>a. Doing(d, "create inventory")
    BY DEF CreateInventory
<1>0. FilesIn(d) /\ JobIn(d) /\ Initing(d)
    BY DEF IInv, Dir
<1>1. /\ \/ /\ job[d].kind = "initialize" /\ Rem(d) = 4 /\ Rem(d)' = 3
         \/ /\ job[d].kind = "restore" /\ Rem(d) = 8 /\ Rem(d)' = 7
      /\ job'[d].kind = job[d].kind /\ job'[d].access = job[d].access
      /\ job'[d].image = job[d].image
    BY <1>a, StepOf DEF IInv
<1>2. /\ disk'[d].inventory = Torn /\ disk'[d].access = disk[d].access
      /\ survive'[d].inventory = survive[d].inventory \cup {Torn}
      /\ survive'[d].access = survive[d].access /\ disk[d].inventory = NoFile
    BY PutInventory DEF CreateInventory, CreateFile, IInv, TypeInv, InventoryFiles
<1>3. /\ init' = init /\ initAt' = initAt /\ kept' = kept /\ candidate' = candidate
      /\ displayed' = displayed /\ settled' = settled /\ restored' = restored
      /\ strays' = strays /\ known' = known /\ code' = code /\ snaps' = snaps
    BY DEF CreateInventory
<1>4. survive[d].inventory = {NoFile}
    BY <1>0, <1>2 DEF FilesIn, InventoryFile
<1>5. AccessFile(d)' /\ InventoryFile(d)' /\ OpensIn(d)'
    BY <1>0, <1>2, <1>3, <1>4, AccessAssumption DEF FilesIn, AccessFile, InventoryFile, OpensIn, Whole
<1>6. MatchIn(d)'
    <2>1. \A i \in survive'[d].inventory : ~Whole(i)
        BY <1>2, <1>4 DEF Whole
    <2>2. ASSUME NEW f \in survive[d].access, Whole(f), restored[d] # 0 PROVE f.id # restored[d]
        <3>1. ~Whole(NoFile)
            BY DEF Whole
        <3>2. QED
            BY <1>0, <1>4, <2>2, <3>1 DEF FilesIn, MatchIn
    <2>3. restored[d] = 0 => \E s \in kept : Whole(s.image)
        <3>1. CASE job[d].kind = "initialize"
            <4>1. Snapshot(d) \in kept
                BY <1>1, <3>1 DEF IInv, Works, Copies
            <4>2. Whole(Snapshot(d).image)
                BY <3>1, Local, FilesAssumption DEF IInv, ValidJob, Snapshot, Whole
            <4>3. QED
                BY <4>1, <4>2
        <3>2. CASE job[d].kind = "restore"
            BY <1>0, <1>1, <3>2 DEF JobIn, RestoreIn
        <3>3. QED
            BY <1>1, <3>1, <3>2
    <2>4. QED
        BY <1>2, <1>3, <2>1, <2>2, <2>3 DEF MatchIn
<1>7. Initing(d)'
    <2>1. job[d] # NoJob
        BY <1>1 DEF NoJob
    <2>2. QED
        BY <1>0, <1>2, <1>3, <2>1, InitingStays
<1>8. CopyingIn(d)'
    BY <1>0, <1>1, <1>2, <1>3 DEF JobIn, CopyingIn
<1>9. InitializeIn(d)'
    BY <1>0, <1>1, <1>2, <1>3 DEF JobIn, InitializeIn
<1>10. RestoreIn(d)'
    BY <1>0, <1>1, <1>2, <1>3 DEF JobIn, RestoreIn
<1>11. JobIn(d)'
    BY <1>0, <1>1, <1>3, <1>8, <1>9, <1>10 DEF JobIn, ReplacingIn, Replacing, CommitIn
<1>12. QED
    BY <1>5, <1>6, <1>7, <1>11 DEF Dir, FilesIn

LEMMA WriteInventoryKeeps ==
    ASSUME IInv, NEW d \in Dirs, d \in Intact, WriteInventory(d)
    PROVE  Dir(d)'
<1> DEFINE m == job[d].image
<1>a. Doing(d, "write inventory")
    BY DEF WriteInventory
<1>0. FilesIn(d) /\ JobIn(d) /\ Initing(d)
    BY DEF IInv, Dir
<1>1. /\ \/ /\ job[d].kind = "initialize" /\ Rem(d) = 3 /\ Rem(d)' = 2
         \/ /\ job[d].kind = "restore" /\ Rem(d) = 7 /\ Rem(d)' = 6
      /\ job'[d].kind = job[d].kind /\ job'[d].access = job[d].access
      /\ job'[d].image = m
    BY <1>a, StepOf DEF IInv
<1>2. m \in InventoryFiles
    BY Local DEF IInv, JobType, InventoryFiles
<1>3. /\ disk'[d].inventory = m /\ disk'[d].access = disk[d].access
      /\ survive'[d].inventory = survive[d].inventory \cup {m}
      /\ survive'[d].access = survive[d].access
    BY <1>2, PutInventory DEF WriteInventory, IInv, TypeInv
<1>4. /\ init' = init /\ initAt' = initAt /\ kept' = kept /\ candidate' = candidate
      /\ displayed' = displayed /\ settled' = settled /\ restored' = restored
      /\ strays' = strays /\ known' = known /\ code' = code /\ snaps' = snaps
    BY DEF WriteInventory
<1>5. /\ disk[d].inventory = Torn /\ Whole(m) /\ m.id = job[d].access.id
      /\ job[d].kind = "initialize" => Snapshot(d) \in kept
    <2>1. CASE job[d].kind = "initialize"
        <3>1. Whole(m)
            BY <2>1, Local, FilesAssumption DEF IInv, ValidJob, Whole
        <3>2. QED
            BY <1>0, <1>1, <2>1, <3>1 DEF IInv, Works, Copies, JobIn, InitializeIn
    <2>2. CASE job[d].kind = "restore"
        BY <1>0, <1>1, <2>2 DEF JobIn, RestoreIn
    <2>3. QED
        BY <1>1, <2>1, <2>2
<1>6. \A i \in survive[d].inventory : ~Whole(i)
    BY <1>0, <1>5 DEF FilesIn, InventoryFile
<1>7. AccessFile(d)' /\ InventoryFile(d)' /\ OpensIn(d)'
    BY <1>0, <1>3, <1>4, <1>5 DEF FilesIn, AccessFile, InventoryFile, OpensIn, Whole
<1>8. MatchIn(d)'
    <2>1. ASSUME NEW f \in survive[d].access, Whole(f), f.id \notin strays PROVE f.id = m.id
        BY <1>0, <1>1, <1>5, <2>1 DEF JobIn, CopyingIn, RestoreIn
    <2>2. ASSUME NEW f \in survive[d].access, Whole(f), restored[d] # 0 PROVE f.id # restored[d]
        <3>1. disk[d].inventory \in survive[d].inventory
            BY Local DEF IInv
        <3>2. QED
            BY <1>0, <1>6, <2>2, <3>1 DEF FilesIn, MatchIn
    <2>3. restored[d] = 0 => \E s \in kept : Whole(s.image) /\ s.image.id = m.id
        <3>1. CASE job[d].kind = "initialize"
            <4>1. Snapshot(d).image = m
                BY DEF Snapshot
            <4>2. QED
                BY <1>5, <3>1, <4>1
        <3>2. CASE job[d].kind = "restore"
            BY <1>0, <1>5, <3>2 DEF JobIn, RestoreIn
        <3>3. QED
            BY <1>1, <3>1, <3>2
    <2>4. QED
        BY <1>3, <1>4, <1>6, <2>1, <2>2, <2>3 DEF MatchIn
<1>9. Initing(d)'
    <2>1. job[d] # NoJob
        BY <1>1 DEF NoJob
    <2>2. QED
        BY <1>0, <1>3, <1>4, <2>1, InitingStays
<1>10. CopyingIn(d)'
    BY <1>0, <1>1, <1>3, <1>4 DEF JobIn, CopyingIn
<1>11. InitializeIn(d)'
    BY <1>0, <1>1, <1>3, <1>4 DEF JobIn, InitializeIn
<1>12. RestoreIn(d)'
    BY <1>0, <1>1, <1>3, <1>4 DEF JobIn, RestoreIn
<1>13. JobIn(d)'
    BY <1>0, <1>1, <1>4, <1>10, <1>11, <1>12
       DEF JobIn, ReplacingIn, Replacing, CommitIn
<1>14. QED
    BY <1>7, <1>8, <1>9, <1>13 DEF Dir, FilesIn

LEMMA CreateAccessKeeps ==
    ASSUME IInv, NEW d \in Dirs, d \in Intact, CreateAccess(d)
    PROVE  Dir(d)'
<1>a. Doing(d, "create access")
    BY DEF CreateAccess
<1>0. FilesIn(d) /\ JobIn(d) /\ Initing(d)
    BY DEF IInv, Dir
<1>1. /\ job[d].kind = "restore" /\ Rem(d) = 4 /\ Rem(d)' = 3
      /\ job'[d].kind = job[d].kind /\ job'[d].access = job[d].access
      /\ job'[d].image = job[d].image
    BY <1>a, StepOf DEF IInv
<1>2. /\ disk'[d].access = Torn /\ disk'[d].inventory = disk[d].inventory
      /\ survive'[d].access = survive[d].access \cup {Torn}
      /\ survive'[d].inventory = survive[d].inventory /\ disk[d].access = NoFile
    BY PutAccess DEF CreateAccess, CreateFile, IInv, TypeInv, AccessFiles
<1>3. /\ init' = init /\ initAt' = initAt /\ kept' = kept /\ candidate' = candidate
      /\ displayed' = displayed /\ settled' = settled /\ restored' = restored
      /\ strays' = strays /\ known' = known /\ code' = code /\ snaps' = snaps
    BY DEF CreateAccess
<1>4. /\ \A f \in survive[d].access : Whole(f) => f.id \in strays
      /\ d \notin settled /\ code[d] = 0 /\ candidate[d] = {}
    BY <1>0, <1>2, NothingThere DEF IInv, Whole
<1>5. \A f \in survive'[d].access : Whole(f) => f \in survive[d].access
    BY <1>2 DEF Whole
<1>6. AccessFile(d)' /\ InventoryFile(d)' /\ OpensIn(d)' /\ MatchIn(d)'
    BY <1>0, <1>2, <1>3, <1>4, <1>5 DEF FilesIn, AccessFile, InventoryFile, OpensIn, MatchIn
<1>7. init[d] = NoFile
    BY <1>0, <1>2, AccessAssumption DEF Initing, Whole
<1>8. Initing(d)'
    BY <1>3, <1>7 DEF Initing
<1>9. RestoreIn(d)'
    BY <1>0, <1>1, <1>2, <1>3, <1>5, <1>7 DEF JobIn, RestoreIn
<1>10. JobIn(d)'
    BY <1>0, <1>1, <1>3, <1>9 DEF JobIn, ReplacingIn, Replacing, CopyingIn, InitializeIn,
                                  CommitIn
<1>11. QED
    BY <1>6, <1>8, <1>10 DEF Dir, FilesIn

LEMMA WriteAccessKeeps ==
    ASSUME IInv, NEW d \in Dirs, d \in Intact, WriteAccess(d)
    PROVE  Dir(d)'
<1> DEFINE b == job[d].access
<1>a. Doing(d, "write access")
    BY DEF WriteAccess
<1>0. FilesIn(d) /\ JobIn(d) /\ Initing(d)
    BY DEF IInv, Dir
<1>1. /\ job[d].kind = "restore" /\ Rem(d) = 3 /\ Rem(d)' = 2
      /\ job'[d].kind = job[d].kind /\ job'[d].access = b
      /\ job'[d].image = job[d].image /\ b \in Sealed
    BY <1>a, StepOf DEF IInv
<1>2. /\ disk'[d].access = b /\ disk'[d].inventory = disk[d].inventory
      /\ survive'[d].access = survive[d].access \cup {b}
      /\ survive'[d].inventory = survive[d].inventory
    BY <1>1, PutAccess DEF WriteAccess, IInv, TypeInv, AccessFiles
<1>3. /\ init' = init /\ initAt' = initAt /\ kept' = kept /\ candidate' = candidate
      /\ displayed' = displayed /\ settled' = settled /\ restored' = restored
      /\ strays' = strays /\ known'[d] = known[d] \cup {b.pass} /\ code' = code
    BY DEF WriteAccess, IInv, TypeInv
<1>4. /\ disk[d].access = Torn /\ init[d] = NoFile /\ b.id # 0 /\ Whole(b)
      /\ survive[d].inventory = {job[d].image}
      /\ Whole(job[d].image) => job[d].image.id = b.id
      /\ restored[d] = IF Whole(job[d].image) THEN b.id ELSE 0
    BY <1>0, <1>1, Fields DEF JobIn, RestoreIn
<1>5. /\ \A f \in survive[d].access : Whole(f) => f.id \in strays /\ f.id # restored[d]
      /\ d \notin settled /\ code[d] = 0 /\ candidate[d] = {}
    <2>1. d \notin settled /\ code[d] = 0 /\ candidate[d] = {}
        BY <1>0, <1>4, NothingThere DEF IInv, Whole
    <2>2. \A f \in survive[d].access : Whole(f) => f.id \in strays /\ f.id # restored[d]
        BY <1>0, <1>1 DEF JobIn, RestoreIn
    <2>3. QED
        BY <2>1, <2>2
<1>6. \A f \in survive'[d].access :
        Whole(f) => f = b \/ (f \in survive[d].access /\ f.id \in strays /\ f.id # 0)
    BY <1>2, <1>5 DEF IInv, TypeInv
<1>7. AccessFile(d)' /\ InventoryFile(d)' /\ OpensIn(d)'
    BY <1>0, <1>2, <1>3, <1>4, <1>5, <1>6 DEF FilesIn, AccessFile, InventoryFile, OpensIn
<1>8. MatchIn(d)'
    BY <1>0, <1>2, <1>3, <1>4, <1>6 DEF FilesIn, MatchIn
<1>9. Initing(d)'
    BY <1>3, <1>4 DEF Initing
<1>10. RestoreIn(d)'
    BY <1>0, <1>1, <1>2, <1>3 DEF JobIn, RestoreIn
<1>11. JobIn(d)'
    BY <1>0, <1>1, <1>3, <1>10 DEF JobIn, ReplacingIn, Replacing, CopyingIn, InitializeIn,
                                   CommitIn
<1>12. QED
    BY <1>7, <1>8, <1>9, <1>11 DEF Dir, FilesIn

LEMMA SyncKeeps ==
    ASSUME IInv, NEW d \in Dirs, d \in Intact, Sync(d)
    PROVE  Dir(d)'
<1> DEFINE a == disk[d].access
           i == disk[d].inventory
<1>a. Doing(d, "sync")
    BY DEF Sync
<1>0. FilesIn(d) /\ JobIn(d) /\ Initing(d)
    BY DEF IInv, Dir
<1>1. /\ job'[d].kind = job[d].kind /\ job'[d].access = job[d].access
      /\ job'[d].image = job[d].image
      /\ \/ /\ job[d].kind \in Replacing /\ job[d].todo \notin Unreplaced
            /\ job'[d].todo \notin Unreplaced
         \/ /\ job[d].kind \in {"initialize", "restore"}
            /\ Rem(d) = 2 /\ Rem(d)' = 1
         \/ job[d].kind = "restore" /\ Rem(d) = 6 /\ Rem(d)' = 5
    BY <1>a, StepOf DEF IInv
<1>2. /\ disk' = disk /\ survive'[d].access = {a} /\ survive'[d].inventory = {i}
      /\ init' = init /\ initAt' = initAt /\ kept' = kept /\ candidate' = candidate
      /\ displayed' = displayed /\ settled' = settled /\ restored' = restored
      /\ strays' = strays /\ known' = known /\ code' = code /\ snaps' = snaps
    BY DEF Sync, IInv, TypeInv, FilesTyped
<1>3. a \in survive[d].access /\ i \in survive[d].inventory
    BY Local DEF IInv
<1>4. AccessFile(d)' /\ InventoryFile(d)' /\ OpensIn(d)'
    BY <1>0, <1>2, <1>3 DEF FilesIn, AccessFile, InventoryFile, OpensIn, Whole
<1>5. MatchIn(d)'
    BY <1>0, <1>2, <1>3 DEF FilesIn, MatchIn
<1>6. Initing(d)'
    <2>1. job[d] # NoJob
        BY <1>1 DEF NoJob, Replacing
    <2>2. QED
        BY <1>0, <1>2, <2>1, InitingStays
<1>7. ReplacingIn(d)'
    BY <1>0, <1>1, <1>2 DEF JobIn, ReplacingIn, Replacing
<1>8. CopyingIn(d)'
    BY <1>0, <1>1, <1>2, <1>3 DEF JobIn, CopyingIn
<1>9. InitializeIn(d)'
    BY <1>0, <1>1, <1>2 DEF JobIn, InitializeIn, Replacing
<1>10. RestoreIn(d)'
    <2>1. ASSUME job[d].kind = "restore" PROVE RestoreIn(d)'
        <3>1. CASE Rem(d) = 2 /\ Rem(d)' = 1
            BY <1>0, <1>1, <1>2, <1>3, <2>1, <3>1 DEF JobIn, RestoreIn
        <3>2. CASE Rem(d) = 6 /\ Rem(d)' = 5
            BY <1>0, <1>1, <1>2, <1>3, <2>1, <3>2 DEF JobIn, RestoreIn
        <3>3. QED
            BY <1>1, <2>1, <3>1, <3>2 DEF Replacing
    <2>2. QED
        BY <1>1, <2>1 DEF RestoreIn
<1>11. JobIn(d)'
    BY <1>0, <1>1, <1>2, <1>7, <1>8, <1>9, <1>10 DEF JobIn, CommitIn, Replacing
<1>12. QED
    BY <1>4, <1>5, <1>6, <1>11 DEF Dir, FilesIn

LEMMA SnapshotKeeps ==
    ASSUME IInv, NEW d \in Dirs, d \in Intact, WriteSnapshot(d) \/ KeepSnapshot(d)
    PROVE  Dir(d)'
<1>0. FilesIn(d) /\ JobIn(d) /\ Initing(d)
    BY DEF IInv, Dir
<1>1. /\ FilesSame(d) /\ init' = init /\ initAt' = initAt /\ displayed' = displayed
      /\ strays' = strays /\ disk' = disk /\ restored' = restored /\ kept \subseteq kept'
    BY DEF WriteSnapshot, KeepSnapshot, FilesSame
<1>a. PICK t \in {"snapshot", "keep"} : Doing(d, t)
    BY DEF WriteSnapshot, KeepSnapshot
<1>2. /\ \/ job[d].kind = "export"
         \/ job[d].kind = "initialize" /\ Rem(d)' \in {5, 6} /\ Rem(d) \in {6, 7}
      /\ job'[d].kind = job[d].kind /\ job'[d].access = job[d].access /\ job[d] # NoJob
    BY <1>a, StepOf DEF IInv
<1>3. FilesIn(d)'
    BY <1>0, <1>1, FilesStay
<1>4. Initing(d)'
    BY <1>0, <1>1, <1>2, InitingStays
<1>5. CopyingIn(d)'
    BY <1>0, <1>1, <1>2 DEF JobIn, CopyingIn, FilesSame
<1>6. InitializeIn(d)'
    BY <1>0, <1>1, <1>2 DEF JobIn, InitializeIn
<1>7. JobIn(d)'
    BY <1>2, <1>5, <1>6 DEF JobIn, ReplacingIn, Replacing, RestoreIn, CommitIn
<1>8. QED
    BY <1>3, <1>4, <1>7 DEF Dir

LEMMA CheckKeeps ==
    ASSUME IInv, NEW d \in Dirs, d \in Intact, Check(d)
    PROVE  Dir(d)'
<1>a. Doing(d, "check")
    BY DEF Check
<1>0. FilesIn(d) /\ JobIn(d) /\ Initing(d)
    BY DEF IInv, Dir
<1>1. /\ FilesSame(d) /\ init' = init /\ initAt' = initAt
      /\ displayed' = displayed /\ strays' = strays
      /\ disk' = disk /\ server' = server /\ restored' = restored /\ survive' = survive
      /\ snaps' = snaps /\ kept' = kept
    BY DEF Check, FilesSame
<1>2. /\ \/ /\ job[d].todo \in Synced \ Unreplaced /\ job'[d].todo \in Synced \ Unreplaced
            /\ Rem(d) = 1 /\ Rem(d)' = 0
         \/ job[d].kind \in {"initialize", "restore"} /\ Rem(d) = 5 /\ Rem(d)' = 4
      /\ job'[d].kind = job[d].kind /\ job'[d].access = job[d].access
      /\ job'[d].image = job[d].image /\ job[d] # NoJob
    BY <1>a, StepOf DEF IInv
<1>3. FilesIn(d)'
    BY <1>0, <1>1, FilesStay
<1>4. Initing(d)'
    BY <1>0, <1>1, <1>2, InitingStays
<1>5. ReplacingIn(d)'
    BY <1>0, <1>1, <1>2 DEF JobIn, ReplacingIn, Replacing
<1>6. CopyingIn(d)'
    BY <1>0, <1>1, <1>2 DEF JobIn, CopyingIn
<1>9. InitializeIn(d)'
    BY <1>0, <1>1, <1>2 DEF JobIn, InitializeIn
<1>10. RestoreIn(d)'
    BY <1>0, <1>1, <1>2 DEF JobIn, RestoreIn
<1>11. CommitIn(d)'
    <2>1. job[d].kind # "commit"
        BY <1>a, Steps, Moves DEF IInv, TypeInv
    <2>2. QED
        BY <1>0, <1>1, <1>2, <2>1 DEF CommitIn
<1>12. QED
    BY <1>3, <1>4, <1>5, <1>6, <1>9, <1>10, <1>11 DEF Dir, JobIn

\* A ceremony that is answered has left one file, which opens as was said.
LEMMA AnswerKeeps ==
    ASSUME IInv, NEW d \in Dirs, d \in Intact, Answer(d)
    PROVE  Dir(d)'
<1> DEFINE a == disk[d].access
           b == job[d].access
<1>0. FilesIn(d) /\ JobIn(d) /\ Initing(d) /\ Dir(d)
    BY DEF IInv, Dir
<1>1. /\ job[d].kind \in Kinds \ {"none", "commit"} /\ job[d].todo = Done
      /\ job'[d] = NoJob /\ b \in Sealed
    BY Local DEF Answer, IInv, TypeInv, JobsTyped, JobType, ValidJob, Done
<1>2. /\ disk' = disk /\ survive' = survive /\ init' = init /\ initAt' = initAt /\ kept' = kept
      /\ candidate' = candidate /\ restored' = restored /\ strays' = strays
      /\ displayed' = displayed \cup ({b.code} \ {0})
    BY DEF Answer
<1>3. 0 \notin displayed /\ b.code \in 0 .. MaxSeals /\ Whole(b)
    BY <1>1, Fields DEF IInv, TypeInv
<1>4. CASE job[d].kind \in {"export", "initialize"}
    <2>1. b.code \in displayed
        BY <1>4 DEF IInv, Works, Copies
    <2>2. displayed' = displayed
        BY <1>2, <2>1
    <2>3. known' = known /\ code' = code /\ settled' = settled
        BY <1>4 DEF Answer
    <2>4. FilesSame(d)
        BY <1>2, <2>3 DEF FilesSame
    <2>5. QED
        BY <1>0, <1>1, <1>2, <2>2, <2>4, JobEnds
<1>5. CASE job[d].kind \in Replacing \cup {"restore"}
    <2>1. Rem(d) = 0 /\ Done \in Synced \ Unreplaced
        BY <1>1, Lens, Stages DEF Rem
    <2>2. a = b /\ survive[d].access = {b}
        <3>1. CASE job[d].kind \in Replacing
            BY <1>0, <1>1, <2>1, <3>1 DEF JobIn, ReplacingIn
        <3>2. CASE job[d].kind = "restore"
            BY <1>0, <2>1, <3>2 DEF JobIn, RestoreIn
        <3>3. QED
            BY <1>5, <3>1, <3>2
    <2>3. /\ known'[d] = {b.pass} /\ settled' = settled \cup {d}
          /\ code'[d] \in {code[d], b.code}
        BY <1>5 DEF Answer, Replacing, IInv, TypeInv
    <2>4. AccessFile(d)'
        BY <1>0, <1>2, <2>2, <2>3 DEF FilesIn, AccessFile
    <2>5. InventoryFile(d)' /\ MatchIn(d)'
        BY <1>0, <1>2 DEF FilesIn, InventoryFile, MatchIn
    <2>6. OpensIn(d)'
        <3>1. code[d] # 0 => b.code = code[d]
            BY <1>0, <2>2 DEF FilesIn, OpensIn
        <3>2. code'[d] # 0 => b.code = code'[d]
            BY <2>3, <3>1
        <3>3. QED
            BY <1>2, <1>3, <2>2, <2>3, <3>2 DEF OpensIn
    <2>7. Initing(d)'
        <3>1. init[d] # NoFile => initAt[d] # "created"
            BY <1>0, <1>3, <2>2 DEF Initing, Whole
        <3>2. QED
            BY <1>0, <1>2, <3>1 DEF Initing
    <2>8. job'[d].kind = "none"
        BY <1>1 DEF NoJob
    <2>9. JobIn(d)'
        BY <2>8 DEF JobIn, ReplacingIn, CopyingIn, InitializeIn, RestoreIn, CommitIn,
                    Replacing, Ceremonies
    <2>10. QED
        BY <2>4, <2>5, <2>6, <2>7, <2>9 DEF Dir, FilesIn
<1>6. QED
    BY <1>1, <1>4, <1>5 DEF Kinds

----------------------------------------------------------------------------
(* init                                                                    *)

LEMMA Remaining ==
    ASSUME TypeInv, NEW d \in Dirs, job[d].kind = "restore"
    PROVE  Rem(d) \in 0 .. 8
<1>1. job[d].todo \in Left("restore")
    BY Local DEF ValidJob
<1>2. QED
    BY <1>1, Lens DEF Rem, Left, Replacing

\* Where the access file does not open, only a restore can be under way, and it
\* has not come to the access file, or has just made it.
LEMMA OnlyRestore ==
    ASSUME IInv, NEW d \in Dirs, d \in Intact, ~Whole(disk[d].access), job[d].kind # "none"
    PROVE  /\ job[d].kind = "restore" /\ Rem(d) \in 3 .. 8
           /\ Rem(d) = 3 => disk[d].access = Torn /\ init[d] = NoFile
<1>0. JobIn(d)
    BY DEF IInv, Dir
<1>1. job[d].kind \in Kinds /\ ValidJob(job[d])
    BY Local DEF IInv, JobType
<1>2. job[d].kind \notin {"none", "commit"} => Whole(job[d].access)
    BY <1>1, Fields DEF ValidJob
<1>3. job[d].kind \notin Replacing
    BY <1>0, <1>2 DEF JobIn, ReplacingIn, Replacing
<1>4. job[d].kind \notin {"export", "initialize"}
    BY <1>0, <1>2 DEF JobIn, CopyingIn
<1>5. job[d].kind # "commit"
    BY <1>0 DEF JobIn, CommitIn
<1>6. job[d].kind = "restore"
    BY <1>1, <1>3, <1>4, <1>5 DEF Kinds
<1>7. Rem(d) \in 0 .. 8
    BY <1>6, Remaining DEF IInv
<1>8. ~(Rem(d) < 3)
    BY <1>0, <1>2, <1>6 DEF JobIn, RestoreIn
<1>9. Rem(d) = 3 => disk[d].access = Torn /\ init[d] = NoFile
    BY <1>0, <1>6 DEF JobIn, RestoreIn
<1>10. QED
    BY <1>6, <1>7, <1>8, <1>9

LEMMA BeginInitKeeps ==
    ASSUME IInv, NEW d \in Dirs, d \in Intact, BeginInit(d)
    PROVE  Dir(d)'
<1>0. FilesIn(d) /\ JobIn(d) /\ Initing(d)
    BY DEF IInv, Dir
<1>1. PICK p \in Passwords :
        init' = [init EXCEPT ![d] = [rev |-> NextRev, id |-> NextRev, pass |-> p,
                                      ready |-> FALSE, code |-> 0]]
    BY DEF BeginInit
<1>2. init'[d].id = NextRev /\ init'[d].code = 0 /\ initAt'[d] = "created"
    BY <1>1 DEF BeginInit, IInv, TypeInv
<1>3. NextRev # 0 /\ NextRev # restored[d]
    BY AccessAssumption DEF IInv, TypeInv, Numbered, NextRev
<1>4. /\ disk'[d].access = Torn /\ disk'[d].inventory = disk[d].inventory
      /\ survive'[d].access = survive[d].access \cup {Torn}
      /\ survive'[d].inventory = survive[d].inventory /\ disk[d].access = NoFile
    BY PutAccess DEF BeginInit, CreateFile, IInv, TypeInv, AccessFiles
<1>5. /\ job' = job /\ server' = server /\ kept' = kept /\ candidate' = candidate
      /\ displayed' = displayed /\ settled' = settled /\ restored' = restored
      /\ known' = known /\ code' = code /\ snaps' = snaps /\ strays \subseteq strays'
      /\ strays' = IF disk[d].inventory = NoFile /\ Free(d) THEN strays
                   ELSE strays \cup {NextRev}
    BY DEF BeginInit
<1>6. /\ \A f \in survive[d].access : Whole(f) => f.id \in strays
      /\ d \notin settled /\ code[d] = 0 /\ candidate[d] = {}
    BY <1>0, <1>4, NothingThere DEF IInv, Whole
<1>7. \A f \in survive'[d].access : Whole(f) => f \in survive[d].access
    BY <1>4 DEF Whole
<1>8. AccessFile(d)' /\ InventoryFile(d)' /\ OpensIn(d)' /\ MatchIn(d)'
    BY <1>0, <1>4, <1>5, <1>6, <1>7 DEF FilesIn, AccessFile, InventoryFile, OpensIn, MatchIn
<1>9. Initing(d)'
    <2>1. disk[d].inventory = NoFile => survive[d].inventory = {NoFile}
        BY <1>0 DEF FilesIn, InventoryFile
    <2>2. QED
        BY <1>2, <1>3, <1>4, <1>5, <2>1 DEF Initing, Free
<1>10. job[d].kind = "none" \/ (job[d].kind = "restore" /\ Rem(d) \in 4 .. 8)
    BY <1>4, OnlyRestore, AccessAssumption DEF Whole
<1>11. Rem(d)' = Rem(d)
    BY <1>5 DEF Rem
<1>12. RestoreIn(d)'
    BY <1>0, <1>4, <1>5, <1>6, <1>7, <1>10, <1>11 DEF JobIn, RestoreIn
<1>13. JobIn(d)'
    BY <1>0, <1>5, <1>10, <1>12 DEF JobIn, ReplacingIn, Replacing, CopyingIn, InitializeIn,
                                    CommitIn
<1>14. QED
    BY <1>8, <1>9, <1>13 DEF Dir, FilesIn

\* The file it made is still the one that is there, and empty.
LEMMA WriteInitKeeps ==
    ASSUME IInv, NEW d \in Dirs, d \in Intact, WriteInit(d)
    PROVE  Dir(d)'
<1> DEFINE e == init[d]
<1>0. FilesIn(d) /\ JobIn(d) /\ Initing(d)
    BY DEF IInv, Dir
<1>1. e \in Sealed /\ e # NoFile /\ Whole(e)
    BY Local, Fields DEF WriteInit, IInv
<1>2. /\ disk[d].access = Torn /\ e.id # 0 /\ e.code = 0 /\ e.id # restored[d]
      /\ e.id \notin strays => survive[d].inventory = {NoFile} /\ job[d] = NoJob
    BY <1>0, <1>1 DEF WriteInit, Initing
<1>3. /\ disk'[d].access = e /\ disk'[d].inventory = disk[d].inventory
      /\ survive'[d].access = survive[d].access \cup {e}
      /\ survive'[d].inventory = survive[d].inventory
      /\ known'[d] = known[d] \cup {e.pass}
    <2>1. Put(d, "access", e) /\ known' = [known EXCEPT ![d] = @ \cup {e.pass}]
        BY <1>2 DEF WriteInit
    <2>2. QED
        BY <1>1, <2>1, PutAccess DEF IInv, TypeInv, AccessFiles
<1>4. /\ init' = init /\ initAt'[d] = "written" /\ job' = job /\ kept' = kept
      /\ candidate' = candidate /\ displayed' = displayed /\ settled' = settled
      /\ restored' = restored /\ code' = code /\ strays' = strays
    BY DEF WriteInit, IInv, TypeInv
<1>5. /\ \A f \in survive[d].access : Whole(f) => f.id \in strays
      /\ d \notin settled /\ code[d] = 0 /\ candidate[d] = {}
    BY <1>0, <1>2, NothingThere DEF IInv, Whole
<1>6. 0 \notin strays
    BY DEF IInv, TypeInv
<1>7. AccessFile(d)' /\ InventoryFile(d)' /\ OpensIn(d)'
    BY <1>0, <1>1, <1>2, <1>3, <1>4, <1>5, <1>6 DEF FilesIn, AccessFile, InventoryFile, OpensIn
<1>8. MatchIn(d)'
    <2>1. e.id \notin strays => \A i \in survive[d].inventory : ~Whole(i)
        BY <1>2 DEF Whole
    <2>2. QED
        BY <1>0, <1>2, <1>3, <1>4, <1>5, <2>1 DEF FilesIn, MatchIn
<1>9. Initing(d)'
    BY <1>1, <1>2, <1>3, <1>4 DEF Initing
<1>10. job[d].kind = "none" \/ (job[d].kind = "restore" /\ Rem(d) \in 4 .. 8 /\ job[d] # NoJob)
    <2>1. NoJob.kind = "none"
        BY DEF NoJob
    <2>2. QED
        BY <1>1, <1>2, <2>1, OnlyRestore DEF Whole
<1>11. Rem(d)' = Rem(d)
    BY <1>4 DEF Rem
<1>12. RestoreIn(d)'
    BY <1>0, <1>2, <1>3, <1>4, <1>10, <1>11 DEF JobIn, RestoreIn
<1>13. JobIn(d)'
    BY <1>0, <1>4, <1>10, <1>12 DEF JobIn, ReplacingIn, Replacing, CopyingIn, InitializeIn,
                                    CommitIn
<1>14. QED
    BY <1>7, <1>8, <1>9, <1>13 DEF Dir, FilesIn

\* What it removes, a power loss may bring back; it strays.
LEMMA FailInitKeeps ==
    ASSUME IInv, NEW d \in Dirs, d \in Intact, FailInit(d), d \notin removed'
    PROVE  Dir(d)'
<1>0. FilesIn(d) /\ JobIn(d) /\ Initing(d)
    BY DEF IInv, Dir
<1>1. init[d] # NoFile /\ d \notin settled /\ job[d].kind \in {"none", "restore"}
    BY DEF FailInit, InUse
<1>2. /\ disk'[d].access = NoFile /\ disk'[d].inventory = disk[d].inventory
      /\ survive'[d].access = survive[d].access \cup {NoFile}
      /\ survive'[d].inventory = survive[d].inventory
    BY PutAccess DEF FailInit, IInv, TypeInv, AccessFiles
<1>3. /\ init'[d] = NoFile /\ job' = job /\ kept' = kept
      /\ candidate' = candidate /\ displayed' = displayed /\ settled' = settled
      /\ restored' = restored /\ code' = code /\ known' = known /\ strays \subseteq strays'
      /\ initAt[d] # "created" => init[d].id \in strays'
    BY <1>1 DEF FailInit, InitOver, InUse, IInv, TypeInv
<1>4. \A f \in survive[d].access : Whole(f) => f.id \in strays' /\ f.id # 0
    <2>1. ASSUME NEW f \in survive[d].access, Whole(f) PROVE f.id \in strays' /\ f.id # 0
        <3>1. f.id # 0
            BY <1>0, <1>1, <2>1 DEF FilesIn, AccessFile
        <3>2. f.id \in strays \/ (Whole(disk[d].access) /\ f.id = disk[d].access.id)
            BY <1>0, <2>1, <3>1 DEF FilesIn, AccessFile
        <3>3. Whole(disk[d].access) => disk[d].access.id \in strays'
            BY <1>0, <1>1, <1>3 DEF Initing, Whole
        <3>4. QED
            BY <1>3, <3>1, <3>2, <3>3
    <2>2. QED
        BY <2>1
<1>5. code[d] = 0 /\ candidate[d] = {}
    BY <1>0, <1>1 DEF FilesIn, AccessFile, OpensIn
<1>6. \A f \in survive'[d].access : Whole(f) => f \in survive[d].access
    BY <1>2 DEF Whole
<1>7. AccessFile(d)' /\ InventoryFile(d)' /\ OpensIn(d)'
    BY <1>0, <1>1, <1>2, <1>3, <1>4, <1>5, <1>6
       DEF FilesIn, AccessFile, InventoryFile, OpensIn
<1>8. MatchIn(d)'
    BY <1>0, <1>2, <1>3, <1>6 DEF FilesIn, MatchIn
<1>9. Initing(d)'
    BY <1>3 DEF Initing
<1>10. job[d].kind = "restore" => ~(Rem(d) < 4) /\ Rem(d) \in Nat
    BY <1>0, <1>1, Remaining DEF IInv, JobIn, RestoreIn
<1>11. Rem(d)' = Rem(d)
    BY <1>3 DEF Rem
<1>12. RestoreIn(d)'
    <2>1. CASE job[d].kind = "restore"
        BY <1>0, <1>2, <1>3, <1>6, <1>10, <1>11, <2>1 DEF JobIn, RestoreIn
    <2>2. QED
        BY <1>3, <2>1 DEF RestoreIn
<1>13. JobIn(d)'
    BY <1>1, <1>3, <1>12 DEF JobIn, ReplacingIn, Replacing, CopyingIn, InitializeIn,
                             CommitIn
<1>14. QED
    BY <1>7, <1>8, <1>9, <1>13 DEF Dir, FilesIn

----------------------------------------------------------------------------
(* The server, an upgrade that is prepared, and deaths                     *)

\* A commit leaves an image of the same installation.
LEMMA EndCommitKeeps ==
    ASSUME IInv, NEW d \in Dirs, d \in Intact, EndCommit(d)
    PROVE  Dir(d)'
<1> DEFINE m == job[d].image
           i == disk[d].inventory
<1>0. FilesIn(d) /\ JobIn(d) /\ Initing(d)
    BY DEF IInv, Dir
<1>1. job[d].kind = "commit"
    BY DEF EndCommit
<1>2. m \in Images /\ Whole(m) /\ i \in survive[d].inventory
    BY <1>1, Local, FilesAssumption DEF IInv, ValidJob, Whole
<1>3. Whole(disk[d].access) /\ Whole(i) /\ m.id = i.id
    BY <1>0, <1>1 DEF JobIn, CommitIn
<1>4. /\ disk'[d].inventory = m /\ disk'[d].access = disk[d].access
      /\ survive'[d].access = survive[d].access
      /\ survive'[d].inventory \subseteq survive[d].inventory \cup {m}
      /\ job'[d] = NoJob
    BY DEF EndCommit, IInv, TypeInv, FilesTyped, JobsTyped
<1>5. /\ init' = init /\ initAt' = initAt /\ kept' = kept /\ candidate' = candidate
      /\ displayed' = displayed /\ settled' = settled /\ restored' = restored
      /\ strays' = strays /\ known' = known /\ code' = code /\ snaps' = snaps
    BY DEF EndCommit
<1>6. AccessFile(d)' /\ InventoryFile(d)' /\ OpensIn(d)'
    BY <1>0, <1>2, <1>4, <1>5 DEF FilesIn, AccessFile, InventoryFile, OpensIn, Whole
<1>7. MatchIn(d)'
    <2>1. survive[d].inventory # {NoFile}
        BY <1>2, <1>3 DEF Whole
    <2>2. QED
        BY <1>0, <1>2, <1>3, <1>4, <1>5, <2>1 DEF FilesIn, MatchIn
<1>8. Initing(d)'
    BY <1>0, <1>3, <1>4, <1>5 DEF Initing, Whole
<1>9. job'[d].kind = "none"
    BY <1>4 DEF NoJob
<1>10. JobIn(d)'
    BY <1>9 DEF JobIn, ReplacingIn, CopyingIn, InitializeIn, RestoreIn, CommitIn,
                Replacing, Ceremonies
<1>11. QED
    BY <1>6, <1>7, <1>8, <1>10 DEF Dir, FilesIn

LEMMA PrepareKeeps ==
    ASSUME IInv, NEW d \in Dirs, d \in Intact, Prepare(d)
    PROVE  Dir(d)'
<1> DEFINE a == disk[d].access
           b == [a EXCEPT !.rev = NextRev, !.id = NextRev]
           c == [expected |-> a.rev, access |-> b]
<1>0. FilesIn(d) /\ JobIn(d) /\ Initing(d)
    BY DEF IInv, Dir
<1>1. /\ Whole(a) /\ a.id = 0 /\ a \in survive[d].access /\ a \in Sealed
      /\ NextRev \in 1 .. MaxSeals /\ Passwords # {}
    <2>1. Whole(a) /\ a.id = 0
        BY DEF Prepare
    <2>2. TypeInv
        BY DEF IInv
    <2>3. a \in AccessFiles /\ a \in survive[d].access
        BY <2>2, Local
    <2>4. a \in Sealed
        BY <2>1, <2>3 DEF AccessFiles, Whole
    <2>5. Passwords # {}
        BY <2>4, Fields
    <2>6. NextRev \in 1 .. MaxSeals
        <3>1. Sealing
            BY DEF Prepare
        <3>2. QED
            BY <2>2, <3>1, AccessAssumption DEF TypeInv, Sealing, NextRev
    <2>7. QED
        BY <2>1, <2>3, <2>4, <2>5, <2>6
<1>2. b.id # 0 /\ b.code = 0
    <2>1. ASSUME NEW e \in Sealed, e.id = 0
          PROVE  /\ [e EXCEPT !.rev = NextRev, !.id = NextRev].id # 0
                 /\ [e EXCEPT !.rev = NextRev, !.id = NextRev].code = 0
        <3>1. e \in Envelopes /\ e.code = 0
            BY <2>1, Fields DEF Sealed
        <3>2. NextRev # 0
            BY <1>1
        <3>3. QED
            BY <3>1, <3>2 DEF Envelopes
    <2>2. QED
        BY <1>1, <2>1
<1>3. c.access = b
    OBVIOUS
<1>4. candidate'[d] = candidate[d] \cup {c}
    BY DEF Prepare, IInv, TypeInv
<1> HIDE DEF b, c
<1>5. /\ disk' = disk /\ survive' = survive /\ job' = job /\ init' = init /\ initAt' = initAt
      /\ server' = server /\ kept' = kept
      /\ displayed' = displayed /\ settled' = settled /\ restored' = restored
      /\ strays' = strays /\ known' = known /\ code' = code /\ snaps' = snaps
    BY DEF Prepare
<1>6. d \in settled /\ restored[d] = 0
    BY <1>0, <1>1 DEF FilesIn, AccessFile
<1>7. AccessFile(d)'
    BY <1>0, <1>2, <1>3, <1>4, <1>5, <1>6 DEF FilesIn, AccessFile
<1>8. InventoryFile(d)' /\ OpensIn(d)' /\ MatchIn(d)'
    BY <1>0, <1>5 DEF FilesIn, InventoryFile, OpensIn, MatchIn
<1>9. Initing(d)'
    BY <1>0, <1>5 DEF Initing
<1>10. ReplacingIn(d)' /\ CopyingIn(d)' /\ CommitIn(d)'
    BY <1>0, <1>5 DEF JobIn, ReplacingIn, CopyingIn, CommitIn
<1>11. InitializeIn(d)' /\ RestoreIn(d)'
    BY <1>0, <1>5 DEF JobIn, InitializeIn, RestoreIn, Rem
<1>12. QED
    BY <1>7, <1>8, <1>9, <1>10, <1>11 DEF Dir, FilesIn, JobIn

\* A power loss leaves files that might have survived, and nobody at work.
LEMMA PowerLossKeeps ==
    ASSUME IInv, NEW d \in Dirs, d \in Intact, PowerLoss
    PROVE  Dir(d)'
<1>0. FilesIn(d)
    BY DEF IInv, Dir
<1>1. /\ disk'[d].access \in survive[d].access /\ disk'[d].inventory \in survive[d].inventory
      /\ survive'[d].access = {disk'[d].access}
      /\ survive'[d].inventory = {disk'[d].inventory}
      /\ job'[d] = NoJob /\ init'[d] = NoFile /\ server' = Nowhere
    BY DEF PowerLoss, NoServer
<1>2. /\ kept' = kept /\ candidate' = candidate
      /\ displayed' = displayed /\ settled' = settled /\ restored' = restored
      /\ strays' = strays /\ known' = known /\ code' = code
    BY DEF PowerLoss
<1>3. AccessFile(d)' /\ InventoryFile(d)' /\ OpensIn(d)' /\ MatchIn(d)'
    BY <1>0, <1>1, <1>2 DEF FilesIn, AccessFile, InventoryFile, OpensIn, MatchIn, Whole
<1>4. Initing(d)'
    BY <1>1 DEF Initing
<1>5. job'[d].kind = "none"
    BY <1>1 DEF NoJob
<1>6. JobIn(d)'
    BY <1>5 DEF JobIn, ReplacingIn, CopyingIn, InitializeIn, RestoreIn, CommitIn,
                Replacing, Ceremonies
<1>7. QED
    BY <1>3, <1>4, <1>6 DEF Dir, FilesIn

LEMMA SignInKeeps ==
    ASSUME IInv, NEW d \in Dirs, d \in Intact, (\E s \in Sessions : SignIn(s)) \/ UNCHANGED vars
    PROVE  Dir(d)'
<1>1. /\ Same(d) /\ strays' = strays /\ kept' = kept /\ snaps' = snaps
      /\ displayed' = displayed /\ server' = server
    BY DEF SignIn, vars, Same, FilesSame
<1>2. job[d].kind \in Replacing => Whole(job[d].access)
    BY Fields, Local DEF IInv, ValidJob, Replacing
<1>3. Dir(d)
    BY DEF IInv
<1>4. FilesIn(d)'
    BY <1>1, <1>3, FilesStay DEF Dir, Same
<1>5. JobIn(d)' /\ Initing(d)'
    BY <1>1, <1>2, <1>3, JobStays DEF Dir
<1>6. QED
    BY <1>4, <1>5 DEF Dir

----------------------------------------------------------------------------
(* The invariant                                                           *)

\* Where a process acts.
LEMMA DirHere ==
    ASSUME IInv, NEW d \in Dirs, Acts(d), d \notin removed, d \notin removed'
    PROVE  Dir(d)'
<1>0. d \in Intact
    BY DEF Intact
<1>1. CASE Replace(d) \/ CreateInventory(d) \/ WriteInventory(d) \/ CreateAccess(d)
           \/ WriteAccess(d) \/ Sync(d)
    BY <1>0, <1>1, ReplaceKeeps, CreateInventoryKeeps, WriteInventoryKeeps, CreateAccessKeeps,
       WriteAccessKeeps, SyncKeeps
<1>2. CASE WriteSnapshot(d) \/ KeepSnapshot(d) \/ Check(d) \/ Answer(d) \/ Fail(d) \/ Stop(d)
    BY <1>0, <1>2, SnapshotKeeps, CheckKeeps, AnswerKeeps, StopKeeps
<1>3. CASE BeginInit(d) \/ WriteInit(d) \/ SyncInit(d) \/ EndInit(d) \/ FailInit(d)
           \/ KillInit(d) \/ Serve(d)
    BY <1>0, <1>3, BeginInitKeeps, WriteInitKeeps, FailInitKeeps, ServeKeeps
<1>4. CASE ChangePassword(d) \/ CommitUpgrade(d) \/ Prepare(d) \/ Export(d)
           \/ InitializeInventory(d) \/ Restore(d)
    BY <1>0, <1>4, ChangePasswordKeeps, CommitUpgradeKeeps, PrepareKeeps, ExportKeeps,
       InitializeInventoryKeeps, RestoreKeeps
<1>5. CASE (\E s \in Sessions : Commit(d, s)) \/ EndCommit(d)
    BY <1>0, <1>5, CommitKeeps, EndCommitKeeps
<1>6. CASE \E kind \in {"enroll", "rotate", "reset"} : ChangeRecovery(d, kind)
    BY <1>0, <1>6, ChangeRecoveryKeeps
<1>7. QED
    BY <1>1, <1>2, <1>3, <1>4, <1>5, <1>6 DEF Acts

\* A directory once given up stays so.
LEMMA Removal ==
    ASSUME IInv, [Next]_vars
    PROVE  removed \subseteq removed'
<1>1. ASSUME NEW d \in Dirs, Acts(d) PROVE removed \subseteq removed'
    BY <1>1, Growth DEF IInv, Grows
<1>2. (\E s \in Sessions : SignIn(s)) \/ PowerLoss \/ UNCHANGED vars => removed' = removed
    BY DEF SignIn, PowerLoss, vars
<1>3. QED
    BY <1>1, <1>2, NextActs

LEMMA DirStep ==
    ASSUME IInv, TypeInv', [Next]_vars, NEW d \in Dirs, d \notin removed'
    PROVE  Dir(d)'
<1>0. d \notin removed /\ d \in Intact
    BY Removal DEF Intact
<1>1. ASSUME NEW y \in Dirs, Acts(y) PROVE Dir(d)'
    <2>1. CASE y = d
        BY <1>0, <1>1, <2>1, DirHere
    <2>2. CASE y # d
        BY <1>0, <1>1, <2>2, DirElsewhere
    <2>3. QED
        BY <2>1, <2>2
<1>2. QED
    BY <1>0, <1>1, NextActs, SignInKeeps, PowerLossKeeps

\* An installation that is still young has the envelopes it had, or is new.
LEMMA YoungHere ==
    ASSUME IInv, TypeInv', NEW d \in Dirs, Acts(d), d \in Intact, Young(d)',
           NEW f \in survive'[d].access \cup {init'[d]}, Whole(f)
    PROVE  /\ snaps' = snaps /\ f.code \notin displayed'
           /\ \/ f.id = NextRev
              \/ Young(d) /\ \E g \in survive[d].access \cup {init[d]} : Whole(g) /\ g.id = f.id
<1> DEFINE Goal == /\ snaps' = snaps /\ f.code \notin displayed'
                   /\ \/ f.id = NextRev
                      \/ Young(d) /\ \E g \in survive[d].access \cup {init[d]} :
                                          Whole(g) /\ g.id = f.id
           Calm == /\ snaps' = snaps /\ displayed' = displayed
                   /\ disk'[d].access = disk[d].access /\ init'[d] = init[d]
                   /\ survive'[d].access \subseteq survive[d].access
<1> SUFFICES Goal
    OBVIOUS
<1>0. FilesIn(d) /\ JobIn(d) /\ Initing(d) /\ YoungIn(d)
    BY DEF IInv, Dir
<1>1. d \notin settled
    <2>1. settled' = settled \/ settled' = settled \cup {d}
        BY DEF Acts, Replace, CreateInventory, WriteInventory, CreateAccess, WriteAccess, Sync,
            WriteSnapshot, KeepSnapshot, Check, Answer, Fail, BeginInit, WriteInit, SyncInit,
            EndInit, FailInit, KillInit, Serve, ChangePassword, Commit, EndCommit, Prepare,
            CommitUpgrade, ChangeRecovery, Export, InitializeInventory, Restore, Stop
    <2>2. QED
        BY <2>1 DEF Young
<1>2. Young(d) /\ f \in survive[d].access \cup {init[d]} /\ displayed' = displayed /\ snaps' = snaps
        => Goal
    BY <1>0 DEF YoungIn
<1>3. Calm => Goal
    BY <1>1, <1>2 DEF Young
<1>4. 0 \notin displayed'
    BY DEF TypeInv
<1> HIDE DEF Goal
<1>5. CASE Replace(d)
    <2>1. job[d].kind \in Replacing /\ job[d].todo \in Unreplaced /\ job[d].access \in Sealed
        BY <1>5, StepOf DEF Replace, IInv
    <2>2. /\ disk'[d].access = job[d].access /\ init' = init /\ snaps' = snaps
          /\ survive'[d].access = survive[d].access \cup {job[d].access}
          /\ displayed' = displayed
        BY <1>5, <2>1, PutAccess DEF Replace, IInv, TypeInv, AccessFiles
    <2>3. init[d] # NoFile /\ Young(d)
        BY <1>1, <2>1, <2>2, Fields DEF Young
    <2>4. CASE f \in survive[d].access \cup {init[d]}
        BY <1>2, <2>2, <2>3, <2>4
    <2>5. CASE f = job[d].access
        <3>1. Whole(disk[d].access) /\ disk[d].access \in survive[d].access
            BY <1>0, <2>1, Local DEF JobIn, ReplacingIn, IInv
        <3>2. disk[d].access.id # 0 /\ disk[d].access.code \notin displayed
            BY <1>0, <1>1, <2>3, <3>1 DEF FilesIn, AccessFile, YoungIn
        <3>3. f.id = disk[d].access.id /\ f.code \notin displayed
            BY <1>0, <2>1, <2>5, <3>2 DEF JobIn, ReplacingIn, Replacing
        <3>4. QED
            BY <2>2, <2>3, <3>1, <3>3 DEF Goal
    <2>6. QED
        BY <2>2, <2>4, <2>5
<1>6. CASE WriteAccess(d)
    <2>1. job[d].kind = "restore" /\ Rem(d) = 3 /\ job[d].access \in Sealed
        BY <1>6, StepOf DEF WriteAccess, IInv
    <2>2. disk'[d].access = job[d].access /\ init' = init
        BY <1>6, <2>1, PutAccess DEF WriteAccess, IInv, TypeInv, AccessFiles
    <2>3. init[d] = NoFile
        BY <1>0, <2>1 DEF JobIn, RestoreIn
    <2>4. QED
        BY <2>1, <2>2, <2>3, Fields DEF Young
<1>7. CASE CreateAccess(d) \/ BeginInit(d)
    <2>1. /\ disk[d].access = NoFile /\ snaps' = snaps /\ displayed' = displayed
          /\ survive'[d].access = survive[d].access \cup {Torn}
        BY <1>7, PutAccess
           DEF CreateAccess, BeginInit, CreateFile, IInv, TypeInv, AccessFiles
    <2>2. Young(d)
        BY <1>1, <2>1 DEF Young, Whole
    <2>3. init'[d] = init[d] \/ (init'[d].id = NextRev /\ init'[d].code = 0)
        <3>1. CASE CreateAccess(d)
            BY <3>1 DEF CreateAccess
        <3>2. CASE BeginInit(d)
            <4>1. PICK p \in Passwords :
                    init' = [init EXCEPT ![d] = [rev |-> NextRev, id |-> NextRev, pass |-> p,
                                                 ready |-> FALSE, code |-> 0]]
                BY <3>2 DEF BeginInit
            <4>2. QED
                BY <4>1 DEF IInv, TypeInv
        <3>3. QED
            BY <1>7, <3>1, <3>2
    <2>4. CASE f \in survive[d].access \cup {init[d]}
        BY <1>2, <2>1, <2>2, <2>4
    <2>5. CASE f.id = NextRev /\ f.code = 0
        BY <1>4, <2>1, <2>5 DEF Goal
    <2>6. f # Torn
        BY DEF Whole
    <2>7. QED
        BY <2>1, <2>3, <2>4, <2>5, <2>6
<1>8. CASE WriteInit(d) \/ FailInit(d)
    <2>1. init[d] # NoFile
        BY <1>8 DEF WriteInit, FailInit, IInv, TypeInv
    <2>2. /\ survive'[d].access \subseteq survive[d].access \cup {init[d], NoFile}
          /\ init'[d] \in {init[d], NoFile} /\ snaps' = snaps /\ displayed' = displayed
        <3>1. CASE WriteInit(d)
            BY <3>1 DEF WriteInit, Put, IInv, TypeInv, FilesTyped
        <3>2. CASE FailInit(d)
            BY <3>2 DEF FailInit, InitOver, Put, IInv, TypeInv, FilesTyped
        <3>3. QED
            BY <1>8, <3>1, <3>2
    <2>3. Young(d)
        BY <1>1, <2>1 DEF Young
    <2>4. QED
        BY <1>2, <2>2, <2>3 DEF Whole
<1>9. CASE EndInit(d) \/ KillInit(d)
    <2>1. /\ disk' = disk /\ survive' = survive /\ init'[d] = NoFile
          /\ snaps' = snaps /\ displayed' = displayed
        BY <1>9 DEF EndInit, KillInit, InitOver, IInv, TypeInv
    <2>2. Young(d)
        BY <1>1, <2>1 DEF Young
    <2>3. QED
        BY <1>2, <2>1, <2>2 DEF Whole
<1>10. CASE WriteSnapshot(d)
    <2>1. job[d].kind \in {"export", "initialize"} /\ job[d].access \in Sealed
        BY <1>10, StepOf DEF WriteSnapshot, IInv
    <2>2. job[d].access.code \in displayed /\ job[d].access = disk[d].access
        BY <1>0, <2>1 DEF IInv, Works, Copies, JobIn, CopyingIn
    <2>3. disk' = disk /\ init' = init
        BY <1>10 DEF WriteSnapshot
    <2>4. Whole(disk[d].access) /\ disk[d].access \in survive[d].access
        BY <2>1, <2>2, Fields, Local DEF IInv
    <2>5. Young(d)
        BY <1>1, <2>3 DEF Young
    <2>6. QED
        BY <1>0, <2>2, <2>4, <2>5 DEF YoungIn
<1>11. CASE Answer(d)
    <2>1. job[d].kind \in {"export", "initialize"}
        BY <1>11 DEF Answer, Young
    <2>2. job[d].access.code \in displayed
        BY <2>1 DEF IInv, Works, Copies
    <2>3. Calm
        BY <1>11, <2>2 DEF Answer
    <2>4. QED
        BY <1>3, <2>3
<1>12. CASE Sync(d)
    <2>1. disk[d].access \in survive[d].access
        BY Local DEF IInv
    <2>2. Calm
        BY <1>12, <2>1 DEF Sync, IInv, TypeInv, FilesTyped
    <2>3. QED
        BY <1>3, <2>2
<1>13. CASE CreateInventory(d) \/ WriteInventory(d) \/ EndCommit(d)
    <2>1. /\ disk'[d].access = disk[d].access /\ survive'[d].access = survive[d].access
          /\ init' = init /\ snaps' = snaps /\ displayed' = displayed
        <3>1. CASE CreateInventory(d)
            BY <3>1, PutInventory DEF CreateInventory, CreateFile, IInv, TypeInv, InventoryFiles
        <3>2. CASE WriteInventory(d)
            <4>1. job[d].image \in InventoryFiles
                BY Local DEF IInv, JobType, InventoryFiles
            <4>2. QED
                BY <3>2, <4>1, PutInventory DEF WriteInventory, IInv, TypeInv
        <3>3. CASE EndCommit(d)
            BY <3>3 DEF EndCommit, IInv, TypeInv, FilesTyped
        <3>4. QED
            BY <1>13, <3>1, <3>2, <3>3
    <2>2. QED
        BY <1>3, <2>1
<1>14. CASE KeepSnapshot(d) \/ Check(d) \/ Fail(d) \/ Stop(d) \/ SyncInit(d) \/ Serve(d)
            \/ Prepare(d) \/ \E s \in Sessions : Commit(d, s)
    <2>1. Calm
        BY <1>14 DEF KeepSnapshot, Check, Fail, Stop, SyncInit, Serve, Prepare, Commit
    <2>2. QED
        BY <1>3, <2>1
<1>15. CASE ChangePassword(d) \/ CommitUpgrade(d) \/ Export(d) \/ InitializeInventory(d)
            \/ Restore(d) \/ \E kind \in {"enroll", "rotate", "reset"} : ChangeRecovery(d, kind)
    <2>1. Calm
        BY <1>15 DEF ChangePassword, CommitUpgrade, Export, InitializeInventory, Restore,
                     ChangeRecovery
    <2>2. QED
        BY <1>3, <2>1
<1>16. QED
    BY <1>5, <1>6, <1>7, <1>8, <1>9, <1>10, <1>11, <1>12, <1>13, <1>14, <1>15 DEF Acts

LEMMA YoungStep ==
    ASSUME IInv, TypeInv', [Next]_vars, NEW d \in Dirs, d \notin removed'
    PROVE  YoungIn(d)'
<1>0. d \in Intact /\ YoungIn(d) /\ TypeInv /\ seals \in Nat
    BY Removal, AccessAssumption DEF Intact, IInv, TypeInv
<1> SUFFICES ASSUME Young(d)', NEW f \in survive'[d].access \cup {init'[d]}, Whole(f)
             PROVE  /\ f.code \notin displayed'
                    /\ \A s \in snaps' : s.access.id # f.id
                    /\ \A e \in Dirs \ {d} : \A g \in Sealed : Held(e, g)' => g.id # f.id
    BY DEF YoungIn
<1>1. ASSUME Acts(d)
      PROVE  /\ f.code \notin displayed'
             /\ \A s \in snaps' : s.access.id # f.id
             /\ \A e \in Dirs \ {d} : \A g \in Sealed : Held(e, g)' => g.id # f.id
    <2>1. /\ snaps' = snaps /\ f.code \notin displayed'
          /\ \/ f.id = NextRev
             \/ Young(d) /\ \E g \in survive[d].access \cup {init[d]} : Whole(g) /\ g.id = f.id
        BY <1>0, <1>1, YoungHere
    <2>2. ASSUME NEW e \in Dirs \ {d}, NEW g \in Sealed, Held(e, g)' PROVE Held(e, g)
        <3>1. Same(e)
            BY <1>0, <1>1, Elsewhere
        <3>2. QED
            BY <2>2, <3>1 DEF Same, FilesSame, Held
    <2>3. CASE f.id = NextRev
        <3>1. \A n \in 0 .. MaxSeals : n <= seals => n # NextRev
            BY <1>0 DEF NextRev
        <3>2. \A s \in snaps : s.access.id <= seals /\ s.access.id \in 0 .. MaxSeals
            BY Fields DEF IInv, Numbered, TypeInv, Backups
        <3>3. \A e \in Dirs : \A g \in Sealed : Held(e, g) => g.id <= seals /\ g.id \in 0 .. MaxSeals
            BY Fields DEF IInv, Numbered
        <3>4. QED
            BY <2>1, <2>2, <2>3, <3>1, <3>2, <3>3
    <2>4. CASE Young(d) /\ \E g \in survive[d].access \cup {init[d]} : Whole(g) /\ g.id = f.id
        BY <1>0, <2>1, <2>2, <2>4 DEF YoungIn
    <2>5. QED
        BY <2>1, <2>3, <2>4
<1>2. ASSUME NEW y \in Dirs, y # d, Acts(y)
      PROVE  /\ f.code \notin displayed'
             /\ \A s \in snaps' : s.access.id # f.id
             /\ \A e \in Dirs \ {d} : \A g \in Sealed : Held(e, g)' => g.id # f.id
    <2>1. Same(d)
        BY <1>0, <1>2, Elsewhere
    <2>2. Young(d) /\ f \in survive[d].access \cup {init[d]} /\ Held(d, f)
        <3>1. disk'[d] = disk[d] /\ survive'[d] = survive[d] /\ init'[d] = init[d]
              /\ (d \in settled => d \in settled')
            BY <2>1 DEF Same, FilesSame
        <3>2. QED
            BY <3>1 DEF Young, Held
    <2>3. f \in Sealed
        BY <1>0, <2>2, HeldSealed
    <2>4. /\ f.code \notin displayed
          /\ \A s \in snaps : s.access.id # f.id
          /\ \A e \in Dirs \ {d} : \A g \in Sealed : Held(e, g) => g.id # f.id
        BY <1>0, <2>2 DEF YoungIn
    <2>5. f.code \notin displayed'
        <3>1. 0 \notin displayed'
            BY DEF TypeInv
        <3>2. QED
            BY <1>2, <2>2, <2>4, <3>1, SeenElsewhere
    <2>6. ASSUME NEW s \in snaps' PROVE s.access.id # f.id
        <3>1. CASE s \in snaps
            BY <2>4, <3>1
        <3>2. CASE s \notin snaps
            <4>1. WriteSnapshot(y) /\ s.access = job[y].access
                <5>1. WriteSnapshot(y)
                    BY <1>2, <3>2 DEF Acts, Replace, CreateInventory, WriteInventory, CreateAccess,
                        WriteAccess, Sync, KeepSnapshot, Check, Answer, Fail, BeginInit, WriteInit,
                        SyncInit, EndInit, FailInit, KillInit, Serve, ChangePassword, Commit,
                        EndCommit, Prepare, CommitUpgrade, ChangeRecovery, Export,
                        InitializeInventory, Restore, Stop
                <5>2. QED
                    BY <3>2, <5>1 DEF WriteSnapshot, Snapshot
            <4>2. job[y].access \in Sealed
                BY <1>0, <4>1, StepOf DEF WriteSnapshot
            <4>3. Held(y, job[y].access)
                BY <4>2, Fields DEF Held
            <4>4. QED
                BY <1>2, <2>4, <4>1, <4>2, <4>3
        <3>3. QED
            BY <3>1, <3>2
    <2>7. ASSUME NEW e \in Dirs \ {d}, NEW g \in Sealed, Held(e, g)' PROVE g.id # f.id
        <3>1. Origin(e, g, y)
            BY <1>0, <1>2, <2>7, Flow
        <3>2. CASE Held(e, g) \/ \E s \in snaps : g = s.access
            BY <2>4, <3>2
        <3>3. CASE g.id = NextRev
            <4>1. f.id <= seals /\ f.id \in 0 .. MaxSeals
                BY <2>2, <2>3, Fields DEF IInv, Numbered
            <4>2. QED
                BY <1>0, <3>3, <4>1 DEF NextRev
        <3>4. CASE \E h : Held(e, h) /\ g.id = h.id
            BY <1>0, <2>4, <3>4, HeldSealed
        <3>5. QED
            BY <3>1, <3>2, <3>3, <3>4 DEF Origin
    <2>8. QED
        BY <2>5, <2>6, <2>7
<1>3. ASSUME (\E s \in Sessions : SignIn(s)) \/ PowerLoss \/ UNCHANGED vars
      PROVE  /\ f.code \notin displayed'
             /\ \A s \in snaps' : s.access.id # f.id
             /\ \A e \in Dirs \ {d} : \A g \in Sealed : Held(e, g)' => g.id # f.id
    <2>1. ~PowerLoss
        BY DEF PowerLoss, Young, Whole
    <2>2. /\ disk' = disk /\ survive' = survive /\ init' = init /\ settled' = settled
          /\ displayed' = displayed /\ snaps' = snaps
        BY <1>3, <2>1 DEF SignIn, vars
    <2>3. Young(d)
        BY <2>2 DEF Young
    <2>4. \A e \in Dirs : \A g : Held(e, g)' => Held(e, g)
        BY <1>0, <1>3, HeldOnly
    <2>5. QED
        BY <1>0, <2>2, <2>3, <2>4 DEF YoungIn
<1>4. QED
    BY <1>1, <1>2, <1>3, NextActs

FileSteps == {"replace", "sync", "check", "snapshot", "keep", "create inventory",
              "write inventory", "create access", "write access"}

\* A ceremony has its snapshot where it should by the time it goes on.
LEMMA CopiesStep ==
    ASSUME TypeInv, NEW d \in Dirs, Copies(d), displayed' = displayed,
           snaps \subseteq snaps', kept \subseteq kept',
           NEW s, s \in FileSteps, Doing(d, s), s = "snapshot" => Snapshot(d) \in snaps',
           s = "keep" => Snapshot(d) \in kept'
    PROVE  Copies(d)' /\ job'[d].kind = job[d].kind
<1>1. /\ job'[d].kind = job[d].kind /\ job'[d].access = job[d].access
      /\ job'[d].image = job[d].image
    BY StepOf
<1>2. Snapshot(d)' = Snapshot(d)
    BY <1>1 DEF Snapshot
<1>3. \A n \in {1, 2} : n < 3
    OBVIOUS
<1>4. \A n \in {1, 2, 3, 4, 5} : n < 6 /\ n < 7
    OBVIOUS
<1>5. 6 < 7 /\ ~(6 < 6)
    OBVIOUS
<1>6. CASE job[d].kind = "export"
    <2>1. \/ s = "snapshot"
          \/ s = "keep" /\ Rem(d) = 2
          \/ s = "check" /\ Rem(d) = 1
        BY <1>6, StepOf DEF FileSteps, Replacing
    <2>2. s = "snapshot" \/ Rem(d) < 3
        BY <1>3, <2>1
    <2>3. Snapshot(d) \in snaps'
        BY <1>6, <2>2 DEF Copies
    <2>4. QED
        BY <1>1, <1>2, <1>6, <2>3 DEF Copies
<1>7. CASE job[d].kind = "initialize"
    <2>1. \/ s = "snapshot" /\ Rem(d)' = 6
          \/ s = "keep" /\ Rem(d) = 6
          \/ Rem(d) \in {1, 2, 3, 4, 5}
        BY <1>7, StepOf DEF FileSteps, Replacing
    <2>2. \/ s = "snapshot" /\ ~(Rem(d)' < 6)
          \/ s = "keep" /\ Rem(d) < 7
          \/ Rem(d) < 6 /\ Rem(d) < 7
        BY <1>4, <1>5, <2>1
    <2>3. Snapshot(d) \in snaps' /\ (Rem(d)' < 6 => Snapshot(d) \in kept')
        BY <1>7, <2>2 DEF Copies
    <2>4. QED
        BY <1>1, <1>2, <1>7, <2>3 DEF Copies
<1>8. QED
    BY <1>1, <1>6, <1>7 DEF Copies

\* Who serves, who copies, and which code works, where a process acts.
LEMMA WorksHere ==
    ASSUME IInv, NEW d \in Dirs, Acts(d)
    PROVE  Works(d)'
<1>0. /\ Apart(d) /\ Copies(d) /\ code[d] \in displayed \cup {0}
      /\ TypeInv
    BY DEF IInv, Works
<1>1. CASE job'[d].kind = "none" /\ code'[d] \in displayed' \cup {0}
    BY <1>1 DEF Works, Apart, Copies, Ceremonies
<1>2. ASSUME NEW s, s \in FileSteps, Doing(d, s), displayed' = displayed, server' = server,
             snaps \subseteq snaps', kept \subseteq kept', code'[d] \in {code[d], 0},
             s = "snapshot" => Snapshot(d) \in snaps', s = "keep" => Snapshot(d) \in kept'
      PROVE  Works(d)'
    <2>1. Copies(d)' /\ job'[d].kind = job[d].kind
        BY <1>0, <1>2, CopiesStep
    <2>2. QED
        BY <1>0, <1>2, <2>1 DEF Works, Apart
<1>3. CASE Replace(d)
    <2>1. code'[d] \in {code[d], 0}
        BY <1>3 DEF Replace, IInv, TypeInv
    <2>2. QED
        BY <1>2, <1>3, <2>1 DEF FileSteps, Replace
<1>4. CASE CreateInventory(d)
    BY <1>2, <1>4 DEF FileSteps, CreateInventory
<1>5. CASE WriteInventory(d)
    BY <1>2, <1>5 DEF FileSteps, WriteInventory
<1>6. CASE CreateAccess(d)
    BY <1>2, <1>6 DEF FileSteps, CreateAccess
<1>7. CASE WriteAccess(d)
    BY <1>2, <1>7 DEF FileSteps, WriteAccess
<1>8. CASE Sync(d)
    BY <1>2, <1>8 DEF FileSteps, Sync
<1>9. CASE WriteSnapshot(d)
    BY <1>2, <1>9 DEF FileSteps, WriteSnapshot
<1>10. CASE KeepSnapshot(d)
    BY <1>2, <1>10 DEF FileSteps, KeepSnapshot
<1>11. CASE Check(d)
    BY <1>2, <1>11 DEF FileSteps, Check
<1>12. CASE Answer(d)
    <2>1. job'[d].kind = "none"
        BY <1>12 DEF Answer, IInv, TypeInv, JobsTyped, NoJob
    <2>2. displayed' = displayed \cup ({job[d].access.code} \ {0})
        BY <1>12 DEF Answer
    <2>3. code'[d] \in {code[d], job[d].access.code}
        BY <1>12 DEF Answer, IInv, TypeInv
    <2>4. QED
        BY <1>0, <1>1, <2>1, <2>2, <2>3
<1>13. CASE Fail(d) \/ Stop(d) \/ EndCommit(d)
    <2>1. job'[d].kind = "none"
        BY <1>13 DEF Fail, Stop, EndCommit, IInv, TypeInv, JobsTyped, NoJob
    <2>2. displayed' = displayed /\ code' = code
        BY <1>13 DEF Fail, Stop, EndCommit
    <2>3. QED
        BY <1>0, <1>1, <2>1, <2>2
<1>14. CASE BeginInit(d) \/ WriteInit(d) \/ SyncInit(d) \/ EndInit(d) \/ FailInit(d)
            \/ KillInit(d) \/ Prepare(d) \/ Serve(d)
    <2>1. /\ job' = job /\ snaps' = snaps /\ kept' = kept /\ displayed' = displayed
          /\ code' = code /\ (server' = server \/ Free(d))
        BY <1>14 DEF BeginInit, WriteInit, SyncInit, EndInit, FailInit, KillInit, Prepare,
                     Serve, OperationFree
    <2>2. Apart(d)'
        BY <1>0, <2>1 DEF Apart, Free, NoJob, Ceremonies
    <2>3. Copies(d)'
        BY <1>0, <2>1 DEF Copies, Rem, Snapshot
    <2>4. QED
        BY <1>0, <2>1, <2>2, <2>3 DEF Works
<1>15. CASE ChangePassword(d) \/ CommitUpgrade(d) \/ \E s \in Sessions : Commit(d, s)
    <2>1. job'[d].kind \in {"change", "upgrade", "commit"}
        <3>1. CASE ChangePassword(d) \/ CommitUpgrade(d)
            BY <3>1 DEF ChangePassword, CommitUpgrade, Start, IInv, TypeInv, JobsTyped
        <3>2. CASE \E s \in Sessions : Commit(d, s)
            BY <3>2 DEF Commit, NoJob, IInv, TypeInv, JobsTyped
        <3>3. QED
            BY <1>15, <3>1, <3>2
    <2>2. displayed' = displayed /\ code' = code
        BY <1>15 DEF ChangePassword, CommitUpgrade, Commit
    <2>3. QED
        BY <1>0, <2>1, <2>2 DEF Works, Apart, Copies, Ceremonies
<1>16. CASE Restore(d) \/ \E kind \in {"enroll", "rotate", "reset"} : ChangeRecovery(d, kind)
    <2>1. job'[d].kind \in {"restore", "enroll", "rotate", "reset"}
        BY <1>16 DEF Restore, ChangeRecovery, Start, IInv, TypeInv, JobsTyped
    <2>2. displayed' = displayed /\ code' = code /\ server' = server /\ server # d
        BY <1>16 DEF Restore, ChangeRecovery, OperationFree
    <2>3. QED
        BY <1>0, <2>1, <2>2 DEF Works, Apart, Copies
<1>17. CASE Export(d)
    <2>1. PICK image \in {disk[d].inventory, NoFile} :
            /\ Whole(image) => image.id = disk[d].access.id
            /\ Start(d, "export", Script("export"), disk[d].access, image)
        BY <1>17 DEF Export
    <2>2. /\ job'[d].kind = "export" /\ job'[d].todo = ToSnapshot
          /\ job'[d].access = disk[d].access /\ job'[d].image = image
        BY <2>1, Scripts DEF Start, IInv, TypeInv, JobsTyped
    <2>3. /\ displayed' = displayed /\ code' = code /\ server' = server /\ server # d
          /\ disk[d].access.code \in displayed
        BY <1>17 DEF Export, OperationFree, SnapshotAllowed
    <2>4. ~(Rem(d)' < 3)
        BY <2>2, Lens DEF Rem
    <2>5. QED
        BY <1>0, <2>1, <2>2, <2>3, <2>4 DEF Works, Apart, Copies
<1>18. CASE InitializeInventory(d)
    <2>1. Start(d, "initialize", Script("initialize"), disk[d].access,
                [id |-> disk[d].access.id, used |-> FALSE])
        BY <1>18 DEF InitializeInventory
    <2>2. /\ job'[d].kind = "initialize" /\ job'[d].todo = ToBackUp
          /\ job'[d].access = disk[d].access /\ job'[d].image.id = disk[d].access.id
        BY <2>1, Scripts DEF Start, IInv, TypeInv, JobsTyped
    <2>3. /\ displayed' = displayed /\ code' = code /\ server' = server /\ server # d
          /\ disk[d].access.code \in displayed
        BY <1>18 DEF InitializeInventory, OperationFree, SnapshotAllowed
    <2>4. ~(Rem(d)' < 7) /\ ~(Rem(d)' < 6)
        BY <2>2, Lens DEF Rem
    <2>5. QED
        BY <1>0, <2>2, <2>3, <2>4 DEF Works, Apart, Copies
<1>19. QED
    BY <1>3, <1>4, <1>5, <1>6, <1>7, <1>8, <1>9, <1>10, <1>11, <1>12, <1>13, <1>14, <1>15,
       <1>16, <1>17, <1>18 DEF Acts

LEMMA WorksStep ==
    ASSUME IInv, [Next]_vars, NEW d \in Dirs
    PROVE  Works(d)'
<1>0. Apart(d) /\ Copies(d) /\ code[d] \in displayed \cup {0}
    BY DEF IInv, Works
<1>1. ASSUME NEW y \in Dirs, Acts(y), y # d PROVE Works(d)'
    <2>1. Same(d) /\ (server' = d => server = d) /\ Grows(y)
        BY <1>1, Elsewhere, Growth DEF IInv
    <2>2. /\ job'[d] = job[d] /\ code'[d] = code[d] /\ displayed \subseteq displayed'
          /\ snaps \subseteq snaps' /\ kept \subseteq kept'
        BY <2>1 DEF Same, FilesSame, Grows
    <2>3. Snapshot(d)' = Snapshot(d) /\ Rem(d)' = Rem(d)
        BY <2>2 DEF Snapshot, Rem
    <2>4. Copies(d)'
        BY <1>0, <2>2, <2>3 DEF Copies
    <2>5. QED
        BY <1>0, <2>1, <2>2, <2>4 DEF Works, Apart
<1>2. CASE PowerLoss
    <2>1. /\ job'[d].kind = "none" /\ server' = Nowhere
          /\ code' = code /\ displayed' = displayed
        BY <1>2 DEF PowerLoss, NoServer, NoJob
    <2>2. QED
        BY <1>0, <2>1 DEF Works, Apart, Copies, Ceremonies
<1>3. CASE (\E s \in Sessions : SignIn(s)) \/ UNCHANGED vars
    <2>1. /\ job' = job /\ server' = server /\ code' = code /\ displayed' = displayed
          /\ snaps' = snaps /\ kept' = kept
        BY <1>3 DEF SignIn, vars
    <2>2. Snapshot(d)' = Snapshot(d) /\ Rem(d)' = Rem(d)
        BY <2>1 DEF Snapshot, Rem
    <2>3. QED
        BY <1>0, <2>1, <2>2 DEF Works, Apart, Copies
<1>4. QED
    BY <1>1, <1>2, <1>3, NextActs, WorksHere

\* A snapshot that is kept was written, and was taken of what it says.
LEMMA BackedStep ==
    ASSUME IInv, [Next]_vars
    PROVE  Backed'
<1>0. Backed
    BY DEF IInv
<1>1. ASSUME NEW d \in Dirs, Acts(d) PROVE Backed'
    <2>0. displayed \subseteq displayed'
        BY <1>1, Growth DEF IInv, Grows
    <2>1. CASE WriteSnapshot(d)
        <3>1. Doing(d, "snapshot")
            BY <2>1 DEF WriteSnapshot
        <3>2. job[d].kind \in {"export", "initialize"} /\ job[d].access \in Sealed
            BY <3>1, StepOf DEF IInv
        <3>3. /\ job[d].access.code \in displayed
              /\ Whole(job[d].image) => job[d].image.id = job[d].access.id
            BY <3>2 DEF IInv, Works, Copies
        <3>4. job[d].access.id # 0
            BY <3>2, <3>3, Fields DEF IInv, TypeInv
        <3>5. snaps' = snaps \cup {Snapshot(d)} /\ kept' = kept
            BY <2>1 DEF WriteSnapshot
        <3>6. Snapshot(d).access = job[d].access /\ Snapshot(d).image = job[d].image
            BY DEF Snapshot
        <3>7. QED
            BY <1>0, <2>0, <3>3, <3>4, <3>5, <3>6 DEF Backed
    <2>2. CASE KeepSnapshot(d)
        <3>1. Doing(d, "keep")
            BY <2>2 DEF KeepSnapshot
        <3>2. \/ job[d].kind = "export" /\ Rem(d) = 2
              \/ job[d].kind = "initialize" /\ Rem(d) = 6
            BY <3>1, StepOf DEF IInv
        <3>3. Snapshot(d) \in snaps
            BY <3>2 DEF IInv, Works, Copies
        <3>4. snaps' = snaps /\ kept' = kept \cup {Snapshot(d)}
            BY <2>2 DEF KeepSnapshot
        <3>5. QED
            BY <1>0, <2>0, <3>3, <3>4 DEF Backed
    <2>3. CASE ~(WriteSnapshot(d) \/ KeepSnapshot(d))
        <3>1. snaps' = snaps /\ kept' = kept
            BY <1>1, <2>3 DEF Acts, Replace, CreateInventory, WriteInventory, CreateAccess,
                WriteAccess, Sync, Check, Answer, Fail, BeginInit, WriteInit, SyncInit, EndInit,
                FailInit, KillInit, Serve, ChangePassword, Commit, EndCommit, Prepare,
                CommitUpgrade, ChangeRecovery, Export, InitializeInventory, Restore, Stop
        <3>2. QED
            BY <1>0, <2>0, <3>1 DEF Backed
    <2>4. QED
        BY <2>1, <2>2, <2>3
<1>2. ASSUME (\E s \in Sessions : SignIn(s)) \/ PowerLoss \/ UNCHANGED vars PROVE Backed'
    <2>1. kept' = kept /\ snaps' \in {snaps, kept} /\ displayed' = displayed
        BY <1>2 DEF SignIn, PowerLoss, vars
    <2>2. QED
        BY <1>0, <2>1 DEF Backed
<1>3. QED
    BY <1>1, <1>2, NextActs

LEMMA InitDirs ==
    ASSUME Init, NEW d \in Dirs
    PROVE  Dir(d) /\ YoungIn(d) /\ Works(d)
<1>1. PICK old \in [Legacy -> {NoFile} \cup [rev : {1}, id : {0}, pass : Passwords,
                                              ready : {TRUE}, code : {0}]] :
        LET access(e) == IF e \in Legacy THEN old[e] ELSE NoFile IN
        /\ disk = [e \in Dirs |-> [access |-> access(e), inventory |-> NoFile]]
        /\ survive = [e \in Dirs |-> [access |-> {access(e)}, inventory |-> {NoFile}]]
        /\ known = [e \in Dirs |-> IF access(e) = NoFile THEN {} ELSE {access(e).pass}]
        /\ settled = {e \in Dirs : access(e) # NoFile}
    BY DEF Init
<1> DEFINE a == disk[d].access
<1>2. /\ a = NoFile \/ (a \in Sealed /\ Whole(a) /\ a.id = 0 /\ known[d] = {a.pass})
      /\ survive[d].access = {a} /\ survive[d].inventory = {NoFile}
      /\ disk[d].inventory = NoFile /\ (d \in settled <=> a # NoFile)
    <2>1. TypeInv
        BY InitTypes
    <2>2. CASE d \in Legacy
        <3>1. a = old[d]
            BY <1>1, <2>2
        <3>2. old[d] = NoFile \/ old[d] \in [rev : {1}, id : {0}, pass : Passwords,
                                              ready : {TRUE}, code : {0}]
            BY <1>1, <2>2
        <3>3. old[d] # NoFile => old[d].id = 0
            BY <3>2
        <3>4. a = NoFile \/ (a \in Sealed /\ Whole(a))
            <4>1. a \in AccessFiles
                BY <2>1, Local
            <4>2. a = NoFile \/ a \in Envelopes
                <5>1. 1 \in 1 .. MaxSeals /\ 0 \in 0 .. MaxSeals
                    BY AccessAssumption
                <5>2. [rev : {1}, id : {0}, pass : Passwords, ready : {TRUE}, code : {0}]
                        \subseteq Envelopes
                    <6>1. {1} \subseteq 1 .. MaxSeals /\ {0} \subseteq 0 .. MaxSeals
                        BY <5>1
                    <6>2. QED
                        BY <6>1 DEF Envelopes
                <5>3. QED
                    BY <3>1, <3>2, <5>2
            <4>3. a # Torn
                BY <4>2, FilesAssumption, AccessAssumption
            <4>4. QED
                BY <4>1, <4>3 DEF AccessFiles, Whole
        <3>5. QED
            BY <1>1, <2>2, <3>1, <3>3, <3>4
    <2>3. CASE d \notin Legacy
        BY <1>1, <2>3
    <2>4. QED
        BY <2>2, <2>3
<1>3. /\ job[d] = NoJob /\ init[d] = NoFile /\ candidate[d] = {} /\ displayed = {}
      /\ code[d] = 0 /\ restored[d] = 0 /\ server = Nowhere
    BY DEF Init
<1>4. AccessFile(d) /\ InventoryFile(d) /\ OpensIn(d) /\ MatchIn(d)
    BY <1>2, <1>3 DEF AccessFile, InventoryFile, OpensIn, MatchIn, Whole
<1>5. Initing(d)
    BY <1>3 DEF Initing
<1>6. job[d].kind = "none"
    BY <1>3 DEF NoJob
<1>7. JobIn(d)
    BY <1>6 DEF JobIn, ReplacingIn, CopyingIn, InitializeIn, RestoreIn, CommitIn,
                Replacing, Ceremonies
<1>8. YoungIn(d)
    BY <1>2, <1>3 DEF YoungIn, Young, Whole
<1>9. Works(d)
    BY <1>3, <1>6 DEF Works, Apart, Copies, Ceremonies
<1>10. QED
    BY <1>4, <1>5, <1>7, <1>8, <1>9 DEF Dir, FilesIn

\* The invariant holds whatever the directories, the numbers and the failures.
THEOREM Inductive == Spec => []IInv
<1>1. Init => IInv
    BY InitTypes, InitNumbered, InitDirs DEF IInv, Intact
<1>2. IInv /\ [Next]_vars => IInv'
    <2> SUFFICES ASSUME IInv, [Next]_vars PROVE IInv'
        OBVIOUS
    <2>1. TypeInv'
        BY TypeStep DEF IInv
    <2>2. Numbered' /\ OneHome'
        BY <2>1, NumberedStep, OneHomeStep DEF IInv
    <2>3. Backed'
        BY BackedStep
    <2>4. \A d \in Dirs : Works(d)'
        BY WorksStep
    <2>5. \A d \in Dirs : d \notin removed' => Dir(d)' /\ YoungIn(d)'
        BY <2>1, DirStep, YoungStep
    <2>6. QED
        BY <2>1, <2>2, <2>3, <2>4, <2>5 DEF IInv, Intact
<1>3. QED
    BY <1>1, <1>2, PTL DEF Spec

----------------------------------------------------------------------------
(* What follows                                                            *)

\* Unlockable: wherever no init removed a file in use, the operator was told of a
\* password that opens whatever a power loss leaves, there is such a file from the
\* first change on, and a recovery code that was shown still opens it.
THEOREM SpecUnlockable == Spec => []Unlockable
<1>1. IInv => Unlockable
    <2> SUFFICES ASSUME IInv PROVE Unlockable
        OBVIOUS
    <2>1. PasswordKnown /\ CodeWorks
        BY DEF IInv, Intact, Dir, FilesIn, OpensIn, PasswordKnown, CodeWorks
    <2>2. ASSUME NEW d \in Dirs
          PROVE  /\ job[d].kind \in Ceremonies \cup {"none", "change", "upgrade", "commit"}
                 /\ init[d] \in Envelopes \cup {NoFile} /\ initAt[d] \in InitStages
                 /\ initAt[d] = "none" <=> init[d] = NoFile
                 /\ known[d] \subseteq Passwords /\ code[d] \in displayed \cup {0}
                 /\ server = d => job[d].kind \notin Ceremonies
        <3>1. job[d].kind \in Kinds
            BY Local DEF IInv, JobType
        <3>2. init[d] \in Envelopes \cup {NoFile}
            BY Local DEF IInv, Sealed
        <3>3. known[d] \subseteq Passwords /\ initAt[d] \in InitStages
            BY DEF IInv, TypeInv
        <3>4. code[d] \in displayed \cup {0} /\ (server = d => job[d].kind \notin Ceremonies)
            BY DEF IInv, Works, Apart
        <3>5. initAt[d] = "none" <=> init[d] = NoFile
            BY Local DEF IInv
        <3>6. QED
            BY <3>1, <3>2, <3>3, <3>4, <3>5 DEF Kinds, Replacing, Ceremonies
    <2>3. disk \in [Dirs -> [access : Envelopes \cup {NoFile, Torn},
                             inventory : Images \cup {NoFile, Torn}]]
        BY DEF IInv, TypeInv, FilesTyped, AccessFiles, InventoryFiles, Sealed
    <2>4. session \in [Sessions -> 0 .. seals]
        <3>1. \A s \in Sessions : session[s] \in 0 .. MaxSeals /\ session[s] <= seals
            BY DEF IInv, TypeInv, Numbered
        <3>2. QED
            BY <3>1, AccessAssumption DEF IInv, TypeInv
    <2>5. kept \subseteq snaps /\ snaps \subseteq Snapshots
        BY DEF IInv, Backed, TypeInv, Backups, Snapshots, Sealed
    <2>6. TypeOK
        BY <2>2, <2>3, <2>4, <2>5, Local DEF TypeOK, IInv, TypeInv
    <2>7. QED
        BY <2>1, <2>6 DEF Unlockable
<1>2. QED
    BY <1>1, Inductive, PTL

\* FilesMatch: with the same exception, an inventory belongs to the access file
\* beside it, is whole when a full restore is, and has a complete snapshot from
\* the moment it may exist.
THEOREM SpecFilesMatch == Spec => []FilesMatch
<1>1. IInv => FilesMatch
    BY DEF IInv, Intact, Dir, FilesIn, MatchIn, FilesMatch, InventoryOpens, RestoredWhole,
           BackedUp
<1>2. QED
    BY <1>1, Inductive, PTL

\* NoRevokedWrite: with the same exception, whoever writes an inventory does so
\* under the access file that its session signed in with.
THEOREM SpecNoRevokedWrite == Spec => NoRevokedWrite
<1>1. IInv => \A d \in Intact : job[d].kind = "commit" /\ disk'[d].inventory # disk[d].inventory
                                  => disk[d].access.rev = job[d].rev
    BY DEF IInv, Dir, JobIn, CommitIn
<1>2. QED
    BY <1>1, Inductive, PTL DEF NoRevokedWrite

=============================================================================
