--------------------------- MODULE InventoryRecords ---------------------------
(***************************************************************************)
(* The saved certificates: records with an owner and locations, noted by   *)
(* the operator, and optional private keys, all in one authenticated       *)
(* image.  Every write decodes the image, changes it and commits the whole *)
(* under the writer lock; most do not decode what they commit, so an image *)
(* that decode refuses would be found too late, and none of its records    *)
(* could be read again.                                                    *)
(*                                                                         *)
(* One page is followed: it shows the records as it read them, and its     *)
(* writes carry the generation it shows.  Other pages and the renewal job  *)
(* write in between, with the current generation.  A commit whose sync     *)
(* failed is visible, but a power loss may undo it.  A saved certificate   *)
(* that a renewal starts from, and its timing plan, are StagingRequest and *)
(* RenewalTiming; here a deletion that they refuse is one that is not made.*)
(***************************************************************************)
EXTENDS Naturals, FiniteSets, SequencesExt

CONSTANTS
    Certs, Keys,
    Pairs,         \* the key of each certificate
    Authorities,   \* CA certificates, whose keys are never saved
    Owners, Locations,
    Nothing,       \* no key, no owner, no location
    MaxRecords,    \* 500
    MaxLocations,  \* 32 locations of a record
    MaxGeneration, \* writes
    MaxUncertain   \* commits whose sync fails

ASSUME RecordsAssumption ==
    /\ IsFiniteSet(Certs)
    /\ Pairs \in [Certs -> Keys] /\ Authorities \subseteq Certs
    /\ Nothing \notin Keys \cup Owners \cup Locations
    /\ MaxRecords \in Nat \ {0} /\ MaxLocations \in Nat \ {0}
    /\ MaxGeneration \in Nat \ {0, 1} /\ MaxUncertain \in Nat

VARIABLES
    image,     \* the inventory as everybody reads it
    durable,   \* what a power loss leaves for certain
    shown,     \* what the page shows
    writer,    \* who made the image what it is
    delivered, \* the last certificate and key downloaded as a pair
    uncertain  \* commits whose sync failed

vars == <<image, durable, shown, writer, delivered, uncertain>>

----------------------------------------------------------------------------
(* Images                                                                  *)

\* records: owner, locations, the generation it was imported with, as far as
\* it is noted, and the one it was sealed with last.  keys: attached by older
\* releases, matching only.  materials: a bundle and perhaps a key, which may
\* be a loose one if that was acknowledged.
Created == [generation |-> 1, records |-> <<>>, keys |-> <<>>, materials |-> <<>>]

NoMaterial == [key |-> Nothing, ack |-> FALSE]

With(f, x, v) == [y \in DOMAIN f \cup {x} |-> IF y = x THEN v ELSE f[y]]
Without(f, x) == [y \in DOMAIN f \ {x} |-> f[y]]

Recorded(m) == DOMAIN m.records

Imported(r) == IF r.imported # 0 THEN r.imported ELSE r.sealed

\* Materials come before the keys of older releases.
KeyOf(m, c) ==
    IF c \in DOMAIN m.materials THEN m.materials[c].key
    ELSE IF c \in DOMAIN m.keys THEN m.keys[c] ELSE Nothing

Status(c, key) ==
    IF key = Nothing THEN "not-added"
    ELSE IF Pairs[c] = key THEN "matched" ELSE "mismatch"

KeyStatus(m, c) == Status(c, KeyOf(m, c))

ValidRecord(m, c) ==
    LET r == m.records[c] IN
    /\ r.sealed \in 2 .. m.generation
    /\ r.imported # 0 => r.imported \in 2 .. r.sealed
    /\ Len(r.locations) <= MaxLocations /\ IsInjective(r.locations)

\* authenticateKeys, authenticateMaterials: each belongs to a record, and no
\* record has two.
ValidKeys(m) ==
    /\ DOMAIN m.keys \cup DOMAIN m.materials \subseteq Recorded(m)
    /\ DOMAIN m.keys \cap DOMAIN m.materials = {}
    /\ \A c \in DOMAIN m.keys : m.keys[c] = Pairs[c] /\ c \notin Authorities
    /\ \A c \in DOMAIN m.materials :
          /\ m.materials[c].ack = (Status(c, m.materials[c].key) = "mismatch")
          /\ c \in Authorities => m.materials[c].key = Nothing

\* decode accepts the image.
Opens(m) ==
    /\ m.generation \in 1 .. MaxGeneration
    /\ Cardinality(Recorded(m)) <= MaxRecords
    /\ \A c \in Recorded(m) : ValidRecord(m, c)
    /\ ValidKeys(m)

\* What a listing says of a certificate.
Entry(m, c) ==
    IF c \in Recorded(m) THEN <<Imported(m.records[c]), m.records[c].owner,
                             m.records[c].locations, KeyStatus(m, c)>>
                      ELSE <<>>

Listing(m) == [generation |-> m.generation, entries |-> [c \in Certs |-> Entry(m, c)]]

TypeOK ==
    /\ image.generation \in 1 .. MaxGeneration
    /\ durable.generation \in 1 .. MaxGeneration
    /\ Recorded(image) \subseteq Certs /\ Recorded(durable) \subseteq Certs
    /\ shown.generation \in 0 .. MaxGeneration
    /\ writer \in {"created", "page", "other", "import", "loss"}
    /\ delivered \in (Certs \X Keys) \cup {<<>>}
    /\ uncertain \in 0 .. MaxUncertain

\* An older release saved a certificate with its key.
OlderRelease(c) ==
    [Created EXCEPT
        !.generation = 2,
        !.records = With(<<>>, c, [owner |-> Nothing, locations |-> <<>>,
                                   imported |-> 0, sealed |-> 2]),
        !.keys = With(<<>>, c, Pairs[c])]

Init ==
    /\ image \in {Created} \cup {OlderRelease(c) : c \in Certs \ Authorities}
    /\ durable = image
    /\ shown = [generation |-> 0, entries |-> <<>>]
    /\ writer = "created" /\ delivered = <<>> /\ uncertain = 0

----------------------------------------------------------------------------
(* Writing                                                                 *)

\* replaceInventory: the image is renamed into place; if the directory cannot
\* be synced the outcome is uncertain.
Replace(next, who) ==
    /\ image' = next /\ writer' = who
    /\ \/ durable' = next /\ UNCHANGED uncertain
       \/ /\ uncertain < MaxUncertain /\ uncertain' = uncertain + 1
          /\ UNCHANGED durable
    /\ UNCHANGED <<shown, delivered>>

\* The generation a page shows must be the current one; other writers have
\* just read it.
Expects(who) == who = "page" => shown.generation = image.generation

\* Mutant: the last generation is given away too.
RoomForOneMore == image.generation <= MaxGeneration

Room == image.generation < MaxGeneration

\* A batch is added as a whole or not at all.
Appended(m, batch, owner, location) ==
    [m EXCEPT
        !.generation = @ + 1,
        !.records = [c \in Recorded(m) \cup batch |->
            IF c \in Recorded(m) THEN m.records[c]
            ELSE [owner |-> owner, imported |-> 0, sealed |-> m.generation + 1,
                  locations |-> IF location = Nothing THEN <<>> ELSE <<location>>]]]

Addable(batch) ==
    /\ batch \cap Recorded(image) = {}
    /\ Cardinality(Recorded(image)) + Cardinality(batch) <= MaxRecords

\* The import of public certificates is not bound to a generation.
AppendInventory(batch, owner, location) ==
    /\ Room /\ batch # {} /\ Addable(batch)
    /\ Replace(Appended(image, batch, owner, location), "import")

\* A loose key needs an acknowledgement, and nothing else takes one.
KeyAccepted(c, key, ack) ==
    /\ ack = (Status(c, key) = "mismatch")
    /\ c \in Authorities => key = Nothing

Sealed(key, ack) == [key |-> key, ack |-> ack]

AppendMaterial(who, c, key, ack, owner, location) ==
    /\ Expects(who) /\ Room /\ Addable({c}) /\ KeyAccepted(c, key, ack)
    /\ LET m == Appended(image, {c}, owner, location)
       IN  Replace([m EXCEPT !.materials = With(@, c, Sealed(key, ack))], who)

\* Mutant: a key in older custody is overlooked.
NoMaterialKey(c) == c \in DOMAIN image.materials => image.materials[c].key = Nothing

Keyless(c) == KeyOf(image, c) = Nothing

\* Mutant: the image keeps its generation.
AttachedQuietly(m, c, key, ack) == [m EXCEPT !.materials = With(@, c, Sealed(key, ack))]

\* A public bundle becomes one with a key; the record stays.
Attached(m, c, key, ack) ==
    [m EXCEPT !.generation = @ + 1, !.materials = With(@, c, Sealed(key, ack))]

AttachKey(who, c, key, ack) ==
    /\ Expects(who) /\ Room
    /\ c \in Recorded(image) /\ Keyless(c) /\ KeyAccepted(c, key, ack)
    /\ Replace(Attached(image, c, key, ack), who)

\* Mutant: what was imported when is read from the seal.
ResealedAnew(m, c, r) ==
    [m EXCEPT !.generation = @ + 1, !.records[c] = [r EXCEPT !.sealed = m.generation + 1]]

\* The first generation is noted once the seal has a later one.
Resealed(m, c, r) ==
    [m EXCEPT !.generation = @ + 1,
              !.records[c] = [r EXCEPT !.imported = Imported(m.records[c]),
                                       !.sealed = m.generation + 1]]

\* One record is sealed again with other notes.
Change(who, c, r) ==
    /\ Expects(who) /\ Room /\ c \in Recorded(image)
    /\ Replace(Resealed(image, c, r), who)

Notes(c) == image.records[c].locations

Associable(c, location) ==
    /\ c \in Recorded(image)
    /\ ~Contains(Notes(c), location) /\ Len(Notes(c)) < MaxLocations

AssociateLocation(who, c, location) ==
    /\ Associable(c, location)
    /\ Change(who, c, [image.records[c] EXCEPT !.locations = Append(@, location)])

OwnerChanges(c, owner) == c \in Recorded(image) /\ image.records[c].owner # owner

UpdateOwner(who, c, owner) ==
    /\ OwnerChanges(c, owner)
    /\ Change(who, c, [image.records[c] EXCEPT !.owner = owner])

\* Mutant: only another note than the old one is asked for.
AnyNote(locations, old, new) == Contains(locations, old) /\ old # new

Renamable(locations, old, new) ==
    /\ Contains(locations, old) /\ old # new /\ ~Contains(locations, new)

RenameLocation(who, c, old, new) ==
    /\ Renamable(Notes(c), old, new)
    /\ Change(who, c, [image.records[c] EXCEPT !.locations = ReplaceAll(@, old, new)])

RemoveLocation(who, c, old) ==
    \E i \in DOMAIN Notes(c) :
        /\ Notes(c)[i] = old
        /\ Change(who, c, [image.records[c] EXCEPT !.locations = RemoveAt(@, i)])

ChangeLocation(who, c) ==
    /\ c \in Recorded(image)
    /\ \E old \in Locations :
          \/ RemoveLocation(who, c, old)
          \/ \E new \in Locations : RenameLocation(who, c, old, new)

\* Mutant: material of the record is left behind.
DroppedRecord(m, c) ==
    [m EXCEPT !.generation = @ + 1, !.records = Without(@, c), !.keys = Without(@, c)]

Dropped(m, c) ==
    [m EXCEPT !.generation = @ + 1, !.records = Without(@, c),
              !.keys = Without(@, c), !.materials = Without(@, c)]

DeleteRecord(who, c) ==
    /\ Expects(who) /\ Room /\ c \in Recorded(image)
    /\ Replace(Dropped(image, c), who)

----------------------------------------------------------------------------
(* Reading                                                                 *)

Refresh ==
    /\ shown' = Listing(image)
    /\ UNCHANGED <<image, durable, writer, delivered, uncertain>>

\* Mutant: a key is enough for a pair.
PairOfAnyKey(c) == KeyOf(image, c) # Nothing

PairAllowed(c) == KeyStatus(image, c) = "matched"

DownloadPair(c) ==
    /\ Expects("page") /\ c \in Recorded(image) /\ PairAllowed(c)
    /\ delivered' = <<c, KeyOf(image, c)>>
    /\ UNCHANGED <<image, durable, shown, writer, uncertain>>

\* The page outlives the server; whoever signs in again may use it.
PowerLoss ==
    /\ image # durable /\ image' = durable /\ writer' = "loss"
    /\ UNCHANGED <<durable, shown, delivered, uncertain>>

Next ==
    \/ \E batch \in SUBSET Certs, o \in Owners \cup {Nothing}, l \in Locations \cup {Nothing} :
          AppendInventory(batch, o, l)
    \/ \E who \in {"page", "other"}, c \in Certs :
          \/ \E k \in Keys \cup {Nothing}, ack \in BOOLEAN, o \in Owners \cup {Nothing},
                l \in Locations \cup {Nothing} : AppendMaterial(who, c, k, ack, o, l)
          \/ \E k \in Keys, ack \in BOOLEAN : AttachKey(who, c, k, ack)
          \/ \E l \in Locations : AssociateLocation(who, c, l)
          \/ \E o \in Owners \cup {Nothing} : UpdateOwner(who, c, o)
          \/ ChangeLocation(who, c)
          \/ DeleteRecord(who, c)
    \/ Refresh \/ \E c \in Certs : DownloadPair(c)
    \/ PowerLoss

Spec == Init /\ [][Next]_vars

----------------------------------------------------------------------------
(* Properties                                                              *)

\* Every image that was committed, and every one a power loss leaves, can be
\* opened: one record with two keys, a key without its record or a list of
\* notes that decode refuses would lock all records away.
ImageOpens == Opens(image) /\ Opens(durable)

\* A page changes only what it shows: whatever others saved in between, the
\* record it changes is the one its operator saw.  (An uncertain commit that a
\* power loss undoes gives its generation away; after one, this may fail.)
ChangesWhatItShows ==
    [][writer' = "page" /\ image' # image /\ uncertain = 0 =>
          \A c \in Certs :
             \/ /\ Entry(image', c) = Entry(image, c)
                /\ KeyOf(image', c) = KeyOf(image, c)
             \/ Entry(image, c) = shown.entries[c]]_vars

\* A saved private key is never replaced, and goes only with its record.
KeyKept ==
    [][writer' # "loss" =>
          \A c \in Recorded(image) \cap Recorded(image') :
             KeyOf(image, c) # Nothing => KeyOf(image', c) = KeyOf(image, c)]_vars

\* However often a record is sealed again, it says when it was imported.
ImportKept ==
    [][writer' # "loss" =>
          \A c \in Recorded(image) \cap Recorded(image') :
             Imported(image'.records[c]) = Imported(image.records[c])]_vars

\* What is once noted with a record stays with it.
RecordsKept == KeyKept /\ ImportKept

\* What is downloaded as a certificate with its key is such a pair, also when
\* loose keys are in custody.
PairsMatch == delivered # <<>> => Pairs[delivered[1]] = delivered[2]

\* The image is sound, and what leaves it is.
ImageSound == TypeOK /\ ImageOpens /\ PairsMatch
===============================================================================
