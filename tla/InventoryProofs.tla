--------------------------- MODULE InventoryProofs ---------------------------
(***************************************************************************)
(* The saved certificates and the renewal of one of them, proved for any   *)
(* set of certificates, keys, notes and DNS records.                       *)
(*                                                                         *)
(* First the certificates (InventoryRecords): every image that is          *)
(* committed opens, though few writes decode what they commit, keys and    *)
(* imports are kept, and a page changes what it shows.  Each write builds  *)
(* the next image with one of four operators.  A lemma for each says that  *)
(* it leads from images that open to images that open; the proof of a step *)
(* is then which operator it uses.                                         *)
(*                                                                         *)
(* Then the job that renews a saved certificate (RenewalJob): it proposes  *)
(* only what the store accepts, the CA looks at the records when they are  *)
(* in place, and none is left behind by a job that is complete.  What      *)
(* DecideRenewalCycle proposes is looked at once, by cases (Decided); the  *)
(* steps that take a proposal rest on that.                                *)
(***************************************************************************)
EXTENDS InventoryRecords, RenewalJob, FiniteSetTheorems, SequenceTheorems,
        WellFoundedInduction, TLAPS

Partial(S) == UNION {[T -> S] : T \in SUBSET Certs}

RecordType == [owner : Owners \cup {Nothing}, locations : Seq(Locations),
               imported : Nat, sealed : Nat]

MaterialType == [key : Keys \cup {Nothing}, ack : BOOLEAN]

ImageType == [generation : Nat, records : Partial(RecordType), keys : Partial(Keys),
              materials : Partial(MaterialType)]

\* An image of the right shape that decode accepts.
Good(m) == m \in ImageType /\ Opens(m)

\* The page shows what it read: the present image, or one that is older.
Following ==
    /\ uncertain = 0 => durable = image
    /\ uncertain = 0 => shown.generation <= image.generation
    /\ uncertain = 0 /\ shown.generation = image.generation =>
          shown.entries = Listing(image).entries

Rest ==
    /\ shown.generation \in 0 .. MaxGeneration
    /\ writer \in {"created", "page", "other", "import", "loss"}
    /\ delivered \in (Certs \X Keys) \cup {<<>>}
    /\ uncertain \in 0 .. MaxUncertain

IInv == Good(image) /\ Good(durable) /\ Rest /\ PairsMatch /\ Following

----------------------------------------------------------------------------
(* Partial functions                                                       *)

LEMMA PartialFacts ==
    ASSUME NEW S, NEW f \in Partial(S)
    PROVE  /\ DOMAIN f \subseteq Certs
           /\ f \in [DOMAIN f -> S]
BY DEF Partial

LEMMA PartialIntro ==
    ASSUME NEW S, NEW T \in SUBSET Certs, NEW f \in [T -> S]
    PROVE  f \in Partial(S)
BY DEF Partial

LEMMA EmptyPartial == ASSUME NEW S PROVE <<>> \in Partial(S) /\ DOMAIN <<>> = {}
<1>1. <<>> \in [{} -> S] /\ DOMAIN <<>> = {}
    OBVIOUS
<1>2. QED
    BY <1>1, PartialIntro

\* A value added or replaced.
LEMMA WithFacts ==
    ASSUME NEW S, NEW f \in Partial(S), NEW x \in Certs, NEW v \in S
    PROVE  /\ With(f, x, v) \in Partial(S)
           /\ DOMAIN With(f, x, v) = DOMAIN f \cup {x}
           /\ With(f, x, v)[x] = v
           /\ \A y \in DOMAIN f \ {x} : With(f, x, v)[y] = f[y]
<1>1. DOMAIN f \cup {x} \in SUBSET Certs /\ f \in [DOMAIN f -> S]
    BY PartialFacts
<1>2. With(f, x, v) \in [DOMAIN f \cup {x} -> S]
    BY <1>1 DEF With
<1>3. QED
    BY <1>1, <1>2, PartialIntro DEF With

\* A value taken out.
LEMMA WithoutFacts ==
    ASSUME NEW S, NEW f \in Partial(S), NEW x
    PROVE  /\ Without(f, x) \in Partial(S)
           /\ DOMAIN Without(f, x) = DOMAIN f \ {x}
           /\ \A y \in DOMAIN f \ {x} : Without(f, x)[y] = f[y]
<1>1. DOMAIN f \ {x} \in SUBSET Certs /\ f \in [DOMAIN f -> S]
    BY PartialFacts
<1>2. Without(f, x) \in [DOMAIN f \ {x} -> S]
    BY <1>1 DEF Without
<1>3. QED
    BY <1>1, <1>2, PartialIntro DEF Without

----------------------------------------------------------------------------
(* The images that are committed                                           *)

LEMMA ImageFields ==
    ASSUME NEW m \in ImageType
    PROVE  /\ m.generation \in Nat /\ m.records \in Partial(RecordType)
           /\ m.keys \in Partial(Keys) /\ m.materials \in Partial(MaterialType)
           /\ Recorded(m) \subseteq Certs /\ IsFiniteSet(Recorded(m))
           /\ Cardinality(Recorded(m)) \in Nat
           /\ m.records \in [Recorded(m) -> RecordType]
           /\ \A c \in DOMAIN m.keys : m.keys[c] \in Keys
           /\ \A c \in DOMAIN m.materials : m.materials[c] \in MaterialType
<1>1. /\ m.generation \in Nat /\ m.records \in Partial(RecordType)
      /\ m.keys \in Partial(Keys) /\ m.materials \in Partial(MaterialType)
    BY DEF ImageType
<1>2. Recorded(m) \subseteq Certs /\ m.records \in [Recorded(m) -> RecordType]
    BY <1>1, PartialFacts DEF Recorded
<1>3. IsFiniteSet(Recorded(m)) /\ Cardinality(Recorded(m)) \in Nat
    BY <1>2, RecordsAssumption, FS_Subset, FS_CardinalityType
<1>4. \A c \in DOMAIN m.keys : m.keys[c] \in Keys
    BY <1>1, PartialFacts
<1>5. \A c \in DOMAIN m.materials : m.materials[c] \in MaterialType
    BY <1>1, PartialFacts
<1>6. QED
    BY <1>1, <1>2, <1>3, <1>4, <1>5

\* A sealed record stays valid in a later image.
LEMMA RecordLasts ==
    ASSUME NEW m, NEW n, NEW c, m.generation \in Nat, n.generation \in Nat,
           m.generation <= n.generation,
           n.records[c] = m.records[c], m.records[c] \in RecordType, ValidRecord(m, c)
    PROVE  ValidRecord(n, c)
BY DEF ValidRecord, RecordType

\* A batch of new records.
LEMMA AppendedGood ==
    ASSUME NEW m, Good(m), m.generation < MaxGeneration,
           NEW batch \in SUBSET Certs, batch \cap Recorded(m) = {},
           Cardinality(Recorded(m)) + Cardinality(batch) <= MaxRecords,
           NEW owner \in Owners \cup {Nothing}, NEW location \in Locations \cup {Nothing}
    PROVE  LET n == Appended(m, batch, owner, location)
           IN  /\ Good(n) /\ n.generation = m.generation + 1
               /\ Recorded(n) = Recorded(m) \cup batch
               /\ n.keys = m.keys /\ n.materials = m.materials
               /\ \A c \in Recorded(m) : n.records[c] = m.records[c]
<1> DEFINE n == Appended(m, batch, owner, location)
           new == [owner |-> owner, imported |-> 0, sealed |-> m.generation + 1,
                   locations |-> IF location = Nothing THEN <<>> ELSE <<location>>]
           recs == [c \in Recorded(m) \cup batch |->
                       IF c \in Recorded(m) THEN m.records[c] ELSE new]
<1>1. m \in ImageType /\ Opens(m)
    BY DEF Good
<1>2. new \in RecordType
    <2>1. (IF location = Nothing THEN <<>> ELSE <<location>>) \in Seq(Locations)
        OBVIOUS
    <2>2. QED
        BY <1>1, <2>1, ImageFields DEF RecordType
<1>3. recs \in [Recorded(m) \cup batch -> RecordType]
    BY <1>1, <1>2, ImageFields
<1>4. recs \in Partial(RecordType)
    BY <1>1, <1>3, ImageFields, PartialIntro
<1>5. /\ n.generation = m.generation + 1 /\ n.records = recs
      /\ n.keys = m.keys /\ n.materials = m.materials
    BY <1>1 DEF ImageType, Appended
<1>6. n \in ImageType
    <2>1. ASSUME NEW g \in Nat, NEW r \in Partial(RecordType)
          PROVE  [m EXCEPT !.generation = g, !.records = r] \in ImageType
        BY <1>1 DEF ImageType
    <2>2. m.generation + 1 \in Nat
        BY <1>1, ImageFields
    <2>3. n = [m EXCEPT !.generation = m.generation + 1, !.records = recs]
        BY DEF Appended
    <2>4. QED
        BY <1>4, <2>1, <2>2, <2>3
<1>7. Recorded(n) = Recorded(m) \cup batch
    BY <1>3, <1>5 DEF Recorded
<1>8. Cardinality(Recorded(n)) <= MaxRecords
    <2>1. IsFiniteSet(batch)
        BY RecordsAssumption, FS_Subset
    <2>2. Cardinality(Recorded(m) \cup batch)
              = Cardinality(Recorded(m)) + Cardinality(batch) - Cardinality(Recorded(m) \cap batch)
        BY <1>1, <2>1, ImageFields, FS_Union
    <2>3. Cardinality(Recorded(m) \cap batch) = 0
        BY FS_EmptySet
    <2>4. Cardinality(batch) \in Nat /\ Cardinality(Recorded(m)) \in Nat
        BY <1>1, <2>1, ImageFields, FS_CardinalityType
    <2>5. QED
        BY <1>7, <2>2, <2>3, <2>4, RecordsAssumption
<1>9. ASSUME NEW c \in Recorded(n) PROVE ValidRecord(n, c)
    <2>1. CASE c \in Recorded(m)
        BY <1>1, <1>5, <1>7, <2>1, ImageFields, RecordLasts DEF Opens
    <2>2. CASE c \notin Recorded(m)
        <3>1. n.records[c] = new /\ n.generation = m.generation + 1
            BY <1>5, <1>7, <2>2
        <3>2. m.generation \in Nat /\ m.generation >= 1
            BY <1>1, RecordsAssumption DEF Opens
        <3>3. Len(new.locations) <= MaxLocations /\ IsInjective(new.locations)
            BY RecordsAssumption DEF IsInjective
        <3>4. QED
            BY <3>1, <3>2, <3>3 DEF ValidRecord
    <2>3. QED
        BY <2>1, <2>2
<1>10. ValidKeys(n)
    BY <1>1, <1>5, <1>7 DEF Opens, ValidKeys
<1>11. n.generation \in 1 .. MaxGeneration
    BY <1>1, <1>5, RecordsAssumption DEF Opens
<1>12. \A c \in Recorded(m) : n.records[c] = m.records[c]
    BY <1>5
<1>13. QED
    BY <1>5, <1>6, <1>7, <1>8, <1>9, <1>10, <1>11, <1>12 DEF Good, Opens

\* Material for a record that has no key yet.
LEMMA MaterialGood ==
    ASSUME NEW m, Good(m), NEW n \in ImageType,
           n.generation \in m.generation .. MaxGeneration,
           n.records = m.records, n.keys = m.keys,
           NEW c \in Recorded(m), c \notin DOMAIN m.keys,
           NEW given \in Keys \cup {Nothing}, NEW ack \in BOOLEAN, KeyAccepted(c, given, ack),
           n.materials = With(m.materials, c, Sealed(given, ack))
    PROVE  /\ Good(n) /\ Recorded(n) = Recorded(m)
           /\ \A d \in Recorded(m) \ {c} : KeyOf(n, d) = KeyOf(m, d)
<1>1. m \in ImageType /\ Opens(m)
    BY DEF Good
<1>2. Sealed(given, ack) \in MaterialType
    BY DEF Sealed, MaterialType
<1>3. c \in Certs
    BY <1>1, ImageFields
<1>4. /\ DOMAIN n.materials = DOMAIN m.materials \cup {c}
      /\ n.materials[c] = Sealed(given, ack)
      /\ \A d \in DOMAIN m.materials \ {c} : n.materials[d] = m.materials[d]
    BY DEF With
<1>5. Recorded(n) = Recorded(m)
    BY DEF Recorded
<1>6. ASSUME NEW d \in Recorded(n) PROVE ValidRecord(n, d)
    <2>1. ValidRecord(m, d) /\ m.records[d] \in RecordType
        BY <1>1, <1>5, ImageFields DEF Opens
    <2>2. m.generation \in Nat /\ n.generation \in Nat /\ m.generation <= n.generation
        BY <1>1, ImageFields
    <2>3. QED
        BY <2>1, <2>2, RecordLasts
<1>7. ValidKeys(n)
    <2>1. ValidKeys(m)
        BY <1>1 DEF Opens
    <2>2. DOMAIN n.keys \cup DOMAIN n.materials \subseteq Recorded(n)
        BY <1>4, <1>5, <2>1 DEF ValidKeys
    <2>3. DOMAIN n.keys \cap DOMAIN n.materials = {}
        BY <1>4, <2>1 DEF ValidKeys
    <2>4. ASSUME NEW d \in DOMAIN n.materials
          PROVE  /\ n.materials[d].ack = (Status(d, n.materials[d].key) = "mismatch")
                 /\ d \in Authorities => n.materials[d].key = Nothing
        <3>1. CASE d = c
            BY <1>4, <3>1 DEF KeyAccepted, Sealed
        <3>2. CASE d # c
            BY <1>4, <2>1, <3>2 DEF ValidKeys
        <3>3. QED
            BY <3>1, <3>2
    <2>5. QED
        BY <2>1, <2>2, <2>3, <2>4 DEF ValidKeys
<1>8. n.generation \in 1 .. MaxGeneration
    BY <1>1, RecordsAssumption DEF Opens
<1>9. ASSUME NEW d \in Recorded(m) \ {c} PROVE KeyOf(n, d) = KeyOf(m, d)
    BY <1>4 DEF KeyOf
<1>10. QED
    BY <1>1, <1>5, <1>6, <1>7, <1>8, <1>9 DEF Good, Opens

\* A record with other notes.
LEMMA ResealedGood ==
    ASSUME NEW m, Good(m), m.generation < MaxGeneration, NEW c \in Recorded(m),
           NEW r \in RecordType, Len(r.locations) <= MaxLocations, IsInjective(r.locations)
    PROVE  LET n == Resealed(m, c, r)
           IN  /\ Good(n) /\ n.generation = m.generation + 1 /\ Recorded(n) = Recorded(m)
               /\ n.keys = m.keys /\ n.materials = m.materials
               /\ \A d \in Recorded(m) : Imported(n.records[d]) = Imported(m.records[d])
<1> DEFINE n == Resealed(m, c, r)
           rec == [r EXCEPT !.imported = Imported(m.records[c]), !.sealed = m.generation + 1]
<1>1. m \in ImageType /\ Opens(m)
    BY DEF Good
<1>2. /\ m.generation \in Nat /\ m.generation >= 1
      /\ m.records \in [Recorded(m) -> RecordType] /\ Recorded(m) \subseteq Certs
    BY <1>1, ImageFields, RecordsAssumption DEF Opens
<1>3. /\ Imported(m.records[c]) \in 2 .. m.generation /\ m.records[c] \in RecordType
    <2>1. m.records[c] \in RecordType /\ ValidRecord(m, c)
        BY <1>1, <1>2 DEF Opens
    <2>2. QED
        BY <1>2, <2>1 DEF ValidRecord, Imported, RecordType
<1>4. /\ rec \in RecordType /\ rec.locations = r.locations
      /\ rec.imported = Imported(m.records[c]) /\ rec.sealed = m.generation + 1
    <2>1. Imported(m.records[c]) \in Nat /\ m.generation + 1 \in Nat
        BY <1>2, <1>3
    <2>2. ASSUME NEW i \in Nat, NEW s \in Nat
          PROVE  LET q == [r EXCEPT !.imported = i, !.sealed = s]
                 IN  q \in RecordType /\ q.locations = r.locations /\ q.imported = i /\ q.sealed = s
        BY DEF RecordType
    <2>3. QED
        BY <2>1, <2>2
<1>5. /\ n.generation = m.generation + 1 /\ n.records = [m.records EXCEPT ![c] = rec]
      /\ n.keys = m.keys /\ n.materials = m.materials
    BY <1>1 DEF ImageType, Resealed
<1> HIDE DEF rec
<1>6. [m.records EXCEPT ![c] = rec] \in [Recorded(m) -> RecordType]
    BY <1>2, <1>4
<1>7. n \in ImageType
    <2>1. ASSUME NEW g \in Nat, NEW q \in Partial(RecordType)
          PROVE  [m EXCEPT !.generation = g, !.records = q] \in ImageType
        BY <1>1 DEF ImageType
    <2>2. m.generation + 1 \in Nat
        BY <1>2
    <2>3. [m.records EXCEPT ![c] = rec] \in Partial(RecordType)
        BY <1>2, <1>6, PartialIntro
    <2>4. n = [m EXCEPT !.generation = m.generation + 1, !.records = [m.records EXCEPT ![c] = rec]]
        BY DEF Resealed, rec
    <2>5. QED
        BY <2>1, <2>2, <2>3, <2>4
<1> HIDE DEF n
<1>8. /\ Recorded(n) = Recorded(m) /\ n.records[c] = rec
      /\ \A d \in Recorded(m) \ {c} : n.records[d] = m.records[d]
    BY <1>2, <1>5, <1>6 DEF Recorded
<1>9. ASSUME NEW d \in Recorded(n) PROVE ValidRecord(n, d)
    <2>1. CASE d = c
        BY <1>2, <1>3, <1>4, <1>5, <1>8, <2>1 DEF ValidRecord
    <2>2. CASE d # c
        <3>1. m.records[d] \in RecordType /\ ValidRecord(m, d) /\ n.records[d] = m.records[d]
            BY <1>1, <1>2, <1>8, <2>2 DEF Opens
        <3>2. QED
            <4>1. n.generation \in Nat /\ m.generation <= n.generation
                BY <1>2, <1>5
            <4>2. QED
                BY <1>2, <3>1, <4>1, RecordLasts
    <2>3. QED
        BY <2>1, <2>2
<1>10. ValidKeys(n)
    BY <1>1, <1>5, <1>8 DEF Opens, ValidKeys
<1>11. n.generation \in 1 .. MaxGeneration
    BY <1>2, <1>5, RecordsAssumption
<1>12. ASSUME NEW d \in Recorded(m) PROVE Imported(n.records[d]) = Imported(m.records[d])
    <2>1. CASE d = c
        BY <1>2, <1>3, <1>4, <1>8, <2>1 DEF Imported
    <2>2. CASE d # c
        BY <1>8, <2>2
    <2>3. QED
        BY <2>1, <2>2
<1>13. Good(n)
    BY <1>1, <1>7, <1>8, <1>9, <1>10, <1>11 DEF Good, Opens
<1>14. QED
    BY <1>5, <1>8, <1>12, <1>13 DEF n

\* A record taken out with everything that belongs to it.
LEMMA DroppedGood ==
    ASSUME NEW m, Good(m), m.generation < MaxGeneration, NEW c \in Recorded(m)
    PROVE  LET n == Dropped(m, c)
           IN  /\ Good(n) /\ n.generation = m.generation + 1 /\ Recorded(n) = Recorded(m) \ {c}
               /\ \A d \in Recorded(n) : /\ KeyOf(n, d) = KeyOf(m, d)
                                      /\ n.records[d] = m.records[d]
<1> DEFINE n == Dropped(m, c)
<1>1. m \in ImageType /\ Opens(m)
    BY DEF Good
<1>2. /\ m.generation \in Nat /\ m.generation >= 1 /\ m.records \in Partial(RecordType)
      /\ m.keys \in Partial(Keys) /\ m.materials \in Partial(MaterialType)
    BY <1>1, ImageFields, RecordsAssumption DEF Opens
<1>3. /\ n.generation = m.generation + 1 /\ n.records = Without(m.records, c)
      /\ n.keys = Without(m.keys, c) /\ n.materials = Without(m.materials, c)
    BY <1>1 DEF ImageType, Dropped
<1>4. n \in ImageType
    <2>1. ASSUME NEW g \in Nat, NEW q \in Partial(RecordType), NEW k \in Partial(Keys),
                 NEW t \in Partial(MaterialType)
          PROVE  [m EXCEPT !.generation = g, !.records = q, !.keys = k, !.materials = t]
                     \in ImageType
        BY <1>1 DEF ImageType
    <2>2. /\ m.generation + 1 \in Nat /\ Without(m.records, c) \in Partial(RecordType)
          /\ Without(m.keys, c) \in Partial(Keys)
          /\ Without(m.materials, c) \in Partial(MaterialType)
        <3>1. Without(m.records, c) \in Partial(RecordType)
            BY <1>2, WithoutFacts
        <3>2. Without(m.keys, c) \in Partial(Keys)
            BY <1>2, WithoutFacts
        <3>3. Without(m.materials, c) \in Partial(MaterialType)
            BY <1>2, WithoutFacts
        <3>4. QED
            BY <1>2, <3>1, <3>2, <3>3
    <2>3. n = [m EXCEPT !.generation = m.generation + 1, !.records = Without(m.records, c),
                        !.keys = Without(m.keys, c), !.materials = Without(m.materials, c)]
        BY DEF Dropped
    <2>4. [m EXCEPT !.generation = m.generation + 1, !.records = Without(m.records, c),
                    !.keys = Without(m.keys, c), !.materials = Without(m.materials, c)]
              \in ImageType
        BY <2>1, <2>2, Zenon
    <2>5. QED
        BY <2>3, <2>4
<1> HIDE DEF n
<1>5. /\ DOMAIN n.keys = DOMAIN m.keys \ {c} /\ DOMAIN n.materials = DOMAIN m.materials \ {c}
      /\ Recorded(n) = Recorded(m) \ {c}
      /\ \A d \in Recorded(n) : n.records[d] = m.records[d]
      /\ \A d \in DOMAIN n.keys : n.keys[d] = m.keys[d]
      /\ \A d \in DOMAIN n.materials : n.materials[d] = m.materials[d]
    <2>1. /\ DOMAIN n.records = DOMAIN m.records \ {c}
          /\ \A d \in DOMAIN n.records : n.records[d] = m.records[d]
        <3>1. /\ DOMAIN Without(m.records, c) = DOMAIN m.records \ {c}
              /\ \A d \in DOMAIN m.records \ {c} : Without(m.records, c)[d] = m.records[d]
            BY DEF Without
        <3>2. QED
            BY <1>3, <3>1
    <2>2. /\ DOMAIN n.keys = DOMAIN m.keys \ {c}
          /\ \A d \in DOMAIN n.keys : n.keys[d] = m.keys[d]
        <3>1. /\ DOMAIN Without(m.keys, c) = DOMAIN m.keys \ {c}
              /\ \A d \in DOMAIN m.keys \ {c} : Without(m.keys, c)[d] = m.keys[d]
            BY DEF Without
        <3>2. QED
            BY <1>3, <3>1
    <2>3. /\ DOMAIN n.materials = DOMAIN m.materials \ {c}
          /\ \A d \in DOMAIN n.materials : n.materials[d] = m.materials[d]
        <3>1. /\ DOMAIN Without(m.materials, c) = DOMAIN m.materials \ {c}
              /\ \A d \in DOMAIN m.materials \ {c} : Without(m.materials, c)[d] = m.materials[d]
            BY DEF Without
        <3>2. QED
            BY <1>3, <3>1
    <2>4. QED
        BY <2>1, <2>2, <2>3 DEF Recorded
<1>6. Cardinality(Recorded(n)) <= MaxRecords
    <2>1. /\ Cardinality(Recorded(m)) \in Nat /\ IsFiniteSet(Recorded(m))
          /\ Cardinality(Recorded(m)) <= MaxRecords
        BY <1>1, ImageFields DEF Opens
    <2>2. Cardinality(Recorded(m) \ {c}) = Cardinality(Recorded(m)) - 1
        BY <2>1, FS_RemoveElement
    <2>3. QED
        BY <1>5, <2>1, <2>2, RecordsAssumption
<1>7. ASSUME NEW d \in Recorded(n) PROVE ValidRecord(n, d)
    <2>1. m.records[d] \in RecordType /\ ValidRecord(m, d) /\ n.records[d] = m.records[d]
        BY <1>1, <1>5, ImageFields DEF Opens
    <2>2. QED
        BY <1>2, <1>3, <2>1, RecordLasts
<1>8. ValidKeys(n)
    BY <1>1, <1>5 DEF Opens, ValidKeys
<1>9. n.generation \in 1 .. MaxGeneration
    BY <1>2, <1>3, RecordsAssumption
<1>10. ASSUME NEW d \in Recorded(n) PROVE KeyOf(n, d) = KeyOf(m, d)
    BY <1>5 DEF KeyOf
<1>11. QED
    BY <1>3, <1>4, <1>5, <1>6, <1>7, <1>8, <1>9, <1>10 DEF n, Good, Opens

----------------------------------------------------------------------------
(* The notes of a record                                                   *)

\* Notes decode accepts.
GoodNotes(s) == s \in Seq(Locations) /\ Len(s) <= MaxLocations /\ IsInjective(s)

LEMMA AppendNotes ==
    ASSUME NEW s, GoodNotes(s), NEW l \in Locations, ~Contains(s, l), Len(s) < MaxLocations
    PROVE  GoodNotes(Append(s, l))
<1> DEFINE t == Append(s, l)
<1>1. s \in Seq(Locations) /\ IsInjective(s) /\ Len(s) \in Nat /\ DOMAIN s = 1 .. Len(s)
    BY DEF GoodNotes
<1>2. /\ t \in Seq(Locations) /\ Len(t) = Len(s) + 1 /\ t[Len(s) + 1] = l
      /\ \A i \in 1 .. Len(s) : t[i] = s[i]
    BY <1>1, AppendProperties
<1> HIDE DEF t
<1>3. DOMAIN t = 1 .. Len(s) + 1
    BY <1>2
<1>4. \A i \in 1 .. Len(s) : s[i] # l
    BY DEF Contains
<1>5. ASSUME NEW a \in DOMAIN t, NEW b \in DOMAIN t, t[a] = t[b] PROVE a = b
    <2>1. CASE a \in 1 .. Len(s) /\ b \in 1 .. Len(s)
        BY <1>1, <1>2, <1>5, <2>1 DEF IsInjective
    <2>2. CASE a = Len(s) + 1 \/ b = Len(s) + 1
        BY <1>1, <1>2, <1>3, <1>4, <1>5, <2>2
    <2>3. QED
        BY <1>1, <1>3, <1>5, <2>1, <2>2
<1>6. Len(t) <= MaxLocations
    BY <1>1, <1>2, RecordsAssumption
<1>7. QED
    BY <1>2, <1>5, <1>6 DEF GoodNotes, IsInjective, t

LEMMA ReplaceNotes ==
    ASSUME NEW s, GoodNotes(s), NEW old \in Locations, NEW new \in Locations, ~Contains(s, new)
    PROVE  GoodNotes(ReplaceAll(s, old, new))
<1> DEFINE t == ReplaceAll(s, old, new)
<1>1. s \in Seq(Locations) /\ IsInjective(s) /\ Len(s) \in Nat /\ DOMAIN s = 1 .. Len(s)
    BY DEF GoodNotes
<1>2. \A i \in 1 .. Len(s) : s[i] \in Locations /\ s[i] # new
    BY <1>1 DEF Contains
<1>3. t = [i \in 1 .. Len(s) |-> IF s[i] = old THEN new ELSE s[i]]
    BY DEF ReplaceAll
<1> HIDE DEF t
<1>4. /\ t \in [1 .. Len(s) -> Locations] /\ DOMAIN t = 1 .. Len(s)
      /\ \A i \in 1 .. Len(s) : t[i] = IF s[i] = old THEN new ELSE s[i]
    BY <1>2, <1>3
<1>5. t \in Seq(Locations) /\ Len(t) = Len(s)
    BY <1>1, <1>4, IsASeq
<1>6. ASSUME NEW a \in DOMAIN t, NEW b \in DOMAIN t, t[a] = t[b] PROVE a = b
    BY <1>1, <1>2, <1>4, <1>6 DEF IsInjective
<1>7. QED
    BY <1>5, <1>6 DEF GoodNotes, IsInjective, t

LEMMA RemoveNotes ==
    ASSUME NEW s, GoodNotes(s), NEW i \in DOMAIN s
    PROVE  GoodNotes(RemoveAt(s, i))
<1> DEFINE u == SubSeq(s, 1, i - 1)
           v == SubSeq(s, i + 1, Len(s))
           t == u \o v
<1>1. /\ s \in Seq(Locations) /\ IsInjective(s) /\ Len(s) \in Nat /\ DOMAIN s = 1 .. Len(s)
      /\ i \in 1 .. Len(s)
    BY DEF GoodNotes
<1>2. /\ u \in Seq(Locations) /\ Len(u) = i - 1
      /\ \A j \in 1 .. i - 1 : u[j] = s[j]
    <2>1. \A j \in 1 .. i - 1 : s[j] \in Locations
        BY <1>1
    <2>2. 1 \in Int /\ i - 1 \in Int
        BY <1>1
    <2>3. /\ u \in Seq(Locations) /\ Len(u) = IF 1 <= i - 1 THEN (i - 1) - 1 + 1 ELSE 0
          /\ \A j \in 1 .. (i - 1) - 1 + 1 : u[j] = s[1 + j - 1]
        BY <2>1, <2>2, SubSeqProperties
    <2> HIDE DEF u
    <2>4. QED
        BY <1>1, <2>3
<1>3. /\ v \in Seq(Locations) /\ Len(v) = Len(s) - i
      /\ \A j \in 1 .. Len(s) - i : v[j] = s[i + j]
    <2>1. \A j \in i + 1 .. Len(s) : s[j] \in Locations
        BY <1>1
    <2>2. i + 1 \in Int /\ Len(s) \in Int
        BY <1>1
    <2>3. /\ v \in Seq(Locations)
          /\ Len(v) = IF i + 1 <= Len(s) THEN Len(s) - (i + 1) + 1 ELSE 0
          /\ \A j \in 1 .. Len(s) - (i + 1) + 1 : v[j] = s[(i + 1) + j - 1]
        BY <2>1, <2>2, SubSeqProperties
    <2> HIDE DEF v
    <2>4. Len(v) = Len(s) - i
        BY <1>1, <2>3
    <2>5. ASSUME NEW j \in 1 .. Len(s) - i PROVE v[j] = s[i + j]
        <3>1. j \in 1 .. Len(s) - (i + 1) + 1 /\ (i + 1) + j - 1 = i + j
            BY <1>1
        <3>2. v[j] = s[(i + 1) + j - 1]
            BY <2>3, <3>1
        <3>3. QED
            BY <3>1, <3>2
    <2>6. QED
        BY <2>3, <2>4, <2>5
<1> HIDE DEF u, v
<1>4. /\ t \in Seq(Locations) /\ Len(t) = Len(u) + Len(v)
      /\ \A j \in 1 .. Len(u) + Len(v) :
            t[j] = IF j <= Len(u) THEN u[j] ELSE v[j - Len(u)]
    BY <1>2, <1>3, ConcatProperties
<1> HIDE DEF t
<1>5. /\ Len(t) = Len(s) - 1 /\ DOMAIN t = 1 .. Len(s) - 1
      /\ \A j \in 1 .. Len(s) - 1 : t[j] = IF j < i THEN s[j] ELSE s[j + 1]
    <2>1. Len(t) = Len(s) - 1 /\ DOMAIN t = 1 .. Len(s) - 1
        BY <1>1, <1>2, <1>3, <1>4
    <2>2. ASSUME NEW j \in 1 .. Len(s) - 1 PROVE t[j] = IF j < i THEN s[j] ELSE s[j + 1]
        <3>1. CASE j < i
            BY <1>1, <1>2, <1>3, <1>4, <3>1
        <3>2. CASE ~(j < i)
            <4>1. t[j] = v[j - (i - 1)] /\ j - (i - 1) \in 1 .. Len(s) - i
                BY <1>1, <1>2, <1>3, <1>4, <3>2
            <4>2. v[j - (i - 1)] = s[i + (j - (i - 1))] /\ i + (j - (i - 1)) = j + 1
                BY <1>1, <1>3, <4>1
            <4>3. QED
                BY <3>2, <4>1, <4>2
        <3>3. QED
            BY <3>1, <3>2
    <2>3. QED
        BY <2>1, <2>2
<1>6. ASSUME NEW a \in DOMAIN t, NEW b \in DOMAIN t, t[a] = t[b] PROVE a = b
    <2>1. a \in 1 .. Len(s) - 1 /\ b \in 1 .. Len(s) - 1
        BY <1>5
    <2>2. \A x, y \in 1 .. Len(s) : s[x] = s[y] => x = y
        BY <1>1 DEF IsInjective
    <2>3. t[a] = s[IF a < i THEN a ELSE a + 1] /\ t[b] = s[IF b < i THEN b ELSE b + 1]
        BY <1>5, <2>1
    <2>4. /\ (IF a < i THEN a ELSE a + 1) \in 1 .. Len(s)
          /\ (IF b < i THEN b ELSE b + 1) \in 1 .. Len(s)
        BY <1>1, <2>1
    <2>5. (IF a < i THEN a ELSE a + 1) = (IF b < i THEN b ELSE b + 1)
        BY <1>6, <2>2, <2>3, <2>4
    <2>6. QED
        BY <1>1, <2>1, <2>5
<1>7. Len(t) <= MaxLocations
    BY <1>1, <1>5, RecordsAssumption DEF GoodNotes
<1>8. t = RemoveAt(s, i)
    BY DEF RemoveAt, t, u, v
<1>9. QED
    BY <1>4, <1>6, <1>7, <1>8 DEF GoodNotes, IsInjective

----------------------------------------------------------------------------
(* The writes                                                              *)

\* What is once noted stays.
Keeps(m, n) ==
    \A c \in Recorded(m) \cap Recorded(n) :
        /\ KeyOf(m, c) # Nothing => KeyOf(n, c) = KeyOf(m, c)
        /\ Imported(n.records[c]) = Imported(m.records[c])

Commits(n, who) ==
    /\ Good(n) /\ n.generation = image.generation + 1 /\ Keeps(image, n)
    /\ who \in {"page", "other", "import"} /\ Expects(who)
    /\ Replace(n, who)

\* Some write.
Write == \E n, who : Commits(n, who)

LEMMA AppendInventoryWrites ==
    ASSUME Good(image), NEW batch \in SUBSET Certs, NEW o \in Owners \cup {Nothing},
           NEW l \in Locations \cup {Nothing}, AppendInventory(batch, o, l)
    PROVE  Write
<1> DEFINE n == Appended(image, batch, o, l)
<1>1. /\ Good(n) /\ n.generation = image.generation + 1
      /\ Recorded(n) = Recorded(image) \cup batch
      /\ n.keys = image.keys /\ n.materials = image.materials
      /\ \A c \in Recorded(image) : n.records[c] = image.records[c]
    BY AppendedGood DEF AppendInventory, Addable, Room
<1>2. Replace(n, "import")
    BY DEF AppendInventory
<1> HIDE DEF n
<1>3. Keeps(image, n)
    BY <1>1 DEF Keeps, KeyOf
<1>4. Expects("import")
    BY DEF Expects
<1>5. Commits(n, "import")
    BY <1>1, <1>2, <1>3, <1>4 DEF Commits
<1>6. QED
    BY <1>5 DEF Write

LEMMA AppendMaterialWrites ==
    ASSUME Good(image), NEW who \in {"page", "other"}, NEW c \in Certs,
           NEW given \in Keys \cup {Nothing}, NEW ack \in BOOLEAN,
           NEW o \in Owners \cup {Nothing}, NEW l \in Locations \cup {Nothing},
           AppendMaterial(who, c, given, ack, o, l)
    PROVE  Write
<1> DEFINE batch == {c}
           m == Appended(image, batch, o, l)
           n == [m EXCEPT !.materials = With(@, c, Sealed(given, ack))]
<1>1. /\ Good(m) /\ m.generation = image.generation + 1
      /\ Recorded(m) = Recorded(image) \cup {c} /\ c \notin Recorded(image)
      /\ m.keys = image.keys /\ m.materials = image.materials
      /\ \A d \in Recorded(image) : m.records[d] = image.records[d]
    <2>1. /\ batch \in SUBSET Certs /\ batch \cap Recorded(image) = {}
          /\ Cardinality(Recorded(image)) + Cardinality(batch) <= MaxRecords
          /\ image.generation < MaxGeneration
        BY DEF AppendMaterial, Addable, Room
    <2>2. c \notin Recorded(image)
        BY <2>1
    <2> HIDE DEF batch
    <2>3. /\ Good(m) /\ m.generation = image.generation + 1
          /\ Recorded(m) = Recorded(image) \cup batch
          /\ m.keys = image.keys /\ m.materials = image.materials
          /\ \A d \in Recorded(image) : m.records[d] = image.records[d]
        BY <2>1, AppendedGood
    <2>4. QED
        BY <2>2, <2>3 DEF batch
<1>2. Replace(n, who) /\ Expects(who) /\ KeyAccepted(c, given, ack)
    BY DEF AppendMaterial
<1> HIDE DEF m
<1>3. m \in ImageType /\ With(m.materials, c, Sealed(given, ack)) \in Partial(MaterialType)
    <2>1. m \in ImageType
        BY <1>1 DEF Good
    <2>2. Sealed(given, ack) \in MaterialType
        BY DEF Sealed, MaterialType
    <2>3. QED
        BY <2>1, <2>2, ImageFields, WithFacts
<1>4. /\ n \in ImageType /\ n.generation = m.generation /\ n.records = m.records
      /\ n.keys = m.keys /\ n.materials = With(m.materials, c, Sealed(given, ack))
    BY <1>3 DEF ImageType
<1> HIDE DEF n
<1>5. c \notin DOMAIN m.keys
    BY <1>1 DEF Good, Opens, ValidKeys
<1>6. n.generation \in m.generation .. MaxGeneration
    BY <1>1, <1>4, RecordsAssumption DEF Good, Opens
<1>7. /\ Good(n) /\ Recorded(n) = Recorded(m)
      /\ \A d \in Recorded(m) \ {c} : KeyOf(n, d) = KeyOf(m, d)
    BY <1>1, <1>2, <1>4, <1>5, <1>6, MaterialGood
<1>8. \A d \in Recorded(image) : KeyOf(m, d) = KeyOf(image, d)
    BY <1>1 DEF KeyOf
<1>9. Keeps(image, n)
    BY <1>1, <1>4, <1>7, <1>8 DEF Keeps
<1>10. Commits(n, who)
    BY <1>1, <1>2, <1>4, <1>7, <1>9 DEF Commits
<1>11. QED
    BY <1>10 DEF Write

LEMMA AttachKeyWrites ==
    ASSUME Good(image), NEW who \in {"page", "other"}, NEW c \in Certs,
           NEW given \in Keys, NEW ack \in BOOLEAN, AttachKey(who, c, given, ack)
    PROVE  Write
<1> DEFINE n == Attached(image, c, given, ack)
<1>1. /\ Replace(n, who) /\ Expects(who) /\ KeyAccepted(c, given, ack)
      /\ c \in Recorded(image) /\ Keyless(c) /\ image.generation < MaxGeneration
    BY DEF AttachKey, Room
<1>2. /\ image \in ImageType /\ Opens(image) /\ image.generation + 1 \in Nat
      /\ With(image.materials, c, Sealed(given, ack)) \in Partial(MaterialType)
    <2>1. image \in ImageType /\ Opens(image)
        BY DEF Good
    <2>2. Sealed(given, ack) \in MaterialType
        BY DEF Sealed, MaterialType
    <2>3. image.materials \in Partial(MaterialType) /\ image.generation + 1 \in Nat
        BY <2>1, ImageFields
    <2>4. With(image.materials, c, Sealed(given, ack)) \in Partial(MaterialType)
        BY <2>2, <2>3, WithFacts
    <2>5. QED
        BY <2>1, <2>3, <2>4
<1>3. /\ n \in ImageType /\ n.generation = image.generation + 1 /\ n.records = image.records
      /\ n.keys = image.keys /\ n.materials = With(image.materials, c, Sealed(given, ack))
    BY <1>2 DEF ImageType, Attached
<1> HIDE DEF n
<1>4. c \notin DOMAIN image.keys
    <2>1. SUFFICES ASSUME c \in DOMAIN image.keys PROVE FALSE
        OBVIOUS
    <2>2. c \notin DOMAIN image.materials /\ image.keys[c] \in Keys
        BY <1>2, <2>1, ImageFields DEF Opens, ValidKeys
    <2>3. QED
        BY <1>1, <2>1, <2>2, RecordsAssumption DEF Keyless, KeyOf
<1>5. n.generation \in image.generation .. MaxGeneration
    BY <1>1, <1>2, <1>3, ImageFields, RecordsAssumption
<1>6. /\ Good(n) /\ Recorded(n) = Recorded(image)
      /\ \A d \in Recorded(image) \ {c} : KeyOf(n, d) = KeyOf(image, d)
    BY <1>1, <1>3, <1>4, <1>5, MaterialGood
<1>7. Keeps(image, n)
    BY <1>1, <1>3, <1>6 DEF Keeps, Keyless
<1>8. Commits(n, who)
    BY <1>1, <1>3, <1>6, <1>7 DEF Commits
<1>9. QED
    BY <1>8 DEF Write

LEMMA ChangeWrites ==
    ASSUME Good(image), NEW who \in {"page", "other"}, NEW c, NEW r \in RecordType,
           GoodNotes(r.locations), Change(who, c, r)
    PROVE  Write
<1> DEFINE n == Resealed(image, c, r)
<1>1. /\ Replace(n, who) /\ Expects(who) /\ c \in Recorded(image)
      /\ image.generation < MaxGeneration
    BY DEF Change, Room
<1>2. /\ Good(n) /\ n.generation = image.generation + 1 /\ Recorded(n) = Recorded(image)
      /\ n.keys = image.keys /\ n.materials = image.materials
      /\ \A d \in Recorded(image) : Imported(n.records[d]) = Imported(image.records[d])
    BY <1>1, ResealedGood DEF GoodNotes
<1> HIDE DEF n
<1>3. Keeps(image, n)
    BY <1>2 DEF Keeps, KeyOf
<1>4. Commits(n, who)
    BY <1>1, <1>2, <1>3 DEF Commits
<1>5. QED
    BY <1>4 DEF Write

LEMMA DeleteRecordWrites ==
    ASSUME Good(image), NEW who \in {"page", "other"}, NEW c, DeleteRecord(who, c)
    PROVE  Write
<1> DEFINE n == Dropped(image, c)
<1>1. /\ Replace(n, who) /\ Expects(who) /\ c \in Recorded(image)
      /\ image.generation < MaxGeneration
    BY DEF DeleteRecord, Room
<1>2. /\ Good(n) /\ n.generation = image.generation + 1
      /\ \A d \in Recorded(n) : KeyOf(n, d) = KeyOf(image, d) /\ n.records[d] = image.records[d]
    BY <1>1, DroppedGood
<1> HIDE DEF n
<1>3. Keeps(image, n)
    BY <1>2 DEF Keeps
<1>4. Commits(n, who)
    BY <1>1, <1>2, <1>3 DEF Commits
<1>5. QED
    BY <1>4 DEF Write

\* The record as it is, and its notes as decode accepts them.
LEMMA SavedRecord ==
    ASSUME Good(image), NEW c \in Recorded(image)
    PROVE  image.records[c] \in RecordType /\ GoodNotes(Notes(c))
<1>1. image \in ImageType /\ Opens(image)
    BY DEF Good
<1>2. image.records[c] \in RecordType /\ ValidRecord(image, c)
    BY <1>1, ImageFields DEF Opens
<1>3. QED
    BY <1>2 DEF ValidRecord, GoodNotes, Notes, RecordType

\* A record with another list of notes.
LEMMA NotesWrite ==
    ASSUME Good(image), NEW who \in {"page", "other"}, NEW c \in Recorded(image),
           NEW s, GoodNotes(s), Change(who, c, [image.records[c] EXCEPT !.locations = s])
    PROVE  Write
<1> DEFINE r == [image.records[c] EXCEPT !.locations = s]
<1>1. r \in RecordType /\ r.locations = s
    BY SavedRecord DEF RecordType, GoodNotes
<1> HIDE DEF r
<1>2. Change(who, c, r)
    BY DEF r
<1>3. QED
    BY <1>1, <1>2, ChangeWrites

LEMMA AssociateLocationWrites ==
    ASSUME Good(image), NEW who \in {"page", "other"}, NEW c \in Certs,
           NEW l \in Locations, AssociateLocation(who, c, l)
    PROVE  Write
<1>1. /\ c \in Recorded(image) /\ ~Contains(Notes(c), l) /\ Len(Notes(c)) < MaxLocations
    BY DEF AssociateLocation, Associable
<1>2. GoodNotes(Append(Notes(c), l))
    BY <1>1, SavedRecord, AppendNotes
<1>3. Change(who, c, [image.records[c] EXCEPT !.locations = Append(Notes(c), l)])
    BY DEF AssociateLocation, Notes
<1>4. QED
    BY <1>1, <1>2, <1>3, NotesWrite

LEMMA UpdateOwnerWrites ==
    ASSUME Good(image), NEW who \in {"page", "other"}, NEW c \in Certs,
           NEW o \in Owners \cup {Nothing}, UpdateOwner(who, c, o)
    PROVE  Write
<1> DEFINE r == [image.records[c] EXCEPT !.owner = o]
<1>1. c \in Recorded(image) /\ Change(who, c, r)
    BY DEF UpdateOwner, OwnerChanges
<1>2. image.records[c] \in RecordType /\ GoodNotes(Notes(c))
    BY <1>1, SavedRecord
<1>3. r \in RecordType /\ r.locations = Notes(c)
    BY <1>2 DEF RecordType, Notes
<1> HIDE DEF r
<1>4. QED
    BY <1>1, <1>2, <1>3, ChangeWrites

LEMMA ChangeLocationWrites ==
    ASSUME Good(image), NEW who \in {"page", "other"}, NEW c \in Certs,
           ChangeLocation(who, c)
    PROVE  Write
<1>1. c \in Recorded(image) /\ GoodNotes(Notes(c))
    BY SavedRecord DEF ChangeLocation
<1>2. PICK old \in Locations :
          RemoveLocation(who, c, old) \/ \E new \in Locations : RenameLocation(who, c, old, new)
    BY DEF ChangeLocation
<1>3. CASE RemoveLocation(who, c, old)
    <2>1. PICK i \in DOMAIN Notes(c) :
              Change(who, c, [image.records[c] EXCEPT !.locations = RemoveAt(@, i)])
        BY <1>3 DEF RemoveLocation
    <2>2. Change(who, c, [image.records[c] EXCEPT !.locations = RemoveAt(Notes(c), i)])
        BY <2>1 DEF Notes
    <2>3. GoodNotes(RemoveAt(Notes(c), i))
        BY <1>1, RemoveNotes
    <2>4. QED
        BY <1>1, <2>2, <2>3, NotesWrite
<1>4. CASE \E new \in Locations : RenameLocation(who, c, old, new)
    <2>1. PICK new \in Locations : RenameLocation(who, c, old, new)
        BY <1>4
    <2>2. /\ ~Contains(Notes(c), new)
          /\ Change(who, c, [image.records[c] EXCEPT !.locations = ReplaceAll(Notes(c), old, new)])
        BY <2>1 DEF RenameLocation, Renamable, Notes
    <2>3. GoodNotes(ReplaceAll(Notes(c), old, new))
        BY <1>1, <2>2, ReplaceNotes
    <2>4. QED
        BY <1>1, <2>2, <2>3, NotesWrite
<1>5. QED
    BY <1>2, <1>3, <1>4

\* Whatever changes the image builds a good one on it, or is a power loss.
LEMMA NextKinds ==
    ASSUME Good(image), Next
    PROVE  Write \/ Refresh \/ (\E c \in Certs : DownloadPair(c)) \/ PowerLoss
<1>1. ASSUME NEW batch \in SUBSET Certs, NEW o \in Owners \cup {Nothing},
             NEW l \in Locations \cup {Nothing}, AppendInventory(batch, o, l)
      PROVE  Write
    BY <1>1, AppendInventoryWrites
<1>2. ASSUME NEW who \in {"page", "other"}, NEW c \in Certs,
             \/ \E k \in Keys \cup {Nothing}, ack \in BOOLEAN, o \in Owners \cup {Nothing},
                   l \in Locations \cup {Nothing} : AppendMaterial(who, c, k, ack, o, l)
             \/ \E k \in Keys, ack \in BOOLEAN : AttachKey(who, c, k, ack)
             \/ \E l \in Locations : AssociateLocation(who, c, l)
             \/ \E o \in Owners \cup {Nothing} : UpdateOwner(who, c, o)
             \/ ChangeLocation(who, c)
             \/ DeleteRecord(who, c)
      PROVE  Write
    BY <1>2, AppendMaterialWrites, AttachKeyWrites, AssociateLocationWrites,
       UpdateOwnerWrites, ChangeLocationWrites, DeleteRecordWrites, Zenon
<1>3. QED
    BY <1>1, <1>2, Zenon DEF Next

----------------------------------------------------------------------------
(* The invariant                                                           *)

LEMMA CreatedGood == Good(Created)
<1>1. Created \in ImageType
    BY EmptyPartial DEF Created, ImageType
<1>2. Recorded(Created) = {} /\ DOMAIN Created.keys = {} /\ DOMAIN Created.materials = {}
    BY EmptyPartial DEF Created, Recorded
<1>3. Cardinality(Recorded(Created)) <= MaxRecords
    BY <1>2, FS_EmptySet, RecordsAssumption
<1>4. ValidKeys(Created)
    BY <1>2 DEF ValidKeys
<1>5. Created.generation \in 1 .. MaxGeneration
    BY RecordsAssumption DEF Created
<1>6. QED
    BY <1>1, <1>2, <1>3, <1>4, <1>5 DEF Good, Opens

LEMMA OlderReleaseGood ==
    ASSUME NEW c \in Certs \ Authorities
    PROVE  Good(OlderRelease(c))
<1> DEFINE e == <<>>
           n == OlderRelease(c)
           r == [owner |-> Nothing, locations |-> <<>>, imported |-> 0, sealed |-> 2]
<1>1. r \in RecordType /\ Pairs[c] \in Keys
    BY RecordsAssumption DEF RecordType
<1>2. e \in Partial(RecordType) /\ e \in Partial(Keys) /\ e \in Partial(MaterialType)
      /\ DOMAIN e = {}
    BY EmptyPartial
<1>3. /\ n.generation = 2 /\ n.records = With(e, c, r)
      /\ n.keys = With(e, c, Pairs[c]) /\ n.materials = e
    BY DEF OlderRelease, Created
<1>4. ASSUME NEW q \in Partial(RecordType), NEW k \in Partial(Keys)
      PROVE  [Created EXCEPT !.generation = 2, !.records = q, !.keys = k] \in ImageType
    BY <1>2 DEF Created, ImageType
<1> HIDE DEF e
<1>5. n.records \in Partial(RecordType) /\ DOMAIN n.records = {c} /\ n.records[c] = r
    <2> HIDE DEF r, n
    <2>1. With(e, c, r) \in Partial(RecordType)
        BY <1>1, <1>2, WithFacts
    <2>2. DOMAIN With(e, c, r) = {c} /\ With(e, c, r)[c] = r
        BY <1>2 DEF With
    <2>3. QED
        BY <1>3, <2>1, <2>2
<1>6. n.keys \in Partial(Keys) /\ DOMAIN n.keys = {c} /\ n.keys[c] = Pairs[c]
    <2> HIDE DEF n
    <2>1. With(e, c, Pairs[c]) \in Partial(Keys)
        BY <1>1, <1>2, WithFacts
    <2>2. DOMAIN With(e, c, Pairs[c]) = {c} /\ With(e, c, Pairs[c])[c] = Pairs[c]
        BY <1>2 DEF With
    <2>3. QED
        BY <1>3, <2>1, <2>2
<1>7. n \in ImageType
    <2>1. n = [Created EXCEPT !.generation = 2, !.records = n.records, !.keys = n.keys]
        BY <1>3 DEF OlderRelease
    <2> HIDE DEF n
    <2>2. [Created EXCEPT !.generation = 2, !.records = n.records, !.keys = n.keys] \in ImageType
        BY <1>5, <1>6, <1>4, Zenon
    <2>3. QED
        BY <2>1, <2>2
<1> HIDE DEF n
<1>8. Recorded(n) = {c} /\ Cardinality(Recorded(n)) <= MaxRecords
    <2>1. Cardinality({c}) = 1
        BY FS_Singleton
    <2>2. QED
        BY <1>5, <2>1, RecordsAssumption DEF Recorded
<1>9. ValidRecord(n, c)
    BY <1>3, <1>5, RecordsAssumption DEF ValidRecord, IsInjective
<1>10. ValidKeys(n)
    BY <1>2, <1>3, <1>6, <1>8 DEF ValidKeys
<1>11. n.generation \in 1 .. MaxGeneration
    BY <1>3, RecordsAssumption
<1>12. QED
    BY <1>7, <1>9, <1>10, <1>11, <1>8 DEF Good, Opens, n

LEMMA InitIInv == Init => IInv
<1> SUFFICES ASSUME Init PROVE IInv
    OBVIOUS
<1>1. Good(image)
    BY CreatedGood, OlderReleaseGood DEF Init
<1>2. Good(durable)
    BY <1>1 DEF Init
<1>3. /\ shown.generation = 0 /\ writer = "created" /\ delivered = <<>> /\ uncertain = 0
      /\ durable = image
    BY DEF Init
<1>4. image.generation \in Nat /\ image.generation >= 1
    BY <1>1, RecordsAssumption DEF Good, Opens
<1>5. Rest
    BY <1>3, RecordsAssumption DEF Rest
<1>6. PairsMatch /\ Following
    BY <1>3, <1>4 DEF PairsMatch, Following
<1>7. QED
    BY <1>1, <1>2, <1>5, <1>6 DEF IInv

LEMMA WriteKeepsIInv == ASSUME IInv, Write PROVE IInv'
<1>1. PICK n, who : Commits(n, who)
    BY DEF Write
<1>2. /\ Good(n) /\ n.generation = image.generation + 1 /\ who \in {"page", "other", "import"}
      /\ image' = n /\ writer' = who /\ shown' = shown /\ delivered' = delivered
      /\ \/ durable' = n /\ uncertain' = uncertain
         \/ uncertain < MaxUncertain /\ uncertain' = uncertain + 1 /\ durable' = durable
    BY <1>1 DEF Commits, Replace
<1>3. Good(image') /\ Good(durable')
    BY <1>2 DEF IInv
<1>4. Rest'
    BY <1>2, RecordsAssumption DEF IInv, Rest
<1>5. PairsMatch'
    BY <1>2 DEF IInv, PairsMatch
<1>6. Following'
    <2>1. /\ image.generation \in Nat /\ shown.generation \in Nat /\ uncertain \in Nat
        BY RecordsAssumption DEF IInv, Rest, Good, Opens
    <2>2. uncertain' = 0 => uncertain = 0 /\ durable' = image'
        BY <1>2, <2>1
    <2>3. uncertain' = 0 => shown'.generation < image'.generation
        BY <1>2, <2>1, <2>2 DEF IInv, Following
    <2>4. shown'.generation \in Nat /\ image'.generation \in Nat
        BY <1>2, <2>1
    <2>5. QED
        BY <2>2, <2>3, <2>4 DEF Following
<1>7. QED
    BY <1>3, <1>4, <1>5, <1>6 DEF IInv, Good

LEMMA NextIInv == IInv /\ [Next]_vars => IInv'
<1> SUFFICES ASSUME IInv, [Next]_vars PROVE IInv'
    OBVIOUS
<1>1. Good(image)
    BY DEF IInv
<1>2. CASE Write
    BY <1>2, WriteKeepsIInv
<1>3. CASE Refresh
    <2>1. /\ shown'.generation = image.generation
          /\ shown'.entries = Listing(image).entries
          /\ image' = image /\ durable' = durable /\ writer' = writer
          /\ delivered' = delivered /\ uncertain' = uncertain
        BY <1>3 DEF Refresh, Listing
    <2>2. image.generation \in 0 .. MaxGeneration
        BY RecordsAssumption DEF IInv, Good, Opens
    <2>3. Rest' /\ PairsMatch'
        BY <2>1, <2>2 DEF IInv, Rest, PairsMatch
    <2>4. Following'
        BY <2>1, <2>2, RecordsAssumption DEF IInv, Following
    <2>5. Good(image)' /\ Good(durable)'
        BY <2>1 DEF IInv, Good
    <2>6. QED
        BY <2>3, <2>4, <2>5 DEF IInv
<1>4. ASSUME NEW c \in Certs, DownloadPair(c) PROVE IInv'
    <2>1. /\ c \in Recorded(image) /\ KeyStatus(image, c) = "matched"
          /\ delivered' = <<c, KeyOf(image, c)>>
          /\ image' = image /\ durable' = durable /\ writer' = writer
          /\ shown' = shown /\ uncertain' = uncertain
        BY <1>4 DEF DownloadPair, PairAllowed
    <2>2. Pairs[c] = KeyOf(image, c) /\ Pairs[c] \in Keys
        BY <2>1, RecordsAssumption DEF KeyStatus, Status
    <2>3. Rest' /\ PairsMatch' /\ Following'
        BY <2>1, <2>2 DEF IInv, Rest, PairsMatch, Following
    <2>4. Good(image)' /\ Good(durable)'
        BY <2>1 DEF IInv, Good
    <2>5. QED
        BY <2>3, <2>4 DEF IInv
<1>5. CASE PowerLoss
    <2>1. /\ image' = durable /\ durable' = durable /\ writer' = "loss" /\ shown' = shown
          /\ delivered' = delivered /\ uncertain' = uncertain /\ uncertain # 0
        BY <1>5 DEF PowerLoss, IInv, Following
    <2>2. Rest' /\ PairsMatch' /\ Following'
        BY <2>1 DEF IInv, Rest, PairsMatch, Following
    <2>3. Good(image)' /\ Good(durable)'
        BY <2>1 DEF IInv, Good
    <2>4. QED
        BY <2>2, <2>3 DEF IInv
<1>6. CASE UNCHANGED vars
    BY <1>6 DEF vars, IInv, Good, Rest, PairsMatch, Following
<1>7. QED
    BY <1>1, <1>2, <1>3, <1>4, <1>5, <1>6, NextKinds

LEMMA SpecIInv == Spec => []IInv
BY InitIInv, NextIInv, PTL DEF Spec

----------------------------------------------------------------------------
(* The theorems                                                            *)

\* Every image that is committed, and every one a power loss leaves, opens:
\* no series of imports, attached keys, notes and deletions leads to one that
\* decode refuses, though most writes do not decode what they commit; and a
\* certificate never leaves with a key that is not its own.
THEOREM SpecImageSound == Spec => []ImageSound
<1>1. IInv => ImageSound
    <2> SUFFICES ASSUME IInv PROVE ImageSound
        OBVIOUS
    <2>1. /\ Recorded(image) \subseteq Certs /\ Recorded(durable) \subseteq Certs
        BY ImageFields DEF IInv, Good
    <2>2. QED
        BY <2>1 DEF IInv, Good, Opens, Rest, ImageSound, ImageOpens, TypeOK
<1>2. QED
    BY <1>1, SpecIInv, PTL

\* A saved private key is never replaced, and a record sealed again still
\* says when it was imported.
THEOREM SpecRecordsKept == Spec => RecordsKept
<1>1. IInv /\ [Next]_vars =>
          /\ [writer' # "loss" =>
                 \A c \in Recorded(image) \cap Recorded(image') :
                    KeyOf(image, c) # Nothing => KeyOf(image', c) = KeyOf(image, c)]_vars
          /\ [writer' # "loss" =>
                 \A c \in Recorded(image) \cap Recorded(image') :
                    Imported(image'.records[c]) = Imported(image.records[c])]_vars
    <2> SUFFICES ASSUME IInv, Next, writer' # "loss",
                        NEW c \in Recorded(image) \cap Recorded(image')
                 PROVE  /\ KeyOf(image, c) # Nothing => KeyOf(image', c) = KeyOf(image, c)
                        /\ Imported(image'.records[c]) = Imported(image.records[c])
        BY DEF vars
    <2>1. CASE Write
        BY <2>1 DEF Write, Commits, Replace, Keeps
    <2>2. CASE image' = image
        BY <2>2
    <2>3. CASE PowerLoss
        BY <2>3 DEF PowerLoss
    <2>4. QED
        BY <2>1, <2>2, <2>3, NextKinds DEF IInv, Refresh, DownloadPair
<1>2. QED
    BY <1>1, SpecIInv, PTL DEF Spec, RecordsKept, KeyKept, ImportKept

\* As long as every commit was synced, what a page changes is what its
\* operator saw, whoever wrote in between.
THEOREM SpecChangesWhatItShows == Spec => ChangesWhatItShows
<1>1. IInv /\ [Next]_vars =>
          [writer' = "page" /\ image' # image /\ uncertain = 0 =>
              \A c \in Certs :
                 \/ /\ Entry(image', c) = Entry(image, c)
                    /\ KeyOf(image', c) = KeyOf(image, c)
                 \/ Entry(image, c) = shown.entries[c]]_vars
    <2> SUFFICES ASSUME IInv, Next, writer' = "page", image' # image, uncertain = 0,
                        NEW c \in Certs
                 PROVE  Entry(image, c) = shown.entries[c]
        BY DEF vars
    <2>1. Write
        BY NextKinds DEF IInv, Refresh, DownloadPair, PowerLoss
    <2>2. shown.generation = image.generation
        BY <2>1 DEF Write, Commits, Replace, Expects
    <2>3. shown.entries = Listing(image).entries
        BY <2>2 DEF IInv, Following
    <2>4. QED
        BY <2>3 DEF Listing
<1>2. QED
    BY <1>1, SpecIInv, PTL DEF Spec, ChangesWhatItShows

----------------------------------------------------------------------------
(* The renewal job                                                         *)


TimingType == [state : {"none", "pending", "ari", "error"}, due : BOOLEAN, fresh : BOOLEAN]

OrderType == [state : OrderStates, mine : BOOLEAN, required : BOOLEAN]

RowType == [state : RowStates, tries : 0 .. MaxTries, held : BOOLEAN, blocked : BOOLEAN]

JobType == [state : {"none", "waiting", "paused", "complete"}, actions : 0 .. ActionLimit,
            polls : [Polls -> 0 .. PollLimit]]

OpType == [action : Actions, row : Nat, step : {"begun", "sent"}]

CaType == [order : {"none", "pending", "ready", "valid", "invalid"},
           accepted : BOOLEAN, finalized : BOOLEAN]

Typed ==
    /\ timing \in TimingType /\ wait \in Waits /\ order \in OrderType
    /\ expired \in BOOLEAN /\ key \in BOOLEAN /\ superseded \in BOOLEAN
    /\ full \in BOOLEAN /\ room \in 0 .. MaxRoom /\ lapsed \in BOOLEAN
    /\ obstacles \subseteq Obstacles
    /\ DOMAIN rows \in {{}, Rows} /\ \A i \in DOMAIN rows : rows[i] \in RowType
    /\ issuance \in IssuanceStates /\ job \in JobType /\ op \in {NoOp} \cup OpType
    /\ ca \in CaType /\ placed \in Nat /\ troubles \in 0 .. MaxTroubles

\* What is saved goes together: issuance follows the verified domain.
InOrder ==
    /\ timing.state = "none" => ~timing.fresh
    /\ issuance # "not-started" => order.state = "domain-verified" /\ key

\* What is in the zone is owed, what was created is there, and only a record
\* whose phase goes on has to wait.
RecordsKnown ==
    /\ \A i \in zone : i \in DOMAIN rows /\ Owed(i)
    /\ \A i \in DOMAIN rows :
          /\ rows[i].state = "created" => i \in zone
          /\ rows[i].held => rows[i].state \in {"creating", "deleting"}
    /\ job.state = "complete" => zone = {}

\* What the operation in flight relies on, from the decision to its outcome.
Underway ==
    /\ op # NoOp => job.state = "waiting"
    /\ op.action \in DnsMode =>
          op.row \in DOMAIN rows /\ rows[op.row].state \in {"creating", "deleting"}
    /\ op.action = "dns-add" =>
          rows[op.row].state = "creating" /\ (op.step = "begun" => op.row \notin zone)
    /\ op.action = "dns-cleanup" => rows[op.row].state = "deleting"
    /\ op.action = "order" => ~superseded
    /\ op.action \in {"validate", "validation-read"} => issuance = "not-started"
    /\ op.action = "validate" =>
          /\ order.required => DOMAIN rows = Rows
          /\ \A i \in DOMAIN rows : rows[i].state \in {"created", "borrowed"}
    /\ op.action \in {"certificate", "certificate-read"} => order.state = "domain-verified" /\ key

JobIInv == Typed /\ InOrder /\ RecordsKnown /\ Underway

----------------------------------------------------------------------------
(* The decision                                                            *)

\* A set of numbers has a least one.
LEMMA Least ==
    ASSUME NEW S \in SUBSET Nat, S # {}
    PROVE  \E m \in S : \A k \in S : m <= k
<1>1. PICK m \in S : \A k \in S : ~(<<k, m>> \in OpToRel(<, Nat))
    BY NatLessThanWellFounded, WFMin
<1>2. \A k \in S : ~(k < m)
    BY <1>1 DEF OpToRel
<1>3. QED
    BY <1>2

LEMMA FirstOf ==
    ASSUME NEW S \in SUBSET Rows, S # {}
    PROVE  First(S) \in S
BY Least, JobAssumption DEF First

LEMMA RowActions ==
    ASSUME NEW i
    PROVE  RowAction(i) \in {"dns-add", "dns-check", "dns-cleanup", "none", "pause"}
BY DEF RowAction

\* Either a record is next, and nothing holds it back, or no record needs
\* anything.
LEMMA RowsDecide ==
    ASSUME Typed, NEW rest, RowsThen(rest).action \notin {"pause", "wait"}
    PROVE  LET d == RowsThen(rest)
           IN  /\ \A i \in DOMAIN rows : ~Exhausted(i) /\ (RowAction(i) # "none" => ~rows[i].held)
               /\ \/ /\ d.action \in DnsMode /\ d.row \in DOMAIN rows
                     /\ d.action = RowAction(d.row)
                  \/ d = rest /\ \A i \in DOMAIN rows : RowAction(i) = "none"
<1> DEFINE need == {i \in DOMAIN rows : RowAction(i) # "none"}
           d == RowsThen(rest)
<1>1. Do("pause").action = "pause" /\ Do("wait").action = "wait"
    BY DEF Do
<1>2. \A i \in DOMAIN rows : ~Exhausted(i)
    BY <1>1 DEF RowsThen
<1>3. ~Held(need)
    BY <1>1, <1>2 DEF RowsThen
<1>4. \A i \in DOMAIN rows : RowAction(i) # "none" => ~rows[i].held
    BY <1>3 DEF Held
<1>5. CASE need = {}
    <2>1. d = rest
        BY <1>2, <1>3, <1>5 DEF RowsThen
    <2>2. QED
        BY <1>2, <1>4, <1>5, <2>1
<1>6. CASE need # {}
    <2> DEFINE f == First(need)
    <2>1. d = [action |-> RowAction(f), row |-> f]
        BY <1>2, <1>3, <1>6 DEF RowsThen
    <2>2. need \in SUBSET Rows
        BY DEF Typed
    <2>3. f \in need
        BY <1>6, <2>2, FirstOf
    <2>4. f \in DOMAIN rows /\ RowAction(f) # "none" /\ RowAction(f) # "pause"
        BY <1>2, <2>3 DEF Exhausted
    <2> HIDE DEF f
    <2>5. RowAction(f) \in DnsMode
        BY <2>4, RowActions DEF DnsMode
    <2>6. d.action = RowAction(f) /\ d.row = f
        BY <2>1
    <2>7. QED
        BY <1>2, <1>4, <2>4, <2>5, <2>6
<1>7. QED
    BY <1>5, <1>6

\* What is proposed can be done, and the records are as they have to be for it.
Fits(d) ==
    /\ d.action \in Actions => Accepts(d)
    /\ d.action = "complete" => zone = {}
    /\ d.action \in DnsMode => d.row \in DOMAIN rows /\ \A i \in DOMAIN rows : ~rows[i].held
    /\ d.action = "order" => ~superseded
    /\ d.action = "validate" =>
          /\ order.required => DOMAIN rows = Rows
          /\ \A i \in DOMAIN rows : rows[i].state \in {"created", "borrowed"}

LEMMA DoFacts == \A a : Do(a).action = a
BY DEF Do

\* No request is open: the waits and reads before a new order, or closing the
\* last one.
LEMMA OrderFits ==
    ASSUME JobIInv, ~Hindered, ~Bound, obstacles = {}
    PROVE  Fits(DecideOrder)
<1>1. ~superseded /\ ~lapsed /\ timing.state # "pending"
    BY DEF Hindered, Saved
<1>2. timing.state = "none" => ~timing.fresh
    BY DEF JobIInv, InOrder
<1> DEFINE d == DecideOrder
<1>3. \/ d \in {Do("pause"), Do("wait")}
      \/ d = Do("timing") /\ wait = "over" /\ ~timing.fresh
      \/ d = Do("close") /\ Available
      \/ d = Do("order") /\ wait = "over" /\ order.state = "not-started" /\ room >= 1
    <2>1. room \in Int /\ Needed \in {1, 2}
        BY DEF JobIInv, Typed, Needed
    <2>2. ~(room < Needed) => room >= 1
        BY <2>1
    <2>3. QED
        BY <1>2, <2>2 DEF DecideOrder
<1> HIDE DEF d
<1>4. CASE d \in {Do("pause"), Do("wait")}
    <2>1. d.action \in {"pause", "wait"}
        BY <1>4, DoFacts
    <2>2. QED
        BY <2>1 DEF Fits, Actions, Polls, DnsMode, d
<1>5. CASE d = Do("timing") /\ wait = "over" /\ ~timing.fresh
    <2>1. d.action = "timing"
        BY <1>5, DoFacts
    <2>2. AcceptsCa("timing")
        BY <1>1, <1>5 DEF AcceptsCa
    <2>3. Accepts(d)
        BY <2>1, <2>2, Zenon DEF Accepts, DnsMode
    <2>4. QED
        BY <2>1, <2>3 DEF Fits, DnsMode, d
<1>6. CASE d = Do("close") /\ Available
    <2>1. d.action = "close"
        BY <1>6, DoFacts
    <2>2. Accepts(d)
        BY <1>6, <2>1, Zenon DEF Accepts, DnsMode
    <2>3. QED
        BY <2>1, <2>2 DEF Fits, DnsMode, d
<1>7. CASE d = Do("order") /\ wait = "over" /\ order.state = "not-started" /\ room >= 1
    <2>1. d.action = "order"
        BY <1>7, DoFacts
    <2>2. AcceptsCa("order")
        BY <1>7 DEF AcceptsCa
    <2>3. Accepts(d)
        BY <2>1, <2>2, Zenon DEF Accepts, DnsMode
    <2>4. QED
        BY <1>1, <2>1, <2>3 DEF Fits, DnsMode, d
<1>8. QED
    BY <1>3, <1>4, <1>5, <1>6, <1>7 DEF d

\* A record is worked on as its state demands, when none of them waits.
LEMMA RowFits ==
    ASSUME JobIInv, obstacles = {}, Bound, Saved \/ ~expired, NEW rest,
           RowsThen(rest).action \in DnsMode, RowsThen(rest) # rest
    PROVE  Fits(RowsThen(rest))
<1> DEFINE d == RowsThen(rest)
           r == d.row
<1>1. d.action \notin {"pause", "wait"}
    BY DEF DnsMode
<1>2. /\ \A i \in DOMAIN rows : ~Exhausted(i) /\ (RowAction(i) # "none" => ~rows[i].held)
      /\ r \in DOMAIN rows /\ d.action = RowAction(r)
    BY <1>1, RowsDecide DEF JobIInv
<1> HIDE DEF d
<1>3. ASSUME NEW i \in DOMAIN rows PROVE ~rows[i].held
    <2>1. CASE RowAction(i) # "none"
        BY <1>2, <1>3, <2>1
    <2>2. CASE RowAction(i) = "none"
        <3>1. rows[i].state \notin {"creating", "deleting"}
            BY <2>2 DEF RowAction
        <3>2. QED
            BY <1>3, <3>1 DEF JobIInv, RecordsKnown
    <2>3. QED
        BY <2>1, <2>2
<1>4. ~rows[r].blocked /\ ~(rows[r].tries >= MaxTries) /\ ~rows[r].held
    <2>1. d.action # "none"
        BY DEF d, DnsMode
    <2>2. ~Exhausted(r) /\ RowAction(r) # "none"
        BY <1>2, <2>1
    <2>3. QED
        BY <1>2, <1>3, <2>2 DEF Exhausted
<1>5. rows[r].tries < MaxTries
    BY <1>2, <1>4, JobAssumption DEF JobIInv, Typed, RowType
<1>6. AcceptsDns(d.action, r)
    <2>1. CASE d.action = "dns-add"
        <3>1. ~Saved /\ rows[r].state = "new" /\ order.state \in {"dns-ready", "dns-acknowledged"}
            BY <1>2, <2>1 DEF RowAction
        <3>2. QED
            BY <1>2, <1>4, <1>5, <2>1, <3>1 DEF AcceptsDns, DnsReady
    <2>2. CASE d.action = "dns-cleanup"
        <3>1. rows[r].state = "created"
            BY <1>2, <2>2 DEF RowAction
        <3>2. QED
            BY <1>2, <1>4, <1>5, <2>2, <3>1 DEF AcceptsDns, DnsReady
    <2>3. CASE d.action = "dns-check"
        <3>1. rows[r].state \in {"creating", "deleting"}
            BY <1>2, <2>3 DEF RowAction
        <3>2. QED
            BY <1>2, <1>4, <1>5, <2>3, <3>1 DEF AcceptsDns, DnsReady
    <2>4. QED
        BY <2>1, <2>2, <2>3 DEF DnsMode, d
<1>7. QED
    BY <1>2, <1>3, <1>6 DEF Fits, Accepts, DnsMode, d

LEMMA IdleFits ==
    ASSUME NEW d, d.action \in {"pause", "wait"}
    PROVE  Fits(d)
BY DEF Fits, Actions, Polls, DnsMode

\* A finished renewal is complete when nothing of it is in the zone.
LEMMA SavedFits ==
    ASSUME JobIInv, Saved, obstacles = {}
    PROVE  Fits(RowsThen(AfterRows))
<1> DEFINE d == RowsThen(AfterRows)
<1>1. AfterRows = Do("complete") /\ Bound
    BY DEF AfterRows, Saved
<1>2. CASE d.action \in {"pause", "wait"}
    BY <1>2, IdleFits
<1>3. CASE d.action \notin {"pause", "wait"}
    <2>1. \/ d.action \in DnsMode
          \/ d = AfterRows /\ \A i \in DOMAIN rows : RowAction(i) = "none"
        BY <1>3, RowsDecide DEF JobIInv
    <2>2. CASE d.action \in DnsMode
        <3>1. d # AfterRows
            BY <1>1, <2>2, DoFacts DEF DnsMode
        <3>2. QED
            BY <1>1, <2>2, <3>1, RowFits
    <2>3. CASE d = AfterRows /\ \A i \in DOMAIN rows : RowAction(i) = "none"
        <3>1. d.action = "complete"
            BY <1>1, <2>3, DoFacts
        <3>2. \A i \in DOMAIN rows : ~Owed(i)
            BY <2>3 DEF RowAction, Owed
        <3>3. zone = {}
            BY <3>2 DEF JobIInv, RecordsKnown
        <3> HIDE DEF d
        <3>4. QED
            BY <3>1, <3>3 DEF Fits, Actions, Polls, DnsMode, d
    <2>4. QED
        BY <2>1, <2>2, <2>3
<1>4. QED
    BY <1>2, <1>3

\* What an open request goes on with when its records need nothing.
LEMMA AfterRowsFits ==
    ASSUME JobIInv, ~Saved, Bound, ~expired, wait = "over", issuance # "issuance-failed",
           \A i \in DOMAIN rows : RowAction(i) = "none",
           ~(/\ order.required /\ DOMAIN rows = {}
             /\ order.state \in {"dns-ready", "dns-acknowledged"})
    PROVE  Fits(AfterRows)
<1> DEFINE d == AfterRows
<1>1. issuance # "certificate-saved"
    BY DEF Saved
<1>2. issuance # "not-started" => order.state = "domain-verified" /\ key
    BY DEF JobIInv, InOrder
<1>3. \A i \in DOMAIN rows : rows[i].state \in {"created", "borrowed"}
    BY DEF RowAction
<1>4. DOMAIN rows \in {{}, Rows} /\ order.state \in OrderStates /\ issuance \in IssuanceStates
    BY DEF JobIInv, Typed, OrderType
<1>5. \/ d = Do("pause")
      \/ d = Do("ack") /\ order.state = "dns-ready"
      \/ d = Do("validate") /\ order.state = "dns-acknowledged"
      \/ d = Do("validation-read") /\ order.state \in {"validation-pending", "validation-waiting"}
      \/ d = Do("key") /\ order.state = "domain-verified" /\ ~key
      \/ d = Do("certificate") /\ order.state = "domain-verified" /\ key /\ issuance = "not-started"
      \/ d = Do("certificate-read") /\ issuance # "not-started"
    <2>1. CASE order.state = "dns-ready"
        BY <2>1 DEF AfterRows
    <2>2. CASE order.state = "dns-acknowledged"
        BY <2>2 DEF AfterRows
    <2>3. CASE order.state \in {"validation-pending", "validation-waiting"}
        BY <2>3 DEF AfterRows
    <2>4. CASE order.state = "domain-verified"
        BY <2>4 DEF AfterRows
    <2>5. CASE order.state \notin {"dns-ready", "dns-acknowledged", "validation-pending",
                                   "validation-waiting", "domain-verified"}
        BY <2>5 DEF AfterRows
    <2>6. QED
        BY <2>1, <2>2, <2>3, <2>4, <2>5
<1> HIDE DEF d
<1>6. CASE d = Do("pause")
    <2>1. d.action \in {"pause", "wait"}
        BY <1>6, DoFacts
    <2>2. QED
        BY <2>1, IdleFits DEF d
<1>7. CASE d = Do("ack") /\ order.state = "dns-ready"
    <2>1. d.action = "ack"
        BY <1>7, DoFacts
    <2>2. Accepts(d)
        BY <1>7, <2>1, Zenon DEF Accepts, DnsMode
    <2>3. QED
        BY <2>1, <2>2 DEF Fits, DnsMode, d
<1>8. CASE d = Do("validate") /\ order.state = "dns-acknowledged"
    <2>1. d.action = "validate"
        BY <1>8, DoFacts
    <2>2. issuance = "not-started"
        BY <1>2, <1>8
    <2>3. AcceptsCa("validate")
        BY <1>8, <2>2 DEF AcceptsCa
    <2>4. Accepts(d)
        BY <2>1, <2>3, Zenon DEF Accepts, DnsMode
    <2>5. order.required => DOMAIN rows = Rows
        BY <1>4, <1>8
    <2>6. QED
        BY <1>3, <2>1, <2>4, <2>5 DEF Fits, DnsMode, d
<1>9. CASE d = Do("validation-read") /\ order.state \in {"validation-pending", "validation-waiting"}
    <2>1. d.action = "validation-read"
        BY <1>9, DoFacts
    <2>2. issuance = "not-started"
        BY <1>2, <1>9
    <2>3. AcceptsCa("validation-read")
        BY <1>9, <2>2 DEF AcceptsCa
    <2>4. Accepts(d)
        BY <2>1, <2>3, Zenon DEF Accepts, DnsMode
    <2>5. QED
        BY <2>1, <2>4 DEF Fits, DnsMode, d
<1>10. CASE d = Do("key") /\ order.state = "domain-verified" /\ ~key
    <2>1. d.action = "key"
        BY <1>10, DoFacts
    <2>2. issuance = "not-started"
        BY <1>2, <1>10
    <2>3. Accepts(d)
        BY <1>10, <2>1, <2>2, Zenon DEF Accepts, DnsMode
    <2>4. QED
        BY <2>1, <2>3 DEF Fits, DnsMode, d
<1>11. CASE d = Do("certificate") /\ order.state = "domain-verified" /\ key
            /\ issuance = "not-started"
    <2>1. d.action = "certificate"
        BY <1>11, DoFacts
    <2>2. AcceptsCa("certificate")
        BY <1>11 DEF AcceptsCa
    <2>3. Accepts(d)
        BY <2>1, <2>2, Zenon DEF Accepts, DnsMode
    <2>4. QED
        BY <2>1, <2>3 DEF Fits, DnsMode, d
<1>12. CASE d = Do("certificate-read") /\ issuance # "not-started"
    <2>1. d.action = "certificate-read"
        BY <1>12, DoFacts
    <2>2. issuance \in {"issuance-pending", "not-issued", "awaiting-certificate"}
        <3>1. issuance # "certificate-saved"
            BY <1>1
        <3>2. QED
            BY <1>4, <1>12, <3>1 DEF IssuanceStates
    <2>3. AcceptsCa("certificate-read")
        BY <2>2 DEF AcceptsCa
    <2>4. Accepts(d)
        BY <2>1, <2>3, Zenon DEF Accepts, DnsMode
    <2>5. QED
        BY <2>1, <2>4 DEF Fits, DnsMode, d
<1>13. QED
    BY <1>5, <1>6, <1>7, <1>8, <1>9, <1>10, <1>11, <1>12

\* An open request: what holds it up, its plan, its records, then its next step.
LEMMA RequestFits ==
    ASSUME JobIInv, Bound, ~Saved, obstacles = {}
    PROVE  Fits(DecideRequest)
<1> DEFINE stopped == \/ room < Needed \/ expired
                      \/ order.state \in {"request-pending", "validation-failed"}
                      \/ issuance = "issuance-failed"
           unplanned == /\ order.required /\ DOMAIN rows = {}
                        /\ order.state \in {"dns-ready", "dns-acknowledged"}
<1>1. CASE stopped \/ wait # "over"
    <2>1. DecideRequest \in {Do("pause"), Do("wait")}
        BY <1>1 DEF DecideRequest
    <2>2. DecideRequest.action \in {"pause", "wait"}
        BY <2>1, DoFacts
    <2>3. QED
        BY <2>2, IdleFits
<1>2. CASE ~stopped /\ wait = "over" /\ order.state = "order-known"
    <2> DEFINE d == DecideRequest
    <2>1. d = Do("order-read")
        BY <1>2 DEF DecideRequest
    <2>2. d.action = "order-read"
        BY <2>1, DoFacts
    <2>3. AcceptsCa("order-read")
        BY <1>2 DEF AcceptsCa
    <2> HIDE DEF d
    <2>4. Accepts(d)
        BY <2>2, <2>3, Zenon DEF Accepts, DnsMode
    <2>5. QED
        BY <2>2, <2>4 DEF Fits, DnsMode, d
<1>3. CASE ~stopped /\ wait = "over" /\ order.state # "order-known" /\ unplanned
    <2> DEFINE d == DecideRequest
    <2>1. d = Do("dns-plan")
        BY <1>3 DEF DecideRequest
    <2>2. d.action = "dns-plan"
        BY <2>1, DoFacts
    <2> HIDE DEF d
    <2>3. Accepts(d)
        BY <1>3, <2>2, Zenon DEF Accepts, DnsMode, DnsReady
    <2>4. QED
        BY <2>2, <2>3 DEF Fits, DnsMode, d
<1>4. CASE ~stopped /\ wait = "over" /\ order.state # "order-known" /\ ~unplanned
    <2> DEFINE d == RowsThen(AfterRows)
    <2>1. DecideRequest = d
        BY <1>4 DEF DecideRequest
    <2>2. CASE d.action \in {"pause", "wait"}
        BY <2>1, <2>2, IdleFits
    <2>3. CASE d.action \notin {"pause", "wait"}
        <3>1. \/ d.action \in DnsMode
              \/ d = AfterRows /\ \A i \in DOMAIN rows : RowAction(i) = "none"
            BY <2>3, RowsDecide DEF JobIInv
        <3>2. CASE d # AfterRows
            BY <1>4, <2>1, <3>1, <3>2, RowFits
        <3>3. CASE d = AfterRows /\ \A i \in DOMAIN rows : RowAction(i) = "none"
            BY <1>4, <2>1, <3>3, AfterRowsFits
        <3>4. AfterRows.action \notin DnsMode
            <4>1. AfterRows \in {Do(a) : a \in {"ack", "validate", "validation-read", "key",
                                                "certificate", "certificate-read", "pause"}}
                <5>1. CASE order.state = "dns-ready"
                    BY <1>4, <5>1 DEF AfterRows
                <5>2. CASE order.state = "dns-acknowledged"
                    BY <5>2 DEF AfterRows
                <5>3. CASE order.state \in {"validation-pending", "validation-waiting"}
                    BY <5>3 DEF AfterRows
                <5>4. CASE order.state = "domain-verified"
                    BY <5>4 DEF AfterRows
                <5>5. CASE order.state \notin {"dns-ready", "dns-acknowledged",
                          "validation-pending", "validation-waiting", "domain-verified"}
                    BY <5>5 DEF AfterRows
                <5>6. QED
                    BY <5>1, <5>2, <5>3, <5>4, <5>5
            <4>2. QED
                BY <4>1, DoFacts DEF DnsMode
        <3>5. QED
            BY <3>1, <3>2, <3>3, <3>4
    <2>4. QED
        BY <2>2, <2>3
<1>5. QED
    BY <1>1, <1>2, <1>3, <1>4

\* Whatever the state, the next action that DecideRenewalCycle names is right
\* for it.
LEMMA Decided == JobIInv => Fits(DecideRenewalCycle)
<1> SUFFICES ASSUME JobIInv PROVE Fits(DecideRenewalCycle)
    OBVIOUS
<1>1. CASE obstacles # {} \/ Hindered
    BY <1>1, IdleFits, DoFacts DEF DecideRenewalCycle
<1>2. CASE obstacles = {} /\ ~Hindered /\ ~Bound
    BY <1>2, OrderFits DEF DecideRenewalCycle
<1>3. CASE obstacles = {} /\ ~Hindered /\ Bound /\ Saved
    BY <1>3, SavedFits DEF DecideRenewalCycle
<1>4. CASE obstacles = {} /\ ~Hindered /\ Bound /\ ~Saved
    BY <1>4, RequestFits DEF DecideRenewalCycle
<1>5. QED
    BY <1>1, <1>2, <1>3, <1>4

\* Only a record is named by its number; all else is named 0.
LEMMA RowNumber == JobIInv => DecideRenewalCycle.row \in Nat
<1> SUFFICES ASSUME JobIInv PROVE DecideRenewalCycle.row \in Nat
    OBVIOUS
<1>1. \A a : Do(a).row = 0
    BY DEF Do
<1>2. DecideOrder.row = 0
    BY <1>1 DEF DecideOrder
<1>3. Saved => AfterRows.row = 0
    BY <1>1 DEF AfterRows
<1>4. ~Saved => AfterRows.row = 0
    <2>1. CASE order.state = "dns-ready"
        BY <1>1, <2>1 DEF AfterRows
    <2>2. CASE order.state = "dns-acknowledged"
        BY <1>1, <2>2 DEF AfterRows
    <2>3. CASE order.state \in {"validation-pending", "validation-waiting"}
        BY <1>1, <2>3 DEF AfterRows
    <2>4. CASE order.state = "domain-verified"
        BY <1>1, <2>4 DEF AfterRows
    <2>5. CASE order.state \notin {"dns-ready", "dns-acknowledged", "validation-pending",
                                   "validation-waiting", "domain-verified"}
        BY <1>1, <2>5 DEF AfterRows
    <2>6. QED
        BY <2>1, <2>2, <2>3, <2>4, <2>5
<1> DEFINE need == {i \in DOMAIN rows : RowAction(i) # "none"}
           d == RowsThen(AfterRows)
<1>5. d.row \in Nat
    <2>1. need \in SUBSET Rows
        BY DEF JobIInv, Typed
    <2>2. need # {} => First(need) \in Rows
        BY <2>1, FirstOf
    <2>3. \/ d \in {Do("pause"), Do("wait"), AfterRows}
          \/ need # {} /\ d = [action |-> RowAction(First(need)), row |-> First(need)]
        BY DEF RowsThen
    <2>4. Do("pause").row = 0 /\ Do("wait").row = 0 /\ AfterRows.row = 0
        BY <1>1, <1>3, <1>4
    <2> DEFINE f == First(need)
               x == RowAction(f)
    <2> HIDE DEF f, x, d, need
    <2>5. CASE need # {} /\ d = [action |-> x, row |-> f]
        BY <2>2, <2>5, JobAssumption DEF f
    <2>6. CASE d \in {Do("pause"), Do("wait"), AfterRows}
        BY <2>4, <2>6
    <2>7. QED
        BY <2>3, <2>5, <2>6 DEF f, x
<1>6. DecideRequest.row \in Nat
    BY <1>1, <1>5 DEF DecideRequest
<1>7. QED
    BY <1>1, <1>2, <1>5, <1>6 DEF DecideRenewalCycle

----------------------------------------------------------------------------
(* The steps                                                               *)

LEMMA Idle == NoOp.action = "none" /\ NoOp.step = "idle" /\ "none" \notin Actions
BY DEF NoOp, Actions, Polls, DnsMode

LEMMA OpKinds ==
    ASSUME Typed
    PROVE  (op = NoOp <=> op.action = "none") /\ (op # NoOp => op \in OpType)
BY Idle DEF Typed, OpType

\* What the job knows when it takes an action.
LEMMA Taken ==
    ASSUME JobIInv, NEW a \in Actions, Takes(a)
    PROVE  /\ op = NoOp /\ job.state = "waiting" /\ Chosen.action = a /\ Chosen.row \in Nat
           /\ job' \in JobType /\ job'.state = "waiting"
           /\ Fits(Chosen)
<1>1. Chosen.action = a /\ job.actions < ActionLimit /\ Running /\ Chosen = DecideRenewalCycle
    <2>1. Do("none").action # a
        BY Idle, DoFacts
    <2>2. QED
        BY <2>1 DEF Takes, Chosen
<1>2. Fits(Chosen) /\ Chosen.row \in Nat
    BY <1>1, Decided, RowNumber
<1>3. op = NoOp /\ job.state = "waiting"
    BY <1>1 DEF Running
<1>4. job \in JobType /\ (a \in Polls => job.polls[a] < PollLimit)
    BY DEF JobIInv, Typed, Takes
<1>5. job' = [job EXCEPT !.actions = @ + 1,
                         !.polls = [p \in Polls |-> IF p = a THEN @[p] + 1 ELSE @[p]]]
    BY DEF Takes
<1> DEFINE q == [p \in Polls |-> IF p = a THEN job.polls[p] + 1 ELSE job.polls[p]]
<1>6. q \in [Polls -> 0 .. PollLimit]
    BY <1>4, JobAssumption DEF JobType
<1>7. job' = [job EXCEPT !.actions = job.actions + 1, !.polls = q]
    BY <1>4, <1>5 DEF JobType
<1> DEFINE n == job.actions + 1
<1>8. n \in 0 .. ActionLimit
    BY <1>1, <1>4, JobAssumption DEF JobType
<1> HIDE DEF q, n
<1>9. job' \in JobType /\ job'.state = "waiting"
    <2>1. job' = [job EXCEPT !.actions = n, !.polls = q]
        BY <1>7 DEF n, q
    <2>2. QED
        BY <1>3, <1>4, <1>6, <1>8, <2>1 DEF JobType
<1>10. QED
    BY <1>1, <1>2, <1>3, <1>9

LEMMA Begun ==
    ASSUME JobIInv, NEW a \in Actions, Begin(a)
    PROVE  /\ op = NoOp /\ job.state = "waiting" /\ Chosen.action = a
           /\ job' \in JobType /\ job'.state = "waiting" /\ Fits(Chosen)
           /\ op' \in OpType /\ op' # NoOp
           /\ op'.action = a /\ op'.row = Chosen.row /\ op'.step = "begun"
<1>1. /\ op = NoOp /\ job.state = "waiting" /\ Chosen.action = a /\ Chosen.row \in Nat
      /\ job' \in JobType /\ job'.state = "waiting"
      /\ Fits(Chosen)
    BY Taken DEF Begin
<1>2. op' = [action |-> a, row |-> Chosen.row, step |-> "begun"]
    BY DEF Begin
<1>3. op' \in OpType /\ op'.action = a /\ op'.row = Chosen.row /\ op'.step = "begun"
    BY <1>1, <1>2 DEF OpType
<1>4. op' # NoOp
    BY <1>3, Idle
<1>5. QED
    BY <1>1, <1>3, <1>4

\* What a reading of the renewal time leaves.
LEMMA KnownTimes ==
    ASSUME Typed
    PROVE  \A t \in Known : t \in TimingType /\ t.state = "ari"
<1>1. timing.due \in BOOLEAN
    BY DEF Typed, TimingType
<1>2. TAKE t \in Known
<1>3. PICK d \in {TRUE, timing.due} : t = [state |-> "ari", due |-> d, fresh |-> TRUE]
    BY DEF Known
<1>4. QED
    BY <1>1, <1>3 DEF TimingType

LEMMA ConstrainedWaits ==
    ASSUME Typed
    PROVE  \A w \in Constrained : w \in Waits
BY DEF Typed, Constrained, Waits

\* A closure takes one place of the ledger.
LEMMA RoomUsed ==
    ASSUME JobIInv, Available, Reset
    PROVE  room' \in 0 .. MaxRoom
BY JobAssumption DEF JobIInv, Typed, Available, Reset

\* Each action leads from states of JobIInv to states of it.
LEMMA StartJobKeeps == JobIInv /\ StartJob => JobIInv'
<1> SUFFICES ASSUME JobIInv, StartJob PROVE JobIInv'
    OBVIOUS
<1>1. Typed'
    <2>1. job' \in JobType
        BY JobAssumption DEF StartJob, NoJob, JobType
    <2>2. QED
        BY <2>1 DEF JobIInv, Typed, limits, StartJob, saved, request, remote
<1>2. InOrder'
    BY DEF JobIInv, InOrder, StartJob, saved, request
<1>3. RecordsKnown'
    BY DEF JobIInv, RecordsKnown, Owed, StartJob, saved, request, remote
<1>4. Underway'
    BY DEF JobIInv, Underway, StartJob, saved, request, remote
<1>5. QED
    BY <1>1, <1>2, <1>3, <1>4 DEF JobIInv

LEMMA PauseOrCompleteKeeps == JobIInv /\ PauseOrComplete => JobIInv'
<1> SUFFICES ASSUME JobIInv, PauseOrComplete PROVE JobIInv'
    OBVIOUS
<1>1. Typed'
    BY DEF JobIInv, Typed, limits, PauseOrComplete, saved, request, remote, JobType
<1>2. InOrder'
    BY DEF JobIInv, InOrder, PauseOrComplete, saved, request
<1>3. RecordsKnown'
    <2>1. job'.state = "complete" => zone = {}
        <3>1. CASE job'.state = "paused"
            BY <3>1
        <3>2. CASE DecideRenewalCycle.action = "complete"
            BY <3>2, Decided DEF Fits
        <3>3. QED
            BY <3>1, <3>2 DEF PauseOrComplete, JobIInv, Typed, JobType
    <2>2. QED
        BY <2>1 DEF JobIInv, RecordsKnown, Owed, PauseOrComplete, saved, request, remote
<1>4. Underway'
    <2>1. op' = NoOp
        BY DEF PauseOrComplete, Running
    <2>2. QED
        BY <2>1, Idle DEF Underway, DnsMode
<1>5. QED
    BY <1>1, <1>2, <1>3, <1>4 DEF JobIInv

LEMMA FinishTimingKeeps == JobIInv /\ FinishTiming => JobIInv'
<1> SUFFICES ASSUME JobIInv, FinishTiming PROVE JobIInv'
    OBVIOUS
<1>1. Typed'
    <2>1. timing' \in TimingType /\ timing'.state = "ari"
        BY KnownTimes DEF JobIInv, FinishTiming
    <2>2. QED
        BY <2>1 DEF JobIInv, Typed, limits, FinishTiming, End, saved, request, remote
<1>2. InOrder'
    BY DEF JobIInv, InOrder, FinishTiming, Known, request
<1>3. RecordsKnown'
    BY DEF JobIInv, RecordsKnown, Owed, FinishTiming, request, remote
<1>4. Underway'
    BY Idle DEF Underway, DnsMode, FinishTiming, End
<1>5. QED
    BY <1>1, <1>2, <1>3, <1>4 DEF JobIInv

LEMMA PlaceOrderKeeps == JobIInv /\ PlaceOrder => JobIInv'
<1> SUFFICES ASSUME JobIInv, PlaceOrder PROVE JobIInv'
    OBVIOUS
<1>1. Typed'
    <2>1. placed' \in Nat
        BY DEF JobIInv, Typed, limits, PlaceOrder
    <2>2. ca' \in CaType
        BY DEF JobIInv, Typed, limits, PlaceOrder, CaType
    <2>3. op' \in OpType
        BY OpKinds, Idle DEF JobIInv, Typed, limits, PlaceOrder, At, Advance, OpType
    <2>4. QED
        BY <2>1, <2>2, <2>3 DEF JobIInv, Typed, limits, PlaceOrder, saved, request, remote
<1>2. InOrder'
    BY DEF JobIInv, InOrder, PlaceOrder, saved, request
<1>3. RecordsKnown'
    BY DEF JobIInv, RecordsKnown, Owed, PlaceOrder, saved, request
<1>4. Underway'
    BY Idle DEF JobIInv, Underway, PlaceOrder, At, Advance, saved, request
<1>5. QED
    BY <1>1, <1>2, <1>3, <1>4 DEF JobIInv

LEMMA CheckpointKeeps == JobIInv /\ Checkpoint => JobIInv'
<1> SUFFICES ASSUME JobIInv, Checkpoint PROVE JobIInv'
    OBVIOUS
<1>1. Typed'
    BY DEF JobIInv, Typed, limits, Checkpoint, remote, OrderType, OrderStates
<1>2. InOrder'
    BY DEF JobIInv, InOrder, Checkpoint
<1>3. RecordsKnown'
    BY DEF JobIInv, RecordsKnown, Owed, Checkpoint, remote
<1>4. Underway'
    BY DEF JobIInv, Underway, Checkpoint, remote
<1>5. QED
    BY <1>1, <1>2, <1>3, <1>4 DEF JobIInv

LEMMA FinishOrderKeeps == JobIInv /\ FinishOrder => JobIInv'
<1> SUFFICES ASSUME JobIInv, FinishOrder PROVE JobIInv'
    OBVIOUS
<1>1. Typed'
    BY ConstrainedWaits DEF JobIInv, Typed, limits, FinishOrder, End, OrderType, OrderStates, CaType
<1>2. InOrder'
    BY DEF JobIInv, InOrder, FinishOrder
<1>3. RecordsKnown'
    BY DEF JobIInv, RecordsKnown, Owed, FinishOrder
<1>4. Underway'
    BY Idle DEF Underway, DnsMode, FinishOrder, End
<1>5. QED
    BY <1>1, <1>2, <1>3, <1>4 DEF JobIInv

LEMMA SendDnsKeeps == JobIInv /\ SendDns => JobIInv'
<1> SUFFICES ASSUME JobIInv, SendDns PROVE JobIInv'
    OBVIOUS
<1>1. Typed'
    BY OpKinds DEF JobIInv, Typed, limits, SendDns, Advance, saved, request, OpType
<1>2. InOrder'
    BY DEF JobIInv, InOrder, SendDns, saved, request
<1>3. RecordsKnown'
    <2>1. op.row \in DOMAIN rows /\ UNCHANGED <<rows, job>>
        BY DEF JobIInv, Underway, SendDns, DnsMode, saved, request
    <2>2. CASE op.action = "dns-add"
        <3>1. Owed(op.row) /\ zone' = zone \cup {op.row}
            BY <2>2 DEF JobIInv, Underway, SendDns, Owed
        <3>2. job.state # "complete"
            BY <2>2, Idle DEF JobIInv, Underway
        <3>3. QED
            BY <2>1, <3>1, <3>2 DEF JobIInv, RecordsKnown, Owed
    <2>3. CASE op.action = "dns-cleanup"
        <3>1. rows[op.row].state = "deleting" /\ zone' = zone \ {op.row}
            BY <2>3 DEF JobIInv, Underway, SendDns
        <3>2. QED
            BY <2>1, <3>1 DEF JobIInv, RecordsKnown, Owed
    <2>4. QED
        BY <2>2, <2>3 DEF SendDns
<1>4. Underway'
    BY Idle DEF JobIInv, Underway, SendDns, Advance, saved, request
<1>5. QED
    BY <1>1, <1>2, <1>3, <1>4 DEF JobIInv

LEMMA AcceptKeeps == JobIInv /\ Accept => JobIInv'
<1> SUFFICES ASSUME JobIInv, Accept PROVE JobIInv'
    OBVIOUS
<1>1. Typed'
    BY OpKinds DEF JobIInv, Typed, limits, Accept, At, Advance, saved, request, OpType, CaType
<1>2. InOrder'
    BY DEF JobIInv, InOrder, Accept, saved, request
<1>3. RecordsKnown'
    BY DEF JobIInv, RecordsKnown, Owed, Accept, saved, request
<1>4. Underway'
    BY Idle DEF JobIInv, Underway, Accept, At, Advance, saved, request
<1>5. QED
    BY <1>1, <1>2, <1>3, <1>4 DEF JobIInv

LEMMA FinishValidationKeeps == JobIInv /\ FinishValidation => JobIInv'
<1> SUFFICES ASSUME JobIInv, FinishValidation PROVE JobIInv'
    OBVIOUS
<1>1. Typed'
    BY ConstrainedWaits DEF JobIInv, Typed, limits, FinishValidation, End, remote, OrderType, OrderStates
<1>2. InOrder'
    BY DEF JobIInv, InOrder, Underway, FinishValidation
<1>3. RecordsKnown'
    BY DEF JobIInv, RecordsKnown, Owed, FinishValidation, remote
<1>4. Underway'
    BY Idle DEF Underway, DnsMode, FinishValidation, End
<1>5. QED
    BY <1>1, <1>2, <1>3, <1>4 DEF JobIInv

LEMMA FinalizeKeeps == JobIInv /\ Finalize => JobIInv'
<1> SUFFICES ASSUME JobIInv, Finalize PROVE JobIInv'
    OBVIOUS
<1>1. Typed'
    BY OpKinds DEF JobIInv, Typed, limits, Finalize, At, Advance, saved, request, OpType, CaType
<1>2. InOrder'
    BY DEF JobIInv, InOrder, Finalize, saved, request
<1>3. RecordsKnown'
    BY DEF JobIInv, RecordsKnown, Owed, Finalize, saved, request
<1>4. Underway'
    BY Idle DEF JobIInv, Underway, Finalize, At, Advance, saved, request
<1>5. QED
    BY <1>1, <1>2, <1>3, <1>4 DEF JobIInv

LEMMA FinishCertificateKeeps == JobIInv /\ FinishCertificate => JobIInv'
<1> SUFFICES ASSUME JobIInv, FinishCertificate PROVE JobIInv'
    OBVIOUS
<1>1. Typed'
    BY ConstrainedWaits DEF JobIInv, Typed, limits, FinishCertificate, End, remote, IssuanceStates
<1>2. InOrder'
    BY DEF JobIInv, InOrder, Underway, FinishCertificate, At
<1>3. RecordsKnown'
    BY DEF JobIInv, RecordsKnown, Owed, FinishCertificate, remote
<1>4. Underway'
    BY Idle DEF Underway, DnsMode, FinishCertificate, End
<1>5. QED
    BY <1>1, <1>2, <1>3, <1>4 DEF JobIInv

LEMMA CaValidatesKeeps == JobIInv /\ CaValidates => JobIInv'
<1> SUFFICES ASSUME JobIInv, CaValidates PROVE JobIInv'
    OBVIOUS
<1>1. Typed'
    BY DEF JobIInv, Typed, limits, CaValidates, saved, request, CaType
<1>2. InOrder'
    BY DEF JobIInv, InOrder, CaValidates, saved, request
<1>3. RecordsKnown'
    BY DEF JobIInv, RecordsKnown, Owed, CaValidates, saved, request
<1>4. Underway'
    BY DEF JobIInv, Underway, CaValidates, saved, request
<1>5. QED
    BY <1>1, <1>2, <1>3, <1>4 DEF JobIInv

LEMMA CaIssuesKeeps == JobIInv /\ CaIssues => JobIInv'
<1> SUFFICES ASSUME JobIInv, CaIssues PROVE JobIInv'
    OBVIOUS
<1>1. Typed'
    BY DEF JobIInv, Typed, limits, CaIssues, saved, request, CaType
<1>2. InOrder'
    BY DEF JobIInv, InOrder, CaIssues, saved, request
<1>3. RecordsKnown'
    BY DEF JobIInv, RecordsKnown, Owed, CaIssues, saved, request
<1>4. Underway'
    BY DEF JobIInv, Underway, CaIssues, saved, request
<1>5. QED
    BY <1>1, <1>2, <1>3, <1>4 DEF JobIInv

LEMMA WaitOverKeeps == JobIInv /\ WaitOver => JobIInv'
<1> SUFFICES ASSUME JobIInv, WaitOver PROVE JobIInv'
    OBVIOUS
<1>1. Typed'
    BY DEF JobIInv, Typed, limits, WaitOver, Waits, request, remote
<1>2. InOrder'
    BY DEF JobIInv, InOrder, WaitOver, request
<1>3. RecordsKnown'
    BY DEF JobIInv, RecordsKnown, Owed, WaitOver, request, remote
<1>4. Underway'
    BY DEF JobIInv, Underway, WaitOver, request, remote
<1>5. QED
    BY <1>1, <1>2, <1>3, <1>4 DEF JobIInv

LEMMA ReadingDueKeeps == JobIInv /\ ReadingDue => JobIInv'
<1> SUFFICES ASSUME JobIInv, ReadingDue PROVE JobIInv'
    OBVIOUS
<1>1. Typed'
    BY DEF JobIInv, Typed, limits, ReadingDue, request, remote, TimingType
<1>2. InOrder'
    BY DEF JobIInv, InOrder, ReadingDue, request
<1>3. RecordsKnown'
    BY DEF JobIInv, RecordsKnown, Owed, ReadingDue, request, remote
<1>4. Underway'
    BY DEF JobIInv, Underway, ReadingDue, request, remote
<1>5. QED
    BY <1>1, <1>2, <1>3, <1>4 DEF JobIInv

LEMMA RenewalDueKeeps == JobIInv /\ RenewalDue => JobIInv'
<1> SUFFICES ASSUME JobIInv, RenewalDue PROVE JobIInv'
    OBVIOUS
<1>1. Typed'
    BY DEF JobIInv, Typed, limits, RenewalDue, request, remote, TimingType
<1>2. InOrder'
    BY DEF JobIInv, InOrder, RenewalDue, request
<1>3. RecordsKnown'
    BY DEF JobIInv, RecordsKnown, Owed, RenewalDue, request, remote
<1>4. Underway'
    BY DEF JobIInv, Underway, RenewalDue, request, remote
<1>5. QED
    BY <1>1, <1>2, <1>3, <1>4 DEF JobIInv

LEMMA OperatorReadsTimingKeeps == JobIInv /\ OperatorReadsTiming => JobIInv'
<1> SUFFICES ASSUME JobIInv, OperatorReadsTiming PROVE JobIInv'
    OBVIOUS
<1>1. Typed'
    <2>1. timing' \in TimingType
        BY KnownTimes DEF JobIInv, OperatorReadsTiming
    <2>2. job' \in JobType
        BY DEF JobIInv, Typed, limits, OperatorReadsTiming, Yields, JobType
    <2>3. QED
        BY <2>1, <2>2 DEF JobIInv, Typed, limits, OperatorReadsTiming, saved, request, remote
<1>2. InOrder'
    BY DEF JobIInv, InOrder, OperatorReadsTiming, Known, request
<1>3. RecordsKnown'
    BY DEF JobIInv, RecordsKnown, Owed, OperatorReadsTiming, Yields, request, remote
<1>4. Underway'
    BY DEF JobIInv, Underway, OperatorReadsTiming, request, remote
<1>5. QED
    BY <1>1, <1>2, <1>3, <1>4 DEF JobIInv

LEMMA OperatorClosesKeeps == JobIInv /\ OperatorCloses => JobIInv'
<1> SUFFICES ASSUME JobIInv, OperatorCloses PROVE JobIInv'
    OBVIOUS
<1>1. Typed'
    <2>1. order' \in OrderType /\ ca' \in CaType /\ issuance' \in IssuanceStates
        BY DEF OperatorCloses, Reset, NoOrder, NoCa, OrderType, OrderStates, CaType, IssuanceStates
    <2>2. job' \in JobType
        BY DEF JobIInv, Typed, limits, OperatorCloses, Yields, JobType
    <2>3. DOMAIN rows' = {}
        BY DEF OperatorCloses, Reset
    <2>4. room' \in 0 .. MaxRoom
        BY RoomUsed DEF OperatorCloses
    <2>5. QED
        BY <2>1, <2>2, <2>3, <2>4 DEF JobIInv, Typed, OperatorCloses, Reset
<1>2. InOrder'
    BY DEF JobIInv, InOrder, OperatorCloses, Reset
<1>3. RecordsKnown'
    BY DEF JobIInv, RecordsKnown, OperatorCloses, Reset, Available, Closable
<1>4. Underway'
    BY Idle DEF Underway, DnsMode, OperatorCloses
<1>5. QED
    BY <1>1, <1>2, <1>3, <1>4 DEF JobIInv

LEMMA ExpiresStuckKeeps == JobIInv /\ ExpiresStuck => JobIInv'
<1> SUFFICES ASSUME JobIInv, ExpiresStuck PROVE JobIInv'
    OBVIOUS
<1>1. Typed'
    BY DEF JobIInv, Typed, limits, ExpiresStuck, Expires, remote
<1>2. InOrder'
    BY DEF JobIInv, InOrder, ExpiresStuck, Expires
<1>3. RecordsKnown'
    BY DEF JobIInv, RecordsKnown, Owed, ExpiresStuck, Expires, remote
<1>4. Underway'
    BY DEF JobIInv, Underway, ExpiresStuck, Expires, remote
<1>5. QED
    BY <1>1, <1>2, <1>3, <1>4 DEF JobIInv

LEMMA ExpiresEarlyKeeps == JobIInv /\ ExpiresEarly => JobIInv'
<1> SUFFICES ASSUME JobIInv, ExpiresEarly PROVE JobIInv'
    OBVIOUS
<1>1. Typed'
    BY JobAssumption DEF JobIInv, Typed, limits, ExpiresEarly, Expires, remote
<1>2. InOrder'
    BY DEF JobIInv, InOrder, ExpiresEarly, Expires
<1>3. RecordsKnown'
    BY DEF JobIInv, RecordsKnown, Owed, ExpiresEarly, Expires, remote
<1>4. Underway'
    BY DEF JobIInv, Underway, ExpiresEarly, Expires, remote
<1>5. QED
    BY <1>1, <1>2, <1>3, <1>4 DEF JobIInv

LEMMA CrashKeeps == JobIInv /\ Crash => JobIInv'
<1> SUFFICES ASSUME JobIInv, Crash PROVE JobIInv'
    OBVIOUS
<1>1. Typed'
    <2>1. job' \in JobType /\ troubles' \in 0 .. MaxTroubles
        BY JobAssumption DEF JobIInv, Typed, Crash, Trouble, NoJob, JobType
    <2>2. QED
        BY <2>1 DEF JobIInv, Typed, limits, Crash, End, saved, request, remote
<1>2. InOrder'
    BY DEF JobIInv, InOrder, Crash, saved, request
<1>3. RecordsKnown'
    BY DEF JobIInv, RecordsKnown, Owed, Crash, NoJob, saved, request, remote
<1>4. Underway'
    BY Idle DEF Underway, DnsMode, Crash, End
<1>5. QED
    BY <1>1, <1>2, <1>3, <1>4 DEF JobIInv

LEMMA CaRefusesKeeps == JobIInv /\ CaRefuses => JobIInv'
<1> SUFFICES ASSUME JobIInv, CaRefuses PROVE JobIInv'
    OBVIOUS
<1>1. Typed'
    BY JobAssumption DEF JobIInv, Typed, limits, CaRefuses, Trouble, saved, request, CaType
<1>2. InOrder'
    BY DEF JobIInv, InOrder, CaRefuses, saved, request
<1>3. RecordsKnown'
    BY DEF JobIInv, RecordsKnown, Owed, CaRefuses, saved, request
<1>4. Underway'
    BY DEF JobIInv, Underway, CaRefuses, saved, request
<1>5. QED
    BY <1>1, <1>2, <1>3, <1>4 DEF JobIInv

LEMMA FillsUpKeeps == JobIInv /\ FillsUp => JobIInv'
<1> SUFFICES ASSUME JobIInv, FillsUp PROVE JobIInv'
    OBVIOUS
<1>1. Typed'
    BY JobAssumption DEF JobIInv, Typed, limits, FillsUp, Trouble, request, remote
<1>2. InOrder'
    BY DEF JobIInv, InOrder, FillsUp, request
<1>3. RecordsKnown'
    BY DEF JobIInv, RecordsKnown, Owed, FillsUp, request, remote
<1>4. Underway'
    BY DEF JobIInv, Underway, FillsUp, request, remote
<1>5. QED
    BY <1>1, <1>2, <1>3, <1>4 DEF JobIInv

LEMMA LapsesKeeps == JobIInv /\ Lapses => JobIInv'
<1> SUFFICES ASSUME JobIInv, Lapses PROVE JobIInv'
    OBVIOUS
<1>1. Typed'
    BY JobAssumption DEF JobIInv, Typed, limits, Lapses, Trouble, request, remote
<1>2. InOrder'
    BY DEF JobIInv, InOrder, Lapses, request
<1>3. RecordsKnown'
    BY DEF JobIInv, RecordsKnown, Owed, Lapses, request, remote
<1>4. Underway'
    BY DEF JobIInv, Underway, Lapses, request, remote
<1>5. QED
    BY <1>1, <1>2, <1>3, <1>4 DEF JobIInv

LEMMA OperatorSettlesKeeps ==
    ASSUME NEW o \in Obstacles, JobIInv, OperatorSettles(o)
    PROVE  JobIInv'
<1>1. Typed'
    <2>1. job' \in JobType
        BY DEF JobIInv, Typed, limits, OperatorSettles, Yields, JobType
    <2>2. QED
        BY <2>1, JobAssumption DEF JobIInv, Typed, limits, OperatorSettles, request, remote
<1>2. InOrder'
    BY DEF JobIInv, InOrder, OperatorSettles, request
<1>3. RecordsKnown'
    BY DEF JobIInv, RecordsKnown, Owed, OperatorSettles, Yields, request, remote
<1>4. Underway'
    BY DEF JobIInv, Underway, OperatorSettles, request, remote
<1>5. QED
    BY <1>1, <1>2, <1>3, <1>4 DEF JobIInv

LEMMA ObstructsKeeps ==
    ASSUME NEW o \in Obstacles, JobIInv, Obstructs(o)
    PROVE  JobIInv'
<1>1. Typed'
    <2>1. job' \in JobType
        BY DEF JobIInv, Typed, limits, Obstructs, Yields, JobType
    <2>2. QED
        BY <2>1, JobAssumption DEF JobIInv, Typed, limits, Obstructs, Trouble, request, remote
<1>2. InOrder'
    BY DEF JobIInv, InOrder, Obstructs, request
<1>3. RecordsKnown'
    BY DEF JobIInv, RecordsKnown, Owed, Obstructs, Yields, request, remote
<1>4. Underway'
    BY DEF JobIInv, Underway, Obstructs, request, remote
<1>5. QED
    BY <1>1, <1>2, <1>3, <1>4 DEF JobIInv

LEMMA CloseRequestKeeps == JobIInv /\ CloseRequest => JobIInv'
<1> SUFFICES ASSUME JobIInv, CloseRequest PROVE JobIInv'
    OBVIOUS
<1>1. op = NoOp /\ op' = NoOp /\ job' \in JobType /\ job'.state = "waiting"
    BY Taken DEF CloseRequest, Actions
<1>2. zone = {}
    BY DEF CloseRequest, Available, Closable, JobIInv, RecordsKnown
<1>3. Typed'
    <2>1. order' \in OrderType /\ ca' \in CaType /\ issuance' \in IssuanceStates
        BY DEF CloseRequest, Reset, NoOrder, NoCa, OrderType, OrderStates, CaType, IssuanceStates
    <2>2. DOMAIN rows' = {}
        BY DEF CloseRequest, Reset
    <2>3. room' \in 0 .. MaxRoom
        BY RoomUsed DEF CloseRequest
    <2>4. QED
        BY <1>1, <2>1, <2>2, <2>3 DEF JobIInv, Typed, CloseRequest, Reset
<1>4. InOrder'
    BY DEF JobIInv, InOrder, CloseRequest, Reset
<1>5. RecordsKnown'
    BY <1>2 DEF CloseRequest, Reset, RecordsKnown
<1>6. Underway'
    BY <1>1, Idle DEF Underway, DnsMode
<1>7. QED
    BY <1>3, <1>4, <1>5, <1>6 DEF JobIInv

\* The states that a record ends up in, without attempts and waits.
LEMMA NewRows == \A s \in RowStates : [NewRow EXCEPT !.state = s] \in RowType
<1>1. 0 \in 0 .. MaxTries
    BY JobAssumption
<1>2. NewRow \in RowType
    BY <1>1 DEF NewRow, RowType, RowStates
<1>3. QED
    BY <1>2 DEF RowType

LEMMA PreparePlanKeeps == JobIInv /\ PreparePlan => JobIInv'
<1> SUFFICES ASSUME JobIInv, PreparePlan PROVE JobIInv'
    OBVIOUS
<1>1. op = NoOp /\ op' = NoOp /\ job' \in JobType /\ job'.state = "waiting"
    BY Taken DEF PreparePlan, Actions
<1>2. zone = {}
    <2>1. Accepts(Do("dns-plan")) /\ Do("dns-plan").action = "dns-plan"
        BY DoFacts DEF PreparePlan
    <2>2. DOMAIN rows = {}
        BY <2>1, Zenon DEF Accepts, DnsMode
    <2>3. QED
        BY <2>2 DEF JobIInv, RecordsKnown
<1>3. rows' = [i \in Rows |-> NewRow] /\ NewRow \in RowType
    BY JobAssumption DEF PreparePlan, NewRow, RowType, RowStates
<1>4. Typed'
    BY <1>1, <1>3 DEF JobIInv, Typed, limits, PreparePlan, remote
<1>5. InOrder'
    BY DEF JobIInv, InOrder, PreparePlan
<1>6. RecordsKnown'
    BY <1>1, <1>2, <1>3 DEF PreparePlan, remote, RecordsKnown, NewRow
<1>7. Underway'
    BY <1>1, Idle DEF Underway, DnsMode
<1>8. QED
    BY <1>4, <1>5, <1>6, <1>7 DEF JobIInv

LEMMA AcknowledgeKeeps == JobIInv /\ Acknowledge => JobIInv'
<1> SUFFICES ASSUME JobIInv, Acknowledge PROVE JobIInv'
    OBVIOUS
<1>1. op = NoOp /\ op' = NoOp /\ job' \in JobType /\ job'.state = "waiting"
    BY Taken DEF Acknowledge, Actions
<1>2. order.state = "dns-ready"
    <2>1. Accepts(Do("ack")) /\ Do("ack").action = "ack"
        BY DoFacts DEF Acknowledge
    <2>2. QED
        BY <2>1, Zenon DEF Accepts, DnsMode
<1>3. Typed'
    BY <1>1 DEF JobIInv, Typed, limits, Acknowledge, OrderType, OrderStates, remote
<1>4. InOrder'
    BY <1>2 DEF JobIInv, InOrder, Acknowledge
<1>5. RecordsKnown'
    BY <1>1 DEF JobIInv, RecordsKnown, Owed, Acknowledge, remote
<1>6. Underway'
    BY <1>1, Idle DEF Underway, DnsMode
<1>7. QED
    BY <1>3, <1>4, <1>5, <1>6 DEF JobIInv

LEMMA PrepareKeyKeeps == JobIInv /\ PrepareKey => JobIInv'
<1> SUFFICES ASSUME JobIInv, PrepareKey PROVE JobIInv'
    OBVIOUS
<1>1. op = NoOp /\ op' = NoOp /\ job' \in JobType /\ job'.state = "waiting"
    BY Taken DEF PrepareKey, Actions
<1>2. Typed'
    BY <1>1 DEF JobIInv, Typed, limits, PrepareKey, remote
<1>3. InOrder'
    BY DEF JobIInv, InOrder, PrepareKey
<1>4. RecordsKnown'
    BY <1>1 DEF JobIInv, RecordsKnown, Owed, PrepareKey, remote
<1>5. Underway'
    BY <1>1, Idle DEF Underway, DnsMode
<1>6. QED
    BY <1>2, <1>3, <1>4, <1>5 DEF JobIInv

LEMMA BeginTimingKeeps == JobIInv /\ BeginTiming => JobIInv'
<1> SUFFICES ASSUME JobIInv, BeginTiming PROVE JobIInv'
    OBVIOUS
<1>1. /\ job' \in JobType /\ job'.state = "waiting"
      /\ op' \in OpType /\ op'.action = "timing"
    BY Begun DEF BeginTiming, Actions, Polls
<1>2. Typed'
    BY <1>1 DEF JobIInv, Typed, limits, BeginTiming, TimingType, request, remote
<1>3. InOrder'
    BY DEF JobIInv, Typed, InOrder, BeginTiming, TimingType, request
<1>4. RecordsKnown'
    BY <1>1 DEF JobIInv, RecordsKnown, Owed, BeginTiming, request, remote
<1>5. Underway'
    BY <1>1 DEF Underway, DnsMode
<1>6. QED
    BY <1>2, <1>3, <1>4, <1>5 DEF JobIInv

LEMMA BeginOrderKeeps == JobIInv /\ BeginOrder => JobIInv'
<1> SUFFICES ASSUME JobIInv, BeginOrder PROVE JobIInv'
    OBVIOUS
<1>1. /\ job' \in JobType /\ job'.state = "waiting" /\ Chosen.action = "order" /\ Fits(Chosen)
      /\ op' \in OpType /\ op'.action = "order"
    BY Begun DEF BeginOrder, Actions
<1>2. order.state = "not-started"
    BY DEF BeginOrder, AcceptsCa
<1>3. Typed'
    BY <1>1 DEF JobIInv, Typed, limits, BeginOrder, OrderType, OrderStates, remote
<1>4. InOrder'
    BY <1>2 DEF JobIInv, InOrder, BeginOrder
<1>5. RecordsKnown'
    BY <1>1 DEF JobIInv, RecordsKnown, Owed, BeginOrder, remote
<1>6. Underway'
    <2>1. ~superseded'
        BY <1>1 DEF Fits, BeginOrder
    <2>2. QED
        BY <1>1, <2>1 DEF Underway, DnsMode
<1>7. QED
    BY <1>3, <1>4, <1>5, <1>6 DEF JobIInv

LEMMA BeginOrderReadKeeps == JobIInv /\ BeginOrderRead => JobIInv'
<1> SUFFICES ASSUME JobIInv, BeginOrderRead PROVE JobIInv'
    OBVIOUS
<1>1. /\ job' \in JobType /\ job'.state = "waiting"
      /\ op' \in OpType /\ op'.action = "order-read"
    BY Begun DEF BeginOrderRead, Actions
<1>2. Typed'
    BY <1>1 DEF JobIInv, Typed, limits, BeginOrderRead, saved, request, remote
<1>3. InOrder'
    BY DEF JobIInv, InOrder, BeginOrderRead, saved, request
<1>4. RecordsKnown'
    BY <1>1 DEF JobIInv, RecordsKnown, Owed, BeginOrderRead, saved, request, remote
<1>5. Underway'
    BY <1>1 DEF Underway, DnsMode
<1>6. QED
    BY <1>2, <1>3, <1>4, <1>5 DEF JobIInv

LEMMA BeginValidationKeeps ==
    ASSUME NEW a \in {"validate", "validation-read"}, JobIInv, BeginValidation(a)
    PROVE  JobIInv'
<1>1. /\ job' \in JobType /\ job'.state = "waiting" /\ Chosen.action = a /\ Fits(Chosen)
      /\ op' \in OpType /\ op'.action = a
    BY Begun DEF BeginValidation, Actions, Polls
<1>2. issuance = "not-started"
    BY DEF BeginValidation, AcceptsCa
<1>3. Typed'
    BY <1>1 DEF JobIInv, Typed, limits, BeginValidation, OrderType, OrderStates, remote
<1>4. InOrder'
    BY <1>2 DEF JobIInv, InOrder, BeginValidation
<1>5. RecordsKnown'
    BY <1>1 DEF JobIInv, RecordsKnown, Owed, BeginValidation, remote
<1>6. Underway'
    <2>1. issuance' = "not-started"
        BY <1>2 DEF BeginValidation
    <2>2. a = "validate" =>
              /\ order'.required => DOMAIN rows' = Rows
              /\ \A i \in DOMAIN rows' : rows'[i].state \in {"created", "borrowed"}
        BY <1>1 DEF Fits, BeginValidation, JobIInv, Typed, OrderType
    <2>3. QED
        BY <1>1, <2>1, <2>2 DEF Underway, DnsMode
<1>7. QED
    BY <1>3, <1>4, <1>5, <1>6 DEF JobIInv

LEMMA BeginCertificateKeeps ==
    ASSUME NEW a \in {"certificate", "certificate-read"}, JobIInv, BeginCertificate(a)
    PROVE  JobIInv'
<1>1. /\ job' \in JobType /\ job'.state = "waiting"
      /\ op' \in OpType /\ op'.action = a
    BY Begun DEF BeginCertificate, Actions, Polls
<1>2. order.state = "domain-verified" /\ key
    <2>1. CASE a = "certificate"
        BY <2>1 DEF BeginCertificate, AcceptsCa
    <2>2. CASE a = "certificate-read"
        <3>1. issuance # "not-started"
            BY <2>2 DEF BeginCertificate, AcceptsCa
        <3>2. QED
            BY <3>1 DEF JobIInv, InOrder
    <2>3. QED
        BY <2>1, <2>2
<1>3. Typed'
    BY <1>1 DEF JobIInv, Typed, limits, BeginCertificate, IssuanceStates, remote
<1>4. InOrder'
    BY <1>2 DEF JobIInv, InOrder, BeginCertificate
<1>5. RecordsKnown'
    BY <1>1 DEF JobIInv, RecordsKnown, Owed, BeginCertificate, remote
<1>6. Underway'
    BY <1>1, <1>2 DEF Underway, DnsMode, BeginCertificate
<1>7. QED
    BY <1>3, <1>4, <1>5, <1>6 DEF JobIInv

LEMMA BeginDnsKeeps ==
    ASSUME NEW m \in DnsMode, JobIInv, BeginDns(m)
    PROVE  JobIInv'
<1> DEFINE r == Chosen.row
           st == CASE m = "dns-add" -> "creating"
                   [] m = "dns-cleanup" -> "deleting"
                   [] OTHER -> rows[r].state
<1>1. /\ job' \in JobType /\ job'.state = "waiting"
      /\ op' \in OpType /\ op'.action = m /\ op'.row = r
    BY Begun DEF BeginDns, Actions
<1>2. AcceptsDns(m, r)
    BY DEF BeginDns
<1>3. r \in DOMAIN rows /\ rows[r].tries < MaxTries /\ rows[r] \in RowType
    BY <1>2 DEF AcceptsDns, JobIInv, Typed
<1>4. \/ m = "dns-add" /\ rows[r].state = "new" /\ st = "creating"
      \/ m = "dns-cleanup" /\ rows[r].state = "created" /\ st = "deleting"
      \/ m = "dns-check" /\ rows[r].state \in {"creating", "deleting"} /\ st = rows[r].state
    BY <1>2 DEF AcceptsDns, DnsMode
<1>5. st \in {"creating", "deleting"}
    BY <1>4
<1> DEFINE x == [state |-> st, tries |-> rows[r].tries + 1, held |-> TRUE, blocked |-> FALSE]
<1>6. rows' = [rows EXCEPT ![r] = x]
    BY <1>3 DEF BeginDns
<1>7. x.state = st /\ x \in RowType
    <2>1. rows[r].tries + 1 \in 0 .. MaxTries
        BY <1>3, JobAssumption DEF RowType
    <2> HIDE DEF st
    <2>2. QED
        BY <1>5, <2>1 DEF RowType, RowStates
<1> HIDE DEF x, st, r
<1>8. /\ DOMAIN rows' = DOMAIN rows /\ rows'[r] = x
      /\ \A i \in DOMAIN rows : i # r => rows'[i] = rows[i]
    BY <1>3, <1>6 DEF JobIInv, Typed
<1>9. Typed'
    <2>1. \A i \in DOMAIN rows' : rows'[i] \in RowType
        BY <1>7, <1>8 DEF JobIInv, Typed
    <2>2. QED
        BY <1>1, <1>8, <2>1 DEF JobIInv, Typed, limits, BeginDns, remote
<1>10. InOrder'
    BY DEF JobIInv, InOrder, BeginDns
<1>11. RecordsKnown'
    BY <1>1, <1>5, <1>7, <1>8 DEF JobIInv, RecordsKnown, Owed, BeginDns, remote
<1>12. Underway'
    <2>1. m = "dns-add" => r \notin zone'
        BY <1>4 DEF JobIInv, RecordsKnown, Owed, BeginDns, remote
    <2>2. m = "dns-add" => rows'[r].state = "creating"
        BY <1>4, <1>7, <1>8
    <2>3. m = "dns-cleanup" => rows'[r].state = "deleting"
        BY <1>4, <1>7, <1>8
    <2>4. r \in DOMAIN rows' /\ rows'[r].state \in {"creating", "deleting"}
        BY <1>3, <1>5, <1>7, <1>8
    <2>5. QED
        BY <1>1, <2>1, <2>2, <2>3, <2>4 DEF Underway, DnsMode
<1>13. QED
    BY <1>9, <1>10, <1>11, <1>12 DEF JobIInv

LEMMA FinishDnsKeeps == JobIInv /\ FinishDns => JobIInv'
<1> SUFFICES ASSUME JobIInv, FinishDns PROVE JobIInv'
    OBVIOUS
<1> DEFINE r == op.row
<1>1. op # NoOp /\ op' = NoOp /\ job' = job /\ job.state = "waiting" /\ zone' = zone
    BY Idle DEF FinishDns, End, JobIInv, Underway, remote
<1>2. r \in DOMAIN rows /\ rows[r].state \in {"creating", "deleting"}
    BY DEF JobIInv, Underway, FinishDns, DnsMode
<1>3. PICK x \in RowType :
          /\ DOMAIN rows' = DOMAIN rows /\ rows'[r] = x
          /\ \A i \in DOMAIN rows : i # r => rows'[i] = rows[i]
          /\ r \in zone => x.state \in {"created", "creating", "deleting"}
          /\ x.state = "created" => r \in zone
          /\ x.held => x.state \in {"creating", "deleting"}
    <2>1. CASE rows[r].state = "creating" /\ r \in zone
        <3>1. rows' = [rows EXCEPT ![r] = [NewRow EXCEPT !.state = "created"]]
            BY <2>1 DEF FinishDns
        <3>2. [NewRow EXCEPT !.state = "created"] \in RowType
            BY NewRows DEF RowStates
        <3>3. QED
            BY <1>2, <2>1, <3>1, <3>2 DEF NewRow
    <2>2. CASE rows[r].state = "deleting" /\ r \notin zone
        <3>1. rows' = [rows EXCEPT ![r] = [NewRow EXCEPT !.state = "deleted"]]
            BY <2>2 DEF FinishDns
        <3>2. [NewRow EXCEPT !.state = "deleted"] \in RowType
            BY NewRows DEF RowStates
        <3>3. QED
            BY <1>2, <2>2, <3>1, <3>2 DEF NewRow
    <2>3. CASE /\ ~(rows[r].state = "creating" /\ r \in zone)
               /\ ~(rows[r].state = "deleting" /\ r \notin zone)
        <3>1. rows' = rows
            BY <2>3 DEF FinishDns
        <3>2. rows[r] \in RowType /\ (rows[r].held => rows[r].state \in {"creating", "deleting"})
            BY <1>2 DEF JobIInv, Typed
        <3>3. QED
            BY <1>2, <3>1, <3>2
    <2>4. QED
        BY <2>1, <2>2, <2>3
<1> HIDE DEF r
<1>4. Typed'
    <2>1. \A i \in DOMAIN rows' : rows'[i] \in RowType
        BY <1>3 DEF JobIInv, Typed
    <2>2. QED
        BY <1>1, <1>3, <2>1 DEF JobIInv, Typed, limits, FinishDns, remote
<1>5. InOrder'
    BY DEF JobIInv, InOrder, FinishDns
<1>6. RecordsKnown'
    BY <1>1, <1>3 DEF JobIInv, RecordsKnown, Owed
<1>7. Underway'
    BY <1>1, Idle DEF Underway, DnsMode
<1>8. QED
    BY <1>4, <1>5, <1>6, <1>7 DEF JobIInv

LEMMA BorrowKeeps == JobIInv /\ Borrow => JobIInv'
<1> SUFFICES ASSUME JobIInv, Borrow PROVE JobIInv'
    OBVIOUS
<1> DEFINE r == op.row
           x == [NewRow EXCEPT !.state = "borrowed"]
<1>1. op' = NoOp /\ job' = job /\ zone' = zone
    BY DEF Borrow, End, remote
<1>2. r \in DOMAIN rows /\ r \notin zone
    BY DEF JobIInv, Underway, Borrow, At, DnsMode
<1>3. rows' = [rows EXCEPT ![r] = x]
    BY DEF Borrow
<1>4. x \in RowType /\ x.state = "borrowed" /\ ~x.held
    <2>1. x \in RowType
        BY NewRows DEF RowStates
    <2>2. QED
        BY <2>1 DEF NewRow
<1> HIDE DEF r, x
<1>5. /\ DOMAIN rows' = DOMAIN rows /\ rows'[r] = x
      /\ \A i \in DOMAIN rows : i # r => rows'[i] = rows[i]
    BY <1>2, <1>3 DEF JobIInv, Typed
<1>6. Typed'
    <2>1. \A i \in DOMAIN rows' : rows'[i] \in RowType
        BY <1>4, <1>5 DEF JobIInv, Typed
    <2>2. QED
        BY <1>1, <1>5, <2>1 DEF JobIInv, Typed, limits, Borrow, remote
<1>7. InOrder'
    BY DEF JobIInv, InOrder, Borrow
<1>8. RecordsKnown'
    BY <1>1, <1>2, <1>4, <1>5 DEF JobIInv, RecordsKnown, Owed
<1>9. Underway'
    BY <1>1, Idle DEF Underway, DnsMode
<1>10. QED
    BY <1>6, <1>7, <1>8, <1>9 DEF JobIInv

LEMMA RowWaitOverKeeps ==
    ASSUME NEW i \in Rows, JobIInv, RowWaitOver(i)
    PROVE  JobIInv'
<1> DEFINE x == [rows[i] EXCEPT !.held = FALSE]
<1>1. op = NoOp /\ op' = NoOp /\ job' = job /\ zone' = zone
    BY DEF RowWaitOver, remote
<1>2. i \in DOMAIN rows /\ rows[i] \in RowType /\ rows' = [rows EXCEPT ![i] = x]
    BY DEF RowWaitOver, JobIInv, Typed
<1>3. x \in RowType /\ x.state = rows[i].state /\ ~x.held
    BY <1>2 DEF RowType
<1> HIDE DEF x
<1>4. /\ DOMAIN rows' = DOMAIN rows /\ rows'[i] = x
      /\ \A j \in DOMAIN rows : j # i => rows'[j] = rows[j]
    BY <1>2 DEF JobIInv, Typed
<1>5. Typed'
    <2>1. \A j \in DOMAIN rows' : rows'[j] \in RowType
        BY <1>3, <1>4 DEF JobIInv, Typed
    <2>2. QED
        BY <1>1, <1>4, <2>1 DEF JobIInv, Typed, limits, RowWaitOver, remote
<1>6. InOrder'
    BY DEF JobIInv, InOrder, RowWaitOver
<1>7. RecordsKnown'
    BY <1>1, <1>3, <1>4 DEF JobIInv, RecordsKnown, Owed
<1>8. Underway'
    BY <1>1, Idle DEF Underway, DnsMode
<1>9. QED
    BY <1>5, <1>6, <1>7, <1>8 DEF JobIInv

LEMMA FailsKeeps == JobIInv /\ Fails => JobIInv'
<1> SUFFICES ASSUME JobIInv, Fails PROVE JobIInv'
    OBVIOUS
<1>1. op # NoOp /\ op' = NoOp /\ zone' = zone
    BY DEF Fails, End, remote
<1>2. job' \in JobType /\ job'.state = "paused"
    BY DEF Fails, JobIInv, Typed, JobType
<1>3. timing' \in TimingType /\ (timing'.state = "none" => ~timing'.fresh)
    BY DEF Fails, JobIInv, Typed, InOrder, TimingType
<1>4. /\ wait' \in Waits /\ DOMAIN rows' = DOMAIN rows
      /\ \A i \in DOMAIN rows : /\ rows'[i] \in RowType /\ rows'[i].state = rows[i].state
                                /\ rows'[i].held = rows[i].held
    <2>1. CASE op.action \in DnsMode
        <3>1. PICK b \in BOOLEAN : rows' = [rows EXCEPT ![op.row].blocked = b]
            BY <2>1 DEF Fails
        <3>2. op.row \in DOMAIN rows /\ \A i \in DOMAIN rows : rows[i] \in RowType
            BY <2>1 DEF JobIInv, Underway, Typed
        <3>3. wait' \in Waits
            BY <2>1 DEF Fails, JobIInv, Typed
        <3>4. QED
            BY <3>1, <3>2, <3>3 DEF RowType
    <2>2. CASE op.action \notin DnsMode
        BY <2>2, ConstrainedWaits DEF Fails, JobIInv, Typed
    <2>3. QED
        BY <2>1, <2>2
<1>5. Typed'
    <2>1. troubles' \in 0 .. MaxTroubles
        BY JobAssumption DEF Fails, Trouble, JobIInv, Typed
    <2>2. QED
        BY <1>1, <1>2, <1>3, <1>4, <2>1 DEF JobIInv, Typed, limits, Fails, remote
<1>6. InOrder'
    BY <1>3 DEF JobIInv, InOrder, Fails
<1>7. RecordsKnown'
    BY <1>1, <1>2, <1>4 DEF JobIInv, RecordsKnown, Owed
<1>8. Underway'
    BY <1>1, Idle DEF Underway, DnsMode
<1>9. QED
    BY <1>5, <1>6, <1>7, <1>8 DEF JobIInv

LEMMA InitKeeps == JobInit => JobIInv
<1> SUFFICES ASSUME JobInit PROVE JobIInv
    OBVIOUS
<1>1. Typed
    <2>1. timing \in TimingType /\ order \in OrderType /\ issuance \in IssuanceStates
        <3>1. timing \in TimingType
            BY DEF JobInit, TimingType
        <3>2. issuance \in IssuanceStates
            BY DEF JobInit, IssuanceStates
        <3>3. NoOrder \in OrderType
            BY DEF NoOrder, OrderType, OrderStates
        <3>4. [NoOrder EXCEPT !.state = "domain-verified"] \in OrderType
            BY DEF NoOrder, OrderType, OrderStates
        <3>5. QED
            BY <3>1, <3>2, <3>3, <3>4 DEF JobInit
    <2>2. job \in JobType
        <3>1. 0 \in 0 .. ActionLimit /\ 0 \in 0 .. PollLimit
            BY JobAssumption
        <3>2. QED
            BY <3>1 DEF JobInit, NoJob, JobType
    <2>3. ca \in CaType /\ op = NoOp /\ DOMAIN rows = {}
        BY DEF JobInit, NoCa, CaType
    <2>4. troubles \in 0 .. MaxTroubles
        BY JobAssumption DEF JobInit
    <2>5. obstacles \subseteq Obstacles
        BY DEF JobInit, Obstacles
    <2>6. QED
        BY <2>1, <2>2, <2>3, <2>4, <2>5 DEF JobInit, Typed
<1>2. InOrder
    BY DEF JobInit, InOrder, NoOrder
<1>3. RecordsKnown
    BY DEF JobInit, RecordsKnown
<1>4. Underway
    BY Idle DEF JobInit, Underway, DnsMode
<1>5. QED
    BY <1>1, <1>2, <1>3, <1>4 DEF JobIInv

LEMMA StutterKeeps == JobIInv /\ UNCHANGED jobVars => JobIInv'
<1> SUFFICES ASSUME JobIInv, UNCHANGED jobVars PROVE JobIInv'
    OBVIOUS
<1>1. UNCHANGED <<timing, wait, order, expired, rows, key, issuance, superseded, full, room,
                  lapsed, obstacles, job, op, ca, zone, placed, troubles>>
    BY DEF jobVars, saved, request, limits, remote
<1>2. Typed' /\ InOrder'
    BY <1>1 DEF JobIInv, Typed, limits, InOrder
<1>3. RecordsKnown'
    BY <1>1 DEF JobIInv, RecordsKnown, Owed
<1>4. Underway'
    BY <1>1 DEF JobIInv, Underway
<1>5. QED
    BY <1>2, <1>3, <1>4 DEF JobIInv

LEMMA NextKeeps == JobIInv /\ [JobNext]_jobVars => JobIInv'
<1> SUFFICES ASSUME JobIInv, [JobNext]_jobVars PROVE JobIInv'
    OBVIOUS
<1>1. CASE StartJob \/ PauseOrComplete \/ BeginTiming \/ FinishTiming \/ CloseRequest
    BY <1>1, StartJobKeeps, PauseOrCompleteKeeps, BeginTimingKeeps, FinishTimingKeeps,
       CloseRequestKeeps
<1>2. CASE BeginOrder \/ PlaceOrder \/ Checkpoint \/ BeginOrderRead \/ FinishOrder
    BY <1>2, BeginOrderKeeps, PlaceOrderKeeps, CheckpointKeeps, BeginOrderReadKeeps,
       FinishOrderKeeps
<1>3. CASE PreparePlan \/ (\E m \in DnsMode : BeginDns(m)) \/ SendDns \/ FinishDns \/ Borrow
    BY <1>3, PreparePlanKeeps, BeginDnsKeeps, SendDnsKeeps, FinishDnsKeeps, BorrowKeeps
<1>4. CASE \/ Acknowledge \/ Accept \/ FinishValidation
           \/ \E a \in {"validate", "validation-read"} : BeginValidation(a)
    BY <1>4, AcknowledgeKeeps, AcceptKeeps, FinishValidationKeeps, BeginValidationKeeps
<1>5. CASE \/ PrepareKey \/ Finalize \/ FinishCertificate
           \/ \E a \in {"certificate", "certificate-read"} : BeginCertificate(a)
    BY <1>5, PrepareKeyKeeps, FinalizeKeeps, FinishCertificateKeeps, BeginCertificateKeeps
<1>6. CASE CaValidates \/ CaIssues \/ WaitOver \/ (\E i \in Rows : RowWaitOver(i)) \/ ReadingDue
    BY <1>6, CaValidatesKeeps, CaIssuesKeeps, WaitOverKeeps, RowWaitOverKeeps, ReadingDueKeeps
<1>7. CASE RenewalDue \/ ExpiresStuck \/ OperatorCloses \/ OperatorReadsTiming
    BY <1>7, RenewalDueKeeps, ExpiresStuckKeeps, OperatorClosesKeeps, OperatorReadsTimingKeeps
<1>8. CASE Crash \/ Fails \/ CaRefuses \/ ExpiresEarly \/ FillsUp
    BY <1>8, CrashKeeps, FailsKeeps, CaRefusesKeeps, ExpiresEarlyKeeps, FillsUpKeeps
<1>9. CASE Lapses \/ \E o \in Obstacles : OperatorSettles(o) \/ Obstructs(o)
    BY <1>9, LapsesKeeps, OperatorSettlesKeeps, ObstructsKeeps
<1>10. CASE UNCHANGED jobVars
    BY <1>10, StutterKeeps
<1>11. QED
    BY <1>1, <1>2, <1>3, <1>4, <1>5, <1>6, <1>7, <1>8, <1>9, <1>10 DEF JobNext

\* Whatever fails and however often the job is started again: the saved state
\* is in order, the records in the zone are on file, and what the operation in
\* flight relies on stays true until its outcome is saved.
THEOREM JobInductive == JobSpec => []JobIInv
<1>1. JobIInv /\ [JobNext]_jobVars => JobIInv'
    BY NextKeeps
<1>2. QED
    BY InitKeeps, <1>1, PTL DEF JobSpec

----------------------------------------------------------------------------
(* What the job guarantees                                                 *)

\* The saved state is sound, and no record of a complete renewal or of a
\* request that was put aside stays in the zone.
THEOREM JobStateHolds == JobSpec => []JobState
<1>1. JobIInv => JobState
    <2> SUFFICES ASSUME JobIInv PROVE JobState
        OBVIOUS
    <2>1. JobTypeOK
        <3>1. op.action \in Actions \cup {"none"} /\ op.step \in {"idle", "begun", "sent"}
            BY Idle DEF JobIInv, Typed, OpType
        <3>2. op.action # "none" => job.state = "waiting"
            BY OpKinds DEF JobIInv, Underway
        <3>3. zone \subseteq Rows
            BY DEF JobIInv, Typed, RecordsKnown
        <3>4. /\ timing \in [state : {"none", "pending", "ari", "error"}, due : BOOLEAN,
                             fresh : BOOLEAN]
              /\ order \in [state : OrderStates, mine : BOOLEAN, required : BOOLEAN]
            BY DEF JobIInv, Typed, TimingType, OrderType
        <3>5. /\ job.state \in {"none", "waiting", "paused", "complete"}
              /\ job.actions \in 0 .. ActionLimit /\ job.polls \in [Polls -> 0 .. PollLimit]
            BY DEF JobIInv, Typed, JobType
        <3>6. \A i \in DOMAIN rows : rows[i].state \in RowStates /\ rows[i].tries \in 0 .. MaxTries
            BY DEF JobIInv, Typed, RowType
        <3>7. QED
            BY <3>1, <3>2, <3>3, <3>4, <3>5, <3>6 DEF JobTypeOK, JobIInv, Typed
    <2>2. CleanBeforeComplete
        BY DEF JobIInv, RecordsKnown, CleanBeforeComplete
    <2>3. QED
        BY <2>1, <2>2 DEF JobState
<1>2. QED
    BY JobInductive, <1>1, PTL

\* Whatever the job is about to start, the store accepts.
THEOREM ProposalAlwaysAccepted == JobSpec => []ProposalAccepted
<1>1. JobIInv => ProposalAccepted
    <2> SUFFICES ASSUME JobIInv, Chosen.action \in Actions PROVE Accepts(Chosen)
        BY DEF ProposalAccepted
    <2>1. Chosen = DecideRenewalCycle
        <3>1. Do("none").action \notin Actions
            BY Idle, DoFacts
        <3>2. QED
            BY <3>1 DEF Chosen
    <2>2. QED
        BY <2>1, Decided DEF Fits
<1>2. QED
    BY JobInductive, <1>1, PTL

\* An operation on a record begins only when none of the records waits.
LEMMA NoneHeld ==
    ASSUME JobIInv, JobNext, op = NoOp, op'.action \in DnsMode
    PROVE  \A i \in DOMAIN rows : ~rows[i].held
<1>1. CASE \E m \in DnsMode : BeginDns(m)
    <2>1. PICK m \in DnsMode : BeginDns(m)
        BY <1>1
    <2>2. Chosen.action = m /\ Fits(Chosen)
        BY <2>1, Begun DEF BeginDns, Actions
    <2>3. QED
        BY <2>2 DEF Fits
<1>2. CASE BeginTiming \/ BeginOrder \/ BeginOrderRead
    BY <1>2 DEF BeginTiming, BeginOrder, BeginOrderRead, Begin, DnsMode
<1>3. CASE \/ \E a \in {"validate", "validation-read"} : BeginValidation(a)
           \/ \E a \in {"certificate", "certificate-read"} : BeginCertificate(a)
    BY <1>3 DEF BeginValidation, BeginCertificate, Begin, DnsMode
<1>4. CASE PlaceOrder \/ SendDns \/ Accept \/ Finalize
    BY <1>4, Idle DEF PlaceOrder, SendDns, Accept, Finalize, At, Advance
<1>5. CASE op' = NoOp
    BY <1>5, Idle DEF DnsMode
<1>6. CASE Lapses \/ \E o \in Obstacles : OperatorSettles(o) \/ Obstructs(o)
    BY <1>5, <1>6 DEF Lapses, OperatorSettles, Obstructs
<1>7. QED
    BY <1>1, <1>2, <1>3, <1>4, <1>5, <1>6 DEF JobNext, StartJob, PauseOrComplete, Running, FinishTiming,
       CloseRequest, Checkpoint, FinishOrder, PreparePlan, FinishDns, Borrow, Acknowledge,
       FinishValidation, PrepareKey, FinishCertificate, CaValidates, CaIssues, WaitOver,
       RowWaitOver, ReadingDue, RenewalDue, ExpiresStuck, Expires, OperatorCloses,
       OperatorReadsTiming, Crash, Fails, CaRefuses, ExpiresEarly, FillsUp, End

\* Only Accept accepts, and the records have stayed in place since "validate"
\* was decided.
LEMMA NewAcceptance ==
    ASSUME JobIInv, JobNext, ~ca.accepted, ca'.accepted
    PROVE  /\ order.required => DOMAIN rows = Rows
           /\ \A i \in DOMAIN rows : rows[i].state = "borrowed" \/ i \in zone
<1>1. Accept
    <2>1. CASE UNCHANGED ca
        BY <2>1
    <2>2. CASE CloseRequest \/ OperatorCloses
        BY <2>2 DEF CloseRequest, OperatorCloses, Reset, NoCa
    <2>3. CASE PlaceOrder \/ FinishOrder \/ Finalize \/ CaValidates \/ CaIssues \/ CaRefuses
        <3>1. ca \in CaType
            BY DEF JobIInv, Typed
        <3>2. QED
            BY <2>3, <3>1 DEF PlaceOrder, FinishOrder, Finalize, CaValidates, CaIssues,
                              CaRefuses, CaType
    <2>4. CASE Lapses \/ \E o \in Obstacles : OperatorSettles(o) \/ Obstructs(o)
        BY <2>1, <2>4 DEF Lapses, OperatorSettles, Obstructs, remote
    <2>5. QED
        BY <2>1, <2>2, <2>3, <2>4 DEF JobNext, StartJob, PauseOrComplete, BeginTiming, FinishTiming,
           BeginOrder, Checkpoint, BeginOrderRead, PreparePlan, BeginDns, SendDns, FinishDns,
           Borrow, Acknowledge, BeginValidation, FinishValidation, PrepareKey, BeginCertificate,
           FinishCertificate, WaitOver, RowWaitOver, ReadingDue, RenewalDue, ExpiresStuck,
           Expires, OperatorReadsTiming, Crash, Fails, ExpiresEarly, FillsUp, remote
<1>2. op.action = "validate"
    BY <1>1 DEF Accept, At
<1>3. /\ order.required => DOMAIN rows = Rows
      /\ \A i \in DOMAIN rows : rows[i].state \in {"created", "borrowed"}
    BY <1>2 DEF JobIInv, Underway
<1>4. \A i \in DOMAIN rows : rows[i].state = "created" => i \in zone
    BY DEF JobIInv, RecordsKnown
<1>5. QED
    BY <1>3, <1>4

\* The order that is under way was begun before there was a successor, and
\* nothing else makes one meanwhile.
LEMMA NoSecondOrder ==
    ASSUME JobIInv, JobNext, superseded
    PROVE  placed' = placed
<1>1. ~PlaceOrder
    BY DEF JobIInv, Underway, PlaceOrder, At
<1>2. CASE Lapses \/ \E o \in Obstacles : OperatorSettles(o) \/ Obstructs(o)
    BY <1>2 DEF Lapses, OperatorSettles, Obstructs, remote
<1>3. QED
    BY <1>1, <1>2 DEF JobNext, StartJob, PauseOrComplete, BeginTiming, FinishTiming, CloseRequest,
       BeginOrder, Checkpoint, BeginOrderRead, FinishOrder, PreparePlan, BeginDns, SendDns,
       FinishDns, Borrow, Acknowledge, BeginValidation, Accept, FinishValidation, PrepareKey,
       BeginCertificate, Finalize, FinishCertificate, CaValidates, CaIssues, WaitOver,
       RowWaitOver, ReadingDue, RenewalDue, ExpiresStuck, Expires, OperatorCloses, Reset,
       OperatorReadsTiming, Crash, Fails, CaRefuses, ExpiresEarly, FillsUp, remote

\* The CA looks when the records are in place, a wait of one record holds the
\* others, and the certificate gets one successor.
THEOREM JobKeepsBounds == JobSpec => JobSteps
<1>1. JobIInv /\ [JobNext]_jobVars =>
          [~ca.accepted /\ ca'.accepted =>
               /\ order.required => DOMAIN rows = Rows
               /\ \A i \in DOMAIN rows : rows[i].state = "borrowed" \/ i \in zone]_jobVars
    BY NewAcceptance
<1>2. JobIInv /\ [JobNext]_jobVars =>
          [op = NoOp /\ op'.action \in DnsMode => \A i \in DOMAIN rows : ~rows[i].held]_jobVars
    BY NoneHeld
<1>3. JobIInv /\ [JobNext]_jobVars => [superseded => placed' = placed]_jobVars
    BY NoSecondOrder
<1>4. QED
    BY JobInductive, <1>1, <1>2, <1>3, PTL
    DEF JobSpec, JobSteps, ReadyBeforeAccept, HoldsAll, OneSuccessor
==============================================================================
