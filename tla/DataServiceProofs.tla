-------------------------- MODULE DataServiceProofs --------------------------
(***************************************************************************)
(* What persistence keys keep, the type correctness of DataService, that   *)
(* it loses nothing, and that it addresses every message to the right      *)
(* device: for any devices, references, batch size and number of restarts. *)
(***************************************************************************)
EXTENDS DataService, SequenceTheorems, WellFoundedInduction, TLAPS

-----------------------------------------------------------------------------
(* What a persistence key keeps of the two names it is made of, for names  *)
(* of any length over any characters.                                      *)

LEMMA KeyShape ==
  ASSUME NEW d \in Name, NEW r \in Name
  PROVE  LET key == MakePersistenceKey(d, r)
         IN  /\ key \in Name
             /\ Len(key) = Len(d) + 1 + Len(r)
             /\ \A i \in 1 .. Len(d) : key[i] = d[i]
             /\ key[Len(d) + 1] = Delimiter
             /\ \A i \in 1 .. Len(r) : key[Len(d) + 1 + i] = r[i]
<1>1. <<Delimiter>> \in Name
  BY DelimiterAssumption DEF Name
<1>2. d \o <<Delimiter>> \in Name
  BY <1>1 DEF Name
<1> QED
  BY <1>1, <1>2 DEF Name, MakePersistenceKey

(* A key that has a delimiter has a first one.                             *)
LEMMA FirstDelimiterExists ==
  ASSUME NEW key \in Name, DelimiterPositions(key) # {}
  PROVE  FirstDelimiter(key) \in 1 .. Len(key)
<1>1. DelimiterPositions(key) \subseteq 1 .. Len(key)
  BY DEF DelimiterPositions, Name
<1>2. DelimiterPositions(key) \subseteq Nat
  BY <1>1 DEF Name
<1> DEFINE Less == {ij \in Nat \X Nat : ij[1] < ij[2]}
<1>3. IsWellFoundedOn(Less, Nat)
  BY NatLessThanWellFounded DEF OpToRel
<1> HIDE DEF Less
<1>4. PICK i \in DelimiterPositions(key) :
        \A j \in DelimiterPositions(key) : ~(<<j, i>> \in Less)
  BY <1>2, <1>3, WFMin, Zenon
<1>5. \A j \in DelimiterPositions(key) : i <= j
  <2> SUFFICES ASSUME NEW j \in DelimiterPositions(key) PROVE i <= j
    OBVIOUS
  <2>1. i \in Nat /\ j \in Nat
    BY <1>2
  <2>2. ~(j < i)
    BY <1>4, <2>1 DEF Less
  <2> QED
    BY <2>1, <2>2
<1>6. FirstDelimiter(key) \in DelimiterPositions(key)
  BY <1>5 DEF FirstDelimiter
<1> QED
  BY <1>1, <1>6

(* The device part of any key, well formed or not, is a name.              *)
LEMMA ParseTyped ==
  ASSUME NEW key \in Name
  PROVE  ParsePersistenceKey(key).device \in Name
<1>1. CASE DelimiterPositions(key) = {}
  BY <1>1 DEF ParsePersistenceKey, NoName, Name
<1>2. CASE DelimiterPositions(key) # {}
  <2>1. FirstDelimiter(key) \in 1 .. Len(key)
    BY <1>2, FirstDelimiterExists
  <2>2. SubSeq(key, 1, FirstDelimiter(key) - 1) \in Seq(Symbol)
    BY <2>1 DEF Name
  <2> QED
    BY <1>2, <2>2 DEF ParsePersistenceKey, Name
<1> QED
  BY <1>1, <1>2

(* A device key without the delimiter and any reference come back from     *)
(* parsing as they went in; the reference may contain the delimiter.       *)
THEOREM RoundTrip ==
  ASSUME NEW d \in Name, DelimiterFree(d), NEW r \in Name
  PROVE  ParsePersistenceKey(MakePersistenceKey(d, r))
           = [device |-> d, reference |-> r]
<1> DEFINE key == MakePersistenceKey(d, r)
           pos == Len(d) + 1
<1>1. /\ key \in Name
      /\ Len(key) = Len(d) + 1 + Len(r)
      /\ \A i \in 1 .. Len(d) : key[i] = d[i]
      /\ key[pos] = Delimiter
      /\ \A i \in 1 .. Len(r) : key[pos + i] = r[i]
  BY KeyShape
<1>2. d \in Seq(Symbol) /\ r \in Seq(Symbol) /\ key \in Seq(Symbol)
  BY <1>1 DEF Name
<1> HIDE DEF key
<1>3. pos \in DelimiterPositions(key)
  BY <1>1, <1>2 DEF DelimiterPositions
<1>4. \A j \in DelimiterPositions(key) : j \in Nat /\ pos <= j
  <2> SUFFICES ASSUME NEW j \in DelimiterPositions(key), j < pos PROVE FALSE
    BY <1>2 DEF DelimiterPositions
  <2>1. j \in 1 .. Len(d) /\ key[j] = Delimiter
    BY <1>2 DEF DelimiterPositions
  <2> QED
    BY <1>1, <1>2, <2>1 DEF DelimiterFree
<1>5. FirstDelimiter(key) = pos
  BY <1>2, <1>3, <1>4 DEF FirstDelimiter
<1>6. SubSeq(key, 1, pos - 1) = d
  BY <1>1, <1>2
<1>7. SubSeq(key, pos + 1, Len(key)) = r
  BY <1>1, <1>2
<1> QED
  BY <1>3, <1>5, <1>6, <1>7 DEF ParsePersistenceKey, key

(* Two devices without the delimiter in their keys never share a           *)
(* persistence key, nor do two references of one of them.                  *)
THEOREM KeysDistinct ==
  ASSUME NEW d1 \in Name, DelimiterFree(d1), NEW r1 \in Name,
         NEW d2 \in Name, DelimiterFree(d2), NEW r2 \in Name,
         MakePersistenceKey(d1, r1) = MakePersistenceKey(d2, r2)
  PROVE  d1 = d2 /\ r1 = r2
<1>1. [device |-> d1, reference |-> r1] = [device |-> d2, reference |-> r2]
  BY RoundTrip
<1> QED
  BY <1>1

-----------------------------------------------------------------------------
(* Keys and boxes.                                                         *)

LEMMA KeyTyped ==
  ASSUME NEW kind \in Kinds, NEW d \in Devices, NEW r \in References
  PROVE  KeyOf(kind, d, r) \in Keys
BY DEF Keys

LEMMA KeysAreNames == Keys \subseteq Name
<1> SUFFICES ASSUME NEW kind \in Kinds, NEW d \in Devices, NEW r \in References
             PROVE  KeyOf(kind, d, r) \in Name
  BY DEF Keys
<1>1. d \in Name /\ r \in Name
  BY NamesAssumption
<1>2. MakePersistenceKey(d, r) \in Name
  BY <1>1, KeyShape
<1> QED
  BY <1>1, <1>2 DEF KeyOf

(* A configuration is filed under the bare device key.                     *)
LEMMA DeviceIsKey ==
  ASSUME NEW d \in Devices
  PROVE  d \in Keys
<1>1. PICK r \in References : TRUE
  BY NamesAssumption
<1>2. KeyOf("configuration", d, r) = d
  BY DEF KeyOf
<1>3. "configuration" \in Kinds
  BY DEF Kinds, SlotKinds
<1> QED
  BY <1>1, <1>2, <1>3, KeyTyped

LEMMA AddresseeTyped ==
  ASSUME NEW kind \in Kinds, NEW key \in Keys
  PROVE  Addressee(kind, key) \in Name
<1>1. key \in Name
  BY KeysAreNames
<1>2. ParsePersistenceKey(key).device \in Name
  BY <1>1, ParseTyped
<1> QED
  BY <1>1, <1>2 DEF Addressee

(* Setting one box of a table changes that box and no other.               *)
LEMMA SetBox ==
  ASSUME NEW S, NEW f \in PerKey(S), NEW kind \in Kinds, NEW key \in Keys, NEW x \in S
  PROVE  LET g == [f EXCEPT ![kind][key] = x]
         IN  /\ g \in PerKey(S)
             /\ g[kind][key] = x
             /\ \A k2 \in Kinds, key2 \in Keys :
                  ~(k2 = kind /\ key2 = key) => g[k2][key2] = f[k2][key2]
BY DEF PerKey

LEMMA BoxTyped ==
  ASSUME NEW S, NEW f \in PerKey(S), NEW kind \in Kinds, NEW key \in Keys
  PROVE  f[kind][key] \in S
BY DEF PerKey

LEMMA BatchSizePositive ==
  ASSUME NEW kind \in Kinds
  PROVE  BatchSizeOf(kind) \in Nat /\ BatchSizeOf(kind) >= 1
BY BoundsAssumption DEF BatchSizeOf

(* What is fetched is the front of the box, what is left the rest of it.   *)
LEMMA BatchAndRest ==
  ASSUME NEW kind \in Kinds, NEW key \in Keys, persisted \in PerKey(Seq(Item))
  PROVE  LET s == persisted[kind][key]
             L == BatchLength(kind, key)
             rest == SubSeq(s, L + 1, Len(s))
         IN  /\ L \in Nat
             /\ L <= Len(s)
             /\ s # <<>> => L >= 1
             /\ Batch(kind, key) \in Seq(Item)
             /\ Len(Batch(kind, key)) = L
             /\ \A i \in 1 .. L : Batch(kind, key)[i] = s[i]
             /\ rest \in Seq(Item)
             /\ Len(rest) = Len(s) - L
             /\ \A i \in 1 .. Len(rest) : rest[i] = s[L + i]
<1> DEFINE s == persisted[kind][key]
           L == BatchLength(kind, key)
<1>1. s \in Seq(Item)
  BY BoxTyped
<1>2. BatchSizeOf(kind) \in Nat /\ BatchSizeOf(kind) >= 1
  BY BatchSizePositive
<1>3. L \in Nat /\ L <= Len(s)
  BY <1>1, <1>2 DEF BatchLength
<1>4. s # <<>> => L >= 1
  BY <1>1, <1>2 DEF BatchLength
<1>5. Batch(kind, key) = SubSeq(s, 1, L)
  BY DEF Batch
<1> HIDE DEF s, L
<1>6. /\ SubSeq(s, 1, L) \in Seq(Item)
      /\ Len(SubSeq(s, 1, L)) = L
      /\ \A i \in 1 .. L : SubSeq(s, 1, L)[i] = s[i]
  BY <1>1, <1>3
<1>7. /\ SubSeq(s, L + 1, Len(s)) \in Seq(Item)
      /\ Len(SubSeq(s, L + 1, Len(s))) = Len(s) - L
      /\ \A i \in 1 .. Len(s) - L : SubSeq(s, L + 1, Len(s))[i] = s[L + i]
  BY <1>1, <1>3
<1> QED
  BY <1>3, <1>4, <1>5, <1>6, <1>7 DEF s, L

-----------------------------------------------------------------------------
(* Type correctness.                                                       *)

LEMMA TypeInit == Init => TypeOK
<1> SUFFICES ASSUME Init PROVE TypeOK
  OBVIOUS
<1>1. /\ persisted \in PerKey(Seq(Item))
      /\ accepted \in PerKey(Nat)
      /\ delivered \in PerKey(Seq(Delivery))
      /\ discarded \in PerKey(SUBSET Numbers)
  BY DEF Init, PerKey
<1>2. worker \in Worker /\ worker.pc = "idle"
  BY DEF Init, Idle, Worker, Kinds, ListKinds
<1>3. \A kind \in SlotKinds, key \in Keys : Len(persisted[kind][key]) <= 1
  BY DEF Init, Kinds
<1> QED
  BY <1>1, <1>2, <1>3 DEF Init, TypeOK

LEMMA AcceptTyped ==
  ASSUME TypeOK, NEW kind \in Kinds, NEW d \in Devices, NEW r \in References,
         Accept(kind, d, r)
  PROVE  TypeOK'
<1> DEFINE key == KeyOf(kind, d, r)
           n == accepted[kind][key] + 1
           item == [device |-> d, reference |-> r, n |-> n]
           s == persisted[kind][key]
           new == IF kind \in ListKinds THEN Append(s, item) ELSE <<item>>
<1>1. key \in Keys
  BY KeyTyped
<1>2. n \in Nat /\ n >= 1 /\ n <= MaxAccepted[kind]
  BY <1>1, BoxTyped DEF TypeOK, Accept
<1>3. n \in Numbers
  BY <1>2, BoundsAssumption DEF Numbers
<1>4. item \in Item
  BY <1>3 DEF Item
<1>5. s \in Seq(Item)
  BY <1>1, BoxTyped DEF TypeOK
<1>6. /\ persisted' = [persisted EXCEPT ![kind][key] = new]
      /\ accepted' = [accepted EXCEPT ![kind][key] = n]
      /\ UNCHANGED <<worker, linkUp, delivered, discarded, crashes>>
  BY DEF Accept, Put
<1> HIDE DEF key, n, item, s
<1>7. new \in Seq(Item) /\ (kind \in SlotKinds => Len(new) <= 1)
  BY <1>4, <1>5 DEF ListKinds, SlotKinds
<1> HIDE DEF new
<1>8. /\ persisted' \in PerKey(Seq(Item))
      /\ accepted' \in PerKey(Nat)
  BY <1>1, <1>2, <1>6, <1>7, SetBox DEF TypeOK
<1>9. ASSUME NEW k2 \in SlotKinds, NEW key2 \in Keys
      PROVE  Len(persisted'[k2][key2]) <= 1
  <2>1. k2 \in Kinds
    BY DEF Kinds
  <2>2. CASE k2 = kind /\ key2 = key
    BY <1>1, <1>6, <1>7, <2>2, SetBox DEF TypeOK
  <2>3. CASE ~(k2 = kind /\ key2 = key)
    <3>1. persisted'[k2][key2] = persisted[k2][key2]
      BY <1>1, <1>6, <1>7, <2>1, <2>3, SetBox DEF TypeOK
    <3> QED
      BY <3>1 DEF TypeOK
  <2> QED
    BY <2>2, <2>3
<1> QED
  BY <1>6, <1>8, <1>9 DEF TypeOK

LEMMA StartPublishTyped ==
  ASSUME TypeOK, NEW kind \in Kinds, NEW a \in Devices \cup {AllDevices},
         NEW keys \in SUBSET Keys, StartPublish(kind, a, keys)
  PROVE  TypeOK'
<1>1. worker' \in Worker /\ worker'.pc = "next"
  BY DEF StartPublish, Worker
<1> QED
  BY <1>1 DEF StartPublish, TypeOK

LEMMA NextKeyTyped ==
  ASSUME TypeOK, NextKey
  PROVE  TypeOK'
<1>1. PICK key \in worker.todo :
        worker' = [worker EXCEPT !.pc = "publish", !.key = key, !.todo = @ \ {key}]
  BY DEF NextKey
<1>2. key \in Keys
  BY DEF TypeOK, Worker
<1>3. worker' \in Worker /\ worker'.key \in Keys
  BY <1>1, <1>2 DEF TypeOK, Worker
<1> QED
  BY <1>3 DEF NextKey, TypeOK

LEMMA EndPublishTyped ==
  ASSUME TypeOK, EndPublish
  PROVE  TypeOK'
<1>1. worker' \in Worker /\ worker'.pc = "idle"
  BY DEF EndPublish, Idle, Worker, Kinds, ListKinds
<1> QED
  BY <1>1 DEF EndPublish, TypeOK

(* Removing a batch keeps the types of the persistence.                    *)
LEMMA RemoveBatchTyped ==
  ASSUME TypeOK, NEW kind \in Kinds, NEW key \in Keys, RemoveBatch(kind, key)
  PROVE  /\ persisted' \in PerKey(Seq(Item))
         /\ \A k2 \in SlotKinds, key2 \in Keys : Len(persisted'[k2][key2]) <= 1
<1> DEFINE s == persisted[kind][key]
           rest == SubSeq(s, BatchLength(kind, key) + 1, Len(s))
<1>1. persisted' = [persisted EXCEPT ![kind][key] = rest]
  BY DEF RemoveBatch
<1>2. rest \in Seq(Item) /\ Len(rest) <= Len(s)
  BY BatchAndRest DEF TypeOK
<1> HIDE DEF rest
<1>3. persisted' \in PerKey(Seq(Item))
  BY <1>1, <1>2, SetBox DEF TypeOK
<1>4. ASSUME NEW k2 \in SlotKinds, NEW key2 \in Keys
      PROVE  Len(persisted'[k2][key2]) <= 1
  <2>1. k2 \in Kinds
    BY DEF Kinds
  <2>2. s \in Seq(Item) /\ Len(persisted[k2][key2]) <= 1
    BY BoxTyped DEF TypeOK
  <2>3. CASE k2 = kind /\ key2 = key
    <3>1. persisted'[k2][key2] = rest
      BY <1>1, <1>2, <2>3, SetBox DEF TypeOK
    <3> QED
      BY <1>2, <2>2, <2>3, <3>1
  <2>4. CASE ~(k2 = kind /\ key2 = key)
    BY <1>1, <1>2, <2>1, <2>2, <2>4, SetBox DEF TypeOK
  <2> QED
    BY <2>3, <2>4
<1> QED
  BY <1>3, <1>4

LEMMA DiscardTyped ==
  ASSUME TypeOK, NEW kind \in Kinds, worker.pc = "publish", DiscardBatch(kind),
         UNCHANGED <<linkUp, accepted, crashes>>
  PROVE  TypeOK'
<1> DEFINE key == worker.key
           batch == Batch(kind, key)
           dropped == discarded[kind][key] \cup {batch[i].n : i \in DOMAIN batch}
<1>1. key \in Keys
  BY DEF TypeOK
<1>2. /\ discarded' = [discarded EXCEPT ![kind][key] = dropped]
      /\ RemoveBatch(kind, key)
      /\ worker' = [worker EXCEPT !.pc = "next", !.failed = TRUE]
      /\ delivered' = delivered
  BY DEF DiscardBatch
<1>3. batch \in Seq(Item)
  BY <1>1, BatchAndRest DEF TypeOK
<1>4. {batch[i].n : i \in DOMAIN batch} \subseteq Numbers
  <2> HIDE DEF batch
  <2> SUFFICES ASSUME NEW i \in DOMAIN batch PROVE batch[i].n \in Numbers
    OBVIOUS
  <2>1. batch[i] \in Item
    BY <1>3
  <2> QED
    BY <2>1 DEF Item
<1>5. discarded[kind][key] \in SUBSET Numbers
  BY <1>1, BoxTyped DEF TypeOK
<1> HIDE DEF batch, key
<1>6. dropped \in SUBSET Numbers
  BY <1>4, <1>5
<1> HIDE DEF dropped
<1>7. discarded' \in PerKey(SUBSET Numbers)
  BY <1>1, <1>2, <1>6, SetBox DEF TypeOK
<1>8. /\ persisted' \in PerKey(Seq(Item))
      /\ \A k2 \in SlotKinds, key2 \in Keys : Len(persisted'[k2][key2]) <= 1
  BY <1>1, <1>2, RemoveBatchTyped
<1>9. worker' \in Worker /\ worker'.pc = "next"
  BY <1>2 DEF TypeOK, Worker
<1> QED
  BY <1>2, <1>7, <1>8, <1>9 DEF TypeOK

(* A published batch is appended to what was delivered, item by item.      *)
LEMMA DeliveredTyped ==
  ASSUME TypeOK, NEW kind \in Kinds, NEW key \in Keys
  PROVE  LET batch == Batch(kind, key)
         IN  [i \in DOMAIN batch |-> [to |-> Addressee(kind, key), item |-> batch[i]]]
               \in Seq(Delivery)
<1> DEFINE batch == Batch(kind, key)
           to == Addressee(kind, key)
           mail == [i \in DOMAIN batch |-> [to |-> to, item |-> batch[i]]]
<1>1. batch \in Seq(Item)
  BY BatchAndRest DEF TypeOK
<1>2. to \in Name
  BY AddresseeTyped
<1> HIDE DEF batch, to
<1>3. Len(batch) \in Nat /\ DOMAIN batch = 1 .. Len(batch)
  BY <1>1
<1>4. \A i \in 1 .. Len(batch) : [to |-> to, item |-> batch[i]] \in Delivery
  BY <1>1, <1>2 DEF Delivery
<1>5. mail \in [1 .. Len(batch) -> Delivery]
  BY <1>3, <1>4
<1> HIDE DEF mail
<1>6. mail \in Seq(Delivery)
  BY <1>3, <1>5, SeqDef
<1> QED
  BY <1>6 DEF mail, batch, to

LEMMA PublishedTyped ==
  ASSUME TypeOK, NEW kind \in Kinds, worker.pc = "publish", BatchPublished(kind),
         UNCHANGED <<linkUp, accepted, crashes>>
  PROVE  TypeOK'
<1> DEFINE key == worker.key
           batch == Batch(kind, key)
           mail == [i \in DOMAIN batch |->
                      [to |-> Addressee(kind, key), item |-> batch[i]]]
           all == delivered[kind][key] \o mail
<1>1. key \in Keys
  BY DEF TypeOK
<1>2. /\ delivered' = [delivered EXCEPT ![kind][key] = all]
      /\ worker' = [worker EXCEPT !.pc = "remove"]
      /\ UNCHANGED <<persisted, discarded>>
  BY DEF BatchPublished
<1>3. mail \in Seq(Delivery)
  BY <1>1, DeliveredTyped
<1>4. delivered[kind][key] \in Seq(Delivery)
  BY <1>1, BoxTyped DEF TypeOK
<1> HIDE DEF mail, key
<1>5. all \in Seq(Delivery)
  BY <1>3, <1>4
<1> HIDE DEF all
<1>6. delivered' \in PerKey(Seq(Delivery))
  BY <1>1, <1>2, <1>5, SetBox DEF TypeOK
<1>7. worker' \in Worker /\ worker'.key \in Keys
  BY <1>1, <1>2 DEF TypeOK, Worker, key
<1> QED
  BY <1>2, <1>6, <1>7 DEF TypeOK

LEMMA RemovedTyped ==
  ASSUME TypeOK, NEW kind \in Kinds, worker.pc = "remove", BatchRemoved(kind),
         UNCHANGED <<linkUp, accepted, crashes>>
  PROVE  TypeOK'
<1>1. worker.key \in Keys
  BY DEF TypeOK
<1>2. /\ persisted' \in PerKey(Seq(Item))
      /\ \A k2 \in SlotKinds, key2 \in Keys : Len(persisted'[k2][key2]) <= 1
  BY <1>1, RemoveBatchTyped DEF BatchRemoved
<1>3. worker' \in Worker /\ worker'.key \in Keys
  BY <1>1 DEF BatchRemoved, TypeOK, Worker
<1> QED
  BY <1>2, <1>3 DEF BatchRemoved, TypeOK

LEMMA ForKeyTyped ==
  ASSUME TypeOK, NEW kind \in Kinds, ForPersistanceKey(kind)
  PROVE  TypeOK'
<1>1. UNCHANGED <<linkUp, accepted, crashes>>
  BY DEF ForPersistanceKey
<1>2. CASE worker.pc = "publish" /\ NothingStored(kind)
  <2>1. worker' \in Worker /\ worker'.pc = "next"
    BY <1>2 DEF NothingStored, TypeOK, Worker
  <2> QED
    BY <1>1, <1>2, <2>1 DEF NothingStored, TypeOK
<1>3. CASE worker.pc = "publish" /\ DiscardBatch(kind)
  BY <1>1, <1>3, DiscardTyped
<1>4. CASE worker.pc = "publish" /\ BatchPublished(kind)
  BY <1>1, <1>4, PublishedTyped
<1>5. CASE worker.pc = "publish" /\ BatchNotTaken(kind)
  <2>1. worker' \in Worker /\ worker'.pc = "next"
    BY <1>5 DEF BatchNotTaken, TypeOK, Worker
  <2> QED
    BY <1>1, <1>5, <2>1 DEF BatchNotTaken, TypeOK
<1>6. CASE worker.pc = "remove" /\ BatchRemoved(kind)
  BY <1>1, <1>6, RemovedTyped
<1> QED
  BY <1>2, <1>3, <1>4, <1>5, <1>6 DEF ForPersistanceKey

(* The actions of Next, with their parameters in the open.                 *)
LEMMA Steps ==
  ASSUME TypeOK, Next
  PROVE  \/ \E kind \in Kinds, d \in Devices, r \in References : Accept(kind, d, r)
         \/ \E kind \in Kinds, a \in Devices \cup {AllDevices}, keys \in SUBSET Keys :
              StartPublish(kind, a, keys)
         \/ NextKey
         \/ EndPublish
         \/ \E kind \in Kinds : ForPersistanceKey(kind)
         \/ LinkChanges
         \/ Crash
<1>1. /\ "sensor" \in Kinds
      /\ "alarm" \in Kinds
      /\ "actuator" \in Kinds
      /\ "configuration" \in Kinds
  BY DEF Kinds, ListKinds, SlotKinds
<1>2. CASE Add
  <2>1. (CHOOSE r \in References : TRUE) \in References
    BY NamesAssumption
  <2> QED
    BY <1>1, <1>2, <2>1 DEF Add, AddSensorReading, AddAlarm, AddActuatorStatus,
       AddConfiguration
<1>3. CASE Publish
  <2>1. \A kind \in Kinds : StoredKeys(kind) \in SUBSET Keys
    BY DEF StoredKeys
  <2>2. \A kind \in Kinds, d \in Devices :
          FindMatchingPersistanceKeys(d, StoredKeys(kind)) \in SUBSET Keys
    BY <2>1 DEF FindMatchingPersistanceKeys
  <2>3. \A d \in Devices : {d} \in SUBSET Keys
    BY DeviceIsKey
  <2>4. CASE \/ PublishSensorReadings
             \/ PublishAlarms
             \/ PublishActuatorStatuses
             \/ PublishConfiguration
    BY <1>1, <2>1, <2>4 DEF PublishSensorReadings, PublishAlarms,
       PublishActuatorStatuses, PublishConfiguration
  <2>5. CASE \E d \in Devices :
               \/ PublishSensorReadingsOf(d)
               \/ PublishAlarmsOf(d)
               \/ PublishActuatorStatusesOf(d)
               \/ PublishConfigurationOf(d)
    BY <1>1, <2>2, <2>3, <2>5 DEF PublishSensorReadingsOf, PublishAlarmsOf,
       PublishActuatorStatusesOf, PublishConfigurationOf
  <2> QED
    BY <1>3, <2>4, <2>5 DEF Publish
<1>4. CASE WorkerStep
  BY <1>1, <1>4 DEF WorkerStep, PublishSensorReadingsForPersistanceKey,
     PublishAlarmsForPersistanceKey, PublishActuatorStatusesForPersistanceKey,
     PublishConfigurationForPersistanceKey
<1> QED
  BY <1>2, <1>3, <1>4 DEF Next

LEMMA TypeNext == TypeOK /\ [Next]_vars => TypeOK'
<1> SUFFICES ASSUME TypeOK, [Next]_vars PROVE TypeOK'
  OBVIOUS
<1>1. ASSUME NEW kind \in Kinds, NEW d \in Devices, NEW r \in References,
             Accept(kind, d, r)
      PROVE  TypeOK'
  BY <1>1, AcceptTyped
<1>2. ASSUME NEW kind \in Kinds, NEW a \in Devices \cup {AllDevices},
             NEW keys \in SUBSET Keys, StartPublish(kind, a, keys)
      PROVE  TypeOK'
  BY <1>2, StartPublishTyped
<1>3. CASE NextKey
  BY <1>3, NextKeyTyped
<1>4. CASE EndPublish
  BY <1>4, EndPublishTyped
<1>5. ASSUME NEW kind \in Kinds, ForPersistanceKey(kind)
      PROVE  TypeOK'
  BY <1>5, ForKeyTyped
<1>6. CASE LinkChanges
  BY <1>6 DEF LinkChanges, TypeOK
<1>7. CASE Crash
  <2>1. worker' \in Worker /\ worker'.pc = "idle"
    BY <1>7 DEF Crash, Idle, Worker, Kinds, ListKinds
  <2>2. crashes' \in Nat
    BY <1>7 DEF Crash, TypeOK
  <2> QED
    BY <1>7, <2>1, <2>2 DEF Crash, TypeOK
<1>8. CASE UNCHANGED vars
  BY <1>8 DEF vars, TypeOK
<1> QED
  BY <1>1, <1>2, <1>3, <1>4, <1>5, <1>6, <1>7, <1>8, Steps

(* Every state of DataService is of the type TypeOK gives it.              *)
THEOREM TypeCorrect == Spec => []TypeOK
BY TypeInit, TypeNext, PTL DEF Spec

-----------------------------------------------------------------------------
(* Nothing is lost.  RemovalIsOfWhatWasSent carries the induction over the *)
(* gap between publishing a batch and removing it.                         *)

Kept(kind, key, n) ==
  \/ InStore(kind, key, n)
  \/ WasDelivered(kind, key, n)
  \/ n \in discarded[kind][key]

SafeInv == NoLoss /\ RemovalIsOfWhatWasSent

LEMMA NoLossKept ==
  NoLoss <=> \A kind \in Kinds, key \in Keys : \A n \in Owed(kind, key) : Kept(kind, key, n)
BY DEF NoLoss, Kept

(* A box that a step does not touch keeps what it had.                     *)
LEMMA UntouchedBox ==
  ASSUME NEW kind \in Kinds, NEW key \in Keys, NEW n \in Owed(kind, key)',
         persisted'[kind][key] = persisted[kind][key],
         delivered'[kind][key] = delivered[kind][key],
         discarded'[kind][key] = discarded[kind][key],
         accepted'[kind][key] = accepted[kind][key],
         NoLoss
  PROVE  Kept(kind, key, n)'
<1>1. n \in Owed(kind, key)
  BY DEF Owed
<1>2. Kept(kind, key, n)
  BY <1>1, NoLossKept
<1> QED
  BY <1>2 DEF Kept, InStore, WasDelivered

LEMMA SafeInit == Init => SafeInv
<1> SUFFICES ASSUME Init PROVE SafeInv
  OBVIOUS
<1>1. \A kind \in Kinds, key \in Keys : Owed(kind, key) = {} \/ accepted[kind][key] = 0
  BY DEF Init
<1>2. \A kind \in Kinds, key \in Keys : 1 .. accepted[kind][key] = {}
  BY <1>1 DEF Init
<1>3. NoLoss
  BY <1>2 DEF NoLoss, Owed
<1>4. RemovalIsOfWhatWasSent
  BY DEF Init, Idle, RemovalIsOfWhatWasSent
<1> QED
  BY <1>3, <1>4 DEF SafeInv

LEMMA AcceptSafe ==
  ASSUME TypeOK, SafeInv, NEW kind \in Kinds, NEW d \in Devices, NEW r \in References,
         Accept(kind, d, r)
  PROVE  SafeInv'
<1> DEFINE key == KeyOf(kind, d, r)
           n0 == accepted[kind][key] + 1
           item == [device |-> d, reference |-> r, n |-> n0]
           s == persisted[kind][key]
           new == IF kind \in ListKinds THEN Append(s, item) ELSE <<item>>
<1>1. key \in Keys
  BY KeyTyped
<1>2. n0 \in Nat /\ n0 >= 1 /\ n0 \in Numbers
  <2>1. n0 \in Nat /\ n0 >= 1 /\ n0 <= MaxAccepted[kind]
    BY <1>1, BoxTyped DEF TypeOK, Accept
  <2> QED
    BY <2>1, BoundsAssumption DEF Numbers
<1>3. item \in Item /\ item.n = n0
  BY <1>2 DEF Item
<1>4. s \in Seq(Item)
  BY <1>1, BoxTyped DEF TypeOK
<1>5. /\ persisted' = [persisted EXCEPT ![kind][key] = new]
      /\ accepted' = [accepted EXCEPT ![kind][key] = n0]
      /\ UNCHANGED <<worker, delivered, discarded>>
      /\ worker.pc = "idle"
  BY DEF Accept, Put
<1> HIDE DEF key, item, s
<1>6. /\ new \in Seq(Item)
      /\ Len(new) >= 1
      /\ new[Len(new)] = item
      /\ kind \in ListKinds => Len(new) = Len(s) + 1 /\ \A i \in 1 .. Len(s) : new[i] = s[i]
  BY <1>3, <1>4
<1> HIDE DEF new, n0
<1>7. /\ persisted'[kind][key] = new
      /\ accepted'[kind][key] = n0
      /\ \A k2 \in Kinds, key2 \in Keys : ~(k2 = kind /\ key2 = key) =>
           /\ persisted'[k2][key2] = persisted[k2][key2]
           /\ accepted'[k2][key2] = accepted[k2][key2]
  <2>1. persisted \in PerKey(Seq(Item)) /\ accepted \in PerKey(Nat)
    BY DEF TypeOK
  <2>2. /\ persisted'[kind][key] = new
        /\ \A k2 \in Kinds, key2 \in Keys : ~(k2 = kind /\ key2 = key) =>
             persisted'[k2][key2] = persisted[k2][key2]
    BY <1>1, <1>5, <1>6, <2>1 DEF PerKey
  <2>3. /\ accepted'[kind][key] = n0
        /\ \A k2 \in Kinds, key2 \in Keys : ~(k2 = kind /\ key2 = key) =>
             accepted'[k2][key2] = accepted[k2][key2]
    BY <1>1, <1>2, <1>5, <2>1 DEF PerKey
  <2> QED
    BY <2>2, <2>3
<1>8. ASSUME NEW k2 \in Kinds, NEW key2 \in Keys, NEW n \in Owed(k2, key2)'
      PROVE  Kept(k2, key2, n)'
  <2>1. CASE ~(k2 = kind /\ key2 = key)
    BY <1>5, <1>7, <2>1, UntouchedBox DEF SafeInv
  <2>2. CASE k2 = kind /\ key2 = key
    <3>1. n \in 1 .. n0 /\ (kind \in ListKinds \/ n = n0)
      BY <1>7, <2>2 DEF Owed
    <3>2. CASE n = n0
      <4>1. Len(new) \in DOMAIN new /\ new[Len(new)].n = n
        BY <1>3, <1>6, <3>2
      <4> QED
        BY <1>7, <2>2, <4>1 DEF Kept, InStore
    <3>3. CASE n # n0
      <4> accepted[kind][key] \in Nat
        BY <1>1, BoxTyped DEF TypeOK
      <4>1. kind \in ListKinds /\ n \in 1 .. accepted[kind][key]
        BY <3>1, <3>3 DEF n0
      <4>2. Kept(kind, key, n)
        BY <1>1, <4>1, NoLossKept DEF SafeInv, Owed
      <4>3. CASE InStore(kind, key, n)
        <5>1. PICK i \in DOMAIN s : s[i].n = n
          BY <4>3 DEF InStore, s
        <5>2. i \in DOMAIN new /\ new[i] = s[i]
          BY <1>4, <1>6, <4>1, <5>1
        <5> QED
          BY <1>7, <2>2, <5>1, <5>2 DEF Kept, InStore
      <4>4. CASE WasDelivered(kind, key, n) \/ n \in discarded[kind][key]
        BY <1>5, <2>2, <4>4 DEF Kept, WasDelivered
      <4> QED
        BY <4>2, <4>3, <4>4 DEF Kept
    <3> QED
      BY <3>2, <3>3
  <2> QED
    BY <2>1, <2>2
<1>9. NoLoss'
  BY <1>8 DEF NoLoss, Kept
<1> QED
  BY <1>5, <1>9 DEF SafeInv, RemovalIsOfWhatWasSent

(* Removing a batch keeps what the rest of the box holds; what goes is     *)
(* only what the batch held.                                               *)
LEMMA RemoveBatchKeeps ==
  ASSUME TypeOK, NoLoss, NEW kind \in Kinds, NEW key \in Keys, RemoveBatch(kind, key),
         UNCHANGED accepted,
         \A k2 \in Kinds, key2 \in Keys : ~(k2 = kind /\ key2 = key) =>
           /\ delivered'[k2][key2] = delivered[k2][key2]
           /\ discarded'[k2][key2] = discarded[k2][key2],
         \A n : WasDelivered(kind, key, n) => WasDelivered(kind, key, n)',
         \A n : n \in discarded[kind][key] => n \in discarded'[kind][key],
         \A i \in 1 .. BatchLength(kind, key) :
           \/ WasDelivered(kind, key, persisted[kind][key][i].n)
           \/ persisted[kind][key][i].n \in discarded'[kind][key]
  PROVE  NoLoss'
<1> DEFINE s == persisted[kind][key]
           L == BatchLength(kind, key)
           rest == SubSeq(s, L + 1, Len(s))
<1>1. /\ L \in Nat
      /\ L <= Len(s)
      /\ rest \in Seq(Item)
      /\ Len(rest) = Len(s) - L
      /\ \A i \in 1 .. Len(rest) : rest[i] = s[L + i]
  BY BatchAndRest DEF TypeOK
<1>2. s \in Seq(Item)
  BY BoxTyped DEF TypeOK
<1>3. persisted' = [persisted EXCEPT ![kind][key] = rest]
  BY DEF RemoveBatch
<1> HIDE DEF rest
<1>4. /\ persisted'[kind][key] = rest
      /\ \A k2 \in Kinds, key2 \in Keys : ~(k2 = kind /\ key2 = key) =>
           persisted'[k2][key2] = persisted[k2][key2]
  <2>1. persisted \in PerKey(Seq(Item))
    BY DEF TypeOK
  <2> HIDE DEF s, L
  <2> QED
    BY <1>1, <1>3, <2>1 DEF PerKey
<1> HIDE DEF s, L
<1>5. ASSUME NEW k2 \in Kinds, NEW key2 \in Keys, NEW n \in Owed(k2, key2)'
      PROVE  Kept(k2, key2, n)'
  <2>1. CASE ~(k2 = kind /\ key2 = key)
    BY <1>4, <2>1, UntouchedBox
  <2>2. CASE k2 = kind /\ key2 = key
    <3>1. Kept(kind, key, n)
      BY <2>2, NoLossKept DEF Owed
    <3>2. CASE InStore(kind, key, n)
      <4>1. PICK i \in DOMAIN s : s[i].n = n
        BY <3>2 DEF InStore, s
      <4>2. CASE i <= L
        <5>1. i \in 1 .. L
          BY <1>1, <1>2, <4>1, <4>2
        <5> QED
          BY <2>2, <4>1, <5>1 DEF Kept, s, L
      <4>3. CASE ~(i <= L)
        <5>1. i - L \in DOMAIN rest /\ rest[i - L] = s[i]
          BY <1>1, <1>2, <4>1, <4>3
        <5> QED
          BY <1>4, <2>2, <4>1, <5>1 DEF Kept, InStore
      <4> QED
        BY <4>2, <4>3
    <3>3. CASE WasDelivered(kind, key, n) \/ n \in discarded[kind][key]
      BY <2>2, <3>3 DEF Kept
    <3> QED
      BY <3>1, <3>2, <3>3 DEF Kept
  <2> QED
    BY <2>1, <2>2
<1> QED
  BY <1>5 DEF NoLoss, Kept

LEMMA DiscardSafe ==
  ASSUME TypeOK, SafeInv, NEW kind \in Kinds, worker.pc = "publish", DiscardBatch(kind),
         UNCHANGED <<linkUp, accepted, crashes>>
  PROVE  SafeInv'
<1>1. PICK key \in Keys : key = worker.key
  BY DEF TypeOK
<1> DEFINE batch == Batch(kind, key)
           dropped == discarded[kind][key] \cup {batch[i].n : i \in DOMAIN batch}
<1>2. /\ discarded' = [discarded EXCEPT ![kind][key] = dropped]
      /\ RemoveBatch(kind, key)
      /\ worker' = [worker EXCEPT !.pc = "next", !.failed = TRUE]
      /\ delivered' = delivered
      /\ accepted' = accepted
  BY <1>1 DEF DiscardBatch
<1>3. worker'.pc = "next"
  BY <1>2 DEF TypeOK, Worker
<1>4. \A i \in 1 .. BatchLength(kind, key) :
        i \in DOMAIN batch /\ batch[i] = persisted[kind][key][i]
  BY <1>1, BatchAndRest DEF TypeOK
<1>5. dropped \in SUBSET Numbers
  <2>1. batch \in Seq(Item)
    BY <1>1, BatchAndRest DEF TypeOK
  <2>2. ASSUME NEW i \in DOMAIN batch PROVE batch[i].n \in Numbers
    <3> HIDE DEF batch
    <3>1. batch[i] \in Item
      BY <2>1, <2>2
    <3> QED
      BY <3>1 DEF Item
  <2>3. discarded[kind][key] \in SUBSET Numbers
    BY <1>1, BoxTyped DEF TypeOK
  <2> HIDE DEF batch
  <2> QED
    BY <2>2, <2>3
<1>6. \A i \in 1 .. BatchLength(kind, key) : persisted[kind][key][i].n \in dropped
  BY <1>4
<1>7. \A n : n \in discarded[kind][key] => n \in dropped
  OBVIOUS
<1> HIDE DEF dropped
<1>8. /\ discarded'[kind][key] = dropped
      /\ \A k2 \in Kinds, key2 \in Keys : ~(k2 = kind /\ key2 = key) =>
           discarded'[k2][key2] = discarded[k2][key2]
  <2>1. discarded \in PerKey(SUBSET Numbers)
    BY DEF TypeOK
  <2> QED
    BY <1>2, <1>5, <2>1 DEF PerKey
<1>9. \A n : WasDelivered(kind, key, n) => WasDelivered(kind, key, n)'
  BY <1>2 DEF WasDelivered
<1>10. NoLoss'
  BY <1>1, <1>2, <1>6, <1>7, <1>8, <1>9, RemoveBatchKeeps DEF SafeInv
<1> QED
  BY <1>3, <1>10 DEF SafeInv, RemovalIsOfWhatWasSent

LEMMA RemovedSafe ==
  ASSUME TypeOK, SafeInv, NEW kind \in Kinds, worker.kind = kind, worker.pc = "remove",
         BatchRemoved(kind), UNCHANGED <<linkUp, accepted, crashes>>
  PROVE  SafeInv'
<1>1. PICK key \in Keys : key = worker.key
  BY DEF TypeOK
<1>2. /\ RemoveBatch(kind, key)
      /\ UNCHANGED <<delivered, discarded, accepted>>
  BY <1>1 DEF BatchRemoved
<1>3. worker'.pc # "remove"
  BY DEF BatchRemoved, TypeOK, Worker
<1>4. \A i \in 1 .. BatchLength(kind, key) :
        WasDelivered(kind, key, persisted[kind][key][i].n)
  BY <1>1 DEF SafeInv, RemovalIsOfWhatWasSent
<1>5. \A n : WasDelivered(kind, key, n) => WasDelivered(kind, key, n)'
  BY <1>2 DEF WasDelivered
<1>6. NoLoss'
  BY <1>1, <1>2, <1>4, <1>5, RemoveBatchKeeps DEF SafeInv
<1> QED
  BY <1>3, <1>6 DEF SafeInv, RemovalIsOfWhatWasSent

LEMMA PublishedSafe ==
  ASSUME TypeOK, SafeInv, NEW kind \in Kinds, worker.kind = kind, worker.pc = "publish",
         BatchPublished(kind), UNCHANGED <<linkUp, accepted, crashes>>
  PROVE  SafeInv'
<1>1. PICK key \in Keys : key = worker.key
  BY DEF TypeOK
<1> DEFINE batch == Batch(kind, key)
           L == BatchLength(kind, key)
           mail == [i \in DOMAIN batch |->
                      [to |-> Addressee(kind, key), item |-> batch[i]]]
           old == delivered[kind][key]
           all == old \o mail
<1>2. /\ delivered' = [delivered EXCEPT ![kind][key] = all]
      /\ worker' = [worker EXCEPT !.pc = "remove"]
      /\ UNCHANGED <<persisted, discarded, accepted>>
  BY <1>1 DEF BatchPublished
<1>3. mail \in Seq(Delivery)
  BY DeliveredTyped
<1>4. delivered \in PerKey(Seq(Delivery)) /\ old \in Seq(Delivery)
  BY BoxTyped DEF TypeOK
<1>5. /\ L \in Nat
      /\ DOMAIN batch = 1 .. L
      /\ \A i \in 1 .. L : batch[i] = persisted[kind][key][i]
  BY BatchAndRest DEF TypeOK
<1>6. \A i \in 1 .. L : i \in DOMAIN mail /\ mail[i].item = persisted[kind][key][i]
  BY <1>5
<1> HIDE DEF mail, old, batch
<1>7. /\ all \in Seq(Delivery)
      /\ \A i \in DOMAIN old : i \in DOMAIN all /\ all[i] = old[i]
      /\ \A i \in DOMAIN mail : Len(old) + i \in DOMAIN all /\ all[Len(old) + i] = mail[i]
  BY <1>3, <1>4
<1> HIDE DEF all
<1>8. /\ delivered'[kind][key] = all
      /\ \A k2 \in Kinds, key2 \in Keys : ~(k2 = kind /\ key2 = key) =>
           delivered'[k2][key2] = delivered[k2][key2]
  BY <1>2, <1>4, <1>7 DEF PerKey
<1>9. \A n : WasDelivered(kind, key, n) => WasDelivered(kind, key, n)'
  BY <1>7, <1>8 DEF WasDelivered, old
<1>10. ASSUME NEW k2 \in Kinds, NEW key2 \in Keys, NEW n \in Owed(k2, key2)'
       PROVE  Kept(k2, key2, n)'
  <2>1. CASE ~(k2 = kind /\ key2 = key)
    BY <1>2, <1>8, <2>1, UntouchedBox DEF SafeInv
  <2>2. CASE k2 = kind /\ key2 = key
    <3>1. Kept(kind, key, n)
      BY <1>2, <2>2, NoLossKept DEF SafeInv, Owed
    <3> QED
      BY <1>2, <1>9, <2>2, <3>1 DEF Kept, InStore
  <2> QED
    BY <2>1, <2>2
<1>11. NoLoss'
  BY <1>10 DEF NoLoss, Kept
<1>12. worker'.kind = kind /\ worker'.key = key
  BY <1>1, <1>2 DEF TypeOK, Worker
<1>13. ASSUME NEW i \in 1 .. L
       PROVE  \E j \in DOMAIN all : all[j].item.n = persisted[kind][key][i].n
  BY <1>6, <1>7
<1>14. BatchLength(kind, key)' = L
  BY <1>2 DEF BatchLength
<1>15. RemovalIsOfWhatWasSent'
  BY <1>2, <1>8, <1>12, <1>13, <1>14 DEF RemovalIsOfWhatWasSent, WasDelivered
<1> QED
  BY <1>11, <1>15 DEF SafeInv

(* Steps that leave the boxes alone and publish nothing.                   *)
LEMMA QuietSafe ==
  ASSUME SafeInv, UNCHANGED <<persisted, delivered, discarded, accepted>>,
         worker'.pc # "remove" \/ worker' = worker
  PROVE  SafeInv'
<1>1. NoLoss'
  BY DEF SafeInv, NoLoss, Owed, InStore, WasDelivered
<1>2. RemovalIsOfWhatWasSent'
  BY DEF SafeInv, RemovalIsOfWhatWasSent, BatchLength, WasDelivered
<1> QED
  BY <1>1, <1>2 DEF SafeInv

LEMMA ForKeySafe ==
  ASSUME TypeOK, SafeInv, NEW kind \in Kinds, ForPersistanceKey(kind)
  PROVE  SafeInv'
<1>1. worker.kind = kind /\ UNCHANGED <<linkUp, accepted, crashes>>
  BY DEF ForPersistanceKey
<1>2. CASE worker.pc = "publish" /\ NothingStored(kind)
  BY <1>1, <1>2, QuietSafe DEF NothingStored, TypeOK, Worker
<1>3. CASE worker.pc = "publish" /\ DiscardBatch(kind)
  BY <1>1, <1>3, DiscardSafe
<1>4. CASE worker.pc = "publish" /\ BatchPublished(kind)
  BY <1>1, <1>4, PublishedSafe
<1>5. CASE worker.pc = "publish" /\ BatchNotTaken(kind)
  BY <1>1, <1>5, QuietSafe DEF BatchNotTaken, TypeOK, Worker
<1>6. CASE worker.pc = "remove" /\ BatchRemoved(kind)
  BY <1>1, <1>6, RemovedSafe
<1> QED
  BY <1>2, <1>3, <1>4, <1>5, <1>6 DEF ForPersistanceKey

LEMMA SafeNext == TypeOK /\ SafeInv /\ [Next]_vars => SafeInv'
<1> SUFFICES ASSUME TypeOK, SafeInv, [Next]_vars PROVE SafeInv'
  OBVIOUS
<1>1. ASSUME NEW kind \in Kinds, NEW d \in Devices, NEW r \in References,
             Accept(kind, d, r)
      PROVE  SafeInv'
  BY <1>1, AcceptSafe
<1>2. ASSUME NEW kind \in Kinds, NEW a \in Devices \cup {AllDevices},
             NEW keys \in SUBSET Keys, StartPublish(kind, a, keys)
      PROVE  SafeInv'
  BY <1>2, QuietSafe DEF StartPublish
<1>3. CASE NextKey
  BY <1>3, QuietSafe DEF NextKey, TypeOK, Worker
<1>4. CASE EndPublish
  BY <1>4, QuietSafe DEF EndPublish, Idle
<1>5. ASSUME NEW kind \in Kinds, ForPersistanceKey(kind)
      PROVE  SafeInv'
  BY <1>5, ForKeySafe
<1>6. CASE LinkChanges
  BY <1>6, QuietSafe DEF LinkChanges
<1>7. CASE Crash
  BY <1>7, QuietSafe DEF Crash, Idle
<1>8. CASE UNCHANGED vars
  BY <1>8, QuietSafe DEF vars
<1> QED
  BY <1>1, <1>2, <1>3, <1>4, <1>5, <1>6, <1>7, <1>8, Steps

LEMMA SafeAlways == Spec => []SafeInv
<1>1. TypeOK /\ SafeInv /\ [Next]_vars => SafeInv'
  BY SafeNext
<1> QED
  BY <1>1, SafeInit, TypeCorrect, PTL DEF Spec

(* No reading, alarm or latest status vanishes, however calls, losses of   *)
(* the link and restarts fall between the steps of a publish* call.        *)
THEOREM NothingIsLost == Spec => []NoLoss
<1>1. SafeInv => NoLoss
  BY DEF SafeInv
<1> QED
  BY <1>1, SafeAlways, PTL

(* What is removed after a publish is what was published: whatever came in *)
(* between, the batch is still at the front of its box.                    *)
THEOREM RemovesWhatWasSent == Spec => []RemovalIsOfWhatWasSent
<1>1. SafeInv => RemovalIsOfWhatWasSent
  BY DEF SafeInv
<1> QED
  BY <1>1, SafeAlways, PTL

-----------------------------------------------------------------------------
(* Messages reach the right device, for device keys without the delimiter. *)

PlainDeviceKeys == \A d \in Devices : DelimiterFree(d)

(* What a box holds was filed under the key of that box.                   *)
FiledUnderOwnKey ==
  \A kind \in Kinds, key \in Keys : \A i \in DOMAIN persisted[kind][key] :
    LET item == persisted[kind][key][i]
    IN  KeyOf(kind, item.device, item.reference) = key

RightInv == FiledUnderOwnKey /\ RightDevice

(* The device a box is sent for is the one its items were added for.       *)
LEMMA AddresseeIsOwner ==
  ASSUME PlainDeviceKeys, NEW kind \in Kinds, NEW d \in Devices, NEW r \in References
  PROVE  Addressee(kind, KeyOf(kind, d, r)) = d
<1>1. d \in Name /\ r \in Name /\ DelimiterFree(d)
  BY NamesAssumption DEF PlainDeviceKeys
<1>2. ParsePersistenceKey(MakePersistenceKey(d, r)) = [device |-> d, reference |-> r]
  BY <1>1, RoundTrip
<1> QED
  BY <1>2 DEF Addressee, KeyOf

LEMMA RightInit == Init => RightInv
<1> SUFFICES ASSUME Init PROVE RightInv
  OBVIOUS
<1>1. \A kind \in Kinds, key \in Keys :
        DOMAIN persisted[kind][key] = {} /\ DOMAIN delivered[kind][key] = {}
  BY DEF Init
<1> QED
  BY <1>1 DEF RightInv, FiledUnderOwnKey, RightDevice

LEMMA AcceptRight ==
  ASSUME TypeOK, RightInv, NEW kind \in Kinds, NEW d \in Devices, NEW r \in References,
         Accept(kind, d, r)
  PROVE  RightInv'
<1> DEFINE key == KeyOf(kind, d, r)
           n0 == accepted[kind][key] + 1
           item == [device |-> d, reference |-> r, n |-> n0]
           s == persisted[kind][key]
           new == IF kind \in ListKinds THEN Append(s, item) ELSE <<item>>
<1>1. key \in Keys
  BY KeyTyped
<1>2. persisted \in PerKey(Seq(Item)) /\ s \in Seq(Item)
  BY <1>1, BoxTyped DEF TypeOK
<1>3. persisted' = [persisted EXCEPT ![kind][key] = new] /\ delivered' = delivered
  BY DEF Accept, Put
<1>4. KeyOf(kind, item.device, item.reference) = key
  OBVIOUS
<1>5. \A i \in DOMAIN s : KeyOf(kind, s[i].device, s[i].reference) = key
  BY <1>1 DEF RightInv, FiledUnderOwnKey
<1> HIDE DEF key, item, s
<1>6. \A i \in DOMAIN new : new[i] = item \/ (i \in DOMAIN s /\ new[i] = s[i])
  BY <1>2
<1> HIDE DEF new
<1>7. /\ persisted'[kind][key] = new
      /\ \A k2 \in Kinds, key2 \in Keys : ~(k2 = kind /\ key2 = key) =>
           persisted'[k2][key2] = persisted[k2][key2]
  BY <1>1, <1>2, <1>3 DEF PerKey
<1>8. ASSUME NEW k2 \in Kinds, NEW key2 \in Keys, NEW i \in DOMAIN persisted'[k2][key2]
      PROVE  KeyOf(k2, persisted'[k2][key2][i].device, persisted'[k2][key2][i].reference)
               = key2
  <2>1. CASE k2 = kind /\ key2 = key
    BY <1>4, <1>5, <1>6, <1>7, <2>1
  <2>2. CASE ~(k2 = kind /\ key2 = key)
    BY <1>7, <2>2 DEF RightInv, FiledUnderOwnKey
  <2> QED
    BY <2>1, <2>2
<1>9. FiledUnderOwnKey'
  BY <1>8 DEF FiledUnderOwnKey
<1> QED
  BY <1>3, <1>9 DEF RightInv, RightDevice

LEMMA RemoveBatchFiled ==
  ASSUME TypeOK, FiledUnderOwnKey, NEW kind \in Kinds, NEW key \in Keys,
         RemoveBatch(kind, key)
  PROVE  FiledUnderOwnKey'
<1> DEFINE s == persisted[kind][key]
           L == BatchLength(kind, key)
           rest == SubSeq(s, L + 1, Len(s))
<1>1. /\ L \in Nat
      /\ rest \in Seq(Item)
      /\ Len(rest) = Len(s) - L
      /\ \A i \in 1 .. Len(rest) : rest[i] = s[L + i]
  BY BatchAndRest DEF TypeOK
<1>2. persisted \in PerKey(Seq(Item)) /\ s \in Seq(Item)
  BY BoxTyped DEF TypeOK
<1>3. persisted' = [persisted EXCEPT ![kind][key] = rest]
  BY DEF RemoveBatch
<1> HIDE DEF rest, L
<1>4. /\ persisted'[kind][key] = rest
      /\ \A k2 \in Kinds, key2 \in Keys : ~(k2 = kind /\ key2 = key) =>
           persisted'[k2][key2] = persisted[k2][key2]
  BY <1>2, <1>3 DEF PerKey
<1>5. \A i \in DOMAIN rest : L + i \in DOMAIN s /\ rest[i] = s[L + i]
  <2> HIDE DEF s
  <2> QED
    BY <1>1, <1>2
<1>6. ASSUME NEW k2 \in Kinds, NEW key2 \in Keys, NEW i \in DOMAIN persisted'[k2][key2]
      PROVE  KeyOf(k2, persisted'[k2][key2][i].device, persisted'[k2][key2][i].reference)
               = key2
  <2>1. CASE k2 = kind /\ key2 = key
    BY <1>4, <1>5, <2>1 DEF FiledUnderOwnKey
  <2>2. CASE ~(k2 = kind /\ key2 = key)
    BY <1>4, <2>2 DEF FiledUnderOwnKey
  <2> QED
    BY <2>1, <2>2
<1> QED
  BY <1>6 DEF FiledUnderOwnKey

LEMMA PublishedRight ==
  ASSUME PlainDeviceKeys, TypeOK, RightInv, NEW kind \in Kinds, worker.pc = "publish",
         BatchPublished(kind)
  PROVE  RightInv'
<1>1. PICK key \in Keys : key = worker.key
  BY DEF TypeOK
<1> DEFINE batch == Batch(kind, key)
           s == persisted[kind][key]
           mail == [i \in DOMAIN batch |->
                      [to |-> Addressee(kind, key), item |-> batch[i]]]
           old == delivered[kind][key]
           all == old \o mail
<1>2. /\ delivered' = [delivered EXCEPT ![kind][key] = all]
      /\ persisted' = persisted
  BY <1>1 DEF BatchPublished
<1>3. mail \in Seq(Delivery)
  BY DeliveredTyped
<1>4. delivered \in PerKey(Seq(Delivery)) /\ old \in Seq(Delivery)
  BY BoxTyped DEF TypeOK
<1>5. /\ batch \in Seq(Item)
      /\ \A i \in DOMAIN batch : i \in DOMAIN s /\ batch[i] = s[i]
  <2>1. s \in Seq(Item)
    BY BoxTyped DEF TypeOK
  <2>2. /\ BatchLength(kind, key) \in Nat
        /\ BatchLength(kind, key) <= Len(s)
        /\ batch \in Seq(Item)
        /\ Len(batch) = BatchLength(kind, key)
        /\ \A i \in 1 .. BatchLength(kind, key) : batch[i] = s[i]
    BY BatchAndRest DEF TypeOK
  <2> HIDE DEF batch, s
  <2> QED
    BY <2>1, <2>2
<1>6. ASSUME NEW i \in DOMAIN mail PROVE mail[i].to = mail[i].item.device
  <2>1. i \in DOMAIN batch /\ mail[i].item = batch[i] /\ mail[i].to = Addressee(kind, key)
    OBVIOUS
  <2>2. KeyOf(kind, batch[i].device, batch[i].reference) = key
    BY <1>5, <2>1 DEF RightInv, FiledUnderOwnKey
  <2>3. batch[i].device \in Devices /\ batch[i].reference \in References
    <3> HIDE DEF batch
    <3>1. batch[i] \in Item
      BY <1>5, <2>1
    <3> QED
      BY <3>1 DEF Item
  <2> HIDE DEF batch
  <2>4. Addressee(kind, key) = batch[i].device
    BY <2>2, <2>3, AddresseeIsOwner
  <2> QED
    BY <2>1, <2>4
<1>7. \A i \in DOMAIN old : old[i].to = old[i].item.device
  BY DEF RightInv, RightDevice
<1> HIDE DEF mail, old, batch
<1>8. \A i \in DOMAIN all :
        \/ i \in DOMAIN old /\ all[i] = old[i]
        \/ \E j \in DOMAIN mail : all[i] = mail[j]
  <2> SUFFICES ASSUME NEW i \in DOMAIN all
               PROVE  \/ i \in DOMAIN old /\ all[i] = old[i]
                      \/ \E j \in DOMAIN mail : all[i] = mail[j]
    OBVIOUS
  <2>1. i \in 1 .. Len(old) + Len(mail)
    BY <1>3, <1>4
  <2>2. CASE i <= Len(old)
    BY <1>3, <1>4, <2>1, <2>2
  <2>3. CASE i > Len(old)
    <3>1. i - Len(old) \in DOMAIN mail /\ all[i] = mail[i - Len(old)]
      BY <1>3, <1>4, <2>1, <2>3
    <3> QED
      BY <3>1
  <2> QED
    BY <1>4, <2>1, <2>2, <2>3
<1> HIDE DEF all
<1>9. /\ delivered'[kind][key] = all
      /\ \A k2 \in Kinds, key2 \in Keys : ~(k2 = kind /\ key2 = key) =>
           delivered'[k2][key2] = delivered[k2][key2]
  BY <1>2, <1>4 DEF PerKey
<1>10. ASSUME NEW k2 \in Kinds, NEW key2 \in Keys, NEW i \in DOMAIN delivered'[k2][key2]
       PROVE  delivered'[k2][key2][i].to = delivered'[k2][key2][i].item.device
  <2>1. CASE k2 = kind /\ key2 = key
    BY <1>6, <1>7, <1>8, <1>9, <2>1
  <2>2. CASE ~(k2 = kind /\ key2 = key)
    BY <1>9, <2>2 DEF RightInv, RightDevice
  <2> QED
    BY <2>1, <2>2
<1>11. RightDevice'
  BY <1>10 DEF RightDevice
<1> QED
  BY <1>2, <1>11 DEF RightInv, FiledUnderOwnKey

(* Steps that neither store nor send.                                      *)
LEMMA QuietRight ==
  ASSUME RightInv, UNCHANGED <<persisted, delivered>>
  PROVE  RightInv'
BY DEF RightInv, FiledUnderOwnKey, RightDevice

LEMMA RightNext == PlainDeviceKeys /\ TypeOK /\ RightInv /\ [Next]_vars => RightInv'
<1> SUFFICES ASSUME PlainDeviceKeys, TypeOK, RightInv, [Next]_vars PROVE RightInv'
  OBVIOUS
<1>1. ASSUME NEW kind \in Kinds, NEW d \in Devices, NEW r \in References,
             Accept(kind, d, r)
      PROVE  RightInv'
  BY <1>1, AcceptRight
<1>2. ASSUME NEW kind \in Kinds, ForPersistanceKey(kind)
      PROVE  RightInv'
  <2>1. CASE worker.pc = "publish" /\ DiscardBatch(kind)
    <3>1. PICK key \in Keys : key = worker.key
      BY <2>1 DEF TypeOK
    <3>2. RemoveBatch(kind, key) /\ delivered' = delivered
      BY <2>1, <3>1 DEF DiscardBatch
    <3>3. FiledUnderOwnKey'
      BY <3>2, RemoveBatchFiled DEF RightInv
    <3> QED
      BY <3>2, <3>3 DEF RightInv, RightDevice
  <2>2. CASE worker.pc = "publish" /\ BatchPublished(kind)
    BY <2>2, PublishedRight
  <2>3. CASE worker.pc = "remove" /\ BatchRemoved(kind)
    <3>1. PICK key \in Keys : key = worker.key
      BY <2>3 DEF TypeOK
    <3>2. RemoveBatch(kind, key) /\ delivered' = delivered
      BY <2>3, <3>1 DEF BatchRemoved
    <3>3. FiledUnderOwnKey'
      BY <3>2, RemoveBatchFiled DEF RightInv
    <3> QED
      BY <3>2, <3>3 DEF RightInv, RightDevice
  <2>4. CASE NothingStored(kind) \/ BatchNotTaken(kind)
    BY <2>4, QuietRight DEF NothingStored, BatchNotTaken
  <2> QED
    BY <1>2, <2>1, <2>2, <2>3, <2>4 DEF ForPersistanceKey
<1>3. CASE \/ \E kind \in Kinds, a \in Devices \cup {AllDevices}, keys \in SUBSET Keys :
                StartPublish(kind, a, keys)
           \/ NextKey
           \/ EndPublish
           \/ LinkChanges
           \/ Crash
           \/ UNCHANGED vars
  BY <1>3, QuietRight DEF StartPublish, NextKey, EndPublish, LinkChanges, Crash, vars
<1> QED
  BY <1>1, <1>2, <1>3, Steps

(* As long as no device key contains the delimiter, every reading, alarm,  *)
(* status and configuration is sent for the device it was added for: the   *)
(* key it is stored under names that device and no other, whatever the     *)
(* references look like.                                                   *)
THEOREM RightDeviceAlways ==
  ASSUME PlainDeviceKeys
  PROVE  Spec => []RightDevice
<1>1. TypeOK /\ RightInv /\ [Next]_vars => RightInv'
  BY RightNext
<1>2. RightInv => RightDevice
  BY DEF RightInv
<1> QED
  BY <1>1, <1>2, RightInit, TypeCorrect, PTL DEF Spec

=============================================================================
