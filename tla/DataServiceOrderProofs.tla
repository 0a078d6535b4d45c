----------------------- MODULE DataServiceOrderProofs -----------------------
(***************************************************************************)
(* In which order the boxes of DataService are sent, for whom, and how     *)
(* often: for any devices, references, batch size, calls, losses and       *)
(* restarts.                                                               *)
(***************************************************************************)
EXTENDS DataServiceProofs, FiniteSetTheorems

LEMMA NumbersAreNaturals == Numbers \subseteq Nat
BY BoundsAssumption DEF Numbers

-----------------------------------------------------------------------------
(* One box: what is stored, delivered and discarded of it, and how many    *)
(* items it accepted.                                                      *)

(* The numbers stored in a list are the latest ones, and every older one   *)
(* is gone; nothing was sent before an older one was gone.                 *)
ListOrder(s, del, disc, acc) ==
  /\ \A i \in DOMAIN s : s[i].n = acc - Len(s) + i
  /\ \A m \in 1 .. acc - Len(s) : m \in disc \/ \E j \in DOMAIN del : del[j].item.n = m
  /\ \A i \in DOMAIN del : \A m \in 1 .. del[i].item.n - 1 :
       m \in disc \/ \E j \in 1 .. i - 1 : del[j].item.n = m

(* A slot stores the latest item only.                                     *)
SlotOrder(s, del, acc) ==
  /\ \A i \in DOMAIN s : s[i].n = acc
  /\ \A i \in DOMAIN del : del[i].item.n <= acc
  /\ \A i, j \in DOMAIN del : i < j => del[i].item.n <= del[j].item.n

OrderInv ==
  /\ \A kind \in ListKinds, key \in Keys :
       ListOrder(persisted[kind][key], delivered[kind][key], discarded[kind][key],
                 accepted[kind][key])
  /\ \A kind \in SlotKinds, key \in Keys :
       SlotOrder(persisted[kind][key], delivered[kind][key], accepted[kind][key])

(* What an add* call, the sending of a batch and its removal make of a box.*)

LEMMA ListAccepts ==
  ASSUME NEW s \in Seq(Item), NEW del \in Seq(Delivery), NEW disc, NEW acc \in Nat,
         NEW item \in Item, item.n = acc + 1, ListOrder(s, del, disc, acc)
  PROVE  ListOrder(Append(s, item), del, disc, acc + 1)
<1> DEFINE t == Append(s, item)
<1>1. /\ Len(t) = Len(s) + 1 /\ DOMAIN t = 1 .. Len(s) + 1
      /\ \A i \in 1 .. Len(s) : t[i] = s[i]
      /\ t[Len(s) + 1] = item
      /\ Len(s) \in Nat /\ DOMAIN s = 1 .. Len(s)
  OBVIOUS
<1> HIDE DEF t
<1>2. \A i \in DOMAIN t : t[i].n = (acc + 1) - Len(t) + i
  <2> TAKE i \in DOMAIN t
  <2>1. CASE i \in 1 .. Len(s)
    BY <1>1, <2>1 DEF ListOrder
  <2>2. CASE i = Len(s) + 1
    BY <1>1, <2>2
  <2> QED  BY <1>1, <2>1, <2>2
<1>3. (acc + 1) - Len(t) = acc - Len(s)
  BY <1>1
<1>4. ListOrder(t, del, disc, acc + 1)
  BY <1>2, <1>3 DEF ListOrder
<1> QED  BY <1>4 DEF t

LEMMA SlotAccepts ==
  ASSUME NEW s, NEW del \in Seq(Delivery), NEW acc \in Nat,
         NEW item \in Item, item.n = acc + 1, SlotOrder(s, del, acc)
  PROVE  SlotOrder(<<item>>, del, acc + 1)
<1>1. \A i \in DOMAIN <<item>> : <<item>>[i].n = acc + 1
  OBVIOUS
<1>2. \A i \in DOMAIN del : del[i].item.n \in Nat
  <2>1. \A i \in DOMAIN del : del[i] \in Delivery
    OBVIOUS
  <2>2. \A delivery \in Delivery : delivery.item.n \in Numbers
    BY DEF Delivery, Item
  <2> QED  BY <2>1, <2>2, NumbersAreNaturals
<1>3. \A i \in DOMAIN del : del[i].item.n <= acc + 1
  BY <1>2 DEF SlotOrder
<1>4. \A i, j \in DOMAIN del : i < j => del[i].item.n <= del[j].item.n
  BY DEF SlotOrder
<1> HIDE DEF SlotOrder
<1> QED  BY <1>1, <1>3, <1>4 DEF SlotOrder

(* The first L items of a list leave it, sent before or discarded now.     *)
LEMMA ListLeaves ==
  ASSUME NEW s \in Seq(Item), NEW rest \in Seq(Item), NEW L \in Nat,
         Len(rest) = Len(s) - L, \A i \in 1 .. Len(rest) : rest[i] = s[L + i],
         NEW del \in Seq(Delivery), NEW disc, NEW gone, NEW acc \in Nat,
         disc \subseteq gone,
         \A i \in 1 .. L : \/ s[i].n \in gone
                           \/ \E j \in DOMAIN del : del[j].item.n = s[i].n,
         L <= Len(s),
         ListOrder(s, del, disc, acc)
  PROVE  ListOrder(rest, del, gone, acc)
<1>1. /\ Len(s) \in Nat /\ DOMAIN s = 1 .. Len(s)
      /\ Len(rest) \in Nat /\ DOMAIN rest = 1 .. Len(rest)
  OBVIOUS
<1>2. ASSUME NEW i \in DOMAIN rest PROVE rest[i].n = acc - Len(rest) + i
  <2>1. i \in 1 .. Len(rest) /\ L + i \in DOMAIN s
    BY <1>1
  <2>2. s[L + i].n = acc - Len(s) + (L + i)
    BY <2>1 DEF ListOrder
  <2> QED  BY <1>1, <2>1, <2>2
<1>3. ASSUME NEW m \in 1 .. acc - Len(rest)
      PROVE  m \in gone \/ \E j \in DOMAIN del : del[j].item.n = m
  <2>1. CASE m \in 1 .. acc - Len(s)
    BY <2>1 DEF ListOrder
  <2>2. CASE m > acc - Len(s)
    <3>1. m - (acc - Len(s)) \in 1 .. L
      BY <1>1, <2>2
    <3>2. s[m - (acc - Len(s))].n = acc - Len(s) + (m - (acc - Len(s)))
      BY <1>1, <3>1 DEF ListOrder
    <3>3. s[m - (acc - Len(s))].n = m
      BY <1>1, <3>2
    <3> QED  BY <3>1, <3>3
  <2> QED  BY <1>1, <2>1, <2>2
<1> QED  BY <1>2, <1>3 DEF ListOrder

LEMMA SlotLeaves ==
  ASSUME NEW s \in Seq(Item), NEW rest \in Seq(Item), NEW L \in Nat,
         Len(rest) = Len(s) - L, \A i \in 1 .. Len(rest) : rest[i] = s[L + i],
         NEW del, NEW acc, SlotOrder(s, del, acc)
  PROVE  SlotOrder(rest, del, acc)
<1>1. \A i \in DOMAIN rest : i \in 1 .. Len(rest) /\ L + i \in DOMAIN s
  OBVIOUS
<1> QED  BY <1>1 DEF SlotOrder

AtJoint(del, mail, all) ==
  /\ Len(del) \in Nat /\ DOMAIN del = 1 .. Len(del)
  /\ Len(mail) \in Nat /\ DOMAIN mail = 1 .. Len(mail)
  /\ DOMAIN all = 1 .. Len(del) + Len(mail)
  /\ \A i \in 1 .. Len(del) : all[i] = del[i]
  /\ \A i \in 1 .. Len(mail) : all[Len(del) + i] = mail[i]

LEMMA Joined ==
  ASSUME NEW del \in Seq(Delivery), NEW mail \in Seq(Delivery)
  PROVE  AtJoint(del, mail, del \o mail)
<1> DEFINE all == del \o mail
<1>1. /\ Len(del) \in Nat /\ DOMAIN del = 1 .. Len(del)
      /\ Len(mail) \in Nat /\ DOMAIN mail = 1 .. Len(mail)
  OBVIOUS
<1>2. /\ all \in Seq(Delivery)
      /\ Len(all) = Len(del) + Len(mail)
      /\ \A i \in 1 .. Len(del) + Len(mail) :
           all[i] = IF i <= Len(del) THEN del[i] ELSE mail[i - Len(del)]
  BY ConcatProperties
<1> HIDE DEF all
<1>3. DOMAIN all = 1 .. Len(del) + Len(mail)
  BY <1>2
<1>4. \A i \in 1 .. Len(del) : all[i] = del[i]
  BY <1>1, <1>2
<1>5. ASSUME NEW i \in 1 .. Len(mail) PROVE all[Len(del) + i] = mail[i]
  <2>1. /\ Len(del) + i \in 1 .. Len(del) + Len(mail)
        /\ ~(Len(del) + i <= Len(del))
        /\ (Len(del) + i) - Len(del) = i
    BY <1>1
  <2> QED  BY <1>2, <2>1
<1>6. AtJoint(del, mail, all)
  BY <1>1, <1>3, <1>4, <1>5 DEF AtJoint
<1> QED  BY <1>6 DEF all

(* The first L items are sent.                                             *)
LEMMA ListSends ==
  ASSUME NEW s \in Seq(Item), NEW L \in Nat, L <= Len(s),
         NEW mail \in Seq(Delivery), Len(mail) = L,
         \A i \in 1 .. L : mail[i].item = s[i],
         NEW del \in Seq(Delivery), NEW disc, NEW acc \in Nat,
         ListOrder(s, del, disc, acc)
  PROVE  ListOrder(s, del \o mail, disc, acc)
<1> DEFINE all == del \o mail
<1>1. /\ Len(s) \in Nat /\ DOMAIN s = 1 .. Len(s)
      /\ Len(del) \in Nat /\ DOMAIN del = 1 .. Len(del)
      /\ DOMAIN mail = 1 .. L
      /\ DOMAIN all = 1 .. Len(del) + L
      /\ \A i \in 1 .. Len(del) : all[i] = del[i]
      /\ \A i \in 1 .. L : all[Len(del) + i] = mail[i]
  <2>1. Len(s) \in Nat /\ DOMAIN s = 1 .. Len(s)
    OBVIOUS
  <2>2. AtJoint(del, mail, all)
    BY Joined
  <2> HIDE DEF all
  <2> QED  BY <2>1, <2>2 DEF AtJoint
<1> HIDE DEF all
<1>2. ASSUME NEW i \in 1 .. L PROVE all[Len(del) + i].item.n = acc - Len(s) + i
  <2>1. i \in DOMAIN s
    BY <1>1
  <2>2. s[i].n = acc - Len(s) + i
    BY <2>1 DEF ListOrder
  <2> QED  BY <1>1, <2>2
<1>3. ASSUME NEW m \in 1 .. acc - Len(s)
      PROVE  m \in disc \/ \E j \in 1 .. Len(del) : all[j].item.n = m
  BY <1>1 DEF ListOrder
<1>4. ASSUME NEW i \in DOMAIN all, NEW m \in 1 .. all[i].item.n - 1
      PROVE  m \in disc \/ \E j \in 1 .. i - 1 : all[j].item.n = m
  <2>1. CASE i \in 1 .. Len(del)
    <3>1. m \in 1 .. del[i].item.n - 1
      BY <1>1, <2>1
    <3>2. m \in disc \/ \E j \in 1 .. i - 1 : del[j].item.n = m
      BY <1>1, <2>1, <3>1 DEF ListOrder
    <3> QED  BY <1>1, <2>1, <3>2
  <2>2. CASE i > Len(del)
    <3>1. PICK k \in 1 .. L : i = Len(del) + k
      <4>1. i - Len(del) \in 1 .. L /\ i = Len(del) + (i - Len(del))
        BY <1>1, <2>2
      <4> QED  BY <4>1
    <3>2. m < acc - Len(s) + k /\ m \in Nat /\ m >= 1
      BY <1>1, <1>2, <3>1
    <3>3. CASE m <= acc - Len(s)
      <4>1. m \in 1 .. acc - Len(s)
        BY <1>1, <3>2, <3>3
      <4>2. m \in disc \/ \E j \in 1 .. Len(del) : all[j].item.n = m
        BY <1>3, <4>1
      <4>3. 1 .. Len(del) \subseteq 1 .. i - 1
        BY <1>1, <3>1
      <4> QED  BY <4>2, <4>3
    <3>4. CASE m > acc - Len(s)
      <4>1. m - (acc - Len(s)) \in 1 .. k - 1
        BY <1>1, <3>2, <3>4
      <4>2. all[Len(del) + (m - (acc - Len(s)))].item.n = m
        <5>1. m - (acc - Len(s)) \in 1 .. L
          BY <4>1
        <5>2. all[Len(del) + (m - (acc - Len(s)))].item.n
                = acc - Len(s) + (m - (acc - Len(s)))
          BY <1>2, <5>1
        <5> QED  BY <1>1, <3>2, <5>2
      <4>3. Len(del) + (m - (acc - Len(s))) \in 1 .. i - 1
        BY <1>1, <3>1, <4>1
      <4> QED  BY <4>2, <4>3
    <3> QED  BY <1>1, <3>2, <3>3, <3>4
  <2> QED  BY <1>1, <2>1, <2>2
<1>5. \A m \in 1 .. acc - Len(s) : m \in disc \/ \E j \in DOMAIN all : all[j].item.n = m
  <2>1. 1 .. Len(del) \subseteq DOMAIN all
    BY <1>1
  <2> QED  BY <1>3, <2>1
<1>6. ListOrder(s, all, disc, acc)
  BY <1>4, <1>5 DEF ListOrder
<1> QED  BY <1>6 DEF all

LEMMA SlotSends ==
  ASSUME NEW s \in Seq(Item), NEW L \in Nat, L <= Len(s),
         NEW mail \in Seq(Delivery), Len(mail) = L,
         \A i \in 1 .. L : mail[i].item = s[i],
         NEW del \in Seq(Delivery), NEW acc \in Nat,
         SlotOrder(s, del, acc)
  PROVE  SlotOrder(s, del \o mail, acc)
<1> DEFINE all == del \o mail
<1>1. /\ Len(del) \in Nat /\ DOMAIN del = 1 .. Len(del)
      /\ DOMAIN all = 1 .. Len(del) + L
      /\ \A i \in 1 .. Len(del) : all[i] = del[i]
      /\ \A i \in 1 .. L : all[Len(del) + i] = mail[i]
      /\ \A i \in 1 .. L : i \in DOMAIN s
  <2>1. \A i \in 1 .. L : i \in DOMAIN s
    OBVIOUS
  <2>2. AtJoint(del, mail, all)
    BY Joined
  <2> HIDE DEF all
  <2> QED  BY <2>1, <2>2 DEF AtJoint
<1> HIDE DEF all
<1>2. \A i \in 1 .. L : all[Len(del) + i].item.n = acc
  <2>1. \A i \in 1 .. L : s[i].n = acc
    BY <1>1 DEF SlotOrder
  <2> QED  BY <1>1, <2>1
<1>3. ASSUME NEW i \in DOMAIN all
      PROVE  \/ i \in DOMAIN del
             \/ \E k \in 1 .. L : i = Len(del) + k
  <2>1. CASE i > Len(del)
    <3>1. i - Len(del) \in 1 .. L /\ i = Len(del) + (i - Len(del))
      BY <1>1, <2>1
    <3> QED  BY <3>1
  <2> QED  BY <1>1, <2>1
<1>4. \A i \in DOMAIN all : i \in DOMAIN del \/ all[i].item.n = acc
  BY <1>2, <1>3
<1>5. \A i \in DOMAIN del : all[i].item.n <= acc
  BY <1>1 DEF SlotOrder
<1>6. \A i \in DOMAIN all : all[i].item.n <= acc
  BY <1>4, <1>5
<1>7. ASSUME NEW i \in DOMAIN all, NEW j \in DOMAIN all, i < j
      PROVE  all[i].item.n <= all[j].item.n
  <2>1. CASE j \in DOMAIN del
    <3>1. i \in DOMAIN del
      BY <1>1, <1>7, <2>1
    <3> QED  BY <1>1, <1>7, <2>1, <3>1 DEF SlotOrder
  <2>2. CASE all[j].item.n = acc
    BY <1>6, <2>2
  <2> QED  BY <1>4, <2>1, <2>2
<1>8. SlotOrder(s, all, acc)
  BY <1>6, <1>7 DEF SlotOrder
<1> QED  BY <1>8 DEF all

-----------------------------------------------------------------------------
(* What a step does to the box it works at, and that it leaves the others. *)

OtherBoxes(kind, key) ==
  \A k2 \in Kinds, key2 \in Keys : ~(k2 = kind /\ key2 = key) =>
    /\ persisted'[k2][key2] = persisted[k2][key2]
    /\ delivered'[k2][key2] = delivered[k2][key2]
    /\ discarded'[k2][key2] = discarded[k2][key2]
    /\ accepted'[k2][key2] = accepted[k2][key2]

LEMMA AcceptDoes ==
  ASSUME TypeOK, NEW kind \in Kinds, NEW d \in Devices, NEW r \in References,
         Accept(kind, d, r)
  PROVE  \E key \in Keys, item \in Item :
           /\ item.n = accepted[kind][key] + 1
           /\ persisted'[kind][key] = IF kind \in ListKinds
                                      THEN Append(persisted[kind][key], item)
                                      ELSE <<item>>
           /\ accepted'[kind][key] = accepted[kind][key] + 1
           /\ UNCHANGED <<worker, delivered, discarded>>
           /\ worker.pc = "idle"
           /\ OtherBoxes(kind, key)
<1> DEFINE key == KeyOf(kind, d, r)
           n0 == accepted[kind][key] + 1
           item == [device |-> d, reference |-> r, n |-> n0]
           s == persisted[kind][key]
           new == IF kind \in ListKinds THEN Append(s, item) ELSE <<item>>
<1>1. key \in Keys
  BY KeyTyped
<1>2. n0 \in Nat /\ n0 \in Numbers
  <2>1. n0 \in Nat /\ n0 >= 1 /\ n0 <= MaxAccepted[kind]
    BY <1>1, BoxTyped DEF TypeOK, Accept
  <2> QED
    BY <2>1, BoundsAssumption DEF Numbers
<1>3. item \in Item /\ item.n = n0
  BY <1>2 DEF Item
<1>4. s \in Seq(Item)
  BY <1>1, BoxTyped DEF TypeOK
<1>5. /\ persisted' = [persisted EXCEPT ![kind][key] = new]
      /\ accepted' = [accepted EXCEPT ![kind][key] = n0]
      /\ UNCHANGED <<worker, delivered, discarded>>
      /\ worker.pc = "idle"
  BY DEF Accept, Put
<1> HIDE DEF key, item, s
<1>6. new \in Seq(Item)
  BY <1>3, <1>4
<1> HIDE DEF new, n0
<1>7. persisted \in PerKey(Seq(Item)) /\ accepted \in PerKey(Nat)
  BY DEF TypeOK
<1>8. /\ persisted'[kind][key] = new
      /\ \A k2 \in Kinds, key2 \in Keys : ~(k2 = kind /\ key2 = key) =>
           persisted'[k2][key2] = persisted[k2][key2]
  BY <1>1, <1>5, <1>6, <1>7 DEF PerKey
<1>9. /\ accepted'[kind][key] = n0
      /\ \A k2 \in Kinds, key2 \in Keys : ~(k2 = kind /\ key2 = key) =>
           accepted'[k2][key2] = accepted[k2][key2]
  BY <1>1, <1>2, <1>5, <1>7 DEF PerKey
<1>10. OtherBoxes(kind, key)
  BY <1>5, <1>8, <1>9 DEF OtherBoxes
<1>11. persisted'[kind][key] = IF kind \in ListKinds
                               THEN Append(persisted[kind][key], item) ELSE <<item>>
  BY <1>8 DEF new, s
<1> QED  BY <1>1, <1>3, <1>5, <1>9, <1>10, <1>11 DEF n0

(* The rest of a box after its batch.                                      *)
Rest(kind, key) ==
  SubSeq(persisted[kind][key], BatchLength(kind, key) + 1, Len(persisted[kind][key]))

LEMMA RemoveDoes ==
  ASSUME TypeOK, NEW kind \in Kinds, NEW key \in Keys, RemoveBatch(kind, key)
  PROVE  /\ persisted'[kind][key] = Rest(kind, key)
         /\ \A k2 \in Kinds, key2 \in Keys : ~(k2 = kind /\ key2 = key) =>
              persisted'[k2][key2] = persisted[k2][key2]
<1>1. persisted \in PerKey(Seq(Item))
  BY DEF TypeOK
<1>2. persisted' = [persisted EXCEPT ![kind][key] = Rest(kind, key)]
  BY DEF RemoveBatch, Rest
<1> QED  BY <1>1, <1>2 DEF PerKey

LEMMA DiscardDoes ==
  ASSUME TypeOK, NEW kind \in Kinds, worker.pc = "publish", DiscardBatch(kind),
         UNCHANGED <<linkUp, accepted, crashes>>
  PROVE  LET key == worker.key
         IN  /\ key \in Keys
             /\ persisted[kind][key] # <<>>
             /\ persisted'[kind][key] = Rest(kind, key)
             /\ discarded[kind][key] \subseteq discarded'[kind][key]
             /\ \A i \in 1 .. BatchLength(kind, key) :
                  persisted[kind][key][i].n \in discarded'[kind][key]
             /\ UNCHANGED <<delivered, accepted>>
             /\ worker'.pc = "next"
             /\ OtherBoxes(kind, key)
<1>1. PICK key \in Keys : key = worker.key
  BY DEF TypeOK
<1> DEFINE batch == Batch(kind, key)
           dropped == discarded[kind][key] \cup {batch[i].n : i \in DOMAIN batch}
<1>2. /\ discarded' = [discarded EXCEPT ![kind][key] = dropped]
      /\ RemoveBatch(kind, key)
      /\ worker' = [worker EXCEPT !.pc = "next", !.failed = TRUE]
      /\ batch # <<>>
      /\ UNCHANGED <<delivered, accepted>>
  BY <1>1 DEF DiscardBatch
<1>3. worker'.pc = "next"
  BY <1>2 DEF TypeOK, Worker
<1>4. /\ batch \in Seq(Item)
      /\ Len(batch) = BatchLength(kind, key)
      /\ BatchLength(kind, key) \in Nat /\ BatchLength(kind, key) <= Len(persisted[kind][key])
      /\ \A i \in 1 .. BatchLength(kind, key) : batch[i] = persisted[kind][key][i]
  BY <1>1, BatchAndRest DEF TypeOK
<1>5. persisted[kind][key] # <<>>
  BY <1>2, <1>4
<1> HIDE DEF batch
<1>6. dropped \in SUBSET Numbers
  <2>1. \A i \in DOMAIN batch : batch[i] \in Item
    BY <1>4
  <2>2. \A i \in DOMAIN batch : batch[i].n \in Numbers
    BY <2>1 DEF Item
  <2>3. discarded[kind][key] \in SUBSET Numbers
    BY <1>1, BoxTyped DEF TypeOK
  <2> QED
    BY <2>2, <2>3
<1>7. \A i \in 1 .. BatchLength(kind, key) : persisted[kind][key][i].n \in dropped
  <2>1. \A i \in 1 .. BatchLength(kind, key) : i \in DOMAIN batch
    BY <1>4
  <2> QED  BY <1>4, <2>1
<1>8. discarded[kind][key] \subseteq dropped
  OBVIOUS
<1> HIDE DEF dropped
<1>9. /\ discarded'[kind][key] = dropped
      /\ \A k2 \in Kinds, key2 \in Keys : ~(k2 = kind /\ key2 = key) =>
           discarded'[k2][key2] = discarded[k2][key2]
  <2>1. discarded \in PerKey(SUBSET Numbers)
    BY DEF TypeOK
  <2> QED  BY <1>2, <1>6, <2>1 DEF PerKey
<1>10. OtherBoxes(kind, key) /\ persisted'[kind][key] = Rest(kind, key)
  BY <1>1, <1>2, <1>9, RemoveDoes DEF OtherBoxes
<1> QED  BY <1>1, <1>2, <1>3, <1>5, <1>7, <1>8, <1>9, <1>10

(* What the connectivity service is given of a batch.                      *)
Mail(kind, key) ==
  [i \in DOMAIN Batch(kind, key) |->
     [to |-> Addressee(kind, key), item |-> Batch(kind, key)[i]]]

LEMMA MailIsBatch ==
  ASSUME TypeOK, NEW kind \in Kinds, NEW key \in Keys
  PROVE  /\ Mail(kind, key) \in Seq(Delivery)
         /\ Len(Mail(kind, key)) = BatchLength(kind, key)
         /\ \A i \in 1 .. BatchLength(kind, key) :
              /\ Mail(kind, key)[i].item = persisted[kind][key][i]
              /\ Mail(kind, key)[i].to = Addressee(kind, key)
<1>1. Mail(kind, key) \in Seq(Delivery)
  BY DeliveredTyped DEF Mail
<1>2. /\ BatchLength(kind, key) \in Nat
      /\ DOMAIN Batch(kind, key) = 1 .. BatchLength(kind, key)
      /\ \A i \in 1 .. BatchLength(kind, key) :
           Batch(kind, key)[i] = persisted[kind][key][i]
  BY BatchAndRest DEF TypeOK
<1>3. DOMAIN Mail(kind, key) = 1 .. BatchLength(kind, key)
  BY <1>2 DEF Mail
<1>4. Len(Mail(kind, key)) = BatchLength(kind, key)
  BY <1>1, <1>2, <1>3
<1>5. \A i \in 1 .. BatchLength(kind, key) :
        /\ Mail(kind, key)[i].item = persisted[kind][key][i]
        /\ Mail(kind, key)[i].to = Addressee(kind, key)
  BY <1>2 DEF Mail
<1> QED  BY <1>1, <1>4, <1>5

LEMMA PublishDoes ==
  ASSUME TypeOK, NEW kind \in Kinds, worker.kind = kind, worker.pc = "publish",
         BatchPublished(kind), UNCHANGED <<linkUp, accepted, crashes>>
  PROVE  LET key == worker.key
         IN  /\ key \in Keys
             /\ persisted[kind][key] # <<>>
             /\ delivered'[kind][key] = delivered[kind][key] \o Mail(kind, key)
             /\ UNCHANGED <<persisted, discarded, accepted>>
             /\ worker'.pc = "remove" /\ worker'.kind = kind /\ worker'.key = key
             /\ OtherBoxes(kind, key)
<1>1. PICK key \in Keys : key = worker.key
  BY DEF TypeOK
<1> DEFINE all == delivered[kind][key] \o Mail(kind, key)
<1>2. /\ delivered' = [delivered EXCEPT ![kind][key] = all]
      /\ worker' = [worker EXCEPT !.pc = "remove"]
      /\ Batch(kind, key) # <<>>
      /\ UNCHANGED <<persisted, discarded, accepted>>
  BY <1>1 DEF BatchPublished, Mail
<1>3. worker'.pc = "remove" /\ worker'.kind = kind /\ worker'.key = key
  BY <1>1, <1>2 DEF TypeOK, Worker
<1>4. /\ Batch(kind, key) \in Seq(Item)
      /\ Len(Batch(kind, key)) = BatchLength(kind, key)
      /\ BatchLength(kind, key) \in Nat /\ BatchLength(kind, key) <= Len(persisted[kind][key])
  BY <1>1, BatchAndRest DEF TypeOK
<1>5. persisted[kind][key] # <<>>
  BY <1>2, <1>4
<1>6. delivered \in PerKey(Seq(Delivery)) /\ delivered[kind][key] \in Seq(Delivery)
  BY BoxTyped DEF TypeOK
<1>7. all \in Seq(Delivery)
  BY <1>6, MailIsBatch
<1> HIDE DEF all
<1>8. /\ delivered'[kind][key] = all
      /\ \A k2 \in Kinds, key2 \in Keys : ~(k2 = kind /\ key2 = key) =>
           delivered'[k2][key2] = delivered[k2][key2]
  BY <1>2, <1>6, <1>7 DEF PerKey
<1>9. OtherBoxes(kind, key)
  BY <1>2, <1>8 DEF OtherBoxes
<1> QED  BY <1>1, <1>2, <1>3, <1>5, <1>8, <1>9 DEF all

-----------------------------------------------------------------------------
(* Order.                                                                  *)

BoxOrder(kind, key) ==
  /\ kind \in ListKinds =>
       ListOrder(persisted[kind][key], delivered[kind][key], discarded[kind][key],
                 accepted[kind][key])
  /\ kind \in SlotKinds =>
       SlotOrder(persisted[kind][key], delivered[kind][key], accepted[kind][key])

LEMMA OrderOfBoxes ==
  OrderInv <=> \A kind \in Kinds, key \in Keys : BoxOrder(kind, key)
BY DEF OrderInv, BoxOrder, Kinds

LEMMA OneBox ==
  ASSUME OrderInv, NEW kind \in Kinds, NEW key \in Keys, OtherBoxes(kind, key),
         BoxOrder(kind, key)'
  PROVE  OrderInv'
<1>1. ASSUME NEW k2 \in Kinds, NEW key2 \in Keys PROVE BoxOrder(k2, key2)'
  <2>1. CASE k2 = kind /\ key2 = key
    BY <2>1
  <2>2. CASE ~(k2 = kind /\ key2 = key)
    <3>1. BoxOrder(k2, key2)
      BY OrderOfBoxes
    <3>2. /\ persisted'[k2][key2] = persisted[k2][key2]
          /\ delivered'[k2][key2] = delivered[k2][key2]
          /\ discarded'[k2][key2] = discarded[k2][key2]
          /\ accepted'[k2][key2] = accepted[k2][key2]
      BY <2>2 DEF OtherBoxes
    <3> QED  BY <3>1, <3>2 DEF BoxOrder
  <2> QED  BY <2>1, <2>2
<1> QED  BY <1>1 DEF OrderInv, BoxOrder, Kinds

LEMMA BoxesTyped ==
  ASSUME TypeOK, NEW kind \in Kinds, NEW key \in Keys
  PROVE  /\ persisted[kind][key] \in Seq(Item)
         /\ delivered[kind][key] \in Seq(Delivery)
         /\ accepted[kind][key] \in Nat
BY BoxTyped DEF TypeOK

LEMMA RestTyped ==
  ASSUME TypeOK, NEW kind \in Kinds, NEW key \in Keys
  PROVE  LET s == persisted[kind][key]
             L == BatchLength(kind, key)
             rest == Rest(kind, key)
         IN  /\ L \in Nat /\ L <= Len(s) /\ (s # <<>> => L >= 1)
             /\ rest \in Seq(Item)
             /\ Len(rest) = Len(s) - L
             /\ \A i \in 1 .. Len(rest) : rest[i] = s[L + i]
BY BatchAndRest DEF TypeOK, Rest

LEMMA AcceptOrdered ==
  ASSUME TypeOK, OrderInv, NEW kind \in Kinds, NEW d \in Devices, NEW r \in References,
         Accept(kind, d, r)
  PROVE  OrderInv'
<1>1. PICK key \in Keys, item \in Item :
        /\ item.n = accepted[kind][key] + 1
        /\ persisted'[kind][key] = IF kind \in ListKinds
                                   THEN Append(persisted[kind][key], item) ELSE <<item>>
        /\ accepted'[kind][key] = accepted[kind][key] + 1
        /\ UNCHANGED <<worker, delivered, discarded>>
        /\ OtherBoxes(kind, key)
  BY AcceptDoes
<1>2. BoxOrder(kind, key)
  BY OrderOfBoxes
<1>3. CASE kind \in ListKinds
  <2>1. ListOrder(Append(persisted[kind][key], item), delivered[kind][key],
                  discarded[kind][key], accepted[kind][key] + 1)
    BY <1>1, <1>2, <1>3, ListAccepts, BoxesTyped DEF BoxOrder
  <2>2. kind \notin SlotKinds
    BY <1>3 DEF ListKinds, SlotKinds
  <2>3. BoxOrder(kind, key)'
    BY <1>1, <1>3, <2>1, <2>2 DEF BoxOrder
  <2> QED  BY <1>1, <2>3, OneBox
<1>4. CASE kind \notin ListKinds
  <2>1. kind \in SlotKinds
    BY <1>4 DEF Kinds
  <2>2. SlotOrder(<<item>>, delivered[kind][key], accepted[kind][key] + 1)
    BY <1>1, <1>2, <2>1, SlotAccepts, BoxesTyped DEF BoxOrder
  <2>3. BoxOrder(kind, key)'
    BY <1>1, <1>4, <2>2 DEF BoxOrder
  <2> QED  BY <1>1, <2>3, OneBox
<1> QED  BY <1>3, <1>4

(* A batch leaves, sent before or discarded now.                           *)
LEMMA BatchLeaves ==
  ASSUME TypeOK, OrderInv, NEW kind \in Kinds, NEW key \in Keys,
         persisted'[kind][key] = Rest(kind, key),
         delivered'[kind][key] = delivered[kind][key],
         accepted'[kind][key] = accepted[kind][key],
         discarded[kind][key] \subseteq discarded'[kind][key],
         \A i \in 1 .. BatchLength(kind, key) :
           \/ persisted[kind][key][i].n \in discarded'[kind][key]
           \/ \E j \in DOMAIN delivered[kind][key] :
                delivered[kind][key][j].item.n = persisted[kind][key][i].n,
         OtherBoxes(kind, key)
  PROVE  OrderInv'
<1>1. BoxOrder(kind, key)
  BY OrderOfBoxes
<1>2. kind \in ListKinds =>
        ListOrder(Rest(kind, key), delivered[kind][key], discarded'[kind][key],
                  accepted[kind][key])
  BY <1>1, ListLeaves, BoxesTyped, RestTyped DEF BoxOrder
<1>3. ASSUME kind \in SlotKinds
      PROVE  SlotOrder(Rest(kind, key), delivered[kind][key], accepted[kind][key])
  <2>1. SlotOrder(persisted[kind][key], delivered[kind][key], accepted[kind][key])
    BY <1>1, <1>3 DEF BoxOrder
  <2> DEFINE L == BatchLength(kind, key)
  <2>2. /\ L \in Nat /\ persisted[kind][key] \in Seq(Item) /\ Rest(kind, key) \in Seq(Item)
        /\ Len(Rest(kind, key)) = Len(persisted[kind][key]) - L
        /\ \A i \in 1 .. Len(Rest(kind, key)) :
             Rest(kind, key)[i] = persisted[kind][key][L + i]
    BY BoxesTyped, RestTyped
  <2> HIDE DEF L
  <2> QED  BY <2>1, <2>2, SlotLeaves
<1>4. BoxOrder(kind, key)'
  BY <1>2, <1>3 DEF BoxOrder
<1> QED  BY <1>4, OneBox

LEMMA PublishedOrdered ==
  ASSUME TypeOK, OrderInv, NEW kind \in Kinds, worker.kind = kind, worker.pc = "publish",
         BatchPublished(kind), UNCHANGED <<linkUp, accepted, crashes>>
  PROVE  OrderInv'
<1>1. PICK key \in Keys : key = worker.key
  BY DEF TypeOK
<1>2. /\ delivered'[kind][key] = delivered[kind][key] \o Mail(kind, key)
      /\ UNCHANGED <<persisted, discarded, accepted>>
      /\ OtherBoxes(kind, key)
  BY <1>1, PublishDoes
<1>3. BoxOrder(kind, key)
  BY OrderOfBoxes
<1> DEFINE L == BatchLength(kind, key)
<1>4. /\ L \in Nat /\ L <= Len(persisted[kind][key])
      /\ persisted[kind][key] \in Seq(Item)
      /\ delivered[kind][key] \in Seq(Delivery) /\ accepted[kind][key] \in Nat
      /\ Mail(kind, key) \in Seq(Delivery) /\ Len(Mail(kind, key)) = L
      /\ \A i \in 1 .. L : Mail(kind, key)[i].item = persisted[kind][key][i]
  BY BoxesTyped, RestTyped, MailIsBatch
<1> HIDE DEF L
<1>5. ASSUME kind \in ListKinds
      PROVE  ListOrder(persisted[kind][key], delivered[kind][key] \o Mail(kind, key),
                       discarded[kind][key], accepted[kind][key])
  <2>1. ListOrder(persisted[kind][key], delivered[kind][key], discarded[kind][key],
                  accepted[kind][key])
    BY <1>3, <1>5 DEF BoxOrder
  <2> QED  BY <1>4, <2>1, ListSends
<1>6. ASSUME kind \in SlotKinds
      PROVE  SlotOrder(persisted[kind][key], delivered[kind][key] \o Mail(kind, key),
                       accepted[kind][key])
  <2>1. SlotOrder(persisted[kind][key], delivered[kind][key], accepted[kind][key])
    BY <1>3, <1>6 DEF BoxOrder
  <2> QED  BY <1>4, <2>1, SlotSends
<1>7. BoxOrder(kind, key)'
  BY <1>2, <1>5, <1>6 DEF BoxOrder
<1> QED  BY <1>2, <1>7, OneBox

LEMMA QuietOrdered ==
  ASSUME OrderInv, UNCHANGED <<persisted, delivered, discarded, accepted>>
  PROVE  OrderInv'
BY DEF OrderInv

LEMMA ForKeyOrdered ==
  ASSUME TypeOK, SafeInv, OrderInv, NEW kind \in Kinds, ForPersistanceKey(kind)
  PROVE  OrderInv'
<1>1. worker.kind = kind /\ UNCHANGED <<linkUp, accepted, crashes>>
  BY DEF ForPersistanceKey
<1>2. CASE worker.pc = "publish" /\ (NothingStored(kind) \/ BatchNotTaken(kind))
  BY <1>1, <1>2, QuietOrdered DEF NothingStored, BatchNotTaken
<1>3. CASE worker.pc = "publish" /\ DiscardBatch(kind)
  <2>1. PICK key \in Keys : key = worker.key
    BY <1>3 DEF TypeOK
  <2>2. /\ persisted'[kind][key] = Rest(kind, key)
        /\ discarded[kind][key] \subseteq discarded'[kind][key]
        /\ \A i \in 1 .. BatchLength(kind, key) :
             persisted[kind][key][i].n \in discarded'[kind][key]
        /\ UNCHANGED <<delivered, accepted>>
        /\ OtherBoxes(kind, key)
    BY <1>1, <1>3, <2>1, DiscardDoes
  <2> QED  BY <2>2, BatchLeaves
<1>4. CASE worker.pc = "publish" /\ BatchPublished(kind)
  BY <1>1, <1>4, PublishedOrdered
<1>5. CASE worker.pc = "remove" /\ BatchRemoved(kind)
  <2>1. PICK key \in Keys : key = worker.key
    BY <1>5 DEF TypeOK
  <2>2. RemoveBatch(kind, key) /\ UNCHANGED <<delivered, discarded, accepted>>
    BY <1>1, <1>5, <2>1 DEF BatchRemoved
  <2>3. persisted'[kind][key] = Rest(kind, key) /\ OtherBoxes(kind, key)
    BY <2>2, RemoveDoes DEF OtherBoxes
  <2>4. \A i \in 1 .. BatchLength(kind, key) :
          \E j \in DOMAIN delivered[kind][key] :
            delivered[kind][key][j].item.n = persisted[kind][key][i].n
    BY <1>1, <1>5, <2>1 DEF SafeInv, RemovalIsOfWhatWasSent, WasDelivered
  <2> QED  BY <2>2, <2>3, <2>4, BatchLeaves
<1> QED
  BY <1>2, <1>3, <1>4, <1>5 DEF ForPersistanceKey

LEMMA OrderNext == TypeOK /\ SafeInv /\ OrderInv /\ [Next]_vars => OrderInv'
<1> SUFFICES ASSUME TypeOK, SafeInv, OrderInv, [Next]_vars PROVE OrderInv'
  OBVIOUS
<1>1. ASSUME NEW kind \in Kinds, NEW d \in Devices, NEW r \in References,
             Accept(kind, d, r)
      PROVE  OrderInv'
  BY <1>1, AcceptOrdered
<1>2. ASSUME NEW kind \in Kinds, NEW a \in Devices \cup {AllDevices},
             NEW keys \in SUBSET Keys, StartPublish(kind, a, keys)
      PROVE  OrderInv'
  BY <1>2, QuietOrdered DEF StartPublish
<1>3. CASE NextKey \/ EndPublish \/ LinkChanges \/ Crash \/ UNCHANGED vars
  BY <1>3, QuietOrdered DEF NextKey, EndPublish, LinkChanges, Crash, vars
<1>4. ASSUME NEW kind \in Kinds, ForPersistanceKey(kind)
      PROVE  OrderInv'
  BY <1>4, ForKeyOrdered
<1> QED
  BY <1>1, <1>2, <1>3, <1>4, Steps

LEMMA OrderInit == Init => OrderInv
<1> SUFFICES ASSUME Init PROVE OrderInv
  OBVIOUS
<1>1. \A kind \in Kinds, key \in Keys :
        /\ persisted[kind][key] = <<>> /\ delivered[kind][key] = <<>>
        /\ accepted[kind][key] = 0
  BY DEF Init
<1>2. 1 .. 0 - Len(<<>>) = {} /\ DOMAIN <<>> = {}
  OBVIOUS
<1>3. \A disc : ListOrder(<<>>, <<>>, disc, 0) /\ SlotOrder(<<>>, <<>>, 0)
  BY <1>2 DEF ListOrder, SlotOrder
<1> QED  BY <1>1, <1>3 DEF OrderInv, Kinds

LEMMA OrderAlways == Spec => []OrderInv
<1>1. TypeOK /\ SafeInv /\ OrderInv /\ [Next]_vars => OrderInv'
  BY OrderNext
<1> QED
  BY <1>1, TypeInit, TypeNext, SafeInit, SafeNext, OrderInit, PTL DEF Spec

(* Readings and alarms are sent in the order in which they were accepted,  *)
(* whatever publishes fail and however often the process stops.            *)
THEOREM SentInOrder == Spec => []NoOvertaking
<1>1. OrderInv => NoOvertaking
  BY DEF OrderInv, ListOrder, NoOvertaking
<1> QED  BY <1>1, OrderAlways, PTL

(* Actuator statuses and configurations never go back, whatever is stored  *)
(* while a publish fails.                                                  *)
THEOREM StatusesNeverGoBack == Spec => []NoStaleStatus
<1>1. OrderInv => NoStaleStatus
  BY DEF OrderInv, SlotOrder, NoStaleStatus
<1> QED  BY <1>1, OrderAlways, PTL

-----------------------------------------------------------------------------
(* For whom.                                                               *)

(* The keys a call for one device has yet to walk belong to that device.   *)
AskedInv ==
  worker.pc # "idle" /\ worker.asked # AllDevices =>
    /\ \A key \in worker.todo : Addressee(worker.kind, key) = worker.asked
    /\ worker.pc \in {"publish", "remove"} =>
         Addressee(worker.kind, worker.key) = worker.asked

LEMMA StartAsked ==
  ASSUME NEW kind \in Kinds, NEW a, NEW keys, StartPublish(kind, a, keys),
         a # AllDevices => \A key \in keys : Addressee(kind, key) = a
  PROVE  AskedInv'
BY DEF StartPublish, AskedInv

LEMMA MatchingAsked ==
  ASSUME NEW kind \in {"sensor", "alarm", "actuator"}, NEW d, NEW keys,
         NEW key \in FindMatchingPersistanceKeys(d, keys)
  PROVE  Addressee(kind, key) = d
BY DEF FindMatchingPersistanceKeys, Addressee

LEMMA PublishAsked ==
  ASSUME Publish
  PROVE  AskedInv'
<1>1. /\ "sensor" \in Kinds /\ "alarm" \in Kinds
      /\ "actuator" \in Kinds /\ "configuration" \in Kinds
  BY DEF Kinds, ListKinds, SlotKinds
<1>2. CASE \/ PublishSensorReadings
           \/ PublishAlarms
           \/ PublishActuatorStatuses
           \/ PublishConfiguration
  BY <1>1, <1>2, StartAsked DEF PublishSensorReadings, PublishAlarms,
     PublishActuatorStatuses, PublishConfiguration
<1>3. ASSUME NEW d \in Devices,
             \/ PublishSensorReadingsOf(d)
             \/ PublishAlarmsOf(d)
             \/ PublishActuatorStatusesOf(d)
      PROVE  AskedInv'
  <2>1. PICK kind \in {"sensor", "alarm", "actuator"} :
          StartPublish(kind, d, FindMatchingPersistanceKeys(d, StoredKeys(kind)))
    BY <1>3 DEF PublishSensorReadingsOf, PublishAlarmsOf, PublishActuatorStatusesOf
  <2>2. kind \in Kinds
    BY <1>1
  <2>3. \A key \in FindMatchingPersistanceKeys(d, StoredKeys(kind)) :
          Addressee(kind, key) = d
    BY MatchingAsked
  <2> QED  BY <2>1, <2>2, <2>3, StartAsked
<1>4. ASSUME NEW d \in Devices, PublishConfigurationOf(d)
      PROVE  AskedInv'
  <2>1. \A key \in {d} : Addressee("configuration", key) = d
    BY DEF Addressee
  <2> QED  BY <1>1, <1>4, <2>1, StartAsked DEF PublishConfigurationOf
<1> QED  BY <1>2, <1>3, <1>4 DEF Publish

LEMMA ForKeyAsked ==
  ASSUME TypeOK, AskedInv, NEW kind \in Kinds, ForPersistanceKey(kind)
  PROVE  AskedInv'
<1> DEFINE Same == /\ worker'.todo = worker.todo /\ worker'.key = worker.key
                   /\ worker'.kind = worker.kind /\ worker'.asked = worker.asked
<1>1. NothingStored(kind) => Same
  BY DEF NothingStored, TypeOK, Worker
<1>2. DiscardBatch(kind) => Same
  BY DEF DiscardBatch, TypeOK, Worker
<1>3. BatchPublished(kind) => Same
  BY DEF BatchPublished, TypeOK, Worker
<1>4. BatchNotTaken(kind) => Same
  BY DEF BatchNotTaken, TypeOK, Worker
<1>5. BatchRemoved(kind) => Same
  BY DEF BatchRemoved, TypeOK, Worker
<1>6. Same
  BY <1>1, <1>2, <1>3, <1>4, <1>5 DEF ForPersistanceKey
<1>7. worker.pc \in {"publish", "remove"}
  BY DEF ForPersistanceKey
<1> QED  BY <1>6, <1>7 DEF AskedInv, Addressee

LEMMA AskedNext == TypeOK /\ AskedInv /\ [Next]_vars => AskedInv'
<1> SUFFICES ASSUME TypeOK, AskedInv, [Next]_vars PROVE AskedInv'
  OBVIOUS
<1>1. CASE worker' = worker
  BY <1>1 DEF AskedInv, Addressee
<1>2. CASE Add
  BY <1>1, <1>2 DEF Add, AddSensorReading, AddAlarm, AddActuatorStatus, AddConfiguration,
     Accept
<1>3. CASE Publish
  BY <1>3, PublishAsked
<1>4. CASE NextKey
  <2>1. PICK key \in worker.todo :
          worker' = [worker EXCEPT !.pc = "publish", !.key = key, !.todo = @ \ {key}]
    BY <1>4 DEF NextKey
  <2>2. /\ worker'.todo = worker.todo \ {key} /\ worker'.key = key
        /\ worker'.kind = worker.kind /\ worker'.asked = worker.asked
    BY <2>1 DEF TypeOK, Worker
  <2>3. worker.pc = "next"
    BY <1>4 DEF NextKey
  <2> QED  BY <2>2, <2>3 DEF AskedInv, Addressee
<1>5. CASE EndPublish \/ Crash
  BY <1>5 DEF EndPublish, Crash, Idle, AskedInv
<1>6. ASSUME NEW kind \in Kinds, ForPersistanceKey(kind) PROVE AskedInv'
  BY <1>6, ForKeyAsked
<1>7. CASE LinkChanges \/ UNCHANGED vars
  BY <1>1, <1>7 DEF LinkChanges, vars
<1>8. WorkerStep => \/ NextKey \/ EndPublish
                   \/ \E kind \in Kinds : ForPersistanceKey(kind)
  BY DEF WorkerStep, Kinds, ListKinds, SlotKinds, PublishSensorReadingsForPersistanceKey,
     PublishAlarmsForPersistanceKey, PublishActuatorStatusesForPersistanceKey,
     PublishConfigurationForPersistanceKey
<1> QED
  BY <1>2, <1>3, <1>4, <1>5, <1>6, <1>7, <1>8 DEF Next

AskedStep ==
  \A kind \in Kinds, key \in Keys :
    \A i \in DOMAIN delivered'[kind][key] \ DOMAIN delivered[kind][key] :
      worker.asked \in {AllDevices, delivered'[kind][key][i].item.device}

LEMMA PublishedAsked ==
  ASSUME TypeOK, AskedInv, RightDevice', NEW kind \in Kinds, worker.kind = kind,
         worker.pc = "publish", BatchPublished(kind), UNCHANGED <<linkUp, accepted, crashes>>
  PROVE  AskedStep
<1>1. PICK key \in Keys : key = worker.key
  BY DEF TypeOK
<1> DEFINE old == delivered[kind][key]
           mail == Mail(kind, key)
<1>2. delivered'[kind][key] = old \o mail /\ OtherBoxes(kind, key)
  BY <1>1, PublishDoes
<1>3. AtJoint(old, mail, old \o mail)
  BY BoxesTyped, MailIsBatch, Joined
<1>4. Len(mail) = BatchLength(kind, key)
  BY MailIsBatch
<1>5. \A j \in 1 .. Len(mail) : mail[j].to = Addressee(kind, key)
  BY <1>4, MailIsBatch
<1> HIDE DEF old, mail
<1>6. ASSUME NEW i \in DOMAIN delivered'[kind][key] \ DOMAIN old
      PROVE  delivered'[kind][key][i].to = Addressee(kind, key)
  <2>1. i - Len(old) \in 1 .. Len(mail) /\ i = Len(old) + (i - Len(old))
    BY <1>2, <1>3 DEF AtJoint
  <2>2. (old \o mail)[Len(old) + (i - Len(old))] = mail[i - Len(old)]
    BY <1>3, <2>1 DEF AtJoint
  <2> QED  BY <1>2, <1>5, <2>1, <2>2
<1>7. worker.asked \in {AllDevices, Addressee(kind, key)}
  BY <1>1 DEF AskedInv
<1>8. ASSUME NEW k2 \in Kinds, NEW key2 \in Keys,
             NEW i \in DOMAIN delivered'[k2][key2] \ DOMAIN delivered[k2][key2]
      PROVE  worker.asked \in {AllDevices, delivered'[k2][key2][i].item.device}
  <2>1. k2 = kind /\ key2 = key
    BY <1>2 DEF OtherBoxes
  <2>2. delivered'[kind][key][i].to = Addressee(kind, key)
    BY <1>6, <2>1 DEF old
  <2>3. delivered'[kind][key][i].to = delivered'[kind][key][i].item.device
    BY <2>1 DEF RightDevice
  <2> QED  BY <1>7, <2>1, <2>2, <2>3
<1> QED  BY <1>8 DEF AskedStep

(* With device keys free of the delimiter, publish*(deviceKey) sends data  *)
(* of that device only, however many keys share a prefix with it.          *)
THEOREM OnlyTheDeviceAskedFor ==
  ASSUME PlainDeviceKeys
  PROVE  Spec => OnlyAskedDevice
<1>1. TypeOK /\ AskedInv /\ RightInv' /\ [Next]_vars => [AskedStep]_vars
  <2> SUFFICES ASSUME TypeOK, AskedInv, RightInv', Next PROVE AskedStep
    OBVIOUS
  <2>1. CASE delivered' = delivered
    BY <2>1 DEF AskedStep
  <2>2. ASSUME NEW kind \in Kinds, ForPersistanceKey(kind) PROVE AskedStep
    <3>1. CASE worker.pc = "publish" /\ BatchPublished(kind)
      BY <2>2, <3>1, PublishedAsked DEF ForPersistanceKey, RightInv
    <3>2. CASE ~(worker.pc = "publish" /\ BatchPublished(kind))
      BY <2>1, <2>2, <3>2 DEF ForPersistanceKey, NothingStored, DiscardBatch,
         BatchNotTaken, BatchRemoved
    <3> QED  BY <3>1, <3>2
  <2> QED
    BY <2>1, <2>2, Steps DEF Accept, StartPublish, NextKey, EndPublish, LinkChanges, Crash
<1>2. Init => AskedInv
  BY DEF Init, Idle, AskedInv
<1>3. TypeOK /\ RightInv /\ [Next]_vars => RightInv'
  BY RightNext
<1>4. [][AskedStep]_vars => OnlyAskedDevice
  BY DEF OnlyAskedDevice, AskedStep
<1> QED
  BY <1>1, <1>2, <1>3, <1>4, AskedNext, RightInit, TypeInit, TypeNext, PTL DEF Spec

-----------------------------------------------------------------------------
(* To the end.                                                             *)

(* While no batch of a call has failed, what it was asked for and is still *)
(* stored is ahead of it.                                                  *)
AheadInv ==
  worker.pc # "idle" /\ ~worker.failed =>
    \A key \in Keys :
      /\ persisted[worker.kind][key] # <<>>
      /\ worker.asked \in {AllDevices, Addressee(worker.kind, key)}
      => \/ key \in worker.todo
         \/ worker.pc \in {"publish", "remove"} /\ key = worker.key

LEMMA StartAhead ==
  ASSUME NEW kind \in Kinds, NEW a, NEW keys, StartPublish(kind, a, keys),
         \A key \in StoredKeys(kind) :
           a \in {AllDevices, Addressee(kind, key)} => key \in keys
  PROVE  AheadInv'
BY DEF StartPublish, AheadInv, StoredKeys, Addressee

LEMMA PublishAhead ==
  ASSUME Publish
  PROVE  AheadInv'
<1>1. /\ "sensor" \in Kinds /\ "alarm" \in Kinds
      /\ "actuator" \in Kinds /\ "configuration" \in Kinds
  BY DEF Kinds, ListKinds, SlotKinds
<1>2. CASE \/ PublishSensorReadings
           \/ PublishAlarms
           \/ PublishActuatorStatuses
           \/ PublishConfiguration
  BY <1>1, <1>2, StartAhead DEF PublishSensorReadings, PublishAlarms,
     PublishActuatorStatuses, PublishConfiguration
<1>3. ASSUME NEW d \in Devices,
             \/ PublishSensorReadingsOf(d)
             \/ PublishAlarmsOf(d)
             \/ PublishActuatorStatusesOf(d)
      PROVE  AheadInv'
  <2>1. PICK kind \in {"sensor", "alarm", "actuator"} :
          StartPublish(kind, d, FindMatchingPersistanceKeys(d, StoredKeys(kind)))
    BY <1>3 DEF PublishSensorReadingsOf, PublishAlarmsOf, PublishActuatorStatusesOf
  <2>2. kind \in Kinds
    BY <1>1
  <2>3. d # AllDevices
    BY NamesAssumption
  <2>4. \A key \in StoredKeys(kind) :
          d \in {AllDevices, Addressee(kind, key)} =>
            key \in FindMatchingPersistanceKeys(d, StoredKeys(kind))
    BY <2>3 DEF FindMatchingPersistanceKeys, Addressee
  <2> QED  BY <2>1, <2>2, <2>4, StartAhead
<1>4. ASSUME NEW d \in Devices, PublishConfigurationOf(d)
      PROVE  AheadInv'
  <2>1. \A key \in StoredKeys("configuration") :
          d \in {AllDevices, Addressee("configuration", key)} => key \in {d}
    BY NamesAssumption DEF Addressee
  <2> QED  BY <1>1, <1>4, <2>1, StartAhead DEF PublishConfigurationOf
<1> QED  BY <1>2, <1>3, <1>4 DEF Publish

LEMMA ForKeyAhead ==
  ASSUME TypeOK, AheadInv, NEW kind \in Kinds, ForPersistanceKey(kind)
  PROVE  AheadInv'
<1> DEFINE Same == /\ worker'.todo = worker.todo /\ worker'.key = worker.key
                   /\ worker'.kind = worker.kind /\ worker'.asked = worker.asked
                   /\ worker'.failed = worker.failed
<1>1. PICK key \in Keys : key = worker.key
  BY DEF ForPersistanceKey, TypeOK
<1>2. worker.kind = kind /\ worker.pc \in {"publish", "remove"}
  BY DEF ForPersistanceKey
<1>3. CASE DiscardBatch(kind) \/ BatchNotTaken(kind)
  <2>1. worker'.failed
    <3>1. DiscardBatch(kind) => worker'.failed = TRUE
      BY DEF DiscardBatch, TypeOK, Worker
    <3>2. BatchNotTaken(kind) => worker'.failed = TRUE
      BY DEF BatchNotTaken, TypeOK, Worker
    <3> QED  BY <1>3, <3>1, <3>2
  <2> QED  BY <2>1 DEF AheadInv
<1>4. CASE NothingStored(kind)
  <2>1. Same /\ persisted' = persisted /\ persisted[kind][key] = <<>>
    BY <1>1, <1>4 DEF NothingStored, TypeOK, Worker
  <2> QED  BY <1>1, <1>2, <2>1 DEF AheadInv, Addressee
<1>5. CASE worker.pc = "publish" /\ BatchPublished(kind)
  <2>1. Same /\ worker'.pc = "remove" /\ persisted' = persisted
    BY <1>5 DEF BatchPublished, TypeOK, Worker
  <2> QED  BY <1>2, <2>1 DEF AheadInv, Addressee
<1>6. CASE worker.pc = "remove" /\ BatchRemoved(kind)
  <2>1. Same /\ worker'.pc = IF kind \in ListKinds THEN "publish" ELSE "next"
    BY <1>6 DEF BatchRemoved, TypeOK, Worker
  <2>2. /\ persisted'[kind][key] = Rest(kind, key)
        /\ \A key2 \in Keys : key2 # key => persisted'[kind][key2] = persisted[kind][key2]
    BY <1>1, <1>6, RemoveDoes DEF BatchRemoved
  <2>3. kind \in SlotKinds => persisted'[kind][key] = <<>>
    <3> SUFFICES ASSUME kind \in SlotKinds PROVE Rest(kind, key) = <<>>
      BY <2>2
    <3> DEFINE s == persisted[kind][key]
               L == BatchLength(kind, key)
    <3>1. Len(s) <= 1 /\ s \in Seq(Item) /\ Len(s) \in Nat
      BY BoxesTyped DEF TypeOK
    <3>2. L = Len(s)
      BY <3>1 DEF BatchLength, BatchSizeOf, ListKinds, SlotKinds
    <3>3. Rest(kind, key) \in Seq(Item) /\ Len(Rest(kind, key)) = Len(s) - L
      BY BatchAndRest DEF TypeOK, Rest
    <3> HIDE DEF s, L
    <3>4. Len(Rest(kind, key)) = 0
      BY <3>1, <3>2, <3>3
    <3> QED  BY <3>3, <3>4
  <2>4. CASE kind \in ListKinds
    <3>1. worker'.pc = "publish"
      BY <2>1, <2>4
    <3>2. ASSUME NEW key2 \in Keys, key2 # key,
                 ~worker.failed, persisted'[kind][key2] # <<>>,
                 worker.asked \in {AllDevices, Addressee(kind, key2)}
          PROVE  key2 \in worker.todo
      BY <1>1, <1>2, <2>2, <3>2 DEF AheadInv
    <3> QED  BY <1>1, <1>2, <2>1, <3>1, <3>2 DEF AheadInv, Addressee
  <2>5. CASE kind \in SlotKinds
    BY <1>1, <1>2, <2>1, <2>2, <2>3, <2>5 DEF AheadInv, Addressee
  <2> QED  BY <2>4, <2>5 DEF Kinds
<1> QED
  BY <1>3, <1>4, <1>5, <1>6 DEF ForPersistanceKey

LEMMA AheadNext == TypeOK /\ AheadInv /\ [Next]_vars => AheadInv'
<1> SUFFICES ASSUME TypeOK, AheadInv, [Next]_vars PROVE AheadInv'
  OBVIOUS
<1>1. CASE LinkChanges \/ UNCHANGED vars
  BY <1>1 DEF LinkChanges, vars, AheadInv, Addressee
<1>2. ASSUME NEW kind \in Kinds, NEW d \in Devices, NEW r \in References,
             Accept(kind, d, r)
      PROVE  AheadInv'
  BY <1>2 DEF Accept, AheadInv
<1>3. CASE Publish
  BY <1>3, PublishAhead
<1>4. CASE NextKey
  <2>1. PICK key \in worker.todo :
          worker' = [worker EXCEPT !.pc = "publish", !.key = key, !.todo = @ \ {key}]
    BY <1>4 DEF NextKey
  <2>2. /\ worker'.todo = worker.todo \ {key} /\ worker'.key = key
        /\ worker'.kind = worker.kind /\ worker'.asked = worker.asked
        /\ worker'.failed = worker.failed /\ worker'.pc = "publish"
    BY <2>1 DEF TypeOK, Worker
  <2>3. worker.pc = "next" /\ persisted' = persisted
    BY <1>4 DEF NextKey
  <2> QED  BY <2>2, <2>3 DEF AheadInv, Addressee
<1>5. CASE EndPublish \/ Crash
  BY <1>5 DEF EndPublish, Crash, Idle, AheadInv
<1>6. ASSUME NEW kind \in Kinds, ForPersistanceKey(kind) PROVE AheadInv'
  BY <1>6, ForKeyAhead
<1>7. CASE Add
  <2>1. (CHOOSE r \in References : TRUE) \in References
    BY NamesAssumption
  <2>2. /\ "sensor" \in Kinds /\ "alarm" \in Kinds
        /\ "actuator" \in Kinds /\ "configuration" \in Kinds
    BY DEF Kinds, ListKinds, SlotKinds
  <2> QED  BY <1>2, <1>7, <2>1, <2>2 DEF Add, AddSensorReading, AddAlarm,
              AddActuatorStatus, AddConfiguration
<1>8. WorkerStep => \/ NextKey \/ EndPublish
                   \/ \E kind \in Kinds : ForPersistanceKey(kind)
  BY DEF WorkerStep, Kinds, ListKinds, SlotKinds, PublishSensorReadingsForPersistanceKey,
     PublishAlarmsForPersistanceKey, PublishActuatorStatusesForPersistanceKey,
     PublishConfigurationForPersistanceKey
<1> QED
  BY <1>1, <1>3, <1>4, <1>5, <1>6, <1>7, <1>8 DEF Next

DrainStep ==
  worker.pc = "next" /\ EndPublish /\ ~worker.failed =>
    \A key \in StoredKeys(worker.kind) :
      worker.asked \notin {AllDevices, Addressee(worker.kind, key)}

(* A publish* call all of whose batches were taken leaves nothing of what  *)
(* it was asked for in the persistence, whatever the batch size.           *)
THEOREM CallsDrain == Spec => CleanCallDrains
<1>1. AheadInv /\ [Next]_vars => [DrainStep]_vars
  BY DEF AheadInv, DrainStep, EndPublish, StoredKeys
<1>2. Init => AheadInv
  BY DEF Init, Idle, AheadInv
<1>3. [][DrainStep]_vars => CleanCallDrains
  BY DEF CleanCallDrains, DrainStep
<1> QED
  BY <1>1, <1>2, <1>3, AheadNext, TypeInit, TypeNext, PTL DEF Spec

-----------------------------------------------------------------------------
(* How often.                                                              *)

(* How many times x was sent, and whether it waits to be.                  *)
Times(del, x) == Cardinality({j \in DOMAIN del : del[j].item = x})

InQueue(queue, x) == \E i \in DOMAIN queue : queue[i] = x

(* Of one box: only what was accepted was sent, and an item was sent once  *)
(* more than there were restarts; not even that if it waits to be sent.    *)
BoxRepeats(queue, del, acc, restarts) ==
  /\ \A j \in DOMAIN del : del[j].item.n <= acc
  /\ \A x \in Item : Times(del, x) <= restarts + (IF InQueue(queue, x) THEN 0 ELSE 1)

(* A batch that was sent and not yet removed does not wait to be sent; a   *)
(* restart has it wait again.                                              *)
RepeatInv ==
  \A kind \in Kinds, key \in Keys :
    BoxRepeats(ForgottenQueue(kind, key), delivered[kind][key], accepted[kind][key],
               crashes)

LEMMA TimesTyped ==
  ASSUME NEW del \in Seq(Delivery), NEW x
  PROVE  /\ IsFiniteSet({j \in DOMAIN del : del[j].item = x})
         /\ Times(del, x) \in Nat
<1> DEFINE S == {j \in DOMAIN del : del[j].item = x}
<1>1. Len(del) \in Nat /\ DOMAIN del = 1 .. Len(del)
  OBVIOUS
<1>2. IsFiniteSet(1 .. Len(del))
  BY <1>1, FS_Interval
<1>3. S \in SUBSET (1 .. Len(del))
  BY <1>1
<1> HIDE DEF S
<1>4. IsFiniteSet(S)
  BY <1>2, <1>3, FS_Subset
<1>5. Cardinality(S) \in Nat
  BY <1>4, FS_CardinalityType
<1> QED  BY <1>4, <1>5 DEF Times, S

(* Mail that brings x not at all, or once.                                 *)
LEMMA TimesWithout ==
  ASSUME NEW del \in Seq(Delivery), NEW mail \in Seq(Delivery), NEW x,
         \A i \in DOMAIN mail : mail[i].item # x
  PROVE  Times(del \o mail, x) = Times(del, x)
<1> DEFINE all == del \o mail
<1>1. AtJoint(del, mail, all)
  BY Joined
<1> HIDE DEF all
<1>2. ASSUME NEW j \in DOMAIN all, all[j].item = x
      PROVE  j \in DOMAIN del /\ del[j].item = x
  <2>1. j \in 1 .. Len(del) + Len(mail)
    BY <1>1 DEF AtJoint
  <2>2. CASE j \in 1 .. Len(del)
    BY <1>1, <1>2, <2>2 DEF AtJoint
  <2>3. CASE j > Len(del)
    <3>1. j - Len(del) \in 1 .. Len(mail) /\ Len(del) + (j - Len(del)) = j
      BY <1>1, <2>1, <2>3 DEF AtJoint
    <3>2. all[j] = mail[j - Len(del)]
      BY <1>1, <3>1 DEF AtJoint
    <3> QED  BY <1>1, <1>2, <3>1, <3>2 DEF AtJoint
  <2> QED  BY <1>1, <2>1, <2>2, <2>3 DEF AtJoint
<1>3. ASSUME NEW j \in DOMAIN del
      PROVE  j \in DOMAIN all /\ all[j] = del[j]
  BY <1>1 DEF AtJoint
<1>4. {j \in DOMAIN all : all[j].item = x} = {j \in DOMAIN del : del[j].item = x}
  BY <1>2, <1>3
<1> QED  BY <1>4 DEF Times, all

LEMMA TimesWithOne ==
  ASSUME NEW del \in Seq(Delivery), NEW mail \in Seq(Delivery), NEW x,
         \A i, j \in DOMAIN mail : mail[i].item = x /\ mail[j].item = x => i = j
  PROVE  Times(del \o mail, x) <= Times(del, x) + 1
<1>1. CASE \A i \in DOMAIN mail : mail[i].item # x
  <2>1. Times(del \o mail, x) = Times(del, x) /\ Times(del, x) \in Nat
    BY <1>1, TimesWithout, TimesTyped
  <2> QED  BY <2>1
<1>2. ASSUME NEW i \in DOMAIN mail, mail[i].item = x
      PROVE  Times(del \o mail, x) <= Times(del, x) + 1
  <2> DEFINE all == del \o mail
             S == {j \in DOMAIN del : del[j].item = x}
  <2>1. AtJoint(del, mail, all)
    BY Joined
  <2> HIDE DEF all
  <2>2. ASSUME NEW j \in DOMAIN all, all[j].item = x
        PROVE  j \in S \cup {Len(del) + i}
    <3>1. j \in 1 .. Len(del) + Len(mail)
      BY <2>1 DEF AtJoint
    <3>2. CASE j \in 1 .. Len(del)
      BY <2>1, <2>2, <3>2 DEF AtJoint
    <3>3. CASE j > Len(del)
      <4>1. j - Len(del) \in 1 .. Len(mail) /\ Len(del) + (j - Len(del)) = j
        BY <2>1, <3>1, <3>3 DEF AtJoint
      <4>2. all[j] = mail[j - Len(del)] /\ j - Len(del) \in DOMAIN mail
        BY <2>1, <4>1 DEF AtJoint
      <4>3. j - Len(del) = i
        BY <1>2, <2>2, <4>2
      <4> QED  BY <4>1, <4>3
    <3> QED  BY <2>1, <3>1, <3>2, <3>3 DEF AtJoint
  <2>3. ASSUME NEW j \in S \cup {Len(del) + i}
        PROVE  j \in DOMAIN all /\ all[j].item = x
    BY <1>2, <2>1 DEF AtJoint
  <2>4. {j \in DOMAIN all : all[j].item = x} = S \cup {Len(del) + i}
    BY <2>2, <2>3
  <2>5. IsFiniteSet(S) /\ Cardinality(S) \in Nat
    BY TimesTyped DEF Times
  <2>6. Times(del, x) = Cardinality(S)
    BY DEF Times
  <2>7. Times(all, x) = Cardinality(S \cup {Len(del) + i})
    BY <2>4 DEF Times
  <2> HIDE DEF S
  <2>8. Cardinality(S \cup {Len(del) + i}) <= Cardinality(S) + 1
    <3>1. \A T, y : IsFiniteSet(T) =>
            Cardinality(T \cup {y}) = IF y \in T THEN Cardinality(T) ELSE Cardinality(T) + 1
      BY FS_AddElement, Zenon
    <3> DEFINE y == Len(del) + i
    <3>2. \/ Cardinality(S \cup {y}) = Cardinality(S)
          \/ Cardinality(S \cup {y}) = Cardinality(S) + 1
      BY <2>5, <3>1, Zenon
    <3> HIDE DEF y
    <3>3. Cardinality(S \cup {y}) <= Cardinality(S) + 1
      BY <2>5, <3>2
    <3> QED  BY <3>3 DEF y
  <2>9. Times(all, x) <= Times(del, x) + 1
    BY <2>6, <2>7, <2>8
  <2> QED  BY <2>9 DEF all
<1> QED  BY <1>1, <1>2

(* Numbers make the items of a box distinct.                               *)
LEMMA StoredOnce ==
  ASSUME TypeOK, OrderInv, NEW kind \in Kinds, NEW key \in Keys,
         NEW i \in DOMAIN persisted[kind][key], NEW j \in DOMAIN persisted[kind][key],
         persisted[kind][key][i] = persisted[kind][key][j]
  PROVE  i = j
<1> DEFINE s == persisted[kind][key]
<1>1. s \in Seq(Item) /\ accepted[kind][key] \in Nat
  BY BoxesTyped
<1>2. BoxOrder(kind, key)
  BY OrderOfBoxes
<1>3. CASE kind \in ListKinds
  <2>1. /\ s[i].n = accepted[kind][key] - Len(s) + i
        /\ s[j].n = accepted[kind][key] - Len(s) + j
    BY <1>2, <1>3 DEF BoxOrder, ListOrder
  <2>2. s[i].n = s[j].n
    OBVIOUS
  <2>3. i \in Int /\ j \in Int /\ Len(s) \in Int
    BY <1>1
  <2> QED  BY <1>1, <2>1, <2>2, <2>3
<1>4. CASE kind \in SlotKinds
  <2>1. Len(s) <= 1
    BY <1>4 DEF TypeOK
  <2> QED  BY <1>1, <2>1
<1> QED  BY <1>3, <1>4 DEF Kinds

(* No stored item has a number that was not given out.                     *)
LEMMA StoredAccepted ==
  ASSUME TypeOK, OrderInv, NEW kind \in Kinds, NEW key \in Keys,
         NEW i \in DOMAIN persisted[kind][key]
  PROVE  persisted[kind][key][i].n <= accepted[kind][key]
<1> DEFINE s == persisted[kind][key]
<1>1. s \in Seq(Item) /\ accepted[kind][key] \in Nat
  BY BoxesTyped
<1>2. BoxOrder(kind, key)
  BY OrderOfBoxes
<1>3. CASE kind \in ListKinds
  <2>1. s[i].n = accepted[kind][key] - Len(s) + i
    BY <1>2, <1>3 DEF BoxOrder, ListOrder
  <2>2. i \in Int /\ i <= Len(s) /\ Len(s) \in Int
    BY <1>1
  <2> QED  BY <1>1, <2>1, <2>2
<1>4. CASE kind \in SlotKinds
  <2>1. s[i].n = accepted[kind][key]
    BY <1>2, <1>4 DEF BoxOrder, SlotOrder
  <2> QED  BY <1>1, <2>1
<1> QED  BY <1>3, <1>4 DEF Kinds

(* What leaves a queue unsent may only be sent less often.                 *)
LEMMA FewerWait ==
  ASSUME NEW queue, NEW rest, NEW del \in Seq(Delivery), NEW acc, NEW restarts \in Nat,
         BoxRepeats(queue, del, acc, restarts),
         \A x \in Item : InQueue(rest, x) => InQueue(queue, x)
  PROVE  BoxRepeats(rest, del, acc, restarts)
<1>1. \A x \in Item : Times(del, x) \in Nat
  BY TimesTyped
<1>2. ASSUME NEW x \in Item
      PROVE  Times(del, x) <= restarts + (IF InQueue(rest, x) THEN 0 ELSE 1)
  BY <1>1 DEF BoxRepeats
<1> QED  BY <1>2 DEF BoxRepeats

LEMMA BoxRestarts ==
  ASSUME NEW queue, NEW full, NEW del \in Seq(Delivery), NEW acc, NEW restarts \in Nat,
         BoxRepeats(queue, del, acc, restarts)
  PROVE  BoxRepeats(full, del, acc, restarts + 1)
<1>1. \A x \in Item : Times(del, x) \in Nat
  BY TimesTyped
<1>2. ASSUME NEW x \in Item
      PROVE  Times(del, x) <= (restarts + 1) + (IF InQueue(full, x) THEN 0 ELSE 1)
  BY <1>1 DEF BoxRepeats
<1> QED  BY <1>2 DEF BoxRepeats

(* A new item is one that was never sent.                                  *)
LEMMA BoxAccepts ==
  ASSUME NEW queue, NEW longer, NEW del \in Seq(Delivery), NEW acc \in Nat,
         NEW restarts \in Nat, NEW item \in Item, item.n = acc + 1,
         BoxRepeats(queue, del, acc, restarts),
         \A x \in Item : InQueue(longer, x) => x = item \/ InQueue(queue, x)
  PROVE  BoxRepeats(longer, del, acc + 1, restarts)
<1>1. \A x \in Item : Times(del, x) \in Nat
  BY TimesTyped
<1>2. ASSUME NEW j \in DOMAIN del
      PROVE  del[j].item.n \in Nat /\ del[j].item.n <= acc
  <2>1. del[j] \in Delivery
    OBVIOUS
  <2>2. del[j].item.n \in Numbers
    BY <2>1 DEF Delivery, Item
  <2> QED  BY <2>2, NumbersAreNaturals DEF BoxRepeats
<1>3. Times(del, item) = 0
  <2>1. {j \in DOMAIN del : del[j].item = item} = {}
    BY <1>2
  <2> QED  BY <2>1, FS_EmptySet DEF Times
<1>4. ASSUME NEW x \in Item
      PROVE  Times(del, x) <= restarts + (IF InQueue(longer, x) THEN 0 ELSE 1)
  <2>1. CASE x = item
    BY <1>3, <2>1
  <2>2. CASE x # item
    BY <1>1, <2>2 DEF BoxRepeats
  <2> QED  BY <2>1, <2>2
<1>5. \A j \in DOMAIN del : del[j].item.n <= acc + 1
  BY <1>2
<1> QED  BY <1>4, <1>5 DEF BoxRepeats

(* What is sent waited, and waits no more.                                 *)
LEMMA BoxSends ==
  ASSUME NEW queue, NEW rest, NEW del \in Seq(Delivery), NEW mail \in Seq(Delivery),
         NEW acc, NEW restarts \in Nat,
         BoxRepeats(queue, del, acc, restarts),
         \A i, j \in DOMAIN mail : mail[i].item = mail[j].item => i = j,
         \A i \in DOMAIN mail : /\ InQueue(queue, mail[i].item)
                                /\ ~InQueue(rest, mail[i].item)
                                /\ mail[i].item.n <= acc,
         \A x \in Item : InQueue(rest, x) => InQueue(queue, x)
  PROVE  BoxRepeats(rest, del \o mail, acc, restarts)
<1> DEFINE all == del \o mail
<1>1. all \in Seq(Delivery)
  OBVIOUS
<1>2. \A x \in Item : Times(del, x) \in Nat /\ Times(all, x) \in Nat
  BY <1>1, TimesTyped
<1>3. ASSUME NEW x \in Item
      PROVE  Times(all, x) <= restarts + (IF InQueue(rest, x) THEN 0 ELSE 1)
  <2>1. CASE \A i \in DOMAIN mail : mail[i].item # x
    <3>1. Times(all, x) = Times(del, x)
      BY <2>1, TimesWithout
    <3> HIDE DEF all
    <3> QED  BY <1>2, <3>1 DEF BoxRepeats
  <2>2. CASE \E i \in DOMAIN mail : mail[i].item = x
    <3>1. Times(all, x) <= Times(del, x) + 1
      BY TimesWithOne
    <3>2. InQueue(queue, x) /\ ~InQueue(rest, x)
      BY <2>2
    <3> HIDE DEF all
    <3> QED  BY <1>2, <3>1, <3>2 DEF BoxRepeats
  <2> QED  BY <2>1, <2>2
<1>4. ASSUME NEW j \in DOMAIN all PROVE all[j].item.n <= acc
  <2>1. AtJoint(del, mail, all)
    BY Joined
  <2> HIDE DEF all
  <2>2. j \in 1 .. Len(del) + Len(mail)
    BY <2>1 DEF AtJoint
  <2>3. CASE j \in 1 .. Len(del)
    BY <2>1, <2>3 DEF AtJoint, BoxRepeats
  <2>4. CASE j > Len(del)
    <3>1. j - Len(del) \in 1 .. Len(mail) /\ Len(del) + (j - Len(del)) = j
      BY <2>1, <2>2, <2>4 DEF AtJoint
    <3>2. all[j] = mail[j - Len(del)] /\ j - Len(del) \in DOMAIN mail
      BY <2>1, <3>1 DEF AtJoint
    <3> QED  BY <3>2
  <2> QED  BY <2>1, <2>2, <2>3, <2>4 DEF AtJoint
<1> HIDE DEF all
<1>5. BoxRepeats(rest, all, acc, restarts)
  BY <1>3, <1>4 DEF BoxRepeats
<1> QED  BY <1>5 DEF all

(* The queue of a box while the worker is about to remove a batch.         *)
LEMMA RemovalDue ==
  ASSUME NEW kind, NEW key, worker.pc = "remove"
  PROVE  ForgottenQueue(kind, key) = IF worker.kind = kind /\ worker.key = key
                                     THEN Rest(kind, key) ELSE persisted[kind][key]
BY DEF ForgottenQueue, Rest

(* Where a box and its queue stay, it repeats what it did.                 *)
LEMMA SameBoxes ==
  ASSUME RepeatInv,
         \A kind \in Kinds, key \in Keys :
           /\ ForgottenQueue(kind, key)' = ForgottenQueue(kind, key)
           /\ delivered'[kind][key] = delivered[kind][key]
           /\ accepted'[kind][key] = accepted[kind][key],
         crashes' = crashes
  PROVE  RepeatInv'
BY DEF RepeatInv

LEMMA OneBoxRepeats ==
  ASSUME RepeatInv, crashes' = crashes, NEW kind \in Kinds, NEW key \in Keys,
         OtherBoxes(kind, key),
         \A k2 \in Kinds, key2 \in Keys : ~(k2 = kind /\ key2 = key) =>
           ForgottenQueue(k2, key2)' = ForgottenQueue(k2, key2),
         BoxRepeats(ForgottenQueue(kind, key)', delivered'[kind][key],
                    accepted'[kind][key], crashes)
  PROVE  RepeatInv'
<1>1. ASSUME NEW k2 \in Kinds, NEW key2 \in Keys
      PROVE  BoxRepeats(ForgottenQueue(k2, key2)', delivered'[k2][key2],
                        accepted'[k2][key2], crashes')
  <2>1. CASE k2 = kind /\ key2 = key
    BY <2>1
  <2>2. CASE ~(k2 = kind /\ key2 = key)
    <3>1. /\ ForgottenQueue(k2, key2)' = ForgottenQueue(k2, key2)
          /\ delivered'[k2][key2] = delivered[k2][key2]
          /\ accepted'[k2][key2] = accepted[k2][key2]
      BY <2>2 DEF OtherBoxes
    <3> QED  BY <3>1 DEF RepeatInv
  <2> QED  BY <2>1, <2>2
<1> QED  BY <1>1 DEF RepeatInv

LEMMA AcceptRepeats ==
  ASSUME TypeOK, RepeatInv, NEW kind \in Kinds, NEW d \in Devices, NEW r \in References,
         Accept(kind, d, r)
  PROVE  RepeatInv'
<1>1. PICK key \in Keys, item \in Item :
        /\ item.n = accepted[kind][key] + 1
        /\ persisted'[kind][key] = IF kind \in ListKinds
                                   THEN Append(persisted[kind][key], item) ELSE <<item>>
        /\ accepted'[kind][key] = accepted[kind][key] + 1
        /\ UNCHANGED <<worker, delivered, discarded>>
        /\ worker.pc = "idle"
        /\ OtherBoxes(kind, key)
  BY AcceptDoes
<1>2. crashes' = crashes
  BY DEF Accept
<1> DEFINE s == persisted[kind][key]
           longer == persisted'[kind][key]
<1>3. /\ \A k2, key2 : ForgottenQueue(k2, key2) = persisted[k2][key2]
      /\ \A k2, key2 : ForgottenQueue(k2, key2)' = persisted'[k2][key2]
  BY <1>1 DEF ForgottenQueue
<1>4. BoxRepeats(s, delivered[kind][key], accepted[kind][key], crashes)
  BY <1>3 DEF RepeatInv
<1>5. s \in Seq(Item) /\ delivered[kind][key] \in Seq(Delivery)
      /\ accepted[kind][key] \in Nat /\ crashes \in Nat
  BY BoxesTyped DEF TypeOK
<1>6. ASSUME NEW x \in Item, InQueue(longer, x)
      PROVE  x = item \/ InQueue(s, x)
  <2>1. PICK i \in DOMAIN longer : longer[i] = x
    BY <1>6 DEF InQueue
  <2>2. CASE kind \in ListKinds
    <3>1. longer = Append(s, item)
      BY <1>1, <2>2
    <3>2. i \in 1 .. Len(s) + 1
      BY <1>5, <2>1, <3>1
    <3>3. CASE i = Len(s) + 1
      BY <1>5, <2>1, <3>1, <3>3
    <3>4. CASE i \in DOMAIN s
      <4>1. s[i] = x
        BY <1>5, <2>1, <3>1, <3>4
      <4> QED  BY <3>4, <4>1 DEF InQueue
    <3> QED  BY <1>5, <3>2, <3>3, <3>4
  <2>3. CASE kind \notin ListKinds
    BY <1>1, <2>1, <2>3
  <2> QED  BY <2>2, <2>3
<1> HIDE DEF s, longer
<1>7. BoxRepeats(longer, delivered[kind][key], accepted[kind][key] + 1, crashes)
  BY <1>1, <1>4, <1>5, <1>6, BoxAccepts
<1>8. BoxRepeats(ForgottenQueue(kind, key)', delivered'[kind][key],
                 accepted'[kind][key], crashes)
  BY <1>1, <1>3, <1>7 DEF longer
<1>9. \A k2 \in Kinds, key2 \in Keys : ~(k2 = kind /\ key2 = key) =>
        ForgottenQueue(k2, key2)' = ForgottenQueue(k2, key2)
  BY <1>1, <1>3 DEF OtherBoxes
<1> QED  BY <1>1, <1>2, <1>8, <1>9, OneBoxRepeats

LEMMA DiscardRepeats ==
  ASSUME TypeOK, RepeatInv, NEW kind \in Kinds, worker.kind = kind,
         worker.pc = "publish", DiscardBatch(kind), UNCHANGED <<linkUp, accepted, crashes>>
  PROVE  RepeatInv'
<1>1. PICK key \in Keys : key = worker.key
  BY DEF TypeOK
<1>2. /\ persisted'[kind][key] = Rest(kind, key)
      /\ UNCHANGED <<delivered, accepted>>
      /\ worker'.pc = "next"
      /\ OtherBoxes(kind, key)
  BY <1>1, DiscardDoes
<1>3. /\ \A k2, key2 : ForgottenQueue(k2, key2) = persisted[k2][key2]
      /\ \A k2, key2 : ForgottenQueue(k2, key2)' = persisted'[k2][key2]
  BY <1>2 DEF ForgottenQueue
<1> DEFINE s == persisted[kind][key]
           L == BatchLength(kind, key)
           rest == Rest(kind, key)
<1>4. /\ s \in Seq(Item) /\ delivered[kind][key] \in Seq(Delivery) /\ crashes \in Nat
      /\ L \in Nat /\ L <= Len(s) /\ rest \in Seq(Item)
      /\ Len(rest) = Len(s) - L /\ \A i \in 1 .. Len(rest) : rest[i] = s[L + i]
  BY BoxesTyped, RestTyped DEF TypeOK
<1>5. BoxRepeats(s, delivered[kind][key], accepted[kind][key], crashes)
  BY <1>3 DEF RepeatInv
<1> HIDE DEF s, L, rest
<1>6. ASSUME NEW x \in Item, InQueue(rest, x) PROVE InQueue(s, x)
  <2>1. PICK i \in DOMAIN rest : rest[i] = x
    BY <1>6 DEF InQueue
  <2>2. L + i \in DOMAIN s /\ s[L + i] = x
    BY <1>4, <2>1
  <2> QED  BY <2>2 DEF InQueue
<1>7. BoxRepeats(rest, delivered[kind][key], accepted[kind][key], crashes)
  BY <1>4, <1>5, <1>6, FewerWait
<1>8. BoxRepeats(ForgottenQueue(kind, key)', delivered'[kind][key],
                 accepted'[kind][key], crashes)
  BY <1>2, <1>3, <1>7 DEF rest
<1>9. \A k2 \in Kinds, key2 \in Keys : ~(k2 = kind /\ key2 = key) =>
        ForgottenQueue(k2, key2)' = ForgottenQueue(k2, key2)
  BY <1>2, <1>3 DEF OtherBoxes
<1> QED  BY <1>2, <1>8, <1>9, OneBoxRepeats

LEMMA PublishedRepeats ==
  ASSUME TypeOK, OrderInv, RepeatInv, NEW kind \in Kinds, worker.kind = kind,
         worker.pc = "publish", BatchPublished(kind),
         UNCHANGED <<linkUp, accepted, crashes>>
  PROVE  RepeatInv'
<1>1. PICK key \in Keys : key = worker.key
  BY DEF TypeOK
<1>2. /\ delivered'[kind][key] = delivered[kind][key] \o Mail(kind, key)
      /\ UNCHANGED <<persisted, discarded, accepted>>
      /\ worker'.pc = "remove" /\ worker'.kind = kind /\ worker'.key = key
      /\ OtherBoxes(kind, key)
  BY <1>1, PublishDoes
<1> DEFINE s == persisted[kind][key]
           L == BatchLength(kind, key)
           rest == Rest(kind, key)
           mail == Mail(kind, key)
<1>3. \A k2, key2 :
        /\ ForgottenQueue(k2, key2) = persisted[k2][key2]
        /\ ~(k2 = kind /\ key2 = key) => ForgottenQueue(k2, key2)' = persisted[k2][key2]
  BY <1>2 DEF ForgottenQueue
<1>4. ForgottenQueue(kind, key)' = rest
  BY <1>2 DEF ForgottenQueue, Rest, BatchLength
<1>5. /\ s \in Seq(Item) /\ delivered[kind][key] \in Seq(Delivery) /\ crashes \in Nat
      /\ accepted[kind][key] \in Nat
      /\ L \in Nat /\ L <= Len(s) /\ rest \in Seq(Item)
      /\ Len(rest) = Len(s) - L /\ \A i \in 1 .. Len(rest) : rest[i] = s[L + i]
  BY BoxesTyped, RestTyped DEF TypeOK
<1>6. /\ mail \in Seq(Delivery) /\ Len(mail) = L
      /\ \A i \in 1 .. L : mail[i].item = s[i]
  BY MailIsBatch
<1>7. BoxRepeats(s, delivered[kind][key], accepted[kind][key], crashes)
  BY <1>3 DEF RepeatInv
<1>8. \A i, j \in DOMAIN s : s[i] = s[j] => i = j
  BY StoredOnce
<1>9. \A i \in DOMAIN s : s[i].n <= accepted[kind][key]
  BY StoredAccepted
<1> HIDE DEF s, L, rest, mail
<1>10. ASSUME NEW x \in Item, InQueue(rest, x) PROVE InQueue(s, x)
  <2>1. PICK i \in DOMAIN rest : rest[i] = x
    BY <1>10 DEF InQueue
  <2>2. L + i \in DOMAIN s /\ s[L + i] = x
    BY <1>5, <2>1
  <2> QED  BY <2>2 DEF InQueue
<1>11. ASSUME NEW i \in DOMAIN mail
       PROVE  i \in DOMAIN s /\ i \in 1 .. L /\ mail[i].item = s[i]
  BY <1>5, <1>6
<1>12. ASSUME NEW i \in DOMAIN mail
       PROVE  /\ InQueue(s, mail[i].item)
              /\ ~InQueue(rest, mail[i].item)
              /\ mail[i].item.n <= accepted[kind][key]
  <2>1. InQueue(s, mail[i].item)
    BY <1>11 DEF InQueue
  <2>2. ASSUME NEW j \in DOMAIN rest, rest[j] = mail[i].item PROVE FALSE
    <3>1. L + j \in DOMAIN s /\ s[L + j] = s[i] /\ i \in DOMAIN s
      <4>1. j \in 1 .. Len(rest) /\ L + j \in DOMAIN s
        BY <1>5, <2>2
      <4>2. rest[j] = s[L + j]
        BY <1>5, <4>1
      <4> QED  BY <1>11, <2>2, <4>1, <4>2
    <3>2. L + j = i
      BY <1>8, <3>1
    <3> QED  BY <1>5, <1>11, <2>2, <3>2
  <2> QED  BY <1>9, <1>11, <2>1, <2>2 DEF InQueue
<1>13. \A i, j \in DOMAIN mail : mail[i].item = mail[j].item => i = j
  BY <1>8, <1>11
<1>14. BoxRepeats(rest, delivered[kind][key] \o mail, accepted[kind][key], crashes)
  BY <1>5, <1>6, <1>7, <1>10, <1>12, <1>13, BoxSends
<1>15. BoxRepeats(ForgottenQueue(kind, key)', delivered'[kind][key],
                  accepted'[kind][key], crashes)
  BY <1>2, <1>4, <1>14 DEF mail
<1>16. \A k2 \in Kinds, key2 \in Keys : ~(k2 = kind /\ key2 = key) =>
         ForgottenQueue(k2, key2)' = ForgottenQueue(k2, key2)
  BY <1>3
<1> QED  BY <1>2, <1>15, <1>16, OneBoxRepeats

(* The removal takes out of the box what had left its queue already.       *)
LEMMA RemovedRepeats ==
  ASSUME TypeOK, RepeatInv, NEW kind \in Kinds, worker.kind = kind,
         worker.pc = "remove", BatchRemoved(kind), UNCHANGED <<linkUp, accepted, crashes>>
  PROVE  RepeatInv'
<1>1. PICK key \in Keys : key = worker.key
  BY DEF TypeOK
<1>2. /\ RemoveBatch(kind, key)
      /\ UNCHANGED <<delivered, accepted, crashes>>
      /\ worker'.pc # "remove"
  BY <1>1 DEF BatchRemoved, TypeOK, Worker
<1>3. /\ persisted'[kind][key] = Rest(kind, key)
      /\ \A k2 \in Kinds, key2 \in Keys : ~(k2 = kind /\ key2 = key) =>
           persisted'[k2][key2] = persisted[k2][key2]
  BY <1>2, RemoveDoes
<1>4. ASSUME NEW k2 \in Kinds, NEW key2 \in Keys
      PROVE  ForgottenQueue(k2, key2)' = ForgottenQueue(k2, key2)
  <2>1. ForgottenQueue(k2, key2)' = persisted'[k2][key2]
    BY <1>2 DEF ForgottenQueue
  <2>2. ForgottenQueue(k2, key2) = IF kind = k2 /\ key = key2
                                   THEN Rest(k2, key2) ELSE persisted[k2][key2]
    BY <1>1, RemovalDue
  <2>3. CASE k2 = kind /\ key2 = key
    BY <1>3, <2>1, <2>2, <2>3
  <2>4. CASE ~(k2 = kind /\ key2 = key)
    BY <1>3, <2>1, <2>2, <2>4
  <2> QED  BY <2>3, <2>4
<1> QED  BY <1>2, <1>4, SameBoxes

LEMMA CrashRepeats ==
  ASSUME TypeOK, RepeatInv, Crash
  PROVE  RepeatInv'
<1>1. /\ UNCHANGED <<persisted, accepted, delivered>>
      /\ crashes' = crashes + 1 /\ crashes \in Nat
  BY DEF Crash, TypeOK
<1>2. ASSUME NEW kind \in Kinds, NEW key \in Keys
      PROVE  BoxRepeats(ForgottenQueue(kind, key)', delivered[kind][key],
                        accepted[kind][key], crashes + 1)
  <2>1. BoxRepeats(ForgottenQueue(kind, key), delivered[kind][key],
                   accepted[kind][key], crashes)
    BY DEF RepeatInv
  <2>2. delivered[kind][key] \in Seq(Delivery)
    BY BoxesTyped
  <2> QED  BY <1>1, <2>1, <2>2, BoxRestarts
<1> QED  BY <1>1, <1>2 DEF RepeatInv

(* Steps that leave the boxes alone, before and after which no removal is  *)
(* due.                                                                    *)
LEMMA QuietRepeats ==
  ASSUME RepeatInv, UNCHANGED <<persisted, delivered, accepted, crashes>>,
         \/ worker' = worker
         \/ worker.pc # "remove" /\ worker'.pc # "remove"
  PROVE  RepeatInv'
<1>1. ASSUME NEW kind \in Kinds, NEW key \in Keys
      PROVE  ForgottenQueue(kind, key)' = ForgottenQueue(kind, key)
  BY DEF ForgottenQueue, BatchLength
<1> QED  BY <1>1, SameBoxes

LEMMA RepeatNext == TypeOK /\ OrderInv /\ RepeatInv /\ [Next]_vars => RepeatInv'
<1> SUFFICES ASSUME TypeOK, OrderInv, RepeatInv, [Next]_vars PROVE RepeatInv'
  OBVIOUS
<1>1. ASSUME NEW kind \in Kinds, NEW d \in Devices, NEW r \in References,
             Accept(kind, d, r)
      PROVE  RepeatInv'
  BY <1>1, AcceptRepeats
<1>2. ASSUME NEW kind \in Kinds, NEW a \in Devices \cup {AllDevices},
             NEW keys \in SUBSET Keys, StartPublish(kind, a, keys)
      PROVE  RepeatInv'
  BY <1>2, QuietRepeats DEF StartPublish
<1>3. CASE NextKey
  <2>1. worker.pc # "remove" /\ worker'.pc # "remove"
    BY <1>3 DEF NextKey, TypeOK, Worker
  <2> QED  BY <1>3, <2>1, QuietRepeats DEF NextKey
<1>4. CASE EndPublish
  BY <1>4, QuietRepeats DEF EndPublish, Idle
<1>5. CASE LinkChanges \/ UNCHANGED vars
  BY <1>5, QuietRepeats DEF LinkChanges, vars
<1>6. CASE Crash
  BY <1>6, CrashRepeats
<1>7. ASSUME NEW kind \in Kinds, ForPersistanceKey(kind)
      PROVE  RepeatInv'
  <2>1. worker.kind = kind /\ UNCHANGED <<linkUp, accepted, crashes>>
    BY <1>7 DEF ForPersistanceKey
  <2>2. CASE worker.pc = "publish" /\ (NothingStored(kind) \/ BatchNotTaken(kind))
    <3>1. worker.pc # "remove" /\ worker'.pc # "remove"
      BY <2>2 DEF NothingStored, BatchNotTaken, TypeOK, Worker
    <3> QED  BY <2>1, <2>2, <3>1, QuietRepeats DEF NothingStored, BatchNotTaken
  <2>3. CASE worker.pc = "publish" /\ DiscardBatch(kind)
    BY <2>1, <2>3, DiscardRepeats
  <2>4. CASE worker.pc = "publish" /\ BatchPublished(kind)
    BY <2>1, <2>4, PublishedRepeats
  <2>5. CASE worker.pc = "remove" /\ BatchRemoved(kind)
    BY <2>1, <2>5, RemovedRepeats
  <2> QED  BY <1>7, <2>2, <2>3, <2>4, <2>5 DEF ForPersistanceKey
<1> QED
  BY <1>1, <1>2, <1>3, <1>4, <1>5, <1>6, <1>7, Steps

LEMMA RepeatInit == Init => RepeatInv
<1> SUFFICES ASSUME Init PROVE RepeatInv
  OBVIOUS
<1>1. \A kind \in Kinds, key \in Keys :
        /\ persisted[kind][key] = <<>> /\ delivered[kind][key] = <<>>
        /\ accepted[kind][key] = 0 /\ crashes = 0
        /\ ForgottenQueue(kind, key) = <<>>
  BY DEF Init, Idle, ForgottenQueue
<1>2. DOMAIN <<>> = {}
  OBVIOUS
<1>3. ASSUME NEW x \in Item PROVE Times(<<>>, x) = 0 /\ ~InQueue(<<>>, x)
  <2>1. {j \in DOMAIN <<>> : (<<>>)[j].item = x} = {}
    BY <1>2
  <2> QED  BY <1>2, <2>1, FS_EmptySet DEF Times, InQueue
<1>4. BoxRepeats(<<>>, <<>>, 0, 0)
  BY <1>2, <1>3 DEF BoxRepeats
<1> QED  BY <1>1, <1>4 DEF RepeatInv

(* Nothing is sent more often than once and once more per restart: failed  *)
(* publishes, several batches and newer statuses repeat nothing.           *)
THEOREM NoRepeatsWithoutCrash == Spec => []RepeatsOnlyAfterCrash
<1>1. TypeOK /\ RepeatInv => RepeatsOnlyAfterCrash
  <2> SUFFICES ASSUME TypeOK, RepeatInv, NEW kind \in Kinds, NEW key \in Keys,
                      NEW i \in DOMAIN delivered[kind][key]
               PROVE  Times(delivered[kind][key], delivered[kind][key][i].item)
                        <= 1 + crashes
    BY DEF RepeatsOnlyAfterCrash, Times
  <2> DEFINE x == delivered[kind][key][i].item
  <2>1. delivered[kind][key] \in Seq(Delivery) /\ crashes \in Nat
    BY BoxesTyped DEF TypeOK
  <2>2. x \in Item
    <3>1. delivered[kind][key][i] \in Delivery
      BY <2>1
    <3> QED  BY <3>1 DEF Delivery
  <2>3. Times(delivered[kind][key], x) \in Nat
    BY <2>1, TimesTyped
  <2>4. Times(delivered[kind][key], x) <=
          crashes + (IF InQueue(ForgottenQueue(kind, key), x) THEN 0 ELSE 1)
    BY <2>2 DEF RepeatInv, BoxRepeats
  <2> HIDE DEF x
  <2>5. Times(delivered[kind][key], x) <= 1 + crashes
    BY <2>1, <2>3, <2>4
  <2> QED  BY <2>5 DEF x
<1>2. TypeOK /\ OrderInv /\ RepeatInv /\ [Next]_vars => RepeatInv'
  BY RepeatNext
<1> QED
  BY <1>1, <1>2, RepeatInit, OrderAlways, TypeCorrect, PTL DEF Spec

=============================================================================
