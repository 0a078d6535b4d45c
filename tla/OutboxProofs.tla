---------------------------- MODULE OutboxProofs ----------------------------
(***************************************************************************)
(* DataService implements the boxes of Outbox: for any devices,            *)
(* references, batch size, calls, losses and restarts.                     *)
(***************************************************************************)
EXTENDS DataServiceOrderProofs

-----------------------------------------------------------------------------
(* Sequences.                                                              *)

ItemsOf(del) == [i \in DOMAIN del |-> del[i].item]

LEMMA ItemsTyped ==
  ASSUME NEW del \in Seq(Delivery)
  PROVE  /\ ItemsOf(del) \in Seq(Item)
         /\ Len(ItemsOf(del)) = Len(del)
         /\ \A i \in 1 .. Len(del) : ItemsOf(del)[i] = del[i].item
<1>1. Len(del) \in Nat /\ DOMAIN del = 1 .. Len(del)
  OBVIOUS
<1>2. \A i \in 1 .. Len(del) : del[i].item \in Item
  <2>1. \A i \in 1 .. Len(del) : del[i] \in Delivery
    OBVIOUS
  <2> QED  BY <2>1 DEF Delivery
<1>3. ItemsOf(del) \in [1 .. Len(del) -> Item]
  BY <1>1, <1>2 DEF ItemsOf
<1>4. ItemsOf(del) \in Seq(Item)
  <2> HIDE DEF ItemsOf
  <2> QED  BY <1>1, <1>3, SeqDef
<1>5. DOMAIN ItemsOf(del) = 1 .. Len(del)
  BY <1>3
<1>6. Len(ItemsOf(del)) = Len(del)
  <2> HIDE DEF ItemsOf
  <2> QED  BY <1>1, <1>4, <1>5
<1>7. \A i \in 1 .. Len(del) : ItemsOf(del)[i] = del[i].item
  BY <1>1 DEF ItemsOf
<1> QED  BY <1>4, <1>6, <1>7

LEMMA Glued ==
  ASSUME NEW a \in Seq(Item), NEW b \in Seq(Item)
  PROVE  /\ a \o b \in Seq(Item)
         /\ Len(a \o b) = Len(a) + Len(b)
         /\ \A i \in 1 .. Len(a) : (a \o b)[i] = a[i]
         /\ \A i \in 1 .. Len(b) : (a \o b)[Len(a) + i] = b[i]
<1>1. a \o b \in Seq(Item) /\ Len(a \o b) = Len(a) + Len(b)
  OBVIOUS
<1>2. \A i \in 1 .. Len(a) : (a \o b)[i] = a[i]
  OBVIOUS
<1>3. \A i \in 1 .. Len(b) : (a \o b)[Len(a) + i] = b[i]
  OBVIOUS
<1> QED  BY <1>1, <1>2, <1>3

(* The items of what was delivered so far, then of a batch.                *)
LEMMA ItemsJoined ==
  ASSUME NEW s \in Seq(Item), NEW L \in Nat, L <= Len(s),
         NEW del \in Seq(Delivery), NEW mail \in Seq(Delivery), Len(mail) = L,
         \A i \in 1 .. L : mail[i].item = s[i]
  PROVE  ItemsOf(del \o mail) = ItemsOf(del) \o SubSeq(s, 1, L)
<1> DEFINE all == del \o mail
           front == SubSeq(s, 1, L)
           old == ItemsOf(del)
           lhs == ItemsOf(all)
           rhs == old \o front
<1>1. AtJoint(del, mail, all) /\ all \in Seq(Delivery)
  BY Joined
<1>2. front \in Seq(Item) /\ Len(front) = L /\ \A i \in 1 .. L : front[i] = s[i]
  OBVIOUS
<1>3. /\ old \in Seq(Item) /\ Len(old) = Len(del)
      /\ \A i \in 1 .. Len(del) : old[i] = del[i].item
  BY ItemsTyped
<1> HIDE DEF all
<1>4. /\ lhs \in Seq(Item) /\ Len(lhs) = Len(all)
      /\ \A i \in 1 .. Len(all) : lhs[i] = all[i].item
  BY <1>1, ItemsTyped
<1> HIDE DEF front, old, lhs
<1>5. /\ rhs \in Seq(Item) /\ Len(rhs) = Len(del) + L
      /\ \A i \in 1 .. Len(del) : rhs[i] = old[i]
      /\ \A i \in 1 .. L : rhs[Len(del) + i] = front[i]
  <2>1. /\ rhs \in Seq(Item) /\ Len(rhs) = Len(old) + Len(front)
        /\ \A i \in 1 .. Len(old) : rhs[i] = old[i]
        /\ \A i \in 1 .. Len(front) : rhs[Len(old) + i] = front[i]
    BY <1>2, <1>3, Glued
  <2> HIDE DEF rhs
  <2> QED  BY <1>2, <1>3, <2>1
<1> HIDE DEF rhs
<1>6. /\ Len(del) \in Nat /\ Len(all) = Len(del) + L
      /\ \A i \in 1 .. Len(del) : all[i] = del[i]
      /\ \A i \in 1 .. L : all[Len(del) + i] = mail[i]
  <2>1. Len(all) \in Nat /\ DOMAIN all = 1 .. Len(all)
    BY <1>1
  <2> QED  BY <1>1, <2>1 DEF AtJoint
<1>7. ASSUME NEW i \in 1 .. Len(del) + L
      PROVE  lhs[i] = rhs[i]
  <2>1. CASE i \in 1 .. Len(del)
    <3>1. rhs[i] = old[i] /\ old[i] = del[i].item
      BY <1>3, <1>5, <2>1
    <3>2. i \in 1 .. Len(all) /\ all[i] = del[i]
      BY <1>6, <2>1
    <3>3. lhs[i] = all[i].item
      BY <1>4, <3>2
    <3> QED  BY <3>1, <3>2, <3>3
  <2>2. CASE i > Len(del)
    <3>1. PICK k \in 1 .. L : i = Len(del) + k
      <4>1. i - Len(del) \in 1 .. L /\ i = Len(del) + (i - Len(del))
        BY <1>6, <2>2
      <4> QED  BY <4>1
    <3>2. lhs[i] = mail[k].item
      BY <1>4, <1>6, <3>1
    <3>3. rhs[i] = s[k]
      BY <1>2, <1>5, <3>1
    <3> QED  BY <3>1, <3>2, <3>3
  <2> QED  BY <1>6, <2>1, <2>2
<1>8. lhs = rhs
  BY <1>4, <1>5, <1>6, <1>7, SeqEqual
<1> QED  BY <1>8 DEF lhs, rhs, old, front, all

(* The end of what was sent is the front of what is stored.                *)
SentLast(s, L, del) ==
  /\ L <= Len(del)
  /\ \A i \in 1 .. L : del[Len(del) - L + i].item = s[i]

(* Putting a sent batch back in front of the rest restores the box.        *)
LEMMA PutBack ==
  ASSUME NEW s \in Seq(Item), NEW L \in Nat, L <= Len(s),
         NEW del \in Seq(Delivery), SentLast(s, L, del)
  PROVE  LET sent == ItemsOf(del)
         IN  s = SubSeq(sent, Len(sent) - L + 1, Len(sent)) \o SubSeq(s, L + 1, Len(s))
<1> DEFINE sent == ItemsOf(del)
           n == Len(sent)
           back == SubSeq(sent, n - L + 1, n)
           rest == SubSeq(s, L + 1, Len(s))
           all == back \o rest
<1>1. /\ sent \in Seq(Item) /\ n = Len(del) /\ n \in Nat
      /\ \A i \in 1 .. n : sent[i] = del[i].item
  BY ItemsTyped
<1> HIDE DEF sent
<1>2. L <= n /\ \A i \in 1 .. L : sent[n - L + i] = s[i]
  <2>1. L <= n
    BY <1>1 DEF SentLast
  <2>2. \A i \in 1 .. L : n - L + i \in 1 .. n
    BY <1>1, <2>1
  <2> HIDE DEF n
  <2> QED  BY <1>1, <2>1, <2>2 DEF SentLast
<1>3. back \in Seq(Item) /\ Len(back) = L /\ \A i \in 1 .. L : back[i] = sent[n - L + i]
  BY <1>1, <1>2
<1>4. rest \in Seq(Item) /\ Len(rest) = Len(s) - L
      /\ \A i \in 1 .. Len(s) - L : rest[i] = s[L + i]
  OBVIOUS
<1> HIDE DEF back, rest, n
<1>5. /\ all \in Seq(Item) /\ Len(all) = Len(s)
      /\ \A i \in 1 .. L : all[i] = back[i]
      /\ \A i \in 1 .. Len(s) - L : all[L + i] = rest[i]
  <2>1. /\ all \in Seq(Item) /\ Len(all) = Len(back) + Len(rest)
        /\ \A i \in 1 .. Len(back) : all[i] = back[i]
        /\ \A i \in 1 .. Len(rest) : all[Len(back) + i] = rest[i]
    BY <1>3, <1>4, Glued
  <2> HIDE DEF all
  <2> QED  BY <1>3, <1>4, <2>1
<1> HIDE DEF all
<1>6. ASSUME NEW i \in 1 .. Len(s)
      PROVE  all[i] = s[i]
  <2>1. CASE i <= L
    BY <1>2, <1>3, <1>5, <2>1
  <2>2. CASE i > L
    <3>1. i - L \in 1 .. Len(s) - L /\ L + (i - L) = i
      BY <2>2
    <3>2. all[L + (i - L)] = rest[i - L] /\ rest[i - L] = s[L + (i - L)]
      BY <1>4, <1>5, <3>1
    <3> QED  BY <3>1, <3>2
  <2> QED  BY <2>1, <2>2
<1>7. all = s
  BY <1>5, <1>6, SeqEqual
<1> QED  BY <1>7 DEF all, back, rest, n, sent

-----------------------------------------------------------------------------
(* A published batch that awaits its removal is what was sent last.        *)

BatchSent ==
  worker.pc = "remove" =>
    /\ persisted[worker.kind][worker.key] # <<>>
    /\ SentLast(persisted[worker.kind][worker.key], BatchLength(worker.kind, worker.key),
                delivered[worker.kind][worker.key])

LEMMA PublishedSent ==
  ASSUME TypeOK, NEW kind \in Kinds, worker.kind = kind, worker.pc = "publish",
         BatchPublished(kind), UNCHANGED <<linkUp, accepted, crashes>>
  PROVE  BatchSent'
<1>1. PICK key \in Keys : key = worker.key
  BY DEF TypeOK
<1> DEFINE old == delivered[kind][key]
           mail == Mail(kind, key)
           all == old \o mail
           L == BatchLength(kind, key)
           s == persisted[kind][key]
<1>2. /\ delivered'[kind][key] = all /\ persisted' = persisted /\ s # <<>>
      /\ worker'.pc = "remove" /\ worker'.kind = kind /\ worker'.key = key
  BY <1>1, PublishDoes
<1>3. /\ mail \in Seq(Delivery) /\ Len(mail) = L
      /\ \A i \in 1 .. L : mail[i].item = s[i]
  BY MailIsBatch
<1>4. old \in Seq(Delivery)
  BY BoxesTyped
<1>5. AtJoint(old, mail, all) /\ all \in Seq(Delivery)
  BY <1>3, <1>4, Joined
<1>6. BatchLength(kind, key)' = L
  BY <1>2 DEF BatchLength
<1> HIDE DEF old, mail, all, L, s
<1>7. Len(all) = Len(old) + L
  <2>1. Len(all) \in Nat /\ DOMAIN all = 1 .. Len(all)
    BY <1>5
  <2> QED  BY <1>3, <1>5, <2>1 DEF AtJoint
<1>8. SentLast(s, L, all)
  <2>1. \A i \in 1 .. L : Len(all) - L + i = Len(old) + i
    BY <1>3, <1>5, <1>7 DEF AtJoint
  <2>2. L <= Len(all)
    BY <1>3, <1>5, <1>7 DEF AtJoint
  <2> QED  BY <1>3, <1>5, <2>1, <2>2 DEF AtJoint, SentLast
<1> QED  BY <1>2, <1>6, <1>8 DEF BatchSent, s

LEMMA SentNext == TypeOK /\ BatchSent /\ [Next]_vars => BatchSent'
<1> SUFFICES ASSUME TypeOK, BatchSent, [Next]_vars PROVE BatchSent'
  OBVIOUS
<1>1. ASSUME NEW kind \in Kinds, ForPersistanceKey(kind)
      PROVE  BatchSent'
  <2>1. CASE worker.pc = "publish" /\ BatchPublished(kind)
    BY <1>1, <2>1, PublishedSent DEF ForPersistanceKey
  <2>2. ASSUME \/ NothingStored(kind)
               \/ DiscardBatch(kind)
               \/ BatchNotTaken(kind)
               \/ BatchRemoved(kind)
        PROVE  worker'.pc # "remove"
    BY <2>2 DEF NothingStored, DiscardBatch, BatchNotTaken, BatchRemoved, TypeOK, Worker
  <2> QED  BY <1>1, <2>1, <2>2 DEF ForPersistanceKey, BatchSent
<1>2. CASE LinkChanges \/ UNCHANGED vars
  BY <1>2 DEF LinkChanges, vars, BatchSent, BatchLength
<1>3. ASSUME NEW kind \in Kinds, NEW d \in Devices, NEW r \in References,
             Accept(kind, d, r)
      PROVE  BatchSent'
  BY <1>3 DEF Accept, BatchSent
<1>4. ASSUME NEW kind \in Kinds, NEW a, NEW keys, StartPublish(kind, a, keys)
      PROVE  BatchSent'
  BY <1>4 DEF StartPublish, BatchSent
<1>5. CASE NextKey \/ EndPublish \/ Crash
  <2>1. NextKey => worker'.pc # "remove"
    BY DEF NextKey, TypeOK, Worker
  <2>2. EndPublish \/ Crash => worker'.pc # "remove"
    BY DEF EndPublish, Crash, Idle
  <2> QED  BY <1>5, <2>1, <2>2 DEF BatchSent
<1> QED
  BY <1>1, <1>2, <1>3, <1>4, <1>5, Steps

-----------------------------------------------------------------------------
(* The boxes of Outbox, and how a step shows on them.                      *)

Queues == [b \in Kinds \X Keys |-> ForgottenQueue(b[1], b[2])]

Sents == [b \in Kinds \X Keys |-> ItemsOf(delivered[b[1]][b[2]])]

LEMMA BoxesAre == Box!Boxes = Kinds \X Keys
BY DEF Box!Boxes, Kinds

LEMMA SameQueues ==
  ASSUME \A k \in Kinds, key \in Keys :
           ForgottenQueue(k, key)' = ForgottenQueue(k, key)
  PROVE  Queues' = Queues
BY DEF Queues

LEMMA OneQueue ==
  ASSUME NEW kind \in Kinds, NEW key \in Keys, NEW q,
         ForgottenQueue(kind, key)' = q,
         \A k2 \in Kinds, key2 \in Keys : ~(k2 = kind /\ key2 = key) =>
           ForgottenQueue(k2, key2)' = ForgottenQueue(k2, key2)
  PROVE  Queues' = [Queues EXCEPT ![<<kind, key>>] = q]
<1> DEFINE F(b) == ForgottenQueue(b[1], b[2])
<1>1. ASSUME NEW b \in Kinds \X Keys
      PROVE  F(b)' = IF b = <<kind, key>> THEN q ELSE F(b)
  <2>1. PICK k2 \in Kinds, key2 \in Keys : b = <<k2, key2>>
    OBVIOUS
  <2>2. F(b) = ForgottenQueue(k2, key2) /\ F(b)' = ForgottenQueue(k2, key2)'
    BY <2>1
  <2>3. b = <<kind, key>> <=> k2 = kind /\ key2 = key
    BY <2>1
  <2> HIDE DEF F
  <2> QED  BY <2>2, <2>3
<1>2. /\ Queues = [b \in Kinds \X Keys |-> F(b)]
      /\ Queues' = [b \in Kinds \X Keys |-> F(b)']
  BY DEF Queues
<1> HIDE DEF F
<1> QED  BY <1>1, <1>2

LEMMA OneSent ==
  ASSUME NEW kind \in Kinds, NEW key \in Keys, NEW t,
         ItemsOf(delivered'[kind][key]) = t,
         \A k2 \in Kinds, key2 \in Keys : ~(k2 = kind /\ key2 = key) =>
           delivered'[k2][key2] = delivered[k2][key2]
  PROVE  Sents' = [Sents EXCEPT ![<<kind, key>>] = t]
<1> DEFINE F(b) == ItemsOf(delivered[b[1]][b[2]])
<1>1. ASSUME NEW b \in Kinds \X Keys
      PROVE  F(b)' = IF b = <<kind, key>> THEN t ELSE F(b)
  <2>1. PICK k2 \in Kinds, key2 \in Keys : b = <<k2, key2>>
    OBVIOUS
  <2>2. F(b) = ItemsOf(delivered[k2][key2]) /\ F(b)' = ItemsOf(delivered'[k2][key2])
    BY <2>1
  <2>3. b = <<kind, key>> <=> k2 = kind /\ key2 = key
    BY <2>1
  <2> HIDE DEF F
  <2> QED  BY <2>2, <2>3
<1>2. /\ Sents = [b \in Kinds \X Keys |-> F(b)]
      /\ Sents' = [b \in Kinds \X Keys |-> F(b)']
  BY DEF Sents
<1> HIDE DEF F
<1> QED  BY <1>1, <1>2

LEMMA BoxAccept ==
  ASSUME NEW b, NEW item \in Item,
         Queues' = [Queues EXCEPT ![b] =
                      IF b \in ListKinds \X Keys THEN Append(Queues[b], item) ELSE <<item>>],
         Sents' = Sents
  PROVE  Box!Accept(b)
BY DEF Box!Accept, Queues, Sents, ItemsOf

LEMMA BoxDrop ==
  ASSUME NEW b, NEW m \in 1 .. BatchSize, m <= Len(Queues[b]),
         Queues' = [Queues EXCEPT ![b] = SubSeq(Queues[b], m + 1, Len(Queues[b]))],
         Sents' = Sents
  PROVE  Box!Drop(b)
BY DEF Box!Drop, Box!TakeFront, Queues, Sents, ItemsOf

LEMMA BoxSend ==
  ASSUME NEW b, NEW m \in 1 .. BatchSize, m <= Len(Queues[b]),
         Queues' = [Queues EXCEPT ![b] = SubSeq(Queues[b], m + 1, Len(Queues[b]))],
         Sents' = [Sents EXCEPT ![b] = Sents[b] \o SubSeq(Queues[b], 1, m)]
  PROVE  Box!Send(b)
BY DEF Box!Send, Box!TakeFront, Queues, Sents, ItemsOf

LEMMA BoxRequeue ==
  ASSUME NEW b, NEW m \in 1 .. BatchSize, m <= Len(Sents[b]),
         Queues' = [Queues EXCEPT ![b] =
                      SubSeq(Sents[b], Len(Sents[b]) - m + 1, Len(Sents[b])) \o Queues[b]],
         Sents' = Sents
  PROVE  Box!Requeue(b)
BY DEF Box!Requeue, Queues, Sents, ItemsOf

LEMMA BoxVars ==
  /\ UNCHANGED Box!vars <=> Queues' = Queues /\ Sents' = Sents
BY DEF Box!vars, Queues, Sents, ItemsOf

(* A step on one box is a step of Outbox, or one that changes nothing.     *)
LEMMA BoxMoves ==
  ASSUME NEW b \in Kinds \X Keys, NEW q,
         \/ Box!Accept(b)
         \/ Box!Send(b)
         \/ Box!Drop(b)
         \/ Box!Requeue(b),
         Queues' = [Queues EXCEPT ![b] = q],
         q = Queues[b] => Sents' = Sents
  PROVE  [Box!Next]_(Box!vars)
<1>1. CASE q = Queues[b]
  <2>1. Queues' = Queues
    BY <1>1 DEF Queues
  <2> QED  BY <1>1, <2>1, BoxVars
<1>2. CASE q # Queues[b]
  <2>1. Queues'[b] # Queues[b]
    BY <1>2 DEF Queues
  <2>2. Box!Next
    BY <2>1, BoxesAre DEF Box!Next, Queues
  <2> QED  BY <2>2
<1> QED  BY <1>1, <1>2

-----------------------------------------------------------------------------
(* The steps of DataService.                                               *)

LEMMA BatchWithin ==
  ASSUME TypeOK, NEW kind \in Kinds, NEW key \in Keys, persisted[kind][key] # <<>>
  PROVE  /\ BatchLength(kind, key) \in 1 .. BatchSize
         /\ BatchLength(kind, key) <= Len(persisted[kind][key])
<1>1. /\ BatchLength(kind, key) \in Nat /\ BatchLength(kind, key) >= 1
      /\ BatchLength(kind, key) <= Len(persisted[kind][key])
  BY BatchAndRest DEF TypeOK
<1>2. Len(persisted[kind][key]) \in Nat
  BY BoxesTyped
<1>3. BatchLength(kind, key) <= BatchSize
  BY <1>2, BoundsAssumption DEF BatchLength, BatchSizeOf
<1> QED  BY <1>1, <1>3, BoundsAssumption

(* What a box holds while no removal is due.                               *)
LEMMA NothingDue ==
  ASSUME worker.pc # "remove", NEW kind, NEW key
  PROVE  ForgottenQueue(kind, key) = persisted[kind][key]
BY DEF ForgottenQueue

LEMMA BoxEntries ==
  ASSUME NEW kind \in Kinds, NEW key \in Keys
  PROVE  /\ <<kind, key>> \in Kinds \X Keys
         /\ Queues[<<kind, key>>] = ForgottenQueue(kind, key)
         /\ Sents[<<kind, key>>] = ItemsOf(delivered[kind][key])
BY DEF Queues, Sents

LEMMA QuietImplements ==
  ASSUME UNCHANGED <<persisted, delivered>>,
         worker.pc # "remove", worker'.pc # "remove"
  PROVE  [Box!Next]_(Box!vars)
<1>1. Queues' = Queues
  BY SameQueues DEF ForgottenQueue
<1>2. Sents' = Sents
  BY DEF Sents
<1> QED  BY <1>1, <1>2, BoxVars

LEMMA AcceptImplements ==
  ASSUME TypeOK, NEW kind \in Kinds, NEW d \in Devices, NEW r \in References,
         Accept(kind, d, r)
  PROVE  [Box!Next]_(Box!vars)
<1>1. PICK key \in Keys, item \in Item :
        /\ persisted'[kind][key] = IF kind \in ListKinds
                                   THEN Append(persisted[kind][key], item)
                                   ELSE <<item>>
        /\ UNCHANGED <<worker, delivered>>
        /\ worker.pc = "idle"
        /\ OtherBoxes(kind, key)
  BY AcceptDoes
<1> DEFINE b == <<kind, key>>
           q == IF kind \in ListKinds THEN Append(Queues[b], item) ELSE <<item>>
<1>2. worker.pc # "remove" /\ worker'.pc # "remove"
  BY <1>1
<1>3. \A k2, key2 : /\ ForgottenQueue(k2, key2) = persisted[k2][key2]
                    /\ ForgottenQueue(k2, key2)' = persisted'[k2][key2]
  BY <1>2 DEF ForgottenQueue
<1>4. Queues[b] = persisted[kind][key] /\ b \in Kinds \X Keys
  BY <1>3, BoxEntries
<1>5. ForgottenQueue(kind, key)' = q
  BY <1>1, <1>3, <1>4
<1> HIDE DEF q
<1>6. Queues' = [Queues EXCEPT ![b] = q]
  BY <1>1, <1>3, <1>5, OneQueue DEF OtherBoxes
<1>7. Sents' = Sents
  BY <1>1 DEF Sents
<1>8. b \in ListKinds \X Keys <=> kind \in ListKinds
  OBVIOUS
<1>9. q = IF b \in ListKinds \X Keys THEN Append(Queues[b], item) ELSE <<item>>
  BY <1>8 DEF q
<1>10. Box!Accept(b)
  BY <1>6, <1>7, <1>9, BoxAccept
<1> QED  BY <1>4, <1>6, <1>7, <1>10, BoxMoves

LEMMA DiscardImplements ==
  ASSUME TypeOK, NEW kind \in Kinds, worker.pc = "publish", DiscardBatch(kind),
         UNCHANGED <<linkUp, accepted, crashes>>
  PROVE  [Box!Next]_(Box!vars)
<1>1. PICK key \in Keys : key = worker.key
  BY DEF TypeOK
<1> DEFINE b == <<kind, key>>
           L == BatchLength(kind, key)
<1>2. /\ persisted[kind][key] # <<>>
      /\ persisted'[kind][key] = Rest(kind, key)
      /\ UNCHANGED delivered /\ worker'.pc = "next" /\ OtherBoxes(kind, key)
  BY <1>1, DiscardDoes
<1>3. \A k2, key2 : /\ ForgottenQueue(k2, key2) = persisted[k2][key2]
                    /\ ForgottenQueue(k2, key2)' = persisted'[k2][key2]
  BY <1>2 DEF ForgottenQueue
<1>4. Queues[b] = persisted[kind][key] /\ b \in Kinds \X Keys
  BY <1>3, BoxEntries
<1>5. L \in 1 .. BatchSize /\ L <= Len(Queues[b])
  BY <1>2, <1>4, BatchWithin
<1>6. Queues' = [Queues EXCEPT ![b] = Rest(kind, key)]
  BY <1>2, <1>3, OneQueue DEF OtherBoxes
<1>7. Sents' = Sents
  BY <1>2 DEF Sents
<1>8. Rest(kind, key) = SubSeq(Queues[b], L + 1, Len(Queues[b]))
  BY <1>4 DEF Rest
<1>9. Box!Drop(b)
  BY <1>5, <1>6, <1>7, <1>8, BoxDrop
<1> QED  BY <1>4, <1>6, <1>7, <1>9, BoxMoves

LEMMA PublishedImplements ==
  ASSUME TypeOK, NEW kind \in Kinds, worker.kind = kind, worker.pc = "publish",
         BatchPublished(kind), UNCHANGED <<linkUp, accepted, crashes>>
  PROVE  [Box!Next]_(Box!vars)
<1>1. PICK key \in Keys : key = worker.key
  BY DEF TypeOK
<1> DEFINE b == <<kind, key>>
           s == persisted[kind][key]
           L == BatchLength(kind, key)
           del == delivered[kind][key]
           mail == Mail(kind, key)
<1>2. /\ s # <<>>
      /\ delivered'[kind][key] = del \o mail
      /\ UNCHANGED persisted
      /\ worker'.pc = "remove" /\ worker'.kind = kind /\ worker'.key = key
      /\ OtherBoxes(kind, key)
  BY <1>1, PublishDoes
<1>3. \A k2, key2 :
        /\ ForgottenQueue(k2, key2) = persisted[k2][key2]
        /\ ~(k2 = kind /\ key2 = key) => ForgottenQueue(k2, key2)' = persisted[k2][key2]
  BY <1>2 DEF ForgottenQueue
<1>4. ForgottenQueue(kind, key)' = Rest(kind, key)
  BY <1>2 DEF ForgottenQueue, Rest, BatchLength
<1>5. Queues[b] = s /\ b \in Kinds \X Keys /\ Sents[b] = ItemsOf(del)
  BY <1>3, BoxEntries
<1>6. L \in 1 .. BatchSize /\ L <= Len(s)
  BY <1>2, BatchWithin
<1>7. Queues' = [Queues EXCEPT ![b] = Rest(kind, key)]
  BY <1>3, <1>4, OneQueue
<1>8. s \in Seq(Item) /\ del \in Seq(Delivery)
  BY BoxesTyped
<1>9. /\ mail \in Seq(Delivery) /\ Len(mail) = L
      /\ \A i \in 1 .. L : mail[i].item = s[i]
  BY MailIsBatch
<1>10. Rest(kind, key) = SubSeq(Queues[b], L + 1, Len(Queues[b]))
  BY <1>5 DEF Rest
<1>11. Rest(kind, key) # Queues[b]
  <2>1. Len(Rest(kind, key)) = Len(s) - L
    BY BatchAndRest DEF TypeOK, Rest
  <2> HIDE DEF s, L
  <2>2. Len(Rest(kind, key)) # Len(s)
    BY <1>6, <1>8, <2>1
  <2> QED  BY <1>5, <2>2
<1> HIDE DEF s, L, del, mail
<1>12. L \in Nat
  BY <1>6
<1>13. ItemsOf(del \o mail) = ItemsOf(del) \o SubSeq(s, 1, L)
  BY <1>6, <1>8, <1>9, <1>12, ItemsJoined
<1>14. Sents' = [Sents EXCEPT ![b] = Sents[b] \o SubSeq(Queues[b], 1, L)]
  <2> DEFINE t == Sents[b] \o SubSeq(Queues[b], 1, L)
  <2>1. ItemsOf(delivered'[kind][key]) = t
    BY <1>2, <1>5, <1>13
  <2>2. \A k2 \in Kinds, key2 \in Keys : ~(k2 = kind /\ key2 = key) =>
          delivered'[k2][key2] = delivered[k2][key2]
    BY <1>2 DEF OtherBoxes
  <2> HIDE DEF t
  <2>3. Sents' = [Sents EXCEPT ![b] = t]
    BY <2>1, <2>2, OneSent
  <2> QED  BY <2>3 DEF t
<1>15. Box!Send(b)
  BY <1>5, <1>6, <1>7, <1>10, <1>14, BoxSend
<1> QED  BY <1>5, <1>7, <1>11, <1>15, BoxMoves

LEMMA RemovedImplements ==
  ASSUME TypeOK, NEW kind \in Kinds, worker.kind = kind, worker.pc = "remove",
         BatchRemoved(kind), UNCHANGED <<linkUp, accepted, crashes>>
  PROVE  [Box!Next]_(Box!vars)
<1>1. PICK key \in Keys : key = worker.key
  BY DEF TypeOK
<1>2. RemoveBatch(kind, key) /\ UNCHANGED delivered
  BY <1>1 DEF BatchRemoved
<1>3. worker'.pc # "remove"
  BY DEF BatchRemoved, TypeOK, Worker
<1>4. /\ persisted'[kind][key] = Rest(kind, key)
      /\ \A k2 \in Kinds, key2 \in Keys : ~(k2 = kind /\ key2 = key) =>
           persisted'[k2][key2] = persisted[k2][key2]
  BY <1>2, RemoveDoes
<1>5. ASSUME NEW k2 \in Kinds, NEW key2 \in Keys
      PROVE  ForgottenQueue(k2, key2)' = ForgottenQueue(k2, key2)
  <2>1. ForgottenQueue(k2, key2)' = persisted'[k2][key2]
    BY <1>3 DEF ForgottenQueue
  <2>2. ForgottenQueue(k2, key2) = IF kind = k2 /\ key = key2
                                   THEN Rest(k2, key2) ELSE persisted[k2][key2]
    BY <1>1, RemovalDue
  <2> QED  BY <1>4, <2>1, <2>2
<1>6. Queues' = Queues
  BY <1>5, SameQueues
<1>7. Sents' = Sents
  BY <1>2 DEF Sents
<1> QED  BY <1>6, <1>7, BoxVars

(* A stop after the sending of a batch and before its removal puts the     *)
(* batch back.                                                             *)
LEMMA CrashImplements ==
  ASSUME TypeOK, BatchSent, Crash
  PROVE  [Box!Next]_(Box!vars)
<1>1. worker'.pc # "remove" /\ UNCHANGED <<persisted, delivered>>
  BY DEF Crash, Idle
<1>2. CASE worker.pc # "remove"
  BY <1>1, <1>2, QuietImplements
<1>3. CASE worker.pc = "remove"
  <2>1. PICK kind \in Kinds, key \in Keys : kind = worker.kind /\ key = worker.key
    BY <1>3 DEF TypeOK, Worker
  <2> DEFINE b == <<kind, key>>
             s == persisted[kind][key]
             L == BatchLength(kind, key)
             del == delivered[kind][key]
  <2>2. s # <<>> /\ SentLast(s, L, del)
    BY <1>3, <2>1 DEF BatchSent
  <2>3. L \in 1 .. BatchSize /\ L <= Len(s)
    BY <2>2, BatchWithin
  <2>4. s \in Seq(Item) /\ del \in Seq(Delivery)
    BY BoxesTyped
  <2>5. /\ ForgottenQueue(kind, key) = Rest(kind, key)
        /\ \A k2, key2 : ~(k2 = kind /\ key2 = key) =>
             ForgottenQueue(k2, key2) = persisted[k2][key2]
    BY <1>3, <2>1, RemovalDue
  <2>6. \A k2, key2 : ForgottenQueue(k2, key2)' = persisted[k2][key2]
    BY <1>1 DEF ForgottenQueue
  <2>7. Queues' = [Queues EXCEPT ![b] = s]
    BY <2>5, <2>6, OneQueue
  <2>8. /\ b \in Kinds \X Keys
        /\ Queues[b] = SubSeq(s, L + 1, Len(s))
        /\ Sents[b] = ItemsOf(del)
    BY <2>5, BoxEntries DEF Rest
  <2> HIDE DEF s, L, del
  <2>9. L \in Nat
    BY <2>3
  <2>10. s = SubSeq(Sents[b], Len(Sents[b]) - L + 1, Len(Sents[b])) \o Queues[b]
    BY <2>2, <2>3, <2>4, <2>8, <2>9, PutBack
  <2>11. L <= Len(Sents[b])
    BY <2>2, <2>4, <2>8, ItemsTyped DEF SentLast
  <2>12. Sents' = Sents
    BY <1>1 DEF Sents
  <2>13. Box!Requeue(b)
    BY <2>3, <2>7, <2>10, <2>11, <2>12, BoxRequeue
  <2> QED  BY <2>7, <2>8, <2>12, <2>13, BoxMoves
<1> QED  BY <1>2, <1>3

LEMMA StepsImplement == TypeOK /\ BatchSent /\ [Next]_vars => [Box!Next]_(Box!vars)
<1> SUFFICES ASSUME TypeOK, BatchSent, [Next]_vars PROVE [Box!Next]_(Box!vars)
  OBVIOUS
<1>1. CASE UNCHANGED <<persisted, delivered, worker>>
  <2>1. Queues' = Queues
    BY <1>1, SameQueues DEF ForgottenQueue, BatchLength
  <2>2. Sents' = Sents
    BY <1>1 DEF Sents
  <2> QED  BY <2>1, <2>2, BoxVars
<1>2. CASE LinkChanges \/ UNCHANGED vars
  BY <1>1, <1>2 DEF LinkChanges, vars
<1>3. ASSUME NEW kind \in Kinds, NEW d \in Devices, NEW r \in References,
             Accept(kind, d, r)
      PROVE  [Box!Next]_(Box!vars)
  BY <1>3, AcceptImplements
<1>4. ASSUME NEW kind \in Kinds, NEW a, NEW keys, StartPublish(kind, a, keys)
      PROVE  [Box!Next]_(Box!vars)
  BY <1>4, QuietImplements DEF StartPublish
<1>5. CASE NextKey
  <2>1. worker.pc # "remove" /\ worker'.pc # "remove"
    BY <1>5 DEF NextKey, TypeOK, Worker
  <2> QED  BY <1>5, <2>1, QuietImplements DEF NextKey
<1>6. CASE EndPublish
  BY <1>6, QuietImplements DEF EndPublish, Idle
<1>7. CASE Crash
  BY <1>7, CrashImplements
<1>8. ASSUME NEW kind \in Kinds, ForPersistanceKey(kind)
      PROVE  [Box!Next]_(Box!vars)
  <2>1. ASSUME worker.pc = "publish", NothingStored(kind) \/ BatchNotTaken(kind)
        PROVE  [Box!Next]_(Box!vars)
    <3>1. worker'.pc # "remove"
      BY <2>1 DEF NothingStored, BatchNotTaken, TypeOK, Worker
    <3> QED  BY <2>1, <3>1, QuietImplements DEF NothingStored, BatchNotTaken
  <2>2. ASSUME worker.pc = "publish", DiscardBatch(kind)
        PROVE  [Box!Next]_(Box!vars)
    BY <1>8, <2>2, DiscardImplements DEF ForPersistanceKey
  <2>3. ASSUME worker.pc = "publish", BatchPublished(kind)
        PROVE  [Box!Next]_(Box!vars)
    BY <1>8, <2>3, PublishedImplements DEF ForPersistanceKey
  <2>4. ASSUME worker.pc = "remove", BatchRemoved(kind)
        PROVE  [Box!Next]_(Box!vars)
    BY <1>8, <2>4, RemovedImplements DEF ForPersistanceKey
  <2> QED  BY <1>8, <2>1, <2>2, <2>3, <2>4 DEF ForPersistanceKey
<1> QED
  BY <1>2, <1>3, <1>4, <1>5, <1>6, <1>7, <1>8, Steps

LEMMA StartImplements == Init => Box!Init
<1> SUFFICES ASSUME Init PROVE Box!Init
  OBVIOUS
<1>1. ASSUME NEW b \in Kinds \X Keys
      PROVE  ForgottenQueue(b[1], b[2]) = <<>> /\ delivered[b[1]][b[2]] = <<>>
  BY <1>1 DEF Init, Idle, ForgottenQueue
<1>2. ItemsOf(<<>>) = <<>>
  BY DEF ItemsOf
<1>3. /\ Queues = [b \in Kinds \X Keys |-> <<>>]
      /\ Sents = [b \in Kinds \X Keys |-> <<>>]
  BY <1>1, <1>2 DEF Queues, Sents
<1> QED  BY <1>3, BoxesAre DEF Box!Init, Queues, Sents, ItemsOf

(* The store-and-forward path implements Outbox: nothing leaves a box but  *)
(* from its front, a batch at a time, sent or dropped, and the one way     *)
(* back in is a stop of the process right after the sending.               *)
THEOREM PathImplementsOutbox == Spec => ImplementsOutbox
<1>1. Init => Box!Init
  BY StartImplements
<1>2. TypeOK /\ BatchSent /\ [Next]_vars => [Box!Next]_(Box!vars)
  BY StepsImplement
<1>3. Init => BatchSent
  BY DEF Init, Idle, BatchSent
<1> QED
  BY <1>1, <1>2, <1>3, TypeInit, TypeNext, SentNext, PTL DEF Spec, ImplementsOutbox, Box!Spec

=============================================================================
