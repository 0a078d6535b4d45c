----------------------------- MODULE DataService -----------------------------
(***************************************************************************)
(* DataService: the store-and-forward path of the gateway module.          *)
(*                                                                         *)
(* Every add* call files an item in the persistence under a key made of    *)
(* the device key and the reference; every publish* call walks the keys of *)
(* one kind and forwards what they hold, at most a batch at a time.  All   *)
(* of them run on one thread, the worker of Wolk's command buffer, so a    *)
(* publish call is a sequence of steps of that worker; meanwhile the MQTT  *)
(* thread may lose or regain the link, and the process may stop.           *)
(*                                                                         *)
(* Sensor readings and alarms wait in a list per key, oldest first;        *)
(* actuator statuses and configurations in a slot that the newest fills.   *)
(* Both are sequences here, a slot one of length at most 1.                *)
(***************************************************************************)
EXTENDS PersistenceKey, FiniteSets

CONSTANTS Devices,       \* device keys
          References,    \* references of sensors, alarms and actuators
          AllDevices,    \* stands for a publish* call without a device key
          BatchSize,     \* PUBLISH_BATCH_ITEMS_COUNT
          MaxAccepted,   \* bound: items accepted per kind and key
          MaxCrashes     \* bound: restarts of the process

ListKinds == {"sensor", "alarm"}
SlotKinds == {"actuator", "configuration"}
Kinds == ListKinds \cup SlotKinds

ASSUME NamesAssumption ==
  /\ Devices \subseteq Name
  /\ References \subseteq Name
  /\ References # {}
  /\ AllDevices \notin Devices

ASSUME BoundsAssumption ==
  /\ BatchSize \in Nat \ {0}
  /\ MaxAccepted \in [Kinds -> Nat]
  /\ MaxCrashes \in Nat

(* A configuration is filed under the bare device key.                     *)
KeyOf(kind, device, reference) ==
  IF kind = "configuration" THEN device ELSE MakePersistenceKey(device, reference)

Keys == {KeyOf(kind, d, r) : kind \in Kinds, d \in Devices, r \in References}

(* n numbers the items accepted under one kind and key.                    *)
Numbers == UNION {1 .. MaxAccepted[kind] : kind \in Kinds}

Item == [device : Devices, reference : References, n : Numbers]

(* One item of a message taken by the connectivity service: `to` is the    *)
(* device the message was addressed to.                                    *)
Delivery == [to : Name, item : Item]

VARIABLES
  persisted,   \* m_persistence: what is stored, per kind and key
  worker,      \* the publish* call in progress
  linkUp,      \* whether a publish through m_connectivityService succeeds
  accepted,    \* history: how many items were accepted, per kind and key
  delivered,   \* history: items handed over, in order, per kind and key
  discarded,   \* history: numbers of items dropped unsent, per kind and key
  crashes      \* history: restarts so far

vars == <<persisted, worker, linkUp, accepted, delivered, discarded, crashes>>

(* pc "next": about to take the next key; "publish": about to fetch and    *)
(* publish from `key`; "remove": published, about to remove from the       *)
(* persistence.  `asked` is the device the call names; `failed` records    *)
(* that some batch of the call was not taken.                              *)
Worker ==
  [pc : {"idle", "next", "publish", "remove"}, kind : Kinds,
   todo : SUBSET Keys, key : Keys \cup {NoName},
   asked : Devices \cup {AllDevices}, failed : BOOLEAN]

Idle == [pc |-> "idle", kind |-> "sensor", todo |-> {}, key |-> NoName,
         asked |-> AllDevices, failed |-> FALSE]

PerKey(S) == [Kinds -> [Keys -> S]]

TypeOK ==
  /\ persisted \in PerKey(Seq(Item))
  /\ \A kind \in SlotKinds, key \in Keys : Len(persisted[kind][key]) <= 1
  /\ worker \in Worker
  /\ worker.pc \in {"publish", "remove"} => worker.key \in Keys
  /\ linkUp \in BOOLEAN
  /\ accepted \in PerKey(Nat)
  /\ delivered \in PerKey(Seq(Delivery))
  /\ discarded \in PerKey(SUBSET Numbers)
  /\ crashes \in Nat

Init ==
  /\ persisted = [kind \in Kinds |-> [key \in Keys |-> <<>>]]
  /\ worker = Idle
  /\ linkUp = FALSE
  /\ accepted = [kind \in Kinds |-> [key \in Keys |-> 0]]
  /\ delivered = [kind \in Kinds |-> [key \in Keys |-> <<>>]]
  /\ discarded = [kind \in Kinds |-> [key \in Keys |-> {}]]
  /\ crashes = 0

-----------------------------------------------------------------------------
(* The persistence.                                                        *)

(* Mutant: a slot that queues, newest first.                               *)
Put_NewestFirst(kind, key, item) ==
  persisted' = [persisted EXCEPT ![kind][key] =
                  IF kind \in ListKinds THEN Append(@, item) ELSE <<item>> \o @]

Put(kind, key, item) ==
  persisted' = [persisted EXCEPT ![kind][key] =
                  IF kind \in ListKinds THEN Append(@, item) ELSE <<item>>]

StoredKeys(kind) == {key \in Keys : persisted[kind][key] # <<>>}

BatchSizeOf(kind) == IF kind \in ListKinds THEN BatchSize ELSE 1

BatchLength(kind, key) ==
  IF Len(persisted[kind][key]) < BatchSizeOf(kind)
  THEN Len(persisted[kind][key])
  ELSE BatchSizeOf(kind)

(* Mutant: the newest items are fetched, the oldest removed.               *)
Batch_Newest(kind, key) ==
  SubSeq(persisted[kind][key],
         Len(persisted[kind][key]) - BatchLength(kind, key) + 1,
         Len(persisted[kind][key]))

Batch(kind, key) == SubSeq(persisted[kind][key], 1, BatchLength(kind, key))

(* Mutant: one item too few is removed.                                    *)
RemoveBatch_OneShort(kind, key) ==
  persisted' = [persisted EXCEPT ![kind][key] =
                  SubSeq(@, BatchLength(kind, key), Len(@))]

(* Mutant: the newest items are removed, not the oldest.                   *)
RemoveBatch_Newest(kind, key) ==
  persisted' = [persisted EXCEPT ![kind][key] =
                  SubSeq(@, 1, Len(@) - BatchLength(kind, key))]

(* remove*(key, count) drops the oldest `count` items, whichever they are. *)
RemoveBatch(kind, key) ==
  persisted' = [persisted EXCEPT ![kind][key] =
                  SubSeq(@, BatchLength(kind, key) + 1, Len(@))]

-----------------------------------------------------------------------------
(* The add* calls.                                                         *)

(* Mutant: the add* calls run on the caller's thread, publish call or not. *)
Accept_AnyThread(kind, device, reference) ==
  LET key == KeyOf(kind, device, reference)
      n == accepted[kind][key] + 1
  IN  /\ n <= MaxAccepted[kind]
      /\ Put(kind, key, [device |-> device, reference |-> reference, n |-> n])
      /\ accepted' = [accepted EXCEPT ![kind][key] = n]
      /\ UNCHANGED <<worker, linkUp, delivered, discarded, crashes>>

Accept(kind, device, reference) ==
  LET key == KeyOf(kind, device, reference)
      n == accepted[kind][key] + 1
  IN  /\ worker.pc = "idle"
      /\ n <= MaxAccepted[kind]
      /\ Put(kind, key, [device |-> device, reference |-> reference, n |-> n])
      /\ accepted' = [accepted EXCEPT ![kind][key] = n]
      /\ UNCHANGED <<worker, linkUp, delivered, discarded, crashes>>

AddSensorReading(device, reference) == Accept("sensor", device, reference)

AddAlarm(device, reference) == Accept("alarm", device, reference)

AddActuatorStatus(device, reference) == Accept("actuator", device, reference)

AddConfiguration(device) ==
  Accept("configuration", device, CHOOSE r \in References : TRUE)

-----------------------------------------------------------------------------
(* The publish* calls: each takes the keys to walk once, at its start.     *)

StartPublish(kind, asked, keys) ==
  /\ worker.pc = "idle"
  /\ worker' = [pc |-> "next", kind |-> kind, todo |-> keys, key |-> NoName,
                asked |-> asked, failed |-> FALSE]
  /\ UNCHANGED <<persisted, linkUp, accepted, delivered, discarded, crashes>>

PublishSensorReadings ==
  StartPublish("sensor", AllDevices, StoredKeys("sensor"))

(* Mutant: the device asked for is not looked at.                          *)
PublishSensorReadingsOf_Everything(device) ==
  StartPublish("sensor", device, StoredKeys("sensor"))

PublishSensorReadingsOf(device) ==
  StartPublish("sensor", device,
               FindMatchingPersistanceKeys(device, StoredKeys("sensor")))

PublishAlarms ==
  StartPublish("alarm", AllDevices, StoredKeys("alarm"))

PublishAlarmsOf(device) ==
  StartPublish("alarm", device,
               FindMatchingPersistanceKeys(device, StoredKeys("alarm")))

PublishActuatorStatuses ==
  StartPublish("actuator", AllDevices, StoredKeys("actuator"))

PublishActuatorStatusesOf(device) ==
  StartPublish("actuator", device,
               FindMatchingPersistanceKeys(device, StoredKeys("actuator")))

PublishConfiguration ==
  StartPublish("configuration", AllDevices, StoredKeys("configuration"))

PublishConfigurationOf(device) ==
  StartPublish("configuration", device, {device})

NextKey ==
  /\ worker.pc = "next"
  /\ \E key \in worker.todo :
       worker' = [worker EXCEPT !.pc = "publish", !.key = key,
                                !.todo = @ \ {key}]
  /\ UNCHANGED <<persisted, linkUp, accepted, delivered, discarded, crashes>>

EndPublish ==
  /\ worker.pc = "next"
  /\ worker.todo = {}
  /\ worker' = Idle
  /\ UNCHANGED <<persisted, linkUp, accepted, delivered, discarded, crashes>>

-----------------------------------------------------------------------------
(* publish*ForPersistanceKey, one batch at a time.                         *)

(* The device a message made from `key` is addressed to, and whether the   *)
(* key parsed into two names at all.                                       *)
Addressee(kind, key) ==
  IF kind = "configuration" THEN key ELSE ParsePersistenceKey(key).device

Parsed(kind, key) ==
  \/ kind = "configuration"
  \/ /\ ParsePersistenceKey(key).device # NoName
     /\ ParsePersistenceKey(key).reference # NoName

(* Nothing stored under the key (any more): the call is done with it.      *)
NothingStored(kind) ==
  /\ persisted[kind][worker.key] = <<>>
  /\ worker' = [worker EXCEPT !.pc = "next"]
  /\ UNCHANGED <<persisted, delivered, discarded>>

(* The key does not parse, or the protocol makes no message of the batch:  *)
(* the batch is dropped and the call goes on to the next key.              *)
DiscardBatch(kind) ==
  LET key == worker.key
      batch == Batch(kind, key)
  IN  /\ batch # <<>>
      /\ RemoveBatch(kind, key)
      /\ discarded' = [discarded EXCEPT ![kind][key] =
                         @ \cup {batch[i].n : i \in DOMAIN batch}]
      /\ worker' = [worker EXCEPT !.pc = "next", !.failed = TRUE]
      /\ UNCHANGED delivered

BatchPublished(kind) ==
  LET key == worker.key
      batch == Batch(kind, key)
  IN  /\ batch # <<>>
      /\ Parsed(kind, key)
      /\ linkUp
      /\ delivered' = [delivered EXCEPT ![kind][key] =
                         @ \o [i \in DOMAIN batch |->
                                 [to |-> Addressee(kind, key), item |-> batch[i]]]]
      /\ worker' = [worker EXCEPT !.pc = "remove"]
      /\ UNCHANGED <<persisted, discarded>>

(* Mutant: the batch is removed although it was not taken.                 *)
BatchNotTaken_Removed(kind) ==
  /\ Batch(kind, worker.key) # <<>>
  /\ Parsed(kind, worker.key)
  /\ ~linkUp
  /\ RemoveBatch(kind, worker.key)
  /\ worker' = [worker EXCEPT !.pc = "next", !.failed = TRUE]
  /\ UNCHANGED <<delivered, discarded>>

(* Mutant: the call comes back to the key until the batch is taken.        *)
BatchNotTaken_Retried(kind) ==
  /\ Batch(kind, worker.key) # <<>>
  /\ Parsed(kind, worker.key)
  /\ ~linkUp
  /\ worker' = [worker EXCEPT !.pc = "next", !.todo = @ \cup {worker.key}, !.failed = TRUE]
  /\ UNCHANGED <<persisted, delivered, discarded>>

(* The link is down: what is stored under the key stays there.             *)
BatchNotTaken(kind) ==
  /\ Batch(kind, worker.key) # <<>>
  /\ Parsed(kind, worker.key)
  /\ ~linkUp
  /\ worker' = [worker EXCEPT !.pc = "next", !.failed = TRUE]
  /\ UNCHANGED <<persisted, delivered, discarded>>

(* Mutant: the call does not go on with the next batch.                    *)
BatchRemoved_OneBatch(kind) ==
  /\ RemoveBatch(kind, worker.key)
  /\ worker' = [worker EXCEPT !.pc = "next"]
  /\ UNCHANGED <<delivered, discarded>>

(* After a batch that was taken: a list goes on with its next batch, a     *)
(* slot is empty.                                                          *)
BatchRemoved(kind) ==
  /\ RemoveBatch(kind, worker.key)
  /\ worker' = [worker EXCEPT !.pc = IF kind \in ListKinds THEN "publish" ELSE "next"]
  /\ UNCHANGED <<delivered, discarded>>

ForPersistanceKey(kind) ==
  /\ worker.kind = kind
  /\ \/ /\ worker.pc = "publish"
        /\ \/ NothingStored(kind)
           \/ DiscardBatch(kind)
           \/ BatchPublished(kind)
           \/ BatchNotTaken(kind)
     \/ /\ worker.pc = "remove"
        /\ BatchRemoved(kind)
  /\ UNCHANGED <<linkUp, accepted, crashes>>

PublishSensorReadingsForPersistanceKey == ForPersistanceKey("sensor")

PublishAlarmsForPersistanceKey == ForPersistanceKey("alarm")

PublishActuatorStatusesForPersistanceKey == ForPersistanceKey("actuator")

PublishConfigurationForPersistanceKey == ForPersistanceKey("configuration")

-----------------------------------------------------------------------------
(* The surroundings.                                                       *)

LinkChanges ==
  /\ linkUp' = ~linkUp
  /\ UNCHANGED <<persisted, worker, accepted, delivered, discarded, crashes>>

(* The process stops and is started again on a persistence that outlives   *)
(* it: what was stored is still there, the call in progress is not.        *)
Crash ==
  /\ crashes < MaxCrashes
  /\ crashes' = crashes + 1
  /\ worker' = Idle
  /\ linkUp' = FALSE
  /\ UNCHANGED <<persisted, accepted, delivered, discarded>>

Add ==
  \E d \in Devices :
    \/ \E r \in References :
         \/ AddSensorReading(d, r)
         \/ AddAlarm(d, r)
         \/ AddActuatorStatus(d, r)
    \/ AddConfiguration(d)

Publish ==
  \/ PublishSensorReadings
  \/ PublishAlarms
  \/ PublishActuatorStatuses
  \/ PublishConfiguration
  \/ \E d \in Devices :
       \/ PublishSensorReadingsOf(d)
       \/ PublishAlarmsOf(d)
       \/ PublishActuatorStatusesOf(d)
       \/ PublishConfigurationOf(d)

WorkerStep ==
  \/ NextKey
  \/ EndPublish
  \/ PublishSensorReadingsForPersistanceKey
  \/ PublishAlarmsForPersistanceKey
  \/ PublishActuatorStatusesForPersistanceKey
  \/ PublishConfigurationForPersistanceKey

Next == Add \/ Publish \/ WorkerStep \/ LinkChanges \/ Crash

Spec == Init /\ [][Next]_vars

(* The worker thread runs its command to the end; nobody owes it a link,   *)
(* and nobody owes it another call.                                        *)
FairSpec == Spec /\ WF_vars(WorkerStep)

-----------------------------------------------------------------------------
(* Properties.                                                             *)

InStore(kind, key, n) ==
  \E i \in DOMAIN persisted[kind][key] : persisted[kind][key][i].n = n

WasDelivered(kind, key, n) ==
  \E i \in DOMAIN delivered[kind][key] : delivered[kind][key][i].item.n = n

(* What must not vanish: every item of a list, the latest one of a slot.   *)
Owed(kind, key) ==
  {n \in 1 .. accepted[kind][key] :
     kind \in ListKinds \/ n = accepted[kind][key]}

(* No item vanishes: what was accepted (in a slot: accepted last) is still *)
(* stored, was taken by the connectivity service, or was dropped because   *)
(* no message could be made of it.  About the removal by count, after the  *)
(* publish, of a batch that is only assumed to be still at the front.      *)
NoLoss ==
  \A kind \in Kinds, key \in Keys : \A n \in Owed(kind, key) :
    \/ InStore(kind, key, n)
    \/ WasDelivered(kind, key, n)
    \/ n \in discarded[kind][key]

(* While a published batch awaits its removal, the persistence still       *)
(* starts with exactly that batch: what is about to be removed was all     *)
(* delivered.                                                              *)
RemovalIsOfWhatWasSent ==
  worker.pc = "remove" =>
    \A i \in 1 .. BatchLength(worker.kind, worker.key) :
      WasDelivered(worker.kind, worker.key,
                   persisted[worker.kind][worker.key][i].n)

(* Readings and alarms of a key arrive in the order they were accepted: an *)
(* item is only ever sent after all older ones were sent or dropped, over  *)
(* batches, failed publishes and restarts.                                 *)
NoOvertaking ==
  \A kind \in ListKinds, key \in Keys :
    \A i \in DOMAIN delivered[kind][key] :
      \A m \in 1 .. delivered[kind][key][i].item.n - 1 :
        \/ m \in discarded[kind][key]
        \/ \E j \in 1 .. i - 1 : delivered[kind][key][j].item.n = m

(* The platform never sees an actuator status or a configuration go back   *)
(* to an older value, whatever was stored when a publish failed.           *)
NoStaleStatus ==
  \A kind \in SlotKinds, key \in Keys :
    \A i, j \in DOMAIN delivered[kind][key] :
      i < j => delivered[kind][key][i].item.n <= delivered[kind][key][j].item.n

(* An item is sent again only because the process stopped between sending  *)
(* and removing it: at most once more per restart.                         *)
RepeatsOnlyAfterCrash ==
  \A kind \in Kinds, key \in Keys :
    \A i \in DOMAIN delivered[kind][key] :
      Cardinality({j \in DOMAIN delivered[kind][key] :
                     delivered[kind][key][j].item = delivered[kind][key][i].item})
        <= 1 + crashes

(* A message is addressed to the device its readings were added for: the   *)
(* device key survives the way through the persistence key.  It needs      *)
(* device keys without the delimiter.                                      *)
RightDevice ==
  \A kind \in Kinds, key \in Keys :
    \A i \in DOMAIN delivered[kind][key] :
      delivered[kind][key][i].to = delivered[kind][key][i].item.device

(* publish*(deviceKey) sends data of that device only.                     *)
OnlyAskedDevice ==
  [][ \A kind \in Kinds, key \in Keys :
        \A i \in DOMAIN delivered'[kind][key] \ DOMAIN delivered[kind][key] :
          worker.asked \in {AllDevices, delivered'[kind][key][i].item.device} ]_vars

(* A publish* call that met no failed batch leaves nothing of what it was  *)
(* asked for behind, however many batches that took: its recursion and its *)
(* snapshot of the keys skip nothing.                                      *)
CleanCallDrains ==
  [][ worker.pc = "next" /\ EndPublish /\ ~worker.failed =>
        \A key \in StoredKeys(worker.kind) :
          worker.asked \notin {AllDevices, Addressee(worker.kind, key)} ]_vars

(* A publish* call comes to an end on any link, down for good or flapping: *)
(* a failed publish is not retried by the call and the recursion over      *)
(* batches runs out.                                                       *)
PublishEnds == worker.pc # "idle" ~> worker.pc = "idle"

(* The path implements the boxes of Outbox.  A batch leaves its box when   *)
(* the connectivity service takes it, before the persistence forgets it;   *)
(* a stop in between puts it back.                                         *)
ForgottenQueue(kind, key) ==
  IF worker.pc = "remove" /\ worker.kind = kind /\ worker.key = key
  THEN SubSeq(persisted[kind][key], BatchLength(kind, key) + 1,
              Len(persisted[kind][key]))
  ELSE persisted[kind][key]

Box == INSTANCE Outbox WITH
  ListBoxes <- ListKinds \X Keys,
  SlotBoxes <- SlotKinds \X Keys,
  Items <- Item,
  MaxBatch <- BatchSize,
  queue <- [b \in Kinds \X Keys |-> ForgottenQueue(b[1], b[2])],
  sent <- [b \in Kinds \X Keys |->
             [i \in DOMAIN delivered[b[1]][b[2]] |-> delivered[b[1]][b[2]][i].item]]

ImplementsOutbox == Box!Spec

=============================================================================
