-------------------------------- MODULE Wolk --------------------------------
(***************************************************************************)
(* The control plane of the gateway module: Wolk's command buffer and the  *)
(* three kinds of thread around it.                                        *)
(*                                                                         *)
(* User threads call the API; almost every call only pushes a command.     *)
(* One worker thread takes the commands in order and runs them, a step at  *)
(* a time; running one may push more, at the tail.  The MQTT client's      *)
(* thread reports a lost connection: it clears m_connected behind the      *)
(* worker's back and pushes a Connect.                                     *)
(*                                                                         *)
(* The data a device has stored is a matter of DataService; here it is     *)
(* only whether there is any (backlog).  The platform is what the          *)
(* registration messages that reached it have told it.                     *)
(***************************************************************************)
EXTENDS Naturals, Sequences

CONSTANTS
  Devices,          \* device keys
  Walk,             \* the order in which std::map walks its keys
  NoDevice,         \* the device of a command that names none
  Assets,           \* templates of sensors, alarms, actuators, configurations
  Reference(_),     \* the reference of a template
  Offers,           \* the sets of templates that calls pass
  ReconnectMayFail, \* whether ConnectivityService::reconnect() may fail
  Menu,             \* bound: the API calls made in this instance
  MaxCalls,         \* bound: how many calls
  MaxLosses         \* bound: how many times the broker connection is lost

ASSUME DevicesAssumption ==
  /\ Walk \in [SUBSET Devices -> Seq(Devices)]
  /\ \A ds \in SUBSET Devices : {Walk[ds][i] : i \in DOMAIN Walk[ds]} = ds
  /\ NoDevice \notin Devices

(* One call may name a reference twice.                                    *)
ASSUME OffersAssumption == Offers \subseteq SUBSET Assets

ASSUME SwitchesAssumption ==
  /\ ReconnectMayFail \in BOOLEAN
  /\ MaxCalls \in Nat
  /\ MaxLosses \in Nat

(* Commands that only send messages derived from the state of the devices. *)
Reports == {"firmwareVersions", "deviceStatuses", "deviceStatus",
            "actuatorGet", "configurationGet"}

Operations ==
  {"connect", "disconnect", "addDevice", "addAssets", "removeDevice",
   "addReading", "publish", "publishOf",
   "registerDevice", "updateDevice", "registerDevices"} \cup Reports

(* The operations on one device.                                           *)
DeviceOperations ==
  {"addDevice", "addAssets", "removeDevice", "addReading", "publishOf",
   "registerDevice", "updateDevice", "deviceStatus", "actuatorGet",
   "configurationGet"}

(* A lambda with what it captured: `assets` the templates, `now` the       *)
(* publishRightAway of connect.                                            *)
Command ==
  {c \in [op : Operations, device : Devices \cup {NoDevice},
          assets : SUBSET Assets, now : BOOLEAN] :
     c.op \in DeviceOperations => c.device \in Devices}

Plain(op) == [op |-> op, device |-> NoDevice, assets |-> {}, now |-> FALSE]

For(op, device) == [Plain(op) EXCEPT !.device = device]

With(op, device, assets) == [For(op, device) EXCEPT !.assets = assets]

ConnectCommand(now) == [Plain("connect") EXCEPT !.now = now]

VARIABLES
  m_commandBuffer,  \* the commands waiting, first in first out
  worker,           \* the command the worker runs, and how far it is
  m_devices,        \* keys of the devices held
  template,         \* the templates of each device held
  m_connected,      \* Wolk's own idea of the link
  linkUp,           \* whether the service has a session with the broker
  lost,             \* connectionLost notifications not yet delivered
  callback,         \* how far the MQTT thread is in connectionLost
  will,             \* devices named by the last-will message set
  brokerWill,       \* devices named by the one the broker holds
  backlog,          \* devices that have data stored
  due,              \* history: stored at the latest connect, if it is to publish
  registered,       \* history: devices whose registration was sent
  platformAssets,   \* history: templates the platform was told of
  asked,            \* history: templates valid addAssetsToDevice calls passed
  removed,          \* history: devices that were removed some time
  lastCall,         \* history: the latest of connect and disconnect called
  calls,            \* history: calls made
  losses            \* history: connections lost

link == <<linkUp, lost, callback, brokerWill, losses>>
fleet == <<m_devices, template, will, asked, removed>>
platform == <<registered, platformAssets>>
data == <<backlog, due>>
api == <<lastCall, calls>>
vars == <<m_commandBuffer, worker, m_connected, link, fleet, platform, data, api>>

(* pc: "idle"; "run" a command just taken; "connected", "announce", "push" *)
(* and "retry" inside connect; "disconnecting" inside disconnect;          *)
(* "register" and "reconnect" inside addDevice; "store" inside             *)
(* addAssetsToDevice; "each" while walking devices.  `out` holds commands  *)
(* about to be pushed, `todo` devices still to walk.                       *)
Worker ==
  [pc : {"idle", "run", "connected", "announce", "push", "retry",
         "disconnecting", "register", "reconnect", "store", "each"},
   cmd : Command, out : Seq(Command), todo : SUBSET Devices]

Idle == [pc |-> "idle", cmd |-> Plain("publish"), out |-> <<>>, todo |-> {}]

FlagsOK == m_connected \in BOOLEAN /\ linkUp \in BOOLEAN

CommandsOK ==
  /\ m_commandBuffer \in Seq(Command)
  /\ worker \in Worker

CountsOK == lost \in Nat /\ calls \in Nat /\ losses \in Nat

DevicesOK ==
  /\ m_devices \subseteq Devices
  /\ template \in [Devices -> SUBSET Assets]
  /\ will \subseteq Devices
  /\ asked \in [Devices -> SUBSET Assets]
  /\ removed \subseteq Devices
  /\ brokerWill \subseteq Devices
  /\ backlog \subseteq Devices
  /\ due \subseteq Devices
  /\ registered \subseteq Devices
  /\ platformAssets \in [Devices -> SUBSET Assets]
  /\ callback \in {"idle", "push"}
  /\ lastCall \in {"none", "connect", "disconnect"}

TypeOK == FlagsOK /\ CommandsOK /\ CountsOK /\ DevicesOK

Init ==
  /\ m_commandBuffer = <<>>
  /\ worker = Idle
  /\ m_devices = {}
  /\ template = [d \in Devices |-> {}]
  /\ m_connected = FALSE
  /\ linkUp = FALSE
  /\ lost = 0
  /\ callback = "idle"
  /\ will = {}
  /\ brokerWill = {}
  /\ backlog = {}
  /\ due = {}
  /\ registered = {}
  /\ platformAssets = [d \in Devices |-> {}]
  /\ asked = [d \in Devices |-> {}]
  /\ removed = {}
  /\ lastCall = "none"
  /\ calls = 0
  /\ losses = 0

AddToCommandBuffer(command) == m_commandBuffer' = Append(m_commandBuffer, command)

-----------------------------------------------------------------------------
(* The API, called from any user thread at any time.                       *)

Call(command) ==
  /\ command.op \in Menu
  /\ calls < MaxCalls
  /\ calls' = calls + 1
  /\ AddToCommandBuffer(command)
  /\ UNCHANGED <<worker, m_connected, link, fleet, platform, data>>

CallConnect == \E now \in BOOLEAN : Call(ConnectCommand(now)) /\ lastCall' = "connect"

CallDisconnect == Call(Plain("disconnect")) /\ lastCall' = "disconnect"

CallAddDevice ==
  \E d \in Devices, offer \in Offers :
    Call(With("addDevice", d, offer)) /\ UNCHANGED lastCall

CallAddAssetsToDevice ==
  \E d \in Devices, offer \in Offers :
    Call(With("addAssets", d, offer)) /\ UNCHANGED lastCall

CallRemoveDevice ==
  \E d \in Devices : Call(For("removeDevice", d)) /\ UNCHANGED lastCall

CallAddSensorReading ==
  \E d \in Devices : Call(For("addReading", d)) /\ UNCHANGED lastCall

CallPublish == Call(Plain("publish")) /\ UNCHANGED lastCall

CallPublishOf ==
  \E d \in Devices : Call(For("publishOf", d)) /\ UNCHANGED lastCall

ApiCall ==
  \/ CallConnect \/ CallDisconnect \/ CallAddDevice \/ CallAddAssetsToDevice
  \/ CallRemoveDevice \/ CallAddSensorReading \/ CallPublish \/ CallPublishOf

-----------------------------------------------------------------------------
(* The worker.                                                             *)

TakeCommand ==
  /\ worker.pc = "idle"
  /\ m_commandBuffer # <<>>
  /\ worker' = [Idle EXCEPT !.pc = "run", !.cmd = Head(m_commandBuffer)]
  /\ m_commandBuffer' = Tail(m_commandBuffer)
  /\ UNCHANGED <<m_connected, link, fleet, platform, data, api>>

At(pc, op) == worker.pc = pc /\ worker.cmd.op = op

Goto(pc) == worker' = [worker EXCEPT !.pc = pc]

Done == worker' = Idle

(* A successful connect or reconnect opens a session with the last will    *)
(* set at that time.                                                       *)
SessionOpened == linkUp' = TRUE /\ brokerWill' = will

SessionClosed == linkUp' = FALSE /\ UNCHANGED brokerWill

(* connect(): ask the service, then raise the flag, then push what follows *)
(* a connection; a failed attempt sleeps and pushes itself again.          *)
ConnectSucceeds ==
  /\ At("run", "connect")
  /\ SessionOpened
  /\ Goto("connected")
  /\ UNCHANGED <<m_commandBuffer, m_connected, lost, callback, losses,
                 fleet, platform, data, api>>

ConnectFails ==
  /\ At("run", "connect")
  /\ SessionClosed
  /\ Goto("retry")
  /\ UNCHANGED <<m_commandBuffer, m_connected, lost, callback, losses,
                 fleet, platform, data, api>>

(* Mutant: a failed attempt is not repeated.                               *)
ConnectAgain_GivesUp ==
  /\ At("retry", "connect")
  /\ Done
  /\ UNCHANGED <<m_commandBuffer, m_connected, link, fleet, platform, data, api>>

(* Mutant: the attempt is repeated on the spot.                            *)
ConnectAgain_InPlace ==
  /\ At("retry", "connect")
  /\ Goto("run")
  /\ UNCHANGED <<m_commandBuffer, m_connected, link, fleet, platform, data, api>>

ConnectAgain ==
  /\ At("retry", "connect")
  /\ AddToCommandBuffer(worker.cmd)
  /\ Done
  /\ UNCHANGED <<m_connected, link, fleet, platform, data, api>>

RaiseConnected ==
  /\ At("connected", "connect")
  /\ m_connected' = TRUE
  /\ Goto("announce")
  /\ due' = IF worker.cmd.now THEN due \cup backlog ELSE {}
  /\ UNCHANGED <<m_commandBuffer, link, fleet, platform, backlog, api>>

(* Mutant: devices are registered only when asked to publish right away.   *)
Announcements_OnlyNow(now) ==
  IF ~now THEN <<Plain("publish")>>
  ELSE <<Plain("registerDevices"), Plain("publish")>>

(* Registration always; the rest only when asked to publish right away:    *)
(* among it the actuators and the configuration of one device after the    *)
(* other.                                                                  *)
DeviceReports ==
  [i \in 1 .. 2 * Len(Walk[m_devices]) |->
     For(IF i % 2 = 1 THEN "actuatorGet" ELSE "configurationGet",
         Walk[m_devices][(i + 1) \div 2])]

Announcements(now) ==
  IF ~now THEN <<Plain("registerDevices")>>
  ELSE <<Plain("registerDevices"), Plain("firmwareVersions"), Plain("deviceStatuses")>>
       \o DeviceReports \o <<Plain("publish")>>

Announce ==
  /\ At("announce", "connect")
  /\ worker' = [worker EXCEPT !.pc = "push",
                              !.out = Announcements(worker.cmd.now)]
  /\ UNCHANGED <<m_commandBuffer, m_connected, link, fleet, platform, data, api>>

(* One push of several: another thread may push in between.                *)
PushNext ==
  /\ worker.pc = "push"
  /\ worker.out # <<>>
  /\ AddToCommandBuffer(Head(worker.out))
  /\ worker' = IF Len(worker.out) = 1 THEN Idle
               ELSE [worker EXCEPT !.out = Tail(worker.out)]
  /\ UNCHANGED <<m_connected, link, fleet, platform, data, api>>

Disconnect ==
  /\ At("run", "disconnect")
  /\ m_connected' = FALSE
  /\ Goto("disconnecting")
  /\ UNCHANGED <<m_commandBuffer, link, fleet, platform, data, api>>

CloseSession ==
  /\ At("disconnecting", "disconnect")
  /\ SessionClosed
  /\ Done
  /\ UNCHANGED <<m_commandBuffer, m_connected, lost, callback, losses,
                 fleet, platform, data, api>>

(* addDevice(): the new device changes the last will, and the broker only  *)
(* takes a new last will with a new session.                               *)
AddDevice ==
  LET d == worker.cmd.device
  IN  /\ At("run", "addDevice")
      /\ IF d \in m_devices
         THEN Done /\ UNCHANGED fleet
         ELSE /\ m_devices' = m_devices \cup {d}
              /\ template' = [template EXCEPT ![d] = worker.cmd.assets]
              /\ asked' = [asked EXCEPT ![d] = worker.cmd.assets]
              /\ will' = m_devices'
              /\ UNCHANGED removed
              /\ IF m_connected THEN Goto("register") ELSE Done
      /\ UNCHANGED <<m_commandBuffer, m_connected, link, platform, data, api>>

RegisterAdded ==
  /\ At("register", "addDevice")
  /\ AddToCommandBuffer(With("registerDevice", worker.cmd.device, worker.cmd.assets))
  /\ Goto("reconnect")
  /\ UNCHANGED <<m_connected, link, fleet, platform, data, api>>

(* Mutant: addDevice does without the new session.                         *)
Reconnect_Skipped ==
  /\ At("reconnect", "addDevice")
  /\ Done
  /\ UNCHANGED <<m_commandBuffer, m_connected, link, fleet, platform, data, api>>

(* The result of reconnect() is not looked at.                             *)
Reconnect ==
  /\ At("reconnect", "addDevice")
  /\ \/ SessionOpened
     \/ ReconnectMayFail /\ SessionClosed
  /\ Done
  /\ UNCHANGED <<m_commandBuffer, m_connected, lost, callback, losses,
                 fleet, platform, data, api>>

(* One template of each reference: what lookups by reference find in a     *)
(* device whose template names one twice, and what a loop that skips those *)
(* already there keeps of an offer.  (The order of templates is left out.) *)
OnePer(assets) ==
  {kept \in SUBSET assets :
     /\ \A a \in assets : \E b \in kept : Reference(a) = Reference(b)
     /\ \A a, b \in kept : Reference(a) = Reference(b) => a = b}

(* Mutant: any offer will do.                                              *)
ValidAssets_Unchecked(found, offer) == TRUE

(* validateAssetsToUpdate: no template the device is found to have under   *)
(* the same reference differs.  Those of one offer are not compared with   *)
(* each other.                                                             *)
ValidAssets(found, offer) ==
  \A a \in offer, b \in found : Reference(a) = Reference(b) => a = b

NewAssets(d, offer) ==
  {a \in offer : \A b \in template[d] : Reference(a) # Reference(b)}

AddAssetsToDevice ==
  LET d == worker.cmd.device
      offer == worker.cmd.assets
  IN  /\ At("run", "addAssets")
      /\ \E found \in OnePer(template[d]) :
           LET valid == d \in m_devices /\ ValidAssets(found, offer)
           IN  /\ asked' = IF valid THEN [asked EXCEPT ![d] = @ \cup offer] ELSE asked
               /\ IF valid /\ m_connected
                  THEN AddToCommandBuffer(With("updateDevice", d, offer)) /\ Goto("store")
                  ELSE UNCHANGED m_commandBuffer /\ Done
      /\ UNCHANGED <<m_connected, m_devices, template, will, removed, link,
                     platform, data, api>>

StoreAssetsToDevice ==
  LET d == worker.cmd.device
  IN  /\ At("store", "addAssets")
      /\ \E kept \in OnePer(NewAssets(d, worker.cmd.assets)) :
           template' = [template EXCEPT ![d] = @ \cup kept]
      /\ Done
      /\ UNCHANGED <<m_commandBuffer, m_connected, m_devices, will, asked, removed,
                     link, platform, data, api>>

(* The device is forgotten; its stored data and the last will are not.     *)
RemoveDevice ==
  LET d == worker.cmd.device
  IN  /\ At("run", "removeDevice")
      /\ m_devices' = m_devices \ {d}
      /\ removed' = removed \cup ({d} \cap m_devices)
      /\ template' = [template EXCEPT ![d] = {}]
      /\ asked' = [asked EXCEPT ![d] = {}]
      /\ Done
      /\ UNCHANGED <<m_commandBuffer, m_connected, will, link, platform, data, api>>

(* Stored, whatever the connection.  (addAlarm differs in what it stores.) *)
AddSensorReading ==
  /\ At("run", "addReading")
  /\ backlog' = IF worker.cmd.device \in m_devices
                THEN backlog \cup {worker.cmd.device} ELSE backlog
  /\ Done
  /\ UNCHANGED <<m_commandBuffer, m_connected, due, link, fleet, platform, api>>

(* publish(): everything the persistence holds, removed devices included.  *)
Publish ==
  /\ At("run", "publish")
  /\ worker' = [worker EXCEPT !.pc = "each", !.todo = backlog]
  /\ UNCHANGED <<m_commandBuffer, m_connected, link, fleet, platform, data, api>>

PublishOf ==
  /\ At("run", "publishOf")
  /\ worker' = [worker EXCEPT !.pc = "each",
                  !.todo = {worker.cmd.device} \cap m_devices]
  /\ UNCHANGED <<m_commandBuffer, m_connected, link, fleet, platform, data, api>>

(* Mutant: stored data is removed whether or not it was sent.              *)
PublishNext_RemovesUnsent ==
  /\ At("each", "publish") \/ At("each", "publishOf")
  /\ \E d \in worker.todo :
       /\ worker' = [worker EXCEPT !.todo = @ \ {d}]
       /\ backlog' = backlog \ {d}
       /\ due' = IF linkUp THEN due \ {d} ELSE due
  /\ UNCHANGED <<m_commandBuffer, m_connected, link, fleet, platform, api>>

(* What DataService does for one device: all of it goes, or stays stored.  *)
PublishNext ==
  /\ At("each", "publish") \/ At("each", "publishOf")
  /\ \E d \in worker.todo :
       /\ worker' = [worker EXCEPT !.todo = @ \ {d}]
       /\ backlog' = IF linkUp THEN backlog \ {d} ELSE backlog
       /\ due' = IF linkUp THEN due \ {d} ELSE due
  /\ UNCHANGED <<m_commandBuffer, m_connected, link, fleet, platform, api>>

RegisterDevices ==
  /\ At("run", "registerDevices")
  /\ worker' = [worker EXCEPT !.pc = "each", !.todo = m_devices]
  /\ UNCHANGED <<m_commandBuffer, m_connected, link, fleet, platform, data, api>>

(* publishRegistrationRequest, publishUpdateRequest: a message that is not *)
(* taken is logged and gone.  (So is one the protocol cannot make.  Here   *)
(* it always can, and the last will too.)                                  *)
PublishRegistrationRequest(d, assets) ==
  IF linkUp
  THEN /\ registered' = registered \cup {d}
       /\ platformAssets' = [platformAssets EXCEPT ![d] = @ \cup assets]
  ELSE UNCHANGED platform

PublishUpdateRequest(d, assets) ==
  /\ platformAssets' = IF linkUp
                       THEN [platformAssets EXCEPT ![d] = @ \cup assets]
                       ELSE platformAssets
  /\ UNCHANGED registered

RegisterNext ==
  /\ At("each", "registerDevices")
  /\ \E d \in worker.todo :
       /\ worker' = [worker EXCEPT !.todo = @ \ {d}]
       /\ PublishRegistrationRequest(d, template[d])
  /\ UNCHANGED <<m_commandBuffer, m_connected, link, fleet, data, api>>

EachDone ==
  /\ worker.pc = "each"
  /\ worker.todo = {}
  /\ Done
  /\ UNCHANGED <<m_commandBuffer, m_connected, link, fleet, platform, data, api>>

(* The device as it was when addDevice captured it, held or not by now.    *)
RegisterDevice ==
  /\ At("run", "registerDevice")
  /\ PublishRegistrationRequest(worker.cmd.device, worker.cmd.assets)
  /\ Done
  /\ UNCHANGED <<m_commandBuffer, m_connected, link, fleet, data, api>>

UpdateDevice ==
  /\ At("run", "updateDevice")
  /\ PublishUpdateRequest(worker.cmd.device, worker.cmd.assets)
  /\ Done
  /\ UNCHANGED <<m_commandBuffer, m_connected, link, fleet, data, api>>

(* One more command per device held, run after all that is queued by then. *)
PublishDeviceStatuses ==
  /\ At("run", "deviceStatuses")
  /\ worker' = IF m_devices = {} THEN Idle
               ELSE [worker EXCEPT !.pc = "push",
                       !.out = [i \in DOMAIN Walk[m_devices] |->
                                  For("deviceStatus", Walk[m_devices][i])]]
  /\ UNCHANGED <<m_commandBuffer, m_connected, link, fleet, platform, data, api>>

(* The other reports only send what a provider answers.                    *)
RunReport ==
  /\ worker.pc = "run"
  /\ worker.cmd.op \in Reports \ {"deviceStatuses"}
  /\ Done
  /\ UNCHANGED <<m_commandBuffer, m_connected, link, fleet, platform, data, api>>

Execute ==
  \/ ConnectFails \/ ConnectSucceeds \/ ConnectAgain \/ RaiseConnected
  \/ Announce \/ PushNext
  \/ Disconnect \/ CloseSession
  \/ AddDevice \/ RegisterAdded \/ Reconnect
  \/ AddAssetsToDevice \/ StoreAssetsToDevice \/ RemoveDevice
  \/ AddSensorReading \/ Publish \/ PublishOf \/ PublishNext \/ EachDone
  \/ RegisterDevices \/ RegisterNext \/ RegisterDevice \/ UpdateDevice
  \/ PublishDeviceStatuses \/ RunReport

-----------------------------------------------------------------------------
(* The MQTT client's thread.                                               *)

ConnectionLost ==
  /\ linkUp
  /\ losses < MaxLosses
  /\ losses' = losses + 1
  /\ linkUp' = FALSE
  /\ lost' = lost + 1
  /\ UNCHANGED <<m_commandBuffer, worker, m_connected, callback, brokerWill,
                 fleet, platform, data, api>>

(* Mutant: the handler also runs without a loss.                           *)
LowerConnected_Spurious ==
  /\ callback = "idle"
  /\ linkUp
  /\ lost' = lost - 1
  /\ m_connected' = FALSE
  /\ callback' = "push"
  /\ UNCHANGED <<m_commandBuffer, worker, linkUp, brokerWill, losses,
                 fleet, platform, data, api>>

(* The handler WolkBuilder installs: m_connected = false, then connect().  *)
LowerConnected ==
  /\ callback = "idle"
  /\ lost > 0
  /\ lost' = lost - 1
  /\ m_connected' = FALSE
  /\ callback' = "push"
  /\ UNCHANGED <<m_commandBuffer, worker, linkUp, brokerWill, losses,
                 fleet, platform, data, api>>

(* Mutant: the handler lowers the flag and leaves it at that.              *)
QueueReconnection_Forgotten ==
  /\ callback = "push"
  /\ callback' = "idle"
  /\ UNCHANGED <<m_commandBuffer, worker, m_connected, linkUp, lost, brokerWill,
                 losses, fleet, platform, data, api>>

QueueReconnection ==
  /\ callback = "push"
  /\ AddToCommandBuffer(ConnectCommand(TRUE))
  /\ callback' = "idle"
  /\ UNCHANGED <<worker, m_connected, linkUp, lost, brokerWill, losses,
                 fleet, platform, data, api>>

Callback == LowerConnected \/ QueueReconnection

-----------------------------------------------------------------------------

Next == ApiCall \/ TakeCommand \/ Execute \/ ConnectionLost \/ Callback

Spec == Init /\ [][Next]_vars

(* The worker and the MQTT thread keep running.                            *)
Fairness ==
  /\ WF_vars(TakeCommand \/ Execute)
  /\ WF_vars(Callback)

FairSpec == Spec /\ Fairness

-----------------------------------------------------------------------------
(* Properties.                                                             *)

ConnectQueued ==
  \E i \in DOMAIN m_commandBuffer : m_commandBuffer[i].op = "connect"

(* A Connect waits, or is about to be pushed by the MQTT thread.           *)
ConnectAhead == ConnectQueued \/ callback = "push"

(* ... or is being attempted.                                              *)
ConnectComing == ConnectAhead \/ At("run", "connect") \/ At("retry", "connect")

(* m_connected and the link may disagree, the two threads race on them;    *)
(* but whenever they do, whatever will make them agree is under way: a     *)
(* notification to come, a Connect queued or running, a Disconnect about   *)
(* to close the session.  Nobody is left believing in a dead link.         *)
StaleFlagIsRepaired ==
  /\ linkUp /\ ~m_connected =>
       \/ ConnectComing
       \/ At("connected", "connect")
       \/ At("disconnecting", "disconnect")
  /\ ~linkUp /\ m_connected =>
       \/ ConnectComing
       \/ lost > 0

(* The strengthenings that make it inductive: what the worker already      *)
(* relies on when it is in the middle of a connect, addDevice, disconnect. *)
LossSeenWhileConnecting ==
  At("connected", "connect") /\ ~linkUp => ConnectAhead \/ lost > 0

FlagReadByAddDevice ==
  worker.pc \in {"register", "reconnect"} /\ ~m_connected => ConnectAhead

FlagLoweredByDisconnect ==
  worker.pc = "disconnecting" => ~m_connected

FlagInv ==
  /\ StaleFlagIsRepaired
  /\ LossSeenWhileConnecting
  /\ FlagReadByAddDevice
  /\ FlagLoweredByDisconnect

Quiescent ==
  /\ m_commandBuffer = <<>>
  /\ worker.pc = "idle"
  /\ lost = 0
  /\ callback = "idle"

(* Once nothing is left to do on a live link, the last will the broker     *)
(* holds names every device held: a device added at any time, during a     *)
(* connect or between a loss and its notification, is reported offline     *)
(* when the module vanishes.                                               *)
WillCoversDevices == Quiescent /\ linkUp => m_devices \subseteq brokerWill

(* Once nothing is left to do on a live link, the platform knows every     *)
(* device held and every template it holds, though each registration and   *)
(* update message may have been lost when it was sent.                     *)
PlatformKnowsDevices ==
  Quiescent /\ linkUp =>
    /\ m_devices \subseteq registered
    /\ \A d \in m_devices : template[d] \subseteq platformAssets[d]

(* What the module tells the platform about a device never contradicts     *)
(* what it told before, by registration or update, queued or repeated      *)
(* after a loss: two templates under one reference are one, or one call    *)
(* passed both, which the code does not look for.  (A device removed and   *)
(* added again may well come back different.)                              *)
NoContradiction ==
  \A d \in Devices \ removed : \A a, b \in platformAssets[d] :
    Reference(a) = Reference(b) =>
      a = b \/ \E offer \in Offers : {a, b} \subseteq offer

(* Data stored before the latest connect, if that one was to publish right *)
(* away, has been sent once nothing is left to do on a live link, whatever *)
(* was lost while it was being sent:                                       *)
(* "Persisted readings are sent to WolkAbout Gateway once connection is    *)
(* established" (README.md).                                               *)
StoredDataIsSent == Quiescent /\ linkUp => due = {}

(* A Connect that keeps failing does not keep the other commands from      *)
(* running: it queues up again behind them.                                *)
RetryDoesNotStarve ==
  (\E i \in DOMAIN m_commandBuffer : m_commandBuffer[i].op # "connect") ~>
  (\A i \in DOMAIN m_commandBuffer : m_commandBuffer[i].op = "connect")

(* A broker that is tried for ever answers some time: an assumption about  *)
(* the network, which the code cannot give.                                *)
ReachableBroker == SF_vars(ConnectSucceeds)

(* With such a broker, after the last connection loss, a module whose user *)
(* asked last to be connected ends up connected for good and knows it.     *)
EndsConnected ==
  ReachableBroker =>
    (<>[](lastCall = "connect") => <>[](linkUp /\ m_connected))

(* "disconnect Disconnects from WolkAbout IoT platform" (Wolk.h): once the *)
(* user's last word was disconnect and it was carried out, the module does *)
(* not come back by itself.                                                *)
DisconnectPending ==
  \/ \E i \in DOMAIN m_commandBuffer : m_commandBuffer[i].op = "disconnect"
  \/ worker.cmd.op = "disconnect" /\ worker.pc # "idle"

DisconnectSticks ==
  [][ lastCall = "disconnect" /\ ~DisconnectPending /\ ~linkUp => ~linkUp' ]_vars

(* "addDevice Registers device on WolkAbout IoT platform" (Wolk.h): when   *)
(* nothing is left to do and the user asked last to be connected, every    *)
(* device held is registered.                                              *)
AddedDevicesAreRegistered ==
  Quiescent /\ lastCall = "connect" => m_devices \subseteq registered

(* "addAssetsToDevice Updates device with assets on WolkAbout IoT          *)
(* platform" (Wolk.h): templates that passed validation reach the platform *)
(* once nothing is left to do on a live link.                              *)
AcceptedAssetsReachPlatform ==
  Quiescent /\ linkUp =>
    \A d \in m_devices : asked[d] \subseteq platformAssets[d]

=============================================================================
