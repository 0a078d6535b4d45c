------------------------------ MODULE Requests ------------------------------
(***************************************************************************)
(* What the platform asks of the module, from the MQTT message to the      *)
(* report that answers it.                                                 *)
(*                                                                         *)
(* Three workers, each with a command buffer of its own: that of           *)
(* InboundGatewayMessageHandler hands a message to the service that        *)
(* listens on its channel; the service parses it and pushes a command for  *)
(* Wolk's worker, or, for a platform status, for that of                   *)
(* PlatformStatusService; Wolk's worker carries it out against the         *)
(* application's handlers and providers and reports what these answer.     *)
(*                                                                         *)
(* A command is one step, and so is a loss with the handler it calls: what *)
(* may happen in the middle of one is the subject of the modules Wolk and  *)
(* DataService.  m_connected and the link still part where the code lets   *)
(* them, in an addDevice whose reconnect() fails.  Messages carry their    *)
(* number in `log`: it stands for the value a set command brings.          *)
(***************************************************************************)
EXTENDS Integers, Sequences

CONSTANTS
  Devices,             \* device keys
  NoDevice,            \* the empty device key
  Actuators,           \* actuator references of a device
  ConfigurationItems,  \* references of its configuration
  Status,              \* stands for its status
  Configuration,       \* stands for its configuration as a whole
  Walk,                \* the order in which std::map walks device keys
  AssetWalk,           \* ... and, for each, its actuators, then its configuration
  PlatformMessages,    \* the messages the platform sends, answers apart
  Unsendable,          \* the entries of which there may be no message to send
  Answers,             \* the results it answers registrations with
  Scenarios            \* bounds: what calls the application makes before all else
                       \* and may make later, how many messages and calls there
                       \* are then, and how many losses of the connection

References == Actuators \cup ConfigurationItems \cup {Status}
Slots == Devices \X References

ASSUME ReferencesAssumption ==
  /\ Actuators \cap ConfigurationItems = {}
  /\ Status \notin Actuators \cup ConfigurationItems
  /\ Configuration \notin References
  /\ NoDevice \notin Devices

ASSUME WalkAssumption ==
  /\ Walk \in [SUBSET Devices -> Seq(Devices)]
  /\ AssetWalk \in [SUBSET Devices -> Seq(Devices \X (Actuators \cup {Configuration}))]
  /\ \A ds \in SUBSET Devices :
       /\ {Walk[ds][i] : i \in DOMAIN Walk[ds]} = ds
       /\ {AssetWalk[ds][i] : i \in DOMAIN AssetWalk[ds]}
            = ds \X (Actuators \cup {Configuration})

(* What a message reports: an actuator, a configuration as a whole or a    *)
(* status.  Its persistence key may not parse, or its protocol make no     *)
(* message of it.                                                          *)
Entries == Devices \X (Actuators \cup {Configuration, Status})

ASSUME EntriesAssumption == Unsendable \subseteq Entries

DataRequests ==
  {"actuatorGet", "actuatorSet", "configurationGet", "configurationSet"}
Responses == {"registered", "refused"}

(* `readable` is whether the protocol can parse the content.  Channels     *)
(* nobody listens on, and responses to updates, are "other" kinds.         *)
Message ==
  [kind : DataRequests \cup Responses
            \cup {"statusRequest", "platformStatus", "updateResponse", "unknownChannel"},
   device : Devices \cup {NoDevice}, refs : SUBSET References, readable : BOOLEAN]

ASSUME PlatformAssumption ==
  /\ Answers \subseteq Responses \X BOOLEAN
  /\ PlatformMessages \subseteq {m \in Message : m.kind \notin Responses}
  /\ \A m \in PlatformMessages :
       /\ m.kind = "actuatorSet" => \E r \in References : m.refs = {r}
       /\ m.kind = "actuatorGet" => \A r, s \in m.refs : r = s

(* A lambda with what it captured: `yes` is the publishRightAway of        *)
(* connect or the OK of a response, `value` what a set brings or a call    *)
(* reports.                                                                *)
DeviceOperations ==
  {"actuatorSet", "configurationGet", "configurationSet", "response",
   "addDevice", "removeDevice", "registerDevice", "deviceStatus",
   "directActuator", "directConfiguration", "addDeviceStatus", "publishDeviceStatus"}
Operations ==
  DeviceOperations \cup {"actuatorGet", "statusRequest", "connect",
                         "disconnect", "registerDevices", "deviceStatuses", "publish"}
Command ==
  {c \in [op : Operations,
          device : Devices \cup {NoDevice}, refs : SUBSET References,
          value : Nat, yes : BOOLEAN] :
     c.op \in DeviceOperations => c.device \in Devices}

Plain(op) ==
  [op |-> op, device |-> NoDevice, refs |-> {}, value |-> 0, yes |-> FALSE]
For(op, d, rs) == [Plain(op) EXCEPT !.device = d, !.refs = rs]

(* The API calls that push one command; only the direct ones pass a value. *)
Direct == {"directActuator", "directConfiguration"}
ApiCommands ==
  {c \in Command :
     /\ c.op \in Direct \cup {"connect", "disconnect", "addDevice", "removeDevice",
                             "publish", "actuatorGet", "configurationGet",
                             "addDeviceStatus", "publishDeviceStatus"}
     /\ c.op \in Direct => c.refs # {}}

ASSUME ScenariosAssumption ==
  Scenarios \subseteq [startup : Seq(ApiCommands), calls : SUBSET ApiCommands,
                      inputs : Nat, losses : Nat]

(* A slot that holds or was told nothing.                                  *)
Nothing == -1

VARIABLES
  log,              \* history: the messages received, in order
  inbound,          \* InboundGatewayMessageHandler's buffer: numbers of messages
  statusBuffer,     \* PlatformStatusService's buffer
  m_commandBuffer,  \* Wolk's buffer
  m_devices,        \* the devices held
  m_connected,      \* what Wolk takes the link for
  linkUp,           \* whether there is a session with the broker
  state,            \* the application's: the set command each slot last obeyed
  stored,           \* what is persisted of each slot and not yet sent
  told,             \* what the platform was last told of each slot
  heard,            \* the platform status the listener was last told
  owed,             \* registration requests the platform has yet to answer
  accepted,         \* history: devices held that the platform accepted, likewise
  unread,           \* history: slots asked for in this session, or in one before
                    \* it that it is to make up for, and not read since
  unsent,           \* history: the same, read since and neither sent nor discarded
  discarded,        \* history: slots whose report, the last to leave them, was
                    \* removed without being sent
  direct,           \* history: slots reported with a value the caller passed
  calls,            \* bound: the API calls the application may still make,
  inputs,           \* ... how many messages and calls may still come,
  losses            \* ... and how many losses of the connection

buffers == <<inbound, statusBuffer, m_commandBuffer>>
link == <<m_connected, linkUp>>
reports == <<stored, told, unread, unsent, discarded>>
environment == <<log, owed, accepted, direct, calls, inputs, losses>>
vars == <<buffers, m_devices, link, state, heard, reports, environment>>

CommandsOK == m_commandBuffer \in Seq(Command)
NumbersOK ==
  /\ inbound \in Seq(1 .. Len(log))
  /\ statusBuffer \in Seq(1 .. Len(log))
  /\ heard \in 0 .. Len(log)
ReportsOK ==
  /\ state \in [Slots -> Nat]
  /\ stored \in [Slots -> Nat \cup {Nothing}]
  /\ told \in [Slots -> Nat \cup {Nothing}]
PlatformOK ==
  /\ log \in Seq(Message)
  /\ owed \in [Devices -> Nat]
  /\ unread \subseteq Slots /\ unsent \subseteq Slots
  /\ discarded \subseteq Slots /\ direct \subseteq Slots
  /\ accepted \subseteq m_devices
  /\ m_devices \subseteq Devices
  /\ m_connected \in BOOLEAN /\ linkUp \in BOOLEAN
  /\ calls \subseteq ApiCommands /\ inputs \in Nat /\ losses \in Nat

TypeOK == CommandsOK /\ NumbersOK /\ ReportsOK /\ PlatformOK

NothingOwed == [d \in Devices |-> 0]

Init ==
  /\ log = <<>>
  /\ inbound = <<>>
  /\ statusBuffer = <<>>
  /\ \E scenario \in Scenarios :
       /\ m_commandBuffer = scenario.startup
       /\ calls = scenario.calls /\ inputs = scenario.inputs
       /\ losses = scenario.losses
  /\ m_devices = {}
  /\ m_connected = FALSE /\ linkUp = FALSE
  /\ state = [x \in Slots |-> 0]
  /\ stored = [x \in Slots |-> Nothing]
  /\ told = [x \in Slots |-> Nothing]
  /\ heard = 0
  /\ owed = NothingOwed
  /\ accepted = {}
  /\ unread = {} /\ unsent = {}
  /\ discarded = {} /\ direct = {}

-----------------------------------------------------------------------------
(* The MQTT client's thread.                                               *)

(* Whether a service finds in the content what it needs: nothing, for two  *)
(* of the kinds.                                                           *)
Understood(m) == m.readable \/ m.kind \in {"configurationGet", "statusRequest"}

(* The slots of the devices held whose report answers a message.           *)
Wanted(m) ==
  LET devices == IF m.device = NoDevice THEN m_devices ELSE {m.device} \cap m_devices
  IN  CASE m.kind = "actuatorGet" /\ m.device = NoDevice /\ m.refs = {} ->
             devices \X Actuators
        [] m.kind \in {"actuatorGet", "actuatorSet"} /\ m.device # NoDevice ->
             devices \X (m.refs \cap Actuators)
        [] m.kind = "configurationGet" /\ m.device # NoDevice ->
             devices \X ConfigurationItems
        [] m.kind = "configurationSet" /\ m.device # NoDevice
             /\ m.refs \subseteq ConfigurationItems ->
             devices \X ConfigurationItems
        [] m.kind = "statusRequest" -> devices \X {Status}
        [] OTHER -> {}

(* Mutant: the latest message is handled first.                            *)
InboundMessageReceived_NewestFirst(m) ==
  /\ log' = Append(log, m)
  /\ inbound' = IF m.kind = "unknownChannel" THEN inbound
                ELSE <<Len(log')>> \o inbound
  /\ unread' = IF Understood(m) THEN unread \cup Wanted(m) ELSE unread
  /\ unsent' = unsent \ unread'
  /\ UNCHANGED <<statusBuffer, m_commandBuffer, m_devices, state, heard, stored, told,
                 discarded, direct>>

(* InboundGatewayMessageHandler::messageReceived, by way of the facade.    *)
InboundMessageReceived(m) ==
  /\ log' = Append(log, m)
  /\ inbound' = IF m.kind = "unknownChannel" THEN inbound
                ELSE Append(inbound, Len(log'))
  /\ unread' = IF Understood(m) THEN unread \cup Wanted(m) ELSE unread
  /\ unsent' = unsent \ unread'
  /\ UNCHANGED <<statusBuffer, m_commandBuffer, m_devices, state, heard, stored, told,
                 discarded, direct>>

PlatformAsks ==
  /\ linkUp
  /\ inputs > 0
  /\ inputs' = inputs - 1
  /\ \E m \in PlatformMessages : InboundMessageReceived(m)
  /\ UNCHANGED <<link, owed, accepted, calls, losses>>

PlatformAnswers ==
  \E d \in Devices, answer \in Answers :
    /\ linkUp
    /\ owed[d] > 0
    /\ owed' = [owed EXCEPT ![d] = @ - 1]
    /\ accepted' = IF answer = <<"registered", TRUE>>
                   THEN accepted \cup ({d} \cap m_devices) ELSE accepted
    /\ InboundMessageReceived([kind |-> answer[1], device |-> d, refs |-> {},
                               readable |-> answer[2]])
    /\ UNCHANGED <<link, calls, inputs, losses>>

(* Answers on their way are gone with the session; the handler lowers      *)
(* m_connected and queues a Connect.                                       *)
ConnectionLost ==
  /\ linkUp
  /\ losses > 0
  /\ losses' = losses - 1
  /\ m_connected' = FALSE /\ linkUp' = FALSE
  /\ owed' = NothingOwed
  /\ m_commandBuffer' = Append(m_commandBuffer, [Plain("connect") EXCEPT !.yes = TRUE])
  /\ UNCHANGED <<inbound, statusBuffer, m_devices, state, heard, reports,
                 log, accepted, direct, calls, inputs>>

-----------------------------------------------------------------------------
(* The inbound worker: the listener of the message's channel.              *)

TakeMessage(kinds) ==
  /\ inbound # <<>>
  /\ log[Head(inbound)].kind \in kinds
  /\ inbound' = Tail(inbound)
  /\ UNCHANGED <<m_devices, link, state, heard, reports, environment>>

(* Mutant: the device key is not looked at.                                *)
DataCommand_NoKey(m, n) ==
  IF Understood(m)
  THEN <<[For(m.kind, m.device, m.refs) EXCEPT !.value = n]>>
  ELSE <<>>

(* The command a service makes of a message, if it makes any.  Only a get  *)
(* may name no device; only a configuration get has nothing to parse.      *)
DataCommand(m, n) ==
  IF /\ m.device \in Devices \/ m.kind = "actuatorGet"
     /\ Understood(m)
  THEN <<[For(m.kind, m.device, m.refs) EXCEPT !.value = n]>>
  ELSE <<>>

DataServiceReceives ==
  /\ TakeMessage(DataRequests)
  /\ LET n == Head(inbound)
     IN  m_commandBuffer' = m_commandBuffer \o DataCommand(log[n], n)
  /\ UNCHANGED statusBuffer

DeviceStatusServiceReceives ==
  /\ TakeMessage({"statusRequest"})
  /\ LET m == log[Head(inbound)]
     IN  m_commandBuffer' = Append(m_commandBuffer, For("statusRequest", m.device, {}))
  /\ UNCHANGED statusBuffer

(* Responses to updates come the same way and go no further.               *)
DeviceRegistrationServiceReceives ==
  /\ TakeMessage(Responses \cup {"updateResponse"})
  /\ LET m == log[Head(inbound)]
     IN  m_commandBuffer' =
           IF m.device \in Devices /\ m.kind \in Responses /\ m.readable
           THEN Append(m_commandBuffer,
                  [For("response", m.device, {}) EXCEPT !.yes = (m.kind = "registered")])
           ELSE m_commandBuffer
  /\ UNCHANGED statusBuffer

PlatformStatusServiceReceives ==
  /\ TakeMessage({"platformStatus"})
  /\ LET n == Head(inbound)
     IN  statusBuffer' = IF log[n].readable THEN Append(statusBuffer, n) ELSE statusBuffer
  /\ UNCHANGED m_commandBuffer

Dispatch ==
  \/ DataServiceReceives \/ DeviceStatusServiceReceives
  \/ DeviceRegistrationServiceReceives \/ PlatformStatusServiceReceives

(* PlatformStatusService's worker.                                         *)
TellListener ==
  /\ statusBuffer # <<>>
  /\ heard' = Head(statusBuffer)
  /\ statusBuffer' = Tail(statusBuffer)
  /\ UNCHANGED <<inbound, m_commandBuffer, m_devices, link, state, reports,
                 environment>>

-----------------------------------------------------------------------------
(* Wolk's worker.                                                          *)

command == Head(m_commandBuffer)

(* The command at the head runs and pushes others.                         *)
Run(op, pushed) ==
  /\ m_commandBuffer # <<>>
  /\ command.op = op
  /\ m_commandBuffer' = Tail(m_commandBuffer) \o pushed
  /\ UNCHANGED <<inbound, statusBuffer, heard, log, calls, inputs, losses>>

ActuatorSlots == Devices \X Actuators
ConfigurationSlots == Devices \X ConfigurationItems

(* DataService: values put in their slots, in place of what was stored.    *)
Put(values, slots) == [x \in Slots |-> IF x \in slots THEN values[x] ELSE stored[x]]

Entry(x) == IF x[2] \in ConfigurationItems THEN <<x[1], Configuration>> ELSE x

(* Try to send what the slots of `sending` hold of `kept`.  What is not    *)
(* taken stays; what makes no message is removed, link or no link.         *)
Send(kept, sending) ==
  LET held == {x \in sending : kept[x] # Nothing}
  IN  \E bad \in SUBSET (Unsendable \cap {Entry(x) : x \in held}) :
        LET gone == {x \in held : Entry(x) \in bad}
            sent == IF linkUp THEN held \ gone ELSE {}
        IN  /\ told' = [x \in Slots |-> IF x \in sent THEN kept[x] ELSE told[x]]
            /\ stored' = [x \in Slots |-> IF x \in sent \cup gone THEN Nothing
                                          ELSE kept[x]]
            /\ discarded' = (discarded \cup gone) \ sent

(* Mutant: on a live link what is read goes out past what is stored.       *)
Report_PastStored(s, slots, sending) ==
  IF linkUp /\ slots # {}
  THEN /\ told' = [x \in Slots |-> IF x \in slots THEN s[x] ELSE told[x]]
       /\ unread' = unread \ slots
       /\ UNCHANGED <<stored, unsent, discarded>>
  ELSE /\ Send(Put(s, slots), sending)
       /\ unread' = unread \ slots
       /\ unsent' = IF linkUp THEN unsent \ sending ELSE unsent \cup (slots \cap unread)

(* Put what the providers answer for some slots, the state of the          *)
(* application being `s`, and send all that is stored beside them.         *)
Report(s, slots, sending) ==
  /\ Send(Put(s, slots), sending)
  /\ unread' = unread \ slots
  /\ unsent' = IF linkUp THEN unsent \ sending ELSE unsent \cup (slots \cap unread)

(* Statuses are not persisted: one that is not taken, or of which no       *)
(* message is made, is gone.                                               *)
PublishStatus(d, value) ==
  \/ told' = IF linkUp THEN [told EXCEPT ![<<d, Status>>] = value] ELSE told
  \/ <<d, Status>> \in Unsendable /\ UNCHANGED told

(* ... it answers the request for it if it was read from the provider.     *)
ReportStatus(d) ==
  /\ PublishStatus(d, state[<<d, Status>>])
  /\ unread' = IF linkUp THEN unread \ {<<d, Status>>} ELSE unread
  /\ UNCHANGED <<stored, unsent, discarded>>

(* The assets a device held has, as its template says.                     *)
Defined(d, refs, assets) == d \in m_devices /\ refs \subseteq assets

HandleActuatorGetCommand ==
  LET c == command
      all == c.device = NoDevice /\ c.refs = {}
      slots == IF all THEN m_devices \X Actuators ELSE {c.device} \X c.refs
      valid == \/ all
               \/ c.refs # {} /\ Defined(c.device, c.refs, Actuators)
  IN  /\ Run("actuatorGet", <<>>)
      /\ IF valid /\ slots # {}
         THEN Report(state, slots, ActuatorSlots)
         ELSE UNCHANGED reports
      /\ UNCHANGED <<m_devices, link, state, owed, accepted, direct>>

(* The application obeys or not; what its provider says then is reported.  *)
Obey(slots, value) ==
  state' = [x \in Slots |-> IF x \in slots THEN value ELSE state[x]]

HandleActuatorSetCommand ==
  LET c == command
      slots == {c.device} \X c.refs
  IN  /\ Run("actuatorSet", <<>>)
      /\ IF Defined(c.device, c.refs, Actuators)
         THEN /\ Obey(slots, c.value) \/ UNCHANGED state
              /\ Report(state', slots, ActuatorSlots)
         ELSE UNCHANGED <<state, reports>>
      /\ UNCHANGED <<m_devices, link, owed, accepted, direct>>

HandleConfigurationGetCommand ==
  LET d == command.device
  IN  /\ Run("configurationGet", <<>>)
      /\ IF d \in m_devices
         THEN Report(state, {d} \X ConfigurationItems, ConfigurationSlots)
         ELSE UNCHANGED reports
      /\ UNCHANGED <<m_devices, link, state, owed, accepted, direct>>

(* Mutant: items that are not defined are skipped, the others handed over. *)
HandleConfigurationSetCommand_ItemByItem ==
  LET c == command
  IN  /\ Run("configurationSet", <<>>)
      /\ IF c.device \in m_devices
         THEN /\ \/ Obey({c.device} \X (c.refs \cap ConfigurationItems), c.value)
                 \/ UNCHANGED state
              /\ Report(state', {c.device} \X ConfigurationItems,
                      ConfigurationSlots)
         ELSE UNCHANGED <<state, reports>>
      /\ UNCHANGED <<m_devices, link, owed, accepted, direct>>

(* All items are defined, or the command is dropped.                       *)
HandleConfigurationSetCommand ==
  LET c == command
  IN  /\ Run("configurationSet", <<>>)
      /\ IF Defined(c.device, c.refs, ConfigurationItems)
         THEN /\ Obey({c.device} \X c.refs, c.value) \/ UNCHANGED state
              /\ Report(state', {c.device} \X ConfigurationItems,
                      ConfigurationSlots)
         ELSE UNCHANGED <<state, reports>>
      /\ UNCHANGED <<m_devices, link, owed, accepted, direct>>

EachStatus == [i \in DOMAIN Walk[m_devices] |-> For("deviceStatus", Walk[m_devices][i], {})]

(* One device answers at once, all of them by one more command: that one   *)
(* pushes a command per device.                                            *)
HandleDeviceStatusRequest ==
  LET d == command.device
  IN  /\ Run("statusRequest", IF d = NoDevice THEN <<Plain("deviceStatuses")>> ELSE <<>>)
      /\ IF d \in m_devices
         THEN ReportStatus(d)
         ELSE UNCHANGED reports
      /\ UNCHANGED <<m_devices, link, state, owed, accepted, direct>>

PublishDeviceStatuses ==
  /\ Run("deviceStatuses", EachStatus)
  /\ UNCHANGED <<m_devices, link, state, reports, owed, accepted, direct>>

RunDeviceStatus ==
  /\ Run("deviceStatus", <<>>)
  /\ ReportStatus(command.device)
  /\ UNCHANGED <<m_devices, link, state, owed, accepted, direct>>

-----------------------------------------------------------------------------
(* Connections and devices.                                                *)

(* publishActuatorStatus and publishConfiguration of each asset of devices.*)
AssetReports(ds) ==
  [i \in DOMAIN AssetWalk[ds] |->
     LET d == AssetWalk[ds][i][1]
         asset == AssetWalk[ds][i][2]
     IN  IF asset = Configuration THEN For("configurationGet", d, {})
         ELSE For("actuatorGet", d, {asset})]

(* Mutant: an accepted device reports nothing.                             *)
HandleRegistrationResponse_Silent ==
  /\ Run("response", <<>>)
  /\ UNCHANGED <<m_devices, link, state, reports, owed, accepted, direct>>

(* (The firmware version it also reports is FirmwareUpdate's.)             *)
HandleRegistrationResponse ==
  LET d == command.device
  IN  /\ Run("response", IF d \in m_devices /\ command.yes
                         THEN AssetReports({d}) ELSE <<>>)
      /\ UNCHANGED <<m_devices, link, state, reports, owed, accepted, direct>>

(* Mutant: the statuses are left out.                                      *)
Announcements_NoStatuses(now) ==
  IF now
  THEN <<Plain("registerDevices")>> \o AssetReports(m_devices) \o <<Plain("publish")>>
  ELSE <<Plain("registerDevices")>>

Announcements(now) ==
  IF now
  THEN <<Plain("registerDevices"), Plain("deviceStatuses")>>
         \o AssetReports(m_devices) \o <<Plain("publish")>>
  ELSE <<Plain("registerDevices")>>

(* A session that announces nothing owes nothing of what the one before it *)
(* was asked, or of what devices it accepted.                              *)
NothingAnnounced == unread' = {} /\ unsent' = {} /\ accepted' = {}

ConnectSucceeds ==
  /\ Run("connect", Announcements(command.yes))
  /\ m_connected' = TRUE /\ linkUp' = TRUE
  /\ IF command.yes THEN UNCHANGED <<unread, unsent, accepted>> ELSE NothingAnnounced
  /\ UNCHANGED <<m_devices, state, stored, told, discarded, owed, direct>>

ConnectFails ==
  /\ Run("connect", <<command>>)
  /\ linkUp' = FALSE
  /\ owed' = NothingOwed
  /\ UNCHANGED <<m_devices, m_connected, state, reports, accepted, direct>>

Disconnect ==
  /\ Run("disconnect", <<>>)
  /\ m_connected' = FALSE /\ linkUp' = FALSE
  /\ owed' = NothingOwed
  /\ UNCHANGED <<m_devices, state, reports, accepted, direct>>

(* (A request of which no message is made is one the platform never        *)
(* answers.)                                                               *)
PublishRegistrationRequests(ds) ==
  owed' = IF linkUp THEN [d \in Devices |-> IF d \in ds THEN owed[d] + 1 ELSE owed[d]]
          ELSE owed

RegisterDevices ==
  /\ Run("registerDevices", <<>>)
  /\ PublishRegistrationRequests(m_devices)
  /\ UNCHANGED <<m_devices, link, state, reports, accepted, direct>>

RegisterDevice ==
  /\ Run("registerDevice", <<>>)
  /\ PublishRegistrationRequests({command.device})
  /\ UNCHANGED <<m_devices, link, state, reports, accepted, direct>>

(* reconnect() closes the session and opens another, or fails: nobody      *)
(* looks.  It may cost the answers on their way.  One that follows a       *)
(* failure brings the link back and nothing is announced.                  *)
Reconnect ==
  /\ linkUp' \in BOOLEAN
  /\ owed' \in IF linkUp' THEN {owed, NothingOwed} ELSE {NothingOwed}
  /\ IF linkUp' /\ ~linkUp THEN NothingAnnounced
     ELSE UNCHANGED <<unread, unsent, accepted>>

AddDevice ==
  LET d == command.device
      connects == d \notin m_devices /\ m_connected
  IN  /\ Run("addDevice", IF connects THEN <<For("registerDevice", d, {})>> ELSE <<>>)
      /\ m_devices' = m_devices \cup {d}
      /\ IF connects THEN Reconnect ELSE UNCHANGED <<linkUp, owed, accepted, unread, unsent>>
      /\ UNCHANGED <<m_connected, state, stored, told, discarded, direct>>

RemoveDevice ==
  LET d == command.device
  IN  /\ Run("removeDevice", <<>>)
      /\ m_devices' = m_devices \ {d}
      /\ accepted' = accepted \ {d}
      /\ unread' = {x \in unread : x[1] # d}
      /\ unsent' = {x \in unsent : x[1] # d}
      /\ UNCHANGED <<link, state, stored, told, discarded, owed, direct>>

(* publish(): all that is stored.                                          *)
PublishAll ==
  /\ Run("publish", <<>>)
  /\ Report(state, {}, ActuatorSlots \cup ConfigurationSlots)
  /\ UNCHANGED <<m_devices, link, state, owed, accepted, direct>>

-----------------------------------------------------------------------------
(* Reports with a value the caller passed.                                 *)

Passed(value) == [x \in Slots |-> value]

DirectActuatorStatus ==
  LET c == command
      slots == {c.device} \X c.refs
  IN  /\ Run("directActuator", <<>>)
      /\ Send(Put(Passed(c.value), slots), {c.device} \X Actuators)
      /\ direct' = direct \cup slots
      /\ UNCHANGED <<m_devices, link, state, unread, unsent, owed, accepted>>

(* The items passed take the place of the whole configuration stored.      *)
DirectConfiguration ==
  LET c == command
      items == {c.device} \X ConfigurationItems
      passed == [x \in Slots |-> IF x[2] \in c.refs THEN c.value ELSE Nothing]
  IN  /\ Run("directConfiguration", <<>>)
      /\ Send(Put(passed, items), ConfigurationSlots)
      /\ direct' = direct \cup items
      /\ UNCHANGED <<m_devices, link, state, unread, unsent, owed, accepted>>

DirectStatus(valid) ==
  LET c == command
      x == <<c.device, Status>>
  IN  /\ IF valid
         THEN /\ PublishStatus(c.device, c.value)
              /\ direct' = direct \cup {x}
         ELSE UNCHANGED <<told, direct>>
      /\ UNCHANGED <<m_devices, link, state, stored, unread, unsent, discarded, owed,
                     accepted>>

AddDeviceStatus ==
  Run("addDeviceStatus", <<>>) /\ DirectStatus(command.device \in m_devices)

PublishDeviceStatus == Run("publishDeviceStatus", <<>>) /\ DirectStatus(TRUE)

(* The application passes the state as it is when it calls.                *)
PassedValues(c) ==
  IF c.op \in Direct THEN {state[<<c.device, r>>] : r \in c.refs} ELSE {c.value}

(* Any user thread, at any time.                                           *)
ApiCall ==
  /\ inputs > 0
  /\ inputs' = inputs - 1
  /\ \E c \in calls :
       /\ calls' = calls \ {c}
       /\ \E value \in PassedValues(c) :
            m_commandBuffer' = Append(m_commandBuffer, [c EXCEPT !.value = value])
  /\ UNCHANGED <<inbound, statusBuffer, m_devices, link, state, heard, reports,
                 log, owed, accepted, direct, losses>>

-----------------------------------------------------------------------------

Worker ==
  \/ HandleActuatorGetCommand \/ HandleActuatorSetCommand
  \/ HandleConfigurationGetCommand \/ HandleConfigurationSetCommand
  \/ HandleDeviceStatusRequest \/ PublishDeviceStatuses \/ RunDeviceStatus
  \/ HandleRegistrationResponse
  \/ ConnectSucceeds \/ ConnectFails \/ Disconnect
  \/ RegisterDevices \/ RegisterDevice \/ AddDevice \/ RemoveDevice
  \/ PublishAll
  \/ DirectActuatorStatus \/ DirectConfiguration
  \/ AddDeviceStatus \/ PublishDeviceStatus

Next ==
  \/ PlatformAsks \/ PlatformAnswers \/ ConnectionLost
  \/ Dispatch \/ TellListener \/ Worker \/ ApiCall

Spec == Init /\ [][Next]_vars

-----------------------------------------------------------------------------
(* Properties.                                                             *)

Settled == inbound = <<>> /\ statusBuffer = <<>> /\ m_commandBuffer = <<>>

(* Once nothing is left to do on a live link, every request for a report   *)
(* (get, set, status request, of one device or of all) that came while the *)
(* device was held has been answered by a report read after it came,       *)
(* though reports fail with the link, stored ones wait in their slot and   *)
(* statuses are not stored at all.  (That report may carry the             *)
(* application's own words, put in its slot since, and is missing if no    *)
(* message could be made of it.  A session that announces nothing answers  *)
(* for no request before it: that of connect(false), and of an addDevice   *)
(* after one whose reconnect() had failed.)                                *)
RequestsAreAnswered == Settled /\ linkUp => unread \cup unsent = {}

(* Once nothing is left to do on a live link, the platform knows the state *)
(* of every device it accepted: what a set command changed while the link  *)
(* was down, between two reports or before the registration included.      *)
(* (Of devices accepted since the last session that announced nothing, and *)
(* but for slots the application reported in its own words, or whose last  *)
(* report could not be made a message and was discarded.)                  *)
PlatformKnowsState ==
  Settled /\ linkUp =>
    \A d \in accepted, r \in Actuators \cup ConfigurationItems :
      <<d, r>> \notin direct \cup discarded => told[<<d, r>>] = state[<<d, r>>]

(* A configuration set command is obeyed with all its items or with none,  *)
(* and is reported so: nobody sees some items of it beside older ones.     *)
Whole(values, d) ==
  \A r \in ConfigurationItems :
    values[<<d, r>>] > 0 =>
      \A other \in log[values[<<d, r>>]].refs :
        other \in ConfigurationItems /\ values[<<d, other>>] >= values[<<d, r>>]

WholeConfigurations ==
  \A d \in Devices :
    /\ Whole(state, d)
    /\ {d} \X ConfigurationItems \cap direct = {} =>
         Whole(told, d)

(* Commands that overtake nobody on their way through two threads: the     *)
(* application never obeys an older set after a newer one, its listener    *)
(* never hears an older status of the platform after a newer one.          *)
CarriedOutInOrder ==
  [][ /\ \A x \in Slots : state'[x] >= state[x]
      /\ heard' >= heard ]_vars

(* The platform never sees a slot go back to an older state, whether       *)
(* reports wait in the slot or go out at once.                             *)
ReportsInOrder ==
  [][ \A x \in Slots \ direct' : told'[x] >= told[x] ]_vars

=============================================================================
