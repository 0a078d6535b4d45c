--------------------------- MODULE RequestsProofs ---------------------------
(***************************************************************************)
(* Proofs about Requests, for every set of devices, actuators and          *)
(* configuration items, every order of messages, calls and losses.         *)
(***************************************************************************)
EXTENDS Requests, TLAPS

USE DEF buffers, link, reports, environment, Defined

SetOps == {"actuatorSet", "configurationSet"}

(* What commands other than those a message makes push: never a set.       *)
Harmless == {c \in Command : c.op \notin SetOps}

-----------------------------------------------------------------------------
(* The commands the code builds.                                           *)

LEMMA ForTyped ==
  ASSUME NEW op \in Operations \ SetOps, NEW d \in Devices \cup {NoDevice},
         NEW rs \in SUBSET References,
         op \in DeviceOperations => d \in Devices
  PROVE  /\ For(op, d, rs) \in Harmless
         /\ \A yes \in BOOLEAN : [For(op, d, rs) EXCEPT !.yes = yes] \in Harmless
  BY DEF For, Plain, Harmless, Command

LEMMA PlainTyped ==
  ASSUME NEW op \in Operations \ DeviceOperations
  PROVE  /\ Plain(op) \in Harmless
         /\ \A yes \in BOOLEAN : [Plain(op) EXCEPT !.yes = yes] \in Harmless
  BY DEF Plain, Harmless, Command, DeviceOperations, SetOps

LEMMA HarmlessCommands == Seq(Harmless) \subseteq Seq(Command)
  BY DEF Harmless

LEMMA EmptyHarmless == <<>> \in Seq(Harmless)
  OBVIOUS

LEMMA AssetReportsTyped ==
  ASSUME NEW ds \in SUBSET Devices
  PROVE  AssetReports(ds) \in Seq(Harmless)
<1> DEFINE walk == AssetWalk[ds]
<1>1. walk \in Seq(Devices \X (Actuators \cup {Configuration}))
  BY WalkAssumption
<1>2. ASSUME NEW i \in 1 .. Len(walk)
      PROVE  AssetReports(ds)[i] \in Harmless
  <2>1. walk[i] \in Devices \X (Actuators \cup {Configuration})
    BY <1>1
  <2>2. walk[i][1] \in Devices /\ walk[i][2] \in Actuators \cup {Configuration}
    BY <2>1
  <2>3. For("configurationGet", walk[i][1], {}) \in Harmless
    BY <2>2, ForTyped DEF Operations, DeviceOperations, SetOps
  <2>4. CASE walk[i][2] = Configuration
    BY <1>1, <2>3, <2>4 DEF AssetReports
  <2>5. CASE walk[i][2] # Configuration
    <3>1. {walk[i][2]} \in SUBSET References
      BY <2>2, <2>5 DEF References
    <3>2. For("actuatorGet", walk[i][1], {walk[i][2]}) \in Harmless
      BY <2>2, <3>1, ForTyped DEF Operations, DeviceOperations, SetOps
    <3> QED  BY <1>1, <2>5, <3>2 DEF AssetReports
  <2> QED  BY <2>4, <2>5
<1>3. AssetReports(ds) \in [1 .. Len(walk) -> Harmless]
  <2> HIDE DEF walk
  <2>1. AssetReports(ds) = [i \in 1 .. Len(walk) |-> AssetReports(ds)[i]]
    BY <1>1 DEF AssetReports, walk
  <2> QED  BY <1>2, <2>1
<1>4. Len(walk) \in Nat
  BY <1>1
<1> HIDE DEF walk
<1> QED  BY <1>3, <1>4

LEMMA EachStatusTyped ==
  ASSUME m_devices \subseteq Devices
  PROVE  EachStatus \in Seq(Harmless)
<1> DEFINE walk == Walk[m_devices]
<1>1. walk \in Seq(Devices)
  BY WalkAssumption
<1>2. ASSUME NEW i \in 1 .. Len(walk)
      PROVE  For("deviceStatus", walk[i], {}) \in Harmless
  <2>1. walk[i] \in Devices
    BY <1>1
  <2> QED  BY <2>1, ForTyped DEF Operations, DeviceOperations, SetOps
<1>3. EachStatus = [i \in 1 .. Len(walk) |-> For("deviceStatus", walk[i], {})]
  BY <1>1 DEF EachStatus
<1>4. Len(walk) \in Nat
  BY <1>1
<1> HIDE DEF walk
<1> QED  BY <1>2, <1>3, <1>4

LEMMA AnnouncementsTyped ==
  ASSUME m_devices \subseteq Devices, NEW now \in BOOLEAN
  PROVE  Announcements(now) \in Seq(Harmless)
<1>1. AssetReports(m_devices) \in Seq(Harmless)
  BY AssetReportsTyped
<1>2. /\ Plain("registerDevices") \in Harmless
      /\ Plain("deviceStatuses") \in Harmless
      /\ Plain("publish") \in Harmless
  BY PlainTyped DEF Operations, DeviceOperations
<1>3. /\ <<Plain("registerDevices")>> \in Seq(Harmless)
      /\ <<Plain("registerDevices"), Plain("deviceStatuses")>> \in Seq(Harmless)
      /\ <<Plain("publish")>> \in Seq(Harmless)
  BY <1>2
<1> QED  BY <1>1, <1>3 DEF Announcements

LEMMA ApiCommandsHarmless ==
  ASSUME NEW c \in ApiCommands, NEW value \in Nat
  PROVE  c \in Harmless /\ [c EXCEPT !.value = value] \in Harmless
  BY DEF ApiCommands, Direct, Harmless, SetOps, Command

-----------------------------------------------------------------------------
(* The worker's buffer: what a step leaves of the set commands in it.      *)

(* Commands of a message's own making stay where they were, or move up.    *)
Keeps(shift) ==
  \A i \in DOMAIN m_commandBuffer' :
    m_commandBuffer'[i].op \in SetOps =>
      /\ i + shift \in DOMAIN m_commandBuffer
      /\ m_commandBuffer'[i] = m_commandBuffer[i + shift]

LEMMA HarmlessOps == \A c \in Harmless : c \in Command /\ c.op \notin SetOps
  BY DEF Harmless

LEMMA RunKeeps ==
  ASSUME CommandsOK, NEW op, NEW pushed \in Seq(Harmless), Run(op, pushed)
  PROVE  /\ CommandsOK'
         /\ 1 \in DOMAIN m_commandBuffer
         /\ command = m_commandBuffer[1]
         /\ command \in Command
         /\ command.op = op
         /\ Keeps(1)
<1> PICK old : old = m_commandBuffer
  OBVIOUS
<1>1. old \in Seq(Command) /\ old # <<>>
  BY DEF CommandsOK, Run
<1>2. command = old[1] /\ command \in Command /\ 1 \in DOMAIN old /\ command.op = op
  BY <1>1 DEF command, Run
<1>3. m_commandBuffer' = Tail(old) \o pushed
  BY DEF Run
<1>4. Tail(old) \in Seq(Command) /\ pushed \in Seq(Command)
  BY <1>1, HarmlessCommands
<1>5. CommandsOK'
  BY <1>3, <1>4 DEF CommandsOK
<1>6. ASSUME NEW i \in DOMAIN m_commandBuffer',
             m_commandBuffer'[i].op \in SetOps
      PROVE  i + 1 \in DOMAIN old /\ m_commandBuffer'[i] = old[i + 1]
  <2>1. i \in 1 .. Len(Tail(old)) + Len(pushed)
    BY <1>3, <1>4, <1>6
  <2>2. Len(Tail(old)) = Len(old) - 1 /\ Len(old) \in Nat /\ Len(pushed) \in Nat
    BY <1>1
  <2>3. CASE i <= Len(Tail(old))
    <3>1. m_commandBuffer'[i] = Tail(old)[i]
      BY <1>3, <1>4, <2>1, <2>2, <2>3
    <3>2. Tail(old)[i] = old[i + 1] /\ i + 1 \in DOMAIN old
      BY <1>1, <2>1, <2>2, <2>3
    <3> QED  BY <3>1, <3>2
  <2>4. CASE i > Len(Tail(old))
    <3> DEFINE k == i - Len(Tail(old))
    <3>1. m_commandBuffer'[i] = pushed[k] /\ k \in 1 .. Len(pushed)
      BY <1>3, <1>4, <2>1, <2>2, <2>4
    <3>2. pushed[k] \in Harmless
      BY <3>1
    <3> QED  BY <1>6, <3>1, <3>2, HarmlessOps
  <2> QED  BY <2>1, <2>2, <2>3, <2>4
<1> QED  BY <1>2, <1>5, <1>6 DEF Keeps

LEMMA PushKeeps ==
  ASSUME CommandsOK, NEW c \in Harmless,
         m_commandBuffer' = Append(m_commandBuffer, c)
  PROVE  CommandsOK' /\ Keeps(0)
<1> PICK old : old = m_commandBuffer
  OBVIOUS
<1>1. old \in Seq(Command) /\ c \in Command /\ Len(old) \in Nat
  BY HarmlessOps DEF CommandsOK
<1>2. m_commandBuffer' = Append(old, c)
  OBVIOUS
<1>3. ASSUME NEW i \in DOMAIN m_commandBuffer',
             m_commandBuffer'[i].op \in SetOps
      PROVE  i + 0 \in DOMAIN old /\ m_commandBuffer'[i] = old[i + 0]
  <2>1. i \in 1 .. Len(old) + 1
    BY <1>1, <1>2, <1>3
  <2>2. i # Len(old) + 1
    <3>1. Append(old, c)[Len(old) + 1] = c
      BY <1>1
    <3> QED  BY <1>2, <1>3, <3>1, HarmlessOps
  <2>3. i \in 1 .. Len(old)
    BY <1>1, <2>1, <2>2
  <2> QED  BY <1>1, <1>2, <2>3
<1>4. CommandsOK'
  BY <1>1, <1>2 DEF CommandsOK
<1> QED  BY <1>3, <1>4 DEF Keeps

LEMMA SameKeeps ==
  ASSUME UNCHANGED m_commandBuffer, CommandsOK
  PROVE  CommandsOK' /\ Keeps(0)
<1>1. \A i \in DOMAIN m_commandBuffer : i + 0 = i
  BY DEF CommandsOK
<1> QED  BY <1>1 DEF CommandsOK, Keeps

-----------------------------------------------------------------------------
(* Type correctness.                                                       *)

Values == [Slots -> Nat \cup {Nothing}]

(* Of what is held, some is sent and some discarded: on a live link all of *)
(* it, on a dead one nothing is sent; what one message reports has one     *)
(* fate.                                                                   *)
SentOrGone(kept, sending, sent, gone) ==
  /\ told' = [x \in Slots |-> IF x \in sent THEN kept[x] ELSE told[x]]
  /\ stored' = [x \in Slots |-> IF x \in sent \cup gone THEN Nothing ELSE kept[x]]
  /\ discarded' = (discarded \cup gone) \ sent
  /\ sent \cap gone = {}
  /\ sent \cup gone \subseteq {x \in sending : kept[x] # Nothing}
  /\ linkUp => sent \cup gone = {x \in sending : kept[x] # Nothing}
  /\ \A x, y \in {z \in sending : kept[z] # Nothing} :
       Entry(x) = Entry(y) => (x \in sent <=> y \in sent) /\ (x \in gone <=> y \in gone)

LEMMA SendFacts ==
  ASSUME NEW kept, NEW sending, Send(kept, sending)
  PROVE  \E sent \in SUBSET sending, gone \in SUBSET sending :
           SentOrGone(kept, sending, sent, gone)
<1> DEFINE held == {x \in sending : kept[x] # Nothing}
           Gone(bad) == {x \in held : Entry(x) \in bad}
           Sent(bad) == IF linkUp THEN held \ Gone(bad) ELSE {}
<1>1. PICK bad : /\ told' = [x \in Slots |-> IF x \in Sent(bad) THEN kept[x] ELSE told[x]]
                 /\ stored' = [x \in Slots |-> IF x \in Sent(bad) \cup Gone(bad) THEN Nothing
                                               ELSE kept[x]]
                 /\ discarded' = (discarded \cup Gone(bad)) \ Sent(bad)
  BY DEF Send
<1>2. PICK sent, gone : sent = Sent(bad) /\ gone = Gone(bad)
  OBVIOUS
<1>3. /\ sent \cap gone = {} /\ sent \cup gone \subseteq held
      /\ linkUp => sent \cup gone = held
      /\ \A x, y \in held :
           Entry(x) = Entry(y) => (x \in sent <=> y \in sent) /\ (x \in gone <=> y \in gone)
  BY <1>2
<1>4. held \subseteq sending
  OBVIOUS
<1>5. SentOrGone(kept, sending, sent, gone)
  BY <1>1, <1>2, <1>3 DEF SentOrGone
<1> QED  BY <1>3, <1>4, <1>5

LEMMA SendTyped ==
  ASSUME ReportsOK, PlatformOK, NEW kept \in Values, NEW sending \in SUBSET Slots,
         Send(kept, sending)
  PROVE  stored' \in Values /\ told' \in Values /\ discarded' \subseteq Slots
<1>1. PICK sent \in SUBSET sending, gone \in SUBSET sending :
        SentOrGone(kept, sending, sent, gone)
  BY SendFacts
<1> QED  BY <1>1 DEF SentOrGone, ReportsOK, PlatformOK, Values, Nothing

LEMMA PutTyped ==
  ASSUME ReportsOK, NEW values \in Values, NEW slots
  PROVE  Put(values, slots) \in Values
  BY DEF ReportsOK, Values, Put

LEMMA ReportTyped ==
  ASSUME ReportsOK, PlatformOK, NEW s \in [Slots -> Nat], NEW slots \in SUBSET Slots,
         NEW sending \in SUBSET Slots, Report(s, slots, sending)
  PROVE  /\ stored' \in Values /\ told' \in Values /\ discarded' \subseteq Slots
         /\ unread' \subseteq Slots /\ unsent' \subseteq Slots
<1>1. Put(s, slots) \in Values
  BY PutTyped DEF Values
<1>2. Send(Put(s, slots), sending)
  BY DEF Report
<1>3. stored' \in Values /\ told' \in Values /\ discarded' \subseteq Slots
  BY <1>1, <1>2, SendTyped
<1>4. unread' \subseteq Slots /\ unsent' \subseteq Slots
  BY DEF Report, PlatformOK
<1> QED  BY <1>3, <1>4

LEMMA StatusTyped ==
  ASSUME ReportsOK, NEW d, NEW value \in Nat, PublishStatus(d, value)
  PROVE  told' \in Values
  BY DEF ReportsOK, Values, PublishStatus

LEMMA ReportStatusTyped ==
  ASSUME ReportsOK, PlatformOK, NEW d \in Devices, ReportStatus(d)
  PROVE  /\ stored' \in Values /\ told' \in Values /\ discarded' \subseteq Slots
         /\ unread' \subseteq Slots /\ unsent' \subseteq Slots
<1>1. state[<<d, Status>>] \in Nat
  BY DEF ReportsOK, Slots, References
<1>2. told' \in Values
  BY <1>1, StatusTyped DEF ReportStatus
<1> QED  BY <1>2 DEF ReportStatus, ReportsOK, PlatformOK, Values

LEMMA ObeyTyped ==
  ASSUME ReportsOK, NEW slots, NEW value \in Nat,
         Obey(slots, value) \/ UNCHANGED state
  PROVE  state' \in [Slots -> Nat]
  BY DEF ReportsOK, Obey

LEMMA CommandFields ==
  \A c \in Command :
    /\ c.op \in DeviceOperations => c.device \in Devices
    /\ c.refs \subseteq References
    /\ c.value \in Nat
    /\ c.yes \in BOOLEAN
  BY DEF Command

(* Every step of the worker runs a command that pushes harmless ones.      *)
LEMMA WorkerRuns ==
  ASSUME TypeOK, Worker
  PROVE  \E op \in Operations, pushed \in Seq(Harmless) : Run(op, pushed)
<1> USE DEF Operations, DeviceOperations
<1>1. m_devices \subseteq Devices
  BY DEF TypeOK, PlatformOK
<1>2. ASSUME NEW op, m_commandBuffer # <<>>, command.op = op
      PROVE  command \in Command
  BY <1>2 DEF TypeOK, CommandsOK, command
<1>3. CASE HandleActuatorGetCommand
  BY <1>3, EmptyHarmless DEF HandleActuatorGetCommand
<1>4. CASE HandleActuatorSetCommand
  BY <1>4, EmptyHarmless DEF HandleActuatorSetCommand
<1>5. CASE HandleConfigurationGetCommand
  BY <1>5, EmptyHarmless DEF HandleConfigurationGetCommand
<1>6. CASE HandleConfigurationSetCommand
  BY <1>6, EmptyHarmless DEF HandleConfigurationSetCommand
<1>7. CASE HandleDeviceStatusRequest
  <2>1. Plain("deviceStatuses") \in Harmless
    BY PlainTyped
  <2>2. <<Plain("deviceStatuses")>> \in Seq(Harmless)
    BY <2>1
  <2> QED  BY <1>7, <2>2, EmptyHarmless DEF HandleDeviceStatusRequest
<1>8. CASE PublishDeviceStatuses
  BY <1>1, <1>8, EachStatusTyped DEF PublishDeviceStatuses
<1>9. CASE RunDeviceStatus
  BY <1>9, EmptyHarmless DEF RunDeviceStatus
<1>10. CASE HandleRegistrationResponse
  <2>1. command \in Command /\ command.op = "response"
    BY <1>2, <1>10 DEF HandleRegistrationResponse, Run
  <2>2. AssetReports({command.device}) \in Seq(Harmless)
    BY <2>1, CommandFields, AssetReportsTyped
  <2> QED  BY <1>10, <2>2, EmptyHarmless DEF HandleRegistrationResponse
<1>11. CASE ConnectSucceeds
  <2>1. command \in Command
    BY <1>2, <1>11 DEF ConnectSucceeds, Run
  <2>2. Announcements(command.yes) \in Seq(Harmless)
    BY <1>1, <2>1, CommandFields, AnnouncementsTyped
  <2> QED  BY <1>11, <2>2 DEF ConnectSucceeds
<1>12. CASE ConnectFails
  <2>1. command \in Command /\ command.op = "connect"
    BY <1>2, <1>12 DEF ConnectFails, Run
  <2>2. command \in Harmless
    BY <2>1 DEF Harmless, SetOps
  <2>3. <<command>> \in Seq(Harmless)
    BY <2>2
  <2> QED  BY <1>12, <2>3 DEF ConnectFails
<1>13. CASE Disconnect \/ RegisterDevices \/ RegisterDevice
  BY <1>13, EmptyHarmless DEF Disconnect, RegisterDevices, RegisterDevice
<1>14. CASE AddDevice
  <2>1. command \in Command /\ command.op = "addDevice"
    BY <1>2, <1>14 DEF AddDevice, Run
  <2>2. For("registerDevice", command.device, {}) \in Harmless
    BY <2>1, CommandFields, ForTyped DEF SetOps
  <2>3. <<For("registerDevice", command.device, {})>> \in Seq(Harmless)
    BY <2>2
  <2> QED  BY <1>14, <2>3, EmptyHarmless DEF AddDevice
<1>15. CASE RemoveDevice \/ PublishAll
  BY <1>15, EmptyHarmless DEF RemoveDevice, PublishAll
<1>16. CASE DirectActuatorStatus \/ DirectConfiguration
  BY <1>16, EmptyHarmless DEF DirectActuatorStatus, DirectConfiguration
<1>17. CASE AddDeviceStatus \/ PublishDeviceStatus
  BY <1>17, EmptyHarmless DEF AddDeviceStatus, PublishDeviceStatus
<1> QED
  BY <1>3, <1>4, <1>5, <1>6, <1>7, <1>8, <1>9, <1>10, <1>11, <1>12, <1>13, <1>14,
     <1>15, <1>16, <1>17 DEF Worker

(* ... so what it leaves of the set commands is all but the first.         *)
LEMMA WorkerKeeps ==
  ASSUME TypeOK, Worker
  PROVE  /\ CommandsOK' /\ Keeps(1)
         /\ 1 \in DOMAIN m_commandBuffer
         /\ command = m_commandBuffer[1] /\ command \in Command
         /\ UNCHANGED <<inbound, statusBuffer, heard, log, calls, inputs, losses>>
<1>1. PICK op \in Operations, pushed \in Seq(Harmless) : Run(op, pushed)
  BY WorkerRuns
<1> QED  BY <1>1, RunKeeps DEF Run, TypeOK

(* The rest of the type, after a step of the worker.                       *)
RestOK == ReportsOK /\ PlatformOK

LEMMA RestTyped ==
  ASSUME PlatformOK, UNCHANGED <<log, calls, inputs, losses>>,
         state' \in [Slots -> Nat], stored' \in Values, told' \in Values,
         unread' \subseteq Slots, unsent' \subseteq Slots, discarded' \subseteq Slots,
         owed' \in [Devices -> Nat], direct' \subseteq Slots,
         m_devices' \subseteq Devices, accepted' \subseteq m_devices',
         m_connected' \in BOOLEAN, linkUp' \in BOOLEAN
  PROVE  RestOK'
  BY DEF RestOK, ReportsOK, PlatformOK, Values

LEMMA ReadingsTyped ==
  ASSUME TypeOK, command \in Command, UNCHANGED <<log, calls, inputs, losses>>,
         \/ HandleActuatorGetCommand \/ HandleActuatorSetCommand
         \/ HandleConfigurationGetCommand \/ HandleConfigurationSetCommand
         \/ PublishAll
  PROVE  RestOK'
<1> USE DEF TypeOK, Slots, References, ActuatorSlots, ConfigurationSlots
<1>1. command.refs \subseteq References /\ command.value \in Nat
  BY CommandFields
<1>2. state' \in [Slots -> Nat]
  BY <1>1, ObeyTyped DEF ReportsOK, HandleActuatorGetCommand, HandleActuatorSetCommand,
     HandleConfigurationGetCommand, HandleConfigurationSetCommand, PublishAll
<1>3. \/ UNCHANGED reports
      \/ \E slots \in SUBSET Slots, sending \in SUBSET Slots :
           Report(state', slots, sending)
  <2>1. CASE HandleActuatorGetCommand
    <3>1. UNCHANGED state
      BY <2>1 DEF HandleActuatorGetCommand
    <3> QED  BY <2>1, <3>1 DEF PlatformOK, HandleActuatorGetCommand
  <2>2. CASE HandleActuatorSetCommand
    BY <2>2 DEF PlatformOK, HandleActuatorSetCommand
  <2>3. CASE HandleConfigurationGetCommand
    <3>1. UNCHANGED state
      BY <2>3 DEF HandleConfigurationGetCommand
    <3> QED  BY <2>3, <3>1 DEF PlatformOK, HandleConfigurationGetCommand
  <2>4. CASE HandleConfigurationSetCommand
    BY <2>4 DEF PlatformOK, HandleConfigurationSetCommand
  <2>5. CASE PublishAll
    <3>1. UNCHANGED state /\ {} \in SUBSET Slots
      BY <2>5 DEF PublishAll
    <3> QED  BY <2>5, <3>1 DEF PublishAll
  <2> QED  BY <2>1, <2>2, <2>3, <2>4, <2>5
<1>4. /\ stored' \in Values /\ told' \in Values /\ discarded' \subseteq Slots
      /\ unread' \subseteq Slots /\ unsent' \subseteq Slots
  <2>1. CASE UNCHANGED reports
    BY <2>1 DEF ReportsOK, PlatformOK, Values
  <2>2. ASSUME NEW slots \in SUBSET Slots, NEW sending \in SUBSET Slots,
               Report(state', slots, sending)
        PROVE  /\ stored' \in Values /\ told' \in Values /\ discarded' \subseteq Slots
               /\ unread' \subseteq Slots /\ unsent' \subseteq Slots
    <3> PICK s \in [Slots -> Nat] : s = state'
      BY <1>2
    <3>1. Report(s, slots, sending)
      BY <2>2
    <3> QED  BY <3>1, ReportTyped
  <2> QED  BY <1>3, <2>1, <2>2
<1>5. UNCHANGED <<m_devices, m_connected, linkUp, owed, accepted, direct>>
  BY DEF HandleActuatorGetCommand, HandleActuatorSetCommand,
     HandleConfigurationGetCommand, HandleConfigurationSetCommand, PublishAll
<1> QED  BY <1>2, <1>4, <1>5, RestTyped DEF PlatformOK

LEMMA StatusesTyped ==
  ASSUME TypeOK, command \in Command, UNCHANGED <<log, calls, inputs, losses>>,
         \/ HandleDeviceStatusRequest \/ PublishDeviceStatuses \/ RunDeviceStatus
         \/ HandleRegistrationResponse
  PROVE  RestOK'
<1> USE DEF TypeOK
<1>1. UNCHANGED reports \/ \E d \in Devices : ReportStatus(d)
  <2>1. CASE HandleDeviceStatusRequest
    BY <2>1 DEF HandleDeviceStatusRequest, PlatformOK
  <2>2. CASE RunDeviceStatus
    <3>1. command.device \in Devices
      BY <2>2, CommandFields DEF RunDeviceStatus, Run, DeviceOperations
    <3> QED  BY <2>2, <3>1 DEF RunDeviceStatus
  <2> QED  BY <2>1, <2>2 DEF PublishDeviceStatuses, HandleRegistrationResponse
<1>2. /\ stored' \in Values /\ told' \in Values /\ discarded' \subseteq Slots
      /\ unread' \subseteq Slots /\ unsent' \subseteq Slots
  <2>1. CASE UNCHANGED reports
    BY <2>1 DEF ReportsOK, PlatformOK, Values
  <2> QED  BY <1>1, <2>1, ReportStatusTyped
<1>3. UNCHANGED <<m_devices, m_connected, linkUp, state, owed, accepted, direct>>
  BY DEF HandleDeviceStatusRequest, PublishDeviceStatuses, RunDeviceStatus,
     HandleRegistrationResponse
<1> QED  BY <1>2, <1>3, RestTyped DEF ReportsOK, PlatformOK

(* What an addDevice makes of the session and of what it owes.             *)
LEMMA AddedOwes ==
  ASSUME TypeOK, AddDevice
  PROVE  /\ owed' \in [Devices -> Nat] /\ linkUp' \in BOOLEAN
         /\ unread' \subseteq unread /\ unsent' \subseteq unsent /\ accepted' \subseteq accepted
         /\ m_devices' = m_devices \cup {command.device}
         /\ linkUp' /\ ~linkUp => NothingAnnounced
<1>1. CASE Reconnect
  BY <1>1 DEF AddDevice, Reconnect, NothingAnnounced, NothingOwed, TypeOK, PlatformOK
<1>2. CASE UNCHANGED <<linkUp, owed, accepted, unread, unsent>>
  BY <1>2 DEF AddDevice, TypeOK, PlatformOK
<1> QED  BY <1>1, <1>2 DEF AddDevice

LEMMA DevicesTyped ==
  ASSUME TypeOK, command \in Command, UNCHANGED <<log, calls, inputs, losses>>,
         \/ ConnectSucceeds \/ ConnectFails \/ Disconnect
         \/ RegisterDevices \/ RegisterDevice \/ AddDevice \/ RemoveDevice
  PROVE  RestOK'
<1> USE DEF TypeOK, ReportsOK, PlatformOK, Values, NothingOwed
<1>1. CASE ConnectSucceeds
  <2>1. /\ unread' \subseteq Slots /\ unsent' \subseteq Slots
        /\ accepted' \subseteq m_devices'
    BY <1>1 DEF ConnectSucceeds, NothingAnnounced
  <2> QED  BY <1>1, <2>1, RestTyped DEF ConnectSucceeds
<1>2. CASE ConnectFails
  BY <1>2, RestTyped DEF ConnectFails
<1>6. CASE Disconnect
  BY <1>6, RestTyped DEF Disconnect
<1>3. CASE RegisterDevices \/ RegisterDevice
  <2>1. PICK ds : PublishRegistrationRequests(ds)
    BY <1>3 DEF RegisterDevices, RegisterDevice
  <2>2. owed' \in [Devices -> Nat]
    BY <2>1 DEF PublishRegistrationRequests
  <2> QED  BY <1>3, <2>2, RestTyped DEF RegisterDevices, RegisterDevice
<1>4. CASE AddDevice
  <2>1. command.device \in Devices
    BY <1>4, CommandFields DEF AddDevice, Run, DeviceOperations
  <2>2. /\ owed' \in [Devices -> Nat] /\ linkUp' \in BOOLEAN
        /\ unread' \subseteq unread /\ unsent' \subseteq unsent /\ accepted' \subseteq accepted
        /\ m_devices' = m_devices \cup {command.device}
    BY <1>4, AddedOwes
  <2> QED  BY <1>4, <2>1, <2>2, RestTyped DEF AddDevice
<1>5. CASE RemoveDevice
  <2>1. m_devices' \subseteq Devices /\ accepted' \subseteq m_devices'
    BY <1>5 DEF RemoveDevice
  <2> QED  BY <1>5, <2>1, RestTyped DEF RemoveDevice
<1> QED  BY <1>1, <1>2, <1>3, <1>4, <1>5, <1>6

LEMMA DirectTyped ==
  ASSUME TypeOK, command \in Command, UNCHANGED <<log, calls, inputs, losses>>,
         \/ DirectActuatorStatus \/ DirectConfiguration
         \/ AddDeviceStatus \/ PublishDeviceStatus
  PROVE  RestOK'
<1> USE DEF TypeOK
<1>1. command.device \in Devices /\ command.refs \subseteq References
      /\ command.value \in Nat
  BY CommandFields DEF DirectActuatorStatus, DirectConfiguration, AddDeviceStatus,
     PublishDeviceStatus, Run, DeviceOperations
<1>2. CASE DirectActuatorStatus
  <2>1. Passed(command.value) \in Values
    BY <1>1 DEF Passed, Values
  <2>2. Put(Passed(command.value), {command.device} \X command.refs) \in Values
    BY <2>1, PutTyped
  <2>3. stored' \in Values /\ told' \in Values /\ discarded' \subseteq Slots
    <3>1. {command.device} \X Actuators \in SUBSET Slots
      BY <1>1 DEF Slots, References
    <3> QED  BY <1>2, <2>2, <3>1, SendTyped DEF DirectActuatorStatus
  <2>4. direct' \subseteq Slots
    BY <1>1, <1>2 DEF DirectActuatorStatus, PlatformOK, Slots
  <2> QED  BY <1>2, <2>3, <2>4, RestTyped DEF DirectActuatorStatus, ReportsOK, PlatformOK
<1>3. CASE DirectConfiguration
  <2> DEFINE passed ==
        [x \in Slots |-> IF x[2] \in command.refs THEN command.value ELSE Nothing]
  <2>1. passed \in Values
    BY <1>1 DEF Values
  <2>2. Put(passed, {command.device} \X ConfigurationItems) \in Values
    BY <2>1, PutTyped
  <2>3. stored' \in Values /\ told' \in Values /\ discarded' \subseteq Slots
    <3>1. ConfigurationSlots \in SUBSET Slots
      BY DEF ConfigurationSlots, Slots, References
    <3> QED  BY <1>3, <2>2, <3>1, SendTyped DEF DirectConfiguration
  <2>4. direct' \subseteq Slots
    BY <1>1, <1>3 DEF DirectConfiguration, PlatformOK, Slots, References
  <2> QED  BY <1>3, <2>3, <2>4, RestTyped DEF DirectConfiguration, ReportsOK, PlatformOK
<1>4. CASE AddDeviceStatus \/ PublishDeviceStatus
  <2>1. DirectStatus(command.device \in m_devices) \/ DirectStatus(TRUE)
    BY <1>4, Zenon DEF AddDeviceStatus, PublishDeviceStatus
  <2>2. <<command.device, Status>> \in Slots
    BY <1>1 DEF Slots, References
  <2>3. told' \in Values
    BY <1>1, <2>1, StatusTyped DEF DirectStatus, ReportsOK, Values
  <2>4. direct' \subseteq Slots
    BY <2>1, <2>2 DEF DirectStatus, PlatformOK
  <2> QED
    BY <2>1, <2>3, <2>4, RestTyped DEF DirectStatus, ReportsOK, PlatformOK, Values
<1> QED  BY <1>2, <1>3, <1>4

LEMMA NumbersKept ==
  ASSUME NumbersOK, UNCHANGED <<inbound, statusBuffer, heard, log>>
  PROVE  NumbersOK'
  BY DEF NumbersOK

LEMMA WorkerTyped ==
  ASSUME TypeOK, Worker
  PROVE  TypeOK'
<1>1. CommandsOK' /\ command \in Command
  BY WorkerKeeps
<1>2. UNCHANGED <<inbound, statusBuffer, heard, log, calls, inputs, losses>>
  BY WorkerKeeps
<1>3. RestOK'
  BY <1>1, <1>2, ReadingsTyped, StatusesTyped, DevicesTyped, DirectTyped DEF Worker
<1>4. NumbersOK'
  BY <1>2, NumbersKept DEF TypeOK
<1> QED  BY <1>1, <1>3, <1>4 DEF TypeOK, RestOK

LEMMA TailFacts ==
  ASSUME NEW S, NEW s \in Seq(S), s # <<>>
  PROVE  /\ 1 \in DOMAIN s /\ Head(s) = s[1] /\ Tail(s) \in Seq(S)
         /\ \A i \in DOMAIN Tail(s) : /\ i \in Nat /\ i + 1 \in DOMAIN s
                                      /\ Tail(s)[i] = s[i + 1]
  OBVIOUS

LEMMA AppendFacts ==
  ASSUME NEW S, NEW s \in Seq(S), NEW e \in S
  PROVE  /\ Append(s, e) \in Seq(S)
         /\ \A i \in DOMAIN Append(s, e) :
              \/ i \in DOMAIN s /\ Append(s, e)[i] = s[i]
              \/ i = Len(s) + 1 /\ Append(s, e)[i] = e
  OBVIOUS

LEMMA SequencesGrow ==
  ASSUME NEW S, NEW T, S \subseteq T
  PROVE  Seq(S) \subseteq Seq(T)
  OBVIOUS

(* What receiving a message leaves as it was, and what it adds.            *)
LEMMA ReceptionTyped ==
  ASSUME TypeOK, NEW m \in Message, InboundMessageReceived(m),
         UNCHANGED <<link, calls, inputs, losses>> \/ UNCHANGED <<link, owed, calls, losses>>,
         owed' \in [Devices -> Nat], accepted' \subseteq m_devices, inputs' \in Nat
  PROVE  TypeOK'
<1> USE DEF TypeOK
<1>1. log' \in Seq(Message) /\ Len(log') = Len(log) + 1 /\ Len(log) \in Nat
  BY DEF InboundMessageReceived, PlatformOK
<1>2. 1 .. Len(log) \subseteq 1 .. Len(log') /\ Len(log') \in 1 .. Len(log')
  BY <1>1
<1>3. inbound \in Seq(1 .. Len(log')) /\ statusBuffer \in Seq(1 .. Len(log'))
  <2> PICK S, T : S = 1 .. Len(log) /\ T = 1 .. Len(log')
    OBVIOUS
  <2>1. S \subseteq T /\ inbound \in Seq(S) /\ statusBuffer \in Seq(S)
    BY <1>2 DEF NumbersOK
  <2>2. inbound \in Seq(T) /\ statusBuffer \in Seq(T)
    BY <2>1, SequencesGrow
  <2> QED  BY <2>2
<1>4. inbound' \in Seq(1 .. Len(log'))
  <2> PICK n : n = Len(log')
    OBVIOUS
  <2>1. Append(inbound, n) \in Seq(1 .. n)
    BY <1>2, <1>3
  <2> QED  BY <1>3, <2>1 DEF InboundMessageReceived
<1>5. NumbersOK'
  BY <1>1, <1>3, <1>4 DEF NumbersOK, InboundMessageReceived
<1>6. Wanted(m) \subseteq Slots
  <2>1. m_devices \subseteq Devices
    BY DEF PlatformOK
  <2> QED  BY <2>1 DEF Wanted, Slots, References
<1>7. unread' \subseteq Slots /\ unsent' \subseteq Slots
  BY <1>6 DEF InboundMessageReceived, PlatformOK
<1>8. CommandsOK' /\ ReportsOK'
  BY DEF InboundMessageReceived, CommandsOK, ReportsOK
<1>9. PlatformOK'
  BY <1>1, <1>7 DEF InboundMessageReceived, PlatformOK
<1> QED  BY <1>5, <1>8, <1>9

LEMMA AsksTyped ==
  ASSUME TypeOK, PlatformAsks
  PROVE  TypeOK'
<1>1. PICK m \in PlatformMessages : InboundMessageReceived(m)
  BY DEF PlatformAsks
<1>2. m \in Message
  BY PlatformAssumption
<1>3. inputs' \in Nat
  BY DEF PlatformAsks, TypeOK, PlatformOK
<1> QED  BY <1>1, <1>2, <1>3, ReceptionTyped DEF PlatformAsks, TypeOK, PlatformOK

LEMMA AnswersTyped ==
  ASSUME TypeOK, PlatformAnswers
  PROVE  TypeOK' /\ \E m \in Message : InboundMessageReceived(m)
<1>1. PICK d \in Devices, answer \in Answers :
        /\ owed[d] > 0
        /\ owed' = [owed EXCEPT ![d] = @ - 1]
        /\ accepted' = IF answer = <<"registered", TRUE>>
                       THEN accepted \cup ({d} \cap m_devices) ELSE accepted
        /\ InboundMessageReceived([kind |-> answer[1], device |-> d, refs |-> {},
                                   readable |-> answer[2]])
        /\ UNCHANGED <<link, calls, inputs, losses>>
  BY DEF PlatformAnswers
<1> DEFINE m == [kind |-> answer[1], device |-> d, refs |-> {}, readable |-> answer[2]]
<1>2. answer[1] \in Responses /\ answer[2] \in BOOLEAN
  BY PlatformAssumption
<1>3. m \in Message
  BY <1>2 DEF Message
<1>4. owed' \in [Devices -> Nat]
  BY <1>1 DEF TypeOK, PlatformOK
<1>5. accepted' \subseteq m_devices /\ inputs' \in Nat
  BY <1>1 DEF TypeOK, PlatformOK
<1> HIDE DEF m
<1>6. InboundMessageReceived(m) /\ UNCHANGED <<link, calls, inputs, losses>>
  BY <1>1 DEF m
<1> QED  BY <1>3, <1>4, <1>5, <1>6, ReceptionTyped

(* A service pushes nothing, a command that sets nothing, or the set       *)
(* command the message holds.                                              *)
LEMMA DispatchPushes ==
  ASSUME TypeOK, Dispatch
  PROVE  /\ inbound # <<>>
         /\ \/ UNCHANGED m_commandBuffer
            \/ \E c \in Command :
                 /\ m_commandBuffer' = Append(m_commandBuffer, c)
                 /\ c.op \in SetOps =>
                      /\ c.value = Head(inbound)
                      /\ c.op = log[Head(inbound)].kind
                      /\ c.refs = log[Head(inbound)].refs
<1> DEFINE n == Head(inbound)
           m == log[n]
<1> USE DEF Operations, DeviceOperations, SetOps
<1>1. inbound # <<>>
  BY DEF Dispatch, TakeMessage, DataServiceReceives, DeviceStatusServiceReceives,
     DeviceRegistrationServiceReceives, PlatformStatusServiceReceives
<1>2. n \in Nat /\ m \in Message
  BY <1>1 DEF TypeOK, NumbersOK, PlatformOK
<1>3. m.device \in Devices \cup {NoDevice} /\ m.refs \in SUBSET References
  BY <1>2 DEF Message
<1>4. m_commandBuffer \in Seq(Command)
  BY DEF TypeOK, CommandsOK
<1>5. CASE DataServiceReceives
  <2>1. m.kind \in DataRequests /\ m_commandBuffer' = m_commandBuffer \o DataCommand(m, n)
    BY <1>5 DEF DataServiceReceives, TakeMessage
  <2>2. CASE DataCommand(m, n) = <<>>
    BY <1>4, <1>1, <2>1, <2>2
  <2>3. CASE DataCommand(m, n) # <<>>
    <3> DEFINE c == [For(m.kind, m.device, m.refs) EXCEPT !.value = n]
    <3>1. DataCommand(m, n) = <<c>> /\ (m.device \in Devices \/ m.kind = "actuatorGet")
      BY <2>3 DEF DataCommand
    <3>2. c \in Command
      BY <1>2, <1>3, <2>1, <3>1 DEF For, Plain, Command, DataRequests
    <3>3. c.value = n /\ c.op = m.kind /\ c.refs = m.refs
      BY DEF For, Plain
    <3> HIDE DEF c, n, m
    <3>4. m_commandBuffer' = Append(m_commandBuffer, c)
      BY <1>4, <2>1, <3>1, <3>2
    <3> QED  BY <1>1, <3>2, <3>3, <3>4 DEF n, m
  <2> QED  BY <2>2, <2>3
<1>6. CASE DeviceStatusServiceReceives
  <2> DEFINE c == For("statusRequest", m.device, {})
  <2>1. c \in Harmless
    BY <1>3, ForTyped
  <2> QED  BY <1>1, <1>6, <2>1, HarmlessOps DEF DeviceStatusServiceReceives
<1>7. CASE DeviceRegistrationServiceReceives
  <2> DEFINE c == [For("response", m.device, {}) EXCEPT !.yes = (m.kind = "registered")]
  <2>1. CASE m.device \in Devices /\ m.kind \in Responses /\ m.readable
    <3>1. \A yes \in BOOLEAN : [For("response", m.device, {}) EXCEPT !.yes = yes] \in Harmless
      BY <2>1, ForTyped
    <3>2. (m.kind = "registered") \in BOOLEAN
      OBVIOUS
    <3>3. c \in Harmless
      BY <3>1, <3>2
    <3>4. m_commandBuffer' = Append(m_commandBuffer, c)
      BY <1>7, <2>1 DEF DeviceRegistrationServiceReceives
    <3> HIDE DEF c, n, m
    <3> QED  BY <1>1, <3>3, <3>4, HarmlessOps
  <2>2. CASE ~(m.device \in Devices /\ m.kind \in Responses /\ m.readable)
    BY <1>1, <1>7, <2>2 DEF DeviceRegistrationServiceReceives
  <2> QED  BY <2>1, <2>2
<1>8. CASE PlatformStatusServiceReceives
  BY <1>1, <1>8 DEF PlatformStatusServiceReceives
<1> QED  BY <1>5, <1>6, <1>7, <1>8 DEF Dispatch

(* ... and takes the first message, a platform status to the other buffer. *)
LEMMA DispatchTakes ==
  ASSUME Dispatch
  PROVE  /\ inbound' = Tail(inbound)
         /\ \/ UNCHANGED statusBuffer
            \/ statusBuffer' = Append(statusBuffer, Head(inbound))
         /\ UNCHANGED <<m_devices, m_connected, linkUp, state, heard, stored, told, unread,
                        unsent, discarded, log, owed, accepted, direct, calls, inputs, losses>>
  BY DEF Dispatch, TakeMessage, DataServiceReceives, DeviceStatusServiceReceives,
     DeviceRegistrationServiceReceives, PlatformStatusServiceReceives

LEMMA DispatchTyped ==
  ASSUME TypeOK, Dispatch
  PROVE  TypeOK'
<1>1. CommandsOK'
  <2>1. CASE UNCHANGED m_commandBuffer
    BY <2>1 DEF TypeOK, CommandsOK
  <2>2. ASSUME NEW c \in Command, m_commandBuffer' = Append(m_commandBuffer, c)
        PROVE  CommandsOK'
    BY <2>2 DEF TypeOK, CommandsOK
  <2> QED  BY <2>1, <2>2, DispatchPushes
<1>2. NumbersOK'
  <2> DEFINE S == 1 .. Len(log)
  <2>1. inbound \in Seq(S) /\ statusBuffer \in Seq(S) /\ inbound # <<>> /\ heard \in 0 .. Len(log)
    BY DispatchPushes DEF TypeOK, NumbersOK
  <2>2. UNCHANGED <<log, heard>>
    BY DispatchTakes
  <2> HIDE DEF S
  <2>3. Tail(inbound) \in Seq(S) /\ Append(statusBuffer, Head(inbound)) \in Seq(S)
    BY <2>1
  <2>4. inbound' \in Seq(S) /\ statusBuffer' \in Seq(S)
    BY <2>1, <2>3, DispatchTakes
  <2> QED  BY <2>1, <2>2, <2>4 DEF NumbersOK, S
<1>3. ReportsOK' /\ PlatformOK'
  BY DispatchTakes DEF TypeOK, ReportsOK, PlatformOK
<1> QED  BY <1>1, <1>2, <1>3 DEF TypeOK

LEMMA LostKeeps ==
  ASSUME TypeOK, ConnectionLost
  PROVE  TypeOK' /\ Keeps(0)
<1>1. [Plain("connect") EXCEPT !.yes = TRUE] \in Harmless
  BY PlainTyped DEF Operations, DeviceOperations
<1>2. CommandsOK' /\ Keeps(0)
  BY <1>1, PushKeeps DEF ConnectionLost, TypeOK
<1>3. ReportsOK' /\ NumbersOK'
  BY DEF ConnectionLost, TypeOK, ReportsOK, NumbersOK
<1>4. PlatformOK'
  <2>1. owed' \in [Devices -> Nat]
    BY DEF ConnectionLost, NothingOwed
  <2>2. m_connected' \in BOOLEAN /\ linkUp' \in BOOLEAN /\ log' \in Seq(Message)
    BY Zenon DEF ConnectionLost, TypeOK, PlatformOK
  <2>3. inputs' \in Nat /\ losses' \in Nat
    BY DEF ConnectionLost, TypeOK, PlatformOK
  <2> QED  BY <2>1, <2>2, <2>3 DEF ConnectionLost, TypeOK, PlatformOK
<1> QED  BY <1>2, <1>3, <1>4 DEF TypeOK

LEMMA TellKeeps ==
  ASSUME TypeOK, TellListener
  PROVE  TypeOK' /\ Keeps(0)
<1>1. CommandsOK' /\ Keeps(0)
  BY SameKeeps DEF TellListener, TypeOK
<1>2. NumbersOK'
  <2> DEFINE S == 1 .. Len(log)
  <2>1. statusBuffer \in Seq(S) /\ statusBuffer # <<>> /\ UNCHANGED <<log, inbound>>
    BY DEF TellListener, TypeOK, NumbersOK
  <2> HIDE DEF S
  <2>2. statusBuffer' \in Seq(S) /\ heard' \in S
    BY <2>1 DEF TellListener
  <2> QED  BY <2>1, <2>2 DEF S, TypeOK, NumbersOK, PlatformOK
<1>3. ReportsOK' /\ PlatformOK'
  BY DEF TellListener, TypeOK, ReportsOK, PlatformOK
<1> QED  BY <1>1, <1>2, <1>3 DEF TypeOK

LEMMA CallKeeps ==
  ASSUME TypeOK, ApiCall
  PROVE  TypeOK' /\ Keeps(0)
<1>0. PICK c \in calls : \E value \in PassedValues(c) :
        m_commandBuffer' = Append(m_commandBuffer, [c EXCEPT !.value = value])
  BY DEF ApiCall
<1>1. PICK value \in PassedValues(c) :
        m_commandBuffer' = Append(m_commandBuffer, [c EXCEPT !.value = value])
  BY <1>0
<1>2. c \in ApiCommands
  BY DEF TypeOK, PlatformOK
<1>3. value \in Nat
  <2>1. c \in Command /\ (c.op \in Direct => c.device \in Devices)
    BY <1>2 DEF ApiCommands, Command, Direct, DeviceOperations
  <2> QED
    BY <2>1, CommandFields DEF PassedValues, TypeOK, ReportsOK, Slots
<1>4. CommandsOK' /\ Keeps(0)
  BY <1>1, <1>2, <1>3, ApiCommandsHarmless, PushKeeps DEF TypeOK
<1>5. ReportsOK' /\ PlatformOK' /\ NumbersOK'
  BY DEF ApiCall, TypeOK, ReportsOK, PlatformOK, NumbersOK
<1> QED  BY <1>4, <1>5 DEF TypeOK

LEMMA InitTyped == Init => TypeOK
<1> SUFFICES ASSUME Init PROVE TypeOK
  OBVIOUS
<1>1. ApiCommands \subseteq Command
  BY DEF ApiCommands
<1>2. CommandsOK
  BY <1>1, ScenariosAssumption, SequencesGrow DEF Init, CommandsOK
<1>3. NumbersOK
  <2>1. \A S : <<>> \in Seq(S)
    OBVIOUS
  <2> QED  BY <2>1 DEF Init, NumbersOK
<1>4. ReportsOK
  BY DEF Init, ReportsOK
<1>5. PlatformOK
  <2>1. owed \in [Devices -> Nat] /\ log \in Seq(Message)
    BY DEF Init, NothingOwed
  <2>2. m_connected \in BOOLEAN /\ linkUp \in BOOLEAN
    BY Zenon DEF Init
  <2>3. calls \subseteq ApiCommands /\ inputs \in Nat /\ losses \in Nat
    BY ScenariosAssumption DEF Init
  <2> QED  BY <2>1, <2>2, <2>3 DEF Init, PlatformOK
<1> QED  BY <1>2, <1>3, <1>4, <1>5 DEF TypeOK

LEMMA NextTyped ==
  ASSUME TypeOK, [Next]_vars
  PROVE  TypeOK'
<1>1. CASE UNCHANGED vars
  BY <1>1 DEF vars, TypeOK, CommandsOK, NumbersOK, ReportsOK, PlatformOK
<1> QED
  BY <1>1, AsksTyped, AnswersTyped, LostKeeps, DispatchTyped, TellKeeps, WorkerTyped,
     CallKeeps DEF Next

(* Messages, buffers, slots and devices keep their types.                  *)
THEOREM TypeCorrect == Spec => []TypeOK
  BY InitTyped, NextTyped, PTL DEF Spec

-----------------------------------------------------------------------------
(* Order.  Numbers only fall along the way a set command takes: what the   *)
(* application obeyed, what waits in Wolk's buffer, what waits inbound,    *)
(* what was received.                                                      *)

InboundInOrder ==
  \A i, j \in DOMAIN inbound : i < j => inbound[i] <= inbound[j]

SetsInOrder ==
  \A i \in DOMAIN m_commandBuffer : m_commandBuffer[i].op \in SetOps =>
    /\ m_commandBuffer[i].value <= Len(log)
    /\ \A k \in DOMAIN inbound : m_commandBuffer[i].value <= inbound[k]
    /\ \A j \in DOMAIN m_commandBuffer : m_commandBuffer[j].op \in SetOps /\ i < j =>
         m_commandBuffer[i].value <= m_commandBuffer[j].value

StateFirst ==
  \A x \in Slots :
    /\ state[x] <= Len(log)
    /\ \A k \in DOMAIN inbound : state[x] <= inbound[k]
    /\ \A i \in DOMAIN m_commandBuffer :
         m_commandBuffer[i].op \in SetOps => state[x] <= m_commandBuffer[i].value

OrderInv == InboundInOrder /\ SetsInOrder /\ StateFirst

(* The same on the way of a platform status.                               *)
StatusesInOrder ==
  \A i \in DOMAIN statusBuffer :
    /\ heard <= statusBuffer[i]
    /\ \A k \in DOMAIN inbound : statusBuffer[i] <= inbound[k]
    /\ \A j \in DOMAIN statusBuffer : i < j => statusBuffer[i] <= statusBuffer[j]

HeardInv ==
  StatusesInOrder /\ \A k \in DOMAIN inbound : heard <= inbound[k]

LEMMA Numbers ==
  ASSUME TypeOK
  PROVE  /\ \A k \in DOMAIN inbound : k \in Nat /\ inbound[k] \in 1 .. Len(log)
         /\ \A i \in DOMAIN statusBuffer : i \in Nat /\ statusBuffer[i] \in 1 .. Len(log)
         /\ \A i \in DOMAIN m_commandBuffer :
              i \in Nat /\ m_commandBuffer[i].value \in Nat
         /\ \A x \in Slots : state[x] \in Nat
         /\ Len(log) \in Nat /\ heard \in Nat
<1>1. Len(log) \in Nat
  BY DEF TypeOK, PlatformOK
<1>2. \A i \in DOMAIN m_commandBuffer : i \in Nat /\ m_commandBuffer[i] \in Command
  BY DEF TypeOK, CommandsOK
<1>3. \A k \in DOMAIN inbound : k \in Nat /\ inbound[k] \in 1 .. Len(log)
  <2> PICK S : S = 1 .. Len(log)
    OBVIOUS
  <2>1. inbound \in Seq(S)
    BY DEF TypeOK, NumbersOK
  <2> QED  BY <2>1
<1>4. \A i \in DOMAIN statusBuffer : i \in Nat /\ statusBuffer[i] \in 1 .. Len(log)
  <2> PICK S : S = 1 .. Len(log)
    OBVIOUS
  <2>1. statusBuffer \in Seq(S)
    BY DEF TypeOK, NumbersOK
  <2> QED  BY <2>1
<1>5. heard \in Nat /\ \A x \in Slots : state[x] \in Nat
  BY <1>1 DEF TypeOK, NumbersOK, ReportsOK
<1> QED  BY <1>1, <1>2, <1>3, <1>4, <1>5, CommandFields

(* A slot changes only to what the set command at the head brings.         *)
LEMMA WorkerStates ==
  ASSUME TypeOK, Worker, NEW x \in Slots
  PROVE  \/ state'[x] = state[x]
         \/ command.op \in SetOps /\ state'[x] = command.value
<1>1. CASE HandleActuatorSetCommand
  BY <1>1 DEF HandleActuatorSetCommand, Run, SetOps, Obey
<1>2. CASE HandleConfigurationSetCommand
  BY <1>2 DEF HandleConfigurationSetCommand, Run, SetOps, Obey
<1>3. CASE UNCHANGED state
  BY <1>3
<1> QED
  BY <1>1, <1>2, <1>3
  DEF Worker, HandleActuatorGetCommand, HandleConfigurationGetCommand,
      HandleDeviceStatusRequest, PublishDeviceStatuses, RunDeviceStatus,
      HandleRegistrationResponse, ConnectSucceeds, ConnectFails, Disconnect, RegisterDevices,
      RegisterDevice, AddDevice, RemoveDevice, PublishAll, DirectActuatorStatus,
      DirectConfiguration, AddDeviceStatus, PublishDeviceStatus, DirectStatus

(* Steps that leave the messages alone and the set commands in their order.*)
LEMMA QueueKeepsOrder ==
  ASSUME TypeOK, OrderInv, NEW shift \in {0, 1}, Keeps(shift), TypeOK',
         UNCHANGED <<inbound, log>>,
         \A x \in Slots :
           \/ state'[x] = state[x]
           \/ /\ shift = 1 /\ 1 \in DOMAIN m_commandBuffer
              /\ m_commandBuffer[1].op \in SetOps
              /\ state'[x] = m_commandBuffer[1].value
  PROVE  OrderInv' /\ \A x \in Slots : state'[x] >= state[x]
<1> PICK b, c, s, t : /\ b = m_commandBuffer /\ c = m_commandBuffer'
                      /\ s = state /\ t = state'
  OBVIOUS
<1>1. \A i \in DOMAIN c : c[i].op \in SetOps =>
        i \in Nat /\ i + shift \in DOMAIN b /\ c[i] = b[i + shift]
  <2>1. \A i \in DOMAIN c : i \in Nat
    BY DEF TypeOK, CommandsOK
  <2> QED  BY <2>1 DEF Keeps
<1>2. \A x \in Slots : s[x] <= t[x]
  BY Numbers DEF OrderInv, StateFirst
<1>3. InboundInOrder'
  BY DEF OrderInv, InboundInOrder
<1>4. ASSUME NEW i \in DOMAIN c, c[i].op \in SetOps
      PROVE  /\ c[i].value <= Len(log)
             /\ \A k \in DOMAIN inbound : c[i].value <= inbound[k]
             /\ \A j \in DOMAIN c : c[j].op \in SetOps /\ i < j =>
                  c[i].value <= c[j].value
             /\ \A x \in Slots : t[x] <= c[i].value
  <2>1. i \in Nat /\ i + shift \in DOMAIN b /\ c[i] = b[i + shift]
    BY <1>1, <1>4
  <2>2. /\ c[i].value <= Len(log)
        /\ \A k \in DOMAIN inbound : c[i].value <= inbound[k]
    BY <1>4, <2>1 DEF OrderInv, SetsInOrder
  <2>3. ASSUME NEW j \in DOMAIN c, c[j].op \in SetOps, i < j
        PROVE  c[i].value <= c[j].value
    <3>1. j \in Nat /\ j + shift \in DOMAIN b /\ c[j] = b[j + shift]
      BY <1>1, <2>3
    <3>2. i + shift < j + shift
      BY <2>1, <2>3, <3>1
    <3> QED  BY <1>4, <2>1, <2>3, <3>1, <3>2 DEF OrderInv, SetsInOrder
  <2>4. ASSUME NEW x \in Slots
        PROVE  t[x] <= c[i].value
    <3>1. CASE t[x] = s[x]
      BY <1>4, <2>1, <3>1 DEF OrderInv, StateFirst
    <3>2. CASE shift = 1 /\ 1 \in DOMAIN b /\ b[1].op \in SetOps /\ t[x] = b[1].value
      <4>1. 1 < i + shift
        <5>1. i >= 1
          BY DEF TypeOK, CommandsOK
        <5> QED  BY <2>1, <3>2, <5>1
      <4> QED  BY <1>4, <2>1, <3>2, <4>1 DEF OrderInv, SetsInOrder
    <3> QED  BY <3>1, <3>2
  <2> QED  BY <2>2, <2>3, <2>4
<1>5. \A x \in Slots : t[x] <= Len(log) /\ \A k \in DOMAIN inbound : t[x] <= inbound[k]
  BY DEF OrderInv, SetsInOrder, StateFirst
<1>6. SetsInOrder' /\ StateFirst'
  BY <1>4, <1>5 DEF SetsInOrder, StateFirst
<1> QED  BY <1>2, <1>3, <1>6, Numbers DEF OrderInv

(* A message that comes in is newer than all that is on its way.           *)
LEMMA ReceptionKeepsOrder ==
  ASSUME TypeOK, NEW m, InboundMessageReceived(m)
  PROVE  /\ OrderInv => OrderInv'
         /\ HeardInv => HeardInv'
         /\ UNCHANGED <<state, heard>>
<1> PICK old, new, n : /\ old = inbound /\ new = inbound' /\ n = Len(log')
  OBVIOUS
<1>1. Len(log') = Len(log) + 1 /\ Len(log) \in Nat
  BY DEF InboundMessageReceived, TypeOK, PlatformOK
<1>2. old \in Seq(Nat) /\ n \in Nat
  <2>1. inbound \in Seq(1 .. Len(log)) /\ 1 .. Len(log) \subseteq Nat
    BY <1>1 DEF TypeOK, NumbersOK
  <2> QED  BY <1>1, <2>1, SequencesGrow
<1>3. \A k \in DOMAIN old : old[k] <= n /\ old[k] \in Nat /\ k \in Nat /\ k <= Len(old)
  BY <1>1, <1>2, Numbers
<1>4. new = old \/ new = Append(old, n)
  BY DEF InboundMessageReceived
<1>5. \A k \in DOMAIN new :
        \/ k \in DOMAIN old /\ new[k] = old[k]
        \/ k = Len(old) + 1 /\ new[k] = n
  <2>1. CASE new = old
    BY <2>1
  <2>2. CASE new = Append(old, n)
    BY <1>2, <2>2, AppendFacts
  <2> QED
    BY <1>4, <2>1, <2>2
<1>6. \A i, j \in DOMAIN new :
        InboundInOrder /\ i < j => new[i] <= new[j]
  BY <1>2, <1>3, <1>5 DEF InboundInOrder
<1>7. UNCHANGED <<m_commandBuffer, state, statusBuffer, heard>>
  BY DEF InboundMessageReceived
<1>8. \A v \in Nat : v <= Len(log) /\ (\A k \in DOMAIN old : v <= old[k]) =>
        v <= n /\ \A k \in DOMAIN new : v <= new[k]
  BY <1>1, <1>5
<1>9. OrderInv => OrderInv'
  <2> SUFFICES ASSUME OrderInv PROVE OrderInv'
    OBVIOUS
  <2>1. InboundInOrder'
    BY <1>6 DEF OrderInv, InboundInOrder
  <2>2. SetsInOrder'
    BY <1>7, <1>8, Numbers DEF OrderInv, SetsInOrder
  <2>3. StateFirst'
    BY <1>7, <1>8, Numbers DEF OrderInv, StateFirst
  <2> QED  BY <2>1, <2>2, <2>3 DEF OrderInv
<1>10. HeardInv => HeardInv'
  <2> SUFFICES ASSUME HeardInv PROVE HeardInv'
    OBVIOUS
  <2>1. heard <= Len(log)
    BY <1>1 DEF TypeOK, NumbersOK
  <2>2. StatusesInOrder'
    <3>1. ASSUME NEW i \in DOMAIN statusBuffer
          PROVE  \A k \in DOMAIN new : statusBuffer[i] <= new[k]
      <4>1. statusBuffer[i] \in Nat /\ statusBuffer[i] <= Len(log)
        BY <1>1, Numbers
      <4> QED  BY <1>8, <4>1 DEF HeardInv, StatusesInOrder
    <3> QED  BY <1>7, <3>1 DEF HeardInv, StatusesInOrder
  <2>3. \A k \in DOMAIN new : heard <= new[k]
    BY <1>8, <2>1, Numbers DEF HeardInv
  <2> QED  BY <1>7, <2>2, <2>3 DEF HeardInv
<1> QED  BY <1>7, <1>9, <1>10

(* A message that a service takes is the oldest inbound, and is no older   *)
(* than what it has gone behind.                                           *)
LEMMA DispatchKeepsOrder ==
  ASSUME TypeOK, Dispatch, OrderInv
  PROVE  OrderInv'
<1> PICK old, new, b, c : /\ old = inbound /\ new = inbound'
                          /\ b = m_commandBuffer /\ c = m_commandBuffer'
  OBVIOUS
<1>1. UNCHANGED <<state, log>> /\ new = Tail(old) /\ old # <<>>
  BY DispatchTakes, DispatchPushes
<1>2. old \in Seq(1 .. Len(log)) /\ b \in Seq(Command) /\ Len(log) \in Nat
  BY DEF TypeOK, NumbersOK, CommandsOK, PlatformOK
<1>3. /\ 1 \in DOMAIN old /\ Head(old) = old[1]
      /\ \A k \in DOMAIN new : k \in Nat /\ k + 1 \in DOMAIN old /\ new[k] = old[k + 1]
  <2> PICK S : S = 1 .. Len(log)
    OBVIOUS
  <2>1. old \in Seq(S)
    BY <1>2
  <2> QED  BY <1>1, <2>1, TailFacts
<1>4. \A k \in DOMAIN new : old[1] <= new[k]
  <2>1. ASSUME NEW k \in DOMAIN new
        PROVE  old[1] <= new[k]
    <3>1. k \in Nat /\ k + 1 \in DOMAIN old /\ new[k] = old[k + 1] /\ k >= 1
      <4>1. new \in Seq(1 .. Len(log))
        <5> PICK S : S = 1 .. Len(log)
          OBVIOUS
        <5>1. old \in Seq(S)
          BY <1>2
        <5>2. Tail(old) \in Seq(S)
          BY <1>1, <5>1
        <5> QED  BY <1>1, <5>2
      <4>2. DOMAIN new = 1 .. Len(new) /\ Len(new) \in Nat
        BY <4>1
      <4> QED  BY <1>3, <2>1, <4>2
    <3> QED  BY <1>3, <3>1 DEF OrderInv, InboundInOrder
  <2> QED  BY <2>1
<1>5. InboundInOrder'
  <2>1. \A i, j \in DOMAIN new : i < j => new[i] <= new[j]
    <3>1. ASSUME NEW i \in DOMAIN new, NEW j \in DOMAIN new, i < j
          PROVE  new[i] <= new[j]
      <4>1. i + 1 < j + 1
        BY <1>3, <3>1
      <4> QED  BY <1>3, <4>1 DEF OrderInv, InboundInOrder
    <3> QED  BY <3>1
  <2> QED  BY <2>1 DEF InboundInOrder
<1>6. \A i \in DOMAIN c : c[i].op \in SetOps =>
        \/ i \in DOMAIN b /\ c[i] = b[i]
        \/ /\ i = Len(b) + 1 /\ c[i].value = old[1]
  <2>1. CASE c = b
    BY <2>1
  <2>2. ASSUME NEW e \in Command, c = Append(b, e), e.op \in SetOps => e.value = Head(old)
        PROVE  <1>6
    BY <1>2, <1>3, <2>2, AppendFacts
  <2> QED  BY <2>1, <2>2, DispatchPushes
<1>7. /\ old[1] \in Nat /\ old[1] <= Len(log)
      /\ \A i \in DOMAIN b : i \in Nat /\ i <= Len(b) /\ b[i].value \in Nat
      /\ Len(b) \in Nat
  <2>1. Len(b) \in Nat /\ \A i \in DOMAIN b : i \in Nat /\ i <= Len(b)
    BY <1>2
  <2> QED  BY <1>2, <1>3, <2>1, Numbers
<1>8. ASSUME NEW i \in DOMAIN c, c[i].op \in SetOps
      PROVE  /\ c[i].value <= Len(log)
             /\ \A k \in DOMAIN new : c[i].value <= new[k]
             /\ \A j \in DOMAIN c : c[j].op \in SetOps /\ i < j =>
                  c[i].value <= c[j].value
             /\ \A x \in Slots : state[x] <= c[i].value
  <2>1. CASE i \in DOMAIN b /\ c[i] = b[i]
    <3>1. /\ b[i].value <= Len(log)
          /\ \A k \in DOMAIN old : b[i].value <= old[k]
          /\ \A j \in DOMAIN b : b[j].op \in SetOps /\ i < j => b[i].value <= b[j].value
          /\ \A x \in Slots : state[x] <= b[i].value
      BY <1>8, <2>1 DEF OrderInv, SetsInOrder, StateFirst
    <3>2. \A k \in DOMAIN new : b[i].value <= new[k]
      BY <1>3, <3>1
    <3>3. \A j \in DOMAIN c : c[j].op \in SetOps /\ i < j => c[i].value <= c[j].value
      BY <1>3, <1>6, <2>1, <3>1
    <3> QED  BY <2>1, <3>1, <3>2, <3>3
  <2>2. CASE i = Len(b) + 1 /\ c[i].value = old[1]
    <3>1. \A j \in DOMAIN c : c[j].op \in SetOps /\ i < j => c[i].value <= c[j].value
      BY <1>6, <1>7, <2>2
    <3>2. \A x \in Slots : state[x] <= old[1]
      BY <1>3 DEF OrderInv, StateFirst
    <3> QED  BY <1>4, <1>7, <2>2, <3>1, <3>2
  <2> QED  BY <1>6, <1>8, <2>1, <2>2
<1>9. \A x \in Slots : state[x] <= Len(log) /\ \A k \in DOMAIN new : state[x] <= new[k]
  BY <1>3 DEF OrderInv, StateFirst
<1> QED
  BY <1>1, <1>5, <1>8, <1>9 DEF OrderInv, SetsInOrder, StateFirst

LEMMA DispatchKeepsHeard ==
  ASSUME TypeOK, Dispatch, HeardInv, OrderInv
  PROVE  HeardInv'
<1> PICK old, new, b, c : /\ old = inbound /\ new = inbound'
                          /\ b = statusBuffer /\ c = statusBuffer'
  OBVIOUS
<1>1. /\ UNCHANGED heard /\ new = Tail(old) /\ old # <<>>
      /\ c = b \/ c = Append(b, Head(old))
  BY DispatchTakes, DispatchPushes
<1>2. PICK S : S = 1 .. Len(log) /\ old \in Seq(S) /\ b \in Seq(S)
  BY DEF TypeOK, NumbersOK
<1>3. /\ 1 \in DOMAIN old /\ Head(old) = old[1] /\ Head(old) \in S
      /\ \A k \in DOMAIN new : k \in Nat /\ k + 1 \in DOMAIN old /\ new[k] = old[k + 1]
  BY <1>1, <1>2, TailFacts
<1>4. \A k \in DOMAIN new : k >= 1
  <2>1. Tail(old) \in Seq(S)
    BY <1>1, <1>2
  <2> QED  BY <1>1, <2>1
<1>5. \A k \in DOMAIN new : old[1] <= new[k]
  BY <1>3, <1>4 DEF OrderInv, InboundInOrder
<1>6. \A i \in DOMAIN c : \/ i \in DOMAIN b /\ c[i] = b[i]
                          \/ i = Len(b) + 1 /\ c[i] = old[1]
  <2>1. CASE c = b
    BY <2>1
  <2>2. CASE c = Append(b, Head(old))
    BY <1>2, <1>3, <2>2, AppendFacts
  <2> QED  BY <1>1, <2>1, <2>2
<1>7. Len(b) \in Nat /\ \A i \in DOMAIN b : i \in Nat /\ i <= Len(b)
  BY <1>2
<1>8. ASSUME NEW i \in DOMAIN c
      PROVE  /\ heard <= c[i]
             /\ \A k \in DOMAIN new : c[i] <= new[k]
             /\ \A j \in DOMAIN c : i < j => c[i] <= c[j]
  <2>1. CASE i \in DOMAIN b /\ c[i] = b[i]
    <3>1. \A j \in DOMAIN c : i < j => c[i] <= c[j]
      BY <1>3, <1>6, <2>1 DEF HeardInv, StatusesInOrder
    <3> QED  BY <1>3, <2>1, <3>1 DEF HeardInv, StatusesInOrder
  <2>2. CASE i = Len(b) + 1 /\ c[i] = old[1]
    <3>1. \A j \in DOMAIN c : i < j => c[i] <= c[j]
      BY <1>6, <1>7, <2>2
    <3> QED  BY <1>3, <1>5, <2>2, <3>1 DEF HeardInv
  <2> QED  BY <1>6, <2>1, <2>2
<1>9. \A k \in DOMAIN new : heard <= new[k]
  BY <1>3 DEF HeardInv
<1> QED  BY <1>1, <1>8, <1>9 DEF HeardInv, StatusesInOrder

LEMMA TellKeepsHeard ==
  ASSUME TypeOK, TellListener, HeardInv
  PROVE  HeardInv' /\ heard' >= heard
<1> PICK b, c, h : b = statusBuffer /\ c = statusBuffer' /\ h = heard'
  OBVIOUS
<1>1. /\ h = Head(b) /\ c = Tail(b) /\ b # <<>> /\ UNCHANGED inbound
  BY DEF TellListener
<1>2. PICK S : S = 1 .. Len(log) /\ b \in Seq(S)
  BY DEF TypeOK, NumbersOK
<1>3. /\ 1 \in DOMAIN b /\ Head(b) = b[1]
      /\ \A k \in DOMAIN c : k \in Nat /\ k + 1 \in DOMAIN b /\ c[k] = b[k + 1]
  BY <1>1, <1>2, TailFacts
<1>4. \A k \in DOMAIN c : k >= 1
  <2>1. Tail(b) \in Seq(S)
    BY <1>1, <1>2
  <2> QED  BY <1>1, <2>1
<1>5. ASSUME NEW i \in DOMAIN c
      PROVE  /\ h <= c[i]
             /\ \A k \in DOMAIN inbound : c[i] <= inbound[k]
             /\ \A j \in DOMAIN c : i < j => c[i] <= c[j]
  <2>1. 1 < i + 1
    BY <1>3, <1>4, <1>5
  <2>2. \A j \in DOMAIN c : i < j => i + 1 < j + 1
    BY <1>3, <1>5
  <2> QED  BY <1>1, <1>3, <2>1, <2>2 DEF HeardInv, StatusesInOrder
<1>6. \A k \in DOMAIN inbound : h <= inbound[k]
  BY <1>1, <1>3 DEF HeardInv, StatusesInOrder
<1>7. h >= heard
  BY <1>1, <1>3, Numbers DEF HeardInv, StatusesInOrder
<1> QED  BY <1>1, <1>5, <1>6, <1>7 DEF HeardInv, StatusesInOrder

LEMMA HeardKept ==
  ASSUME HeardInv, UNCHANGED <<inbound, statusBuffer, heard>>
  PROVE  HeardInv'
  BY DEF HeardInv, StatusesInOrder

LEMMA InitInOrder ==
  ASSUME Init
  PROVE  OrderInv /\ HeardInv
<1>1. m_commandBuffer \in Seq(ApiCommands)
  BY ScenariosAssumption DEF Init
<1>2. \A i \in DOMAIN m_commandBuffer : m_commandBuffer[i].op \notin SetOps
  BY <1>1 DEF ApiCommands, Direct, SetOps
<1>3. DOMAIN inbound = {} /\ DOMAIN statusBuffer = {} /\ Len(log) = 0
  BY DEF Init
<1> QED
  BY <1>2, <1>3
  DEF Init, OrderInv, InboundInOrder, SetsInOrder, StateFirst, HeardInv, StatusesInOrder

LEMMA NextInOrder ==
  ASSUME TypeOK, OrderInv, HeardInv, [Next]_vars
  PROVE  /\ OrderInv' /\ HeardInv'
         /\ \A x \in Slots : state'[x] >= state[x]
         /\ heard' >= heard
<1>0. TypeOK'
  BY NextTyped
<1>1. UNCHANGED <<state, heard>> =>
        (\A x \in Slots : state'[x] >= state[x]) /\ heard' >= heard
  BY Numbers
<1>2. CASE UNCHANGED vars
  BY <1>1, <1>2
  DEF vars, OrderInv, InboundInOrder, SetsInOrder, StateFirst, HeardInv, StatusesInOrder
<1>3. CASE \E m : InboundMessageReceived(m)
  BY <1>1, <1>3, ReceptionKeepsOrder
<1>4. CASE Dispatch
  BY <1>1, <1>4, DispatchTakes, DispatchKeepsOrder, DispatchKeepsHeard
<1>5. CASE ConnectionLost \/ ApiCall \/ TellListener
  <2>1. Keeps(0) /\ UNCHANGED <<inbound, log, state>>
    BY <1>5, LostKeeps, CallKeeps, TellKeeps DEF ConnectionLost, ApiCall, TellListener
  <2>2. OrderInv' /\ \A x \in Slots : state'[x] >= state[x]
    BY <1>0, <2>1, QueueKeepsOrder
  <2>3. HeardInv' /\ heard' >= heard
    BY <1>5, Numbers, TellKeepsHeard, HeardKept DEF ConnectionLost, ApiCall
  <2> QED  BY <2>2, <2>3
<1>6. CASE Worker
  <2>1. /\ Keeps(1) /\ UNCHANGED <<inbound, statusBuffer, heard, log>>
        /\ 1 \in DOMAIN m_commandBuffer /\ command = m_commandBuffer[1]
    BY <1>6, WorkerKeeps
  <2>2. \A x \in Slots : \/ state'[x] = state[x]
                         \/ /\ m_commandBuffer[1].op \in SetOps
                            /\ state'[x] = m_commandBuffer[1].value
    BY <1>6, <2>1, WorkerStates
  <2>3. OrderInv' /\ \A x \in Slots : state'[x] >= state[x]
    BY <1>0, <2>1, <2>2, QueueKeepsOrder
  <2> QED  BY <2>1, <2>3, HeardKept, Numbers
<1>7. PlatformAsks \/ PlatformAnswers => \E m : InboundMessageReceived(m)
  BY AnswersTyped DEF PlatformAsks
<1> QED  BY <1>2, <1>3, <1>4, <1>5, <1>6, <1>7 DEF Next

(* However commands and messages interleave on the three threads, no older *)
(* set command is obeyed, and no older platform status heard, after a      *)
(* newer one.                                                              *)
THEOREM InOrder == Spec => CarriedOutInOrder
<1> DEFINE Inv == TypeOK /\ OrderInv /\ HeardInv
<1>1. Init => Inv
  BY InitTyped, InitInOrder
<1>2. Inv /\ [Next]_vars => Inv'
  BY NextTyped, NextInOrder
<1>3. Inv /\ [Next]_vars =>
        [/\ \A x \in Slots : state'[x] >= state[x]
         /\ heard' >= heard]_vars
  BY NextInOrder
<1> HIDE DEF Inv
<1> QED  BY <1>1, <1>2, <1>3, PTL DEF Spec, CarriedOutInOrder

-----------------------------------------------------------------------------
(* Reports.  What the platform was told of a slot is no newer than what    *)
(* the application holds, and what is stored of it is just that; statuses  *)
(* are never stored.                                                       *)

InOrderAt(x) ==
  /\ told[x] <= state[x]
  /\ stored[x] # Nothing => stored[x] = state[x] /\ x[2] # Status

ReportInv == \A x \in Slots \ direct : InOrderAt(x)

Told(x) == told'[x] >= told[x]

LEMMA SlotTypes ==
  ASSUME TypeOK, NEW x \in Slots
  PROVE  /\ state[x] \in Nat
         /\ told[x] \in Nat \cup {Nothing} /\ stored[x] \in Nat \cup {Nothing}
         /\ told[x] \in Int /\ stored[x] \in Int
  BY DEF TypeOK, ReportsOK, Nothing

LEMMA SameSlot ==
  ASSUME TypeOK, NEW x \in Slots, InOrderAt(x),
         told'[x] = told[x], stored'[x] = stored[x], state'[x] = state[x]
  PROVE  InOrderAt(x)' /\ Told(x)
  BY SlotTypes DEF InOrderAt, Told

(* Sending what was stored, or what the application holds by then.         *)
LEMMA SendKeepsReports ==
  ASSUME TypeOK, TypeOK', NEW x \in Slots, InOrderAt(x),
         NEW kept, NEW sending, Send(kept, sending),
         state'[x] >= state[x],
         \/ kept[x] = stored[x] /\ state'[x] = state[x]
         \/ kept[x] = state'[x] /\ x[2] # Status
  PROVE  InOrderAt(x)' /\ Told(x)
<1> PICK t, s, k, t1, s1, k1 : /\ t = told[x] /\ s = state[x] /\ k = stored[x]
                               /\ t1 = told'[x] /\ s1 = state'[x] /\ k1 = stored'[x]
  OBVIOUS
<1>1. /\ s \in Nat /\ s1 \in Nat /\ t \in Int /\ k \in Int /\ s1 >= s
      /\ t <= s /\ Nothing = -1
      /\ k # Nothing => k = s /\ x[2] # Status
  <2>1. s1 \in Nat
    BY DEF TypeOK, ReportsOK
  <2> QED  BY <2>1, SlotTypes DEF InOrderAt, Nothing
<1>2. \/ t1 = t /\ k1 = kept[x]
      \/ t1 = t /\ k1 = Nothing
      \/ t1 = kept[x] /\ k1 = Nothing /\ kept[x] # Nothing
  <2>1. PICK sent \in SUBSET sending, gone \in SUBSET sending :
          SentOrGone(kept, sending, sent, gone)
    BY SendFacts
  <2> QED  BY <2>1 DEF SentOrGone
<1>3. CASE kept[x] = k /\ s1 = s
  BY <1>1, <1>2, <1>3 DEF InOrderAt, Told
<1>4. CASE kept[x] = s1 /\ x[2] # Status
  BY <1>1, <1>2, <1>4 DEF InOrderAt, Told
<1> QED  BY <1>3, <1>4

LEMMA ReportKeepsReports ==
  ASSUME TypeOK, TypeOK', NEW x \in Slots, InOrderAt(x), state'[x] >= state[x],
         NEW slots, NEW sending, Report(state', slots, sending),
         IF x \in slots THEN x[2] # Status ELSE state'[x] = state[x]
  PROVE  InOrderAt(x)' /\ Told(x)
<1> PICK s : s = state'
  OBVIOUS
<1>1. Send(Put(s, slots), sending)
  BY DEF Report
<1>2. \/ Put(s, slots)[x] = stored[x] /\ state'[x] = state[x]
      \/ Put(s, slots)[x] = state'[x] /\ x[2] # Status
  BY DEF Put
<1> QED  BY <1>1, <1>2, SendKeepsReports

LEMMA StatusKeepsReports ==
  ASSUME TypeOK, NEW x \in Slots, InOrderAt(x), UNCHANGED state,
         NEW d \in Devices, ReportStatus(d)
  PROVE  InOrderAt(x)' /\ Told(x)
<1>1. UNCHANGED stored
  BY DEF ReportStatus
<1>2. \/ told'[x] = told[x]
      \/ x = <<d, Status>> /\ told'[x] = state[x]
  BY DEF ReportStatus, PublishStatus, TypeOK, ReportsOK
<1>3. CASE told'[x] = told[x]
  BY <1>1, <1>3, SameSlot
<1>4. CASE x = <<d, Status>> /\ told'[x] = state[x]
  <2>1. stored'[x] = Nothing
    <3>1. x[2] = Status
      BY <1>4
    <3> QED  BY <1>1, <3>1 DEF InOrderAt
  <2> QED  BY <1>4, <2>1, SlotTypes DEF InOrderAt, Told
<1> QED  BY <1>2, <1>3, <1>4

(* Readings are of actuators and configuration items.                      *)
LEMMA ReadingsReport ==
  ASSUME TypeOK, command \in Command,
         \/ HandleActuatorGetCommand \/ HandleActuatorSetCommand
         \/ HandleConfigurationGetCommand \/ HandleConfigurationSetCommand
         \/ PublishAll
  PROVE  \/ UNCHANGED <<state, stored, told, discarded>>
         \/ \E slots, sending :
              /\ Report(state', slots, sending)
              /\ \A x \in Slots : IF x \in slots THEN x[2] # Status
                                 ELSE state'[x] = state[x]
<1> USE DEF ActuatorSlots, ConfigurationSlots
<1>1. CASE HandleActuatorGetCommand
  <2>1. UNCHANGED state
    BY <1>1 DEF HandleActuatorGetCommand
  <2> QED  BY <1>1, <2>1, ReferencesAssumption DEF HandleActuatorGetCommand
<1>2. CASE HandleActuatorSetCommand
  BY <1>2, ReferencesAssumption DEF HandleActuatorSetCommand, Obey
<1>3. CASE HandleConfigurationGetCommand
  <2>1. UNCHANGED state
    BY <1>3 DEF HandleConfigurationGetCommand
  <2> QED  BY <1>3, <2>1, ReferencesAssumption DEF HandleConfigurationGetCommand
<1>4. CASE HandleConfigurationSetCommand
  BY <1>4, ReferencesAssumption DEF HandleConfigurationSetCommand, Obey
<1>5. CASE PublishAll
  <2>1. UNCHANGED state
    BY <1>5 DEF PublishAll
  <2> QED  BY <1>5, <2>1 DEF PublishAll
<1> QED  BY <1>1, <1>2, <1>3, <1>4, <1>5

LEMMA DirectKeepsReports ==
  ASSUME TypeOK, TypeOK', command \in Command, NEW x \in Slots, InOrderAt(x),
         x \notin direct',
         \/ DirectActuatorStatus \/ DirectConfiguration
         \/ AddDeviceStatus \/ PublishDeviceStatus
  PROVE  InOrderAt(x)' /\ Told(x)
<1>1. CASE DirectActuatorStatus
  <2> DEFINE kept == Put(Passed(command.value), {command.device} \X command.refs)
  <2>1. Send(kept, {command.device} \X Actuators) /\ UNCHANGED state
    BY <1>1 DEF DirectActuatorStatus
  <2>2. x \notin {command.device} \X command.refs
    BY <1>1 DEF DirectActuatorStatus
  <2>3. kept[x] = stored[x]
    BY <2>2 DEF Put
  <2>4. state'[x] >= state[x] /\ state'[x] = state[x]
    BY <2>1, SlotTypes
  <2> HIDE DEF kept
  <2> QED  BY <2>1, <2>3, <2>4, SendKeepsReports
<1>2. CASE DirectConfiguration
  <2> DEFINE passed ==
        [y \in Slots |-> IF y[2] \in command.refs THEN command.value ELSE Nothing]
             kept == Put(passed, {command.device} \X ConfigurationItems)
  <2>1. Send(kept, ConfigurationSlots) /\ UNCHANGED state
    BY <1>2 DEF DirectConfiguration
  <2>2. x \notin {command.device} \X ConfigurationItems
    BY <1>2 DEF DirectConfiguration
  <2>3. kept[x] = stored[x]
    BY <2>2 DEF Put
  <2>4. state'[x] >= state[x] /\ state'[x] = state[x]
    BY <2>1, SlotTypes
  <2> HIDE DEF kept
  <2> QED  BY <2>1, <2>3, <2>4, SendKeepsReports
<1>3. CASE AddDeviceStatus \/ PublishDeviceStatus
  <2>1. DirectStatus(command.device \in m_devices) \/ DirectStatus(TRUE)
    BY <1>3, Zenon DEF AddDeviceStatus, PublishDeviceStatus
  <2>2. told'[x] = told[x]
    <3>1. \/ UNCHANGED told
          \/ PublishStatus(command.device, command.value) /\ x # <<command.device, Status>>
      BY <2>1 DEF DirectStatus
    <3> QED  BY <3>1 DEF PublishStatus, TypeOK, ReportsOK
  <2>3. UNCHANGED <<stored, state>>
    BY <2>1 DEF DirectStatus
  <2> QED  BY <2>2, <2>3, SameSlot
<1> QED  BY <1>1, <1>2, <1>3

(* Reports in the application's own words are not forgotten.               *)
LEMMA DirectGrows ==
  ASSUME [Next]_vars
  PROVE  direct \subseteq direct'
<1>1. CASE Worker
  BY <1>1
  DEF Worker, HandleActuatorGetCommand, HandleConfigurationGetCommand,
      HandleActuatorSetCommand, HandleConfigurationSetCommand,
      HandleDeviceStatusRequest, PublishDeviceStatuses, RunDeviceStatus,
      HandleRegistrationResponse, ConnectSucceeds, ConnectFails, Disconnect, RegisterDevices,
      RegisterDevice, AddDevice, RemoveDevice, PublishAll, DirectActuatorStatus,
      DirectConfiguration, AddDeviceStatus, PublishDeviceStatus, DirectStatus
<1> QED
  BY <1>1, DispatchTakes
  DEF Next, vars, PlatformAsks, PlatformAnswers, InboundMessageReceived, ConnectionLost,
      TellListener, ApiCall

LEMMA NextKeepsReports ==
  ASSUME TypeOK, OrderInv, HeardInv, ReportInv, [Next]_vars
  PROVE  ReportInv' /\ \A x \in Slots \ direct' : Told(x)
<1>0. TypeOK' /\ direct \subseteq direct'
  BY NextTyped, DirectGrows
<1>1. SUFFICES ASSUME NEW x \in Slots, x \notin direct'
               PROVE  InOrderAt(x)' /\ Told(x)
  BY DEF ReportInv
<1>2. InOrderAt(x)
  BY <1>0, <1>1 DEF ReportInv
<1>3. state'[x] >= state[x]
  BY NextInOrder
<1>4. CASE UNCHANGED <<state, stored, told>>
  BY <1>2, <1>4, SameSlot
<1>5. CASE Worker
  <2>1. command \in Command
    BY <1>5, WorkerKeeps
  <2>2. CASE \/ HandleActuatorGetCommand \/ HandleActuatorSetCommand
             \/ HandleConfigurationGetCommand \/ HandleConfigurationSetCommand
             \/ PublishAll
    BY <1>0, <1>2, <1>3, <1>4, <2>1, <2>2, ReadingsReport, ReportKeepsReports
  <2>3. CASE HandleDeviceStatusRequest \/ RunDeviceStatus
    <3>1. UNCHANGED state
      BY <2>3 DEF HandleDeviceStatusRequest, RunDeviceStatus
    <3>2. UNCHANGED reports \/ \E d \in Devices : ReportStatus(d)
      <4>1. CASE HandleDeviceStatusRequest
        BY <4>1 DEF HandleDeviceStatusRequest, TypeOK, PlatformOK
      <4>2. CASE RunDeviceStatus
        <5>1. command.device \in Devices
          BY <4>2, <2>1, CommandFields DEF RunDeviceStatus, Run, DeviceOperations
        <5> QED  BY <4>2, <5>1 DEF RunDeviceStatus
      <4> QED  BY <2>3, <4>1, <4>2
    <3> QED  BY <1>2, <1>4, <3>1, <3>2, StatusKeepsReports
  <2>4. CASE \/ DirectActuatorStatus \/ DirectConfiguration
             \/ AddDeviceStatus \/ PublishDeviceStatus
    BY <1>0, <1>1, <1>2, <2>1, <2>4, DirectKeepsReports
  <2> QED
    BY <1>4, <1>5, <2>2, <2>3, <2>4
    DEF Worker, PublishDeviceStatuses, HandleRegistrationResponse, ConnectSucceeds,
        ConnectFails, Disconnect, RegisterDevices, RegisterDevice, AddDevice, RemoveDevice
<1> QED
  BY <1>4, <1>5, DispatchTakes
  DEF Next, vars, PlatformAsks, PlatformAnswers, InboundMessageReceived, ConnectionLost,
      TellListener, ApiCall

(* Whether a report waits in its slot for the link or goes out at once,    *)
(* the platform is never told something older than it was told before.     *)
THEOREM ReportsNeverGoBack == Spec => ReportsInOrder
<1> DEFINE Inv == TypeOK /\ OrderInv /\ HeardInv /\ ReportInv
<1>1. Init => Inv
  <2>1. Init => ReportInv
    BY DEF Init, ReportInv, InOrderAt, Nothing
  <2> QED  BY <2>1, InitTyped, InitInOrder
<1>2. Inv /\ [Next]_vars => Inv'
  BY NextTyped, NextInOrder, NextKeepsReports
<1>3. Inv /\ [Next]_vars => [\A x \in Slots \ direct' : told'[x] >= told[x]]_vars
  BY NextKeepsReports DEF Told
<1> HIDE DEF Inv
<1> QED  BY <1>1, <1>2, <1>3, PTL DEF Spec, ReportsInOrder

-----------------------------------------------------------------------------
(* Configurations.  A set command in the buffer carries the items of its   *)
(* message; a configuration waits in its slots as a whole or not at all.   *)

SetsFaithful ==
  \A i \in DOMAIN m_commandBuffer : m_commandBuffer[i].op \in SetOps =>
    /\ m_commandBuffer[i].value \in 1 .. Len(log)
    /\ m_commandBuffer[i].refs = log[m_commandBuffer[i].value].refs

Items(d) == {d} \X ConfigurationItems

Entire(values, d) ==
  \A x, y \in Items(d) : values[x] = Nothing => values[y] = Nothing

WholeStored(d) == Whole(stored, d) /\ Whole(told, d) /\ Entire(stored, d)

WholeInv ==
  \A d \in Devices : /\ Whole(state, d)
                     /\ Items(d) \cap direct = {} => WholeStored(d)

LEMMA ItemSlots ==
  ASSUME NEW d \in Devices
  PROVE  /\ Items(d) \subseteq Slots
         /\ \A x \in Items(d) : x = <<d, x[2]>> /\ x[2] \in ConfigurationItems
         /\ \A r \in ConfigurationItems : <<d, r>> \in Items(d)
  BY DEF Items, Slots, References

(* What is whole in one log is whole in a longer one.                      *)
LEMMA LongerLog ==
  ASSUME TypeOK, NEW m, log' = Append(log, m), NEW values, NEW d \in Devices,
         \A r \in ConfigurationItems :
           values[<<d, r>>] \in Int /\ values[<<d, r>>] <= Len(log),
         NEW next, \A r \in ConfigurationItems : next[<<d, r>>] = values[<<d, r>>],
         Whole(values, d)
  PROVE  \A r \in ConfigurationItems :
           next[<<d, r>>] > 0 =>
             \A other \in log'[next[<<d, r>>]].refs :
               other \in ConfigurationItems /\ next[<<d, other>>] >= next[<<d, r>>]
<1> SUFFICES ASSUME NEW r \in ConfigurationItems, next[<<d, r>>] > 0,
                    NEW other \in log'[next[<<d, r>>]].refs
             PROVE  other \in ConfigurationItems /\ next[<<d, other>>] >= next[<<d, r>>]
  OBVIOUS
<1> DEFINE v == values[<<d, r>>]
<1>1. v = next[<<d, r>>] /\ v \in 1 .. Len(log)
  BY DEF TypeOK, PlatformOK
<1>2. log'[v] = log[v]
  <2>1. log \in Seq(Message)
    BY DEF TypeOK, PlatformOK
  <2> QED  BY <1>1, <2>1
<1>3. other \in log[v].refs /\ v > 0
  BY <1>1, <1>2
<1> QED  BY <1>1, <1>3 DEF Whole

LEMMA SendKeepsWhole ==
  ASSUME TypeOK, NEW d \in Devices, WholeStored(d), NEW s \in [Slots -> Nat], Whole(s, d),
         NEW kept, NEW sending, Send(kept, sending), UNCHANGED log,
         \/ \A x \in Items(d) : kept[x] = stored[x]
         \/ \A x \in Items(d) : kept[x] = s[x],
         Items(d) \subseteq sending \/ Items(d) \cap sending = {}
  PROVE  WholeStored(d)'
<1> PICK st, tl : st = stored' /\ tl = told'
  OBVIOUS
<1>1. Whole(kept, d) /\ Entire(kept, d)
  <2>1. CASE \A x \in Items(d) : kept[x] = stored[x]
    BY <2>1, ItemSlots DEF WholeStored, Whole, Entire
  <2>2. CASE \A x \in Items(d) : kept[x] = s[x]
    <3>1. \A x \in Items(d) : kept[x] # Nothing
      BY <2>2, ItemSlots DEF Nothing
    <3>2. Whole(kept, d)
      BY <2>2, ItemSlots DEF Whole
    <3> QED  BY <3>1, <3>2 DEF Entire
  <2> QED  BY <2>1, <2>2
<1>2. PICK sent \in SUBSET sending, gone \in SUBSET sending :
        SentOrGone(kept, sending, sent, gone)
  BY SendFacts
<1>3. \/ Items(d) \subseteq sent
      \/ Items(d) \subseteq gone /\ Items(d) \cap sent = {}
      \/ Items(d) \cap (sent \cup gone) = {}
  <2>1. CASE Items(d) \cap sending = {}
    BY <2>1
  <2>2. CASE \E x \in Items(d) : kept[x] = Nothing
    <3>1. \A x \in Items(d) : kept[x] = Nothing
      BY <1>1, <2>2 DEF Entire
    <3> QED  BY <1>2, <3>1 DEF SentOrGone
  <2>3. CASE Items(d) \subseteq sending /\ \A x \in Items(d) : kept[x] # Nothing
    <3>1. \A x, y \in Items(d) : Entry(x) = Entry(y)
      BY DEF Items, Entry
    <3>2. \A x, y \in Items(d) : (x \in sent <=> y \in sent) /\ (x \in gone <=> y \in gone)
      BY <1>2, <2>3, <3>1 DEF SentOrGone
    <3> QED  BY <1>2, <3>2 DEF SentOrGone
  <2> QED  BY <2>1, <2>2, <2>3
<1>4. \A x \in Items(d) :
        /\ tl[x] = IF x \in sent THEN kept[x] ELSE told[x]
        /\ st[x] = IF x \in sent \cup gone THEN Nothing ELSE kept[x]
  BY <1>2, ItemSlots DEF SentOrGone
<1>5. Whole(st, d) /\ Entire(st, d)
  <2>1. CASE \A x \in Items(d) : st[x] = Nothing
    BY <2>1, ItemSlots DEF Whole, Entire, Nothing
  <2>2. CASE \A x \in Items(d) : st[x] = kept[x]
    BY <1>1, <2>2, ItemSlots DEF Whole, Entire
  <2> QED  BY <1>3, <1>4, <2>1, <2>2
<1>6. Whole(tl, d)
  <2>1. CASE \A x \in Items(d) : tl[x] = kept[x]
    BY <1>1, <2>1, ItemSlots DEF Whole
  <2>2. CASE \A x \in Items(d) : tl[x] = told[x]
    BY <2>2, ItemSlots DEF Whole, WholeStored
  <2> QED  BY <1>3, <1>4, <2>1, <2>2
<1> QED  BY <1>5, <1>6 DEF WholeStored, Whole, Entire

LEMMA SameWhole ==
  ASSUME NEW d \in Devices, WholeStored(d), UNCHANGED log,
         \A x \in Items(d) : told'[x] = told[x] /\ stored'[x] = stored[x]
  PROVE  WholeStored(d)'
<1> PICK st, tl : st = stored' /\ tl = told'
  OBVIOUS
<1>1. Whole(st, d) /\ Entire(st, d) /\ Whole(tl, d)
  BY ItemSlots DEF WholeStored, Whole, Entire
<1> QED  BY <1>1 DEF WholeStored, Whole, Entire

(* A set command obeyed leaves each device's items whole.                  *)
LEMMA WorkerKeepsState ==
  ASSUME TypeOK, TypeOK', OrderInv, HeardInv, SetsFaithful, WholeInv, Worker,
         NEW d \in Devices
  PROVE  Whole(state, d)'
<1> PICK s : s = state'
  OBVIOUS
<1>1. /\ 1 \in DOMAIN m_commandBuffer /\ command = m_commandBuffer[1]
      /\ command \in Command /\ UNCHANGED log
  BY WorkerKeeps
<1>2. \A x \in Slots : s[x] >= state[x]
  BY NextInOrder DEF Next
<1>3. Whole(state, d)
  BY DEF WholeInv
<1>4. s \in [Slots -> Nat] /\ state \in [Slots -> Nat]
  BY DEF TypeOK, ReportsOK
<1>5. CASE \A x \in Items(d) : s[x] = state[x]
  <2>1. Whole(s, d)
    BY <1>3, <1>5, ItemSlots DEF Whole
  <2> QED  BY <1>1, <2>1 DEF Whole
<1>6. CASE /\ HandleConfigurationSetCommand
           /\ command.refs \subseteq ConfigurationItems
           /\ Obey({command.device} \X command.refs, command.value)
           /\ command.device = d
  <2> DEFINE v == command.value
             rs == command.refs
  <2>1. log[v].refs = rs /\ v \in Nat
    BY <1>1, <1>6, CommandFields DEF SetsFaithful, HandleConfigurationSetCommand, Run, SetOps
  <2>2. \A r \in ConfigurationItems :
          s[<<d, r>>] = IF r \in rs THEN v ELSE state[<<d, r>>]
    BY <1>6, ItemSlots DEF Obey
  <2>3. ASSUME NEW r \in ConfigurationItems, s[<<d, r>>] > 0,
               NEW other \in log[s[<<d, r>>]].refs
        PROVE  other \in ConfigurationItems /\ s[<<d, other>>] >= s[<<d, r>>]
    <3>1. CASE r \in rs
      BY <1>6, <2>1, <2>2, <2>3, <3>1
    <3>2. CASE r \notin rs
      <4>1. s[<<d, r>>] = state[<<d, r>>]
        BY <2>2, <3>2
      <4>2. other \in ConfigurationItems /\ state[<<d, other>>] >= state[<<d, r>>]
        BY <1>3, <2>3, <4>1 DEF Whole
      <4>3. <<d, other>> \in Slots /\ <<d, r>> \in Slots
        BY <4>2, ItemSlots
      <4> QED  BY <1>2, <1>4, <4>1, <4>2, <4>3
    <3> QED  BY <3>1, <3>2
  <2>4. Whole(s, d)
    BY <2>3 DEF Whole
  <2> QED  BY <1>1, <2>4 DEF Whole
<1>7. CASE HandleActuatorSetCommand
  <2>1. \/ UNCHANGED state
        \/ /\ command.refs \subseteq Actuators
           /\ Obey({command.device} \X command.refs, command.value)
    BY <1>7 DEF HandleActuatorSetCommand
  <2>2. \A x \in Items(d) : s[x] = state[x]
    BY <2>1, ItemSlots, ReferencesAssumption DEF Obey
  <2> QED  BY <1>5, <2>2
<1>8. CASE HandleConfigurationSetCommand
  <2>1. \/ UNCHANGED state
        \/ /\ command.refs \subseteq ConfigurationItems
           /\ Obey({command.device} \X command.refs, command.value)
    BY <1>8 DEF HandleConfigurationSetCommand
  <2>2. CASE Obey({command.device} \X command.refs, command.value) /\ command.device # d
    <3>1. \A x \in Items(d) : s[x] = state[x]
      BY <2>2, ItemSlots DEF Obey
    <3> QED  BY <1>5, <3>1
  <2> QED  BY <1>5, <1>6, <1>8, <2>1, <2>2
<1>9. CASE UNCHANGED state
  BY <1>5, <1>9
<1> QED
  BY <1>7, <1>8, <1>9
  DEF Worker, HandleActuatorGetCommand, HandleConfigurationGetCommand,
      HandleDeviceStatusRequest, PublishDeviceStatuses, RunDeviceStatus,
      HandleRegistrationResponse, ConnectSucceeds, ConnectFails, Disconnect, RegisterDevices,
      RegisterDevice, AddDevice, RemoveDevice, PublishAll, DirectActuatorStatus,
      DirectConfiguration, AddDeviceStatus, PublishDeviceStatus, DirectStatus

(* A report reads all of a device's items or none, and sends likewise.     *)
LEMMA ReadingsWhole ==
  ASSUME TypeOK, command \in Command, NEW d \in Devices,
         \/ HandleActuatorGetCommand \/ HandleActuatorSetCommand
         \/ HandleConfigurationGetCommand \/ HandleConfigurationSetCommand
         \/ PublishAll
  PROVE  \/ UNCHANGED <<stored, told>>
         \/ \E slots, sending :
              /\ Report(state', slots, sending)
              /\ Items(d) \subseteq slots \/ Items(d) \cap slots = {}
              /\ Items(d) \subseteq sending \/ Items(d) \cap sending = {}
<1> USE DEF ActuatorSlots, ConfigurationSlots, Items
<1>1. CASE HandleActuatorGetCommand
  <2>1. UNCHANGED state
    BY <1>1 DEF HandleActuatorGetCommand
  <2>2. \A A : Items(d) \cap (A \X Actuators) = {}
    BY ReferencesAssumption
  <2>3. \A e, R : R \subseteq Actuators => Items(d) \cap ({e} \X R) = {}
    BY ReferencesAssumption
  <2> QED  BY <1>1, <2>1, <2>2, <2>3 DEF HandleActuatorGetCommand
<1>2. CASE HandleActuatorSetCommand
  <2>1. Items(d) \cap ActuatorSlots = {}
    BY ReferencesAssumption
  <2>2. \A e, R : R \subseteq Actuators => Items(d) \cap ({e} \X R) = {}
    BY ReferencesAssumption
  <2> QED  BY <1>2, <2>1, <2>2 DEF HandleActuatorSetCommand
<1>3. CASE HandleConfigurationGetCommand
  <2>1. UNCHANGED state
    BY <1>3 DEF HandleConfigurationGetCommand
  <2>2. \A e : Items(d) \subseteq {e} \X ConfigurationItems
               \/ Items(d) \cap ({e} \X ConfigurationItems) = {}
    OBVIOUS
  <2> QED  BY <1>3, <2>1, <2>2 DEF HandleConfigurationGetCommand
<1>4. CASE HandleConfigurationSetCommand
  <2>1. \A e : Items(d) \subseteq {e} \X ConfigurationItems
               \/ Items(d) \cap ({e} \X ConfigurationItems) = {}
    OBVIOUS
  <2> QED  BY <1>4, <2>1 DEF HandleConfigurationSetCommand
<1>5. CASE PublishAll
  <2>1. UNCHANGED state
    BY <1>5 DEF PublishAll
  <2> QED  BY <1>5, <2>1 DEF PublishAll
<1> QED  BY <1>1, <1>2, <1>3, <1>4, <1>5

LEMMA DirectKeepsWhole ==
  ASSUME TypeOK, command \in Command, UNCHANGED log, NEW d \in Devices,
         WholeStored(d), Whole(state, d), Items(d) \cap direct' = {},
         \/ DirectActuatorStatus \/ DirectConfiguration
         \/ AddDeviceStatus \/ PublishDeviceStatus
  PROVE  WholeStored(d)'
<1> USE DEF ConfigurationSlots
<1>0. state \in [Slots -> Nat]
  BY DEF TypeOK, ReportsOK
<1>1. CASE DirectActuatorStatus
  <2> DEFINE kept == Put(Passed(command.value), {command.device} \X command.refs)
             sending == {command.device} \X Actuators
  <2>1. Send(kept, sending)
    BY <1>1 DEF DirectActuatorStatus
  <2>2. \A x \in Items(d) : kept[x] = stored[x]
    BY <1>1, ItemSlots DEF DirectActuatorStatus, Put
  <2>3. Items(d) \cap sending = {}
    BY ReferencesAssumption DEF Items
  <2> HIDE DEF kept, sending
  <2> QED  BY <1>0, <2>1, <2>2, <2>3, SendKeepsWhole
<1>2. CASE DirectConfiguration
  <2> DEFINE passed ==
        [y \in Slots |-> IF y[2] \in command.refs THEN command.value ELSE Nothing]
             kept == Put(passed, {command.device} \X ConfigurationItems)
  <2>1. Send(kept, ConfigurationSlots)
    BY <1>2 DEF DirectConfiguration
  <2>2. \A x \in Items(d) : kept[x] = stored[x]
    BY <1>2, ItemSlots DEF DirectConfiguration, Put
  <2>3. Items(d) \subseteq ConfigurationSlots
    BY DEF Items
  <2> HIDE DEF kept
  <2> QED  BY <1>0, <2>1, <2>2, <2>3, SendKeepsWhole
<1>3. CASE AddDeviceStatus \/ PublishDeviceStatus
  <2>1. DirectStatus(command.device \in m_devices) \/ DirectStatus(TRUE)
    BY <1>3, Zenon DEF AddDeviceStatus, PublishDeviceStatus
  <2>2. UNCHANGED stored /\ (UNCHANGED told \/ PublishStatus(command.device, command.value))
    BY <2>1 DEF DirectStatus
  <2>3. \A x \in Items(d) : x[2] # Status
    BY ItemSlots, ReferencesAssumption
  <2>4. \A x \in Items(d) : told'[x] = told[x]
    BY <2>2, <2>3, ItemSlots DEF PublishStatus, TypeOK, ReportsOK
  <2> QED  BY <2>2, <2>4, SameWhole
<1> QED  BY <1>1, <1>2, <1>3

LEMMA WorkerKeepsWhole ==
  ASSUME TypeOK, TypeOK', OrderInv, HeardInv, SetsFaithful, WholeInv, Worker
  PROVE  WholeInv'
<1>1. command \in Command /\ UNCHANGED log /\ direct \subseteq direct'
  BY WorkerKeeps, DirectGrows DEF Next
<1>2. ASSUME NEW d \in Devices, Items(d) \cap direct' = {}
      PROVE  WholeStored(d)'
  <2>1. WholeStored(d) /\ Whole(state, d)
    BY <1>1, <1>2 DEF WholeInv
  <2>2. CASE UNCHANGED <<stored, told>>
    BY <1>1, <2>1, <2>2, SameWhole
  <2>3. CASE \/ HandleActuatorGetCommand \/ HandleActuatorSetCommand
             \/ HandleConfigurationGetCommand \/ HandleConfigurationSetCommand
             \/ PublishAll
    <3> PICK s : s = state'
      OBVIOUS
    <3>1. s \in [Slots -> Nat]
      BY DEF TypeOK, ReportsOK
    <3>2. Whole(s, d)
      <4>1. Whole(state, d)'
        BY WorkerKeepsState
      <4> QED  BY <1>1, <4>1 DEF Whole
    <3>3. ASSUME NEW slots, NEW sending, Report(s, slots, sending),
                 Items(d) \subseteq slots \/ Items(d) \cap slots = {},
                 Items(d) \subseteq sending \/ Items(d) \cap sending = {}
          PROVE  WholeStored(d)'
      <4> DEFINE kept == Put(s, slots)
      <4>1. Send(kept, sending)
        BY <3>3 DEF Report
      <4>2. \/ \A x \in Items(d) : kept[x] = stored[x]
            \/ \A x \in Items(d) : kept[x] = s[x]
        BY <3>3, ItemSlots DEF Put
      <4> HIDE DEF kept
      <4> QED  BY <1>1, <2>1, <3>1, <3>2, <3>3, <4>1, <4>2, SendKeepsWhole
    <3> QED  BY <1>1, <2>2, <2>3, <3>3, ReadingsWhole
  <2>4. CASE HandleDeviceStatusRequest \/ RunDeviceStatus
    <3>1. UNCHANGED reports \/ \E e : ReportStatus(e)
      BY <2>4 DEF HandleDeviceStatusRequest, RunDeviceStatus
    <3>2. \A x \in Items(d) : x[2] # Status
      BY ItemSlots, ReferencesAssumption
    <3>3. \A x \in Items(d) : told'[x] = told[x] /\ stored'[x] = stored[x]
      <4>1. ASSUME NEW e, ReportStatus(e)
            PROVE  UNCHANGED stored /\ \A x \in Items(d) : told'[x] = told[x]
        <5>1. UNCHANGED stored /\ \A x \in Items(d) : x # <<e, Status>>
          BY <3>2, <4>1 DEF ReportStatus
        <5> QED
          BY <4>1, <5>1, ItemSlots DEF ReportStatus, PublishStatus, TypeOK, ReportsOK
      <4> QED  BY <3>1, <4>1
    <3> QED  BY <1>1, <2>1, <3>3, SameWhole
  <2>5. CASE \/ DirectActuatorStatus \/ DirectConfiguration
             \/ AddDeviceStatus \/ PublishDeviceStatus
    BY <1>1, <1>2, <2>1, <2>5, DirectKeepsWhole
  <2> QED
    BY <2>2, <2>3, <2>4, <2>5
    DEF Worker, PublishDeviceStatuses, HandleRegistrationResponse, ConnectSucceeds,
        ConnectFails, Disconnect, RegisterDevices, RegisterDevice, AddDevice, RemoveDevice
<1> QED  BY <1>2, WorkerKeepsState DEF WholeInv, Items

(* The set commands in the buffer, through every step.                     *)
LEMMA FaithfulKept ==
  ASSUME TypeOK, SetsFaithful, NEW shift \in {0, 1}, Keeps(shift), UNCHANGED log
  PROVE  SetsFaithful'
  BY DEF SetsFaithful, Keeps

LEMMA ReceptionFaithful ==
  ASSUME TypeOK, SetsFaithful, NEW m, InboundMessageReceived(m)
  PROVE  SetsFaithful'
<1>1. log' = Append(log, m) /\ log \in Seq(Message)
  BY DEF InboundMessageReceived, TypeOK, PlatformOK
<1>2. Len(log) \in Nat /\ Len(log') = Len(log) + 1
      /\ \A v \in 1 .. Len(log) : log'[v] = log[v] /\ v \in 1 .. Len(log')
  BY <1>1
<1>3. UNCHANGED m_commandBuffer
  BY DEF InboundMessageReceived
<1> QED  BY <1>2, <1>3 DEF SetsFaithful

LEMMA DispatchFaithful ==
  ASSUME TypeOK, SetsFaithful, Dispatch
  PROVE  SetsFaithful'
<1> PICK b, c : b = m_commandBuffer /\ c = m_commandBuffer'
  OBVIOUS
<1>1. UNCHANGED log /\ b \in Seq(Command)
  BY DispatchTakes DEF TypeOK, CommandsOK
<1>2. inbound # <<>> /\ Head(inbound) \in 1 .. Len(log)
  <2> PICK S : S = 1 .. Len(log)
    OBVIOUS
  <2>1. inbound \in Seq(S)
    BY DEF TypeOK, NumbersOK
  <2> QED  BY <2>1, DispatchPushes
<1>3. CASE c = b
  BY <1>1, <1>3 DEF SetsFaithful
<1>4. ASSUME NEW e \in Command, c = Append(b, e),
             e.op \in SetOps => e.value = Head(inbound) /\ e.refs = log[Head(inbound)].refs
      PROVE  SetsFaithful'
  <2>1. \A i \in DOMAIN c : \/ i \in DOMAIN b /\ c[i] = b[i]
                            \/ c[i] = e
    BY <1>1, <1>4, AppendFacts
  <2> QED  BY <1>1, <1>2, <1>4, <2>1 DEF SetsFaithful
<1> QED  BY <1>3, <1>4, DispatchPushes

LEMMA InitWhole ==
  ASSUME Init
  PROVE  SetsFaithful /\ WholeInv
<1>1. m_commandBuffer \in Seq(ApiCommands)
  BY ScenariosAssumption DEF Init
<1>2. \A i \in DOMAIN m_commandBuffer : m_commandBuffer[i].op \notin SetOps
  BY <1>1 DEF ApiCommands, Direct, SetOps
<1>3. SetsFaithful
  BY <1>2 DEF Init, SetsFaithful
<1>4. ASSUME NEW d \in Devices
      PROVE  Whole(state, d) /\ WholeStored(d)
  BY ItemSlots DEF Init, WholeStored, Whole, Entire, Nothing
<1> QED  BY <1>3, <1>4 DEF WholeInv

LEMMA ReceptionWhole ==
  ASSUME TypeOK, OrderInv, ReportInv, WholeInv, NEW m, InboundMessageReceived(m)
  PROVE  WholeInv'
<1>1. log' = Append(log, m) /\ UNCHANGED <<state, stored, told, direct>>
  BY DEF InboundMessageReceived
<1>2. ASSUME NEW d \in Devices
      PROVE  Whole(state, d)'
  <2>1. \A r \in ConfigurationItems : state[<<d, r>>] \in Int /\ state[<<d, r>>] <= Len(log)
    BY ItemSlots, SlotTypes DEF OrderInv, StateFirst
  <2>2. Whole(state, d)
    BY DEF WholeInv
  <2>3. \A r \in ConfigurationItems : state'[<<d, r>>] = state[<<d, r>>]
    BY <1>1
  <2> QED  BY <1>1, <2>1, <2>2, <2>3, LongerLog DEF Whole
<1>3. ASSUME NEW d \in Devices, Items(d) \cap direct = {}
      PROVE  WholeStored(d)'
  <2>1. WholeStored(d)
    BY <1>3 DEF WholeInv
  <2>2. ASSUME NEW r \in ConfigurationItems
        PROVE  /\ stored[<<d, r>>] \in Int /\ stored[<<d, r>>] <= Len(log)
               /\ told[<<d, r>>] \in Int /\ told[<<d, r>>] <= Len(log)
    <3>1. <<d, r>> \in Slots /\ <<d, r>> \notin direct
      BY <1>3, <2>2, ItemSlots
    <3>2. state[<<d, r>>] <= Len(log) /\ InOrderAt(<<d, r>>) /\ Len(log) \in Nat
      BY <3>1, Numbers DEF OrderInv, StateFirst, ReportInv
    <3> QED  BY <3>1, <3>2, SlotTypes DEF InOrderAt, Nothing
  <2>3. Whole(stored, d)'
    <3>1. \A r \in ConfigurationItems : stored'[<<d, r>>] = stored[<<d, r>>]
      BY <1>1
    <3>2. Whole(stored, d)
      BY <2>1 DEF WholeStored
    <3> QED  BY <1>1, <2>2, <3>1, <3>2, LongerLog DEF Whole
  <2>4. Whole(told, d)'
    <3>1. \A r \in ConfigurationItems : told'[<<d, r>>] = told[<<d, r>>]
      BY <1>1
    <3>2. Whole(told, d)
      BY <2>1 DEF WholeStored
    <3> QED  BY <1>1, <2>2, <3>1, <3>2, LongerLog DEF Whole
  <2>5. Entire(stored, d)'
    BY <1>1, <2>1 DEF WholeStored, Entire
  <2> QED  BY <2>3, <2>4, <2>5 DEF WholeStored
<1> QED  BY <1>1, <1>2, <1>3 DEF WholeInv, Items

LEMMA NextWhole ==
  ASSUME TypeOK, OrderInv, HeardInv, ReportInv, SetsFaithful, WholeInv, [Next]_vars
  PROVE  SetsFaithful' /\ WholeInv'
<1>0. TypeOK'
  BY NextTyped
<1>1. UNCHANGED <<state, stored, told, direct, log>> => WholeInv'
  BY DEF WholeInv, WholeStored, Whole, Entire, Items
<1>2. CASE \E m : InboundMessageReceived(m)
  BY <1>2, ReceptionFaithful, ReceptionWhole
<1>3. CASE Dispatch
  BY <1>1, <1>3, DispatchTakes, DispatchFaithful
<1>4. CASE ConnectionLost \/ ApiCall \/ TellListener
  <2>1. Keeps(0)
    BY <1>4, LostKeeps, CallKeeps, TellKeeps
  <2> QED
    BY <1>1, <1>4, <2>1, FaithfulKept DEF ConnectionLost, ApiCall, TellListener
<1>5. CASE Worker
  <2>1. Keeps(1) /\ UNCHANGED log
    BY <1>5, WorkerKeeps
  <2>2. SetsFaithful'
    BY <2>1, FaithfulKept
  <2>3. WholeInv'
    BY <1>0, <1>5, WorkerKeepsWhole
  <2> QED  BY <2>2, <2>3
<1>6. CASE UNCHANGED vars
  BY <1>1, <1>6 DEF vars, SetsFaithful
<1>7. PlatformAsks \/ PlatformAnswers => \E m : InboundMessageReceived(m)
  BY AnswersTyped DEF PlatformAsks
<1> QED  BY <1>2, <1>3, <1>4, <1>5, <1>6, <1>7 DEF Next

(* A configuration set command is obeyed, and reported, with all its items *)
(* or with none of them.                                                   *)
THEOREM ConfigurationsWhole == Spec => []WholeConfigurations
<1> DEFINE Inv == /\ TypeOK /\ OrderInv /\ HeardInv /\ ReportInv
                  /\ SetsFaithful /\ WholeInv
<1>1. Init => Inv
  <2>1. Init => ReportInv
    BY DEF Init, ReportInv, InOrderAt, Nothing
  <2> QED  BY <2>1, InitTyped, InitInOrder, InitWhole
<1>2. Inv /\ [Next]_vars => Inv'
  BY NextTyped, NextInOrder, NextKeepsReports, NextWhole
<1>3. Inv => WholeConfigurations
  BY DEF WholeInv, WholeStored, WholeConfigurations, Items
<1> HIDE DEF Inv
<1> QED  BY <1>1, <1>2, <1>3, PTL DEF Spec

-----------------------------------------------------------------------------
(* Answers.  On a live link what was asked of a slot is not lost on its    *)
(* way: a command that will read it waits for the worker, or a message     *)
(* that asks for it inbound.  Without a session nothing is promised: the   *)
(* next one reads everything again, or makes up for nothing.  The buffer   *)
(* is looked at as a set here.                                             *)

Waiting == {m_commandBuffer[i] : i \in DOMAIN m_commandBuffer}
Incoming == {log[inbound[i]] : i \in DOMAIN inbound}

Waits(op) == \E c \in Waiting : c.op = op

(* Commands whose execution reads a slot, or pushes one that does.         *)
ReadsActuator(c, x) ==
  /\ x[2] \in Actuators
  /\ \/ c.op = "actuatorGet" /\ c.device = NoDevice /\ c.refs = {}
     \/ c.op \in {"actuatorGet", "actuatorSet"} /\ c.device = x[1] /\ c.refs = {x[2]}

ReadsItem(c, x) ==
  /\ x[2] \in ConfigurationItems
  /\ c.device = x[1]
  /\ \/ c.op = "configurationGet"
     \/ c.op = "configurationSet" /\ c.refs \subseteq ConfigurationItems

ReadsStatus(c, x) ==
  /\ x[2] = Status
  /\ \/ c.op = "deviceStatuses"
     \/ c.op = "statusRequest" /\ c.device \in {NoDevice, x[1]}
     \/ c.op = "deviceStatus" /\ c.device = x[1]

Reads(c, x) == ReadsActuator(c, x) \/ ReadsItem(c, x) \/ ReadsStatus(c, x)

(* Messages a service makes such a command of.                             *)
Asks(m, x) ==
  /\ Understood(m)
  /\ m.device \in {NoDevice, x[1]}
  /\ \/ /\ x[2] \in Actuators
        /\ \/ m.kind = "actuatorGet" /\ m.device = NoDevice /\ m.refs = {}
           \/ /\ m.kind \in {"actuatorGet", "actuatorSet"}
              /\ m.device = x[1] /\ m.refs = {x[2]}
     \/ /\ x[2] \in ConfigurationItems
        /\ m.device = x[1]
        /\ \/ m.kind = "configurationGet"
           \/ m.kind = "configurationSet" /\ m.refs \subseteq ConfigurationItems
     \/ x[2] = Status /\ m.kind = "statusRequest"

ReadComing(x) ==
  \/ \E c \in Waiting : Reads(c, x)
  \/ \E m \in Incoming : Asks(m, x)

(* The history variables speak of devices held; statuses are not stored.   *)
HeldInv ==
  /\ \A x \in unread \cup unsent : x[1] \in m_devices
  /\ \A x \in unsent : x[2] # Status

SendInv == unsent = {} \/ Waits("publish")

ReadInv == \A x \in unread : ReadComing(x)

AnswerInv == HeldInv /\ (linkUp => SendInv /\ ReadInv)

(* The worker's buffer and the inbound one, as sets.                       *)
LEMMA RunWaits ==
  ASSUME CommandsOK, NEW op, NEW pushed \in Seq(Command), Run(op, pushed)
  PROVE  /\ command \in Command /\ command.op = op
         /\ Waiting \subseteq Waiting' \cup {command}
         /\ \A k \in DOMAIN pushed : pushed[k] \in Waiting'
<1> PICK b, c : b = m_commandBuffer /\ c = m_commandBuffer'
  OBVIOUS
<1>1. b \in Seq(Command) /\ b # <<>> /\ c = Tail(b) \o pushed /\ command = Head(b)
      /\ command.op = op
  BY DEF CommandsOK, Run, command
<1>2. Tail(b) \in Seq(Command) /\ Head(b) = b[1] /\ Head(b) \in Command
  BY <1>1
<1>3. ASSUME NEW i \in DOMAIN b, i # 1
      PROVE  i - 1 \in DOMAIN c /\ c[i - 1] = b[i]
  <2>1. i \in Nat /\ i > 1 /\ i <= Len(b) /\ Len(b) \in Nat
    BY <1>1, <1>3
  <2>2. i - 1 \in DOMAIN Tail(b) /\ Tail(b)[i - 1] = b[i]
    BY <1>1, <2>1
  <2>3. i - 1 \in DOMAIN (Tail(b) \o pushed)
        /\ (Tail(b) \o pushed)[i - 1] = Tail(b)[i - 1]
    BY <1>2, <2>2
  <2> QED  BY <1>1, <2>2, <2>3
<1>4. ASSUME NEW k \in DOMAIN pushed
      PROVE  pushed[k] \in Waiting'
  <2>1. /\ Len(Tail(b)) + k \in DOMAIN (Tail(b) \o pushed)
        /\ (Tail(b) \o pushed)[Len(Tail(b)) + k] = pushed[k]
    BY <1>2
  <2> QED  BY <1>1, <2>1 DEF Waiting
<1>5. ASSUME NEW i \in DOMAIN b
      PROVE  b[i] \in Waiting' \cup {command}
  BY <1>1, <1>2, <1>3, <1>5 DEF Waiting
<1> QED  BY <1>1, <1>2, <1>4, <1>5 DEF Waiting

LEMMA PushWaits ==
  ASSUME CommandsOK, NEW c \in Command, m_commandBuffer' = Append(m_commandBuffer, c)
  PROVE  Waiting \subseteq Waiting' /\ c \in Waiting'
<1> PICK b, e : b = m_commandBuffer /\ e = m_commandBuffer'
  OBVIOUS
<1>1. b \in Seq(Command) /\ e = Append(b, c)
  BY DEF CommandsOK
<1>2. \A i \in DOMAIN b : i \in DOMAIN e /\ e[i] = b[i]
  BY <1>1
<1>3. Len(b) + 1 \in DOMAIN e /\ e[Len(b) + 1] = c
  BY <1>1
<1> QED  BY <1>2, <1>3 DEF Waiting

LEMMA WorkerWaits ==
  ASSUME TypeOK, Worker
  PROVE  /\ command \in Command
         /\ Waiting \subseteq Waiting' \cup {command}
         /\ Incoming' = Incoming
<1>1. PICK op \in Operations, pushed \in Seq(Harmless) : Run(op, pushed)
  BY WorkerRuns
<1>2. pushed \in Seq(Command)
  BY HarmlessCommands
<1>3. UNCHANGED <<inbound, log>>
  BY <1>1 DEF Run
<1> QED  BY <1>1, <1>2, <1>3, RunWaits DEF TypeOK, Incoming

(* A message received joins the others.                                    *)
LEMMA ReceptionJoins ==
  ASSUME TypeOK, NEW m \in Message, InboundMessageReceived(m)
  PROVE  /\ Incoming \subseteq Incoming'
         /\ m.kind # "unknownChannel" => m \in Incoming'
         /\ Waiting' = Waiting
<1> PICK old, new, n : old = inbound /\ new = inbound' /\ n = Len(log')
  OBVIOUS
<1>1. /\ log' = Append(log, m) /\ log \in Seq(Message) /\ UNCHANGED m_commandBuffer
      /\ new = IF m.kind = "unknownChannel" THEN old ELSE Append(old, n)
  BY DEF InboundMessageReceived, TypeOK, PlatformOK
<1>2. log'[n] = m /\ \A k \in 1 .. Len(log) : log'[k] = log[k]
  BY <1>1
<1>3. PICK S : S = 1 .. Len(log) /\ old \in Seq(S)
  BY DEF TypeOK, NumbersOK
<1>4. \A i \in DOMAIN old : /\ i \in DOMAIN Append(old, n) /\ Append(old, n)[i] = old[i]
                            /\ old[i] \in S
  BY <1>3
<1>5. Len(old) + 1 \in DOMAIN Append(old, n) /\ Append(old, n)[Len(old) + 1] = n
  BY <1>3
<1>6. \A i \in DOMAIN old : i \in DOMAIN new /\ new[i] = old[i] /\ log'[new[i]] = log[old[i]]
  BY <1>1, <1>2, <1>3, <1>4
<1>7. Incoming \subseteq Incoming'
  BY <1>6 DEF Incoming
<1>8. m.kind # "unknownChannel" => m \in Incoming'
  BY <1>1, <1>2, <1>5 DEF Incoming
<1> QED  BY <1>1, <1>7, <1>8 DEF Waiting

LEMMA DispatchLeaves ==
  ASSUME TypeOK, Dispatch
  PROVE  /\ Incoming \subseteq Incoming' \cup {log[Head(inbound)]}
         /\ Waiting \subseteq Waiting'
         /\ log[Head(inbound)] \in Message /\ Head(inbound) \in DOMAIN log
<1> PICK old, new : old = inbound /\ new = inbound'
  OBVIOUS
<1>1. UNCHANGED log /\ new = Tail(old) /\ old # <<>> /\ log \in Seq(Message)
  BY DispatchTakes, DispatchPushes DEF TypeOK, PlatformOK
<1>2. PICK S : S = 1 .. Len(log) /\ old \in Seq(S)
  BY DEF TypeOK, NumbersOK
<1>3. Head(old) = old[1] /\ Head(old) \in S
  BY <1>1, <1>2
<1>4. ASSUME NEW i \in DOMAIN old, i # 1
      PROVE  i - 1 \in DOMAIN new /\ new[i - 1] = old[i]
  <2>1. i \in Nat /\ i > 1 /\ i <= Len(old) /\ Len(old) \in Nat
    BY <1>2, <1>4
  <2> QED  BY <1>1, <1>2, <2>1
<1>5. Incoming \subseteq Incoming' \cup {log[Head(old)]}
  <2>1. ASSUME NEW i \in DOMAIN old
        PROVE  log[old[i]] \in Incoming' \cup {log[Head(old)]}
    <3>1. CASE i = 1
      BY <1>3, <3>1
    <3>2. CASE i # 1
      <4>1. log'[new[i - 1]] \in Incoming'
        BY <1>4, <3>2 DEF Incoming
      <4> QED  BY <1>1, <1>4, <3>2, <4>1
    <3> QED  BY <3>1, <3>2
  <2> QED  BY <2>1 DEF Incoming
<1>6. log[Head(old)] \in Message /\ Head(old) \in DOMAIN log
  BY <1>1, <1>2, <1>3
<1>7. Waiting \subseteq Waiting'
  <2>1. UNCHANGED m_commandBuffer \/ \E c \in Command : m_commandBuffer' = Append(m_commandBuffer, c)
    BY DispatchPushes
  <2>2. CASE UNCHANGED m_commandBuffer
    BY <2>2 DEF Waiting
  <2> QED  BY <2>1, <2>2, PushWaits DEF TypeOK
<1> QED  BY <1>5, <1>6, <1>7

(* What was waiting still is, but for what the step takes.                 *)
LEMMA StillComing ==
  ASSUME Waiting \subseteq Waiting', Incoming \subseteq Incoming', NEW x, ReadComing(x)
  PROVE  ReadComing(x)'
  BY DEF ReadComing

(* A message that adds to the requests asks for the slots it adds.         *)
LEMMA WantedAsked ==
  ASSUME TypeOK, NEW m \in Message, NEW x \in Wanted(m), Understood(m),
         m.kind \in {"actuatorGet", "actuatorSet"} => \A r, s \in m.refs : r = s
  PROVE  Asks(m, x) /\ x[1] \in m_devices /\ m.kind # "unknownChannel" /\ x \in Slots
<1>1. m_devices \subseteq Devices /\ m.refs \subseteq References
  BY DEF TypeOK, PlatformOK, Message
<1>2. CASE m.kind = "actuatorGet" /\ m.device = NoDevice /\ m.refs = {}
  BY <1>1, <1>2 DEF Wanted, Asks, Slots, References
<1>3. CASE m.kind \in {"actuatorGet", "actuatorSet"} /\ m.device # NoDevice
  <2>1. x \in ({m.device} \cap m_devices) \X (m.refs \cap Actuators)
    BY <1>3 DEF Wanted
  <2>2. m.refs = {x[2]} /\ m.device = x[1] /\ x[2] \in Actuators
    BY <1>3, <2>1
  <2> QED  BY <1>1, <1>3, <2>1, <2>2 DEF Asks, Slots, References
<1>4. CASE m.kind \in {"configurationGet", "configurationSet"} /\ m.device # NoDevice
  <2>1. /\ x \in ({m.device} \cap m_devices) \X ConfigurationItems
        /\ m.kind = "configurationSet" => m.refs \subseteq ConfigurationItems
    BY <1>4 DEF Wanted
  <2> QED  BY <1>1, <1>4, <2>1 DEF Asks, Slots, References
<1>5. CASE m.kind = "statusRequest"
  <2>1. /\ x[1] \in m_devices /\ x[2] = Status /\ x \in m_devices \X {Status}
        /\ m.device \in {NoDevice, x[1]}
    BY <1>5 DEF Wanted
  <2> QED  BY <1>1, <1>5, <2>1 DEF Asks, Slots, References
<1> QED  BY <1>2, <1>3, <1>4, <1>5 DEF Wanted

(* The service makes a command of it that reads them.                      *)
LEMMA DispatchAnswers ==
  ASSUME TypeOK, Dispatch, NEW x \in Slots, Asks(log[Head(inbound)], x)
  PROVE  \E c \in Waiting' : Reads(c, x)
<1> PICK n, m : n = Head(inbound) /\ m = log[n]
  OBVIOUS
<1>1. m \in Message /\ m_commandBuffer \in Seq(Command) /\ CommandsOK /\ x[1] \in Devices
  BY DispatchLeaves DEF TypeOK, CommandsOK, Slots
<1>2. Understood(m) /\ m.device \in {NoDevice, x[1]} /\ Asks(m, x) /\ inbound # <<>>
      /\ n \in Nat
  BY DispatchPushes, DispatchLeaves DEF Asks, TypeOK, PlatformOK
<1>3. CASE m.kind \in DataRequests
  <2> DEFINE c == [For(m.kind, m.device, m.refs) EXCEPT !.value = n]
  <2>1. m.device \in Devices \/ m.kind = "actuatorGet"
    BY <1>1, <1>2, <1>3 DEF Asks, DataRequests
  <2>2. DataCommand(m, n) = <<c>>
    BY <1>2, <2>1 DEF DataCommand
  <2>3. DataServiceReceives
    BY <1>3 DEF Dispatch, TakeMessage, DataServiceReceives, DeviceStatusServiceReceives,
       DeviceRegistrationServiceReceives, PlatformStatusServiceReceives, DataRequests,
       Responses
  <2>4. c \in Command
    <3>1. m.refs \subseteq References /\ m.device \in Devices \cup {NoDevice}
      BY <1>1 DEF Message
    <3> QED
      BY <1>2, <1>3, <2>1, <3>1
      DEF For, Plain, Command, DataRequests, Operations, DeviceOperations
  <2>5. c.op = m.kind /\ c.device = m.device /\ c.refs = m.refs
    BY DEF For, Plain
  <2> HIDE DEF c
  <2>6. m_commandBuffer' = m_commandBuffer \o <<c>>
    BY <2>2, <2>3 DEF DataServiceReceives
  <2>7. m_commandBuffer' = Append(m_commandBuffer, c)
    BY <1>1, <2>4, <2>6
  <2>8. c \in Waiting'
    BY <1>1, <2>4, <2>7, PushWaits
  <2>9. Reads(c, x)
    BY <1>2, <1>3, <2>5 DEF Asks, Reads, ReadsActuator, ReadsItem, DataRequests
  <2> QED  BY <2>8, <2>9
<1>4. CASE m.kind = "statusRequest"
  <2> DEFINE c == For("statusRequest", m.device, {})
  <2>1. DeviceStatusServiceReceives
    BY <1>4 DEF Dispatch, TakeMessage, DataServiceReceives, DeviceStatusServiceReceives,
       DeviceRegistrationServiceReceives, PlatformStatusServiceReceives, DataRequests,
       Responses
  <2>2. m_commandBuffer' = Append(m_commandBuffer, c)
    BY <2>1 DEF DeviceStatusServiceReceives
  <2>3. c \in Command
    BY <1>1, <1>2, ForTyped, HarmlessOps DEF Operations, DeviceOperations, SetOps
  <2>4. c.op = "statusRequest" /\ c.device = m.device
    BY DEF For, Plain
  <2> HIDE DEF c
  <2>5. c \in Waiting'
    BY <1>1, <2>2, <2>3, PushWaits
  <2>6. Reads(c, x)
    BY <1>2, <1>4, <2>4 DEF Asks, Reads, ReadsStatus
  <2> QED  BY <2>5, <2>6
<1> QED  BY <1>2, <1>3, <1>4 DEF Asks, DataRequests

(* Everything the devices have is read again after a Connect or when the   *)
(* platform accepts a device.                                              *)
LEMMA AssetsCovered ==
  ASSUME NEW ds \in SUBSET Devices, NEW x, x[1] \in ds,
         x[2] \in Actuators \cup ConfigurationItems
  PROVE  \E k \in DOMAIN AssetReports(ds) : Reads(AssetReports(ds)[k], x)
<1> DEFINE walk == AssetWalk[ds]
           asset == IF x[2] \in Actuators THEN x[2] ELSE Configuration
<1>1. /\ walk \in Seq(Devices \X (Actuators \cup {Configuration}))
      /\ {walk[i] : i \in DOMAIN walk} = ds \X (Actuators \cup {Configuration})
  BY WalkAssumption
<1>2. <<x[1], asset>> \in ds \X (Actuators \cup {Configuration})
  OBVIOUS
<1> HIDE DEF walk
<1>3. PICK k \in DOMAIN walk : walk[k] = <<x[1], asset>>
  BY <1>1, <1>2
<1>4. /\ k \in DOMAIN AssetReports(ds)
      /\ AssetReports(ds)[k] = IF asset = Configuration THEN For("configurationGet", x[1], {})
                               ELSE For("actuatorGet", x[1], {asset})
  <2>1. /\ k \in DOMAIN AssetWalk[ds]
        /\ AssetWalk[ds][k][1] = x[1] /\ AssetWalk[ds][k][2] = asset
    BY <1>3 DEF walk
  <2> HIDE DEF asset
  <2> QED  BY <2>1 DEF AssetReports
<1>5. CASE x[2] \in Actuators
  <2>1. asset = x[2] /\ asset # Configuration
    BY <1>5, ReferencesAssumption DEF References
  <2>2. AssetReports(ds)[k] = For("actuatorGet", x[1], {x[2]})
    BY <1>4, <2>1
  <2>3. ReadsActuator(AssetReports(ds)[k], x)
    BY <1>5, <2>2 DEF ReadsActuator, For, Plain
  <2> QED  BY <1>4, <2>3 DEF Reads
<1>6. CASE x[2] \notin Actuators
  <2>1. AssetReports(ds)[k] = For("configurationGet", x[1], {})
    BY <1>4, <1>6
  <2>2. ReadsItem(AssetReports(ds)[k], x)
    BY <1>6, <2>1 DEF ReadsItem, For, Plain
  <2> QED  BY <1>4, <2>2 DEF Reads
<1> QED  BY <1>5, <1>6

(* What is in one part of a sequence is in the whole.                      *)
LEMMA PartOfWhole ==
  ASSUME NEW S, NEW s \in Seq(S), NEW t \in Seq(S), NEW u \in Seq(S)
  PROVE  /\ s \o t \o u \in Seq(S)
         /\ \A k \in DOMAIN s : k \in DOMAIN (s \o t \o u) /\ (s \o t \o u)[k] = s[k]
         /\ \A k \in DOMAIN t : /\ Len(s) + k \in DOMAIN (s \o t \o u)
                                /\ (s \o t \o u)[Len(s) + k] = t[k]
         /\ \A k \in DOMAIN u : /\ Len(s) + Len(t) + k \in DOMAIN (s \o t \o u)
                                /\ (s \o t \o u)[Len(s) + Len(t) + k] = u[k]
  OBVIOUS

LEMMA AnnouncementsCover ==
  ASSUME m_devices \subseteq Devices
  PROVE  /\ \A x \in Slots : x[1] \in m_devices =>
              \E k \in DOMAIN Announcements(TRUE) : Reads(Announcements(TRUE)[k], x)
         /\ \E k \in DOMAIN Announcements(TRUE) : Announcements(TRUE)[k].op = "publish"
<1> PICK s, t, u : /\ s = <<Plain("registerDevices"), Plain("deviceStatuses")>>
                   /\ t = AssetReports(m_devices)
                   /\ u = <<Plain("publish")>>
  OBVIOUS
<1>1. /\ Plain("registerDevices") \in Harmless
      /\ Plain("deviceStatuses") \in Harmless
      /\ Plain("publish") \in Harmless
  BY PlainTyped DEF Operations, DeviceOperations
<1>2. s \in Seq(Harmless) /\ t \in Seq(Harmless) /\ u \in Seq(Harmless)
  BY <1>1, AssetReportsTyped
<1>3. Announcements(TRUE) = s \o t \o u
  BY DEF Announcements
<1>4. /\ 2 \in DOMAIN s /\ s[2].op = "deviceStatuses"
      /\ 1 \in DOMAIN u /\ u[1].op = "publish"
  BY DEF Plain
<1>5. ASSUME NEW x \in Slots, x[1] \in m_devices
      PROVE  \E k \in DOMAIN (s \o t \o u) : Reads((s \o t \o u)[k], x)
  <2>1. CASE x[2] = Status
    <3>1. 2 \in DOMAIN (s \o t \o u) /\ (s \o t \o u)[2] = s[2]
      BY <1>2, <1>4, PartOfWhole
    <3>2. Reads((s \o t \o u)[2], x)
      BY <1>4, <2>1, <3>1 DEF Reads, ReadsStatus
    <3> QED  BY <3>1, <3>2
  <2>2. CASE x[2] # Status
    <3>1. x[2] \in Actuators \cup ConfigurationItems
      BY <2>2 DEF Slots, References
    <3>2. PICK k \in DOMAIN t : Reads(t[k], x)
      BY <1>5, <3>1, AssetsCovered
    <3>3. Len(s) + k \in DOMAIN (s \o t \o u) /\ (s \o t \o u)[Len(s) + k] = t[k]
      BY <1>2, PartOfWhole
    <3> QED  BY <3>2, <3>3
  <2> QED  BY <2>1, <2>2
<1>6. \E k \in DOMAIN (s \o t \o u) : (s \o t \o u)[k].op = "publish"
  <2>1. /\ Len(s) + Len(t) + 1 \in DOMAIN (s \o t \o u)
        /\ (s \o t \o u)[Len(s) + Len(t) + 1] = u[1]
    BY <1>2, <1>4, PartOfWhole
  <2> QED  BY <1>4, <2>1
<1> QED  BY <1>3, <1>5, <1>6

LEMMA ConnectAnnounces ==
  ASSUME TypeOK, ConnectSucceeds, command.yes
  PROVE  /\ \A x \in Slots : x[1] \in m_devices => \E c \in Waiting' : Reads(c, x)
         /\ Waits("publish")'
<1>1. m_devices \subseteq Devices
  BY DEF TypeOK, PlatformOK
<1>2. PICK now \in BOOLEAN : now = command.yes
  BY WorkerWaits, CommandFields DEF Worker
<1>3. PICK pushed : pushed = Announcements(TRUE)
  OBVIOUS
<1>4. pushed \in Seq(Command)
  BY <1>1, <1>3, AnnouncementsTyped, HarmlessCommands
<1>5. Run("connect", pushed)
  BY <1>2, <1>3 DEF ConnectSucceeds
<1>6. \A k \in DOMAIN pushed : pushed[k] \in Waiting'
  BY <1>4, <1>5, RunWaits DEF TypeOK
<1>7. /\ \A x \in Slots : x[1] \in m_devices => \E k \in DOMAIN pushed : Reads(pushed[k], x)
      /\ \E k \in DOMAIN pushed : pushed[k].op = "publish"
  BY <1>1, <1>3, AnnouncementsCover
<1>8. \E c \in Waiting' : c.op = "publish"
  BY <1>6, <1>7
<1> QED  BY <1>6, <1>7, <1>8 DEF Waits

LEMMA ResponseReads ==
  ASSUME TypeOK, HandleRegistrationResponse, command.yes, NEW x \in Slots, x[2] # Status,
         x[1] = command.device, x[1] \in m_devices
  PROVE  \E c \in Waiting' : Reads(c, x)
<1>1. PICK pushed : pushed = AssetReports({x[1]})
  OBVIOUS
<1>2. x[1] \in Devices /\ x[2] \in Actuators \cup ConfigurationItems
  BY DEF Slots, References
<1>3. pushed \in Seq(Command)
  BY <1>1, <1>2, AssetReportsTyped, HarmlessCommands
<1>4. Run("response", pushed)
  BY <1>1 DEF HandleRegistrationResponse
<1>5. \A k \in DOMAIN pushed : pushed[k] \in Waiting'
  BY <1>3, <1>4, RunWaits DEF TypeOK
<1> QED  BY <1>1, <1>2, <1>5, AssetsCovered

(* The command at the head tells which step of the worker runs.            *)
LEMMA ByOperation ==
  ASSUME Worker
  PROVE  /\ command.op = "actuatorGet" => HandleActuatorGetCommand
         /\ command.op = "actuatorSet" => HandleActuatorSetCommand
         /\ command.op = "configurationGet" => HandleConfigurationGetCommand
         /\ command.op = "configurationSet" => HandleConfigurationSetCommand
         /\ command.op = "statusRequest" => HandleDeviceStatusRequest
         /\ command.op = "deviceStatuses" => PublishDeviceStatuses
         /\ command.op = "deviceStatus" => RunDeviceStatus
         /\ command.op = "response" => HandleRegistrationResponse
         /\ command.op = "publish" => PublishAll
         /\ command.op = "connect" => ConnectSucceeds \/ ConnectFails
  BY DEF Worker, Run, HandleActuatorGetCommand, HandleConfigurationGetCommand,
     HandleActuatorSetCommand, HandleConfigurationSetCommand,
     HandleDeviceStatusRequest, PublishDeviceStatuses, RunDeviceStatus,
     HandleRegistrationResponse, ConnectSucceeds, ConnectFails, Disconnect, RegisterDevices,
     RegisterDevice, AddDevice, RemoveDevice, PublishAll, DirectActuatorStatus,
     DirectConfiguration, AddDeviceStatus, PublishDeviceStatus

LEMMA ReportTells ==
  ASSUME NEW s \in [Slots -> Nat], NEW slots, NEW sending, Report(s, slots, sending),
         NEW x \in Slots, x \in slots
  PROVE  /\ x \notin unread'
         /\ linkUp /\ x \in sending => told'[x] = s[x] \/ x \in discarded'
<1> DEFINE kept == Put(s, slots)
<1>1. kept[x] = s[x] /\ s[x] # Nothing
  BY DEF Put, Nothing
<1>2. Send(kept, sending)
  BY DEF Report
<1> HIDE DEF kept
<1>3. PICK sent \in SUBSET sending, gone \in SUBSET sending :
        SentOrGone(kept, sending, sent, gone)
  BY <1>2, SendFacts
<1>4. linkUp /\ x \in sending => x \in sent \cup gone
  BY <1>1, <1>3 DEF SentOrGone
<1>5. linkUp /\ x \in sending => told'[x] = s[x] \/ x \in discarded'
  BY <1>1, <1>3, <1>4 DEF SentOrGone
<1> QED  BY <1>5 DEF Report

(* Carrying out a command that reads a slot answers all that was asked of  *)
(* it, and tells its state or discards it, or pushes a command that will.  *)
LEMMA HeadReads ==
  ASSUME TypeOK, TypeOK', Worker, linkUp, NEW x \in Slots, x[1] \in m_devices,
         Reads(command, x)
  PROVE  \/ \E c \in Waiting' : Reads(c, x)
         \/ /\ x \notin unread'
            /\ x[2] # Status => told'[x] = state'[x] \/ x \in discarded'
<1> USE DEF ActuatorSlots, ConfigurationSlots
<1>1. PICK c : c = command /\ c \in Command /\ Reads(c, x)
  BY WorkerWaits
<1>2. PICK s \in [Slots -> Nat] : s = state'
  BY DEF TypeOK, ReportsOK
<1>3. x = <<x[1], x[2]>> /\ x[1] \in Devices /\ m_devices \subseteq Devices
  BY DEF Slots, TypeOK, PlatformOK
<1>4. CASE ReadsActuator(c, x)
  <2>1. PICK slots : x \in slots /\ Report(s, slots, ActuatorSlots)
    <3>1. CASE c.op = "actuatorGet"
      <4>1. HandleActuatorGetCommand /\ UNCHANGED state
        BY <1>1, <3>1, ByOperation DEF HandleActuatorGetCommand
      <4>2. CASE c.device = NoDevice /\ c.refs = {}
        <5>1. x \in m_devices \X Actuators
          BY <1>3, <1>4 DEF ReadsActuator
        <5>2. Report(state, m_devices \X Actuators, ActuatorSlots)
          <6>1. m_devices \X Actuators # {}
            BY <5>1
          <6> QED  BY <1>1, <4>1, <4>2, <6>1 DEF HandleActuatorGetCommand
        <5>3. Report(s, m_devices \X Actuators, ActuatorSlots)
          BY <1>2, <4>1, <5>2
        <5> QED  BY <5>1, <5>3
      <4>3. CASE c.device = x[1] /\ c.refs = {x[2]}
        <5>1. x \in {c.device} \X c.refs /\ c.refs \subseteq Actuators /\ c.refs # {}
          BY <1>3, <1>4, <4>3 DEF ReadsActuator
        <5>2. Report(state, {c.device} \X c.refs, ActuatorSlots)
          <6>1. command.refs # {} /\ {command.device} \X command.refs # {}
            BY <1>1, <5>1
          <6>2. Defined(command.device, command.refs, Actuators)
            BY <1>1, <4>3, <5>1
          <6> HIDE DEF Defined
          <6>3. Report(state, {command.device} \X command.refs, ActuatorSlots)
            BY <4>1, <6>1, <6>2 DEF HandleActuatorGetCommand
          <6> QED  BY <1>1, <6>3
        <5>3. Report(s, {c.device} \X c.refs, ActuatorSlots)
          BY <1>2, <4>1, <5>2
        <5> QED  BY <5>1, <5>3
      <4> QED  BY <1>4, <3>1, <4>2, <4>3 DEF ReadsActuator
    <3>2. CASE c.op = "actuatorSet"
      <4>1. HandleActuatorSetCommand
        BY <1>1, <3>2, ByOperation
      <4>2. x \in {c.device} \X c.refs /\ c.refs \subseteq Actuators /\ c.device = x[1]
        BY <1>3, <1>4, <3>2 DEF ReadsActuator
      <4>3. Report(state', {c.device} \X c.refs, ActuatorSlots)
        BY <1>1, <4>1, <4>2 DEF HandleActuatorSetCommand
      <4> QED  BY <1>2, <4>2, <4>3
    <3> QED  BY <1>4, <3>1, <3>2 DEF ReadsActuator
  <2>2. x \in ActuatorSlots
    BY <1>3, <1>4 DEF ReadsActuator
  <2> QED  BY <1>2, <2>1, <2>2, ReportTells
<1>5. CASE ReadsItem(c, x)
  <2>1. x \in {x[1]} \X ConfigurationItems /\ x \in ConfigurationSlots /\ c.device = x[1]
    BY <1>3, <1>5 DEF ReadsItem
  <2>2. Report(s, {x[1]} \X ConfigurationItems, ConfigurationSlots)
    <3>1. CASE c.op = "configurationGet"
      <4>1. HandleConfigurationGetCommand /\ UNCHANGED state
        BY <1>1, <3>1, ByOperation DEF HandleConfigurationGetCommand
      <4>2. Report(state, {x[1]} \X ConfigurationItems, ConfigurationSlots)
        BY <1>1, <2>1, <4>1 DEF HandleConfigurationGetCommand
      <4> QED  BY <1>2, <4>1, <4>2
    <3>2. CASE c.op = "configurationSet" /\ c.refs \subseteq ConfigurationItems
      <4>1. HandleConfigurationSetCommand
        BY <1>1, <3>2, ByOperation
      <4>2. Report(state', {x[1]} \X ConfigurationItems, ConfigurationSlots)
        BY <1>1, <2>1, <3>2, <4>1 DEF HandleConfigurationSetCommand
      <4> QED  BY <1>2, <4>2
    <3> QED  BY <1>5, <3>1, <3>2 DEF ReadsItem
  <2> QED  BY <1>2, <2>1, <2>2, ReportTells
<1>6. CASE ReadsStatus(c, x)
  <2>1. x = <<x[1], Status>> /\ x[2] = Status
    BY <1>3, <1>6 DEF ReadsStatus
  <2>2. CASE c.op = "deviceStatuses"
    <3>1. PICK pushed : pushed = EachStatus
      OBVIOUS
    <3>2. pushed \in Seq(Command) /\ Run("deviceStatuses", pushed)
      BY <1>1, <1>3, <2>2, <3>1, EachStatusTyped, HarmlessCommands, ByOperation
      DEF PublishDeviceStatuses
    <3>3. \A k \in DOMAIN pushed : pushed[k] \in Waiting'
      BY <3>2, RunWaits DEF TypeOK
    <3>4. PICK k \in DOMAIN Walk[m_devices] : Walk[m_devices][k] = x[1]
      <4>1. {Walk[m_devices][i] : i \in DOMAIN Walk[m_devices]} = m_devices
        BY <1>3, WalkAssumption
      <4> QED  BY <4>1
    <3>5. k \in DOMAIN pushed /\ pushed[k] = For("deviceStatus", x[1], {})
      BY <3>1, <3>4 DEF EachStatus
    <3>6. Reads(pushed[k], x)
      BY <2>1, <3>5 DEF Reads, ReadsStatus, For, Plain
    <3> QED  BY <3>3, <3>5, <3>6
  <2>3. CASE c.op = "statusRequest" /\ c.device = NoDevice
    <3>1. PICK e : e = Plain("deviceStatuses")
      OBVIOUS
    <3>2. e \in Command /\ e.op = "deviceStatuses"
      BY <3>1, PlainTyped, HarmlessOps DEF Operations, DeviceOperations, Plain
    <3>3. HandleDeviceStatusRequest
      BY <1>1, <2>3, ByOperation
    <3>4. Run("statusRequest", <<e>>)
      BY <1>1, <2>3, <3>1, <3>3 DEF HandleDeviceStatusRequest
    <3>5. <<e>> \in Seq(Command) /\ 1 \in DOMAIN <<e>> /\ <<e>>[1] = e
      BY <3>2
    <3>6. \A k \in DOMAIN <<e>> : <<e>>[k] \in Waiting'
      BY <3>4, <3>5, RunWaits DEF TypeOK
    <3>7. Reads(e, x)
      BY <2>1, <3>2 DEF Reads, ReadsStatus
    <3> QED  BY <3>5, <3>6, <3>7
  <2>4. CASE c.op \in {"statusRequest", "deviceStatus"} /\ c.device = x[1]
    <3>1. ReportStatus(x[1])
      BY <1>1, <2>4, ByOperation DEF HandleDeviceStatusRequest, RunDeviceStatus
    <3> QED  BY <2>1, <3>1 DEF ReportStatus
  <2> QED  BY <1>6, <2>2, <2>3, <2>4 DEF ReadsStatus
<1> QED  BY <1>1, <1>4, <1>5, <1>6 DEF Reads

(* What a report leaves owed.                                              *)
LEMMA ReportOwes ==
  ASSUME NEW s, NEW slots, NEW sending, Report(s, slots, sending),
         \A x \in slots : x[2] # Status
  PROVE  /\ unread' \subseteq unread /\ unsent' \subseteq unsent \cup unread
         /\ linkUp => unsent' \subseteq unsent \ sending
         /\ \A x \in unsent' : x \in unsent \/ x[2] # Status
  BY DEF Report

(* The worker owes no more than before, and all of it to devices held; a   *)
(* session is opened by a Connect, or with nothing announced.              *)
Owes ==
  /\ unread' \subseteq unread /\ unsent' \subseteq unsent \cup unread
  /\ accepted' \subseteq accepted
  /\ linkUp => unsent' \subseteq unsent
  /\ \A x \in unsent' : x \in unsent \/ x[2] # Status
  /\ \A x \in unread' \cup unsent' : x[1] \in m_devices => x[1] \in m_devices'
  /\ linkUp' /\ ~linkUp => ConnectSucceeds \/ NothingAnnounced

LEMMA ReadingsOwe ==
  ASSUME \/ HandleActuatorGetCommand \/ HandleActuatorSetCommand
         \/ HandleConfigurationGetCommand \/ HandleConfigurationSetCommand
         \/ PublishAll
  PROVE  Owes
<1> USE DEF ActuatorSlots, ConfigurationSlots
<1>1. \/ UNCHANGED reports
      \/ \E s, slots, sending : /\ Report(s, slots, sending)
                                /\ \A x \in slots : x[2] # Status
  <2>1. CASE HandleActuatorGetCommand
    BY <2>1, ReferencesAssumption DEF HandleActuatorGetCommand
  <2>2. CASE HandleActuatorSetCommand
    BY <2>2, ReferencesAssumption DEF HandleActuatorSetCommand
  <2>3. CASE HandleConfigurationGetCommand
    BY <2>3, ReferencesAssumption DEF HandleConfigurationGetCommand
  <2>4. CASE HandleConfigurationSetCommand
    BY <2>4, ReferencesAssumption DEF HandleConfigurationSetCommand
  <2>5. CASE PublishAll
    <3>1. \A x \in {} : x[2] # Status
      OBVIOUS
    <3> QED  BY <2>5, <3>1 DEF PublishAll
  <2> QED  BY <2>1, <2>2, <2>3, <2>4, <2>5
<1>2. /\ unread' \subseteq unread /\ unsent' \subseteq unsent \cup unread
      /\ linkUp => unsent' \subseteq unsent
      /\ \A x \in unsent' : x \in unsent \/ x[2] # Status
  BY <1>1, ReportOwes
<1>3. UNCHANGED <<m_devices, linkUp, accepted>>
  BY DEF HandleActuatorGetCommand, HandleActuatorSetCommand,
     HandleConfigurationGetCommand, HandleConfigurationSetCommand, PublishAll
<1> QED  BY <1>2, <1>3 DEF Owes

LEMMA WorkerOwes ==
  ASSUME TypeOK, Worker
  PROVE  Owes
<1>1. CASE HandleDeviceStatusRequest \/ RunDeviceStatus
  <2>1. UNCHANGED <<m_devices, linkUp, accepted>>
    BY <1>1 DEF HandleDeviceStatusRequest, RunDeviceStatus
  <2>2. unread' \subseteq unread /\ UNCHANGED unsent
    BY <1>1 DEF HandleDeviceStatusRequest, RunDeviceStatus, ReportStatus
  <2> QED  BY <2>1, <2>2 DEF Owes
<1>2. CASE \/ PublishDeviceStatuses \/ HandleRegistrationResponse
           \/ RegisterDevices \/ RegisterDevice
           \/ DirectActuatorStatus \/ DirectConfiguration
           \/ AddDeviceStatus \/ PublishDeviceStatus
  <2>1. UNCHANGED <<m_devices, linkUp, accepted, unread, unsent>>
    BY <1>2
    DEF PublishDeviceStatuses, HandleRegistrationResponse, RegisterDevices, RegisterDevice,
        DirectActuatorStatus, DirectConfiguration, AddDeviceStatus, PublishDeviceStatus,
        DirectStatus
  <2> QED  BY <2>1 DEF Owes
<1>3. CASE ConnectSucceeds \/ ConnectFails \/ Disconnect
  <2>1. UNCHANGED m_devices /\ (linkUp' => ConnectSucceeds)
    BY <1>3 DEF ConnectFails, Disconnect, ConnectSucceeds
  <2>2. \/ UNCHANGED <<unread, unsent, accepted>>
        \/ unread' = {} /\ unsent' = {} /\ accepted' = {}
    BY <1>3 DEF ConnectSucceeds, ConnectFails, Disconnect, NothingAnnounced
  <2> QED  BY <2>1, <2>2 DEF Owes
<1>4. CASE AddDevice
  <2>1. /\ unread' \subseteq unread /\ unsent' \subseteq unsent
        /\ accepted' \subseteq accepted
        /\ m_devices' = m_devices \cup {command.device}
        /\ linkUp' /\ ~linkUp => NothingAnnounced
    BY <1>4, AddedOwes
  <2> QED  BY <2>1 DEF Owes
<1>5. CASE RemoveDevice
  BY <1>5 DEF RemoveDevice, Owes
<1> QED  BY <1>1, <1>2, <1>3, <1>4, <1>5, ReadingsOwe DEF Worker

(* A step of the worker on a live link answers what the command it carries *)
(* out reads, and the rest goes on waiting; a session it opens has all     *)
(* read again, or makes up for nothing.                                    *)
LEMMA WorkerReads ==
  ASSUME TypeOK, TypeOK', Worker, linkUp', NEW x \in Slots, x[1] \in m_devices,
         linkUp => ReadComing(x)
  PROVE  \/ ReadComing(x)'
         \/ /\ linkUp /\ x \notin unread'
            /\ x[2] # Status => told'[x] = state'[x] \/ x \in discarded'
         \/ NothingAnnounced
<1>1. CASE ConnectSucceeds
  <2>1. CASE command.yes
    BY <1>1, <2>1, ConnectAnnounces DEF ReadComing
  <2>2. CASE ~command.yes
    BY <1>1, <2>2 DEF ConnectSucceeds
  <2> QED  BY <2>1, <2>2
<1>2. CASE ~linkUp /\ ~ConnectSucceeds
  BY <1>2, WorkerOwes DEF Owes
<1>3. CASE linkUp
  <2>1. CASE Reads(command, x)
    BY <1>3, <2>1, HeadReads DEF ReadComing
  <2>2. ASSUME NEW c \in Waiting, Reads(c, x), ~Reads(command, x)
        PROVE  ReadComing(x)'
    BY <2>2, WorkerWaits DEF ReadComing
  <2>3. ASSUME NEW m \in Incoming, Asks(m, x)
        PROVE  ReadComing(x)'
    BY <2>3, WorkerWaits DEF ReadComing
  <2> QED  BY <1>3, <2>1, <2>2, <2>3 DEF ReadComing
<1> QED  BY <1>1, <1>2, <1>3

LEMMA WorkerAnswers ==
  ASSUME TypeOK, TypeOK', AnswerInv, Worker
  PROVE  AnswerInv'
<1>1. Owes
  BY WorkerOwes
<1>2. unread \subseteq Slots
  BY DEF TypeOK, PlatformOK
<1>3. HeldInv'
  <2>1. \A x \in unread \cup unsent : x[1] \in m_devices
    BY DEF AnswerInv, HeldInv
  <2>2. ASSUME NEW x \in unread' \cup unsent'
        PROVE  x[1] \in m_devices'
    <3>1. x \in unread \cup unsent
      BY <1>1 DEF Owes
    <3> QED  BY <1>1, <2>1, <3>1 DEF Owes
  <2>3. \A x \in unsent' : x[2] # Status
    BY <1>1 DEF Owes, AnswerInv, HeldInv
  <2> QED  BY <2>2, <2>3 DEF HeldInv
<1>4. ASSUME linkUp'
      PROVE  SendInv'
  <2>1. CASE ConnectSucceeds
    <3>1. CASE command.yes
      BY <2>1, <3>1, ConnectAnnounces DEF SendInv
    <3>2. CASE ~command.yes
      BY <2>1, <3>2 DEF ConnectSucceeds, NothingAnnounced, SendInv
    <3> QED  BY <3>1, <3>2
  <2>2. CASE ~ConnectSucceeds /\ ~linkUp
    BY <1>1, <1>4, <2>2 DEF Owes, NothingAnnounced, SendInv
  <2>3. CASE linkUp
    <3>1. CASE command.op = "publish"
      <4>1. Report(state, {}, ActuatorSlots \cup ConfigurationSlots)
        BY <3>1, ByOperation DEF PublishAll
      <4>2. unsent' \subseteq unsent \ (ActuatorSlots \cup ConfigurationSlots)
        BY <2>3, <4>1 DEF Report
      <4>3. unsent \subseteq Slots /\ \A x \in unsent : x[2] # Status
        BY DEF TypeOK, PlatformOK, AnswerInv, HeldInv
      <4>4. unsent' = {}
        BY <4>2, <4>3 DEF ActuatorSlots, ConfigurationSlots, Slots, References
      <4> QED  BY <4>4 DEF SendInv
    <3>2. CASE command.op # "publish"
      <4>1. Waits("publish") => Waits("publish")'
        BY <3>2, WorkerWaits DEF Waits
      <4> QED  BY <1>1, <2>3, <4>1 DEF Owes, AnswerInv, SendInv
    <3> QED  BY <3>1, <3>2
  <2> QED  BY <2>1, <2>2, <2>3
<1>5. ASSUME linkUp'
      PROVE  ReadInv'
  <2>1. ASSUME NEW x \in unread'
        PROVE  ReadComing(x)'
    <3>1. /\ x \in unread /\ x \in Slots /\ x[1] \in m_devices
          /\ linkUp => ReadComing(x)
      BY <1>1, <1>2, <2>1 DEF Owes, AnswerInv, HeldInv, ReadInv
    <3> QED  BY <1>5, <2>1, <3>1, WorkerReads DEF NothingAnnounced
  <2> QED  BY <2>1 DEF ReadInv
<1> QED  BY <1>3, <1>4, <1>5 DEF AnswerInv

(* A connection lost, and a call of the application, wait like the others. *)
LEMMA LostWaits ==
  ASSUME TypeOK, ConnectionLost
  PROVE  Waiting \subseteq Waiting' /\ Incoming' = Incoming
<1>1. PICK c : c = [Plain("connect") EXCEPT !.yes = TRUE]
  OBVIOUS
<1>2. c \in Command
  BY <1>1, PlainTyped, HarmlessOps DEF Operations, DeviceOperations
<1>3. m_commandBuffer' = Append(m_commandBuffer, c) /\ UNCHANGED <<log, inbound>>
  BY <1>1 DEF ConnectionLost
<1> QED  BY <1>2, <1>3, PushWaits DEF TypeOK, Incoming

LEMMA CallWaits ==
  ASSUME TypeOK, ApiCall
  PROVE  Waiting \subseteq Waiting' /\ Incoming' = Incoming
<1>1. PICK c \in calls : \E value \in PassedValues(c) :
        m_commandBuffer' = Append(m_commandBuffer, [c EXCEPT !.value = value])
  BY DEF ApiCall
<1>2. PICK value \in PassedValues(c) :
        m_commandBuffer' = Append(m_commandBuffer, [c EXCEPT !.value = value])
  BY <1>1
<1>3. c \in ApiCommands /\ c \in Command /\ (c.op \in Direct => c.device \in Devices)
  BY DEF TypeOK, PlatformOK, ApiCommands, Command, Direct, DeviceOperations
<1>4. value \in Nat
  BY <1>3, CommandFields DEF PassedValues, TypeOK, ReportsOK, Slots
<1>5. [c EXCEPT !.value = value] \in Command
  BY <1>3, <1>4, ApiCommandsHarmless, HarmlessOps
<1> QED  BY <1>2, <1>5, PushWaits DEF TypeOK, Incoming, ApiCall

(* What the platform sends is a request it adds to those of its slots.     *)
LEMMA ReceptionOwes ==
  ASSUME TypeOK, NEW m \in Message, InboundMessageReceived(m),
         m.kind \in {"actuatorGet", "actuatorSet"} => \A r, s \in m.refs : r = s
  PROVE  /\ unsent' \subseteq unsent
         /\ \A x \in unread' : \/ x \in unread
                               \/ Asks(m, x) /\ x[1] \in m_devices /\ m \in Incoming'
<1>1. unsent' \subseteq unsent
  BY DEF InboundMessageReceived
<1>2. ASSUME NEW x \in unread', x \notin unread
      PROVE  Asks(m, x) /\ x[1] \in m_devices /\ m \in Incoming'
  <2>1. Understood(m) /\ x \in Wanted(m)
    BY <1>2 DEF InboundMessageReceived
  <2> QED  BY <2>1, WantedAsked, ReceptionJoins
<1> QED  BY <1>1, <1>2

LEMMA ReceptionAnswers ==
  ASSUME TypeOK, AnswerInv, linkUp, UNCHANGED linkUp,
         NEW m \in Message, InboundMessageReceived(m),
         m.kind \in {"actuatorGet", "actuatorSet"} => \A r, s \in m.refs : r = s
  PROVE  AnswerInv'
<1>1. /\ unsent' \subseteq unsent
      /\ \A x \in unread' : \/ x \in unread
                            \/ Asks(m, x) /\ x[1] \in m_devices /\ m \in Incoming'
  BY ReceptionOwes
<1>2. UNCHANGED m_devices
  BY DEF InboundMessageReceived
<1>3. Waiting \subseteq Waiting' /\ Incoming \subseteq Incoming'
  BY ReceptionJoins
<1>4. HeldInv'
  BY <1>1, <1>2 DEF AnswerInv, HeldInv
<1>5. SendInv'
  BY <1>1, <1>3 DEF AnswerInv, SendInv, Waits
<1>6. ReadInv'
  <2>1. ASSUME NEW x \in unread'
        PROVE  ReadComing(x)'
    <3>1. CASE x \in unread
      BY <1>3, <3>1, StillComing DEF AnswerInv, ReadInv
    <3>2. CASE x \notin unread
      BY <1>1, <3>2 DEF ReadComing
    <3> QED  BY <3>1, <3>2
  <2> QED  BY <2>1 DEF ReadInv
<1> QED  BY <1>4, <1>5, <1>6 DEF AnswerInv

LEMMA DispatchReads ==
  ASSUME TypeOK, Dispatch, NEW x \in Slots, ReadComing(x)
  PROVE  ReadComing(x)'
<1>1. CASE \E c \in Waiting : Reads(c, x)
  BY <1>1, DispatchLeaves DEF ReadComing
<1>2. ASSUME NEW m \in Incoming, Asks(m, x)
      PROVE  ReadComing(x)'
  BY <1>2, DispatchLeaves, DispatchAnswers DEF ReadComing
<1> QED  BY <1>1, <1>2 DEF ReadComing

LEMMA DispatchKeepsAnswers ==
  ASSUME TypeOK, AnswerInv, Dispatch
  PROVE  AnswerInv'
<1>1. UNCHANGED <<m_devices, linkUp, unread, unsent, accepted>>
  BY DispatchTakes
<1>2. HeldInv'
  BY <1>1 DEF AnswerInv, HeldInv
<1>3. linkUp => SendInv'
  BY <1>1, DispatchLeaves DEF AnswerInv, SendInv, Waits
<1>4. linkUp => ReadInv'
  BY <1>1, DispatchReads DEF AnswerInv, ReadInv, TypeOK, PlatformOK
<1> QED  BY <1>1, <1>2, <1>3, <1>4 DEF AnswerInv

(* Steps that only add to the buffers.                                     *)
LEMMA AddedAnswers ==
  ASSUME AnswerInv, Waiting \subseteq Waiting', Incoming \subseteq Incoming',
         linkUp' => linkUp,
         UNCHANGED <<m_devices, unread, unsent, accepted>>
  PROVE  AnswerInv'
<1>1. HeldInv'
  BY DEF AnswerInv, HeldInv
<1>2. linkUp => SendInv'
  BY DEF AnswerInv, SendInv, Waits
<1>3. linkUp => ReadInv'
  BY StillComing DEF AnswerInv, ReadInv
<1> QED  BY <1>1, <1>2, <1>3 DEF AnswerInv

(* The platform asks by one reference, and answers by none.                *)
LEMMA OneReference ==
  ASSUME TypeOK, PlatformAsks \/ PlatformAnswers
  PROVE  /\ linkUp /\ UNCHANGED linkUp
         /\ \E m \in Message :
              /\ InboundMessageReceived(m)
              /\ m.kind \in {"actuatorGet", "actuatorSet"} => \A r, s \in m.refs : r = s
<1>1. CASE PlatformAsks
  <2>1. PICK m \in PlatformMessages : InboundMessageReceived(m)
    BY <1>1 DEF PlatformAsks
  <2>2. m \in Message
    BY PlatformAssumption
  <2>3. m.kind \in {"actuatorGet", "actuatorSet"} => \A r, s \in m.refs : r = s
    BY PlatformAssumption
  <2> QED  BY <1>1, <2>1, <2>2, <2>3 DEF PlatformAsks
<1>2. CASE PlatformAnswers
  <2>1. PICK d \in Devices, answer \in Answers :
          InboundMessageReceived([kind |-> answer[1], device |-> d, refs |-> {},
                                  readable |-> answer[2]])
    BY <1>2 DEF PlatformAnswers
  <2>2. PICK m : m = [kind |-> answer[1], device |-> d, refs |-> {}, readable |-> answer[2]]
    OBVIOUS
  <2>3. m \in Message /\ m.refs = {} /\ InboundMessageReceived(m)
    BY <2>1, <2>2, PlatformAssumption DEF Message
  <2> QED  BY <1>2, <2>3 DEF PlatformAnswers
<1> QED  BY <1>1, <1>2

LEMMA NextAnswers ==
  ASSUME TypeOK, AnswerInv, [Next]_vars
  PROVE  AnswerInv'
<1>1. TypeOK'
  BY NextTyped
<1>2. CASE PlatformAsks \/ PlatformAnswers
  BY <1>2, OneReference, ReceptionAnswers
<1>3. CASE ConnectionLost
  BY <1>3, LostWaits, AddedAnswers DEF ConnectionLost
<1>4. CASE ApiCall
  BY <1>4, CallWaits, AddedAnswers DEF ApiCall
<1>5. CASE TellListener \/ UNCHANGED vars
  <2>1. UNCHANGED <<m_commandBuffer, inbound, log, linkUp, m_devices, unread, unsent,
                    accepted>>
    BY <1>5 DEF TellListener, vars
  <2>2. Waiting' = Waiting /\ Incoming' = Incoming
    BY <2>1 DEF Waiting, Incoming
  <2> QED  BY <2>1, <2>2, AddedAnswers
<1>6. CASE Dispatch
  BY <1>6, DispatchKeepsAnswers
<1>7. CASE Worker
  BY <1>1, <1>7, WorkerAnswers
<1> QED  BY <1>2, <1>3, <1>4, <1>5, <1>6, <1>7 DEF Next

LEMMA InitAnswers ==
  ASSUME Init
  PROVE  AnswerInv
  BY DEF Init, AnswerInv, HeldInv

LEMMA NothingComes ==
  ASSUME Settled
  PROVE  Waiting = {} /\ Incoming = {}
<1>1. DOMAIN m_commandBuffer = {} /\ DOMAIN inbound = {}
  BY DEF Settled
<1> QED  BY <1>1 DEF Waiting, Incoming

(* Every request that came while the device was held, of one device or of  *)
(* all, is answered by a report read after it came, however messages,      *)
(* calls and losses of the connection interleave on the way.               *)
THEOREM EveryRequestAnswered == Spec => []RequestsAreAnswered
<1> DEFINE Inv == TypeOK /\ AnswerInv
<1>1. Init => Inv
  BY InitTyped, InitAnswers
<1>2. Inv /\ [Next]_vars => Inv'
  BY NextTyped, NextAnswers
<1>3. Inv => RequestsAreAnswered
  <2> SUFFICES ASSUME AnswerInv, Settled, linkUp
               PROVE  unread = {} /\ unsent = {}
    BY DEF RequestsAreAnswered
  <2>1. Waiting = {} /\ Incoming = {}
    BY NothingComes
  <2>2. unsent = {}
    BY <2>1 DEF AnswerInv, SendInv, Waits
  <2>3. unread = {}
    BY <2>1 DEF AnswerInv, ReadInv, ReadComing
  <2> QED  BY <2>2, <2>3
<1> HIDE DEF Inv
<1> QED  BY <1>1, <1>2, <1>3, PTL DEF Spec

-----------------------------------------------------------------------------
(* State.  On a live link, what the platform does not know of a device it  *)
(* accepted is on its way to it: a command will read it, or the device's   *)
(* acceptance, with which it is read, has yet to arrive.                   *)

Acceptance(m, d) == m.kind = "registered" /\ m.device = d /\ m.readable

Accepts(c, d) == c.op = "response" /\ c.device = d /\ c.yes

AnswerComing(d) ==
  \/ \E c \in Waiting : Accepts(c, d)
  \/ \E m \in Incoming : Acceptance(m, d)

Coming(x) == ReadComing(x) \/ AnswerComing(x[1])

Known(x) == x \in direct \cup discarded \/ told[x] = state[x] \/ Coming(x)

Assets == {x \in Slots : x[2] # Status}

KnowInv == linkUp => \A x \in Assets : x[1] \in accepted => Known(x)

(* A set command that is obeyed on a live link is reported at once, or its *)
(* report is discarded.                                                    *)
LEMMA ChangesTold ==
  ASSUME TypeOK, TypeOK', Worker, linkUp, NEW x \in Slots, state'[x] # state[x]
  PROVE  told'[x] = state'[x] \/ x \in discarded'
<1> USE DEF ActuatorSlots, ConfigurationSlots
<1>1. PICK c : c = command /\ c \in Command
  BY WorkerWaits
<1>2. PICK s \in [Slots -> Nat] : s = state'
  BY DEF TypeOK, ReportsOK
<1>3. state \in [Slots -> Nat] /\ m_devices \subseteq Devices
  BY DEF TypeOK, ReportsOK, PlatformOK
<1>4. CASE HandleActuatorSetCommand
  <2>1. /\ Obey({c.device} \X c.refs, c.value)
        /\ Report(state', {c.device} \X c.refs, ActuatorSlots)
        /\ c.device \in m_devices /\ c.refs \subseteq Actuators
    BY <1>1, <1>4 DEF HandleActuatorSetCommand
  <2>2. x \in {c.device} \X c.refs
    BY <2>1 DEF Obey
  <2>3. x \in ActuatorSlots
    BY <1>3, <2>1, <2>2
  <2>4. Report(s, {c.device} \X c.refs, ActuatorSlots)
    BY <1>2, <2>1
  <2> QED  BY <1>2, <2>2, <2>3, <2>4, ReportTells
<1>5. CASE HandleConfigurationSetCommand
  <2>1. /\ Obey({c.device} \X c.refs, c.value)
        /\ Report(state', {c.device} \X ConfigurationItems, ConfigurationSlots)
        /\ c.device \in m_devices /\ c.refs \subseteq ConfigurationItems
    BY <1>1, <1>5 DEF HandleConfigurationSetCommand
  <2>2. x \in {c.device} \X ConfigurationItems
    BY <2>1 DEF Obey
  <2>3. x \in ConfigurationSlots
    BY <1>3, <2>1, <2>2
  <2>4. Report(s, {c.device} \X ConfigurationItems, ConfigurationSlots)
    BY <1>2, <2>1
  <2> QED  BY <1>2, <2>2, <2>3, <2>4, ReportTells
<1>6. command.op \in SetOps
  BY WorkerStates
<1> QED  BY <1>4, <1>5, <1>6, ByOperation DEF SetOps

(* ... and so the platform goes on knowing what it knew.                   *)
LEMMA WorkerGoesOnKnowing ==
  ASSUME TypeOK, TypeOK', Worker, linkUp, NEW x \in Slots,
         told[x] = state[x], InOrderAt(x)', Told(x)
  PROVE  told'[x] = state'[x] \/ x \in discarded'
<1>1. CASE state'[x] = state[x]
  <2>1. told'[x] <= state'[x] /\ told'[x] >= told[x]
    BY DEF InOrderAt, Told
  <2>2. told'[x] \in Int /\ state[x] \in Nat
    BY DEF TypeOK, ReportsOK, Nothing
  <2> QED  BY <1>1, <2>1, <2>2
<1>2. CASE state'[x] # state[x]
  BY <1>2, ChangesTold
<1> QED  BY <1>1, <1>2

(* A slot whose report was discarded is so no more once one of it is sent, *)
(* and that one tells its state.                                           *)
LEMMA SentAfterDiscarded ==
  ASSUME NEW x \in Slots, x \in discarded, x \notin discarded',
         NEW kept, NEW sending, Send(kept, sending),
         kept[x] # Nothing => kept[x] = state'[x]
  PROVE  told'[x] = state'[x]
<1>1. PICK sent \in SUBSET sending, gone \in SUBSET sending :
        SentOrGone(kept, sending, sent, gone)
  BY SendFacts
<1>2. x \in sent
  BY <1>1 DEF SentOrGone
<1> QED  BY <1>1, <1>2 DEF SentOrGone

LEMMA DiscardedSent ==
  ASSUME TypeOK, TypeOK', Worker, NEW x \in Slots, InOrderAt(x), x \notin direct',
         x \in discarded, x \notin discarded'
  PROVE  told'[x] = state'[x]
<1>1. command \in Command
  BY WorkerKeeps
<1>2. CASE \/ HandleActuatorGetCommand \/ HandleActuatorSetCommand
           \/ HandleConfigurationGetCommand \/ HandleConfigurationSetCommand
           \/ PublishAll
  <2>1. PICK slots, sending :
          /\ Report(state', slots, sending)
          /\ IF x \in slots THEN x[2] # Status ELSE state'[x] = state[x]
    BY <1>1, <1>2, ReadingsReport
  <2> PICK s : s = state'
    OBVIOUS
  <2> DEFINE kept == Put(s, slots)
  <2>2. Send(kept, sending)
    BY <2>1 DEF Report
  <2>3. kept[x] # Nothing => kept[x] = state'[x]
    BY <2>1 DEF Put, InOrderAt
  <2> HIDE DEF kept
  <2> QED  BY <2>2, <2>3, SentAfterDiscarded
<1>3. CASE DirectActuatorStatus
  <2> DEFINE kept == Put(Passed(command.value), {command.device} \X command.refs)
  <2>1. Send(kept, {command.device} \X Actuators) /\ UNCHANGED state
    BY <1>3 DEF DirectActuatorStatus
  <2>2. x \notin {command.device} \X command.refs
    BY <1>3 DEF DirectActuatorStatus
  <2>3. kept[x] # Nothing => kept[x] = state'[x]
    BY <2>1, <2>2 DEF Put, InOrderAt
  <2> HIDE DEF kept
  <2> QED  BY <2>1, <2>3, SentAfterDiscarded
<1>4. CASE DirectConfiguration
  <2> DEFINE passed ==
        [y \in Slots |-> IF y[2] \in command.refs THEN command.value ELSE Nothing]
             kept == Put(passed, {command.device} \X ConfigurationItems)
  <2>1. Send(kept, ConfigurationSlots) /\ UNCHANGED state
    BY <1>4 DEF DirectConfiguration
  <2>2. x \notin {command.device} \X ConfigurationItems
    BY <1>4 DEF DirectConfiguration
  <2>3. kept[x] # Nothing => kept[x] = state'[x]
    BY <2>1, <2>2 DEF Put, InOrderAt
  <2> HIDE DEF kept
  <2> QED  BY <2>1, <2>3, SentAfterDiscarded
<1>5. CASE UNCHANGED discarded
  BY <1>5
<1> QED
  BY <1>2, <1>3, <1>4, <1>5
  DEF Worker, HandleDeviceStatusRequest, PublishDeviceStatuses, RunDeviceStatus,
      ReportStatus, HandleRegistrationResponse, ConnectSucceeds, ConnectFails, Disconnect,
      RegisterDevices, RegisterDevice, AddDevice, RemoveDevice, AddDeviceStatus,
      PublishDeviceStatus, DirectStatus

LEMMA WorkerAcceptance ==
  ASSUME TypeOK, Worker, NEW x \in Assets, x[1] \in m_devices, AnswerComing(x[1])
  PROVE  Coming(x)'
<1>1. CASE Accepts(command, x[1])
  <2>1. HandleRegistrationResponse
    BY <1>1, ByOperation DEF Accepts
  <2>2. \E c \in Waiting' : Reads(c, x)
    BY <1>1, <2>1, ResponseReads DEF Accepts, Assets
  <2> QED  BY <2>2 DEF Coming, ReadComing
<1>2. ASSUME NEW c \in Waiting, Accepts(c, x[1]), ~Accepts(command, x[1])
      PROVE  Coming(x)'
  <2>1. c \in Waiting'
    BY <1>2, WorkerWaits
  <2> QED  BY <1>2, <2>1 DEF Coming, AnswerComing
<1>3. ASSUME NEW m \in Incoming, Acceptance(m, x[1])
      PROVE  Coming(x)'
  BY <1>3, WorkerWaits DEF Coming, AnswerComing
<1> QED  BY <1>1, <1>2, <1>3 DEF AnswerComing

LEMMA WorkerKnows ==
  ASSUME TypeOK, TypeOK', OrderInv, HeardInv, ReportInv, AnswerInv, KnowInv, Worker
  PROVE  KnowInv'
<1>1. /\ ReportInv' /\ direct \subseteq direct'
      /\ \A x \in Slots \ direct' : Told(x)
  BY NextKeepsReports, DirectGrows DEF Next
<1>2. Owes /\ accepted \subseteq m_devices
  BY WorkerOwes DEF TypeOK, PlatformOK
<1>3. ASSUME linkUp', NEW x \in Assets, x[1] \in accepted'
      PROVE  Known(x)'
  <2>1. x \in Slots /\ x[2] # Status
    BY DEF Assets
  <2>2. x[1] \in accepted /\ x[1] \in m_devices /\ ~NothingAnnounced
    BY <1>2, <1>3 DEF Owes, NothingAnnounced
  <2>3. CASE x \in direct' \cup discarded'
    BY <2>3 DEF Known
  <2>4. CASE linkUp => ReadComing(x)
    <3>1. ReadComing(x)' \/ told'[x] = state'[x] \/ x \in discarded'
      BY <1>3, <2>1, <2>2, <2>4, WorkerReads
    <3> QED  BY <3>1 DEF Known, Coming
  <2>5. CASE linkUp /\ ~ReadComing(x) /\ x \notin direct' \cup discarded'
    <3>1. Known(x)
      BY <2>2, <2>5 DEF KnowInv
    <3>2. InOrderAt(x) /\ InOrderAt(x)' /\ Told(x)
      BY <1>1, <2>1, <2>5 DEF ReportInv
    <3>3. CASE x \in discarded
      BY <2>1, <2>5, <3>2, <3>3, DiscardedSent DEF Known
    <3>4. CASE told[x] = state[x]
      BY <2>1, <2>5, <3>2, <3>4, WorkerGoesOnKnowing DEF Known
    <3>5. CASE AnswerComing(x[1])
      BY <2>2, <3>5, WorkerAcceptance DEF Known
    <3> QED  BY <1>1, <2>5, <3>1, <3>3, <3>4, <3>5 DEF Known, Coming
  <2> QED  BY <2>3, <2>4, <2>5
<1> QED  BY <1>3 DEF KnowInv, Assets

(* The other steps leave alone what the platform was told.                 *)
LEMMA KnownKept ==
  ASSUME UNCHANGED <<told, state, direct, discarded>>, NEW x, Known(x), Coming(x) => Coming(x)'
  PROVE  Known(x)'
  BY DEF Known

LEMMA ComingKept ==
  ASSUME Waiting \subseteq Waiting', Incoming \subseteq Incoming', NEW x, Coming(x)
  PROVE  Coming(x)'
<1>1. ReadComing(x) => ReadComing(x)'
  BY StillComing
<1>2. AnswerComing(x[1]) => AnswerComing(x[1])'
  BY DEF AnswerComing
<1> QED  BY <1>1, <1>2 DEF Coming

LEMMA AddedKnown ==
  ASSUME KnowInv, Waiting \subseteq Waiting', Incoming \subseteq Incoming',
         linkUp' => linkUp,
         UNCHANGED <<told, state, direct, discarded, accepted>>
  PROVE  KnowInv'
  BY ComingKept, KnownKept DEF KnowInv, Assets

LEMMA AsksKnown ==
  ASSUME TypeOK, KnowInv, PlatformAsks
  PROVE  KnowInv'
<1>1. PICK m \in Message : InboundMessageReceived(m)
  BY PlatformAssumption DEF PlatformAsks
<1>2. UNCHANGED <<linkUp, told, state, direct, discarded, accepted>>
  BY <1>1 DEF PlatformAsks, InboundMessageReceived
<1> QED  BY <1>1, <1>2, ReceptionJoins, AddedKnown

(* The platform accepts a device: its answer comes.                        *)
LEMMA AcceptedKnown ==
  ASSUME TypeOK, KnowInv, PlatformAnswers
  PROVE  KnowInv'
<1>1. PICK d \in Devices, answer \in Answers :
        /\ accepted' = IF answer = <<"registered", TRUE>>
                       THEN accepted \cup ({d} \cap m_devices) ELSE accepted
        /\ InboundMessageReceived([kind |-> answer[1], device |-> d, refs |-> {},
                                   readable |-> answer[2]])
  BY DEF PlatformAnswers
<1>2. PICK m : m = [kind |-> answer[1], device |-> d, refs |-> {}, readable |-> answer[2]]
  OBVIOUS
<1>3. m \in Message /\ InboundMessageReceived(m) /\ m.kind # "unknownChannel"
  BY <1>1, <1>2, PlatformAssumption DEF Message, Responses
<1>4. linkUp /\ UNCHANGED <<told, state, direct, discarded>>
  BY <1>3 DEF InboundMessageReceived, PlatformAnswers
<1>5. Waiting \subseteq Waiting' /\ Incoming \subseteq Incoming' /\ m \in Incoming'
  BY <1>3, ReceptionJoins
<1>6. ASSUME NEW x \in Assets, x[1] \in accepted'
      PROVE  Known(x)'
  <2>1. CASE x[1] \in accepted
    BY <1>4, <1>5, <2>1, ComingKept, KnownKept DEF KnowInv
  <2>2. CASE x[1] \notin accepted
    <3>1. answer = <<"registered", TRUE>> /\ x[1] = d
      BY <1>1, <1>6, <2>2
    <3>2. Acceptance(m, x[1])
      BY <1>2, <3>1 DEF Acceptance
    <3> QED  BY <1>5, <3>2 DEF Known, Coming, AnswerComing
  <2> QED  BY <2>1, <2>2
<1> QED  BY <1>6 DEF KnowInv, Assets

LEMMA DispatchAccepts ==
  ASSUME TypeOK, Dispatch, NEW d \in Devices, Acceptance(log[Head(inbound)], d)
  PROVE  \E c \in Waiting' : Accepts(c, d)
<1> PICK m : m = log[Head(inbound)]
  OBVIOUS
<1>1. m.kind = "registered" /\ m.device = d /\ m.readable
  BY DEF Acceptance
<1>2. DeviceRegistrationServiceReceives
  BY <1>1 DEF Dispatch, TakeMessage, DataServiceReceives, DeviceStatusServiceReceives,
     PlatformStatusServiceReceives, DataRequests
<1>3. PICK c : c = [For("response", d, {}) EXCEPT !.yes = TRUE]
  OBVIOUS
<1>4. c \in Command
  BY <1>3, ForTyped, HarmlessOps DEF Operations, DeviceOperations, SetOps
<1>5. Accepts(c, d)
  BY <1>3 DEF Accepts, For, Plain
<1>6. m_commandBuffer' = Append(m_commandBuffer, c)
  <2>1. (m.kind = "registered") = TRUE
    BY <1>1
  <2> QED  BY <1>1, <1>2, <1>3, <2>1 DEF DeviceRegistrationServiceReceives, Responses
<1> QED  BY <1>4, <1>5, <1>6, PushWaits DEF TypeOK

LEMMA DispatchKnows ==
  ASSUME TypeOK, KnowInv, Dispatch
  PROVE  KnowInv'
<1>1. UNCHANGED <<linkUp, told, state, direct, discarded, accepted>>
  BY DispatchTakes
<1>2. ASSUME NEW x \in Assets, Coming(x)
      PROVE  Coming(x)'
  <2>1. x \in Slots /\ x[1] \in Devices
    BY DEF Assets, Slots
  <2>2. CASE ReadComing(x)
    BY <2>1, <2>2, DispatchReads DEF Coming
  <2>3. ASSUME NEW c \in Waiting, Accepts(c, x[1])
        PROVE  Coming(x)'
    <3>1. c \in Waiting'
      BY DispatchLeaves
    <3> QED  BY <2>3, <3>1 DEF Coming, AnswerComing
  <2>4. ASSUME NEW m \in Incoming, Acceptance(m, x[1])
        PROVE  Coming(x)'
    <3>1. CASE m \in Incoming'
      BY <2>4, <3>1 DEF Coming, AnswerComing
    <3>2. CASE m = log[Head(inbound)]
      BY <2>1, <2>4, <3>2, DispatchAccepts DEF Coming, AnswerComing
    <3> QED  BY <3>1, <3>2, DispatchLeaves
  <2> QED  BY <1>2, <2>2, <2>3, <2>4 DEF Coming, AnswerComing
<1>3. \A x \in Assets : Known(x) => Known(x)'
  BY <1>1, <1>2, KnownKept
<1> QED  BY <1>1, <1>3 DEF KnowInv, Assets

LEMMA NextKnows ==
  ASSUME TypeOK, OrderInv, HeardInv, ReportInv, AnswerInv, KnowInv, [Next]_vars
  PROVE  KnowInv'
<1>1. CASE ConnectionLost
  BY <1>1, LostWaits, AddedKnown DEF ConnectionLost
<1>2. CASE ApiCall
  BY <1>2, CallWaits, AddedKnown DEF ApiCall
<1>3. CASE TellListener \/ UNCHANGED vars
  <2>1. UNCHANGED <<m_commandBuffer, inbound, log, linkUp, told, state, direct, discarded,
                    accepted>>
    BY <1>3 DEF TellListener, vars
  <2>2. Waiting' = Waiting /\ Incoming' = Incoming
    BY <2>1 DEF Waiting, Incoming
  <2> QED  BY <2>1, <2>2, AddedKnown
<1>4. CASE Worker
  BY <1>4, NextTyped, WorkerKnows
<1> QED  BY <1>1, <1>2, <1>3, <1>4, AsksKnown, AcceptedKnown, DispatchKnows DEF Next

(* The platform ends up knowing the state of all that the devices it       *)
(* accepted have, whatever set commands changed while the link was down,   *)
(* between two reports or before it accepted them.                         *)
THEOREM PlatformLearnsState == Spec => []PlatformKnowsState
<1> DEFINE Inv == /\ TypeOK /\ OrderInv /\ HeardInv /\ ReportInv
                  /\ AnswerInv /\ KnowInv
<1>1. Init => Inv
  <2>1. Init => ReportInv
    BY DEF Init, ReportInv, InOrderAt, Nothing
  <2>2. Init => KnowInv
    BY DEF Init, KnowInv
  <2> QED  BY <2>1, <2>2, InitTyped, InitInOrder, InitAnswers
<1>2. Inv /\ [Next]_vars => Inv'
  BY NextTyped, NextInOrder, NextKeepsReports, NextAnswers, NextKnows
<1>3. Inv => PlatformKnowsState
  <2> SUFFICES ASSUME TypeOK, KnowInv, Settled, linkUp,
                      NEW d \in accepted, NEW r \in Actuators \cup ConfigurationItems,
                      <<d, r>> \notin direct \cup discarded
               PROVE  told[<<d, r>>] = state[<<d, r>>]
    BY DEF PlatformKnowsState
  <2>1. <<d, r>> \in Assets
    BY ReferencesAssumption DEF Assets, Slots, References, TypeOK, PlatformOK
  <2>2. Known(<<d, r>>)
    BY <2>1 DEF KnowInv
  <2>3. ~Coming(<<d, r>>)
    BY NothingComes DEF Coming, ReadComing, AnswerComing
  <2> QED  BY <2>2, <2>3 DEF Known
<1> HIDE DEF Inv
<1> QED  BY <1>1, <1>2, <1>3, PTL DEF Spec

=============================================================================
