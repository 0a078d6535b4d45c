----------------------------- MODULE WolkProofs -----------------------------
(***************************************************************************)
(* Proofs about Wolk for every set of devices, templates and calls.        *)
(***************************************************************************)
EXTENDS Wolk, TLAPS

(* The commands the code builds are commands, and what a command holds.    *)
LEMMA CommandsTyped ==
  /\ \A op \in Operations \ DeviceOperations : Plain(op) \in Command
  /\ \A op \in Operations, d \in Devices : For(op, d) \in Command
  /\ \A op \in Operations, d \in Devices, as \in SUBSET Assets :
       With(op, d, as) \in Command
  /\ \A now \in BOOLEAN : ConnectCommand(now) \in Command
<1>1. \A op \in Operations \ DeviceOperations : Plain(op) \in Command
  BY DEF Plain, Command
<1>2. \A op \in Operations, d \in Devices : For(op, d) \in Command
  BY DEF For, Plain, Command
<1>3. \A op \in Operations, d \in Devices, as \in SUBSET Assets :
        With(op, d, as) \in Command
  BY DEF With, For, Plain, Command
<1>4. \A now \in BOOLEAN : ConnectCommand(now) \in Command
  BY DEF ConnectCommand, Plain, Command, Operations, DeviceOperations
<1> QED
  BY <1>1, <1>2, <1>3, <1>4

LEMMA CommandFields ==
  \A c \in Command :
    /\ c.op \in Operations
    /\ c.op \in DeviceOperations => c.device \in Devices
    /\ c.assets \in SUBSET Assets
    /\ c.now \in BOOLEAN
  BY DEF Command

LEMMA IdleTyped == Idle \in Worker
<1>1. Plain("publish") \in Command
  BY CommandsTyped DEF Operations, DeviceOperations
<1> QED
  BY <1>1 DEF Idle, Worker

(* What connect() pushes once it is connected.                             *)
LEMMA DeviceReportsTyped ==
  ASSUME m_devices \subseteq Devices
  PROVE  DeviceReports \in Seq(Command)
<1> DEFINE walk == Walk[m_devices]
<1>1. walk \in Seq(Devices)
  BY DevicesAssumption
<1>2. ASSUME NEW i \in 1 .. 2 * Len(walk)
      PROVE  For(IF i % 2 = 1 THEN "actuatorGet" ELSE "configurationGet",
                 walk[(i + 1) \div 2]) \in Command
  <2>1. (i + 1) \div 2 \in 1 .. Len(walk)
    BY <1>1
  <2>2. walk[(i + 1) \div 2] \in Devices
    BY <1>1, <2>1
  <2>3. (IF i % 2 = 1 THEN "actuatorGet" ELSE "configurationGet") \in Operations
    BY DEF Operations, Reports
  <2> QED
    BY <2>2, <2>3, CommandsTyped
<1>3. 2 * Len(walk) \in Nat
  BY <1>1
<1> QED
  BY <1>2, <1>3 DEF DeviceReports

LEMMA PlainsTyped ==
  /\ Plain("registerDevices") \in Command
  /\ Plain("publish") \in Command
  /\ Plain("firmwareVersions") \in Command
  /\ Plain("deviceStatuses") \in Command
  BY CommandsTyped DEF Operations, DeviceOperations, Reports

LEMMA AnnouncementsTyped ==
  ASSUME m_devices \subseteq Devices, NEW now \in BOOLEAN
  PROVE  Announcements(now) \in Seq(Command)
<1>1. /\ <<Plain("registerDevices")>> \in Seq(Command)
      /\ <<Plain("publish")>> \in Seq(Command)
      /\ <<Plain("registerDevices"), Plain("firmwareVersions"),
           Plain("deviceStatuses")>> \in Seq(Command)
  BY PlainsTyped
<1> QED
  BY <1>1, DeviceReportsTyped DEF Announcements

-----------------------------------------------------------------------------

(* Every variable keeps its type: in particular the buffer only ever holds *)
(* commands of the code and the worker is in a place its command has.      *)
LEMMA TypeInit == Init => TypeOK
<1> SUFFICES ASSUME Init PROVE TypeOK
  OBVIOUS
<1>1. FlagsOK
  BY DEF Init, FlagsOK
<1>2. CommandsOK
  BY IdleTyped DEF Init, CommandsOK
<1>3. CountsOK
  BY DEF Init, CountsOK
<1>4. DevicesOK
  BY DEF Init, DevicesOK
<1> QED
  BY <1>1, <1>2, <1>3, <1>4 DEF TypeOK

LEMMA FlagsOKNext == TypeOK /\ [Next]_vars => FlagsOK'
<1> SUFFICES ASSUME FlagsOK, [Next]_vars PROVE FlagsOK'
  BY DEF TypeOK
<1> USE DEF FlagsOK, link, fleet, platform, data, api
<1>1. CASE ApiCall
  BY <1>1 DEF ApiCall, CallConnect, CallDisconnect, CallAddDevice,
    CallAddAssetsToDevice, CallRemoveDevice, CallAddSensorReading, CallPublish,
    CallPublishOf, Call
<1>2. CASE TakeCommand \/ Execute
  BY <1>2 DEF TakeCommand, Execute, ConnectFails, ConnectSucceeds, ConnectAgain,
    RaiseConnected, Announce, PushNext, Disconnect, CloseSession, AddDevice,
    RegisterAdded, Reconnect, AddAssetsToDevice, StoreAssetsToDevice,
    RemoveDevice, AddSensorReading, Publish, PublishOf, PublishNext, EachDone,
    RegisterDevices, RegisterNext, RegisterDevice, UpdateDevice,
    PublishDeviceStatuses, RunReport, SessionOpened, SessionClosed
<1>3. CASE ConnectionLost \/ Callback
  BY <1>3 DEF ConnectionLost, Callback, LowerConnected, QueueReconnection
<1>4. CASE UNCHANGED vars
  BY <1>4 DEF vars
<1> QED
  BY <1>1, <1>2, <1>3, <1>4 DEF Next

LEMMA CountsOKNext == TypeOK /\ [Next]_vars => CountsOK'
<1> SUFFICES ASSUME CountsOK, [Next]_vars PROVE CountsOK'
  BY DEF TypeOK
<1> USE DEF CountsOK, link, fleet, platform, data, api
<1>1. CASE ApiCall
  BY <1>1 DEF ApiCall, CallConnect, CallDisconnect, CallAddDevice,
    CallAddAssetsToDevice, CallRemoveDevice, CallAddSensorReading, CallPublish,
    CallPublishOf, Call
<1>2. CASE TakeCommand \/ Execute
  BY <1>2 DEF TakeCommand, Execute, ConnectFails, ConnectSucceeds, ConnectAgain,
    RaiseConnected, Announce, PushNext, Disconnect, CloseSession, AddDevice,
    RegisterAdded, Reconnect, AddAssetsToDevice, StoreAssetsToDevice,
    RemoveDevice, AddSensorReading, Publish, PublishOf, PublishNext, EachDone,
    RegisterDevices, RegisterNext, RegisterDevice, UpdateDevice,
    PublishDeviceStatuses, RunReport
<1>3. CASE ConnectionLost
  BY <1>3 DEF ConnectionLost
<1>5. CASE LowerConnected
  BY <1>5 DEF LowerConnected
<1>6. CASE QueueReconnection
  BY <1>6 DEF QueueReconnection
<1>4. CASE UNCHANGED vars
  BY <1>4 DEF vars
<1> QED
  BY <1>1, <1>2, <1>3, <1>4, <1>5, <1>6 DEF Next, Callback

LEMMA CommandsOKNext == TypeOK /\ [Next]_vars => CommandsOK'
<1> SUFFICES ASSUME CommandsOK, DevicesOK, [Next]_vars PROVE CommandsOK'
  BY DEF TypeOK
<1> USE DEF CommandsOK, DevicesOK, link, fleet, platform, data, api
<1>a. /\ worker.cmd \in Command
      /\ worker.out \in Seq(Command)
      /\ worker.todo \subseteq Devices
  BY DEF Worker
<1>b. \A command \in Command : Append(m_commandBuffer, command) \in Seq(Command)
  OBVIOUS
<1>1. CASE CallConnect
  BY <1>1, CommandsTyped, CommandFields, IdleTyped DEF CallConnect, Call, At, Goto, Done, AddToCommandBuffer, Worker, Operations, DeviceOperations
<1>2. CASE CallDisconnect
  <2>1. Plain("disconnect") \in Command
    BY CommandsTyped DEF Operations, DeviceOperations
  <2> QED
    BY <1>2, <1>b, <2>1 DEF CallDisconnect, Call, AddToCommandBuffer
<1>3. CASE CallAddDevice
  <2>1. \A dev \in Devices, offer \in Offers : With("addDevice", dev, offer) \in Command
    BY CommandsTyped, OffersAssumption DEF Operations
  <2> QED
    BY <1>3, <1>b, <2>1 DEF CallAddDevice, Call, AddToCommandBuffer
<1>4. CASE CallAddAssetsToDevice
  <2>1. \A dev \in Devices, offer \in Offers : With("addAssets", dev, offer) \in Command
    BY CommandsTyped, OffersAssumption DEF Operations
  <2> QED
    BY <1>4, <1>b, <2>1 DEF CallAddAssetsToDevice, Call, AddToCommandBuffer
<1>5. CASE CallRemoveDevice
  BY <1>5, CommandsTyped, CommandFields, IdleTyped DEF CallRemoveDevice, Call, At, Goto, Done, AddToCommandBuffer, Worker, Operations, DeviceOperations
<1>6. CASE CallAddSensorReading
  BY <1>6, CommandsTyped, CommandFields, IdleTyped DEF CallAddSensorReading, Call, At, Goto, Done, AddToCommandBuffer, Worker, Operations, DeviceOperations
<1>7. CASE CallPublish
  <2>1. Plain("publish") \in Command
    BY CommandsTyped DEF Operations, DeviceOperations
  <2> QED
    BY <1>7, <1>b, <2>1 DEF CallPublish, Call, AddToCommandBuffer
<1>8. CASE CallPublishOf
  BY <1>8, CommandsTyped, CommandFields, IdleTyped DEF CallPublishOf, Call, At, Goto, Done, AddToCommandBuffer, Worker, Operations, DeviceOperations
<1>9. CASE TakeCommand
  <2>1. /\ Head(m_commandBuffer) \in Command
        /\ Tail(m_commandBuffer) \in Seq(Command)
    BY <1>9 DEF TakeCommand
  <2>2. worker' \in Worker
    BY <1>9, <2>1, IdleTyped DEF TakeCommand, Worker
  <2> QED
    BY <1>9, <2>1, <2>2 DEF TakeCommand
<1>10. CASE ConnectAgain
  BY <1>10, CommandsTyped, CommandFields, IdleTyped DEF ConnectAgain, Call, At, Goto, Done, AddToCommandBuffer, Worker, Operations, DeviceOperations
<1>11. CASE Announce
  <2>1. Announcements(worker.cmd.now) \in Seq(Command)
    BY <1>a, CommandFields, AnnouncementsTyped DEF DevicesOK
  <2>2. worker' \in Worker
    BY <1>11, <2>1 DEF Announce, Worker
  <2> QED
    BY <1>11, <2>2 DEF Announce
<1>12. CASE PushNext
  <2>1. /\ Head(worker.out) \in Command
        /\ Tail(worker.out) \in Seq(Command)
    BY <1>12, <1>a DEF PushNext
  <2>2. worker' \in Worker
    BY <1>12, <2>1, IdleTyped DEF PushNext, Worker
  <2>3. m_commandBuffer' \in Seq(Command)
    BY <1>12, <2>1, <1>b DEF PushNext, AddToCommandBuffer
  <2> QED
    BY <2>2, <2>3
<1>13. CASE RegisterAdded
  <2>1. worker.cmd.device \in Devices /\ worker.cmd.assets \in SUBSET Assets
    BY <1>13, <1>a, CommandFields DEF RegisterAdded, At, DeviceOperations
  <2>2. With("registerDevice", worker.cmd.device, worker.cmd.assets) \in Command
    BY <2>1, CommandsTyped DEF Operations
  <2>3. m_commandBuffer' \in Seq(Command)
    BY <1>13, <2>2, <1>b DEF RegisterAdded, AddToCommandBuffer
  <2>4. worker' \in Worker
    BY <1>13 DEF RegisterAdded, Goto, Worker
  <2> QED
    BY <2>3, <2>4
<1>14. CASE AddAssetsToDevice
  <2>1. worker.cmd.device \in Devices /\ worker.cmd.assets \in SUBSET Assets
    BY <1>14, <1>a, CommandFields DEF AddAssetsToDevice, At, DeviceOperations
  <2>2. With("updateDevice", worker.cmd.device, worker.cmd.assets) \in Command
    BY <2>1, CommandsTyped DEF Operations
  <2>3. m_commandBuffer' \in Seq(Command)
    BY <1>14, <2>2, <1>b DEF AddAssetsToDevice, AddToCommandBuffer
  <2>4. worker' = [worker EXCEPT !.pc = "store"] \/ worker' = Idle
    BY <1>14 DEF AddAssetsToDevice, Goto, Done
  <2>5. worker' \in Worker
    BY <2>4, IdleTyped DEF Worker
  <2> QED
    BY <2>3, <2>5
<1>15. CASE PublishDeviceStatuses
  <2> DEFINE statuses == [i \in DOMAIN Walk[m_devices] |->
                            For("deviceStatus", Walk[m_devices][i])]
  <2>1. Walk[m_devices] \in Seq(Devices)
    BY DevicesAssumption DEF DevicesOK
  <2>2. \A i \in DOMAIN Walk[m_devices] :
          For("deviceStatus", Walk[m_devices][i]) \in Command
    BY <2>1, CommandsTyped DEF Operations, Reports
  <2>3. statuses \in Seq(Command)
    BY <2>1, <2>2
  <2>4. worker' = Idle \/ worker' = [worker EXCEPT !.pc = "push", !.out = statuses]
    BY <1>15 DEF PublishDeviceStatuses
  <2>5. worker' \in Worker
    <3> HIDE DEF statuses
    <3> QED
      BY <2>3, <2>4, IdleTyped DEF Worker
  <2> QED
    BY <1>15, <2>5 DEF PublishDeviceStatuses
<1>16. CASE QueueReconnection
  <2>1. ConnectCommand(TRUE) \in Command
    BY CommandsTyped
  <2> QED
    BY <1>16, <2>1, <1>b DEF QueueReconnection, AddToCommandBuffer
<1>17. CASE UNCHANGED vars
  BY <1>17 DEF vars
<1>18. CASE ConnectFails \/ ConnectSucceeds \/ RaiseConnected \/ Disconnect
             \/ CloseSession
  BY <1>18, <1>a, IdleTyped DEF ConnectFails, ConnectSucceeds,
    RaiseConnected, Disconnect, CloseSession, At, Goto, Done, Worker
<1>19. CASE AddDevice \/ Reconnect \/ StoreAssetsToDevice \/ RemoveDevice \/
             AddSensorReading
  BY <1>19, <1>a, IdleTyped DEF AddDevice, Reconnect, StoreAssetsToDevice,
    RemoveDevice, AddSensorReading, At, Goto, Done, Worker
<1>20. CASE Publish \/ PublishOf \/ PublishNext \/ EachDone \/
             RegisterDevices \/ RegisterNext \/ RegisterDevice \/
             UpdateDevice \/ RunReport
  BY <1>20, <1>a, IdleTyped DEF Publish, PublishOf, PublishNext, EachDone,
    RegisterDevices, RegisterNext, RegisterDevice, UpdateDevice, RunReport,
    At, Goto, Done, Worker
<1>21. CASE ConnectionLost \/ LowerConnected
  BY <1>21, <1>a, IdleTyped DEF ConnectionLost, LowerConnected, At, Goto,
    Done, Worker
<1> QED
  BY <1>1, <1>2, <1>3, <1>4, <1>5, <1>6, <1>7, <1>8, <1>9, <1>10,
    <1>11, <1>12, <1>13, <1>14, <1>15, <1>16, <1>17, <1>18, <1>19, <1>20,
    <1>21 DEF Next, ApiCall, Execute, Callback

LEMMA DevicesOKNext == TypeOK /\ [Next]_vars => DevicesOK'
<1> SUFFICES ASSUME DevicesOK, CommandsOK, [Next]_vars PROVE DevicesOK'
  BY DEF TypeOK
<1> USE DEF DevicesOK, CommandsOK, link, fleet, platform, data, api
<1>a. worker.cmd \in Command /\ worker.todo \subseteq Devices
  BY DEF Worker
<1>1. CASE AddDevice
  <2>1. worker.cmd.device \in Devices /\ worker.cmd.assets \in SUBSET Assets
    BY <1>1, <1>a, CommandFields DEF AddDevice, At, DeviceOperations
  <2>2. UNCHANGED <<brokerWill, backlog, due, registered, platformAssets, callback, lastCall>>
    BY <1>1 DEF AddDevice
  <2>3. CASE worker.cmd.device \in m_devices
    BY <1>1, <2>2, <2>3 DEF AddDevice
  <2>4. CASE worker.cmd.device \notin m_devices
    <3>1. /\ m_devices' = m_devices \cup {worker.cmd.device}
          /\ template' = [template EXCEPT ![worker.cmd.device] = worker.cmd.assets]
          /\ asked' = [asked EXCEPT ![worker.cmd.device] = worker.cmd.assets]
          /\ will' = m_devices' /\ removed' = removed
      BY <1>1, <2>4 DEF AddDevice
    <3> QED
      BY <2>1, <2>2, <3>1
  <2> QED
    BY <2>3, <2>4
<1>2. CASE StoreAssetsToDevice
  <2>1. worker.cmd.device \in Devices /\ worker.cmd.assets \in SUBSET Assets
    BY <1>2, <1>a, CommandFields DEF StoreAssetsToDevice, At, DeviceOperations
  <2>2. NewAssets(worker.cmd.device, worker.cmd.assets) \subseteq Assets
    BY <2>1 DEF NewAssets
  <2>3. PICK kept \in OnePer(NewAssets(worker.cmd.device, worker.cmd.assets)) :
          template' = [template EXCEPT ![worker.cmd.device] = @ \cup kept]
    BY <1>2 DEF StoreAssetsToDevice
  <2>4. kept \subseteq Assets
    BY <2>2, <2>3 DEF OnePer
  <2>5. template' \in [Devices -> SUBSET Assets]
    BY <2>1, <2>3, <2>4
  <2> QED
    BY <1>2, <2>5 DEF StoreAssetsToDevice
<1>3. CASE RemoveDevice
  BY <1>3, CommandFields DEF RemoveDevice, Call, At, Goto, Done, AddToCommandBuffer, Worker, Operations, DeviceOperations, SessionOpened, SessionClosed, PublishRegistrationRequest, PublishUpdateRequest
<1>4. CASE AddSensorReading
  BY <1>4, CommandFields DEF AddSensorReading, Call, At, Goto, Done, AddToCommandBuffer, Worker, Operations, DeviceOperations, SessionOpened, SessionClosed, PublishRegistrationRequest, PublishUpdateRequest
<1>5. CASE PublishNext
  BY <1>5, CommandFields DEF PublishNext, Call, At, Goto, Done, AddToCommandBuffer, Worker, Operations, DeviceOperations, SessionOpened, SessionClosed, PublishRegistrationRequest, PublishUpdateRequest
<1>6. CASE RegisterNext
  <2>1. PICK d \in worker.todo : PublishRegistrationRequest(d, template[d])
    BY <1>6 DEF RegisterNext
  <2>2. d \in Devices /\ template[d] \in SUBSET Assets
    BY <1>a, <2>1
  <2>3. UNCHANGED <<m_devices, template, asked, removed, will, brokerWill, backlog, due, callback, lastCall>>
    BY <1>6 DEF RegisterNext
  <2> QED
    BY <2>1, <2>2, <2>3 DEF PublishRegistrationRequest
<1>7. CASE RegisterDevice
  BY <1>7, CommandFields DEF RegisterDevice, Call, At, Goto, Done, AddToCommandBuffer, Worker, Operations, DeviceOperations, SessionOpened, SessionClosed, PublishRegistrationRequest, PublishUpdateRequest
<1>8. CASE UpdateDevice
  BY <1>8, CommandFields DEF UpdateDevice, Call, At, Goto, Done, AddToCommandBuffer, Worker, Operations, DeviceOperations, SessionOpened, SessionClosed, PublishRegistrationRequest, PublishUpdateRequest
<1>9. CASE UNCHANGED vars
  BY <1>9 DEF vars
<1>10. CASE CallConnect \/ CallDisconnect \/ CallAddDevice \/
             CallAddAssetsToDevice \/ CallRemoveDevice \/
             CallAddSensorReading \/ CallPublish \/ CallPublishOf
  BY <1>10 DEF CallConnect, CallDisconnect, CallAddDevice,
    CallAddAssetsToDevice, CallRemoveDevice, CallAddSensorReading,
    CallPublish, CallPublishOf, Call, SessionOpened, SessionClosed
<1>11. CASE TakeCommand \/ ConnectAgain \/ Announce \/ PushNext \/
             RaiseConnected \/ Disconnect \/ RegisterAdded \/ Publish \/
             PublishOf \/ EachDone \/ RegisterDevices \/
             PublishDeviceStatuses \/ RunReport
  BY <1>11 DEF TakeCommand, ConnectAgain, Announce, PushNext,
    RaiseConnected, Disconnect, RegisterAdded, Publish, PublishOf, EachDone,
    RegisterDevices, PublishDeviceStatuses, RunReport, Call, SessionOpened,
    SessionClosed
<1>12. CASE ConnectFails \/ ConnectSucceeds \/ CloseSession \/ Reconnect
  BY <1>12 DEF ConnectFails, ConnectSucceeds, CloseSession, Reconnect, Call, SessionOpened, SessionClosed
<1>13. CASE ConnectionLost \/ LowerConnected \/ QueueReconnection
  BY <1>13 DEF ConnectionLost, LowerConnected, QueueReconnection, Call,
    SessionOpened, SessionClosed
<1>14. CASE AddAssetsToDevice
  <2>1. worker.cmd.assets \in SUBSET Assets
    BY <1>a, CommandFields
  <2>2. asked' \in [Devices -> SUBSET Assets]
    BY <1>14, <2>1 DEF AddAssetsToDevice
  <2> QED
    BY <1>14, <2>2 DEF AddAssetsToDevice
<1> QED
  BY <1>1, <1>2, <1>3, <1>4, <1>5, <1>6, <1>7, <1>8, <1>9, <1>10,
    <1>11, <1>12, <1>13, <1>14 DEF Next, ApiCall, Execute, Callback

THEOREM TypeCorrect == Spec => []TypeOK
<1>1. Init => TypeOK
  BY TypeInit
<1>2. TypeOK /\ [Next]_vars => TypeOK'
  BY FlagsOKNext, CountsOKNext, CommandsOKNext, DevicesOKNext DEF TypeOK
<1> QED
  BY <1>1, <1>2, PTL DEF Spec

-----------------------------------------------------------------------------

HasConnect(q) == \E i \in DOMAIN q : q[i].op = "connect"

LEMMA HasConnectAppend ==
  ASSUME NEW q \in Seq(Command), NEW c
  PROVE  HasConnect(Append(q, c)) <=> HasConnect(q) \/ c.op = "connect"
<1>1. ASSUME HasConnect(q) PROVE HasConnect(Append(q, c))
  BY <1>1 DEF HasConnect
<1>2. ASSUME c.op = "connect" PROVE HasConnect(Append(q, c))
  <2>1. /\ Len(q) + 1 \in DOMAIN Append(q, c)
        /\ Append(q, c)[Len(q) + 1] = c
    OBVIOUS
  <2> QED
    BY <1>2, <2>1 DEF HasConnect
<1>3. ASSUME HasConnect(Append(q, c)) PROVE HasConnect(q) \/ c.op = "connect"
  BY <1>3 DEF HasConnect
<1> QED
  BY <1>1, <1>2, <1>3

LEMMA HasConnectTail ==
  ASSUME NEW q \in Seq(Command), q # <<>>, HasConnect(q)
  PROVE  HasConnect(Tail(q)) \/ Head(q).op = "connect"
<1>1. PICK i \in DOMAIN q : q[i].op = "connect"
  BY DEF HasConnect
<1>2. CASE i = 1
  BY <1>1, <1>2
<1>3. CASE i # 1
  <2>1. /\ i - 1 \in DOMAIN Tail(q)
        /\ Tail(q)[i - 1] = q[i]
    BY <1>3
  <2> QED
    BY <1>1, <2>1 DEF HasConnect
<1> QED
  BY <1>2, <1>3

(* The buffer only changes by a push at its tail or by the worker taking   *)
(* its head.                                                               *)
LEMMA BufferSteps ==
  ASSUME [Next]_vars
  PROVE  \/ m_commandBuffer' = m_commandBuffer
         \/ \E c : m_commandBuffer' = Append(m_commandBuffer, c)
         \/ TakeCommand
<1> USE DEF AddToCommandBuffer
<1>1. CASE ApiCall
  BY <1>1 DEF ApiCall, CallConnect, CallDisconnect, CallAddDevice,
    CallAddAssetsToDevice, CallRemoveDevice, CallAddSensorReading, CallPublish,
    CallPublishOf, Call
<1>2. CASE TakeCommand
  BY <1>2
<1>3. CASE Execute
  BY <1>3 DEF Execute, ConnectFails, ConnectSucceeds, ConnectAgain,
    RaiseConnected, Announce, PushNext, Disconnect, CloseSession, AddDevice,
    RegisterAdded, Reconnect, AddAssetsToDevice, StoreAssetsToDevice,
    RemoveDevice, AddSensorReading, Publish, PublishOf, PublishNext, EachDone,
    RegisterDevices, RegisterNext, RegisterDevice, UpdateDevice,
    PublishDeviceStatuses, RunReport
<1>4. CASE ConnectionLost \/ Callback
  BY <1>4 DEF ConnectionLost, Callback, LowerConnected, QueueReconnection
<1>5. CASE UNCHANGED vars
  BY <1>5 DEF vars
<1> QED
  BY <1>1, <1>2, <1>3, <1>4, <1>5 DEF Next

(* A Connect in the buffer stays there but for the worker taking it.       *)
LEMMA QueuedConnectStays ==
  ASSUME TypeOK, [Next]_vars, ConnectQueued, ~TakeCommand
  PROVE  ConnectQueued'
<1>1. m_commandBuffer \in Seq(Command) /\ HasConnect(m_commandBuffer)
  BY DEF TypeOK, CommandsOK, HasConnect, ConnectQueued
<1>2. HasConnect(m_commandBuffer')
  BY <1>1, BufferSteps, HasConnectAppend
<1> QED
  BY <1>2 DEF HasConnect, ConnectQueued

LEMMA GotoMoves ==
  ASSUME CommandsOK, NEW pc, Goto(pc)
  PROVE  worker'.pc = pc /\ worker'.cmd = worker.cmd
  BY DEF CommandsOK, Goto, Worker

LEMMA PushMoves ==
  ASSUME CommandsOK, NEW out
  PROVE  /\ [worker EXCEPT !.pc = "push", !.out = out].pc = "push"
         /\ [worker EXCEPT !.out = out].pc = worker.pc
         /\ Idle.pc = "idle"
  BY DEF CommandsOK, Worker, Idle

LEMMA DoneIdles ==
  ASSUME Done PROVE worker'.pc = "idle"
  BY DEF Done, Idle

(* What of FlagInv is left when reconnect() may fail: nobody takes a live  *)
(* link for a dead one for good.                                           *)
FlagParts ==
  /\ linkUp /\ ~m_connected =>
       \/ ConnectComing
       \/ At("connected", "connect")
       \/ At("disconnecting", "disconnect")
  /\ FlagReadByAddDevice
  /\ FlagLoweredByDisconnect
  /\ ~ReconnectMayFail => StaleFlagIsRepaired /\ LossSeenWhileConnecting

(* The flags agree, or their repair is under way, initially.               *)
LEMMA FlagInit == Init => FlagParts
<1> SUFFICES ASSUME Init PROVE FlagParts
  OBVIOUS
<1>1. worker.pc = "idle" /\ ~linkUp /\ ~m_connected
  BY DEF Init, Idle
<1> QED
  BY <1>1 DEF FlagParts, StaleFlagIsRepaired, LossSeenWhileConnecting,
    FlagReadByAddDevice, FlagLoweredByDisconnect, At

(* Every step keeps them so.                                               *)
LEMMA FlagNext ==
  ASSUME TypeOK, FlagParts, [Next]_vars
  PROVE  FlagParts'
<1> USE DEF FlagParts, StaleFlagIsRepaired, LossSeenWhileConnecting,
            FlagReadByAddDevice, FlagLoweredByDisconnect,
            ConnectComing, ConnectAhead, At, link
<1>a. CommandsOK /\ FlagsOK
  BY DEF TypeOK
<1>b. ASSUME ConnectQueued
      PROVE  ConnectQueued' \/ (worker.pc = "idle" /\ worker'.pc = "run")
  <2>1. CASE TakeCommand
    BY <2>1 DEF TakeCommand, Idle
  <2>2. CASE ~TakeCommand
    <3>1. ConnectQueued'
      BY <1>b, <2>2, QueuedConnectStays
    <3> QED
      BY <3>1
  <2> QED
    BY <2>1, <2>2
<1>1. CASE ApiCall
  <2>1. UNCHANGED <<worker, m_connected, link>>
    BY <1>1 DEF ApiCall, CallConnect, CallDisconnect, CallAddDevice,
      CallAddAssetsToDevice, CallRemoveDevice, CallAddSensorReading, CallPublish,
      CallPublishOf, Call
  <2> QED
    BY <2>1, <1>b
<1>2. CASE TakeCommand
  <2>1. /\ worker.pc = "idle" /\ worker'.pc = "run"
        /\ worker'.cmd = Head(m_commandBuffer)
        /\ UNCHANGED <<m_connected, link>>
    BY <1>2 DEF TakeCommand, Idle
  <2>2. ConnectQueued => ConnectQueued' \/ worker'.cmd.op = "connect"
    BY <1>2, <1>a, HasConnectTail
      DEF TakeCommand, CommandsOK, HasConnect, ConnectQueued, Idle
  <2> QED
    BY <2>1, <2>2
<1>3. CASE ConnectSucceeds
  <2>1. /\ worker'.pc = "connected" /\ worker'.cmd.op = "connect"
        /\ linkUp' = TRUE
    BY <1>3, <1>a, GotoMoves DEF ConnectSucceeds, SessionOpened
  <2> QED
    BY <2>1
<1>4. CASE ConnectFails
  <2>1. /\ worker'.pc = "retry" /\ worker'.cmd.op = "connect"
        /\ linkUp' = FALSE
    BY <1>4, <1>a, GotoMoves DEF ConnectFails, SessionClosed
  <2> QED
    BY <2>1
<1>5. CASE ConnectAgain
  <2>1. worker'.pc = "idle" /\ UNCHANGED <<m_connected, link>>
    BY <1>5, DoneIdles DEF ConnectAgain
  <2>2. ConnectQueued'
    BY <1>5, <1>a, HasConnectAppend
      DEF ConnectAgain, AddToCommandBuffer, CommandsOK, HasConnect, ConnectQueued
  <2> QED
    BY <2>1, <2>2
<1>6. CASE RaiseConnected
  <2>1. /\ worker.pc = "connected" /\ worker.cmd.op = "connect"
        /\ worker'.pc = "announce"
        /\ m_connected' = TRUE
        /\ UNCHANGED link
    BY <1>6, <1>a, GotoMoves DEF RaiseConnected
  <2> QED
    BY <2>1, <1>b
<1>7. CASE Disconnect
  <2>1. /\ worker'.pc = "disconnecting" /\ worker'.cmd.op = "disconnect"
        /\ m_connected' = FALSE
    BY <1>7, <1>a, GotoMoves DEF Disconnect
  <2> QED
    BY <2>1
<1>8. CASE CloseSession
  <2>1. /\ worker'.pc = "idle" /\ worker.pc = "disconnecting"
        /\ linkUp' = FALSE
        /\ UNCHANGED m_connected
    BY <1>8, DoneIdles DEF CloseSession, SessionClosed
  <2> QED
    BY <2>1
<1>9. CASE AddDevice
  <2>1. /\ worker.pc = "run" /\ worker.cmd.op = "addDevice"
        /\ worker'.pc = "idle" \/ (worker'.pc = "register" /\ m_connected)
        /\ UNCHANGED <<m_connected, link>>
    BY <1>9, <1>a, GotoMoves, DoneIdles DEF AddDevice
  <2> QED
    BY <2>1, <1>b
<1>10. CASE RegisterAdded
  <2>1. /\ worker.pc = "register" /\ worker'.pc = "reconnect"
        /\ UNCHANGED <<m_connected, link>>
    BY <1>10, <1>a, GotoMoves DEF RegisterAdded
  <2> QED
    BY <2>1, <1>b
<1>11. CASE Reconnect
  <2>1. /\ worker.pc = "reconnect" /\ worker'.pc = "idle"
        /\ linkUp' = TRUE \/ (ReconnectMayFail /\ linkUp' = FALSE)
        /\ UNCHANGED <<m_connected, callback>>
    BY <1>11, DoneIdles DEF Reconnect, SessionOpened, SessionClosed
  <2> QED
    BY <2>1, <1>b
(* The steps that touch neither the flags nor the notifications, of        *)
(* commands no part of the invariant looks at.                             *)
<1>12. ASSUME UNCHANGED <<m_connected, link>>,
              worker'.pc \in {"idle", "push", "store", "each"},
              \/ worker.pc \in {"announce", "push", "store", "each"}
              \/ worker.pc = "run" /\ worker.cmd.op # "connect"
       PROVE  FlagParts'
  BY <1>12, <1>b
<1>13. CASE Announce \/ PushNext
  <2>1. \/ worker' = Idle
        \/ worker' = [worker EXCEPT !.out = Tail(worker.out)] /\ worker.pc = "push"
        \/ worker' = [worker EXCEPT !.pc = "push",
                                    !.out = Announcements(worker.cmd.now)]
    BY <1>13 DEF Announce, PushNext
  <2>2. worker'.pc \in {"idle", "push"}
    BY <2>1, <1>a, PushMoves
  <2>3. /\ UNCHANGED <<m_connected, link>>
        /\ worker.pc \in {"announce", "push"}
    BY <1>13 DEF Announce, PushNext
  <2> QED
    BY <2>2, <2>3, <1>12
<1>14. CASE AddAssetsToDevice \/ StoreAssetsToDevice \/ RemoveDevice \/
             AddSensorReading
  <2>1. /\ UNCHANGED <<m_connected, link>>
        /\ worker'.pc \in {"idle", "store"}
        /\ worker.pc = "store" \/ (worker.pc = "run" /\ worker.cmd.op # "connect")
    BY <1>14, <1>a, GotoMoves, DoneIdles
      DEF AddAssetsToDevice, StoreAssetsToDevice, RemoveDevice, AddSensorReading
  <2> QED
    BY <2>1, <1>12
<1>15. CASE Publish \/ PublishOf \/ PublishNext \/ EachDone
  <2>1. /\ UNCHANGED <<m_connected, link>>
        /\ worker'.pc \in {"idle", "each"}
        /\ worker.pc = "each" \/ (worker.pc = "run" /\ worker.cmd.op # "connect")
    BY <1>15, <1>a, DoneIdles
      DEF Publish, PublishOf, PublishNext, EachDone, CommandsOK, Worker
  <2> QED
    BY <2>1, <1>12
<1>16. CASE RegisterDevices \/ RegisterNext \/ RegisterDevice \/ UpdateDevice
  <2>1. /\ UNCHANGED <<m_connected, link>>
        /\ worker'.pc \in {"idle", "each"}
        /\ worker.pc = "each" \/ (worker.pc = "run" /\ worker.cmd.op # "connect")
    BY <1>16, <1>a, DoneIdles
      DEF RegisterDevices, RegisterNext, RegisterDevice, UpdateDevice,
          CommandsOK, Worker
  <2> QED
    BY <2>1, <1>12
<1>17. CASE PublishDeviceStatuses \/ RunReport
  <2>1. /\ UNCHANGED <<m_connected, link>>
        /\ worker.pc = "run" /\ worker.cmd.op # "connect"
    BY <1>17 DEF PublishDeviceStatuses, RunReport, Reports
  <2>2. \/ worker' = Idle
        \/ \E out : worker' = [worker EXCEPT !.pc = "push", !.out = out]
    BY <1>17 DEF PublishDeviceStatuses, RunReport, Done
  <2>3. worker'.pc \in {"idle", "push"}
    BY <2>2, <1>a, PushMoves
  <2> QED
    BY <2>1, <2>3, <1>12
<1>18. CASE ConnectionLost
  <2>1. /\ UNCHANGED <<worker, m_connected, callback>>
        /\ linkUp' = FALSE
        /\ lost' > 0
    <3>1. lost' > 0
      BY <1>18 DEF ConnectionLost, TypeOK, CountsOK
    <3> QED
      BY <1>18, <3>1 DEF ConnectionLost
  <2> QED
    BY <2>1, <1>b
<1>19. CASE LowerConnected
  <2>1. callback' = "push" /\ m_connected' = FALSE
    BY <1>19 DEF LowerConnected
  <2> QED
    BY <2>1
<1>20. CASE QueueReconnection
  <2>1. ConnectQueued'
    BY <1>20, <1>a, HasConnectAppend
      DEF QueueReconnection, AddToCommandBuffer, ConnectCommand, Plain,
          CommandsOK, HasConnect, ConnectQueued
  <2>2. UNCHANGED <<worker, m_connected>>
    BY <1>20 DEF QueueReconnection
  <2> QED
    BY <2>1, <2>2
<1>21. CASE UNCHANGED vars
  BY <1>21, <1>b DEF vars
<1> QED
  BY <1>1, <1>2, <1>3, <1>4, <1>5, <1>6, <1>7, <1>8, <1>9, <1>10, <1>11, <1>13,
     <1>14, <1>15, <1>16, <1>17, <1>18, <1>19, <1>20, <1>21
  DEF Next, Execute, Callback

LEMMA FlagPartsAlways == Spec => [](TypeOK /\ FlagParts)
<1>1. TypeOK /\ FlagParts /\ [Next]_vars => (TypeOK /\ FlagParts)'
  BY FlagsOKNext, CountsOKNext, CommandsOKNext, DevicesOKNext, FlagNext DEF TypeOK
<1> QED
  BY <1>1, TypeInit, FlagInit, PTL DEF Spec

(* What the worker relies on in the middle of connect, addDevice and       *)
(* disconnect while the MQTT thread lowers m_connected, provided that      *)
(* reconnect() succeeds, whose result addDevice() does not look at.        *)
THEOREM FlagInvAlways ==
  ASSUME ~ReconnectMayFail
  PROVE  Spec => []FlagInv
<1>1. FlagParts => FlagInv
  BY DEF FlagParts, FlagInv
<1> QED
  BY <1>1, FlagPartsAlways, PTL

(* The worker and the MQTT thread race on m_connected; when the flag and   *)
(* the link disagree, what makes them agree again is under way.  It is so  *)
(* for any number of devices, calls and losses, on the same proviso.       *)
THEOREM FlagsAgreeOrAreRepaired ==
  ASSUME ~ReconnectMayFail
  PROVE  Spec => []StaleFlagIsRepaired
<1>1. FlagInv => StaleFlagIsRepaired
  BY DEF FlagInv
<1> QED
  BY <1>1, FlagInvAlways, PTL

=============================================================================
