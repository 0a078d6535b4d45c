--------------------------- MODULE WolkFleetProofs ---------------------------
(***************************************************************************)
(* What Wolk's devices can count on, for every set of devices, templates   *)
(* and calls: that the last will names them, that the platform is told of  *)
(* them and of one thing only, that their data is sent.                    *)
(*                                                                         *)
(* Each promise is about a module with nothing left to do.  The inductive  *)
(* invariant behind it says, at every other time, which command still to   *)
(* come will keep it; so the proofs follow commands through the buffer,    *)
(* whose content is looked at as a set.                                    *)
(***************************************************************************)
EXTENDS WolkProofs

Queued(q) == {q[i] : i \in DOMAIN q}

HasOp(q, op) == \E c \in Queued(q) : c.op = op

LEMMA QueuedAppend ==
  ASSUME NEW q \in Seq(Command), NEW c
  PROVE  Queued(Append(q, c)) = Queued(q) \cup {c}
<1>1. ASSUME NEW x \in Queued(q) PROVE x \in Queued(Append(q, c))
  BY DEF Queued
<1>2. c \in Queued(Append(q, c))
  <2>1. /\ Len(q) + 1 \in DOMAIN Append(q, c)
        /\ Append(q, c)[Len(q) + 1] = c
    OBVIOUS
  <2> QED
    BY <2>1 DEF Queued
<1>3. ASSUME NEW x \in Queued(Append(q, c)) PROVE x \in Queued(q) \cup {c}
  BY DEF Queued
<1> QED
  BY <1>1, <1>2, <1>3

LEMMA QueuedHeadTail ==
  ASSUME NEW q \in Seq(Command), q # <<>>
  PROVE  Queued(q) = {Head(q)} \cup Queued(Tail(q))
<1>1. ASSUME NEW x \in Queued(q) PROVE x \in {Head(q)} \cup Queued(Tail(q))
  <2>1. PICK i \in DOMAIN q : x = q[i]
    BY DEF Queued
  <2>2. CASE i = 1
    BY <2>1, <2>2
  <2>3. CASE i # 1
    <3>1. /\ i - 1 \in DOMAIN Tail(q)
          /\ Tail(q)[i - 1] = q[i]
      BY <2>3
    <3> QED
      BY <2>1, <3>1 DEF Queued
  <2> QED
    BY <2>2, <2>3
<1>2. Head(q) \in Queued(q)
  <2>1. 1 \in DOMAIN q /\ Head(q) = q[1]
    OBVIOUS
  <2> QED
    BY <2>1 DEF Queued
<1>3. ASSUME NEW x \in Queued(Tail(q)) PROVE x \in Queued(q)
  <2>1. PICK i \in DOMAIN Tail(q) : x = Tail(q)[i]
    BY DEF Queued
  <2>2. i + 1 \in DOMAIN q /\ Tail(q)[i] = q[i + 1]
    OBVIOUS
  <2> QED
    BY <2>1, <2>2 DEF Queued
<1> QED
  BY <1>1, <1>2, <1>3

LEMMA QueuedTyped ==
  ASSUME NEW q \in Seq(Command)
  PROVE  Queued(q) \subseteq Command
  BY DEF Queued

LEMMA QueuedEmpty == Queued(<<>>) = {}
  BY DEF Queued

LEMMA QueuedTail ==
  ASSUME NEW q \in Seq(Command), q # <<>>, NEW c \in Queued(Tail(q))
  PROVE  Len(q) # 1
<1>1. PICK i \in DOMAIN Tail(q) : c = Tail(q)[i]
  BY DEF Queued
<1> QED
  BY <1>1

(* Two sequences one after the other hold what each of them holds.         *)
LEMMA QueuedConcat ==
  ASSUME NEW q \in Seq(Command), NEW r \in Seq(Command)
  PROVE  Queued(q \o r) = Queued(q) \cup Queued(r)
<1>1. ASSUME NEW x \in Queued(q) PROVE x \in Queued(q \o r)
  <2>1. PICK i \in DOMAIN q : x = q[i]
    BY DEF Queued
  <2>2. i \in DOMAIN (q \o r) /\ (q \o r)[i] = q[i]
    OBVIOUS
  <2> QED
    BY <2>1, <2>2 DEF Queued
<1>2. ASSUME NEW x \in Queued(r) PROVE x \in Queued(q \o r)
  <2>1. PICK i \in DOMAIN r : x = r[i]
    BY DEF Queued
  <2>2. Len(q) + i \in DOMAIN (q \o r) /\ (q \o r)[Len(q) + i] = r[i]
    OBVIOUS
  <2> QED
    BY <2>1, <2>2 DEF Queued
<1>3. ASSUME NEW x \in Queued(q \o r) PROVE x \in Queued(q) \cup Queued(r)
  <2>1. PICK i \in DOMAIN (q \o r) : x = (q \o r)[i]
    BY DEF Queued
  <2>2. CASE i <= Len(q)
    <3>1. i \in DOMAIN q /\ (q \o r)[i] = q[i]
      BY <2>2
    <3> QED
      BY <2>1, <3>1 DEF Queued
  <2>3. CASE i > Len(q)
    <3>1. i - Len(q) \in DOMAIN r /\ (q \o r)[i] = r[i - Len(q)]
      BY <2>3
    <3> QED
      BY <2>1, <3>1 DEF Queued
  <2> QED
    BY <2>2, <2>3
<1> QED
  BY <1>1, <1>2, <1>3

LEMMA QueuedOne ==
  ASSUME NEW c
  PROVE  Queued(<<c>>) = {c}
  BY DEF Queued

-----------------------------------------------------------------------------
(* The steps that are not the worker's.                                    *)

Environment == ApiCall \/ ConnectionLost \/ Callback \/ UNCHANGED vars

LEMMA StepKinds ==
  ASSUME [Next]_vars
  PROVE  Environment \/ TakeCommand \/ Execute
  BY DEF Environment, Next

(* They leave the worker and its data alone, and never open a session.     *)
LEMMA EnvironmentSteps ==
  ASSUME Environment
  PROVE  /\ UNCHANGED <<worker, fleet, platform, data, brokerWill>>
         /\ linkUp' => linkUp
<1>1. CASE ApiCall
  BY <1>1 DEF ApiCall, CallConnect, CallDisconnect, CallAddDevice,
    CallAddAssetsToDevice, CallRemoveDevice, CallAddSensorReading, CallPublish,
    CallPublishOf, Call, link
<1>2. CASE ConnectionLost
  BY <1>2 DEF ConnectionLost
<1>3. CASE LowerConnected
  BY <1>3 DEF LowerConnected
<1>4. CASE QueueReconnection
  BY <1>4 DEF QueueReconnection
<1>5. CASE UNCHANGED vars
  BY <1>5 DEF vars, link
<1> QED
  BY <1>1, <1>2, <1>3, <1>4, <1>5 DEF Environment, Callback

(* Who touches the link: the worker opens a session in two places only,    *)
(* with the last will of the time.                                         *)
LEMMA LinkSteps ==
  ASSUME [Next]_vars, ~ConnectSucceeds, ~Reconnect
  PROVE  UNCHANGED brokerWill /\ (linkUp' => linkUp)
<1> USE DEF link
<1>1. CASE Environment
  BY <1>1, EnvironmentSteps
<1>2. CASE TakeCommand
  BY <1>2 DEF TakeCommand
<1>3. CASE Execute
  BY <1>3 DEF Execute, ConnectFails, ConnectAgain, RaiseConnected, Announce,
    PushNext, Disconnect, CloseSession, SessionClosed, AddDevice, RegisterAdded,
    AddAssetsToDevice, StoreAssetsToDevice, RemoveDevice, AddSensorReading,
    Publish, PublishOf, PublishNext, EachDone, RegisterDevices, RegisterNext,
    RegisterDevice, UpdateDevice, PublishDeviceStatuses, RunReport
<1> QED
  BY <1>1, <1>2, <1>3, StepKinds

(* Who touches the notifications of losses.                                *)
LEMMA CallbackSteps ==
  ASSUME [Next]_vars, ~QueueReconnection
  PROVE  callback = "push" => callback' = callback
<1> USE DEF link
<1>1. CASE Environment
  BY <1>1 DEF Environment, ApiCall, CallConnect, CallDisconnect, CallAddDevice,
    CallAddAssetsToDevice, CallRemoveDevice, CallAddSensorReading, CallPublish,
    CallPublishOf, Call, ConnectionLost, Callback, LowerConnected, vars
<1>2. CASE TakeCommand
  BY <1>2 DEF TakeCommand
<1>3. CASE Execute
  BY <1>3 DEF Execute, ConnectSucceeds, ConnectFails, ConnectAgain,
    RaiseConnected, Announce,
    PushNext, Disconnect, CloseSession, AddDevice, RegisterAdded, Reconnect,
    AddAssetsToDevice, StoreAssetsToDevice, RemoveDevice, AddSensorReading,
    Publish, PublishOf, PublishNext, EachDone, RegisterDevices, RegisterNext,
    RegisterDevice, UpdateDevice, PublishDeviceStatuses, RunReport
<1> QED
  BY <1>1, <1>2, <1>3, StepKinds

LEMMA LostSteps ==
  ASSUME TypeOK, [Next]_vars, ~LowerConnected
  PROVE  lost > 0 => lost' > 0
<1> USE DEF link
<1>1. CASE ApiCall \/ QueueReconnection \/ UNCHANGED vars
  BY <1>1 DEF ApiCall, CallConnect, CallDisconnect, CallAddDevice,
    CallAddAssetsToDevice, CallRemoveDevice, CallAddSensorReading, CallPublish,
    CallPublishOf, Call, QueueReconnection, vars
<1>2. CASE ConnectionLost
  BY <1>2 DEF ConnectionLost, TypeOK, CountsOK
<1>3. CASE TakeCommand
  BY <1>3 DEF TakeCommand
<1>4. CASE Execute
  BY <1>4 DEF Execute, ConnectSucceeds, ConnectFails, ConnectAgain,
    RaiseConnected, Announce,
    PushNext, Disconnect, CloseSession, AddDevice, RegisterAdded, Reconnect,
    AddAssetsToDevice, StoreAssetsToDevice, RemoveDevice, AddSensorReading,
    Publish, PublishOf, PublishNext, EachDone, RegisterDevices, RegisterNext,
    RegisterDevice, UpdateDevice, PublishDeviceStatuses, RunReport
<1> QED
  BY <1>1, <1>2, <1>3, <1>4 DEF Next, Callback

(* Who touches the devices.                                                *)
LEMMA FleetSteps ==
  ASSUME [Next]_vars, ~AddDevice, ~RemoveDevice
  PROVE  /\ UNCHANGED <<m_devices, will, removed>>
         /\ ~StoreAssetsToDevice => UNCHANGED template
<1> USE DEF fleet
<1>1. CASE Environment
  BY <1>1, EnvironmentSteps
<1>2. CASE TakeCommand
  BY <1>2 DEF TakeCommand
<1>3. CASE Execute
  BY <1>3 DEF Execute, ConnectFails, ConnectSucceeds, ConnectAgain,
    RaiseConnected, Announce, PushNext, Disconnect, CloseSession,
    RegisterAdded, Reconnect, AddAssetsToDevice, StoreAssetsToDevice,
    AddSensorReading, Publish, PublishOf, PublishNext, EachDone,
    RegisterDevices, RegisterNext, RegisterDevice, UpdateDevice,
    PublishDeviceStatuses, RunReport
<1> QED
  BY <1>1, <1>2, <1>3, StepKinds

(* Who tells the platform anything.                                        *)
LEMMA PlatformSteps ==
  ASSUME [Next]_vars, ~RegisterNext, ~RegisterDevice, ~UpdateDevice
  PROVE  UNCHANGED <<registered, platformAssets>>
<1> USE DEF platform
<1>1. CASE Environment
  BY <1>1, EnvironmentSteps
<1>2. CASE TakeCommand
  BY <1>2 DEF TakeCommand
<1>3. CASE Execute
  BY <1>3 DEF Execute, ConnectFails, ConnectSucceeds, ConnectAgain,
    RaiseConnected, Announce, PushNext, Disconnect, CloseSession, AddDevice,
    RegisterAdded, Reconnect, AddAssetsToDevice, StoreAssetsToDevice,
    RemoveDevice, AddSensorReading, Publish, PublishOf, PublishNext, EachDone,
    RegisterDevices, PublishDeviceStatuses, RunReport
<1> QED
  BY <1>1, <1>2, <1>3, StepKinds

(* Who touches the stored data.                                            *)
LEMMA DataSteps ==
  ASSUME [Next]_vars, ~RaiseConnected, ~AddSensorReading, ~PublishNext
  PROVE  UNCHANGED <<backlog, due>>
<1> USE DEF data
<1>1. CASE Environment
  BY <1>1, EnvironmentSteps
<1>2. CASE TakeCommand
  BY <1>2 DEF TakeCommand
<1>3. CASE Execute
  BY <1>3 DEF Execute, ConnectFails, ConnectSucceeds, ConnectAgain,
    Announce, PushNext, Disconnect, CloseSession, AddDevice,
    RegisterAdded, Reconnect, AddAssetsToDevice, StoreAssetsToDevice,
    RemoveDevice, Publish, PublishOf, EachDone,
    RegisterDevices, RegisterNext, RegisterDevice, UpdateDevice,
    PublishDeviceStatuses, RunReport
<1> QED
  BY <1>1, <1>2, <1>3, StepKinds

(* Who pushes commands.                                                    *)
LEMMA QuietSteps ==
  ASSUME [Next]_vars, ~ApiCall, ~TakeCommand, ~ConnectAgain, ~PushNext,
         ~RegisterAdded, ~AddAssetsToDevice, ~QueueReconnection
  PROVE  UNCHANGED m_commandBuffer
<1>1. CASE ConnectionLost \/ Callback \/ UNCHANGED vars
  BY <1>1 DEF ConnectionLost, Callback, LowerConnected, vars
<1>2. CASE Execute
  BY <1>2 DEF Execute, ConnectFails, ConnectSucceeds, RaiseConnected, Announce,
    Disconnect, CloseSession, AddDevice, Reconnect, StoreAssetsToDevice,
    RemoveDevice, AddSensorReading, Publish, PublishOf, PublishNext, EachDone,
    RegisterDevices, RegisterNext, RegisterDevice, UpdateDevice,
    PublishDeviceStatuses, RunReport
<1> QED
  BY <1>1, <1>2 DEF Next

(* The worker's place and command, from before a step to after it, for     *)
(* each place that a promise depends on.                                   *)
LEMMA WorkerSteps ==
  ASSUME [Next]_vars
  PROVE  /\ worker.pc = "idle" => UNCHANGED worker \/ TakeCommand
         /\ At("run", "connect") => UNCHANGED worker \/ ConnectSucceeds \/ ConnectFails
         /\ At("retry", "connect") => UNCHANGED worker \/ ConnectAgain
         /\ At("connected", "connect") => UNCHANGED worker \/ RaiseConnected
         /\ At("announce", "connect") => UNCHANGED worker \/ Announce
         /\ At("run", "registerDevices") => UNCHANGED worker \/ RegisterDevices
         /\ At("run", "registerDevice") => UNCHANGED worker \/ RegisterDevice
         /\ At("run", "updateDevice") => UNCHANGED worker \/ UpdateDevice
         /\ At("run", "publish") => UNCHANGED worker \/ Publish
         /\ At("each", "registerDevices") => UNCHANGED worker \/ RegisterNext \/ EachDone
         /\ At("each", "publish") => UNCHANGED worker \/ PublishNext \/ EachDone
         /\ worker.pc = "register" => UNCHANGED worker \/ RegisterAdded
         /\ worker.pc = "reconnect" => UNCHANGED worker \/ Reconnect
         /\ worker.pc = "store" => UNCHANGED worker \/ StoreAssetsToDevice
         /\ worker.pc = "push" => UNCHANGED worker \/ PushNext
<1> USE DEF At
<1>1. CASE Environment
  BY <1>1, EnvironmentSteps
<1>2. CASE TakeCommand
  BY <1>2 DEF TakeCommand
<1>3. CASE Execute
  <2>1. CASE ConnectFails \/ ConnectSucceeds \/ ConnectAgain
    BY <2>1 DEF ConnectFails, ConnectSucceeds, ConnectAgain
  <2>2. CASE RaiseConnected \/ Announce \/ PushNext
    BY <2>2 DEF RaiseConnected, Announce, PushNext
  <2>3. CASE Disconnect \/ CloseSession
    BY <2>3 DEF Disconnect, CloseSession
  <2>4. CASE AddDevice \/ RegisterAdded \/ Reconnect
    BY <2>4 DEF AddDevice, RegisterAdded, Reconnect
  <2>5. CASE AddAssetsToDevice \/ StoreAssetsToDevice
    BY <2>5 DEF AddAssetsToDevice, StoreAssetsToDevice
  <2>6. CASE RemoveDevice \/ AddSensorReading
    BY <2>6 DEF RemoveDevice, AddSensorReading
  <2>7. CASE Publish \/ PublishOf \/ PublishNext \/ EachDone
    BY <2>7 DEF Publish, PublishOf, PublishNext, EachDone
  <2>8. CASE RegisterDevices \/ RegisterNext \/ RegisterDevice \/ UpdateDevice
    BY <2>8 DEF RegisterDevices, RegisterNext, RegisterDevice, UpdateDevice
  <2>9. CASE PublishDeviceStatuses \/ RunReport
    BY <2>9 DEF PublishDeviceStatuses, RunReport, Reports
  <2> QED
    BY <1>3, <2>1, <2>2, <2>3, <2>4, <2>5, <2>6, <2>7, <2>8, <2>9 DEF Execute
<1> QED
  BY <1>1, <1>2, <1>3, StepKinds

-----------------------------------------------------------------------------
(* Commands on their way through the buffer.                               *)

(* A command in the buffer stays there until the worker runs it.           *)
LEMMA QueuedStays ==
  ASSUME TypeOK, [Next]_vars, NEW c \in Queued(m_commandBuffer)
  PROVE  \/ c \in Queued(m_commandBuffer')
         \/ TakeCommand /\ worker'.pc = "run" /\ worker'.cmd = c
<1>a. m_commandBuffer \in Seq(Command)
  BY DEF TypeOK, CommandsOK
<1>1. CASE TakeCommand
  <2>1. /\ m_commandBuffer # <<>>
        /\ m_commandBuffer' = Tail(m_commandBuffer)
        /\ worker'.pc = "run" /\ worker'.cmd = Head(m_commandBuffer)
    BY <1>1 DEF TakeCommand, Idle
  <2>2. c \in {Head(m_commandBuffer)} \cup Queued(Tail(m_commandBuffer))
    BY <1>a, <2>1, QueuedHeadTail
  <2> QED
    BY <1>1, <2>1, <2>2
<1>2. CASE \E x : m_commandBuffer' = Append(m_commandBuffer, x)
  <2>1. PICK x : m_commandBuffer' = Append(m_commandBuffer, x)
    BY <1>2
  <2>2. Queued(m_commandBuffer') = Queued(m_commandBuffer) \cup {x}
    BY <1>a, <2>1, QueuedAppend
  <2> QED
    BY <2>2
<1>3. CASE m_commandBuffer' = m_commandBuffer
  BY <1>3
<1> QED
  BY <1>1, <1>2, <1>3, BufferSteps

(* What is pushed is in the buffer.                                        *)
LEMMA PushedIsQueued ==
  ASSUME TypeOK, NEW c, AddToCommandBuffer(c)
  PROVE  Queued(m_commandBuffer') = Queued(m_commandBuffer) \cup {c}
  BY QueuedAppend DEF TypeOK, CommandsOK, AddToCommandBuffer

(* A command with operation op is on its way: about to be pushed, waiting, *)
(* or just taken.                                                          *)
Ahead(op) ==
  \/ worker.pc = "push" /\ HasOp(worker.out, op)
  \/ HasOp(m_commandBuffer, op)
  \/ At("run", op)

LEMMA AheadStays ==
  ASSUME TypeOK, [Next]_vars, NEW op, Ahead(op)
  PROVE  Ahead(op)' \/ At("run", op)
<1>1. CASE HasOp(m_commandBuffer, op)
  <2>1. PICK c \in Queued(m_commandBuffer) : c.op = op
    BY <1>1 DEF HasOp
  <2>2. \/ c \in Queued(m_commandBuffer')
        \/ worker'.pc = "run" /\ worker'.cmd = c
    BY QueuedStays
  <2> QED
    BY <2>1, <2>2 DEF Ahead, HasOp, At
<1>2. CASE worker.pc = "push" /\ HasOp(worker.out, op)
  <2>1. CASE PushNext
    <3>1. /\ worker.out \in Seq(Command) /\ worker.out # <<>>
          /\ worker \in Worker
      BY <2>1 DEF PushNext, TypeOK, CommandsOK, Worker
    <3>2. PICK c \in Queued(worker.out) : c.op = op
      BY <1>2 DEF HasOp
    <3>3. c = Head(worker.out) \/ c \in Queued(Tail(worker.out))
      BY <3>1, <3>2, QueuedHeadTail
    <3>4. CASE c = Head(worker.out)
      <4>1. c \in Queued(m_commandBuffer')
        BY <2>1, <3>4, PushedIsQueued DEF PushNext
      <4> QED
        BY <3>2, <4>1 DEF Ahead, HasOp
    <3>5. CASE c \in Queued(Tail(worker.out))
      <4>1. Len(worker.out) # 1
        BY <3>1, <3>5, QueuedTail
      <4>2. worker' = [worker EXCEPT !.out = Tail(worker.out)]
        BY <2>1, <4>1 DEF PushNext
      <4>3. worker'.pc = "push" /\ worker'.out = Tail(worker.out)
        BY <1>2, <3>1, <4>2 DEF Worker
      <4> QED
        BY <3>2, <3>5, <4>3 DEF Ahead, HasOp
    <3> QED
      BY <3>3, <3>4, <3>5
  <2>2. CASE UNCHANGED worker
    BY <1>2, <2>2 DEF Ahead
  <2> QED
    BY <1>2, <2>1, <2>2, WorkerSteps
<1> QED
  BY <1>1, <1>2 DEF Ahead

LEMMA ConnectQueuedIsHasOp == ConnectQueued <=> HasOp(m_commandBuffer, "connect")
  BY DEF ConnectQueued, HasOp, Queued

(* A Connect that waits, or is about to be pushed, is run some time.       *)
LEMMA ConnectAheadStays ==
  ASSUME TypeOK, [Next]_vars, ConnectAhead
  PROVE  ConnectAhead' \/ (At("run", "connect")' /\ TakeCommand)
<1>1. CASE ConnectQueued
  <2>1. PICK c \in Queued(m_commandBuffer) : c.op = "connect"
    BY <1>1, ConnectQueuedIsHasOp DEF HasOp
  <2>2. CASE c \in Queued(m_commandBuffer')
    <3>1. ConnectQueued'
      BY <2>1, <2>2 DEF ConnectQueued, Queued
    <3> QED
      BY <3>1 DEF ConnectAhead
  <2> QED
    BY <2>1, <2>2, QueuedStays DEF At
<1>2. CASE callback = "push"
  <2>1. CASE QueueReconnection
    <3>1. ConnectCommand(TRUE) \in Queued(m_commandBuffer')
      BY <2>1, PushedIsQueued DEF QueueReconnection
    <3>2. ConnectQueued'
      BY <3>1 DEF ConnectQueued, Queued, ConnectCommand, Plain
    <3> QED
      BY <3>2 DEF ConnectAhead
  <2>2. CASE ~QueueReconnection
    <3>1. callback' = callback
      BY <1>2, <2>2, CallbackSteps
    <3> QED
      BY <1>2, <3>1 DEF ConnectAhead
  <2> QED
    BY <2>1, <2>2
<1> QED
  BY <1>1, <1>2 DEF ConnectAhead

(* The repair of a link that is down: a Connect to come, or the            *)
(* notification of a loss, which brings one.                               *)
Repair == ConnectComing \/ lost > 0

LEMMA RepairStays ==
  ASSUME TypeOK, [Next]_vars, Repair
  PROVE  Repair' \/ At("connected", "connect")'
<1>c. CommandsOK
  BY DEF TypeOK
<1>1. CASE ConnectAhead
  BY <1>1, ConnectAheadStays DEF Repair, ConnectComing
<1>2. CASE At("run", "connect")
  <2>1. CASE ConnectSucceeds
    BY <1>c, <2>1, GotoMoves DEF ConnectSucceeds, At
  <2>2. CASE ConnectFails
    <3>1. At("retry", "connect")'
      BY <1>c, <2>2, GotoMoves DEF ConnectFails, At
    <3> QED
      BY <3>1 DEF Repair, ConnectComing
  <2>3. CASE UNCHANGED worker
    BY <1>2, <2>3 DEF Repair, ConnectComing, At
  <2> QED
    BY <1>2, <2>1, <2>2, <2>3, WorkerSteps
<1>3. CASE At("retry", "connect")
  <2>1. CASE ConnectAgain
    <3>1. worker.cmd \in Queued(m_commandBuffer')
      BY <2>1, PushedIsQueued DEF ConnectAgain
    <3>2. ConnectQueued'
      BY <1>3, <3>1 DEF ConnectQueued, Queued, At
    <3> QED
      BY <3>2 DEF Repair, ConnectComing, ConnectAhead
  <2>2. CASE UNCHANGED worker
    BY <1>3, <2>2 DEF Repair, ConnectComing, At
  <2> QED
    BY <1>3, <2>1, <2>2, WorkerSteps
<1>4. CASE lost > 0
  <2>1. CASE LowerConnected
    BY <2>1 DEF LowerConnected, Repair, ConnectComing, ConnectAhead
  <2>2. CASE ~LowerConnected
    BY <1>4, <2>2, LostSteps DEF Repair
  <2> QED
    BY <2>1, <2>2
<1> QED
  BY <1>1, <1>2, <1>3, <1>4 DEF Repair, ConnectComing

-----------------------------------------------------------------------------
(* The last will.                                                          *)

(* The last will names every device held; when the one the broker holds    *)
(* does not, a new session is to come.                                     *)
WillInv ==
  /\ m_devices \subseteq will
  /\ linkUp /\ ~(m_devices \subseteq brokerWill) =>
       \/ ConnectAhead
       \/ At("run", "connect")
       \/ worker.pc \in {"register", "reconnect"}

LEMMA WillInit == Init => WillInv
  BY DEF Init, WillInv

LEMMA WillNext ==
  ASSUME TypeOK, FlagParts, WillInv, [Next]_vars
  PROVE  WillInv'
<1>c. CommandsOK
  BY DEF TypeOK
<1>1. m_devices' \subseteq will'
  <2>1. CASE AddDevice
    BY <2>1 DEF AddDevice, fleet, WillInv
  <2>2. CASE RemoveDevice
    BY <2>2 DEF RemoveDevice, WillInv
  <2> QED
    BY <2>1, <2>2, FleetSteps DEF WillInv
<1>2. ASSUME linkUp', ~(m_devices' \subseteq brokerWill')
      PROVE  \/ ConnectAhead'
             \/ At("run", "connect")'
             \/ worker'.pc \in {"register", "reconnect"}
  <2>1. CASE ConnectSucceeds \/ Reconnect
    <3>1. m_devices' = m_devices
      BY <2>1 DEF ConnectSucceeds, Reconnect, fleet
    <3>2. brokerWill' = will
      BY <1>2, <2>1 DEF ConnectSucceeds, Reconnect, SessionOpened, SessionClosed
    <3> QED
      BY <1>2, <3>1, <3>2 DEF WillInv
  <2>2. CASE ~ConnectSucceeds /\ ~Reconnect
    <3>1. linkUp /\ brokerWill' = brokerWill
      BY <1>2, <2>2, LinkSteps
    <3>2. CASE AddDevice /\ worker.cmd.device \notin m_devices
      <4>1. CASE m_connected
        <5>1. Goto("register")
          BY <3>2, <4>1 DEF AddDevice
        <5> QED
          BY <1>c, <5>1, GotoMoves
      <4>2. CASE ~m_connected
        <5>1. ConnectAhead
          BY <3>1, <3>2, <4>2 DEF FlagParts, ConnectComing, AddDevice, At
        <5> QED
          BY <5>1, ConnectAheadStays
      <4> QED
        BY <4>1, <4>2
    <3>3. CASE ~(AddDevice /\ worker.cmd.device \notin m_devices)
      <4>1. m_devices' \subseteq m_devices
        BY <3>3, FleetSteps DEF AddDevice, RemoveDevice, fleet
      <4>2. \/ ConnectAhead
            \/ At("run", "connect")
            \/ worker.pc \in {"register", "reconnect"}
        BY <1>2, <3>1, <4>1 DEF WillInv
      <4>3. CASE ConnectAhead
        BY <4>3, ConnectAheadStays
      <4>4. CASE At("run", "connect")
        <5>1. ~ConnectFails
          BY <1>2 DEF ConnectFails, SessionClosed
        <5>2. UNCHANGED worker
          BY <2>2, <4>4, <5>1, WorkerSteps
        <5> QED
          BY <4>4, <5>2 DEF At
      <4>5. CASE worker.pc = "register"
        <5>1. CASE RegisterAdded
          BY <1>c, <5>1, GotoMoves DEF RegisterAdded
        <5> QED
          BY <4>5, <5>1, WorkerSteps
      <4>6. CASE worker.pc = "reconnect"
        BY <2>2, <4>6, WorkerSteps
      <4> QED
        BY <4>2, <4>3, <4>4, <4>5, <4>6
    <3> QED
      BY <3>2, <3>3
  <2> QED
    BY <2>1, <2>2
<1> QED
  BY <1>1, <1>2 DEF WillInv

(* Nothing is on its way once nothing is left to do.                       *)
LEMMA QuiescentIsQuiet ==
  ASSUME Quiescent
  PROVE  /\ ~ConnectAhead /\ ~Repair
         /\ \A pc, op : pc # "idle" => ~At(pc, op)
         /\ \A op : ~Ahead(op)
         /\ Queued(m_commandBuffer) = {}
<1>1. Queued(m_commandBuffer) = {}
  BY QueuedEmpty DEF Quiescent
<1>2. \A pc, op : pc # "idle" => ~At(pc, op)
  BY DEF Quiescent, At
<1>3. ~ConnectAhead
  BY <1>1, ConnectQueuedIsHasOp DEF Quiescent, ConnectAhead, HasOp
<1>4. ~Repair
  BY <1>2, <1>3 DEF Repair, ConnectComing, Quiescent
<1>5. \A op : ~Ahead(op)
  BY <1>1, <1>2 DEF Ahead, HasOp, Quiescent
<1> QED
  BY <1>1, <1>2, <1>3, <1>4, <1>5

(* Devices are added during a connect, between a loss and its notification *)
(* and with reconnect() failing unseen: once nothing is left to do on a    *)
(* live link the broker's last will names them all the same.               *)
THEOREM BrokerWillNamesDevices == Spec => []WillCoversDevices
<1>1. WillInv => WillCoversDevices
  <2> SUFFICES ASSUME WillInv, Quiescent, linkUp
               PROVE  m_devices \subseteq brokerWill
    BY DEF WillCoversDevices
  <2> QED
    BY QuiescentIsQuiet DEF WillInv, Quiescent
<1>2. TypeOK /\ FlagParts /\ WillInv /\ [Next]_vars => WillInv'
  BY WillNext
<1> QED
  BY <1>1, <1>2, WillInit, FlagPartsAlways, PTL DEF Spec

-----------------------------------------------------------------------------
(* What was stored is sent.                                                *)

(* What a connection brings: the registration of every device always, the  *)
(* publishing of what is stored when asked for.                            *)
LEMMA AnnouncementsQueued ==
  ASSUME m_devices \subseteq Devices
  PROVE  /\ Queued(Announcements(FALSE)) = {Plain("registerDevices")}
         /\ Queued(Announcements(TRUE)) =
              {Plain("registerDevices"), Plain("firmwareVersions"),
               Plain("deviceStatuses"), Plain("publish")}
              \cup Queued(DeviceReports)
<1> DEFINE first == <<Plain("registerDevices"), Plain("firmwareVersions"),
                      Plain("deviceStatuses")>>
<1>1. /\ first \in Seq(Command)
      /\ <<Plain("publish")>> \in Seq(Command)
      /\ DeviceReports \in Seq(Command)
  BY PlainsTyped, DeviceReportsTyped
<1>2. Queued(first) = {Plain("registerDevices"), Plain("firmwareVersions"),
                       Plain("deviceStatuses")}
  <2>1. DOMAIN first = {1, 2, 3}
    OBVIOUS
  <2>2. /\ first[1] = Plain("registerDevices")
        /\ first[2] = Plain("firmwareVersions")
        /\ first[3] = Plain("deviceStatuses")
    OBVIOUS
  <2> HIDE DEF first
  <2> QED
    BY <2>1, <2>2 DEF Queued
<1>3. Announcements(TRUE) = (first \o DeviceReports) \o <<Plain("publish")>>
  BY <1>1 DEF Announcements
<1> HIDE DEF first
<1>4. /\ first \o DeviceReports \in Seq(Command)
      /\ Queued(first \o DeviceReports) = Queued(first) \cup Queued(DeviceReports)
  BY <1>1, QueuedConcat
<1>5. Queued(Announcements(TRUE)) =
        Queued(first \o DeviceReports) \cup Queued(<<Plain("publish")>>)
  BY <1>1, <1>3, <1>4, QueuedConcat
<1>6. Queued(Announcements(FALSE)) = {Plain("registerDevices")}
  BY QueuedOne DEF Announcements
<1> QED
  BY <1>2, <1>4, <1>5, <1>6, QueuedOne

LEMMA Announced ==
  ASSUME m_devices \subseteq Devices, NEW now \in BOOLEAN
  PROVE  /\ HasOp(Announcements(now), "registerDevices")
         /\ now => HasOp(Announcements(now), "publish")
<1>1. /\ Plain("registerDevices").op = "registerDevices"
      /\ Plain("publish").op = "publish"
  BY DEF Plain
<1>2. CASE now = FALSE
  BY <1>1, <1>2, AnnouncementsQueued DEF HasOp
<1>3. CASE now = TRUE
  BY <1>1, <1>3, AnnouncementsQueued DEF HasOp
<1> QED
  BY <1>2, <1>3

(* A link that reconnect() brings back was lost behind the worker's back:  *)
(* the repair that the loss brings is still to come.                       *)
LEMMA ReconnectedIsRepaired ==
  ASSUME TypeOK, FlagParts, [Next]_vars, ~ReconnectMayFail, Reconnect, ~linkUp
  PROVE  Repair'
<1>1. worker.pc = "reconnect" /\ worker'.pc = "idle"
  BY DoneIdles DEF Reconnect, At
<1>2. Repair
  <2>1. CASE m_connected
    BY <2>1 DEF FlagParts, StaleFlagIsRepaired, Repair
  <2>2. CASE ~m_connected
    BY <1>1, <2>2 DEF FlagParts, FlagReadByAddDevice, Repair, ConnectComing
  <2> QED
    BY <2>1, <2>2
<1> QED
  BY <1>1, <1>2, RepairStays DEF At

PublishAhead ==
  \/ Repair
  \/ At("connected", "connect")
  \/ At("announce", "connect") /\ worker.cmd.now
  \/ Ahead("publish")

(* What is due is stored, and on a live link its publishing is to come.    *)
DueInv ==
  /\ due \subseteq backlog
  /\ linkUp => \A d \in due :
       PublishAhead \/ (At("each", "publish") /\ d \in worker.todo)

LEMMA DueInit == Init => DueInv
  BY DEF Init, DueInv

LEMMA DueNext ==
  ASSUME TypeOK, FlagParts, ~ReconnectMayFail, DueInv, [Next]_vars
  PROVE  DueInv'
<1>c. CommandsOK /\ worker \in Worker
  BY DEF TypeOK, CommandsOK
<1>1. due' \subseteq backlog'
  <2>1. CASE RaiseConnected
    BY <2>1 DEF RaiseConnected, DueInv
  <2>2. CASE AddSensorReading
    BY <2>2 DEF AddSensorReading, DueInv
  <2>3. CASE PublishNext
    BY <2>3 DEF PublishNext, DueInv
  <2> QED
    BY <2>1, <2>2, <2>3, DataSteps DEF DueInv
<1>2. ASSUME linkUp', NEW d \in due'
      PROVE  PublishAhead' \/ (At("each", "publish") /\ d \in worker.todo)'
  <2>1. CASE ConnectSucceeds
    <3>1. At("connected", "connect")'
      BY <1>c, <2>1, GotoMoves DEF ConnectSucceeds, At
    <3> QED
      BY <3>1 DEF PublishAhead
  <2>2. CASE Reconnect /\ ~linkUp
    BY <2>2, ReconnectedIsRepaired DEF PublishAhead
  <2>3. CASE RaiseConnected
    <3>1. worker'.pc = "announce" /\ worker'.cmd = worker.cmd
          /\ worker.cmd.op = "connect"
      BY <1>c, <2>3, GotoMoves DEF RaiseConnected, At
    <3>2. worker.cmd.now
      BY <1>2, <2>3 DEF RaiseConnected
    <3> QED
      BY <3>1, <3>2 DEF PublishAhead, At
  <2>4. CASE ~ConnectSucceeds /\ ~(Reconnect /\ ~linkUp) /\ ~RaiseConnected
    <3>1. linkUp
      BY <1>2, <2>4, LinkSteps
    <3>2. d \in due
      BY <1>2, <2>4, DataSteps DEF AddSensorReading, PublishNext
    <3>3. CASE Repair
      BY <3>3, RepairStays DEF PublishAhead
    <3>4. CASE At("connected", "connect")
      BY <2>4, <3>4, WorkerSteps DEF PublishAhead, At
    <3>5. CASE At("announce", "connect") /\ worker.cmd.now
      <4>1. CASE Announce
        <5>1. HasOp(Announcements(worker.cmd.now), "publish")
          BY <1>c, <3>5, Announced, CommandFields DEF TypeOK, DevicesOK, Worker
        <5>2. /\ worker'.pc = "push"
              /\ worker'.out = Announcements(worker.cmd.now)
          BY <1>c, <4>1 DEF Announce, Worker
        <5> QED
          BY <5>1, <5>2 DEF PublishAhead, Ahead, HasOp
      <4>2. CASE UNCHANGED worker
        BY <3>5, <4>2 DEF PublishAhead, At
      <4> QED
        BY <3>5, <4>1, <4>2, WorkerSteps
    <3>6. CASE At("run", "publish")
      <4>1. CASE Publish
        <5>1. /\ worker'.pc = "each" /\ worker'.cmd = worker.cmd
              /\ worker'.todo = backlog
          BY <1>c, <4>1 DEF Publish, Worker
        <5> QED
          BY <3>2, <3>6, <5>1 DEF At, DueInv
      <4>2. CASE UNCHANGED worker
        BY <3>6, <4>2 DEF PublishAhead, Ahead, At
      <4> QED
        BY <3>6, <4>1, <4>2, WorkerSteps
    <3>7. CASE Ahead("publish") /\ ~At("run", "publish")
      BY <3>7, AheadStays DEF PublishAhead
    <3>8. CASE At("each", "publish") /\ d \in worker.todo
      <4>1. CASE PublishNext
        <5>1. PICK e \in worker.todo :
                /\ worker' = [worker EXCEPT !.todo = @ \ {e}]
                /\ due' = IF linkUp THEN due \ {e} ELSE due
          BY <4>1 DEF PublishNext
        <5>2. d # e
          BY <1>2, <3>1, <5>1
        <5>3. /\ worker'.pc = worker.pc /\ worker'.cmd = worker.cmd
              /\ worker'.todo = worker.todo \ {e}
          BY <1>c, <5>1 DEF Worker
        <5> QED
          BY <3>8, <5>2, <5>3 DEF At
      <4>2. CASE EachDone
        BY <3>8, <4>2 DEF EachDone
      <4>3. CASE UNCHANGED worker
        BY <3>8, <4>3 DEF At
      <4> QED
        BY <3>8, <4>1, <4>2, <4>3, WorkerSteps
    <3> QED
      BY <3>1, <3>2, <3>3, <3>4, <3>5, <3>6, <3>7, <3>8 DEF DueInv, PublishAhead
  <2> QED
    BY <2>1, <2>2, <2>3, <2>4
<1> QED
  BY <1>1, <1>2 DEF DueInv

(* Whatever is lost while the stored data is being sent, connects to come  *)
(* publish it again: once nothing is left to do on a live link it has been *)
(* sent, provided that reconnect() succeeds.                               *)
THEOREM StoredDataReachesPlatform ==
  ASSUME ~ReconnectMayFail
  PROVE  Spec => []StoredDataIsSent
<1>1. DueInv => StoredDataIsSent
  <2> SUFFICES ASSUME DueInv, Quiescent, linkUp, NEW d \in due
               PROVE  FALSE
    BY DEF StoredDataIsSent
  <2> QED
    BY QuiescentIsQuiet DEF DueInv, PublishAhead
<1>2. TypeOK /\ FlagParts /\ DueInv /\ [Next]_vars => DueInv'
  BY DueNext
<1> QED
  BY <1>1, <1>2, DueInit, FlagPartsAlways, PTL DEF Spec

-----------------------------------------------------------------------------
(* What the platform is told of the devices held.                          *)

(* The worker is yet to carry out c, the registration addDevice() is about *)
(* to push included.                                                       *)
Waiting(c) ==
  \/ c \in Queued(m_commandBuffer)
  \/ worker.pc = "run" /\ worker.cmd = c
  \/ /\ At("register", "addDevice")
     /\ c = With("registerDevice", worker.cmd.device, worker.cmd.assets)

LEMMA WaitingStays ==
  ASSUME TypeOK, [Next]_vars, NEW c, Waiting(c),
         ~(worker.pc = "run" /\ worker.cmd = c)
  PROVE  Waiting(c)'
<1>1. CASE c \in Queued(m_commandBuffer)
  BY <1>1, QueuedStays DEF Waiting
<1>2. CASE /\ At("register", "addDevice")
           /\ c = With("registerDevice", worker.cmd.device, worker.cmd.assets)
  <2>1. CASE RegisterAdded
    BY <1>2, <2>1, PushedIsQueued DEF RegisterAdded, Waiting
  <2>2. CASE UNCHANGED worker
    <3>1. /\ worker'.pc = "register" /\ worker'.cmd.op = "addDevice"
          /\ c = With("registerDevice", worker'.cmd.device, worker'.cmd.assets)
      BY <1>2, <2>2 DEF At
    <3> QED
      BY <3>1 DEF Waiting, At
  <2> QED
    BY <1>2, <2>1, <2>2, WorkerSteps DEF At
<1> QED
  BY <1>1, <1>2 DEF Waiting

(* The walk that registers every device is to come.                        *)
RegistrationAhead ==
  \/ Repair
  \/ At("connected", "connect")
  \/ At("announce", "connect")
  \/ Ahead("registerDevices")

Registering(d) ==
  \/ d \in registered
  \/ \E c \in Command : Waiting(c) /\ c.op = "registerDevice" /\ c.device = d

Telling(d, a) ==
  \/ a \in platformAssets[d]
  \/ \E c \in Command :
       /\ Waiting(c)
       /\ c.op \in {"registerDevice", "updateDevice"}
       /\ c.device = d
       /\ a \in c.assets

(* The platform knows d, or is about to be told.                           *)
Known(d) ==
  \/ RegistrationAhead
  \/ At("each", "registerDevices") /\ d \in worker.todo
  \/ Registering(d) /\ \A a \in template[d] : Telling(d, a)

(* On a live link that is so of every device held.  Templates about to be  *)
(* stored have their update waiting already.                               *)
KnowInv ==
  /\ worker.pc = "store" =>
       With("updateDevice", worker.cmd.device, worker.cmd.assets)
         \in Queued(m_commandBuffer)
  /\ linkUp => \A d \in m_devices : Known(d)

LEMMA KnowInit == Init => KnowInv
  BY DEF Init, KnowInv, Idle

(* The platform forgets nothing.                                           *)
LEMMA PlatformGrows ==
  ASSUME TypeOK, [Next]_vars
  PROVE  /\ registered \subseteq registered'
         /\ \A d \in Devices : platformAssets[d] \subseteq platformAssets'[d]
<1> USE DEF TypeOK, DevicesOK, platform
<1>1. CASE RegisterNext
  BY <1>1 DEF RegisterNext, PublishRegistrationRequest
<1>2. CASE RegisterDevice
  BY <1>2 DEF RegisterDevice, PublishRegistrationRequest
<1>3. CASE UpdateDevice
  BY <1>3 DEF UpdateDevice, PublishUpdateRequest
<1> QED
  BY <1>1, <1>2, <1>3, PlatformSteps

(* A registration that waits is sent some time, on a live link for good.   *)
LEMMA RegisteringStays ==
  ASSUME TypeOK, [Next]_vars, linkUp, NEW d \in Devices, Registering(d)
  PROVE  Registering(d)'
<1>1. CASE d \in registered
  BY <1>1, PlatformGrows DEF Registering
<1>2. CASE d \notin registered
  <2>1. PICK c \in Command :
          Waiting(c) /\ c.op = "registerDevice" /\ c.device = d
    BY <1>2 DEF Registering
  <2>2. CASE worker.pc = "run" /\ worker.cmd = c
    <3>1. CASE RegisterDevice
      <4>1. d \in registered'
        BY <2>1, <2>2, <3>1 DEF RegisterDevice, PublishRegistrationRequest
      <4> QED
        BY <4>1 DEF Registering
    <3>2. CASE UNCHANGED worker
      BY <2>1, <2>2, <3>2 DEF Registering, Waiting
    <3> QED
      BY <2>1, <2>2, <3>1, <3>2, WorkerSteps DEF At
  <2>3. CASE ~(worker.pc = "run" /\ worker.cmd = c)
    BY <2>1, <2>3, WaitingStays DEF Registering
  <2> QED
    BY <2>2, <2>3
<1> QED
  BY <1>1, <1>2

(* So is an update.                                                        *)
LEMMA TellingStays ==
  ASSUME TypeOK, [Next]_vars, linkUp, NEW d \in Devices, NEW a, Telling(d, a)
  PROVE  Telling(d, a)'
<1>1. CASE a \in platformAssets[d]
  BY <1>1, PlatformGrows DEF Telling
<1>2. CASE a \notin platformAssets[d]
  <2>1. PICK c \in Command :
          /\ Waiting(c)
          /\ c.op \in {"registerDevice", "updateDevice"}
          /\ c.device = d
          /\ a \in c.assets
    BY <1>2 DEF Telling
  <2>2. CASE worker.pc = "run" /\ worker.cmd = c
    <3>1. CASE RegisterDevice \/ UpdateDevice
      <4>1. platformAssets' =
              [platformAssets EXCEPT ![d] = @ \cup worker.cmd.assets]
        BY <2>1, <2>2, <3>1 DEF RegisterDevice, UpdateDevice,
          PublishRegistrationRequest, PublishUpdateRequest
      <4>2. a \in platformAssets'[d]
        BY <2>1, <2>2, <4>1 DEF TypeOK, DevicesOK
      <4> QED
        BY <4>2 DEF Telling
    <3>2. CASE UNCHANGED worker
      BY <2>1, <2>2, <3>2 DEF Telling, Waiting
    <3> QED
      BY <2>1, <2>2, <3>1, <3>2, WorkerSteps DEF At
  <2>3. CASE ~(worker.pc = "run" /\ worker.cmd = c)
    BY <2>1, <2>3, WaitingStays DEF Telling
  <2> QED
    BY <2>2, <2>3
<1> QED
  BY <1>1, <1>2

(* The walk over the devices, from the announcement to the last device.    *)
LEMMA RegistrationAheadStays ==
  ASSUME TypeOK, [Next]_vars, RegistrationAhead, NEW d \in m_devices
  PROVE  \/ RegistrationAhead'
         \/ (At("each", "registerDevices") /\ d \in worker.todo)'
<1>c. CommandsOK /\ worker \in Worker
  BY DEF TypeOK, CommandsOK
<1>1. CASE Repair
  BY <1>1, RepairStays DEF RegistrationAhead
<1>2. CASE At("connected", "connect")
  <2>1. CASE RaiseConnected
    <3>1. At("announce", "connect")'
      BY <1>c, <1>2, <2>1, GotoMoves DEF RaiseConnected, At
    <3> QED
      BY <3>1 DEF RegistrationAhead
  <2>2. CASE UNCHANGED worker
    BY <1>2, <2>2 DEF RegistrationAhead, At
  <2> QED
    BY <1>2, <2>1, <2>2, WorkerSteps
<1>3. CASE At("announce", "connect")
  <2>1. CASE Announce
    <3>1. HasOp(Announcements(worker.cmd.now), "registerDevices")
      BY <1>c, Announced, CommandFields DEF TypeOK, DevicesOK, Worker
    <3>2. /\ worker'.pc = "push"
          /\ worker'.out = Announcements(worker.cmd.now)
      BY <1>c, <2>1 DEF Announce, Worker
    <3> QED
      BY <3>1, <3>2 DEF RegistrationAhead, Ahead, HasOp
  <2>2. CASE UNCHANGED worker
    BY <1>3, <2>2 DEF RegistrationAhead, At
  <2> QED
    BY <1>3, <2>1, <2>2, WorkerSteps
<1>4. CASE At("run", "registerDevices")
  <2>1. CASE RegisterDevices
    <3>1. /\ worker'.pc = "each" /\ worker'.cmd = worker.cmd
          /\ worker'.todo = m_devices
      BY <1>c, <2>1 DEF RegisterDevices, Worker
    <3> QED
      BY <1>4, <3>1 DEF At
  <2>2. CASE UNCHANGED worker
    BY <1>4, <2>2 DEF RegistrationAhead, Ahead, At
  <2> QED
    BY <1>4, <2>1, <2>2, WorkerSteps
<1>5. CASE Ahead("registerDevices") /\ ~At("run", "registerDevices")
  BY <1>5, AheadStays DEF RegistrationAhead
<1> QED
  BY <1>1, <1>2, <1>3, <1>4, <1>5 DEF RegistrationAhead

(* How the worker comes to a place: with the command it had, and to those  *)
(* where it is to push or store only from one step each.                   *)
LEMMA Arrivals ==
  ASSUME TypeOK, Execute
  PROVE  \/ worker' = Idle
         \/ /\ worker'.cmd = worker.cmd
            /\ worker'.pc = "store" => AddAssetsToDevice
            /\ worker'.pc = "register" => AddDevice
            /\ worker'.pc = "push" => Announce \/ PushNext \/ PublishDeviceStatuses
<1>c. CommandsOK /\ worker \in Worker
  BY DEF TypeOK, CommandsOK
<1> DEFINE moves(place) == worker'.cmd = worker.cmd /\ worker'.pc = place
<1>1. CASE ConnectFails \/ ConnectSucceeds \/ ConnectAgain
  <2>1. worker' = Idle \/ moves("retry") \/ moves("connected")
    BY <1>c, <1>1, GotoMoves DEF ConnectFails, ConnectSucceeds, ConnectAgain, Done
  <2> QED
    BY <2>1
<1>2. CASE RaiseConnected \/ Disconnect \/ CloseSession
  <2>1. worker' = Idle \/ moves("announce") \/ moves("disconnecting")
    BY <1>c, <1>2, GotoMoves DEF RaiseConnected, Disconnect, CloseSession, Done
  <2> QED
    BY <2>1
<1>3. CASE Announce
  <2>1. moves("push")
    BY <1>c, <1>3 DEF Announce, Worker
  <2> QED
    BY <1>3, <2>1
<1>4. CASE PushNext
  <2>1. worker' = Idle \/ worker' = [worker EXCEPT !.out = Tail(worker.out)]
    BY <1>4 DEF PushNext
  <2>2. worker' = Idle \/ moves("push")
    BY <1>c, <1>4, <2>1 DEF PushNext, Worker
  <2> QED
    BY <1>4, <2>2
<1>5. CASE AddDevice
  <2>1. worker' = Idle \/ moves("register")
    BY <1>c, <1>5, GotoMoves DEF AddDevice, Done
  <2> QED
    BY <1>5, <2>1
<1>6. CASE RegisterAdded \/ Reconnect
  <2>1. worker' = Idle \/ moves("reconnect")
    BY <1>c, <1>6, GotoMoves DEF RegisterAdded, Reconnect, Done
  <2> QED
    BY <2>1
<1>7. CASE AddAssetsToDevice
  <2>1. worker' = Idle \/ moves("store")
    BY <1>c, <1>7, GotoMoves DEF AddAssetsToDevice, Done
  <2> QED
    BY <1>7, <2>1
<1>8. CASE StoreAssetsToDevice \/ RemoveDevice \/ AddSensorReading
  BY <1>8 DEF StoreAssetsToDevice, RemoveDevice, AddSensorReading, Done
<1>9. CASE Publish \/ PublishOf \/ RegisterDevices
  <2>1. moves("each")
    BY <1>c, <1>9 DEF Publish, PublishOf, RegisterDevices, Worker
  <2> QED
    BY <2>1
<1>10. CASE PublishNext \/ RegisterNext \/ EachDone
  <2>1. worker' = Idle \/ \E e : worker' = [worker EXCEPT !.todo = @ \ {e}]
    BY <1>10 DEF PublishNext, RegisterNext, EachDone, Done
  <2>2. worker.pc = "each"
    BY <1>10 DEF PublishNext, RegisterNext, EachDone, At
  <2>3. worker' = Idle \/ moves("each")
    BY <1>c, <2>1, <2>2 DEF Worker
  <2> QED
    BY <2>3
<1>11. CASE RegisterDevice \/ UpdateDevice \/ RunReport
  BY <1>11 DEF RegisterDevice, UpdateDevice, RunReport, Done
<1>12. CASE PublishDeviceStatuses
  <2>1. \/ worker' = Idle
        \/ \E out : worker' = [worker EXCEPT !.pc = "push", !.out = out]
    BY <1>12 DEF PublishDeviceStatuses
  <2>2. worker' = Idle \/ moves("push")
    BY <1>c, <2>1 DEF Worker
  <2> QED
    BY <1>12, <2>2
<1> QED
  BY <1>1, <1>2, <1>3, <1>4, <1>5, <1>6, <1>7, <1>8, <1>9, <1>10, <1>11, <1>12
  DEF Execute

(* The worker comes to store templates only from their validation.         *)
LEMMA StoreSteps ==
  ASSUME TypeOK, [Next]_vars, worker'.pc = "store"
  PROVE  AddAssetsToDevice \/ (UNCHANGED worker /\ worker.pc = "store")
<1>1. CASE Environment
  BY <1>1, EnvironmentSteps
<1>2. CASE TakeCommand
  BY <1>2 DEF TakeCommand, Idle
<1>3. CASE Execute
  BY <1>3, Arrivals DEF Idle
<1> QED
  BY <1>1, <1>2, <1>3, StepKinds

(* The update of templates about to be stored waits.                       *)
LEMMA UpdateWaitsNext ==
  ASSUME TypeOK, KnowInv, [Next]_vars, worker'.pc = "store"
  PROVE  With("updateDevice", worker'.cmd.device, worker'.cmd.assets)
           \in Queued(m_commandBuffer')
<1>c. CommandsOK
  BY DEF TypeOK
<1>1. CASE AddAssetsToDevice
  <2>1. /\ AddToCommandBuffer(With("updateDevice", worker.cmd.device,
                                  worker.cmd.assets))
        /\ Goto("store")
    BY <1>1, DoneIdles DEF AddAssetsToDevice
  <2>2. worker'.cmd = worker.cmd
    BY <1>c, <2>1, GotoMoves
  <2> QED
    BY <2>1, <2>2, PushedIsQueued
<1>2. CASE UNCHANGED worker /\ worker.pc = "store"
  <2> DEFINE update == With("updateDevice", worker.cmd.device, worker.cmd.assets)
  <2>1. update \in Queued(m_commandBuffer)
    BY <1>2 DEF KnowInv
  <2> HIDE DEF update
  <2>2. update \in Queued(m_commandBuffer')
    BY <1>2, <2>1, QueuedStays
  <2> QED
    BY <1>2, <2>2 DEF update
<1> QED
  BY <1>1, <1>2, StoreSteps

(* A device that is added: its registration is about to be pushed, or the  *)
(* worker believes the link down and a Connect is to come.                 *)
LEMMA AddedIsKnown ==
  ASSUME TypeOK, FlagParts, [Next]_vars, AddDevice, linkUp,
         NEW d, d = worker.cmd.device, d \notin m_devices
  PROVE  Known(d)'
<1> PICK assets : assets = worker.cmd.assets
  OBVIOUS
<1> DEFINE register == With("registerDevice", d, assets)
<1>c. CommandsOK /\ worker \in Worker /\ worker.cmd \in Command
  BY DEF TypeOK, CommandsOK, Worker
<1>d. d \in Devices /\ assets \in SUBSET Assets
  BY <1>c, CommandFields DEF AddDevice, At, DeviceOperations
<1>1. CASE m_connected
  <2>1. worker'.pc = "register" /\ worker'.cmd = worker.cmd
    BY <1>c, <1>1, GotoMoves DEF AddDevice
  <2>2. Waiting(register)'
    BY <2>1 DEF Waiting, AddDevice, At
  <2>3. /\ register \in Command
        /\ register.op = "registerDevice"
        /\ register.device = d
        /\ register.assets = assets
    <3>1. register \in Command
      BY <1>d, CommandsTyped DEF Operations
    <3> QED
      BY <3>1 DEF With, For, Plain
  <2> HIDE DEF register
  <2>4. Registering(d)'
    BY <2>1, <2>2, <2>3 DEF Registering
  <2>5. template'[d] = assets
    BY <1>d DEF AddDevice, TypeOK, DevicesOK
  <2>6. \A a \in template'[d] : Telling(d, a)'
    BY <2>1, <2>2, <2>3, <2>5 DEF Telling
  <2> QED
    BY <2>1, <2>4, <2>6 DEF Known
<1>2. CASE ~m_connected
  <2>1. ConnectAhead
    BY <1>2 DEF FlagParts, ConnectComing, AddDevice, At
  <2>2. ConnectAhead' \/ TakeCommand
    BY <2>1, ConnectAheadStays
  <2>3. ~TakeCommand
    BY DEF TakeCommand, AddDevice, At
  <2> QED
    BY <2>2, <2>3 DEF Known, RegistrationAhead, Repair, ConnectComing
<1> QED
  BY <1>1, <1>2

(* A device that stays: what it holds is only ever added to by templates   *)
(* whose update waits.                                                     *)
LEMMA HeldStaysKnown ==
  ASSUME TypeOK, KnowInv, [Next]_vars, linkUp, linkUp',
         NEW d \in m_devices, d \in m_devices', Known(d)
  PROVE  Known(d)'
<1>c. CommandsOK /\ worker \in Worker /\ d \in Devices
  BY DEF TypeOK, CommandsOK, DevicesOK
<1>1. CASE RegistrationAhead
  BY <1>1, RegistrationAheadStays DEF Known
<1>2. CASE At("each", "registerDevices") /\ d \in worker.todo
  <2>1. CASE RegisterNext
    <3>1. PICK e \in worker.todo :
            /\ worker' = [worker EXCEPT !.todo = @ \ {e}]
            /\ PublishRegistrationRequest(e, template[e])
      BY <2>1 DEF RegisterNext
    <3>2. CASE e = d
      <4>1. d \in registered' /\ template[d] \subseteq platformAssets'[d]
        BY <1>c, <3>1, <3>2 DEF PublishRegistrationRequest, TypeOK, DevicesOK
      <4>2. template' = template
        BY <2>1 DEF RegisterNext, fleet
      <4> QED
        BY <4>1, <4>2 DEF Known, Registering, Telling
    <3>3. CASE e # d
      <4>1. /\ worker'.pc = worker.pc /\ worker'.cmd = worker.cmd
            /\ worker'.todo = worker.todo \ {e}
        BY <1>c, <3>1 DEF Worker
      <4> QED
        BY <1>2, <3>3, <4>1 DEF Known, At
    <3> QED
      BY <3>2, <3>3
  <2>2. CASE EachDone
    BY <1>2, <2>2 DEF EachDone
  <2>3. CASE UNCHANGED worker
    BY <1>2, <2>3 DEF Known, At
  <2> QED
    BY <1>2, <2>1, <2>2, <2>3, WorkerSteps
<1>3. CASE Registering(d) /\ \A a \in template[d] : Telling(d, a)
  <2>1. Registering(d)'
    BY <1>c, <1>3, RegisteringStays
  <2>2. \A a \in template[d] : Telling(d, a)'
    BY <1>c, <1>3, TellingStays
  <2>3. CASE StoreAssetsToDevice /\ worker.cmd.device = d
    <3> DEFINE update == With("updateDevice", d, worker.cmd.assets)
    <3>1. worker.pc = "store" /\ worker.cmd \in Command
      BY <1>c, <2>3 DEF StoreAssetsToDevice, At, Worker
    <3>2. update \in Queued(m_commandBuffer')
      BY <2>3, <3>1 DEF KnowInv, StoreAssetsToDevice
    <3>3. /\ update \in Command
          /\ update.op = "updateDevice"
          /\ update.device = d
          /\ update.assets = worker.cmd.assets
      <4>1. update \in Command
        BY <1>c, <3>1, CommandsTyped, CommandFields DEF Operations
      <4> QED
        BY <4>1 DEF With, For, Plain
    <3> HIDE DEF update
    <3>4. \A a \in worker.cmd.assets : Telling(d, a)'
      BY <3>2, <3>3 DEF Telling, Waiting
    <3>5. template'[d] \subseteq template[d] \cup worker.cmd.assets
      BY <1>c, <2>3 DEF StoreAssetsToDevice, OnePer, NewAssets, TypeOK, DevicesOK
    <3> QED
      BY <2>1, <2>2, <3>4, <3>5 DEF Known
  <2>4. CASE ~(StoreAssetsToDevice /\ worker.cmd.device = d)
    <3>1. template'[d] = template[d]
      <4>1. CASE AddDevice
        BY <1>c, <4>1 DEF AddDevice, fleet, TypeOK, DevicesOK
      <4>2. CASE RemoveDevice
        BY <1>c, <4>2 DEF RemoveDevice, TypeOK, DevicesOK
      <4>3. CASE StoreAssetsToDevice
        BY <1>c, <2>4, <4>3 DEF StoreAssetsToDevice, TypeOK, DevicesOK
      <4> QED
        BY <4>1, <4>2, <4>3, FleetSteps
    <3> QED
      BY <2>1, <2>2, <3>1 DEF Known
  <2> QED
    BY <2>3, <2>4
<1> QED
  BY <1>1, <1>2, <1>3 DEF Known

LEMMA KnowNext ==
  ASSUME TypeOK, FlagParts, ~ReconnectMayFail, KnowInv, [Next]_vars
  PROVE  KnowInv'
<1>c. CommandsOK
  BY DEF TypeOK
<1>1. ASSUME linkUp', NEW d \in m_devices'
      PROVE  Known(d)'
  <2>1. CASE ConnectSucceeds
    <3>1. At("connected", "connect")'
      BY <1>c, <2>1, GotoMoves DEF ConnectSucceeds, At
    <3> QED
      BY <3>1 DEF Known, RegistrationAhead
  <2>2. CASE Reconnect /\ ~linkUp
    BY <2>2, ReconnectedIsRepaired DEF Known, RegistrationAhead
  <2>3. CASE ~ConnectSucceeds /\ ~(Reconnect /\ ~linkUp)
    <3>1. linkUp
      BY <1>1, <2>3, LinkSteps
    <3>2. CASE d \in m_devices
      <4>1. Known(d)
        BY <3>1, <3>2 DEF KnowInv
      <4> QED
        BY <1>1, <3>1, <3>2, <4>1, HeldStaysKnown
    <3>3. CASE d \notin m_devices
      <4>1. /\ AddDevice
            /\ worker.cmd.device \notin m_devices
            /\ d = worker.cmd.device
        BY <1>1, <3>3, FleetSteps DEF AddDevice, RemoveDevice, fleet
      <4> QED
        BY <3>1, <3>3, <4>1, AddedIsKnown
    <3> QED
      BY <3>2, <3>3
  <2> QED
    BY <2>1, <2>2, <2>3
<1> QED
  BY <1>1, UpdateWaitsNext DEF KnowInv

(* Each registration and update may be lost when it is sent, and devices   *)
(* and templates come and go meanwhile: once nothing is left to do on a    *)
(* live link the platform knows every device held and all it holds,        *)
(* provided that reconnect() succeeds.                                     *)
THEOREM PlatformLearnsOfDevices ==
  ASSUME ~ReconnectMayFail
  PROVE  Spec => []PlatformKnowsDevices
<1>1. TypeOK /\ KnowInv => PlatformKnowsDevices
  <2> SUFFICES ASSUME TypeOK, KnowInv, Quiescent, linkUp, NEW d \in m_devices
               PROVE  d \in registered /\ template[d] \subseteq platformAssets[d]
    BY DEF PlatformKnowsDevices
  <2>1. ~RegistrationAhead /\ ~At("each", "registerDevices")
    BY QuiescentIsQuiet DEF RegistrationAhead
  <2>2. \A c : ~Waiting(c)
    BY QuiescentIsQuiet DEF Waiting, Quiescent
  <2>3. Registering(d) /\ \A a \in template[d] : Telling(d, a)
    BY <2>1 DEF KnowInv, Known
  <2> QED
    BY <2>2, <2>3 DEF Registering, Telling
<1>2. TypeOK /\ FlagParts /\ KnowInv /\ [Next]_vars => KnowInv'
  BY KnowNext
<1> QED
  BY <1>1, <1>2, KnowInit, FlagPartsAlways, PTL DEF Spec

-----------------------------------------------------------------------------
(* One reference, one template, but for what one call passed.              *)

Agree(a, b) ==
  Reference(a) = Reference(b) =>
    a = b \/ \E offer \in Offers : {a, b} \subseteq offer

(* A message about d that is to carry the templates the command captured.  *)
Tells(c, d) == c.op \in {"registerDevice", "updateDevice"} /\ c.device = d

(* The worker is about to tell, to queue or to store what its command has. *)
Carries(d) ==
  /\ worker.cmd.device = d
  /\ Tells(worker.cmd, d) \/ worker.pc \in {"register", "store"}

(* What is held of d, what the platform was told of it, and what it is to  *)
(* be told.                                                                *)
Said(d, a) ==
  \/ a \in template[d] \/ a \in platformAssets[d]
  \/ \E c \in Queued(m_commandBuffer) : Tells(c, d) /\ a \in c.assets
  \/ Carries(d) /\ a \in worker.cmd.assets

(* A later offer of the same reference will be compared with something: a  *)
(* device held has a template of it, or the worker is about to store one.  *)
Covered(d, a) ==
  /\ d \in m_devices
  /\ \/ \E b \in template[d] : Reference(b) = Reference(a)
     \/ worker.pc = "store" /\ worker.cmd.device = d /\ a \in worker.cmd.assets

SaidInv ==
  \A d \in Devices \ removed : \A a \in Assets :
    Said(d, a) => Covered(d, a) /\ \A b \in Assets : Said(d, b) => Agree(a, b)

(* What connect() and the walk over the statuses push.                     *)
AnnouncedOps == {"registerDevices", "publish"} \cup Reports

Offered(c) == c.op \in {"addDevice", "addAssets"} => c.assets \in Offers

OffersInv ==
  /\ \A c \in Queued(m_commandBuffer) : Offered(c)
  /\ Offered(worker.cmd)
  /\ worker.pc = "push" => \A c \in Queued(worker.out) : c.op \in AnnouncedOps

LEMMA AgreeInit == Init => OffersInv /\ SaidInv
<1> SUFFICES ASSUME Init PROVE OffersInv /\ SaidInv
  OBVIOUS
<1>1. worker = Idle /\ worker.pc = "idle" /\ worker.cmd.op = "publish"
  BY DEF Init, Idle, Plain
<1>2. Queued(m_commandBuffer) = {}
  BY QueuedEmpty DEF Init
<1>3. OffersInv
  BY <1>1, <1>2 DEF OffersInv, Offered
<1>4. \A d \in Devices : \A a : ~Said(d, a)
  BY <1>1, <1>2 DEF Init, Said, Carries, Tells
<1> QED
  BY <1>3, <1>4 DEF SaidInv

LEMMA PlainFields ==
  /\ \A op : Plain(op).op = op
  /\ \A op, d : For(op, d).op = op
  /\ \A op, d, as : /\ With(op, d, as).op = op
                   /\ With(op, d, as).device = d
                   /\ With(op, d, as).assets = as
  /\ \A now : ConnectCommand(now).op = "connect"
  BY DEF Plain, For, With, ConnectCommand

(* Commands that carry no templates.                                       *)
Bare == Operations \ {"addDevice", "addAssets", "registerDevice", "updateDevice"}

LEMMA BareFields ==
  /\ {"connect"} \cup AnnouncedOps \subseteq Bare
  /\ {"connect", "disconnect", "removeDevice", "addReading", "publish", "publishOf"}
       \subseteq Bare
  /\ \A c : c.op \in Bare => Offered(c) /\ \A d : ~Tells(c, d)
  BY DEF Bare, AnnouncedOps, Reports, Operations, Offered, Tells

(* A call pushes an offer, or nothing of templates.                        *)
LEMMA CalledOffered ==
  ASSUME TypeOK, ApiCall, NEW c, c \in Queued(m_commandBuffer')
  PROVE  c \in Queued(m_commandBuffer) \/ (Offered(c) /\ \A d : ~Tells(c, d))
<1>a. ASSUME NEW x, Call(x)
      PROVE  Queued(m_commandBuffer') = Queued(m_commandBuffer) \cup {x}
  BY <1>a, PushedIsQueued DEF Call
<1>1. CASE CallConnect
  BY <1>1, <1>a, PlainFields, BareFields DEF CallConnect
<1>2. CASE CallDisconnect
  BY <1>2, <1>a, PlainFields, BareFields DEF CallDisconnect
<1>3. CASE CallAddDevice
  <2>1. PICK d \in Devices, offer \in Offers : Call(With("addDevice", d, offer))
    BY <1>3 DEF CallAddDevice
  <2>2. /\ Offered(With("addDevice", d, offer))
        /\ \A e : ~Tells(With("addDevice", d, offer), e)
    BY PlainFields DEF Offered, Tells
  <2> QED
    BY <2>1, <2>2, <1>a
<1>4. CASE CallAddAssetsToDevice
  <2>1. PICK d \in Devices, offer \in Offers : Call(With("addAssets", d, offer))
    BY <1>4 DEF CallAddAssetsToDevice
  <2>2. /\ Offered(With("addAssets", d, offer))
        /\ \A e : ~Tells(With("addAssets", d, offer), e)
    BY PlainFields DEF Offered, Tells
  <2> QED
    BY <2>1, <2>2, <1>a
<1>5. CASE CallRemoveDevice
  BY <1>5, <1>a, PlainFields, BareFields DEF CallRemoveDevice
<1>6. CASE CallAddSensorReading
  BY <1>6, <1>a, PlainFields, BareFields DEF CallAddSensorReading
<1>7. CASE CallPublish
  BY <1>7, <1>a, PlainFields, BareFields DEF CallPublish
<1>8. CASE CallPublishOf
  BY <1>8, <1>a, PlainFields, BareFields DEF CallPublishOf
<1> QED
  BY <1>1, <1>2, <1>3, <1>4, <1>5, <1>6, <1>7, <1>8 DEF ApiCall

(* Besides, only addDevice and addAssetsToDevice queue something that      *)
(* tells of templates: those of the command the worker runs.               *)
LEMMA PushedOffered ==
  ASSUME TypeOK, OffersInv, [Next]_vars, NEW c, c \in Queued(m_commandBuffer')
  PROVE  \/ c \in Queued(m_commandBuffer)
         \/ /\ Offered(c)
            /\ \/ \A d : ~Tells(c, d)
               \/ /\ c.device = worker.cmd.device /\ c.assets = worker.cmd.assets
                  /\ worker.pc = "register" \/ (AddAssetsToDevice /\ ~Done)
<1>c. CommandsOK /\ worker \in Worker
  BY DEF TypeOK, CommandsOK
<1>1. CASE ApiCall
  BY <1>1, CalledOffered
<1>2. CASE TakeCommand
  BY <1>c, <1>2, QueuedHeadTail DEF TakeCommand, CommandsOK
<1>3. CASE ConnectAgain
  BY <1>3, PushedIsQueued, BareFields DEF ConnectAgain, At
<1>4. CASE PushNext
  <2>1. worker.out \in Seq(Command) /\ worker.out # <<>>
    BY <1>c, <1>4 DEF PushNext, Worker
  <2>2. Head(worker.out).op \in AnnouncedOps
    BY <1>4, <2>1, QueuedHeadTail DEF PushNext, OffersInv
  <2> QED
    BY <1>4, <2>2, PushedIsQueued, BareFields DEF PushNext
<1>5. CASE RegisterAdded
  <2> PICK x : x = With("registerDevice", worker.cmd.device, worker.cmd.assets)
    OBVIOUS
  <2>1. /\ Queued(m_commandBuffer') = Queued(m_commandBuffer) \cup {x}
        /\ worker.pc = "register"
    BY <1>5, PushedIsQueued DEF RegisterAdded, At
  <2>2. /\ Offered(x)
        /\ x.device = worker.cmd.device /\ x.assets = worker.cmd.assets
    BY PlainFields DEF Offered
  <2> QED
    BY <2>1, <2>2
<1>6. CASE AddAssetsToDevice
  <2> PICK x : x = With("updateDevice", worker.cmd.device, worker.cmd.assets)
    OBVIOUS
  <2>1. CASE AddToCommandBuffer(x) /\ Goto("store")
    <3>1. Queued(m_commandBuffer') = Queued(m_commandBuffer) \cup {x} /\ ~Done
      BY <1>c, <2>1, PushedIsQueued, GotoMoves, DoneIdles
    <3>2. /\ Offered(x)
          /\ x.device = worker.cmd.device /\ x.assets = worker.cmd.assets
      BY PlainFields DEF Offered
    <3> QED
      BY <1>6, <3>1, <3>2
  <2>2. CASE UNCHANGED m_commandBuffer
    BY <2>2
  <2> QED
    BY <1>6, <2>1, <2>2 DEF AddAssetsToDevice
<1>7. CASE QueueReconnection
  <2> PICK connect : connect = ConnectCommand(TRUE)
    OBVIOUS
  <2>1. connect.op \in Bare
    BY PlainFields, BareFields
  <2>2. Queued(m_commandBuffer') = Queued(m_commandBuffer) \cup {connect}
    BY <1>7, PushedIsQueued DEF QueueReconnection
  <2> QED
    BY <2>1, <2>2, BareFields
<1>8. CASE ~ApiCall /\ ~TakeCommand /\ ~ConnectAgain /\ ~PushNext
           /\ ~RegisterAdded /\ ~AddAssetsToDevice /\ ~QueueReconnection
  <2>1. m_commandBuffer' = m_commandBuffer
    BY <1>8, QuietSteps
  <2> QED
    BY <2>1
<1> QED
  BY <1>1, <1>2, <1>3, <1>4, <1>5, <1>6, <1>7, <1>8

(* What is about to be pushed names no templates.                          *)
LEMMA ReportsOps ==
  ASSUME m_devices \subseteq Devices
  PROVE  /\ \A now \in BOOLEAN :
              \A c \in Queued(Announcements(now)) : c.op \in AnnouncedOps
         /\ \A c \in Queued([i \in DOMAIN Walk[m_devices] |->
                               For("deviceStatus", Walk[m_devices][i])]) :
              c.op \in AnnouncedOps
<1>1. ASSUME NEW c \in Queued(DeviceReports) PROVE c.op \in AnnouncedOps
  <2>1. PICK i \in DOMAIN DeviceReports : c = DeviceReports[i]
    BY DEF Queued
  <2>2. DeviceReports[i] =
          For(IF i % 2 = 1 THEN "actuatorGet" ELSE "configurationGet",
              Walk[m_devices][(i + 1) \div 2])
    BY DEF DeviceReports
  <2>3. c.op \in {"actuatorGet", "configurationGet"}
    BY <2>1, <2>2, PlainFields
  <2> QED
    BY <2>3 DEF AnnouncedOps, Reports
<1>2. ASSUME NEW now \in BOOLEAN, NEW c \in Queued(Announcements(now))
      PROVE  c.op \in AnnouncedOps
  <2>1. \/ c \in {Plain("registerDevices"), Plain("firmwareVersions"),
                  Plain("deviceStatuses"), Plain("publish")}
        \/ c \in Queued(DeviceReports)
    <3>1. CASE now = FALSE
      BY <1>2, <3>1, AnnouncementsQueued
    <3>2. CASE now = TRUE
      BY <1>2, <3>2, AnnouncementsQueued
    <3> QED
      BY <3>1, <3>2
  <2> QED
    BY <1>1, <2>1, PlainFields DEF AnnouncedOps, Reports
<1>3. ASSUME NEW c \in Queued([i \in DOMAIN Walk[m_devices] |->
                                For("deviceStatus", Walk[m_devices][i])])
      PROVE  c.op \in AnnouncedOps
  <2>1. PICK i \in DOMAIN Walk[m_devices] : c = For("deviceStatus", Walk[m_devices][i])
    BY <1>3 DEF Queued
  <2> QED
    BY <2>1, PlainFields DEF AnnouncedOps, Reports
<1> QED
  BY <1>2, <1>3

LEMMA OutNext ==
  ASSUME TypeOK, OffersInv, [Next]_vars, worker'.pc = "push",
         NEW c \in Queued(worker'.out)
  PROVE  c.op \in AnnouncedOps
<1>c. CommandsOK /\ worker \in Worker /\ worker.cmd \in Command
  BY DEF TypeOK, CommandsOK, Worker
<1>1. CASE UNCHANGED worker
  BY <1>1 DEF OffersInv
<1>2. CASE Environment
  BY <1>1, <1>2, EnvironmentSteps
<1>3. CASE TakeCommand
  BY <1>3 DEF TakeCommand, Idle
<1>4. CASE Execute
  <2>1. worker' # Idle
    BY DEF Idle
  <2>2. CASE Announce
    <3>1. worker'.out = Announcements(worker.cmd.now)
      BY <1>c, <2>2 DEF Announce, Worker
    <3> QED
      BY <1>c, <3>1, CommandFields, ReportsOps DEF TypeOK, DevicesOK
  <2>3. CASE PushNext
    <3>1. /\ worker.pc = "push" /\ worker.out # <<>>
          /\ worker'.out = Tail(worker.out)
          /\ worker.out \in Seq(Command)
      BY <1>c, <2>1, <2>3 DEF PushNext, Worker
    <3> QED
      BY <3>1, QueuedHeadTail DEF OffersInv
  <2>4. CASE PublishDeviceStatuses
    <3>1. worker'.out = [i \in DOMAIN Walk[m_devices] |->
                           For("deviceStatus", Walk[m_devices][i])]
      BY <1>c, <2>1, <2>4 DEF PublishDeviceStatuses, Worker
    <3> QED
      BY <3>1, ReportsOps DEF TypeOK, DevicesOK
  <2> QED
    BY <1>4, <2>1, <2>2, <2>3, <2>4, Arrivals
<1> QED
  BY <1>2, <1>3, <1>4, StepKinds

LEMMA OffersNext ==
  ASSUME TypeOK, OffersInv, [Next]_vars
  PROVE  OffersInv'
<1>c. m_commandBuffer \in Seq(Command)
  BY DEF TypeOK, CommandsOK
<1>1. ASSUME NEW c \in Queued(m_commandBuffer') PROVE Offered(c)
  BY PushedOffered DEF OffersInv
<1>2. Offered(worker'.cmd)
  <2>1. CASE worker'.cmd = worker.cmd
    BY <2>1 DEF OffersInv
  <2>2. CASE worker' = Idle
    BY <2>2 DEF Idle, Plain, Offered
  <2>3. CASE TakeCommand
    <3>1. m_commandBuffer # <<>> /\ worker'.cmd = Head(m_commandBuffer)
      BY <2>3 DEF TakeCommand, Idle
    <3>2. Head(m_commandBuffer) \in Queued(m_commandBuffer)
      BY <1>c, <3>1, QueuedHeadTail
    <3> QED
      BY <3>1, <3>2 DEF OffersInv
  <2> QED
    BY <2>1, <2>2, <2>3, StepKinds, Arrivals, EnvironmentSteps
<1> QED
  BY <1>1, <1>2, OutNext DEF OffersInv, Offered

(* One template per reference is enough to be found by it.                 *)
LEMMA OnePerCovers ==
  ASSUME NEW assets, NEW kept \in OnePer(assets), NEW a \in assets
  PROVE  kept \subseteq assets /\ \E b \in kept : Reference(b) = Reference(a)
  BY DEF OnePer

(* The two steps that bring templates nobody has said anything of before.  *)
Added(d) == AddDevice /\ worker.cmd.device = d /\ d \notin m_devices

Accepted(d) ==
  /\ AddAssetsToDevice /\ worker.cmd.device = d /\ d \in m_devices
  /\ \E found \in OnePer(template[d]) : ValidAssets(found, worker.cmd.assets)
  /\ worker'.pc = "store" /\ worker'.cmd = worker.cmd /\ template' = template

LEMMA AddedSteps ==
  ASSUME TypeOK, AddDevice, ~Done \/ worker.cmd.device \notin m_devices
  PROVE  /\ Added(worker.cmd.device)
         /\ m_devices' = m_devices \cup {worker.cmd.device}
         /\ template' = [template EXCEPT ![worker.cmd.device] = worker.cmd.assets]
  BY DEF AddDevice, Added

LEMMA AcceptedSteps ==
  ASSUME TypeOK, AddAssetsToDevice, ~Done
  PROVE  Accepted(worker.cmd.device)
<1>c. CommandsOK
  BY DEF TypeOK
<1>1. PICK found \in OnePer(template[worker.cmd.device]) :
        /\ worker.cmd.device \in m_devices
        /\ ValidAssets(found, worker.cmd.assets)
        /\ Goto("store")
  BY DEF AddAssetsToDevice
<1>2. worker'.pc = "store" /\ worker'.cmd = worker.cmd
  BY <1>c, <1>1, GotoMoves
<1> QED
  BY <1>1, <1>2 DEF Accepted, AddAssetsToDevice

(* All else that is held, queued or told was said before.                  *)
LEMMA SaidBefore ==
  ASSUME TypeOK, OffersInv, [Next]_vars, NEW d \in Devices, NEW a, Said(d, a)'
  PROVE  Said(d, a) \/ ((Added(d) \/ Accepted(d)) /\ a \in worker.cmd.assets)
<1>c. /\ CommandsOK /\ worker \in Worker /\ worker.cmd \in Command
      /\ m_commandBuffer \in Seq(Command)
  BY DEF TypeOK, CommandsOK, Worker
<1>t. /\ template \in [Devices -> SUBSET Assets]
      /\ platformAssets \in [Devices -> SUBSET Assets]
  BY DEF TypeOK, DevicesOK
<1>1. CASE a \in template'[d]
  <2>1. CASE AddDevice
    <3>1. CASE worker.cmd.device \in m_devices
      BY <1>1, <2>1, <3>1 DEF AddDevice, fleet, Said
    <3>2. CASE worker.cmd.device \notin m_devices
      BY <1>t, <1>1, <2>1, <3>2, AddedSteps DEF Said
    <3> QED
      BY <3>1, <3>2
  <2>2. CASE RemoveDevice
    BY <1>t, <1>1, <2>2 DEF RemoveDevice, Said
  <2>3. CASE StoreAssetsToDevice
    <3>1. PICK kept \in OnePer(NewAssets(worker.cmd.device, worker.cmd.assets)) :
            template' = [template EXCEPT ![worker.cmd.device] = @ \cup kept]
      BY <2>3 DEF StoreAssetsToDevice
    <3>2. kept \subseteq worker.cmd.assets /\ worker.pc = "store"
      BY <2>3, <3>1 DEF OnePer, NewAssets, StoreAssetsToDevice, At
    <3> QED
      BY <1>t, <1>1, <3>1, <3>2 DEF Said, Carries
  <2> QED
    BY <1>1, <2>1, <2>2, <2>3, FleetSteps DEF Said
<1>2. CASE a \in platformAssets'[d]
  <2>1. CASE RegisterNext
    <3>1. PICK e \in worker.todo :
            e \in Devices /\ PublishRegistrationRequest(e, template[e])
      BY <1>c, <2>1 DEF RegisterNext, Worker
    <3>2. platformAssets'[d] \subseteq platformAssets[d] \cup template[d]
      BY <1>t, <3>1 DEF PublishRegistrationRequest, platform
    <3> QED
      BY <1>2, <3>2 DEF Said
  <2>2. CASE RegisterDevice \/ UpdateDevice
    <3>1. worker.cmd.device \in Devices /\ Tells(worker.cmd, worker.cmd.device)
      BY <1>c, <2>2, CommandFields
        DEF RegisterDevice, UpdateDevice, At, DeviceOperations, Tells
    <3>2. \/ a \in platformAssets[d]
          \/ d = worker.cmd.device /\ a \in worker.cmd.assets
      BY <1>t, <1>2, <2>2, <3>1 DEF RegisterDevice, UpdateDevice,
        PublishRegistrationRequest, PublishUpdateRequest, platform
    <3> QED
      BY <3>1, <3>2 DEF Said, Carries
  <2> QED
    BY <1>2, <2>1, <2>2, PlatformSteps DEF Said
<1>3. ASSUME NEW c \in Queued(m_commandBuffer'), Tells(c, d), a \in c.assets
      PROVE  Said(d, a) \/ (Accepted(d) /\ a \in worker.cmd.assets)
  <2>1. CASE c \in Queued(m_commandBuffer)
    BY <1>3, <2>1 DEF Said
  <2>2. CASE /\ c.device = worker.cmd.device /\ c.assets = worker.cmd.assets
             /\ worker.pc = "register" \/ (AddAssetsToDevice /\ ~Done)
    <3>1. worker.cmd.device = d /\ a \in worker.cmd.assets
      BY <1>3, <2>2 DEF Tells
    <3>2. CASE worker.pc = "register"
      BY <3>1, <3>2 DEF Said, Carries
    <3>3. CASE AddAssetsToDevice /\ ~Done
      BY <3>1, <3>3, AcceptedSteps
    <3> QED
      BY <2>2, <3>2, <3>3
  <2> QED
    BY <1>3, <2>1, <2>2, PushedOffered
<1>4. CASE Carries(d)' /\ a \in worker'.cmd.assets
  <2>1. CASE UNCHANGED worker
    BY <1>4, <2>1 DEF Said, Carries
  <2>2. CASE TakeCommand
    <3>1. /\ m_commandBuffer # <<>> /\ worker'.cmd = Head(m_commandBuffer)
          /\ worker'.pc = "run"
      BY <2>2 DEF TakeCommand, Idle
    <3>2. Head(m_commandBuffer) \in Queued(m_commandBuffer)
      BY <1>c, <3>1, QueuedHeadTail
    <3> QED
      BY <1>4, <3>1, <3>2 DEF Said, Carries
  <2>3. CASE Execute
    <3>1. worker' # Idle
      BY <1>4 DEF Carries, Tells, Idle, Plain
    <3>2. /\ worker'.cmd = worker.cmd
          /\ worker'.pc = "store" => AddAssetsToDevice
          /\ worker'.pc = "register" => AddDevice
      BY <2>3, <3>1, Arrivals
    <3>3. ~Done
      BY <3>1 DEF Done
    <3>4. CASE Tells(worker.cmd, d)
      BY <1>4, <3>2, <3>4 DEF Said, Carries
    <3>5. CASE worker'.pc = "store"
      BY <1>4, <3>2, <3>3, <3>5, AcceptedSteps DEF Carries
    <3>6. CASE worker'.pc = "register"
      BY <1>4, <3>2, <3>3, <3>6, AddedSteps DEF Carries
    <3> QED
      BY <1>4, <3>2, <3>4, <3>5, <3>6 DEF Carries
  <2> QED
    BY <2>1, <2>2, <2>3, StepKinds, EnvironmentSteps
<1> QED
  BY <1>1, <1>2, <1>3, <1>4 DEF Said

(* A reference that is covered stays so, as long as d is not removed.      *)
LEMMA CoveredStays ==
  ASSUME TypeOK, [Next]_vars, NEW d \in Devices, d \notin removed', NEW a,
         Covered(d, a)
  PROVE  Covered(d, a)'
<1>c. CommandsOK /\ worker \in Worker /\ worker.cmd \in Command
  BY DEF TypeOK, CommandsOK, Worker
<1>t. template \in [Devices -> SUBSET Assets]
  BY DEF TypeOK, DevicesOK
<1>1. d \in m_devices
  BY DEF Covered
<1>2. d \in m_devices' /\ template[d] \subseteq template'[d]
  <2>1. CASE AddDevice
    <3>1. CASE worker.cmd.device \in m_devices
      BY <1>1, <2>1, <3>1 DEF AddDevice, fleet
    <3>2. CASE worker.cmd.device \notin m_devices
      BY <1>t, <1>1, <2>1, <3>2, AddedSteps
    <3> QED
      BY <3>1, <3>2
  <2>2. CASE RemoveDevice
    <3>1. worker.cmd.device # d
      BY <1>1, <2>2 DEF RemoveDevice
    <3> QED
      BY <1>t, <1>1, <2>2, <3>1 DEF RemoveDevice
  <2>3. CASE StoreAssetsToDevice
    <3>1. PICK kept :
            template' = [template EXCEPT ![worker.cmd.device] = @ \cup kept]
      BY <2>3 DEF StoreAssetsToDevice
    <3> QED
      BY <1>t, <1>1, <2>3, <3>1 DEF StoreAssetsToDevice
  <2> QED
    BY <1>1, <2>1, <2>2, <2>3, FleetSteps
<1>3. CASE \E b \in template[d] : Reference(b) = Reference(a)
  BY <1>2, <1>3 DEF Covered
<1>4. CASE worker.pc = "store" /\ worker.cmd.device = d /\ a \in worker.cmd.assets
  <2>1. CASE StoreAssetsToDevice
    <3>1. PICK kept \in OnePer(NewAssets(d, worker.cmd.assets)) :
            template' = [template EXCEPT ![d] = @ \cup kept]
      BY <1>4, <2>1 DEF StoreAssetsToDevice
    <3>2. template'[d] = template[d] \cup kept
      BY <1>t, <3>1
    <3>3. CASE a \in NewAssets(d, worker.cmd.assets)
      BY <1>2, <3>1, <3>2, <3>3, OnePerCovers DEF Covered
    <3>4. CASE a \notin NewAssets(d, worker.cmd.assets)
      BY <1>2, <1>4, <3>2, <3>4 DEF Covered, NewAssets
    <3> QED
      BY <3>3, <3>4
  <2>2. CASE UNCHANGED worker
    BY <1>2, <1>4, <2>2 DEF Covered
  <2> QED
    BY <1>4, <2>1, <2>2, WorkerSteps
<1> QED
  BY <1>3, <1>4 DEF Covered

(* An accepted template whose reference was said of before is one of those *)
(* said: the device is found to have it.                                   *)
LEMMA AcceptedAgrees ==
  ASSUME TypeOK, SaidInv, NEW d \in Devices \ removed, Accepted(d),
         NEW a \in worker.cmd.assets, NEW b \in Assets, Said(d, b)
  PROVE  Agree(a, b)
<1> SUFFICES ASSUME Reference(a) = Reference(b) PROVE Agree(a, b)
  BY DEF Agree
<1>1. worker.pc # "store"
  BY DEF Accepted, AddAssetsToDevice, At
<1>2. PICK t \in template[d] : Reference(t) = Reference(b)
  BY <1>1 DEF SaidInv, Covered
<1>3. PICK found \in OnePer(template[d]) : ValidAssets(found, worker.cmd.assets)
  BY DEF Accepted
<1>4. PICK f \in found : f \in template[d] /\ Reference(f) = Reference(t)
  BY <1>2, <1>3, OnePerCovers
<1>5. a = f
  BY <1>2, <1>3, <1>4 DEF ValidAssets
<1>6. a \in Assets /\ Said(d, a)
  BY <1>4, <1>5 DEF Said, TypeOK, DevicesOK
<1> QED
  BY <1>6 DEF SaidInv

(* Once removed, always removed.                                           *)
LEMMA RemovedGrows ==
  ASSUME [Next]_vars
  PROVE  removed \subseteq removed'
<1>1. CASE AddDevice
  BY <1>1 DEF AddDevice, fleet
<1>2. CASE RemoveDevice
  BY <1>2 DEF RemoveDevice
<1> QED
  BY <1>1, <1>2, FleetSteps

LEMMA SaidNext ==
  ASSUME TypeOK, OffersInv, SaidInv, [Next]_vars
  PROVE  SaidInv'
<1> SUFFICES ASSUME NEW d \in Devices, d \notin removed', NEW a \in Assets, Said(d, a)'
             PROVE  /\ Covered(d, a)'
                    /\ \A b \in Assets : Said(d, b)' => Agree(a, b)
  BY DEF SaidInv, Agree
<1>r. d \in Devices \ removed
  BY RemovedGrows
<1>s. \A x \in Assets : Said(d, x) => Covered(d, x)
  BY <1>r DEF SaidInv
<1>o. \A x \in Assets, y \in Assets : Said(d, x) /\ Said(d, y) => Agree(x, y)
  BY <1>r DEF SaidInv
<1>b. \A x \in Assets : Said(d, x)' =>
        Said(d, x) \/ ((Added(d) \/ Accepted(d)) /\ x \in worker.cmd.assets)
  BY SaidBefore
<1>1. CASE Added(d)
  <2>1. /\ worker.cmd.device = d
        /\ m_devices' = m_devices \cup {d}
        /\ template' = [template EXCEPT ![d] = worker.cmd.assets]
    BY <1>1, AddedSteps DEF Added
  <2>2. \A x \in Assets : Said(d, x)' => x \in worker.cmd.assets
    <3>1. \A x \in Assets : ~Said(d, x)
      BY <1>s, <1>1 DEF Covered, Added
    <3> QED
      BY <1>b, <3>1
  <2>3. worker.cmd.assets \in Offers
    BY <1>1 DEF Added, AddDevice, At, OffersInv, Offered
  <2>4. template'[d] = worker.cmd.assets
    BY <2>1 DEF TypeOK, DevicesOK
  <2> QED
    BY <2>1, <2>2, <2>3, <2>4 DEF Covered, Agree
<1>2. CASE Accepted(d)
  <2>1. Covered(d, a)'
    <3>1. CASE Said(d, a)
      BY <1>s, <3>1, CoveredStays
    <3>2. CASE a \in worker.cmd.assets
      BY <1>2, <3>2 DEF Covered, Accepted, AddAssetsToDevice
    <3>3. ~Added(d)
      BY <1>2 DEF Added, Accepted
    <3> QED
      BY <1>b, <3>1, <3>2, <3>3
  <2>2. ASSUME NEW b \in Assets, Said(d, b)' PROVE Agree(a, b)
    <3>1. CASE Said(d, a) /\ Said(d, b)
      BY <1>o, <2>2, <3>1
    <3>2. CASE a \in worker.cmd.assets /\ Said(d, b)
      BY <1>2, <1>r, <2>2, <3>2, AcceptedAgrees
    <3>3. CASE Said(d, a) /\ b \in worker.cmd.assets
      <4>1. Agree(b, a)
        BY <1>2, <1>r, <3>3, AcceptedAgrees
      <4> QED
        BY <4>1 DEF Agree
    <3>4. CASE a \in worker.cmd.assets /\ b \in worker.cmd.assets
      <4>1. worker.cmd.assets \in Offers
        BY <1>2 DEF Accepted, AddAssetsToDevice, At, OffersInv, Offered
      <4> QED
        BY <3>4, <4>1 DEF Agree
    <3> QED
      BY <1>b, <2>2, <3>1, <3>2, <3>3, <3>4
  <2> QED
    BY <2>1, <2>2
<1>3. CASE ~Added(d) /\ ~Accepted(d)
  BY <1>b, <1>s, <1>o, <1>3, CoveredStays
<1> QED
  BY <1>1, <1>2, <1>3

(* Registrations and updates are captured when they are queued, validated  *)
(* against what the device is found to hold by then, and sent any time     *)
(* later, again after a loss: of a device that was never removed, all the  *)
(* platform is told under one reference is one template, or what one call  *)
(* passed.                                                                 *)
THEOREM PlatformIsToldOneThing == Spec => []NoContradiction
<1>1. TypeOK /\ SaidInv => NoContradiction
  <2> SUFFICES ASSUME TypeOK, SaidInv, NEW d \in Devices \ removed,
                      NEW a \in platformAssets[d], NEW b \in platformAssets[d]
               PROVE  Agree(a, b)
    BY DEF NoContradiction, Agree
  <2>1. a \in Assets /\ b \in Assets /\ Said(d, a) /\ Said(d, b)
    BY DEF TypeOK, DevicesOK, Said
  <2> QED
    BY <2>1 DEF SaidInv
<1>2. TypeOK /\ OffersInv /\ SaidInv /\ [Next]_vars => OffersInv' /\ SaidInv'
  BY OffersNext, SaidNext
<1> QED
  BY <1>1, <1>2, AgreeInit, TypeCorrect, PTL DEF Spec

=============================================================================
