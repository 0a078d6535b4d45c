# A TLA+ model of the WolkAbout gateway module SDK

These modules model `src/src/`, the C++ library a *gateway module* links to
connect its devices to WolkAbout Gateway. They say what the library does when
its threads, its broker connection and the process itself misbehave, and which
properties survive that. TLC checks them on small instances, TLAPS proves the
central ones for every instance.

## 1. The system

Threads: *user threads* call the API of `Wolk`; one *worker* runs the commands
of `Wolk::m_commandBuffer`; the *MQTT thread* of the WolkSDK reports incoming
messages and lost connections; `InboundGatewayMessageHandler` and
`FirmwareUpdateService` each own a command buffer with a worker of its own.

| part | state | operations | talks to |
|---|---|---|---|
| `Wolk` (Wolk.cpp) | `m_devices`, `m_connected`, `m_commandBuffer` | the API; the handlers of platform requests | every service, only from its worker, except `m_connected`, which the MQTT thread clears |
| `DataService` | none of its own: the `Persistence` | `add*`, `publish*`, `messageReceived` | persistence, protocol, connectivity; calls back into `Wolk` |
| `DeviceRegistrationService` | none | registration and update requests, responses | protocol, connectivity |
| `DeviceStatusService` | none: the last will, held by the connectivity service | status messages, `devicesUpdated` | protocol, connectivity |
| `FirmwareUpdateService` | command buffer, installations in the user's `FirmwareInstaller` | install, abort, version | installer callbacks on user threads |
| `InboundGatewayMessageHandler` | channels, listeners, command buffer | `addListener`, `messageReceived` | listeners (weak pointers) |
| `PlatformStatusService` | none | one message, one callback | the user |
| `WolkBuilder` | the parts to be built | setters, `build()` | installs the handler of lost connections |
| WolkSDK (submodule, absent) | persistence, MQTT session, command buffers, protocols | | external; modelled from how `src/src` uses it |

What is hard, and what makes each part correct:

- **DataService** publishes a batch and then removes *as many* items as it had
  fetched. The link may go between two batches, the process may stop between
  the publish and the removal, a batch may be impossible to serialise, a newer
  status may replace a stored one, and device and reference share one string as
  the key. Correct: nothing vanishes, order is kept, nothing is repeated without
  a restart, everything reaches the device it belongs to.
- **Wolk** keeps `m_connected` by hand, and two threads write it. Connects retry
  by queueing themselves; a new device needs a new session to get into the last
  will; registrations that cannot be sent are only logged. Correct: a wrong flag
  is always about to be repaired; once quiet and online, the platform and the
  broker know every device, and what was stored has been sent; a failing connect
  blocks nothing.
- **FirmwareUpdateService** reports the progress of installations that run on the
  user's threads, and reads and publishes versions in two steps. Correct: each
  reported outcome closes one announced installation, the platform never goes
  back to an old version, a version report that failed is repaired by the next session
  that announces versions, a hanging installation holds nothing up.
- **Inbound path**: messages pass two queues before they are carried out, and what
  they ask for is reported through slots that may wait for the link. Correct:
  requests are obeyed whole and in order, each is answered with a report read after
  it came, no report goes back, and the platform ends up with the state of every
  device it accepted; what sessions without announcements and discarded reports
  take from this is known exactly.
- **WolkBuilder** keeps each part as an object and as a lambda, and moves some of
  them out when it builds. Correct: a `Wolk` uses what was set last and shares its
  persistence with nobody; an error of `build()` is true.

`PROJECT.json` lists the hazards line by line with the properties that cover
them.

## 2. Modules

| module | models | notes |
|---|---|---|
| `PersistenceKey` | `makePersistenceKey`, `parsePersistenceKey`, `findMatchingPersistanceKeys` | pure operators; a name is a sequence over any set of characters |
| `DataService` | `DataService.cpp` 120-400 | state machine over a persistence |
| `Outbox` | (specification) | what store-and-forward promises; `DataService` implements it |
| `Wolk` | `Wolk.cpp`, the loss handler of `WolkBuilder.cpp`, the outgoing requests of `DeviceRegistrationService.cpp` | state machine with three kinds of thread |
| `FirmwareUpdate` | `FirmwareUpdateService.cpp`, and of `Wolk.cpp` where version reports come from | state machine: the worker, the installer's threads |
| `Requests` | `InboundGatewayMessageHandler.cpp`, `PlatformStatusService.cpp` and its protocol, `messageReceived` of the services, the `handle*` and `publish*` of `Wolk.cpp` | composition: the MQTT thread, three workers, the application behind its handlers and providers, the platform |
| `WolkBuilder` | `WolkBuilder.cpp` | state machine: setters and `build()` |
| `MCDataService`, `MCWolk`, `MCFirmwareUpdate`, `MCRequests`, `MCWolkBuilder` | | the instances TLC checks |
| `DataServiceProofs`, `DataServiceOrderProofs`, `OutboxProofs`, `WolkProofs`, `WolkFleetProofs`, `FirmwareUpdateProofs`, `RequestsProofs`, `WolkBuilderProofs` | | theorems |

`DataService`, `Wolk` and `Requests` describe the same worker at three levels.
`DataService` opens one `publish*` call into its calls of the persistence and the
connection; `Wolk` opens `connect`, `addDevice` and the others into the steps other
threads can come between; `Requests` takes a command as one step and has all that
passes between the platform and the application instead. What the coarser module
takes for granted is a property of the finer one: that a slot is sent and emptied as
one (`NoStaleStatus`, `ImplementsOutbox`), that `m_connected` and the link, but for a
failing `reconnect()`, part only for moments (`StaleFlagIsRepaired`).

### DataService

`persisted[kind][key]` is what the persistence holds: for sensor readings and
alarms a list, oldest first, for actuator statuses and configurations a slot of
at most one item. An item is its device, its reference and a number, the how
manieth it is under its key; values do not matter. `worker` is the publish call
in progress: the keys it took at its start and has not walked (`todo`), the one
it is at, and how far it is. One action is one call into another component:
fetch and publish a batch (`BatchPublished`, `BatchNotTaken`, `DiscardBatch`,
`NothingStored`), remove it (`BatchRemoved`). Between any two the link may
change (`LinkChanges`) or the process stop and start again on the same
persistence (`Crash`, for persistences that are not in memory). `accepted`,
`delivered`, `discarded` and `crashes` are history. All calls run on the
worker of Wolk's command buffer, so an `add*` waits for `worker.pc = "idle"`.

Abstractions: the order in which a call walks its keys is left open; whether a
batch can be serialised is left open every time (`DiscardBatch`); a persistence
accepts what it is given; the `publish*` calls of `Wolk::publish()` are
separate calls here.

### Wolk

`m_commandBuffer` is a sequence of commands, each with what its lambda captured.
`worker` runs one at a time, in as many steps as it has calls others can
observe: `connect()` asks the service (`ConnectSucceeds`, `ConnectFails`),
raises the flag (`RaiseConnected`), then pushes what follows, one push per step
(`Announce`, `PushNext`); `addDevice` is `AddDevice` (devices, last will and the
look at the flag), `RegisterAdded`, `Reconnect`; `addAssetsToDevice` is
`AddAssetsToDevice`, `StoreAssetsToDevice`; the walks over devices are one step
per device. The MQTT thread is `ConnectionLost` (the session is gone, the
notification is on its way), `LowerConnected` and `QueueReconnection` (the two
statements of the handler `build()` installs).

`linkUp`, `brokerWill` belong to the connectivity service and the broker: a
session opened by `connect()` or `reconnect()` carries the last will set at that
time. `registered` and `platformAssets` are what the messages that were taken
told the platform. `backlog` abstracts the persistence to the devices that have
something in it: `DataService` has the details.

Abstractions: a template of sensors, alarms, actuators and configurations is one
set of assets, each with a reference; `ValidAssets` and `NewAssets` are what the
four loops of `validateAssetsToUpdate` and `storeAssetsToDevice` do. A call may name a
reference twice: the loops compare its templates with those of the device held and
never with each other, so `ValidAssets` lets them pass, and `OnePer` picks the one
that is stored, or that a lookup finds. `removed` is history: the devices removed once, which may come back
with other templates. Commands
that only send messages (firmware versions, statuses, actuator and configuration
reports) are in the buffer, in their order, but have no effect here; of one
device's actuators one is reported. A registration or update message and the last will
message can always be made (DeviceRegistrationService.cpp 77 and 87,
DeviceStatusService.cpp 78-82: where one cannot, the request is only logged, or the old
last will stays, and what is said below of the platform and the last will does not hold
of that device). The two seconds of sleep are a step. The
reference to the object under construction that the loss handler captures is
assumed to stay valid, and the object to outlive its threads.

### FirmwareUpdate

The worker takes commands from `m_commandBuffer` and runs them call by call:
`SendInstallation` and `AskInstaller`, `AbortAccepted` and `SendAborted`,
`GetFirmwareVersion` and `PublishVersion` are two steps each, and anything may
happen between them. `jobs` are the installations the user's `FirmwareInstaller`
was asked for. An installation ends (`InstallerSucceeds`, `InstallerFails`) and
then calls back on a thread of its own, `installSucceeded` in two steps
(`SendCompleted`, `QueueVersion`). Of the installer it is assumed that it calls
back once per installation, never for one whose abort it consented to, and that
`install` and `abort` return at once, as `FirmwareInstaller.h` asks; it may
refuse an abort, run installations of one device at the same time, and never end
one. That an abort and the end of the same installation are not both reported rests on
this promise; that an outcome names an announced installation, and closes it once, on the
service.

Wolk's part is where sessions and version reports come from. `SessionOpened(announced)`
is a session of whatever call: `announced` are the devices whose version is reported
after it, those held for a `connect(true)`, none for a `connect(false)` or the
`reconnect()` inside `addDevice`. `SessionClosed` is its end, be it a loss, a
`disconnect()` or the first half of a reconnect. An accepted registration has the
version of its device reported, too.

`reports` is what was sent about each device, in order, `known` the version the
platform was told last. A status that is not taken is lost, and the model does
not follow which ones are: `reports` speaks of sending, `known` of arriving.
`unreported` are the devices whose latest version report was not taken, or that had
none yet, and `stranded` those of them that a later session passed over: nothing
repairs these before the next announcement.

### Requests

`log` is every message of the platform, in order; a message's number stands for the
value it brings, so "older" can be said of values. `inbound`, `statusBuffer` and
`m_commandBuffer` are the three command buffers. The MQTT thread appends
(`InboundMessageReceived`); the inbound worker takes a message and hands it to the
service on its channel, which parses it and pushes a command or drops it
(`DataServiceReceives`, `DeviceStatusServiceReceives`,
`DeviceRegistrationServiceReceives`, `PlatformStatusServiceReceives`); Wolk's worker
runs the command. There is one action per handler and per API call that reports.

`state` is what the application last obeyed of each slot (an actuator, a
configuration item, the device's status); it may ignore a set command. `stored` is
what waits in the persistence, `told` what the platform was last told. `Report` is
what a handler does after reading the provider: put the value in the slot, send the
slots the code publishes along with it. Statuses go out at once or are lost
(`PublishStatus`).

`Send` is the `publish*` of DataService on the slots: on a live link they are emptied
and told, on a dead one they stay; a slot whose key does not parse, or of which the
protocol makes no message, is emptied untold either way (DataService.cpp 276-363). `Unsendable`
says of which reports this may happen; of these it is left open each time. `discarded`
is history: the slots the last report of which went that way.

`linkUp` is the session, `m_connected` what Wolk takes for it. They part in `AddDevice`,
whose `reconnect()` may fail: then the link is down, `m_connected` stays true, nothing is
queued, and requests already here are carried out into the dead link. The `addDevice`
after it may bring the link back, and nothing is announced. `Disconnect` closes the
session; a Connect still queued opens another.

`calls`, `inputs` and `losses` count down what the scenario still allows.

The platform answers registration requests (`owed`), and answers on their way are
lost with a session, the one `addDevice` closes in `reconnect()` included. `unread`,
`unsent` and `accepted` are history, for the properties only: what was asked for and
not read from the provider since, what was read and neither sent nor discarded, the
devices held that the platform accepted. A session opened with `connect(false)`, or by an
`addDevice` after one whose `reconnect()` had failed, clears them (`NothingAnnounced`): the code
announces nothing then, so it makes up for nothing that was asked or changed before. This is
the proviso of `RequestsAreAnswered` and `PlatformKnowsState`, and what happens within
and after such a session is held to both like anything else. `direct` are slots
reported with a value the caller passed, which says nothing of the application's state.

Abstractions: a command is one step, in which the link does not change unless the
command changes it; a channel is
a kind of message; the listener a message finds is alive; all devices have the same
actuators and configuration items; a registration of which no message can be made is one
the platform never answers; the firmware version `handleRegistrationResponse`
reports is left to `FirmwareUpdate`, readings and alarms to `DataService`.

### WolkBuilder

`objects` and `lambdas` are the parts set in either form. `SetObject`, `SetLambda`,
`WithPersistence` and `WithFirmwareUpdate` are the setters, null included. `build()`
is `BuildThrows`, one disjunct per test, in the code's order, and `Build`, whose
`HandOver` copies, shares or moves. What a moved `std::function` holds is left open.
A null persistence is recorded as such.

## 3. Runs

Every property of a passing run has a mutant, a bug planted in the code's
definition that TLC must find; they stand next to the definitions they replace.

| run | instance | shows |
|---|---|---|
| `backlog` (DS_backlog) | 2 devices, up to 3 readings each, batches of 2, 1 restart | `NoLoss`, `NoOvertaking`, `RepeatsOnlyAfterCrash`, `ImplementsOutbox`, `PublishEnds`, `CleanCallDrains`, `OnlyAskedDevice` |
| `keys` (DS_keys) | 1 device, references `r+b` and empty, 1 reading, 1 status, 2 configurations, 1 restart | `TypeOK`, `RemovalIsOfWhatWasSent`, `NoStaleStatus`, `RightDevice`, `ImplementsOutbox` |
| `delimited` (DS_delimited) | devices `a` and `a+b` | `RightDevice` is **violated** |
| `connection` (W_connection) | 2 devices, offers of `t1`, and of another `t1` with two `t2`, 3 calls of connect, disconnect, addDevice, addAssetsToDevice, removeDevice, 1 loss | `TypeOK`, `StaleFlagIsRepaired`, `FlagInv`, `WillCoversDevices`, `PlatformKnowsDevices`, `NoContradiction` |
| `stored` (W_data) | 1 device, 3 calls of connect, disconnect, addDevice, removeDevice, addSensorReading, publish, 1 loss, a broker that may never answer | `StoredDataIsSent`, `EndsConnected`, `RetryDoesNotStarve` |
| `firmware` (FW_firmware) | 1 device, 3 requests, 2 sessions with or without an announcement, closed at any time, an installer that may never finish | `TypeOK`, `OneOutcomePerInstallation`, `CourseInv`, `PlatformKnowsVersions`, `VersionInv`, `VersionsDoNotGoBack`, `AbortIsNotBlocked` |
| `requests` (R_requests) | 2 devices with 1 actuator and 2 configuration items, five scenarios (below), every `reconnect()` may fail, the first device's configurations may be discarded | `TypeOK`, `RequestsAreAnswered`, `PlatformKnowsState`, `WholeConfigurations`, `CarriedOutInOrder`, `ReportsInOrder` |
| `builder` (B_builder) | 1 mandatory part of three alike, 1 persistence besides the default, 2 builds | `TypeOK`, `LastSetIsUsed`, `PersistenceHasOneOwner` |
| `disconnect` (W_disconnect) | 1 device, 3 calls, 1 loss | `DisconnectSticks` is **violated** |
| `reconnect` (W_reconnect) | `reconnect()` may fail | `AddedDevicesAreRegistered` is **violated** |
| `assets` (W_assets) | templates offered at any time | `AcceptedAssetsReachPlatform` is **violated** |
| `forms` (B_forms) | the builder, 1 build | `ErrorIsTrue` is **violated** |

Bounds. Three items and batches of two (the code's 50) give a full batch, a
partial one and an empty fetch, and two keys a call that fails on one and not on
the other; one restart puts every batch back once. Two references distinguish
keys that parse from keys that do not. Three API calls, one loss, and as
many connection attempts as the broker refuses, are enough for a call to fall
into every gap of connect, addDevice and the loss handler, with the retry and
the notification still to come; the second loss of a kind meets no state the
first one does not. Two devices are needed for the last will (one in, one not);
elsewhere devices do not interact. A template that clashes stands beside it
in its offer, or comes with a later call. For firmware, two installs of one device and
an abort are the shortest course in which the abort has two installations to
choose from, and two sessions are a report that fails between them and one that
repairs it, or strands it; a second device only adds commands in between, and
the proofs hold for any number. For requests, a
scenario gives the calls made at the start, those that may be made later, each once,
how many of these and of messages there may be, and the losses. `Meeting`: a device and
a session, then two messages that meet (a set and a get, two sets, a set of both items
and one of one) or a message and the call that gets in its way (`removeDevice`,
`connect(false)`, a report with a value), and a loss. `Revival`: while online a second
device is added, removed and added again, and a message about the first falls between,
the shortest way to a request that is carried out after one `reconnect()` failed and
before another brings the link back. `Return`: the device is removed and added again,
with a message and a loss. `Restart`: a disconnect and a `connect(true)`. `Statuses`:
statuses passed by the application. Two items tell whole configurations from parts. The
platform accepts the registrations it answers: a refusal, like an answer nobody can
parse, changes nothing. The Wolk,
firmware and requests instances stop when their calls are used up, hence
`CHECK_DEADLOCK FALSE`; the others never stop. The largest runs, `requests` and
`connection`, have 2.1 and 1.2 million states.

Fairness. `WF(WorkerStep)`, `WF(TakeCommand \/ Execute)`, `WF(Work)` and `WF(Callback)`: the
worker of a command buffer and the MQTT client's thread run as long as they have
something to do; a command, once taken, runs to its end. `EndsConnected` has
`SF(ConnectSucceeds)` as its premise (`ReachableBroker`): a broker that is tried for
ever answers some time. That is an assumption about the network. No fairness is
assumed of users, of installers, of the link, or of crashes; `Requests` and
`WolkBuilder` need none.

The five violations are disagreements of the code with its documentation;
`PROJECT.json` quotes the lines.

- A `+` in a device key sends data of `a+b` for device `a`.
- `disconnect()` does not withdraw a Connect that waits in the buffer, nor one
  that a late loss notification queues: the module comes back by itself.
- `addDevice` ignores a failing `reconnect()`: `m_connected` stays true on a dead
  link and nothing retries. The other runs of `Wolk` therefore assume
  `ReconnectMayFail = FALSE`; in `Requests` it may always fail.
- `addAssetsToDevice` while offline silently does nothing.
- With the configuration handler and its provider set in different forms, one as an
  object and one as a lambda, `build()` throws that both must be set.

## 4. Proofs

| theorem | module | says |
|---|---|---|
| `RoundTrip`, `KeysDistinct` | `DataServiceProofs` | a device key without `+` and any reference come back out of the persistence key; keys of different devices or references differ |
| `TypeCorrect` | `DataServiceProofs` | `Spec => []TypeOK` |
| `NothingIsLost`, `RemovesWhatWasSent` | `DataServiceProofs` | `Spec => []NoLoss`, `[]RemovalIsOfWhatWasSent` |
| `RightDeviceAlways` | `DataServiceProofs` | `Spec => []RightDevice` if no device key contains `+` |
| `SentInOrder`, `StatusesNeverGoBack` | `DataServiceOrderProofs` | `Spec => []NoOvertaking`, `[]NoStaleStatus` |
| `OnlyTheDeviceAskedFor` | `DataServiceOrderProofs` | `Spec => OnlyAskedDevice` if no device key contains `+` |
| `CallsDrain` | `DataServiceOrderProofs` | `Spec => CleanCallDrains` |
| `NoRepeatsWithoutCrash` | `DataServiceOrderProofs` | `Spec => []RepeatsOnlyAfterCrash` |
| `PathImplementsOutbox` | `OutboxProofs` | `Spec => ImplementsOutbox` |
| `TypeCorrect` | `WolkProofs` | `Spec => []TypeOK` |
| `FlagInvAlways`, `FlagsAgreeOrAreRepaired` | `WolkProofs` | `Spec => []FlagInv`, `[]StaleFlagIsRepaired` if `reconnect()` does not fail |
| `BrokerWillNamesDevices` | `WolkFleetProofs` | `Spec => []WillCoversDevices` |
| `PlatformLearnsOfDevices` | `WolkFleetProofs` | `Spec => []PlatformKnowsDevices` if `reconnect()` does not fail |
| `StoredDataReachesPlatform` | `WolkFleetProofs` | `Spec => []StoredDataIsSent` if `reconnect()` does not fail |
| `PlatformIsToldOneThing` | `WolkFleetProofs` | `Spec => []NoContradiction` |
| `TypeCorrect` | `FirmwareUpdateProofs` | `Spec => []TypeOK` |
| `EveryOutcomeClosesAnInstallation`, `JobsAndReportsAgree` | `FirmwareUpdateProofs` | `Spec => []OneOutcomePerInstallation`, `[]CourseInv` |
| `VersionsInOrder`, `KnownNeverGoesBack` | `FirmwareUpdateProofs` | `Spec => []VersionInv`, `VersionsDoNotGoBack` |
| `PlatformLearnsVersions` | `FirmwareUpdateProofs` | `Spec => []PlatformKnowsVersions` |
| `TypeCorrect` | `RequestsProofs` | `Spec => []TypeOK` |
| `InOrder` | `RequestsProofs` | `Spec => CarriedOutInOrder` |
| `ReportsNeverGoBack` | `RequestsProofs` | `Spec => ReportsInOrder` |
| `ConfigurationsWhole` | `RequestsProofs` | `Spec => []WholeConfigurations` |
| `EveryRequestAnswered` | `RequestsProofs` | `Spec => []RequestsAreAnswered` |
| `PlatformLearnsState` | `RequestsProofs` | `Spec => []PlatformKnowsState` |
| `TypeCorrect`, `LastFormIsUsed` | `WolkBuilderProofs` | `Spec => []TypeOK`, `[]LastSetIsUsed` |
| `OneOwnerAlways` | `WolkBuilderProofs` | `Spec => PersistenceHasOneOwner` |

`NoLoss` is not inductive: the step that removes a batch would lose whatever the
batch did not send. `RemovalIsOfWhatWasSent` closes the gap: between the publish
and the removal the front of the box is the batch that was sent, because only the
worker touches it. Both together with `TypeOK` are inductive.

`RightDevice` needs to know where items are: `FiledUnderOwnKey` says that a box
holds items of the device and reference its key was made of; `RoundTrip` then
turns the key back into the device. `RoundTrip` rests on the first delimiter
being the one `makePersistenceKey` put there, which is where the assumption on
device keys enters.

The order in which things are sent is followed box by box. Of a list, `ListOrder` says that what is stored are
the latest numbers, one after the other, and that every older one is gone; of a slot,
`SlotOrder` says that it holds the latest. A removal keeps `ListOrder` because of
`RemovalIsOfWhatWasSent`. `AskedInv` says that the keys a call for one device has yet to
walk are that device's, `AheadInv` that, until a batch fails, everything the call was
asked for and that is still stored is among them.

`RepeatsOnlyAfterCrash` counts how often an item was sent. `RepeatInv` says that this is
no more than once plus the restarts, and not even that while the item waits to be sent; a
batch that was sent and is not yet removed does not wait, and a restart makes it wait
again. That a publish adds one needs the items of a box to be different, which is
`ListOrder` and `SlotOrder`.

In the refinement a batch leaves its box of `Outbox` when it is published, so the
removal is a stutter and a stop in between is `Requeue`. That it puts the same items
back needs `BatchSent`: the end of what was sent is the front of what is stored.

`StaleFlagIsRepaired` speaks of the moments the worker and the MQTT thread
disagree; `FlagInv` adds what is true while the worker is inside connect,
addDevice and disconnect: a session lost before the flag is raised has a
notification or a Connect ahead of it (`LossSeenWhileConnecting`); a flag lowered
under addDevice's feet has one too (`FlagReadByAddDevice`); and disconnect lowers
the flag before it closes the session (`FlagLoweredByDisconnect`).

The properties at quiescence promise something of a module with nothing left to do, and
say nothing of any other moment. The invariant behind each says, at every moment, what
still to come will keep the promise; at quiescence nothing is to come, so the promise is
kept. For that the buffers are looked at as sets.

- `WillInv`: a broker that lacks a device in its last will is to get a new session.
- `KnowInv` of `WolkFleetProofs`: on a live link, what the platform does not know of a
  device is in a registration or update that waits, or in the walk of `registerDevices`.
  `DueInv` says the same of stored data and `publish()`. Off line, a Connect or the
  notification of the loss is to come. Both need `FlagInv`, and with it the proviso:
  without it TLC shows that they fail (`reconnect`).
- `SaidInv` of `WolkFleetProofs`: two templates the platform knows or is about to be told
  of a device never removed agree, and the device has one of their reference, so that no
  later call can pass another (`Covered`). Templates agree that are equal, that differ in
  reference, or that one call passed. `OffersInv`: those of commands come from calls.
- `KnowInv` of `FirmwareUpdateProofs`: a version the platform does not
  know is about to be read, in the worker's hands, or its last report was missed
  (`Missed`): it was not taken, and on a live link that means that the session passed the
  device over.
- `AnswerInv` of `RequestsProofs`: on a live link, what was asked of a slot is in a message
  inbound or a command that will read it (`ReadInv`), and what was read and not sent has a
  `publish()` to come (`SendInv`). Off line nothing is claimed, as after a failed
  `reconnect()` nothing need come: a session that announces pushes all that both need, one
  that does not owes nothing. It proves more than the property says: nothing is owed, of
  slots reported directly neither.
- `KnowInv` of `RequestsProofs`: on a live link, what the platform does not know of a slot of
  an accepted device is about to be read, or the acceptance that has it read is still on its
  way, unless its last report was discarded. It rests on `ReportInv`: what is stored is the
  state, so a report changes nothing but what the platform knows.

`OneOutcomePerInstallation` only looks at what was sent. `CourseInv` ties it to
the jobs: every job was announced, every outcome sent was taken by its job
(`Told`), and the worker that is about to report an abort holds a job nobody has
reported yet. An outcome about to be sent is therefore the first of its job.
`VersionInv` orders the three copies of a version, at the platform, in the
worker's hands and on the device; only the worker moves the first two.

`CarriedOutInOrder` speaks of one step. `OrderInv` says why no step breaks it: the
numbers in the inbound buffer increase (`InboundInOrder`), so do those of the set
commands in Wolk's, all of them before the inbound ones (`SetsInOrder`), and nothing
queued is older than what the application obeyed (`StateFirst`). `HeardInv` is the same for
platform statuses, of which `heard` is the last. `ReportInv` orders the copies of a
slot not reported directly: what was told is not newer than the state, and what is
stored is the state. `SetsFaithful` ties a set command to
the message it was made of, so that `WholeInv` can say of `state`, `stored` and `told`
that a configuration command is there with all its items, or superseded by a newer one.
`WolkBuilder` needs one more fact, that the persistence it holds was given to nobody.

Assumptions on constants are the named `ASSUME`s of the modules; no bound on devices,
items, batch size, messages, calls or losses is used. That of `Requests` on the platform's
messages says what the protocol's commands can hold: an actuator get or set has one
reference (DataService.cpp 67 and 90), empty for all.

Every safety invariant and action property of the passing runs is proved, four of them
under the proviso that those runs make too, that `reconnect()` does not fail.
`PlatformKnowsVersions`, `NoContradiction`, `RequestsAreAnswered` and
`PlatformKnowsState` carry provisos of their own: what the code leaves stranded,
contradicting, unanswered or unknown is kept in history variables (`stranded`,
`removed`, `unread` and `accepted`, `discarded`), and the properties exempt that and
no more. Only
model-checked: the liveness properties (`PublishEnds`, `EndsConnected`,
`RetryDoesNotStarve`, `AbortIsNotBlocked`), as the prover has no rule for fairness or
`ENABLED`, and the five violations.

## 5. Not modelled

- C++ object lifetime: the order of destruction in `~Wolk`, the reference to a local
  that the loss handler captures in `build()`, what a null persistence does in
  `DataService`. These are undefined behaviour or depend on threads of libraries that
  are not in the repository.
- `handleUpdateResponse`, which nothing calls: `Requests` drops the response where
  the code does.
- A persistence that refuses an item: how it does is not visible here.
- Wording and layout of messages, logging, the values of readings.
- The host and the handler of registration responses of `WolkBuilder`, which are
  copied and looked at by nothing; `addListener` as an action: `build()` calls it
  before there is a session.
- The interfaces the application implements, the example, tools, and the WolkSDK
  submodule beyond what `src/src` relies on.
