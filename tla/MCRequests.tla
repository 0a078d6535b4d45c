----------------------------- MODULE MCRequests -----------------------------
(***************************************************************************)
(* Small instances of Requests: an actuator and two configuration items    *)
(* per device.                                                             *)
(***************************************************************************)
EXTENDS Requests

CONSTANTS d1, d2

TwoDevices == {d1, d2}
MCActuators == {"a"}
MCItems == {"c1", "c2"}

MCWalk == [ds \in SUBSET Devices |-> SelectSeq(<<d1, d2>>, LAMBDA d : d \in ds)]

Pairs ==
  <<<<d1, "a">>, <<d1, "configuration">>, <<d2, "a">>, <<d2, "configuration">>>>
MCAssetWalk ==
  [ds \in SUBSET Devices |-> SelectSeq(Pairs, LAMBDA pair : pair[1] \in ds)]

Ask(kind, device, refs) ==
  [kind |-> kind, device |-> device, refs |-> refs, readable |-> TRUE]
Garbled(m) == [m EXCEPT !.readable = FALSE]

(* Sets and gets of one device or all; a set that cannot be parsed, one    *)
(* that names something else than a configuration item, one that names no  *)
(* device.                                                                 *)
Messages ==
  {Ask("actuatorSet", d1, {"a"}), Ask("actuatorSet", NoDevice, {"a"}),
   Ask("configurationSet", d1, {"c1", "c2"}), Ask("configurationSet", d1, {"c1"}),
   Ask("configurationSet", d1, {"c1", "a"}), Garbled(Ask("configurationSet", d1, {"c2"})),
   Ask("actuatorGet", NoDevice, {}),
   Ask("statusRequest", NoDevice, {}), Ask("platformStatus", NoDevice, {})}

MCUnsendable == {<<d1, "configuration">>}

MCAnswers == {<<"registered", TRUE>>}

Add(d) == For("addDevice", d, {})
Remove(d) == For("removeDevice", d, {})
Connect == Plain("connect")
ConnectAndPublish == [Plain("connect") EXCEPT !.yes = TRUE]

Scenario(startup, later, more, lost) ==
  [startup |-> startup, calls |-> later, inputs |-> more, losses |-> lost]

(* Two messages or calls meet, with a loss between them or around.         *)
Meeting ==
  Scenario(<<Add(d1), Connect>>,
    {Remove(d1), Connect,
     For("directActuator", d1, {"a"}), For("directConfiguration", d1, {"c1"})},
    2, 1)

(* A device was added and removed, which may have cost the session; adding *)
(* it again may bring one back, with a message carried out in between.     *)
Revival == Scenario(<<Add(d1), Connect, Add(d2), Remove(d2)>>, {Add(d2)}, 2, 0)

(* The device goes and comes back.                                         *)
Return == Scenario(<<Add(d1), Connect, Remove(d1), Add(d1)>>, {}, 1, 1)

(* A session closed by the application, and one that announces.            *)
Restart == Scenario(<<Add(d1), Connect, Plain("disconnect"), ConnectAndPublish>>, {}, 1, 0)

(* Statuses in the application's words.                                    *)
Statuses ==
  Scenario(<<Add(d1), Connect, For("addDeviceStatus", d1, {}),
             For("publishDeviceStatus", d1, {})>>, {}, 1, 0)

MCScenarios == {Meeting, Revival, Return, Restart, Statuses}

=============================================================================
