------------------------------- MODULE MCWolk -------------------------------
(***************************************************************************)
(* Small instances of Wolk.                                                *)
(***************************************************************************)
EXTENDS Wolk

CONSTANTS d1, d2

MCDevices == {d1, d2}
OneDevice == {d1}
MCWalk ==
  [ds \in SUBSET Devices |-> SelectSeq(<<d1, d2>>, LAMBDA d : d \in ds)]

(* Templates t1 and t2, each also defined otherwise.                       *)
MCAssets == {"t1", "t2"} \X {"int", "bool"}
MCReference(asset) == asset[1]

NoOffers == {{}}
(* The second offer names t2 twice.                                        *)
TwoOffers ==
  {{<<"t1", "int">>}, {<<"t1", "bool">>, <<"t2", "int">>, <<"t2", "bool">>}}
MCOffers == {{}, {<<"t1", "int">>}, {<<"t1", "bool">>, <<"t2", "int">>}}

ConnectionCalls == {"connect", "disconnect", "addDevice", "removeDevice"}
FleetCalls == {"connect", "addDevice", "addAssets"}
AllFleetCalls == FleetCalls \cup {"removeDevice", "disconnect"}
DataCalls ==
  {"connect", "disconnect", "addDevice", "removeDevice", "addReading",
   "publish", "publishOf"}

=============================================================================
