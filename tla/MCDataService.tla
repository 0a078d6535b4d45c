--------------------------- MODULE MCDataService ---------------------------
(***************************************************************************)
(* Small instances of DataService.                                         *)
(***************************************************************************)
EXTENDS DataService

MCSymbol == {"a", "b", "r", "+"}

(* Device keys free of the delimiter; one reference may be empty, which    *)
(* makes a key that does not parse.                                        *)
OneDevice == {<<"a">>}
PlainDevices == {<<"a">>, <<"b">>}
OneReference == {<<"r">>}
OddReferences == {<<"r", "+", "b">>, <<>>}

(* Device keys of which one contains the delimiter.                        *)
DelimitedDevices == {<<"a">>, <<"a", "+", "b">>}

(* A backlog of more than one batch under each of two keys.                *)
BacklogBounds == [kind \in Kinds |-> IF kind = "sensor" THEN 3 ELSE 0]

(* Every kind, one or two items of each.                                   *)
EveryKindBounds ==
  [sensor |-> 1, alarm |-> 0, actuator |-> 1, configuration |-> 2]

=============================================================================
