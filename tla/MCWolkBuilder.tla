---------------------------- MODULE MCWolkBuilder ----------------------------
(***************************************************************************)
(* A small instance of WolkBuilder: the mandatory parts are alike, one     *)
(* stands for the three.                                                   *)
(***************************************************************************)
EXTENDS WolkBuilder

OnePart == {"actuationHandler"}

=============================================================================
