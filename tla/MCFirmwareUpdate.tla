-------------------------- MODULE MCFirmwareUpdate --------------------------
(* A small instance of FirmwareUpdate.                                     *)
EXTENDS FirmwareUpdate

CONSTANT d1

OneDevice == {d1}

=============================================================================
