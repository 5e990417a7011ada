---------------------------- MODULE MCConnection ----------------------------
(***************************************************************************)
(* TLC instances of Connection.                                            *)
(***************************************************************************)
EXTENDS Connection

MCDeviceIds == BOOLEAN
MCDevice == {TRUE}
=============================================================================
