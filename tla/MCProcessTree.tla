---------------------------- MODULE MCProcessTree ----------------------------
(***************************************************************************)
(* Model checking of ProcessTree: a sensor process, which may come back,   *)
(* and a publisher, which never does.                                      *)
(***************************************************************************)
EXTENDS ProcessTree

SensorPublisher == <<Noise, Mqtt>>
=============================================================================
