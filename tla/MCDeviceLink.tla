----------------------------- MODULE MCDeviceLink -----------------------------
(***************************************************************************)
(* DeviceLink on small instances.                                          *)
(***************************************************************************)
EXTENDS DeviceLink

MCClientVersion == <<2, 1>>
\* older, the same, and newer in the minor and in the major number
MCDeviceVersions == {<<1, 2>>, <<2, 1>>, <<2, 2>>, <<3, 0>>}
===============================================================================
