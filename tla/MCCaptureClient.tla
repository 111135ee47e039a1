---------------------------- MODULE MCCaptureClient ----------------------------
(***************************************************************************)
(* CaptureClient on small instances.                                       *)
(***************************************************************************)
EXTENDS CaptureClient

\* the requests an archive call makes are its own; MaxMsg covers its reply
ASSUME BoundsAssumption == MaxMsg > MaxChunk
================================================================================
