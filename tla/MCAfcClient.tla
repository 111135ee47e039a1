---------------------------- MODULE MCAfcClient ----------------------------
(***************************************************************************)
(* AfcClient on small instances: the replies the device gives, each of a   *)
(* shape afc_receive_data treats differently.                              *)
(***************************************************************************)
EXTENDS AfcClient

R(o, this, entire, status) == [op |-> o, this |-> this, entire |-> entire, status |-> status]

StatusOk == R("STATUS", 1, 1, "SUCCESS")
StatusUnknown == R("STATUS", 1, 1, "UNKNOWN_ERROR")
DataSplit == R("DATA", 1, 2, "SUCCESS")
DataEmpty == R("DATA", 0, 0, "SUCCESS")
DataRest == R("DATA", 0, 2, "SUCCESS")

AllReplies == {StatusOk, StatusUnknown, DataSplit}
MostReplies == {StatusUnknown, DataSplit, DataRest, DataEmpty}
=============================================================================
