------------------------------ MODULE ImageMounter ------------------------------
(***************************************************************************)
(* src/mobile_image_mounter.c under tools/ideviceimagemounter.c: an image  *)
(* is uploaded (before iOS 7 through AFC) and mounted, or the mounted      *)
(* images are asked for or unmounted.  Before iOS 17 a signature file goes *)
(* with the image; since then a ticket does, which comes from the device   *)
(* or from Apple's server.  Each call of the client is one exchange under  *)
(* its mutex, and the tool has one thread: a call is one action.           *)
(***************************************************************************)
EXTENDS Naturals

CONSTANTS
  Versions,  \* of the device: "afc" (before 7), "upload" (7 to 16), "personal"
  Commands,  \* of the tool: "mount", "list", "unmount", "devmodestatus"
  Blocks     \* of 64K in the image

VARIABLES
  pc, version, cmd,
  mim,     \* the connection to the mounter: "none", "live" or "spent"
  sig,     \* "none", or where the signature or ticket came from
  tx,      \* blocks handed to the transport
  expects, \* blocks of an image the device waits for: it takes all it gets for one
  image,   \* on the device: "none", "part", "rejected" or "whole"
  mounted, \* the device has mounted the image
  removed, \* the device has unmounted one
  res,     \* what main returns: "ok" or "fail"
  asked,   \* history: the image and the signature when MountImage was sent
  cut,     \* history: an upload did not get through
  garbled, \* history: the device took a command for image data
  stale    \* history: a command was sent on a spent connection

deviceVars == <<expects, image, mounted, removed, garbled>>
vars == <<pc, version, cmd, mim, sig, tx, res, asked, cut, stale, deviceVars>>

Init ==
  /\ pc = "start" /\ version \in Versions /\ cmd \in Commands
  /\ mim = "none" /\ sig = "none" /\ tx = 0
  /\ expects = 0 /\ image = "none" /\ mounted = FALSE /\ removed = FALSE
  /\ res = "fail" /\ asked = <<>> /\ cut = FALSE /\ garbled = FALSE /\ stale = FALSE

\* a command on the mounter's connection, and what stays as it is
Command ==
  /\ stale' = (stale \/ mim # "live")
  /\ garbled' = (garbled \/ expects > 0)

NoCommand == UNCHANGED <<stale, garbled>>

-----------------------------------------------------------------------------
(* main up to the command *)

\* the device, lockdown, developer mode, the services, the files: what fails after the
\* mounter has been connected to leaves the connection open
Start ==
  /\ pc = "start"
  /\ \/ pc' = "leave" /\ mim' \in {"none", "live"}
     \/ pc' = cmd /\ mim' = "live"
  /\ NoCommand
  /\ UNCHANGED <<version, cmd, sig, tx, res, asked, cut, expects, image, mounted, removed>>

\* mobile_image_mounter_lookup_image and mobile_image_mounter_query_developer_mode_status
Query ==
  /\ pc \in {"list", "devmodestatus"}
  /\ pc' = "hangup" /\ res' \in {"ok", "fail"}
  /\ Command
  /\ UNCHANGED <<version, cmd, mim, sig, tx, asked, cut, expects, image, mounted, removed>>

\* mobile_image_mounter_unmount_image: an answer without an Error is a success
Unmount ==
  /\ pc = "unmount" /\ pc' = "hangup"
  /\ \/ removed' = TRUE /\ res' = "ok"
     \/ removed' \in BOOLEAN /\ res' = "fail"
  /\ Command
  /\ UNCHANGED <<version, cmd, mim, sig, tx, asked, cut, expects, image, mounted>>

-----------------------------------------------------------------------------
(* What goes with the image *)

\* the signature file; what goes wrong leaves the mounter connected
Signature ==
  /\ pc = "mount" /\ version # "personal"
  /\ \/ pc' = "leave" /\ UNCHANGED sig
     \/ pc' = "stage" /\ sig' = "file"
  /\ NoCommand
  /\ UNCHANGED <<version, cmd, mim, tx, res, asked, cut, expects, image, mounted, removed>>

\* mobile_image_mounter_query_personalization_identifiers, and the files of the image
Identify ==
  /\ pc = "mount" /\ version = "personal"
  /\ \/ pc' = "leave" /\ NoCommand
     \/ pc' \in {"leave", "hangup", "manifest"} /\ Command
  /\ UNCHANGED <<version, cmd, mim, sig, tx, res, asked, cut, expects, image, mounted, removed>>

\* mutant: the connection is used again after a failure
Replace_Keeps == mim' = "spent" /\ pc' = "nonce"

\* "we need to re-connect in this case"
Replace ==
  \/ mim' = "live" /\ pc' = "nonce"
  \/ mim' = "none" /\ pc' = "hangup"

\* mobile_image_mounter_query_personalization_manifest: the device's own ticket, if it has one
Manifest ==
  /\ pc = "manifest"
  /\ Command
  /\ \/ sig' = "device" /\ pc' = "stage" /\ UNCHANGED mim
     \/ Replace /\ UNCHANGED sig
  /\ UNCHANGED <<version, cmd, tx, res, asked, cut, expects, image, mounted, removed>>

\* mobile_image_mounter_query_nonce; the server's answer takes time, so the connection is
\* given up before it
Nonce ==
  /\ pc = "nonce"
  /\ \/ pc' = "hangup" /\ UNCHANGED mim
     \/ pc' = "ticket" /\ mim' = "none"
  /\ Command
  /\ UNCHANGED <<version, cmd, sig, tx, res, asked, cut, expects, image, mounted, removed>>

Ticket ==
  /\ pc = "ticket"
  /\ \/ pc' = "hangup" /\ UNCHANGED sig
     \/ pc' = "stage" /\ sig' = "server"
  /\ NoCommand
  /\ UNCHANGED <<version, cmd, mim, tx, res, asked, cut, expects, image, mounted, removed>>

\* a connection, if there is none, for the upload
Stage ==
  /\ pc = "stage"
  /\ \/ mim' = "live" /\ pc' = (IF version = "afc" THEN "open" ELSE "upload")
     \/ mim = "none" /\ pc' = "hangup" /\ UNCHANGED mim
  /\ mim = "live" => mim' = mim
  /\ NoCommand
  /\ UNCHANGED <<version, cmd, sig, tx, res, asked, cut, expects, image, mounted, removed>>

-----------------------------------------------------------------------------
(* mobile_image_mounter_upload_image *)

\* the command and its acknowledgement: one that does not come in time may still be made
Upload ==
  /\ pc = "upload"
  /\ Command
  /\ \/ pc' = "data" /\ expects' = Blocks /\ UNCHANGED cut
     \/ pc' = "hangup" /\ expects' \in {0, Blocks} /\ cut' = TRUE
  /\ UNCHANGED <<version, cmd, mim, sig, tx, res, asked, image, mounted, removed>>

\* mutant: the loop ends before the last block
Data_Short ==
  /\ pc = "data" /\ tx + 1 < Blocks
  /\ tx' = tx + 1 /\ expects' = expects - 1
  /\ pc' = IF tx' + 1 < Blocks THEN "data" ELSE "complete"
  /\ image' = "part" /\ UNCHANGED cut
  /\ NoCommand
  /\ UNCHANGED <<version, cmd, mim, sig, res, asked, mounted, removed>>

\* a file that ends early gives a block of no bytes, which service_send refuses
Data ==
  /\ pc = "data"
  /\ \/ /\ tx' = tx + 1 /\ expects' = expects - 1
        /\ pc' = IF tx' < Blocks THEN "data" ELSE "complete"
        /\ UNCHANGED cut
     \/ pc' = "hangup" /\ cut' = TRUE /\ UNCHANGED <<tx, expects>>
  /\ image' = "part"
  /\ NoCommand
  /\ UNCHANGED <<version, cmd, mim, sig, res, asked, mounted, removed>>

\* process_result: an Error, or a Status other than the one expected, is a failure
ProcessResult_Any == pc' = "send_mount" /\ image' \in {"whole", "rejected"}
ProcessResult ==
  \/ expects = 0 /\ image' = "whole" /\ pc' = "send_mount"
  \/ image' \in {image, "whole", "rejected"} /\ pc' = "hangup"

Complete ==
  /\ pc = "complete"
  /\ ProcessResult
  /\ NoCommand
  /\ UNCHANGED <<version, cmd, mim, sig, tx, res, asked, cut, expects, mounted, removed>>

-----------------------------------------------------------------------------
(* The upload through AFC *)

Open ==
  /\ pc = "open" /\ pc' \in {"leave", "write"}
  /\ NoCommand
  /\ UNCHANGED <<version, cmd, mim, sig, tx, res, asked, cut, expects, image, mounted, removed>>

\* what could not be written ends the tool; a read error is taken for the end of the image
Write ==
  /\ pc = "write"
  /\ \/ tx < Blocks /\ tx' = tx + 1 /\ UNCHANGED pc
     \/ tx < Blocks /\ pc' = "leave" /\ UNCHANGED tx
     \/ pc' = "written" /\ UNCHANGED tx
  /\ image' = IF tx' = Blocks THEN "whole" ELSE "part"
  /\ NoCommand
  /\ UNCHANGED <<version, cmd, mim, sig, res, asked, cut, expects, mounted, removed>>

\* err is still what it was before the upload, UNKNOWN_ERROR: the image is not mounted
Written ==
  /\ pc = "written" /\ pc' = "hangup"
  /\ NoCommand
  /\ UNCHANGED <<version, cmd, mim, sig, tx, res, asked, cut, expects, image, mounted, removed>>

-----------------------------------------------------------------------------
\* mobile_image_mounter_mount_image_with_options
Mount ==
  /\ pc = "send_mount" /\ pc' = "hangup"
  /\ Command
  /\ asked' = <<image, sig>>
  /\ \/ mounted' = TRUE /\ res' = "ok"
     \/ mounted' \in BOOLEAN /\ UNCHANGED res
  /\ UNCHANGED <<version, cmd, mim, sig, tx, cut, expects, image, removed>>

\* mobile_image_mounter_hangup, which a client that is NULL refuses; the answer to it is of
\* no interest
Hangup ==
  /\ pc = "hangup" /\ pc' = "leave"
  /\ mim' = "none"
  /\ IF mim = "none" THEN NoCommand ELSE Command
  /\ UNCHANGED <<version, cmd, sig, tx, res, asked, cut, expects, image, mounted, removed>>

Leave ==
  /\ pc = "leave" /\ pc' = "done"
  /\ NoCommand
  /\ UNCHANGED <<version, cmd, mim, sig, tx, res, asked, cut, expects, image, mounted, removed>>

Next ==
  \/ Start \/ Query \/ Unmount \/ Signature \/ Identify \/ Manifest \/ Nonce \/ Ticket \/ Stage
  \/ Upload \/ Data \/ Complete \/ Open \/ Write \/ Written \/ Mount \/ Hangup \/ Leave

-----------------------------------------------------------------------------
(* Properties *)

TypeOK ==
  /\ mim \in {"none", "live", "spent"} /\ sig \in {"none", "file", "device", "server"}
  /\ tx \in 0..Blocks /\ expects \in 0..Blocks /\ res \in {"ok", "fail"}
  /\ image \in {"none", "part", "rejected", "whole"}

\* The device is asked to mount only an image that it has taken as a whole, with a signature
\* (mobile_image_mounter_upload_image, line 246 and 258), and the tool reports success
\* exactly of what the device has done.
MountTrue ==
  /\ asked # <<>> => asked[1] = "whole" /\ asked[2] # "none"
  /\ pc = "done" /\ res = "ok" => (cmd = "mount" => mounted) /\ (cmd = "unmount" => removed)

\* The device takes a command for a part of an image only if the upload before it was cut
\* short (line 246: nothing ends an upload but its last byte, so that the hangup of line 743
\* is lost), and no command goes to a connection on which a ticket was asked for in vain.
CommandsHeard == (garbled => cut) /\ ~stale
================================================================================
