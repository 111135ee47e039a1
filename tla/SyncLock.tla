------------------------------- MODULE SyncLock -------------------------------
(***************************************************************************)
(* The lock file that src/tools/idevicebackup.c and                        *)
(* src/tools/idevicebackup2.c take on the device over AFC before they let  *)
(* it work on a backup, so that no two programs sync with it at once, and  *)
(* the notifications that go with it.  The two tools have the same code.   *)
(***************************************************************************)
EXTENDS Naturals

CONSTANTS
  LockAttempts  \* LOCK_ATTEMPTS

VARIABLES
  pc,       \* the step of the tool
  cmd,      \* what it is to do, "leave" once it has given up
  quit,     \* quit_flag: a signal, or a cancellation on the device
  conn,     \* the device: "open" or "lost"
  lockfile, \* the lock file is open
  holder,   \* who has locked it: "none", "tool", "other"
  tries,    \* attempts at the lock
  posted    \* notifications handed to the device

lockVars == <<lockfile, holder, tries, posted>>

LockInit == lockfile = FALSE /\ holder = "none" /\ tries = 0 /\ posted = {}

\* do_post_notification: without a connection nothing is posted, and nobody is told
Post(notes) == posted' = IF conn = "open" THEN posted \union notes ELSE posted

\* an error of afc_file_open leaves lockfile 0, and the tool goes on without a lock
OpenLock ==
  /\ pc = "open"
  /\ \/ /\ conn = "open" /\ lockfile' = TRUE /\ pc' = "lock" /\ Post({"willStart", "lockRequest"})
     \/ /\ lockfile' = FALSE /\ pc' = "request" /\ Post({"willStart"})
  /\ UNCHANGED <<cmd, quit, conn, holder, tries>>

GiveUpLock == lockfile' = FALSE /\ cmd' = "leave"

\* mutant of TryLock: one attempt too many
TryLock_OneMore ==
  /\ pc = "lock" /\ tries <= LockAttempts /\ holder = "other" /\ conn = "open" /\ tries' = tries + 1
  /\ UNCHANGED <<pc, cmd, quit, conn, lockfile, holder, posted>>

\* mutant of TryLock: a lock that somebody else has does not keep the tool from going on
TryLock_GoesOn ==
  /\ pc = "lock" /\ tries < LockAttempts /\ conn = "open"
  /\ holder' = (IF holder = "none" THEN "tool" ELSE holder) /\ pc' = "request" /\ tries' = 0
  /\ UNCHANGED <<cmd, quit, conn, lockfile, posted>>

\* after an error the loop goes on with a handle that is 0, until its attempts are used up
TryLock ==
  /\ pc = "lock" /\ tries < LockAttempts
  /\ \/ /\ holder = "none" /\ conn = "open"
        /\ holder' = "tool" /\ pc' = "request" /\ tries' = 0
        /\ Post({"didStart"}) /\ UNCHANGED <<cmd, lockfile>>
     \/ /\ holder = "other" /\ conn = "open"
        /\ tries' = tries + 1 /\ UNCHANGED <<pc, cmd, lockfile, holder, posted>>
     \/ /\ GiveUpLock /\ tries' = LockAttempts /\ UNCHANGED <<pc, holder, posted>>
  /\ UNCHANGED <<quit, conn>>

LockTimeout ==
  /\ pc = "lock" /\ tries = LockAttempts
  /\ GiveUpLock /\ pc' = "request" /\ tries' = 0
  /\ UNCHANGED <<quit, conn, holder, posted>>

\* finish: whether NP_SYNC_DID_FINISH is posted, which the tools decide differently
Unlock(finish) ==
  /\ pc = "unlock" /\ pc' = "free"
  /\ IF lockfile
     THEN /\ lockfile' = FALSE /\ holder' = (IF holder = "tool" THEN "none" ELSE holder)
          /\ IF finish THEN Post({"didFinish"}) ELSE UNCHANGED posted
     ELSE UNCHANGED <<lockfile, holder, posted>>
  /\ UNCHANGED <<cmd, quit, conn, tries>>

-----------------------------------------------------------------------------
\* another program on the device, or on this computer, that syncs with it: only while the
\* tool is at the lock does it matter when
OtherLock ==
  /\ pc = "lock" /\ conn = "open" /\ holder \in {"none", "other"}
  /\ holder' = (IF holder = "none" THEN "other" ELSE "none")
  /\ UNCHANGED <<pc, cmd, quit, conn, lockfile, tries, posted>>

\* clean_exit, or notify_cb with NP_SYNC_CANCEL_REQUEST in the thread of the notification proxy;
\* from the unlocking on nobody looks at quit_flag
Quit ==
  /\ ~quit /\ pc \notin {"unlock", "free", "done"} /\ quit' = TRUE
  /\ UNCHANGED <<pc, cmd, conn, lockVars>>

\* the device lets go of what was locked over a connection that has ended
Dropped == holder' = IF holder = "tool" THEN "none" ELSE holder

LockTypeOK ==
  /\ quit \in BOOLEAN /\ conn \in {"open", "lost"}
  /\ lockfile \in BOOLEAN /\ holder \in {"none", "tool", "other"} /\ tries \in 0..LockAttempts
  /\ posted \subseteq {"willStart", "lockRequest", "didStart", "didFinish"}
===============================================================================
