-------------------------------- MODULE Backup --------------------------------
(***************************************************************************)
(* src/tools/idevicebackup.c on top of src/mobilebackup.c, for iOS 3 and   *)
(* below.  The tool is run again and again on the same directory: it may   *)
(* be cut short at any step, a write may fail without anybody noticing,    *)
(* the connection may go, and between two runs files change on the phone.  *)
(* The content of a file is the number of the run it was last changed      *)
(* before, so a content that is gone does not come back.                   *)
(***************************************************************************)
EXTENDS SyncLock, Integers, Sequences, FiniteSets

CONSTANTS
  Files,   \* hashes, the names of the files in the backup
  Hashed,  \* those whose DataHash is not empty
  Apps,    \* applications in the manifest
  MaxRuns  \* bound: runs of the tool

\* the content of <hash>.mddata: a version, or one of these
Absent == -1
Broken == 0
Half == -2       \* the first hunks of a file, without its last
Gone == 0        \* on the phone and in a manifest: no such file
NoManifest == [f \in {} |-> 0]

VARIABLES
  phone,    \* the version of each file on the phone
  data,     \* <hash>.mddata
  info,     \* the files whose <hash>.mdinfo is there
  manifest, \* Manifest.plist
  stat,     \* Status.plist: 1, 0, or Absent
  infoplist,\* Info.plist: "none", "mine", "other" if of another phone, "broken"
  full,     \* is_full_backup
  hunk,     \* hunk_index is not 0
  inbox,    \* messages of the phone
  base,     \* the phone: the manifest it was sent
  acked,    \* the phone: files the tool has acknowledged
  dev,      \* the phone: "idle", "ack" if it waits for one, "restore", "over"
  left,     \* files still to restore
  restored, \* what the phone has of the restore
  apps,     \* applications restored
  ok,       \* backup_ok, restore_ok
  outcome,  \* what the tool has said
  run,      \* the number of the run
  local,    \* history: a local file failed or changed, and nobody noticed
  stale     \* history: Manifest.plist is of the backup that a full one has begun to overwrite

disk == <<data, info, manifest, stat, infoplist>>
device == <<phone, base, acked, dev, restored, apps>>
frame == <<cmd, quit, conn, lockVars, run, local, stale>>
vars == <<pc, frame, disk, device, full, hunk, inbox, left, ok, outcome>>

Empty == [f \in Files |-> Gone]
Listed(m) == {f \in DOMAIN m : m[f] # Gone}

Init ==
  /\ LockInit /\ pc = "args" /\ cmd \in {"backup", "restore"} /\ quit = FALSE /\ conn = "open"
  /\ phone = [f \in Files |-> 1]
  /\ \/ /\ data = [f \in Files |-> Absent] /\ info = {} /\ manifest = NoManifest /\ stat = Absent
        /\ infoplist = "none"
     \/ /\ data = phone /\ info = Files /\ manifest = phone /\ stat = 1
        /\ infoplist \in {"mine", "other", "broken"}
  /\ full = FALSE /\ hunk = FALSE /\ inbox = <<>> /\ base = Empty /\ acked = {} /\ dev = "over"
  /\ left = {} /\ restored = Empty /\ apps = 0 /\ ok = FALSE /\ outcome = "none"
  /\ run = 1 /\ local = FALSE /\ stale = FALSE

-----------------------------------------------------------------------------
(* main, up to the lock *)

Args ==
  /\ pc = "args"
  /\ pc' = (IF cmd = "restore" /\ infoplist = "none" THEN "done" ELSE "connect")
  /\ UNCHANGED <<frame, disk, device, full, hunk, inbox, left, ok, outcome>>

\* lockdown, the version of iOS, notification_proxy, AFC and mobilebackup.  A backup whose
\* notification_proxy did not start fails on the missing service descriptor.
Connect ==
  /\ pc = "connect"
  /\ pc' \in (IF conn = "open" THEN {"info", "free", "done"} ELSE {"free", "done"})
  /\ UNCHANGED <<frame, disk, device, full, hunk, inbox, left, ok, outcome>>

\* a write of the tool, whose failure it does not look at
Write(succeeds, fails) == (succeeds /\ UNCHANGED local) \/ (~local /\ local' = TRUE /\ fails)

\* Info.plist is removed and written anew
WriteInfo == Write(infoplist' = "mine", infoplist' \in {"none", "broken"})

\* Info.plist names the phone, and a backup writes its date into it.  One that cannot be read
\* makes a full backup, and lets a restore go on.
CheckInfo ==
  /\ pc = "info"
  /\ cmd' = IF quit \/ infoplist = "other" THEN "leave"
            ELSE IF infoplist = "none" /\ cmd = "restore" THEN "leave" ELSE cmd
  /\ full' = (infoplist \in {"none", "broken"})
  /\ pc' = IF cmd' = "backup" THEN "open" ELSE "request"
  /\ IF cmd' = "backup" /\ infoplist = "mine" THEN WriteInfo ELSE UNCHANGED <<infoplist, local>>
  /\ UNCHANGED <<quit, conn, lockVars, run, stale, data, info, manifest, stat, device, hunk, inbox, left, ok, outcome>>

Lock ==
  /\ OpenLock \/ TryLock \/ LockTimeout
  /\ UNCHANGED <<run, local, stale, disk, device, full, hunk, inbox, left, ok, outcome>>

Leave ==
  /\ pc = "request" /\ cmd = "leave" /\ pc' = "unlock"
  /\ UNCHANGED <<frame, disk, device, full, hunk, inbox, left, ok, outcome>>

-----------------------------------------------------------------------------
(* backup *)

\* A full backup leaves the manifest of the last one where it is.
ReadManifest ==
  /\ pc = "request" /\ cmd = "backup" /\ pc' = "status0"
  /\ full' = (full \/ manifest = NoManifest)
  /\ stale' = (stale \/ (full' /\ manifest # NoManifest))
  /\ IF full' THEN WriteInfo ELSE UNCHANGED <<infoplist, local>>
  /\ UNCHANGED <<cmd, quit, conn, lockVars, run, data, info, manifest, stat, device, hunk, inbox, left, ok, outcome>>

\* mobilebackup_write_status removes the file and writes it anew
WriteStatus(v) == Write(stat' = v, stat' = Absent)

\* mutant of StatusFailed: Status.plist stays as the last backup left it
StatusFailed_Skipped ==
  /\ pc = "status0" /\ pc' = "ask"
  /\ UNCHANGED <<frame, disk, device, full, hunk, inbox, left, ok, outcome>>

StatusFailed ==
  /\ pc = "status0" /\ pc' = "ask" /\ WriteStatus(0)
  /\ UNCHANGED <<cmd, quit, conn, lockVars, run, stale, data, info, manifest, infoplist, device, full, hunk, inbox,
                 left, ok, outcome>>

\* mobilebackup_request_backup, with the manifest of the last backup; the phone may refuse
RequestBackup ==
  /\ pc = "ask"
  /\ \/ /\ conn = "open" /\ pc' = "loop" /\ dev' = "idle" /\ acked' = {}
        /\ base' = (IF full THEN Empty ELSE manifest) /\ UNCHANGED outcome
     \/ pc' = "unlock" /\ outcome' = "failed" /\ UNCHANGED <<dev, acked, base>>
  /\ UNCHANGED <<frame, disk, phone, restored, apps, full, hunk, inbox, left, ok>>

Heard(kind) == pc = "loop" /\ inbox # <<>> /\ Head(inbox).kind = kind
Message(kind) == Heard(kind) /\ inbox' = Tail(inbox)

\* The first hunk of a file takes away what was there, each hunk is appended.
Appended(last) ==
  IF ~hunk THEN (IF last THEN Head(inbox).version ELSE Half)
  ELSE IF data[Head(inbox).file] = Half THEN (IF last THEN Head(inbox).version ELSE Half) ELSE Broken
AppendFailed == IF ~hunk THEN Absent ELSE Broken

\* mobilebackup_send_backup_file_received: nobody looks whether it was sent
Acknowledge == dev' = IF conn = "open" THEN "idle" ELSE dev

ReceiveHunk ==
  /\ Message("hunk") /\ hunk' = TRUE /\ pc' = "out"
  /\ LET f == Head(inbox).file IN
     Write(data' = [data EXCEPT ![f] = Appended(FALSE)], data' = [data EXCEPT ![f] = AppendFailed])
  /\ UNCHANGED <<cmd, quit, conn, lockVars, run, stale, info, manifest, stat, infoplist, device, full, left, ok, outcome>>

ReceiveLastHunk ==
  /\ Message("last") /\ hunk' = FALSE /\ pc' = "out" /\ Acknowledge
  /\ LET f == Head(inbox).file IN
     /\ Write(data' = [data EXCEPT ![f] = Appended(TRUE)] /\ info' = info \union {f},
              \/ data' = [data EXCEPT ![f] = AppendFailed] /\ info' = info \union {f}
              \/ data' = [data EXCEPT ![f] = Appended(TRUE)] /\ info' = info \ {f})
     /\ acked' = IF conn = "open" THEN acked \union {f} ELSE acked
  /\ UNCHANGED <<cmd, quit, conn, lockVars, run, stale, manifest, stat, infoplist, phone, base, restored, apps, full,
                 left, ok, outcome>>

\* the manifest of what has been sent so far is a file of its own until it is complete
ReceiveManifest ==
  /\ Message("manifest") /\ pc' = "out" /\ Acknowledge /\ stale' = (stale /\ ~full)
  /\ Write(manifest' = Head(inbox).list, manifest' = NoManifest)
  /\ UNCHANGED <<cmd, quit, conn, lockVars, run, data, info, stat, infoplist, phone, base, acked, restored, apps,
                 full, hunk, left, ok, outcome>>

\* nothing has come: again in two seconds, as long as nobody says quit
ReceiveNothing ==
  /\ pc = "loop" /\ inbox = <<>> /\ quit /\ pc' = "out"
  /\ UNCHANGED <<frame, disk, device, full, hunk, inbox, left, ok, outcome>>

\* mutant of FilesOut: quit_flag is not looked at
FilesOut_Blind ==
  /\ pc = "out" /\ pc' = "loop"
  /\ UNCHANGED <<frame, disk, device, full, hunk, inbox, left, ok, outcome>>

\* files_out: mobilebackup_send_error ends the backup
FilesOut ==
  /\ pc = "out" /\ pc' = (IF quit THEN "report" ELSE "loop")
  /\ dev' = IF quit /\ conn = "open" THEN "over" ELSE dev
  /\ UNCHANGED <<frame, disk, phone, base, acked, restored, apps, full, hunk, inbox, left, ok, outcome>>

\* Anything but a file ends the loop.  Only BackupMessageBackupFinished, and that without a
\* quit in between, is a success.
ReceiveEnd ==
  /\ \/ /\ Heard("finished") /\ pc' = (IF quit THEN "report" ELSE "store")
        /\ inbox' = (IF quit THEN <<>> ELSE inbox)
     \/ Message("other") /\ pc' = "report"
  /\ UNCHANGED <<frame, disk, device, full, hunk, left, ok, outcome>>

\* mobilebackup_delete_backup_file_by_hash: the data first, and the info if that worked
Delete(fs) ==
  /\ data' = [f \in Files |-> IF f \in fs THEN Absent ELSE data[f]]
  /\ info' = info \ {f \in fs : data[f] # Absent}

\* BackupFilesToDeleteKey, then the manifest
StoreManifest ==
  /\ pc = "store" /\ pc' = "report" /\ ok' = TRUE /\ inbox' = <<>> /\ stale' = (stale /\ ~full)
  /\ Delete(Head(inbox).deleted)
  /\ Write(manifest' = Head(inbox).list, manifest' = NoManifest)
  /\ UNCHANGED <<cmd, quit, conn, lockVars, run, stat, infoplist, device, full, hunk, left, outcome>>

Report ==
  /\ pc = "report" /\ pc' = "unlock" /\ outcome' = (IF ok THEN "success" ELSE "failed")
  /\ IF ok THEN WriteStatus(1) ELSE UNCHANGED <<stat, local>>
  /\ full' = FALSE /\ hunk' = FALSE /\ inbox' = <<>> /\ base' = Empty /\ acked' = {}
  /\ UNCHANGED <<cmd, quit, conn, lockVars, run, stale, data, info, manifest, infoplist, phone, dev, restored, apps, left, ok>>

-----------------------------------------------------------------------------
(* restore *)

\* mobilebackup_check_file_integrity: a DataHash that is empty is not compared
Intact(f) == /\ data[f] # Absent /\ f \in info
             /\ f \in Hashed => data[f] = manifest[f]

\* Status.plist must say that the backup was a success, and every file of the manifest
\* must be there; a manifest without files does not pass
Verify ==
  /\ pc = "request" /\ cmd = "restore"
  /\ IF stat = 1 /\ Listed(manifest) # {} /\ \A f \in Listed(manifest) : Intact(f)
     THEN pc' = "ask2" /\ left' = Listed(manifest) /\ UNCHANGED outcome
     ELSE pc' = "unlock" /\ outcome' = "failed" /\ UNCHANGED left
  /\ UNCHANGED <<frame, disk, device, full, hunk, inbox, ok>>

\* mobilebackup_request_restore
RequestRestore ==
  /\ pc = "ask2"
  /\ \/ /\ conn = "open" /\ pc' = "files" /\ dev' = "restore" /\ restored' = Empty /\ apps' = 0 /\ UNCHANGED outcome
     \/ pc' = "unlock" /\ outcome' = "failed" /\ UNCHANGED <<dev, restored, apps>>
  /\ UNCHANGED <<frame, disk, phone, base, acked, full, hunk, inbox, left, ok>>

\* mutant of RestoreFile: restore_ok stays as it is when a file is not acknowledged
RestoreFile_KeepsOk ==
  /\ pc = "files"
  /\ IF left = {} THEN pc' = "apps" /\ UNCHANGED <<left, restored, ok>>
     ELSE \E f \in left :
          \/ /\ conn = "open" /\ restored' = [restored EXCEPT ![f] = data[f]]
             /\ left' = left \ {f} /\ ok' = TRUE /\ UNCHANGED pc
          \/ pc' = "apps" /\ UNCHANGED <<left, restored, ok>>
  /\ UNCHANGED <<frame, disk, phone, base, acked, dev, apps, full, hunk, inbox, outcome>>

\* A file is sent in hunks and acknowledged as a whole.  One that cannot be opened any
\* more ends the loop with restore_ok as the file before left it.
RestoreFile ==
  /\ pc = "files"
  /\ IF left = {} THEN pc' = "apps" /\ UNCHANGED <<left, restored, ok>>
     ELSE \E f \in left :
          \/ data[f] = Absent /\ pc' = "apps" /\ UNCHANGED <<left, restored, ok>>
          \/ /\ data[f] # Absent /\ conn = "open"
             /\ restored' = [restored EXCEPT ![f] = data[f]]
             /\ left' = left \ {f} /\ ok' = TRUE /\ UNCHANGED pc
          \/ data[f] # Absent /\ ok' = FALSE /\ pc' = "apps" /\ UNCHANGED <<left, restored>>
  /\ UNCHANGED <<frame, disk, phone, base, acked, dev, apps, full, hunk, inbox, outcome>>

RestoreApps ==
  /\ pc = "apps"
  /\ IF ~ok \/ apps = Apps THEN pc' = "complete" /\ UNCHANGED <<apps, ok>>
     ELSE \/ conn = "open" /\ apps' = apps + 1 /\ UNCHANGED <<pc, ok>>
          \/ ok' = FALSE /\ UNCHANGED <<pc, apps>>
  /\ UNCHANGED <<frame, disk, phone, base, acked, dev, restored, full, hunk, inbox, left, outcome>>

\* mobilebackup_send_restore_complete; whether it arrived makes no difference
Complete ==
  /\ pc = "complete" /\ pc' = "unlock" /\ outcome' = (IF ok THEN "success" ELSE "failed")
  /\ dev' = IF ok /\ conn = "open" THEN "over" ELSE dev
  /\ UNCHANGED <<frame, disk, phone, base, acked, restored, apps, full, hunk, inbox, left, ok>>

-----------------------------------------------------------------------------
(* the end *)

Finish ==
  /\ Unlock(TRUE)
  /\ UNCHANGED <<run, local, stale, disk, device, full, hunk, inbox, left, ok, outcome>>

Free ==
  /\ pc = "free" /\ pc' = "done" /\ dev' = "over" /\ inbox' = <<>>
  /\ UNCHANGED <<frame, disk, phone, base, acked, restored, apps, full, hunk, left, ok, outcome>>

\* the program ends between two steps: whatever it had is gone but for the files
Crash ==
  /\ pc \notin {"args", "connect", "free", "done"} /\ pc' = "done" /\ conn' = "lost" /\ Dropped
  /\ lockfile' = FALSE /\ dev' = "over" /\ inbox' = <<>>
  /\ UNCHANGED <<cmd, quit, tries, posted, run, local, stale, disk, phone, base, acked, restored, apps, full, hunk,
                 left, ok, outcome>>

\* the next run: until then files of the phone have changed, gone, or come
Again ==
  /\ pc = "done" /\ run < MaxRuns /\ run' = run + 1
  /\ phone' \in [Files -> {Gone, run + 1} \union {phone[f] : f \in Files}]
  /\ \A f \in Files : phone'[f] \in {phone[f], Gone, run + 1}
  /\ pc' = "args" /\ cmd' \in {"backup", "restore"} /\ quit' = FALSE /\ conn' = "open"
  /\ lockfile' = FALSE /\ tries' = 0 /\ posted' = {} /\ holder' = "none"
  /\ full' = FALSE /\ hunk' = FALSE /\ inbox' = <<>> /\ base' = Empty /\ acked' = {} /\ dev' = "over"
  /\ left' = {} /\ restored' = Empty /\ apps' = 0 /\ ok' = FALSE /\ outcome' = "none"
  /\ UNCHANGED <<disk, local, stale>>

-----------------------------------------------------------------------------
(* the phone *)

Put(items, d) == inbox' = inbox \o items /\ dev' = d
FileHunk(kind, f) == [kind |-> kind, file |-> f, version |-> phone[f]]

\* it sends the files that are not as the manifest has them, in one hunk or in several,
\* and now and then the manifest of what it has sent
SendsNext ==
  /\ conn = "open" /\ dev = "idle" /\ pc = "loop"
  /\ \/ \E f \in {g \in Listed(phone) \ acked : phone[g] # base[g]} :
          \E many \in BOOLEAN :
            Put((IF many THEN <<FileHunk("hunk", f)>> ELSE <<>>) \o <<FileHunk("last", f)>>, "ack")
     \/ /\ acked # {}
        /\ Put(<<[kind |-> "manifest", list |-> [g \in Files |-> IF g \in acked THEN phone[g] ELSE base[g]]]>>, "ack")
     \/ /\ \A f \in Listed(phone) : phone[f] = base[f] \/ f \in acked
        /\ Put(<<[kind |-> "finished", list |-> phone, deleted |-> Listed(base) \ Listed(phone)]>>, "over")
     \/ Put(<<[kind |-> "other"]>>, "over")
  /\ UNCHANGED <<pc, frame, disk, phone, base, acked, restored, apps, full, hunk, left, ok, outcome>>

DeviceLost ==
  /\ conn = "open" /\ pc \in {"open", "lock", "ask", "loop", "ask2", "files", "apps", "complete", "unlock"}
  /\ conn' = "lost" /\ Dropped
  /\ \E k \in 0..Len(inbox) : inbox' = SubSeq(inbox, 1, k)
  /\ UNCHANGED <<pc, cmd, quit, lockfile, tries, posted, run, local, stale, disk, device, full, hunk, left, ok, outcome>>

\* another program takes a file away while they are sent
LocalChange ==
  /\ pc = "files" /\ ~local /\ local' = TRUE
  /\ \E f \in left : data' = [data EXCEPT ![f] = Absent]
  /\ UNCHANGED <<pc, cmd, quit, conn, lockVars, run, stale, info, manifest, stat, infoplist, device, full, hunk, inbox,
                 left, ok, outcome>>

World ==
  /\ OtherLock \/ (pc \notin {"args", "connect", "unlock", "free"} /\ Quit)
  /\ UNCHANGED <<run, local, stale, disk, device, full, hunk, inbox, left, ok, outcome>>

Tool ==
  \/ Args \/ Connect \/ CheckInfo \/ Lock \/ Leave
  \/ ReadManifest \/ StatusFailed \/ RequestBackup
  \/ ReceiveHunk \/ ReceiveLastHunk \/ ReceiveManifest \/ ReceiveNothing \/ FilesOut \/ ReceiveEnd
  \/ StoreManifest \/ Report
  \/ Verify \/ RequestRestore \/ RestoreFile \/ RestoreApps \/ Complete
  \/ Finish \/ Free

Next == Tool \/ Crash \/ Again \/ SendsNext \/ DeviceLost \/ LocalChange \/ World

\* one thread; every receive and every attempt at the lock ends in time
Spec == Init /\ [][Next]_vars /\ WF_vars(Tool)

-----------------------------------------------------------------------------
(* Properties *)

\* The variables have their types (main of idevicebackup.c).
TypeOK ==
  /\ LockTypeOK /\ cmd \in {"backup", "restore", "leave"}
  /\ pc \in {"args", "connect", "info", "open", "lock", "request", "status0", "ask", "loop", "out", "store",
             "report", "ask2", "files", "apps", "complete", "unlock", "free", "done"}
  /\ phone \in [Files -> 0..MaxRuns] /\ \A f \in Files : data[f] \in -2..MaxRuns
  /\ info \subseteq Files /\ (manifest = NoManifest \/ manifest \in [Files -> 0..MaxRuns])
  /\ stat \in {Absent, 0, 1} /\ infoplist \in {"none", "mine", "other", "broken"}
  /\ dev \in {"idle", "ack", "restore", "over"} /\ apps \in 0..Apps /\ run \in 1..MaxRuns
  /\ outcome \in {"none", "success", "failed"} /\ left \subseteq Files /\ Len(inbox) <= 2

\* every file the manifest lists is there, as it says
Whole == /\ manifest # NoManifest
         /\ \A f \in Listed(manifest) : data[f] = manifest[f] /\ f \in info

\* Status.plist says how the backup turned out: success only of a directory that holds what
\* its manifest lists (the comments at idevicebackup.c:1186 and 1202).
StatusSays == (stat = 1 /\ ~local) => Whole

\* Status.plist says success only of a directory that holds what its manifest lists,
\* whenever the run that wrote it or any later one was cut short: it says failed before
\* anything else changes, and success after everything else (mobilebackup_write_status).
\* The exception is a full backup over an older one that was cut short, and after it a
\* backup that goes on from the older manifest (idevicebackup.c:836 and 907).
StatusTrue == ~stale => StatusSays

\* A restore is a success only when the phone has acknowledged every file of the manifest
\* and every application, and even of a damaged directory it gets nothing that differs
\* from the manifest, but for files without a hash (mobilebackup_check_file_integrity).
RestoreTrue ==
  /\ (cmd = "restore" /\ outcome = "success" /\ ~local /\ ~stale)
       => apps = Apps /\ \A f \in Listed(manifest) : restored[f] = manifest[f]
  /\ \A f \in Hashed : restored[f] # Gone => restored[f] = manifest[f]

\* The files of the backup are written under the lock of the tool, as long as it could open
\* the lock file and the phone is there; no path leaves the lock behind.
LockCovers ==
  /\ (lockfile /\ conn = "open" /\ pc \in {"loop", "out", "store", "report"}) => holder = "tool"
  /\ pc = "done" => ~lockfile /\ holder # "tool"

\* A backup that is told to quit comes to its end, even while the phone says nothing or
\* has gone; so does a restore, which does not look.
QuitEnds == quit ~> pc = "done"
===============================================================================
