------------------------------ MODULE CrashReports ------------------------------
(***************************************************************************)
(* tools/idevicecrashreport.c: the reports of a device are copied through  *)
(* AFC, directory by directory, and each is removed from the device when   *)
(* it has been copied.  The recursion is a stack of frames.  Names on the  *)
(* host lose a last ".synced", so that two reports may get the same one.   *)
(***************************************************************************)
EXTENDS Naturals, Sequences, FiniteSets, Functions

CONSTANTS
  Reports,   \* regular files on the device
  Links,     \* symbolic links there
  Dirs,      \* directories, the first of which is "."
  In,        \* function: what a directory holds at first
  Target,    \* function: the name of an entry on the host
  RawName,   \* function on the reports that are property lists: the name of their '.crash' file there
  Size       \* blocks of a report

VARIABLES
  pc,
  keep, all, extract, \* keep_crash_reports, remove_all, extract_raw_crash_reports
  wanted,    \* the reports that the filter matches
  frames,    \* the calls of afc_client_copy_and_remove_crash_reports: directory, rest of list, res, count
  file,      \* the report that is copied
  read,      \* bytes_total
  device,    \* entries on the device
  host,      \* name -> what is there: the entry it comes from and its blocks
  copied,    \* history: the reports removed after a copy
  short,     \* history: entries that the host's disk did not take as a whole
  late,      \* history: reports whose name on the host was used again
  ret        \* what main returns: "ok", "fail" or "none"

opts == <<keep, all, extract, wanted>>
vars == <<pc, opts, frames, file, read, device, host, copied, short, late, ret>>

Nowhere == [of |-> "nothing", blocks |-> 0]
Entries == Reports \union Links \union Dirs
HostNames == {Target[e] : e \in Reports \union Links} \union {RawName[r] : r \in DOMAIN RawName}
Copy(e) == [of |-> e, blocks |-> Size]

Init ==
  /\ pc = "start" /\ keep \in BOOLEAN /\ all \in BOOLEAN /\ extract \in BOOLEAN /\ wanted \in SUBSET Reports
  /\ frames = <<>> /\ file = "none" /\ read = 0
  /\ device = Entries /\ host = [n \in HostNames |-> Nowhere]
  /\ copied = {} /\ short = {} /\ late = {} /\ ret = "none"

Top == frames[Len(frames)]
SetTop(f) == frames' = [frames EXCEPT ![Len(frames)] = f]
Inside(d) == In[d] \intersect device

-----------------------------------------------------------------------------
\* main up to the copy: a mover that does not say "ping" ten times is not missed
Start ==
  /\ pc = "start"
  /\ \/ pc' = "done" /\ ret' = "fail" /\ UNCHANGED file
     \/ pc' = "list" /\ file' = "." /\ UNCHANGED ret
  /\ UNCHANGED <<opts, frames, read, device, host, copied, short, late>>

\* a directory is read, or cannot be
List ==
  /\ pc = "list"
  /\ \/ /\ \E order \in Bijection(1..Cardinality(Inside(file)), Inside(file)) :
             frames' = Append(frames, [dir |-> file, list |-> order, res |-> "fail", count |-> 0])
        /\ pc' = "next" /\ UNCHANGED ret
     \/ frames = <<>> /\ pc' = "done" /\ ret' = "fail" /\ UNCHANGED frames
     \/ frames # <<>> /\ SetTop([Top EXCEPT !.res = "fail"]) /\ pc' = "rmdir" /\ UNCHANGED ret
  /\ UNCHANGED <<opts, file, read, device, host, copied, short, late>>

\* the call ends: its result becomes that of the entry of the caller
Return ==
  /\ pc = "next" /\ Top.list = <<>>
  /\ LET res == IF Top.count = 0 THEN "ok" ELSE Top.res IN
       IF Len(frames) = 1
       THEN pc' = "done" /\ ret' = res /\ frames' = <<>>
       ELSE /\ pc' = "rmdir" /\ UNCHANGED ret
            /\ frames' = [i \in 1..(Len(frames) - 1) |->
                            IF i = Len(frames) - 1 THEN [frames[i] EXCEPT !.res = res] ELSE frames[i]]
  /\ file' = Top.dir
  /\ UNCHANGED <<opts, read, device, host, copied, short, late>>

\* the device removes a directory only if nothing is left in it
RemoveDir ==
  /\ pc = "rmdir" /\ pc' = "next"
  /\ device' \in (IF ~all /\ ~keep /\ Inside(file) = {} THEN {device, device \ {file}} ELSE {device})
  /\ UNCHANGED <<opts, frames, file, read, host, copied, short, late, ret>>

\* takes the next entry, whose information the device gives or does not
Entry(e) == pc = "next" /\ Top.list # <<>> /\ e = Head(Top.list)

Skip(e) ==
  /\ Entry(e) /\ SetTop([Top EXCEPT !.list = Tail(@)])
  /\ UNCHANGED <<pc, opts, file, read, device, host, copied, short, late, ret>>

SubDir(e) ==
  /\ Entry(e) /\ e \in Dirs
  /\ SetTop([Top EXCEPT !.list = Tail(@)])
  /\ pc' = "list" /\ file' = e
  /\ UNCHANGED <<opts, read, device, host, copied, short, late, ret>>

\* a name that was used for another entry before
Reused(e) == {r \in copied : Target[r] = Target[e]}

\* a link is made on the host, or not, and is gone from the device
Link(e) ==
  /\ Entry(e) /\ e \in Links /\ ~all
  /\ SetTop([Top EXCEPT !.list = Tail(@), !.res = "ok"])
  /\ \/ host' = [host EXCEPT ![Target[e]] = Copy(e)] /\ UNCHANGED short
     \/ host' = [host EXCEPT ![Target[e]] = Nowhere] /\ short' = short \union {e}
  /\ late' = late \union Reused(e)
  /\ device' \in (IF keep THEN {device} ELSE {device, device \ {e}})
  /\ copied' = copied \union (device \ device')
  /\ UNCHANGED <<pc, opts, file, read, ret>>

\* --remove-all copies nothing
RemoveAll(e) ==
  /\ Entry(e) /\ e \in wanted /\ all
  /\ SetTop([Top EXCEPT !.list = Tail(@)])
  /\ device' \in {device, device \ {e}}
  /\ UNCHANGED <<pc, opts, file, read, host, copied, short, late, ret>>

\* what cannot be opened on either side is left alone
Open(e) ==
  /\ Entry(e) /\ e \in wanted /\ ~all
  /\ SetTop([Top EXCEPT !.list = Tail(@)])
  /\ pc' = "read" /\ file' = e /\ read' = 0
  /\ host' = [host EXCEPT ![Target[e]] = [of |-> e, blocks |-> 0]]
  /\ late' = late \union Reused(e)
  /\ UNCHANGED <<opts, device, copied, short, ret>>

\* fwrite may take less than it is given, and nobody looks
Read ==
  /\ pc = "read" /\ read < Size
  /\ read' = read + 1
  /\ \/ host' = [host EXCEPT ![Target[file]].blocks = @ + 1] /\ UNCHANGED short
     \/ short' = short \union {file} /\ UNCHANGED host
  /\ UNCHANGED <<pc, opts, frames, file, device, copied, late, ret>>

\* mutant: the size is not compared
Complete_Any == TRUE

Complete == read = Size

\* the end of the file, or an error: only a report of the expected size has been copied
EndOfFile ==
  /\ pc = "read"
  /\ pc' = IF Complete THEN "copied" ELSE "next"
  /\ UNCHANGED <<opts, frames, file, read, device, host, copied, short, late, ret>>

\* extract_raw_crash_report: the description in the report, if it has one, gets a file of its
\* own, in the place of any other of that name
Extracted ==
  /\ host' = [host EXCEPT ![RawName[file]] = Nowhere]
  /\ late' = late \union {r \in copied' : Target[r] = RawName[file]}

Copied ==
  /\ pc = "copied" /\ pc' = "next"
  /\ device' \in (IF keep THEN {device} ELSE {device, device \ {file}})
  /\ copied' = copied \union (device \ device')
  /\ SetTop([Top EXCEPT !.res = "ok", !.count = 1])
  /\ \/ extract /\ file \in DOMAIN RawName /\ Extracted
     \/ UNCHANGED <<host, late>>
  /\ UNCHANGED <<opts, file, read, short, ret>>

Next ==
  \/ Start \/ List \/ Return \/ RemoveDir \/ Read \/ EndOfFile \/ Copied
  \/ \E e \in Entries : Skip(e) \/ SubDir(e) \/ Link(e) \/ RemoveAll(e) \/ Open(e)

-----------------------------------------------------------------------------
(* Properties *)

TypeOK ==
  /\ pc \in {"start", "list", "next", "rmdir", "read", "copied", "done"}
  /\ read \in 0..Size /\ device \subseteq Entries /\ file \in Entries \union {"none"}

\* No report is lost: what is gone from the device is on the host as a whole, unless it was to
\* be removed without a copy, the host's disk did not take all of it (line 288 does not look
\* at what fwrite returns), or another report got its name (line 168 drops ".synced"), or the
\* '.crash' file of another one (line 83).
NothingGone ==
  /\ ~all => \A e \in (Reports \union Links) \ device :
               e \in copied /\ (e \in short \/ e \in late \/ host[Target[e]] = Copy(e))
  /\ keep /\ ~all => device = Entries
  /\ Reports \ device \subseteq wanted
  /\ \A d \in Dirs \ device : Inside(d) = {}
================================================================================
