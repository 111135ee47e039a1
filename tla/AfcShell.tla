-------------------------------- MODULE AfcShell --------------------------------
(***************************************************************************)
(* tools/afcclient.c: main waits for its device, and then takes commands   *)
(* until the user leaves, or a signal or the loss of the device ends the   *)
(* process.  get and put copy a file or a directory block by block between *)
(* the host and the device; cd walks through directories whose only name   *)
(* is "n".  The commands that are one request (ls, info, mv, mkdir, ln,    *)
(* rm) change nothing that the tool keeps.                                 *)
(***************************************************************************)
EXTENDS Naturals, Sequences, FiniteSets, Functions

CONSTANTS
  Items,       \* the files that a directory to be copied holds
  Blocks,      \* blocks of each of them
  Depth,       \* bound: how deep cd goes
  MaxCommands  \* bound: commands given

VARIABLES
  pc,
  connected,  \* the device is there
  curdir,     \* the directory as a sequence of names
  curlen,     \* curdir_len: how many names it had when it was measured
  where,      \* history: the directory that the user means
  astray,     \* history: cd has gone another way
  commands,   \* commands so far
  cmd,        \* the copy: its kind and options
  todo,       \* files still to copy
  item,       \* the file that is copied
  dst,        \* item -> blocks at the destination, "new" or "old"
  pos,        \* blocks of the item that were copied
  succeed,
  lost,       \* the connection is lost
  said,       \* an error message was printed for this copy
  silent,     \* history: files that were not opened, about which nothing is said
  unflushed,  \* history: files of which fclose did not write the end
  longer      \* history: files that were longer before

copyVars == <<cmd, todo, item, dst, pos, succeed, said, silent, unflushed, longer>>
dirVars == <<curdir, curlen, where, astray>>
vars == <<pc, connected, dirVars, commands, copyVars, lost>>

NoCopy == [kind |-> "none", recursive |-> FALSE, force |-> FALSE, dir |-> FALSE]
Whole == [b \in 1..Blocks |-> "new"]

\* the memory of a copy, when there is none
Forget ==
  /\ cmd' = NoCopy /\ todo' = <<>> /\ item' = "none" /\ dst' = [i \in Items |-> <<>>]
  /\ pos' = 0 /\ succeed' = TRUE /\ said' = FALSE /\ silent' = {} /\ unflushed' = {} /\ longer' = {}

Init ==
  /\ pc = "wait" /\ connected = FALSE
  /\ curdir = <<>> /\ curlen = 0 /\ where = <<>> /\ astray = FALSE
  /\ commands = 0 /\ lost = FALSE
  /\ cmd = NoCopy /\ todo = <<>> /\ item = "none" /\ dst = [i \in Items |-> <<>>]
  /\ pos = 0 /\ succeed = TRUE /\ said = FALSE /\ silent = {} /\ unflushed = {} /\ longer = {}

-----------------------------------------------------------------------------
(* main and the event thread *)

Attached ==
  /\ ~connected /\ connected' = TRUE
  /\ UNCHANGED <<pc, dirVars, commands, copyVars, lost>>

\* a signal, or the device is gone: SIGINT is not handled
Killed ==
  /\ pc # "done" /\ pc' = "done" /\ connected' = FALSE
  /\ UNCHANGED <<dirVars, commands, copyVars, lost>>

Lose ==
  /\ ~lost /\ pc # "done" /\ lost' = TRUE
  /\ UNCHANGED <<pc, connected, dirVars, commands, copyVars>>

Connect ==
  /\ pc = "wait" /\ connected
  /\ pc' \in {"prompt", "done"}
  /\ UNCHANGED <<connected, dirVars, commands, copyVars, lost>>

\* process_args; anything but a copy and cd leaves the tool as it is
Command ==
  /\ pc = "prompt" /\ commands < MaxCommands
  /\ commands' = commands + 1

Leave ==
  /\ pc = "prompt" /\ pc' = "done"
  /\ UNCHANGED <<connected, dirVars, commands, copyVars, lost>>

-----------------------------------------------------------------------------
(* cd *)

Parent(dir) == SubSeq(dir, 1, Len(dir) - 1)

\* "..": the end of curdir is cut off, and its length is kept
Up ==
  /\ Command
  /\ curdir' = Parent(curdir)
  /\ where' = Parent(where)
  /\ UNCHANGED <<pc, connected, curlen, astray, copyVars, lost>>

\* get_realpath: curdir is taken with curdir_len bytes, so that nothing behind it counts when
\* it was cut off; and a ".." at the beginning stands for the whole of it
RealPath(path) ==
  IF Head(path) \in {"/", ".."} THEN Tail(path)
  ELSE IF Len(path) = 2 \/ Len(curdir) # curlen THEN curdir
  ELSE curdir \o path

\* where a user goes with that path
Meant(path) ==
  IF Head(path) = "/" THEN Tail(path)
  ELSE IF Head(path) = ".." THEN Parent(where) \o Tail(path)
  ELSE IF Len(path) = 2 THEN where
  ELSE where \o path

\* mutant: the new length is not taken
Down_KeepsLen(path) ==
  /\ curdir' = RealPath(path)
  /\ UNCHANGED curlen

Down(path) ==
  /\ curdir' = RealPath(path)
  /\ curlen' = Len(curdir')

\* a path that the device knows, or does not
Cd ==
  /\ Command
  /\ \/ \E path \in {<<"n">>, <<"n", "..">>, <<"..", "n">>, <<"/", "n">>} :
          /\ Len(where) < Depth
          /\ Down(path) /\ where' = Meant(path)
          /\ astray' = (astray \/ Head(path) = ".." \/ (Head(path) = "n" /\ Len(path) = 1 /\ Len(curdir) # curlen))
     \/ UNCHANGED <<curdir, curlen, where, astray>>
  /\ UNCHANGED <<pc, connected, copyVars, lost>>

-----------------------------------------------------------------------------
(* get and put *)

Old == {<<>>, <<"old">>, [b \in 1..(Blocks + 1) |-> "old"]}

\* the files of a directory in the order in which they are listed, or the one file
Tree(dir) == IF dir THEN Bijection(1..Cardinality(Items), Items) ELSE {<<i>> : i \in Items}

\* what is wrong with a directory on either side is said, and no file is copied
NoTree == todo' = <<>> /\ said' = TRUE /\ pc' = "end"

\* the options, and the paths that follow them
Asked(kind) ==
  /\ Command
  /\ cmd' \in [kind : {kind}, recursive : BOOLEAN, force : BOOLEAN, dir : BOOLEAN]
  /\ dst' \in [Items -> Old]
  /\ longer' = {i \in Items : Len(dst'[i]) > Blocks}
  /\ item' = "none" /\ pos' = 0 /\ succeed' = TRUE /\ silent' = {} /\ unflushed' = {}
  /\ UNCHANGED <<connected, dirVars, lost>>

\* get_file and put_file: a directory needs -r
TreeOf ==
  /\ cmd'.dir => cmd'.recursive
  /\ todo' \in Tree(cmd'.dir)
  /\ said' = FALSE /\ pc' = "next"

Get == Asked("get") /\ (TreeOf \/ NoTree)
Put == Asked("put") /\ (TreeOf \/ NoTree)

\* mutant: the destination is opened without cutting it off
Cut_Never(i) == UNCHANGED dst

\* fopen "wb" cuts the destination off, AFC_FOPEN_RW does not
Cut(i) == IF cmd.kind = "get" THEN dst' = [dst EXCEPT ![i] = <<>>] ELSE UNCHANGED dst

\* a destination that is there and not to be overwritten, or a file that cannot be opened;
\* only of one that the device does not open for writing nothing is said
Open ==
  /\ pc = "next" /\ todo # <<>>
  /\ item' = Head(todo) /\ todo' = Tail(todo) /\ pos' = 0
  /\ \/ /\ dst[item'] = <<>> \/ cmd.force
        /\ ~lost /\ pc' = "copy" /\ succeed' = TRUE
        /\ Cut(item')
        /\ UNCHANGED <<said, silent>>
     \/ pc' = "close" /\ succeed' = FALSE /\ said' = TRUE /\ UNCHANGED <<dst, silent>>
     \/ /\ cmd.kind = "put" /\ (dst[item'] = <<>> \/ cmd.force \/ lost)
        /\ pc' = "close" /\ succeed' = TRUE /\ silent' = silent \union {item'}
        /\ UNCHANGED <<said, dst>>
  /\ UNCHANGED <<connected, dirVars, commands, cmd, lost, unflushed, longer>>

Write(seq, b) == IF b > Len(seq) THEN Append(seq, "new") ELSE [seq EXCEPT ![b] = "new"]

\* a block is read from one side and written to the other
Block ==
  /\ pc = "copy" /\ pos < Blocks /\ ~lost
  /\ pos' = pos + 1
  /\ dst' = [dst EXCEPT ![item] = Write(@, pos + 1)]
  /\ UNCHANGED <<pc, connected, dirVars, commands, cmd, todo, item, succeed, said, lost, silent, unflushed, longer>>

\* a block that the host's disk does not take as it is written is left out, and get goes on
HostFull ==
  /\ pc = "copy" /\ cmd.kind = "get" /\ pos < Blocks /\ ~lost
  /\ pos' = pos + 1 /\ succeed' = FALSE /\ said' = TRUE
  /\ UNCHANGED <<pc, connected, dirVars, commands, cmd, todo, item, dst, lost, silent, unflushed, longer>>

\* of a get the end is still with stdio; when the host's disk does not take it, nobody looks
\* at what fclose returns
Fclose ==
  \/ UNCHANGED <<dst, unflushed>>
  \/ /\ cmd.kind = "get" /\ dst[item] # <<>>
     /\ dst' = [dst EXCEPT ![item] = SubSeq(@, 1, Len(@) - 1)]
     /\ unflushed' = unflushed \union {item}

\* any other error ends the copy of this file
Broken ==
  /\ pc = "copy" /\ pc' = "close"
  /\ succeed' = FALSE /\ said' = TRUE
  /\ Fclose
  /\ UNCHANGED <<connected, dirVars, commands, cmd, todo, item, pos, lost, silent, longer>>

\* afc_file_write takes a request that was not sent for a success
Vanished ==
  /\ pc = "copy" /\ cmd.kind = "put" /\ pos < Blocks /\ lost
  /\ pos' = pos + 1
  /\ UNCHANGED <<pc, connected, dirVars, commands, cmd, todo, item, dst, succeed, said, lost, silent, unflushed, longer>>

EndOfFile ==
  /\ pc = "copy" /\ pos = Blocks /\ pc' = "close"
  /\ Fclose
  /\ UNCHANGED <<connected, dirVars, commands, cmd, todo, item, pos, succeed, said, lost, silent, longer>>

\* the first file that fails is the last one
Close ==
  /\ \/ pc = "close" /\ pc' = IF succeed THEN "next" ELSE "end"
     \/ pc = "next" /\ todo = <<>> /\ pc' = "end"
  /\ UNCHANGED <<connected, dirVars, commands, copyVars, lost>>

End ==
  /\ pc = "end" /\ pc' = "prompt"
  /\ Forget
  /\ UNCHANGED <<connected, dirVars, commands, lost>>

Next ==
  \/ Attached \/ Killed \/ Lose \/ Connect \/ Leave \/ Up \/ Cd
  \/ Get \/ Put \/ Open \/ Block \/ HostFull \/ Broken \/ Vanished \/ EndOfFile \/ Close \/ End

-----------------------------------------------------------------------------
(* Properties *)

TypeOK ==
  /\ pc \in {"wait", "prompt", "next", "copy", "close", "end", "done"}
  /\ curlen \in 0..Depth /\ pos \in 0..Blocks /\ silent \subseteq Items /\ unflushed \subseteq Items

\* the blocks of the source are there, and behind them perhaps others
Begins(i) == \A b \in 1..Blocks : b <= Len(dst[i]) /\ dst[i][b] = "new"
\* all blocks but the last, which fclose has lost
EndLost(i) == i \in unflushed /\ dst[i] = [b \in 1..(Blocks - 1) |-> "new"]

\* A copy without an error message is complete: every file of it is at the destination as it
\* is at the source, unless the connection was lost in a put, the device did not open the
\* file (line 971 says nothing), a put overwrote a longer file, whose end is then behind the
\* copy (AFC_FOPEN_RW), or the host's disk did not take the end of a file that is got, which
\* is then all that is missing (line 772).
CopyTold ==
  pc = "end" /\ ~said /\ ~(lost /\ cmd.kind = "put") =>
    \A i \in Items : (cmd.dir \/ i = item) =>
      dst[i] = Whole \/ i \in silent \/ EndLost(i) \/ (cmd.kind = "put" /\ i \in longer /\ Begins(i))

\* The buffer that get_absolute_path makes from curdir_len has room for curdir (line 247), and
\* curdir is the directory the user means, unless cd by a name followed "..", or began with it.
DirKept == Len(curdir) <= curlen /\ (astray \/ curdir = where)
================================================================================
