------------------------------- MODULE DebugServer -------------------------------
(***************************************************************************)
(* src/debugserver.c under tools/idevicedebug.c: commands and responses in *)
(* packets with a checksum, each of which is acknowledged unless the       *)
(* no-ack mode is on, and a tool that starts a program on the device,      *)
(* waits for its end and reports how it ended.  A packet is "$data#xx";    *)
(* what the device sends is chosen when it is read, but for the responses, *)
(* which come in the order of their commands.                              *)
(***************************************************************************)
EXTENDS Naturals, Sequences

CONSTANTS Commands  \* of the tool: "run", "kill", "detach"

\* what main sends, in order; "loop" is the run loop
Setup == <<"QSetMaxPacketSize:", "QSetWorkingDir:", "QEnvironmentHexEncoded:", "A", "qLaunchSuccess">>
Script(cmd) ==
  IF cmd = "kill" THEN Setup \o <<"k", "cleanup">>
  ELSE IF cmd = "detach" THEN Setup \o <<"D", "cleanup">>
  ELSE Setup \o <<"Hc0", "c", "loop", "interrupt", "kill", "end">>

\* the status of a program: 0, below 128, or from 128 on, and 134 for one that has stopped
Exits == {"zero", "low", "high"}

VARIABLES
  cmd, pc,   \* the command, and the place in its script
  noack,     \* client->noack_mode
  quit,      \* quit_flag
  lost,      \* the connection is lost
  sent,      \* commands sent
  wire,      \* numbers of the commands whose responses have not been read
  skew,      \* the stream from the device begins inside of a packet
  response,  \* "none", "OK", "other", "O" for output, "T", or "W" with a status
  dres,      \* the last result: "ok" or "error"
  res,       \* what main returns: "fail", or a status
  program,   \* on the device: "none", "running", "stopped" or its status
  wrong,     \* history: a response was damaged, or could not be waited for
  took       \* history: the number of the command whose response was read last

vars == <<cmd, pc, noack, quit, lost, sent, wire, skew, response, dres, res, program, wrong, took>>

Init ==
  /\ cmd \in Commands /\ pc = 1 /\ noack \in BOOLEAN
  /\ quit = FALSE /\ lost = FALSE
  /\ sent = 0 /\ wire = <<>> /\ skew = FALSE
  /\ response = "none" /\ dres = "ok" /\ res = "fail"
  /\ program = "none" /\ wrong = FALSE /\ took = 0

Step == Script(cmd)[pc]
Running == pc <= Len(Script(cmd))
Cleanup == pc' = Len(Script(cmd)) + 1
GoOn == pc' = pc + 1

-----------------------------------------------------------------------------
(* debugserver_client_receive_response *)

\* a response to a command, and what it says
Response(w) ==
  /\ w # <<>> /\ wire' = Tail(w) /\ took' = Head(w)
  /\ response' \in {"OK", "other"} /\ dres' = "ok"
  /\ UNCHANGED <<program, skew, wrong>>

\* what a running program causes: output, or the packet that says how it ended
Event(w) ==
  /\ program = "running" /\ wire' = w
  /\ \/ response' = "O" /\ UNCHANGED program
     \/ response' = "T" /\ program' = "stopped"
     \/ response' \in Exits /\ program' = response'
  /\ dres' = "ok"
  /\ UNCHANGED <<took, skew, wrong>>

\* a wrong checksum, looked at in ack mode only: "-" makes the device send the packet again,
\* behind what it has sent by now, and nobody waits for it
Damaged(w) ==
  /\ ~noack /\ w # <<>>
  /\ wire' = Append(Tail(w), Head(w))
  /\ response' = "none" /\ dres' = "error" /\ wrong' = TRUE
  /\ UNCHANGED <<took, program, skew>>

\* the call ends before or inside of a packet: a timeout that nobody wants to wait beyond,
\* or a lost connection
Nothing(w, may) ==
  /\ may \/ lost
  /\ wire' = w /\ skew' \in {skew, w # <<>>}
  /\ response' = "none" /\ dres' = "error" /\ wrong' = TRUE
  /\ UNCHANGED <<took, program>>

\* a first character that begins nothing is read, and the call succeeds without a response
NoPacket(w) ==
  /\ skew /\ skew' \in BOOLEAN
  /\ wire' = IF skew' \/ w = <<>> THEN w ELSE Tail(w)
  /\ response' = "none" /\ dres' = "ok"
  /\ UNCHANGED <<took, program, wrong>>

ReceiveResponse(w, may) ==
  \/ ~lost /\ ~skew /\ (Response(w) \/ Event(w) \/ Damaged(w))
  \/ ~lost /\ NoPacket(w)
  \/ Nothing(w, may)

\* mutant: nobody wants the response, so nobody receives it
SendCommand_Forgets(wanted, may) ==
  /\ sent' = sent + 1
  /\ IF wanted THEN ReceiveResponse(Append(wire, sent'), may)
     ELSE /\ wire' = Append(wire, sent') /\ dres' = "ok"
          /\ UNCHANGED <<response, took, skew, program, wrong>>

\* debugserver_client_send_command: a command that could not be sent has no response
SendCommand(wanted, may) ==
  \/ /\ ~lost /\ sent' = sent + 1
     /\ ReceiveResponse(Append(wire, sent'), may)
  \/ /\ lost /\ dres' = "error"
     /\ UNCHANGED <<sent, wire, response, took, skew, program, wrong>>

-----------------------------------------------------------------------------
(* main of idevicedebug *)

\* a command of the setup: only a response other than OK ends the tool, and what env and
\* argv are answered is not looked at
Command ==
  /\ Running /\ Step \notin {"c", "loop", "interrupt", "kill", "end", "cleanup", "D", "k"}
  /\ LET wanted == Step \notin {"QEnvironmentHexEncoded:", "A"} IN
       /\ SendCommand(wanted, quit)
       /\ IF wanted /\ response' \notin {"none", "OK"} THEN Cleanup ELSE GoOn
  /\ UNCHANGED <<cmd, noack, quit, lost, res>>

\* detach reports whether the command went through, kill reports nothing
Last ==
  /\ Running /\ Step \in {"D", "k"}
  /\ SendCommand(TRUE, quit)
  /\ res' = IF Step = "D" /\ dres' = "ok" THEN "zero" ELSE res
  /\ GoOn
  /\ UNCHANGED <<cmd, noack, quit, lost>>

\* "c" is answered when the program does something
Continue ==
  /\ Running /\ Step = "c"
  /\ \/ lost /\ dres' = "error" /\ UNCHANGED program
     \/ ~lost /\ dres' = "ok" /\ program' = "running"
  /\ response' = "none"
  /\ GoOn
  /\ UNCHANGED <<cmd, noack, quit, lost, sent, wire, skew, res, wrong, took>>

\* mutant: a program that was stopped is one that has ended
Status_Stopped(r) == IF r \in {"zero", "low"} THEN r ELSE IF r = "T" THEN "zero" ELSE res

\* debugserver_client_handle_response: a status from 128 on is negative as a char, and
\* counts as none
Status(r) == IF r \in {"zero", "low"} THEN r ELSE IF r = "T" THEN "134" ELSE res

\* an iteration of the run loop: the response is handled, and the next one received
RunLoop ==
  /\ Running /\ Step = "loop" /\ ~quit /\ dres = "ok"
  /\ res' = Status(response)
  /\ IF response = "T" THEN GoOn /\ dres' = "error" /\ response' = "none"
                            /\ UNCHANGED <<wire, took, skew, program, wrong>>
     ELSE IF res' # "fail" THEN Cleanup /\ UNCHANGED <<dres, response, wire, took, skew, program, wrong>>
     ELSE ReceiveResponse(wire, quit) /\ UNCHANGED pc
  /\ UNCHANGED <<cmd, noack, quit, lost, sent>>

\* mutant: the loop ends only with an error
LeaveLoop_Deaf ==
  /\ Running /\ Step = "loop" /\ dres = "error"
  /\ GoOn
  /\ UNCHANGED <<cmd, noack, quit, lost, sent, wire, skew, response, dres, res, program, wrong, took>>

LeaveLoop ==
  /\ Running /\ Step = "loop" /\ (quit \/ dres = "error")
  /\ GoOn
  /\ UNCHANGED <<cmd, noack, quit, lost, sent, wire, skew, response, dres, res, program, wrong, took>>

\* an interrupt and a kill, each of which waits no more than five seconds
EndProgram ==
  /\ Running /\ Step \in {"interrupt", "kill"}
  /\ SendCommand(TRUE, TRUE)
  /\ GoOn
  /\ UNCHANGED <<cmd, noack, quit, lost, res>>

End ==
  /\ Running /\ Step \in {"end", "cleanup"}
  /\ res' = IF Step = "end" /\ res = "fail" /\ dres = "ok" THEN "killed" ELSE res
  /\ GoOn
  /\ UNCHANGED <<cmd, noack, quit, lost, sent, wire, skew, response, dres, program, wrong, took>>

Tool == Command \/ Last \/ Continue \/ RunLoop \/ LeaveLoop \/ EndProgram \/ End

\* a signal, and the loss of the connection
Quit ==
  /\ Running /\ ~quit /\ quit' = TRUE
  /\ UNCHANGED <<cmd, pc, noack, lost, sent, wire, skew, response, dres, res, program, wrong, took>>
Lose ==
  /\ Running /\ ~lost /\ lost' = TRUE
  /\ UNCHANGED <<cmd, pc, noack, quit, sent, wire, skew, response, dres, res, program, wrong, took>>

Next == Tool \/ Quit \/ Lose

-----------------------------------------------------------------------------
(* Properties *)

TypeOK ==
  /\ cmd \in Commands /\ noack \in BOOLEAN /\ dres \in {"ok", "error"}
  /\ response \in {"none", "OK", "other", "O", "T"} \union Exits
  /\ res \in {"fail", "134", "killed", "zero", "low"}
  /\ program \in {"none", "running", "stopped"} \union Exits

\* Until something goes wrong each command takes the response to itself, also the commands
\* whose response nobody looks at (debugserver_client_send_command, line 537); afterwards
\* the responses stay one behind, because nothing but their order says whose they are.  What
\* a program prints when it is interrupted is taken for the response too.
OwnResponse == ~wrong /\ ~skew /\ program = "none" => took = sent /\ wire = <<>>

\* Where the tool reports a status it is that of the program it ran (line 555), unless the
\* status is 128 or more: the tool goes on waiting then, and what it returns in the end says
\* only whether the device took the last command.
ExitTrue ==
  res \in {"zero", "low", "134"} /\ cmd = "run" =>
    program = IF res = "134" THEN "stopped" ELSE res
================================================================================
