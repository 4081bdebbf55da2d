------------------------------ MODULE SbxExec ------------------------------
(***************************************************************************)
(* sbx-exec (lib/sbx-exec.py): a command run inside a running sandbox, its *)
(* streams relayed between the client (run, pump), in front of the caller, *)
(* and a thread of the agent (Agent.handle, Session), which holds the      *)
(* command's pipes or pty.  The agent exits once it is idle.               *)
(*                                                                         *)
(* Streams are counted in chunks.  What one side has queued for the other, *)
(* in its own buffer, the socket and the other's, is one sequence; each    *)
(* step of the two poll loops (one ready file, handled to its end) is an   *)
(* action.  A pty differs from pipes in that its end of file is never      *)
(* passed on, and that one file is both the command's input and output.    *)
(***************************************************************************)
EXTENDS Naturals, Sequences, SequencesExt

CONSTANTS
  HIGH_WATER, PIPE,     \* chunks a side buffers, and a pipe holds
  MaxIn, MaxOut         \* bounds: chunks of input, and of each output

ASSUME ExecAssumption ==
  {HIGH_WATER, PIPE} \subseteq Nat \ {0} /\ {MaxIn, MaxOut} \subseteq Nat

VARIABLES
  xtty,     \* the caller's stdin and stdout are terminals
  xfolder,  \* what the sandbox has at the path of the caller's folder: "same",
            \*   "nothing", "holder" (an empty folder that only holds mounts of
            \*   the caller's), "mixed" (one that holds others), "own"
  xclient,  \* the launcher: "new", "grant", "probed"; its run: "asked", "pump",
            \*   "done"
  xstatus,  \* how it ended: "command" (with its status), "gone", "refused", ...
  xleft,    \* chunks the caller still has to give
  xreading, \* the client reads its stdin
  xsigs,    \* signals the client has got and the agent passed on: "none",
            \*   "sent", "passed"
  xup,      \* client to agent: "d" a chunk, "f" end of file, "s" a signal
  xdown,    \* agent to client: "ok", "error", "o", "e" chunks, "x" the exit
  xconn,    \* the agent's end of the connection is open
  xagent,   \* the agent runs
  xactive,  \* requests it counts                              (self.active)
  xpc,      \* its thread: "none", "accepted", "start", "relay", "hangup",
            \*   "send", "end"
  xtocmd, xeof,  \* chunks for the command's stdin, and its end (stdin_eof)
  xstdin,   \* the agent holds the command's stdin open        (self.stdin)
  xsources, \* the outputs it reads                            (self.sources)
  xin, xout,     \* chunks in the pipes
  xcmd,     \* the command: "none", "runs", "exited"
  xends,    \* its ends of the pipes: "i", "o", "e"
  xheld,    \* something it left behind has its outputs open, and may write
  xgot, xsaw,    \* what the command has read, and whether to the end (history)
  xwrote, xseen  \* what it has written, what the caller has of it (history)

Out == {"o", "e"}
Folder == {"same", "nothing", "holder", "mixed", "own"}
xcaller == <<xtty, xfolder>>
xclientSide == <<xclient, xstatus, xleft, xreading>>
xagentSide == <<xagent, xactive, xpc>>
xinput == <<xtocmd, xeof, xstdin, xin, xgot, xsaw>>
xoutput == <<xsources, xout, xwrote>>
xcommand == <<xcmd, xends, xheld>>
execVars == <<xcaller, xclientSide, xsigs, xup, xdown, xconn, xagentSide, xinput,
              xoutput, xcommand, xseen>>

ExecInit ==
  /\ xtty \in BOOLEAN /\ xfolder \in Folder
  /\ xclient = "new" /\ xstatus = "none" /\ xleft = MaxIn /\ xreading = TRUE
  /\ xsigs = "none" /\ xup = <<>> /\ xdown = <<>> /\ xconn = TRUE
  /\ xagent = TRUE /\ xactive = 0 /\ xpc = "none"
  /\ xtocmd = 0 /\ xeof = FALSE /\ xstdin = FALSE /\ xin = 0
  /\ xgot = 0 /\ xsaw = FALSE
  /\ xsources = {} /\ xout = [k \in Out |-> 0] /\ xwrote = [k \in Out |-> 0]
  /\ xcmd = "none" /\ xends = {} /\ xheld = FALSE
  /\ xseen = [k \in Out |-> 0]
-----------------------------------------------------------------------------
(***************************************************************************)
(* The client                                                              *)
(***************************************************************************)

\* dir_state, as the agent answers a probe.
DirState == CASE xfolder = "same" -> "same"
              [] xfolder = "nothing" -> "missing"
              [] xfolder \in {"holder", "mixed"} -> "placeholder"
              [] xfolder = "own" -> "other"

\* The launcher asks whether the sandbox is there and has the folder; if not,
\* it may be mounted where that covers nothing but the caller's own.
Probe ==
  /\ xclient = "new"
  /\ xclient' = IF ~xagent THEN "done"
                ELSE IF DirState = "same" THEN "probed"
                ELSE IF \/ DirState = "missing"
                        \/ DirState = "placeholder" /\ xfolder # "mixed"
                     THEN "grant" ELSE "done"
  /\ xstatus' = IF xclient' = "done" THEN "probe" ELSE xstatus
  /\ UNCHANGED <<xcaller, xleft, xreading, xsigs, xup, xdown, xconn, xagentSide, xinput,
                 xoutput, xcommand, xseen>>

\* The helper mounts it, or fails; the agent is asked again.
GrantFolder ==
  /\ xclient = "grant"
  /\ \/ xclient' = "probed" /\ xfolder' = "same" /\ xagent /\ UNCHANGED xstatus
     \/ xclient' = "done" /\ xstatus' = "probe" /\ xfolder' \in {xfolder, "same"}
  /\ UNCHANGED <<xtty, xleft, xreading, xsigs, xup, xdown, xconn, xagentSide, xinput,
                 xoutput, xcommand, xseen>>

\* The connection is made and the request sent; or nothing listens.
Ask ==
  /\ xclient \in {"new", "probed"}
  /\ IF xagent THEN /\ xclient' = "asked" /\ xpc' = "accepted"
                    /\ UNCHANGED xstatus
               ELSE xclient' = "done" /\ xstatus' = "gone" /\ UNCHANGED xpc
  /\ UNCHANGED <<xcaller, xleft, xreading, xsigs, xup, xdown, xconn, xagent, xactive,
                 xinput, xoutput, xcommand, xseen>>

\* What it has not sent goes with it; what it has not read is lost.
Ends(status) ==
  /\ xclient' = "done" /\ xstatus' = status
  /\ \E n \in 0 .. Len(xup) : xup' = SubSeq(xup, 1, n)
  /\ xdown' = <<>>
  /\ UNCHANGED <<xcaller, xleft, xreading, xsigs, xconn, xagentSide, xinput, xoutput,
                 xcommand, xseen>>

ReadReply ==
  /\ xclient = "asked" /\ xdown # <<>>
  /\ IF Head(xdown) = "error" THEN Ends("refused")
     ELSE /\ xclient' = "pump" /\ xdown' = Tail(xdown)
          /\ UNCHANGED <<xstatus, xcaller, xleft, xreading, xsigs, xup, xconn, xagentSide,
                         xinput, xoutput, xcommand, xseen>>

\* A chunk of stdin, or its end.
ReadStdin ==
  /\ xclient = "pump" /\ xreading /\ Len(xup) < HIGH_WATER
  /\ \/ /\ xleft > 0 /\ xleft' = xleft - 1 /\ xup' = Append(xup, "d")
        /\ UNCHANGED xreading
     \/ /\ xleft = 0 /\ xreading' = FALSE /\ xup' = Append(xup, "f")
        /\ UNCHANGED xleft
  /\ UNCHANGED <<xcaller, xclient, xstatus, xsigs, xdown, xconn, xagentSide, xinput,
                 xoutput, xcommand, xseen>>

GetSignal ==
  /\ xclient = "pump" /\ xsigs = "none"
  /\ xsigs' = "sent" /\ xup' = Append(xup, "s")
  /\ UNCHANGED <<xcaller, xclientSide, xdown, xconn, xagentSide, xinput, xoutput,
                 xcommand, xseen>>

\* A chunk is written out, however long that takes; the exit ends it.
Consume ==
  /\ xclient = "pump" /\ xdown # <<>>
  /\ IF Head(xdown) = "x" THEN Ends("command")
     ELSE /\ xseen' = [xseen EXCEPT ![Head(xdown)] = @ + 1]
          /\ xdown' = Tail(xdown)
          /\ UNCHANGED <<xcaller, xclientSide, xsigs, xup, xconn, xagentSide, xinput,
                         xoutput, xcommand>>

\* The caller's reader has gone, or the client is killed.
GoesAway == xclient \in {"asked", "pump"} /\ Ends("killed")

FindsGone == xclient \in {"asked", "pump"} /\ xdown = <<>> /\ ~xconn /\ Ends("gone")
-----------------------------------------------------------------------------
(***************************************************************************)
(* The agent                                                               *)
(***************************************************************************)
Count ==
  /\ xpc = "accepted" /\ xpc' = "start" /\ xactive' = xactive + 1
  /\ UNCHANGED <<xcaller, xclientSide, xsigs, xup, xdown, xconn, xagent, xinput,
                 xoutput, xcommand, xseen>>

CloseAll == /\ xstdin' = FALSE /\ xsources' = {}
            /\ UNCHANGED <<xtocmd, xeof, xin, xgot, xsaw, xout, xwrote>>

RefuseRun == /\ xdown' = Append(xdown, "error") /\ xpc' = "end"
          /\ UNCHANGED <<xinput, xoutput, xcommand>>

\* Session(): only in the caller's own folder.  Stderr may be the pty too.
StartCommand ==
  /\ DirState = "same"
  /\ xcmd' = "runs" /\ xends' = {"i", "o", "e"} /\ xheld' = FALSE
  /\ xstdin' = TRUE /\ xsources' = Out
  /\ xdown' = Append(xdown, "ok") /\ xpc' = "relay"
  /\ UNCHANGED <<xtocmd, xeof, xin, xgot, xsaw, xout, xwrote>>

\* serve_one: the request may be bad, the program not there.
ServeOne ==
  /\ xpc = "start"
  /\ RefuseRun \/ StartCommand
  /\ UNCHANGED <<xcaller, xclientSide, xsigs, xup, xconn, xagent, xactive, xseen>>

\* Mutant: the end of file is passed on ahead of what was queued.
Settle_AtOnce(eof, n) == /\ xeof' = eof /\ xtocmd' = n
                         /\ xstdin' = (xstdin /\ ~eof)

\* The command's stdin is closed after the last chunk.
Settle(eof, n) == /\ xeof' = eof /\ xtocmd' = n
                  /\ xstdin' = (xstdin /\ ~(eof /\ n = 0))

\* A frame of the client's.
ReadFrame ==
  /\ xpc = "relay" /\ xtocmd < HIGH_WATER /\ xup # <<>>
  /\ xup' = Tail(xup)
  /\ CASE Head(xup) = "d" -> /\ Settle(xeof, IF xstdin THEN xtocmd + 1 ELSE xtocmd)
                             /\ UNCHANGED xsigs
       [] Head(xup) = "f" -> Settle(xeof \/ ~xtty, xtocmd) /\ UNCHANGED xsigs
       [] OTHER -> xsigs' = "passed" /\ Settle(xeof, xtocmd)
  /\ UNCHANGED <<xcaller, xclientSide, xdown, xconn, xagentSide, xin, xgot, xsaw,
                 xoutput, xcommand, xseen>>

\* The command's stdin takes a chunk; or nobody reads it any more.
WriteStdin ==
  /\ xpc = "relay" /\ xstdin /\ xtocmd > 0
  /\ IF "i" \in xends
     THEN xin < PIPE /\ xin' = xin + 1 /\ Settle(xeof, xtocmd - 1)
     ELSE /\ xtocmd' = 0 /\ xstdin' = xtty /\ UNCHANGED <<xeof, xin>>
  /\ UNCHANGED <<xcaller, xclientSide, xsigs, xup, xdown, xconn, xagentSide, xgot, xsaw,
                 xoutput, xcommand, xseen>>

\* Some output; or its end, nobody having it open.
ReadSource(k) ==
  /\ xpc = "relay" /\ k \in xsources /\ Len(xdown) < HIGH_WATER
  /\ \/ /\ xout[k] > 0
        /\ xout' = [xout EXCEPT ![k] = @ - 1] /\ xdown' = Append(xdown, k)
        /\ UNCHANGED xsources
     \/ /\ xout[k] = 0 /\ k \notin xends /\ ~xheld
        /\ xsources' = xsources \ {k}
        /\ UNCHANGED <<xout, xdown>>
  /\ UNCHANGED <<xcaller, xclientSide, xsigs, xup, xconn, xagentSide, xinput, xwrote,
                 xcommand, xseen>>

\* The client's end is closed.  The agent looks at its own only while it has
\* something to send or room for input.
LostClient ==
  /\ xpc = "relay" /\ xclient = "done"
  /\ xdown # <<>> \/ (xtocmd < HIGH_WATER /\ xup = <<>>)
  /\ xpc' = "hangup" /\ CloseAll
  /\ UNCHANGED <<xcaller, xclientSide, xsigs, xup, xdown, xconn, xagent, xactive,
                 xcommand, xseen>>

Chunk(k, n) == [i \in 1 .. n |-> k]

\* What the command wrote last.  Something left behind that keeps writing to the
\* first of the outputs uses up the second there is for both, and what is in the
\* other is drained in part or not at all.
Drained == {Chunk("o", xout["o"]) \o Chunk("e", n) :
              n \in IF xheld THEN 0 .. xout["e"] ELSE {xout["e"]}}

\* The command has exited, whoever still has its outputs open.
CommandEnded ==
  /\ xpc = "relay" /\ xcmd = "exited"
  /\ \E d \in Drained : xdown' = xdown \o d \o <<"x">>
  /\ xpc' = "send" /\ CloseAll
  /\ UNCHANGED <<xcaller, xclientSide, xsigs, xup, xconn, xagent, xactive, xcommand,
                 xseen>>

\* All of it is sent, unless the client doesn't read for 30 seconds.
SendRest ==
  /\ xpc = "send" /\ xpc' = "end"
  /\ \E n \in 0 .. Len(xdown) : xdown' = SubSeq(xdown, 1, n)
  /\ UNCHANGED <<xcaller, xclientSide, xsigs, xup, xconn, xagent, xactive, xinput,
                 xoutput, xcommand, xseen>>

\* Mutant: nobody waits for a command that takes its time, or ignores HUP.
HungUp_NoWait ==
  /\ xpc = "hangup" /\ xpc' = "end"
  /\ UNCHANGED <<xcaller, xclientSide, xsigs, xup, xdown, xconn, xagent, xactive,
                 xinput, xoutput, xcommand, xseen>>

HungUp ==
  /\ xpc = "hangup" /\ xcmd = "exited" /\ xpc' = "end"
  /\ UNCHANGED <<xcaller, xclientSide, xsigs, xup, xdown, xconn, xagent, xactive,
                 xinput, xoutput, xcommand, xseen>>

HandleEnds ==
  /\ xpc = "end" /\ xpc' = "ended" /\ xactive' = xactive - 1
  /\ xconn' = FALSE
  /\ UNCHANGED <<xcaller, xclientSide, xsigs, xup, xdown, xagent, xinput, xoutput,
                 xcommand, xseen>>

\* reaper: idle for long enough.  A connection not counted yet is cut.
IdleExit ==
  /\ xagent /\ xactive = 0
  /\ xagent' = FALSE /\ xconn' = FALSE
  /\ xpc' = IF xpc = "accepted" THEN "ended" ELSE xpc
  /\ UNCHANGED <<xcaller, xclientSide, xsigs, xup, xdown, xactive, xinput, xoutput,
                 xcommand, xseen>>
-----------------------------------------------------------------------------
(***************************************************************************)
(* The command, and the sandbox                                            *)
(***************************************************************************)
CmdRead ==
  /\ xcmd = "runs" /\ "i" \in xends
  /\ \/ xin > 0 /\ xin' = xin - 1 /\ xgot' = xgot + 1 /\ UNCHANGED xsaw
     \/ xin = 0 /\ ~xstdin /\ ~xsaw /\ xsaw' = TRUE /\ UNCHANGED <<xin, xgot>>
  /\ UNCHANGED <<xcaller, xclientSide, xsigs, xup, xdown, xconn, xagentSide, xtocmd,
                 xeof, xstdin, xoutput, xcommand, xseen>>

CmdWrite(k) ==
  /\ xcmd = "runs" /\ k \in xends \cap xsources /\ xout[k] < PIPE /\ xwrote[k] < MaxOut
  /\ xout' = [xout EXCEPT ![k] = @ + 1] /\ xwrote' = [xwrote EXCEPT ![k] = @ + 1]
  /\ UNCHANGED <<xcaller, xclientSide, xsigs, xup, xdown, xconn, xagentSide, xinput,
                 xsources, xcommand, xseen>>

CmdCloses(e) ==
  /\ xcmd = "runs" /\ e \in xends /\ xends' = xends \ {e}
  /\ UNCHANGED <<xcaller, xclientSide, xsigs, xup, xdown, xconn, xagentSide, xinput,
                 xoutput, xcmd, xheld, xseen>>

CmdExits ==
  /\ xcmd = "runs" /\ xcmd' = "exited" /\ xends' = {} /\ xheld' \in BOOLEAN
  /\ UNCHANGED <<xcaller, xclientSide, xsigs, xup, xdown, xconn, xagentSide, xinput,
                 xoutput, xseen>>

\* A mount is made or goes after the launcher's probe.
FolderChanges ==
  /\ xcmd = "none" /\ xclient # "done" /\ xfolder' \in Folder \ {xfolder}
  /\ UNCHANGED <<xtty, xclientSide, xsigs, xup, xdown, xconn, xagentSide, xinput,
                 xoutput, xcommand, xseen>>

ClientStep == ReadReply \/ Consume \/ FindsGone
AgentStep ==
  \/ Count \/ ServeOne \/ ReadFrame \/ WriteStdin \/ LostClient \/ CommandEnded \/ SendRest
  \/ HungUp \/ HandleEnds \/ \E k \in Out : ReadSource(k)

ExecNext ==
  \/ ClientStep \/ Probe \/ GrantFolder \/ Ask \/ ReadStdin \/ GetSignal \/ GoesAway
  \/ AgentStep \/ IdleExit
  \/ CmdRead \/ CmdExits \/ FolderChanges
  \/ \E k \in Out : CmdWrite(k)
  \/ \E e \in {"i"} \cup Out : CmdCloses(e)

ExecSpec == ExecInit /\ [][ExecNext]_execVars

\* Both poll loops run on, and pick each ready file in its turn; the
\* client's output is taken.  Nothing is assumed of the command.
ExecFair == WF_execVars(ClientStep) /\ WF_execVars(AgentStep)
-----------------------------------------------------------------------------
ExecTypeOK ==
  /\ xactive = (IF xpc \in {"start", "relay", "hangup", "send", "end"} THEN 1 ELSE 0)
  /\ xpc \in {"none", "accepted", "start", "relay", "hangup", "send", "end", "ended"}
  /\ xclient \in {"new", "grant", "probed", "asked", "pump", "done"}
  /\ xfolder \in Folder
  /\ xcmd \in {"none", "runs", "exited"}
  /\ xtocmd \in 0 .. HIGH_WATER /\ xin \in 0 .. PIPE
  /\ \A k \in Out : xout[k] \in 0 .. PIPE
  /\ xsources \subseteq Out /\ xends \subseteq {"i"} \cup Out

\* A run that ends with the command's status has passed on all the command
\* wrote, though it exits with output in the pipes, in the agent and on the
\* way; only stderr beside an output that is still written to may miss some.
OutputComplete ==
  xstatus = "command" =>
    \A k \in Out : xseen[k] = xwrote[k] \/ (k = "e" /\ xheld)

\* A command that reads to the end, while its client is there, has read all
\* the caller gave.
InputComplete ==
  xsaw /\ xclient = "pump" /\ xpc = "relay" => ~xreading /\ xgot = MaxIn

\* Nothing is lost on the way through the agent, in either direction.
StreamsComplete == OutputComplete /\ InputComplete

\* The agent counts itself idle, and exits, under no command of its own, one
\* whose client has gone included.
IdleIsIdle == ~xagent => xcmd # "runs"

\* When the command has exited its client returns, whatever the command left
\* behind still holds open.
RunReturns == (xcmd = "exited" /\ xclient = "pump") ~> (xclient = "done")
=============================================================================
