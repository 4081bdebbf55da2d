--------------------------- MODULE ProgramsProofs ---------------------------
(***************************************************************************)
(* Proofs about Programs: the types, that the agent in a sandbox never     *)
(* counts itself idle under a command and loses nothing of its streams,    *)
(* and what the broker's answer to a request is made of.                   *)
(***************************************************************************)
EXTENDS Programs, FiniteSetTheorems, TLAPS

-----------------------------------------------------------------------------
(* The agent                                                               *)

\* A request is counted from before its command is started to after it has
\* exited; the agent exits with nothing counted.
ExecInv ==
  /\ ExecTypeOK
  /\ xout \in [Out -> 0 .. PIPE]
  /\ xclient \in {"new", "grant", "probed"} => xpc = "none"
  /\ xpc \in {"none", "accepted", "start"} => xcmd = "none"
  /\ xpc \in {"send", "end", "ended"} => xcmd # "runs"
  /\ ~xagent => xpc \in {"none", "ended"}

LEMMA ExecStart == ExecInit => ExecInv
  BY ExecAssumption DEF ExecInit, ExecInv, ExecTypeOK, Out

LEMMA ExecStep == ExecInv /\ [ExecNext]_execVars => ExecInv'
<1> SUFFICES ASSUME ExecInv, [ExecNext]_execVars PROVE ExecInv'
  OBVIOUS
<1> USE ExecAssumption DEF ExecInv, ExecTypeOK, xcaller, xclientSide, xagentSide, xinput,
                           xoutput, xcommand
<1>1. CASE ReadReply \/ Consume \/ FindsGone \/ GoesAway
  BY <1>1 DEF ReadReply, Consume, FindsGone, GoesAway, Ends
<1>2. CASE Probe
  BY <1>2 DEF Probe
<1>3. CASE GrantFolder
  BY <1>3 DEF GrantFolder, Folder
<1>4. CASE Ask
  BY <1>4 DEF Ask
<1>5. CASE ReadStdin \/ GetSignal
  BY <1>5 DEF ReadStdin, GetSignal
<1>6. CASE Count
  BY <1>6 DEF Count
<1>7. CASE ServeOne
  BY <1>7 DEF ServeOne, RefuseRun, StartCommand, Out
<1>8. CASE ReadFrame
  BY <1>8 DEF ReadFrame, Settle
<1>9. CASE WriteStdin
  BY <1>9 DEF WriteStdin, Settle
<1>10. CASE LostClient
  BY <1>10 DEF LostClient, CloseAll
<1>11. CASE CommandEnded
  BY <1>11 DEF CommandEnded, CloseAll
<1>12. CASE SendRest \/ HungUp \/ HandleEnds
  <2>1. CASE SendRest
    BY <2>1 DEF SendRest
  <2>2. CASE HungUp
    BY <2>2 DEF HungUp
  <2>3. CASE HandleEnds
    BY <2>3 DEF HandleEnds
  <2> QED BY <1>12, <2>1, <2>2, <2>3
<1>13. ASSUME NEW k \in Out, ReadSource(k) PROVE ExecInv'
  <2>1. CASE xout[k] > 0 /\ xout' = [xout EXCEPT ![k] = @ - 1] /\ UNCHANGED xsources
    <3>1. \A j \in Out : xout'[j] \in 0 .. PIPE
      BY <2>1
    <3> QED BY <1>13, <2>1, <3>1 DEF ReadSource
  <2>2. CASE xsources' = xsources \ {k} /\ UNCHANGED xout
    BY <1>13, <2>2 DEF ReadSource
  <2> QED BY <1>13, <2>1, <2>2 DEF ReadSource
<1>14. CASE IdleExit
  BY <1>14 DEF IdleExit
<1>15. CASE CmdRead \/ CmdExits \/ FolderChanges
  <2>1. CASE CmdRead
    BY <2>1 DEF CmdRead
  <2>2. CASE CmdExits
    BY <2>2 DEF CmdExits
  <2>3. CASE FolderChanges
    BY <2>3 DEF FolderChanges
  <2> QED BY <1>15, <2>1, <2>2, <2>3
<1>16. ASSUME NEW k \in Out, CmdWrite(k) PROVE ExecInv'
  BY <1>16 DEF CmdWrite
<1>17. ASSUME NEW e \in {"i"} \cup Out, CmdCloses(e) PROVE ExecInv'
  BY <1>17 DEF CmdCloses
<1>18. CASE UNCHANGED execVars
  BY <1>18 DEF execVars
<1> QED BY <1>1, <1>2, <1>3, <1>4, <1>5, <1>6, <1>7, <1>8, <1>9, <1>10, <1>11, <1>12,
           <1>13, <1>14, <1>15, <1>16, <1>17, <1>18 DEF ExecNext, ClientStep, AgentStep

-----------------------------------------------------------------------------
(* The streams                                                             *)

\* How often x is in s.
Places(s, x) == {i \in 1 .. Len(s) : s[i] = x}
Chunks(s, x) == Cardinality(Places(s, x))

UpFrame == {"d", "f", "s"}
DownFrame == {"ok", "error", "o", "e", "x"}
Waiting == xclient \in {"asked", "pump"}

StreamTypes ==
  /\ xup \in Seq(UpFrame) /\ xdown \in Seq(DownFrame)
  /\ xleft \in Nat /\ xgot \in Nat /\ xreading \in BOOLEAN
  /\ xseen \in [Out -> Nat] /\ xwrote \in [Out -> Nat]

\* Before its command is started nothing of a request has moved.
FreshInv ==
  xpc \in {"none", "accepted", "start"} =>
    /\ xup = <<>> /\ xdown = <<>> /\ xclient # "pump" /\ xstatus # "command"
    /\ xleft = MaxIn /\ xreading /\ xtocmd = 0 /\ ~xeof /\ xin = 0 /\ xgot = 0 /\ ~xsaw
    /\ \A k \in Out : xout[k] = 0 /\ xwrote[k] = 0 /\ xseen[k] = 0

\* While the client is there and the command has its input open, every chunk
\* the caller gave is somewhere on its way; the end follows the last.
InputInv ==
  /\ xclient = "asked" => xreading
  /\ ~xreading => xleft = 0
  /\ Waiting => \A i \in 1 .. Len(xup) :
       xup[i] = "f" => /\ ~xreading
                       /\ \A j \in i + 1 .. Len(xup) : xup[j] # "d"
  /\ Waiting /\ xpc = "relay" =>
       /\ xeof => ~xreading /\ \A i \in 1 .. Len(xup) : xup[i] # "d"
       /\ xsaw => ~xreading /\ xgot = MaxIn
       /\ "i" \in xends =>
            /\ xgot + xin + xtocmd + Chunks(xup, "d") + xleft = MaxIn
            /\ ~xstdin => xeof /\ xtocmd = 0

\* While the client is there, what the command wrote is in its pipes, on its
\* way or with the caller; the exit is the last, and has all of it before it.
AllSent == \A k \in Out : xseen[k] + Chunks(xdown, k) = xwrote[k] \/ (k = "e" /\ xheld)
FrameInv(i) ==
  /\ xdown[i] \in {"ok", "error"} <=> (i = 1 /\ xclient = "asked")
  /\ xdown[i] = "x" => i = Len(xdown) /\ xcmd = "exited" /\ AllSent
FlowInv ==
  /\ xclient = "asked" => xdown # <<>>
  /\ \A i \in 1 .. Len(xdown) : xdown[i] # "x"
  /\ \A k \in Out : xseen[k] + Chunks(xdown, k) + xout[k] = xwrote[k]
OutputInv ==
  /\ Waiting => \A i \in 1 .. Len(xdown) : FrameInv(i)
  /\ Waiting /\ xpc = "relay" => FlowInv
  /\ xstatus = "command" => xclient = "done" /\ xcmd = "exited" /\ OutputComplete

StreamInv == StreamTypes /\ FreshInv /\ InputInv /\ OutputInv

\* How many of a queue's frames are x.
LEMMA ChunksType ==
  ASSUME NEW X, NEW s \in Seq(X), NEW x
  PROVE  /\ IsFiniteSet(Places(s, x)) /\ Chunks(s, x) \in Nat
         /\ Places(s, x) \subseteq 1 .. Len(s)
         /\ Chunks(s, x) = 0 <=> \A i \in 1 .. Len(s) : s[i] # x
<1>1. Places(s, x) \subseteq 1 .. Len(s) /\ Len(s) \in Nat
  BY DEF Places
<1>2. IsFiniteSet(1 .. Len(s))
  BY <1>1, FS_Interval
<1>3. IsFiniteSet(Places(s, x)) /\ Cardinality(Places(s, x)) \in Nat
  BY <1>1, <1>2, FS_Subset, FS_CardinalityType
<1>4. Cardinality(Places(s, x)) = 0 <=> Places(s, x) = {}
  BY <1>3, FS_EmptySet
<1> QED BY <1>1, <1>3, <1>4 DEF Chunks, Places

LEMMA ChunksNone == \A x : Chunks(<<>>, x) = 0
<1>1. \A x : Places(<<>>, x) = {}
  BY DEF Places
<1> QED BY <1>1, FS_EmptySet DEF Chunks

LEMMA ChunksAppend ==
  ASSUME NEW X, NEW s \in Seq(X), NEW y \in X, NEW x
  PROVE  Chunks(Append(s, y), x) = Chunks(s, x) + (IF y = x THEN 1 ELSE 0)
<1> DEFINE n == Len(s)
<1>1. n \in Nat /\ n + 1 \notin Places(s, x)
  BY DEF Places
<1>2. Places(Append(s, y), x) = IF y = x THEN Places(s, x) \cup {n + 1} ELSE Places(s, x)
  <2>1. Len(Append(s, y)) = n + 1 /\ Append(s, y)[n + 1] = y
        /\ \A i \in 1 .. n : Append(s, y)[i] = s[i]
    BY <1>1
  <2>2. 1 .. n + 1 = 1 .. n \cup {n + 1}
    BY <1>1
  <2> QED BY <1>1, <2>1, <2>2 DEF Places
<1>3. IsFiniteSet(Places(s, x)) /\ Chunks(s, x) \in Nat
  BY ChunksType
<1>4. CASE y = x
  <2>1. Cardinality(Places(s, x) \cup {n + 1}) = Cardinality(Places(s, x)) + 1
    BY <1>1, <1>3, FS_AddElement
  <2> QED BY <1>2, <1>4, <2>1 DEF Chunks
<1>5. CASE y # x
  BY <1>2, <1>3, <1>5 DEF Chunks
<1> QED BY <1>4, <1>5

LEMMA ChunksTail ==
  ASSUME NEW X, NEW s \in Seq(X), s # <<>>, NEW x
  PROVE  Chunks(s, x) = Chunks(Tail(s), x) + (IF Head(s) = x THEN 1 ELSE 0)
<1> DEFINE S == Places(Tail(s), x)
           T == Places(s, x) \ {1}
           f == [i \in S |-> i + 1]
<1>1. Tail(s) \in Seq(X) /\ Len(s) \in Nat /\ Len(s) > 0 /\ Len(Tail(s)) = Len(s) - 1
      /\ Head(s) = s[1] /\ \A i \in 1 .. Len(s) - 1 : Tail(s)[i] = s[i + 1]
  OBVIOUS
<1>2. ExistsBijection(S, T)
  <2>1. \A i \in S : i \in Nat /\ f[i] = i + 1 /\ f[i] \in T
    BY <1>1 DEF Places
  <2>2. \A j \in T : j - 1 \in S /\ f[j - 1] = j
    BY <1>1 DEF Places
  <2>3. f \in [S -> T]
    BY <2>1
  <2>4. \A a, b \in S : f[a] = f[b] => a = b
    BY <2>1
  <2>5. \A t \in T : \E i \in S : f[i] = t
    BY <2>2
  <2>6. f \in Bijection(S, T)
    BY <2>3, <2>4, <2>5 DEF Bijection, Injection, IsInjective, Surjection
  <2> QED BY <2>6 DEF ExistsBijection
<1>3. IsFiniteSet(S) /\ Chunks(Tail(s), x) \in Nat /\ Cardinality(T) = Chunks(Tail(s), x)
  BY <1>1, <1>2, ChunksType, FS_Bijection DEF Chunks
<1>4. IsFiniteSet(Places(s, x)) /\ Chunks(s, x) \in Nat
  BY ChunksType
<1>5. Cardinality(T) = IF 1 \in Places(s, x) THEN Chunks(s, x) - 1 ELSE Chunks(s, x)
  BY <1>4, FS_RemoveElement DEF Chunks
<1>6. 1 \in Places(s, x) <=> Head(s) = x
  BY <1>1 DEF Places
<1> QED BY <1>3, <1>4, <1>5, <1>6

\* What the command's pipe of kind k still holds, behind what is queued.
LEMMA ChunksUnread ==
  ASSUME NEW X, NEW s \in Seq(X), NEW k \in X, NEW m \in Nat, NEW x
  PROVE  /\ s \o [i \in 1 .. m |-> k] \in Seq(X)
         /\ Chunks(s \o [i \in 1 .. m |-> k], x) = Chunks(s, x) + (IF k = x THEN m ELSE 0)
<1> DEFINE u == [i \in 1 .. m |-> k]
           n == Len(s)
<1>1. u \in Seq(X) /\ Len(u) = m /\ n \in Nat
  OBVIOUS
<1>2. s \o u \in Seq(X) /\ Len(s \o u) = n + m
  BY <1>1
<1>3. \A i \in 1 .. n + m : (s \o u)[i] = IF i <= n THEN s[i] ELSE k
  BY <1>1
<1>4. Places(s \o u, x) = Places(s, x) \cup (IF k = x THEN n + 1 .. n + m ELSE {})
  BY <1>1, <1>2, <1>3 DEF Places
<1>5. /\ IsFiniteSet(n + 1 .. n + m) /\ Cardinality(n + 1 .. n + m) = m
      /\ Places(s, x) \cap (n + 1 .. n + m) = {}
  <2>1. n + 1 \in Int /\ n + m \in Int
    BY <1>1
  <2>2. /\ IsFiniteSet(n + 1 .. n + m)
        /\ Cardinality(n + 1 .. n + m) = IF n + 1 > n + m THEN 0 ELSE (n + m) - (n + 1) + 1
    BY <2>1, FS_Interval
  <2>3. Cardinality(n + 1 .. n + m) = m
    BY <1>1, <2>2
  <2>4. Places(s, x) \cap (n + 1 .. n + m) = {}
    BY <1>1 DEF Places
  <2> QED BY <2>2, <2>3, <2>4
<1>6. IsFiniteSet(Places(s, x)) /\ Chunks(s, x) \in Nat
  BY ChunksType
<1>7. Chunks(s \o u, x) = Chunks(s, x) + (IF k = x THEN m ELSE 0)
  <2> HIDE DEF u, n
  <2>1. CASE k = x
    <3>1. Places(s \o u, x) = Places(s, x) \cup (n + 1 .. n + m)
      BY <1>4, <2>1
    <3>2. ASSUME NEW R, IsFiniteSet(R), Cardinality(R) = m, Places(s, x) \cap R = {}
          PROVE  Cardinality(Places(s, x) \cup R) = Cardinality(Places(s, x)) + m - Cardinality({})
      BY <1>6, <3>2, FS_Union
    <3>3. Cardinality(Places(s, x) \cup (n + 1 .. n + m))
            = Cardinality(Places(s, x)) + m - Cardinality({})
      BY <1>5, <3>2
    <3> QED BY <1>6, <2>1, <3>1, <3>3, FS_EmptySet DEF Chunks
  <2>2. CASE k # x
    <3>1. Places(s \o u, x) = Places(s, x)
      BY <1>4, <2>2
    <3> QED BY <1>6, <2>2, <3>1 DEF Chunks
  <2> QED BY <2>1, <2>2
<1> QED BY <1>2, <1>7

LEMMA StreamStart == ExecInit => StreamInv
<1> SUFFICES ASSUME ExecInit PROVE StreamInv
  OBVIOUS
<1>1. StreamTypes /\ FreshInv
  BY ExecAssumption DEF ExecInit, StreamTypes, FreshInv
<1>2. InputInv /\ OutputInv
  BY DEF ExecInit, InputInv, OutputInv, Waiting
<1> QED BY <1>1, <1>2 DEF StreamInv

\* The client is done: what it has not sent or not read is lost.
LEMMA EndsStep ==
  ASSUME ExecInv, StreamInv, NEW status, Waiting, Ends(status),
         status = "command" => xcmd = "exited" /\ OutputComplete'
  PROVE  StreamInv'
<1> USE DEF StreamInv, xcaller, xagentSide, xinput, xoutput, xcommand
<1>1. xclient' = "done" /\ xstatus' = status /\ ~Waiting'
  BY DEF Ends, Waiting
<1>2. StreamTypes'
  <2>1. xup' \in Seq(UpFrame)
    <3>1. PICK n \in 0 .. Len(xup) : xup' = SubSeq(xup, 1, n)
      BY DEF Ends
    <3> QED BY <3>1 DEF StreamTypes
  <2> QED BY <2>1 DEF Ends, StreamTypes
<1>3. FreshInv'
  <2>1. CASE xpc \in {"none", "accepted", "start"}
    <3>1. xup' = <<>> /\ xdown' = <<>> /\ status # "command"
      <4>1. PICK n \in 0 .. Len(xup) : xup' = SubSeq(xup, 1, n)
        BY DEF Ends
      <4>2. xup = <<>> /\ xcmd = "none"
        BY <2>1 DEF FreshInv, ExecInv
      <4> QED BY <4>1, <4>2 DEF Ends
    <3> QED BY <1>1, <2>1, <3>1 DEF Ends, FreshInv
  <2>2. CASE xpc \notin {"none", "accepted", "start"}
    BY <2>2 DEF Ends, FreshInv
  <2> QED BY <2>1, <2>2
<1>4. InputInv'
  BY <1>1 DEF InputInv, Ends
<1>5. OutputInv'
  BY <1>1 DEF OutputInv, Ends
<1> QED BY <1>2, <1>3, <1>4, <1>5

LEMMA LauncherStep ==
  ASSUME ExecInv, StreamInv, Probe \/ GrantFolder \/ Ask \/ FolderChanges PROVE StreamInv'
<1> USE DEF StreamInv, xcaller, xclientSide, xagentSide, xinput, xoutput, xcommand
<1>1. /\ UNCHANGED <<xtty, xleft, xreading, xsigs, xup, xdown, xinput, xoutput, xcommand, xseen>>
      /\ xclient' = "pump" => xclient = "pump"
      /\ xstatus' = "command" => xstatus = "command" /\ xclient' = xclient
      /\ xpc' = xpc \/ (xpc' = "accepted" /\ xpc = "none")
      /\ xclient' = "asked" => xclient = "asked" \/ (xpc = "none" /\ xpc' = "accepted")
  <2>0. xstatus = "command" => xclient = "done"
    BY DEF OutputInv
  <2>1. CASE Probe
    BY <2>0, <2>1 DEF Probe
  <2>2. CASE GrantFolder
    BY <2>0, <2>2 DEF GrantFolder
  <2>3. CASE Ask
    BY <2>0, <2>3 DEF Ask, ExecInv
  <2>4. CASE FolderChanges
    BY <2>4 DEF FolderChanges
  <2> QED BY <2>1, <2>2, <2>3, <2>4
<1>2. StreamTypes'
  BY <1>1 DEF StreamTypes
<1>3. FreshInv'
  BY <1>1 DEF FreshInv
<1>4. InputInv'
  BY <1>1 DEF InputInv, FreshInv, Waiting
<1>5. OutputInv'
  BY <1>1 DEF OutputInv, OutputComplete, FrameInv, FlowInv, AllSent, FreshInv, Waiting
<1> QED BY <1>2, <1>3, <1>4, <1>5

LEMMA ReadReplyStep ==
  ASSUME ExecInv, StreamInv, ReadReply PROVE StreamInv'
<1> USE DEF StreamInv, xcaller, xagentSide, xinput, xoutput, xcommand
<1>1. CASE Head(xdown) = "error"
  BY <1>1, EndsStep DEF ReadReply, Waiting
<1>2. CASE Head(xdown) # "error"
  <2>1. /\ xclient = "asked" /\ xclient' = "pump" /\ xdown # <<>> /\ xdown' = Tail(xdown)
        /\ UNCHANGED <<xstatus, xcaller, xleft, xreading, xsigs, xup, xconn, xagentSide,
                       xinput, xoutput, xcommand, xseen>>
    BY <1>2 DEF ReadReply
  <2>2. /\ xdown \in Seq(DownFrame) /\ xdown' \in Seq(DownFrame)
        /\ Len(xdown') = Len(xdown) - 1 /\ Len(xdown) \in Nat /\ Len(xdown) > 0
        /\ \A i \in 1 .. Len(xdown') : xdown'[i] = xdown[i + 1]
        /\ Head(xdown) = xdown[1]
    BY <2>1 DEF StreamTypes
  <2>3. xdown[1] \in {"ok", "error"}
    <3>1. 1 \in 1 .. Len(xdown)
      BY <2>2
    <3> QED BY <2>1, <3>1 DEF OutputInv, FrameInv, Waiting
  <2>4. \A k \in Out : Chunks(xdown', k) = Chunks(xdown, k)
    <3>1. ASSUME NEW k \in Out PROVE Chunks(xdown', k) = Chunks(xdown, k)
      <4>1. Chunks(xdown, k) = Chunks(Tail(xdown), k) + (IF Head(xdown) = k THEN 1 ELSE 0)
        BY <2>1, <2>2, ChunksTail
      <4>2. Chunks(Tail(xdown), k) \in Nat /\ Head(xdown) # k
        BY <2>1, <2>2, <2>3, ChunksType DEF Out
      <4> QED BY <2>1, <4>1, <4>2
    <3> QED BY <3>1
  <2>5. xpc \notin {"none", "accepted", "start"}
    BY <2>1 DEF FreshInv
  <2>6. StreamTypes' /\ FreshInv'
    BY <2>1, <2>2, <2>5 DEF StreamTypes, FreshInv
  <2>7. InputInv'
    BY <2>1 DEF InputInv, Waiting
  <2>8. OutputInv'
    <3>1. ASSUME NEW i \in 1 .. Len(xdown') PROVE FrameInv(i)'
      <4>1. i + 1 \in 1 .. Len(xdown) /\ xdown'[i] = xdown[i + 1] /\ i + 1 # 1
            /\ (i = Len(xdown') <=> i + 1 = Len(xdown))
        BY <2>2
      <4>2. FrameInv(i + 1)
        BY <2>1, <4>1 DEF OutputInv, Waiting
      <4>3. AllSent => AllSent'
        BY <2>1, <2>4 DEF AllSent
      <4> QED BY <2>1, <4>1, <4>2, <4>3 DEF FrameInv
    <3>2. xpc = "relay" => FlowInv'
      <4>1. \A i \in 1 .. Len(xdown') : i + 1 \in 1 .. Len(xdown)
        BY <2>2
      <4>2. xpc = "relay" => FlowInv
        BY <2>1 DEF OutputInv, Waiting
      <4> QED BY <2>1, <2>2, <2>4, <4>1, <4>2 DEF FlowInv
    <3>3. xstatus # "command"
      BY <2>1 DEF OutputInv
    <3> QED BY <2>1, <3>1, <3>2, <3>3 DEF OutputInv
  <2> QED BY <2>6, <2>7, <2>8
<1> QED BY <1>1, <1>2

LEMMA StdinStep ==
  ASSUME ExecInv, StreamInv, ReadStdin \/ GetSignal PROVE StreamInv'
<1> USE DEF StreamInv, xcaller, xclientSide, xagentSide, xinput, xoutput, xcommand
<1>1. PICK y \in UpFrame :
        /\ xclient = "pump" /\ xup' = Append(xup, y)
        /\ \/ y = "d" /\ xreading /\ xleft > 0 /\ xleft' = xleft - 1 /\ UNCHANGED xreading
           \/ y = "f" /\ xleft = 0 /\ ~xreading' /\ UNCHANGED xleft
           \/ y = "s" /\ UNCHANGED <<xleft, xreading>>
        /\ xreading' \in BOOLEAN
        /\ UNCHANGED <<xcaller, xclient, xstatus, xdown, xconn, xagentSide, xinput,
                       xoutput, xcommand, xseen>>
  BY DEF ReadStdin, GetSignal, UpFrame, StreamTypes
<1>2. /\ xup \in Seq(UpFrame) /\ Len(xup) \in Nat
      /\ xup' \in Seq(UpFrame) /\ Len(xup') = Len(xup) + 1 /\ xup'[Len(xup) + 1] = y
      /\ \A i \in 1 .. Len(xup) : xup'[i] = xup[i]
  BY <1>1 DEF StreamTypes
<1>3. Chunks(xup', "d") = Chunks(xup, "d") + (IF y = "d" THEN 1 ELSE 0)
  BY <1>1, <1>2, ChunksAppend
<1>4. Chunks(xup, "d") \in Nat
  BY <1>2, ChunksType
<1>5. xpc \notin {"none", "accepted", "start"}
  BY <1>1 DEF FreshInv
<1>6. StreamTypes' /\ FreshInv'
  BY <1>1, <1>2, <1>5 DEF StreamTypes, FreshInv
<1>7. OutputInv'
  BY <1>1 DEF OutputInv, OutputComplete, FrameInv, FlowInv, AllSent, Waiting
<1>8. InputInv'
  <2>1. (~xreading => xleft = 0)'
    BY <1>1 DEF InputInv
  <2>2. ASSUME NEW i \in 1 .. Len(xup'), xup'[i] = "f"
        PROVE  ~xreading' /\ \A j \in i + 1 .. Len(xup') : xup'[j] # "d"
    BY <1>1, <1>2, <2>2 DEF InputInv, Waiting
  <2>3. xpc = "relay" =>
          /\ xeof => ~xreading' /\ \A i \in 1 .. Len(xup') : xup'[i] # "d"
          /\ xsaw => ~xreading' /\ xgot = MaxIn
    BY <1>1, <1>2 DEF InputInv, Waiting
  <2>4. xpc = "relay" /\ "i" \in xends =>
          xgot + xin + xtocmd + Chunks(xup', "d") + xleft' = MaxIn
    <3>1. xgot \in Nat /\ xin \in Nat /\ xtocmd \in Nat /\ xleft \in Nat /\ MaxIn \in Nat
      BY ExecAssumption DEF StreamTypes, ExecInv, ExecTypeOK
    <3> QED BY <1>1, <1>3, <1>4, <3>1 DEF InputInv, Waiting
  <2>5. xpc = "relay" /\ "i" \in xends /\ ~xstdin => xeof /\ xtocmd = 0
    BY <1>1 DEF InputInv, Waiting
  <2> QED BY <1>1, <2>1, <2>2, <2>3, <2>4, <2>5 DEF InputInv
<1> QED BY <1>6, <1>7, <1>8

LEMMA ConsumeStep ==
  ASSUME ExecInv, StreamInv, Consume PROVE StreamInv'
<1> USE DEF StreamInv, xcaller, xclientSide, xagentSide, xinput, xoutput, xcommand
<1>1. /\ xclient = "pump" /\ xdown # <<>>
      /\ xdown \in Seq(DownFrame) /\ Len(xdown) \in Nat /\ Len(xdown) > 0
      /\ Head(xdown) = xdown[1] /\ 1 \in 1 .. Len(xdown)
  BY DEF Consume, StreamTypes
<1>2. FrameInv(1)
  BY <1>1 DEF OutputInv, Waiting
<1>3. CASE Head(xdown) = "x"
  <2>1. \A k \in Out : Chunks(xdown, k) = 0
    <3>1. xdown[1] = "x" /\ Len(xdown) = 1
      BY <1>1, <1>2, <1>3 DEF FrameInv
    <3> QED BY <1>1, <3>1, ChunksType DEF Out
  <2>2. xcmd = "exited" /\ OutputComplete'
    <3>1. AllSent
      BY <1>1, <1>2, <1>3 DEF FrameInv
    <3>2. UNCHANGED <<xseen, xwrote, xheld>>
      BY <1>3 DEF Consume, Ends
    <3>3. \A k \in Out : xseen[k] \in Nat
      BY DEF StreamTypes
    <3> QED BY <1>1, <1>2, <1>3, <2>1, <3>1, <3>2, <3>3 DEF AllSent, FrameInv, OutputComplete
  <2> QED BY <1>3, <2>2, EndsStep DEF Consume, Waiting
<1>4. CASE Head(xdown) # "x"
  <2>1. /\ xdown' = Tail(xdown) /\ xseen' = [xseen EXCEPT ![Head(xdown)] = @ + 1]
        /\ UNCHANGED <<xcaller, xclientSide, xsigs, xup, xconn, xagentSide, xinput, xoutput,
                       xcommand>>
    BY <1>4 DEF Consume
  <2>2. /\ xdown' \in Seq(DownFrame) /\ Len(xdown') = Len(xdown) - 1
        /\ \A i \in 1 .. Len(xdown') : xdown'[i] = xdown[i + 1]
    BY <1>1, <2>1
  <2>3. Head(xdown) \in Out
    <3>1. xdown[1] \in DownFrame
      BY <1>1
    <3> QED BY <1>1, <1>2, <1>4, <3>1 DEF FrameInv, DownFrame, Out
  <2>4. xseen' \in [Out -> Nat]
    BY <2>1, <2>3 DEF StreamTypes
  <2>5. \A k \in Out : xseen'[k] + Chunks(xdown', k) = xseen[k] + Chunks(xdown, k)
    <3>1. ASSUME NEW k \in Out
          PROVE  xseen'[k] + Chunks(xdown', k) = xseen[k] + Chunks(xdown, k)
      <4>1. Chunks(xdown, k) = Chunks(xdown', k) + (IF Head(xdown) = k THEN 1 ELSE 0)
        BY <1>1, <2>1, ChunksTail
      <4>2. Chunks(xdown', k) \in Nat
        BY <2>2, ChunksType
      <4>3. xseen[k] \in Nat /\ xseen'[k] = xseen[k] + (IF Head(xdown) = k THEN 1 ELSE 0)
        BY <2>1, <2>3 DEF StreamTypes
      <4> QED BY <4>1, <4>2, <4>3
    <3> QED BY <3>1
  <2>6. xpc \notin {"none", "accepted", "start"}
    BY <1>1 DEF FreshInv
  <2>7. StreamTypes' /\ FreshInv'
    BY <2>1, <2>2, <2>4, <2>6 DEF StreamTypes, FreshInv
  <2>8. InputInv'
    BY <2>1 DEF InputInv, Waiting
  <2>9. OutputInv'
    <3>1. ASSUME NEW i \in 1 .. Len(xdown') PROVE FrameInv(i)'
      <4>1. i + 1 \in 1 .. Len(xdown) /\ xdown'[i] = xdown[i + 1] /\ i + 1 # 1
            /\ (i = Len(xdown') <=> i + 1 = Len(xdown))
        BY <1>1, <2>2
      <4>2. FrameInv(i + 1)
        BY <1>1, <4>1 DEF OutputInv, Waiting
      <4>3. AllSent => AllSent'
        BY <2>1, <2>5 DEF AllSent
      <4> QED BY <1>1, <2>1, <4>1, <4>2, <4>3 DEF FrameInv
    <3>2. xpc = "relay" => FlowInv'
      <4>1. \A i \in 1 .. Len(xdown') : i + 1 \in 1 .. Len(xdown)
        BY <1>1, <2>2
      <4>2. xpc = "relay" => FlowInv
        BY <1>1 DEF OutputInv, Waiting
      <4>3. \A k \in Out : xout'[k] = xout[k] /\ xwrote'[k] = xwrote[k]
        BY <2>1
      <4> QED BY <1>1, <2>1, <2>2, <2>5, <4>1, <4>2, <4>3 DEF FlowInv
    <3>3. xstatus # "command"
      BY <1>1 DEF OutputInv
    <3> QED BY <2>1, <3>1, <3>2, <3>3 DEF OutputInv
  <2> QED BY <2>7, <2>8, <2>9
<1> QED BY <1>3, <1>4

\* The agent puts y behind what it has for the client.
LEMMA Queued ==
  ASSUME StreamTypes, NEW y \in DownFrame, xdown' = Append(xdown, y)
  PROVE  /\ xdown' \in Seq(DownFrame) /\ Len(xdown') = Len(xdown) + 1 /\ Len(xdown) \in Nat
         /\ xdown'[Len(xdown) + 1] = y
         /\ \A i \in 1 .. Len(xdown) : xdown'[i] = xdown[i]
         /\ \A k : /\ Chunks(xdown, k) \in Nat
                   /\ Chunks(xdown', k) = Chunks(xdown, k) + (IF y = k THEN 1 ELSE 0)
BY ChunksAppend, ChunksType DEF StreamTypes

LEMMA ServeStep ==
  ASSUME ExecInv, StreamInv, Count \/ ServeOne PROVE StreamInv'
<1> USE DEF StreamInv, xcaller, xclientSide, xagentSide, xinput, xoutput, xcommand
<1>1. /\ xpc \in {"accepted", "start"} /\ xcmd = "none"
      /\ xstatus # "command" /\ xclient # "pump" /\ xdown = <<>> /\ xup = <<>>
      /\ xreading /\ xleft = MaxIn /\ ~xeof /\ ~xsaw /\ xgot = 0 /\ xin = 0 /\ xtocmd = 0
      /\ \A k \in Out : xout[k] = 0 /\ xwrote[k] = 0 /\ xseen[k] = 0
  BY DEF Count, ServeOne, FreshInv, ExecInv
<1>2. UNCHANGED <<xcaller, xclientSide, xup, xseen, xout, xwrote, xtocmd, xeof, xin, xgot, xsaw>>
  BY DEF Count, ServeOne, RefuseRun, StartCommand
<1>3. CASE Count
  <2>1. xdown' = xdown /\ xpc' = "start"
    BY <1>3 DEF Count
  <2>2. StreamTypes' /\ FreshInv'
    BY <1>1, <1>2, <2>1 DEF StreamTypes, FreshInv
  <2>3. InputInv' /\ OutputInv'
    BY <1>1, <1>2, <2>1 DEF InputInv, OutputInv
  <2> QED BY <2>2, <2>3
<1>4. CASE ServeOne
  <2>1. PICK y \in {"ok", "error"} :
          /\ xdown' = Append(xdown, y)
          /\ \/ y = "error" /\ xpc' = "end" /\ UNCHANGED xcommand
             \/ y = "ok" /\ xpc' = "relay" /\ xcmd' = "runs" /\ xstdin'
    BY <1>4 DEF ServeOne, RefuseRun, StartCommand
  <2>2. /\ xdown' \in Seq(DownFrame) /\ Len(xdown') = 1 /\ xdown'[1] = y
        /\ \A k \in Out : Chunks(xdown', k) = 0
    <3>1. y \in DownFrame /\ xdown = <<>> /\ \A k \in Out : y # k
      BY <1>1 DEF DownFrame, Out
    <3> QED BY <2>1, <3>1, Queued, ChunksNone
  <2>3. StreamTypes'
    BY <1>2, <2>2 DEF StreamTypes
  <2>4. FreshInv'
    BY <2>1 DEF FreshInv
  <2>5. InputInv'
    <3>1. Chunks(xup', "d") = 0 /\ Len(xup') = 0 /\ MaxIn \in Nat
      BY <1>1, <1>2, ChunksNone, ExecAssumption
    <3> QED BY <1>1, <1>2, <2>1, <3>1 DEF InputInv
  <2>6. OutputInv'
    <3>1. \A i \in 1 .. Len(xdown') : i = 1
      BY <2>2
    <3> QED BY <1>1, <1>2, <2>1, <2>2, <3>1 DEF OutputInv, FrameInv, FlowInv, Waiting
  <2> QED BY <2>3, <2>4, <2>5, <2>6
<1> QED BY <1>3, <1>4

LEMMA FrameStep ==
  ASSUME ExecInv, StreamInv, ReadFrame PROVE StreamInv'
<1> USE DEF StreamInv, xcaller, xclientSide, xagentSide, xinput, xoutput, xcommand
<1>1. /\ xpc = "relay" /\ xup # <<>> /\ xup' = Tail(xup)
      /\ UNCHANGED <<xcaller, xclientSide, xdown, xconn, xagentSide, xin, xgot, xsaw,
                     xoutput, xcommand, xseen>>
  BY DEF ReadFrame
<1>2. /\ xup \in Seq(UpFrame) /\ Len(xup) \in Nat /\ Len(xup) > 0 /\ Head(xup) = xup[1]
      /\ xup' \in Seq(UpFrame) /\ Len(xup') = Len(xup) - 1
      /\ \A i \in 1 .. Len(xup') : xup'[i] = xup[i + 1]
      /\ 1 \in 1 .. Len(xup) /\ xup[1] \in UpFrame
  BY <1>1 DEF StreamTypes
<1>3. /\ Chunks(xup', "d") \in Nat
      /\ Chunks(xup, "d") = Chunks(xup', "d") + (IF Head(xup) = "d" THEN 1 ELSE 0)
  BY <1>1, <1>2, ChunksTail, ChunksType
<1>4. StreamTypes' /\ FreshInv'
  BY <1>1, <1>2 DEF StreamTypes, FreshInv
<1>5. OutputInv'
  BY <1>1 DEF OutputInv, OutputComplete, FrameInv, FlowInv, AllSent, Waiting
<1>6. ASSUME Waiting, NEW i \in 1 .. Len(xup'), xup'[i] = "f"
      PROVE  ~xreading /\ \A j \in i + 1 .. Len(xup') : xup'[j] # "d"
  <2>1. i + 1 \in 1 .. Len(xup) /\ xup[i + 1] = "f"
    BY <1>2, <1>6
  <2>2. ~xreading /\ \A j \in i + 2 .. Len(xup) : xup[j] # "d"
    BY <1>2, <1>6, <2>1 DEF InputInv
  <2>3. \A j \in i + 1 .. Len(xup') : j + 1 \in i + 2 .. Len(xup) /\ xup'[j] = xup[j + 1]
    BY <1>2
  <2> QED BY <2>2, <2>3
<1>7. ASSUME Waiting
      PROVE  /\ xeof' => ~xreading /\ \A i \in 1 .. Len(xup') : xup'[i] # "d"
             /\ "i" \in xends =>
                  /\ xgot + xin + xtocmd' + Chunks(xup', "d") + xleft = MaxIn
                  /\ ~xstdin' => xeof' /\ xtocmd' = 0
  <2>1. /\ xeof => ~xreading /\ \A i \in 1 .. Len(xup) : xup[i] # "d"
        /\ "i" \in xends => /\ xgot + xin + xtocmd + Chunks(xup, "d") + xleft = MaxIn
                            /\ ~xstdin => xeof /\ xtocmd = 0
    BY <1>1, <1>7 DEF InputInv
  <2>2. xgot \in Nat /\ xin \in Nat /\ xtocmd \in Nat /\ xleft \in Nat /\ MaxIn \in Nat
    BY ExecAssumption DEF StreamTypes, ExecInv, ExecTypeOK
  <2>3. \A i \in 1 .. Len(xup') : i + 1 \in 1 .. Len(xup) /\ i + 1 \in 2 .. Len(xup)
                                  /\ xup'[i] = xup[i + 1]
    BY <1>2
  <2>4. CASE Head(xup) = "d"
    <3>1. ~xeof
      BY <1>2, <2>1, <2>4
    <3>2. xeof' = xeof /\ xtocmd' = (IF xstdin THEN xtocmd + 1 ELSE xtocmd)
          /\ xstdin' = (xstdin /\ ~(xeof /\ xtocmd' = 0))
      BY <2>4 DEF ReadFrame, Settle
    <3>3. "i" \in xends => xstdin
      BY <2>1, <3>1
    <3>4. "i" \in xends => xgot + xin + xtocmd' + Chunks(xup', "d") + xleft = MaxIn
      <4>1. "i" \in xends => xtocmd' = xtocmd + 1
        BY <3>2, <3>3
      <4> QED BY <1>3, <2>1, <2>2, <2>4, <4>1
    <3>5. "i" \in xends /\ ~xstdin' => xeof' /\ xtocmd' = 0
      BY <3>2, <3>3
    <3> QED BY <3>1, <3>2, <3>4, <3>5
  <2>5. CASE Head(xup) = "f"
    <3>1. ~xreading /\ \A j \in 2 .. Len(xup) : xup[j] # "d"
      BY <1>2, <1>7, <2>5 DEF InputInv
    <3>2. xeof' = (xeof \/ ~xtty) /\ xtocmd' = xtocmd
          /\ xstdin' = (xstdin /\ ~(xeof' /\ xtocmd = 0))
      BY <2>5 DEF ReadFrame, Settle
    <3>3. "i" \in xends => xgot + xin + xtocmd' + Chunks(xup', "d") + xleft = MaxIn
      BY <1>3, <2>1, <2>2, <2>5, <3>2
    <3>4. "i" \in xends /\ ~xstdin' => xeof' /\ xtocmd' = 0
      BY <2>1, <3>2
    <3>5. \A i \in 1 .. Len(xup') : xup'[i] # "d"
      BY <2>3, <3>1
    <3> QED BY <3>1, <3>3, <3>4, <3>5
  <2>6. CASE Head(xup) = "s"
    <3>1. xeof' = xeof /\ xtocmd' = xtocmd /\ xstdin' = (xstdin /\ ~(xeof /\ xtocmd = 0))
      BY <2>6 DEF ReadFrame, Settle
    <3>2. "i" \in xends => xgot + xin + xtocmd' + Chunks(xup', "d") + xleft = MaxIn
      BY <1>3, <2>1, <2>2, <2>6, <3>1
    <3>3. "i" \in xends /\ ~xstdin' => xeof' /\ xtocmd' = 0
      BY <2>1, <3>1
    <3>4. xeof' => ~xreading /\ \A i \in 1 .. Len(xup') : xup'[i] # "d"
      BY <2>1, <2>3, <3>1
    <3> QED BY <3>2, <3>3, <3>4
  <2> QED BY <1>2, <2>4, <2>5, <2>6 DEF UpFrame
<1>8. InputInv'
  <2>1. Waiting' <=> Waiting
    BY <1>1 DEF Waiting
  <2>2. Waiting /\ xsaw => ~xreading /\ xgot = MaxIn
    BY <1>1 DEF InputInv
  <2> QED BY <1>1, <1>6, <1>7, <2>1, <2>2 DEF InputInv
<1> QED BY <1>4, <1>5, <1>8

LEMMA WriteStep ==
  ASSUME ExecInv, StreamInv, WriteStdin PROVE StreamInv'
<1> USE DEF StreamInv, xcaller, xclientSide, xagentSide, xinput, xoutput, xcommand
<1>1. /\ xpc = "relay" /\ xstdin /\ xtocmd > 0
      /\ UNCHANGED <<xcaller, xclientSide, xup, xdown, xconn, xagentSide, xgot, xsaw, xeof,
                     xoutput, xcommand, xseen>>
      /\ "i" \in xends => /\ xin' = xin + 1 /\ xtocmd' = xtocmd - 1
                          /\ xstdin' = ~(xeof /\ xtocmd' = 0)
  BY DEF WriteStdin, Settle
<1>2. StreamTypes' /\ FreshInv'
  BY <1>1 DEF StreamTypes, FreshInv
<1>3. OutputInv'
  BY <1>1 DEF OutputInv, OutputComplete, FrameInv, FlowInv, AllSent, Waiting
<1>4. xgot \in Nat /\ xin \in Nat /\ xtocmd \in Nat /\ xleft \in Nat /\ Chunks(xup, "d") \in Nat
  BY ChunksType DEF StreamTypes, ExecInv, ExecTypeOK
<1>5. Waiting /\ "i" \in xends =>
        /\ xgot + xin' + xtocmd' + Chunks(xup, "d") + xleft = MaxIn
        /\ ~xstdin' => xeof /\ xtocmd' = 0
  <2>1. Waiting /\ "i" \in xends => xgot + xin + xtocmd + Chunks(xup, "d") + xleft = MaxIn
    BY <1>1 DEF InputInv
  <2>2. Waiting /\ "i" \in xends => xgot + xin' + xtocmd' + Chunks(xup, "d") + xleft = MaxIn
    BY <1>1, <1>4, <2>1
  <2>3. "i" \in xends /\ ~xstdin' => xeof /\ xtocmd' = 0
    BY <1>1
  <2> QED BY <2>2, <2>3
<1>6. InputInv'
  BY <1>1, <1>5 DEF InputInv, Waiting
<1> QED BY <1>2, <1>3, <1>6

LEMMA SourceStep ==
  ASSUME ExecInv, StreamInv, NEW k \in Out, ReadSource(k) PROVE StreamInv'
<1> USE DEF StreamInv, xcaller, xclientSide, xagentSide, xinput, xoutput, xcommand
<1>1. /\ xpc = "relay"
      /\ UNCHANGED <<xcaller, xclientSide, xup, xconn, xagentSide, xinput, xwrote, xcommand,
                     xseen>>
  BY DEF ReadSource
<1>2. InputInv'
  BY <1>1 DEF InputInv, Waiting
<1>3. CASE UNCHANGED <<xout, xdown>>
  <2>1. StreamTypes' /\ FreshInv'
    BY <1>1, <1>3 DEF StreamTypes, FreshInv
  <2>2. OutputInv'
    BY <1>1, <1>3 DEF OutputInv, OutputComplete, FrameInv, FlowInv, AllSent, Waiting
  <2> QED BY <1>2, <2>1, <2>2
<1>4. CASE xout[k] > 0 /\ xout' = [xout EXCEPT ![k] = @ - 1] /\ xdown' = Append(xdown, k)
  <2>1. k \in DownFrame /\ k \notin {"ok", "error", "x"}
    BY DEF Out, DownFrame
  <2>2. /\ xdown' \in Seq(DownFrame) /\ Len(xdown') = Len(xdown) + 1 /\ Len(xdown) \in Nat
        /\ xdown'[Len(xdown) + 1] = k
        /\ \A i \in 1 .. Len(xdown) : xdown'[i] = xdown[i]
        /\ \A j : /\ Chunks(xdown, j) \in Nat
                  /\ Chunks(xdown', j) = Chunks(xdown, j) + (IF k = j THEN 1 ELSE 0)
    BY <1>4, <2>1, Queued
  <2>3. StreamTypes' /\ FreshInv'
    BY <1>1, <2>2 DEF StreamTypes, FreshInv
  <2>4. Waiting => FlowInv /\ \A i \in 1 .. Len(xdown) : FrameInv(i)
    BY <1>1 DEF OutputInv
  <2>5. Waiting => FlowInv'
    <3>1. ASSUME Waiting, NEW j \in Out
          PROVE  xseen[j] + Chunks(xdown', j) + xout'[j] = xwrote[j]
      <4>1. xseen[j] + Chunks(xdown, j) + xout[j] = xwrote[j]
        BY <2>4, <3>1 DEF FlowInv
      <4>2. xout[j] \in Nat /\ xout'[j] = xout[j] - (IF k = j THEN 1 ELSE 0)
        BY <1>4 DEF ExecInv
      <4>3. xseen[j] \in Nat
        BY DEF StreamTypes
      <4> QED BY <2>2, <4>1, <4>2, <4>3
    <3> QED BY <1>1, <2>1, <2>2, <2>4, <3>1 DEF FlowInv
  <2>6. ASSUME Waiting, NEW i \in 1 .. Len(xdown') PROVE FrameInv(i)'
    <3>1. Len(xdown) > 0 \/ xclient # "asked"
      BY <2>2, <2>4, <2>6 DEF FlowInv, StreamTypes
    <3>2. xdown'[i] # "x"
      BY <2>1, <2>2, <2>4, <2>6 DEF FlowInv
    <3>3. CASE i \in 1 .. Len(xdown)
      BY <1>1, <2>2, <2>4, <2>6, <3>2, <3>3 DEF FrameInv
    <3>4. CASE i = Len(xdown) + 1
      BY <1>1, <2>1, <2>2, <3>1, <3>2, <3>4 DEF FrameInv
    <3> QED BY <2>2, <3>3, <3>4
  <2>7. OutputInv'
    <3>1. Waiting' <=> Waiting
      BY <1>1 DEF Waiting
    <3>2. (xstatus = "command" => xclient = "done" /\ xcmd = "exited" /\ OutputComplete)'
      BY <1>1 DEF OutputInv, OutputComplete
    <3> QED BY <1>1, <2>5, <2>6, <3>1, <3>2 DEF OutputInv
  <2> QED BY <1>2, <2>3, <2>7
<1> QED BY <1>3, <1>4 DEF ReadSource

\* What a command that has exited wrote is queued, then its exit.
LEMMA DrainedStep ==
  ASSUME ExecInv, StreamInv, CommandEnded
  PROVE  /\ xdown' \in Seq(DownFrame) /\ Len(xdown') \in Nat /\ Len(xdown') > Len(xdown)
         /\ Len(xdown) \in Nat
         /\ \A i \in 1 .. Len(xdown) : xdown'[i] = xdown[i]
         /\ \A i \in Len(xdown) + 1 .. Len(xdown') :
              /\ xdown'[i] \notin {"ok", "error"}
              /\ xdown'[i] = "x" => i = Len(xdown')
         /\ \A k \in Out : \/ Chunks(xdown', k) = Chunks(xdown, k) + xout[k]
                           \/ k = "e" /\ xheld
<1>1. xdown \in Seq(DownFrame) /\ Len(xdown) \in Nat
  BY DEF StreamInv, StreamTypes
<1>2. {"o", "e", "x"} \subseteq DownFrame /\ xout["o"] \in Nat /\ xout["e"] \in Nat
      /\ Out = {"o", "e"}
  BY DEF DownFrame, ExecInv, ExecTypeOK, Out
<1>3. PICK m \in 0 .. xout["e"] :
        /\ xdown' = xdown \o (Chunk("o", xout["o"]) \o Chunk("e", m)) \o <<"x">>
        /\ m = xout["e"] \/ xheld
  <2>1. PICK d \in Drained : xdown' = xdown \o d \o <<"x">>
    BY DEF CommandEnded
  <2>2. PICK m \in IF xheld THEN 0 .. xout["e"] ELSE {xout["e"]} :
          d = Chunk("o", xout["o"]) \o Chunk("e", m)
    BY <2>1 DEF Drained
  <2>3. m \in 0 .. xout["e"] /\ (m = xout["e"] \/ xheld)
    BY <1>2, <2>2
  <2> QED BY <2>1, <2>2, <2>3
<1> DEFINE a == xdown \o Chunk("o", xout["o"])
           c == a \o Chunk("e", m)
<1>4. /\ a \in Seq(DownFrame) /\ Len(a) = Len(xdown) + xout["o"]
      /\ \A k : Chunks(a, k) = Chunks(xdown, k) + (IF k = "o" THEN xout["o"] ELSE 0)
      /\ \A i \in 1 .. Len(a) : a[i] = IF i <= Len(xdown) THEN xdown[i] ELSE "o"
  <2>1. \A k : Chunks(a, k) = Chunks(xdown, k) + (IF k = "o" THEN xout["o"] ELSE 0)
    BY <1>1, <1>2, ChunksUnread DEF Chunk
  <2>2. Chunk("o", xout["o"]) \in Seq(DownFrame) /\ Len(Chunk("o", xout["o"])) = xout["o"]
    BY <1>2 DEF Chunk
  <2>3. a \in Seq(DownFrame) /\ Len(a) = Len(xdown) + xout["o"]
    BY <1>1, <1>2, <2>2
  <2>4. \A i \in 1 .. Len(a) : a[i] = IF i <= Len(xdown) THEN xdown[i] ELSE "o"
    BY <1>1, <1>2, <2>2, <2>3 DEF Chunk
  <2> QED BY <2>1, <2>3, <2>4
<1>5. /\ c \in Seq(DownFrame) /\ Len(c) = Len(a) + m
      /\ \A k : Chunks(c, k) = Chunks(a, k) + (IF k = "e" THEN m ELSE 0)
      /\ \A i \in 1 .. Len(c) : c[i] = IF i <= Len(a) THEN a[i] ELSE "e"
  <2> HIDE DEF a
  <2>1. Len(a) \in Nat /\ m \in Nat
    BY <1>2, <1>4
  <2>2. \A k : Chunks(c, k) = Chunks(a, k) + (IF k = "e" THEN m ELSE 0)
    BY <1>2, <1>4, <2>1, ChunksUnread DEF Chunk
  <2>3. Chunk("e", m) \in Seq(DownFrame) /\ Len(Chunk("e", m)) = m
    BY <1>2, <2>1 DEF Chunk
  <2>4. c \in Seq(DownFrame) /\ Len(c) = Len(a) + m
    <3>1. a \in Seq(DownFrame)
      BY <1>4
    <3>2. c \in Seq(DownFrame) /\ Len(c) = Len(a) + Len(Chunk("e", m))
      BY <2>3, <3>1
    <3> QED BY <2>3, <3>2
  <2>5. \A i \in 1 .. Len(c) : c[i] = IF i <= Len(a) THEN a[i] ELSE "e"
    BY <1>4, <2>1, <2>3, <2>4 DEF Chunk
  <2> QED BY <2>2, <2>4, <2>5
<1>6. xdown' = Append(c, "x")
  <2>1. /\ Chunk("o", xout["o"]) \in Seq(DownFrame) /\ Chunk("e", m) \in Seq(DownFrame)
    BY <1>2 DEF Chunk
  <2>2. c = xdown \o (Chunk("o", xout["o"]) \o Chunk("e", m))
    BY <1>1, <2>1
  <2> HIDE DEF c
  <2> QED BY <1>3, <1>5, <2>2
<1> HIDE DEF a, c
<1>7. /\ c \in Seq(DownFrame) /\ Len(c) \in Nat /\ Len(c) >= Len(xdown)
      /\ \A i \in 1 .. Len(c) :
           /\ i <= Len(xdown) => c[i] = xdown[i]
           /\ i > Len(xdown) => c[i] \in {"o", "e"}
      /\ \A k \in Out : Chunks(c, k) = Chunks(xdown, k) + xout[k] \/ (k = "e" /\ xheld)
  <2>1. Len(a) \in Nat /\ Len(a) >= Len(xdown) /\ Len(c) >= Len(a) /\ Len(c) \in Nat
    BY <1>1, <1>2, <1>4, <1>5
  <2>2. ASSUME NEW i \in 1 .. Len(c)
        PROVE  /\ i <= Len(xdown) => c[i] = xdown[i]
               /\ i > Len(xdown) => c[i] \in {"o", "e"}
    BY <1>1, <1>4, <1>5, <2>1
  <2>3. \A k \in Out : Chunks(xdown, k) \in Nat
    BY <1>1, ChunksType
  <2>4. Chunks(c, "o") = Chunks(xdown, "o") + xout["o"]
    BY <1>2, <1>4, <1>5, <2>3
  <2>5. Chunks(c, "e") = Chunks(xdown, "e") + m
    BY <1>2, <1>4, <1>5, <2>3
  <2>6. ASSUME NEW k \in Out
        PROVE  Chunks(c, k) = Chunks(xdown, k) + xout[k] \/ (k = "e" /\ xheld)
    BY <1>2, <1>3, <2>4, <2>5
  <2> QED BY <1>5, <2>1, <2>2, <2>6
<1>8. /\ xdown' \in Seq(DownFrame) /\ Len(xdown') = Len(c) + 1 /\ xdown'[Len(c) + 1] = "x"
      /\ \A i \in 1 .. Len(c) : xdown'[i] = c[i]
  BY <1>2, <1>6, <1>7
<1>9. \A k \in Out : Chunks(xdown', k) = Chunks(c, k)
  <2>1. ASSUME NEW k \in Out PROVE Chunks(xdown', k) = Chunks(c, k)
    <3>1. Chunks(xdown', k) = Chunks(c, k) + (IF "x" = k THEN 1 ELSE 0)
      BY <1>2, <1>6, <1>7, ChunksAppend
    <3>2. Chunks(c, k) \in Nat
      BY <1>7, ChunksType
    <3> QED BY <1>2, <3>1, <3>2
  <2> QED BY <2>1
<1>10. \A i \in 1 .. Len(xdown) : i \in 1 .. Len(c)
  BY <1>1, <1>7
<1>11. ASSUME NEW i \in Len(xdown) + 1 .. Len(xdown')
       PROVE  xdown'[i] \notin {"ok", "error"} /\ (xdown'[i] = "x" => i = Len(xdown'))
  <2>1. CASE i = Len(c) + 1
    BY <1>8, <2>1
  <2>2. CASE i # Len(c) + 1
    <3>1. i \in 1 .. Len(c) /\ i > Len(xdown)
      BY <1>1, <1>7, <1>8, <2>2
    <3> QED BY <1>7, <1>8, <3>1
  <2> QED BY <2>1, <2>2
<1> QED BY <1>1, <1>7, <1>8, <1>9, <1>10, <1>11

LEMMA EndedStep ==
  ASSUME ExecInv, StreamInv, CommandEnded PROVE StreamInv'
<1> USE DEF StreamInv, xcaller, xclientSide, xagentSide, xcommand
<1>1. /\ xpc = "relay" /\ xcmd = "exited" /\ xpc' = "send"
      /\ UNCHANGED <<xtocmd, xeof, xin, xgot, xsaw, xout, xwrote>>
      /\ UNCHANGED <<xcaller, xclientSide, xsigs, xup, xconn, xagent, xactive, xcommand, xseen>>
  BY DEF CommandEnded, CloseAll
<1>2. /\ xdown' \in Seq(DownFrame) /\ Len(xdown') \in Nat /\ Len(xdown') > Len(xdown)
      /\ Len(xdown) \in Nat
      /\ \A i \in 1 .. Len(xdown) : xdown'[i] = xdown[i]
      /\ \A i \in Len(xdown) + 1 .. Len(xdown') :
           /\ xdown'[i] \notin {"ok", "error"}
           /\ xdown'[i] = "x" => i = Len(xdown')
      /\ \A k \in Out : \/ Chunks(xdown', k) = Chunks(xdown, k) + xout[k]
                        \/ k = "e" /\ xheld
  BY DrainedStep
<1>3. StreamTypes' /\ FreshInv'
  BY <1>1, <1>2 DEF StreamTypes, FreshInv
<1>4. InputInv'
  BY <1>1 DEF InputInv, Waiting
<1>5. OutputInv'
  <2>1. Waiting => FlowInv /\ \A i \in 1 .. Len(xdown) : FrameInv(i)
    BY <1>1 DEF OutputInv
  <2>2. Waiting => AllSent'
    <3>1. ASSUME Waiting, NEW k \in Out
          PROVE  xseen[k] + Chunks(xdown', k) = xwrote[k] \/ (k = "e" /\ xheld)
      <4>1. xseen[k] + Chunks(xdown, k) + xout[k] = xwrote[k]
        BY <2>1, <3>1 DEF FlowInv
      <4>2. xseen[k] \in Nat /\ xout[k] \in Nat /\ Chunks(xdown, k) \in Nat
        BY ChunksType DEF StreamTypes, ExecInv, ExecTypeOK
      <4> QED BY <1>2, <4>1, <4>2
    <3> QED BY <1>1, <3>1 DEF AllSent
  <2>3. ASSUME Waiting, NEW i \in 1 .. Len(xdown') PROVE FrameInv(i)'
    <3>1. CASE i \in 1 .. Len(xdown)
      <4>1. FrameInv(i) /\ xdown[i] # "x" /\ xdown'[i] = xdown[i]
        BY <1>2, <2>1, <2>3, <3>1 DEF FlowInv
      <4> QED BY <1>1, <4>1 DEF FrameInv
    <3>2. CASE i \in Len(xdown) + 1 .. Len(xdown')
      <4>1. ~(i = 1 /\ xclient = "asked")
        BY <1>2, <2>1, <2>3, <3>2 DEF FlowInv, StreamTypes
      <4> QED BY <1>1, <1>2, <2>2, <2>3, <3>2, <4>1 DEF FrameInv
    <3> QED BY <1>2, <3>1, <3>2
  <2>4. (xstatus = "command" => xclient = "done" /\ xcmd = "exited" /\ OutputComplete)'
    BY <1>1 DEF OutputInv, OutputComplete
  <2>5. Waiting' <=> Waiting
    BY <1>1 DEF Waiting
  <2> QED BY <1>1, <2>3, <2>4, <2>5 DEF OutputInv
<1> QED BY <1>3, <1>4, <1>5

\* The rest of what the agent's thread does, and its exit.
LEMMA ThreadEndsStep ==
  ASSUME ExecInv, StreamInv, LostClient \/ SendRest \/ HungUp \/ HandleEnds \/ IdleExit
  PROVE  StreamInv'
<1> USE DEF StreamInv, xcaller, xclientSide, xagentSide, xinput, xoutput, xcommand
<1>1. CASE SendRest
  <2>1. PICK n \in 0 .. Len(xdown) : xdown' = SubSeq(xdown, 1, n)
    BY <1>1 DEF SendRest
  <2>2. /\ xpc = "send" /\ xpc' = "end"
        /\ UNCHANGED <<xcaller, xclientSide, xsigs, xup, xconn, xinput, xoutput, xcommand, xseen>>
    BY <1>1 DEF SendRest
  <2>3. /\ xdown \in Seq(DownFrame) /\ xdown' \in Seq(DownFrame) /\ Len(xdown') = n
        /\ Len(xdown) \in Nat /\ \A i \in 1 .. n : xdown'[i] = xdown[i] /\ i \in 1 .. Len(xdown)
    BY <2>1 DEF StreamTypes
  <2>4. StreamTypes' /\ FreshInv'
    BY <2>2, <2>3 DEF StreamTypes, FreshInv
  <2>5. InputInv'
    BY <2>2 DEF InputInv, Waiting
  <2>6. ASSUME Waiting, NEW i \in 1 .. Len(xdown') PROVE FrameInv(i)'
    <3>1. i \in 1 .. n /\ i \in 1 .. Len(xdown) /\ xdown'[i] = xdown[i] /\ FrameInv(i)
      BY <2>3, <2>6 DEF OutputInv
    <3>2. xdown[i] = "x" => xdown' = xdown
      <4>1. xdown[i] = "x" => n = Len(xdown)
        BY <2>3, <3>1 DEF FrameInv
      <4> QED BY <2>1, <2>3, <4>1
    <3> QED BY <2>2, <3>1, <3>2 DEF FrameInv, AllSent
  <2>7. OutputInv'
    <3>1. Waiting' <=> Waiting
      BY <2>2 DEF Waiting
    <3>2. (xstatus = "command" => xclient = "done" /\ xcmd = "exited" /\ OutputComplete)'
      BY <2>2 DEF OutputInv, OutputComplete
    <3> QED BY <2>2, <2>6, <3>1, <3>2 DEF OutputInv
  <2> QED BY <2>4, <2>5, <2>7
<1>2. CASE LostClient \/ HungUp \/ HandleEnds \/ IdleExit
  <2>1. /\ UNCHANGED <<xcaller, xclientSide, xsigs, xup, xdown, xtocmd, xeof, xin, xgot, xsaw,
                       xout, xwrote, xcommand, xseen>>
        /\ xpc' \notin {"none", "accepted", "start"} \/ UNCHANGED <<xpc, xstdin>>
        /\ xpc' # "relay" \/ UNCHANGED <<xpc, xstdin>>
    <3>1. CASE LostClient
      BY <3>1 DEF LostClient, CloseAll
    <3>2. CASE HungUp \/ HandleEnds
      BY <3>2 DEF HungUp, HandleEnds
    <3>3. CASE IdleExit
      BY <3>3 DEF IdleExit
    <3> QED BY <1>2, <3>1, <3>2, <3>3
  <2>2. StreamTypes' /\ FreshInv'
    BY <2>1 DEF StreamTypes, FreshInv
  <2>3. InputInv'
    BY <2>1 DEF InputInv, Waiting
  <2>4. OutputInv'
    BY <2>1 DEF OutputInv, OutputComplete, FrameInv, FlowInv, AllSent, Waiting
  <2> QED BY <2>2, <2>3, <2>4
<1> QED BY <1>1, <1>2

LEMMA CmdReadStep ==
  ASSUME ExecInv, StreamInv, CmdRead PROVE StreamInv'
<1> USE DEF StreamInv, xcaller, xclientSide, xagentSide, xinput, xoutput, xcommand
<1>1. /\ xcmd = "runs" /\ "i" \in xends
      /\ \/ xin > 0 /\ xin' = xin - 1 /\ xgot' = xgot + 1 /\ UNCHANGED xsaw
         \/ xin = 0 /\ ~xstdin /\ ~xsaw /\ xsaw' = TRUE /\ UNCHANGED <<xin, xgot>>
      /\ UNCHANGED <<xcaller, xclientSide, xsigs, xup, xdown, xconn, xagentSide, xtocmd,
                     xeof, xstdin, xoutput, xcommand, xseen>>
  BY DEF CmdRead
<1>2. xpc \notin {"none", "accepted", "start"}
  BY <1>1 DEF ExecInv
<1>3. StreamTypes' /\ FreshInv'
  BY <1>1, <1>2 DEF StreamTypes, FreshInv
<1>4. OutputInv'
  BY <1>1 DEF OutputInv, OutputComplete, FrameInv, FlowInv, AllSent, Waiting
<1>5. /\ xgot \in Nat /\ xin \in Nat /\ xtocmd \in Nat /\ xleft \in Nat /\ MaxIn \in Nat
      /\ Chunks(xup, "d") \in Nat
      /\ Chunks(xup, "d") = 0 <=> \A i \in 1 .. Len(xup) : xup[i] # "d"
  BY ChunksType, ExecAssumption DEF StreamTypes, ExecInv, ExecTypeOK
<1>6. Waiting /\ xpc = "relay" =>
        /\ xgot + xin + xtocmd + Chunks(xup, "d") + xleft = MaxIn
        /\ xeof => ~xreading /\ Chunks(xup, "d") = 0
        /\ ~xstdin => xeof /\ xtocmd = 0
        /\ xsaw => ~xreading /\ xgot = MaxIn
  BY <1>1, <1>5 DEF InputInv
<1>7. ~xreading => xleft = 0
  BY DEF InputInv
<1>8. Waiting /\ xpc = "relay" =>
        /\ xgot' + xin' + xtocmd + Chunks(xup, "d") + xleft = MaxIn
        /\ xsaw' => ~xreading /\ xgot' = MaxIn
  <2>1. CASE xin > 0 /\ xin' = xin - 1 /\ xgot' = xgot + 1 /\ UNCHANGED xsaw
    BY <1>5, <1>6, <2>1
  <2>2. CASE xin = 0 /\ ~xstdin /\ UNCHANGED <<xin, xgot>>
    BY <1>5, <1>6, <1>7, <2>2
  <2> QED BY <1>1, <2>1, <2>2
<1>9. InputInv'
  BY <1>1, <1>8 DEF InputInv, Waiting
<1> QED BY <1>3, <1>4, <1>9

LEMMA CmdWriteStep ==
  ASSUME ExecInv, StreamInv, NEW k \in Out, CmdWrite(k) PROVE StreamInv'
<1> USE DEF StreamInv, xcaller, xclientSide, xagentSide, xinput, xoutput, xcommand
<1>1. /\ xcmd = "runs"
      /\ xout' = [xout EXCEPT ![k] = @ + 1] /\ xwrote' = [xwrote EXCEPT ![k] = @ + 1]
      /\ UNCHANGED <<xcaller, xclientSide, xsigs, xup, xdown, xconn, xagentSide, xinput,
                     xsources, xcommand, xseen>>
  BY DEF CmdWrite
<1>2. xpc \notin {"none", "accepted", "start"}
  BY <1>1 DEF ExecInv
<1>3. StreamTypes' /\ FreshInv'
  BY <1>1, <1>2 DEF StreamTypes, FreshInv
<1>4. InputInv'
  BY <1>1 DEF InputInv, Waiting
<1>5. \A j \in Out : /\ xseen[j] \in Nat /\ Chunks(xdown, j) \in Nat
                     /\ xout[j] \in Nat /\ xwrote[j] \in Nat
                     /\ xout'[j] = xout[j] + (IF k = j THEN 1 ELSE 0)
                     /\ xwrote'[j] = xwrote[j] + (IF k = j THEN 1 ELSE 0)
  BY <1>1, ChunksType DEF StreamTypes, ExecInv, ExecTypeOK
<1>6. FlowInv => FlowInv'
  <2>1. ASSUME FlowInv, NEW j \in Out
        PROVE  xseen[j] + Chunks(xdown, j) + xout'[j] = xwrote'[j]
    <3>1. xseen[j] + Chunks(xdown, j) + xout[j] = xwrote[j]
      BY <2>1 DEF FlowInv
    <3> QED BY <1>5, <3>1
  <2> QED BY <1>1, <2>1 DEF FlowInv
<1>7. ASSUME NEW i, FrameInv(i) PROVE FrameInv(i)'
  BY <1>1, <1>7 DEF FrameInv
<1>8. OutputInv'
  BY <1>1, <1>6, <1>7 DEF OutputInv, Waiting
<1> QED BY <1>3, <1>4, <1>8

LEMMA CmdEndsStep ==
  ASSUME ExecInv, StreamInv, CmdExits \/ \E e \in {"i"} \cup Out : CmdCloses(e)
  PROVE  StreamInv'
<1> USE DEF StreamInv, xcaller, xclientSide, xagentSide, xinput, xoutput
<1>1. /\ xcmd = "runs" /\ xends' \subseteq xends
      /\ UNCHANGED <<xcaller, xclientSide, xsigs, xup, xdown, xconn, xagentSide, xinput,
                     xoutput, xseen>>
  BY DEF CmdExits, CmdCloses
<1>2. StreamTypes' /\ FreshInv'
  BY <1>1 DEF StreamTypes, FreshInv
<1>3. InputInv'
  BY <1>1 DEF InputInv, Waiting
<1>4. ASSUME NEW i, FrameInv(i) PROVE FrameInv(i)'
  BY <1>1, <1>4 DEF FrameInv
<1>5. FlowInv => FlowInv'
  BY <1>1 DEF FlowInv
<1>6. OutputInv'
  BY <1>1, <1>4, <1>5 DEF OutputInv, Waiting
<1> QED BY <1>2, <1>3, <1>6

LEMMA StreamStep == ExecInv /\ StreamInv /\ [ExecNext]_execVars => StreamInv'
<1> SUFFICES ASSUME ExecInv, StreamInv, [ExecNext]_execVars PROVE StreamInv'
  OBVIOUS
<1>1. CASE GoesAway
  BY <1>1, EndsStep DEF GoesAway, Waiting
<1>2. CASE FindsGone
  BY <1>2, EndsStep DEF FindsGone, Waiting
<1>3. CASE UNCHANGED execVars
  <2>1. StreamTypes' /\ FreshInv' /\ InputInv'
    BY <1>3 DEF execVars, xcaller, xclientSide, xagentSide, xinput, xoutput, xcommand,
                StreamInv, StreamTypes, FreshInv, InputInv, Waiting
  <2>2. OutputInv'
    BY <1>3 DEF execVars, xcaller, xclientSide, xagentSide, xinput, xoutput, xcommand,
                StreamInv, OutputInv, OutputComplete, FrameInv, FlowInv, AllSent, Waiting
  <2> QED BY <2>1, <2>2 DEF StreamInv
<1> QED BY <1>1, <1>2, <1>3, LauncherStep, ReadReplyStep, StdinStep, ConsumeStep, ServeStep,
           FrameStep, WriteStep, SourceStep, EndedStep, ThreadEndsStep, CmdReadStep,
           CmdWriteStep, CmdEndsStep DEF ExecNext, ClientStep, AgentStep

LEMMA StreamsWhole == ExecInv /\ StreamInv => StreamsComplete
<1> SUFFICES ASSUME ExecInv, StreamInv PROVE OutputComplete /\ InputComplete
  BY DEF StreamsComplete
<1>1. OutputComplete
  BY DEF StreamInv, OutputInv, OutputComplete
<1>2. InputComplete
  BY DEF StreamInv, InputInv, InputComplete, Waiting
<1> QED BY <1>1, <1>2

-----------------------------------------------------------------------------
(* The broker's answers                                                    *)

Message == Final \cup Streams
Before == {"read", "validate", "decide", "start", "list", "update", "helper", "open"}

OpsTypes ==
  /\ TypeOK
  /\ \A r \in Request : pumping[r] # {} => pc[r] = "pump"

\* Nothing is sent ahead of an answer but output, all of which is accounted for
\* until the answer.
ReplyInv(r) ==
  /\ pc[r] \in Before => sent[r] = <<>>
  /\ pc[r] = "pump" =>
       /\ \A i \in 1 .. Len(sent[r]) : sent[r][i] \in Streams
       /\ Len(sent[r]) + left[r]["stdout"] + left[r]["stderr"] = total[r]
       /\ \A s \in Streams \ pumping[r] : left[r][s] = 0
  /\ pc[r] \in {"relay", "close", "closed"} =>
       \/ \E m \in Final \ {"exit"} : sent[r] = <<m>>
       \/ /\ Len(sent[r]) = total[r] + 1 /\ sent[r][Len(sent[r])] = "exit"
          /\ \A i \in 1 .. total[r] : sent[r][i] \in Streams

\* A unit that was found and isn't left to do has the address.
NetInv(r) ==
  /\ pc[r] \in {"list", "update"} => op[r] = "grant-net"
  /\ pc[r] = "update" => listed[r] \subseteq extended[r] \cup todo[r]
  /\ pc[r] \notin {"update", "close", "closed"} => extended[r] = {}
  /\ pc[r] \in {"start", "pump", "helper", "open", "relay"} => op[r] # "grant-net"
  /\ pc[r] \in {"close", "closed"} =>
       /\ op[r] = "grant-net" /\ Contains(sent[r], "granted") => listed[r] \subseteq extended[r]
       /\ Contains(sent[r], "denied") => extended[r] = {}

OpsInv == OpsTypes /\ \A r \in Request : ReplyInv(r) /\ NetInv(r)

LEMMA OpsStart == Init => OpsInv
<1> SUFFICES ASSUME Init PROVE OpsInv
  OBVIOUS
<1>1. TypeOK
  BY OpsAssumption DEF Init, TypeOK, PCs
<1>2. ASSUME NEW r \in Request PROVE ReplyInv(r) /\ NetInv(r) /\ pumping[r] = {}
  BY DEF Init, ReplyInv, NetInv
<1> QED BY <1>1, <1>2 DEF OpsInv, OpsTypes

LEMMA Sent ==
  ASSUME TypeOK, NEW r \in Request, NEW m \in Message, Send(r, m)
  PROVE  /\ sent' \in [Request -> Seq(Message)]
         /\ sent'[r] = Append(sent[r], m)
         /\ \A h \in Request : h # r => sent'[h] = sent[h]
<1>1. sent \in [Request -> Seq(Message)]
  BY DEF TypeOK, Message
<1>2. Append(sent[r], m) \in Seq(Message)
  BY <1>1
<1> QED BY <1>1, <1>2 DEF Send

LEMMA Gone ==
  ASSUME TypeOK, NEW r \in Request, NEW from \in PCs, NEW to \in PCs, Goto(r, from, to)
  PROVE  /\ pc' \in [Request -> PCs] /\ pc[r] = from /\ pc'[r] = to
         /\ \A h \in Request : h # r => pc'[h] = pc[h]
  BY DEF TypeOK, Goto

\* An answer that ends an operation.
LEMMA Finished ==
  ASSUME OpsInv, NEW r \in Request, NEW from \in Before, NEW m \in Final \ {"exit"},
         Finish(r, from, m)
  PROVE  /\ sent' \in [Request -> Seq(Message)] /\ sent'[r] = <<m>>
         /\ pc' \in [Request -> PCs] /\ pc[r] = from /\ pc'[r] = "close"
         /\ \A h \in Request : h # r => pc'[h] = pc[h] /\ sent'[h] = sent[h]
<1>1. TypeOK /\ ReplyInv(r)
  BY DEF OpsInv, OpsTypes
<1>2. pc' \in [Request -> PCs] /\ pc[r] = from /\ pc'[r] = "close"
      /\ \A h \in Request : h # r => pc'[h] = pc[h]
  BY <1>1, Gone DEF Finish, Before, PCs
<1>3. sent' \in [Request -> Seq(Message)] /\ sent'[r] = Append(sent[r], m)
      /\ \A h \in Request : h # r => sent'[h] = sent[h]
  BY <1>1, Sent DEF Finish, Message
<1>4. sent[r] = <<>>
  BY <1>1, <1>2 DEF ReplyInv
<1> QED BY <1>2, <1>3, <1>4

LEMMA OneMessage ==
  ASSUME NEW m \in Message, NEW s, s = <<m>>
  PROVE  \A x : Contains(s, x) <=> x = m
  BY DEF Contains

\* A step of a request leaves the others alone.
LEMMA Others ==
  ASSUME OpsInv, NEW r \in Request, UNCHANGED op,
         \A h \in Request : h # r =>
           /\ pc'[h] = pc[h] /\ sent'[h] = sent[h] /\ left'[h] = left[h]
           /\ total'[h] = total[h] /\ pumping'[h] = pumping[h] /\ listed'[h] = listed[h]
           /\ todo'[h] = todo[h] /\ extended'[h] = extended[h],
         TypeOK', ReplyInv(r)', NetInv(r)', pumping'[r] # {} => pc'[r] = "pump"
  PROVE  OpsInv'
<1>1. ASSUME NEW h \in Request, h # r
      PROVE  ReplyInv(h)' /\ NetInv(h)' /\ (pumping'[h] # {} => pc'[h] = "pump")
  BY <1>1 DEF OpsInv, OpsTypes, ReplyInv, NetInv, Contains
<1>2. ASSUME NEW h \in Request
      PROVE  ReplyInv(h)' /\ NetInv(h)' /\ (pumping'[h] # {} => pc'[h] = "pump")
  BY <1>1
<1> QED BY <1>2 DEF OpsInv, OpsTypes

\* The answers of all operations but exec, where nothing else changes.
LEMMA Answered ==
  ASSUME OpsInv, NEW r \in Request, NEW from \in Before, NEW m \in Final \ {"exit"},
         Finish(r, from, m), UNCHANGED <<op, exec, net>>, running' \subseteq Unit,
         m = "granted" => op[r] # "grant-net" \/ listed[r] \subseteq extended[r],
         m = "denied" => extended[r] = {}
  PROVE  OpsInv'
<1>1. /\ sent' \in [Request -> Seq(Message)] /\ sent'[r] = <<m>>
      /\ pc' \in [Request -> PCs] /\ pc[r] = from /\ pc'[r] = "close"
      /\ \A h \in Request : h # r => pc'[h] = pc[h] /\ sent'[h] = sent[h]
  BY Finished
<1>2. /\ op' = op /\ left' = left /\ total' = total /\ pumping' = pumping
      /\ listed' = listed /\ todo' = todo /\ extended' = extended
  BY DEF exec, net
<1>3. TypeOK'
  BY <1>1, <1>2 DEF OpsInv, OpsTypes, TypeOK, Message
<1>4. ReplyInv(r)'
  BY <1>1 DEF ReplyInv, Before
<1>5. \A x : Contains(sent'[r], x) <=> x = m
  BY <1>1, OneMessage DEF Message
<1>6. NetInv(r)'
  BY <1>1, <1>2, <1>5 DEF NetInv
<1>7. pumping[r] = {}
  BY <1>1 DEF OpsInv, OpsTypes, Before
<1> QED BY <1>1, <1>2, <1>3, <1>4, <1>6, <1>7, Others

\* A step on the way to an answer, with nothing sent.
LEMMA Passed ==
  ASSUME OpsInv, NEW r \in Request, NEW from \in Before, NEW to \in Before,
         Goto(r, from, to), UNCHANGED <<sent, op, exec, net, running>>,
         from # "update" /\ to # "update",
         to \in {"helper", "open", "start"} => op[r] # "grant-net",
         to = "list" => op[r] = "grant-net"
  PROVE  OpsInv'
<1>1. /\ pc' \in [Request -> PCs] /\ pc[r] = from /\ pc'[r] = to
      /\ \A h \in Request : h # r => pc'[h] = pc[h]
  BY Gone DEF OpsInv, OpsTypes, Before, PCs
<1>2. /\ op' = op /\ left' = left /\ total' = total /\ pumping' = pumping /\ sent' = sent
      /\ listed' = listed /\ todo' = todo /\ extended' = extended /\ running' = running
  BY DEF exec, net
<1>3. TypeOK'
  BY <1>1, <1>2 DEF OpsInv, OpsTypes, TypeOK
<1>4. ReplyInv(r)'
  BY <1>1, <1>2 DEF OpsInv, ReplyInv, Before
<1>5. NetInv(r)'
  BY <1>1, <1>2 DEF OpsInv, NetInv, Before
<1>6. pumping[r] = {}
  BY <1>1 DEF OpsInv, OpsTypes, Before
<1> QED BY <1>1, <1>2, <1>3, <1>4, <1>5, <1>6, Others

\* exec: the output is pumped, then the exit sent.
LEMMA StartStep == ASSUME OpsInv, NEW r \in Request, Start(r) PROVE OpsInv'
<1>1. CASE Finish(r, "start", "error") /\ UNCHANGED exec
  BY <1>1, Answered DEF Start, Before, Final, OpsInv, OpsTypes, TypeOK
<1>2. CASE Goto(r, "start", "pump") /\ UNCHANGED sent
  <2>1. /\ pc' \in [Request -> PCs] /\ pc[r] = "start" /\ pc'[r] = "pump"
        /\ \A h \in Request : h # r => pc'[h] = pc[h]
    BY <1>2, Gone DEF OpsInv, OpsTypes, PCs
  <2>2. TypeOK
    BY DEF OpsInv, OpsTypes
  <2>3. PICK n, m \in 0 .. MaxChunks :
          /\ left' = [left EXCEPT ![r] = [s \in Streams |-> IF s = "stdout" THEN n ELSE m]]
          /\ total' = [total EXCEPT ![r] = n + m]
          /\ pumping' = [pumping EXCEPT ![r] = Streams]
    BY <1>2, <2>1 DEF Start, Finish, Goto
  <2>4. [s \in Streams |-> IF s = "stdout" THEN n ELSE m] \in [Streams -> 0 .. MaxChunks]
    OBVIOUS
  <2>5. /\ left' \in [Request -> [Streams -> 0 .. MaxChunks]]
        /\ total' \in [Request -> Nat] /\ pumping' \in [Request -> SUBSET Streams]
        /\ total'[r] = n + m /\ pumping'[r] = Streams
        /\ left'[r] = [s \in Streams |-> IF s = "stdout" THEN n ELSE m]
        /\ \A h \in Request : h # r =>
             left'[h] = left[h] /\ total'[h] = total[h] /\ pumping'[h] = pumping[h]
    BY <2>2, <2>3, <2>4, OpsAssumption DEF TypeOK
  <2>6. left'[r]["stdout"] = n /\ left'[r]["stderr"] = m
    BY <2>5 DEF Streams
  <2>7. UNCHANGED <<op, sent, listed, todo, extended, running>>
    BY <1>2 DEF Start, net
  <2>8. TypeOK'
    BY <2>1, <2>2, <2>5, <2>7 DEF TypeOK
  <2>9. sent[r] = <<>>
    BY <2>1 DEF OpsInv, ReplyInv, Before
  <2>10. ReplyInv(r)'
    BY <2>1, <2>5, <2>6, <2>7, <2>9 DEF ReplyInv, Before
  <2>11. NetInv(r)'
    BY <2>1, <2>7 DEF OpsInv, NetInv
  <2> QED BY <2>1, <2>5, <2>7, <2>8, <2>10, <2>11, Others
<1> QED BY <1>1, <1>2 DEF Start

LEMMA PumpStep ==
  ASSUME OpsInv, NEW r \in Request, NEW s \in Streams, Pump(r, s) PROVE OpsInv'
<1>1. TypeOK /\ pc[r] = "pump" /\ ReplyInv(r) /\ s \in pumping[r]
  BY DEF OpsInv, OpsTypes, Pump
<1>2. UNCHANGED <<pc, op, total, listed, todo, extended, running>>
  BY DEF Pump, net
<1>3. CASE left[r][s] > 0 /\ UNCHANGED pumping
  <2>1. left' = [left EXCEPT ![r][s] = @ - 1] /\ Send(r, s)
    BY <1>1, <1>3 DEF Pump, TypeOK
  <2>2. sent' \in [Request -> Seq(Message)] /\ sent'[r] = Append(sent[r], s)
        /\ \A h \in Request : h # r => sent'[h] = sent[h]
    BY <1>1, <2>1, Sent DEF Message
  <2>3. /\ left[r] \in [Streams -> 0 .. MaxChunks]
        /\ left' = [left EXCEPT ![r] = [left[r] EXCEPT ![s] = left[r][s] - 1]]
    BY <1>1, <2>1 DEF TypeOK
  <2>4. left[r][s] - 1 \in 0 .. MaxChunks
    BY <1>3, <2>3, OpsAssumption
  <2>5. /\ left' \in [Request -> [Streams -> 0 .. MaxChunks]]
        /\ left'[r] = [left[r] EXCEPT ![s] = left[r][s] - 1]
        /\ \A h \in Request : h # r => left'[h] = left[h]
    BY <1>1, <2>3, <2>4 DEF TypeOK
  <2>6. TypeOK'
    BY <1>1, <1>2, <1>3, <2>2, <2>5 DEF TypeOK, Message
  <2>7. sent[r] \in Seq(Message)
    BY <1>1 DEF TypeOK, Message
  <2>8. Len(sent'[r]) = Len(sent[r]) + 1
        /\ \A i \in 1 .. Len(sent'[r]) : sent'[r][i] \in Streams
    BY <1>1, <2>2, <2>7 DEF ReplyInv
  <2>9. Len(sent'[r]) + left'[r]["stdout"] + left'[r]["stderr"] = total'[r]
    <3>1. Len(sent[r]) \in Nat /\ left[r]["stdout"] \in Int /\ left[r]["stderr"] \in Int
          /\ total[r] \in Nat
      BY <1>1, <2>3, <2>7 DEF TypeOK, Streams
    <3>2. Len(sent[r]) + left[r]["stdout"] + left[r]["stderr"] = total[r]
      BY <1>1 DEF ReplyInv
    <3> DEFINE a == Len(sent[r])
               b == left[r]["stdout"]
               c == left[r]["stderr"]
    <3>5. a + 1 + (b - 1) + c = total[r] /\ a + 1 + b + (c - 1) = total[r]
      <4> HIDE DEF a, b, c
      <4> SUFFICES ASSUME a \in Int, b \in Int, c \in Int, total[r] \in Int,
                          a + b + c = total[r]
                   PROVE  a + 1 + (b - 1) + c = total[r] /\ a + 1 + b + (c - 1) = total[r]
        BY <3>1, <3>2 DEF a, b, c
      <4> QED OBVIOUS
    <3>3. CASE s = "stdout"
      <4>1. left'[r]["stdout"] = left[r]["stdout"] - 1 /\ left'[r]["stderr"] = left[r]["stderr"]
        BY <2>3, <2>5, <3>3 DEF Streams
      <4> QED BY <1>2, <2>8, <3>5, <4>1
    <3>4. CASE s = "stderr"
      <4>1. left'[r]["stderr"] = left[r]["stderr"] - 1 /\ left'[r]["stdout"] = left[r]["stdout"]
        BY <2>3, <2>5, <3>4 DEF Streams
      <4> QED BY <1>2, <2>8, <3>5, <4>1
    <3> QED BY <3>3, <3>4 DEF Streams
  <2>10. \A t \in Streams \ pumping'[r] : left'[r][t] = 0
    <3>1. \A t \in Streams \ pumping[r] : left[r][t] = 0 /\ t # s
      BY <1>1 DEF ReplyInv
    <3> QED BY <1>3, <2>3, <2>5, <3>1
  <2>11. ReplyInv(r)'
    BY <1>1, <1>2, <2>8, <2>9, <2>10 DEF ReplyInv, Before
  <2>12. NetInv(r)'
    BY <1>1, <1>2 DEF OpsInv, NetInv
  <2> QED BY <1>1, <1>2, <1>3, <2>2, <2>5, <2>6, <2>11, <2>12, Others
<1>4. CASE left[r][s] = 0 /\ UNCHANGED <<left, sent>>
  <2>1. pumping' = [pumping EXCEPT ![r] = @ \ {s}]
    BY <1>1, <1>4 DEF Pump, TypeOK
  <2>2. pumping' \in [Request -> SUBSET Streams] /\ pumping'[r] = pumping[r] \ {s}
        /\ \A h \in Request : h # r => pumping'[h] = pumping[h]
    BY <1>1, <2>1 DEF TypeOK
  <2>3. TypeOK'
    BY <1>1, <1>2, <1>4, <2>2 DEF TypeOK
  <2>4. ReplyInv(r)'
    BY <1>1, <1>2, <1>4, <2>2 DEF ReplyInv, Before
  <2>5. NetInv(r)'
    BY <1>1, <1>2, <1>4 DEF OpsInv, NetInv
  <2> QED BY <1>1, <1>2, <1>4, <2>2, <2>3, <2>4, <2>5, Others
<1> QED BY <1>3, <1>4 DEF Pump

LEMMA ExitStep == ASSUME OpsInv, NEW r \in Request, Exit(r) PROVE OpsInv'
<1>1. TypeOK /\ ReplyInv(r) /\ NetInv(r)
  BY DEF OpsInv, OpsTypes
<1>2. /\ pc' \in [Request -> PCs] /\ pc[r] = "pump" /\ pc'[r] = "close"
      /\ \A h \in Request : h # r => pc'[h] = pc[h]
  BY <1>1, Gone DEF Exit, Finish, PCs
<1>3. /\ sent' \in [Request -> Seq(Message)] /\ sent'[r] = Append(sent[r], "exit")
      /\ \A h \in Request : h # r => sent'[h] = sent[h]
  BY <1>1, Sent DEF Exit, Finish, Message, Final
<1>4. /\ pumping[r] = {} /\ op' = op /\ left' = left /\ total' = total
      /\ pumping' = pumping /\ listed' = listed /\ todo' = todo /\ extended' = extended
      /\ running' = running
  BY DEF Exit, exec, net
<1>5. TypeOK'
  BY <1>1, <1>2, <1>3, <1>4 DEF TypeOK, Message
<1>6. sent[r] \in Seq(Message) /\ total[r] \in Nat
  BY <1>1 DEF TypeOK, Message
<1>7. left[r]["stdout"] = 0 /\ left[r]["stderr"] = 0
  BY <1>1, <1>2, <1>4 DEF ReplyInv, Streams
<1>8. Len(sent[r]) = total[r] /\ \A i \in 1 .. Len(sent[r]) : sent[r][i] \in Streams
  BY <1>1, <1>2, <1>6, <1>7 DEF ReplyInv
<1>9. /\ Len(sent'[r]) = total[r] + 1 /\ sent'[r][total[r] + 1] = "exit"
      /\ \A i \in 1 .. total[r] : sent'[r][i] \in Streams
  BY <1>3, <1>6, <1>8
<1>10. ReplyInv(r)'
  BY <1>2, <1>4, <1>9 DEF ReplyInv, Before
<1>11. ~Contains(sent'[r], "granted") /\ ~Contains(sent'[r], "denied")
  <2>1. \A i \in 1 .. total[r] + 1 : i = total[r] + 1 \/ i \in 1 .. total[r]
    BY <1>6
  <2>2. \A i \in 1 .. Len(sent'[r]) : sent'[r][i] \in {"exit", "stdout", "stderr"}
    BY <1>9, <2>1 DEF Streams
  <2> QED BY <2>2 DEF Contains
<1>12. NetInv(r)'
  BY <1>2, <1>11 DEF NetInv
<1> QED BY <1>2, <1>3, <1>4, <1>5, <1>10, <1>12, Others

\* grant-net: the units found have the address once none is left to do.
LEMMA ListStep == ASSUME OpsInv, NEW r \in Request, ListUnits(r) PROVE OpsInv'
<1>1. TypeOK /\ NetInv(r) /\ ReplyInv(r) /\ UNCHANGED <<op, exec, running>>
  BY DEF OpsInv, OpsTypes, ListUnits
<1>2. ASSUME NEW m \in {"denied", "error"}, Finish(r, "list", m), UNCHANGED net
      PROVE  OpsInv'
  <2>1. m \in Final \ {"exit"} /\ "list" \in Before /\ m # "granted"
    BY DEF Final, Before
  <2>2. running' \subseteq Unit
    BY <1>1 DEF TypeOK
  <2>3. extended[r] = {}
    BY <1>1, <1>2 DEF NetInv, Finish, Goto
  <2> QED BY <1>1, <1>2, <2>1, <2>2, <2>3, Answered
<1>3. CASE /\ Goto(r, "list", "update")
           /\ listed' = [listed EXCEPT ![r] = running]
           /\ todo' = [todo EXCEPT ![r] = running]
           /\ UNCHANGED <<sent, extended>>
  <2>1. /\ pc' \in [Request -> PCs] /\ pc[r] = "list" /\ pc'[r] = "update"
        /\ \A h \in Request : h # r => pc'[h] = pc[h]
    BY <1>1, <1>3, Gone DEF PCs
  <2>2. /\ op' = op /\ left' = left /\ total' = total /\ pumping' = pumping
        /\ running' = running /\ sent' = sent /\ extended' = extended
    BY <1>1, <1>3 DEF exec
  <2>3. /\ listed' \in [Request -> SUBSET Unit] /\ todo' \in [Request -> SUBSET Unit]
        /\ listed'[r] = running /\ todo'[r] = running
        /\ \A h \in Request : h # r => listed'[h] = listed[h] /\ todo'[h] = todo[h]
    BY <1>1, <1>3 DEF TypeOK
  <2>4. TypeOK'
    BY <1>1, <2>1, <2>2, <2>3 DEF TypeOK
  <2>5. ReplyInv(r)'
    BY <1>1, <2>1, <2>2 DEF ReplyInv, Before
  <2>6. NetInv(r)'
    BY <1>1, <2>1, <2>2, <2>3 DEF NetInv
  <2>7. pumping[r] = {}
    BY <2>1 DEF OpsInv, OpsTypes
  <2> QED BY <2>1, <2>2, <2>3, <2>4, <2>5, <2>6, <2>7, Others
<1> QED BY <1>2, <1>3 DEF ListUnits

LEMMA UpdateStep ==
  ASSUME OpsInv, NEW r \in Request, NEW u \in Unit, UpdateUnit(r, u) PROVE OpsInv'
<1>1. /\ TypeOK /\ NetInv(r) /\ ReplyInv(r) /\ pc[r] = "update" /\ u \in todo[r]
      /\ op' = op /\ left' = left /\ total' = total /\ pumping' = pumping
      /\ listed' = listed /\ running' = running
  BY DEF OpsInv, OpsTypes, UpdateUnit, exec, Finish, Goto
<1>2. /\ extended' \in [Request -> SUBSET Unit]
      /\ extended'[r] \in {extended[r], extended[r] \cup {u}}
      /\ \A h \in Request : h # r => extended'[h] = extended[h]
  <2>1. extended' = [extended EXCEPT ![r] = @ \cup {u}] \/ extended' = extended
    BY DEF UpdateUnit
  <2>2. extended \in [Request -> SUBSET Unit]
    BY <1>1 DEF TypeOK
  <2>3. CASE extended' = extended
    BY <2>2, <2>3
  <2>4. CASE extended' = [extended EXCEPT ![r] = @ \cup {u}]
    <3>1. extended[r] \cup {u} \in SUBSET Unit
      BY <2>2
    <3> QED BY <2>2, <2>4, <3>1
  <2> QED BY <2>1, <2>3, <2>4
<1>3. pumping[r] = {}
  BY <1>1 DEF OpsInv, OpsTypes
<1>4. CASE /\ extended' = [extended EXCEPT ![r] = @ \cup {u}]
           /\ todo' = [todo EXCEPT ![r] = @ \ {u}]
           /\ UNCHANGED <<pc, sent>>
  <2>1. /\ todo' \in [Request -> SUBSET Unit] /\ todo'[r] = todo[r] \ {u}
        /\ extended'[r] = extended[r] \cup {u}
        /\ \A h \in Request : h # r => todo'[h] = todo[h]
    BY <1>1, <1>4 DEF TypeOK
  <2>2. TypeOK'
    BY <1>1, <1>2, <1>4, <2>1 DEF TypeOK
  <2>3. ReplyInv(r)'
    BY <1>1, <1>4 DEF ReplyInv, Before
  <2>4. NetInv(r)'
    BY <1>1, <1>4, <2>1 DEF NetInv
  <2> QED BY <1>1, <1>2, <1>3, <1>4, <2>1, <2>2, <2>3, <2>4, Others
<1>5. CASE Finish(r, "update", "error") /\ UNCHANGED todo
  <2>1. "update" \in Before /\ "error" \in Final \ {"exit"}
    BY DEF Before, Final
  <2>2. /\ sent' \in [Request -> Seq(Message)] /\ sent'[r] = <<"error">>
        /\ pc' \in [Request -> PCs] /\ pc'[r] = "close"
        /\ \A h \in Request : h # r => pc'[h] = pc[h] /\ sent'[h] = sent[h]
    BY <1>5, <2>1, Finished
  <2>3. TypeOK'
    BY <1>1, <1>2, <1>5, <2>2 DEF TypeOK, Message
  <2>4. ReplyInv(r)'
    BY <2>1, <2>2 DEF ReplyInv, Before
  <2>5. \A x : Contains(sent'[r], x) <=> x = "error"
    BY <2>2, OneMessage DEF Message, Final
  <2>6. NetInv(r)'
    BY <2>2, <2>5 DEF NetInv
  <2> QED BY <1>1, <1>2, <1>3, <1>5, <2>2, <2>3, <2>4, <2>6, Others
<1> QED BY <1>4, <1>5 DEF UpdateUnit

\* The other answers.
LEMMA AnswerStep ==
  ASSUME OpsInv, NEW r \in Request,
         Read(r) \/ Validate(r) \/ Decide(r) \/ Helper(r) \/ NetGranted(r)
  PROVE  OpsInv'
<1>1. TypeOK /\ NetInv(r) /\ ReplyInv(r) /\ running \subseteq Unit
  BY DEF OpsInv, OpsTypes, TypeOK
<1>2. UNCHANGED <<op, exec, net, running>>
  BY DEF Read, Validate, Decide, Helper, NetGranted
<1>3. ASSUME NEW from \in {"read", "validate", "decide"}, NEW m \in {"error", "denied"},
             Finish(r, from, m)
      PROVE  OpsInv'
  <2>1. from \in Before /\ m \in Final \ {"exit"} /\ m # "granted"
    BY DEF Before, Final
  <2>2. extended[r] = {}
    BY <1>1, <1>3 DEF NetInv, Finish, Goto
  <2> QED BY <1>1, <1>2, <1>3, <2>1, <2>2, Answered
<1>4. ASSUME NEW from \in {"read", "validate"}, NEW to \in {"validate", "decide"},
             Goto(r, from, to), UNCHANGED sent
      PROVE  OpsInv'
  BY <1>2, <1>4, Passed DEF Before
<1>5. CASE Goto(r, "decide", AfterDecide[op[r]]) /\ UNCHANGED sent
  <2>1. op[r] \in Ops
    BY <1>1 DEF TypeOK
  <2>2. /\ AfterDecide[op[r]] \in {"start", "list", "helper", "open"}
        /\ AfterDecide[op[r]] = "list" <=> op[r] = "grant-net"
    BY <2>1 DEF AfterDecide, Ops
  <2> QED BY <1>2, <1>5, <2>2, Passed DEF Before
<1>6. ASSUME NEW m \in {"granted", "error"}, Finish(r, "helper", m) PROVE OpsInv'
  <2>1. "helper" \in Before /\ m \in Final \ {"exit"} /\ m # "denied"
    BY DEF Before, Final
  <2>2. op[r] # "grant-net"
    BY <1>1, <1>6 DEF NetInv, Finish, Goto
  <2> QED BY <1>1, <1>2, <1>6, <2>1, <2>2, Answered
<1>7. CASE NetGranted(r)
  <2>1. Finish(r, "update", "granted") /\ pc[r] = "update" /\ todo[r] = {}
    BY <1>7 DEF NetGranted, Finish, Goto
  <2>2. "update" \in Before /\ "granted" \in Final \ {"exit"}
    BY DEF Before, Final
  <2>3. listed[r] \subseteq extended[r]
    BY <1>1, <2>1 DEF NetInv
  <2> QED BY <1>1, <1>2, <2>1, <2>2, <2>3, Answered
<1> QED BY <1>3, <1>4, <1>5, <1>6, <1>7 DEF Read, Validate, Decide, Helper

\* fido's answer comes ahead of the relay.
LEMMA OpenStep == ASSUME OpsInv, NEW r \in Request, Open(r) PROVE OpsInv'
<1>1. TypeOK /\ NetInv(r) /\ ReplyInv(r) /\ running \subseteq Unit
  BY DEF OpsInv, OpsTypes, TypeOK
<1>2. /\ op' = op /\ left' = left /\ total' = total /\ pumping' = pumping
      /\ listed' = listed /\ todo' = todo /\ extended' = extended /\ running' = running
  BY DEF Open, exec, net
<1>3. CASE Finish(r, "open", "error")
  <2>1. "open" \in Before /\ "error" \in Final \ {"exit"}
    BY DEF Before, Final
  <2>2. UNCHANGED <<op, exec, net>> /\ running' \subseteq Unit
    BY <1>1, <1>2 DEF Open
  <2> QED BY <1>3, <2>1, <2>2, Answered
<1>4. CASE Goto(r, "open", "relay") /\ Send(r, "granted")
  <2>1. /\ pc' \in [Request -> PCs] /\ pc[r] = "open" /\ pc'[r] = "relay"
        /\ \A h \in Request : h # r => pc'[h] = pc[h]
    BY <1>1, <1>4, Gone DEF PCs
  <2>2. /\ sent' \in [Request -> Seq(Message)] /\ sent'[r] = Append(sent[r], "granted")
        /\ \A h \in Request : h # r => sent'[h] = sent[h]
    BY <1>1, <1>4, Sent DEF Message, Final
  <2>3. sent[r] = <<>>
    BY <1>1, <2>1 DEF ReplyInv, Before
  <2>4. sent'[r] = <<"granted">>
    BY <2>2, <2>3
  <2>5. TypeOK'
    BY <1>1, <1>2, <2>1, <2>2 DEF TypeOK, Message
  <2>6. ReplyInv(r)'
    BY <2>1, <2>4 DEF ReplyInv, Before, Final
  <2>7. NetInv(r)'
    BY <1>1, <1>2, <2>1 DEF NetInv
  <2>8. pumping[r] = {}
    BY <2>1 DEF OpsInv, OpsTypes
  <2> QED BY <1>2, <2>1, <2>2, <2>5, <2>6, <2>7, <2>8, Others
<1> QED BY <1>3, <1>4 DEF Open

LEMMA CloseStep ==
  ASSUME OpsInv, NEW r \in Request, Relayed(r) \/ Close(r) PROVE OpsInv'
<1>1. TypeOK /\ NetInv(r) /\ ReplyInv(r)
  BY DEF OpsInv, OpsTypes
<1>2. /\ op' = op /\ left' = left /\ total' = total /\ pumping' = pumping /\ sent' = sent
      /\ listed' = listed /\ todo' = todo /\ extended' = extended /\ running' = running
  BY DEF Relayed, Close, exec, net
<1>3. /\ pc' \in [Request -> PCs]
      /\ \/ pc[r] = "relay" /\ pc'[r] = "close"
         \/ pc[r] = "close" /\ pc'[r] = "closed"
      /\ \A h \in Request : h # r => pc'[h] = pc[h]
  BY <1>1, Gone DEF Relayed, Close, PCs
<1>4. TypeOK'
  BY <1>1, <1>2, <1>3 DEF TypeOK
<1>5. ReplyInv(r)'
  BY <1>1, <1>2, <1>3 DEF ReplyInv, Before
<1>6. NetInv(r)'
  BY <1>1, <1>2, <1>3 DEF NetInv
<1>7. pumping[r] = {}
  BY <1>3 DEF OpsInv, OpsTypes
<1> QED BY <1>2, <1>3, <1>4, <1>5, <1>6, <1>7, Others

LEMMA OpsSame ==
  ASSUME OpsInv, UNCHANGED <<pc, sent, op, exec, net>>, running' \subseteq Unit
  PROVE  OpsInv'
<1>1. /\ op' = op /\ left' = left /\ total' = total /\ pumping' = pumping /\ sent' = sent
      /\ listed' = listed /\ todo' = todo /\ extended' = extended /\ pc' = pc
  BY DEF exec, net
<1>2. TypeOK'
  BY <1>1 DEF OpsInv, OpsTypes, TypeOK
<1> QED BY <1>1, <1>2 DEF OpsInv, OpsTypes, ReplyInv, NetInv

LEMMA OpsStep == OpsInv /\ [Next]_vars => OpsInv'
<1> SUFFICES ASSUME OpsInv, [Next]_vars PROVE OpsInv'
  OBVIOUS
<1>1. running \subseteq Unit
  BY DEF OpsInv, OpsTypes, TypeOK
<1>2. ASSUME NEW r \in Request, ThreadStep(r) PROVE OpsInv'
  BY <1>2, StartStep, PumpStep, ExitStep, ListStep, UpdateStep, AnswerStep, OpenStep,
     CloseStep DEF ThreadStep
<1>3. ASSUME NEW u \in Unit, UnitStarts(u) \/ UnitStops(u) PROVE OpsInv'
  BY <1>1, <1>3, OpsSame DEF UnitStarts, UnitStops
<1>4. CASE UNCHANGED vars
  BY <1>1, <1>4, OpsSame DEF vars, exec, net
<1> QED BY <1>2, <1>3, <1>4 DEF Next

\* What is streamed is before the end, and what is final is the end.
LEMMA FinalLast ==
  ASSUME OpsInv
  PROVE  FinalReplyLast
<1> SUFFICES ASSUME NEW r \in Request
             PROVE  /\ \A i \in DOMAIN sent[r] : sent[r][i] \in Final => i = Len(sent[r])
                    /\ pc[r] = "closed" => sent[r] # <<>> /\ Last(sent[r]) \in Final
                    /\ Contains(sent[r], "exit") => Len(sent[r]) = total[r] + 1
  BY DEF FinalReplyLast
<1>1. sent[r] \in Seq(Message) /\ pc[r] \in PCs /\ total[r] \in Nat /\ ReplyInv(r)
  BY DEF OpsInv, OpsTypes, TypeOK, Message
<1>2. DOMAIN sent[r] = 1 .. Len(sent[r]) /\ Len(sent[r]) \in Nat
  BY <1>1
<1>3. CASE pc[r] \in Before
  BY <1>1, <1>2, <1>3 DEF ReplyInv, Before, Contains
<1>4. CASE pc[r] = "pump"
  BY <1>1, <1>2, <1>4 DEF ReplyInv, Contains, Final, Streams
<1>5. CASE pc[r] \in {"relay", "close", "closed"}
  <2>1. CASE \E m \in Final \ {"exit"} : sent[r] = <<m>>
    BY <1>2, <2>1 DEF Contains, Last
  <2>2. CASE /\ Len(sent[r]) = total[r] + 1 /\ sent[r][Len(sent[r])] = "exit"
             /\ \A i \in 1 .. total[r] : sent[r][i] \in Streams
    <3>1. "exit" \in Final /\ Final \cap Streams = {}
      BY DEF Final, Streams
    <3>2. sent[r] # <<>> /\ Last(sent[r]) \in Final
      BY <1>1, <1>2, <2>2, <3>1 DEF Last
    <3>3. ASSUME NEW i \in 1 .. Len(sent[r]), sent[r][i] \in Final PROVE i = Len(sent[r])
      <4>1. i \notin 1 .. total[r]
        BY <2>2, <3>1, <3>3
      <4> QED BY <1>1, <1>2, <2>2, <4>1
    <3> QED BY <1>2, <2>2, <3>2, <3>3
  <2> QED BY <1>1, <1>5, <2>1, <2>2 DEF ReplyInv
<1> QED BY <1>1, <1>3, <1>4, <1>5 DEF PCs, Before

LEMMA NetCovers ==
  ASSUME OpsInv
  PROVE  NetGrantCovers
<1> SUFFICES ASSUME NEW r \in Request
             PROVE  /\ op[r] = "grant-net" /\ Contains(sent[r], "granted")
                         => listed[r] \subseteq extended[r]
                    /\ Contains(sent[r], "denied") => extended[r] = {}
  BY DEF NetGrantCovers
<1>1. sent[r] \in Seq(Message) /\ pc[r] \in PCs /\ ReplyInv(r) /\ NetInv(r)
  BY DEF OpsInv, OpsTypes, TypeOK, Message
<1>2. CASE pc[r] \in Before
  BY <1>1, <1>2 DEF ReplyInv, Before, Contains
<1>3. CASE pc[r] \in {"pump", "relay"}
  BY <1>1, <1>3 DEF NetInv
<1>4. CASE pc[r] \in {"close", "closed"}
  BY <1>1, <1>4 DEF NetInv
<1> QED BY <1>1, <1>2, <1>3, <1>4 DEF PCs, Before

-----------------------------------------------------------------------------
(* The two together                                                        *)

ProgramsInv == ExecInv /\ StreamInv /\ OpsInv

LEMMA ProgramsStart == ProgramsInit => ProgramsInv
  BY ExecStart, StreamStart, OpsStart DEF ProgramsInit, ProgramsInv

LEMMA ProgramsStep == ProgramsInv /\ [ProgramsNext]_programVars => ProgramsInv'
<1>1. [ProgramsNext]_programVars => [Next]_vars /\ [ExecNext]_execVars
  <2> HIDE DEF Next, ExecNext, vars, execVars
  <2> QED BY DEF ProgramsNext, programVars
<1> QED BY <1>1, ExecStep, StreamStep, OpsStep DEF ProgramsInv

\* A program is run on the host or in the sandbox with the variables of either
\* keeping their types; the agent counts the request it serves from before the
\* command is started until it is done with.
THEOREM ProgramsTypeCorrect == ProgramsSpec => []ProgramsTypeOK
<1>1. ProgramsInv => ProgramsTypeOK
  BY DEF ProgramsInv, ExecInv, OpsInv, OpsTypes, ProgramsTypeOK
<1> QED BY <1>1, ProgramsStart, ProgramsStep, PTL DEF ProgramsSpec

\* The agent that exits for having been idle leaves no command of its own
\* behind, a command whose client has gone included.
THEOREM IdleIsIdleAlways == ProgramsSpec => []IdleIsIdle
<1>1. ProgramsInv => IdleIsIdle
  BY DEF ProgramsInv, ExecInv, IdleIsIdle
<1> QED BY <1>1, ProgramsStart, ProgramsStep, PTL DEF ProgramsSpec

\* A run that ends with the command's status has passed on all its output, and
\* a command that reads to the end has had all the input: for any amount of
\* either and any size of the buffers and pipes between.
THEOREM StreamsCompleteAlways == ProgramsSpec => []StreamsComplete
<1>1. ProgramsInv => StreamsComplete
  BY StreamsWhole DEF ProgramsInv
<1> QED BY <1>1, ProgramsStart, ProgramsStep, PTL DEF ProgramsSpec

\* The broker ends its answer to any request with one final message, and with
\* all of a program's output ahead of its "exit": for any number of requests
\* and any amount of output.
THEOREM FinalReplyLastAlways == ProgramsSpec => []FinalReplyLast
<1>1. ProgramsInv => FinalReplyLast
  BY FinalLast DEF ProgramsInv
<1> QED BY <1>1, ProgramsStart, ProgramsStep, PTL DEF ProgramsSpec

\* An address that was granted is allowed in every unit found running, one that
\* was refused in none: for any number of units and requests.
THEOREM NetGrantCoversAlways == ProgramsSpec => []NetGrantCovers
<1>1. ProgramsInv => NetGrantCovers
  BY NetCovers DEF ProgramsInv
<1> QED BY <1>1, ProgramsStart, ProgramsStep, PTL DEF ProgramsSpec
=============================================================================
