------------------------------ MODULE FidoGuest ------------------------------
(***************************************************************************)
(* The virtual security key in a VM (lib/vm/fido-guest.py): a uhid device  *)
(* whose packets go to the host's key over a connection to the broker.     *)
(*                                                                         *)
(* One thread reads the kernel's events, connects for the first packet and *)
(* sends; each connection has a thread that reads what the key reports.    *)
(* The kernel says when the last program has closed the device: the host's *)
(* key is let go then.  The connection can end from the host at any time.  *)
(*                                                                         *)
(* What packets and reports hold is left out; a get or set report request  *)
(* is answered with an error and changes nothing.                          *)
(***************************************************************************)
EXTENDS Naturals, Sequences

CONSTANTS
  MaxPackets,   \* bound on the packets programs send, for model checking
  MaxEvents     \* bound on the events the device has yet to read

ASSUME FidoAssumption == MaxPackets \in Nat /\ MaxEvents \in Nat

\* A connection to the broker, in the order they are made.
Link == 1 .. MaxPackets
NoLink == 0

VARIABLES
  inuse,        \* a program has the device open
  packets,      \* packets programs sent so far
  events,       \* the kernel's events the device has yet to read
  dpc,          \* where the thread that reads them is
  current,      \* self.conn
  taken,        \* the connection it sends on               (conn)
  denied,       \* self.denied_until has not passed
  links,        \* connections made so far
  reader,       \* the thread of each connection
  shutdown,     \* connections the device shut down
  hostEnded     \* connections the host ended

apps == <<inuse, packets>>
device == <<dpc, current, taken, denied, links, reader, shutdown>>
fvars == <<apps, events, device, hostEnded>>

FidoInit ==
  /\ inuse = FALSE /\ packets = 0
  /\ events = <<>>
  /\ dpc = "read" /\ current = NoLink /\ taken = NoLink
  /\ denied = FALSE
  /\ links = 0
  /\ reader = [s \in Link |-> "none"]
  /\ shutdown = {} /\ hostEnded = {}

-----------------------------------------------------------------------------
(* Device.run, output and connect                                          *)

\* output: on the connection there is, or on a new one; for a while after a
\* refusal the packet fails at once.
ReadOutput ==
  /\ dpc = "read" /\ events # <<>> /\ Head(events) = "output"
  /\ events' = Tail(events)
  /\ IF current # NoLink
     THEN dpc' = "send" /\ taken' = current /\ UNCHANGED links
     ELSE IF denied
     THEN UNCHANGED <<dpc, taken, links>>
     ELSE /\ links < MaxPackets      \* bound: a connection for each packet at most
          /\ dpc' = "connect" /\ links' = links + 1 /\ UNCHANGED taken
  /\ UNCHANGED <<apps, current, denied, reader, shutdown, hostEnded>>

\* The broker's answer, with self.lock held all the while: it is granted, and
\* the connection gets its thread; or refused; or the broker is not there.
Connected ==
  /\ dpc = "connect"
  /\ \/ /\ dpc' = "send" /\ current' = links /\ taken' = links
        /\ reader' = [reader EXCEPT ![links] = "reads"]
        /\ UNCHANGED denied
     \/ /\ dpc' = "read"
        /\ denied' \in {denied, TRUE}
        /\ UNCHANGED <<current, taken, reader>>
  /\ UNCHANGED <<apps, events, links, shutdown, hostEnded>>

\* The packet is sent, or fails with the connection.
SendPacket ==
  /\ dpc = "send"
  /\ dpc' = "read"
  /\ current' = IF taken \in hostEnded THEN NoLink ELSE current
  /\ UNCHANGED <<apps, events, taken, denied, links, reader, shutdown, hostEnded>>

\* UHID_CLOSE: the last program closed the device.
LetGo ==
  /\ dpc = "read" /\ events # <<>> /\ Head(events) = "close"
  /\ events' = Tail(events)
  /\ current' = NoLink
  /\ shutdown' = shutdown \cup ({current} \ {NoLink})
  /\ UNCHANGED <<apps, dpc, taken, denied, links, reader, hostEnded>>

\* from_host: at the end of its connection, under self.lock.
ReaderEnds(s) ==
  /\ reader[s] = "reads" /\ s \in shutdown \cup hostEnded
  /\ dpc # "connect"
  /\ reader' = [reader EXCEPT ![s] = "ended"]
  /\ current' = IF current = s THEN NoLink ELSE current
  /\ UNCHANGED <<apps, events, dpc, taken, denied, links, shutdown, hostEnded>>

\* DENIED_BACKOFF has passed.
DeniedPasses ==
  /\ denied
  /\ denied' = FALSE
  /\ UNCHANGED <<apps, events, dpc, current, taken, links, reader, shutdown, hostEnded>>

-----------------------------------------------------------------------------
(* The programs, through the kernel, and the host                          *)

ProgramSends ==
  /\ packets < MaxPackets /\ Len(events) < MaxEvents
  /\ inuse' = TRUE /\ packets' = packets + 1
  /\ events' = Append(events, "output")
  /\ UNCHANGED <<device, hostEnded>>

LastCloses ==
  /\ inuse /\ Len(events) < MaxEvents
  /\ inuse' = FALSE
  /\ events' = Append(events, "close")
  /\ UNCHANGED <<packets, device, hostEnded>>

\* The key is unplugged, or the broker or the VM's relay stops.
HostEnds(s) ==
  /\ reader[s] = "reads" /\ s \notin hostEnded
  /\ hostEnded' = hostEnded \cup {s}
  /\ UNCHANGED <<apps, events, device>>

-----------------------------------------------------------------------------
RunThread == ReadOutput \/ Connected \/ SendPacket \/ LetGo

FidoNext ==
  \/ RunThread \/ DeniedPasses \/ ProgramSends \/ LastCloses
  \/ \E s \in Link : ReaderEnds(s) \/ HostEnds(s)

-----------------------------------------------------------------------------
\* self.conn is a connection with a thread that reads it, which the device
\* didn't shut down: what it let go of is never sent on again.
FidoTypeOK ==
  /\ inuse \in BOOLEAN /\ packets \in 0 .. MaxPackets
  /\ events \in Seq({"output", "close"})
  /\ dpc \in {"read", "connect", "send"}
  /\ denied \in BOOLEAN
  /\ links \in 0 .. MaxPackets
  /\ current \in 0 .. links /\ taken \in 0 .. links
  /\ reader \in [Link -> {"none", "reads", "ended"}]
  /\ shutdown \subseteq Link /\ hostEnded \subseteq Link
  /\ current # NoLink => reader[current] = "reads" /\ current \notin shutdown

\* The host's key is not held in the background: every connection the device
\* doesn't use ends, without the host's doing.
KeyLetGo == \A s \in Link : (reader[s] = "reads" /\ current # s) ~> (reader[s] = "ended")

\* Every packet is sent on or failed.
PacketsEnd == []<>(events = <<>> /\ dpc = "read")
=============================================================================
