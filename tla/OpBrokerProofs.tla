--------------------------- MODULE OpBrokerProofs ---------------------------
(***************************************************************************)
(* op-broker across the VM boundary, for any number of clients, sockets    *)
(* and connections and any size of the pool: a connection is served as the *)
(* client whose socket it came in on, and the pool is kept.  And what was  *)
(* proved of the fills holds of the whole broker.                          *)
(***************************************************************************)
EXTENDS OpBroker, OpFillProofs, FunctionTheorems

Waiting == LinksIn({"wait"})
Busy == LinksIn({"serve", "left"})
Of == [w \in UpClient |-> {s \in Busy : serves[s] = w}]

UpTypes ==
  /\ clients \subseteq UpClient
  /\ active \in [UpClient -> Nat]
  /\ {total, idle, dialing, owed} \subseteq Nat
  /\ guest \in [Link -> {"none", "wait", "serve", "left", "closed"}]
  /\ host \in [Link -> {"none", "queued", "paired"}]
  /\ serves \in [Link -> UpClient \cup {NoLink}]
  /\ queue \in Seq(Link)
  /\ conn \in [UpConn -> {"none", "want", "paired"}]
  /\ on \in [UpConn -> Link \cup {NoLink}]

\* A link is queued once, or paired with one connection, and not both.
PairInv ==
  /\ \A n \in 1 .. Len(queue) : host[queue[n]] = "queued"
  /\ \A m, n \in 1 .. Len(queue) : queue[m] = queue[n] => m = n
  /\ \A c \in UpConn : on[c] # NoLink => conn[c] = "paired" /\ host[on[c]] = "paired"
  /\ \A c \in UpConn : conn[c] = "paired" => on[c] # NoLink
  /\ ServedAsItself

\* The counters are what the workers do.
CountInv ==
  /\ IsFiniteSet(Waiting) /\ idle = dialing + Cardinality(Waiting)
  /\ IsFiniteSet(Busy) /\ total = idle + Cardinality(Busy)
  /\ \A w \in UpClient : active[w] = Cardinality(Of[w]) /\ active[w] <= ConnsPerClient
  /\ \A s \in Busy : serves[s] \in clients
  /\ idle <= Pool
  /\ up /\ owed = 0 => idle = Pool

UpInv == UpTypes /\ PairInv /\ CountInv

LEMMA UpStart == UpInit => UpInv
<1> SUFFICES ASSUME UpInit PROVE UpInv
  OBVIOUS
<1> USE UplinkAssumption DEF UpInit
<1>1. UpTypes
  <2>1. queue \in Seq(Link)
    BY EmptySeq
  <2> QED BY <2>1 DEF UpTypes
<1>2. PairInv
  BY DEF PairInv, ServedAsItself
<1>3. Waiting = {} /\ Busy = {} /\ Of = [w \in UpClient |-> {}]
  BY DEF Waiting, Busy, LinksIn, Of
<1>4. /\ IsFiniteSet(Waiting) /\ Cardinality(Waiting) = 0
      /\ IsFiniteSet(Busy) /\ Cardinality(Busy) = 0 /\ \A w \in UpClient : Cardinality(Of[w]) = 0
  BY <1>3, FS_EmptySet
<1>5. 0 <= Pool /\ 0 <= ConnsPerClient /\ 0 = 0 + 0 /\ \A w \in UpClient : active[w] = 0
  OBVIOUS
<1>6. CountInv
  BY <1>3, <1>4, <1>5 DEF CountInv
<1> QED BY <1>1, <1>2, <1>6 DEF UpInv

\* Nothing that is counted changes.
LEMMA CountsKeep ==
  ASSUME UpInv, UNCHANGED <<idle, dialing, total, active, clients>>,
         \A s \in Link : /\ guest'[s] = "wait" <=> guest[s] = "wait"
                         /\ guest'[s] \in {"serve", "left"} <=> guest[s] \in {"serve", "left"}
                         /\ guest[s] \in {"serve", "left"} => serves'[s] = serves[s],
         up' /\ owed' = 0 => up /\ owed = 0
  PROVE  CountInv'
<1>1. Waiting' = Waiting /\ Busy' = Busy
  BY DEF Waiting, Busy, LinksIn
<1>2. Of' = Of
  BY <1>1 DEF Of, Busy, LinksIn
<1>3. \A s \in Busy : serves'[s] = serves[s]
  BY DEF Busy, LinksIn
<1> QED BY <1>1, <1>2, <1>3 DEF UpInv, CountInv

\* A link whose host end closes is in no queue, and with no connection.
LEMMA CloseHostKeeps ==
  ASSUME UpInv, NEW s \in Link, CloseHost(s),
         UNCHANGED <<idle, dialing, total, active, clients, serves, up, owed>>
  PROVE  CountInv' /\ guest' \in [Link -> {"none", "wait", "serve", "left", "closed"}]
         /\ host' \in [Link -> {"none", "queued", "paired"}]
         /\ \A r \in Link : guest'[r] = "serve" <=> guest[r] = "serve"
<1>1. \A r \in Link : guest'[r] = guest[r] \/ (guest[r] = "closed" /\ guest'[r] = "none")
  BY DEF CloseHost, UpInv, UpTypes
<1>2. CountInv'
  BY <1>1, CountsKeep
<1> QED BY <1>1, <1>2 DEF CloseHost, UpInv, UpTypes

LEMMA AcceptKeeps == ASSUME UpInv, NEW c \in UpConn, Accept(c) PROVE UpInv'
<1>1. UpTypes'
  BY DEF UpInv, UpTypes, Accept, counters
<1>2. PairInv'
  BY DEF UpInv, UpTypes, PairInv, ServedAsItself, Accept
<1>3. CountInv'
  BY CountsKeep DEF Accept, counters
<1> QED BY <1>1, <1>2, <1>3 DEF UpInv

LEMMA NoUplinkKeeps == ASSUME UpInv, NEW c \in UpConn, NoUplink(c) PROVE UpInv'
<1>1. UpTypes'
  BY DEF UpInv, UpTypes, NoUplink, counters
<1>2. PairInv'
  BY DEF UpInv, UpTypes, PairInv, ServedAsItself, NoUplink
<1>3. CountInv'
  BY CountsKeep DEF NoUplink, counters
<1> QED BY <1>1, <1>2, <1>3 DEF UpInv

LEMMA TakeUplinkKeeps == ASSUME UpInv, NEW c \in UpConn, TakeUplink(c) PROVE UpInv'
<1> DEFINE s == Head(queue)
<1>1. /\ s \in Link /\ s = queue[1] /\ Len(queue) \in Nat \ {0} /\ queue' = Tail(queue)
      /\ queue' \in Seq(Link) /\ Len(queue') = Len(queue) - 1
      /\ \A n \in 1 .. Len(queue') : queue'[n] = queue[n + 1] /\ n + 1 \in 1 .. Len(queue)
  BY DEF TakeUplink, UpInv, UpTypes
<1>2. /\ host[s] = "queued" /\ \A n \in 1 .. Len(queue') : queue'[n] # s
      /\ \A n \in 1 .. Len(queue') : host[queue'[n]] = "queued"
      /\ \A m, n \in 1 .. Len(queue') : queue'[m] = queue'[n] => m = n
  <2>1. 1 \in 1 .. Len(queue)
    BY <1>1
  <2>2. \A n \in 1 .. Len(queue') : n + 1 # 1
    BY <1>1
  <2>3. host[s] = "queued"
    BY <1>1, <2>1 DEF UpInv, PairInv
  <2>4. \A n \in 1 .. Len(queue') : queue'[n] # s /\ host[queue'[n]] = "queued"
    BY <1>1, <2>1, <2>2 DEF UpInv, PairInv
  <2>5. \A m, n \in 1 .. Len(queue') : queue'[m] = queue'[n] => m = n
    <3> SUFFICES ASSUME NEW m \in 1 .. Len(queue'), NEW n \in 1 .. Len(queue'),
                        queue'[m] = queue'[n]
                 PROVE  m = n
      OBVIOUS
    <3>1. m + 1 = n + 1
      BY <1>1 DEF UpInv, PairInv
    <3> QED BY <3>1
  <2> QED BY <2>3, <2>4, <2>5
<1>3. \A n \in 1 .. Len(queue') : queue'[n] \in Link
  BY <1>1
<1> HIDE DEF s
<1>4. CASE /\ guest[s] = "wait" /\ UNCHANGED guest
           /\ host' = [host EXCEPT ![s] = "paired"]
           /\ conn' = [conn EXCEPT ![c] = "paired"]
           /\ on' = [on EXCEPT ![c] = s]
  <2>1. UpTypes'
    BY <1>1, <1>4 DEF UpInv, UpTypes, TakeUplink, counters
  <2>2. s # NoLink
    BY <1>1, UplinkAssumption
  <2>3. /\ \A n \in 1 .. Len(queue') : host'[queue'[n]] = "queued"
        /\ \A m, n \in 1 .. Len(queue') : queue'[m] = queue'[n] => m = n
    BY <1>2, <1>3, <1>4 DEF UpInv, UpTypes
  <2>4. \A d \in UpConn : on[d] # s
    BY <1>2, <2>2 DEF UpInv, PairInv
  <2>5. /\ \A d \in UpConn : on'[d] # NoLink => conn'[d] = "paired" /\ host'[on'[d]] = "paired"
        /\ \A d \in UpConn : conn'[d] = "paired" => on'[d] # NoLink
    BY <1>1, <1>4, <2>2, <2>4 DEF UpInv, UpTypes, PairInv
  <2>6. ServedAsItself'
    BY <1>1, <1>4, <2>2, <2>4 DEF UpInv, UpTypes, PairInv, ServedAsItself, TakeUplink
  <2>7. CountInv'
    BY <1>4, CountsKeep DEF TakeUplink, counters
  <2> QED BY <2>1, <2>3, <2>5, <2>6, <2>7 DEF UpInv, PairInv
<1>5. CASE CloseHost(s) /\ UNCHANGED <<conn, on>>
  <2>1. UNCHANGED <<idle, dialing, total, active, clients, serves, up, owed>>
    BY DEF TakeUplink, counters
  <2>2. CountInv' /\ guest' \in [Link -> {"none", "wait", "serve", "left", "closed"}]
        /\ host' \in [Link -> {"none", "queued", "paired"}]
        /\ \A r \in Link : guest'[r] = "serve" <=> guest[r] = "serve"
    BY <1>1, <1>5, <2>1, CloseHostKeeps
  <2>3. UpTypes'
    BY <1>1, <1>5, <2>1, <2>2 DEF UpInv, UpTypes
  <2>4. \A r \in Link : r # s => host'[r] = host[r]
    BY <1>5 DEF CloseHost, UpInv, UpTypes
  <2>5. PairInv'
    BY <1>1, <1>2, <1>3, <1>5, <2>1, <2>2, <2>4 DEF UpInv, UpTypes, PairInv, ServedAsItself
  <2> QED BY <2>2, <2>3, <2>5 DEF UpInv
<1> QED BY <1>4, <1>5 DEF TakeUplink, s

LEMMA SpliceEndsKeeps == ASSUME UpInv, NEW c \in UpConn, SpliceEnds(c) PROVE UpInv'
<1> DEFINE s == on[c]
<1>1. /\ s \in Link /\ host[s] = "paired" /\ CloseHost(s) /\ UNCHANGED queue
      /\ conn' = [conn EXCEPT ![c] = "none"] /\ on' = [on EXCEPT ![c] = NoLink]
      /\ UNCHANGED <<idle, dialing, total, active, clients, serves, up, owed>>
  BY DEF SpliceEnds, UpInv, UpTypes, PairInv, counters
<1> HIDE DEF s
<1>2. CountInv' /\ guest' \in [Link -> {"none", "wait", "serve", "left", "closed"}]
      /\ host' \in [Link -> {"none", "queued", "paired"}]
      /\ \A r \in Link : guest'[r] = "serve" <=> guest[r] = "serve"
  BY <1>1, CloseHostKeeps
<1>3. UpTypes'
  BY <1>1, <1>2 DEF UpInv, UpTypes
<1>4. \A r \in Link : r # s => host'[r] = host[r]
  BY <1>1 DEF CloseHost, UpInv, UpTypes
<1>5. \A d \in UpConn : d # c => on[d] # s
  BY <1>1, UplinkAssumption DEF UpInv, PairInv, ServedAsItself, s
<1>6. \A n \in 1 .. Len(queue) : queue[n] \in Link /\ queue[n] # s
  BY <1>1 DEF UpInv, UpTypes, PairInv
<1>7. PairInv'
  BY <1>1, <1>2, <1>4, <1>5, <1>6 DEF UpInv, UpTypes, PairInv, ServedAsItself
<1> QED BY <1>2, <1>3, <1>7 DEF UpInv

LEMMA BridgeRestartKeeps == ASSUME UpInv, BridgeRestart PROVE UpInv'
<1>1. UpTypes'
  BY DEF UpInv, UpTypes, BridgeRestart, counters
<1>2. PairInv'
  BY DEF PairInv, ServedAsItself, BridgeRestart
<1>3. CountInv'
  BY CountsKeep DEF BridgeRestart, counters, UpInv, UpTypes
<1> QED BY <1>1, <1>2, <1>3 DEF UpInv

-----------------------------------------------------------------------------
(* The guest's steps                                                       *)

\* A link that is left, and one that is joined.
LEMMA Counting ==
  ASSUME NEW S, IsFiniteSet(S), NEW s
  PROVE  /\ Cardinality(S) \in Nat
         /\ IsFiniteSet(S \cup {s}) /\ IsFiniteSet(S \ {s})
         /\ s \notin S => Cardinality(S \cup {s}) = Cardinality(S) + 1
         /\ s \in S => Cardinality(S \ {s}) = Cardinality(S) - 1
BY FS_CardinalityType, FS_AddElement, FS_RemoveElement

\* The links of a client are some of those busy.
LEMMA OfFinite ==
  ASSUME UpInv, NEW w \in UpClient PROVE IsFiniteSet(Of[w])
<1>1. Of[w] \in SUBSET Busy
  BY DEF Of
<1> QED BY <1>1, FS_Subset DEF UpInv, CountInv

LEMMA DialKeeps == ASSUME UpInv, NEW s \in Link, Dial(s) PROVE UpInv'
<1>1. /\ guest[s] = "none" /\ host[s] = "none" /\ dialing > 0 /\ dialing' = dialing - 1
      /\ guest' = [guest EXCEPT ![s] = "wait"] /\ host' = [host EXCEPT ![s] = "queued"]
      /\ queue' = Append(queue, s)
      /\ UNCHANGED <<up, clients, total, idle, active, added, owed, serves, conn, on>>
  BY DEF Dial, counters
<1>2. /\ queue' \in Seq(Link) /\ Len(queue) \in Nat /\ Len(queue') = Len(queue) + 1
      /\ queue'[Len(queue) + 1] = s
      /\ \A n \in 1 .. Len(queue) : queue'[n] = queue[n] /\ queue[n] \in Link
  BY <1>1 DEF UpInv, UpTypes
<1>3. UpTypes'
  BY <1>1, <1>2 DEF UpInv, UpTypes
<1>4. \A n \in 1 .. Len(queue) : queue'[n] # s /\ host'[queue'[n]] = "queued"
  BY <1>1, <1>2 DEF UpInv, UpTypes, PairInv
<1>5. host'[s] = "queued"
  BY <1>1 DEF UpInv, UpTypes
<1>6. \A n \in 1 .. Len(queue') : n \in 1 .. Len(queue) \/ n = Len(queue) + 1
  BY <1>2
<1>7. \A n \in 1 .. Len(queue') : host'[queue'[n]] = "queued"
  BY <1>2, <1>4, <1>5, <1>6
<1>8. \A m, n \in 1 .. Len(queue') : queue'[m] = queue'[n] => m = n
  <2> SUFFICES ASSUME NEW m \in 1 .. Len(queue'), NEW n \in 1 .. Len(queue'),
                      queue'[m] = queue'[n]
               PROVE  m = n
    OBVIOUS
  <2> QED BY <1>2, <1>4, <1>6 DEF UpInv, PairInv
<1>9. \A c \in UpConn : on[c] # NoLink => on[c] # s
  BY <1>1 DEF UpInv, PairInv
<1>10. PairInv'
  BY <1>1, <1>7, <1>8, <1>9 DEF UpInv, UpTypes, PairInv, ServedAsItself
<1>11. CountInv'
  <2>1. Waiting' = Waiting \cup {s} /\ s \notin Waiting /\ Busy' = Busy /\ s \notin Busy
    BY <1>1 DEF Waiting, Busy, LinksIn, UpInv, UpTypes
  <2>2. Of' = Of
    BY <1>1, <2>1 DEF Of
  <2>3. Cardinality(Waiting') = Cardinality(Waiting) + 1 /\ IsFiniteSet(Waiting')
        /\ Cardinality(Waiting) \in Nat
    BY <2>1, Counting DEF UpInv, CountInv
  <2>4. idle' = dialing' + Cardinality(Waiting')
    BY <1>1, <2>3 DEF UpInv, CountInv, UpTypes
  <2> QED BY <1>1, <2>1, <2>2, <2>3, <2>4 DEF UpInv, CountInv
<1> QED BY <1>3, <1>10, <1>11 DEF UpInv

\* A worker leaves its idle uplink and dials again.
LEMMA DialsAgain ==
  ASSUME UpInv, NEW s \in Link, guest[s] = "wait", dialing' = dialing + 1,
         NEW x \in {"none", "closed"}, guest' = [guest EXCEPT ![s] = x],
         NEW added_clients, clients' = clients \cup added_clients,
         UNCHANGED <<up, total, idle, active, owed, serves, host, queue, conn, on>>,
         clients' \subseteq UpClient
  PROVE  UpInv'
<1>1. UpTypes'
  BY DEF UpInv, UpTypes
<1>2. PairInv'
  BY DEF UpInv, UpTypes, PairInv, ServedAsItself
<1>3. CountInv'
  <2>1. Waiting' = Waiting \ {s} /\ s \in Waiting /\ Busy' = Busy
    BY DEF Waiting, Busy, LinksIn, UpInv, UpTypes
  <2>2. Of' = Of
    BY <2>1 DEF Of
  <2>3. Cardinality(Waiting') = Cardinality(Waiting) - 1 /\ IsFiniteSet(Waiting')
        /\ Cardinality(Waiting) \in Nat
    BY <2>1, Counting DEF UpInv, CountInv
  <2>4. idle' = dialing' + Cardinality(Waiting')
    BY <2>3 DEF UpInv, CountInv, UpTypes
  <2> QED BY <2>1, <2>2, <2>3, <2>4 DEF UpInv, CountInv
<1> QED BY <1>1, <1>2, <1>3 DEF UpInv

LEMMA HeaderKeeps == ASSUME UpInv, NEW s \in Link, NEW c \in UpConn, Header(s, c) PROVE UpInv'
<1> DEFINE w == UpWho[c]
<1>1. /\ w \in UpClient /\ guest[s] = "wait" /\ host[s] = "paired" /\ on[c] = s
      /\ clients' = clients \cup {w} /\ clients' \subseteq UpClient
      /\ UNCHANGED <<up, total, host, queue, conn, on>>
  BY UplinkAssumption DEF Header, hostSide, UpInv, UpTypes
<1>2. CASE CloseGuest(s) /\ dialing' = dialing + 1 /\ UNCHANGED <<idle, active, owed, serves>>
  <2>1. guest' = [guest EXCEPT ![s] = "closed"]
    BY <1>1, <1>2 DEF CloseGuest
  <2> QED BY <1>1, <1>2, <2>1, DialsAgain
<1>3. CASE /\ active[w] < ConnsPerClient
           /\ guest' = [guest EXCEPT ![s] = "serve"]
           /\ serves' = [serves EXCEPT ![s] = w]
           /\ active' = [active EXCEPT ![w] = @ + 1]
           /\ idle' = idle - 1 /\ owed' = owed + 1
           /\ UNCHANGED dialing
  <2> HIDE DEF w
  <2>1. /\ Waiting' = Waiting \ {s} /\ s \in Waiting
        /\ Busy' = Busy \cup {s} /\ s \notin Busy
    BY <1>1, <1>3 DEF Waiting, Busy, LinksIn, UpInv, UpTypes
  <2>2. /\ Cardinality(Waiting') = Cardinality(Waiting) - 1 /\ IsFiniteSet(Waiting')
        /\ Cardinality(Busy') = Cardinality(Busy) + 1 /\ IsFiniteSet(Busy')
        /\ Cardinality(Waiting) \in Nat /\ Cardinality(Waiting') \in Nat
        /\ Cardinality(Busy) \in Nat
    BY <2>1, Counting DEF UpInv, CountInv
  <2>3. idle' \in Nat /\ idle' <= Pool /\ total' = idle' + Cardinality(Busy')
        /\ idle' = dialing' + Cardinality(Waiting')
    <3>1. /\ idle \in Nat /\ dialing \in Nat /\ total \in Nat /\ idle <= Pool /\ Pool \in Nat
          /\ idle = dialing + Cardinality(Waiting) /\ total = idle + Cardinality(Busy)
      BY UplinkAssumption DEF UpInv, UpTypes, CountInv
    <3>2. idle' = idle - 1 /\ total' = total /\ dialing' = dialing
      BY <1>1, <1>3
    <3> QED BY <2>2, <3>1, <3>2
  <2>4. UpTypes'
    BY <1>1, <1>3, <2>3 DEF UpInv, UpTypes
  <2>5. \A d \in UpConn : on[d] = s => d = c
    BY <1>1, UplinkAssumption DEF UpInv, PairInv, ServedAsItself
  <2>6. PairInv'
    <3>1. \A d \in UpConn : on[d] # NoLink /\ guest'[on[d]] = "serve" =>
            serves'[on[d]] = UpWho[d]
      <4> SUFFICES ASSUME NEW d \in UpConn, on[d] # NoLink, guest'[on[d]] = "serve"
                   PROVE  serves'[on[d]] = UpWho[d]
        OBVIOUS
      <4>1. CASE d = c
        BY <1>1, <1>3, <4>1 DEF UpInv, UpTypes, w
      <4>2. CASE d # c
        BY <1>3, <2>5, <4>2 DEF UpInv, UpTypes, PairInv, ServedAsItself
      <4> QED BY <4>1, <4>2
    <3> QED BY <1>1, <3>1 DEF UpInv, PairInv, ServedAsItself
  <2>7. /\ Of'[w] = Of[w] \cup {s} /\ s \notin Of[w]
        /\ \A v \in UpClient : v # w => Of'[v] = Of[v]
    <3>1. \A r \in Busy : r # s /\ serves'[r] = serves[r]
      BY <1>3, <2>1 DEF Busy, LinksIn, UpInv, UpTypes
    <3>2. serves'[s] = w
      BY <1>3 DEF UpInv, UpTypes
    <3>3. s \notin Of[w]
      BY <1>1, <2>1 DEF Of
    <3>4. ASSUME NEW v \in UpClient
          PROVE  \A r : r \in Of'[v] <=> r \in Of[v] \/ (r = s /\ v = w)
      BY <2>1, <3>1, <3>2 DEF Of
    <3>5. Of'[w] = Of[w] \cup {s}
      <4>1. \A r : r \in Of'[w] <=> r \in Of[w] \/ r = s
        BY <1>1, <3>4
      <4> QED BY <4>1
    <3>6. ASSUME NEW v \in UpClient, v # w PROVE Of'[v] = Of[v]
      BY <3>4, <3>6
    <3> QED BY <3>3, <3>5, <3>6
  <2>8. Cardinality(Of'[w]) = Cardinality(Of[w]) + 1
    <3>1. IsFiniteSet(Of[w])
      BY <1>1, OfFinite
    <3> QED BY <2>7, <3>1, Counting
  <2>9. \A v \in UpClient : active'[v] = Cardinality(Of'[v]) /\ active'[v] <= ConnsPerClient
    <3>1. active'[w] = Cardinality(Of'[w])
      BY <1>1, <1>3, <2>8 DEF UpInv, UpTypes, CountInv
    <3>2. active'[w] <= ConnsPerClient
      BY <1>1, <1>3, UplinkAssumption DEF UpInv, UpTypes
    <3>3. \A v \in UpClient : v # w => active'[v] = active[v]
      BY <1>3 DEF UpInv, UpTypes
    <3> QED BY <2>7, <3>1, <3>2, <3>3 DEF UpInv, CountInv
  <2>10. \A r \in Busy' : serves'[r] \in clients'
    BY <1>1, <1>3, <2>1 DEF UpInv, UpTypes, CountInv, Busy, LinksIn
  <2>11. owed' # 0
    BY <1>3 DEF UpInv, UpTypes
  <2>12. CountInv'
    <3>1. (/\ IsFiniteSet(Waiting) /\ idle = dialing + Cardinality(Waiting)
           /\ IsFiniteSet(Busy) /\ total = idle + Cardinality(Busy) /\ idle <= Pool)'
      BY <2>2, <2>3
    <3>2. (\A v \in UpClient : active[v] = Cardinality(Of[v]) /\ active[v] <= ConnsPerClient)'
      BY <2>9
    <3>3. (\A r \in Busy : serves[r] \in clients)'
      BY <2>10
    <3>4. (up /\ owed = 0 => idle = Pool)'
      BY <2>11
    <3> QED BY <3>1, <3>2, <3>3, <3>4 DEF CountInv
  <2> QED BY <2>4, <2>6, <2>12 DEF UpInv
<1>4. active[w] < ConnsPerClient <=> ~(active[w] >= ConnsPerClient)
  BY <1>1, UplinkAssumption DEF UpInv, UpTypes
<1> QED BY <1>2, <1>3, <1>4 DEF Header

LEMMA ServeEndsKeeps == ASSUME UpInv, NEW s \in Link, ServeEnds(s) PROVE UpInv'
<1>1. /\ guest[s] = "serve" /\ guest' = [guest EXCEPT ![s] = "left"]
      /\ UNCHANGED <<up, clients, total, idle, active, dialing, owed, serves, host, queue,
                     conn, on>>
  BY DEF ServeEnds, counters, hostSide
<1>2. UpTypes'
  BY <1>1 DEF UpInv, UpTypes
<1>3. PairInv'
  BY <1>1 DEF UpInv, UpTypes, PairInv, ServedAsItself
<1>4. CountInv'
  BY <1>1, CountsKeep DEF UpInv, UpTypes
<1> QED BY <1>2, <1>3, <1>4 DEF UpInv

LEMMA CountOutKeeps == ASSUME UpInv, NEW s \in Link, CountOut(s) PROVE UpInv'
<1> DEFINE w == serves[s]
<1>1. /\ guest[s] = "left" /\ serves' = [serves EXCEPT ![s] = NoLink]
      /\ total' = total - 1 /\ active' = [active EXCEPT ![w] = @ - 1] /\ owed' = owed + 1
      /\ UNCHANGED <<up, clients, idle, dialing, host, queue, conn, on>>
  BY DEF CountOut, hostSide
<1>2. PICK x \in {"none", "closed"} : guest' = [guest EXCEPT ![s] = x]
  BY DEF CountOut, CloseGuest
<1>3. s \in Busy /\ Busy' = Busy \ {s} /\ Waiting' = Waiting
  BY <1>1, <1>2 DEF Busy, Waiting, LinksIn, UpInv, UpTypes
<1>4. w \in UpClient /\ w \in clients
  BY <1>3 DEF UpInv, CountInv, UpTypes
<1> HIDE DEF w
<1>5. /\ Cardinality(Busy') = Cardinality(Busy) - 1 /\ IsFiniteSet(Busy')
      /\ Cardinality(Busy) \in Nat /\ Cardinality(Busy') \in Nat
  BY <1>3, Counting DEF UpInv, CountInv
<1>6. /\ Of'[w] = Of[w] \ {s} /\ s \in Of[w]
      /\ \A v \in UpClient : v # w => Of'[v] = Of[v]
  <2>1. \A r \in Busy' : r # s /\ r \in Busy /\ serves'[r] = serves[r]
    BY <1>1, <1>3 DEF Busy, LinksIn, UpInv, UpTypes
  <2>2. \A r \in Busy : r = s \/ r \in Busy'
    BY <1>3
  <2>3. \A v \in UpClient : Of'[v] = {r \in Busy' : serves'[r] = v}
    BY DEF Of
  <2>4. s \in Of[w]
    BY <1>3, <1>4 DEF Of, w
  <2>5. ASSUME NEW v \in UpClient
        PROVE  /\ v = w => Of'[v] = Of[v] \ {s}
               /\ v # w => Of'[v] = Of[v]
    <3>1. \A r : r \in Of'[v] <=> r \in Of[v] /\ r # s
      BY <2>1, <2>2, <2>3 DEF Of
    <3>2. v # w => s \notin Of[v]
      BY DEF Of, w
    <3>3. v # w => \A r : r \in Of'[v] <=> r \in Of[v]
      BY <3>1, <3>2
    <3> QED BY <3>1, <3>3
  <2> QED BY <1>4, <2>4, <2>5
<1>7. Cardinality(Of'[w]) = Cardinality(Of[w]) - 1 /\ Cardinality(Of'[w]) \in Nat
      /\ Cardinality(Of[w]) \in Nat
  <2>1. IsFiniteSet(Of[w]) /\ IsFiniteSet(Of'[w])
    BY <1>4, <1>6, OfFinite, Counting
  <2> QED BY <1>6, <2>1, Counting
<1>8. active'[w] = Cardinality(Of'[w]) /\ active'[w] <= ConnsPerClient
      /\ \A v \in UpClient : v # w => active'[v] = active[v]
  BY <1>1, <1>4, <1>7, UplinkAssumption DEF UpInv, UpTypes, CountInv
<1>9. total' = idle' + Cardinality(Busy') /\ total' \in Nat
  <2>1. total \in Nat /\ idle \in Nat /\ total = idle + Cardinality(Busy)
    BY DEF UpInv, UpTypes, CountInv
  <2> QED BY <1>1, <1>5, <2>1
<1>10. active' \in [UpClient -> Nat]
  <2>1. active'[w] \in Nat
    BY <1>7, <1>8
  <2> QED BY <1>1, <1>4, <2>1 DEF UpInv, UpTypes
<1>11. UpTypes'
  BY <1>1, <1>2, <1>9, <1>10 DEF UpInv, UpTypes
<1>12. PairInv'
  <2>1. \A r \in Link : guest'[r] = "serve" => guest[r] = "serve" /\ serves'[r] = serves[r]
    BY <1>1, <1>2 DEF UpInv, UpTypes
  <2>2. ServedAsItself'
    BY <1>1, <2>1 DEF UpInv, UpTypes, PairInv, ServedAsItself
  <2> QED BY <1>1, <2>2 DEF UpInv, PairInv
<1>13. \A v \in UpClient : active'[v] = Cardinality(Of'[v]) /\ active'[v] <= ConnsPerClient
  <2>1. \A v \in UpClient : active[v] = Cardinality(Of[v]) /\ active[v] <= ConnsPerClient
    BY DEF UpInv, CountInv
  <2> TAKE v \in UpClient
  <2>2. CASE v = w
    BY <1>8, <2>2
  <2>3. CASE v # w
    BY <1>6, <1>8, <2>1, <2>3
  <2> QED BY <2>2, <2>3
<1>14. \A r \in Busy' : serves'[r] \in clients'
  BY <1>1, <1>3 DEF UpInv, UpTypes, CountInv, Busy, LinksIn
<1>15. owed' # 0
  BY <1>1 DEF UpInv, UpTypes
<1>16. CountInv'
  BY <1>1, <1>3, <1>5, <1>9, <1>13, <1>14, <1>15 DEF UpInv, CountInv
<1> QED BY <1>11, <1>12, <1>16 DEF UpInv

\* No more links are busy than the clients may have: each is the n-th of
\* those of its client, for some n up to ConnsPerClient.
LEMMA BusyBound ==
  ASSUME UpInv PROVE Cardinality(Busy) <= ConnsPerClient * Cardinality(clients)
<1> DEFINE K == 1 .. ConnsPerClient
           rank == [w \in UpClient |-> CHOOSE f \in [Of[w] -> K] : IsInjective(f)]
           place == [s \in Busy |-> <<serves[s], rank[serves[s]][s]>>]
<1>1. ConnsPerClient \in Nat /\ IsFiniteSet(clients)
  BY UplinkAssumption, FS_Subset DEF UpInv, UpTypes
<1>2. IsFiniteSet(K) /\ Cardinality(K) = ConnsPerClient
  <2>1. 1 \in Int /\ ConnsPerClient \in Int
    BY <1>1
  <2>2. IsFiniteSet(K) /\ Cardinality(K) = IF 1 > ConnsPerClient THEN 0 ELSE ConnsPerClient - 1 + 1
    BY <2>1, FS_Interval, Zenon
  <2> QED BY <1>1, <2>2
<1>3. ASSUME NEW w \in UpClient PROVE \E f \in [Of[w] -> K] : IsInjective(f)
  <2>1. IsFiniteSet(Of[w]) /\ Cardinality(Of[w]) <= ConnsPerClient
    BY OfFinite DEF UpInv, CountInv
  <2>2. Cardinality(Of[w]) \in Nat /\ ExistsBijection(1 .. Cardinality(Of[w]), Of[w])
    BY <2>1, FS_CardinalityType
  <2>3. ExistsBijection(Of[w], 1 .. Cardinality(Of[w]))
    BY <2>2, Fun_ExistsBijSymmetric
  <2>4. PICK f \in [Of[w] -> 1 .. Cardinality(Of[w])] : IsInjective(f)
    BY <2>3 DEF ExistsBijection, Bijection, Injection
  <2>5. 1 .. Cardinality(Of[w]) \subseteq K
    BY <1>1, <2>1, <2>2
  <2> QED BY <2>4, <2>5
<1> HIDE DEF K
<1>4. \A w \in UpClient : rank[w] \in [Of[w] -> K] /\ IsInjective(rank[w])
  BY <1>3
<1>5. \A s \in Busy : serves[s] \in clients /\ serves[s] \in UpClient /\ s \in Of[serves[s]]
  BY DEF UpInv, UpTypes, CountInv, Of
<1> HIDE DEF rank
<1>6. place \in [Busy -> clients \X K]
  <2>1. \A s \in Busy : rank[serves[s]][s] \in K
    BY <1>4, <1>5
  <2> QED BY <1>5, <2>1
<1>7. IsInjective(place)
  <2> SUFFICES ASSUME NEW s \in Busy, NEW r \in Busy, place[s] = place[r] PROVE s = r
    BY DEF IsInjective
  <2>1. serves[s] = serves[r] /\ rank[serves[s]][s] = rank[serves[s]][r]
    OBVIOUS
  <2>2. s \in Of[serves[s]] /\ r \in Of[serves[s]]
    BY <1>5, <2>1
  <2> QED BY <1>4, <1>5, <2>1, <2>2 DEF IsInjective
<1> HIDE DEF place
<1>8. /\ IsFiniteSet(clients \X K)
      /\ Cardinality(clients \X K) = Cardinality(clients) * Cardinality(K)
  BY <1>1, <1>2, FS_Product
<1>9. Cardinality(Busy) <= Cardinality(clients \X K)
  BY <1>6, <1>7, <1>8, FS_Injection DEF Injection
<1>10. Cardinality(clients) \in Nat
  BY <1>1, FS_CardinalityType
<1> QED BY <1>1, <1>2, <1>8, <1>9, <1>10

LEMMA TopUpKeeps == ASSUME UpInv, TopUp PROVE UpInv'
<1> DEFINE room == {n \in 0 .. Pool : idle + n <= Pool /\ total + n <= Cap}
           missing == Pool - idle
<1>1. /\ idle \in Nat /\ total \in Nat /\ dialing \in Nat /\ owed \in Nat /\ Pool \in Nat
      /\ idle <= Pool /\ total = idle + Cardinality(Busy)
      /\ idle = dialing + Cardinality(Waiting)
  BY UplinkAssumption DEF UpInv, UpTypes, CountInv
<1>2. /\ Cardinality(Busy) \in Nat /\ Cardinality(Waiting) \in Nat
      /\ Cardinality(Busy) <= ConnsPerClient * Cardinality(clients)
      /\ ConnsPerClient * Cardinality(clients) \in Nat
  <2>1. IsFiniteSet(clients) /\ ConnsPerClient \in Nat
    BY UplinkAssumption, FS_Subset DEF UpInv, UpTypes
  <2>2. Cardinality(clients) \in Nat
    BY <2>1, FS_CardinalityType
  <2> QED BY <2>1, <2>2, BusyBound, FS_CardinalityType DEF UpInv, CountInv
<1>3. missing \in room
  BY <1>1, <1>2 DEF Cap
<1>4. \A n \in room : n <= missing
  BY <1>1
<1>5. \A n \in room : (\A m \in room : m <= n) => n = missing
  <2> SUFFICES ASSUME NEW n \in room, \A m \in room : m <= n PROVE n = missing
    OBVIOUS
  <2>1. missing <= n /\ n <= missing
    BY <1>3, <1>4
  <2> QED BY <1>1, <2>1
<1>6. (CHOOSE n \in room : \A m \in room : m <= n) = missing /\ room # {}
  BY <1>3, <1>4, <1>5
<1>7. /\ idle' = idle + missing /\ total' = total + missing /\ dialing' = dialing + missing
      /\ owed > 0 /\ owed' = owed - 1
      /\ UNCHANGED <<up, clients, active, guest, serves, host, queue, conn, on>>
  BY <1>6 DEF TopUp, hostSide
<1>8. /\ idle' = Pool /\ total' = idle' + Cardinality(Busy)
      /\ idle' = dialing' + Cardinality(Waiting)
      /\ idle' \in Nat /\ total' \in Nat /\ dialing' \in Nat /\ owed' \in Nat
  BY <1>1, <1>2, <1>7
<1>9. UpTypes'
  BY <1>7, <1>8 DEF UpInv, UpTypes
<1>10. PairInv'
  BY <1>7 DEF UpInv, PairInv, ServedAsItself
<1>11. Waiting' = Waiting /\ Busy' = Busy /\ Of' = Of
  BY <1>7 DEF Waiting, Busy, LinksIn, Of
<1>12. CountInv'
  BY <1>1, <1>7, <1>8, <1>11 DEF UpInv, CountInv
<1> QED BY <1>9, <1>10, <1>12 DEF UpInv

LEMMA CrashKeeps == ASSUME UpInv, Crash PROVE UpInv'
<1>1. /\ ~up' /\ clients' = Configured /\ idle' = 0 /\ total' = 0 /\ dialing' = 0 /\ owed' = 0
      /\ active' = [w \in UpClient |-> 0]
      /\ \A s \in Link : guest'[s] \in {"none", "closed"}
      /\ UNCHANGED <<host, queue, conn, on>>
  BY DEF Crash, hostSide
<1>2. UpTypes'
  BY UplinkAssumption DEF Crash, hostSide, UpInv, UpTypes
<1>3. PairInv'
  <2>1. \A c \in UpConn : on[c] # NoLink => on[c] \in Link /\ guest'[on[c]] # "serve"
    BY <1>1 DEF UpInv, UpTypes
  <2>2. ServedAsItself'
    BY <1>1, <2>1 DEF UpInv, PairInv, ServedAsItself
  <2> QED BY <1>1, <2>2 DEF UpInv, PairInv
<1>4. Waiting' = {} /\ Busy' = {}
  BY <1>1 DEF Waiting, Busy, LinksIn
<1>5. Of' = [w \in UpClient |-> {}]
  BY <1>4 DEF Of
<1>6. IsFiniteSet({}) /\ Cardinality({}) = 0
  BY FS_EmptySet
<1>7. \A w \in UpClient : active'[w] = Cardinality(Of'[w]) /\ active'[w] <= ConnsPerClient
  BY <1>1, <1>5, <1>6, UplinkAssumption
<1>8. idle' = dialing' + Cardinality(Waiting') /\ total' = idle' + Cardinality(Busy')
      /\ idle' <= Pool
  BY <1>1, <1>4, <1>6, UplinkAssumption
<1>9. CountInv'
  BY <1>1, <1>4, <1>6, <1>7, <1>8, Zenon DEF CountInv
<1> QED BY <1>2, <1>3, <1>9 DEF UpInv

\* A worker that serves nobody ends: it was idle, with no uplink.
LEMMA WorkerFailsKeeps == ASSUME UpInv, WorkerFails PROVE UpInv'
<1>1. /\ dialing > 0 /\ dialing' = dialing - 1 /\ total' = total - 1 /\ idle' = idle - 1
      /\ owed' = owed + 1
      /\ UNCHANGED <<up, clients, active, guest, serves, host, queue, conn, on>>
  BY DEF WorkerFails, hostSide
<1>2. Waiting' = Waiting /\ Busy' = Busy /\ Of' = Of
  BY <1>1 DEF Waiting, Busy, LinksIn, Of
<1>3. /\ {total, idle, dialing, owed, Pool} \subseteq Nat /\ idle <= Pool
      /\ Cardinality(Waiting) \in Nat /\ idle = dialing + Cardinality(Waiting)
      /\ Cardinality(Busy) \in Nat /\ total = idle + Cardinality(Busy)
  BY FS_CardinalityType, UplinkAssumption DEF UpInv, UpTypes, CountInv
<1>4. /\ {total', idle', dialing', owed'} \subseteq Nat /\ idle' <= Pool /\ owed' # 0
      /\ idle' = dialing' + Cardinality(Waiting) /\ total' = idle' + Cardinality(Busy)
  BY <1>1, <1>3
<1>5. UpTypes'
  BY <1>1, <1>4 DEF UpInv, UpTypes
<1>6. PairInv'
  BY <1>1 DEF UpInv, PairInv, ServedAsItself
<1>7. CountInv'
  BY <1>1, <1>2, <1>4 DEF UpInv, CountInv
<1> QED BY <1>5, <1>6, <1>7 DEF UpInv

LEMMA UpStep == UpInv /\ [UpNext]_upVars => UpInv'
<1> SUFFICES ASSUME UpInv, [UpNext]_upVars PROVE UpInv'
  OBVIOUS
<1>1. CASE Boot
  <2>1. UpTypes'
    BY <1>1 DEF Boot, counters, hostSide, UpInv, UpTypes
  <2>2. PairInv'
    BY <1>1 DEF Boot, counters, hostSide, UpInv, PairInv, ServedAsItself
  <2>3. CountInv'
    BY <1>1, CountsKeep DEF Boot, counters
  <2> QED BY <2>1, <2>2, <2>3 DEF UpInv
<1>2. ASSUME NEW s \in Link, Redial(s) PROVE UpInv'
  <2>1. /\ guest[s] = "wait" /\ dialing' = dialing + 1
        /\ guest' = [guest EXCEPT ![s] = "none"] /\ clients' = clients \cup {}
        /\ UNCHANGED <<up, total, idle, active, owed, serves, host, queue, conn, on>>
        /\ clients' \subseteq UpClient
    BY <1>2 DEF Redial, counters, hostSide, UpInv, UpTypes
  <2> QED BY <2>1, DialsAgain
<1>3. ASSUME NEW s \in Link, NEW c \in UpConn, HeaderRefused(s, c) PROVE UpInv'
  <2>1. /\ guest[s] = "wait" /\ dialing' = dialing + 1
        /\ guest' = [guest EXCEPT ![s] = "closed"] /\ clients' = clients \cup {}
        /\ UNCHANGED <<up, total, idle, active, owed, serves, host, queue, conn, on>>
        /\ clients' \subseteq UpClient
    BY <1>3 DEF HeaderRefused, CloseGuest, counters, hostSide, UpInv, UpTypes
  <2> QED BY <2>1, DialsAgain
<1>4. CASE UNCHANGED upVars
  <2>1. UpTypes' /\ PairInv'
    BY <1>4 DEF upVars, UpInv, UpTypes, PairInv, ServedAsItself
  <2>2. CountInv'
    BY <1>4, CountsKeep DEF upVars
  <2> QED BY <2>1, <2>2 DEF UpInv
<1> QED BY <1>1, <1>2, <1>3, <1>4, TopUpKeeps, WorkerFailsKeeps, CrashKeeps,
           BridgeRestartKeeps, DialKeeps,
           HeaderKeeps, CountOutKeeps, ServeEndsKeeps, AcceptKeeps, TakeUplinkKeeps,
           NoUplinkKeeps, SpliceEndsKeeps DEF UpNext, LinkStep, BridgeStep

\* What else UpTypeOK says: only the links being served have a client, and the
\* clients added at run time are limited.
ServesInv ==
  /\ added \in 0 .. MaxAdded
  /\ \A s \in Link : serves[s] # NoLink => guest[s] \in {"serve", "left"}

LEMMA ServesStep == UpInv /\ ServesInv /\ [UpNext]_upVars => ServesInv'
<1> SUFFICES ASSUME UpInv, ServesInv, [UpNext]_upVars PROVE ServesInv'
  OBVIOUS
<1> USE DEF counters, hostSide
<1>1. /\ MaxAdded \in Nat /\ guest \in [Link -> {"none", "wait", "serve", "left", "closed"}]
      /\ serves \in [Link -> UpClient \cup {NoLink}]
  BY UplinkAssumption DEF UpInv, UpTypes
<1>2. ASSUME UNCHANGED <<added, serves>>,
             \A s \in Link : guest[s] \in {"serve", "left"} => guest'[s] \in {"serve", "left"}
      PROVE  ServesInv'
  BY <1>2 DEF ServesInv
<1>3. ASSUME NEW s \in Link, ServeEnds(s) \/ Dial(s) \/ Redial(s) \/ \E c \in UpConn : HeaderRefused(s, c)
      PROVE  ServesInv'
  <2>1. UNCHANGED <<added, serves>>
    BY <1>3 DEF ServeEnds, Dial, Redial, HeaderRefused
  <2>2. \E x : /\ guest' = [guest EXCEPT ![s] = x]
               /\ guest[s] \in {"serve", "left"} => x \in {"serve", "left"}
    BY <1>3 DEF ServeEnds, Dial, Redial, HeaderRefused, CloseGuest
  <2> QED BY <1>1, <1>2, <2>1, <2>2
<1>4. ASSUME NEW s \in Link, CountOut(s) PROVE ServesInv'
  <2>1. UNCHANGED added /\ serves' = [serves EXCEPT ![s] = NoLink]
        /\ \E x : guest' = [guest EXCEPT ![s] = x]
    BY <1>4 DEF CountOut, CloseGuest
  <2> QED BY <1>1, <2>1 DEF ServesInv
<1>5. ASSUME NEW s \in Link, NEW c \in UpConn, Header(s, c) PROVE ServesInv'
  <2>1. added' \in 0 .. MaxAdded
    <3>1. added' = added \/ (added < MaxAdded /\ added' = added + 1)
      BY <1>1, <1>5 DEF Header, ServesInv
    <3> QED BY <1>1, <3>1 DEF ServesInv
  <2>2. guest[s] = "wait"
    BY <1>5 DEF Header
  <2>3. \/ serves' = serves /\ \E x : guest' = [guest EXCEPT ![s] = x]
        \/ /\ guest' = [guest EXCEPT ![s] = "serve"]
           /\ serves' = [serves EXCEPT ![s] = UpWho[c]]
    BY <1>5 DEF Header, CloseGuest
  <2> QED BY <1>1, <2>1, <2>2, <2>3 DEF ServesInv
<1>6. ASSUME NEW c \in UpConn, TakeUplink(c) \/ SpliceEnds(c) PROVE ServesInv'
  <2>1. UNCHANGED <<added, serves>>
    BY <1>6 DEF TakeUplink, SpliceEnds
  <2>2. guest' = guest \/ \E s : guest' = [guest EXCEPT ![s] = IF @ = "closed" THEN "none" ELSE @]
    BY <1>6 DEF TakeUplink, SpliceEnds, CloseHost
  <2> QED BY <1>1, <1>2, <2>1, <2>2
<1>7. ASSUME BridgeRestart PROVE ServesInv'
  BY <1>1, <1>2, <1>7 DEF BridgeRestart
<1>8. ASSUME Crash PROVE ServesInv'
  BY <1>1, <1>8 DEF Crash, ServesInv
<1>9. ASSUME \/ Boot \/ TopUp \/ WorkerFails \/ UNCHANGED upVars
             \/ \E c \in UpConn : Accept(c) \/ NoUplink(c)
      PROVE  ServesInv'
  <2>1. UNCHANGED <<added, serves, guest>>
    BY <1>9 DEF Boot, TopUp, WorkerFails, upVars, Accept, NoUplink
  <2> QED BY <1>2, <2>1
<1> QED BY <1>3, <1>4, <1>5, <1>6, <1>7, <1>8, <1>9 DEF UpNext, LinkStep, BridgeStep

LEMMA UpTypesFollow == UpInv /\ ServesInv => UpTypeOK
<1> SUFFICES ASSUME UpInv, ServesInv PROVE UpTypeOK
  OBVIOUS
<1> DEFINE most == ConnsPerClient * Cardinality(clients)
<1>1. /\ Pool \in Nat /\ ConnsPerClient \in Nat /\ IsFiniteSet(clients) /\ clients \subseteq UpClient
      /\ idle \in Nat /\ total \in Nat /\ dialing \in Nat /\ owed \in Nat
      /\ idle <= Pool /\ total = idle + Cardinality(Busy) /\ IsFiniteSet(Busy)
  BY UplinkAssumption, FS_Subset DEF UpInv, UpTypes, CountInv
<1>2. Cardinality(Busy) <= most /\ Cardinality(Busy) \in Nat
  BY <1>1, BusyBound, FS_CardinalityType
<1>3. most \in Nat
  <2>1. Cardinality(clients) \in Nat
    BY <1>1, FS_CardinalityType
  <2>2. \A m, n \in Nat : m * n \in Nat
    OBVIOUS
  <2> QED BY <1>1, <2>1, <2>2
<1>4. Cap = Pool + most
  BY DEF Cap
<1> HIDE DEF most
<1>5. total \in 0 .. Cap /\ idle \in 0 .. Pool
  BY <1>1, <1>2, <1>3, <1>4
<1>6. \A w \in UpClient : active[w] \in 0 .. ConnsPerClient
  <2>1. \A w \in UpClient : active[w] \in Nat /\ active[w] <= ConnsPerClient
    BY DEF UpInv, UpTypes, CountInv
  <2> QED BY <1>1, <2>1
<1>7. \A s \in Link : guest[s] \in {"serve", "left"} <=> serves[s] # NoLink
  <2>1. \A s \in Link : guest[s] \in {"serve", "left"} => serves[s] \in UpClient
    BY <1>1 DEF UpInv, CountInv, Busy, LinksIn
  <2> QED BY <2>1, UplinkAssumption DEF ServesInv
<1> QED BY <1>1, <1>5, <1>6, <1>7 DEF UpTypeOK, UpInv, UpTypes, ServesInv

-----------------------------------------------------------------------------
(* op-broker as a whole                                                    *)

LEMMA OpSteps ==
  /\ OpSpec => FillSpec
  /\ OpSpec => [](UpInv)
<1>1. OpInit => FillInit /\ UpInv
  BY UpStart DEF OpInit
<1>2. [OpNext]_opVars => [FillNext]_fillVars
  BY DEF OpNext, opVars
<1>3. UpInv /\ [OpNext]_opVars => UpInv'
  BY UpStep DEF OpNext, opVars
<1> QED BY <1>1, <1>2, <1>3, PTL DEF OpSpec, FillSpec

\* A connection is served as the client whose socket it came in on
\* (run_uplink's worker, run_bridge): no link is paired with two of them, and
\* a link that is closed and dialed anew, queued or restarted on either end
\* is never served under the name of an earlier connection.
THEOREM ServedAsItselfAlways == OpSpec => []ServedAsItself
<1>1. UpInv => ServedAsItself
  BY DEF UpInv, PairInv
<1> QED BY <1>1, OpSteps, PTL

\* run_uplink's total and idle are what its workers do, on every way out of
\* worker(); and once every thread that will has topped up, Pool uplinks are
\* idle: clients at their own limit leave room for the others.
THEOREM PoolKeptAlways == OpSpec => []PoolKept
<1>1. UpInv => PoolKept
  BY DEF UpInv, CountInv, PoolKept, Waiting, Busy
<1> QED BY <1>1, OpSteps, PTL

\* The types of the whole broker's state, with the counts every thread must
\* give back on every way out: total and idle stay within Pool and the clients'
\* shares, and a link has a client exactly while a worker serves it or counts
\* itself out (run_uplink).
THEOREM OpTypeCorrect == OpSpec => []OpTypeOK
<1>1. OpInit => ServesInv
  BY UplinkAssumption DEF OpInit, UpInit, ServesInv
<1>2. UpInv /\ ServesInv /\ [OpNext]_opVars => ServesInv'
  BY ServesStep DEF OpNext, opVars
<1>3. UpInv /\ ServesInv /\ FillTypeOK => OpTypeOK
  BY UpTypesFollow DEF OpTypeOK
<1> QED BY <1>1, <1>2, <1>3, OpSteps, FillTypeCorrect, PTL DEF OpSpec

\* The whole broker, uplinks and all, serves fills as OpService promises
\* (Broker.handle, Sessions.covers).
THEOREM OpImplements == OpSpec => FillService
BY OpSteps, FillImplements, PTL
=============================================================================
