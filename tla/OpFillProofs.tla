---------------------------- MODULE OpFillProofs ----------------------------
(***************************************************************************)
(* op-broker keeps its promise: OpFill implements OpService, for any       *)
(* number of browsers, connections, logins and pages, and whatever the     *)
(* limits and times are set to.                                            *)
(***************************************************************************)
EXTENDS OpFill, FiniteSetTheorems, SequenceTheorems, TLAPS

Asked == {"queue", "choose"}
Chosen == {"prompt", "get"}

\* Where a connection's thread is, says what it has in hand.
ThreadInv ==
  /\ who \in [Conn -> Client]
  /\ pc \in [Conn -> Serving \cup {"closed", "ready"}]
  /\ req \in [Conn -> {ParseRequest(l) : l \in Line} \cup {None}]
  /\ shown \in [Conn -> Seq(Item)]
  /\ chosen \in [Conn -> Item \cup {None}]
  /\ \A c \in Conn : req[c] # None <=> pc[c] \in Serving

\* What the user is asked about, and what is fetched, matches the page.
MatchInv ==
  /\ \A c \in Conn : pc[c] \in Asked => \A n \in DOMAIN shown[c] :
       shown[c][n] \in Matching(req[c].origin)
  /\ \A c \in Conn : pc[c] \in Chosen => chosen[c] \in Matching(req[c].origin)

\* One fill of a requester at a time.
FlightInv ==
  /\ inflight = {who[c] : c \in {d \in Conn : pc[d] \in Serving}}
  /\ \A c, d \in Conn : pc[c] \in Serving /\ pc[d] \in Serving /\ who[c] = who[d] => c = d

TimeInv ==
  /\ now \in Nat
  /\ lastClose \in [Client -> Int]
  /\ \A g \in grants : g.who \in Client /\ g.at \in Nat /\ g.at <= now

FillInv == ThreadInv /\ MatchInv /\ FlightInv /\ TimeInv

LEMMA FillStart == FillInit => FillInv
<1> SUFFICES ASSUME FillInit PROVE FillInv
  OBVIOUS
<1> USE FillAssumption DEF FillInit, Serving, Asked, Chosen
<1>1. ThreadInv
  BY DEF ThreadInv
<1>2. MatchInv /\ FlightInv
  BY DEF MatchInv, FlightInv
<1>3. TimeInv
  BY DEF TimeInv, Never
<1> QED BY <1>1, <1>2, <1>3 DEF FillInv

-----------------------------------------------------------------------------
(* What matches a page is what the documentation allows                    *)

\* A proper suffix is what is left after the first n elements.
LEMMA SuffixIsSubSeq ==
  ASSUME NEW S, NEW h \in Seq(S), NEW s \in Seq(S), IsStrictSuffix(s, h), Len(s) > 1
  PROVE  \E n \in 1 .. Len(h) - 1 : SubSeq(h, n + 1, Len(h)) = s
<1> DEFINE n == Len(h) - Len(s)
<1>1. /\ s # h
      /\ Len(Reverse(s)) <= Len(Reverse(h))
      /\ SubSeq(Reverse(s), 1, Len(Reverse(s))) = SubSeq(Reverse(h), 1, Len(Reverse(s)))
  BY DEF IsStrictSuffix, IsSuffix, IsPrefix
<1>2. Len(s) \in Nat /\ Len(h) \in Nat
  OBVIOUS
<1>3. Len(Reverse(s)) = Len(s) /\ Len(Reverse(h)) = Len(h)
  BY DEF Reverse
<1>4. Len(s) <= Len(h)
  BY <1>1, <1>3
<1>5. \A k \in 1 .. Len(s) : s[k] = h[n + k]
  <2> SUFFICES ASSUME NEW k \in 1 .. Len(s) PROVE s[k] = h[n + k]
    OBVIOUS
  <2> DEFINE j == Len(s) - k + 1
  <2>1. j \in 1 .. Len(s) /\ j \in 1 .. Len(h) /\ Len(s) - j + 1 = k
        /\ Len(h) - j + 1 = n + k
    BY <1>2, <1>4
  <2>2. SubSeq(Reverse(s), 1, Len(s))[j] = SubSeq(Reverse(h), 1, Len(s))[j]
    BY <1>1, <1>3
  <2>3. Reverse(s) \in Seq(S) /\ Reverse(h) \in Seq(S)
    BY DEF Reverse
  <2> HIDE DEF j
  <2>4. Reverse(s)[j] = Reverse(h)[j]
    BY <1>2, <1>3, <1>4, <2>1, <2>2, <2>3
  <2>5. Reverse(s)[j] = s[Len(s) - j + 1] /\ Reverse(h)[j] = h[Len(h) - j + 1]
    BY <2>1 DEF Reverse
  <2> QED BY <2>1, <2>4, <2>5
<1>6. ASSUME Len(s) = Len(h) PROVE FALSE
  <2>1. \A k \in 1 .. Len(s) : n + k = k
    BY <1>2, <1>6
  <2>2. \A k \in 1 .. Len(s) : s[k] = h[k]
    BY <1>5, <2>1
  <2>3. s = h
    BY <1>6, <2>2, SeqEqual
  <2> QED BY <1>1, <2>3
<1>7. n \in 1 .. Len(h) - 1 /\ n + 1 \in Int /\ n + 1 <= Len(h)
  BY <1>2, <1>4, <1>6
<1>8. \A k \in n + 1 .. Len(h) : h[k] \in S
  BY <1>2, <1>7
<1> HIDE DEF n
<1>9. /\ SubSeq(h, n + 1, Len(h)) \in Seq(S)
      /\ Len(SubSeq(h, n + 1, Len(h))) = Len(h) - (n + 1) + 1
      /\ \A k \in 1 .. Len(h) - (n + 1) + 1 :
           SubSeq(h, n + 1, Len(h))[k] = h[(n + 1) + k - 1]
  BY <1>2, <1>7, <1>8, SubSeqProperties
<1>10. Len(h) - (n + 1) + 1 = Len(s) /\ \A k \in 1 .. Len(s) : (n + 1) + k - 1 = n + k
  BY <1>2, <1>7 DEF n
<1>11. SubSeq(h, n + 1, Len(h)) = s
  BY <1>5, <1>9, <1>10, SeqEqual
<1> QED BY <1>7, <1>11

LEMMA MatchingEntitled ==
  ASSUME NEW l \in Line, NEW i \in Matching(ParseRequest(l).origin)
  PROVE  Entitled(i, ParseRequest(l).origin)
<1> DEFINE o == ParseRequest(l).origin
<1>1. PICK u \in Saved[i] : UrlMatches(o, u)
  BY DEF Matching
<1>2. i \in Item
  BY DEF Matching
<1>3. u.scheme \in {"http", "https"} /\ u.host \in Seq(STRING)
  BY <1>2, FillAssumption
<1>4. o.host \in Seq(STRING)
  BY LineAssumption
<1> HIDE DEF o
<1>5. Subdomain(o.host, u.host) =>
        /\ Len(u.host) >= 2
        /\ \E n \in 1 .. Len(o.host) - 1 : SubSeq(o.host, n + 1, Len(o.host)) = u.host
  <2> SUFFICES ASSUME Len(u.host) > 1, IsStrictSuffix(u.host, o.host)
               PROVE  /\ Len(u.host) >= 2
                      /\ \E n \in 1 .. Len(o.host) - 1 :
                           SubSeq(o.host, n + 1, Len(o.host)) = u.host
    BY DEF Subdomain
  <2>1. Len(u.host) >= 2
    BY <1>3
  <2>2. u.host \in Seq(STRING)
    BY <1>3
  <2>3. \E n \in 1 .. Len(o.host) - 1 : SubSeq(o.host, n + 1, Len(o.host)) = u.host
    BY <1>4, <2>2, SuffixIsSubSeq, Zenon
  <2> QED BY <2>1, <2>3
<1>6. o.host = u.host \/ (Mode = "subdomain" /\ Subdomain(o.host, u.host))
  BY <1>1 DEF UrlMatches
<1>7. (u.scheme = "http" \/ o.scheme = "https") /\ u.port = o.port
  BY <1>1, <1>3 DEF UrlMatches
<1>8. Entitled(i, o)
  BY <1>5, <1>6, <1>7 DEF Entitled
<1> QED BY <1>8 DEF o
-----------------------------------------------------------------------------
(* Every step keeps the invariant                                          *)

\* A fill that ends leaves nothing of itself behind.
LEMMA AnswerKeeps ==
  ASSUME FillInv, NEW c \in Conn, NEW what, pc[c] \in Serving \/ who[c] \notin inflight,
         pc[c] # "closed", Answer(c, what), UNCHANGED who
  PROVE  ThreadInv' /\ MatchInv' /\ FlightInv'
<1> USE DEF FillInv, Answer, Serving
<1>1. ThreadInv'
  BY DEF ThreadInv
<1>2. MatchInv'
  BY DEF MatchInv, ThreadInv, Asked, Chosen
<1>3. FlightInv'
  BY DEF FlightInv, ThreadInv
<1> QED BY <1>1, <1>2, <1>3

LEMMA MatchingItems ==
  ASSUME NEW o
  PROVE  Matching(o) \subseteq Item /\ Cardinality(Matching(o)) \in Nat
<1>1. Matching(o) \subseteq Item
  BY DEF Matching
<1>2. IsFiniteSet(Item)
  BY FillAssumption
<1> QED BY <1>1, <1>2, FS_Subset, FS_CardinalityType

LEMMA CandidatesMatch ==
  ASSUME NEW o, NEW s \in Candidates(o)
  PROVE  s \in Seq(Item) /\ \A n \in DOMAIN s : s[n] \in Matching(o)
<1> DEFINE m == Cardinality(Matching(o))
<1>1. m \in Nat /\ Matching(o) \subseteq Item
  BY MatchingItems
<1>2. s \in [1 .. m -> Matching(o)]
  BY DEF Candidates
<1> HIDE DEF m
<1>3. s \in [1 .. m -> Item]
  BY <1>1, <1>2
<1>4. s \in Seq(Item)
  BY <1>1, <1>3
<1> QED BY <1>2, <1>4

\* A step of one thread that changes no login in hand.
LEMMA Moves ==
  ASSUME FillInv, NEW c \in Conn, NEW to,
         UNCHANGED <<who, req, shown, chosen, inflight>>, Go(c, to),
         \/ pc[c] \in {"closed", "ready"} /\ to \in {"closed", "ready"}
         \/ pc[c] = "prompt" /\ to = "get"
  PROVE  ThreadInv' /\ MatchInv' /\ FlightInv'
<1> USE DEF FillInv, Go, Serving
<1>1. ThreadInv'
  BY DEF ThreadInv
<1>2. MatchInv'
  BY DEF MatchInv, ThreadInv, Asked, Chosen
<1>3. FlightInv'
  <2>1. {d \in Conn : pc'[d] \in Serving} = {d \in Conn : pc[d] \in Serving}
    BY DEF ThreadInv
  <2> QED BY <2>1 DEF FlightInv, ThreadInv
<1> QED BY <1>1, <1>2, <1>3

\* The clock stands, and a permission is as old as it was, or new.
LEMMA TimeKeeps ==
  ASSUME FillInv, UNCHANGED now, lastClose' \in [Client -> Int],
         \A g \in grants' : g \in grants \/ (g.at = now /\ g.who \in Client)
  PROVE  TimeInv'
BY DEF FillInv, TimeInv

LEMMA FillKeeps ==
  ASSUME FillInv, NEW c \in Conn, NEW l \in Line, Fill(c, l)
  PROVE  FillInv'
<1> USE DEF FillInv
<1>1. TimeInv' /\ UNCHANGED who
  BY TimeKeeps DEF Fill, rest, TimeInv
<1>2. CASE Answer(c, Refused)
  <2>1. who[c] \notin inflight /\ pc[c] # "closed"
    BY DEF Fill
  <2> QED BY <1>1, <1>2, <2>1, AnswerKeeps
<1>3. CASE /\ Go(c, "lookup")
           /\ req' = [req EXCEPT ![c] = ParseRequest(l)]
           /\ inflight' = inflight \cup {who[c]}
           /\ UNCHANGED <<shown, chosen>>
  <2>1. ParseRequest(l) # None
    BY LineAssumption
  <2>2. pc[c] = "ready" /\ who[c] \notin inflight
    BY DEF Fill
  <2>3. ThreadInv'
    BY <1>1, <1>3, <2>1 DEF ThreadInv, Go, Serving
  <2>4. MatchInv'
    BY <1>1, <1>3 DEF MatchInv, ThreadInv, Go, Asked, Chosen
  <2>5. FlightInv'
    BY <1>1, <1>3, <2>2 DEF FlightInv, ThreadInv, Go, Serving
  <2> QED BY <1>1, <2>3, <2>4, <2>5
<1> QED BY <1>2, <1>3 DEF Fill

LEMMA LookupKeeps ==
  ASSUME FillInv, NEW c \in Conn, Lookup(c)
  PROVE  FillInv'
<1> USE DEF FillInv
<1> DEFINE m == Matching(req[c].origin)
           granted == {i \in m : Covers(Key(who[c], i, req[c]), req[c].want)}
<1>1. TimeInv' /\ UNCHANGED who /\ pc[c] = "lookup"
  <2>1. UNCHANGED <<now, who, lastClose>> /\ pc[c] = "lookup"
    BY DEF Lookup, rest
  <2>2. grants' \subseteq grants
    BY DEF Lookup, Lookedup
  <2> QED BY <2>1, <2>2, TimeKeeps DEF TimeInv
<1>2. m \subseteq Item
  BY MatchingItems
<1>3. CASE Answer(c, Refused)
  BY <1>1, <1>3, AnswerKeeps DEF Serving
<1>4. CASE /\ Cardinality(granted) = 1
           /\ Go(c, "get")
           /\ chosen' = [chosen EXCEPT ![c] = CHOOSE i \in granted : TRUE]
           /\ UNCHANGED <<req, shown, inflight>>
  <2>1. granted # {}
    BY <1>4, FS_EmptySet
  <2>2. PICK i \in m : chosen' = [chosen EXCEPT ![c] = i]
    BY <1>4, <2>1
  <2> HIDE DEF m, granted
  <2>3. i \in Item
    BY <1>2, <2>2
  <2>4. ThreadInv'
    BY <1>1, <1>4, <2>2, <2>3 DEF ThreadInv, Go, Serving
  <2>5. MatchInv'
    BY <1>1, <1>4, <2>2 DEF MatchInv, ThreadInv, Go, Asked, Chosen, m
  <2>6. FlightInv'
    BY <1>1, <1>4 DEF FlightInv, ThreadInv, Go, Serving
  <2> QED BY <1>1, <2>4, <2>5, <2>6
<1>5. CASE /\ Go(c, "queue")
           /\ \E cands \in Candidates(req[c].origin) : shown' = [shown EXCEPT ![c] = cands]
           /\ UNCHANGED <<req, chosen, inflight>>
  <2>1. PICK cands \in Candidates(req[c].origin) : shown' = [shown EXCEPT ![c] = cands]
    BY <1>5
  <2>2. cands \in Seq(Item) /\ \A n \in DOMAIN cands : cands[n] \in m
    BY CandidatesMatch
  <2>3. ThreadInv'
    BY <1>1, <1>5, <2>1, <2>2 DEF ThreadInv, Go, Serving
  <2>4. MatchInv'
    BY <1>1, <1>5, <2>1, <2>2 DEF MatchInv, ThreadInv, Go, Asked, Chosen
  <2>5. FlightInv'
    BY <1>1, <1>5 DEF FlightInv, ThreadInv, Go, Serving
  <2> QED BY <1>1, <2>3, <2>4, <2>5
<1> QED BY <1>3, <1>4, <1>5 DEF Lookup

LEMMA PickKeeps ==
  ASSUME FillInv, NEW c \in Conn, NEW i \in Matching(req[c].origin), Pick(c, i, c),
         pc[c] \in Asked, UNCHANGED <<now, who, req, inflight, lastClose>>
  PROVE  FillInv'
<1> USE DEF FillInv
<1>1. i \in Item
  BY MatchingItems
<1>2. TimeInv'
  <2>1. grants' \subseteq grants
    BY DEF Pick, Lookedup
  <2> QED BY <2>1, TimeKeeps DEF TimeInv
<1>3. PICK to \in Chosen : pc' = [pc EXCEPT ![c] = to]
  BY DEF Pick, Go, Chosen
<1>4. chosen' = [chosen EXCEPT ![c] = i] /\ shown' = [shown EXCEPT ![c] = <<>>]
  BY DEF Pick
<1>5. ThreadInv'
  BY <1>1, <1>3, <1>4 DEF ThreadInv, Serving, Asked, Chosen
<1>6. MatchInv'
  BY <1>3, <1>4 DEF MatchInv, ThreadInv, Asked, Chosen
<1>7. FlightInv'
  BY <1>3 DEF FlightInv, ThreadInv, Serving, Asked, Chosen
<1> QED BY <1>2, <1>5, <1>6, <1>7

LEMMA TakeDialogKeeps ==
  ASSUME FillInv, NEW c \in Conn, TakeDialog(c)
  PROVE  FillInv'
<1> USE DEF FillInv
<1>1. /\ pc[c] = "queue" /\ UNCHANGED <<now, who, req, inflight, lastClose>>
      /\ shown[c] \in Seq(Item)
      /\ \A n \in 1 .. Len(shown[c]) : shown[c][n] \in Matching(req[c].origin)
  BY DEF TakeDialog, rest, ThreadInv, MatchInv, Asked
<1>2. CASE Len(shown[c]) = 1 /\ Pick(c, shown[c][1], c)
  <2>1. shown[c][1] \in Matching(req[c].origin)
    BY <1>1, <1>2
  <2> QED BY <1>1, <1>2, <2>1, PickKeeps DEF Asked
<1>3. CASE /\ Go(c, "choose") /\ UNCHANGED <<chosen, grants>>
           /\ shown' = [shown EXCEPT ![c] = SubSeq(@, 1, Min({MaxCandidates, Len(@)}))]
  <2> DEFINE k == Min({MaxCandidates, Len(shown[c])})
             cut == SubSeq(shown[c], 1, k)
  <2>1. MaxCandidates \in Nat /\ Len(shown[c]) \in Nat
    BY <1>1, FillAssumption
  <2>2. k \in Int /\ k <= Len(shown[c])
    <3>1. \E x \in {MaxCandidates, Len(shown[c])} :
            \A y \in {MaxCandidates, Len(shown[c])} : x <= y
      BY <2>1
    <3> QED BY <2>1, <3>1 DEF Min
  <2> HIDE DEF k
  <2>3. shown' = [shown EXCEPT ![c] = cut]
    BY <1>1, <1>3 DEF k, ThreadInv
  <2>4. \A n \in 1 .. k : shown[c][n] \in Matching(req[c].origin) /\ shown[c][n] \in Item
    BY <1>1, <2>1, <2>2
  <2>5. /\ cut \in Seq(Item) /\ Len(cut) = (IF 1 <= k THEN k - 1 + 1 ELSE 0)
        /\ \A n \in 1 .. k - 1 + 1 : cut[n] = shown[c][1 + n - 1]
    BY <2>2, <2>4, SubSeqProperties
  <2> HIDE DEF cut
  <2>6. \A n \in DOMAIN cut : cut[n] \in Matching(req[c].origin)
    <3>1. DOMAIN cut = 1 .. Len(cut) /\ \A n \in DOMAIN cut : n \in 1 .. k /\ 1 + n - 1 = n
      BY <2>2, <2>5
    <3>2. \A n \in DOMAIN cut : cut[n] = shown[c][n]
      BY <2>2, <2>5, <3>1
    <3> QED BY <2>4, <3>1, <3>2
  <2>7. TimeInv'
    BY <1>1, <1>3, TimeKeeps DEF TimeInv
  <2>8. ThreadInv'
    <3>1. shown' \in [Conn -> Seq(Item)]
      BY <2>3, <2>5 DEF ThreadInv
    <3>2. pc' \in [Conn -> Serving \cup {"closed", "ready"}]
          /\ \A d \in Conn : pc[d] \in Serving <=> pc'[d] \in Serving
      BY <1>1, <1>3 DEF ThreadInv, Go, Serving
    <3>3. UNCHANGED <<who, req, chosen>>
      BY <1>1, <1>3
    <3> QED BY <3>1, <3>2, <3>3 DEF ThreadInv
  <2>9. MatchInv'
    BY <1>1, <1>3, <2>3, <2>6 DEF MatchInv, ThreadInv, Go, Asked, Chosen
  <2>10. FlightInv'
    BY <1>1, <1>3 DEF FlightInv, ThreadInv, Go, Serving
  <2> QED BY <2>7, <2>8, <2>9, <2>10
<1> QED BY <1>2, <1>3 DEF TakeDialog

LEMMA AllowKeeps ==
  ASSUME FillInv, NEW c \in Conn, NEW a, Allow(c, a)
  PROVE  FillInv'
<1>1. /\ pc[c] = "prompt" /\ Go(c, "get")
      /\ UNCHANGED <<now, who, req, shown, chosen, inflight, lastClose>>
  BY DEF Allow, rest
<1>2. \A g \in grants' : g \in grants \/ (g.at = now /\ g.who \in Client)
  <2>1. who[c] \in Client
    BY DEF FillInv, ThreadInv
  <2> QED BY <2>1 DEF Allow, Granted, Grant, Key
<1>3. TimeInv'
  BY <1>1, <1>2, TimeKeeps DEF FillInv, TimeInv
<1> QED BY <1>1, <1>3, Moves DEF FillInv

\* FillInv is inductive.
LEMMA FillStep == FillInv /\ [FillNext]_fillVars => FillInv'
<1> SUFFICES ASSUME FillInv, [FillNext]_fillVars PROVE FillInv'
  OBVIOUS
<1> USE DEF FillInv
<1>1. ASSUME NEW c \in Conn, Connect(c) PROVE FillInv'
  <2>1. UNCHANGED <<now, who, req, shown, chosen, inflight>> /\ pc[c] = "closed" /\ Go(c, "ready")
    BY <1>1 DEF Connect, rest, Go
  <2>2. grants' \subseteq grants /\ lastClose' \in [Client -> Int]
    <3>1. Never \in Int
      BY FillAssumption DEF Never
    <3> QED BY <1>1, <3>1 DEF Connect, TimeInv
  <2>3. TimeInv'
    BY <2>1, <2>2, TimeKeeps
  <2> QED BY <2>1, <2>3, Moves
<1>2. ASSUME NEW c \in Conn, Disconnect(c) PROVE FillInv'
  <2>1. UNCHANGED <<now, who, req, shown, chosen, inflight, grants>>
        /\ pc[c] = "ready" /\ Go(c, "closed")
    BY <1>2 DEF Disconnect, rest, Go
  <2>2. lastClose' \in [Client -> Int]
    <3>1. now \in Int
      BY DEF TimeInv
    <3> QED BY <1>2, <3>1 DEF Disconnect, TimeInv
  <2>3. TimeInv'
    BY <2>1, <2>2, TimeKeeps
  <2> QED BY <2>1, <2>3, Moves
<1>3. ASSUME NEW c \in Conn, OpListFails(c) \/ QueueTimeout(c) \/ Deny(c) \/ Deliver(c)
      PROVE  FillInv'
  <2>1. /\ UNCHANGED <<now, who, grants, lastClose>> /\ pc[c] \in Serving
        /\ \E what : Answer(c, what)
    BY <1>3 DEF OpListFails, QueueTimeout, Deny, Deliver, rest, Serving
  <2> QED BY <2>1, AnswerKeeps, TimeKeeps DEF TimeInv, Serving
<1>4. ASSUME NEW c \in Conn, Choose(c) PROVE FillInv'
  <2>1. PICK i \in ToSet(shown[c]) : Pick(c, i, c)
    BY <1>4 DEF Choose
  <2>2. pc[c] \in Asked /\ UNCHANGED <<now, who, req, inflight, lastClose>>
    BY <1>4 DEF Choose, rest, Asked
  <2>3. i \in Matching(req[c].origin)
    BY <2>1, <2>2 DEF ToSet, MatchInv
  <2> QED BY <2>1, <2>2, <2>3, PickKeeps
<1>5. ASSUME NEW c \in Conn, NEW l \in Line, TurnAway(c, l) PROVE FillInv'
  BY <1>5 DEF TurnAway, rest, ThreadInv, MatchInv, FlightInv, TimeInv
<1>6. ASSUME NEW b \in BOOLEAN, NoticeEnds(b) PROVE FillInv'
  BY <1>6 DEF NoticeEnds, rest, ThreadInv, MatchInv, FlightInv, TimeInv
<1>7. CASE Tick
  BY <1>7 DEF Tick, limits, ThreadInv, MatchInv, FlightInv, TimeInv
<1>8. CASE Restart
  <2>1. ThreadInv' /\ MatchInv' /\ FlightInv'
    BY <1>8 DEF Restart, rest, ThreadInv, MatchInv, FlightInv, Serving, Asked, Chosen
  <2>2. TimeInv'
    BY <1>8, FillAssumption DEF Restart, rest, TimeInv, Never
  <2> QED BY <2>1, <2>2
<1>9. CASE UNCHANGED fillVars
  BY <1>9 DEF fillVars, ThreadInv, MatchInv, FlightInv, TimeInv
<1> QED BY <1>1, <1>2, <1>3, <1>4, <1>5, <1>6, <1>7, <1>8, <1>9, FillKeeps, LookupKeeps,
           TakeDialogKeeps, AllowKeeps DEF FillNext, ThreadStep

\* Threads, requesters and what they have in hand stay in step (serve_conn,
\* Broker.handle): FillInv holds of every state of the fills.
THEOREM FillInvariant == FillSpec => []FillInv
BY FillStart, FillStep, PTL DEF FillSpec

-----------------------------------------------------------------------------
(* What the fills keep count of                                            *)

Limits == [tokens : 0 .. Burst, at : Nat, hour : Seq(Nat), denials : 0 .. DenyLimit - 1, until : Nat]

\* A requester's tokens, hour and denials stay within what is configured.
LimitInv ==
  /\ lim \in [Client -> Limits]
  /\ \A w \in Client : lim[w].at <= now /\ Len(lim[w].hour) <= PerHour
  /\ notice \in Client \cup {None}

\* The dialog lock is held by the thread with a chooser or prompt on screen.
DialogInv ==
  /\ dialog = None \/ (dialog \in Conn /\ pc[dialog] \in {"choose", "prompt"})
  /\ \A c \in Conn : pc[c] \in {"choose", "prompt"} => dialog = c

ReplyInv == reply = None \/ reply \in [to : Conn, what : Item \cup {Refused}]

\* A requester has one grant for a login on a page.
GrantInv == \A g, h \in grants : KeyOf(g) = KeyOf(h) => g = h

KeepInv == LimitInv /\ DialogInv /\ ReplyInv /\ GrantInv

LEMMA KeepStart == FillInit => KeepInv
<1> SUFFICES ASSUME FillInit PROVE KeepInv
  OBVIOUS
<1> USE FillAssumption DEF FillInit
<1>1. NewLimits \in Limits /\ NewLimits.at = 0 /\ Len(NewLimits.hour) <= PerHour
  BY DEF NewLimits, Limits
<1>2. LimitInv
  BY <1>1 DEF LimitInv
<1> QED BY <1>2 DEF KeepInv, DialogInv, ReplyInv, GrantInv

\* Dropping from the front makes it no longer.
LEMMA LastHourShorter ==
  ASSUME NEW times \in Seq(Nat)
  PROVE  LastHour(times) \in Seq(Nat) /\ Len(LastHour(times)) <= Len(times)
<1> DEFINE old == {n \in DOMAIN times : \A m \in 1 .. n : now - times[m] >= Hour}
           k == Cardinality(old)
<1>1. Len(times) \in Nat /\ old \subseteq 1 .. Len(times)
  OBVIOUS
<1>2. IsFiniteSet(1 .. Len(times)) /\ Cardinality(1 .. Len(times)) = Len(times)
  <2>1. IsFiniteSet(1 .. Len(times))
        /\ Cardinality(1 .. Len(times)) = IF 1 > Len(times) THEN 0 ELSE Len(times) - 1 + 1
    <3>1. 1 \in Int /\ Len(times) \in Int
      BY <1>1
    <3> QED BY <3>1, FS_Interval, Zenon
  <2> QED BY <1>1, <2>1
<1>3. k \in Nat /\ k <= Len(times)
  <2>1. IsFiniteSet(old) /\ Cardinality(old) <= Cardinality(1 .. Len(times))
    BY <1>1, <1>2, FS_Subset
  <2> QED BY <1>2, <2>1, FS_CardinalityType
<1>4. LastHour(times) = SubSeq(times, k + 1, Len(times))
  BY DEF LastHour
<1> HIDE DEF k
<1>5. SubSeq(times, k + 1, Len(times)) \in Seq(Nat)
      /\ Len(SubSeq(times, k + 1, Len(times))) <= Len(times)
  BY <1>1, <1>3
<1> QED BY <1>4, <1>5

LEMMA LeastOf ==
  ASSUME NEW a \in Int, NEW b \in Int
  PROVE  Min({a, b}) \in {a, b} /\ Min({a, b}) <= a /\ Min({a, b}) <= b
<1>1. \E x \in {a, b} : \A y \in {a, b} : x <= y
  OBVIOUS
<1> QED BY <1>1 DEF Min

LEMMA GreatestOf ==
  ASSUME NEW a \in Int, NEW b \in Int
  PROVE  Max({a, b}) \in {a, b}
<1>1. \E x \in {a, b} : \A y \in {a, b} : x >= y
  OBVIOUS
<1> QED BY <1>1 DEF Max

\* Limiter.take: refilled, and what a fill costs.
LEMMA RefilledWithin ==
  ASSUME NEW s \in Limits, now \in Nat, s.at <= now, Len(s.hour) <= PerHour
  PROVE  /\ Refilled(s) \in Limits /\ Refilled(s).at = now
         /\ Len(Refilled(s).hour) <= PerHour
<1> DEFINE gain == (now - s.at) * REFILL
           more == s.tokens + gain
<1>1. /\ s.hour \in Seq(Nat) /\ s.tokens \in Nat /\ s.at \in Nat /\ Burst \in Nat /\ REFILL \in Nat
      /\ PerHour \in Nat
  BY FillAssumption DEF Limits
<1>2. gain \in Nat
  <2>1. now - s.at \in Nat
    BY <1>1
  <2>2. \A m, n \in Nat : m * n \in Nat
    OBVIOUS
  <2> QED BY <1>1, <2>1, <2>2
<1>3. Refilled(s) = [s EXCEPT !.tokens = Min({Burst, more}), !.at = now, !.hour = LastHour(s.hour)]
  BY DEF Refilled
<1> HIDE DEF gain
<1>4. more \in Nat
  BY <1>1, <1>2
<1> HIDE DEF more
<1>5. Min({Burst, more}) \in 0 .. Burst
  <2>1. Burst \in Int /\ more \in Int
    BY <1>1, <1>4
  <2>2. Min({Burst, more}) \in {Burst, more} /\ Min({Burst, more}) <= Burst
    BY <2>1, LeastOf, Zenon
  <2> QED BY <1>1, <1>4, <2>2
<1>6. LastHour(s.hour) \in Seq(Nat) /\ Len(LastHour(s.hour)) <= PerHour
  <2>1. LastHour(s.hour) \in Seq(Nat) /\ Len(LastHour(s.hour)) <= Len(s.hour)
    BY <1>1, LastHourShorter
  <2>2. Len(s.hour) \in Nat /\ Len(LastHour(s.hour)) \in Nat
    BY <1>1, <2>1
  <2> QED BY <1>1, <2>1, <2>2
<1> QED BY <1>3, <1>5, <1>6 DEF Limits

LEMMA TakenWithin ==
  ASSUME NEW s \in Limits, now \in Nat, s.at <= now, Len(s.hour) <= PerHour
  PROVE  /\ Take(s).state \in Limits /\ Take(s).state.at <= now
         /\ Len(Take(s).state.hour) <= PerHour
<1> DEFINE f == Refilled(s)
           taken == [f EXCEPT !.tokens = @ - 1, !.hour = Append(@, now)]
<1>1. f \in Limits /\ f.at = now /\ Len(f.hour) <= PerHour /\ PerHour \in Nat /\ Burst \in Nat
  BY RefilledWithin, FillAssumption
<1>2. \/ Take(s).state = s
      \/ Take(s).state = f
      \/ f.tokens >= 1 /\ Len(f.hour) < PerHour /\ Take(s).state = taken
  <2>1. f.tokens \in Int /\ Len(f.hour) \in Nat
    BY <1>1 DEF Limits
  <2> HIDE DEF f
  <2>2. ~(f.tokens < 1 \/ Len(f.hour) >= PerHour) => f.tokens >= 1 /\ Len(f.hour) < PerHour
    BY <1>1, <2>1
  <2> QED BY <2>2 DEF Take, f
<1> HIDE DEF f
<1>3. CASE f.tokens >= 1 /\ Len(f.hour) < PerHour /\ Take(s).state = taken
  <2>1. f.hour \in Seq(Nat) /\ f.tokens \in 0 .. Burst
    BY <1>1 DEF Limits
  <2>2. Append(f.hour, now) \in Seq(Nat) /\ Len(Append(f.hour, now)) <= PerHour
    BY <1>1, <1>3, <2>1
  <2>3. f.tokens - 1 \in 0 .. Burst
    BY <1>1, <1>3, <2>1
  <2>4. taken \in Limits /\ taken.at = now /\ taken.hour = Append(f.hour, now)
    BY <1>1, <2>2, <2>3 DEF Limits
  <2> QED BY <1>3, <2>2, <2>4
<1>4. CASE Take(s).state = s
  BY <1>4
<1>5. CASE Take(s).state = f
  BY <1>1, <1>5
<1> QED BY <1>2, <1>3, <1>4, <1>5

\* Limiter.denied, allowed and block leave the tokens and the hour alone.
LEMMA ChangedWithin ==
  ASSUME NEW s \in Limits, now \in Nat
  PROVE  /\ Denied(s) \in Limits /\ Denied(s).at = s.at /\ Denied(s).hour = s.hour
         /\ Block(s) \in Limits /\ Block(s).at = s.at /\ Block(s).hour = s.hour
<1>1. /\ s.denials \in 0 .. DenyLimit - 1 /\ DenyLimit \in Nat \ {0} /\ s.until \in Nat
      /\ DenyCooldown \in Nat /\ ProbeBlock \in Nat
  BY FillAssumption DEF Limits
<1>2. now + DenyCooldown \in Nat /\ now + ProbeBlock \in Nat /\ s.denials \in Int /\ 0 \in 0 .. DenyLimit - 1
  BY <1>1
<1>3. Max({s.until, now + ProbeBlock}) \in Nat
  <2>1. Max({s.until, now + ProbeBlock}) \in {s.until, now + ProbeBlock}
    BY <1>1, <1>2, GreatestOf
  <2> QED BY <1>1, <1>2, <2>1
<1>4. Denied(s) \in Limits /\ Denied(s).at = s.at /\ Denied(s).hour = s.hour
  <2>1. CASE s.denials + 1 >= DenyLimit
    BY <1>2, <2>1 DEF Denied, Limits
  <2>2. CASE ~(s.denials + 1 >= DenyLimit)
    <3>1. s.denials + 1 \in 0 .. DenyLimit - 1
      BY <1>1, <2>2
    <3> QED BY <2>2, <3>1 DEF Denied, Limits
  <2> QED BY <2>1, <2>2
<1>5. Block(s) \in Limits /\ Block(s).at = s.at /\ Block(s).hour = s.hour
  BY <1>3 DEF Block, Limits
<1> QED BY <1>4, <1>5

\* One requester's limits change, within what is configured.
LEMMA LimitChange ==
  ASSUME LimitInv, UNCHANGED now, NEW w \in Client, NEW s \in Limits, s.at <= now,
         Len(s.hour) <= PerHour, lim' = [lim EXCEPT ![w] = s], notice' \in Client \cup {None}
  PROVE  LimitInv'
<1>1. lim' \in [Client -> Limits] /\ \A v \in Client : lim'[v] = IF v = w THEN s ELSE lim[v]
  BY DEF LimitInv
<1> QED BY <1>1 DEF LimitInv

LEMMA LimitStep == FillInv /\ LimitInv /\ [FillNext]_fillVars => LimitInv'
<1> SUFFICES ASSUME FillInv, LimitInv, [FillNext]_fillVars PROVE LimitInv'
  OBVIOUS
<1>1. /\ now \in Nat /\ (\A c \in Conn : who[c] \in Client) /\ notice \in Client \cup {None}
      /\ lim \in [Client -> Limits]
      /\ \A w \in Client : lim[w] \in Limits /\ lim[w].at <= now /\ Len(lim[w].hour) <= PerHour
  BY DEF FillInv, ThreadInv, TimeInv, LimitInv
<1>2. ASSUME UNCHANGED <<now, lim>>, notice' \in Client \cup {None} PROVE LimitInv'
  BY <1>2 DEF LimitInv
<1>3. ASSUME NEW c \in Conn, NEW l \in Line, Fill(c, l) PROVE LimitInv'
  <2>1. lim' = [lim EXCEPT ![who[c]] = Take(lim[who[c]]).state] /\ UNCHANGED now
    BY <1>3 DEF Fill, rest
  <2>2. notice' \in Client \cup {None}
    BY <1>1, <1>3 DEF Fill, Notify
  <2> QED BY <1>1, <2>1, <2>2, TakenWithin, LimitChange
<1>4. ASSUME NEW c \in Conn, Deny(c) PROVE LimitInv'
  <2>1. lim' = [lim EXCEPT ![who[c]] = Denied(lim[who[c]])] /\ UNCHANGED <<now, notice>>
    BY <1>4 DEF Deny, rest
  <2>2. /\ Denied(lim[who[c]]) \in Limits /\ Denied(lim[who[c]]).at = lim[who[c]].at
        /\ Denied(lim[who[c]]).hour = lim[who[c]].hour
    BY <1>1, ChangedWithin
  <2> QED BY <1>1, <2>1, <2>2, LimitChange
<1>5. ASSUME NEW c \in Conn, UNCHANGED <<now, notice>>,
             lim' = [lim EXCEPT ![who[c]].denials = 0] \/ UNCHANGED lim
      PROVE  LimitInv'
  <2> DEFINE s == [lim[who[c]] EXCEPT !.denials = 0]
  <2>1. CASE UNCHANGED lim
    BY <1>1, <1>2, <1>5, <2>1
  <2>2. CASE lim' = [lim EXCEPT ![who[c]] = s]
    <3>1. s \in Limits /\ s.at = lim[who[c]].at /\ s.hour = lim[who[c]].hour
      <4>1. 0 \in 0 .. DenyLimit - 1
        BY FillAssumption
      <4>2. lim[who[c]] \in Limits
        BY <1>1
      <4> QED BY <4>1, <4>2 DEF Limits
    <3> QED BY <1>1, <1>5, <2>2, <3>1, LimitChange
  <2> QED BY <1>5, <2>1, <2>2
<1>6. ASSUME NEW b \in BOOLEAN, NoticeEnds(b) PROVE LimitInv'
  <2>1. CASE b
    <3>1. lim' = [lim EXCEPT ![notice] = Block(lim[notice])] /\ UNCHANGED now /\ notice' = None
          /\ notice \in Client
      BY <1>1, <1>6, <2>1 DEF NoticeEnds, rest
    <3> QED BY <1>1, <3>1, ChangedWithin, LimitChange
  <2>2. CASE ~b
    BY <1>2, <1>6, <2>2 DEF NoticeEnds, rest
  <2> QED BY <2>1, <2>2
<1>7. ASSUME Tick PROVE LimitInv'
  <2>1. now' = now + 1 /\ UNCHANGED <<lim, notice>>
    BY <1>7 DEF Tick, limits
  <2>2. \A w \in Client : lim[w].at \in Nat
    BY <1>1 DEF Limits
  <2> QED BY <1>1, <2>1, <2>2 DEF LimitInv
<1>8. ASSUME Restart PROVE LimitInv'
  <2>1. NewLimits \in Limits /\ NewLimits.at = 0 /\ Len(NewLimits.hour) <= PerHour
    BY FillAssumption DEF NewLimits, Limits
  <2> QED BY <1>1, <1>8, <2>1 DEF Restart, rest, LimitInv
<1>9. ASSUME NEW c \in Conn, Lookup(c) PROVE LimitInv'
  <2>1. UNCHANGED <<now, lim>> /\ notice' \in Client \cup {None}
    BY <1>1, <1>9 DEF Lookup, rest, Miss, Notify
  <2> QED BY <1>2, <2>1
<1>10. ASSUME NEW c \in Conn, TakeDialog(c) \/ Choose(c) \/ \E a : Allow(c, a) PROVE LimitInv'
  <2>1. UNCHANGED <<now, notice>>
    BY <1>10 DEF TakeDialog, Choose, Allow, rest
  <2>2. lim' = [lim EXCEPT ![who[c]].denials = 0] \/ UNCHANGED lim
    BY <1>10 DEF TakeDialog, Choose, Allow, Pick
  <2> QED BY <1>5, <2>1, <2>2
<1>11. ASSUME NEW c \in Conn,
              \/ Connect(c) \/ Disconnect(c) \/ OpListFails(c) \/ QueueTimeout(c) \/ Deliver(c)
              \/ \E l \in Line : TurnAway(c, l)
       PROVE  LimitInv'
  <2>1. UNCHANGED <<now, lim, notice>>
    BY <1>11 DEF Connect, Disconnect, OpListFails, QueueTimeout, Deliver, TurnAway, limits, rest
  <2> QED BY <1>1, <1>2, <2>1
<1>12. ASSUME UNCHANGED fillVars PROVE LimitInv'
  BY <1>1, <1>2, <1>12 DEF fillVars
<1> QED BY <1>3, <1>4, <1>6, <1>7, <1>8, <1>9, <1>10, <1>11, <1>12 DEF FillNext, ThreadStep

LEMMA DialogStep == FillInv /\ DialogInv /\ [FillNext]_fillVars => DialogInv'
<1> SUFFICES ASSUME FillInv, DialogInv, [FillNext]_fillVars PROVE DialogInv'
  OBVIOUS
<1>1. None \notin Conn /\ pc \in [Conn -> Serving \cup {"closed", "ready"}]
  BY FillAssumption DEF FillInv, ThreadInv
<1>2. ASSUME NEW c \in Conn, NEW to, pc' = [pc EXCEPT ![c] = to],
             \/ /\ to \notin {"choose", "prompt"}
                /\ \/ pc[c] \notin {"choose", "prompt"} /\ dialog' = dialog
                   \/ pc[c] \in {"choose", "prompt"} /\ dialog' = None
                   \/ dialog = None /\ dialog' = None
             \/ to \in {"choose", "prompt"} /\ dialog' = c /\ dialog \in {None, c}
      PROVE  DialogInv'
  <2>1. pc'[c] = to /\ \A d \in Conn : d # c => pc'[d] = pc[d]
    BY <1>1, <1>2
  <2> QED BY <1>1, <1>2, <2>1 DEF DialogInv
<1>3. ASSUME UNCHANGED <<pc, dialog>> PROVE DialogInv'
  BY <1>3 DEF DialogInv
<1>4. ASSUME NEW c \in Conn, Connect(c) \/ Disconnect(c) PROVE DialogInv'
  <2>1. \E to \in {"ready", "closed"} : pc' = [pc EXCEPT ![c] = to]
    BY <1>4 DEF Connect, Disconnect
  <2>2. pc[c] \notin {"choose", "prompt"} /\ dialog' = dialog
    BY <1>4 DEF Connect, Disconnect
  <2> QED BY <1>2, <2>1, <2>2
<1>5. ASSUME NEW c \in Conn, OpListFails(c) \/ QueueTimeout(c) \/ Deliver(c) PROVE DialogInv'
  <2>1. pc' = [pc EXCEPT ![c] = "ready"] /\ pc[c] \notin {"choose", "prompt"} /\ dialog' = dialog
    BY <1>5 DEF OpListFails, QueueTimeout, Deliver, Answer
  <2> QED BY <1>2, <2>1
<1>6. ASSUME NEW c \in Conn, Lookup(c) PROVE DialogInv'
  <2>1. \E to \in {"ready", "get", "queue"} : pc' = [pc EXCEPT ![c] = to]
    BY <1>6 DEF Lookup, Answer, Go
  <2>2. pc[c] \notin {"choose", "prompt"} /\ dialog' = dialog
    BY <1>6 DEF Lookup
  <2> QED BY <1>2, <2>1, <2>2
<1>7. ASSUME NEW c \in Conn, NEW l \in Line, Fill(c, l) PROVE DialogInv'
  <2>1. \E to \in {"ready", "lookup"} : pc' = [pc EXCEPT ![c] = to]
    BY <1>7 DEF Fill, Answer, Go
  <2>2. pc[c] \notin {"choose", "prompt"} /\ dialog' = dialog
    BY <1>7 DEF Fill
  <2> QED BY <1>2, <2>1, <2>2
<1>8. ASSUME NEW c \in Conn, NEW i, Pick(c, i, c), dialog = None \/ pc[c] \in {"choose", "prompt"}
      PROVE  DialogInv'
  <2>1. dialog \in {None, c}
    BY <1>8 DEF DialogInv
  <2>2. \/ pc' = [pc EXCEPT ![c] = "get"] /\ dialog' = None
        \/ pc' = [pc EXCEPT ![c] = "prompt"] /\ dialog' = c
    BY <1>8 DEF Pick, Go
  <2> QED BY <1>2, <1>8, <2>1, <2>2
<1>9. ASSUME NEW c \in Conn, TakeDialog(c) PROVE DialogInv'
  <2>1. dialog = None
    BY <1>9 DEF TakeDialog
  <2>2. CASE Len(shown[c]) = 1
    BY <1>8, <1>9, <2>1, <2>2 DEF TakeDialog
  <2>3. CASE Len(shown[c]) # 1
    <3>1. pc' = [pc EXCEPT ![c] = "choose"] /\ dialog' = c
      BY <1>9, <2>3 DEF TakeDialog, Go
    <3> QED BY <1>2, <2>1, <3>1
  <2> QED BY <2>2, <2>3
<1>10. ASSUME NEW c \in Conn, Choose(c) PROVE DialogInv'
  BY <1>8, <1>10 DEF Choose
<1>11. ASSUME NEW c \in Conn, Deny(c) \/ \E a : Allow(c, a) PROVE DialogInv'
  <2>1. \E to \in {"ready", "get"} : pc' = [pc EXCEPT ![c] = to]
    BY <1>11 DEF Deny, Allow, Answer, Go
  <2>2. pc[c] \in {"choose", "prompt"} /\ dialog' = None
    BY <1>11 DEF Deny, Allow
  <2> QED BY <1>2, <2>1, <2>2
<1>12. ASSUME Restart PROVE DialogInv'
  BY <1>12 DEF Restart, DialogInv
<1>13. ASSUME \/ Tick \/ (\E b \in BOOLEAN : NoticeEnds(b)) \/ UNCHANGED fillVars
              \/ \E c \in Conn, l \in Line : TurnAway(c, l)
       PROVE  UNCHANGED <<pc, dialog>>
  BY <1>13 DEF Tick, NoticeEnds, fillVars, TurnAway
<1> QED BY <1>3, <1>4, <1>5, <1>6, <1>7, <1>9, <1>10, <1>11, <1>12, <1>13 DEF FillNext, ThreadStep

LEMMA ReplyStep == FillInv /\ ReplyInv /\ [FillNext]_fillVars => ReplyInv'
<1> SUFFICES ASSUME FillInv, ReplyInv, [FillNext]_fillVars PROVE ReplyInv'
  OBVIOUS
<1>1. ASSUME NEW c \in Conn, NEW what \in Item \cup {Refused}, reply' = [to |-> c, what |-> what]
      PROVE  ReplyInv'
  BY <1>1 DEF ReplyInv
<1>2. ASSUME reply' = reply \/ reply' = None PROVE ReplyInv'
  BY <1>2 DEF ReplyInv
<1>3. ASSUME NEW c \in Conn, Deliver(c) PROVE ReplyInv'
  <2>1. chosen[c] \in Item
    <3>1. chosen[c] \in Matching(req[c].origin)
      BY <1>3 DEF Deliver, FillInv, MatchInv, Chosen
    <3> QED BY <3>1 DEF Matching
  <2> QED BY <1>1, <1>3, <2>1 DEF Deliver, Answer
<1>4. ASSUME NEW c \in Conn, Deny(c) \/ OpListFails(c) \/ QueueTimeout(c) PROVE ReplyInv'
  BY <1>1, <1>4 DEF Deny, OpListFails, QueueTimeout, Answer
<1>5. ASSUME NEW c \in Conn, NEW l \in Line, TurnAway(c, l) \/ Fill(c, l) PROVE ReplyInv'
  BY <1>1, <1>2, <1>5 DEF TurnAway, Fill, Answer
<1>6. ASSUME NEW c \in Conn, Lookup(c) PROVE ReplyInv'
  BY <1>1, <1>2, <1>6 DEF Lookup, Answer
<1>7. ASSUME NEW c \in Conn,
             \/ Connect(c) \/ Disconnect(c) \/ TakeDialog(c) \/ Choose(c) \/ \E a : Allow(c, a)
      PROVE  UNCHANGED reply
  BY <1>7 DEF Connect, Disconnect, TakeDialog, Choose, Allow
<1>8. ASSUME Tick \/ Restart \/ (\E b \in BOOLEAN : NoticeEnds(b)) \/ UNCHANGED fillVars
      PROVE  reply' = reply \/ reply' = None
  BY <1>8 DEF Tick, Restart, NoticeEnds, fillVars
<1> QED BY <1>2, <1>3, <1>4, <1>5, <1>6, <1>7, <1>8 DEF FillNext, ThreadStep

LEMMA GrantStep == GrantInv /\ [FillNext]_fillVars => GrantInv'
<1> SUFFICES ASSUME GrantInv, [FillNext]_fillVars PROVE GrantInv'
  OBVIOUS
<1>1. ASSUME grants' \subseteq grants PROVE GrantInv'
  BY <1>1 DEF GrantInv
<1>2. ASSUME NEW c \in Conn, NEW a, Allow(c, a) PROVE GrantInv'
  <2> DEFINE k == Key(who[c], chosen[c], req[c])
             prev == {g \in grants : KeyOf(g) = k}
             more == UNION {g.fields : g \in {h \in prev : InForce(h)}}
             new == Grant(k, req[c].want \cup more)
  <2>1. KeyOf(new) = k
    BY DEF KeyOf, Grant, Key
  <2>2. grants' = grants \/ grants' = (grants \ prev) \cup {new}
    BY <1>2 DEF Allow, Granted
  <2> HIDE DEF new, k
  <2>3. \A g \in grants \ prev : KeyOf(g) # k
    OBVIOUS
  <2> QED BY <2>1, <2>2, <2>3 DEF GrantInv
<1>3. ASSUME NEW c \in Conn, Connect(c) \/ TakeDialog(c) \/ Choose(c) \/ Lookup(c)
      PROVE  grants' \subseteq grants
  BY <1>3 DEF Connect, TakeDialog, Choose, Pick, Lookup, Lookedup
<1>4. ASSUME NEW c \in Conn,
             \/ Disconnect(c) \/ OpListFails(c) \/ QueueTimeout(c) \/ Deny(c) \/ Deliver(c)
             \/ \E l \in Line : TurnAway(c, l) \/ Fill(c, l)
      PROVE  grants' \subseteq grants
  BY <1>4 DEF Disconnect, OpListFails, QueueTimeout, Deny, Deliver, TurnAway, Fill
<1>5. ASSUME Tick \/ Restart \/ (\E b \in BOOLEAN : NoticeEnds(b)) \/ UNCHANGED fillVars
      PROVE  grants' \subseteq grants
  BY <1>5 DEF Tick, Restart, NoticeEnds, fillVars
<1> QED BY <1>1, <1>2, <1>3, <1>4, <1>5 DEF FillNext, ThreadStep

\* The types of the fills' state, and what a thread must give back on every
\* way out: the fill in flight and the dialog lock are held by exactly the
\* threads that serve a fill and show a dialog (Broker.handle), a requester
\* never has more tokens, fills of the hour or denials than configured
\* (Limiter), and it has one grant for a login on a page (Sessions).
THEOREM FillTypeCorrect == FillSpec => []FillTypeOK
<1>1. FillInv /\ KeepInv /\ [FillNext]_fillVars => KeepInv'
  BY LimitStep, DialogStep, ReplyStep, GrantStep DEF KeepInv
<1>2. ASSUME FillInv, KeepInv PROVE FillTypeOK
  <2>1. /\ pc \in [Conn -> Serving \cup {"closed", "ready"}]
        /\ req \in [Conn -> {ParseRequest(l) : l \in Line} \cup {None}]
        /\ \A c \in Conn : shown[c] \in Seq(Item)
        /\ chosen \in [Conn -> Item \cup {None}]
    BY <1>2 DEF FillInv, ThreadInv
  <2>2. inflight = {who[c] : c \in {d \in Conn : pc[d] \in Serving}}
    BY <1>2 DEF FillInv, FlightInv
  <2>3. \A w \in Client :
          /\ lim[w].tokens \in 0 .. Burst /\ Len(lim[w].hour) <= PerHour
          /\ lim[w].denials \in 0 .. DenyLimit - 1
    BY <1>2 DEF KeepInv, LimitInv, Limits
  <2> QED BY <1>2, <2>1, <2>2, <2>3
          DEF FillTypeOK, KeepInv, LimitInv, DialogInv, ReplyInv, GrantInv
<1> QED BY <1>1, <1>2, FillStart, KeepStart, FillStep, PTL DEF FillSpec
-----------------------------------------------------------------------------
(* Each step is one of the service                                         *)

\* A permission holds as long as its grant, whatever else a step does.
LEMMA SameStanding ==
  ASSUME FillInv, UNCHANGED <<now, who, lastClose>>,
         \A c \in Conn : pc'[c] = "closed" <=> pc[c] = "closed",
         {g \in grants' : InForce(g)} = {g \in grants : InForce(g)}
  PROVE  Standing' = Standing
<1>1. \A w : Open(w)' = Open(w)
  BY DEF Open
<1>2. \A w : Alive(w)' <=> Alive(w)
  BY <1>1 DEF Alive
<1>3. \A g : InForce(g)' <=> InForce(g)
  BY DEF InForce
<1>4. Holding' = Holding
  BY <1>2, <1>3 DEF Holding
<1> QED BY <1>4 DEF Standing

LEMMA ConnectForgets ==
  ASSUME FillInv, NEW c \in Conn, Connect(c) PROVE Service!Forget /\ UNCHANGED who
<1>1. /\ UNCHANGED <<now, who, req, chosen, reply>>
      /\ pc[c] = "closed" /\ pc' = [pc EXCEPT ![c] = "ready"]
  BY DEF Connect, rest
<1>2. Right' = Right
  BY <1>1 DEF Right, FillInv, ThreadInv
<1>3. Holding' \subseteq Holding
  <2> SUFFICES ASSUME NEW g \in Holding' PROVE g \in Holding
    OBVIOUS
  <2>1. g \in grants' /\ Alive(g.who)' /\ InForce(g)'
    BY DEF Holding
  <2>2. g \in grants
    BY <2>1 DEF Connect
  <2>3. Alive(g.who)
    <3>1. CASE g.who = who[c]
      BY <2>1, <3>1 DEF Connect
    <3>2. CASE g.who # who[c]
      <4>1. lastClose'[g.who] = lastClose[g.who]
        BY <2>2, <3>2 DEF Connect, FillInv, TimeInv
      <4>2. Open(g.who)' = Open(g.who)
        BY <1>1, <3>2 DEF Open, FillInv, ThreadInv
      <4> QED BY <1>1, <2>1, <4>1, <4>2 DEF Alive
    <3> QED BY <3>1, <3>2
  <2> QED BY <1>1, <2>1, <2>2, <2>3 DEF Holding, InForce
<1>4. Standing' \subseteq Standing
  BY <1>3 DEF Standing, Permissions
<1> QED BY <1>1, <1>2, <1>4 DEF Service!Forget

LEMMA DisconnectForgets ==
  ASSUME FillInv, NEW c \in Conn, Disconnect(c) PROVE Service!Forget /\ UNCHANGED who
<1>1. /\ UNCHANGED <<now, who, req, chosen, reply, grants>>
      /\ pc[c] = "ready" /\ pc' = [pc EXCEPT ![c] = "closed"]
  BY DEF Disconnect, rest
<1>2. Right' = Right
  BY <1>1 DEF Right, FillInv, ThreadInv
<1>3. Holding' \subseteq Holding
  <2> SUFFICES ASSUME NEW g \in Holding' PROVE g \in Holding
    OBVIOUS
  <2>1. g \in grants' /\ Alive(g.who)' /\ InForce(g)'
    BY DEF Holding
  <2>2. Alive(g.who)
    <3>1. CASE g.who = who[c]
      <4>1. c \in Open(g.who)
        BY <1>1, <3>1 DEF Open
      <4> QED BY <4>1 DEF Alive
    <3>2. CASE g.who # who[c]
      <4>1. lastClose'[g.who] = lastClose[g.who]
        BY <3>2 DEF Disconnect, FillInv, TimeInv
      <4>2. Open(g.who)' = Open(g.who)
        BY <1>1, <3>2 DEF Open, FillInv, ThreadInv
      <4> QED BY <1>1, <2>1, <4>1, <4>2 DEF Alive
    <3> QED BY <3>1, <3>2
  <2> QED BY <1>1, <2>1, <2>2 DEF Holding, InForce
<1>4. Standing' \subseteq Standing
  BY <1>3 DEF Standing, Permissions
<1> QED BY <1>1, <1>2, <1>4 DEF Service!Forget

\* Time only ends sessions and permissions.
LEMMA TickForgets ==
  ASSUME FillInv, Tick PROVE Service!Forget /\ UNCHANGED who
<1>1. /\ UNCHANGED <<who, pc, req, chosen, reply, grants, lastClose>>
      /\ now' = now + 1
  BY DEF Tick
<1>2. Right' = Right
  BY <1>1 DEF Right
<1>3. Holding' \subseteq Holding
  <2> SUFFICES ASSUME NEW g \in Holding' PROVE g \in Holding
    OBVIOUS
  <2>1. g \in grants /\ Alive(g.who)' /\ InForce(g)'
    BY <1>1 DEF Holding
  <2>2. /\ g.at \in Int /\ now \in Int /\ lastClose[g.who] \in Int
        /\ SessionMax \in Int /\ SessionIdle \in Int
    BY <2>1, FillAssumption DEF FillInv, TimeInv
  <2>3. Open(g.who)' = Open(g.who)
    BY <1>1 DEF Open
  <2>4. Alive(g.who)
    BY <1>1, <2>1, <2>2, <2>3 DEF Alive
  <2>5. InForce(g)
    BY <1>1, <2>1, <2>2 DEF InForce
  <2> QED BY <2>1, <2>4, <2>5 DEF Holding
<1>4. Standing' \subseteq Standing
  BY <1>3 DEF Standing, Permissions
<1> QED BY <1>1, <1>2, <1>4 DEF Service!Forget

\* An answer is a refusal, or delivers what the connection had a right to.
LEMMA AnswerServes ==
  ASSUME FillInv, NEW c \in Conn, NEW what, Answer(c, what), pc[c] \in Serving,
         UNCHANGED <<now, who, lastClose>>,
         {g \in grants' : InForce(g)} = {g \in grants : InForce(g)},
         what = Refused \/ (pc[c] = "get" /\ what = chosen[c])
  PROVE  Service!Refuse(c) \/ Service!Deliver(c)
<1>1. req[c] # None
  BY DEF FillInv, ThreadInv
<1>2. /\ req' = [req EXCEPT ![c] = None] /\ reply' = [to |-> c, what |-> what]
      /\ pc' = [pc EXCEPT ![c] = "ready"] /\ chosen' = [chosen EXCEPT ![c] = None]
  BY DEF Answer
<1>3. Right' = [Right EXCEPT ![c] = None]
  BY <1>2 DEF Right, FillInv, ThreadInv
<1>4. Standing' = Standing
  <2>1. \A d \in Conn : pc'[d] = "closed" <=> pc[d] = "closed"
    BY <1>2 DEF FillInv, ThreadInv, Serving
  <2> QED BY <2>1, SameStanding
<1>5. CASE what = Refused
  BY <1>1, <1>2, <1>3, <1>4, <1>5 DEF Service!Refuse
<1>6. CASE pc[c] = "get" /\ what = chosen[c]
  <2>1. Right[c] = chosen[c]
    BY <1>6 DEF Right
  <2>2. chosen[c] # None
    <3>1. chosen[c] \in Item
      BY <1>6, MatchingItems DEF FillInv, MatchInv, Chosen
    <3> QED BY <3>1, FillAssumption
  <2> QED BY <1>2, <1>3, <1>4, <1>6, <2>1, <2>2 DEF Service!Deliver
<1> QED BY <1>5, <1>6

\* A login is covered by permissions that hold now.
LEMMA CoveredHolds ==
  ASSUME FillInv, NEW c \in Conn, pc[c] # "closed", NEW i, NEW r, NEW want,
         Covers(Key(who[c], i, r), want)
  PROVE  {[who |-> who[c], item |-> i, origin |-> r.origin, top |-> r.top, field |-> f] :
            f \in want} \subseteq Standing
<1>1. PICK g \in grants : /\ KeyOf(g) = Key(who[c], i, r) /\ InForce(g)
                         /\ want \subseteq g.fields
  BY DEF Covers
<1>2. g.who = who[c] /\ g.item = i /\ g.origin = r.origin /\ g.top = r.top
  BY <1>1 DEF KeyOf, Key
<1>3. Alive(g.who)
  <2>1. c \in Open(g.who)
    BY <1>2 DEF Open
  <2> QED BY <2>1 DEF Alive
<1>4. g \in Holding
  BY <1>1, <1>3 DEF Holding
<1>5. \A f \in want :
        [who |-> who[c], item |-> i, origin |-> r.origin, top |-> r.top, field |-> f]
          \in Permissions(g)
  BY <1>1, <1>2 DEF Permissions
<1> QED BY <1>4, <1>5 DEF Standing

LEMMA LookedupInForce ==
  ASSUME NEW ks, grants' = Lookedup(ks)
  PROVE  {g \in grants' : InForce(g)} = {g \in grants : InForce(g)}
BY DEF Lookedup

\* What is looked up for a question fits its page.
LEMMA MatchingFits ==
  ASSUME FillInv, NEW c \in Conn, pc[c] \in Serving, NEW i \in Matching(req[c].origin)
  PROVE  i \in Item /\ Entitled(i, req[c].origin)
<1>1. PICK l \in Line : req[c] = ParseRequest(l)
  BY DEF FillInv, ThreadInv
<1> QED BY <1>1, MatchingItems, MatchingEntitled

\* A thread goes on with a login the user allowed before.
LEMMA GetReuses ==
  ASSUME FillInv, NEW c \in Conn, pc[c] \in Serving \ {"get"}, Go(c, "get"),
         NEW i \in Matching(req[c].origin), chosen' = [chosen EXCEPT ![c] = i],
         Covers(Key(who[c], i, req[c]), req[c].want),
         UNCHANGED <<now, who, lastClose, req, reply>>,
         {g \in grants' : InForce(g)} = {g \in grants : InForce(g)}
  PROVE  i \in Item /\ Service!Reuse(c, i)
<1>1. i \in Item /\ Entitled(i, req[c].origin)
  BY MatchingFits
<1>2. req[c] # None
  BY DEF FillInv, ThreadInv
<1>3. Right[c] = None /\ Right' = [Right EXCEPT ![c] = i]
  BY DEF Right, Go, FillInv, ThreadInv
<1>4. Standing' = Standing
  <2>1. \A d \in Conn : pc'[d] = "closed" <=> pc[d] = "closed"
    BY DEF Go, FillInv, ThreadInv, Serving
  <2> QED BY <2>1, SameStanding
<1>5. Service!Needs(who[c], i, req[c]) \subseteq Standing
  BY CoveredHolds DEF Service!Needs, Serving
<1> QED BY <1>1, <1>2, <1>3, <1>4, <1>5 DEF Service!Reuse

\* The service does not see what a thread waits for.
LEMMA Unseen ==
  ASSUME FillInv, NEW c \in Conn, pc[c] \in Serving \ {"get"},
         NEW to \in Serving \ {"get"}, Go(c, to),
         \A d \in Conn \ {c} : chosen'[d] = chosen[d],
         UNCHANGED <<now, who, lastClose, req, reply>>,
         {g \in grants' : InForce(g)} = {g \in grants : InForce(g)}
  PROVE  UNCHANGED Service!vars
<1>1. Right' = Right
  BY DEF Right, Go, FillInv, ThreadInv
<1>2. Standing' = Standing
  <2>1. \A d \in Conn : pc'[d] = "closed" <=> pc[d] = "closed"
    BY DEF Go, FillInv, ThreadInv, Serving
  <2> QED BY <2>1, SameStanding
<1> QED BY <1>1, <1>2 DEF Service!vars

LEMMA PickServes ==
  ASSUME FillInv, NEW c \in Conn, NEW i \in Matching(req[c].origin), Pick(c, i, c),
         pc[c] \in Asked, UNCHANGED <<now, who, req, reply, lastClose>>
  PROVE  (i \in Item /\ Service!Reuse(c, i)) \/ UNCHANGED Service!vars
<1>1. {g \in grants' : InForce(g)} = {g \in grants : InForce(g)}
  BY LookedupInForce DEF Pick
<1>2. chosen' = [chosen EXCEPT ![c] = i] /\ pc[c] \in Serving \ {"get"}
  BY DEF Pick, Asked, Serving
<1>3. CASE Covers(Key(who[c], i, req[c]), req[c].want)
  BY <1>1, <1>2, <1>3, GetReuses DEF Pick
<1>4. CASE ~Covers(Key(who[c], i, req[c]), req[c].want)
  <2>1. Go(c, "prompt")
    BY <1>4 DEF Pick
  <2>2. \A d \in Conn \ {c} : chosen'[d] = chosen[d]
    BY <1>2 DEF FillInv, ThreadInv
  <2> QED BY <1>1, <1>2, <2>1, <2>2, Unseen DEF Serving
<1> QED BY <1>3, <1>4

\* The user allows it: what held for this login and page still holds, and
\* what was asked now, if the answer was "until it stops".
LEMMA AllowServes ==
  ASSUME FillInv, NEW c \in Conn, NEW a, Allow(c, a)
  PROVE  \E i \in Item : Service!Allow(c, i)
<1> DEFINE i == chosen[c]  k == Key(who[c], i, req[c])  want == req[c].want
<1>1. /\ pc[c] = "prompt" /\ Go(c, "get")
      /\ UNCHANGED <<now, who, req, chosen, reply, lastClose>>
  BY DEF Allow, rest
<1>2. i \in Item /\ Entitled(i, req[c].origin)
  <2>1. i \in Matching(req[c].origin)
    BY <1>1 DEF FillInv, MatchInv, Chosen
  <2> QED BY <1>1, <2>1, MatchingFits DEF Serving
<1>3. req[c] # None /\ Right[c] = None /\ Right' = [Right EXCEPT ![c] = i]
  BY <1>1 DEF Right, Go, FillInv, ThreadInv, Serving
<1>4. \A d \in Conn : pc'[d] = "closed" <=> pc[d] = "closed"
  BY <1>1 DEF Go, FillInv, ThreadInv, Serving
<1>5. Standing' \in {Standing, Standing \cup Service!Needs(who[c], i, req[c])}
  <2>1. CASE UNCHANGED grants
    <3>1. {g \in grants' : InForce(g)} = {g \in grants : InForce(g)}
      BY <2>1
    <3> QED BY <1>1, <1>4, <3>1, SameStanding
  <2>2. CASE grants' = Granted(k, want) /\ SessionMax = 0
    <3>1. \A g \in grants : ~InForce(g)
      BY <2>2 DEF InForce, FillInv, TimeInv
    <3>2. \A g \in grants' : ~InForce(g)
      BY <2>2, <3>1 DEF InForce, Granted, Grant, FillInv, TimeInv
    <3>3. {g \in grants' : InForce(g)} = {g \in grants : InForce(g)}
      BY <3>1, <3>2
    <3> QED BY <1>1, <1>4, <3>3, SameStanding
  <2>3. CASE grants' = Granted(k, want) /\ SessionMax # 0
    <3> DEFINE prev == {g \in grants : KeyOf(g) = k}
               all == want \cup UNION {g.fields : g \in {h \in prev : InForce(h)}}
               new == Grant(k, all)
    <3>1. grants' = (grants \ prev) \cup {new}
      BY <2>3 DEF Granted
    <3>2. /\ new.who = who[c] /\ new.item = i /\ new.origin = req[c].origin
          /\ new.top = req[c].top /\ new.fields = all /\ new.at = now
      BY DEF Grant, Key
    <3>3. InForce(new) /\ Alive(who[c])
      <4>1. SessionMax > 0 /\ now \in Nat
        BY <2>3, FillAssumption DEF FillInv, TimeInv
      <4>2. c \in Open(who[c])
        BY <1>1 DEF Open
      <4> QED BY <3>2, <4>1, <4>2 DEF InForce, Alive
    <3>4. Holding' = (Holding \ prev) \cup {new}
      <4>1. \A w : Alive(w)' <=> Alive(w)
        BY <1>1, <1>4 DEF Alive, Open
      <4>2. \A g : InForce(g)' <=> InForce(g)
        BY <1>1 DEF InForce
      <4> HIDE DEF prev, new
      <4> QED BY <3>1, <3>2, <3>3, <4>1, <4>2 DEF Holding
    <3>5. \A g \in prev : /\ g.who = who[c] /\ g.item = i
                          /\ g.origin = req[c].origin /\ g.top = req[c].top
      BY DEF KeyOf, Key
    <3>6. {h \in prev : InForce(h)} = {h \in prev : h \in Holding}
      BY <3>3, <3>5 DEF Holding
    <3>7. ASSUME NEW p
          PROVE  p \in Permissions(new) <=>
                   \/ p \in Service!Needs(who[c], i, req[c])
                   \/ \E g \in Holding \cap prev : p \in Permissions(g)
      <4> HIDE DEF new, prev
      <4>1. all = want \cup UNION {g.fields : g \in Holding \cap prev}
        BY <3>6
      <4> HIDE DEF all
      <4> QED BY <3>2, <3>5, <4>1 DEF Permissions, Service!Needs
    <3>8. ASSUME NEW p
          PROVE  p \in Standing' <=> p \in Standing \cup Service!Needs(who[c], i, req[c])
      <4> HIDE DEF new, prev
      <4>1. p \in Standing' <=> \E g \in Holding' : p \in Permissions(g)
        BY DEF Standing, Permissions
      <4>2. p \in Standing <=> \E g \in Holding : p \in Permissions(g)
        BY DEF Standing
      <4>3. (\E g \in Holding' : p \in Permissions(g)) <=>
              p \in Permissions(new) \/ \E g \in Holding \ prev : p \in Permissions(g)
        BY <3>4
      <4>4. (\E g \in Holding : p \in Permissions(g)) <=>
              \/ \E g \in Holding \ prev : p \in Permissions(g)
              \/ \E g \in Holding \cap prev : p \in Permissions(g)
        OBVIOUS
      <4> QED BY <3>7, <4>1, <4>2, <4>3, <4>4
    <3> QED BY <3>8
  <2> QED BY <2>1, <2>2, <2>3 DEF Allow
<1> QED BY <1>1, <1>2, <1>3, <1>5 DEF Service!Allow

LEMMA LookupServes ==
  ASSUME FillInv, NEW c \in Conn, Lookup(c)
  PROVE  \/ Service!Refuse(c) \/ \E i \in Item : Service!Reuse(c, i)
         \/ UNCHANGED Service!vars
<1> DEFINE m == Matching(req[c].origin)
           granted == {i \in m : Covers(Key(who[c], i, req[c]), req[c].want)}
<1>1. pc[c] = "lookup" /\ UNCHANGED <<now, who, lastClose>>
  BY DEF Lookup, rest
<1>2. {g \in grants' : InForce(g)} = {g \in grants : InForce(g)}
  BY LookedupInForce DEF Lookup
<1>3. CASE Answer(c, Refused)
  <2>1. pc[c] \in Serving /\ pc[c] # "get"
    BY <1>1 DEF Serving
  <2>2. Right[c] = None
    BY <2>1 DEF Right
  <2>3. Service!Refuse(c) \/ Service!Deliver(c)
    BY <1>1, <1>2, <1>3, <2>1, AnswerServes
  <2> QED BY <2>2, <2>3 DEF Service!Deliver
<1>4. CASE /\ Cardinality(granted) = 1
           /\ Go(c, "get")
           /\ chosen' = [chosen EXCEPT ![c] = CHOOSE i \in granted : TRUE]
           /\ UNCHANGED <<req, reply>>
  <2>1. granted # {}
    BY <1>4, FS_EmptySet
  <2>2. PICK i \in granted : chosen' = [chosen EXCEPT ![c] = i]
    BY <1>4, <2>1
  <2>3. i \in m /\ Covers(Key(who[c], i, req[c]), req[c].want)
    BY <2>2
  <2> HIDE DEF granted
  <2> QED BY <1>1, <1>2, <1>4, <2>2, <2>3, GetReuses DEF Serving
<1>5. CASE Go(c, "queue") /\ UNCHANGED <<req, chosen, reply>>
  BY <1>1, <1>2, <1>5, Unseen DEF Serving
<1> QED BY <1>3, <1>4, <1>5 DEF Lookup

LEMMA ChooserServes ==
  ASSUME FillInv, NEW c \in Conn, TakeDialog(c) \/ Choose(c)
  PROVE  (\E i \in Item : Service!Reuse(c, i)) \/ UNCHANGED Service!vars
<1>1. /\ pc[c] \in Asked /\ UNCHANGED <<now, who, req, reply, lastClose>>
      /\ shown[c] \in Seq(Item)
      /\ \A n \in DOMAIN shown[c] : shown[c][n] \in Matching(req[c].origin)
  BY DEF TakeDialog, Choose, rest, Asked, FillInv, ThreadInv, MatchInv
<1>2. ASSUME NEW i \in Matching(req[c].origin), Pick(c, i, c)
      PROVE  (\E j \in Item : Service!Reuse(c, j)) \/ UNCHANGED Service!vars
  BY <1>1, <1>2, PickServes
<1>3. CASE Len(shown[c]) = 1 /\ Pick(c, shown[c][1], c)
  <2>1. shown[c][1] \in Matching(req[c].origin)
    BY <1>1, <1>3
  <2> QED BY <1>2, <1>3, <2>1
<1>4. CASE \E i \in ToSet(shown[c]) : Pick(c, i, c)
  BY <1>1, <1>2, <1>4 DEF ToSet
<1>5. CASE Go(c, "choose") /\ UNCHANGED <<chosen, grants>>
  BY <1>1, <1>5, Unseen DEF Asked, Serving
<1> QED BY <1>3, <1>4, <1>5 DEF TakeDialog, Choose

\* Asked when no other fill of the requester is in flight, or turned away.
LEMMA FillServes ==
  ASSUME FillInv, NEW c \in Conn, NEW l \in Line, Fill(c, l)
  PROVE  Service!Ask(c, ParseRequest(l)) \/ Service!TurnAway(c)
<1>1. /\ pc[c] = "ready" /\ who[c] \notin inflight
      /\ UNCHANGED <<now, who, grants, lastClose>>
  BY DEF Fill, rest
<1>2. req[c] = None
  BY <1>1 DEF FillInv, ThreadInv, Serving
<1>3. ASSUME NEW to \in {"lookup", "ready"}, pc' = [pc EXCEPT ![c] = to],
             \A d \in Conn \ {c} : chosen'[d] = chosen[d]
      PROVE  Right' = Right /\ Standing' = Standing
  <2>1. Right' = Right
    BY <1>1, <1>3 DEF Right, FillInv, ThreadInv
  <2>2. \A d \in Conn : pc'[d] = "closed" <=> pc[d] = "closed"
    BY <1>1, <1>3 DEF FillInv, ThreadInv
  <2>3. {g \in grants' : InForce(g)} = {g \in grants : InForce(g)}
    BY <1>1
  <2> QED BY <1>1, <2>1, <2>2, <2>3, SameStanding
<1>4. CASE /\ Go(c, "lookup") /\ req' = [req EXCEPT ![c] = ParseRequest(l)]
           /\ reply' = None /\ UNCHANGED chosen
  <2>1. \A d \in Conn : who[d] = who[c] => req[d] = None
    BY <1>1 DEF FillInv, FlightInv, ThreadInv
  <2>2. Right' = Right /\ Standing' = Standing
    BY <1>3, <1>4 DEF Go
  <2> QED BY <1>4, <2>1, <2>2 DEF Service!Ask
<1>5. CASE Answer(c, Refused)
  <2>1. /\ pc' = [pc EXCEPT ![c] = "ready"] /\ req' = req
        /\ \A d \in Conn \ {c} : chosen'[d] = chosen[d]
        /\ reply' = [to |-> c, what |-> Refused]
    BY <1>2, <1>5 DEF Answer, FillInv, ThreadInv
  <2>2. Right' = Right /\ Standing' = Standing
    BY <1>3, <2>1
  <2> QED BY <1>2, <2>1, <2>2 DEF Service!TurnAway
<1> QED BY <1>4, <1>5 DEF Fill

LEMMA StepServes ==
  ASSUME FillInv, [FillNext]_fillVars
  PROVE  [Service!Next]_(Service!vars)
<1> USE DEF Service!Next
<1>1. ASSUME NEW c \in Conn, Connect(c) \/ Disconnect(c) PROVE Service!Next
  BY <1>1, ConnectForgets, DisconnectForgets
<1>2. ASSUME NEW c \in Conn, OpListFails(c) \/ QueueTimeout(c) \/ Deny(c) \/ Deliver(c)
      PROVE  Service!Next
  <2>1. /\ UNCHANGED <<now, who, grants, lastClose>> /\ pc[c] \in Serving
        /\ \E what : /\ Answer(c, what)
                     /\ what = Refused \/ (pc[c] = "get" /\ what = chosen[c])
    BY <1>2 DEF OpListFails, QueueTimeout, Deny, Deliver, rest, Serving
  <2>2. {g \in grants' : InForce(g)} = {g \in grants : InForce(g)}
    BY <2>1
  <2>3. Service!Refuse(c) \/ Service!Deliver(c)
    BY <2>1, <2>2, AnswerServes
  <2> QED BY <2>1, <2>3
<1>3. ASSUME NEW c \in Conn, Lookup(c) PROVE [Service!Next]_(Service!vars)
  <2>1. UNCHANGED who
    BY <1>3 DEF Lookup, rest
  <2> QED BY <1>3, <2>1, LookupServes
<1>4. ASSUME NEW c \in Conn, TakeDialog(c) \/ Choose(c) PROVE [Service!Next]_(Service!vars)
  <2>1. UNCHANGED who
    BY <1>4 DEF TakeDialog, Choose, rest
  <2> QED BY <1>4, <2>1, ChooserServes
<1>5. ASSUME NEW c \in Conn, NEW l \in Line, Fill(c, l) PROVE Service!Next
  <2>1. UNCHANGED who
    BY <1>5 DEF Fill, rest
  <2> QED BY <1>5, <2>1, FillServes
<1>6. ASSUME NEW c \in Conn, NEW l \in Line, TurnAway(c, l) PROVE Service!Next
  <2>1. UNCHANGED <<who, req>> /\ reply' = [to |-> c, what |-> Refused]
    BY <1>6 DEF TurnAway, rest
  <2>2. req[c] = None
    BY <1>6 DEF TurnAway, FillInv, ThreadInv, Serving
  <2>3. Right' = Right /\ Standing' = Standing
    BY <1>6 DEF TurnAway, rest, Right, Standing, Holding, Alive, Open, InForce
  <2> QED BY <2>1, <2>2, <2>3 DEF Service!TurnAway
<1>7. ASSUME NEW c \in Conn, NEW a, Allow(c, a) PROVE Service!Next
  <2>1. UNCHANGED who
    BY <1>7 DEF Allow, rest
  <2> QED BY <1>7, <2>1, AllowServes
<1>8. ASSUME NEW b, NoticeEnds(b) PROVE UNCHANGED Service!vars
  BY <1>8 DEF NoticeEnds, rest, Right, Standing, Holding, Alive, Open, InForce, Service!vars
<1>9. CASE Tick
  BY <1>9, TickForgets
<1>10. CASE Restart
  <2>1. /\ req' = [c \in Conn |-> None] /\ reply' = None /\ UNCHANGED who
        /\ pc' = [c \in Conn |-> "closed"] /\ grants' = {}
    BY <1>10 DEF Restart, rest
  <2>2. Right' = [c \in Conn |-> None] /\ Standing' = {}
    BY <2>1 DEF Right, Standing, Holding
  <2> QED BY <2>1, <2>2 DEF Service!Restart
<1>11. CASE UNCHANGED fillVars
  BY <1>11 DEF fillVars, Right, Standing, Holding, Alive, Open, InForce, Service!vars
<1> QED BY <1>1, <1>2, <1>3, <1>4, <1>5, <1>6, <1>7, <1>8, <1>9, <1>10, <1>11
        DEF FillNext, ThreadStep

\* op-broker serves fills as OpService promises (FillService): a login is
\* sent only to a requester for whom the user allowed it for this page and
\* these fields, now or in its present session (Broker.handle,
\* Sessions.covers), whatever the interleaving of the threads.
THEOREM FillImplements == FillSpec => FillService
<1>1. FillInit => Service!Init
  <2> SUFFICES ASSUME FillInit PROVE Service!Init
    OBVIOUS
  <2>1. Standing = {}
    BY DEF FillInit, Standing, Holding
  <2>2. Right = [c \in Conn |-> None]
    BY DEF FillInit, Right
  <2> QED BY <2>1, <2>2, FillAssumption DEF FillInit, Service!Init
<1>2. FillInv /\ [FillNext]_fillVars => [Service!Next]_(Service!vars)
  BY StepServes
<1> QED BY <1>1, <1>2, FillInvariant, PTL DEF FillService, FillSpec, Service!Spec
=============================================================================
