------------------------- MODULE ReplicationSafety --------------------------
(***************************************************************************)
(* When a leader answers only requests of its own term, what a follower    *)
(* takes as committed is committed, whatever is lost, repeated or late.    *)
(***************************************************************************)
EXTENDS ReplicationLeaders

USE SMTT(30), SMTT(31), Zenon, SMTT(32), SMTT(33)

-----------------------------------------------------------------------------
(* The node moves within what leaders wrote. *)

\* l is the beginning of a log of the node or of that of its leader.
LogFrom(l) ==
    \/ Agree(l, state.log, Len(l))
    \/ Agree(l, disk_log, Len(l))
    \/ state.current_term > 0 /\ Agree(l, leader_log[state.current_term], Len(l))

LEMMA LogFromFacts ==
    ASSUME TypeOK, LeadersInv, NodeInv, NEW l \in Seq(Entry), LogFrom(l)
    PROVE  /\ Rooted(l, leader_log)
           /\ \A n \in Nat : /\ state.current_term > 0
                             /\ UpTo(state.log, leader_log[state.current_term], n)
                             /\ UpTo(disk_log, leader_log[state.current_term], n)
                             => UpTo(l, leader_log[state.current_term], n)
<1> DEFINE t == state.current_term
<1>1. /\ leader_log \in LogsType /\ state.log \in Seq(Entry) /\ disk_log \in Seq(Entry)
      /\ t \in Term
  BY DEF TypeOK, NodeState, LogsType
<1>2. Rooted(state.log, leader_log) /\ Rooted(disk_log, leader_log)
  BY Zenon DEF NodeInv
<1>3. ASSUME NEW m \in Seq(Entry), Agree(l, m, Len(l)), Rooted(m, leader_log),
             NEW n \in Nat, NEW a, UpTo(m, a, n)
      PROVE  Rooted(l, leader_log) /\ UpTo(l, a, n)
  <2>1. Rooted(l, leader_log)
    BY Zenon, <1>1, <1>3, RootedPart
  <2>2. UpTo(l, a, n)
    BY <1>3 DEF Agree, UpTo
  <2> QED
    BY <2>1, <2>2
<1>4. \A m : UpTo(m, m, 0) /\ 0 \in Nat
  BY DEF UpTo
<1>5. CASE Agree(l, state.log, Len(l))
  BY Zenon, <1>1, <1>2, <1>3, <1>4, <1>5
<1>6. CASE Agree(l, disk_log, Len(l))
  BY Zenon, <1>1, <1>2, <1>3, <1>4, <1>6
<1>7. CASE t > 0 /\ Agree(l, leader_log[t], Len(l))
  <2>1. t \in 1 .. MaxTerm
    BY <1>1, <1>7 DEF Term
  <2>2. leader_log[t] \in Seq(Entry) /\ Rooted(leader_log[t], leader_log)
    BY Zenon, <2>1, LeaderFacts
  <2>3. \A n \in Nat : UpTo(leader_log[t], leader_log[t], n)
    BY DEF UpTo
  <2> QED
    BY Zenon, <1>3, <1>4, <1>7, <2>2, <2>3
<1> QED
  BY Zenon, <1>5, <1>6, <1>7 DEF LogFrom

LEMMA NodeMoves ==
    ASSUME TypeOK, TypeOK', LeadersInv, NodeInv, UNCHANGED leaders, requests \subseteq Request,
           state.current_term <= state'.current_term, LogFrom(state'.log), LogFrom(disk_log'),
           LeadInv', TermsInv', \A q \in requests' \ requests : RequestInv(q)'
    PROVE  NodeInv'
<1>1. leader_of' = leader_of /\ leader_log' = leader_log
  BY DEF leaders
<1>2. /\ state'.log \in Seq(Entry) /\ disk_log' \in Seq(Entry)
      /\ state.current_term \in Term /\ state'.current_term \in Term
  <2>1. state \in NodeState /\ state' \in NodeState /\ disk_log' \in Seq(Entry)
    BY Zenon DEF TypeOK
  <2> QED
    BY <2>1 DEF NodeState
<1>3. Rooted(state'.log, leader_log) /\ Rooted(disk_log', leader_log)
  BY Zenon, <1>2, LogFromFacts
<1>4. ASSUME NEW q \in requests
      PROVE  RequestInv(q)'
  <2> DEFINE t == q.leader_epoch
             f == q.fetch_offset
  <2>1. q \in Request /\ t \in 1 .. state.current_term /\ leader_of[t] = q.dest /\ Exists(q)
    BY Zenon DEF NodeInv, RequestInv
  <2>2. f \in Nat
    BY <2>1 DEF Request
  <2>3. t \in 1 .. state'.current_term
    BY <1>2, <2>1 DEF Term
  <2>4. Exists(q)'
    BY Zenon, <1>1, <2>1 DEF Exists
  <2>5. ASSUME t = state'.current_term, q.dest \in Peers, In(q, t)'
        PROVE  /\ UpTo(state'.log, leader_log[t], f)
               /\ UpTo(disk_log', leader_log[t], f)
    <3>1. t = state.current_term /\ state.current_term > 0
      BY <1>2, <2>1, <2>5 DEF Term
    <3>2. In(q, t)
      BY Zenon, <1>1, <2>5 DEF In
    <3>3. UpTo(state.log, leader_log[t], f) /\ UpTo(disk_log, leader_log[t], f)
      BY Zenon, <2>5, <3>1, <3>2 DEF NodeInv, RequestInv
    <3> QED
      BY Zenon, <1>2, <2>2, <3>1, <3>3, LogFromFacts
  <2> QED
    BY Zenon, <1>1, <2>1, <2>3, <2>4, <2>5 DEF RequestInv
<1>5. \A q \in requests' : RequestInv(q)'
  BY Zenon, <1>4
<1> QED
  BY Zenon, <1>1, <1>3, <1>5 DEF NodeInv

\* A request for what follows l, when d has all of l.
LEMMA AsksAfter ==
    ASSUME TypeOK, LeadersInv, NEW l \in Seq(Entry), Rooted(l, leader_log), NEW d \in Seq(Entry),
           Agree(d, l, Len(l)), NEW q, q.fetch_offset = Len(l),
           q.last_fetched_epoch = IF l = <<>> THEN 0 ELSE l[Len(l)].term,
           NEW t \in 1 .. MaxTerm
    PROVE  /\ Exists(q)
           /\ In(q, t) => /\ UpTo(l, leader_log[t], q.fetch_offset)
                          /\ UpTo(d, leader_log[t], q.fetch_offset)
<1> DEFINE e == q.last_fetched_epoch
           n == Len(l)
<1>1. /\ leader_log \in LogsType /\ leader_log[t] \in Seq(Entry)
      /\ Rooted(leader_log[t], leader_log)
  BY Zenon, LeaderFacts
<1>2. CASE l = <<>>
  BY <1>2 DEF Exists, UpTo
<1>3. CASE l # <<>>
  <2>1. n \in 1 .. Len(l) /\ n \in Nat /\ e = l[n].term
    BY <1>3
  <2>2. /\ e \in 1 .. MaxTerm /\ leader_log[e] \in Seq(Entry) /\ Agree(leader_log[e], l, n)
    BY Zenon, <1>1, <2>1, RootedFacts
  <2>3. n <= Len(leader_log[e]) /\ leader_log[e][n] = l[n]
    BY <2>1, <2>2 DEF Agree
  <2>4. Exists(q)
    BY Zenon, <2>1, <2>2, <2>3 DEF Exists
  <2>5. ASSUME In(q, t)
        PROVE  /\ UpTo(l, leader_log[t], n)
               /\ UpTo(d, leader_log[t], n)
    <3>1. n <= Len(leader_log[t]) /\ leader_log[t][n].term = l[n].term
      BY <2>1, <2>5 DEF In
    <3>2. Agree(l, leader_log[t], n)
      BY Zenon, <1>1, <2>1, <3>1, Matching
    <3>3. Agree(d, leader_log[t], n)
      BY Zenon, <1>1, <2>1, <3>2, AgreeTrans
    <3> QED
      BY Zenon, <3>2, <3>3 DEF Agree, UpTo
  <2> QED
    BY Zenon, <2>4, <2>5
<1> QED
  BY <1>2, <1>3

\* A request that a leader does not find diverging asks from a position of its
\* log.
LEMMA Position ==
    ASSUME EpochEnds, TypeOK, LeadersInv, NEW q \in Request, Exists(q), NEW t \in 1 .. MaxTerm,
           ~Diverges(leader_log[t], q)
    PROVE  In(q, t)
<1> DEFINE l == leader_log[t]
           e == q.last_fetched_epoch
           f == q.fetch_offset
<1>1. /\ leader_log \in LogsType /\ l \in Seq(Entry) /\ Len(l) \in Nat /\ Rooted(l, leader_log)
  BY Zenon, LeaderFacts
<1>2. f \in Nat /\ e \in Term
  BY DEF Request
<1>3. f <= EpochEnd(l, e) /\ HasEpoch(l, e)
  <2>1. EpochEnd(l, e) \in Nat
    BY <1>1, <1>2 DEF EpochEnds
  <2> QED
    BY <1>2, <2>1 DEF Diverges
<1>4. EpochEnd(l, e) \in 0 .. Len(l)
  BY Zenon, <1>1, <1>2 DEF EpochEnds
<1>5. f <= Len(l)
  BY <1>1, <1>2, <1>3, <1>4
<1>6. CASE f = 0
  BY <1>2, <1>5, <1>6 DEF In
<1>7. CASE f # 0
  <2>1. /\ e \in 1 .. MaxTerm /\ leader_log[e] \in Seq(Entry) /\ f \in 1 .. Len(leader_log[e])
        /\ leader_log[e][f].term = e
    BY <1>1, <1>2, <1>7 DEF Exists, LogsType
  <2>2. ASSUME NEW j \in 1 .. Len(l), f <= j, l[j].term = e
        PROVE  l[f].term = e
    <3>1. Agree(leader_log[e], l, j) /\ j \in Nat
      BY Zenon, <1>1, <2>2, RootedFacts
    <3>2. leader_log[e][f] = l[f]
      BY <1>2, <1>7, <2>2, <3>1 DEF Agree
    <3> QED
      BY Zenon, <2>1, <3>2
  <2>3. PICK i \in 1 .. Len(l) : l[i].term = e
    BY <1>1, <1>3, <2>1 DEF HasEpoch
  <2>4. CASE f <= i
    BY Zenon, <1>5, <2>2, <2>3, <2>4 DEF In
  <2>5. CASE i < f
    <3>1. f \in 1 .. Len(l)
      BY <1>1, <1>2, <1>5, <1>7
    <3>2. ~(EpochEnd(l, e) < f)
      BY <1>2, <1>3, <1>4
    <3>3. PICK j \in f .. Len(l) : ~(l[j].term > e)
      BY Zenon, <1>1, <1>2, <3>1, <3>2 DEF EpochEnds
    <3>4. j \in 1 .. Len(l) /\ f <= j /\ i <= j /\ i \in 1 .. j
      BY <1>1, <1>2, <2>5, <3>1, <3>3
    <3>5. PICK u : u = l[j].term
      OBVIOUS
    <3>6. /\ u \in 1 .. MaxTerm /\ leader_log[u] \in Seq(Entry) /\ Agree(leader_log[u], l, j)
          /\ j \in Nat
      BY Zenon, <1>1, <3>4, <3>5, RootedFacts
    <3>7. LeaderInv(u)
      BY Zenon, <3>6 DEF LeadersInv
    <3>8. leader_log[u][i].term <= u
      <4>1. i \in 1 .. Len(leader_log[u])
        BY <3>4, <3>6 DEF Agree
      <4> QED
        BY Zenon, <3>7, <4>1 DEF LeaderInv
    <3>9. leader_log[u][i] = l[i]
      BY Zenon, <3>4, <3>6 DEF Agree
    <3>10. u = e
      BY <1>2, <2>3, <3>3, <3>5, <3>6, <3>8, <3>9 DEF Term
    <3> QED
      BY Zenon, <1>5, <2>2, <3>4, <3>5, <3>10 DEF In
  <2>6. f <= i \/ i < f
    BY <1>2, <2>3
  <2> QED
    BY <2>4, <2>5, <2>6
<1> QED
  BY <1>6, <1>7

-----------------------------------------------------------------------------
(* Responses the node accepts are of its term. *)

\* The answer of the leader of t to a request whose position it has, and up to
\* which the log of the node is its log.
Matches(r, t) ==
    \E q \in requests : /\ Follows(r, t, q) /\ In(q, t) /\ r.first = q.fetch_offset
                        /\ q.fetch_offset \in Nat
                        /\ UpTo(state.log, leader_log[t], q.fetch_offset)

Current(r) ==
    /\ r \in ResponseType
    /\ state.role = "Follower"
    /\ state.current_term \in 1 .. MaxTerm
    /\ r.leader_epoch = state.current_term
    /\ r.leader_id = leader_of[state.current_term]
    /\ r.diverging_epoch = Nil /\ r.snapshot_id = Nil => Matches(r, state.current_term)

LEMMA AcceptedIsCurrent ==
    ASSUME EpochEnds, AnswersStale = FALSE, LocalInv, SafeInv, NEW r \in Response,
           Accepts(state, r)
    PROVE  Current(r)
<1>1. PICK q \in requests : \E t \in Answering(q) : r \in Answers(t, q)
  BY Zenon, ResponseTyped
<1>2. PICK t \in Answering(q) : r \in Answers(t, q)
  BY <1>1
<1>3. /\ TypeOK /\ LeadersInv /\ q \in Request /\ RequestInv(q) /\ state \in NodeState
  BY Zenon, <1>1 DEF LocalInv, SafeInv, NodeInv, TypeOK
<1>4. /\ t \in 1 .. MaxTerm /\ q.dest \in Peers /\ leader_of[t] = q.dest /\ t = q.leader_epoch
  BY <1>2 DEF Answering
<1>5. /\ r \in ResponseType /\ r.leader_epoch = t /\ r.leader_id = leader_of[t]
      /\ r.first = q.fetch_offset
      /\ r.diverging_epoch = Nil /\ r.snapshot_id = Nil => Follows(r, t, q)
  <2>1. q \in Request /\ TypeOK
    BY <1>3
  <2>2. t \in 1 .. MaxTerm /\ leader_of[t] \in Peers
    BY <1>4
  <2> QED
    BY <1>2, <2>1, <2>2, AnswerFacts
<1>6. t \in 1 .. state.current_term /\ Exists(q)
  BY Zenon, <1>3, <1>4 DEF RequestInv
<1>7. state.current_term \in Term
  BY <1>3 DEF NodeState
<1>8. state.role = "Follower" /\ state.current_term = t
  BY <1>5, <1>6, <1>7 DEF Accepts, Term
<1>9. ASSUME Follows(r, t, q)
      PROVE  Matches(r, t)
  <2>1. ~Diverges(leader_log[t], q)
    BY Zenon, <1>9 DEF Follows
  <2>2. In(q, t)
    BY Zenon, <1>3, <1>4, <1>6, <2>1, Position
  <2>3. UpTo(state.log, leader_log[t], q.fetch_offset)
    BY Zenon, <1>3, <1>4, <1>8, <2>2 DEF RequestInv
  <2>4. q.fetch_offset \in Nat
    BY <1>3 DEF Request
  <2> QED
    BY Zenon, <1>1, <1>5, <1>9, <2>2, <2>3, <2>4 DEF Matches
<1> QED
  BY Zenon, <1>4, <1>5, <1>8, <1>9 DEF Current

\* So a response brings at most its leader.
LEMMA ValidatedCurrent ==
    ASSUME TypeOK, NEW r, Current(r), Accepts(state, r)
    PROVE  /\ Validated(state, r) \in NodeState
           /\ SameLog(Validated(state, r), state)
           /\ Validated(state, r).role = "Follower"
           /\ Validated(state, r).current_term = state.current_term
           /\ Validated(state, r).leader_id = leader_of[state.current_term]
<1>1. PICK v : v = Validated(state, r)
  OBVIOUS
<1>2. state \in NodeState /\ r \in ResponseType
  BY Zenon DEF TypeOK, Current
<1>3. /\ v \in NodeState /\ SameLog(v, state) /\ v.role = "Follower"
      /\ v.current_term = IF r.leader_epoch > state.current_term
                          THEN r.leader_epoch ELSE state.current_term
      /\ v.leader_id = r.leader_id
  BY Zenon, <1>1, <1>2, ValidatedType
<1>4. r.leader_epoch = state.current_term /\ r.leader_id = leader_of[state.current_term]
  BY Zenon DEF Current
<1>5. v.current_term = state.current_term /\ v.leader_id = leader_of[state.current_term]
  BY Zenon, <1>3, <1>4
<1> QED
  BY Zenon, <1>1, <1>3, <1>5

\* The quorum states in a batch are those of v.
SavesOf(batch, v) ==
    \A i \in 1 .. Len(batch) :
        batch[i].op = "PersistQuorumState" => batch[i].quorum = QuorumState(v)

LEMMA DeferredSaves ==
    ASSUME NEW s, NEW r
    PROVE  /\ SavesOf(Deferred(s, r), Validated(s, r))
           /\ SavesOf(<<>> \o Deferred(s, r), Validated(s, r))
           /\ \A a : a.op # "PersistQuorumState" =>
                SavesOf(<<a>> \o Deferred(s, r), Validated(s, r))
<1> DEFINE v == Validated(s, r)
           b == PersistQuorumState(v)
<1>1. b.quorum = QuorumState(v)
  BY DEF PersistQuorumState
<1>2. Deferred(s, r) \in {<<>>, <<b>>}
  BY Zenon DEF Deferred
<1> HIDE DEF b, v
<1>3. SavesOf(<<>>, v)
  BY DEF SavesOf
<1>4. SavesOf(<<b>>, v)
  BY <1>1 DEF SavesOf
<1>5. ASSUME NEW a, a.op # "PersistQuorumState"
      PROVE  SavesOf(<<a>>, v) /\ SavesOf(<<a, b>>, v)
  BY <1>1, <1>5 DEF SavesOf
<1>6. /\ <<>> \o <<b>> = <<b>> /\ <<>> \o <<>> = <<>>
      /\ \A a : <<a>> \o <<b>> = <<a, b>> /\ <<a>> \o <<>> = <<a>>
  BY Zenon, BatchShapes
<1>7. SavesOf(Deferred(s, r), v) /\ SavesOf(<<>> \o Deferred(s, r), v)
  BY Zenon, <1>2, <1>3, <1>4, <1>6
<1>8. \A a : a.op # "PersistQuorumState" => SavesOf(<<a>> \o Deferred(s, r), v)
  BY Zenon, <1>2, <1>5, <1>6
<1> QED
  BY Zenon, <1>7, <1>8 DEF v

LEMMA CurrentTerms ==
    ASSUME TypeOK, TermsInv, NEW r, Current(r), NEW v, v.current_term = state.current_term,
           v.leader_id = leader_of[state.current_term], SavesOf(storage', v),
           state'.current_term = v.current_term, state'.leader_id = v.leader_id,
           UNCHANGED leaders, quorum_state' = quorum_state
    PROVE  TermsInv'
<1>1. leader_of' = leader_of /\ state.current_term > 0
  BY DEF leaders, Current
<1>2. OfTerm(QuorumState(v))' /\ OfTerm(QuorumState(state))'
  BY <1>1 DEF OfTerm, QuorumState
<1>3. OfTerm(quorum_state)'
  BY <1>1 DEF OfTerm, TermsInv
<1> QED
  BY Zenon, <1>2, <1>3 DEF TermsInv, SavesOf

LEMMA NewRequest ==
    ASSUME TypeOK, TypeOK', LeadersInv, UNCHANGED leaders, Rooted(state'.log, leader_log),
           OfTerm(QuorumState(state))', Agree(disk_log', state'.log, Len(state'.log)),
           NEW q \in build_fetch_request(state')
    PROVE  RequestInv(q)'
<1> DEFINE t == q.leader_epoch
           l == state'.log
<1>1. leader_of' = leader_of /\ leader_log' = leader_log
  BY DEF leaders
<1>2. /\ state'.leader_id # Nil /\ t = state'.current_term /\ q.dest = state'.leader_id
      /\ q.fetch_offset = Len(l) /\ q.last_fetched_epoch = IF l = <<>> THEN 0 ELSE l[Len(l)].term
  BY DEF build_fetch_request, FetchRequest, log_end_offset, last_log_term
<1>3. state'.current_term > 0 /\ state'.leader_id = leader_of[state'.current_term]
  BY <1>1, <1>2 DEF OfTerm, QuorumState
<1>4. l \in Seq(Entry) /\ disk_log' \in Seq(Entry) /\ state'.current_term \in Term
  <2>1. state' \in NodeState /\ disk_log' \in Seq(Entry)
    BY Zenon DEF TypeOK
  <2> QED
    BY <2>1 DEF NodeState
<1>5. t \in 1 .. MaxTerm /\ t \in 1 .. state'.current_term
  BY <1>2, <1>3, <1>4 DEF Term
<1>6. /\ Exists(q)
      /\ In(q, t) => /\ UpTo(l, leader_log[t], q.fetch_offset)
                     /\ UpTo(disk_log', leader_log[t], q.fetch_offset)
  BY Zenon, <1>2, <1>4, <1>5, AsksAfter
<1>7. Exists(q)'
  BY Zenon, <1>1, <1>6 DEF Exists
<1>8. In(q, t)' => In(q, t)
  BY Zenon, <1>1 DEF In
<1> QED
  BY Zenon, <1>1, <1>2, <1>3, <1>5, <1>6, <1>7, <1>8 DEF RequestInv

LEMMA SafeTick ==
    ASSUME LocalInv, LocalInv', SafeInv, on_fetch_tick
    PROVE  SafeInv'
<1>1. /\ Idle /\ state' = state /\ storage' = storage /\ quorum_state' = quorum_state
      /\ disk_log' = disk_log /\ applied' = applied /\ completed' = completed
      /\ requests' = requests \cup build_fetch_request(state) /\ UNCHANGED leaders
      /\ leader_of' = leader_of /\ leader_log' = leader_log /\ committed' = committed
  BY DEF on_fetch_tick, disk, app, leaders
<1>2. /\ TypeOK /\ TypeOK' /\ requests \subseteq Request /\ LeadersInv /\ NodeInv /\ AppInv
      /\ LeadInv /\ TermsInv /\ Rooted(state.log, leader_log)
  BY Zenon DEF LocalInv, SafeInv, NodeInv
<1>3. state.log = disk_log /\ state.log \in Seq(Entry) /\ state.current_term \in Term
  BY <1>1, IdleFacts DEF NodeState
<1>4. LeadersStep /\ LeadersInv'
  BY Zenon, <1>1, <1>2, LeadersSame
<1>5. LeadInv'
  BY Zenon, <1>1, <1>2 DEF LeadInv
<1>6. TermsInv'
  BY Zenon, <1>1, <1>2, <1>4, TermsKept
<1>7. Agree(state.log, state.log, Len(state.log))
  BY Zenon, <1>3, AgreeSelf
<1>8. ASSUME NEW q \in requests' \ requests
      PROVE  RequestInv(q)'
  <2>1. q \in build_fetch_request(state')
    BY Zenon, <1>1, <1>8
  <2>2. OfTerm(QuorumState(state))'
    BY Zenon, <1>6 DEF TermsInv
  <2> QED
    BY Zenon, <1>1, <1>2, <1>3, <1>7, <2>1, <2>2, NewRequest
<1>9. NodeInv'
  <2>1. LogFrom(state'.log) /\ LogFrom(disk_log') /\ state.current_term <= state'.current_term
    <3>1. state.current_term <= state.current_term
      BY <1>3 DEF Term
    <3> QED
      BY Zenon, <1>1, <1>3, <1>7, <3>1 DEF LogFrom
  <2> QED
    BY Zenon, <1>1, <1>2, <1>5, <1>6, <1>8, <2>1, NodeMoves
<1>10. AppInv'
  <2>1. state'.log \in {state.log}
    BY <1>1
  <2> QED
    BY Zenon, <1>1, <1>2, <1>4, <2>1, AppKept DEF LeadersStep
<1> QED
  BY Zenon, <1>4, <1>9, <1>10 DEF SafeInv

\* A response that brings no more than its leader.
LEMMA SafeQuiet ==
    ASSUME LocalInv, LocalInv', SafeInv, NEW r, Current(r), Accepts(state, r), Idle,
           state' = Validated(state, r), storage' \in {<<>>, Deferred(state, r)},
           UNCHANGED leaders, UNCHANGED disk, UNCHANGED app, requests' = requests
    PROVE  SafeInv'
<1> DEFINE v == Validated(state, r)
<1>1. /\ disk_log' = disk_log /\ quorum_state' = quorum_state /\ applied' = applied
      /\ completed' = completed
  BY DEF disk, app
<1>2. /\ TypeOK /\ TypeOK' /\ requests \subseteq Request /\ LeadersInv /\ NodeInv /\ AppInv
      /\ TermsInv
  BY Zenon DEF LocalInv, SafeInv, NodeInv
<1>3. /\ v \in NodeState /\ SameLog(v, state) /\ v.role = "Follower"
      /\ v.current_term = state.current_term /\ v.leader_id = leader_of[state.current_term]
  BY Zenon, <1>2, ValidatedCurrent
<1>4. LeadersStep /\ LeadersInv'
  BY Zenon, <1>2, LeadersSame
<1>5. SavesOf(storage', v)
  <2>1. SavesOf(<<>>, v)
    BY DEF SavesOf
  <2>2. SavesOf(Deferred(state, r), v)
    BY Zenon, DeferredSaves
  <2> HIDE DEF v
  <2> QED
    BY Zenon, <2>1, <2>2
<1>6. TermsInv'
  BY Zenon, <1>1, <1>2, <1>3, <1>5, CurrentTerms
<1> HIDE DEF v
<1>7. state' = v
  BY DEF v
<1>8. LeadInv'
  BY <1>3, <1>7 DEF LeadInv
<1>9. NodeInv'
  <2>1. state.current_term <= state'.current_term
    BY <1>2, <1>3, <1>7 DEF TypeOK, NodeState, Term
  <2> QED
    BY Zenon, <1>1, <1>2, <1>3, <1>4, <1>6, <1>7, <1>8, <2>1, NodeKept DEF SameLog
<1>10. AppInv'
  <2>1. state'.log \in {state.log} /\ state.role # "Down"
    BY <1>3, <1>7 DEF SameLog, Idle
  <2> QED
    BY Zenon, <1>1, <1>2, <1>3, <1>4, <1>7, <2>1, AppKept DEF SameLog, LeadersStep
<1> QED
  BY Zenon, <1>4, <1>9, <1>10 DEF SafeInv

-----------------------------------------------------------------------------
(* Writes, the end of the process and its start. *)

LEMMA SafeWrite ==
    ASSUME LocalInv, LocalInv', SafeInv, Write
    PROVE  SafeInv'
<1> DEFINE a == Head(storage)
<1>1. /\ storage # <<>> /\ storage' = Tail(storage) /\ state' = state /\ requests' = requests
      /\ applied' = applied /\ completed' = completed /\ UNCHANGED leaders
      /\ leader_of' = leader_of /\ committed' = committed /\ leader_log' = leader_log
  BY DEF Write, leaders, app
<1>2. ASSUME Persists(a)
      PROVE  disk_log' = disk_log /\ quorum_state' = a.quorum
  BY <1>2 DEF Write, Persists
<1>3. ASSUME WritesLog(a)
      PROVE  disk_log' = state.log /\ quorum_state' = quorum_state
  BY Zenon, <1>3 DEF Write, WritesLog
<1>4. /\ TypeOK /\ TypeOK' /\ requests \subseteq Request /\ LeadersInv /\ NodeInv /\ AppInv
      /\ LeadInv /\ TermsInv
  BY Zenon DEF LocalInv, SafeInv, NodeInv
<1>5. /\ disk_log \in Seq(Entry) /\ state.log \in Seq(Entry) /\ state.current_term \in Term
  BY <1>4 DEF TypeOK, NodeState
<1>6. LeadersStep /\ LeadersInv'
  BY Zenon, <1>1, <1>4, LeadersSame
<1>7. Persists(a) \/ WritesLog(a)
  BY <1>1, BatchShapes DEF LocalInv, BatchReaches
<1>8. (\E b : storage = <<b>>) \/ (\E b, c : storage = <<b, c>>)
  BY Zenon, <1>1 DEF LocalInv, BatchReaches
<1>9. /\ storage' = <<>> \/ \E b, c : storage = <<b, c>> /\ storage' = <<c>>
      /\ (\E b : storage = <<b>> /\ a = b) \/ (\E b, c : storage = <<b, c>> /\ a = b)
  <2>1. ASSUME NEW b, storage = <<b>> PROVE storage' = <<>> /\ a = b
    BY Zenon, <1>1, <2>1, BatchShapes
  <2>2. ASSUME NEW b, NEW c, storage = <<b, c>> PROVE storage' = <<c>> /\ a = b
    BY Zenon, <1>1, <2>2, BatchShapes
  <2> HIDE DEF a
  <2>3. CASE \E b : storage = <<b>>
    BY Zenon, <2>1, <2>3
  <2>4. CASE \E b, c : storage = <<b, c>>
    BY Zenon, <2>2, <2>4
  <2> QED
    BY Zenon, <1>8, <2>3, <2>4
<1>10. \A i \in 1 .. Len(storage) :
         storage[i].op = "PersistQuorumState" => OfTerm(storage[i].quorum)
  BY Zenon, <1>4 DEF TermsInv
<1>11. a.op = "PersistQuorumState" => OfTerm(a.quorum)
  <2> HIDE DEF a
  <2>1. Len(storage) \in Nat /\ 1 \in 1 .. Len(storage) /\ storage[1] = a
    BY <1>9
  <2> QED
    BY Zenon, <1>10, <2>1
<1>12. \A i \in 1 .. Len(storage') :
         storage'[i].op = "PersistQuorumState" => OfTerm(storage'[i].quorum)
  <2>1. CASE storage' = <<>>
    BY <2>1
  <2>2. ASSUME NEW b, NEW c, storage = <<b, c>>, storage' = <<c>>
        PROVE  \A i \in 1 .. Len(storage') :
                 storage'[i].op = "PersistQuorumState" => OfTerm(storage'[i].quorum)
    <3>1. 2 \in 1 .. Len(storage) /\ storage[2] = c
      BY <2>2
    <3>2. c.op = "PersistQuorumState" => OfTerm(c.quorum)
      BY Zenon, <1>10, <3>1
    <3>3. \A i \in 1 .. Len(storage') : storage'[i] = c
      BY <2>2
    <3> QED
      BY Zenon, <3>2, <3>3
  <2> QED
    BY Zenon, <1>9, <2>1, <2>2
<1>13. OfTerm(quorum_state')
  BY Zenon, <1>2, <1>3, <1>4, <1>7, <1>11 DEF Persists, TermsInv
<1>14. TermsInv'
  <2>1. \A q : OfTerm(q)' <=> OfTerm(q)
    BY Zenon, <1>1 DEF OfTerm
  <2>2. OfTerm(QuorumState(state))'
    BY Zenon, <1>1, <1>4 DEF TermsInv, OfTerm
  <2>3. OfTerm(quorum_state)'
    BY Zenon, <1>1, <1>13 DEF OfTerm
  <2>4. \A i \in 1 .. Len(storage') :
          storage'[i].op = "PersistQuorumState" => OfTerm(storage[i].quorum)'
    BY Zenon, <1>1, <1>12 DEF OfTerm
  <2> QED
    BY Zenon, <2>2, <2>3, <2>4 DEF TermsInv
<1>15. LogFrom(state'.log) /\ LogFrom(disk_log') /\ state.current_term <= state'.current_term
  <2>1. Agree(state.log, state.log, Len(state.log)) /\ Agree(disk_log, disk_log, Len(disk_log))
    BY Zenon, <1>5, AgreeSelf
  <2>2. disk_log' = disk_log \/ disk_log' = state.log
    BY Zenon, <1>2, <1>3, <1>7
  <2>3. state.current_term <= state.current_term
    BY <1>5 DEF Term
  <2> QED
    BY Zenon, <1>1, <2>1, <2>2, <2>3 DEF LogFrom
<1>16. LeadInv'
  BY Zenon, <1>1, <1>4 DEF LeadInv
<1>17. NodeInv'
  <2>1. \A q \in requests' \ requests : RequestInv(q)'
    BY <1>1
  <2> QED
    BY Zenon, <1>1, <1>4, <1>14, <1>15, <1>16, <2>1, NodeMoves
<1>18. AppInv'
  <2>1. state'.log \in {state.log}
    BY <1>1
  <2> QED
    BY Zenon, <1>1, <1>4, <1>6, <2>1, AppKept DEF LeadersStep
<1> QED
  BY Zenon, <1>6, <1>17, <1>18 DEF SafeInv

\* A node that has committed nothing since it started.
LEMMA AppFresh ==
    ASSUME TypeOK, TypeOK', CompletionsAreTrue, committed' = committed, completed' = completed,
           state'.high_watermark = 0, state'.leader_epoch_checkpoint = [t \in Term |-> Nil],
           state'.role = "Down" \/ applied' = <<>>
    PROVE  AppInv'
<1>1. committed \in Seq(Entry) /\ state'.log \in Seq(Entry)
  <2>1. committed \in Seq(Entry) /\ state' \in NodeState
    BY Zenon DEF TypeOK
  <2> QED
    BY <2>1 DEF NodeState
<1>2. Agree(state'.log, committed, 0)
  BY <1>1 DEF Agree
<1>3. LatestVoters(committed, 1 .. 0, Nil) = Nil
  BY DEF LatestVoters, OfType
<1>4. WentThrough(committed, 1, 0) = <<>>
  <2>1. 1 .. 0 - 1 + 1 = {}
    OBVIOUS
  <2> QED
    BY <2>1 DEF WentThrough
<1>5. ASSUME NEW t \in Term, NEW o \in Nat
      PROVE  ~(state'.leader_epoch_checkpoint[t] = o) /\ ~(o < 0)
  BY NilAssumption
<1>6. Has(state', committed')
  BY Zenon, <1>2, <1>3, <1>5 DEF Has
<1>7. CompletionsAreTrue'
  BY Zenon DEF CompletionsAreTrue
<1> QED
  BY Zenon, <1>4, <1>6, <1>7 DEF AppInv

\* The process ends, or starts: it is what the stores have.
LEMMA SafeFresh ==
    ASSUME LocalInv, LocalInv', SafeInv, NEW role \in {"Down", "Follower"},
           state' = [FromStores EXCEPT !.role = role], storage' = <<>>, UNCHANGED leaders,
           UNCHANGED disk, completed' = completed, requests' = requests,
           role = "Down" \/ applied' = <<>>
    PROVE  SafeInv'
<1>1. /\ disk_log' = disk_log /\ quorum_state' = quorum_state
      /\ leader_of' = leader_of /\ committed' = committed
  BY DEF disk, leaders
<1>2. /\ TypeOK /\ TypeOK' /\ requests \subseteq Request /\ LeadersInv /\ NodeInv /\ AppInv
      /\ TermsInv
  BY Zenon DEF LocalInv, SafeInv, NodeInv
<1>3. /\ FromStores \in NodeState /\ FromStores.log = disk_log
      /\ FromStores.high_watermark = 0 /\ QuorumState(FromStores) = quorum_state
      /\ FromStores.leader_epoch_checkpoint = [t \in Term |-> Nil]
  BY Zenon, <1>2, FromStoresFacts
<1>4. /\ state'.role = role /\ state'.log = disk_log /\ state'.high_watermark = 0
      /\ state'.current_term = FromStores.current_term
      /\ state'.leader_id = FromStores.leader_id /\ state'.voted_for = FromStores.voted_for
      /\ state'.leader_epoch_checkpoint = [t \in Term |-> Nil]
  BY <1>3 DEF NodeState
<1>5. QuorumState(state') = quorum_state
  BY Zenon, <1>3, <1>4 DEF QuorumState
<1>6. quorum_state.current_term = state'.current_term
  BY <1>5 DEF QuorumState
<1>7. OfTerm(quorum_state) /\ quorum_state.current_term = state.current_term
  BY Zenon, <1>2 DEF TermsInv, OfTerm
<1>8. OfTerm(quorum_state)' /\ OfTerm(QuorumState(state))'
  BY Zenon, <1>1, <1>5, <1>6, <1>7 DEF OfTerm
<1>9. TermsInv'
  <2>1. \A i \in 1 .. Len(storage') : FALSE
    OBVIOUS
  <2> QED
    BY Zenon, <1>8, <2>1 DEF TermsInv
<1>10. LeadInv'
  BY <1>4 DEF LeadInv
<1>11. LogFrom(state'.log) /\ LogFrom(disk_log') /\ state.current_term <= state'.current_term
  <2>1. disk_log \in Seq(Entry) /\ state.current_term \in Term
    BY <1>2 DEF TypeOK, NodeState
  <2>2. Agree(disk_log, disk_log, Len(disk_log))
    BY Zenon, <2>1, AgreeSelf
  <2>3. state.current_term <= state'.current_term
    BY <1>6, <1>7, <2>1 DEF Term
  <2> QED
    BY Zenon, <1>1, <1>4, <2>2, <2>3 DEF LogFrom
<1>12. NodeInv'
  <2>1. \A q \in requests' \ requests : RequestInv(q)'
    OBVIOUS
  <2> QED
    BY Zenon, <1>2, <1>9, <1>10, <1>11, <2>1, NodeMoves
<1>13. AppInv'
  BY Zenon, <1>1, <1>2, <1>4, AppFresh DEF AppInv
<1>14. LeadersInv'
  BY Zenon, <1>2, LeadersSame
<1> QED
  BY Zenon, <1>12, <1>13, <1>14 DEF SafeInv

-----------------------------------------------------------------------------
(* Truncation. *)

\* The epoch checkpoint is of committed entries, which a truncation keeps.
LEMMA CutKeepsEpochs ==
    ASSUME NEW s \in NodeState, NEW c, Has(s, c), NEW p \in s.high_watermark .. Len(s.log)
    PROVE  Truncated(s, p).leader_epoch_checkpoint = s.leader_epoch_checkpoint
<1> DEFINE g == s.leader_epoch_checkpoint
           k == Truncated(s, p)
<1>1. /\ g \in [Term -> Nat \cup {Nil}] /\ s.high_watermark \in Nat
  BY DEF NodeState
<1>2. p \in Int /\ p >= s.high_watermark
  BY <1>1
<1>3. \A t \in Term : ~(g[t] # Nil /\ g[t] >= p)
  <2> SUFFICES ASSUME NEW t \in Term, g[t] # Nil PROVE ~(g[t] >= p)
    BY Zenon
  <2>1. PICK o \in Nat : g[t] = o
    BY <1>1
  <2>2. o < s.high_watermark
    BY Zenon, <2>1 DEF Has
  <2> QED
    BY <1>1, <1>2, <2>1, <2>2
<1>4. k.leader_epoch_checkpoint = [t \in Term |-> IF g[t] # Nil /\ g[t] >= p THEN Nil ELSE g[t]]
  BY DEF Truncated, NodeState
<1> HIDE DEF k
<1>5. k.leader_epoch_checkpoint = [t \in Term |-> g[t]]
  BY Zenon, <1>3, <1>4
<1>6. g = [t \in Term |-> g[t]]
  BY <1>1
<1> QED
  BY Zenon, <1>5, <1>6 DEF k

LEMMA SafeTruncate ==
    ASSUME LocalInv, LocalInv', SafeInv, NEW r, Current(r), truncate_divergent(r)
    PROVE  SafeInv'
<1> DEFINE v == Validated(state, r)
           p == TruncationPoint(v, r)
           k == Truncated(v, p)
<1>1. /\ Idle /\ Accepts(state, r) /\ r.diverging_epoch # Nil /\ UNCHANGED leaders
      /\ UNCHANGED disk /\ UNCHANGED app /\ disk_log' = disk_log /\ quorum_state' = quorum_state
      /\ applied' = applied /\ completed' = completed /\ committed' = committed
      /\ leader_of' = leader_of
  BY DEF truncate_divergent, leaders, disk, app
<1>2. /\ TypeOK /\ TypeOK' /\ requests \subseteq Request /\ LeadersInv /\ NodeInv /\ AppInv
      /\ TermsInv /\ r \in ResponseType /\ Has(state, committed) /\ Rooted(state.log, leader_log)
  BY Zenon DEF LocalInv, SafeInv, NodeInv, AppInv, Current
<1>3. /\ state.log = disk_log /\ Tidy(state, queue) /\ queue \in SUBSET Record
      /\ storage = <<>> /\ state.role # "Down" /\ state \in NodeState
  BY Zenon, <1>1, IdleFacts
<1>4. /\ v \in NodeState /\ SameLog(v, state) /\ v.role = "Follower"
      /\ v.current_term = state.current_term /\ v.leader_id = leader_of[state.current_term]
  BY Zenon, <1>1, <1>2, ValidatedCurrent
<1>5. Tidy(v, queue) /\ Has(v, committed)
  BY Zenon, <1>2, <1>3, <1>4, SameTidy DEF SameLog, Has
<1>6. \/ Uncommits(v, p) /\ state' = v /\ storage' = storage /\ requests' = requests
      \/ /\ ~Uncommits(v, p) /\ state' = k
         /\ storage' = <<TruncateSuffix(p)>> \o Deferred(state, r)
         /\ requests' = requests \cup build_fetch_request(k)
  BY DEF truncate_divergent
<1>7. CASE Uncommits(v, p) /\ state' = v /\ storage' = storage /\ requests' = requests
  <2>1. storage' \in {<<>>, Deferred(state, r)}
    BY <1>3, <1>7
  <2> QED
    BY Zenon, <1>1, <1>7, <2>1, SafeQuiet
<1>8. CASE /\ ~Uncommits(v, p) /\ state' = k
           /\ storage' = <<TruncateSuffix(p)>> \o Deferred(state, r)
           /\ requests' = requests \cup build_fetch_request(k)
  <2>1. p \in v.high_watermark .. Len(v.log)
    BY Zenon, <1>1, <1>2, <1>4, <1>5, <1>8, CutFacts DEF Tidy
  <2>2. SavesOf(storage', v)
    <3>1. PICK a : a = TruncateSuffix(p)
      OBVIOUS
    <3>2. a.op # "PersistQuorumState"
      BY <3>1 DEF TruncateSuffix
    <3> QED
      BY Zenon, <1>8, <3>1, <3>2, DeferredSaves
  <2> HIDE DEF v, p
  <2>3. /\ k \in NodeState /\ k.role = v.role /\ k.current_term = v.current_term
        /\ k.leader_id = v.leader_id /\ k.log = Prefix(v.log, p)
        /\ k.high_watermark = v.high_watermark /\ k.voter_set = v.voter_set
    BY Zenon, <1>3, <1>4, <1>5, <2>1, TruncatedFacts
  <2>4. k.leader_epoch_checkpoint = v.leader_epoch_checkpoint
    BY Zenon, <1>4, <1>5, <2>1, CutKeepsEpochs
  <2> HIDE DEF k
  <2>5. v.log = state.log /\ v.high_watermark = state.high_watermark
    BY Zenon, <1>4 DEF SameLog
  <2>6. /\ state.log \in Seq(Entry) /\ state.high_watermark \in Nat
        /\ state.current_term \in Term
    BY <1>3 DEF NodeState
  <2>7. p \in 0 .. Len(state.log) /\ p >= state.high_watermark /\ p \in Nat
    BY <2>1, <2>5, <2>6
  <2>8. /\ k.log \in Seq(Entry) /\ Len(k.log) = p /\ Agree(k.log, state.log, p)
    <3>1. k.log = Prefix(state.log, p)
      BY Zenon, <2>3, <2>5
    <3> QED
      BY Zenon, <2>6, <2>7, <3>1, PrefixFacts
  <2>9. Agree(k.log, state.log, state.high_watermark) /\ Agree(state.log, k.log, Len(k.log))
    <3>1. p <= p /\ state.high_watermark <= p
      BY <2>6, <2>7
    <3> QED
      BY Zenon, <2>6, <2>7, <2>8, <3>1, AgreeLess
  <2>10. TermsInv'
    BY Zenon, <1>1, <1>2, <1>4, <1>8, <2>2, <2>3, CurrentTerms
  <2>11. LeadInv'
    BY <1>4, <1>8, <2>3 DEF LeadInv
  <2>12. Rooted(k.log, leader_log)
    <3>1. leader_log \in LogsType
      BY <1>2 DEF TypeOK, LogsType
    <3> QED
      BY Zenon, <1>2, <2>6, <2>8, <3>1, RootedPart
  <2>13. ASSUME NEW q \in requests' \ requests
         PROVE  RequestInv(q)'
    <3>1. q \in build_fetch_request(state')
      BY Zenon, <1>8, <2>13
    <3>2. OfTerm(QuorumState(state))'
      BY Zenon, <2>10 DEF TermsInv
    <3>3. Rooted(state'.log, leader_log) /\ Agree(disk_log', state'.log, Len(state'.log))
      BY Zenon, <1>1, <1>3, <1>8, <2>9, <2>12
    <3> QED
      BY Zenon, <1>1, <1>2, <3>1, <3>2, <3>3, NewRequest
  <2>14. NodeInv'
    <3>1. LogFrom(state'.log)
      BY Zenon, <1>8, <2>8 DEF LogFrom
    <3>2. LogFrom(disk_log')
      BY Zenon, <1>1, <1>3, <2>6, AgreeSelf DEF LogFrom
    <3>3. state.current_term <= state'.current_term
      BY <1>4, <1>8, <2>3, <2>6 DEF Term
    <3> QED
      BY Zenon, <1>1, <1>2, <2>10, <2>11, <2>13, <3>1, <3>2, <3>3, NodeMoves
  <2>15. LeadersStep /\ LeadersInv'
    BY Zenon, <1>1, <1>2, LeadersSame
  <2>16. AppInv'
    <3>1. /\ state'.high_watermark = state.high_watermark
          /\ state'.leader_epoch_checkpoint = state.leader_epoch_checkpoint
          /\ state'.voter_set = state.voter_set
          /\ Agree(state'.log, state.log, state.high_watermark)
      BY Zenon, <1>4, <1>8, <2>3, <2>4, <2>9 DEF SameLog
    <3> QED
      BY Zenon, <1>1, <1>2, <1>3, <2>15, <3>1, AppKept DEF LeadersStep
  <2> QED
    BY Zenon, <2>14, <2>15, <2>16 DEF SafeInv
<1> QED
  BY <1>6, <1>7, <1>8

-----------------------------------------------------------------------------
(* Entries and commit notifications. *)

\* What a response that matches appends is the leader's, and what it commits
\* is committed.
LEMMA AppendedIsLeaders ==
    ASSUME TypeOK, LeadersInv, state.high_watermark <= Len(state.log),
           Agree(state.log, committed, state.high_watermark), NEW r \in ResponseType,
           NEW t \in 1 .. MaxTerm, Matches(r, t), Fits(state, r),
           NEW v, SameLog(v, state), NEW a, IsAppended(a, v, r)
    PROVE  /\ a.log = state.log \/ Agree(a.log, leader_log[t], Len(a.log))
           /\ Agree(a.log, committed, a.high_watermark)
           /\ Agree(a.log, state.log, Len(state.log))
<1> DEFINE l == leader_log[t]
           h == a.high_watermark
<1>1. PICK q \in requests : /\ Follows(r, t, q) /\ In(q, t) /\ r.first = q.fetch_offset
                            /\ q.fetch_offset \in Nat /\ UpTo(state.log, l, q.fetch_offset)
  BY Zenon DEF Matches
<1> DEFINE f == q.fetch_offset
<1>2. /\ l \in Seq(Entry) /\ Len(l) \in Nat /\ leader_hw[t] \in Nat
      /\ Agree(l, committed, leader_hw[t])
  BY Zenon, LeaderFacts
<1>3. /\ state.log \in Seq(Entry) /\ state.high_watermark \in Nat /\ Len(state.log) \in Nat
      /\ committed \in Seq(Entry)
  BY DEF TypeOK, NodeState
<1>4. f \in Nat /\ f <= Len(l) /\ r.high_watermark <= leader_hw[t] /\ r.high_watermark \in Nat
  BY Zenon, <1>1 DEF In, Follows, ResponseType
<1>5. /\ a.log \in Seq(Entry) /\ h \in state.high_watermark .. Len(a.log)
      /\ h = state.high_watermark \/ h <= r.high_watermark
  <2>1. a \in NodeState /\ v.log = state.log /\ v.high_watermark = state.high_watermark
    BY Zenon DEF IsAppended, SameLog
  <2>2. a.log \in Seq(Entry)
    BY Zenon, <2>1 DEF NodeState
  <2> QED
    BY Zenon, <2>1, <2>2 DEF IsAppended
<1>8. a.log = state.log \o r.entries
  BY Zenon DEF IsAppended, SameLog
<1> HIDE DEF l
<1>6. CASE r.entries = <<>>
  <2>1. a.log = state.log
    BY <1>3, <1>6, <1>8
  <2>2. Agree(a.log, state.log, Len(state.log))
    BY Zenon, <1>3, <2>1, AgreeSelf
  <2>3. CASE h = state.high_watermark
    BY Zenon, <2>1, <2>2, <2>3
  <2>4. CASE h <= r.high_watermark
    <3>1. r.high_watermark <= f
      BY Zenon, <1>1, <1>6 DEF Follows
    <3>2. h \in Nat /\ h <= f /\ h <= leader_hw[t] /\ h <= Len(a.log) /\ h <= Len(l)
      BY <1>2, <1>3, <1>4, <1>5, <2>1, <2>4, <3>1
    <3>3. \A i \in 1 .. h : i \in 1 .. f /\ i <= Len(state.log)
      BY <1>3, <1>4, <2>1, <3>2
    <3>4. \A i \in 1 .. h : state.log[i] = l[i]
      BY Zenon, <1>1, <3>3 DEF UpTo
    <3>5. Agree(a.log, l, h)
      BY Zenon, <2>1, <3>2, <3>4 DEF Agree
    <3>6. Agree(l, committed, h)
      BY Zenon, <1>2, <1>3, <3>2, AgreeLess
    <3>7. Agree(a.log, committed, h)
      BY Zenon, <1>2, <1>3, <1>5, <3>2, <3>5, <3>6, AgreeTrans
    <3> QED
      BY Zenon, <2>1, <2>2, <3>7
  <2> QED
    BY Zenon, <1>5, <2>3, <2>4
<1>7. CASE r.entries # <<>>
  <2>1. f = Len(state.log)
    BY Zenon, <1>1, <1>7 DEF Fits, log_end_offset
  <2>2. PICK m \in f + 1 .. Len(l) : r.entries = SubSeq(l, f + 1, m)
    BY Zenon, <1>1, <1>7 DEF Follows, l
  <2>3. /\ Len(r.entries) = m - f /\ \A i \in 1 .. m - f : r.entries[i] = l[f + i]
        /\ r.entries \in Seq(Entry)
    <3>1. PICK n : n = f
      OBVIOUS
    <3>2. l \in Seq(Entry) /\ n \in Nat /\ m \in n + 1 .. Len(l) /\ r.entries = SubSeq(l, n + 1, m)
      BY <1>2, <1>4, <2>2, <3>1
    <3>3. /\ Len(SubSeq(l, n + 1, m)) = m - n /\ SubSeq(l, n + 1, m) \in Seq(Entry)
          /\ \A i \in 1 .. m - n : SubSeq(l, n + 1, m)[i] = l[n + i]
      BY Zenon, <3>2, PartFacts
    <3> QED
      BY Zenon, <3>1, <3>2, <3>3
  <2>4. m \in Nat /\ f < m /\ m <= Len(l)
    BY <1>2, <1>4, <2>2
  <2>5. /\ Len(a.log) = m
        /\ \A i \in 1 .. f : a.log[i] = state.log[i]
        /\ \A i \in f + 1 .. m : a.log[i] = r.entries[i - f]
    <3>1. PICK e \in Seq(Entry) : e = r.entries
      BY <2>3
    <3>2. a.log = state.log \o e /\ Len(e) = m - f
      BY <1>8, <2>3, <3>1
    <3>3. /\ Len(state.log \o e) = Len(state.log) + Len(e)
          /\ \A i \in 1 .. Len(state.log) : (state.log \o e)[i] = state.log[i]
          /\ \A i \in Len(state.log) + 1 .. Len(state.log) + Len(e) :
               (state.log \o e)[i] = e[i - Len(state.log)]
      BY <1>3
    <3>4. Len(state.log) + Len(e) = m
      BY <1>4, <2>1, <2>4, <3>2
    <3> QED
      BY Zenon, <2>1, <3>1, <3>2, <3>3, <3>4
  <2>6. ASSUME NEW i \in 1 .. m
        PROVE  a.log[i] = l[i]
    <3>1. CASE i <= f
      <4>1. i \in 1 .. f /\ i <= Len(state.log)
        BY <1>4, <2>1, <3>1
      <4> QED
        BY Zenon, <1>1, <2>5, <4>1 DEF UpTo
    <3>2. CASE i > f
      <4>1. i \in f + 1 .. m /\ i - f \in 1 .. m - f /\ f + (i - f) = i
        BY <1>4, <2>4, <3>2
      <4> QED
        BY Zenon, <2>3, <2>5, <4>1
    <3> QED
      BY <1>4, <3>1, <3>2
  <2>7. Agree(a.log, l, Len(a.log))
    <3>1. m <= m
      BY <2>4
    <3> QED
      BY Zenon, <2>4, <2>5, <2>6, <3>1 DEF Agree
  <2>8. Agree(a.log, state.log, Len(state.log))
    <3>1. f <= m /\ f <= f
      BY <1>4, <2>4
    <3> QED
      BY Zenon, <2>1, <2>5, <3>1 DEF Agree
  <2>9. Agree(a.log, committed, h)
    <3>1. CASE h = state.high_watermark
      <4>1. Agree(a.log, state.log, state.high_watermark)
        BY Zenon, <1>3, <1>5, <2>8, AgreeLess
      <4> QED
        BY Zenon, <1>3, <1>5, <3>1, <4>1, AgreeTrans
    <3>2. CASE h <= r.high_watermark
      <4>1. h \in Nat /\ h <= leader_hw[t] /\ h <= Len(a.log) /\ Len(a.log) \in Nat
        BY <1>2, <1>3, <1>4, <1>5, <3>2
      <4>2. Agree(a.log, l, h)
        BY Zenon, <1>2, <1>5, <2>7, <4>1, AgreeLess
      <4>3. Agree(l, committed, h)
        BY Zenon, <1>2, <1>3, <4>1, AgreeLess
      <4> QED
        BY Zenon, <1>2, <1>3, <1>5, <4>1, <4>2, <4>3, AgreeTrans
    <3> QED
      BY Zenon, <1>5, <3>1, <3>2
  <2> QED
    BY Zenon, <2>7, <2>8, <2>9 DEF l
<1> QED
  BY Zenon, <1>6, <1>7

\* The latest of the voter records up to n, from those up to h and those after.
LEMMA LatestJoin ==
    ASSUME NEW c \in Seq(Entry), NEW h \in Nat, NEW n \in h .. Len(c),
           NEW before \in Nat \cup {Nil}, LatestVoters(c, 1 .. h, Nil) \in {Nil, before}
    PROVE  LatestVoters(c, 1 .. n, Nil) \in {Nil, LatestVoters(c, h + 1 .. n, before)}
<1> DEFINE R == OfType(c, "VotersRecord", 1 .. n)
           P == OfType(c, "VotersRecord", 1 .. h)
           Q == OfType(c, "VotersRecord", h + 1 .. n)
<1>1. /\ n \in Nat /\ R \in SUBSET Nat /\ Q \in SUBSET Nat
      /\ \A x \in R : x <= n
      /\ \A x \in Q : x <= n /\ x > h
      /\ \A x \in R : x > h => x \in Q
      /\ Q \subseteq R
  BY DEF OfType
<1>2. Q = {} => R = P
  BY DEF OfType
<1>3. /\ LatestVoters(c, 1 .. n, Nil) = IF R = {} THEN Nil ELSE Max(R) - 1
      /\ LatestVoters(c, 1 .. h, Nil) = IF P = {} THEN Nil ELSE Max(P) - 1
      /\ LatestVoters(c, h + 1 .. n, before) = IF Q = {} THEN before ELSE Max(Q) - 1
  BY Zenon DEF LatestVoters
<1> HIDE DEF R, P, Q
<1>4. CASE Q = {}
  BY Zenon, <1>2, <1>3, <1>4
<1>5. CASE Q # {}
  <2>1. R # {}
    BY Zenon, <1>1, <1>5
  <2>2. Max(R) \in R /\ \A y \in R : Max(R) >= y
    BY Zenon, <1>1, <2>1, MaxOfBounded
  <2>3. Max(Q) \in Q /\ \A y \in Q : Max(Q) >= y
    <3>1. \A x \in Q : x <= n
      BY <1>1
    <3> QED
      BY Zenon, <1>1, <1>5, <3>1, MaxOfBounded
  <2>4. Max(R) = Max(Q)
    <3>1. PICK x \in R : x = Max(R)
      BY <2>2
    <3>2. PICK y \in Q : y = Max(Q)
      BY <2>3
    <3>3. x \in Nat /\ y \in Nat /\ x >= y /\ y > h
      BY <1>1, <2>2, <3>1, <3>2
    <3>4. x \in Q
      BY <1>1, <3>3
    <3>5. y >= x
      BY Zenon, <2>3, <3>2, <3>4
    <3> QED
      BY <3>1, <3>2, <3>3, <3>5
  <2> QED
    BY Zenon, <1>3, <1>5, <2>1, <2>4
<1> QED
  BY <1>4, <1>5

LEMMA WentThroughJoin ==
    ASSUME NEW c \in Seq(Entry), NEW h \in Nat, NEW n \in h .. Len(c)
    PROVE  WentThrough(c, 1, h) \o WentThrough(c, h + 1, n) = WentThrough(c, 1, n)
<1> DEFINE a == WentThrough(c, 1, h)
           b == WentThrough(c, h + 1, n)
           d == WentThrough(c, 1, n)
           R(i) == [offset |-> i - 1, entry |-> c[i]]
<1>1. /\ n \in Nat /\ h <= n /\ n <= Len(c) /\ h + 1 \in Nat \ {0} /\ h + 1 <= n + 1
      /\ 1 \in Nat \ {0} /\ 1 <= h + 1 /\ 1 <= n + 1 /\ h <= Len(c)
  OBVIOUS
<1>2. a \in Seq(Record) /\ b \in Seq(Record) /\ d \in Seq(Record)
  BY Zenon, <1>1, WentThroughType
<1>3. /\ Len(a) = h /\ \A i \in 1 .. h : a[i] = R(i)
  <2>1. a = [k \in 1 .. h |-> [offset |-> 1 + k - 2, entry |-> c[1 + k - 1]]]
    BY DEF WentThrough
  <2>2. \A k \in 1 .. h : 1 + k - 2 = k - 1 /\ 1 + k - 1 = k
    OBVIOUS
  <2>3. DOMAIN a = 1 .. h
    BY Zenon, <2>1
  <2>4. Len(a) = h
    <3> HIDE DEF a
    <3> QED
      BY <1>2, <2>3
  <2> QED
    BY Zenon, <2>1, <2>2, <2>4
<1>4. /\ Len(d) = n /\ \A i \in 1 .. n : d[i] = R(i)
  <2>1. d = [k \in 1 .. n |-> [offset |-> 1 + k - 2, entry |-> c[1 + k - 1]]]
    BY DEF WentThrough
  <2>2. \A k \in 1 .. n : 1 + k - 2 = k - 1 /\ 1 + k - 1 = k
    OBVIOUS
  <2>3. DOMAIN d = 1 .. n
    BY Zenon, <2>1
  <2>4. Len(d) = n
    <3> HIDE DEF d
    <3> QED
      BY <1>1, <1>2, <2>3
  <2> QED
    BY Zenon, <2>1, <2>2, <2>4
<1>5. /\ Len(b) = n - h /\ \A i \in 1 .. n - h : b[i] = R(h + i)
  <2>1. b = [k \in 1 .. n - h |-> [offset |-> h + 1 + k - 2, entry |-> c[h + 1 + k - 1]]]
    <3>1. n - (h + 1) + 1 = n - h
      BY <1>1
    <3> QED
      BY Zenon, <3>1 DEF WentThrough
  <2>2. \A k \in 1 .. n - h : /\ h + 1 + k - 2 = h + k - 1 /\ h + 1 + k - 1 = h + k
                              /\ b[k] = [offset |-> h + 1 + k - 2, entry |-> c[h + 1 + k - 1]]
    <3>1. \A k \in 1 .. n - h : h + 1 + k - 2 = h + k - 1 /\ h + 1 + k - 1 = h + k
      BY <1>1
    <3> QED
      BY Zenon, <2>1, <3>1
  <2>3. DOMAIN b = 1 .. n - h
    BY Zenon, <2>1
  <2>4. Len(b) = n - h
    <3> HIDE DEF b
    <3> QED
      BY <1>1, <1>2, <2>3
  <2>5. ASSUME NEW i \in 1 .. n - h PROVE b[i] = R(h + i)
    <3>1. /\ h + 1 + i - 2 = h + i - 1 /\ h + 1 + i - 1 = h + i
          /\ b[i] = [offset |-> h + 1 + i - 2, entry |-> c[h + 1 + i - 1]]
      BY Zenon, <2>2
    <3> HIDE DEF b
    <3>2. PICK j : j = h + i
      OBVIOUS
    <3>3. h + 1 + i - 2 = j - 1 /\ h + 1 + i - 1 = j
      BY <1>1, <3>2
    <3>4. b[i] = [offset |-> j - 1, entry |-> c[j]]
      BY Zenon, <3>1, <3>3
    <3> QED
      BY Zenon, <3>2, <3>4
  <2> QED
    BY Zenon, <2>4, <2>5
<1> HIDE DEF a, b, d, R
<1>6. a \o b \in Seq(Record) /\ Len(a \o b) = n
  <2>1. a \o b \in Seq(Record) /\ Len(a \o b) = Len(a) + Len(b)
    BY <1>2
  <2>2. h + (n - h) = n
    BY <1>1
  <2> QED
    BY Zenon, <1>3, <1>5, <2>1, <2>2
<1>7. ASSUME NEW i \in 1 .. n
      PROVE  (a \o b)[i] = d[i]
  <2>1. CASE i <= h
    <3>1. i \in 1 .. h
      BY <1>1, <2>1
    <3>2. (a \o b)[i] = a[i]
      BY <1>2, <1>3, <3>1
    <3> QED
      BY Zenon, <1>3, <1>4, <3>1, <3>2
  <2>2. CASE i > h
    <3>1. i - h \in 1 .. n - h /\ h + (i - h) = i
      BY <1>1, <2>2
    <3>2. (a \o b)[i] = b[i - h]
      <4>1. \A j \in Len(a) + 1 .. Len(a) + Len(b) : (a \o b)[j] = b[j - Len(a)]
        BY <1>2
      <4>2. i \in h + 1 .. h + (n - h)
        BY <1>1, <2>2
      <4> QED
        BY Zenon, <1>3, <1>5, <4>1, <4>2
    <3> QED
      BY Zenon, <1>4, <1>5, <3>1, <3>2
  <2>3. i <= h \/ i > h
    BY <1>1
  <2> QED
    BY Zenon, <2>1, <2>2, <2>3
<1>8. a \o b = d
  BY <1>2, <1>4, <1>6, <1>7
<1> QED
  BY <1>8 DEF a, b, d

\* The bookkeeping of a commit notification keeps what the node has of the
\* committed log in step with its high watermark.
LEMMA NotifiedHas ==
    ASSUME NEW s \in NodeState, NEW c \in Seq(Entry), OneChange(c), Has(s, c),
           NEW r, NEW v, SameLog(v, s), NEW a, IsAppended(a, v, r),
           Agree(a.log, c, a.high_watermark), NEW k, IsNotified(k, a, NewIndices(s, a))
    PROVE  Has(k, c)
<1> DEFINE h == s.high_watermark
           n == a.high_watermark
           I == NewIndices(s, a)
           g == s.leader_epoch_checkpoint
           changes == OfType(a.log, "LeaderChangeMessage", I)
<1>1. /\ h \in Nat /\ n \in h .. Len(a.log) /\ a \in NodeState /\ s.voter_set \in Nat \cup {Nil}
  <2>1. a \in NodeState /\ n \in v.high_watermark .. Len(a.log) /\ v.high_watermark = h
    BY Zenon DEF IsAppended, SameLog
  <2>2. h \in Nat /\ s.voter_set \in Nat \cup {Nil}
    BY DEF NodeState
  <2> QED
    BY Zenon, <2>1, <2>2
<1>2. a.log \in Seq(Entry)
  BY <1>1 DEF NodeState
<1>3. /\ n \in Nat /\ n <= Len(c) /\ h <= n /\ \A i \in 1 .. n : a.log[i] = c[i]
      /\ n \in h .. Len(c)
  BY <1>1, <1>2 DEF Agree
<1>4. /\ k.log = a.log /\ k.high_watermark = n
      /\ k.voter_set = LatestVoters(a.log, I, s.voter_set)
      /\ k.leader_epoch_checkpoint =
           [t \in Term |-> IF \E i \in changes : a.log[i].term = t
                           THEN (CHOOSE i \in changes : a.log[i].term = t) - 1
                           ELSE g[t]]
  <2>1. a.voter_set = s.voter_set /\ a.leader_epoch_checkpoint = g
    BY Zenon DEF IsAppended, SameLog
  <2> QED
    BY Zenon, <2>1 DEF IsNotified
<1>5. I \in SUBSET Nat /\ \A i \in I : i \in 1 .. n
  BY <1>1, <1>3 DEF NewIndices
<1>6. LatestVoters(c, 1 .. n, Nil) \in {Nil, k.voter_set}
  <2>1. LatestVoters(c, 1 .. h, Nil) \in {Nil, s.voter_set}
    BY Zenon DEF Has
  <2>2. LatestVoters(c, 1 .. n, Nil) \in {Nil, LatestVoters(c, h + 1 .. n, s.voter_set)}
    BY Zenon, <1>1, <1>3, <2>1, LatestJoin
  <2>3. SameAt(a.log, c, I)
    BY Zenon, <1>3, <1>5 DEF SameAt
  <2>4. LatestVoters(a.log, I, s.voter_set) = LatestVoters(c, I, s.voter_set)
    BY Zenon, <1>1, <1>2, <1>5, <2>3, LatestSame
  <2>5. I = h + 1 .. n
    BY DEF NewIndices
  <2> QED
    BY Zenon, <1>4, <2>2, <2>4, <2>5
<1>7. ASSUME NEW t \in Term, NEW o \in Nat
      PROVE  k.leader_epoch_checkpoint[t] = o <=> o < n /\ c[o + 1] = Lcm(t)
  <2>1. g[t] = o <=> o < h /\ c[o + 1] = Lcm(t)
    BY Zenon DEF Has
  <2>2. ASSUME NEW i \in I
        PROVE  i \in changes /\ a.log[i].term = t <=> c[i] = Lcm(t)
    <3>1. a.log[i] = c[i] /\ i \in 1 .. n
      BY Zenon, <1>3, <1>5
    <3>2. a.log[i] \in Entry
      BY <1>1, <1>2, <3>1
    <3>3. a.log[i] = Lcm(t)
            <=> a.log[i].entry_type = "LeaderChangeMessage" /\ a.log[i].term = t
      BY <3>2 DEF Lcm, Entry
    <3> QED
      BY Zenon, <3>1, <3>3 DEF OfType
  <2>3. CASE \E i \in changes : a.log[i].term = t
    <3>1. PICK j : j = CHOOSE i \in changes : a.log[i].term = t
      OBVIOUS
    <3>2. j \in changes /\ a.log[j].term = t
      BY Zenon, <2>3, <3>1
    <3>3. j \in I
      BY Zenon, <3>2 DEF OfType
    <3>4. c[j] = Lcm(t) /\ j \in 1 .. n
      BY Zenon, <1>5, <2>2, <3>2, <3>3
    <3>5. k.leader_epoch_checkpoint[t] = j - 1
      BY Zenon, <1>4, <2>3, <3>1
    <3>6. ASSUME o < n, c[o + 1] = Lcm(t)
          PROVE  o + 1 = j
      <4>1. o + 1 \in 1 .. Len(c) /\ j \in 1 .. Len(c)
        BY <1>3, <3>4, <3>6
      <4>2. c[j].entry_type = "LeaderChangeMessage"
        BY <3>4 DEF Lcm
      <4> QED
        BY Zenon, <3>4, <3>6, <4>1, <4>2 DEF OneChange
    <3>7. j - 1 = o => o < n /\ o + 1 = j
      BY <1>3, <3>4
    <3>8. o + 1 = j => j - 1 = o
      BY <3>4
    <3> QED
      BY Zenon, <3>4, <3>5, <3>6, <3>7, <3>8
  <2>4. CASE ~ \E i \in changes : a.log[i].term = t
    <3>1. k.leader_epoch_checkpoint[t] = g[t]
      BY Zenon, <1>4, <2>4
    <3>2. ASSUME o < n, c[o + 1] = Lcm(t)
          PROVE  o < h
      <4> SUFFICES ASSUME ~(o < h) PROVE FALSE
        OBVIOUS
      <4>1. o + 1 \in I
        BY <1>1, <1>3, <3>2 DEF NewIndices
      <4> QED
        BY Zenon, <2>2, <2>4, <3>2, <4>1
    <3>3. o < h => o < n
      BY <1>1, <1>3
    <3> QED
      BY Zenon, <2>1, <3>1, <3>2, <3>3
  <2> QED
    BY Zenon, <2>3, <2>4
<1> QED
  BY Zenon, <1>4, <1>6, <1>7 DEF Has

\* What is committed has at most one LeaderChangeMessage of a term.
LEMMA CommittedOnce ==
    ASSUME TypeOK, LeadersInv
    PROVE  OneChange(committed)
<1> DEFINE u == LastLed
<1>1. u \in 0 .. MaxTerm /\ committed \in Seq(Entry) /\ Len(committed) \in Nat
  BY LastLedFacts DEF TypeOK
<1>2. CASE u = 0
  BY <1>2 DEF LeadersInv, OneChange
<1>3. CASE u # 0
  <2>1. u \in 1 .. MaxTerm /\ u > 0
    BY <1>1, <1>3
  <2>2. Agree(leader_log[u], committed, Len(committed)) /\ OneChange(leader_log[u])
    BY Zenon, <2>1 DEF LeadersInv, LeaderInv
  <2>3. leader_log[u] \in Seq(Entry)
    BY Zenon, <2>1, LeaderFacts
  <2> HIDE DEF u
  <2> QED
    BY <1>1, <2>2, <2>3 DEF OneChange, Agree
<1> QED
  BY <1>2, <1>3

LEMMA SafeAppend ==
    ASSUME LocalInv, LocalInv', SafeInv, NEW r, Current(r), append_and_commit(r)
    PROVE  SafeInv'
<1> DEFINE v == Validated(state, r)
           a == Appended(v, r)
           I == state.high_watermark + 1 .. a.high_watermark
           k == Notified(a, I)
           t == state.current_term
<1>1. /\ Idle /\ Accepts(state, r) /\ r.diverging_epoch = Nil /\ r.snapshot_id = Nil
      /\ Fits(state, r) /\ UNCHANGED leaders /\ disk_log' = disk_log
      /\ quorum_state' = quorum_state /\ requests' = requests /\ committed' = committed
  BY Zenon DEF append_and_commit, leaders, disk
<1>2. /\ state' = k /\ storage' = AppendWrites(r) \o Deferred(state, r)
      /\ applied' = applied \o WentThrough(a.log, state.high_watermark + 1, a.high_watermark)
      /\ completed' = IF I = {} THEN completed ELSE completed \cup complete(a.high_watermark)
  BY Zenon DEF append_and_commit
<1>3. /\ TypeOK /\ TypeOK' /\ requests \subseteq Request /\ LeadersInv /\ NodeInv /\ AppInv
      /\ TermsInv /\ r \in ResponseType /\ Has(state, committed) /\ Matches(r, t)
      /\ t \in 1 .. MaxTerm
  BY Zenon, <1>1 DEF LocalInv, SafeInv, NodeInv, AppInv, Current
<1>4. /\ state \in NodeState /\ state.log = disk_log /\ Tidy(state, queue)
      /\ queue \in SUBSET Record /\ state.role # "Down"
  BY Zenon, <1>1, IdleFacts
<1>5. /\ v \in NodeState /\ SameLog(v, state) /\ v.role = "Follower"
      /\ v.current_term = t /\ v.leader_id = leader_of[t]
  BY Zenon, <1>1, <1>3, ValidatedCurrent
<1>6. SavesOf(storage', v)
  <2>1. CASE r.entries = <<>>
    <3>1. AppendWrites(r) = <<>>
      BY Zenon, <2>1 DEF AppendWrites
    <3> QED
      BY Zenon, <1>2, <3>1, DeferredSaves
  <2>2. CASE r.entries # <<>>
    <3>1. PICK b : b = AppendLog(r.entries)
      OBVIOUS
    <3>2. AppendWrites(r) = <<b>>
      BY Zenon, <2>2, <3>1 DEF AppendWrites
    <3>3. b.op # "PersistQuorumState"
      BY <3>1 DEF AppendLog
    <3> QED
      BY Zenon, <1>2, <3>2, <3>3, DeferredSaves
  <2> QED
    BY <2>1, <2>2
<1> HIDE DEF v
<1>7. v.log = state.log /\ v.high_watermark = state.high_watermark
  BY Zenon, <1>5 DEF SameLog
<1>8. /\ state.log \in Seq(Entry) /\ state.high_watermark \in Nat /\ Len(state.log) \in Nat
      /\ committed \in Seq(Entry) /\ state.high_watermark <= Len(state.log)
  <2>1. state.high_watermark <= Len(state.log)
    BY Zenon, <1>4 DEF Tidy
  <2> QED
    BY <1>3, <1>4, <2>1 DEF TypeOK, NodeState
<1>9. IsAppended(a, v, r)
  BY Zenon, <1>3, <1>5, <1>7, <1>8, AppendedFacts
<1> HIDE DEF a
<1>10. /\ a \in NodeState /\ a.high_watermark \in state.high_watermark .. Len(a.log)
       /\ a.role = v.role /\ a.current_term = v.current_term /\ a.leader_id = v.leader_id
  BY Zenon, <1>7, <1>9 DEF IsAppended
<1>11. a.log \in Seq(Entry) /\ Len(a.log) \in Nat /\ I \in SUBSET (1 .. Len(a.log))
  <2>1. a.log \in Seq(Entry)
    BY <1>10 DEF NodeState
  <2> QED
    BY <1>8, <1>10, <2>1
<1>12. I = NewIndices(state, a)
  BY DEF NewIndices
<1>13. IsNotified(k, a, NewIndices(state, a))
  BY Zenon, <1>10, <1>11, <1>12, NotifiedFacts
<1> HIDE DEF k
<1>14. /\ k.role = a.role /\ k.current_term = a.current_term /\ k.leader_id = a.leader_id
       /\ k.log = a.log /\ k.high_watermark = a.high_watermark
  BY Zenon, <1>13 DEF IsNotified
<1>15. /\ a.log = state.log \/ Agree(a.log, leader_log[t], Len(a.log))
       /\ Agree(a.log, committed, a.high_watermark)
       /\ Agree(a.log, state.log, Len(state.log))
  BY Zenon, <1>1, <1>3, <1>5, <1>8, <1>9, AppendedIsLeaders DEF Has
<1>16. TermsInv'
  BY Zenon, <1>1, <1>2, <1>3, <1>5, <1>6, <1>10, <1>14, CurrentTerms
<1>17. LeadInv'
  BY <1>2, <1>5, <1>10, <1>14 DEF LeadInv
<1>18. NodeInv'
  <2>1. LogFrom(disk_log')
    BY Zenon, <1>1, <1>4, <1>8, AgreeSelf DEF LogFrom
  <2>2. t > 0 /\ state.current_term <= state'.current_term
    BY <1>2, <1>3, <1>5, <1>10, <1>14
  <2>3. LogFrom(state'.log)
    BY Zenon, <1>2, <1>8, <1>14, <1>15, <2>2, AgreeSelf DEF LogFrom
  <2>4. \A q \in requests' \ requests : RequestInv(q)'
    BY <1>1
  <2> QED
    BY Zenon, <1>1, <1>3, <1>16, <1>17, <2>1, <2>2, <2>3, <2>4, NodeMoves
<1>19. LeadersInv'
  BY Zenon, <1>1, <1>3, LeadersSame
<1>20. OneChange(committed)
  BY Zenon, <1>3, CommittedOnce
<1>21. Has(state', committed')
  BY Zenon, <1>1, <1>2, <1>3, <1>4, <1>5, <1>8, <1>9, <1>13, <1>15, <1>20, NotifiedHas
<1>22. applied' = WentThrough(committed', 1, state'.high_watermark)
  <2>1. applied = WentThrough(committed, 1, state.high_watermark)
    BY Zenon, <1>3, <1>4 DEF AppInv
  <2>2. /\ a.high_watermark \in state.high_watermark .. Len(committed)
        /\ \A i \in 1 .. a.high_watermark : a.log[i] = committed[i]
    BY <1>8, <1>10, <1>11, <1>15 DEF Agree
  <2>3. \A i \in I : i \in 1 .. a.high_watermark
    BY <1>8
  <2>4. SameAt(a.log, committed, I)
    BY Zenon, <2>2, <2>3 DEF SameAt
  <2>5. state.high_watermark + 1 \in Nat /\ a.high_watermark \in Nat
    BY <1>8, <1>10
  <2>6. WentThrough(a.log, state.high_watermark + 1, a.high_watermark)
          = WentThrough(committed, state.high_watermark + 1, a.high_watermark)
    BY Zenon, <2>4, <2>5, WentThroughSame
  <2>7. WentThrough(committed, 1, state.high_watermark)
          \o WentThrough(committed, state.high_watermark + 1, a.high_watermark)
          = WentThrough(committed, 1, a.high_watermark)
    BY Zenon, <1>8, <2>2, WentThroughJoin
  <2> QED
    BY Zenon, <1>1, <1>2, <1>14, <2>1, <2>6, <2>7
<1>23. CompletionsAreTrue'
  <2>1. CompletionsAreTrue
    BY Zenon, <1>3 DEF AppInv
  <2>2. ASSUME NEW c \in complete(a.high_watermark)
        PROVE  c.offset < Len(committed) /\ committed[c.offset + 1] = c.entry
    <3>1. c \in queue /\ c.offset < a.high_watermark
      BY DEF complete
    <3>2. /\ c.offset \in state.high_watermark .. Len(state.log) - 1
          /\ state.log[c.offset + 1] = c.entry
      BY Zenon, <1>4, <3>1 DEF Tidy
    <3>3. c.offset + 1 \in 1 .. Len(state.log) /\ c.offset + 1 \in 1 .. a.high_watermark
      BY <1>8, <1>10, <1>11, <3>1, <3>2
    <3>4. a.log[c.offset + 1] = committed[c.offset + 1] /\ a.high_watermark <= Len(committed)
      BY Zenon, <1>15, <3>3 DEF Agree
    <3>5. a.log[c.offset + 1] = state.log[c.offset + 1]
      BY Zenon, <1>15, <3>3 DEF Agree
    <3>6. c.offset < Len(committed)
      BY <1>8, <1>10, <1>11, <3>1, <3>2, <3>4
    <3> QED
      BY Zenon, <3>2, <3>4, <3>5, <3>6
  <2>3. \A c \in completed' : c \in completed \/ c \in complete(a.high_watermark)
    BY Zenon, <1>2
  <2> QED
    BY Zenon, <1>1, <2>1, <2>2, <2>3 DEF CompletionsAreTrue
<1> QED
  BY Zenon, <1>18, <1>19, <1>21, <1>22, <1>23 DEF SafeInv, AppInv

-----------------------------------------------------------------------------
(* The invariant is inductive. *)

LEMMA SafeEnds ==
    ASSUME LocalInv, LocalInv', SafeInv,
           Crash \/ Restart \/ \E r \in Response : apply_fails(r)
    PROVE  SafeInv'
<1>1. CASE Stopped
  <2>1. /\ state' = [FromStores EXCEPT !.role = "Down"] /\ storage' = <<>> /\ UNCHANGED leaders
        /\ UNCHANGED disk /\ completed' = completed /\ requests' = requests
    BY <1>1 DEF Stopped
  <2> QED
    BY Zenon, <2>1, SafeFresh
<1>2. CASE Restart
  <2>1. /\ state.role = "Down" /\ state' = FromStores /\ storage' = storage /\ UNCHANGED leaders
        /\ UNCHANGED disk /\ completed' = completed /\ requests' = requests /\ applied' = <<>>
    BY <1>2 DEF Restart
  <2>2. storage' = <<>>
    BY Zenon, <2>1 DEF LocalInv, DownIsEmpty
  <2>3. FromStores = [FromStores EXCEPT !.role = "Follower"]
    BY DEF FromStores
  <2>4. state' = [FromStores EXCEPT !.role = "Follower"]
    BY Zenon, <2>1, <2>3
  <2> QED
    BY Zenon, <2>1, <2>2, <2>4, SafeFresh
<1> QED
  BY Zenon, <1>1, <1>2 DEF Crash, apply_fails

LEMMA SafeMessage ==
    ASSUME EpochEnds, AnswersStale = FALSE, LocalInv, LocalInv', SafeInv,
           NEW r \in Response, handle_message(r)
    PROVE  SafeInv'
<1>1. CASE apply_fails(r)
  BY Zenon, <1>1, SafeEnds
<1>2. CASE truncate_divergent(r)
  <2>1. Accepts(state, r)
    BY Zenon, <1>2 DEF truncate_divergent
  <2> QED
    BY Zenon, <1>2, <2>1, AcceptedIsCurrent, SafeTruncate
<1>3. CASE append_and_commit(r)
  <2>1. Accepts(state, r)
    BY Zenon, <1>3 DEF append_and_commit
  <2> QED
    BY Zenon, <1>3, <2>1, AcceptedIsCurrent, SafeAppend
<1>4. CASE snapshot_required(r)
  <2>1. /\ Accepts(state, r) /\ Idle /\ state' = Validated(state, r)
        /\ storage' = Deferred(state, r) /\ UNCHANGED leaders /\ UNCHANGED disk
        /\ UNCHANGED app /\ requests' = requests
    BY <1>4 DEF snapshot_required
  <2> QED
    BY Zenon, <2>1, AcceptedIsCurrent, SafeQuiet
<1>5. CASE refuse_entries(r)
  <2>1. /\ Accepts(state, r) /\ Idle /\ state' = Validated(state, r)
        /\ storage' = storage /\ UNCHANGED leaders /\ UNCHANGED disk
        /\ UNCHANGED app /\ requests' = requests
    BY <1>5 DEF refuse_entries
  <2>2. storage' = <<>>
    BY Zenon, <2>1 DEF Idle
  <2> QED
    BY Zenon, <2>1, <2>2, AcceptedIsCurrent, SafeQuiet
<1> QED
  BY Zenon, <1>1, <1>2, <1>3, <1>4, <1>5 DEF handle_message, handle_fetch_response

LEMMA SafeUnchanged ==
    ASSUME SafeInv, UNCHANGED vars
    PROVE  SafeInv'
<1>1. /\ leader_of' = leader_of /\ leader_log' = leader_log /\ leader_hw' = leader_hw
      /\ committed' = committed /\ state' = state /\ storage' = storage
      /\ quorum_state' = quorum_state /\ disk_log' = disk_log /\ applied' = applied
      /\ completed' = completed /\ requests' = requests
  BY DEF vars, leaders, disk, app
<1>2. LastLed' = LastLed
  BY <1>1 DEF LastLed
<1>3. LeadersInv'
  BY Zenon, <1>1, <1>2 DEF SafeInv, LeadersInv, LeaderInv
<1>4. TermsInv'
  BY Zenon, <1>1 DEF SafeInv, NodeInv, TermsInv, OfTerm
<1>5. \A q \in requests' : RequestInv(q)'
  BY Zenon, <1>1 DEF SafeInv, NodeInv, RequestInv, Exists, In
<1>6. NodeInv'
  BY Zenon, <1>1, <1>4, <1>5 DEF SafeInv, NodeInv, LeadInv
<1>7. AppInv'
  BY Zenon, <1>1 DEF SafeInv, AppInv, CompletionsAreTrue
<1> QED
  BY Zenon, <1>3, <1>6, <1>7 DEF SafeInv

LEMMA NextSafe ==
    ASSUME EpochEnds, AnswersStale = FALSE, LocalInv, LocalInv', SafeInv, [Next]_vars
    PROVE  SafeInv'
<1>1. CASE Write
  BY Zenon, <1>1, SafeWrite
<1>2. CASE Crash \/ Restart
  BY Zenon, <1>2, SafeEnds
<1>3. CASE on_fetch_tick
  BY Zenon, <1>3, SafeTick
<1>4. CASE \E r \in Response : handle_message(r)
  BY Zenon, <1>4, SafeMessage
<1>5. CASE \/ \E p \in Peers, t \in 1 .. MaxTerm : PeerElected(p, t)
           \/ \E t \in 1 .. MaxTerm, type \in Proposals : PeerAppends(t, type)
           \/ \E k \in 1 .. MaxLog : Commit(k)
  BY Zenon, <1>5, SafePeers
<1>6. CASE \E t \in 1 .. MaxTerm, vote \in Peers \cup {Nil} :
             \E leader \in {Nil, leader_of[t]} : StepsDown(t, vote, leader)
  BY Zenon, <1>6, SafeStepsDown
<1>7. CASE Campaigns
  BY Zenon, <1>7, SafeCampaigns
<1>8. CASE Elected
  BY Zenon, <1>8, SafeElected
<1>9. CASE Propose \/ ProposeChange
  BY Zenon, <1>9, SafePropose
<1>10. CASE UNCHANGED vars
  BY Zenon, <1>10, SafeUnchanged
<1> QED
  BY Zenon, <1>1, <1>2, <1>3, <1>4, <1>5, <1>6, <1>7, <1>8, <1>9, <1>10 DEF Next

LEMMA InitSafe == Init => SafeInv
<1> SUFFICES ASSUME Init PROVE SafeInv
  OBVIOUS
<1>1. /\ leader_of = [t \in 1 .. MaxTerm |-> Nil] /\ leader_log = [t \in 1 .. MaxTerm |-> <<>>]
      /\ leader_hw = [t \in 1 .. MaxTerm |-> 0] /\ committed = <<>> /\ disk_log = <<>>
      /\ state = FromStores /\ storage = <<>> /\ applied = <<>> /\ completed = {}
      /\ requests = {}
      /\ quorum_state = [current_term |-> 0, voted_for |-> Nil, leader_id |-> Nil]
  BY DEF Init
<1>2. /\ state.role = "Follower" /\ state.log = <<>> /\ state.high_watermark = 0
      /\ state.current_term = 0 /\ state.leader_id = Nil
      /\ QuorumState(state) = quorum_state
      /\ state.leader_epoch_checkpoint = [t \in Term |-> Nil]
  BY <1>1 DEF FromStores, QuorumState
<1>3. \A i \in 1 .. Len(<<>>) : FALSE
  OBVIOUS
<1>4. \A L : Rooted(<<>>, L)
  BY Zenon, <1>3 DEF Rooted
<1>5. LeadersInv
  <2>1. LastLed = 0
    <3>1. LastLed > 0 => LastLed \in 1 .. MaxTerm
      BY LastLedFacts, BoundsAssumption
    <3>2. ~(LastLed > 0)
      BY Zenon, <1>1, <3>1, LastLedFacts
    <3> QED
      BY <3>2, LastLedFacts, BoundsAssumption
  <2>2. ASSUME NEW t \in 1 .. MaxTerm
        PROVE  LeaderInv(t)
    <3>1. leader_log[t] = <<>> /\ leader_hw[t] = 0
      BY <1>1
    <3>2. OneChange(<<>>) /\ Agree(<<>>, <<>>, 0)
      BY DEF OneChange, Agree
    <3> QED
      BY Zenon, <1>1, <1>3, <1>4, <3>1, <3>2 DEF LeaderInv
  <2>3. ~(LastLed > 0)
    BY <2>1
  <2> QED
    BY Zenon, <1>1, <2>1, <2>2, <2>3 DEF LeadersInv
<1>6. NodeInv
  <2>1. OfTerm(quorum_state)
    BY <1>1, <1>2 DEF OfTerm
  <2>2. TermsInv
    BY Zenon, <1>1, <1>2, <1>3, <2>1 DEF TermsInv
  <2>3. LeadInv
    BY <1>2 DEF LeadInv
  <2> QED
    BY <1>1, <1>2, <1>4, <2>2, <2>3 DEF NodeInv
<1>7. AppInv
  <2>1. Agree(<<>>, <<>>, 0)
    BY DEF Agree
  <2>2. LatestVoters(<<>>, 1 .. 0, Nil) = Nil
    BY DEF LatestVoters, OfType
  <2>3. WentThrough(<<>>, 1, 0) = <<>>
    BY DEF WentThrough
  <2>4. ASSUME NEW t \in Term, NEW o \in Nat
        PROVE  ~(state.leader_epoch_checkpoint[t] = o) /\ ~(o < 0)
    BY <1>2, NilAssumption
  <2>5. Has(state, committed)
    BY Zenon, <1>1, <1>2, <2>1, <2>2, <2>4 DEF Has
  <2>6. CompletionsAreTrue
    BY <1>1 DEF CompletionsAreTrue
  <2> QED
    BY Zenon, <1>1, <1>2, <2>3, <2>5, <2>6 DEF AppInv
<1> QED
  BY Zenon, <1>5, <1>6, <1>7 DEF SafeInv

LEMMA SafeImpliesApplied ==
    ASSUME LocalInv, SafeInv
    PROVE  AppliedIsCommitted
<1> DEFINE hw == state.high_watermark
           p == Prefix(state.log, hw)
<1>1. /\ Has(state, committed)
      /\ state.role # "Down" => applied = WentThrough(committed, 1, hw)
  BY Zenon DEF SafeInv, AppInv
<1>2. Agree(state.log, committed, hw)
  BY Zenon, <1>1 DEF Has
<1>3. /\ state.log \in Seq(Entry) /\ committed \in Seq(Entry) /\ hw \in Nat
      /\ hw <= Len(state.log) /\ hw <= Len(committed)
      /\ \A i \in 1 .. hw : state.log[i] = committed[i]
  BY <1>2 DEF LocalInv, TypeOK, NodeState, Agree
<1>4. /\ p \in Seq(Entry) /\ Len(p) = hw /\ \A i \in 1 .. hw : p[i] = state.log[i]
      /\ SubSeq(committed, 1, hw) \in Seq(Entry) /\ Len(SubSeq(committed, 1, hw)) = hw
      /\ \A i \in 1 .. hw : SubSeq(committed, 1, hw)[i] = committed[i]
  BY <1>3 DEF Prefix
<1>5. p = SubSeq(committed, 1, hw)
  <2> HIDE DEF p
  <2> QED
    BY <1>3, <1>4
<1>6. IsPrefix(p, committed)
  <2>1. Len(p) = hw /\ p = Prefix(committed, hw)
    BY Zenon, <1>4, <1>5 DEF Prefix
  <2> HIDE DEF p
  <2> QED
    BY <1>3, <2>1 DEF IsPrefix
<1>7. Offset \subseteq Nat
  BY BoundsAssumption DEF Offset
<1> QED
  BY Zenon, <1>1, <1>3, <1>6, <1>7 DEF AppliedIsCommitted, Has

INSTANCE FiniteSetTheorems

\* The end of an epoch in a log, counted, is where its entries stop.
LEMMA EpochEndsHold == EpochEnds
<1> SUFFICES ASSUME NEW l \in Seq(Entry), NEW e \in Term
             PROVE  /\ EpochEnd(l, e) \in 0 .. Len(l)
                    /\ \A n \in 1 .. Len(l) :
                         (\A i \in n .. Len(l) : l[i].term > e) => EpochEnd(l, e) < n
  BY DEF EpochEnds
<1> DEFINE S == {i \in DOMAIN l : l[i].term <= e}
<1>1. \A k \in Nat : IsFiniteSet(1 .. k) /\ Cardinality(1 .. k) = k
  BY FS_Interval
<1>2. ASSUME NEW k \in Nat, S \in SUBSET (1 .. k)
      PROVE  Cardinality(S) \in 0 .. k
  <2>1. IsFiniteSet(S) /\ Cardinality(S) <= k
    BY <1>1, <1>2, FS_Subset
  <2> QED
    BY <2>1, FS_CardinalityType
<1>3. Len(l) \in Nat /\ S \in SUBSET (1 .. Len(l))
  OBVIOUS
<1>4. ASSUME NEW n \in 1 .. Len(l), \A i \in n .. Len(l) : l[i].term > e
      PROVE  n - 1 \in Nat /\ S \in SUBSET (1 .. n - 1)
  <2>1. ASSUME NEW i \in S
        PROVE  i \in 1 .. n - 1
    <3>1. i \in 1 .. Len(l) /\ l[i].term <= e
      OBVIOUS
    <3>2. l[i] \in Entry
      BY <3>1
    <3>3. l[i].term \in Int /\ e \in Int
      BY <3>2, BoundsAssumption DEF Entry, Term
    <3> HIDE DEF S
    <3> QED
      BY <1>3, <1>4, <3>1, <3>3
  <2> QED
    BY <2>1
<1> HIDE DEF S
<1>5. ASSUME NEW n \in 1 .. Len(l), \A i \in n .. Len(l) : l[i].term > e
      PROVE  Cardinality(S) < n
  <2>1. n - 1 \in Nat /\ Cardinality(S) \in 0 .. n - 1
    BY Zenon, <1>2, <1>4, <1>5
  <2> QED
    BY <1>3, <2>1
<1> QED
  BY <1>2, <1>3, <1>5 DEF EpochEnd, S

-----------------------------------------------------------------------------
(* What holds of every behaviour. *)

\* A caller that waits waits for an uncommitted entry that is still in the log:
\* no truncation and no commit leaves a future behind (replication.rs,
\* handle_fetch_response; deferred_completion.rs).
THEOREM WaitersHaveEntriesHolds == Spec => []WaitersHaveEntries
<1>1. LocalInv => WaitersHaveEntries
  BY Zenon DEF LocalInv, Tidy, WaitersHaveEntries
<1>2. LocalInv /\ [Next]_vars => LocalInv'
  BY Zenon, NextLocal, EpochEndsHold
<1> QED
  BY <1>1, <1>2, InitLocal, PTL DEF Spec

\* A pending membership change is an uncommitted entry of the log: none blocks
\* later changes once its entry is cut off or committed.
THEOREM PendingChangeInLogHolds == Spec => []PendingChangeInLog
<1>1. LocalInv => PendingChangeInLog
  BY Zenon DEF LocalInv, Tidy, PendingChangeInLog
<1>2. LocalInv /\ [Next]_vars => LocalInv'
  BY Zenon, NextLocal, EpochEndsHold
<1> QED
  BY <1>1, <1>2, InitLocal, PTL DEF Spec

\* A request asks from an offset below which everything is stored, also when
\* the log was cut just before (build_fetch_request()).
THEOREM FetchedIsStoredHolds == Spec => FetchedIsStored
<1>1. LocalInv /\ [Next]_vars => LocalInv'
  BY Zenon, NextLocal, EpochEndsHold
<1>2. LocalInv /\ [Next]_vars => [AsksFromStored]_vars
  BY Zenon, StepStores, EpochEndsHold
<1> QED
  BY <1>1, <1>2, InitLocal, PTL DEF Spec, FetchedIsStored

\* While the process lives its high watermark does not go back, and no answer
\* makes it change an entry below it.
THEOREM CommittedIsKeptHolds == Spec => CommittedIsKept
<1>1. LocalInv /\ [Next]_vars => LocalInv'
  BY Zenon, NextLocal, EpochEndsHold
<1>2. LocalInv /\ LocalInv' /\ [Next]_vars
        => [state.role # "Down" /\ state'.role # "Down" => KeepsCommitted]_vars
  BY Zenon, StepKeeps, EpochEndsHold
<1> QED
  BY <1>1, <1>2, InitLocal, PTL DEF Spec, CommittedIsKept

\* When leaders answer no request of an earlier term, LocalInv and SafeInv hold.
LEMMA SafeHolds ==
    ASSUME AnswersStale = FALSE
    PROVE  Spec => [](LocalInv /\ SafeInv)
<1>1. Init => LocalInv /\ SafeInv
  BY InitLocal, InitSafe
<1>2. LocalInv /\ SafeInv /\ [Next]_vars => LocalInv' /\ SafeInv'
  BY Zenon, NextLocal, NextSafe, EpochEndsHold
<1> QED
  BY <1>1, <1>2, PTL DEF Spec

\* When leaders answer no request of an earlier term, what a follower takes as
\* committed is the committed log up to its high watermark, and that is what
\* the state machine, the epoch checkpoint and the voter set were given.
THEOREM AppliedIsCommittedHolds ==
    ASSUME AnswersStale = FALSE
    PROVE  Spec => []AppliedIsCommitted
<1>1. LocalInv /\ SafeInv => AppliedIsCommitted
  BY SafeImpliesApplied
<1>2. Spec => [](LocalInv /\ SafeInv)
  BY Zenon, SafeHolds
<1> QED
  BY <1>1, <1>2, PTL

\* Under the same condition a caller that was told of success finds its own
\* entry committed (deferred_completion.rs, complete()).
THEOREM CompletionsAreTrueHolds ==
    ASSUME AnswersStale = FALSE
    PROVE  Spec => []CompletionsAreTrue
<1>1. SafeInv => CompletionsAreTrue
  BY Zenon DEF SafeInv, AppInv
<1>2. Spec => [](LocalInv /\ SafeInv)
  BY SafeHolds
<1> QED
  BY <1>1, <1>2, PTL
=============================================================================
