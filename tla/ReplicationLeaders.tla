------------------------- MODULE ReplicationLeaders -------------------------
(***************************************************************************)
(* The inductive invariant behind the safety of Replication when a leader  *)
(* answers only requests of its own term: what the logs of the leaders,    *)
(* the committed log, the requests sent and the node have to do with each  *)
(* other.  The leaders, and the node as one of them, keep it.              *)
(***************************************************************************)
EXTENDS ReplicationProofs

USE SMTT(30), SMTT(31), Zenon, SMTT(32), SMTT(33)

-----------------------------------------------------------------------------
(* The inductive invariant. *)

\* The first n entries of a and of b are there and the same.
Agree(a, b, n) == n <= Len(a) /\ n <= Len(b) /\ \A i \in 1 .. n : a[i] = b[i]

\* Entry i of l was written by the leader of its term, on top of what l has
\* before it: L are the leaders' logs.
RootedAt(l, L, i) == l[i].term \in 1 .. MaxTerm /\ Agree(L[l[i].term], l, i)
Rooted(l, L) == \A i \in 1 .. Len(l) : RootedAt(l, L, i)

\* l has at most one LeaderChangeMessage of a term.
OneChange(l) ==
    \A i, j \in 1 .. Len(l) :
        l[i] = l[j] /\ l[i].entry_type = "LeaderChangeMessage" => i = j

LeaderInv(t) ==
    /\ leader_of[t] = Nil => leader_log[t] = <<>>
    /\ Rooted(leader_log[t], leader_log)
    /\ \A i \in 1 .. Len(leader_log[t]) : leader_log[t][i].term <= t
    /\ OneChange(leader_log[t])
    /\ Agree(leader_log[t], committed, leader_hw[t])

\* What is committed is in the log of the last leader.
LeadersInv ==
    /\ \A t \in 1 .. MaxTerm : LeaderInv(t)
    /\ LastLed = 0 => committed = <<>>
    /\ LastLed > 0 => Agree(leader_log[LastLed], committed, Len(committed))

\* A quorum state is of the node's term and names no other leader than its.
OfTerm(q) ==
    /\ q.current_term = state.current_term
    /\ q.leader_id # Nil => q.current_term > 0 /\ q.leader_id = leader_of[q.current_term]

TermsInv ==
    /\ OfTerm(QuorumState(state))
    /\ OfTerm(quorum_state)
    /\ \A i \in 1 .. Len(storage) :
         storage[i].op = "PersistQuorumState" => OfTerm(storage[i].quorum)

\* The position a request asks from is that of an entry some leader wrote.
Exists(q) ==
    \/ q.fetch_offset = 0
    \/ /\ q.last_fetched_epoch \in 1 .. MaxTerm
       /\ q.fetch_offset <= Len(leader_log[q.last_fetched_epoch])
       /\ leader_log[q.last_fetched_epoch][q.fetch_offset].term = q.last_fetched_epoch

\* The position is one of the log of the leader of term t.
In(q, t) ==
    /\ q.fetch_offset <= Len(leader_log[t])
    /\ q.fetch_offset > 0 => leader_log[t][q.fetch_offset].term = q.last_fetched_epoch

\* As far as it goes and up to n, l is m.
UpTo(l, m, n) == \A i \in 1 .. n : i <= Len(l) => l[i] = m[i]

\* A request was sent to the leader of its term.  As long as the node stays in
\* the term, a request that does not diverge asks from a position up to which
\* the logs of the node are that of the leader.
RequestInv(q) ==
    LET t == q.leader_epoch
    IN  /\ t \in 1 .. state.current_term
        /\ leader_of[t] = q.dest
        /\ Exists(q)
        /\ t = state.current_term /\ q.dest \in Peers /\ In(q, t)
             => /\ UpTo(state.log, leader_log[t], q.fetch_offset)
                /\ UpTo(disk_log, leader_log[t], q.fetch_offset)

LeadInv ==
    state.role = "Leader" => /\ state.current_term > 0
                             /\ leader_of[state.current_term] = Self
                             /\ state.log = leader_log[state.current_term]

NodeInv ==
    /\ Rooted(state.log, leader_log)
    /\ Rooted(disk_log, leader_log)
    /\ LeadInv
    /\ TermsInv
    /\ \A q \in requests : RequestInv(q)

\* What s has of the committed log c: its prefix, the epoch checkpoint and the
\* voter set that go with it.
Has(s, c) ==
    /\ Agree(s.log, c, s.high_watermark)
    /\ \A t \in Term, o \in Nat :
         s.leader_epoch_checkpoint[t] = o <=> o < s.high_watermark /\ c[o + 1] = Lcm(t)
    /\ LatestVoters(c, 1 .. s.high_watermark, Nil) \in {Nil, s.voter_set}

AppInv ==
    /\ Has(state, committed)
    /\ state.role # "Down" => applied = WentThrough(committed, 1, state.high_watermark)
    /\ CompletionsAreTrue

SafeInv == LeadersInv /\ NodeInv /\ AppInv

-----------------------------------------------------------------------------
(* Logs that agree, and logs whose entries leaders wrote. *)

LogsType == [1 .. MaxTerm -> Seq(Entry)]

\* M has what L has, and possibly more.
Grown(L, M) == \A u \in 1 .. MaxTerm : Agree(M[u], L[u], Len(L[u]))

LEMMA AgreeLess ==
    ASSUME NEW a \in Seq(Entry), NEW b \in Seq(Entry), NEW n \in Nat, Agree(a, b, n),
           NEW m \in Nat, m <= n
    PROVE  Agree(a, b, m) /\ Agree(b, a, m)
BY DEF Agree

LEMMA AgreeTrans ==
    ASSUME NEW a \in Seq(Entry), NEW b \in Seq(Entry), NEW c \in Seq(Entry), NEW n \in Nat,
           Agree(a, b, n), Agree(b, c, n)
    PROVE  Agree(a, c, n)
BY DEF Agree

LEMMA RootedFacts ==
    ASSUME NEW L \in LogsType, NEW l \in Seq(Entry), Rooted(l, L), NEW i \in 1 .. Len(l)
    PROVE  /\ i \in Nat /\ i <= Len(l) /\ l[i] \in Entry
           /\ l[i].term \in 1 .. MaxTerm
           /\ L[l[i].term] \in Seq(Entry)
           /\ Agree(L[l[i].term], l, i)
<1>1. i \in Nat /\ i <= Len(l) /\ l[i] \in Entry
  OBVIOUS
<1>2. l[i].term \in 1 .. MaxTerm /\ Agree(L[l[i].term], l, i)
  BY Zenon DEF Rooted, RootedAt
<1>3. L[l[i].term] \in Seq(Entry)
  BY <1>2 DEF LogsType
<1> QED
  BY <1>1, <1>2, <1>3

LEMMA RootedGrows ==
    ASSUME NEW L \in LogsType, NEW M \in LogsType, Grown(L, M), NEW l \in Seq(Entry),
           Rooted(l, L)
    PROVE  Rooted(l, M)
<1> SUFFICES ASSUME NEW i \in 1 .. Len(l) PROVE RootedAt(l, M, i)
  BY Zenon DEF Rooted
<1>1. PICK u : u = l[i].term
  OBVIOUS
<1>2. u \in 1 .. MaxTerm /\ L[u] \in Seq(Entry) /\ Agree(L[u], l, i) /\ i \in Nat
  BY Zenon, <1>1, RootedFacts
<1>3. M[u] \in Seq(Entry) /\ Agree(M[u], L[u], Len(L[u])) /\ Len(L[u]) \in Nat
  BY <1>2 DEF Grown, LogsType
<1>4. i <= Len(L[u])
  BY <1>2 DEF Agree
<1>5. Agree(M[u], L[u], i)
  BY Zenon, <1>2, <1>3, <1>4, AgreeLess
<1>6. Agree(M[u], l, i)
  BY Zenon, <1>2, <1>3, <1>5, AgreeTrans
<1> QED
  BY Zenon, <1>1, <1>2, <1>6 DEF RootedAt

\* A log that agrees with a rooted one up to its end is rooted.
LEMMA RootedPart ==
    ASSUME NEW L \in LogsType, NEW l \in Seq(Entry), NEW m \in Seq(Entry), Rooted(l, L),
           Agree(m, l, Len(m))
    PROVE  Rooted(m, L)
<1> SUFFICES ASSUME NEW i \in 1 .. Len(m) PROVE RootedAt(m, L, i)
  BY Zenon DEF Rooted
<1>1. i \in Nat /\ i <= Len(m) /\ Len(m) \in Nat /\ i \in 1 .. Len(l) /\ m[i] = l[i]
  BY DEF Agree
<1>2. PICK u : u = l[i].term
  OBVIOUS
<1>3. u \in 1 .. MaxTerm /\ L[u] \in Seq(Entry) /\ Agree(L[u], l, i)
  BY Zenon, <1>1, <1>2, RootedFacts
<1>4. Agree(l, m, i)
  BY Zenon, <1>1, AgreeLess
<1>5. Agree(L[u], m, i)
  BY Zenon, <1>1, <1>3, <1>4, AgreeTrans
<1> QED
  BY Zenon, <1>1, <1>2, <1>3, <1>5 DEF RootedAt

LEMMA AppendFacts ==
    ASSUME NEW l \in Seq(Entry), NEW e \in Entry
    PROVE  /\ Append(l, e) \in Seq(Entry)
           /\ Len(Append(l, e)) = Len(l) + 1
           /\ Append(l, e)[Len(l) + 1] = e
           /\ \A i \in 1 .. Len(l) : Append(l, e)[i] = l[i]
           /\ Agree(Append(l, e), l, Len(l))
           /\ Len(l) \in Nat
<1>1. PICK m : m = Append(l, e)
  BY Zenon
<1>2. /\ m \in Seq(Entry) /\ Len(m) = Len(l) + 1 /\ m[Len(l) + 1] = e /\ Len(l) \in Nat
      /\ \A i \in 1 .. Len(l) : m[i] = l[i]
  BY <1>1
<1>3. Agree(m, l, Len(l))
  BY <1>2 DEF Agree
<1> QED
  BY Zenon, <1>1, <1>2, <1>3

\* A leader appends an entry of its term to a rooted log.
LEMMA RootedAppend ==
    ASSUME NEW L \in LogsType, NEW l \in Seq(Entry), Rooted(l, L), NEW e \in Entry,
           e.term \in 1 .. MaxTerm, L[e.term] = Append(l, e)
    PROVE  Rooted(Append(l, e), L)
<1>1. PICK m : m = Append(l, e)
  OBVIOUS
<1>2. /\ m \in Seq(Entry) /\ Len(m) = Len(l) + 1 /\ m[Len(l) + 1] = e /\ Len(l) \in Nat
      /\ Agree(m, l, Len(l))
  BY Zenon, <1>1, AppendFacts
<1>3. ASSUME NEW i \in 1 .. Len(l)
      PROVE  RootedAt(m, L, i)
  <2>1. i \in Nat /\ i <= Len(l) /\ m[i] = l[i]
    BY <1>2 DEF Agree
  <2>2. PICK u : u = l[i].term
    OBVIOUS
  <2>3. u \in 1 .. MaxTerm /\ L[u] \in Seq(Entry) /\ Agree(L[u], l, i)
    BY Zenon, <2>2, RootedFacts
  <2>4. Agree(l, m, i)
    BY Zenon, <1>2, <2>1, AgreeLess
  <2>5. Agree(L[u], m, i)
    BY Zenon, <1>2, <2>1, <2>3, <2>4, AgreeTrans
  <2> QED
    BY Zenon, <2>1, <2>2, <2>3, <2>5 DEF RootedAt
<1>4. Agree(m, m, Len(l) + 1)
  BY <1>2 DEF Agree
<1>5. RootedAt(m, L, Len(l) + 1)
  BY Zenon, <1>1, <1>2, <1>4 DEF RootedAt
<1>6. \A i \in 1 .. Len(m) : i \in 1 .. Len(l) \/ i = Len(l) + 1
  BY <1>2
<1>7. Rooted(m, L)
  BY Zenon, <1>3, <1>5, <1>6 DEF Rooted
<1> QED
  BY <1>1, <1>7

\* Two rooted logs with entries of one term at n agree up to n.
LEMMA Matching ==
    ASSUME NEW L \in LogsType, NEW a \in Seq(Entry), NEW b \in Seq(Entry),
           Rooted(a, L), Rooted(b, L), NEW n \in 1 .. Len(a), n <= Len(b),
           a[n].term = b[n].term
    PROVE  Agree(a, b, n)
<1>1. n \in Nat /\ n \in 1 .. Len(b)
  OBVIOUS
<1>2. PICK u : u = a[n].term
  OBVIOUS
<1>3. L[u] \in Seq(Entry) /\ Agree(L[u], a, n) /\ Agree(L[u], b, n)
  BY Zenon, <1>1, <1>2, RootedFacts
<1>4. Agree(a, L[u], n)
  <2>1. n <= n
    BY <1>1
  <2> QED
    BY Zenon, <1>1, <1>3, <2>1, AgreeLess
<1> QED
  BY Zenon, <1>1, <1>3, <1>4, AgreeTrans

-----------------------------------------------------------------------------
(* The leaders. *)

LEMMA LeaderFacts ==
    ASSUME TypeOK, LeadersInv, NEW t \in 1 .. MaxTerm
    PROVE  /\ leader_log \in LogsType /\ leader_log[t] \in Seq(Entry)
           /\ Len(leader_log[t]) \in Nat /\ leader_hw[t] \in Nat
           /\ LeaderInv(t) /\ Rooted(leader_log[t], leader_log)
           /\ Agree(leader_log[t], committed, leader_hw[t])
<1>1. leader_log \in LogsType /\ leader_hw[t] \in Nat
  BY DEF TypeOK, LogsType
<1>2. leader_log[t] \in Seq(Entry)
  BY <1>1 DEF LogsType
<1>3. Len(leader_log[t]) \in Nat
  BY <1>2
<1> QED
  BY Zenon, <1>1, <1>2, <1>3 DEF LeadersInv, LeaderInv

\* Entries of a rooted log are of terms that were led, and of no term has it
\* two LeaderChangeMessages.
LEMMA RootedTerms ==
    ASSUME TypeOK, LeadersInv, NEW l \in Seq(Entry), Rooted(l, leader_log)
    PROVE  /\ \A i \in 1 .. Len(l) : l[i].term \in 1 .. LastLed
           /\ OneChange(l)
<1>1. leader_log \in LogsType
  BY DEF TypeOK, LogsType
<1>2. ASSUME NEW i \in 1 .. Len(l)
      PROVE  l[i].term \in 1 .. LastLed
  <2>1. PICK u : u = l[i].term
    OBVIOUS
  <2>2. /\ u \in 1 .. MaxTerm /\ leader_log[u] \in Seq(Entry) /\ Agree(leader_log[u], l, i)
        /\ i \in Nat
    BY Zenon, <1>1, <2>1, RootedFacts
  <2>3. leader_log[u] # <<>>
    BY <2>2 DEF Agree
  <2>4. leader_of[u] # Nil
    BY Zenon, <2>2, <2>3 DEF LeadersInv, LeaderInv
  <2>5. u <= LastLed /\ LastLed \in 0 .. MaxTerm
    BY Zenon, <2>2, <2>4, LastLedFacts
  <2> QED
    BY <2>1, <2>2, <2>5, BoundsAssumption
<1>3. OneChange(l)
  <2>1. CASE l = <<>>
    BY <2>1 DEF OneChange
  <2>2. CASE l # <<>>
    <3>1. Len(l) \in 1 .. Len(l) /\ Len(l) \in Nat
      BY <2>2
    <3>2. PICK u : u = l[Len(l)].term
      OBVIOUS
    <3>3. /\ u \in 1 .. MaxTerm /\ leader_log[u] \in Seq(Entry)
          /\ Agree(leader_log[u], l, Len(l))
      BY Zenon, <1>1, <3>1, <3>2, RootedFacts
    <3>4. OneChange(leader_log[u])
      BY Zenon, <3>3 DEF LeadersInv, LeaderInv
    <3> QED
      BY <3>1, <3>3, <3>4 DEF OneChange, Agree
  <2> QED
    BY <2>1, <2>2
<1> QED
  BY <1>2, <1>3

\* What a step of the leaders' side leaves as it was.
LeadersStep ==
    /\ Grown(leader_log, leader_log')
    /\ \A t \in 1 .. MaxTerm : leader_of[t] # Nil => leader_of'[t] = leader_of[t]
    /\ \A t \in 1 .. MaxTerm : leader_of[t] # Nil =>
         \A i \in Len(leader_log[t]) + 1 .. Len(leader_log'[t]) : leader_log'[t][i].term = t
    /\ Agree(committed', committed, Len(committed))

LEMMA AgreeSelf ==
    ASSUME NEW l \in Seq(Entry)
    PROVE  Agree(l, l, Len(l))
BY DEF Agree

LEMMA LeadersSame ==
    ASSUME TypeOK, LeadersInv, UNCHANGED leaders
    PROVE  LeadersStep /\ LeadersInv'
<1>1. /\ leader_of' = leader_of /\ leader_log' = leader_log /\ leader_hw' = leader_hw
      /\ committed' = committed
  BY DEF leaders
<1>2. Agree(committed, committed, Len(committed))
  BY AgreeSelf DEF TypeOK
<1>3. Grown(leader_log, leader_log)
  BY AgreeSelf DEF Grown, TypeOK
<1>4. \A t \in 1 .. MaxTerm :
         \A i \in Len(leader_log[t]) + 1 .. Len(leader_log[t]) : leader_log[t][i].term = t
  BY DEF TypeOK
<1>5. LeadersStep
  BY Zenon, <1>1, <1>2, <1>3, <1>4 DEF LeadersStep
<1>6. LastLed' = LastLed
  BY <1>1 DEF LastLed
<1>7. LeadersInv'
  BY Zenon, <1>1, <1>6 DEF LeadersInv, LeaderInv
<1> QED
  BY <1>5, <1>7

LEMMA NextLedFacts ==
    /\ LastLed' \in 0 .. MaxTerm
    /\ \A t \in 1 .. MaxTerm : leader_of'[t] # Nil => t <= LastLed'
    /\ LastLed' > 0 => leader_of'[LastLed'] # Nil
BY LedFacts DEF LastLed

LEMMA OneChangeAppend ==
    ASSUME NEW l \in Seq(Entry), OneChange(l), NEW e \in Entry,
           \/ e.entry_type # "LeaderChangeMessage"
           \/ \A i \in 1 .. Len(l) : l[i] # e
    PROVE  OneChange(Append(l, e))
<1>1. PICK m : m = Append(l, e)
  BY Zenon
<1>2. /\ Len(m) = Len(l) + 1 /\ m[Len(l) + 1] = e /\ Len(l) \in Nat
      /\ \A i \in 1 .. Len(l) : m[i] = l[i]
  BY Zenon, <1>1, AppendFacts
<1>3. \A i \in 1 .. Len(m) : i \in 1 .. Len(l) \/ i = Len(l) + 1
  BY <1>2
<1>4. \A i \in 1 .. Len(l) : m[i] = e => e.entry_type # "LeaderChangeMessage"
  BY Zenon, <1>2
<1>5. \A i, j \in 1 .. Len(m) :
        m[i] = m[j] /\ m[i].entry_type = "LeaderChangeMessage" => i = j
  <2> SUFFICES ASSUME NEW i \in 1 .. Len(m), NEW j \in 1 .. Len(m),
                      m[i] = m[j], m[i].entry_type = "LeaderChangeMessage"
               PROVE  i = j
    BY Zenon
  <2>1. CASE i \in 1 .. Len(l) /\ j \in 1 .. Len(l)
    BY Zenon, <1>2, <2>1 DEF OneChange
  <2>2. CASE i \in 1 .. Len(l) /\ j = Len(l) + 1
    BY Zenon, <1>2, <1>4, <2>2
  <2>3. CASE i = Len(l) + 1 /\ j \in 1 .. Len(l)
    BY Zenon, <1>2, <1>4, <2>3
  <2> QED
    BY Zenon, <1>3, <2>1, <2>2, <2>3
<1> QED
  BY Zenon, <1>1, <1>5 DEF OneChange

\* A node with what is committed is elected and appends its entry.
LEMMA Elects ==
    ASSUME TypeOK, TypeOK', LeadersInv, NEW t \in 1 .. MaxTerm, t > LastLed, NEW x \in Node,
           NEW l \in Seq(Entry), Rooted(l, leader_log), Agree(l, committed, Len(committed)),
           leader_of' = [leader_of EXCEPT ![t] = x],
           leader_log' = [leader_log EXCEPT ![t] = Append(l, Lcm(t))],
           NEW h \in 0 .. Len(committed), leader_hw' = [leader_hw EXCEPT ![t] = h],
           committed' = committed
    PROVE  LeadersStep /\ LeadersInv' /\ leader_of[t] = Nil
<1> DEFINE e == Lcm(t)
           m == Append(l, e)
<1>1. /\ e \in Entry /\ e.term = t /\ e.entry_type = "LeaderChangeMessage"
  BY BoundsAssumption DEF Lcm, Entry, EntryType, Term
<1>2. /\ m \in Seq(Entry) /\ Len(m) = Len(l) + 1 /\ m[Len(l) + 1] = e /\ Len(l) \in Nat
      /\ Agree(m, l, Len(l)) /\ \A i \in 1 .. Len(l) : m[i] = l[i]
  BY Zenon, <1>1, AppendFacts
<1> HIDE DEF e, m
<1>3. leader_of[t] = Nil
  BY LastLedFacts
<1>4. LeaderInv(t)
  BY Zenon DEF LeadersInv
<1>5. leader_log[t] = <<>>
  BY Zenon, <1>3, <1>4 DEF LeaderInv
<1>6. /\ leader_log'[t] = m /\ leader_of'[t] = x /\ leader_hw'[t] = h /\ x # Nil
      /\ \A u \in 1 .. MaxTerm : u # t => /\ leader_log'[u] = leader_log[u]
                                         /\ leader_of'[u] = leader_of[u]
                                         /\ leader_hw'[u] = leader_hw[u]
  BY NilAssumption DEF TypeOK, Node, e, m
<1>7. leader_log \in LogsType /\ leader_log' \in LogsType
  BY DEF TypeOK, LogsType
<1>8. Grown(leader_log, leader_log')
  <2> SUFFICES ASSUME NEW u \in 1 .. MaxTerm
               PROVE  Agree(leader_log'[u], leader_log[u], Len(leader_log[u]))
    BY Zenon DEF Grown
  <2>1. CASE u = t
    BY <1>2, <1>5, <1>6, <2>1 DEF Agree
  <2>2. CASE u # t
    BY <1>6, <1>7, <2>2, AgreeSelf DEF LogsType
  <2> QED
    BY <2>1, <2>2
<1>9. LastLed' = t
  BY <1>6, LastLedFacts, NextLedFacts
<1>10. Len(committed) \in Nat /\ committed \in Seq(Entry)
  BY DEF TypeOK
<1>11. Agree(m, committed, Len(committed))
  <2>1. Len(committed) <= Len(l)
    BY DEF Agree
  <2>2. Agree(m, l, Len(committed))
    BY Zenon, <1>2, <1>10, <2>1, AgreeLess
  <2> QED
    BY Zenon, <1>2, <1>10, <2>2, AgreeTrans
<1>12. ASSUME NEW u \in 1 .. MaxTerm, u # t
       PROVE  LeaderInv(u)'
  <2>1. leader_log[u] \in Seq(Entry)
    BY <1>7 DEF LogsType
  <2>2. LeaderInv(u)
    BY Zenon DEF LeadersInv
  <2>3. Rooted(leader_log[u], leader_log')
    BY Zenon, <1>7, <1>8, <2>1, <2>2, RootedGrows DEF LeaderInv
  <2>4. leader_log'[u] = leader_log[u] /\ leader_of'[u] = leader_of[u] /\ leader_hw'[u] = leader_hw[u]
    BY Zenon, <1>6, <1>12
  <2> QED
    BY Zenon, <2>2, <2>3, <2>4 DEF LeaderInv
<1>13. LeaderInv(t)'
  <2>1. Rooted(l, leader_log')
    BY Zenon, <1>7, <1>8, RootedGrows
  <2>2. leader_log'[e.term] = Append(l, e) /\ e.term \in 1 .. MaxTerm
    BY Zenon, <1>1, <1>6 DEF m
  <2>3. Rooted(m, leader_log')
    BY Zenon, <1>1, <1>7, <2>1, <2>2, RootedAppend DEF m
  <2>4. /\ \A i \in 1 .. Len(l) : l[i].term \in 1 .. LastLed
        /\ OneChange(l)
    BY Zenon, RootedTerms
  <2>5. LastLed \in Nat /\ t \in Nat
    BY LastLedFacts
  <2>6. \A i \in 1 .. Len(m) : i \in 1 .. Len(l) \/ i = Len(l) + 1
    BY <1>2
  <2>7. \A i \in 1 .. Len(m) : m[i].term <= t
    BY <1>1, <1>2, <2>4, <2>5, <2>6
  <2>8. OneChange(m)
    <3>1. \A i \in 1 .. Len(l) : l[i].term # t
      BY <2>4, <2>5
    <3>2. \A i \in 1 .. Len(l) : l[i] # e
      BY Zenon, <1>1, <3>1
    <3> QED
      BY Zenon, <1>1, <2>4, <3>2, OneChangeAppend DEF m
  <2>9. Agree(m, committed, h)
    <3>1. h \in Nat /\ h <= Len(committed)
      BY <1>10
    <3> QED
      BY Zenon, <1>2, <1>10, <1>11, <3>1, AgreeLess
  <2> QED
    BY Zenon, <1>6, <2>3, <2>7, <2>8, <2>9 DEF LeaderInv
<1>14. LeadersInv'
  <2>1. \A u \in 1 .. MaxTerm : LeaderInv(u)'
    BY Zenon, <1>12, <1>13
  <2>2. LastLed' # 0
    BY <1>9
  <2>3. Agree(leader_log'[LastLed'], committed', Len(committed'))
    BY Zenon, <1>6, <1>9, <1>11
  <2> QED
    BY Zenon, <2>1, <2>2, <2>3 DEF LeadersInv
<1>15. LeadersStep
  <2>1. \A u \in 1 .. MaxTerm : leader_of[u] # Nil =>
           /\ leader_of'[u] = leader_of[u]
           /\ \A i \in Len(leader_log[u]) + 1 .. Len(leader_log'[u]) : leader_log'[u][i].term = u
    <3> SUFFICES ASSUME NEW u \in 1 .. MaxTerm, leader_of[u] # Nil
                 PROVE  /\ leader_of'[u] = leader_of[u]
                        /\ \A i \in Len(leader_log[u]) + 1 .. Len(leader_log'[u]) :
                              leader_log'[u][i].term = u
      OBVIOUS
    <3>1. u # t /\ leader_log'[u] = leader_log[u] /\ leader_of'[u] = leader_of[u]
      BY Zenon, <1>3, <1>6
    <3>2. Len(leader_log[u]) \in Nat
      BY <1>7 DEF LogsType
    <3> QED
      BY <3>1, <3>2
  <2>2. Agree(committed', committed, Len(committed))
    BY Zenon, <1>10, AgreeSelf
  <2> QED
    BY Zenon, <1>8, <2>1, <2>2 DEF LeadersStep
<1> QED
  BY <1>3, <1>14, <1>15

\* The leader of a term appends another entry.
LEMMA Grows ==
    ASSUME TypeOK, TypeOK', LeadersInv, NEW t \in 1 .. MaxTerm, leader_of[t] # Nil,
           NEW e \in Entry, e.term = t, e.entry_type # "LeaderChangeMessage",
           leader_log' = [leader_log EXCEPT ![t] = Append(leader_log[t], e)],
           leader_of' = leader_of, leader_hw' = leader_hw, committed' = committed
    PROVE  LeadersStep /\ LeadersInv'
<1> DEFINE l == leader_log[t]
           m == Append(l, e)
<1>1. /\ leader_log \in LogsType /\ leader_log' \in LogsType /\ l \in Seq(Entry)
      /\ committed \in Seq(Entry) /\ Len(committed) \in Nat
  BY DEF TypeOK, LogsType
<1>2. /\ m \in Seq(Entry) /\ Len(m) = Len(l) + 1 /\ m[Len(l) + 1] = e /\ Len(l) \in Nat
      /\ Agree(m, l, Len(l)) /\ \A i \in 1 .. Len(l) : m[i] = l[i]
  BY Zenon, <1>1, AppendFacts
<1>3. /\ leader_log'[t] = m
      /\ \A u \in 1 .. MaxTerm : u # t => leader_log'[u] = leader_log[u]
  BY <1>1 DEF LogsType
<1> HIDE DEF m
<1>4. LeaderInv(t)
  BY Zenon DEF LeadersInv
<1>5. Grown(leader_log, leader_log')
  <2> SUFFICES ASSUME NEW u \in 1 .. MaxTerm
               PROVE  Agree(leader_log'[u], leader_log[u], Len(leader_log[u]))
    BY Zenon DEF Grown
  <2>1. CASE u = t
    BY Zenon, <1>2, <1>3, <2>1
  <2>2. CASE u # t
    BY <1>1, <1>3, <2>2, AgreeSelf DEF LogsType
  <2> QED
    BY <2>1, <2>2
<1>6. LastLed' = LastLed
  BY DEF LastLed
<1>7. ASSUME NEW u \in 1 .. MaxTerm, u # t
      PROVE  LeaderInv(u)'
  <2>1. leader_log[u] \in Seq(Entry)
    BY <1>1 DEF LogsType
  <2>2. LeaderInv(u)
    BY Zenon DEF LeadersInv
  <2>3. Rooted(leader_log[u], leader_log')
    BY Zenon, <1>1, <1>5, <2>1, <2>2, RootedGrows DEF LeaderInv
  <2>4. leader_log'[u] = leader_log[u]
    BY Zenon, <1>3, <1>7
  <2> QED
    BY Zenon, <2>2, <2>3, <2>4 DEF LeaderInv
<1>8. LeaderInv(t)'
  <2>1. Rooted(l, leader_log')
    BY Zenon, <1>1, <1>4, <1>5, RootedGrows DEF LeaderInv
  <2>2. leader_log'[e.term] = Append(l, e) /\ e.term \in 1 .. MaxTerm
    BY Zenon, <1>3 DEF m
  <2>3. Rooted(m, leader_log')
    BY Zenon, <1>1, <2>1, <2>2, RootedAppend DEF m
  <2>4. /\ \A i \in 1 .. Len(l) : l[i].term <= t
        /\ OneChange(l) /\ Agree(l, committed, leader_hw[t])
    BY Zenon, <1>4 DEF LeaderInv
  <2>5. \A i \in 1 .. Len(m) : i \in 1 .. Len(l) \/ i = Len(l) + 1
    BY <1>2
  <2>6. \A i \in 1 .. Len(m) : m[i].term <= t
    <3>1. t <= t
      OBVIOUS
    <3> QED
      BY Zenon, <1>2, <2>4, <2>5, <3>1
  <2>7. OneChange(m)
    BY Zenon, <1>1, <2>4, OneChangeAppend DEF m
  <2>8. Agree(m, committed, leader_hw[t])
    <3>1. leader_hw[t] \in Nat /\ leader_hw[t] <= Len(l)
      BY Zenon, <2>4 DEF Agree, TypeOK
    <3>2. Agree(m, l, leader_hw[t])
      BY Zenon, <1>1, <1>2, <3>1, AgreeLess
    <3> QED
      BY Zenon, <1>1, <1>2, <2>4, <3>1, <3>2, AgreeTrans
  <2> QED
    BY Zenon, <1>3, <2>3, <2>6, <2>7, <2>8 DEF LeaderInv
<1>9. LeadersStep
  <2>1. \A u \in 1 .. MaxTerm :
           \A i \in Len(leader_log[u]) + 1 .. Len(leader_log'[u]) : leader_log'[u][i].term = u
    <3> SUFFICES ASSUME NEW u \in 1 .. MaxTerm,
                        NEW i \in Len(leader_log[u]) + 1 .. Len(leader_log'[u])
                 PROVE  leader_log'[u][i].term = u
      BY Zenon
    <3>1. Len(leader_log[u]) \in Nat
      BY <1>1 DEF LogsType
    <3>2. u = t /\ i \in Len(l) + 1 .. Len(m)
      BY <1>3, <3>1
    <3>3. i = Len(l) + 1
      BY <1>2, <3>2
    <3> QED
      BY Zenon, <1>2, <1>3, <3>2, <3>3
  <2>2. Agree(committed', committed, Len(committed))
    BY Zenon, <1>1, AgreeSelf
  <2> QED
    BY Zenon, <1>5, <2>1, <2>2 DEF LeadersStep
<1>10. LeadersInv'
  <2>1. \A u \in 1 .. MaxTerm : LeaderInv(u)'
    BY Zenon, <1>7, <1>8
  <2>2. LastLed = 0 => committed = <<>>
    BY Zenon DEF LeadersInv
  <2>3. ASSUME LastLed > 0
        PROVE  Agree(leader_log'[LastLed], committed, Len(committed))
    <3> DEFINE u == LastLed
    <3>1. u \in 1 .. MaxTerm
      BY <2>3, LastLedFacts
    <3> HIDE DEF u
    <3>2. Agree(leader_log[u], committed, Len(committed))
      BY Zenon, <2>3 DEF LeadersInv, u
    <3>3. Agree(leader_log'[u], leader_log[u], Len(leader_log[u]))
      BY Zenon, <1>5, <3>1 DEF Grown
    <3>4. leader_log[u] \in Seq(Entry) /\ leader_log'[u] \in Seq(Entry) /\ Len(leader_log[u]) \in Nat
      BY <1>1, <3>1 DEF LogsType
    <3>5. Len(committed) <= Len(leader_log[u])
      BY <3>2 DEF Agree
    <3>6. Agree(leader_log'[u], leader_log[u], Len(committed))
      BY Zenon, <1>1, <3>3, <3>4, <3>5, AgreeLess
    <3>7. Agree(leader_log'[u], committed, Len(committed))
      BY Zenon, <1>1, <3>2, <3>4, <3>6, AgreeTrans
    <3> QED
      BY <3>7 DEF u
  <2> QED
    BY Zenon, <1>6, <2>1, <2>2, <2>3 DEF LeadersInv
<1> QED
  BY <1>9, <1>10

LEMMA PrefixFacts ==
    ASSUME NEW l \in Seq(Entry), NEW k \in 0 .. Len(l)
    PROVE  /\ Prefix(l, k) \in Seq(Entry) /\ Len(Prefix(l, k)) = k /\ k \in Nat
           /\ \A i \in 1 .. k : Prefix(l, k)[i] = l[i]
           /\ Agree(Prefix(l, k), l, k)
<1>1. PICK m : m = Prefix(l, k)
  OBVIOUS
<1>2. /\ m \in Seq(Entry) /\ Len(m) = k /\ k \in Nat /\ k <= Len(l)
      /\ \A i \in 1 .. k : m[i] = l[i]
  BY <1>1 DEF Prefix
<1>3. Agree(m, l, k)
  BY <1>2 DEF Agree
<1> QED
  BY Zenon, <1>1, <1>2, <1>3

\* The last leader commits: what was committed stays.
LEMMA Commits ==
    ASSUME TypeOK, TypeOK', LeadersInv, NEW k \in 1 .. MaxLog, Commit(k)
    PROVE  LeadersStep /\ LeadersInv'
<1> DEFINE u == LastLed
           l == leader_log[u]
           c == Prefix(l, k)
<1>1. /\ u > 0 /\ k \in Len(committed) + 1 .. Len(l) /\ committed' = c
      /\ leader_hw' = [leader_hw EXCEPT ![u] = k] /\ leader_of' = leader_of
      /\ leader_log' = leader_log
  BY DEF Commit
<1>2. u \in 1 .. MaxTerm
  BY <1>1, LastLedFacts
<1>3. LastLed' = u
  BY <1>1 DEF LastLed
<1>4. Agree(l, committed, Len(committed))
  BY Zenon, <1>1 DEF LeadersInv
<1> HIDE DEF u
<1>5. /\ leader_log \in LogsType /\ l \in Seq(Entry) /\ committed \in Seq(Entry)
      /\ Len(committed) \in Nat /\ k \in 0 .. Len(l) /\ Len(committed) <= k
      /\ leader_hw \in [1 .. MaxTerm -> Nat]
  <2>1. /\ leader_log \in LogsType /\ l \in Seq(Entry) /\ committed \in Seq(Entry)
        /\ leader_hw \in [1 .. MaxTerm -> Nat]
    BY Zenon, <1>2 DEF TypeOK, LogsType
  <2>2. Len(committed) \in Nat /\ Len(l) \in Nat
    BY <2>1
  <2> HIDE DEF l
  <2>3. k \in 0 .. Len(l) /\ Len(committed) <= k
    BY <1>1, <2>2
  <2> QED
    BY <2>1, <2>2, <2>3
<1>6. c \in Seq(Entry) /\ Len(c) = k /\ k \in Nat /\ Agree(c, l, k)
  BY Zenon, <1>5, PrefixFacts
<1> HIDE DEF c
<1>7. Agree(c, committed, Len(committed))
  <2>1. Agree(c, l, Len(committed))
    BY Zenon, <1>5, <1>6, AgreeLess
  <2> QED
    BY Zenon, <1>4, <1>5, <1>6, <2>1, AgreeTrans
<1>8. Agree(l, c, k)
  <2>1. k <= k
    BY <1>6
  <2> QED
    BY Zenon, <1>5, <1>6, <2>1, AgreeLess
<1>9. ASSUME NEW t \in 1 .. MaxTerm
      PROVE  LeaderInv(t)'
  <2>1. LeaderInv(t) /\ leader_log[t] \in Seq(Entry) /\ leader_hw[t] \in Nat
    BY Zenon, LeaderFacts
  <2>2. Agree(leader_log[t], c, leader_hw'[t])
    <3>1. CASE t = u
      BY <1>1, <1>2, <1>5, <1>8, <3>1
    <3>2. CASE t # u
      <4>1. Agree(leader_log[t], committed, leader_hw[t])
        BY Zenon, <2>1 DEF LeaderInv
      <4>2. leader_hw[t] <= Len(committed)
        BY <4>1 DEF Agree
      <4>3. Agree(committed, c, leader_hw[t])
        BY Zenon, <1>5, <1>6, <1>7, <2>1, <4>2, AgreeLess
      <4>4. Agree(leader_log[t], c, leader_hw[t])
        BY Zenon, <1>5, <1>6, <2>1, <4>1, <4>3, AgreeTrans
      <4>5. leader_hw'[t] = leader_hw[t]
        BY <1>1, <1>5, <3>2
      <4> QED
        BY Zenon, <4>4, <4>5
    <3> QED
      BY <3>1, <3>2
  <2> QED
    BY Zenon, <1>1, <2>1, <2>2 DEF LeaderInv
<1>10. LeadersInv'
  <2>1. LastLed' # 0
    BY <1>2, <1>3
  <2>2. Agree(leader_log'[LastLed'], committed', Len(committed'))
    BY Zenon, <1>1, <1>3, <1>6, <1>8
  <2> QED
    BY Zenon, <1>9, <2>1, <2>2 DEF LeadersInv
<1>11. LeadersStep
  <2>1. Grown(leader_log, leader_log')
    BY <1>1, <1>5, AgreeSelf DEF Grown, LogsType
  <2>2. \A t \in 1 .. MaxTerm :
           \A i \in Len(leader_log[t]) + 1 .. Len(leader_log[t]) : leader_log[t][i].term = t
    BY <1>5 DEF LogsType
  <2> QED
    BY Zenon, <1>1, <1>7, <2>1, <2>2 DEF LeadersStep
<1> QED
  BY <1>10, <1>11

-----------------------------------------------------------------------------
(* What a step of the leaders' side leaves of the node's invariant. *)

LEMMA OfTermKept ==
    ASSUME TypeOK, LeadersStep, state'.current_term = state.current_term, NEW q, OfTerm(q)
    PROVE  OfTerm(q)'
<1>1. state.current_term \in Term
  BY DEF TypeOK, NodeState
<1>2. q.leader_id # Nil => q.current_term \in 1 .. MaxTerm
  BY <1>1 DEF OfTerm, Term
<1> QED
  BY <1>2 DEF OfTerm, LeadersStep

LEMMA ExistsKept ==
    ASSUME TypeOK, TypeOK', LeadersStep, NEW q \in Request, Exists(q)
    PROVE  Exists(q)'
<1> DEFINE e == q.last_fetched_epoch
           f == q.fetch_offset
<1>1. f \in Nat
  BY DEF Request
<1>2. CASE f = 0
  BY <1>2 DEF Exists
<1>3. CASE f # 0
  <2>1. e \in 1 .. MaxTerm /\ f \in 1 .. Len(leader_log[e]) /\ leader_log[e][f].term = e
    BY <1>1, <1>3 DEF Exists
  <2>2. Agree(leader_log'[e], leader_log[e], Len(leader_log[e]))
    BY Zenon, <2>1 DEF LeadersStep, Grown
  <2>3. leader_log'[e] \in Seq(Entry) /\ leader_log[e] \in Seq(Entry)
    BY <2>1 DEF TypeOK
  <2>4. f <= Len(leader_log'[e]) /\ leader_log'[e][f] = leader_log[e][f]
    BY <2>1, <2>2, <2>3 DEF Agree
  <2> QED
    BY Zenon, <2>1, <2>4 DEF Exists
<1> QED
  BY <1>2, <1>3

\* A position the grown log of a leader has is one it had: entries it appends
\* are of its own term, and nobody asked from one before it was there.
LEMMA InBefore ==
    ASSUME TypeOK, TypeOK', LeadersStep, NEW q \in Request, Exists(q), NEW t \in 1 .. MaxTerm,
           leader_of[t] # Nil, In(q, t)'
    PROVE  In(q, t)
<1> DEFINE e == q.last_fetched_epoch
           f == q.fetch_offset
           l == leader_log[t]
           m == leader_log'[t]
<1>1. f \in Nat /\ l \in Seq(Entry) /\ m \in Seq(Entry) /\ Len(l) \in Nat
  <2>1. f \in Nat
    BY DEF Request
  <2>2. l \in Seq(Entry) /\ m \in Seq(Entry)
    BY Zenon DEF TypeOK
  <2> QED
    BY <2>1, <2>2
<1>2. f <= Len(m) /\ (f > 0 => m[f].term = e)
  BY DEF In
<1>3. Agree(m, l, Len(l)) /\ \A i \in Len(l) + 1 .. Len(m) : m[i].term = t
  <2>1. Agree(m, l, Len(l))
    BY Zenon DEF LeadersStep, Grown
  <2>2. \A i \in Len(l) + 1 .. Len(m) : m[i].term = t
    BY DEF LeadersStep
  <2> QED
    BY <2>1, <2>2
<1>4. CASE f = 0
  BY <1>1, <1>4 DEF In
<1>5. CASE f # 0
  <2>1. f <= Len(l)
    <3> SUFFICES ASSUME f > Len(l) PROVE FALSE
      BY <1>1
    <3>1. f \in Len(l) + 1 .. Len(m)
      BY <1>1, <1>2
    <3>2. e = t
      BY <1>1, <1>2, <1>3, <1>5, <3>1
    <3>3. f <= Len(leader_log[e])
      BY <1>5 DEF Exists
    <3> QED
      BY <1>1, <3>2, <3>3
  <2>2. m[f] = l[f]
    BY <1>1, <1>3, <1>5, <2>1 DEF Agree
  <2> QED
    BY <1>1, <1>2, <1>5, <2>1, <2>2 DEF In
<1> QED
  BY <1>4, <1>5

LEMMA UpToGrows ==
    ASSUME NEW l \in Seq(Entry), NEW a \in Seq(Entry), NEW b \in Seq(Entry),
           Agree(b, a, Len(a)), NEW n \in Nat, n <= Len(a), UpTo(l, a, n)
    PROVE  UpTo(l, b, n)
BY DEF Agree, UpTo

\* A request stays what it was while the logs of the node stay, and in any
\* case once its term is over.
LEMMA RequestKept ==
    ASSUME TypeOK, TypeOK', LeadersStep, NEW q \in Request, RequestInv(q),
           state.current_term <= state'.current_term,
           q.leader_epoch = state'.current_term /\ q.dest \in Peers =>
             /\ state'.current_term = state.current_term
             /\ state'.log = state.log /\ disk_log' = disk_log
    PROVE  RequestInv(q)'
<1> DEFINE t == q.leader_epoch
           f == q.fetch_offset
<1>1. /\ state.current_term \in Term /\ state'.current_term \in Term /\ f \in Nat
      /\ q.dest \in Node /\ state.log \in Seq(Entry) /\ disk_log \in Seq(Entry)
  BY DEF TypeOK, NodeState, Request
<1>2. t \in 1 .. state.current_term /\ leader_of[t] = q.dest /\ Exists(q)
  BY Zenon DEF RequestInv
<1>3. t \in 1 .. MaxTerm /\ t \in 1 .. state'.current_term
  BY <1>1, <1>2, BoundsAssumption DEF Term
<1>4. q.dest # Nil
  BY <1>1, NilAssumption DEF Node
<1>5. leader_of'[t] = q.dest
  BY Zenon, <1>2, <1>3, <1>4 DEF LeadersStep
<1>6. Exists(q)'
  BY Zenon, <1>2, ExistsKept
<1>7. ASSUME t = state'.current_term, q.dest \in Peers, In(q, t)'
      PROVE  /\ UpTo(state'.log, leader_log'[t], f)
             /\ UpTo(disk_log', leader_log'[t], f)
  <2>1. state'.current_term = state.current_term /\ state'.log = state.log /\ disk_log' = disk_log
    BY Zenon, <1>7
  <2>2. In(q, t)
    BY Zenon, <1>2, <1>3, <1>4, <1>7, InBefore
  <2>3. UpTo(state.log, leader_log[t], f) /\ UpTo(disk_log, leader_log[t], f)
    BY Zenon, <1>7, <2>1, <2>2 DEF RequestInv
  <2>4. /\ leader_log[t] \in Seq(Entry) /\ leader_log'[t] \in Seq(Entry)
        /\ f <= Len(leader_log[t])
    BY <1>3, <2>2 DEF TypeOK, In
  <2>5. Agree(leader_log'[t], leader_log[t], Len(leader_log[t]))
    BY Zenon, <1>3 DEF LeadersStep, Grown
  <2> QED
    BY Zenon, <1>1, <2>1, <2>3, <2>4, <2>5, UpToGrows
<1> QED
  BY Zenon, <1>3, <1>5, <1>6, <1>7 DEF RequestInv

\* c and d have the same entries at these indices.
SameAt(c, d, I) == \A i \in I : c[i] = d[i]

\* Voter sets and what notifications go through depend on the entries at the
\* indices alone.
LEMMA LatestSame ==
    ASSUME NEW c \in Seq(Entry), NEW d \in Seq(Entry), NEW I \in SUBSET Nat, SameAt(c, d, I),
           NEW before \in Nat \cup {Nil}
    PROVE  LatestVoters(c, I, before) = LatestVoters(d, I, before)
<1>1. OfType(c, "VotersRecord", I) = OfType(d, "VotersRecord", I)
  BY Zenon DEF OfType, SameAt
<1> QED
  BY Zenon, <1>1 DEF LatestVoters

LEMMA WentThroughSame ==
    ASSUME NEW c, NEW d, NEW from \in Nat, NEW to \in Nat, SameAt(c, d, from .. to)
    PROVE  WentThrough(c, from, to) = WentThrough(d, from, to)
<1>1. \A k \in 1 .. to - from + 1 : from + k - 1 \in from .. to
  OBVIOUS
<1>2. \A k \in 1 .. to - from + 1 : c[from + k - 1] = d[from + k - 1]
  BY Zenon, <1>1 DEF SameAt
<1> QED
  BY Zenon, <1>2 DEF WentThrough

\* What a node has of a committed log it has of a longer one.
LEMMA HasGrows ==
    ASSUME NEW s \in NodeState, NEW c \in Seq(Entry), NEW d \in Seq(Entry),
           Agree(d, c, Len(c)), Has(s, c)
    PROVE  /\ Has(s, d)
           /\ WentThrough(d, 1, s.high_watermark) = WentThrough(c, 1, s.high_watermark)
<1> DEFINE h == s.high_watermark
<1>1. /\ h \in Nat /\ s.log \in Seq(Entry) /\ Agree(s.log, c, h)
      /\ LatestVoters(c, 1 .. h, Nil) \in {Nil, s.voter_set}
  BY DEF NodeState, Has
<1>2. h <= Len(c) /\ Len(c) \in Nat
  BY <1>1 DEF Agree
<1>3. Agree(c, d, h) /\ Agree(d, c, h)
  BY Zenon, <1>1, <1>2, AgreeLess
<1>4. Agree(s.log, d, h)
  BY Zenon, <1>1, <1>3, AgreeTrans
<1>5. \A i \in 1 .. h : d[i] = c[i]
  BY Zenon, <1>3 DEF Agree
<1>9. SameAt(d, c, 1 .. h)
  BY Zenon, <1>5 DEF SameAt
<1>6. LatestVoters(d, 1 .. h, Nil) = LatestVoters(c, 1 .. h, Nil)
  <2>1. 1 .. h \in SUBSET Nat /\ Nil \in Nat \cup {Nil}
    OBVIOUS
  <2> QED
    BY Zenon, <1>9, <2>1, LatestSame
<1>7. WentThrough(d, 1, h) = WentThrough(c, 1, h)
  <2>1. 1 \in Nat
    OBVIOUS
  <2> QED
    BY Zenon, <1>1, <1>9, <2>1, WentThroughSame
<1>8. ASSUME NEW t \in Term, NEW o \in Nat
      PROVE  s.leader_epoch_checkpoint[t] = o <=> o < h /\ d[o + 1] = Lcm(t)
  <2>1. s.leader_epoch_checkpoint[t] = o <=> o < h /\ c[o + 1] = Lcm(t)
    BY Zenon DEF Has
  <2>2. o < h => o + 1 \in 1 .. h
    BY <1>1
  <2> QED
    BY Zenon, <1>5, <2>1, <2>2
<1> QED
  BY Zenon, <1>1, <1>4, <1>6, <1>7, <1>8 DEF Has

LEMMA CompletionsKept ==
    ASSUME TypeOK, TypeOK', Agree(committed', committed, Len(committed)), CompletionsAreTrue,
           completed' = completed
    PROVE  CompletionsAreTrue'
<1>1. committed \in Seq(Entry) /\ committed' \in Seq(Entry)
  BY DEF TypeOK
<1>2. ASSUME NEW c \in completed
      PROVE  c.offset < Len(committed') /\ committed'[c.offset + 1] = c.entry
  <2>1. c.offset < Len(committed) /\ committed[c.offset + 1] = c.entry
    BY Zenon DEF CompletionsAreTrue
  <2>2. c.offset \in Nat
    BY DEF TypeOK, Record
  <2>3. c.offset + 1 \in 1 .. Len(committed) /\ Len(committed) <= Len(committed')
    BY <1>1, <2>1, <2>2 DEF Agree
  <2>4. committed'[c.offset + 1] = committed[c.offset + 1]
    BY Zenon, <2>3 DEF Agree
  <2>5. c.offset < Len(committed')
    BY <1>1, <2>1, <2>2, <2>3
  <2> QED
    BY Zenon, <2>1, <2>4, <2>5
<1> QED
  BY Zenon, <1>2 DEF CompletionsAreTrue

\* The node does not change but for its term, role, vote and leader.
LEMMA AppKept ==
    ASSUME TypeOK, TypeOK', AppInv, Agree(committed', committed, Len(committed)),
           state'.high_watermark = state.high_watermark,
           state'.leader_epoch_checkpoint = state.leader_epoch_checkpoint,
           state'.voter_set = state.voter_set,
           state'.log \in {state.log} \/ Agree(state'.log, state.log, state.high_watermark),
           state'.role # "Down" => state.role # "Down",
           applied' = applied, completed' = completed
    PROVE  AppInv'
<1>1. /\ state \in NodeState /\ committed \in Seq(Entry) /\ committed' \in Seq(Entry)
      /\ Has(state, committed)
  BY DEF TypeOK, AppInv
<1>2. /\ Has(state, committed')
      /\ WentThrough(committed', 1, state.high_watermark)
           = WentThrough(committed, 1, state.high_watermark)
  BY Zenon, <1>1, HasGrows
<1>3. /\ state.log \in Seq(Entry) /\ state'.log \in Seq(Entry) /\ state.high_watermark \in Nat
  BY DEF TypeOK, NodeState
<1>4. Agree(state.log, committed', state.high_watermark)
  BY Zenon, <1>2 DEF Has
<1>5. Agree(state'.log, committed', state.high_watermark)
  <2>1. CASE state'.log = state.log
    BY Zenon, <1>4, <2>1
  <2>2. CASE Agree(state'.log, state.log, state.high_watermark)
    BY Zenon, <1>1, <1>3, <1>4, <2>2, AgreeTrans
  <2> QED
    BY <2>1, <2>2
<1>6. Has(state', committed')
  BY Zenon, <1>2, <1>5 DEF Has
<1>7. CompletionsAreTrue'
  BY Zenon, CompletionsKept DEF AppInv
<1>8. state'.role # "Down" => applied' = WentThrough(committed', 1, state'.high_watermark)
  BY Zenon, <1>2 DEF AppInv
<1> QED
  BY Zenon, <1>6, <1>7, <1>8 DEF AppInv

LEMMA TermsKept ==
    ASSUME TypeOK, LeadersStep, TermsInv, state'.current_term = state.current_term,
           state'.leader_id = state.leader_id, quorum_state' = quorum_state, storage' = storage
    PROVE  TermsInv'
<1>1. OfTerm(QuorumState(state))'
  BY OfTermKept DEF TermsInv, OfTerm, QuorumState
<1>2. OfTerm(quorum_state)'
  BY Zenon, OfTermKept DEF TermsInv
<1>3. \A i \in 1 .. Len(storage) :
        storage[i].op = "PersistQuorumState" => OfTerm(storage[i].quorum)'
  BY Zenon, OfTermKept DEF TermsInv
<1> QED
  BY Zenon, <1>1, <1>2, <1>3 DEF TermsInv

\* The logs of the node stay as they are.
LEMMA NodeKept ==
    ASSUME TypeOK, TypeOK', requests \subseteq Request, requests' = requests, NodeInv, LeadersStep,
           state'.log = state.log, disk_log' = disk_log,
           state.current_term <= state'.current_term, LeadInv', TermsInv'
    PROVE  NodeInv'
<1>1. /\ leader_log \in LogsType /\ leader_log' \in LogsType
      /\ state.log \in Seq(Entry) /\ disk_log \in Seq(Entry)
      /\ state.current_term \in Term /\ state'.current_term \in Term
  BY DEF TypeOK, LogsType, NodeState
<1>2. Rooted(state.log, leader_log') /\ Rooted(disk_log, leader_log')
  BY Zenon, <1>1, RootedGrows DEF NodeInv, LeadersStep
<1>3. ASSUME NEW q \in requests
      PROVE  RequestInv(q)'
  <2>1. q \in Request /\ RequestInv(q)
    BY Zenon DEF NodeInv
  <2>2. q.leader_epoch \in 1 .. state.current_term
    BY Zenon, <2>1 DEF RequestInv
  <2>3. q.leader_epoch = state'.current_term => state'.current_term = state.current_term
    BY <1>1, <2>2 DEF Term
  <2> QED
    BY Zenon, <2>1, <2>3, RequestKept
<1> QED
  BY Zenon, <1>2, <1>3 DEF NodeInv

-----------------------------------------------------------------------------
(* The steps of the others. *)

LEMMA PrefixAgrees ==
    ASSUME NEW c \in Seq(Entry), NEW l \in Seq(Entry), IsPrefix(c, l)
    PROVE  Agree(l, c, Len(c))
<1>1. Len(c) \in Nat /\ Len(l) \in Nat
  OBVIOUS
<1>2. Len(c) <= Len(l) /\ c = SubSeq(l, 1, Len(c))
  BY DEF IsPrefix, Prefix
<1>3. \A i \in 1 .. Len(c) : SubSeq(l, 1, Len(c))[i] = l[i]
  BY <1>1, <1>2
<1>4. \A i \in 1 .. Len(c) : l[i] = c[i]
  BY Zenon, <1>2, <1>3
<1>5. Len(c) <= Len(c)
  BY <1>1
<1> QED
  BY Zenon, <1>1, <1>2, <1>4, <1>5 DEF Agree

LEMMA ElectableFacts ==
    ASSUME TypeOK, LeadersInv, NEW l \in ElectableLogs, IsPrefix(committed, l)
    PROVE  /\ l \in Seq(Entry)
           /\ Rooted(l, leader_log)
           /\ Agree(l, committed, Len(committed))
<1>1. PICK u \in 1 .. MaxTerm : \E k \in 0 .. Len(leader_log[u]) : l = Prefix(leader_log[u], k)
  BY DEF ElectableLogs
<1>2. PICK k \in 0 .. Len(leader_log[u]) : l = Prefix(leader_log[u], k)
  BY <1>1
<1>3. /\ leader_log \in LogsType /\ leader_log[u] \in Seq(Entry)
      /\ Rooted(leader_log[u], leader_log)
  BY Zenon, LeaderFacts
<1>4. l \in Seq(Entry) /\ Len(l) = k /\ Agree(l, leader_log[u], Len(l))
  BY Zenon, <1>2, <1>3, PrefixFacts
<1>5. Rooted(l, leader_log)
  BY Zenon, <1>3, <1>4, RootedPart
<1>6. Agree(l, committed, Len(committed))
  BY <1>4, PrefixAgrees DEF TypeOK
<1> QED
  BY <1>4, <1>5, <1>6

\* A step of a peer that keeps the leaders' invariant.
LEMMA OthersStep ==
    ASSUME LocalInv, LocalInv', SafeInv, LeadersStep, LeadersInv',
           state' = state, storage' = storage, quorum_state' = quorum_state,
           disk_log' = disk_log, applied' = applied, completed' = completed, requests' = requests,
           state.role = "Leader" => leader_log'[state.current_term] = leader_log[state.current_term]
    PROVE  SafeInv'
<1>1. /\ TypeOK /\ TypeOK' /\ requests \subseteq Request /\ NodeInv /\ AppInv
      /\ TermsInv /\ LeadInv
  BY Zenon DEF LocalInv, SafeInv, NodeInv
<1>2. TermsInv'
  BY Zenon, <1>1, TermsKept
<1>3. state.current_term \in Term
  BY <1>1 DEF TypeOK, NodeState
<1>4. LeadInv'
  <2>1. ASSUME state.role = "Leader"
        PROVE  leader_of'[state.current_term] = Self
    <3>1. /\ state.current_term > 0 /\ leader_of[state.current_term] = Self
      BY Zenon, <1>1, <2>1 DEF LeadInv
    <3>2. state.current_term \in 1 .. MaxTerm
      BY <1>3, <3>1 DEF Term
    <3>3. Self # Nil
      BY NilAssumption
    <3> QED
      BY Zenon, <3>1, <3>2, <3>3 DEF LeadersStep
  <2> QED
    BY Zenon, <1>1, <2>1 DEF LeadInv
<1>5. NodeInv'
  <2>1. state.current_term <= state'.current_term
    BY <1>3 DEF Term
  <2> QED
    BY Zenon, <1>1, <1>2, <1>4, <2>1, NodeKept
<1>6. AppInv'
  <2>1. state'.log \in {state.log}
    OBVIOUS
  <2> QED
    BY Zenon, <1>1, <2>1, AppKept DEF LeadersStep
<1> QED
  BY Zenon, <1>5, <1>6 DEF SafeInv

LEMMA SafePeers ==
    ASSUME LocalInv, LocalInv', SafeInv,
           \/ \E p \in Peers, t \in 1 .. MaxTerm : PeerElected(p, t)
           \/ \E t \in 1 .. MaxTerm, type \in Proposals : PeerAppends(t, type)
           \/ \E k \in 1 .. MaxLog : Commit(k)
    PROVE  SafeInv'
<1>1. /\ state' = state /\ storage' = storage /\ quorum_state' = quorum_state
      /\ disk_log' = disk_log /\ applied' = applied /\ completed' = completed
      /\ requests' = requests
  BY Zenon DEF PeerElected, PeerAppends, Commit, disk, app
<1>2. TypeOK /\ TypeOK' /\ LeadersInv /\ LeadInv
  BY Zenon DEF LocalInv, SafeInv, NodeInv
<1>3. /\ leader_log \in [1 .. MaxTerm -> Seq(Entry)] /\ committed \in Seq(Entry)
      /\ state.current_term \in Term
  BY <1>2 DEF TypeOK, NodeState
<1>4. state.role = "Leader" => /\ state.current_term \in 1 .. MaxTerm
                               /\ leader_of[state.current_term] = Self
  BY <1>2, <1>3 DEF LeadInv, Term
<1>5. ASSUME NEW p \in Peers, NEW t \in 1 .. MaxTerm, PeerElected(p, t)
      PROVE  SafeInv'
  <2>1. PICK l \in ElectableLogs : /\ IsPrefix(committed, l)
                                   /\ leader_log' = [leader_log EXCEPT ![t] = Append(l, Lcm(t))]
    BY Zenon, <1>5 DEF PeerElected
  <2>2. /\ l \in Seq(Entry) /\ Rooted(l, leader_log) /\ Agree(l, committed, Len(committed))
    BY Zenon, <1>2, <2>1, ElectableFacts
  <2>3. /\ t > LastLed /\ leader_of' = [leader_of EXCEPT ![t] = p]
        /\ leader_hw' = [leader_hw EXCEPT ![t] = Len(committed)] /\ committed' = committed
        /\ ~(state.current_term = t /\ state.role = "Leader")
    BY <1>5 DEF PeerElected
  <2>4. p \in Node /\ Len(committed) \in 0 .. Len(committed)
    BY <1>3 DEF Node
  <2>5. LeadersStep /\ LeadersInv'
    BY Zenon, <1>2, <2>1, <2>2, <2>3, <2>4, Elects
  <2>6. state.role = "Leader" =>
          leader_log'[state.current_term] = leader_log[state.current_term]
    BY <1>3, <1>4, <2>1, <2>3
  <2> QED
    BY Zenon, <1>1, <2>5, <2>6, OthersStep
<1>6. ASSUME NEW t \in 1 .. MaxTerm, NEW type \in Proposals, PeerAppends(t, type)
      PROVE  SafeInv'
  <2>1. PICK e : e = [term |-> t, entry_type |-> type]
    BY Zenon
  <2>2. e \in Entry /\ e.term = t /\ e.entry_type # "LeaderChangeMessage"
    BY <2>1, ProposalsAssumption, BoundsAssumption DEF Entry, EntryType, Term
  <2>3. /\ leader_of[t] \in Peers /\ leader_of' = leader_of /\ leader_hw' = leader_hw
        /\ committed' = committed
        /\ leader_log' = [leader_log EXCEPT ![t] = Append(leader_log[t], e)]
    BY <1>6, <2>1 DEF PeerAppends
  <2>4. leader_of[t] # Nil /\ leader_of[t] # Self
    BY <2>3, NilAssumption, SelfAssumption
  <2>5. LeadersStep /\ LeadersInv'
    BY Zenon, <1>2, <2>2, <2>3, <2>4, Grows
  <2>6. state.role = "Leader" =>
          leader_log'[state.current_term] = leader_log[state.current_term]
    BY <1>3, <1>4, <2>3, <2>4
  <2> QED
    BY Zenon, <1>1, <2>5, <2>6, OthersStep
<1>7. ASSUME NEW k \in 1 .. MaxLog, Commit(k)
      PROVE  SafeInv'
  <2>1. LeadersStep /\ LeadersInv'
    BY Zenon, <1>2, <1>7, Commits
  <2>2. leader_log' = leader_log
    BY <1>7 DEF Commit
  <2> QED
    BY Zenon, <1>1, <2>1, <2>2, OthersStep
<1> QED
  BY <1>5, <1>6, <1>7

-----------------------------------------------------------------------------
(* The node in other roles. *)

\* It is no leader and in this term or a later one; the quorum state is saved.
LEMMA SafeSaved ==
    ASSUME LocalInv, LocalInv', SafeInv, Idle, NEW s \in NodeState, SameLog(s, state), Saved(s),
           s.role # "Leader", state.current_term <= s.current_term,
           s.leader_id # Nil => s.current_term > 0 /\ s.leader_id = leader_of[s.current_term]
    PROVE  SafeInv'
<1>1. /\ state' = s /\ storage' = storage /\ quorum_state' = QuorumState(s)
      /\ disk_log' = disk_log /\ applied' = applied /\ completed' = completed
      /\ requests' = requests /\ UNCHANGED leaders /\ leader_of' = leader_of
      /\ committed' = committed
  BY DEF Saved, app, leaders
<1>2. /\ TypeOK /\ TypeOK' /\ requests \subseteq Request /\ LeadersInv /\ NodeInv /\ AppInv
  BY Zenon DEF LocalInv, SafeInv
<1>3. storage = <<>> /\ state.role # "Down"
  BY DEF Idle
<1>4. LeadersStep /\ LeadersInv'
  BY Zenon, <1>1, <1>2, LeadersSame
<1>5. LeadInv'
  BY <1>1 DEF LeadInv
<1>6. TermsInv'
  <2>1. OfTerm(QuorumState(s))'
    BY <1>1 DEF OfTerm, QuorumState
  <2>2. \A i \in 1 .. Len(storage') : FALSE
    BY <1>1, <1>3
  <2> QED
    BY Zenon, <1>1, <2>1, <2>2 DEF TermsInv
<1>7. NodeInv'
  BY Zenon, <1>1, <1>2, <1>4, <1>5, <1>6, NodeKept DEF SameLog
<1>8. AppInv'
  <2>1. state'.log \in {state.log}
    BY <1>1 DEF SameLog
  <2>2. Agree(committed', committed, Len(committed))
    BY Zenon, <1>4 DEF LeadersStep
  <2> QED
    BY Zenon, <1>1, <1>2, <1>3, <2>1, <2>2, AppKept DEF SameLog
<1> QED
  BY Zenon, <1>4, <1>7, <1>8 DEF SafeInv

\* It leads, and appends an entry.
LEMMA SafeLeads ==
    ASSUME LocalInv, LocalInv', SafeInv, Idle, LeadersStep, LeadersInv',
           NEW s \in NodeState, NEW e \in Entry, Leads(s, e), s.role = "Leader",
           s.log = state.log, s.current_term = state.current_term, s.current_term > 0,
           s.high_watermark = state.high_watermark, s.voter_set = state.voter_set,
           s.leader_epoch_checkpoint = state.leader_epoch_checkpoint,
           s.leader_id \in {Nil, Self}, e.term = s.current_term,
           leader_of[s.current_term] \in {Nil, Self}, leader_of'[s.current_term] = Self
    PROVE  SafeInv'
<1> DEFINE t == state.current_term
<1>1. /\ TypeOK /\ TypeOK' /\ requests \subseteq Request /\ LeadersInv /\ NodeInv /\ AppInv
      /\ Tidy(state, queue)
  BY Zenon DEF LocalInv, SafeInv
<1>2. /\ storage = <<>> /\ state.role # "Down" /\ state.log = disk_log
  BY Zenon, IdleFacts
<1>3. /\ disk_log' = Append(disk_log, e) /\ quorum_state' = QuorumState(s)
      /\ leader_log' = [leader_log EXCEPT ![t] = Append(s.log, e)]
      /\ committed' = committed /\ storage' = storage /\ applied' = applied
      /\ completed' = completed /\ requests' = requests
  BY DEF Leads, app
<1>4. /\ state'.log = Append(s.log, e) /\ state'.role = s.role
      /\ state'.current_term = s.current_term /\ state'.leader_id = s.leader_id
      /\ state'.high_watermark = s.high_watermark /\ state'.voter_set = s.voter_set
      /\ state'.leader_epoch_checkpoint = s.leader_epoch_checkpoint
  <2>1. state' = [s EXCEPT !.log = Append(@, e)]
    BY DEF Leads
  <2> QED
    BY <2>1 DEF NodeState
<1>5. /\ t \in 1 .. MaxTerm /\ state.log \in Seq(Entry) /\ state.high_watermark \in Nat
      /\ state'.log \in Seq(Entry)
      /\ leader_log \in LogsType /\ leader_log' \in LogsType
  <2>1. state \in NodeState /\ state' \in NodeState
    BY Zenon, <1>1 DEF TypeOK
  <2>2. leader_log \in LogsType /\ leader_log' \in LogsType
    BY Zenon, <1>1 DEF TypeOK, LogsType
  <2>3. /\ t \in 1 .. MaxTerm /\ state.log \in Seq(Entry) /\ state.high_watermark \in Nat
        /\ state'.log \in Seq(Entry)
    BY <2>1 DEF NodeState, Term
  <2> QED
    BY <2>2, <2>3
<1>6. leader_log'[t] = Append(state.log, e)
  BY <1>3, <1>5 DEF LogsType
<1>7. Rooted(state'.log, leader_log') /\ Rooted(disk_log', leader_log')
  <2>1. Rooted(state.log, leader_log')
    BY Zenon, <1>1, <1>5, RootedGrows DEF NodeInv, LeadersStep
  <2>2. Rooted(Append(state.log, e), leader_log')
    BY Zenon, <1>5, <1>6, <2>1, RootedAppend
  <2> QED
    BY Zenon, <1>2, <1>3, <1>4, <2>2
<1>8. LeadInv'
  BY Zenon, <1>4, <1>6 DEF LeadInv
<1>9. TermsInv'
  <2>1. OfTerm(QuorumState(s))' /\ OfTerm(QuorumState(state))'
    BY <1>4 DEF OfTerm, QuorumState
  <2>2. \A i \in 1 .. Len(storage') : FALSE
    BY <1>2, <1>3
  <2> QED
    BY Zenon, <1>3, <2>1, <2>2 DEF TermsInv
<1>10. ASSUME NEW q \in requests
       PROVE  RequestInv(q)'
  <2>1. q \in Request /\ RequestInv(q)
    BY Zenon, <1>1 DEF NodeInv
  <2>2. leader_of[q.leader_epoch] = q.dest
    BY Zenon, <2>1 DEF RequestInv
  <2>3. ~(q.leader_epoch = state'.current_term /\ q.dest \in Peers)
    BY <1>4, <2>2, NilAssumption, SelfAssumption
  <2>4. state.current_term <= state'.current_term
    BY <1>4, <1>5
  <2>5. q.leader_epoch = state'.current_term /\ q.dest \in Peers =>
          /\ state'.current_term = state.current_term
          /\ state'.log = state.log /\ disk_log' = disk_log
    BY Zenon, <2>3
  <2> QED
    BY Zenon, <1>1, <2>1, <2>4, <2>5, RequestKept
<1>11. NodeInv'
  BY Zenon, <1>3, <1>7, <1>8, <1>9, <1>10 DEF NodeInv
<1>12. AppInv'
  <2>1. Agree(state'.log, state.log, Len(state.log)) /\ Len(state.log) \in Nat
    <3>1. Agree(Append(state.log, e), state.log, Len(state.log)) /\ Len(state.log) \in Nat
      BY Zenon, <1>5, AppendFacts
    <3>2. state'.log = Append(state.log, e)
      BY Zenon, <1>4
    <3> QED
      BY Zenon, <3>1, <3>2
  <2>2. state.high_watermark <= Len(state.log)
    BY Zenon, <1>1 DEF Tidy
  <2>3. Agree(state'.log, state.log, state.high_watermark)
    BY Zenon, <1>5, <2>1, <2>2, AgreeLess
  <2> QED
    BY Zenon, <1>1, <1>2, <1>3, <1>4, <2>3, AppKept DEF LeadersStep
<1> QED
  BY Zenon, <1>11, <1>12 DEF SafeInv

LEMMA SafeStepsDown ==
    ASSUME LocalInv, LocalInv', SafeInv, NEW t \in 1 .. MaxTerm, NEW vote \in Peers \cup {Nil},
           NEW leader \in {Nil, leader_of[t]}, StepsDown(t, vote, leader)
    PROVE  SafeInv'
<1>1. PICK s : s = [state EXCEPT !.role = "Follower", !.current_term = t, !.voted_for = vote,
                                 !.leader_id = leader]
  OBVIOUS
<1>2. Idle /\ t > state.current_term /\ Saved(s)
  BY <1>1 DEF StepsDown
<1>3. state \in NodeState /\ leader \in Node \cup {Nil}
  <2>1. state \in NodeState /\ leader_of[t] \in Node \cup {Nil}
    BY Zenon DEF LocalInv, TypeOK
  <2> QED
    BY <2>1
<1>4. /\ s \in NodeState /\ SameLog(s, state) /\ s.role = "Follower" /\ s.current_term = t
      /\ s.leader_id = leader
  <2>1. t \in Term /\ vote \in Node \cup {Nil}
    BY BoundsAssumption DEF Term, Node
  <2> QED
    BY Zenon, <1>1, <1>3, <2>1 DEF NodeState, SameLog
<1>5. /\ s.role # "Leader" /\ state.current_term <= s.current_term
      /\ s.leader_id # Nil => s.current_term > 0 /\ s.leader_id = leader_of[s.current_term]
  <2>1. state.current_term \in Int
    BY <1>3 DEF NodeState, Term
  <2> QED
    BY <1>2, <1>4, <2>1
<1> QED
  BY Zenon, <1>2, <1>4, <1>5, SafeSaved

LEMMA SafeCampaigns ==
    ASSUME LocalInv, LocalInv', SafeInv, Campaigns
    PROVE  SafeInv'
<1>1. PICK s : s = [state EXCEPT !.role = "Candidate", !.current_term = @ + 1,
                                 !.voted_for = Self, !.leader_id = Nil]
  OBVIOUS
<1>2. Idle /\ state.current_term < MaxTerm /\ Saved(s)
  BY <1>1 DEF Campaigns
<1>3. state \in NodeState
  BY DEF LocalInv, TypeOK
<1>4. /\ s \in NodeState /\ SameLog(s, state) /\ s.role = "Candidate"
      /\ s.current_term = state.current_term + 1 /\ s.leader_id = Nil
  BY Zenon, <1>1, <1>2, <1>3, Campaigned
<1>5. /\ s.role # "Leader" /\ state.current_term <= s.current_term
      /\ s.leader_id # Nil => s.current_term > 0 /\ s.leader_id = leader_of[s.current_term]
  <2>1. state.current_term \in Int
    BY <1>3 DEF NodeState, Term
  <2> QED
    BY <1>4, <2>1
<1> QED
  BY Zenon, <1>2, <1>4, <1>5, SafeSaved

LEMMA SafeElected ==
    ASSUME LocalInv, LocalInv', SafeInv, Elected
    PROVE  SafeInv'
<1> DEFINE t == state.current_term
           e == Lcm(t)
<1>1. PICK s : s = [state EXCEPT !.role = "Leader", !.leader_id = Self]
  OBVIOUS
<1>2. /\ Idle /\ t > LastLed /\ IsPrefix(committed, state.log) /\ Leads(s, e)
      /\ leader_of' = [leader_of EXCEPT ![t] = Self]
  BY <1>1 DEF Elected
<1>3. /\ TypeOK /\ TypeOK' /\ LeadersInv /\ Rooted(state.log, leader_log)
  BY Zenon DEF LocalInv, SafeInv, NodeInv
<1>4. /\ state \in NodeState /\ state.log \in Seq(Entry) /\ committed \in Seq(Entry)
      /\ leader_hw \in [1 .. MaxTerm -> Nat] /\ leader_of \in [1 .. MaxTerm -> Node \cup {Nil}]
      /\ t \in Term
  BY <1>3 DEF TypeOK, NodeState
<1>5. t \in 1 .. MaxTerm
  BY <1>2, <1>4, LastLedFacts DEF Term
<1>6. /\ s \in NodeState /\ s.role = "Leader" /\ s.log = state.log /\ s.current_term = t
      /\ s.high_watermark = state.high_watermark /\ s.voter_set = state.voter_set
      /\ s.leader_epoch_checkpoint = state.leader_epoch_checkpoint /\ s.leader_id = Self
  BY Zenon, <1>1, <1>4 DEF NodeState, Node
<1>7. /\ leader_log' = [leader_log EXCEPT ![t] = Append(state.log, e)]
      /\ leader_hw' = leader_hw /\ committed' = committed
  BY <1>2, <1>6 DEF Leads
<1>8. Agree(state.log, committed, Len(committed))
  BY Zenon, <1>2, <1>4, PrefixAgrees
<1>9. leader_hw[t] \in 0 .. Len(committed)
  <2>1. Agree(leader_log[t], committed, leader_hw[t]) /\ leader_hw[t] \in Nat
    BY Zenon, <1>3, <1>5, LeaderFacts
  <2> QED
    BY <1>4, <2>1 DEF Agree
<1>10. leader_hw' = [leader_hw EXCEPT ![t] = leader_hw[t]]
  BY <1>4, <1>5, <1>7
<1>11. Self \in Node /\ e \in Entry /\ e.term = t
  BY <1>4 DEF Node, Lcm, Entry, EntryType
<1>12. LeadersStep /\ LeadersInv' /\ leader_of[t] = Nil
  BY Zenon, <1>2, <1>3, <1>4, <1>5, <1>7, <1>8, <1>9, <1>10, <1>11, Elects
<1>13. leader_of'[t] = Self /\ t > 0
  BY <1>2, <1>4, <1>5
<1>14. s.leader_id \in {Nil, Self} /\ leader_of[t] \in {Nil, Self}
  BY <1>6, <1>12
<1> HIDE DEF e
<1> QED
  BY Zenon, <1>2, <1>6, <1>11, <1>12, <1>13, <1>14, SafeLeads

\* A leader appends an entry that is proposed to it.
LEMMA SafeAppends ==
    ASSUME LocalInv, LocalInv', SafeInv, Idle, state.role = "Leader",
           NEW s \in NodeState, NEW e \in Entry, Leads(s, e), s.role = "Leader",
           s.log = state.log, s.current_term = state.current_term,
           s.high_watermark = state.high_watermark, s.voter_set = state.voter_set,
           s.leader_epoch_checkpoint = state.leader_epoch_checkpoint,
           s.leader_id = state.leader_id, e.term = s.current_term,
           e.entry_type # "LeaderChangeMessage", leader_of' = leader_of
    PROVE  SafeInv'
<1> DEFINE t == state.current_term
<1>1. /\ TypeOK /\ TypeOK' /\ LeadersInv /\ LeadInv /\ OfTerm(QuorumState(state))
  BY Zenon DEF LocalInv, SafeInv, NodeInv, TermsInv
<1>2. t > 0 /\ leader_of[t] = Self /\ state.log = leader_log[t]
  BY Zenon, <1>1 DEF LeadInv
<1>3. t \in 1 .. MaxTerm
  BY <1>1, <1>2 DEF TypeOK, NodeState, Term
<1>4. /\ leader_log' = [leader_log EXCEPT ![t] = Append(leader_log[t], e)]
      /\ leader_hw' = leader_hw /\ committed' = committed
  BY <1>2 DEF Leads
<1>5. leader_of[t] # Nil
  BY <1>2, NilAssumption
<1>6. LeadersStep /\ LeadersInv'
  BY Zenon, <1>1, <1>3, <1>4, <1>5, Grows
<1>7. s.leader_id \in {Nil, Self}
  BY <1>1, <1>2 DEF OfTerm, QuorumState
<1>8. s.current_term > 0 /\ leader_of[s.current_term] \in {Nil, Self}
      /\ leader_of'[s.current_term] = Self
  BY <1>2
<1> QED
  BY Zenon, <1>6, <1>7, <1>8, SafeLeads

LEMMA SafePropose ==
    ASSUME LocalInv, LocalInv', SafeInv, Propose \/ ProposeChange
    PROVE  SafeInv'
<1> DEFINE t == state.current_term
<1>1. state \in NodeState /\ t \in Term /\ Idle /\ state.role = "Leader" /\ leader_of' = leader_of
  BY DEF LocalInv, TypeOK, NodeState, Propose, ProposeChange
<1>2. CASE Propose
  <2>1. PICK e : e = [term |-> t, entry_type |-> "Command"]
    BY Zenon
  <2>2. e \in Entry /\ e.term = t /\ e.entry_type # "LeaderChangeMessage"
    BY <1>1, <2>1 DEF Entry, EntryType
  <2>3. Leads(state, e)
    BY <1>2, <2>1 DEF Propose
  <2> QED
    BY Zenon, <1>1, <2>2, <2>3, SafeAppends
<1>3. CASE ProposeChange
  <2>1. PICK e : e = [term |-> t, entry_type |-> "VotersRecord"]
    BY Zenon
  <2>2. e \in Entry /\ e.term = t /\ e.entry_type # "LeaderChangeMessage"
    BY <1>1, <2>1 DEF Entry, EntryType
  <2>3. PICK s : s = [state EXCEPT !.pending_membership_change = Len(state.log)]
    BY Zenon
  <2>4. Leads(s, e)
    BY <1>3, <2>1, <2>3 DEF ProposeChange
  <2>5. /\ s \in NodeState /\ s.role = state.role
        /\ s.log = state.log /\ s.current_term = state.current_term
        /\ s.high_watermark = state.high_watermark /\ s.voter_set = state.voter_set
        /\ s.leader_epoch_checkpoint = state.leader_epoch_checkpoint
        /\ s.leader_id = state.leader_id
    BY <1>1, <2>3 DEF NodeState
  <2> QED
    BY Zenon, <1>1, <2>2, <2>4, <2>5, SafeAppends
<1> QED
  BY <1>2, <1>3
=============================================================================
