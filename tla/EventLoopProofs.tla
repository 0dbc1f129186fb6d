-------------------------- MODULE EventLoopProofs ---------------------------
(***************************************************************************)
(* What the event loop keeps, for every cluster and every bound: a batch   *)
(* brings the stores up to memory by saves that never go back, and terms   *)
(* come from candidacies only.  A batch that is done leaves the stores as  *)
(* memory was, and, when no loop ends with a batch under way, the event    *)
(* loops implement Election.                                               *)
(***************************************************************************)
EXTENDS EventLoop, TLAPS

USE SMTT(30), SMTT(31), Zenon, SMTT(32), SMTT(33)

-----------------------------------------------------------------------------
(* The inductive invariant. *)

\* The part of NodeState s that PersistQuorumState saves.
Quorum(s) ==
    [current_term |-> s.current_term, voted_for |-> s.voted_for, leader_id |-> s.leader_id]

Save(q) == [op |-> "PersistQuorumState", quorum |-> q]

\* Saving r over q takes back neither a term nor a vote.
Advances(q, r) ==
    /\ r.current_term >= q.current_term
    /\ (r.current_term = q.current_term /\ q.voted_for # Nil) => r.voted_for = q.voted_for

\* What is left of a batch, w, brings a store that holds q and a log store of
\* len entries up to s: at most two saves, and then at most one entry.
ReachesBy(q, len, w, s, t, r) ==
    \/ /\ q = Quorum(s)
       /\ \/ w = <<>> /\ s.log_end_offset = len
          \/ w = <<AppendLog(len, t)>> /\ s.log_end_offset = len + 1
    \/ /\ Advances(q, Quorum(s))
       /\ \/ w = <<Save(Quorum(s))>> /\ s.log_end_offset = len
          \/ w = <<Save(Quorum(s)), AppendLog(len, t)>> /\ s.log_end_offset = len + 1
    \/ /\ Advances(q, r)
       /\ Advances(r, Quorum(s))
       /\ \/ w = <<Save(r), Save(Quorum(s))>> /\ s.log_end_offset = len
          \/ /\ w = <<Save(r), Save(Quorum(s)), AppendLog(len, t)>>
             /\ s.log_end_offset = len + 1

Reaches(q, len, w, s) ==
    \E t \in Term, r \in QuorumStates : ReachesBy(q, len, w, s, t, r)

BatchReaches ==
    \A n \in Node : Reaches(quorum_state[n], Len(log[n]), storage[n], state[n])

\* Every term up to t had a candidate.
Started(t) == \A k \in 1 .. t : \E c \in Voters : E!Ballot(c, k, c) \in ballots

\* The envelopes sent, or about to be.
Sent == msgs \cup UNION {network[n] : n \in Node}

IsPreVoteRequest(m) == m.type = "VoteRequest" /\ m.is_pre_vote

IsGrant(m) == m.type = "VoteResponse" /\ ~m.is_pre_vote /\ m.vote_granted

TermsStarted ==
    /\ \A n \in Node : Started(state[n].current_term)
    /\ \A m \in Sent : IsPreVoteRequest(m) \/ Started(m.term)

\* A loop that has ended left nothing of its batch.
DownIsIdle ==
    \A n \in Node : state[n].role = "Down" => storage[n] = <<>> /\ network[n] = {}

LoopInv == TypeOK /\ BatchReaches /\ TermsStarted /\ DownIsIdle

-----------------------------------------------------------------------------
(* Batches. *)

\* Batches of up to three actions.
LEMMA Batches ==
    ASSUME NEW a, NEW b, NEW c
    PROVE  /\ <<a>> # <<>> /\ Head(<<a>>) = a /\ Tail(<<a>>) = <<>>
           /\ <<a, b>> # <<>> /\ Head(<<a, b>>) = a /\ Tail(<<a, b>>) = <<b>>
           /\ <<a, b, c>> # <<>> /\ Head(<<a, b, c>>) = a /\ Tail(<<a, b, c>>) = <<b, c>>
           /\ <<a>> \o <<>> = <<a>> /\ <<>> \o <<a>> = <<a>> /\ <<>> \o <<>> = <<>>
OBVIOUS

LEMMA Joined ==
    ASSUME NEW a, NEW b, NEW c
    PROVE  <<a>> \o <<b>> = <<a, b>> /\ <<a>> \o <<b, c>> = <<a, b, c>>
<1> DEFINE S == {a, b, c}
           p == <<a>> \o <<b>>
           q == <<a>> \o <<b, c>>
<1>1. /\ <<a>> \in Seq(S) /\ <<b>> \in Seq(S) /\ <<b, c>> \in Seq(S)
      /\ <<a, b>> \in Seq(S) /\ <<a, b, c>> \in Seq(S)
  OBVIOUS
<1>2. p \in Seq(S) /\ Len(p) = 2 /\ p[1] = a /\ p[2] = b
  BY <1>1
<1>3. q \in Seq(S) /\ Len(q) = 3 /\ q[1] = a /\ q[2] = b /\ q[3] = c
  BY <1>1
<1> HIDE DEF S, p, q
<1>4. p = <<a, b>> /\ q = <<a, b, c>>
  BY <1>1, <1>2, <1>3
<1> QED
  BY <1>4 DEF p, q

LEMMA QuorumType ==
    ASSUME NEW s \in NodeState
    PROVE  /\ Quorum(s) \in QuorumStates
           /\ PersistQuorumState(s) = Save(Quorum(s))
           /\ Quorum(s).current_term = s.current_term
           /\ Quorum(s).voted_for = s.voted_for
           /\ Quorum(s).leader_id = s.leader_id
BY DEF NodeState, QuorumStates, Quorum, PersistQuorumState, Save

LEMMA ActionType ==
    /\ \A q \in QuorumStates : Save(q) \in StorageAction /\ Save(q).op = "PersistQuorumState"
                               /\ Save(q).quorum = q
    /\ \A len \in Nat, t \in Term : AppendLog(len, t) \in StorageAction
                               /\ AppendLog(len, t).op = "AppendLog"
                               /\ AppendLog(len, t).offset = len /\ AppendLog(len, t).term = t
BY DEF Save, AppendLog, StorageAction

LEMMA AdvancesOrder ==
    ASSUME NEW p \in QuorumStates, NEW q \in QuorumStates, NEW r \in QuorumStates
    PROVE  /\ Advances(p, p)
           /\ Advances(p, q) /\ Advances(q, r) => Advances(p, r)
           /\ p.current_term < q.current_term => Advances(p, q)
BY MaxTermAssumption DEF Advances, QuorumStates, Term

\* A batch is made of storage actions.
LEMMA ReachesType ==
    ASSUME NEW q \in QuorumStates, NEW len \in Nat, NEW w, NEW s \in NodeState,
           Reaches(q, len, w, s)
    PROVE  w \in Seq(StorageAction) /\ Advances(q, Quorum(s))
<1>1. PICK t \in Term, r \in QuorumStates : ReachesBy(q, len, w, s, t, r)
  BY DEF Reaches
<1>2. Quorum(s) \in QuorumStates
  BY QuorumType
<1>3. /\ AppendLog(len, t) \in StorageAction /\ Save(Quorum(s)) \in StorageAction
      /\ Save(r) \in StorageAction
  BY <1>2, ActionType
<1>4. Advances(q, Quorum(s))
  BY <1>1, <1>2, AdvancesOrder DEF ReachesBy
<1> DEFINE A == StorageAction
<1>5. /\ \A a \in A : <<a>> \in Seq(A)
      /\ \A a, b \in A : <<a, b>> \in Seq(A)
      /\ \A a, b, c \in A : <<a, b, c>> \in Seq(A)
      /\ <<>> \in Seq(A)
  OBVIOUS
<1> HIDE DEF A
<1>6. w \in Seq(A)
  BY Zenon, <1>1, <1>3, <1>5 DEF ReachesBy, A
<1> QED
  BY <1>4, <1>6 DEF A

\* The next action of a batch is a save that takes nothing back or appends the
\* entry the log store ends before; the rest of the batch goes on from there.
LEMMA ReachesNext ==
    ASSUME NEW q \in QuorumStates, NEW len \in Nat, NEW w, NEW s \in NodeState,
           Reaches(q, len, w, s), w # <<>>
    PROVE  \/ \E r \in QuorumStates : /\ Head(w) = Save(r) /\ Advances(q, r)
                                      /\ Reaches(r, len, Tail(w), s)
           \/ \E t \in Term : /\ Head(w) = AppendLog(len, t)
                              /\ Reaches(q, len + 1, Tail(w), s)
<1> DEFINE m == Quorum(s)
<1>1. PICK t \in Term, r \in QuorumStates : ReachesBy(q, len, w, s, t, r)
  BY DEF Reaches
<1>2. m \in QuorumStates /\ Advances(m, m)
  BY QuorumType, AdvancesOrder
<1>3. CASE w = <<AppendLog(len, t)>> /\ q = m /\ s.log_end_offset = len + 1
  <2>1. ReachesBy(q, len + 1, Tail(w), s, t, r)
    BY <1>3, Batches DEF ReachesBy
  <2> QED
    BY <1>3, <2>1, Batches DEF Reaches
<1>4. CASE w = <<Save(m)>> /\ Advances(q, m) /\ s.log_end_offset = len
  <2>1. ReachesBy(m, len, Tail(w), s, t, r)
    BY <1>4, Batches DEF ReachesBy
  <2> QED
    BY <1>2, <1>4, <2>1, Batches DEF Reaches
<1>5. CASE w = <<Save(m), AppendLog(len, t)>> /\ Advances(q, m) /\ s.log_end_offset = len + 1
  <2>1. ReachesBy(m, len, Tail(w), s, t, r)
    BY <1>5, Batches DEF ReachesBy
  <2> QED
    BY <1>2, <1>5, <2>1, Batches DEF Reaches
<1>6. CASE /\ w = <<Save(r), Save(m)>> /\ Advances(q, r) /\ Advances(r, m)
           /\ s.log_end_offset = len
  <2>1. ReachesBy(r, len, Tail(w), s, t, r)
    BY <1>6, Batches DEF ReachesBy
  <2> QED
    BY <1>6, <2>1, Batches DEF Reaches
<1>7. CASE /\ w = <<Save(r), Save(m), AppendLog(len, t)>> /\ Advances(q, r) /\ Advances(r, m)
           /\ s.log_end_offset = len + 1
  <2>1. ReachesBy(r, len, Tail(w), s, t, r)
    BY <1>7, Batches DEF ReachesBy
  <2> QED
    BY <1>7, <2>1, Batches DEF Reaches
<1> QED
  BY <1>1, <1>3, <1>4, <1>5, <1>6, <1>7 DEF ReachesBy

\* A loop with no batch under way holds in memory what its stores hold.
LEMMA ReachesIdle ==
    ASSUME NEW q \in QuorumStates, NEW len \in Nat, NEW s \in NodeState
    PROVE  Reaches(q, len, <<>>, s) <=> q = Quorum(s) /\ s.log_end_offset = len
<1>1. 0 \in Term /\ Quorum(s) \in QuorumStates
  BY MaxTermAssumption, QuorumType DEF Term
<1>2. ASSUME q = Quorum(s), s.log_end_offset = len
      PROVE  Reaches(q, len, <<>>, s)
  BY <1>1, <1>2 DEF Reaches, ReachesBy
<1>3. ASSUME Reaches(q, len, <<>>, s)
      PROVE  q = Quorum(s) /\ s.log_end_offset = len
  BY <1>3, Batches DEF Reaches, ReachesBy
<1> QED
  BY <1>2, <1>3

-----------------------------------------------------------------------------
(* Steps of the loop itself. *)

\* What a handler must leave for the invariant to go on.
LEMMA HandledKeeps ==
    ASSUME LoopInv, NEW n \in Node, Idle(n),
           NEW s \in NodeState, NEW w, NEW sends \in SUBSET Message,
           Handled(n, s, w, sends),
           Reaches(Quorum(state[n]), state[n].log_end_offset, w, s),
           ballots \subseteq ballots', E!TypeOK',
           Started(s.current_term)', s.role # "Down",
           \A m \in sends : IsPreVoteRequest(m) \/ Started(m.term)'
    PROVE  LoopInv'
<1>1. state[n] \in NodeState /\ storage[n] = <<>> /\ TypeOK
      /\ quorum_state[n] \in QuorumStates /\ Len(log[n]) \in Nat
  BY DEF LoopInv, TypeOK, Idle
<1>2. quorum_state[n] = Quorum(state[n]) /\ Len(log[n]) = state[n].log_end_offset
  BY <1>1, ReachesIdle DEF LoopInv, BatchReaches
<1>3. w \in Seq(StorageAction)
  BY <1>1, <1>2, ReachesType
<1>4. /\ state'[n] = s /\ storage'[n] = w /\ network'[n] = sends
      /\ \A k \in Node \ {n} : /\ state'[k] = state[k] /\ storage'[k] = storage[k]
                               /\ network'[k] = network[k]
      /\ UNCHANGED <<quorum_state, log, msgs>>
  BY <1>1 DEF Handled, disk, TypeOK
<1>5. TypeOK'
  BY <1>1, <1>3 DEF TypeOK, Handled, disk
<1>6. BatchReaches'
  BY <1>2, <1>4 DEF LoopInv, BatchReaches
<1>7. \A t : Started(t) => Started(t)'
  BY DEF Started
<1>8. Sent' \subseteq Sent \cup sends
  BY <1>4 DEF Sent
<1>9. TermsStarted'
  BY <1>4, <1>7, <1>8 DEF LoopInv, TermsStarted, IsPreVoteRequest
<1>10. DownIsIdle'
  BY <1>4 DEF LoopInv, DownIsIdle
<1> QED
  BY <1>5, <1>6, <1>9, <1>10 DEF LoopInv

\* A storage action done: the store advances.
LEMMA WriteKeeps ==
    ASSUME LoopInv, NEW n \in Node, Write(n)
    PROVE  /\ LoopInv'
           /\ \A k \in Node : Advances(quorum_state[k], quorum_state'[k])
<1> DEFINE w == storage[n]
           q == quorum_state[n]
<1>1. /\ TypeOK /\ state[n] \in NodeState /\ w \in Seq(StorageAction)
      /\ q \in QuorumStates /\ Len(log[n]) \in Nat /\ w # <<>>
      /\ Reaches(q, Len(log[n]), w, state[n])
  BY DEF LoopInv, TypeOK, Write, BatchReaches
<1>2. /\ UNCHANGED <<state, network, msgs, ballots, elections>>
      /\ storage' = [storage EXCEPT ![n] = Tail(w)] /\ Tail(w) \in Seq(StorageAction)
  BY <1>1 DEF Write, history
<1>3. /\ storage'[n] = Tail(w)
      /\ \A k \in Node \ {n} : storage'[k] = storage[k]
  BY <1>1, <1>2 DEF TypeOK
<1>4. \A k \in Node : Advances(quorum_state[k], quorum_state[k])
  BY <1>1, AdvancesOrder DEF TypeOK
<1>5. TermsStarted'
  BY <1>2 DEF LoopInv, TermsStarted, Sent, Started
<1>8. DownIsIdle'
  BY <1>1, <1>2, <1>3 DEF LoopInv, DownIsIdle
<1>6. CASE \E r \in QuorumStates : /\ Head(w) = Save(r) /\ Advances(q, r)
                                   /\ Reaches(r, Len(log[n]), Tail(w), state[n])
  <2>1. PICK r \in QuorumStates : /\ Head(w) = Save(r) /\ Advances(q, r)
                                  /\ Reaches(r, Len(log[n]), Tail(w), state[n])
    BY <1>6
  <2>2. quorum_state' = [quorum_state EXCEPT ![n] = r] /\ UNCHANGED log
    BY <2>1, ActionType DEF Write
  <2>3. quorum_state'[n] = r /\ \A k \in Node \ {n} : quorum_state'[k] = quorum_state[k]
    BY <1>1, <2>2 DEF TypeOK
  <2>4. TypeOK'
    BY <1>1, <1>2, <2>2 DEF TypeOK, E!TypeOK
  <2>5. BatchReaches'
    BY <1>2, <1>3, <2>1, <2>2, <2>3 DEF LoopInv, BatchReaches
  <2> QED
    BY <1>4, <1>5, <1>8, <2>1, <2>3, <2>4, <2>5 DEF LoopInv
<1>7. CASE \E t \in Term : /\ Head(w) = AppendLog(Len(log[n]), t)
                           /\ Reaches(q, Len(log[n]) + 1, Tail(w), state[n])
  <2>1. PICK t \in Term : /\ Head(w) = AppendLog(Len(log[n]), t)
                          /\ Reaches(q, Len(log[n]) + 1, Tail(w), state[n])
    BY <1>7
  <2>2. log' = [log EXCEPT ![n] = Append(@, t)] /\ UNCHANGED quorum_state
    BY <1>1, <2>1, ActionType DEF Write
  <2>3. /\ log'[n] = Append(log[n], t) /\ Append(log[n], t) \in Seq(Term)
        /\ Len(log'[n]) = Len(log[n]) + 1
        /\ \A k \in Node \ {n} : log'[k] = log[k]
    BY <1>1, <2>2 DEF TypeOK
  <2>4. TypeOK'
    BY <1>1, <1>2, <2>2, <2>3 DEF TypeOK, E!TypeOK
  <2>5. BatchReaches'
    BY <1>2, <1>3, <2>1, <2>2, <2>3 DEF LoopInv, BatchReaches
  <2> QED
    BY <1>4, <1>5, <1>8, <2>2, <2>4, <2>5 DEF LoopInv
<1> QED
  BY <1>1, <1>6, <1>7, ReachesNext

LEMMA TransmitKeeps ==
    ASSUME LoopInv, NEW n \in Node, Transmit(n)
    PROVE  LoopInv' /\ Sent' \subseteq Sent /\ UNCHANGED <<state, quorum_state, ballots, elections>>
<1>1. /\ UNCHANGED <<state, storage, quorum_state, log, ballots, elections>>
      /\ network[n] \in SUBSET Message /\ TypeOK
      /\ network' = [network EXCEPT ![n] = {}] /\ msgs' = msgs \cup network[n]
  BY DEF Transmit, LoopInv, TypeOK, disk, history
<1>2. Sent' \subseteq Sent
  BY <1>1 DEF Sent, TypeOK
<1>3. TypeOK' /\ BatchReaches'
  BY <1>1 DEF LoopInv, TypeOK, BatchReaches, E!TypeOK
<1>4. TermsStarted'
  BY <1>1, <1>2 DEF LoopInv, TermsStarted, Started, IsPreVoteRequest
<1>5. DownIsIdle'
  BY <1>1 DEF LoopInv, DownIsIdle, TypeOK
<1> QED
  BY <1>1, <1>2, <1>3, <1>4, <1>5 DEF LoopInv

\* A store is never ahead of the memory of its node.
LEMMA StoreBehind ==
    ASSUME LoopInv, NEW n \in Node
    PROVE  /\ Started(quorum_state[n].current_term)
           /\ quorum_state[n].current_term \in Nat
           /\ quorum_state[n].current_term <= state[n].current_term
<1>1. /\ state[n] \in NodeState /\ quorum_state[n] \in QuorumStates /\ Len(log[n]) \in Nat
      /\ Reaches(quorum_state[n], Len(log[n]), storage[n], state[n])
      /\ Started(state[n].current_term)
  BY DEF LoopInv, TypeOK, BatchReaches, TermsStarted
<1>2. Advances(quorum_state[n], Quorum(state[n]))
  BY <1>1, ReachesType
<1>3. /\ quorum_state[n].current_term \in Nat /\ state[n].current_term \in Nat
      /\ quorum_state[n].current_term <= state[n].current_term
  BY <1>1, <1>2, QuorumType, MaxTermAssumption DEF Advances, NodeState, QuorumStates, Term
<1> QED
  BY <1>1, <1>3 DEF Started

\* The NodeState of a loop that starts on the stores of n, or has just ended.
OfStores(n) == {FromStores(n), [FromStores(n) EXCEPT !.role = "Down"]}

LEMMA OfStoresType ==
    ASSUME LoopInv, NEW n \in Node, NEW s \in OfStores(n)
    PROVE  /\ s \in NodeState /\ Quorum(s) = quorum_state[n] /\ s.log_end_offset = Len(log[n])
           /\ s.current_term = quorum_state[n].current_term
           /\ s.role \in {"Down", "Follower"}
<1>1. quorum_state[n] \in QuorumStates /\ log[n] \in Seq(Term) /\ 0 \in Term
  BY MaxTermAssumption DEF LoopInv, TypeOK, Term
<1>2. (IF log[n] = <<>> THEN 0 ELSE log[n][Len(log[n])]) \in Term /\ Len(log[n]) \in Nat
  BY <1>1
<1>3. s \in NodeState /\ s.role \in {"Down", "Follower"}
  BY <1>1, <1>2 DEF OfStores, FromStores, NodeState, QuorumStates
<1>4. /\ s.current_term = quorum_state[n].current_term
      /\ s.voted_for = quorum_state[n].voted_for
      /\ s.leader_id = quorum_state[n].leader_id
      /\ s.log_end_offset = Len(log[n])
  BY DEF OfStores, FromStores
<1>5. Quorum(s) = quorum_state[n]
  BY <1>1, <1>4 DEF Quorum, QuorumStates
<1> QED
  BY <1>3, <1>4, <1>5

\* Whether a loop ends or starts, memory is what the stores hold.
LEMMA StoresKeep ==
    ASSUME LoopInv, NEW n \in Node,
           NEW s \in OfStores(n),
           state' = [state EXCEPT ![n] = s],
           storage' = [storage EXCEPT ![n] = <<>>],
           network' = [network EXCEPT ![n] = {}],
           \E sent \in SUBSET network[n] : msgs' = msgs \cup sent,
           UNCHANGED <<disk, history>>
    PROVE  LoopInv' /\ Sent' \subseteq Sent
<1>1. /\ s \in NodeState /\ Quorum(s) = quorum_state[n] /\ s.log_end_offset = Len(log[n])
      /\ s.current_term = quorum_state[n].current_term
  BY OfStoresType
<1>2. TypeOK /\ quorum_state[n] \in QuorumStates /\ Len(log[n]) \in Nat
      /\ UNCHANGED <<quorum_state, log, ballots, elections>>
  BY DEF LoopInv, TypeOK, disk, history
<1>3. /\ state'[n] = s /\ storage'[n] = <<>> /\ network'[n] = {}
      /\ \A k \in Node \ {n} : state'[k] = state[k] /\ storage'[k] = storage[k]
      /\ \A k \in Node : network'[k] \subseteq network[k]
      /\ network' \in [Node -> SUBSET Message]
      /\ msgs' \subseteq msgs \cup network[n]
  BY <1>2 DEF TypeOK
<1>4. Sent' \subseteq Sent
  BY <1>3 DEF Sent
<1>5. TypeOK'
  BY <1>1, <1>2, <1>3 DEF TypeOK, E!TypeOK
<1>6. Reaches(quorum_state[n], Len(log[n]), <<>>, s)
  BY <1>1, <1>2, ReachesIdle
<1>7. BatchReaches'
  BY <1>2, <1>3, <1>6 DEF LoopInv, BatchReaches
<1>8. Started(s.current_term)
  BY <1>1, StoreBehind
<1>9. TermsStarted'
  BY <1>2, <1>3, <1>4, <1>8 DEF LoopInv, TermsStarted, Started, IsPreVoteRequest
<1>10. DownIsIdle'
  BY <1>3 DEF LoopInv, DownIsIdle
<1> QED
  BY <1>4, <1>5, <1>7, <1>9, <1>10 DEF LoopInv

LEMMA EndsKeep ==
    ASSUME LoopInv, NEW n \in Node, Crash(n) \/ SendFails(n) \/ Restart(n)
    PROVE  /\ LoopInv' /\ Sent' \subseteq Sent /\ UNCHANGED <<quorum_state, ballots, elections>>
           /\ \E s \in OfStores(n) : state' = [state EXCEPT ![n] = s]
<1>0. storage \in [Node -> Seq(StorageAction)] /\ network \in [Node -> SUBSET Message]
  BY DEF LoopInv, TypeOK
<1>1. CASE Crash(n) \/ SendFails(n)
  <2>0. {} \in SUBSET network[n] /\ msgs = msgs \cup {}
    OBVIOUS
  <2>1. \E sent \in SUBSET network[n] : msgs' = msgs \cup sent
    BY Zenon, <1>1, <2>0 DEF Crash, SendFails
  <2>2. Stopped(n)
    BY <1>1 DEF Crash, SendFails
  <2>3. LoopInv' /\ Sent' \subseteq Sent
    BY Zenon, <2>1, <2>2, StoresKeep DEF Stopped, OfStores
  <2> QED
    BY <2>2, <2>3 DEF Stopped, OfStores, disk, history
<1>2. CASE Restart(n)
  <2>1. storage[n] = <<>> /\ network[n] = {}
    BY <1>2 DEF Restart, LoopInv, DownIsIdle
  <2>2. /\ storage' = [storage EXCEPT ![n] = <<>>]
        /\ network' = [network EXCEPT ![n] = {}]
        /\ msgs' = msgs \cup {}
    BY <1>0, <1>2, <2>1 DEF Restart
  <2>3. \E sent \in SUBSET network[n] : msgs' = msgs \cup sent
    BY <2>2
  <2>4. LoopInv' /\ Sent' \subseteq Sent
    BY Zenon, <1>2, <2>2, <2>3, StoresKeep DEF Restart, OfStores
  <2> QED
    BY <1>2, <2>4 DEF Restart, OfStores, disk, history
<1> QED
  BY <1>1, <1>2

-----------------------------------------------------------------------------
(* Handlers. *)

\* The batches that handlers hand over.
LEMMA Saved ==
    ASSUME NEW s \in NodeState, NEW r \in NodeState
    PROVE  LET q == Quorum(s)  len == s.log_end_offset
           IN  /\ Quorum(r) = q /\ r.log_end_offset = len => Reaches(q, len, <<>>, r)
               /\ Advances(q, Quorum(r)) /\ r.log_end_offset = len =>
                     Reaches(q, len, <<PersistQuorumState(r)>>, r)
               /\ \A p \in NodeState, t \in Term :
                    Advances(q, Quorum(p)) /\ Advances(Quorum(p), Quorum(r)) =>
                       /\ r.log_end_offset = len =>
                            Reaches(q, len, <<PersistQuorumState(p), PersistQuorumState(r)>>, r)
                       /\ r.log_end_offset = len + 1 =>
                            Reaches(q, len, <<PersistQuorumState(p), PersistQuorumState(r),
                                              AppendLog(len, t)>>, r)
               /\ \A t \in Term : Advances(q, Quorum(r)) /\ r.log_end_offset = len + 1 =>
                     Reaches(q, len, <<PersistQuorumState(r), AppendLog(len, t)>>, r)
<1>1. 0 \in Term /\ Quorum(s) \in QuorumStates
  BY MaxTermAssumption, QuorumType DEF Term
<1>2. /\ \A p \in NodeState : Quorum(p) \in QuorumStates
      /\ \A p \in NodeState : PersistQuorumState(p) = Save(Quorum(p))
  BY QuorumType
<1> QED
  BY <1>1, <1>2 DEF Reaches, ReachesBy

\* Following a higher term: the batch that saves it, and what it brings about.
LEMMA StepDownReaches ==
    ASSUME NEW s \in NodeState, NEW t \in Term
    PROVE  LET r == StepDown(s, t)
           IN  /\ r \in NodeState
               /\ r.log_end_offset = s.log_end_offset
               /\ r.role = "Down" => s.role = "Down"
               /\ r.current_term >= s.current_term /\ r.current_term >= t
               /\ r.current_term \in {s.current_term, t}
               /\ Advances(Quorum(s), Quorum(r))
               /\ \/ r = s /\ StepDownWrites(s, t) = <<>>
                  \/ /\ StepDownWrites(s, t) = <<PersistQuorumState(r)>>
                     /\ r.role = "Follower" /\ r.current_term > s.current_term
                     /\ r.voted_for = Nil
               /\ Reaches(Quorum(s), s.log_end_offset, StepDownWrites(s, t), r)
<1> DEFINE r == StepDown(s, t)
<1>1. s.current_term \in Nat /\ t \in Nat /\ s.current_term \in Term
  BY MaxTermAssumption DEF NodeState, Term
<1>2. CASE t > s.current_term
  <2>1. r \in NodeState /\ r.log_end_offset = s.log_end_offset /\ r.current_term = t
        /\ r.role = "Follower" /\ r.voted_for = Nil
    BY Zenon, <1>2 DEF StepDown, become_follower, NodeState
  <2>2. StepDownWrites(s, t) = <<PersistQuorumState(r)>>
    BY <1>2 DEF StepDownWrites
  <2>3. Advances(Quorum(s), Quorum(r))
    BY <1>1, <1>2, <2>1, QuorumType, AdvancesOrder
  <2>4. Reaches(Quorum(s), s.log_end_offset, StepDownWrites(s, t), r)
    BY <2>1, <2>2, <2>3, Saved
  <2> QED
    BY <1>1, <1>2, <2>1, <2>2, <2>3, <2>4
<1>3. CASE ~(t > s.current_term)
  <2>1. r = s /\ StepDownWrites(s, t) = <<>>
    BY <1>3 DEF StepDown, StepDownWrites
  <2>2. Advances(Quorum(s), Quorum(s)) /\ Reaches(Quorum(s), s.log_end_offset, <<>>, s)
    BY Zenon, QuorumType, AdvancesOrder, Saved
  <2> QED
    BY <1>1, <1>3, <2>1, <2>2
<1> QED
  BY <1>2, <1>3

\* Every term up to t stays started, and a lower one is.
LEMMA StartedStays ==
    ASSUME ballots \subseteq ballots', NEW t \in Nat, NEW u \in Nat, u <= t, Started(t)
    PROVE  Started(t)' /\ Started(u) /\ Started(u)'
BY DEF Started

LEMMA IdleState ==
    ASSUME LoopInv, NEW n \in Node, Idle(n)
    PROVE  /\ state[n] \in NodeState /\ state[n].role # "Down"
           /\ state[n].current_term \in Term /\ state[n].current_term \in Nat
           /\ state[n].log_end_offset \in Nat
           /\ Started(state[n].current_term) /\ E!TypeOK
           /\ Advances(Quorum(state[n]), Quorum(state[n]))
<1>1. state[n] \in NodeState /\ state[n].role # "Down" /\ Started(state[n].current_term)
      /\ E!TypeOK
  BY DEF LoopInv, TypeOK, Idle, TermsStarted
<1>2. /\ state[n].current_term \in Term /\ state[n].current_term \in Nat
      /\ state[n].log_end_offset \in Nat
  BY <1>1, MaxTermAssumption DEF NodeState, Term
<1> QED
  BY <1>1, <1>2, QuorumType, AdvancesOrder

\* A candidate that leads: its NodeState and its batch.
LEMMA LedReaches ==
    ASSUME NEW n \in Node, NEW s \in NodeState
    PROVE  LET l == become_leader(s, n)
           IN  /\ Led(n, s) \in NodeState /\ l \in NodeState /\ Led(n, s).role = "Leader"
               /\ Led(n, s).current_term = s.current_term
               /\ Led(n, s).voted_for = s.voted_for
               /\ Led(n, s).log_end_offset = s.log_end_offset + 1
               /\ on_become_leader(n, s) = <<PersistQuorumState(Led(n, s)),
                                             AppendLog(s.log_end_offset, s.current_term)>>
               /\ Advances(Quorum(s), Quorum(Led(n, s)))
               /\ Reaches(Quorum(s), s.log_end_offset, on_become_leader(n, s), Led(n, s))
<1> DEFINE l == become_leader(s, n)
           d == Led(n, s)
<1>1. /\ l \in NodeState /\ l.current_term = s.current_term /\ l.voted_for = s.voted_for
      /\ l.leader_id = n /\ l.role = "Leader" /\ l.log_end_offset = s.log_end_offset
      /\ s.current_term \in Term /\ s.log_end_offset \in Nat
  BY Zenon DEF become_leader, NodeState
<1>9. s.log_end_offset + 1 \in Nat
  BY <1>1
<1> HIDE DEF l
<1>2. d = [l EXCEPT !.log_end_offset = @ + 1, !.last_log_term = s.current_term]
  BY DEF Led, l
<1> HIDE DEF d
<1>3. d \in NodeState
  BY Zenon, <1>1, <1>2, <1>9 DEF NodeState
<1>8. /\ d.current_term = s.current_term /\ d.voted_for = s.voted_for
      /\ d.leader_id = n /\ d.role = "Leader" /\ d.log_end_offset = s.log_end_offset + 1
  BY <1>1, <1>2 DEF NodeState
<1>4. PersistQuorumState(l) = PersistQuorumState(d)
  BY <1>1, <1>8 DEF PersistQuorumState
<1>5. on_become_leader(n, s) =
          <<PersistQuorumState(d), AppendLog(s.log_end_offset, s.current_term)>>
  BY <1>4 DEF on_become_leader, l
<1>6. Advances(Quorum(s), Quorum(d))
  BY <1>1, <1>3, <1>8, QuorumType, MaxTermAssumption DEF Advances, Term
<1>7. Reaches(Quorum(s), s.log_end_offset, on_become_leader(n, s), d)
  BY Zenon, <1>1, <1>3, <1>5, <1>6, <1>8, Saved
<1> QED
  BY <1>1, <1>3, <1>5, <1>6, <1>7, <1>8 DEF l, d

\* A new candidate.
LEMMA CandidateState ==
    ASSUME NEW n \in Node, NEW p \in NodeState, p.current_term + 1 <= MaxTerm
    PROVE  LET s == become_candidate(p, n)
           IN  /\ s \in NodeState /\ s.role = "Candidate" /\ s.current_term = p.current_term + 1
               /\ s.current_term \in Term /\ s.voted_for = n /\ s.votes_received = {n}
               /\ s.log_end_offset = p.log_end_offset
               /\ Advances(Quorum(p), Quorum(s))
<1> DEFINE s == become_candidate(p, n)
<1>1. p.current_term \in Nat /\ p.current_term + 1 \in Term /\ p.current_term < p.current_term + 1
  BY MaxTermAssumption DEF NodeState, Term
<1>2. /\ s \in NodeState /\ s.role = "Candidate" /\ s.current_term = p.current_term + 1
      /\ s.voted_for = n /\ s.votes_received = {n} /\ s.log_end_offset = p.log_end_offset
  BY Zenon, <1>1 DEF become_candidate, NodeState
<1> HIDE DEF s
<1>3. Advances(Quorum(p), Quorum(s))
  BY <1>1, <1>2, QuorumType, AdvancesOrder
<1> QED
  BY <1>1, <1>2, <1>3 DEF s

\* Envelopes.
LEMMA RequestType ==
    ASSUME NEW s \in NodeState, NEW n \in Node, NEW v \in Node, NEW t \in Term,
           NEW pre \in BOOLEAN
    PROVE  /\ VoteRequest(s, n, v, t, pre) \in Message
           /\ VoteRequest(s, n, v, t, pre).term = t
           /\ ~IsGrant(VoteRequest(s, n, v, t, pre))
<1>1. LastOffset(s) \in Nat /\ s.last_log_term \in Term
  BY DEF LastOffset, NodeState
<1> QED
  BY <1>1 DEF VoteRequest, Message, IsGrant

LEMMA ResponseType ==
    ASSUME NEW n \in Node, NEW v \in Node, NEW t \in Term,
           NEW pre \in BOOLEAN, NEW granted \in BOOLEAN
    PROVE  /\ VoteResponse(n, v, t, granted, pre) \in Message
           /\ VoteResponse(n, v, t, granted, pre).term = t
           /\ VoteResponse(n, v, t, granted, pre).source = n
           /\ VoteResponse(n, v, t, granted, pre).dest = v
           /\ IsGrant(VoteResponse(n, v, t, granted, pre)) => granted /\ ~pre
BY DEF VoteResponse, Message, IsGrant

LEMMA TimeoutKeeps ==
    ASSUME LoopInv, NEW n \in Node, handle_election_timeout(n)
    PROVE  LoopInv'
<1> DEFINE p == state[n]
<1>0. PICK s : s = become_candidate(p, n)
  OBVIOUS
<1>1. /\ Idle(n) /\ n \in Voters /\ s.current_term <= MaxTerm
      /\ ballots' = ballots \cup {E!Ballot(n, s.current_term, n)}
  BY <1>0 DEF handle_election_timeout
<1>2. p \in NodeState /\ p.current_term \in Nat /\ Started(p.current_term) /\ E!TypeOK
      /\ p.log_end_offset \in Nat
  BY <1>1, IdleState
<1>3. s.current_term = p.current_term + 1
  BY <1>0, <1>2 DEF become_candidate, NodeState
<1>4. /\ s \in NodeState /\ s.role = "Candidate" /\ s.current_term \in Term
      /\ s.log_end_offset = p.log_end_offset /\ Advances(Quorum(p), Quorum(s))
  BY <1>0, <1>1, <1>2, <1>3, CandidateState
<1>5. Started(s.current_term)'
  BY <1>1, <1>2, <1>3 DEF Started
<1>6. ASSUME elections' \in {elections, elections \cup {E!Election(s.current_term, n)}}
      PROVE  E!TypeOK'
  BY <1>1, <1>2, <1>4, <1>6 DEF E!TypeOK, E!Ballot, E!Election, E!Term, Term
<1>7. ballots \subseteq ballots'
  BY Zenon, <1>1
<1> HIDE DEF p
<1>8. CASE /\ Handled(n, Led(n, s), <<PersistQuorumState(s)>> \o on_become_leader(n, s), {})
           /\ elections' = elections \cup {E!Election(s.current_term, n)}
  <2> DEFINE d == Led(n, s)
             lead == on_become_leader(n, s)
             w == <<PersistQuorumState(s)>> \o lead
  <2>1. /\ d \in NodeState /\ d.current_term = s.current_term /\ d.role = "Leader"
        /\ d.log_end_offset = s.log_end_offset + 1 /\ Advances(Quorum(s), Quorum(d))
        /\ lead = <<PersistQuorumState(d), AppendLog(s.log_end_offset, s.current_term)>>
    BY <1>4, LedReaches
  <2> HIDE DEF d, lead
  <2>2. w = <<PersistQuorumState(s), PersistQuorumState(d),
              AppendLog(p.log_end_offset, s.current_term)>>
    BY Zenon, <1>4, <2>1, Joined
  <2>3. Reaches(Quorum(p), p.log_end_offset, w, d)
    BY Zenon, <1>2, <1>4, <2>1, <2>2, Saved
  <2> HIDE DEF w
  <2> QED
    BY <1>1, <1>5, <1>6, <1>7, <1>8, <2>1, <2>3, HandledKeeps DEF p, d, w, lead
<1>9. CASE /\ Handled(n, s, <<PersistQuorumState(s)>>,
                      {VoteRequest(s, n, v, s.current_term, FALSE) : v \in Voters \ {n}})
           /\ UNCHANGED elections
  <2> DEFINE sends == {VoteRequest(s, n, v, s.current_term, FALSE) : v \in Voters \ {n}}
  <2>1. Reaches(Quorum(p), p.log_end_offset, <<PersistQuorumState(s)>>, s)
    BY <1>2, <1>4, Saved
  <2>2. sends \in SUBSET Message /\ \A m \in sends : m.term = s.current_term
    <3>1. ASSUME NEW m \in sends
          PROVE  m \in Message /\ m.term = s.current_term
      <4>1. PICK v \in Voters \ {n} : m = VoteRequest(s, n, v, s.current_term, FALSE)
        BY Zenon
      <4>2. v \in Node
        BY Zenon, VotersAssumption
      <4> QED
        BY Zenon, <1>4, <4>1, <4>2, RequestType
    <3> QED
      BY Zenon, <3>1
  <2>3. \A m \in sends : Started(m.term)'
    BY Zenon, <1>5, <2>2
  <2> HIDE DEF sends
  <2> QED
    BY Zenon, <1>1, <1>4, <1>5, <1>6, <1>7, <1>9, <2>1, <2>2, <2>3, HandledKeeps DEF p, sends
<1> QED
  BY <1>0, <1>8, <1>9 DEF handle_election_timeout, p

\* An envelope that a handler of n takes.
LEMMA ReceivedType ==
    ASSUME LoopInv, NEW m \in msgs, NEW n \in Node, NEW type, NEW pre,
           Receives(n, m, type, pre)
    PROVE  /\ Idle(n) /\ m \in Message /\ m \in Sent /\ m.dest = n /\ m.source \in Node
           /\ m.term \in Term /\ m.term \in Nat
           /\ IsPreVoteRequest(m) \/ Started(m.term)
BY MaxTermAssumption DEF Receives, LoopInv, TypeOK, Message, Term, TermsStarted, Sent

\* A handler that keeps the ballots and sends nothing new.
LEMMA QuietKeeps ==
    ASSUME LoopInv, NEW n \in Node, Idle(n), NEW s \in NodeState, NEW w,
           Handled(n, s, w, {}), s.role # "Down", UNCHANGED ballots, E!TypeOK',
           Reaches(Quorum(state[n]), state[n].log_end_offset, w, s),
           Started(s.current_term)
    PROVE  LoopInv'
<1>1. {} \in SUBSET Message /\ \A m \in {} : IsPreVoteRequest(m) \/ Started(m.term)'
  OBVIOUS
<1>2. ballots \subseteq ballots' /\ Started(s.current_term)'
  BY DEF Started
<1> QED
  BY <1>1, <1>2, HandledKeeps

\* Following the term of an envelope.
LEMMA StepDownKeeps ==
    ASSUME LoopInv, NEW n \in Node, Idle(n), NEW t \in Term, Started(t), UNCHANGED history,
           NEW s \in NodeState, Handled(n, s, StepDownWrites(state[n], t), {}),
           s = StepDown(state[n], t) \/ \E c \in Node :
                s = [StepDown(state[n], t) EXCEPT !.fetched = @ \cup {c}]
    PROVE  LoopInv'
<1> DEFINE p == state[n]
           r == StepDown(p, t)
           w == StepDownWrites(p, t)
<1>1. p \in NodeState /\ p.role # "Down" /\ Started(p.current_term) /\ E!TypeOK
  BY IdleState
<1>2. /\ r \in NodeState /\ r.current_term \in {p.current_term, t} /\ r.role # "Down"
      /\ Reaches(Quorum(p), p.log_end_offset, w, r)
  BY <1>1, StepDownReaches
<1>3. E!TypeOK' /\ UNCHANGED ballots
  BY <1>1 DEF history, E!TypeOK
<1> HIDE DEF r, w
<1>4. /\ Quorum(s) = Quorum(r) /\ s.log_end_offset = r.log_end_offset
      /\ s.role = r.role /\ s.current_term = r.current_term
  BY <1>2 DEF NodeState, Quorum, r
<1>5. Reaches(Quorum(p), p.log_end_offset, w, s)
  BY <1>2, <1>4 DEF Reaches, ReachesBy
<1> QED
  BY <1>1, <1>2, <1>3, <1>4, <1>5, QuietKeeps DEF w

LEMMA CheckQuorumKeeps ==
    ASSUME LoopInv, NEW n \in Node, handle_check_quorum(n)
    PROVE  LoopInv'
<1> DEFINE p == state[n]
           s == LostQuorum(p)
           f == [p EXCEPT !.fetched = {}]
<1>1. Idle(n) /\ UNCHANGED <<ballots, elections>>
  BY DEF handle_check_quorum, history
<1>2. p \in NodeState /\ p.role # "Down" /\ Started(p.current_term) /\ E!TypeOK
      /\ Advances(Quorum(p), Quorum(p)) /\ p.current_term \in Nat
  BY <1>1, IdleState
<1>3. E!TypeOK'
  BY <1>1, <1>2 DEF E!TypeOK
<1>4. CASE Handled(n, f, <<>>, {})
  <2>1. f \in NodeState /\ Quorum(f) = Quorum(p) /\ f.log_end_offset = p.log_end_offset
        /\ f.role = p.role /\ f.current_term = p.current_term
    BY <1>2 DEF NodeState, Quorum
  <2>2. Reaches(Quorum(p), p.log_end_offset, <<>>, f)
    BY Zenon, <1>2, <2>1, Saved
  <2> QED
    BY Zenon, <1>1, <1>2, <1>3, <1>4, <2>1, <2>2, QuietKeeps
<1>5. CASE Handled(n, s, <<PersistQuorumState(s)>>, {})
  <2>1. s \in NodeState /\ s.log_end_offset = p.log_end_offset /\ s.role = "Follower"
        /\ s.current_term = p.current_term /\ s.voted_for = p.voted_for
    BY Zenon, <1>2 DEF LostQuorum, become_follower, NodeState
  <2>2. Advances(Quorum(p), Quorum(s))
    BY <1>2, <2>1, QuorumType DEF Advances
  <2>3. Reaches(Quorum(p), p.log_end_offset, <<PersistQuorumState(s)>>, s)
    BY <1>2, <2>1, <2>2, Saved
  <2> QED
    BY <1>1, <1>2, <1>3, <1>5, <2>1, <2>3, QuietKeeps
<1> QED
  BY <1>4, <1>5 DEF handle_check_quorum

LEMMA FetchKeeps ==
    ASSUME LoopInv, NEW n \in Node, NEW c \in Node, NEW d \in Node,
           NEW e \in 0 .. quorum_state[d].current_term, NEW request \in BOOLEAN,
           handle_fetch(n, c, e, request)
    PROVE  LoopInv' /\ e \in Term
<1> DEFINE r == StepDown(state[n], e)
<1>1. quorum_state[d].current_term \in Nat /\ quorum_state[d].current_term \in Term
      /\ Started(quorum_state[d].current_term)
  BY StoreBehind DEF LoopInv, TypeOK, QuorumStates
<1>2. e \in Term /\ Started(e) /\ Idle(n)
  BY <1>1, MaxTermAssumption DEF Term, Started, handle_fetch
<1>3. state[n] \in NodeState
  BY <1>2, IdleState
<1>4. r \in NodeState
  BY <1>2, <1>3, StepDownReaches
<1> HIDE DEF r
<1>5. [r EXCEPT !.fetched = @ \cup {c}] \in NodeState
  BY <1>4 DEF NodeState
<1>6. \E s \in {r, [r EXCEPT !.fetched = @ \cup {c}]} :
        Handled(n, s, StepDownWrites(state[n], e), {})
  BY DEF handle_fetch, r
<1> QED
  BY <1>2, <1>4, <1>5, <1>6, StepDownKeeps DEF r, handle_fetch

LEMMA VoteRequestKeeps ==
    ASSUME LoopInv, NEW m \in msgs, NEW n \in Node, handle_vote_request(n, m)
    PROVE  LoopInv'
<1> DEFINE p == state[n]
           sd == StepDownWrites(p, m.term)
<1>0. Receives(n, m, "VoteRequest", FALSE)
  BY Zenon DEF handle_vote_request
<1>1. /\ Idle(n) /\ m \in Message /\ m.source \in Node /\ m.term \in Term /\ m.term \in Nat
      /\ Started(m.term)
  BY <1>0, ReceivedType DEF IsPreVoteRequest, Receives
<1>2. p \in NodeState /\ p.role # "Down" /\ Started(p.current_term) /\ E!TypeOK
      /\ p.current_term \in Nat
  BY <1>1, IdleState
<1>3. PICK s : s = StepDown(p, m.term)
  OBVIOUS
<1>4. /\ s \in NodeState /\ s.current_term \in {p.current_term, m.term} /\ s.role # "Down"
      /\ s.log_end_offset = p.log_end_offset
      /\ Advances(Quorum(p), Quorum(s))
      /\ (sd = <<>> /\ s = p) \/ sd = <<PersistQuorumState(s)>>
      /\ Reaches(Quorum(p), p.log_end_offset, sd, s)
  BY <1>1, <1>2, <1>3, StepDownReaches
<1>5. Started(s.current_term) /\ s.current_term \in Term
  BY <1>1, <1>2, <1>4 DEF NodeState
<1> HIDE DEF p, sd
<1>6. CASE Grants(s, m)
  <2>1. PICK v : v = [s EXCEPT !.voted_for = m.source]
    BY Zenon
  <2>2. v \in NodeState /\ v.role = s.role /\ v.current_term = s.current_term
        /\ v.log_end_offset = s.log_end_offset /\ v.voted_for = m.source
    BY <1>1, <1>4, <2>1 DEF NodeState
  <2>3. s.voted_for \in {Nil, m.source}
    BY <1>6 DEF Grants
  <2>4. Advances(Quorum(s), Quorum(v))
    BY <1>4, <1>5, <2>2, <2>3, QuorumType, MaxTermAssumption DEF Advances, Term
  <2> DEFINE w == sd \o <<PersistQuorumState(v)>>
             r == VoteResponse(n, m.source, s.current_term, TRUE, FALSE)
             sends == {r}
  <2>5. Handled(n, v, w, sends) /\ UNCHANGED elections
        /\ ballots' = ballots \cup {E!Ballot(n, s.current_term, m.source)}
    BY <1>3, <1>6, <2>1 DEF handle_vote_request, p, sd
  <2>6. Reaches(Quorum(p), p.log_end_offset, w, v)
    <3>1. CASE sd = <<>> /\ s = p
      BY <1>2, <1>4, <2>2, <2>4, <3>1, Saved, Batches
    <3>2. CASE sd = <<PersistQuorumState(s)>>
      <4>1. w = <<PersistQuorumState(s), PersistQuorumState(v)>>
        BY Zenon, <3>2, Joined
      <4> QED
        BY Zenon, <1>2, <1>4, <1>5, <2>2, <2>4, <4>1, Saved
    <3> QED
      BY Zenon, <1>4, <3>1, <3>2
  <2>7. r \in Message /\ r.term = s.current_term
    BY Zenon, <1>1, <1>5 DEF VoteResponse, Message
  <2> HIDE DEF r
  <2>8. E!TypeOK' /\ ballots \subseteq ballots' /\ Started(v.current_term)'
    BY <1>1, <1>2, <1>5, <2>2, <2>5 DEF E!TypeOK, E!Ballot, E!Term, Term, Started
  <2>9. sends \in SUBSET Message /\ \A x \in sends : IsPreVoteRequest(x) \/ Started(x.term)'
    BY Zenon, <2>2, <2>7, <2>8
  <2> HIDE DEF w, sends
  <2> QED
    BY <1>1, <1>4, <2>2, <2>5, <2>6, <2>8, <2>9, HandledKeeps DEF p
<1>7. CASE ~Grants(s, m)
  <2>0. Grants(s, m) = FALSE
    BY <1>7 DEF Grants
  <2> DEFINE r == VoteResponse(n, m.source, s.current_term, FALSE, FALSE)
  <2>1. PICK sends \in {{}, {r}} : Handled(n, s, sd \o <<>>, sends)
    BY Zenon, <1>3, <1>7, <2>0 DEF handle_vote_request, p, sd
  <2>2. sd \o <<>> = sd
    BY <1>4, Batches
  <2>3. r \in Message /\ r.term = s.current_term
    BY <1>1, <1>5 DEF VoteResponse, Message
  <2> HIDE DEF r
  <2>4. UNCHANGED <<ballots, elections>>
    BY <1>3, <1>7 DEF handle_vote_request, p
  <2>5. E!TypeOK' /\ Started(s.current_term)' /\ ballots \subseteq ballots'
    BY <1>2, <1>5, <2>4 DEF E!TypeOK, Started
  <2>6. sends \in SUBSET Message /\ \A x \in sends : IsPreVoteRequest(x) \/ Started(x.term)'
    BY <2>1, <2>3, <2>5
  <2> QED
    BY <1>1, <1>4, <2>1, <2>2, <2>5, <2>6, HandledKeeps DEF p
<1> QED
  BY <1>6, <1>7

LEMMA PreVoteRequestKeeps ==
    ASSUME LoopInv, NEW m \in msgs, NEW n \in Node, handle_pre_vote_request(n, m)
    PROVE  LoopInv' /\ UNCHANGED <<ballots, elections>>
           /\ \E x : ~IsGrant(x) /\ Handled(n, state[n], <<>>, {x})
<1>0. Receives(n, m, "VoteRequest", TRUE)
  BY Zenon DEF handle_pre_vote_request
<1>1. Idle(n) /\ m \in Message /\ m.source \in Node
  BY Zenon, <1>0, ReceivedType
<1>2. PICK s : s = state[n]
  OBVIOUS
<1>3. s \in NodeState /\ s.role # "Down" /\ Started(s.current_term) /\ E!TypeOK
      /\ s.current_term \in Term
  BY <1>1, <1>2, IdleState
<1>4. PICK granted \in BOOLEAN :
        Handled(n, s, <<>>, {VoteResponse(n, m.source, s.current_term, granted, TRUE)})
  BY Zenon, <1>2 DEF handle_pre_vote_request
<1> DEFINE x == VoteResponse(n, m.source, s.current_term, granted, TRUE)
<1>5. x \in Message /\ x.term = s.current_term
  BY <1>1, <1>3 DEF VoteResponse, Message
<1>6. UNCHANGED <<ballots, elections>>
  BY DEF handle_pre_vote_request, history
<1>7. E!TypeOK' /\ Started(s.current_term)' /\ ballots \subseteq ballots'
  BY <1>3, <1>6 DEF E!TypeOK, Started
<1>8. ~IsGrant(x)
  BY DEF IsGrant, VoteResponse
<1> HIDE DEF x
<1>9. {x} \in SUBSET Message /\ \A y \in {x} : IsPreVoteRequest(y) \/ Started(y.term)'
  BY Zenon, <1>5, <1>7
<1>10. Reaches(Quorum(s), s.log_end_offset, <<>>, s)
  BY Zenon, <1>3, Saved
<1>11. LoopInv'
  BY Zenon, <1>1, <1>2, <1>3, <1>4, <1>7, <1>9, <1>10, HandledKeeps DEF x
<1> QED
  BY Zenon, <1>2, <1>4, <1>6, <1>8, <1>11 DEF x

LEMMA VoteResponseKeeps ==
    ASSUME LoopInv, NEW m \in msgs, NEW n \in Node, handle_vote_response(n, m)
    PROVE  LoopInv'
<1> DEFINE p == state[n]
           s == record_vote(p, m.source)
<1>0. Receives(n, m, "VoteResponse", FALSE) /\ UNCHANGED ballots
  BY Zenon DEF handle_vote_response
<1>1. /\ Idle(n) /\ m \in Message /\ m.source \in Node /\ m.term \in Term /\ Started(m.term)
  BY <1>0, ReceivedType DEF IsPreVoteRequest, Receives
<1>2. p \in NodeState /\ p.role # "Down" /\ Started(p.current_term) /\ E!TypeOK
      /\ p.current_term \in Term
  BY <1>1, IdleState
<1>3. CASE /\ Handled(n, StepDown(p, m.term), StepDownWrites(p, m.term), {})
           /\ UNCHANGED elections
  <2>1. StepDown(p, m.term) \in NodeState
    BY <1>1, <1>2, StepDownReaches
  <2> QED
    BY Zenon, <1>0, <1>1, <1>3, <2>1, StepDownKeeps DEF history
<1>4. s \in NodeState /\ Quorum(s) = Quorum(p) /\ s.log_end_offset = p.log_end_offset
      /\ s.current_term = p.current_term /\ s.role = p.role
  BY <1>1, <1>2 DEF record_vote, NodeState, Quorum
<1> HIDE DEF s
<1>5. CASE /\ Handled(n, Led(n, s), on_become_leader(n, s), {})
           /\ elections' = elections \cup {E!Election(s.current_term, n)}
  <2>1. /\ Led(n, s) \in NodeState /\ Led(n, s).role = "Leader"
        /\ Led(n, s).current_term = p.current_term
        /\ Reaches(Quorum(p), p.log_end_offset, on_become_leader(n, s), Led(n, s))
    BY Zenon, <1>4, LedReaches
  <2>2. E!TypeOK'
    BY <1>0, <1>2, <1>4, <1>5 DEF E!TypeOK, E!Election, E!Term, Term
  <2> QED
    BY Zenon, <1>0, <1>1, <1>2, <1>5, <2>1, <2>2, QuietKeeps
<1>6. CASE Handled(n, s, <<>>, {}) /\ UNCHANGED elections
  <2>1. Reaches(Quorum(p), p.log_end_offset, <<>>, s)
    BY Zenon, <1>2, <1>4, Saved
  <2>2. E!TypeOK'
    BY <1>0, <1>2, <1>6 DEF E!TypeOK
  <2> QED
    BY <1>0, <1>1, <1>2, <1>4, <1>6, <2>1, <2>2, QuietKeeps
<1> QED
  BY <1>3, <1>5, <1>6 DEF handle_vote_response, s

LEMMA PreVoteResponseKeeps ==
    ASSUME LoopInv, NEW m \in msgs, NEW n \in Node, handle_pre_vote_response(n, m)
    PROVE  LoopInv' /\ UNCHANGED <<ballots, elections>> /\ Sent' \subseteq Sent
           /\ \E c \in Node :
                 state' = [state EXCEPT ![n].pre_votes_received = @ \cup {c}]
<1> DEFINE p == state[n]
           s == [p EXCEPT !.pre_votes_received = @ \cup {m.source}]
<1>0. /\ Receives(n, m, "VoteResponse", TRUE) /\ UNCHANGED <<ballots, elections>>
      /\ Handled(n, s, <<>>, {})
  BY Zenon DEF handle_pre_vote_response, history
<1>1. Idle(n) /\ m.source \in Node
  BY Zenon, <1>0, ReceivedType
<1>2. p \in NodeState /\ p.role # "Down" /\ Started(p.current_term) /\ E!TypeOK
  BY <1>1, IdleState
<1>3. s \in NodeState /\ Quorum(s) = Quorum(p) /\ s.log_end_offset = p.log_end_offset
      /\ s.current_term = p.current_term /\ s.role = p.role
  BY <1>1, <1>2 DEF NodeState, Quorum
<1>4. Reaches(Quorum(p), p.log_end_offset, <<>>, s)
  BY Zenon, <1>2, <1>3, Saved
<1>5. E!TypeOK'
  BY <1>0, <1>2 DEF E!TypeOK
<1>6. LoopInv'
  BY Zenon, <1>0, <1>1, <1>2, <1>3, <1>4, <1>5, QuietKeeps
<1>7. Sent' \subseteq Sent
  BY <1>0 DEF Handled, Sent, LoopInv, TypeOK
<1> QED
  BY Zenon, <1>0, <1>1, <1>6, <1>7 DEF Handled

LEMMA PeerPreVoteKeeps ==
    ASSUME LoopInv, NEW n \in Node, NEW v \in Node, PeerPreVote(n, v)
    PROVE  /\ LoopInv' /\ UNCHANGED <<state, quorum_state, ballots, elections>>
           /\ \E x : ~IsGrant(x) /\ Sent' \subseteq Sent \cup {x}
<1> DEFINE x == VoteRequest(state[n], n, v, state[n].current_term + 1, TRUE)
<1>1. /\ Idle(n) /\ state[n].current_term < MaxTerm /\ msgs' = msgs \cup {x}
      /\ UNCHANGED <<state, storage, network, quorum_state, log, ballots, elections>>
  BY DEF PeerPreVote, memory, disk, history
<1>2. state[n] \in NodeState /\ state[n].current_term + 1 \in Term
  BY <1>1, IdleState, MaxTermAssumption DEF Term
<1>3. x \in Message
  <2>1. LastOffset(state[n]) \in Nat /\ state[n].last_log_term \in Term
    BY <1>2 DEF LastOffset, NodeState
  <2> QED
    BY <1>2, <2>1 DEF VoteRequest, Message
<1>4. IsPreVoteRequest(x) /\ ~IsGrant(x)
  BY DEF VoteRequest, IsPreVoteRequest, IsGrant
<1> HIDE DEF x
<1>5. Sent' \subseteq Sent \cup {x}
  BY <1>1 DEF Sent
<1>6. TypeOK' /\ BatchReaches' /\ DownIsIdle'
  BY <1>1, <1>3 DEF LoopInv, TypeOK, BatchReaches, DownIsIdle, E!TypeOK
<1>7. PICK y : y = x
  OBVIOUS
<1>8. ASSUME NEW m \in Sent'
      PROVE  IsPreVoteRequest(m) \/ Started(m.term)'
  <2>1. CASE m \in Sent
    BY <1>1, <2>1 DEF LoopInv, TermsStarted, Started
  <2>2. CASE m = y
    BY <1>4, <1>7, <2>2 DEF IsPreVoteRequest
  <2> QED
    BY <1>5, <1>7, <1>8, <2>1, <2>2
<1>9. TermsStarted'
  BY <1>1, <1>8 DEF LoopInv, TermsStarted, Started, IsPreVoteRequest
<1> QED
  BY <1>1, <1>4, <1>5, <1>6, <1>9 DEF LoopInv

LEMMA InitLoop == Init => LoopInv
<1> SUFFICES ASSUME Init PROVE LoopInv
  OBVIOUS
<1>1. 0 \in Term /\ <<>> \in Seq(StorageAction) /\ <<>> \in Seq(Term) /\ Len(<<>>) = 0
  BY MaxTermAssumption DEF Term
<1>2. ASSUME NEW n \in Node
      PROVE  /\ state[n] \in NodeState /\ quorum_state[n] \in QuorumStates
             /\ Quorum(state[n]) = quorum_state[n] /\ state[n].log_end_offset = 0
             /\ state[n].current_term = 0
  BY <1>1, <1>2 DEF Init, FromStores, NodeState, QuorumStates, Quorum
<1>3. TypeOK
  <2>1. /\ state \in [Node -> NodeState] /\ quorum_state \in [Node -> QuorumStates]
    BY <1>2 DEF Init
  <2>2. /\ log \in [Node -> Seq(Term)] /\ storage \in [Node -> Seq(StorageAction)]
    BY <1>1 DEF Init
  <2> QED
    BY <2>1, <2>2 DEF Init, TypeOK, E!TypeOK
<1>4. BatchReaches
  <2>1. ASSUME NEW n \in Node
        PROVE  Reaches(quorum_state[n], Len(log[n]), storage[n], state[n])
    <3>1. storage[n] = <<>> /\ Len(log[n]) = 0 /\ 0 \in Nat
      BY <1>1 DEF Init
    <3> QED
      BY <1>2, <3>1, ReachesIdle
  <2> QED
    BY <2>1 DEF BatchReaches
<1>5. TermsStarted /\ DownIsIdle
  BY <1>2 DEF Init, TermsStarted, Started, Sent, DownIsIdle
<1> QED
  BY <1>3, <1>4, <1>5 DEF LoopInv

\* The receiver of an envelope.
LEMMA DestType ==
    ASSUME LoopInv, NEW m \in msgs
    PROVE  m.dest \in Node
BY DEF LoopInv, TypeOK, Message

\* Every step keeps the invariant, and a save takes nothing back.
LEMMA NextLoop ==
    LoopInv /\ [Next]_vars =>
        LoopInv' /\ \A k \in Node : Advances(quorum_state[k], quorum_state'[k])
<1> SUFFICES ASSUME LoopInv, [Next]_vars
             PROVE  LoopInv' /\ \A k \in Node : Advances(quorum_state[k], quorum_state'[k])
  OBVIOUS
<1>0. \A k \in Node : Advances(quorum_state[k], quorum_state[k])
  BY AdvancesOrder DEF LoopInv, TypeOK
<1>1. ASSUME NEW n \in Node, Write(n)
      PROVE  LoopInv' /\ \A k \in Node : Advances(quorum_state[k], quorum_state'[k])
  BY <1>1, WriteKeeps
<1>2. ASSUME NEW n \in Node, Transmit(n)
      PROVE  LoopInv' /\ UNCHANGED quorum_state
  BY <1>2, TransmitKeeps
<1>3. ASSUME NEW n \in Node, Crash(n) \/ SendFails(n) \/ Restart(n)
      PROVE  LoopInv' /\ UNCHANGED quorum_state
  BY <1>3, EndsKeep
<1>4. ASSUME NEW n \in Node, handle_election_timeout(n)
      PROVE  LoopInv' /\ UNCHANGED quorum_state
  BY Zenon, <1>4, TimeoutKeeps DEF handle_election_timeout, Handled, disk
<1>5. ASSUME NEW n \in Node, handle_check_quorum(n)
      PROVE  LoopInv' /\ UNCHANGED quorum_state
  BY Zenon, <1>5, CheckQuorumKeeps DEF handle_check_quorum, Handled, disk
<1>6. ASSUME NEW n \in Node, NEW c \in Node, PeerPreVote(n, c)
      PROVE  LoopInv' /\ UNCHANGED quorum_state
  BY <1>6, PeerPreVoteKeeps
<1>7. ASSUME NEW n \in Node, NEW c \in Fetchers, NEW request \in BOOLEAN,
             NEW e \in 0 .. quorum_state[c].current_term, handle_fetch(n, c, e, request)
      PROVE  LoopInv' /\ UNCHANGED quorum_state
  BY Zenon, <1>7, FetchKeeps, FetchersAssumption DEF handle_fetch, Handled, disk
<1>8. ASSUME NEW m \in msgs, handle_vote_request(m.dest, m)
      PROVE  LoopInv' /\ UNCHANGED quorum_state
  BY Zenon, <1>8, VoteRequestKeeps, DestType DEF handle_vote_request, Handled, disk
<1>9. ASSUME NEW m \in msgs, handle_pre_vote_request(m.dest, m)
      PROVE  LoopInv' /\ UNCHANGED quorum_state
  BY Zenon, <1>9, PreVoteRequestKeeps, DestType DEF handle_pre_vote_request, Handled, disk
<1>10. ASSUME NEW m \in msgs, handle_vote_response(m.dest, m)
      PROVE  LoopInv' /\ UNCHANGED quorum_state
  BY Zenon, <1>10, VoteResponseKeeps, DestType DEF handle_vote_response, Handled, disk
<1>11. ASSUME NEW m \in msgs, handle_pre_vote_response(m.dest, m)
      PROVE  LoopInv' /\ UNCHANGED quorum_state
  BY Zenon, <1>11, PreVoteResponseKeeps, DestType DEF handle_pre_vote_response, Handled, disk
<1>12. CASE UNCHANGED vars
  <2>1. UNCHANGED <<state, storage, network, quorum_state, log, msgs, ballots, elections>>
    BY <1>12 DEF vars, memory, disk, history
  <2> QED
    BY <1>0, <2>1 DEF LoopInv, TypeOK, E!TypeOK, BatchReaches, TermsStarted, Started, Sent,
       DownIsIdle
<1> QED
  BY Zenon, <1>0, <1>1, <1>2, <1>3, <1>4, <1>5, <1>6, <1>7, <1>8, <1>9, <1>10, <1>11, <1>12
     DEF Next, Io

-----------------------------------------------------------------------------
(* What the invariant says. *)

\* No saved vote is replaced by another one of its term, and no saved term by
\* an earlier one, whatever is lost with a batch (io_action.rs, execute;
\* event_loop.rs, handle_check_quorum).
THEOREM SavedVoteStableHolds == Spec => SavedVoteStable
<1>1. LoopInv /\ [Next]_vars =>
        [\A n \in Node :
           LET q == quorum_state[n]
               r == quorum_state'[n]
           IN  /\ r.current_term >= q.current_term
               /\ (r.current_term = q.current_term /\ q.voted_for # Nil) =>
                      r.voted_for = q.voted_for]_vars
  BY NextLoop DEF Advances
<1> QED
  BY <1>1, InitLoop, NextLoop, PTL DEF Spec, SavedVoteStable

\* Only a candidacy starts a term, and every variable keeps its type
\* (event_loop.rs, handle_rpc).
THEOREM TermsHaveCandidatesHolds == Spec => []TermsHaveCandidates
<1>1. LoopInv => TermsHaveCandidates
  <2>1. LoopInv => \A n \in Node : state[n].current_term \in Nat
    BY MaxTermAssumption DEF LoopInv, TypeOK, NodeState, Term
  <2> QED
    BY <2>1 DEF LoopInv, TermsStarted, Started, TermsHaveCandidates
<1> QED
  BY <1>1, InitLoop, NextLoop, PTL DEF Spec

-----------------------------------------------------------------------------
(* Cardinalities. *)

\* What the proofs use of cardinalities.  It is proved at the end, where the
\* theorems on finite sets come into scope.
CardinalityFacts ==
    /\ Cardinality({}) = 0
    /\ \A x : Cardinality({x}) = 1
    /\ Cardinality(Voters) \in Nat
    /\ \A S \in SUBSET Voters :
          Cardinality(S) \in Nat /\ \A R \in SUBSET S : Cardinality(R) <= Cardinality(S)

-----------------------------------------------------------------------------
(* A batch that is done. *)

\* The last save of a batch is what the store will hold.
LEMMA LastSave ==
    ASSUME NEW n \in Node, NEW k \in Saves(n), \A j \in Saves(n) : j <= k
    PROVE  Settled(n) = storage[n][k].quorum
<1> DEFINE last == CHOOSE i \in Saves(n) : \A j \in Saves(n) : j <= i
<1>1. last \in Saves(n) /\ \A j \in Saves(n) : j <= last
  BY Zenon
<1> HIDE DEF last
<1>2. last = k
  BY <1>1 DEF Saves
<1> QED
  BY Zenon, <1>2 DEF Settled, last

\* The actions of a batch, by its shape.
LEMMA Shapes ==
    ASSUME NEW n \in Node, NEW q \in QuorumStates, NEW r \in QuorumStates,
           NEW len \in Nat, NEW t \in Term
    PROVE  /\ storage[n] = <<>> => Saves(n) = {} /\ Appends(n) = {}
           /\ storage[n] = <<AppendLog(len, t)>> => Saves(n) = {} /\ Appends(n) = {1}
           /\ storage[n] = <<Save(q)>> => Saves(n) = {1} /\ Appends(n) = {}
           /\ storage[n] = <<Save(q), AppendLog(len, t)>> => Saves(n) = {1} /\ Appends(n) = {2}
           /\ storage[n] = <<Save(r), Save(q)>> => Saves(n) = {1, 2} /\ Appends(n) = {}
           /\ storage[n] = <<Save(r), Save(q), AppendLog(len, t)>> =>
                Saves(n) = {1, 2} /\ Appends(n) = {3}
<1> DEFINE a == AppendLog(len, t)
           x == Save(q)
           y == Save(r)
<1>1. /\ a.op = "AppendLog" /\ x.op = "PersistQuorumState" /\ y.op = "PersistQuorumState"
  BY ActionType
<1> HIDE DEF a, x, y
<1>2. storage[n] = <<>> => Saves(n) = {} /\ Appends(n) = {}
  BY DEF Saves, Appends
<1>3. storage[n] = <<a>> => Saves(n) = {} /\ Appends(n) = {1}
  BY <1>1 DEF Saves, Appends
<1>4. storage[n] = <<x>> => Saves(n) = {1} /\ Appends(n) = {}
  BY <1>1 DEF Saves, Appends
<1>5. storage[n] = <<x, a>> => Saves(n) = {1} /\ Appends(n) = {2}
  BY <1>1 DEF Saves, Appends
<1>6. storage[n] = <<y, x>> => Saves(n) = {1, 2} /\ Appends(n) = {}
  BY <1>1 DEF Saves, Appends
<1>7. storage[n] = <<y, x, a>> => Saves(n) = {1, 2} /\ Appends(n) = {3}
  BY <1>1 DEF Saves, Appends
<1> QED
  BY <1>2, <1>3, <1>4, <1>5, <1>6, <1>7 DEF a, x, y

\* Once a batch is done the stores hold what the handler left in memory.
LEMMA BatchSettles ==
    ASSUME CardinalityFacts, LoopInv, NEW n \in Node
    PROVE  /\ Settled(n) = PersistQuorumState(state[n]).quorum
           /\ state[n].log_end_offset = Len(log[n]) + Cardinality(Appends(n))
           /\ \A i \in Appends(n) : storage[n][i].offset = Len(log[n])
<1> DEFINE s == state[n]
           m == Quorum(s)
           len == Len(log[n])
           q == quorum_state[n]
<1>1. s \in NodeState /\ q \in QuorumStates /\ len \in Nat /\ Reaches(q, len, storage[n], s)
  BY DEF LoopInv, TypeOK, BatchReaches
<1>2. m \in QuorumStates /\ PersistQuorumState(s).quorum = m
  BY Zenon, <1>1, QuorumType DEF Quorum, PersistQuorumState
<1>3. PICK t \in Term, r \in QuorumStates : ReachesBy(q, len, storage[n], s, t, r)
  BY <1>1 DEF Reaches
<1>4. /\ Save(m).quorum = m /\ Save(r).quorum = r /\ AppendLog(len, t).offset = len
  BY <1>1, <1>2, ActionType
<1>5. /\ Cardinality({}) = 0 /\ Cardinality({1}) = 1 /\ Cardinality({2}) = 1
      /\ Cardinality({3}) = 1 /\ len \in Nat
  BY Zenon, <1>1 DEF CardinalityFacts
<1> HIDE DEF s, m, len, q
<1>6. CASE q = m /\ storage[n] = <<>> /\ s.log_end_offset = len
  <2>1. Saves(n) = {} /\ Appends(n) = {}
    BY <1>1, <1>2, <1>6, Shapes
  <2>2. Settled(n) = m
    BY Zenon, <1>6, <2>1 DEF Settled, q
  <2> QED
    BY <1>2, <1>5, <1>6, <2>1, <2>2 DEF s, m, len
<1>7. CASE q = m /\ storage[n] = <<AppendLog(len, t)>> /\ s.log_end_offset = len + 1
  <2>1. Saves(n) = {} /\ Appends(n) = {1} /\ storage[n][1] = AppendLog(len, t)
    BY <1>1, <1>2, <1>7, Shapes
  <2>2. Settled(n) = m
    BY Zenon, <1>7, <2>1 DEF Settled, q
  <2> QED
    BY <1>2, <1>4, <1>5, <1>7, <2>1, <2>2 DEF s, m, len
<1>8. CASE storage[n] = <<Save(m)>> /\ s.log_end_offset = len
  <2>1. Saves(n) = {1} /\ Appends(n) = {} /\ storage[n][1] = Save(m)
    BY <1>1, <1>2, <1>8, Shapes
  <2>2. Settled(n) = m
    BY <1>4, <2>1, LastSave
  <2> QED
    BY <1>2, <1>5, <1>8, <2>1, <2>2 DEF s, m, len
<1>9. CASE storage[n] = <<Save(m), AppendLog(len, t)>> /\ s.log_end_offset = len + 1
  <2>1. /\ Saves(n) = {1} /\ Appends(n) = {2} /\ storage[n][1] = Save(m)
        /\ storage[n][2] = AppendLog(len, t)
    BY <1>1, <1>2, <1>9, Shapes
  <2>2. Settled(n) = m
    BY <1>4, <2>1, LastSave
  <2> QED
    BY <1>2, <1>4, <1>5, <1>9, <2>1, <2>2 DEF s, m, len
<1>10. CASE storage[n] = <<Save(r), Save(m)>> /\ s.log_end_offset = len
  <2>1. Saves(n) = {1, 2} /\ Appends(n) = {} /\ storage[n][2] = Save(m)
    BY <1>1, <1>2, <1>10, Shapes
  <2>2. Settled(n) = m
    BY <1>4, <2>1, LastSave
  <2> QED
    BY <1>2, <1>5, <1>10, <2>1, <2>2 DEF s, m, len
<1>11. CASE storage[n] = <<Save(r), Save(m), AppendLog(len, t)>> /\ s.log_end_offset = len + 1
  <2>1. /\ Saves(n) = {1, 2} /\ Appends(n) = {3} /\ storage[n][2] = Save(m)
        /\ storage[n][3] = AppendLog(len, t)
    BY <1>1, <1>2, <1>11, Shapes
  <2>2. Settled(n) = m
    BY <1>4, <2>1, LastSave
  <2> QED
    BY <1>2, <1>4, <1>5, <1>11, <2>1, <2>2 DEF s, m, len
<1> QED
  BY Zenon, <1>3, <1>6, <1>7, <1>8, <1>9, <1>10, <1>11 DEF ReachesBy, m
-----------------------------------------------------------------------------
(* The election, when no loop ends with a batch under way. *)

\* No ballot is above what its voter remembers, and it remembers the vote of
\* its own term.
MemoryCoversBallots ==
    \A b \in ballots :
        LET s == state[b.voter]
        IN  /\ b.term <= s.current_term
            /\ b.term = s.current_term => s.voted_for = b.candidate

\* A candidate counts ballots cast for it in its term.
VotesAreBallots ==
    \A n \in Node : state[n].role = "Candidate" =>
        state[n].votes_received \subseteq E!Support(ballots, state[n].current_term, n)

\* A granted vote is a ballot.
GrantsAreBallots ==
    \A m \in Sent : IsGrant(m) => E!Ballot(m.source, m.term, m.dest) \in ballots

ElectionInv == MemoryCoversBallots /\ VotesAreBallots /\ GrantsAreBallots

\* A node without a batch under way has saved what it remembers.
LEMMA IdleSaved ==
    ASSUME LoopInv, NEW n \in Node, storage[n] = <<>>
    PROVE  quorum_state[n] = Quorum(state[n])
<1>1. state[n] \in NodeState /\ quorum_state[n] \in QuorumStates /\ Len(log[n]) \in Nat
      /\ Reaches(quorum_state[n], Len(log[n]), <<>>, state[n])
  BY DEF LoopInv, TypeOK, BatchReaches
<1> QED
  BY <1>1, ReachesIdle

\* What a handler must do for the ballots to go on as memory has them.
LEMMA ElectionKeeps ==
    ASSUME LoopInv, LoopInv', ElectionInv, NEW n \in Node,
           storage[n] = <<>>, UNCHANGED quorum_state,
           \A k \in Node \ {n} : state'[k] = state[k],
           ballots \subseteq ballots',
           \A b \in ballots' \ ballots :
              /\ b.voter = n
              /\ b.term = state'[n].current_term
              /\ b.candidate = state'[n].voted_for,
           state'[n].role = "Candidate" =>
              state'[n].votes_received \subseteq
                  E!Support(ballots', state'[n].current_term, n),
           \A m \in Sent' : IsGrant(m) =>
              m \in Sent \/ E!Ballot(m.source, m.term, m.dest) \in ballots'
    PROVE  ElectionInv'
<1>1. /\ state[n] \in NodeState /\ state'[n] \in NodeState /\ quorum_state[n] \in QuorumStates
      /\ Len(log'[n]) \in Nat /\ quorum_state'[n] \in QuorumStates
      /\ Reaches(quorum_state'[n], Len(log'[n]), storage'[n], state'[n])
      /\ ballots \subseteq [voter : Node, term : Term, candidate : Node]
      /\ ballots' \subseteq [voter : Node, term : Term, candidate : Node]
  <2>1. TypeOK /\ TypeOK' /\ BatchReaches'
    BY Zenon DEF LoopInv
  <2>2. state[n] \in NodeState /\ quorum_state[n] \in QuorumStates
    BY Zenon, <2>1 DEF TypeOK
  <2>3. state'[n] \in NodeState /\ quorum_state'[n] \in QuorumStates /\ log'[n] \in Seq(Term)
    BY Zenon, <2>1 DEF TypeOK
  <2>4. Len(log'[n]) \in Nat
    BY <2>3
  <2>5. Reaches(quorum_state'[n], Len(log'[n]), storage'[n], state'[n])
    BY Zenon, <2>1 DEF BatchReaches
  <2>6. E!TypeOK /\ E!TypeOK'
    BY Zenon, <2>1 DEF TypeOK
  <2>7. /\ ballots \subseteq [voter : Node, term : Term, candidate : Node]
        /\ ballots' \subseteq [voter : Node, term : Term, candidate : Node]
    BY Zenon, <2>6 DEF E!TypeOK, E!Term, Term
  <2> QED
    BY Zenon, <2>2, <2>3, <2>4, <2>5, <2>7
<1>2. Advances(Quorum(state[n]), Quorum(state'[n]))
  BY <1>1, IdleSaved, ReachesType
<1>3. /\ state'[n].current_term >= state[n].current_term
      /\ (state'[n].current_term = state[n].current_term /\ state[n].voted_for # Nil) =>
            state'[n].voted_for = state[n].voted_for
      /\ state[n].current_term \in Nat /\ state'[n].current_term \in Nat
  <2>1. /\ state'[n].current_term >= state[n].current_term
        /\ (state'[n].current_term = state[n].current_term /\ state[n].voted_for # Nil) =>
              state'[n].voted_for = state[n].voted_for
    BY <1>2 DEF Advances, Quorum
  <2>2. state[n].current_term \in Nat /\ state'[n].current_term \in Nat
    <3>1. state[n].current_term \in Term /\ state'[n].current_term \in Term
      BY Zenon, <1>1 DEF NodeState
    <3> QED
      BY <3>1, MaxTermAssumption DEF Term
  <2> QED
    BY Zenon, <2>1, <2>2
<1>4. MemoryCoversBallots'
  <2> SUFFICES ASSUME NEW b \in ballots'
               PROVE  /\ b.term <= state'[b.voter].current_term
                      /\ b.term = state'[b.voter].current_term =>
                            state'[b.voter].voted_for = b.candidate
    BY DEF MemoryCoversBallots
  <2>0. b \in [voter : Node, term : Term, candidate : Node]
    BY Zenon, <1>1
  <2>1. b.voter \in Node /\ b.term \in Nat /\ b.candidate # Nil
    BY <2>0, NilAssumption, MaxTermAssumption DEF Term
  <2>2. CASE b \in ballots /\ b.voter = n
    <3>1. /\ b.term <= state[n].current_term
          /\ b.term = state[n].current_term => state[n].voted_for = b.candidate
      BY <2>2 DEF ElectionInv, MemoryCoversBallots
    <3> QED
      BY <1>3, <2>1, <2>2, <3>1
  <2>3. CASE b \in ballots /\ b.voter # n
    BY <2>1, <2>3 DEF ElectionInv, MemoryCoversBallots
  <2>4. CASE b \notin ballots
    BY <1>3, <2>4
  <2> QED
    BY <2>2, <2>3, <2>4
<1>5. VotesAreBallots'
  <2> SUFFICES ASSUME NEW k \in Node, state'[k].role = "Candidate"
               PROVE  state'[k].votes_received \subseteq
                        E!Support(ballots', state'[k].current_term, k)
    BY DEF VotesAreBallots
  <2>1. CASE k = n
    BY <2>1
  <2>2. CASE k # n
    BY <2>2 DEF ElectionInv, VotesAreBallots, E!Support
  <2> QED
    BY <2>1, <2>2
<1>6. GrantsAreBallots'
  BY DEF ElectionInv, GrantsAreBallots, IsGrant
<1> QED
  BY <1>4, <1>5, <1>6 DEF ElectionInv

\* A handler that casts no ballot and sends no vote.
LEMMA NoBallot ==
    ASSUME LoopInv, LoopInv', ElectionInv, NEW n \in Node, storage[n] = <<>>,
           NEW s, state' = [state EXCEPT ![n] = s],
           UNCHANGED <<quorum_state, ballots>>,
           s.role = "Candidate" =>
              /\ state[n].role = "Candidate" /\ s.current_term = state[n].current_term
              /\ s.votes_received \subseteq
                   state[n].votes_received \cup E!Support(ballots, s.current_term, n),
           \A m \in Sent' : IsGrant(m) => m \in Sent
    PROVE  ElectionInv'
<1>1. state'[n] = s /\ \A k \in Node \ {n} : state'[k] = state[k]
  BY DEF LoopInv, TypeOK
<1>2. s.role = "Candidate" => s.votes_received \subseteq E!Support(ballots, s.current_term, n)
  BY DEF ElectionInv, VotesAreBallots
<1>3. s.role = "Candidate" =>
        state'[n].votes_received \subseteq E!Support(ballots', state'[n].current_term, n)
  BY <1>1, <1>2
<1> QED
  BY <1>1, <1>3, ElectionKeeps

\* What a handler of n sends.
LEMMA HandledSends ==
    ASSUME LoopInv, NEW n \in Node, NEW s, NEW w, NEW sends, Handled(n, s, w, sends)
    PROVE  Sent' \subseteq Sent \cup sends /\ UNCHANGED <<quorum_state, log>>
           /\ state' = [state EXCEPT ![n] = s]
<1>1. /\ network' = [network EXCEPT ![n] = sends] /\ UNCHANGED <<msgs, quorum_state, log>>
      /\ network \in [Node -> SUBSET Message] /\ state' = [state EXCEPT ![n] = s]
  BY DEF Handled, disk, LoopInv, TypeOK
<1> QED
  BY <1>1 DEF Sent

\* A vote that memory allows is a ballot that may be cast.
LEMMA MayCastNew ==
    ASSUME LoopInv, ElectionInv, NEW n \in Node, NEW t \in Nat, NEW c \in Node,
           \/ t > state[n].current_term
           \/ t = state[n].current_term /\ state[n].voted_for \in {Nil, c}
    PROVE  E!MayCast(n, t, c)
<1> SUFFICES ASSUME NEW b \in ballots, b.voter = n
             PROVE  b.term < t \/ b = E!Ballot(n, t, c)
  BY DEF E!MayCast
<1>1. b \in [voter : Node, term : Term, candidate : Node] /\ state[n].current_term \in Nat
  BY MaxTermAssumption DEF LoopInv, TypeOK, E!TypeOK, E!Term, Term, NodeState
<1>2. b.term \in Nat /\ b.candidate # Nil
  BY <1>1, NilAssumption, MaxTermAssumption DEF Term
<1>3. /\ b.term <= state[n].current_term
      /\ b.term = state[n].current_term => state[n].voted_for = b.candidate
  BY DEF ElectionInv, MemoryCoversBallots
<1>4. b.term < t \/ (b.term = t /\ b.candidate = c)
  BY <1>1, <1>2, <1>3
<1> QED
  BY <1>1, <1>4 DEF E!Ballot

\* The instance of Election counts with the same Cardinality.
LEMMA SameCardinality == \A S : E!Cardinality(S) = Cardinality(S)
BY Zenon DEF Cardinality, E!Cardinality

LEMMA TimeoutElection ==
    ASSUME CardinalityFacts, LoopInv, LoopInv', ElectionInv, NEW n \in Node,
           handle_election_timeout(n)
    PROVE  ElectionInv' /\ E!Next
<1>0. PICK s : s = become_candidate(state[n], n)
  OBVIOUS
<1>1. /\ Idle(n) /\ n \in Voters /\ s.current_term <= MaxTerm
      /\ ballots' = ballots \cup {E!Ballot(n, s.current_term, n)}
  BY Zenon, <1>0 DEF handle_election_timeout
<1>2. state[n] \in NodeState /\ state[n].current_term \in Nat
  BY <1>1, IdleState
<1>3. s.current_term = state[n].current_term + 1
  BY <1>0, <1>2 DEF become_candidate, NodeState
<1>4. /\ s \in NodeState /\ s.role = "Candidate" /\ s.current_term \in Term /\ s.voted_for = n
      /\ s.votes_received = {n}
  BY <1>0, <1>1, <1>2, <1>3, CandidateState
<1> DEFINE t == s.current_term
<1> HIDE DEF t
<1>5. E!Cast(n, t, n) /\ t \in E!Term
  BY <1>1, <1>2, <1>3, <1>4, MayCastNew DEF E!Cast, E!Term, Term, t
<1>6. n \in E!Support(ballots', t, n)
  BY <1>1 DEF E!Support, t
<1>7. \A b \in ballots' \ ballots : b.voter = n /\ b.term = t /\ b.candidate = n
  BY <1>1 DEF E!Ballot, t
<1>8. CASE /\ Cardinality(Voters) = 1
           /\ Handled(n, Led(n, s), <<PersistQuorumState(s)>> \o on_become_leader(n, s), {})
           /\ elections' = elections \cup {E!Election(t, n)}
  <2> DEFINE d == Led(n, s)
  <2>1. d.role = "Leader" /\ d.current_term = t /\ d.voted_for = n
    BY <1>4, LedReaches DEF t
  <2> HIDE DEF d
  <2>2. state' = [state EXCEPT ![n] = d] /\ Sent' \subseteq Sent /\ UNCHANGED quorum_state
    BY <1>8, HandledSends DEF d
  <2>3. state'[n] = d /\ \A k \in Node \ {n} : state'[k] = state[k]
    BY <2>2 DEF LoopInv, TypeOK
  <2>4. ElectionInv'
    BY <1>1, <1>7, <2>1, <2>2, <2>3, ElectionKeeps DEF Idle
  <2>5. E!Majority(E!Support(ballots', t, n), Voters)
    <3> DEFINE P == E!Support(ballots', t, n)
    <3>1. P \in SUBSET Voters /\ {n} \in SUBSET P
      BY <1>6 DEF E!Support
    <3> HIDE DEF P
    <3>2. Cardinality({n}) <= Cardinality(P) /\ Cardinality({n}) = 1 /\ Cardinality(P) \in Nat
      BY Zenon, <3>1 DEF CardinalityFacts
    <3>3. 1 \div 2 + 1 = 1
      OBVIOUS
    <3> QED
      BY <1>8, <3>2, <3>3, SameCardinality DEF E!Majority, P
  <2>6. E!Win(t, n)
    BY <1>8, <2>5 DEF E!Win
  <2> QED
    BY <1>5, <2>4, <2>6 DEF E!Next
<1>9. CASE /\ Handled(n, s, <<PersistQuorumState(s)>>,
                      {VoteRequest(s, n, v, s.current_term, FALSE) : v \in Voters \ {n}})
           /\ UNCHANGED elections
  <2> DEFINE sends == {VoteRequest(s, n, v, s.current_term, FALSE) : v \in Voters \ {n}}
  <2>1. ASSUME NEW m \in sends
        PROVE  ~IsGrant(m)
    BY DEF VoteRequest, IsGrant
  <2>2. state' = [state EXCEPT ![n] = s] /\ Sent' \subseteq Sent \cup sends
        /\ UNCHANGED quorum_state
    BY Zenon, <1>9, HandledSends
  <2> HIDE DEF sends
  <2>3. state'[n] = s /\ \A k \in Node \ {n} : state'[k] = state[k]
    BY <2>2 DEF LoopInv, TypeOK
  <2>4. \A m \in Sent' : IsGrant(m) => m \in Sent
    BY Zenon, <2>1, <2>2
  <2>5. /\ s.current_term = t /\ storage[n] = <<>> /\ ballots \subseteq ballots'
        /\ s.votes_received \subseteq E!Support(ballots', t, n)
    BY <1>1, <1>4, <1>6 DEF Idle, t
  <2>6. ElectionInv'
    BY <1>4, <1>7, <2>2, <2>3, <2>4, <2>5, ElectionKeeps
  <2> QED
    BY <1>5, <1>9, <2>6 DEF E!Next
<1> QED
  BY Zenon, <1>0, <1>8, <1>9 DEF handle_election_timeout, t

LEMMA VoteRequestElection ==
    ASSUME LoopInv, LoopInv', ElectionInv, NEW m \in msgs, NEW n \in Node,
           handle_vote_request(n, m)
    PROVE  ElectionInv' /\ (E!Next \/ UNCHANGED <<ballots, elections>>)
<1> DEFINE p == state[n]
<1>0. Receives(n, m, "VoteRequest", FALSE)
  BY Zenon DEF handle_vote_request
<1>1. Idle(n) /\ m.source \in Node /\ m.term \in Term /\ m.term \in Nat /\ storage[n] = <<>>
  BY Zenon, <1>0, ReceivedType DEF Idle
<1>2. p \in NodeState /\ p.current_term \in Nat
  BY <1>1, IdleState
<1>3. PICK s : s = StepDown(p, m.term)
  OBVIOUS
<1>4. /\ s \in NodeState /\ s.current_term \in {p.current_term, m.term}
      /\ s.current_term >= m.term /\ s.current_term >= p.current_term
      /\ s = p \/ (s.role = "Follower" /\ s.current_term > p.current_term)
      /\ s.current_term \in Nat
  BY Zenon, <1>1, <1>2, <1>3, StepDownReaches
<1>5. s.role = "Candidate" => s = p
  BY <1>4
<1>6. CASE Grants(s, m)
  <2>1. PICK v : v = [s EXCEPT !.voted_for = m.source]
    BY Zenon
  <2>2. v \in NodeState /\ v.role = s.role /\ v.current_term = s.current_term
        /\ v.votes_received = s.votes_received /\ v.voted_for = m.source
    BY <1>1, <1>4, <2>1 DEF NodeState
  <2>3. s.voted_for \in {Nil, m.source}
    BY <1>6 DEF Grants
  <2> DEFINE r == VoteResponse(n, m.source, s.current_term, TRUE, FALSE)
  <2>4. /\ Handled(n, v, StepDownWrites(p, m.term) \o <<PersistQuorumState(v)>>, {r})
        /\ UNCHANGED elections
        /\ ballots' = ballots \cup {E!Ballot(n, s.current_term, m.source)}
    BY <1>3, <1>6, <2>1 DEF handle_vote_request
  <2>5. r.source = n /\ r.dest = m.source /\ r.term = s.current_term
    BY DEF VoteResponse
  <2> HIDE DEF r
  <2>6. state' = [state EXCEPT ![n] = v] /\ Sent' \subseteq Sent \cup {r}
        /\ UNCHANGED quorum_state
    BY Zenon, <2>4, HandledSends
  <2>7. state'[n] = v /\ \A k \in Node \ {n} : state'[k] = state[k]
    BY <2>6 DEF LoopInv, TypeOK
  <2>8. E!MayCast(n, s.current_term, m.source)
    BY <1>1, <1>2, <1>4, <2>3, MayCastNew
  <2>9. E!Cast(n, s.current_term, m.source) /\ s.current_term \in E!Term
    BY <1>4, <2>4, <2>8 DEF E!Cast, E!Term, NodeState, Term
  <2>10. \A b \in ballots' \ ballots :
            b.voter = n /\ b.term = s.current_term /\ b.candidate = m.source
    BY <2>4 DEF E!Ballot
  <2>11. v.role = "Candidate" =>
            v.votes_received \subseteq E!Support(ballots', v.current_term, n)
    BY Zenon, <1>5, <2>2, <2>4 DEF ElectionInv, VotesAreBallots, E!Support
  <2>12. \A x \in Sent' : IsGrant(x) =>
            x \in Sent \/ E!Ballot(x.source, x.term, x.dest) \in ballots'
    BY <2>4, <2>5, <2>6
  <2>13. ElectionInv'
    BY Zenon, <1>1, <2>2, <2>4, <2>6, <2>7, <2>10, <2>11, <2>12, ElectionKeeps
  <2> QED
    BY Zenon, <1>1, <2>4, <2>9, <2>13 DEF E!Next
<1>7. CASE ~Grants(s, m)
  <2>0. Grants(s, m) = FALSE
    BY <1>7 DEF Grants
  <2> DEFINE r == VoteResponse(n, m.source, s.current_term, FALSE, FALSE)
  <2>1. PICK sends \in {{}, {r}} :
            Handled(n, s, StepDownWrites(p, m.term) \o <<>>, sends)
    BY Zenon, <1>3, <1>7, <2>0 DEF handle_vote_request
  <2>2. ~IsGrant(r)
    BY DEF VoteResponse, IsGrant
  <2> HIDE DEF r
  <2>3. UNCHANGED <<ballots, elections>>
    BY <1>3, <1>7 DEF handle_vote_request
  <2>4. state' = [state EXCEPT ![n] = s] /\ Sent' \subseteq Sent \cup {r}
        /\ UNCHANGED quorum_state
    BY <2>1, HandledSends
  <2>5. \A x \in Sent' : IsGrant(x) => x \in Sent
    BY <2>2, <2>4
  <2>6. ElectionInv'
    BY Zenon, <1>1, <1>5, <2>3, <2>4, <2>5, NoBallot
  <2> QED
    BY <2>3, <2>6
<1> QED
  BY <1>6, <1>7

\* The votes a candidate counts are a majority of ballots once they are a
\* majority of the voters.
LEMMA CountedMajority ==
    ASSUME CardinalityFacts, NEW t, NEW n, NEW B, NEW votes,
           votes \subseteq E!Support(B, t, n), E!Majority(votes, Voters)
    PROVE  E!Majority(E!Support(B, t, n), Voters)
<1> DEFINE S == E!Support(B, t, n)
<1>1. S \in SUBSET Voters /\ votes \in SUBSET S /\ votes \in SUBSET Voters
  BY DEF E!Support
<1> HIDE DEF S
<1>2. /\ Cardinality(votes) \in Nat /\ Cardinality(S) \in Nat /\ Cardinality(Voters) \in Nat
      /\ Cardinality(votes) <= Cardinality(S)
  BY Zenon, <1>1 DEF CardinalityFacts
<1>3. Cardinality(votes) >= Cardinality(Voters) \div 2 + 1
  BY SameCardinality DEF E!Majority
<1>4. Cardinality(S) >= Cardinality(Voters) \div 2 + 1
  BY <1>2, <1>3
<1> QED
  BY <1>4, SameCardinality DEF E!Majority, S

LEMMA VoteResponseElection ==
    ASSUME CardinalityFacts, LoopInv, LoopInv', ElectionInv, NEW m \in msgs, NEW n \in Node,
           handle_vote_response(n, m)
    PROVE  ElectionInv' /\ (E!Next \/ UNCHANGED <<ballots, elections>>)
<1> DEFINE p == state[n]
           s == record_vote(p, m.source)
<1>0. Receives(n, m, "VoteResponse", FALSE) /\ UNCHANGED ballots
  BY Zenon DEF handle_vote_response
<1>1. /\ Idle(n) /\ m.source \in Node /\ m.term \in Term /\ storage[n] = <<>>
      /\ m \in Sent /\ m.dest = n
  BY Zenon, <1>0, ReceivedType DEF Idle
<1>2. p \in NodeState /\ p.current_term \in Term
  BY <1>1, IdleState
<1>3. CASE /\ m.term > p.current_term
           /\ Handled(n, StepDown(p, m.term), StepDownWrites(p, m.term), {})
           /\ UNCHANGED elections
  <2> DEFINE r == StepDown(p, m.term)
  <2>1. r.role = "Follower"
    BY <1>2, <1>3 DEF StepDown, become_follower, NodeState
  <2> HIDE DEF r
  <2>2. state' = [state EXCEPT ![n] = r] /\ Sent' \subseteq Sent /\ UNCHANGED quorum_state
    BY <1>3, HandledSends DEF r
  <2>3. ElectionInv'
    BY Zenon, <1>0, <1>1, <2>1, <2>2, NoBallot
  <2> QED
    BY <1>0, <1>3, <2>3
<1>4. /\ s.current_term = p.current_term /\ s.role = p.role /\ s \in NodeState
      /\ s.votes_received = p.votes_received \cup {m.source}
  BY <1>1, <1>2 DEF record_vote, NodeState
<1> HIDE DEF s
<1>5. CASE /\ p.role = "Candidate" /\ m.vote_granted /\ m.term = p.current_term
           /\ m.source \in Voters
           /\ IF E!Majority(s.votes_received, Voters)
              THEN /\ Handled(n, Led(n, s), on_become_leader(n, s), {})
                   /\ elections' = elections \cup {E!Election(s.current_term, n)}
              ELSE Handled(n, s, <<>>, {}) /\ UNCHANGED elections
  <2>1. IsGrant(m)
    BY <1>0, <1>5 DEF IsGrant, Receives
  <2>2. m.source \in E!Support(ballots, p.current_term, n)
    BY <1>1, <1>5, <2>1 DEF ElectionInv, GrantsAreBallots, E!Support
  <2>3. s.votes_received \subseteq E!Support(ballots, s.current_term, n)
    BY Zenon, <1>4, <1>5, <2>2 DEF ElectionInv, VotesAreBallots
  <2>4. CASE E!Majority(s.votes_received, Voters)
    <3> DEFINE d == Led(n, s)
    <3>1. d.role = "Leader"
      BY <1>4, LedReaches
    <3> HIDE DEF d
    <3>2. Handled(n, d, on_become_leader(n, s), {})
      BY Zenon, <1>5, <2>4 DEF d
    <3>3. state' = [state EXCEPT ![n] = d] /\ Sent' \subseteq Sent \cup {}
          /\ UNCHANGED quorum_state
      BY Zenon, <3>2, HandledSends
    <3>4. ElectionInv'
      <4>1. Sent' \subseteq Sent
        BY Zenon, <3>3
      <4> QED
        BY Zenon, <1>0, <1>1, <3>1, <3>3, <4>1, NoBallot
    <3>5. E!Majority(E!Support(ballots, s.current_term, n), Voters)
      BY <2>3, <2>4, CountedMajority
    <3>6. E!Win(s.current_term, n)
      BY Zenon, <1>0, <1>5, <2>4, <3>5 DEF E!Win, s
    <3>7. s.current_term \in E!Term
      BY <1>2, <1>4 DEF E!Term, Term
    <3> QED
      BY <1>0, <3>4, <3>6, <3>7 DEF E!Next
  <2>5. CASE ~E!Majority(s.votes_received, Voters)
    <3>1. state' = [state EXCEPT ![n] = s] /\ Sent' \subseteq Sent
          /\ UNCHANGED <<quorum_state, elections>>
      BY <1>5, <2>5, HandledSends
    <3>2. ElectionInv'
      BY Zenon, <1>0, <1>1, <1>4, <1>5, <2>3, <3>1, NoBallot
    <3> QED
      BY <1>0, <3>1, <3>2
  <2> QED
    BY <2>4, <2>5
<1> QED
  BY Zenon, <1>3, <1>5 DEF handle_vote_response, s

\* The steps that neither vote nor win.
LEMMA QuietElection ==
    ASSUME LoopInv, LoopInv', ElectionInv, NEW n \in Node, IoFaults = FALSE,
           \/ Io(n) \/ Crash(n) \/ SendFails(n) \/ Restart(n) \/ handle_check_quorum(n)
           \/ \E c \in Node : PeerPreVote(n, c)
           \/ \E c \in Node, e \in Term, request \in BOOLEAN : handle_fetch(n, c, e, request)
           \/ \E m \in msgs : handle_pre_vote_request(n, m) \/ handle_pre_vote_response(n, m)
    PROVE  ElectionInv' /\ UNCHANGED <<ballots, elections>>
<1>0. state \in [Node -> NodeState]
  BY DEF LoopInv, TypeOK
<1>1. ASSUME UNCHANGED <<state, ballots>>, \A m \in Sent' : IsGrant(m) => m \in Sent
      PROVE  ElectionInv'
  BY Zenon, <1>1 DEF ElectionInv, MemoryCoversBallots, VotesAreBallots, GrantsAreBallots, E!Support
<1>2. CASE Write(n)
  BY Zenon, <1>1, <1>2 DEF Write, Sent, history
<1>3. CASE Transmit(n)
  <2>1. Sent' \subseteq Sent /\ UNCHANGED <<state, ballots, elections>>
    BY <1>3, TransmitKeeps
  <2> QED
    BY <1>1, <2>1
<1>4. CASE Crash(n) \/ SendFails(n) \/ Restart(n)
  <2>1. storage[n] = <<>>
    BY Zenon, <1>4 DEF Crash, SendFails, Restart, Idle, LoopInv, DownIsIdle
  <2>2. PICK s \in OfStores(n) : state' = [state EXCEPT ![n] = s]
    BY <1>4, EndsKeep
  <2>3. Sent' \subseteq Sent /\ UNCHANGED <<quorum_state, ballots, elections>>
    BY <1>4, EndsKeep
  <2>4. s.role # "Candidate"
    BY OfStoresType
  <2> QED
    BY Zenon, <2>1, <2>2, <2>3, <2>4, NoBallot
<1>5. CASE handle_check_quorum(n)
  <2>1. PICK s, w : /\ s \in {[state[n] EXCEPT !.fetched = {}], LostQuorum(state[n])}
                    /\ Handled(n, s, w, {})
    BY <1>5 DEF handle_check_quorum
  <2>2. s.role # "Candidate"
    BY Zenon, <1>0, <1>5, <2>1 DEF handle_check_quorum, LostQuorum, become_follower, NodeState
  <2>3. state' = [state EXCEPT ![n] = s] /\ Sent' \subseteq Sent /\ UNCHANGED quorum_state
    BY <2>1, HandledSends
  <2>4. storage[n] = <<>> /\ UNCHANGED <<ballots, elections>>
    BY <1>5 DEF handle_check_quorum, Idle, history
  <2> QED
    BY Zenon, <2>2, <2>3, <2>4, NoBallot
<1>6. ASSUME NEW c \in Node, PeerPreVote(n, c)
      PROVE  ElectionInv' /\ UNCHANGED <<ballots, elections>>
  <2>1. UNCHANGED <<state, ballots, elections>>
        /\ \E x : ~IsGrant(x) /\ Sent' \subseteq Sent \cup {x}
    BY <1>6, PeerPreVoteKeeps
  <2> QED
    BY <1>1, <2>1
<1>7. ASSUME NEW c \in Node, NEW e \in Term, NEW request \in BOOLEAN,
             handle_fetch(n, c, e, request)
      PROVE  ElectionInv' /\ UNCHANGED <<ballots, elections>>
  <2> DEFINE r == StepDown(state[n], e)
  <2>1. PICK s, w : /\ s \in {r, [r EXCEPT !.fetched = @ \cup {c}]}
                    /\ Handled(n, s, w, {})
    BY <1>7 DEF handle_fetch
  <2>2. r \in NodeState /\ (r = state[n] \/ r.role = "Follower")
    BY <1>0, StepDownReaches
  <2> HIDE DEF r
  <2>3. s.role = r.role /\ s.current_term = r.current_term
        /\ s.votes_received = r.votes_received
    BY <2>1, <2>2 DEF NodeState
  <2>4. state' = [state EXCEPT ![n] = s] /\ Sent' \subseteq Sent /\ UNCHANGED quorum_state
    BY <2>1, HandledSends
  <2>5. storage[n] = <<>> /\ UNCHANGED <<ballots, elections>>
    BY <1>7 DEF handle_fetch, Idle, history
  <2> QED
    BY Zenon, <2>2, <2>3, <2>4, <2>5, NoBallot
<1>8. ASSUME NEW m \in msgs, handle_pre_vote_request(n, m)
      PROVE  ElectionInv' /\ UNCHANGED <<ballots, elections>>
  <2>1. UNCHANGED <<ballots, elections>>
        /\ \E x : ~IsGrant(x) /\ Handled(n, state[n], <<>>, {x})
    BY Zenon, <1>8, PreVoteRequestKeeps
  <2>2. PICK x : ~IsGrant(x) /\ Handled(n, state[n], <<>>, {x})
    BY Zenon, <2>1
  <2>3. state' = [state EXCEPT ![n] = state[n]] /\ Sent' \subseteq Sent \cup {x}
    BY <2>2, HandledSends
  <2>4. state' = state
    BY <1>0, <2>3
  <2> QED
    BY <1>1, <2>1, <2>2, <2>3, <2>4
<1>9. ASSUME NEW m \in msgs, handle_pre_vote_response(n, m)
      PROVE  ElectionInv' /\ UNCHANGED <<ballots, elections>>
  <2>1. UNCHANGED <<ballots, elections>> /\ Sent' \subseteq Sent
    BY <1>9, PreVoteResponseKeeps
  <2>2. PICK c \in Node : state' = [state EXCEPT ![n].pre_votes_received = @ \cup {c}]
    BY <1>9, PreVoteResponseKeeps
  <2>3. \A k \in Node : /\ state'[k].role = state[k].role
                        /\ state'[k].current_term = state[k].current_term
                        /\ state'[k].voted_for = state[k].voted_for
                        /\ state'[k].votes_received = state[k].votes_received
    BY <1>0, <2>2 DEF NodeState
  <2>4. \A b \in ballots : b.voter \in Node
    BY DEF LoopInv, TypeOK, E!TypeOK
  <2>5. MemoryCoversBallots'
    BY Zenon, <2>1, <2>3, <2>4 DEF ElectionInv, MemoryCoversBallots
  <2>6. VotesAreBallots'
    <3>1. ASSUME NEW k \in Node, state'[k].role = "Candidate"
          PROVE  state'[k].votes_received \subseteq E!Support(ballots', state'[k].current_term, k)
      <4>1. state[k].votes_received \subseteq E!Support(ballots, state[k].current_term, k)
        BY Zenon, <2>3, <3>1 DEF ElectionInv, VotesAreBallots
      <4> QED
        BY <2>1, <2>3, <4>1
    <3> QED
      BY Zenon, <3>1 DEF VotesAreBallots
  <2>7. GrantsAreBallots'
    BY Zenon, <2>1 DEF ElectionInv, GrantsAreBallots
  <2> QED
    BY Zenon, <2>1, <2>5, <2>6, <2>7 DEF ElectionInv
<1> QED
  BY <1>2, <1>3, <1>4, <1>5, <1>6, <1>7, <1>8, <1>9 DEF Io

\* Every step keeps the invariant, and is a vote, a win or neither.
LEMMA ElectionStep ==
    ASSUME CardinalityFacts, IoFaults = FALSE
    PROVE  LoopInv /\ ElectionInv /\ [Next]_vars => ElectionInv' /\ [E!Next]_(E!vars)
<1> SUFFICES ASSUME LoopInv, ElectionInv, [Next]_vars
             PROVE  ElectionInv' /\ (E!Next \/ UNCHANGED <<ballots, elections>>)
  BY DEF E!vars
<1>0. LoopInv'
  BY NextLoop
<1>1. ASSUME NEW n \in Node,
             \/ Io(n) \/ Crash(n) \/ SendFails(n) \/ Restart(n) \/ handle_check_quorum(n)
             \/ \E c \in Node : PeerPreVote(n, c)
      PROVE  ElectionInv' /\ UNCHANGED <<ballots, elections>>
  BY Zenon, <1>0, <1>1, QuietElection
<1>2. ASSUME NEW n \in Node, NEW c \in Fetchers, NEW request \in BOOLEAN,
             NEW e \in 0 .. quorum_state[c].current_term, handle_fetch(n, c, e, request)
      PROVE  ElectionInv' /\ UNCHANGED <<ballots, elections>>
  <2>1. quorum_state[c].current_term \in Term /\ c \in Node
    BY FetchersAssumption DEF LoopInv, TypeOK, QuorumStates
  <2>2. e \in Term
    BY <2>1, MaxTermAssumption DEF Term
  <2> QED
    BY Zenon, <1>0, <1>2, <2>1, <2>2, QuietElection
<1>3. ASSUME NEW m \in msgs,
             handle_pre_vote_request(m.dest, m) \/ handle_pre_vote_response(m.dest, m)
      PROVE  ElectionInv' /\ UNCHANGED <<ballots, elections>>
  <2>1. m.dest \in Node
    BY DestType
  <2> QED
    BY Zenon, <1>0, <1>3, <2>1, QuietElection
<1>4. ASSUME NEW n \in Node, handle_election_timeout(n)
      PROVE  ElectionInv' /\ E!Next
  BY <1>0, <1>4, TimeoutElection
<1>5. ASSUME NEW m \in msgs, handle_vote_request(m.dest, m)
      PROVE  ElectionInv' /\ (E!Next \/ UNCHANGED <<ballots, elections>>)
  BY <1>0, <1>5, VoteRequestElection, DestType
<1>6. ASSUME NEW m \in msgs, handle_vote_response(m.dest, m)
      PROVE  ElectionInv' /\ (E!Next \/ UNCHANGED <<ballots, elections>>)
  BY <1>0, <1>6, VoteResponseElection, DestType
<1>7. CASE UNCHANGED vars
  <2>1. UNCHANGED <<state, network, msgs, ballots, elections>>
    BY <1>7 DEF vars, memory, disk, history
  <2> QED
    BY <2>1 DEF ElectionInv, MemoryCoversBallots, VotesAreBallots, GrantsAreBallots,
       E!Support, Sent
<1> QED
  BY Zenon, <1>1, <1>2, <1>3, <1>4, <1>5, <1>6, <1>7 DEF Next

LEMMA InitElection == Init => ElectionInv /\ E!Init
<1> SUFFICES ASSUME Init PROVE ElectionInv /\ E!Init
  OBVIOUS
<1>1. ballots = {} /\ E!Init /\ Sent = {}
  BY DEF Init, E!Init, Sent
<1>2. \A n \in Node : state[n].role = "Down"
  BY DEF Init, FromStores
<1> QED
  BY <1>1, <1>2 DEF ElectionInv, MemoryCoversBallots, VotesAreBallots, GrantsAreBallots

INSTANCE FiniteSetTheorems

LEMMA CardinalityFactsHold == CardinalityFacts
<1>1. Cardinality({}) = 0 /\ \A x : Cardinality({x}) = 1
  BY Zenon, FS_EmptySet, FS_Singleton
<1>2. Cardinality(Voters) \in Nat
  BY VotersAssumption, FS_CardinalityType
<1>3. ASSUME NEW S \in SUBSET Voters, NEW R \in SUBSET S
      PROVE  Cardinality(S) \in Nat /\ Cardinality(R) <= Cardinality(S)
  <2>1. IsFiniteSet(S)
    BY VotersAssumption, FS_Subset
  <2> QED
    BY <2>1, FS_Subset, FS_CardinalityType
<1>4. \A S \in SUBSET Voters : S \in SUBSET S
  OBVIOUS
<1> QED
  BY Zenon, <1>1, <1>2, <1>3, <1>4 DEF CardinalityFacts

\* Once a batch is done the stores hold what the handler left in memory
\* (event_loop.rs, run: the batch is awaited before the next event).
THEOREM BatchSettlesMemoryHolds == Spec => []BatchSettlesMemory
<1>1. LoopInv => BatchSettlesMemory
  BY CardinalityFactsHold, BatchSettles DEF BatchSettlesMemory
<1> QED
  BY <1>1, InitLoop, NextLoop, PTL DEF Spec

\* While no loop ends with a batch under way, the event loops implement the
\* election: what a node promises in memory before its batch is written it has
\* written before anyone can rely on it (event_loop.rs, run; io_action.rs,
\* execute).
THEOREM ImplementsHolds ==
    ASSUME IoFaults = FALSE
    PROVE  Spec => Implements
<1>1. Init => LoopInv /\ ElectionInv /\ E!Init
  BY InitLoop, InitElection
<1>2. LoopInv /\ ElectionInv /\ [Next]_vars => LoopInv' /\ ElectionInv' /\ [E!Next]_(E!vars)
  BY Zenon, NextLoop, ElectionStep, CardinalityFactsHold
<1> QED
  BY <1>1, <1>2, PTL DEF Spec, Implements, E!Spec

EP == INSTANCE ElectionProofs

\* So at most one node ever leads a term (event_loop.rs, handle_vote_response).
THEOREM ElectionSafetyHolds ==
    ASSUME IoFaults = FALSE
    PROVE  Spec => []ElectionSafety
<1>1. EP!IsFiniteSet(Voters)
  BY VotersAssumption DEF EP!IsFiniteSet, IsFiniteSet
<1>2. EP!Spec => []EP!ElectionSafety
  BY EP!ElectionSafetyHolds, <1>1
<1>3. \A S : E!Cardinality(S) = EP!Cardinality(S)
  BY Zenon DEF E!Cardinality, EP!Cardinality
<1>4. E!Init => EP!Init
  BY DEF E!Init, EP!Init
<1>5. [E!Next]_(E!vars) => [EP!Next]_(EP!vars)
  BY Zenon, <1>3 DEF E!Next, EP!Next, E!Cast, EP!Cast, E!Win, EP!Win, E!MayCast, EP!MayCast,
     E!Ballot, EP!Ballot, E!Support, EP!Support, E!Election, EP!Election, E!Majority,
     EP!Majority, E!Term, EP!Term, E!vars, EP!vars
<1>6. EP!ElectionSafety => ElectionSafety
  BY DEF EP!ElectionSafety, E!ElectionSafety, ElectionSafety
<1>7. Spec => E!Spec
  BY Zenon, ImplementsHolds DEF Implements
<1> QED
  BY <1>2, <1>4, <1>5, <1>6, <1>7, PTL DEF E!Spec, EP!Spec
=============================================================================
