------------------------- MODULE ReplicationProofs --------------------------
(***************************************************************************)
(* What a follower keeps of its log, its waiters and its stores, whatever  *)
(* the leaders answer: LocalInv is inductive, requests ask from what is    *)
(* stored, and what is committed here stays.                               *)
(***************************************************************************)
EXTENDS Replication, WellFoundedInduction, TLAPS

USE SMTT(15), SMTT(30), Zenon, SMTT(31), SMTT(32)

-----------------------------------------------------------------------------
(* The inductive invariant. *)

QuorumStates ==
    [current_term : Term, voted_for : Node \cup {Nil}, leader_id : Node \cup {Nil}]

Request ==
    [leader_epoch : Term, dest : Node, fetch_offset : Nat, last_fetched_epoch : Term]

Persists(a) == a.op = "PersistQuorumState" /\ a.quorum \in QuorumStates

\* The first action of a batch takes the log on disk to the one in memory; a
\* save of the quorum state comes last.
WritesLog(a) ==
    \/ a.op = "AppendLog" /\ a.entries \in Seq(Entry) /\ state.log = disk_log \o a.entries
    \/ /\ a.op = "TruncateSuffix"
       /\ a.offset \in 0 .. Len(disk_log)
       /\ state.log = Prefix(disk_log, a.offset)

BatchReaches ==
    \/ storage = <<>> /\ state.log = disk_log
    \/ \E a : storage = <<a>> /\ Persists(a) /\ state.log = disk_log
    \/ \E a : storage = <<a>> /\ WritesLog(a)
    \/ \E a, b : storage = <<a, b>> /\ WritesLog(a) /\ Persists(b)

\* A process that is down remembers nothing.
DownIsEmpty ==
    state.role = "Down" => /\ queue = {}
                           /\ state.high_watermark = 0
                           /\ state.pending_membership_change = Nil
                           /\ storage = <<>>

\* Waiters w and the pending change of s have uncommitted entries of its log.
Tidy(s, w) ==
    /\ s.high_watermark <= Len(s.log)
    /\ \A c \in w : /\ c.offset \in s.high_watermark .. Len(s.log) - 1
                   /\ s.log[c.offset + 1] = c.entry
    /\ LET o == s.pending_membership_change
       IN  o # Nil => /\ o \in s.high_watermark .. Len(s.log) - 1
                      /\ s.log[o + 1].entry_type = "VotersRecord"

LocalInv ==
    /\ TypeOK
    /\ Tidy(state, queue)
    /\ requests \subseteq Request
    /\ BatchReaches
    /\ DownIsEmpty

-----------------------------------------------------------------------------
(* Largest and smallest elements. *)

LEMMA MaxOfTwo ==
    ASSUME NEW a \in Nat, NEW b \in Nat
    PROVE  Max({a, b}) = IF a >= b THEN a ELSE b
<1>1. \E x \in {a, b} : \A y \in {a, b} : x >= y
  OBVIOUS
<1>2. Max({a, b}) \in {a, b} /\ \A y \in {a, b} : Max({a, b}) >= y
  BY Zenon, <1>1 DEF Max
<1> QED
  BY <1>2

LEMMA MinOfTwo ==
    ASSUME NEW a \in Nat, NEW b \in Nat
    PROVE  Min({a, b}) = IF a <= b THEN a ELSE b
<1>1. \E x \in {a, b} : \A y \in {a, b} : x =< y
  OBVIOUS
<1>2. Min({a, b}) \in {a, b} /\ \A y \in {a, b} : Min({a, b}) =< y
  BY Zenon, <1>1 DEF Min
<1> QED
  BY <1>2

\* A nonempty set of naturals that has a bound has a largest element.
LEMMA MaxOfBounded ==
    ASSUME NEW S \in SUBSET Nat, S # {}, NEW n \in Nat, \A x \in S : x <= n
    PROVE  Max(S) \in S /\ \A y \in S : Max(S) >= y
<1> DEFINE D == {d \in Nat : n - d \in S}
<1>1. D \in SUBSET Nat /\ D # {}
  <2>1. PICK x \in S : TRUE
    BY Zenon
  <2>2. n - x \in Nat /\ n - (n - x) = x
    BY <2>1
  <2> QED
    BY Zenon, <2>1, <2>2
<1>2. PICK d \in D : \A e \in D : ~(<<e, d>> \in OpToRel(<, Nat))
  BY Zenon, <1>1, NatLessThanWellFounded, WFMin
<1>3. \A e \in D : ~(e < d)
  BY Zenon, <1>1, <1>2 DEF OpToRel
<1>4. \A y \in S : n - d >= y
  <2> SUFFICES ASSUME NEW y \in S PROVE n - d >= y
    OBVIOUS
  <2>1. n - y \in Nat /\ n - (n - y) = y
    OBVIOUS
  <2>2. n - y \in D
    BY <2>1
  <2> QED
    BY <1>3, <2>2
<1>5. \E x \in S : \A y \in S : x >= y
  BY <1>4
<1> QED
  BY Zenon, <1>5 DEF Max

-----------------------------------------------------------------------------
(* What the handlers make of a NodeState. *)

ResponseType ==
    [leader_id : Peers, leader_epoch : 1 .. MaxTerm, high_watermark : Nat, first : Nat,
     entries : Seq(Entry), diverging_epoch : Nat \cup {Nil}, snapshot_id : Nat \cup {Nil}]

\* The fields that other handlers than these do not look at.
SameLog(s, r) ==
    /\ s.log = r.log
    /\ s.high_watermark = r.high_watermark
    /\ s.voter_set = r.voter_set
    /\ s.pending_membership_change = r.pending_membership_change
    /\ s.leader_epoch_checkpoint = r.leader_epoch_checkpoint

LEMMA ValidatedType ==
    ASSUME NEW s \in NodeState, NEW r \in ResponseType
    PROVE  /\ Validated(s, r) \in NodeState
           /\ SameLog(Validated(s, r), s)
           /\ Validated(s, r).current_term = IF r.leader_epoch > s.current_term
                                             THEN r.leader_epoch ELSE s.current_term
           /\ Validated(s, r).leader_id = r.leader_id
           /\ Accepts(s, r) => Validated(s, r).role = "Follower"
<1>1. /\ r.leader_epoch \in Term /\ r.leader_id \in Node \cup {Nil}
      /\ s.role \in {"Down", "Follower", "Candidate", "Leader"} /\ s.current_term \in Term
  BY BoundsAssumption DEF ResponseType, NodeState, Term, Node
<1>2. CASE r.leader_epoch > s.current_term
  <2>1. PICK k : k = [s EXCEPT !.current_term = r.leader_epoch, !.voted_for = Nil,
                               !.leader_id = r.leader_id, !.role = "Follower"]
    OBVIOUS
  <2>2. /\ k \in NodeState /\ SameLog(k, s) /\ k.current_term = r.leader_epoch
        /\ k.leader_id = r.leader_id /\ k.role = "Follower"
    BY Zenon, <1>1, <2>1 DEF NodeState, SameLog
  <2>3. Validated(s, r) = k
    BY <1>2, <2>1 DEF Validated
  <2> QED
    BY <1>2, <2>2, <2>3
<1>3. CASE ~(r.leader_epoch > s.current_term)
  <2>1. PICK k : k = [s EXCEPT !.leader_id = r.leader_id]
    BY Zenon
  <2>2. /\ k \in NodeState /\ SameLog(k, s) /\ k.current_term = s.current_term
        /\ k.leader_id = r.leader_id /\ k.role = s.role
    BY <1>1, <2>1 DEF NodeState, SameLog
  <2>3. Validated(s, r) = k
    BY <1>3, <2>1 DEF Validated
  <2>4. Accepts(s, r) => s.role = "Follower"
    BY <1>3 DEF Accepts
  <2> QED
    BY <1>3, <2>2, <2>3, <2>4
<1> QED
  BY <1>2, <1>3

LEMMA QuorumStateType ==
    ASSUME NEW s \in NodeState
    PROVE  QuorumState(s) \in QuorumStates
BY DEF QuorumState, QuorumStates, NodeState

LEMMA DeferredType ==
    ASSUME NEW s \in NodeState, NEW r \in ResponseType
    PROVE  Deferred(s, r) = <<>> \/ \E a : Deferred(s, r) = <<a>> /\ Persists(a)
<1>1. Persists(PersistQuorumState(Validated(s, r)))
  BY ValidatedType, QuorumStateType DEF Persists, PersistQuorumState
<1> QED
  BY <1>1 DEF Deferred

LEMMA LatestVotersType ==
    ASSUME NEW l \in Seq(Entry), NEW I \in SUBSET (1 .. Len(l)), NEW before \in Nat \cup {Nil}
    PROVE  LatestVoters(l, I, before) \in Nat \cup {Nil}
<1> DEFINE S == OfType(l, "VotersRecord", I)
<1>1. S \subseteq I
  BY DEF OfType
<1> HIDE DEF S
<1>2. Len(l) \in Nat
  OBVIOUS
<1>3. \A x \in S : x \in Nat /\ x >= 1 /\ x <= Len(l)
  BY <1>1, <1>2
<1>4. CASE S = {}
  BY <1>4 DEF LatestVoters, S
<1>5. CASE S # {}
  <2>1. S \in SUBSET Nat /\ \A x \in S : x <= Len(l)
    BY <1>3
  <2>2. Max(S) \in S
    BY Zenon, <1>2, <1>5, <2>1, MaxOfBounded
  <2>3. Max(S) - 1 \in Nat
    BY <1>3, <2>2
  <2>4. LatestVoters(l, I, before) = Max(S) - 1
    BY Zenon, <1>5 DEF LatestVoters, S
  <2> QED
    BY <2>3, <2>4
<1> QED
  BY <1>4, <1>5

LEMMA TruncatedFacts ==
    ASSUME NEW s \in NodeState, NEW w \in SUBSET Record, Tidy(s, w),
           NEW p \in s.high_watermark .. Len(s.log)
    PROVE  /\ Truncated(s, p) \in NodeState
           /\ Truncated(s, p).role = s.role
           /\ Truncated(s, p).current_term = s.current_term
           /\ Truncated(s, p).voted_for = s.voted_for
           /\ Truncated(s, p).leader_id = s.leader_id
           /\ Truncated(s, p).log = Prefix(s.log, p)
           /\ Truncated(s, p).high_watermark = s.high_watermark
           /\ Truncated(s, p).voter_set = s.voter_set
           /\ Tidy(Truncated(s, p), {c \in w : c.offset < p})
<1> DEFINE k == Truncated(s, p)
           l == Prefix(s.log, p)
<1>1. l \in Seq(Entry) /\ Len(l) = p /\ \A i \in 1 .. p : l[i] = s.log[i]
  BY DEF Prefix, NodeState
<1>2. k = [s EXCEPT !.log = l, !.pending_membership_change = k.pending_membership_change,
                    !.leader_epoch_checkpoint = k.leader_epoch_checkpoint]
  BY DEF Truncated, NodeState
<1>3. /\ k.pending_membership_change =
           IF s.pending_membership_change # Nil /\ s.pending_membership_change >= p THEN Nil
           ELSE s.pending_membership_change
      /\ k.leader_epoch_checkpoint \in [Term -> Nat \cup {Nil}]
  BY DEF Truncated, NodeState
<1> HIDE DEF k, l
<1>4. /\ k \in NodeState /\ k.role = s.role /\ k.current_term = s.current_term
      /\ k.voted_for = s.voted_for /\ k.leader_id = s.leader_id /\ k.log = l
      /\ k.high_watermark = s.high_watermark /\ k.voter_set = s.voter_set
  BY Zenon, <1>1, <1>2, <1>3 DEF NodeState
<1>5. Tidy(k, {c \in w : c.offset < p})
  <2>1. k.high_watermark <= Len(k.log)
    BY <1>1, <1>4
  <2>2. ASSUME NEW c \in w, c.offset < p
        PROVE  c.offset \in k.high_watermark .. Len(k.log) - 1 /\ k.log[c.offset + 1] = c.entry
    BY <1>1, <1>4, <2>2 DEF Tidy, Record, NodeState
  <2>3. ASSUME k.pending_membership_change # Nil
        PROVE  /\ k.pending_membership_change \in k.high_watermark .. Len(k.log) - 1
               /\ k.log[k.pending_membership_change + 1].entry_type = "VotersRecord"
    BY <1>1, <1>3, <1>4, <2>3 DEF Tidy, NodeState
  <2> QED
    BY <2>1, <2>2, <2>3 DEF Tidy
<1> QED
  BY <1>4, <1>5 DEF k, l

\* a is s with the entries of r and a high watermark within bounds.
IsAppended(a, s, r) ==
    /\ a \in NodeState
    /\ a.role = s.role
    /\ a.current_term = s.current_term
    /\ a.voted_for = s.voted_for
    /\ a.leader_id = s.leader_id
    /\ a.log = s.log \o r.entries
    /\ a.high_watermark \in s.high_watermark .. Len(a.log)
    /\ a.high_watermark = s.high_watermark \/ a.high_watermark <= r.high_watermark
    /\ a.voter_set = s.voter_set
    /\ a.pending_membership_change = s.pending_membership_change
    /\ a.leader_epoch_checkpoint = s.leader_epoch_checkpoint

LEMMA AppendedFacts ==
    ASSUME NEW s \in NodeState, s.high_watermark <= Len(s.log), NEW r \in ResponseType
    PROVE  IsAppended(Appended(s, r), s, r)
<1> DEFINE l == s.log \o r.entries
           n == Min({r.high_watermark, Len(l)})
           h == Max({s.high_watermark, n})
<1>1. l \in Seq(Entry) /\ Len(s.log) <= Len(l) /\ Len(s.log) \in Nat
  BY DEF NodeState, ResponseType
<1>2. s.high_watermark \in Nat /\ r.high_watermark \in Nat /\ Len(l) \in Nat
  BY <1>1 DEF NodeState, ResponseType
<1>3. Appended(s, r) = [s EXCEPT !.log = l, !.high_watermark = h]
  BY DEF Appended
<1> HIDE DEF l
<1>4. n = IF r.high_watermark <= Len(l) THEN r.high_watermark ELSE Len(l)
  BY <1>2, MinOfTwo
<1>5. n \in Nat
  BY <1>2, <1>4
<1> HIDE DEF n
<1>6. h = IF s.high_watermark >= n THEN s.high_watermark ELSE n
  BY <1>2, <1>5, MaxOfTwo
<1> HIDE DEF h
<1>7. h \in Nat /\ h \in s.high_watermark .. Len(l)
      /\ (h = s.high_watermark \/ h <= r.high_watermark)
  <2>1. CASE s.high_watermark >= n
    <3>1. h = s.high_watermark
      BY <1>6, <2>1
    <3>2. s.high_watermark <= Len(l)
      BY <1>1, <1>2
    <3> QED
      BY <1>2, <3>1, <3>2
  <2>2. CASE ~(s.high_watermark >= n)
    <3>1. h = n /\ n <= r.high_watermark /\ n <= Len(l)
      BY <1>2, <1>4, <1>6, <2>2
    <3> QED
      BY <1>2, <1>5, <2>2, <3>1
  <2> QED
    BY <2>1, <2>2
<1>8. PICK a : a = Appended(s, r)
  OBVIOUS
<1>9. a.log = l /\ a.high_watermark = h
  BY <1>3, <1>8 DEF NodeState
<1>10. /\ a \in NodeState /\ a.role = s.role /\ a.current_term = s.current_term
       /\ a.voted_for = s.voted_for /\ a.leader_id = s.leader_id /\ a.voter_set = s.voter_set
       /\ a.pending_membership_change = s.pending_membership_change
       /\ a.leader_epoch_checkpoint = s.leader_epoch_checkpoint
  BY Zenon, <1>1, <1>3, <1>7, <1>8 DEF NodeState
<1> QED
  BY Zenon, <1>7, <1>8, <1>9, <1>10 DEF IsAppended, l

\* k is a after the entries at indices I were committed.
IsNotified(k, a, I) ==
    LET voters == OfType(a.log, "VotersRecord", I)
        changes == OfType(a.log, "LeaderChangeMessage", I)
        o == a.pending_membership_change
    IN  /\ k \in NodeState
        /\ k.role = a.role
        /\ k.current_term = a.current_term
        /\ k.voted_for = a.voted_for
        /\ k.leader_id = a.leader_id
        /\ k.log = a.log
        /\ k.high_watermark = a.high_watermark
        /\ k.voter_set = LatestVoters(a.log, I, a.voter_set)
        /\ k.pending_membership_change =
             IF o # Nil /\ (\E i \in voters : o <= i - 1) THEN Nil ELSE o
        /\ k.leader_epoch_checkpoint =
             [t \in Term |-> IF \E i \in changes : a.log[i].term = t
                             THEN (CHOOSE i \in changes : a.log[i].term = t) - 1
                             ELSE a.leader_epoch_checkpoint[t]]

LEMMA NotifiedFacts ==
    ASSUME NEW a \in NodeState, NEW I \in SUBSET (1 .. Len(a.log))
    PROVE  IsNotified(Notified(a, I), a, I)
<1> DEFINE voters == OfType(a.log, "VotersRecord", I)
           changes == OfType(a.log, "LeaderChangeMessage", I)
           o == a.pending_membership_change
           v == LatestVoters(a.log, I, a.voter_set)
           d == IF o # Nil /\ (\E i \in voters : o <= i - 1) THEN Nil ELSE o
           At(t) == CHOOSE i \in changes : a.log[i].term = t
           e == [t \in Term |-> IF \E i \in changes : a.log[i].term = t THEN At(t) - 1
                                ELSE a.leader_epoch_checkpoint[t]]
<1>1. v \in Nat \cup {Nil}
  <2>1. a.log \in Seq(Entry) /\ a.voter_set \in Nat \cup {Nil}
    BY DEF NodeState
  <2> QED
    BY Zenon, <2>1, LatestVotersType
<1>2. d \in Nat \cup {Nil}
  BY DEF NodeState
<1>3. changes \subseteq I
  BY Zenon DEF OfType
<1>4. Notified(a, I) = [a EXCEPT !.voter_set = v, !.pending_membership_change = d,
                                 !.leader_epoch_checkpoint = e]
  BY DEF Notified, NodeState
<1> HIDE DEF changes
<1>5. \A t \in Term : (\E i \in changes : a.log[i].term = t) => At(t) - 1 \in Nat
  <2> SUFFICES ASSUME NEW t \in Term, \E i \in changes : a.log[i].term = t
               PROVE  At(t) - 1 \in Nat
    OBVIOUS
  <2>1. At(t) \in changes
    BY Zenon
  <2> HIDE DEF At
  <2>2. At(t) \in 1 .. Len(a.log)
    BY Zenon, <1>3, <2>1
  <2>3. Len(a.log) \in Nat
    BY DEF NodeState
  <2> QED
    BY <2>2, <2>3
<1>6. e \in [Term -> Nat \cup {Nil}]
  BY <1>5 DEF NodeState
<1> HIDE DEF v, d, e
<1>7. PICK k : k = Notified(a, I)
  OBVIOUS
<1>8. /\ k \in NodeState /\ k.role = a.role /\ k.current_term = a.current_term
      /\ k.voted_for = a.voted_for /\ k.leader_id = a.leader_id /\ k.log = a.log
      /\ k.high_watermark = a.high_watermark /\ k.voter_set = v
      /\ k.pending_membership_change = d /\ k.leader_epoch_checkpoint = e
  BY Zenon, <1>1, <1>2, <1>4, <1>6, <1>7 DEF NodeState
<1> QED
  BY Zenon, <1>7, <1>8 DEF IsNotified, v, d, e, changes

\* The indices committed from s to a, and those of w that wait on.
NewIndices(s, a) == s.high_watermark + 1 .. a.high_watermark
StillWaiting(w, s, a) ==
    IF NewIndices(s, a) = {} THEN w ELSE w \ {c \in w : c.offset < a.high_watermark}

\* After a commit notification, those still waiting wait for what is not
\* committed.
LEMMA CommitTidy ==
    ASSUME NEW s \in NodeState, NEW w \in SUBSET Record, Tidy(s, w), NEW r \in ResponseType,
           NEW a, IsAppended(a, s, r), NEW k, IsNotified(k, a, NewIndices(s, a))
    PROVE  Tidy(k, StillWaiting(w, s, a))
<1> DEFINE new == NewIndices(s, a)
           v == StillWaiting(w, s, a)
           o == a.pending_membership_change
           voters == OfType(a.log, "VotersRecord", new)
           h == a.high_watermark
<1>1. /\ s.high_watermark \in Nat /\ s.high_watermark <= Len(s.log) /\ Len(s.log) \in Nat
      /\ h \in Nat /\ Len(a.log) \in Nat /\ o \in Nat \cup {Nil}
  BY DEF Tidy, NodeState, IsAppended
<1>a. h \in s.high_watermark .. Len(a.log)
  BY Zenon DEF IsAppended
<1>b. h >= s.high_watermark /\ h <= Len(a.log)
  BY <1>1, <1>a
<1>2. a.log = s.log \o r.entries /\ o = s.pending_membership_change
  BY Zenon DEF IsAppended
<1>3. /\ k.log = a.log /\ k.high_watermark = h
      /\ k.pending_membership_change =
           IF o # Nil /\ (\E i \in voters : o <= i - 1) THEN Nil ELSE o
  BY Zenon DEF IsNotified
<1>4. /\ \A i \in 1 .. Len(s.log) : a.log[i] = s.log[i]
      /\ Len(s.log) <= Len(a.log)
  BY <1>2 DEF NodeState, ResponseType
<1> HIDE DEF h
<1>5. ASSUME NEW c \in v
      PROVE  c.offset \in h .. Len(a.log) - 1 /\ a.log[c.offset + 1] = c.entry
  <2>1. c \in w /\ c.offset \in Nat
    BY DEF Record, StillWaiting
  <2>2. /\ c.offset >= s.high_watermark /\ c.offset <= Len(s.log) - 1
        /\ s.log[c.offset + 1] = c.entry
    BY <1>1, <2>1 DEF Tidy
  <2>3. c.offset >= h
    <3>1. CASE new = {}
      BY <1>1, <1>b, <2>2, <3>1 DEF h, NewIndices
    <3>2. CASE new # {}
      BY <1>1, <2>1, <3>2 DEF h, StillWaiting
    <3> QED
      BY <3>1, <3>2
  <2>4. c.offset + 1 \in 1 .. Len(s.log)
    BY <1>1, <2>1, <2>2
  <2> QED
    BY <1>1, <1>4, <2>1, <2>2, <2>3, <2>4
<1>6. ASSUME k.pending_membership_change # Nil
      PROVE  o \in h .. Len(a.log) - 1 /\ a.log[o + 1].entry_type = "VotersRecord"
  <2>1. o # Nil /\ o \in Nat /\ ~(\E i \in voters : o <= i - 1)
    BY Zenon, <1>1, <1>3, <1>6
  <2>2. /\ o >= s.high_watermark /\ o <= Len(s.log) - 1
        /\ s.log[o + 1].entry_type = "VotersRecord"
    BY <1>1, <1>2, <2>1 DEF Tidy
  <2>3. o + 1 \in 1 .. Len(s.log)
    BY <1>1, <2>1, <2>2
  <2>4. a.log[o + 1].entry_type = "VotersRecord"
    BY <1>4, <2>2, <2>3
  <2>5. CASE o < h
    <3>1. o + 1 \in new
      BY <1>1, <2>1, <2>2, <2>5 DEF h, NewIndices
    <3>2. o + 1 \in voters
      BY <2>4, <3>1 DEF OfType
    <3>3. o <= (o + 1) - 1
      BY <2>1
    <3> QED
      BY Zenon, <2>1, <3>2, <3>3
  <2>6. CASE ~(o < h)
    BY <1>1, <1>4, <2>1, <2>2, <2>4, <2>6
  <2> QED
    BY <2>5, <2>6
<1>7. k.pending_membership_change # Nil => k.pending_membership_change = o
  BY Zenon, <1>3
<1> HIDE DEF o, v
<1>8. k.high_watermark <= Len(k.log)
  BY Zenon, <1>b, <1>3
<1>9. Tidy(k, v)
  BY Zenon, <1>3, <1>5, <1>6, <1>7, <1>8 DEF Tidy
<1> QED
  BY <1>9 DEF v

-----------------------------------------------------------------------------
(* Answers. *)

\* What the proofs use of the end of an epoch.  It is proved at the end, where
\* the theorems on finite sets come into scope.
EpochEnds ==
    \A l \in Seq(Entry), e \in Term :
        /\ EpochEnd(l, e) \in 0 .. Len(l)
        /\ \A n \in 1 .. Len(l) :
             (\A i \in n .. Len(l) : l[i].term > e) => EpochEnd(l, e) < n

\* The answer r of the leader of t to q has what its log has beyond the offset
\* asked for, and reports a high watermark up to what it sends.
Follows(r, t, q) ==
    /\ ~Diverges(leader_log[t], q)
    /\ r.high_watermark <= leader_hw[t]
    /\ IF r.entries = <<>> THEN r.high_watermark <= q.fetch_offset
       ELSE \E k \in q.fetch_offset + 1 .. Len(leader_log[t]) :
              r.entries = SubSeq(leader_log[t], q.fetch_offset + 1, k)

LEMMA PartFacts ==
    ASSUME NEW S, NEW l \in Seq(S), NEW m \in Nat, NEW n \in m + 1 .. Len(l)
    PROVE  /\ SubSeq(l, m + 1, n) \in Seq(S)
           /\ SubSeq(l, m + 1, n) # <<>>
           /\ Len(SubSeq(l, m + 1, n)) = n - m
           /\ \A i \in 1 .. n - m : SubSeq(l, m + 1, n)[i] = l[m + i]
OBVIOUS

LEMMA AnswerFacts ==
    ASSUME EpochEnds, TypeOK, NEW q \in Request, NEW t \in 1 .. MaxTerm, leader_of[t] \in Peers,
           NEW r \in Answers(t, q)
    PROVE  /\ r \in ResponseType
           /\ r.leader_epoch = t /\ r.leader_id = leader_of[t] /\ r.first = q.fetch_offset
           /\ r.diverging_epoch = Nil /\ r.snapshot_id = Nil => Follows(r, t, q)
<1> DEFINE l == leader_log[t]
           f == q.fetch_offset
           end == EpochEnd(l, q.last_fetched_epoch)
           w == leader_hw[t]
<1>1. /\ l \in Seq(Entry) /\ f \in Nat /\ w \in Nat /\ Len(l) \in Nat
      /\ q.last_fetched_epoch \in Term
  <2>1. leader_log \in [1 .. MaxTerm -> Seq(Entry)] /\ leader_hw \in [1 .. MaxTerm -> Nat]
    BY Zenon DEF TypeOK
  <2>2. f \in Nat /\ q.last_fetched_epoch \in Term
    BY DEF Request
  <2> QED
    BY <2>1, <2>2
<1>2. end \in Nat
  BY <1>1 DEF EpochEnds
<1>3. Nil \notin Int
  BY NilAssumption
<1>4. CASE Diverges(l, q)
  <2>1. r = FetchResponse(t, w, f, <<>>, end, Nil)
    BY <1>4 DEF Answers
  <2> QED
    BY <1>1, <1>2, <1>3, <2>1 DEF FetchResponse, ResponseType
<1>5. CASE ~Diverges(l, q)
  <2>a. r \in WithEntries(t, q) \/ r \in WithNothing(t, q) \/ r \in WithSnapshot(t, q)
    BY Zenon, <1>5 DEF Answers
  <2>b. ASSUME r \in WithEntries(t, q)
        PROVE  \E k \in f + 1 .. Len(l) : \E hw \in 0 .. w :
                 r = FetchResponse(t, hw, f, SubSeq(l, f + 1, k), Nil, Nil)
    BY Zenon, <2>b DEF WithEntries
  <2>c. ASSUME r \in WithNothing(t, q)
        PROVE  \E hw \in 0 .. Min({f, w}) : r = FetchResponse(t, hw, f, <<>>, Nil, Nil)
    BY Zenon, <2>c DEF WithNothing
  <2>d. ASSUME r \in WithSnapshot(t, q)
        PROVE  \E hw \in f + 1 .. w : r = FetchResponse(t, hw, f, <<>>, Nil, hw)
    BY Zenon, <2>d DEF WithSnapshot
  <2>1. \/ \E hw \in 0 .. w, k \in f + 1 .. Len(l) :
              r = FetchResponse(t, hw, f, SubSeq(l, f + 1, k), Nil, Nil)
        \/ \E hw \in 0 .. Min({f, w}) : r = FetchResponse(t, hw, f, <<>>, Nil, Nil)
        \/ \E hw \in f + 1 .. w : r = FetchResponse(t, hw, f, <<>>, Nil, hw)
    BY Zenon, <2>a, <2>b, <2>c, <2>d
  <2>2. ASSUME NEW hw \in 0 .. w, NEW k \in f + 1 .. Len(l),
               r = FetchResponse(t, hw, f, SubSeq(l, f + 1, k), Nil, Nil)
        PROVE  /\ r \in ResponseType
               /\ r.leader_epoch = t /\ r.leader_id = leader_of[t] /\ r.first = f
               /\ Follows(r, t, q)
    <3>1. PICK e : e = SubSeq(l, f + 1, k)
      BY Zenon
    <3>2. e \in Seq(Entry) /\ e # <<>>
      BY <1>1, <3>1, PartFacts
    <3>3. r = FetchResponse(t, hw, f, e, Nil, Nil) /\ hw \in Nat /\ hw <= w
      BY <1>1, <2>2, <3>1
    <3>4. /\ r \in ResponseType /\ r.entries = e /\ r.high_watermark = hw
          /\ r.leader_epoch = t /\ r.leader_id = leader_of[t] /\ r.first = f
      BY <1>1, <3>2, <3>3 DEF FetchResponse, ResponseType
    <3> QED
      BY <1>5, <3>1, <3>2, <3>3, <3>4 DEF Follows
  <2>3. ASSUME NEW hw \in 0 .. Min({f, w}), r = FetchResponse(t, hw, f, <<>>, Nil, Nil)
        PROVE  /\ r \in ResponseType
               /\ r.leader_epoch = t /\ r.leader_id = leader_of[t] /\ r.first = f
               /\ Follows(r, t, q)
    <3>1. hw \in Nat /\ hw <= f /\ hw <= w
      BY <1>1, MinOfTwo
    <3> QED
      BY <1>1, <1>5, <2>3, <3>1 DEF FetchResponse, ResponseType, Follows
  <2>4. ASSUME NEW hw \in f + 1 .. w, r = FetchResponse(t, hw, f, <<>>, Nil, hw)
        PROVE  /\ r \in ResponseType
               /\ r.leader_epoch = t /\ r.leader_id = leader_of[t] /\ r.first = f
               /\ r.snapshot_id # Nil
    BY <1>1, <1>3, <2>4 DEF FetchResponse, ResponseType
  <2> QED
    BY Zenon, <2>1, <2>2, <2>3, <2>4
<1> QED
  BY <1>4, <1>5

-----------------------------------------------------------------------------
(* Every action keeps LocalInv. *)

LEMMA FromStoresFacts ==
    ASSUME TypeOK
    PROVE  /\ FromStores \in NodeState
           /\ FromStores.role = "Follower" /\ FromStores.log = disk_log
           /\ FromStores.high_watermark = 0 /\ FromStores.pending_membership_change = Nil
           /\ QuorumState(FromStores) = quorum_state
           /\ FromStores.leader_epoch_checkpoint = [t \in Term |-> Nil]
<1>1. LatestVoters(disk_log, DOMAIN disk_log, Nil) \in Nat \cup {Nil}
  <2>1. disk_log \in Seq(Entry) /\ DOMAIN disk_log \in SUBSET (1 .. Len(disk_log))
    BY DEF TypeOK
  <2> QED
    BY Zenon, <2>1, LatestVotersType
<1>2. 0 \in Nat /\ [t \in Term |-> Nil] \in [Term -> Nat \cup {Nil}]
  OBVIOUS
<1> QED
  BY <1>1, <1>2 DEF FromStores, NodeState, TypeOK, QuorumState

LEMMA BatchShapes ==
    /\ \A a : <<a>> # <<>> /\ Head(<<a>>) = a /\ Tail(<<a>>) = <<>>
    /\ \A a, b : <<a, b>> # <<>> /\ Head(<<a, b>>) = a /\ Tail(<<a, b>>) = <<b>>
    /\ \A a : <<>> \o <<a>> = <<a>> /\ <<a>> \o <<>> = <<a>>
    /\ \A a, b : <<a>> \o <<b>> = <<a, b>>
    /\ <<>> \o <<>> = <<>>
<1>1. \A a : <<a>> # <<>> /\ Head(<<a>>) = a /\ Tail(<<a>>) = <<>>
  OBVIOUS
<1>2. \A a, b : <<a, b>> # <<>> /\ Head(<<a, b>>) = a /\ Tail(<<a, b>>) = <<b>>
  OBVIOUS
<1>3. \A a : <<>> \o <<a>> = <<a>> /\ <<a>> \o <<>> = <<a>>
  OBVIOUS
<1>4. \A a, b : <<a>> \o <<b>> = <<a, b>>
  <2> SUFFICES ASSUME NEW a, NEW b PROVE <<a>> \o <<b>> = <<a, b>>
    OBVIOUS
  <2>1. <<a>> \in Seq({a, b}) /\ <<b>> \in Seq({a, b}) /\ Len(<<a>>) = 1 /\ Len(<<b>>) = 1
    OBVIOUS
  <2>2. PICK l : l = <<a>> \o <<b>>
    BY Zenon
  <2>3. l \in Seq({a, b}) /\ Len(l) = 2 /\ l[1] = a /\ l[2] = b
    BY <2>1, <2>2
  <2>4. PICK m : m = <<a, b>>
    BY Zenon
  <2>5. m \in Seq({a, b}) /\ Len(m) = 2 /\ m[1] = a /\ m[2] = b
    BY <2>4
  <2>6. l = m
    BY <2>3, <2>5
  <2> QED
    BY Zenon, <2>2, <2>4, <2>6
<1>5. <<>> \o <<>> = <<>>
  OBVIOUS
<1> QED
  BY Zenon, <1>1, <1>2, <1>3, <1>4, <1>5

LEMMA LocalWrite ==
    ASSUME LocalInv, Write
    PROVE  LocalInv'
<1> DEFINE a == Head(storage)
<1>1. /\ storage # <<>> /\ storage' = Tail(storage) /\ queue' = queue /\ state' = state
      /\ leader_of' = leader_of /\ leader_log' = leader_log /\ leader_hw' = leader_hw
      /\ committed' = committed /\ in_progress' = in_progress /\ requests' = requests
      /\ applied' = applied /\ completed' = completed
  BY DEF Write, leaders, app
<1>2. ASSUME Persists(a)
      PROVE  disk_log' = disk_log /\ quorum_state' \in QuorumStates
  BY <1>2 DEF Write, Persists
<1>3. ASSUME WritesLog(a)
      PROVE  disk_log' = state.log /\ quorum_state' = quorum_state
  BY Zenon, <1>3 DEF Write, WritesLog
<1>4. TypeOK /\ state.log \in Seq(Entry)
  BY DEF LocalInv, TypeOK, NodeState
<1>5. \/ storage' = <<>> /\ state.log = disk_log'
      \/ \E b : storage' = <<b>> /\ Persists(b) /\ state.log = disk_log'
  <2>1. ASSUME NEW b, storage = <<b>> PROVE a = b /\ storage' = <<>>
    BY Zenon, <1>1, <2>1, BatchShapes
  <2>2. ASSUME NEW b, NEW c, storage = <<b, c>> PROVE a = b /\ storage' = <<c>>
    BY Zenon, <1>1, <2>2, BatchShapes
  <2> HIDE DEF a
  <2>3. CASE \E b : storage = <<b>> /\ Persists(b) /\ state.log = disk_log
    BY Zenon, <1>2, <2>1, <2>3
  <2>4. CASE \E b : storage = <<b>> /\ WritesLog(b)
    BY Zenon, <1>3, <2>1, <2>4
  <2>5. CASE \E b, c : storage = <<b, c>> /\ WritesLog(b) /\ Persists(c)
    BY Zenon, <1>3, <2>2, <2>5
  <2> QED
    BY Zenon, <1>1, <2>3, <2>4, <2>5 DEF LocalInv, BatchReaches
<1>6. BatchReaches'
  BY <1>1, <1>5 DEF BatchReaches, Persists
<1>7. Persists(a) \/ WritesLog(a)
  BY <1>1, BatchShapes DEF LocalInv, BatchReaches
<1>8. TypeOK'
  BY <1>1, <1>2, <1>3, <1>4, <1>7 DEF TypeOK, QuorumStates
<1>9. state.role # "Down"
  BY <1>1 DEF LocalInv, DownIsEmpty
<1> QED
  BY <1>1, <1>6, <1>8, <1>9 DEF LocalInv, DownIsEmpty

LEMMA LocalStopped ==
    ASSUME LocalInv, Stopped, applied' \in Seq(Record)
    PROVE  LocalInv'
<1> DEFINE s == [FromStores EXCEPT !.role = "Down"]
<1>1. /\ state' = s /\ storage' = <<>> /\ queue' = {} /\ in_progress' = FALSE
      /\ leader_of' = leader_of /\ leader_log' = leader_log /\ leader_hw' = leader_hw
      /\ committed' = committed /\ requests' = requests /\ completed' = completed
      /\ quorum_state' = quorum_state /\ disk_log' = disk_log
  BY DEF Stopped, leaders, disk
<1>2. TypeOK
  BY DEF LocalInv
<1>3. /\ s \in NodeState /\ s.role = "Down" /\ s.log = disk_log
      /\ s.high_watermark = 0 /\ s.pending_membership_change = Nil
  BY <1>2, FromStoresFacts DEF NodeState
<1> HIDE DEF s
<1>4. TypeOK'
  BY Zenon, <1>1, <1>2, <1>3 DEF TypeOK
<1>5. Tidy(s, {})
  BY <1>2, <1>3 DEF Tidy, TypeOK
<1> QED
  BY <1>1, <1>3, <1>4, <1>5 DEF LocalInv, BatchReaches, DownIsEmpty

LEMMA LocalRestart ==
    ASSUME LocalInv, Restart
    PROVE  LocalInv'
<1>1. /\ state' = FromStores /\ storage' = storage /\ queue' = queue
      /\ in_progress' = in_progress /\ applied' = <<>>
      /\ leader_of' = leader_of /\ leader_log' = leader_log /\ leader_hw' = leader_hw
      /\ committed' = committed /\ requests' = requests /\ completed' = completed
      /\ quorum_state' = quorum_state /\ disk_log' = disk_log
  BY DEF Restart, leaders, disk
<1>2. TypeOK /\ queue = {} /\ storage = <<>>
  BY DEF LocalInv, DownIsEmpty, Restart
<1>3. TypeOK'
  BY <1>1, <1>2, FromStoresFacts DEF TypeOK
<1>4. Tidy(FromStores, {})
  BY <1>2, FromStoresFacts DEF Tidy, TypeOK
<1> QED
  BY <1>1, <1>2, <1>3, <1>4, FromStoresFacts DEF LocalInv, BatchReaches, DownIsEmpty

LEMMA RequestType ==
    ASSUME NEW s \in NodeState
    PROVE  build_fetch_request(s) \subseteq Request
<1>1. CASE s.log = <<>>
  BY <1>1, NilAssumption, BoundsAssumption
     DEF build_fetch_request, FetchRequest, Request, NodeState, last_log_term, log_end_offset, Term
<1>2. CASE s.log # <<>>
  <2>1. s.log \in Seq(Entry) /\ Len(s.log) \in 1 .. Len(s.log) /\ Len(s.log) \in Nat
    BY <1>2 DEF NodeState
  <2>2. s.log[Len(s.log)] \in Entry
    BY <2>1
  <2>3. s.log[Len(s.log)].term \in Term
    BY <2>2 DEF Entry
  <2> QED
    BY <1>2, <2>1, <2>3 DEF build_fetch_request, FetchRequest, Request, NodeState,
                            last_log_term, log_end_offset
<1> QED
  BY <1>1, <1>2

LEMMA LocalTick ==
    ASSUME LocalInv, on_fetch_tick
    PROVE  LocalInv'
<1>1. /\ requests' = requests \cup build_fetch_request(state)
      /\ state' = state /\ storage' = storage /\ queue' = queue
      /\ in_progress' = in_progress /\ applied' = applied
      /\ leader_of' = leader_of /\ leader_log' = leader_log /\ leader_hw' = leader_hw
      /\ committed' = committed /\ completed' = completed
      /\ quorum_state' = quorum_state /\ disk_log' = disk_log
  BY DEF on_fetch_tick, leaders, disk, app
<1>2. requests' \subseteq Request
  BY <1>1, RequestType DEF LocalInv, TypeOK
<1>3. BatchReaches'
  BY <1>1 DEF LocalInv, BatchReaches, WritesLog
<1>4. TypeOK'
  BY <1>1 DEF LocalInv, TypeOK
<1> QED
  BY <1>1, <1>2, <1>3, <1>4 DEF LocalInv, DownIsEmpty

\* What the actions on a response start from.
LEMMA IdleFacts ==
    ASSUME LocalInv, Idle
    PROVE  /\ state \in NodeState /\ state.role # "Down" /\ storage = <<>>
           /\ state.log = disk_log /\ Tidy(state, queue) /\ queue \in SUBSET Record
           /\ TypeOK
<1>1. storage = <<>> /\ state.role # "Down"
  BY DEF Idle
<1> QED
  BY <1>1, BatchShapes DEF LocalInv, BatchReaches, TypeOK

\* A state with the same log and waiters is as tidy.
LEMMA SameTidy ==
    ASSUME NEW s, NEW k, SameLog(k, s), NEW w, Tidy(s, w)
    PROVE  Tidy(k, w)
BY DEF SameLog, Tidy

\* A response that only brings a new term or leader.
LEMMA LocalSnapshotOrRefuse ==
    ASSUME LocalInv, NEW r \in ResponseType, snapshot_required(r) \/ refuse_entries(r)
    PROVE  LocalInv'
<1> DEFINE s == Validated(state, r)
<1>1. /\ Idle /\ Accepts(state, r) /\ state' = s /\ queue' = queue /\ in_progress' \in BOOLEAN
      /\ storage' \in {<<>>, Deferred(state, r)}
      /\ leader_of' = leader_of /\ leader_log' = leader_log /\ leader_hw' = leader_hw
      /\ committed' = committed /\ completed' = completed /\ applied' = applied
      /\ quorum_state' = quorum_state /\ disk_log' = disk_log /\ requests' = requests
  BY Zenon DEF snapshot_required, refuse_entries, leaders, disk, app, begin_snapshot_transfer, Idle,
         LocalInv, TypeOK
<1>2. /\ state \in NodeState /\ state.log = disk_log /\ Tidy(state, queue) /\ TypeOK
  BY <1>1, IdleFacts
<1>3. s \in NodeState /\ SameLog(s, state) /\ s.role = "Follower"
  BY <1>1, <1>2, ValidatedType
<1>4. Tidy(s, queue)
  BY <1>2, <1>3, SameTidy
<1>5. storage' = <<>> \/ \E a : storage' = <<a>> /\ Persists(a)
  BY <1>1, <1>2, DeferredType
<1> HIDE DEF s
<1>6. BatchReaches'
  BY <1>1, <1>2, <1>3, <1>5 DEF BatchReaches, SameLog, Persists
<1>7. TypeOK'
  BY <1>1, <1>2, <1>3 DEF TypeOK
<1> QED
  BY <1>1, <1>3, <1>4, <1>6, <1>7 DEF LocalInv, DownIsEmpty

\* Where truncate_divergent cuts.
LEMMA CutFacts ==
    ASSUME NEW s \in NodeState, NEW r \in ResponseType, r.diverging_epoch # Nil,
           s.high_watermark <= Len(s.log)
    PROVE  LET p == TruncationPoint(s, r)
           IN  /\ p \in 0 .. Len(s.log)
               /\ ~Uncommits(s, p) => p \in s.high_watermark .. Len(s.log)
<1>1. r.diverging_epoch \in Nat /\ Len(s.log) \in Nat /\ s.high_watermark \in Nat
  BY DEF ResponseType, NodeState
<1>2. TruncationPoint(s, r) = IF r.diverging_epoch <= Len(s.log) THEN r.diverging_epoch
                              ELSE Len(s.log)
  BY <1>1, MinOfTwo DEF TruncationPoint, log_end_offset
<1> QED
  BY <1>1, <1>2 DEF Uncommits

LEMMA LocalTruncate ==
    ASSUME LocalInv, NEW r \in ResponseType, truncate_divergent(r)
    PROVE  LocalInv'
<1> DEFINE s == Validated(state, r)
           p == TruncationPoint(s, r)
           k == Truncated(s, p)
<1>0. PICK a : a = TruncateSuffix(p)
  OBVIOUS
<1>1. /\ Idle /\ Accepts(state, r) /\ r.diverging_epoch # Nil /\ in_progress' = in_progress
      /\ leader_of' = leader_of /\ leader_log' = leader_log /\ leader_hw' = leader_hw
      /\ committed' = committed /\ completed' = completed /\ applied' = applied
      /\ quorum_state' = quorum_state /\ disk_log' = disk_log
  BY DEF truncate_divergent, leaders, disk, app
<1>2. /\ state \in NodeState /\ state.log = disk_log /\ Tidy(state, queue) /\ TypeOK
      /\ queue \in SUBSET Record /\ storage = <<>>
  BY <1>1, IdleFacts
<1>3. s \in NodeState /\ SameLog(s, state) /\ s.role = "Follower" /\ s.log = disk_log
  BY <1>1, <1>2, ValidatedType DEF SameLog
<1>4. Tidy(s, queue)
  BY <1>2, <1>3, SameTidy
<1>5. CASE /\ Uncommits(s, p) /\ state' = s
           /\ queue' = queue /\ storage' = storage /\ requests' = requests
  <2> HIDE DEF s
  <2>1. BatchReaches'
    BY <1>1, <1>2, <1>3, <1>5 DEF BatchReaches
  <2>2. TypeOK'
    BY <1>1, <1>2, <1>3, <1>5 DEF TypeOK
  <2> QED
    BY <1>1, <1>3, <1>4, <1>5, <2>1, <2>2 DEF LocalInv, DownIsEmpty
<1>6. CASE /\ ~Uncommits(s, p) /\ state' = k /\ queue' = fail_at_or_above(p)
           /\ storage' = <<a>> \o Deferred(state, r)
           /\ requests' = requests \cup build_fetch_request(k)
  <2>1. p \in s.high_watermark .. Len(s.log) /\ p \in 0 .. Len(s.log)
    BY <1>1, <1>3, <1>4, <1>6, CutFacts DEF Tidy
  <2> HIDE DEF s, p
  <2>2. /\ k \in NodeState /\ k.role = "Follower" /\ k.log = Prefix(disk_log, p)
        /\ Tidy(k, {c \in queue : c.offset < p})
    BY Zenon, <1>2, <1>3, <1>4, <2>1, TruncatedFacts
  <2>3. a.op = "TruncateSuffix" /\ a.offset = p
    BY <1>0 DEF TruncateSuffix
  <2> HIDE DEF k
  <2>4. WritesLog(a)'
    BY <1>1, <1>3, <1>6, <2>1, <2>2, <2>3 DEF WritesLog
  <2>5. storage' = <<a>> \/ \E b : storage' = <<a, b>> /\ Persists(b)
    BY Zenon, <1>2, <1>6, DeferredType, BatchShapes
  <2>6. BatchReaches'
    BY <2>4, <2>5 DEF BatchReaches, Persists
  <2>7. requests' \subseteq Request
    BY <1>6, <2>2, RequestType DEF LocalInv
  <2>8. queue' \in SUBSET Record /\ Tidy(state', queue')
    BY <1>2, <1>6, <2>2 DEF fail_at_or_above
  <2>9. TypeOK'
    BY <1>1, <1>2, <1>6, <2>2, <2>8 DEF TypeOK
  <2> QED
    BY <1>6, <2>2, <2>6, <2>7, <2>8, <2>9 DEF LocalInv, DownIsEmpty
<1> QED
  BY <1>0, <1>5, <1>6 DEF truncate_divergent

LEMMA WentThroughType ==
    ASSUME NEW l \in Seq(Entry), NEW from \in Nat \ {0}, NEW to \in Nat,
           from <= to + 1, to <= Len(l)
    PROVE  WentThrough(l, from, to) \in Seq(Record)
<1> DEFINE R(k) == [offset |-> from + k - 2, entry |-> l[from + k - 1]]
<1>1. ASSUME NEW k \in 1 .. to - from + 1
      PROVE  R(k) \in Record
  <2>1. from + k - 2 \in Nat /\ from + k - 1 \in 1 .. Len(l)
    OBVIOUS
  <2>2. l[from + k - 1] \in Entry
    BY <2>1
  <2> QED
    BY <2>1, <2>2 DEF Record
<1>2. to - from + 1 \in Nat
  OBVIOUS
<1> HIDE DEF R
<1>3. [k \in 1 .. to - from + 1 |-> R(k)] \in Seq(Record)
  BY <1>1, <1>2
<1> QED
  BY Zenon, <1>3 DEF WentThrough, R

LEMMA LocalAppend ==
    ASSUME LocalInv, NEW r \in ResponseType, append_and_commit(r)
    PROVE  LocalInv'
<1> DEFINE v == Validated(state, r)
           s == Appended(v, r)
           new == state.high_watermark + 1 .. s.high_watermark
           k == Notified(s, new)
<1>0. PICK b : b = AppendLog(r.entries)
  OBVIOUS
<1>1. /\ Idle /\ Accepts(state, r) /\ state' = k /\ in_progress' = in_progress
      /\ applied' = applied \o WentThrough(s.log, state.high_watermark + 1, s.high_watermark)
      /\ completed' = IF new = {} THEN completed ELSE completed \cup complete(s.high_watermark)
      /\ queue' = IF new = {} THEN queue ELSE queue \ complete(s.high_watermark)
      /\ storage' = AppendWrites(r) \o Deferred(state, r)
      /\ leader_of' = leader_of /\ leader_log' = leader_log /\ leader_hw' = leader_hw
      /\ committed' = committed /\ requests' = requests
      /\ quorum_state' = quorum_state /\ disk_log' = disk_log
  BY DEF append_and_commit, leaders, disk
<1>2. /\ state \in NodeState /\ state.log = disk_log /\ Tidy(state, queue) /\ TypeOK
      /\ queue \in SUBSET Record /\ storage = <<>>
  BY <1>1, IdleFacts
<1>3. /\ v \in NodeState /\ SameLog(v, state) /\ v.role = "Follower" /\ v.log = disk_log
      /\ v.high_watermark = state.high_watermark
  BY Zenon, <1>1, <1>2, ValidatedType DEF SameLog
<1>4. Tidy(v, queue)
  BY <1>2, <1>3, SameTidy
<1> HIDE DEF v
<1>5. IsAppended(s, v, r)
  BY Zenon, <1>3, <1>4, AppendedFacts DEF Tidy
<1> HIDE DEF s
<1>6. /\ s \in NodeState /\ s.log = disk_log \o r.entries /\ s.role = "Follower"
      /\ s.high_watermark \in state.high_watermark .. Len(s.log)
  BY Zenon, <1>3, <1>5 DEF IsAppended
<1>a. /\ s.log \in Seq(Entry) /\ state.high_watermark \in Nat /\ s.high_watermark \in Nat
      /\ Len(s.log) \in Nat
  <2>1. s \in NodeState
    BY <1>6
  <2> QED
    BY <1>2, <2>1 DEF NodeState
<1>b. s.high_watermark <= Len(s.log) /\ state.high_watermark <= s.high_watermark
  BY <1>6, <1>a
<1>c. new \in SUBSET (1 .. Len(s.log))
  BY <1>a, <1>b
<1>d. IsNotified(k, s, new)
  BY Zenon, <1>6, <1>c, NotifiedFacts
<1> HIDE DEF k
<1>e. new = NewIndices(v, s)
  BY <1>3 DEF NewIndices
<1>f. Tidy(k, queue')
  <2>1. queue' = StillWaiting(queue, v, s)
    BY Zenon, <1>1, <1>e DEF complete, StillWaiting
  <2>2. IsNotified(k, s, NewIndices(v, s))
    BY <1>d, <1>e
  <2> QED
    BY Zenon, <1>2, <1>3, <1>4, <1>5, <2>1, <2>2, CommitTidy
<1>7. k \in NodeState /\ k.role = "Follower" /\ k.log = disk_log \o r.entries
  BY Zenon, <1>6, <1>d DEF IsNotified
<1>8. Tidy(k, queue') /\ queue' \in SUBSET Record
  BY <1>1, <1>2, <1>f DEF complete
<1>9. completed' \in SUBSET Record
  BY <1>1, <1>2 DEF complete, TypeOK
<1>10. applied' \in Seq(Record)
  <2>1. state.high_watermark + 1 \in Nat \ {0} /\ state.high_watermark + 1 <= s.high_watermark + 1
    BY <1>a, <1>b
  <2>2. WentThrough(s.log, state.high_watermark + 1, s.high_watermark) \in Seq(Record)
    BY <1>a, <1>b, <2>1, WentThroughType
  <2> QED
    BY <1>1, <1>2, <2>2 DEF TypeOK
<1> HIDE DEF new
<1>11. TypeOK'
  BY <1>1, <1>2, <1>7, <1>8, <1>9, <1>10 DEF TypeOK
<1>12. BatchReaches'
  <2>1. CASE r.entries = <<>>
    <3>1. AppendWrites(r) = <<>> /\ disk_log \o r.entries = disk_log
      BY <1>2, <2>1 DEF AppendWrites, TypeOK
    <3>2. storage' = <<>> \/ \E a : storage' = <<a>> /\ Persists(a)
      BY <1>1, <1>2, <3>1, DeferredType, BatchShapes
    <3> QED
      BY <1>1, <1>7, <3>1, <3>2 DEF BatchReaches, Persists
  <2>2. CASE r.entries # <<>>
    <3>1. AppendWrites(r) = <<b>> /\ b.op = "AppendLog" /\ b.entries = r.entries
      BY <1>0, <2>2 DEF AppendWrites, AppendLog
    <3>2. storage' = <<b>> \/ \E a : storage' = <<b, a>> /\ Persists(a)
      BY Zenon, <1>1, <1>2, <3>1, DeferredType, BatchShapes
    <3>3. WritesLog(b)'
      BY <1>1, <1>7, <3>1 DEF WritesLog, ResponseType
    <3> QED
      BY <3>2, <3>3 DEF BatchReaches, Persists
  <2> QED
    BY <2>1, <2>2
<1> QED
  BY <1>1, <1>7, <1>8, <1>11, <1>12 DEF LocalInv, DownIsEmpty

LEMMA LocalApplyFails ==
    ASSUME LocalInv, NEW r \in ResponseType, apply_fails(r)
    PROVE  LocalInv'
<1> DEFINE v == Validated(state, r)
           s == Appended(v, r)
           new == state.high_watermark + 1 .. s.high_watermark
<1>1. /\ Idle /\ Accepts(state, r) /\ Stopped
      /\ \E i \in OfType(s.log, "Command", new) :
            applied' = applied \o WentThrough(s.log, state.high_watermark + 1, i - 1)
  BY DEF apply_fails
<1>2. /\ state \in NodeState /\ Tidy(state, queue) /\ TypeOK
  BY <1>1, IdleFacts
<1>3. v \in NodeState /\ v.log = state.log /\ v.high_watermark = state.high_watermark
  BY <1>1, <1>2, ValidatedType DEF SameLog
<1> HIDE DEF v
<1>a. v.high_watermark <= Len(v.log)
  BY <1>2, <1>3 DEF Tidy
<1>b. IsAppended(s, v, r)
  BY Zenon, <1>3, <1>a, AppendedFacts
<1> HIDE DEF s
<1>4. s \in NodeState /\ s.high_watermark \in state.high_watermark .. Len(s.log)
  BY Zenon, <1>3, <1>b DEF IsAppended
<1>5. PICK i \in new : applied' = applied \o WentThrough(s.log, state.high_watermark + 1, i - 1)
  BY Zenon, <1>1 DEF OfType
<1>6. /\ s.log \in Seq(Entry) /\ state.high_watermark \in Nat /\ i - 1 \in Nat
      /\ i - 1 <= Len(s.log) /\ state.high_watermark <= i - 1
  BY <1>2, <1>4, <1>5 DEF NodeState
<1>7. WentThrough(s.log, state.high_watermark + 1, i - 1) \in Seq(Record)
  BY <1>6, WentThroughType
<1>8. applied' \in Seq(Record)
  BY <1>2, <1>5, <1>7 DEF TypeOK
<1> QED
  BY <1>1, <1>8, LocalStopped

LEMMA LedFacts ==
    ASSUME NEW f, NEW m, m = Max({0} \cup {t \in 1 .. MaxTerm : f[t] # Nil})
    PROVE  /\ m \in 0 .. MaxTerm
           /\ \A t \in 1 .. MaxTerm : f[t] # Nil => t <= m
           /\ m > 0 => f[m] # Nil
<1> DEFINE S == {0} \cup {t \in 1 .. MaxTerm : f[t] # Nil}
<1>1. /\ S \in SUBSET Nat /\ S # {} /\ MaxTerm \in Nat /\ \A x \in S : x <= MaxTerm
  BY BoundsAssumption
<1>2. Max(S) \in S /\ \A y \in S : Max(S) >= y
  <2> HIDE DEF S
  <2> QED
    BY Zenon, <1>1, MaxOfBounded
<1> QED
  BY <1>1, <1>2

LEMMA LastLedFacts ==
    /\ LastLed \in 0 .. MaxTerm
    /\ \A t \in 1 .. MaxTerm : leader_of[t] # Nil => t <= LastLed
    /\ LastLed > 0 => leader_of[LastLed] # Nil
BY LedFacts DEF LastLed

LeaderTypes ==
    /\ leader_of \in [1 .. MaxTerm -> Node \cup {Nil}]
    /\ leader_log \in [1 .. MaxTerm -> Seq(Entry)]
    /\ leader_hw \in [1 .. MaxTerm -> Nat]
    /\ committed \in Seq(Entry)

\* The other nodes act.
LEMMA LocalPeers ==
    ASSUME LocalInv,
           \/ \E p \in Peers, t \in 1 .. MaxTerm : PeerElected(p, t)
           \/ \E t \in 1 .. MaxTerm, type \in Proposals : PeerAppends(t, type)
           \/ \E k \in 1 .. MaxLog : Commit(k)
    PROVE  LocalInv'
<1>1. /\ state' = state /\ storage' = storage /\ queue' = queue
      /\ in_progress' = in_progress /\ applied' = applied /\ completed' = completed
      /\ requests' = requests /\ quorum_state' = quorum_state /\ disk_log' = disk_log
  BY Zenon DEF PeerElected, PeerAppends, Commit, disk, app
<1>2. TypeOK /\ MaxTerm \in Nat
  BY BoundsAssumption DEF LocalInv
<1>3. LeaderTypes'
  <2>1. ASSUME NEW p \in Peers, NEW t \in 1 .. MaxTerm, PeerElected(p, t)
        PROVE  LeaderTypes'
    <3>1. PICK l \in ElectableLogs : leader_log' = [leader_log EXCEPT ![t] = Append(l, Lcm(t))]
      BY Zenon, <2>1 DEF PeerElected
    <3>2. PICK u \in 1 .. MaxTerm : \E k \in 0 .. Len(leader_log[u]) : l = Prefix(leader_log[u], k)
      BY <3>1 DEF ElectableLogs
    <3>3. l \in Seq(Entry)
      BY <1>2, <3>2 DEF TypeOK, Prefix
    <3>4. Lcm(t) \in Entry
      BY <1>2 DEF Lcm, Entry, EntryType, Term
    <3>5. Append(l, Lcm(t)) \in Seq(Entry)
      BY <3>3, <3>4
    <3>6. /\ leader_of' = [leader_of EXCEPT ![t] = p]
          /\ leader_hw' = [leader_hw EXCEPT ![t] = Len(committed)]
          /\ committed' = committed
      BY <2>1 DEF PeerElected
    <3> QED
      BY <1>2, <3>1, <3>5, <3>6 DEF TypeOK, Node, LeaderTypes
  <2>2. ASSUME NEW t \in 1 .. MaxTerm, NEW type \in Proposals, PeerAppends(t, type)
        PROVE  LeaderTypes'
    <3>1. [term |-> t, entry_type |-> type] \in Entry
      BY <1>2, ProposalsAssumption DEF Entry, EntryType, Term
    <3>2. /\ leader_log' = [leader_log EXCEPT ![t] =
                              Append(@, [term |-> t, entry_type |-> type])]
          /\ leader_of' = leader_of /\ leader_hw' = leader_hw /\ committed' = committed
      BY <2>2 DEF PeerAppends
    <3> QED
      BY <1>2, <3>1, <3>2 DEF TypeOK, LeaderTypes
  <2>3. ASSUME NEW k \in 1 .. MaxLog, Commit(k)
        PROVE  LeaderTypes'
    <3>1. /\ LastLed > 0 /\ committed' = Prefix(leader_log[LastLed], k)
          /\ k \in Len(committed) + 1 .. Len(leader_log[LastLed])
          /\ leader_hw' = [leader_hw EXCEPT ![LastLed] = k]
          /\ leader_of' = leader_of /\ leader_log' = leader_log
      BY <2>3 DEF Commit
    <3>2. LastLed \in 1 .. MaxTerm
      BY <1>2, <3>1, LastLedFacts
    <3> QED
      BY <1>2, <3>1, <3>2 DEF TypeOK, Prefix, LeaderTypes
  <2> QED
    BY <2>1, <2>2, <2>3
<1>4. TypeOK'
  BY <1>1, <1>2, <1>3 DEF TypeOK, LeaderTypes
<1>5. BatchReaches'
  BY <1>1 DEF LocalInv, BatchReaches, WritesLog
<1> QED
  BY <1>1, <1>4, <1>5 DEF LocalInv, DownIsEmpty

\* The role, term, vote or leader changes and is saved.
LEMMA LocalSaved ==
    ASSUME LocalInv, Idle, NEW s \in NodeState, SameLog(s, state), s.role # "Down", Saved(s)
    PROVE  LocalInv'
<1>1. /\ state' = s /\ storage' = storage /\ queue' = queue
      /\ in_progress' = in_progress /\ applied' = applied /\ completed' = completed
      /\ requests' = requests /\ quorum_state' = QuorumState(s) /\ disk_log' = disk_log
      /\ leader_of' = leader_of /\ leader_log' = leader_log /\ leader_hw' = leader_hw
      /\ committed' = committed
  BY DEF Saved, leaders, app
<1>2. /\ state \in NodeState /\ state.log = disk_log /\ Tidy(state, queue) /\ TypeOK
      /\ storage = <<>>
  BY IdleFacts
<1>3. TypeOK'
  BY <1>1, <1>2, QuorumStateType DEF TypeOK, QuorumStates
<1>4. Tidy(s, queue)
  BY <1>2, SameTidy
<1>5. BatchReaches'
  BY <1>1, <1>2 DEF BatchReaches, SameLog
<1> QED
  BY <1>1, <1>3, <1>4, <1>5 DEF LocalInv, DownIsEmpty

LEMMA Campaigned ==
    ASSUME NEW s \in NodeState, s.current_term < MaxTerm, NEW k,
           k = [s EXCEPT !.role = "Candidate", !.current_term = @ + 1, !.voted_for = Self,
                         !.leader_id = Nil]
    PROVE  /\ k \in NodeState /\ SameLog(k, s) /\ k.role = "Candidate"
           /\ k.current_term = s.current_term + 1 /\ k.leader_id = Nil
<1>1. s.current_term + 1 \in Term /\ Self \in Node \cup {Nil}
  BY BoundsAssumption DEF NodeState, Term, Node
<1>2. PICK t : t = s.current_term + 1
  OBVIOUS
<1>3. k = [s EXCEPT !.role = "Candidate", !.current_term = t, !.voted_for = Self,
                    !.leader_id = Nil]
  BY <1>2 DEF NodeState
<1> QED
  BY Zenon, <1>1, <1>2, <1>3 DEF NodeState, SameLog

\* The node appends an entry as a leader.
LEMMA LocalLeads ==
    ASSUME LocalInv, Idle, NEW s \in NodeState, NEW e \in Entry, Leads(s, e),
           s.log = state.log, s.role # "Down", queue' \in SUBSET Record,
           leader_of' \in [1 .. MaxTerm -> Node \cup {Nil}],
           Tidy([s EXCEPT !.log = Append(@, e)], queue')
    PROVE  LocalInv'
<1> DEFINE k == [s EXCEPT !.log = Append(@, e)]
<1>1. /\ state' = k /\ storage' = storage
      /\ in_progress' = in_progress /\ applied' = applied /\ completed' = completed
      /\ requests' = requests /\ quorum_state' = QuorumState(s)
      /\ disk_log' = Append(disk_log, e)
      /\ leader_log' = [leader_log EXCEPT ![s.current_term] = Append(s.log, e)]
      /\ leader_hw' = leader_hw /\ committed' = committed
  BY DEF Leads, app
<1>2. /\ state \in NodeState /\ state.log = disk_log /\ TypeOK /\ storage = <<>>
  BY IdleFacts
<1>a. PICK l : l = Append(s.log, e)
  BY Zenon
<1>b. l \in Seq(Entry) /\ l = Append(disk_log, e)
  BY <1>2, <1>a DEF NodeState
<1>c. k = [s EXCEPT !.log = l]
  BY <1>a DEF NodeState
<1>3. k \in NodeState /\ k.log = Append(disk_log, e) /\ k.role # "Down"
  BY Zenon, <1>b, <1>c DEF NodeState
<1>4. Tidy(k, queue')
  OBVIOUS
<1> HIDE DEF k
<1>5. /\ Append(s.log, e) \in Seq(Entry) /\ disk_log' \in Seq(Entry)
      /\ quorum_state' \in QuorumStates
  BY <1>1, <1>2, QuorumStateType DEF NodeState, TypeOK
<1>6. TypeOK'
  BY Zenon, <1>1, <1>2, <1>3, <1>5 DEF TypeOK, QuorumStates
<1>7. BatchReaches'
  BY <1>1, <1>2, <1>3 DEF BatchReaches
<1> QED
  BY <1>1, <1>3, <1>4, <1>6, <1>7 DEF LocalInv, DownIsEmpty

LEMMA AppendTidy ==
    ASSUME NEW s \in NodeState, NEW w \in SUBSET Record, Tidy(s, w), NEW e \in Entry
    PROVE  Tidy([s EXCEPT !.log = Append(@, e)], w)
<1> DEFINE k == [s EXCEPT !.log = Append(@, e)]
<1>1. /\ k.log = Append(s.log, e) /\ k.high_watermark = s.high_watermark
      /\ k.pending_membership_change = s.pending_membership_change
  BY DEF NodeState
<1> HIDE DEF k
<1>2. /\ Len(k.log) = Len(s.log) + 1 /\ \A i \in 1 .. Len(s.log) : k.log[i] = s.log[i]
      /\ Len(s.log) \in Nat /\ s.high_watermark \in Nat
  BY <1>1 DEF NodeState
<1>3. Tidy(k, w)
  BY <1>1, <1>2 DEF Tidy, Record
<1> QED
  BY <1>3 DEF k

LEMMA LocalElected ==
    ASSUME LocalInv, Elected
    PROVE  LocalInv'
<1> DEFINE s == [state EXCEPT !.role = "Leader", !.leader_id = Self]
           e == Lcm(state.current_term)
           k == [s EXCEPT !.log = Append(@, e)]
<1>1. /\ Idle /\ leader_of' = [leader_of EXCEPT ![state.current_term] = Self] /\ Leads(s, e)
      /\ queue' = queue
  BY DEF Elected
<1>2. /\ state \in NodeState /\ Tidy(state, queue) /\ TypeOK /\ queue \in SUBSET Record
  BY <1>1, IdleFacts
<1>3. s \in NodeState /\ SameLog(s, state) /\ s.role = "Leader" /\ e \in Entry
  BY Zenon, <1>2 DEF NodeState, SameLog, Node, Lcm, Entry, EntryType
<1>4. Tidy(s, queue)
  BY <1>2, <1>3, SameTidy
<1>5. leader_of' \in [1 .. MaxTerm -> Node \cup {Nil}]
  BY Zenon, <1>1, <1>2 DEF TypeOK, Node
<1>6. s.log = state.log /\ s.role # "Down"
  BY <1>3 DEF SameLog
<1> HIDE DEF s, e
<1>7. Tidy(k, queue')
  BY <1>1, <1>2, <1>3, <1>4, AppendTidy
<1> QED
  BY <1>1, <1>2, <1>3, <1>5, <1>6, <1>7, LocalLeads

LEMMA LocalPropose ==
    ASSUME LocalInv, Propose
    PROVE  LocalInv'
<1> DEFINE e == [term |-> state.current_term, entry_type |-> "Command"]
           c == [offset |-> Len(state.log), entry |-> e]
           k == [state EXCEPT !.log = Append(@, e)]
<1>1. Idle /\ leader_of' = leader_of /\ Leads(state, e) /\ queue' = queue \cup {c}
  BY DEF Propose, park
<1>2. /\ state \in NodeState /\ Tidy(state, queue) /\ TypeOK /\ queue \in SUBSET Record
      /\ state.role # "Down"
  BY <1>1, IdleFacts
<1>3. e \in Entry /\ c \in Record /\ c.offset = Len(state.log) /\ c.entry = e
  BY <1>2 DEF NodeState, Entry, EntryType, Record
<1>4. leader_of' \in [1 .. MaxTerm -> Node \cup {Nil}]
  BY <1>1, <1>2 DEF TypeOK
<1> HIDE DEF e, c
<1>5. Tidy(k, queue)
  BY <1>2, <1>3, AppendTidy
<1>6. /\ c.offset \in k.high_watermark .. Len(k.log) - 1 /\ k.log[c.offset + 1] = c.entry
  BY <1>2, <1>3 DEF NodeState, Tidy
<1> HIDE DEF k
<1>7. Tidy(k, queue')
  BY <1>1, <1>5, <1>6 DEF Tidy
<1>8. queue' \in SUBSET Record
  BY <1>1, <1>2, <1>3
<1> QED
  BY Zenon, <1>1, <1>2, <1>3, <1>4, <1>7, <1>8, LocalLeads DEF k

LEMMA LocalProposeChange ==
    ASSUME LocalInv, ProposeChange
    PROVE  LocalInv'
<1> DEFINE e == [term |-> state.current_term, entry_type |-> "VotersRecord"]
           s == [state EXCEPT !.pending_membership_change = Len(state.log)]
           k == [s EXCEPT !.log = Append(@, e)]
<1>1. Idle /\ leader_of' = leader_of /\ Leads(s, e) /\ queue' = queue
  BY DEF ProposeChange
<1>2. /\ state \in NodeState /\ Tidy(state, queue) /\ TypeOK /\ queue \in SUBSET Record
      /\ state.role # "Down"
  BY <1>1, IdleFacts
<1>3. /\ s \in NodeState /\ e \in Entry /\ s.log = state.log /\ s.role # "Down"
      /\ s.high_watermark = state.high_watermark
      /\ s.pending_membership_change = Len(state.log)
      /\ e.entry_type = "VotersRecord"
  BY <1>2 DEF NodeState, Entry, EntryType
<1>4. leader_of' \in [1 .. MaxTerm -> Node \cup {Nil}]
  BY <1>1, <1>2 DEF TypeOK
<1> HIDE DEF e, s
<1>5. /\ k.log = Append(state.log, e) /\ k.high_watermark = state.high_watermark
      /\ k.pending_membership_change = Len(state.log)
  BY <1>3 DEF NodeState
<1> HIDE DEF k
<1>6. /\ Len(k.log) = Len(state.log) + 1 /\ k.log[Len(state.log) + 1] = e
      /\ \A i \in 1 .. Len(state.log) : k.log[i] = state.log[i]
      /\ Len(state.log) \in Nat /\ state.high_watermark \in Nat
  BY <1>2, <1>3, <1>5 DEF NodeState
<1>7. Tidy(k, queue)
  <2>1. /\ state.high_watermark <= Len(state.log)
        /\ \A c \in queue : /\ c.offset \in state.high_watermark .. Len(state.log) - 1
                           /\ state.log[c.offset + 1] = c.entry
    BY Zenon, <1>2 DEF Tidy
  <2>2. k.high_watermark <= Len(k.log)
    BY <1>5, <1>6, <2>1
  <2>3. Len(state.log) \in k.high_watermark .. Len(k.log) - 1
    BY <1>5, <1>6, <2>1
  <2>4. ASSUME NEW c \in queue
        PROVE  /\ c.offset \in k.high_watermark .. Len(k.log) - 1
               /\ k.log[c.offset + 1] = c.entry
    <3>1. /\ c.offset \in state.high_watermark .. Len(state.log) - 1
          /\ state.log[c.offset + 1] = c.entry
      BY Zenon, <2>1
    <3>2. c.offset + 1 \in 1 .. Len(state.log)
      BY <1>6, <3>1
    <3>3. k.log[c.offset + 1] = c.entry
      BY Zenon, <1>6, <3>1, <3>2
    <3>4. c.offset \in k.high_watermark .. Len(k.log) - 1
      BY <1>5, <1>6, <3>1
    <3> QED
      BY <3>3, <3>4
  <2>5. k.log[Len(state.log) + 1].entry_type = "VotersRecord"
    BY Zenon, <1>3, <1>6
  <2> QED
    BY Zenon, <1>5, <2>2, <2>3, <2>4, <2>5 DEF Tidy
<1> QED
  BY Zenon, <1>1, <1>2, <1>3, <1>4, <1>7, LocalLeads DEF k

LEMMA InitLocal == Init => LocalInv
<1> SUFFICES ASSUME Init PROVE LocalInv
  OBVIOUS
<1>1. /\ quorum_state \in QuorumStates /\ disk_log = <<>> /\ state = FromStores
      /\ LatestVoters(disk_log, DOMAIN disk_log, Nil) = Nil
  BY BoundsAssumption DEF Init, QuorumStates, Term, LatestVoters, OfType
<1>2. /\ state \in NodeState /\ state.log = <<>> /\ state.high_watermark = 0
      /\ state.pending_membership_change = Nil
  BY <1>1 DEF FromStores, NodeState, QuorumStates
<1>a. <<>> \in Seq(Entry) /\ <<>> \in Seq(Record)
  OBVIOUS
<1>3. TypeOK
  <2>1. LeaderTypes
    BY <1>a DEF LeaderTypes, Init
  <2>2. /\ queue \subseteq Record /\ in_progress \in BOOLEAN /\ applied \in Seq(Record)
        /\ completed \subseteq Record /\ disk_log \in Seq(Entry)
    BY Zenon, <1>a DEF Init
  <2> QED
    BY Zenon, <1>1, <1>2, <2>1, <2>2 DEF TypeOK, LeaderTypes, QuorumStates
<1> QED
  BY <1>1, <1>2, <1>3 DEF LocalInv, Init, Tidy, BatchReaches, DownIsEmpty

LEMMA ResponseTyped ==
    ASSUME EpochEnds, LocalInv, NEW r \in Response
    PROVE  /\ r \in ResponseType
           /\ \E q \in requests : \E t \in Answering(q) : r \in Answers(t, q)
<1>1. PICK q \in requests : \E t \in Answering(q) : r \in Answers(t, q)
  <2> DEFINE All(q) == UNION {Answers(t, q) : t \in Answering(q)}
  <2>1. PICK q \in requests : r \in All(q)
    BY Zenon DEF Response
  <2> QED
    BY Zenon, <2>1
<1>2. PICK t \in Answering(q) : r \in Answers(t, q)
  BY <1>1
<1>3. t \in 1 .. MaxTerm /\ leader_of[t] \in Peers /\ q \in Request
  BY <1>2 DEF Answering, LocalInv
<1> QED
  BY <1>1, <1>2, <1>3, AnswerFacts DEF LocalInv

LEMMA NextLocal ==
    ASSUME EpochEnds, LocalInv, [Next]_vars
    PROVE  LocalInv'
<1>1. CASE Write
  BY <1>1, LocalWrite
<1>2. CASE Crash
  <2>1. Stopped /\ applied' = <<>>
    BY <1>2 DEF Crash
  <2> QED
    BY <2>1, LocalStopped
<1>3. CASE Restart
  BY <1>3, LocalRestart
<1>4. CASE on_fetch_tick
  BY <1>4, LocalTick
<1>5. ASSUME NEW r \in Response, handle_message(r)
      PROVE  LocalInv'
  <2>1. r \in ResponseType
    BY ResponseTyped
  <2> QED
    BY Zenon, <1>5, <2>1, LocalSnapshotOrRefuse, LocalTruncate, LocalAppend, LocalApplyFails
       DEF handle_message, handle_fetch_response
<1>6. CASE \/ \E p \in Peers, t \in 1 .. MaxTerm : PeerElected(p, t)
           \/ \E t \in 1 .. MaxTerm, type \in Proposals : PeerAppends(t, type)
           \/ \E k \in 1 .. MaxLog : Commit(k)
  BY <1>6, LocalPeers
<1>7. ASSUME NEW t \in 1 .. MaxTerm, NEW vote \in Peers \cup {Nil},
             NEW leader \in {Nil, leader_of[t]}, StepsDown(t, vote, leader)
      PROVE  LocalInv'
  <2>1. PICK s : s = [state EXCEPT !.role = "Follower", !.current_term = t, !.voted_for = vote,
                                   !.leader_id = leader]
    OBVIOUS
  <2>2. Idle /\ Saved(s) /\ leader \in Node \cup {Nil} /\ state \in NodeState
    BY <1>7, <2>1 DEF StepsDown, LocalInv, TypeOK
  <2>3. s \in NodeState /\ SameLog(s, state) /\ s.role = "Follower"
    <3>1. t \in Term /\ vote \in Node \cup {Nil}
      BY BoundsAssumption DEF Term, Node
    <3> QED
      BY Zenon, <2>1, <2>2, <3>1 DEF NodeState, SameLog
  <2> QED
    BY <2>2, <2>3, LocalSaved
<1>8. CASE Campaigns
  <2>1. PICK s : s = [state EXCEPT !.role = "Candidate", !.current_term = @ + 1,
                                   !.voted_for = Self, !.leader_id = Nil]
    OBVIOUS
  <2>2. Idle /\ Saved(s) /\ state \in NodeState /\ state.current_term < MaxTerm
    BY <1>8, <2>1 DEF Campaigns, LocalInv, TypeOK
  <2>3. s \in NodeState /\ SameLog(s, state) /\ s.role = "Candidate"
    BY Zenon, <2>1, <2>2, Campaigned
  <2> QED
    BY <2>2, <2>3, LocalSaved
<1>9. CASE Elected
  BY <1>9, LocalElected
<1>10. CASE Propose
  BY <1>10, LocalPropose
<1>11. CASE ProposeChange
  BY <1>11, LocalProposeChange
<1>12. CASE UNCHANGED vars
  <2>1. /\ leader_of' = leader_of /\ leader_log' = leader_log /\ leader_hw' = leader_hw
        /\ committed' = committed /\ state' = state /\ queue' = queue
        /\ in_progress' = in_progress /\ storage' = storage /\ quorum_state' = quorum_state
        /\ disk_log' = disk_log /\ applied' = applied /\ completed' = completed
        /\ requests' = requests
    BY <1>12 DEF vars, leaders, disk, app
  <2>2. TypeOK'
    BY <2>1 DEF LocalInv, TypeOK
  <2>3. BatchReaches'
    BY <2>1 DEF LocalInv, BatchReaches, WritesLog
  <2> QED
    BY <2>1, <2>2, <2>3 DEF LocalInv, DownIsEmpty
<1> QED
  BY Zenon, <1>1, <1>2, <1>3, <1>4, <1>5, <1>6, <1>7, <1>8, <1>9, <1>10, <1>11, <1>12 DEF Next

-----------------------------------------------------------------------------
(* What a step never does. *)

LEMMA StepStores ==
    ASSUME EpochEnds, LocalInv, [Next]_vars
    PROVE  AsksFromStored
<1>1. CASE requests' = requests
  BY <1>1 DEF AsksFromStored
<1>2. CASE on_fetch_tick
  <2>1. /\ Idle /\ requests' = requests \cup build_fetch_request(state) /\ state' = state
    BY <1>2 DEF on_fetch_tick
  <2>2. state.log = disk_log /\ disk_log \in Seq(Entry)
    BY <2>1, IdleFacts DEF TypeOK
  <2>3. \A q \in requests' \ requests : q.fetch_offset = Len(state.log)
    BY <2>1 DEF build_fetch_request, FetchRequest, log_end_offset
  <2> QED
    BY <2>1, <2>2, <2>3 DEF AsksFromStored
<1>3. ASSUME NEW r \in Response, truncate_divergent(r)
      PROVE  AsksFromStored
  <2> DEFINE s == Validated(state, r)
             p == TruncationPoint(s, r)
             k == Truncated(s, p)
  <2>1. /\ Idle /\ Accepts(state, r) /\ r.diverging_epoch # Nil
        /\ \/ /\ ~Uncommits(s, p) /\ state' = k
              /\ requests' = requests \cup build_fetch_request(k)
           \/ requests' = requests
    BY <1>3 DEF truncate_divergent
  <2>2. /\ state \in NodeState /\ state.log = disk_log /\ Tidy(state, queue) /\ TypeOK
        /\ queue \in SUBSET Record /\ r \in ResponseType
    BY <2>1, IdleFacts, ResponseTyped
  <2>3. s \in NodeState /\ s.log = disk_log /\ Tidy(s, queue)
    BY Zenon, <2>1, <2>2, ValidatedType, SameTidy DEF SameLog
  <2> HIDE DEF s
  <2>4. CASE /\ ~Uncommits(s, p) /\ state' = k
             /\ requests' = requests \cup build_fetch_request(k)
    <3>1. p \in s.high_watermark .. Len(s.log) /\ p \in 0 .. Len(s.log)
      BY Zenon, <2>1, <2>2, <2>3, <2>4, CutFacts DEF Tidy
    <3>2. k.log = Prefix(disk_log, p)
      BY Zenon, <2>2, <2>3, <3>1, TruncatedFacts
    <3>3. \A q \in requests' \ requests : q.fetch_offset = Len(k.log)
      BY <2>4 DEF build_fetch_request, FetchRequest, log_end_offset
    <3>4. Len(k.log) = p /\ Prefix(Prefix(disk_log, p), p) = Prefix(disk_log, p)
      BY <2>2, <2>3, <3>1, <3>2 DEF Prefix, TypeOK
    <3> HIDE DEF p, k
    <3> QED
      BY <2>3, <2>4, <3>1, <3>2, <3>3, <3>4 DEF AsksFromStored
  <2> QED
    BY <1>1, <2>1, <2>4
<1>4. \/ requests' = requests
      \/ on_fetch_tick
      \/ \E r \in Response : truncate_divergent(r)
  BY Zenon DEF Next, vars, Write, Crash, Restart, Stopped, handle_message, handle_fetch_response,
         snapshot_required, append_and_commit, refuse_entries, apply_fails, PeerElected,
         PeerAppends, Commit, StepsDown, Campaigns, Saved, Elected, Propose, ProposeChange, Leads
<1> QED
  BY <1>1, <1>2, <1>3, <1>4

LEMMA KeepsIf ==
    ASSUME state \in NodeState, state' \in NodeState,
           state.high_watermark <= Len(state.log),
           state.high_watermark <= state'.high_watermark,
           state.high_watermark <= Len(state'.log),
           \A i \in 1 .. state.high_watermark : state'.log[i] = state.log[i]
    PROVE  KeepsCommitted
<1> DEFINE h == state.high_watermark
           p == SubSeq(state.log, 1, h)
           q == SubSeq(state'.log, 1, h)
<1>1. /\ state.log \in Seq(Entry) /\ state'.log \in Seq(Entry) /\ h \in Nat
      /\ state'.high_watermark \in Nat
  BY DEF NodeState
<1>2. /\ p \in Seq(Entry) /\ Len(p) = h /\ \A i \in 1 .. h : p[i] = state.log[i]
      /\ q \in Seq(Entry) /\ Len(q) = h /\ \A i \in 1 .. h : q[i] = state'.log[i]
  BY <1>1
<1>3. p = q /\ SubSeq(p, 1, Len(p)) = p
  BY <1>1, <1>2
<1> HIDE DEF p, q
<1> QED
  BY <1>1, <1>2, <1>3 DEF KeepsCommitted, IsPrefix, Prefix, p, q

LEMMA StepKeeps ==
    ASSUME EpochEnds, LocalInv, LocalInv', [Next]_vars,
           state.role # "Down", state'.role # "Down"
    PROVE  KeepsCommitted
<1>0. /\ state \in NodeState /\ state' \in NodeState /\ Tidy(state, queue)
  BY Zenon DEF LocalInv, TypeOK
<1>1. /\ state \in NodeState /\ state' \in NodeState /\ Tidy(state, queue)
      /\ state.high_watermark <= Len(state.log) /\ state.log \in Seq(Entry)
      /\ state.high_watermark \in Nat /\ Len(state.log) \in Nat
  BY <1>0 DEF Tidy, NodeState
<1>2. CASE SameLog(state', state)
  BY <1>1, <1>2, KeepsIf DEF SameLog
<1>3. ASSUME NEW r \in ResponseType, truncate_divergent(r)
      PROVE  KeepsCommitted
  <2> DEFINE s == Validated(state, r)
             p == TruncationPoint(s, r)
             k == Truncated(s, p)
  <2>1. /\ Idle /\ Accepts(state, r) /\ r.diverging_epoch # Nil
        /\ \/ ~Uncommits(s, p) /\ state' = k
           \/ state' = s
    BY <1>3 DEF truncate_divergent
  <2>2. s \in NodeState /\ SameLog(s, state) /\ Tidy(s, queue) /\ queue \in SUBSET Record
    BY Zenon, <1>1, ValidatedType, SameTidy DEF LocalInv, TypeOK
  <2> HIDE DEF s
  <2>3. CASE ~Uncommits(s, p) /\ state' = k
    <3>1. p \in s.high_watermark .. Len(s.log)
      BY <2>1, <2>2, <2>3, CutFacts DEF Tidy
    <3> HIDE DEF p
    <3>2. k.log = Prefix(s.log, p) /\ k.high_watermark = s.high_watermark
      BY Zenon, <2>2, <3>1, TruncatedFacts
    <3> HIDE DEF k
    <3>3. /\ s.log = state.log /\ s.high_watermark = state.high_watermark
      BY <2>2 DEF SameLog
    <3>4. Len(state'.log) = p /\ \A i \in 1 .. p : state'.log[i] = state.log[i]
      BY <1>1, <2>3, <3>1, <3>2, <3>3 DEF Prefix
    <3> QED
      BY <1>1, <2>3, <3>1, <3>2, <3>3, <3>4, KeepsIf
  <2> QED
    BY <1>2, <2>1, <2>2, <2>3
<1>4. ASSUME NEW r \in ResponseType, append_and_commit(r)
      PROVE  KeepsCommitted
  <2> DEFINE v == Validated(state, r)
             s == Appended(v, r)
             new == state.high_watermark + 1 .. s.high_watermark
  <2>1. state' = Notified(s, new)
    BY Zenon, <1>4 DEF append_and_commit
  <2>2. /\ v \in NodeState /\ v.log = state.log /\ v.high_watermark = state.high_watermark
    BY <1>1, ValidatedType DEF SameLog
  <2> HIDE DEF v
  <2>a. v.high_watermark <= Len(v.log)
    BY <1>1, <2>2
  <2>3. IsAppended(s, v, r)
    BY Zenon, <2>2, <2>a, AppendedFacts
  <2> HIDE DEF s
  <2>4. /\ s \in NodeState /\ s.log = state.log \o r.entries
        /\ s.high_watermark \in state.high_watermark .. Len(s.log)
    BY Zenon, <2>2, <2>3 DEF IsAppended
  <2>5. s.high_watermark \in Nat /\ Len(s.log) \in Nat
    <3>1. s \in NodeState
      BY <2>4
    <3> QED
      BY <3>1 DEF NodeState
  <2>6. new \in SUBSET (1 .. Len(s.log)) /\ s.high_watermark >= state.high_watermark
    <3>1. s.high_watermark \in state.high_watermark .. Len(s.log)
      BY Zenon, <2>4
    <3> QED
      BY <1>1, <2>5, <3>1
  <2>7. IsNotified(state', s, new)
    BY Zenon, <2>1, <2>4, <2>6, NotifiedFacts
  <2>8. state'.log = s.log /\ state'.high_watermark = s.high_watermark
    BY Zenon, <2>7 DEF IsNotified
  <2>9. /\ \A i \in 1 .. Len(state.log) : state'.log[i] = state.log[i]
        /\ Len(state.log) <= Len(state'.log)
    BY <1>1, <2>4, <2>8 DEF ResponseType
  <2>10. /\ state.high_watermark <= Len(state'.log)
         /\ \A i \in 1 .. state.high_watermark : state'.log[i] = state.log[i]
    BY <1>1, <2>5, <2>8, <2>9
  <2> QED
    BY <1>1, <2>6, <2>8, <2>10, KeepsIf
<1>5. ASSUME NEW s, NEW e, Leads(s, e), s \in NodeState, s.log = state.log,
             s.high_watermark = state.high_watermark
      PROVE  KeepsCommitted
  <2>1. state'.log = Append(state.log, e) /\ state'.high_watermark = state.high_watermark
    BY <1>5 DEF Leads, NodeState
  <2> QED
    BY <1>1, <2>1, KeepsIf
<1>6. ASSUME NEW r \in Response, handle_message(r)
      PROVE  KeepsCommitted
  <2>1. r \in ResponseType
    BY ResponseTyped
  <2>2. ASSUME snapshot_required(r) \/ refuse_entries(r)
        PROVE  SameLog(state', state)
    BY Zenon, <1>1, <2>1, <2>2, ValidatedType DEF snapshot_required, refuse_entries
  <2>3. ASSUME apply_fails(r)
        PROVE  FALSE
    <3>1. state' = [FromStores EXCEPT !.role = "Down"]
      BY <2>3 DEF apply_fails, Stopped
    <3> QED
      BY <3>1 DEF FromStores
  <2> QED
    BY Zenon, <1>2, <1>3, <1>4, <1>6, <2>1, <2>2, <2>3 DEF handle_message, handle_fetch_response
<1>7. CASE Elected \/ Propose \/ ProposeChange
  <2>1. ASSUME NEW s \in {[state EXCEPT !.role = "Leader", !.leader_id = Self], state,
                          [state EXCEPT !.pending_membership_change = Len(state.log)]}
        PROVE  s \in NodeState /\ s.log = state.log /\ s.high_watermark = state.high_watermark
    BY Zenon, <1>1, <2>1 DEF NodeState, Node
  <2> QED
    BY Zenon, <1>5, <1>7, <2>1 DEF Elected, Propose, ProposeChange
<1>8. CASE Campaigns \/ \E t \in 1 .. MaxTerm, vote \in Peers \cup {Nil} :
                          \E leader \in {Nil, leader_of[t]} : StepsDown(t, vote, leader)
  <2>1. SameLog(state', state)
    BY Zenon, <1>1, <1>8 DEF Campaigns, StepsDown, Saved, SameLog, NodeState
  <2> QED
    BY <1>2, <2>1
<1>9. CASE state' = state
  BY <1>2, <1>9 DEF SameLog
<1>10. ASSUME Crash \/ Restart
       PROVE  FALSE
  <2>1. CASE Crash
    BY <2>1 DEF Crash, Stopped, FromStores
  <2>2. CASE Restart
    BY <2>2 DEF Restart
  <2> QED
    BY <1>10, <2>1, <2>2
<1>11. \/ state' = state
       \/ Crash \/ Restart \/ Elected \/ Propose \/ ProposeChange \/ Campaigns
       \/ \E r \in Response : handle_message(r)
       \/ \E t \in 1 .. MaxTerm, vote \in Peers \cup {Nil} :
            \E leader \in {Nil, leader_of[t]} : StepsDown(t, vote, leader)
  BY Zenon DEF Next, vars, Write, on_fetch_tick, PeerElected, PeerAppends, Commit
<1> QED
  BY Zenon, <1>6, <1>7, <1>8, <1>9, <1>10, <1>11
=============================================================================
