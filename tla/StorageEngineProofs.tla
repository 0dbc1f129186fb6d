------------------------ MODULE StorageEngineProofs -------------------------
(***************************************************************************)
(* For every bound: what the results of a batch say is true and there is   *)
(* no gap below the log; after open the epochs are those of the log; the   *)
(* quorum state is a register that survives stops, and what was            *)
(* acknowledged is never forgotten.                                        *)
(***************************************************************************)
EXTENDS StorageEngine, TLAPS

USE SMTT(15), SMTT(30), Zenon, SMTT(31), SMTT(32)

-----------------------------------------------------------------------------
(* The batch and its results. *)

\* The five kinds of actions.
IsAppend(a) == \E e \in Entry : a = [op |-> "AppendLog", entry |-> e]
IsSuffix(a) == \E o \in Offset : a = [op |-> "TruncateSuffix", at |-> o]
IsPrefix(a) == \E o \in Offset : a = [op |-> "TruncatePrefix", at |-> o]
IsSave(a) == \E o \in Offset : a = [op |-> "SaveSnapshot", at |-> o]
IsSend(a) == \E p \in Peer : a = [op |-> "SendRpc", peer |-> p]
IsAction(a) == IsAppend(a) \/ IsSuffix(a) \/ IsPrefix(a) \/ IsSave(a) \/ IsSend(a)

Outcome == {"LogAppended", "SuffixTruncated", "PrefixTruncated", "StorageFailed",
            "PrefixTruncateFailed", "SnapshotSaved", "SnapshotSaveFailed", "RpcSent",
            "RpcFailed"}

\* What an action counts on until it is executed.
MayRun(a) ==
    /\ a.op = "AppendLog" => end_offset < MaxOffset
    /\ a.op = "TruncateSuffix" => log_start <= a.at /\ a.at < end_offset
    /\ a.op = "TruncatePrefix" => log_start < a.at /\ a.at <= known /\ a.at <= end_offset
    /\ a.op = "SaveSnapshot" => snapshot = known
    /\ a.op = "SendRpc" => a.peer \notin sent

\* A batch has one write to the log and one snapshot at most, the snapshot
\* above the one known, and no message twice.
WellFormed(b) ==
    /\ \E k \in Nat : DOMAIN b = 1 .. k
    /\ \A i \in DOMAIN b : IsAction(b[i]) /\ (b[i].op = "SaveSnapshot" => known < b[i].at)
    /\ \A i, j \in DOMAIN b :
          b[i] = b[j] \/ (GroupOf(b[i]) = GroupOf(b[j]) /\ GroupOf(b[i]) # "net") => i = j

\* What is left may be executed, and what was executed is truly reported.
Left == \A g \in Group : \A i \in todo[g] : \A a \in {batch[i]} : GroupOf(a) = g /\ MayRun(a)

Reported ==
    \A g \in Group : \A k \in 1 .. Len(done[g]) : \A x \in {done[g][k]} : \A a \in {batch[x.idx]} :
       GroupOf(a) = g /\ x.idx \notin todo[g] /\ IsTrue(x.result, a)

\* Every action is executed once.
Once ==
    /\ \A g \in Group : \A k, l \in 1 .. Len(done[g]) : done[g][k].idx = done[g][l].idx => k = l
    /\ \A g \in Group : \A i \in DOMAIN batch : \A a \in {batch[i]} :
          GroupOf(a) = g => i \in todo[g] \/ \E k \in 1 .. Len(done[g]) : done[g][k].idx = i

Progress == /\ todo \in [Group -> SUBSET DOMAIN batch]
            /\ done \in [Group -> Seq([idx : DOMAIN batch, result : Outcome])]
            /\ Left /\ Reported /\ Once

\* The event loop knows the newest snapshot, unless the batch has saved a newer
\* one; and the log starts at or below it.
KnowsSnapshot ==
    /\ status # "down" => /\ log_start <= known /\ known <= snapshot
                          /\ snapshot # known => \E i \in DOMAIN batch :
                                 batch[i].op = "SaveSnapshot" /\ snapshot = batch[i].at
    /\ NoGap

StoreTypes == /\ log_start \in Offset /\ log \in Seq(Entry) /\ end_offset \in Offset
              /\ snapshot \in Offset /\ known \in Offset
              /\ sent \subseteq Peer
              /\ status \in {"down", "opening", "up"}

BatchInv == /\ StoreTypes
            /\ WellFormed(batch) /\ Progress
            /\ batch = <<>> => NoBatch
            /\ batch # <<>> => status = "up"
            /\ returned # <<>> => todo = NoTodo /\ batch # <<>>
            /\ ResultsAreTrue
            /\ KnowsSnapshot

\* What the proofs use of counting.  It is proved at the end, where the theorems
\* on finite sets and on well-founded orders come into scope.
Counting ==
    /\ \A S \in SUBSET Nat : S # {} => \E x \in S : \A y \in S : x <= y
    /\ \A k \in Nat : \A i \in 1 .. k : Cardinality({ p \in 1 .. k : p <= i }) = i
    /\ \A k, l \in Nat : \A f \in [1 .. k -> 1 .. l] :
          (/\ \A i, j \in 1 .. k : f[i] = f[j] => i = j
           /\ \A y \in 1 .. l : \E i \in 1 .. k : f[i] = y) => k = l
    /\ \A b \in Batches : \E k \in Nat : DOMAIN b = 1 .. k

LEMMA MinIn ==
    ASSUME Counting, NEW S \in SUBSET Nat, S # {}
    PROVE  Min(S) \in S /\ \A y \in S : Min(S) <= y
<1>1. PICK x \in S : \A y \in S : x <= y
  BY DEF Counting
<1> QED
  BY Zenon, <1>1 DEF Min

LEMMA Pairs ==
    ASSUME NEW a \in Int, NEW b \in Int
    PROVE  /\ Max({a, b}) \in {a, b} /\ Max({a, b}) >= a /\ Max({a, b}) >= b
           /\ Min({a, b}) \in {a, b} /\ Min({a, b}) <= a /\ Min({a, b}) <= b
<1>1. \E x \in {a, b} : \A y \in {a, b} : x >= y
  OBVIOUS
<1>2. \E x \in {a, b} : \A y \in {a, b} : x <= y
  OBVIOUS
<1>3. Max({a, b}) \in {a, b} /\ \A y \in {a, b} : Max({a, b}) >= y
  BY Zenon, <1>1 DEF Max
<1>4. Min({a, b}) \in {a, b} /\ \A y \in {a, b} : Min({a, b}) <= y
  BY Zenon, <1>2 DEF Min
<1> QED
  BY <1>3, <1>4

\* One group executes one action, and nothing the others count on changes.
LEMMA GroupStep ==
    ASSUME Progress, NEW g \in Group, NEW r \in Outcome,
           NEW i \in todo[g], i = Min(todo[g]), Result(g, r), batch' = batch,
           \A a \in {batch[i]} : IsTrue(r, a)',
           \A j \in DOMAIN batch \ {i} : \A a \in {batch[j]} :
              /\ MayRun(a) => MayRun(a)'
              /\ \A o \in Outcome : IsTrue(o, a) => IsTrue(o, a)'
    PROVE  Progress'
<1> DEFINE x == [idx |-> i, result |-> r]
           T == [idx : DOMAIN batch, result : Outcome]
<1>1. /\ todo' = [todo EXCEPT ![g] = @ \ {i}]
      /\ done' = [done EXCEPT ![g] = Append(@, x)]
  BY Zenon DEF Result
<1>2. /\ todo \in [Group -> SUBSET DOMAIN batch] /\ done \in [Group -> Seq(T)]
      /\ i \in DOMAIN batch /\ x \in T /\ x.idx = i /\ x.result = r
  BY Zenon DEF Progress
<1> HIDE DEF T, x
<1>3. /\ todo' \in [Group -> SUBSET DOMAIN batch]
      /\ \A h \in Group : todo'[h] = IF h = g THEN todo[g] \ {i} ELSE todo[h]
  BY <1>1, <1>2
<1>4. /\ done' \in [Group -> Seq(T)]
      /\ \A h \in Group : done'[h] = IF h = g THEN Append(done[g], x) ELSE done[h]
  <2>1. Append(done[g], x) \in Seq(T)
    BY <1>2
  <2> QED
    BY Zenon, <1>1, <1>2, <2>1
<1>5. /\ \A h \in Group : Len(done'[h]) \in Nat /\ Len(done[h]) \in Nat
      /\ \A h \in Group : \A k \in 1 .. Len(done'[h]) :
            \/ k \in 1 .. Len(done[h]) /\ done'[h][k] = done[h][k] /\ done[h][k] \in T
            \/ h = g /\ k = Len(done[g]) + 1 /\ done'[h][k] = x
      /\ \A h \in Group : \A k \in 1 .. Len(done[h]) :
            k \in 1 .. Len(done'[h]) /\ done'[h][k] = done[h][k]
      /\ Len(done[g]) + 1 \in 1 .. Len(done'[g]) /\ done'[g][Len(done[g]) + 1] = x
  <2>1. \A s \in Seq(T) : /\ Len(s) \in Nat /\ Len(Append(s, x)) = Len(s) + 1
                           /\ Append(s, x)[Len(s) + 1] = x
                           /\ \A k \in 1 .. Len(s) : Append(s, x)[k] = s[k] /\ s[k] \in T
    BY <1>2
  <2>2. ASSUME NEW h \in Group, NEW s, s = done[h], NEW w, w = done'[h]
        PROVE  /\ Len(w) \in Nat /\ Len(s) \in Nat
               /\ \A k \in 1 .. Len(w) : \/ k \in 1 .. Len(s) /\ w[k] = s[k] /\ s[k] \in T
                                         \/ h = g /\ k = Len(s) + 1 /\ w[k] = x
               /\ \A k \in 1 .. Len(s) : k \in 1 .. Len(w) /\ w[k] = s[k]
               /\ h = g => Len(s) + 1 \in 1 .. Len(w) /\ w[Len(s) + 1] = x
    <3>1. s \in Seq(T) /\ w = IF h = g THEN Append(s, x) ELSE s
      BY Zenon, <1>2, <1>4, <2>2
    <3>2. CASE h # g
      BY <2>1, <3>1, <3>2
    <3>3. CASE h = g
      <4>1. /\ Len(s) \in Nat /\ Len(w) = Len(s) + 1 /\ w[Len(s) + 1] = x
            /\ \A k \in 1 .. Len(s) : w[k] = s[k] /\ s[k] \in T
        BY Zenon, <2>1, <3>1, <3>3
      <4> QED
        BY <3>3, <4>1
    <3> QED
      BY <3>2, <3>3
  <2> QED
    BY <2>2
<1>6. Left'
  BY <1>2, <1>3 DEF Progress, Left
<1>7. Reported'
  <2> SUFFICES ASSUME NEW h \in Group, NEW k \in 1 .. Len(done'[h]), NEW y, y = done'[h][k],
                      NEW a, a = batch[y.idx]
               PROVE  GroupOf(a) = h /\ y.idx \notin todo'[h] /\ IsTrue(y.result, a)'
    BY Zenon DEF Reported
  <2>1. CASE h = g /\ y = x
    <3>1. GroupOf(a) = g
      BY Zenon, <1>2, <2>1 DEF Progress, Left
    <3>2. IsTrue(r, a)'
      BY Zenon, <1>2, <2>1
    <3> QED
      BY Zenon, <1>2, <1>3, <2>1, <3>1, <3>2
  <2>2. CASE k \in 1 .. Len(done[h]) /\ y = done[h][k] /\ y \in T
    <3>1. GroupOf(a) = h /\ y.idx \notin todo[h] /\ IsTrue(y.result, a)
      BY Zenon, <2>2 DEF Progress, Reported
    <3>2. y.idx \in DOMAIN batch /\ y.result \in Outcome
      BY <2>2 DEF T
    <3>3. y.idx # i
      BY Zenon, <3>1 DEF Progress, Left
    <3> QED
      BY Zenon, <1>3, <3>1, <3>2, <3>3
  <2> QED
    BY Zenon, <1>5, <2>1, <2>2
<1>8. Once'
  <2>1. \A h \in Group : \A k, l \in 1 .. Len(done'[h]) :
           done'[h][k].idx = done'[h][l].idx => k = l
    <3> SUFFICES ASSUME NEW h \in Group, NEW k \in 1 .. Len(done'[h]),
                        NEW l \in 1 .. Len(done'[h]), done'[h][k].idx = done'[h][l].idx
                 PROVE  k = l
      OBVIOUS
    <3>1. ASSUME NEW m \in 1 .. Len(done[h]), h = g PROVE done[h][m].idx # i
      <4>1. \A y \in {done[h][m]} : \A a \in {batch[y.idx]} : y.idx \notin todo[h]
        BY Zenon DEF Progress, Reported
      <4> QED
        BY Zenon, <3>1, <4>1
    <3>2. \A m, n \in 1 .. Len(done[h]) : done[h][m].idx = done[h][n].idx => m = n
      BY Zenon DEF Progress, Once
    <3>3. CASE k \in 1 .. Len(done[h]) /\ l \in 1 .. Len(done[h])
      BY Zenon, <1>5, <3>2, <3>3
    <3>4. CASE k \notin 1 .. Len(done[h])
      <4>1. h = g /\ k = Len(done[g]) + 1 /\ done'[h][k].idx = i
        BY Zenon, <1>2, <1>5, <3>4
      <4> QED
        BY Zenon, <1>5, <3>1, <4>1
    <3>5. CASE l \notin 1 .. Len(done[h])
      <4>1. h = g /\ l = Len(done[g]) + 1 /\ done'[h][l].idx = i
        BY Zenon, <1>2, <1>5, <3>5
      <4> QED
        BY Zenon, <1>5, <3>1, <4>1
    <3> QED
      BY <3>3, <3>4, <3>5
  <2>2. ASSUME NEW h \in Group, NEW j \in DOMAIN batch, GroupOf(batch[j]) = h
        PROVE  j \in todo'[h] \/ \E k \in 1 .. Len(done'[h]) : done'[h][k].idx = j
    <3>1. j \in todo[h] \/ \E k \in 1 .. Len(done[h]) : done[h][k].idx = j
      BY Zenon, <2>2 DEF Progress, Once
    <3>2. CASE j = i /\ h = g
      BY Zenon, <1>2, <1>5, <3>2
    <3>3. CASE \E k \in 1 .. Len(done[h]) : done[h][k].idx = j
      BY Zenon, <1>5, <3>3
    <3>4. CASE j \in todo[h] /\ ~(j = i /\ h = g)
      BY Zenon, <1>3, <3>4
    <3> QED
      BY Zenon, <3>1, <3>2, <3>3, <3>4
  <2> QED
    BY <2>1, <2>2 DEF Once
<1> QED
  BY Zenon, <1>3, <1>4, <1>6, <1>7, <1>8 DEF Progress, T

LEMMA Kinds ==
    ASSUME NEW a, IsAction(a)
    PROVE  /\ a.op \in {"AppendLog", "TruncateSuffix", "TruncatePrefix"} => GroupOf(a) = "log"
           /\ a.op = "SaveSnapshot" => GroupOf(a) = "snap"
           /\ a.op = "SendRpc" => GroupOf(a) = "net"
           /\ a.op \in {"AppendLog", "TruncateSuffix", "TruncatePrefix", "SaveSnapshot", "SendRpc"}
           /\ a.op = "AppendLog" => a.entry \in Entry
           /\ a.op \in {"TruncateSuffix", "TruncatePrefix", "SaveSnapshot"} => a.at \in Offset
           /\ a.op = "SendRpc" => a.peer \in Peer /\ a = [op |-> "SendRpc", peer |-> a.peer]
BY DEF IsAction, IsAppend, IsSuffix, IsPrefix, IsSave, IsSend, GroupOf

\* The batches the event loop hands over are well formed and may be executed.
LEMMA BatchShape ==
    ASSUME Counting, StoreTypes, log_start <= known, known = snapshot, sent = {}, NEW b \in Batches
    PROVE  WellFormed(b) /\ \A i \in DOMAIN b : \A a \in {b[i]} : MayRun(a)
<1>1. PICK x \in AtMostOne(LogActions) \X AtMostOne(SnapActions) \X SUBSET NetActions :
          b \in Injection(1 .. Cardinality(x[1] \cup x[2] \cup x[3]), x[1] \cup x[2] \cup x[3])
  BY Zenon DEF Batches
<1>2. PICK L, N, M : /\ L \in AtMostOne(LogActions) /\ N \in AtMostOne(SnapActions)
                     /\ M \in SUBSET NetActions
                     /\ b \in Injection(1 .. Cardinality(L \cup N \cup M), L \cup N \cup M)
  BY Zenon, <1>1
<1>3. /\ \A i \in DOMAIN b : b[i] \in L \/ b[i] \in N \/ b[i] \in NetActions
      /\ \A i, j \in DOMAIN b : b[i] = b[j] => i = j
  BY Zenon, <1>2 DEF Injection, IsInjective
<1>4. /\ \A a \in L : a \in LogActions /\ L = {a}
      /\ \A a \in N : a \in SnapActions /\ N = {a}
  BY <1>2 DEF AtMostOne
<1>5. /\ log_start \in Nat /\ known \in Nat /\ end_offset \in Nat /\ MaxOffset \in Nat
      /\ end_offset <= MaxOffset
      /\ log_start \in Int /\ known \in Int /\ end_offset \in Int
  BY BoundsAssumption DEF StoreTypes, Offset
<1>6. ASSUME NEW a \in LogActions
      PROVE  IsAction(a) /\ GroupOf(a) = "log" /\ a.op # "SaveSnapshot" /\ MayRun(a)
  <2>1. CASE \E e \in Entry : a = [op |-> "AppendLog", entry |-> e] /\ end_offset < MaxOffset
    BY <2>1 DEF IsAction, IsAppend, GroupOf, MayRun
  <2>2. CASE \E o \in Max({log_start, known}) .. (end_offset - 1) :
                a = [op |-> "TruncateSuffix", at |-> o]
    <3>1. PICK o \in Max({log_start, known}) .. (end_offset - 1) :
                a = [op |-> "TruncateSuffix", at |-> o]
      BY <2>2
    <3>2. /\ Max({log_start, known}) >= log_start
          /\ Max({log_start, known}) \in {log_start, known}
      BY Zenon, <1>5, Pairs
    <3>3. o \in Offset /\ log_start <= o /\ o < end_offset
      BY <1>5, <3>2 DEF Offset
    <3> QED
      BY <3>1, <3>3 DEF IsAction, IsSuffix, GroupOf, MayRun
  <2>3. CASE \E o \in (log_start + 1) .. Min({known, end_offset}) :
                a = [op |-> "TruncatePrefix", at |-> o]
    <3>1. PICK o \in (log_start + 1) .. Min({known, end_offset}) :
                a = [op |-> "TruncatePrefix", at |-> o]
      BY <2>3
    <3>2. /\ Min({known, end_offset}) <= known /\ Min({known, end_offset}) <= end_offset
          /\ Min({known, end_offset}) \in {known, end_offset}
      BY Zenon, <1>5, Pairs
    <3>3. o \in Offset /\ log_start < o /\ o <= known /\ o <= end_offset
      BY <1>5, <3>2 DEF Offset
    <3> QED
      BY <3>1, <3>3 DEF IsAction, IsPrefix, GroupOf, MayRun
  <2> QED
    BY Zenon, <2>1, <2>2, <2>3 DEF LogActions
<1>7. ASSUME NEW a \in SnapActions
      PROVE  IsAction(a) /\ GroupOf(a) = "snap" /\ known < a.at /\ MayRun(a)
  <2>1. PICK o \in (known + 1) .. end_offset : a = [op |-> "SaveSnapshot", at |-> o]
    BY DEF SnapActions
  <2>2. o \in Offset /\ known < o
    BY <1>5 DEF Offset
  <2> QED
    BY <2>1, <2>2 DEF IsAction, IsSave, GroupOf, MayRun
<1>8. ASSUME NEW a \in NetActions
      PROVE  IsAction(a) /\ GroupOf(a) = "net" /\ a.op # "SaveSnapshot" /\ MayRun(a)
  BY DEF NetActions, IsAction, IsSend, GroupOf, MayRun
<1>9. \A i \in DOMAIN b : \A a \in {b[i]} :
         IsAction(a) /\ (a.op = "SaveSnapshot" => known < a.at) /\ MayRun(a)
  <2> SUFFICES ASSUME NEW i \in DOMAIN b, NEW a, a = b[i]
               PROVE  IsAction(a) /\ (a.op = "SaveSnapshot" => known < a.at) /\ MayRun(a)
    BY Zenon
  <2>1. a \in LogActions \/ a \in SnapActions \/ a \in NetActions
    BY Zenon, <1>3, <1>4
  <2> QED
    BY Zenon, <2>1, <1>6, <1>7, <1>8
<1>10. \A i, j \in DOMAIN b :
          GroupOf(b[i]) = GroupOf(b[j]) /\ GroupOf(b[i]) # "net" => b[i] = b[j]
  <2> SUFFICES ASSUME NEW i \in DOMAIN b, NEW j \in DOMAIN b, GroupOf(b[i]) = GroupOf(b[j]),
                      GroupOf(b[i]) # "net"
               PROVE  b[i] = b[j]
    OBVIOUS
  <2>1. b[i] \notin NetActions /\ b[j] \notin NetActions
    BY Zenon, <1>8
  <2>2. CASE b[i] \in L /\ b[j] \in L
    BY Zenon, <1>4, <2>2
  <2>3. CASE b[i] \in N /\ b[j] \in N
    BY Zenon, <1>4, <2>3
  <2>4. "log" # "snap"
    OBVIOUS
  <2> QED
    BY Zenon, <1>3, <1>4, <1>6, <1>7, <2>1, <2>2, <2>3, <2>4
<1>11. \E k \in Nat : DOMAIN b = 1 .. k
  BY Zenon DEF Counting
<1> QED
  BY Zenon, <1>3, <1>9, <1>10, <1>11 DEF WellFormed

\* The action a group executes next.
LEMMA NextPlace ==
    ASSUME Counting, BatchInv, NEW g \in Group, todo[g] # {}, NEW a, a = NextAction(g)
    PROVE  /\ Min(todo[g]) \in todo[g] /\ Min(todo[g]) \in DOMAIN batch
           /\ a = batch[Min(todo[g])] /\ IsAction(a) /\ GroupOf(a) = g /\ MayRun(a)
           /\ a.op = "SaveSnapshot" => known < a.at
           /\ batch # <<>> /\ returned = <<>> /\ status = "up"
<1>1. todo[g] \in SUBSET Nat
  BY DEF BatchInv, Progress, WellFormed
<1>2. Min(todo[g]) \in todo[g]
  BY <1>1, MinIn
<1>3. Min(todo[g]) \in DOMAIN batch
  BY Zenon, <1>2 DEF BatchInv, Progress
<1>4. a = batch[Min(todo[g])]
  BY DEF NextAction
<1>5. GroupOf(a) = g /\ MayRun(a)
  BY Zenon, <1>2, <1>4 DEF BatchInv, Progress, Left
<1>6. IsAction(a) /\ (a.op = "SaveSnapshot" => known < a.at)
  BY Zenon, <1>3, <1>4 DEF BatchInv, WellFormed
<1>7. batch # <<>> /\ returned = <<>> /\ status = "up"
  BY DEF BatchInv, NoBatch, NoTodo
<1> QED
  BY <1>2, <1>3, <1>4, <1>5, <1>6, <1>7

LEMMA GroupKeeps ==
    ASSUME Counting, BatchInv, NEW g \in Group, NEW r \in Outcome, todo[g] # {}, Result(g, r),
           UNCHANGED <<batch, returned, status, known>>,
           NEW b, b = NextAction(g), IsTrue(r, b)',
           \A j \in DOMAIN batch \ {Min(todo[g])} : \A a \in {batch[j]} :
              /\ MayRun(a) => MayRun(a)'
              /\ \A o \in Outcome : IsTrue(o, a) => IsTrue(o, a)',
           StoreTypes', KnowsSnapshot'
    PROVE  BatchInv'
<1>1. Min(todo[g]) \in todo[g] /\ b = batch[Min(todo[g])] /\ batch # <<>> /\ returned = <<>>
      /\ status = "up"
  BY NextPlace
<1>2. Progress /\ \A a \in {batch[Min(todo[g])]} : IsTrue(r, a)'
  BY <1>1 DEF BatchInv
<1>3. Progress'
  BY <1>1, <1>2, GroupStep
<1>4. WellFormed(batch)'
  BY DEF BatchInv, WellFormed
<1> QED
  BY <1>1, <1>3, <1>4 DEF BatchInv, ResultsAreTrue

LEMMA LogGroupKeeps ==
    ASSUME Counting, BatchInv, execute_log_group
    PROVE  BatchInv'
<1> DEFINE Unread == UNCHANGED <<batch, returned, sent, snapshot, status, known>>
<1>1. PICK a : a = NextAction("log")
  OBVIOUS
<1>2. /\ todo["log"] # {} /\ Unread /\ "log" \in Group
  BY DEF execute_log_group, Group
<1>3. /\ Min(todo["log"]) \in todo["log"] /\ Min(todo["log"]) \in DOMAIN batch
      /\ a = batch[Min(todo["log"])] /\ IsAction(a) /\ GroupOf(a) = "log" /\ MayRun(a)
      /\ status = "up"
  BY Zenon, <1>1, <1>2, NextPlace
<1>4. /\ a.op \in {"AppendLog", "TruncateSuffix", "TruncatePrefix"}
      /\ a.op = "AppendLog" => a.entry \in Entry
      /\ a.op # "AppendLog" => a.at \in Offset
  BY <1>3, Kinds
<1>5. /\ log_start \in Nat /\ log \in Seq(Entry) /\ Len(log) \in Nat /\ known \in Nat
      /\ end_offset = log_start + Len(log) /\ end_offset <= MaxOffset /\ MaxOffset \in Nat
      /\ log_start <= known /\ known <= snapshot /\ snapshot \in Nat
  BY <1>3, BoundsAssumption DEF BatchInv, StoreTypes, KnowsSnapshot, Offset, end_offset
<1>6. PICK r \in Outcome : /\ Result("log", r) /\ IsTrue(r, a)'
                           /\ log_start' \in Offset /\ log' \in Seq(Entry) /\ end_offset' \in Offset
                           /\ log_start' <= known
  <2>1. CASE /\ a.op = "AppendLog" /\ log' = Append(log, a.entry)
             /\ Result("log", "LogAppended") /\ log_start' = log_start
    <3>1. end_offset < MaxOffset
      BY <1>3, <2>1 DEF MayRun
    <3>2. /\ log' \in Seq(Entry) /\ Len(log') = Len(log) + 1 /\ log'[Len(log')] = a.entry
          /\ log' # <<>>
      BY <1>4, <1>5, <2>1
    <3>3. IsTrue("LogAppended", a)'
      BY <2>1, <3>2 DEF IsTrue
    <3>4. end_offset' = end_offset + 1
      BY <1>5, <2>1, <3>2 DEF end_offset
    <3> QED
      BY <1>5, <2>1, <3>1, <3>2, <3>3, <3>4 DEF Offset, Outcome
  <2>2. CASE /\ a.op = "TruncateSuffix" /\ log' = SubSeq(log, 1, a.at - log_start)
             /\ Result("log", "SuffixTruncated") /\ log_start' = log_start
    <3>1. log_start <= a.at /\ a.at < end_offset /\ a.at \in Nat
      BY <1>3, <1>4, <2>2 DEF MayRun, Offset
    <3>2. log' \in Seq(Entry) /\ Len(log') = a.at - log_start /\ log_start' = log_start
      BY <1>5, <2>2, <3>1
    <3>3. end_offset' = a.at
      BY <1>5, <3>1, <3>2 DEF end_offset
    <3>4. IsTrue("SuffixTruncated", a)'
      BY <2>2, <3>3 DEF IsTrue
    <3> QED
      BY <1>5, <2>2, <3>1, <3>2, <3>3, <3>4 DEF Offset, Outcome
  <2>3. CASE /\ a.op = "TruncatePrefix"
             /\ log' = SubSeq(log, a.at - log_start + 1, Len(log)) /\ log_start' = a.at
             /\ Result("log", "PrefixTruncated")
    <3>1. log_start < a.at /\ a.at <= known /\ a.at <= end_offset /\ a.at \in Nat
      BY <1>3, <1>4, <2>3 DEF MayRun, Offset
    <3>2. log' \in Seq(Entry) /\ Len(log') = Len(log) - (a.at - log_start)
      BY <1>5, <2>3, <3>1
    <3>3. end_offset' = end_offset
      BY <1>5, <2>3, <3>1, <3>2 DEF end_offset
    <3>4. IsTrue("PrefixTruncated", a)'
      BY <2>3 DEF IsTrue
    <3> QED
      BY <1>5, <2>3, <3>1, <3>2, <3>3, <3>4 DEF Offset, Outcome
  <2>4. CASE /\ Result("log", IF a.op = "TruncatePrefix" THEN "PrefixTruncateFailed"
                              ELSE "StorageFailed")
             /\ UNCHANGED <<log, log_start>>
    <3>1. end_offset' = end_offset
      BY <2>4 DEF end_offset
    <3>2. CASE a.op = "AppendLog"
      BY <1>5, <2>4, <3>1, <3>2 DEF IsTrue, Offset, Outcome
    <3>3. CASE a.op = "TruncateSuffix"
      <4>1. end_offset # a.at
        BY <1>3, <1>4, <1>5, <3>3 DEF MayRun, Offset
      <4> QED
        BY <1>5, <2>4, <3>1, <3>3, <4>1 DEF IsTrue, Offset, Outcome
    <3>4. CASE a.op = "TruncatePrefix"
      <4>1. log_start # a.at
        BY <1>3, <1>4, <1>5, <3>4 DEF MayRun, Offset
      <4> QED
        BY <1>5, <2>4, <3>1, <3>4, <4>1 DEF IsTrue, Offset, Outcome
    <3> QED
      BY <1>4, <3>2, <3>3, <3>4
  <2> QED
    BY Zenon, <1>1, <2>1, <2>2, <2>3, <2>4 DEF execute_log_group
<1>7. ASSUME NEW j \in DOMAIN batch \ {Min(todo["log"])}, NEW c, c = batch[j]
      PROVE  (MayRun(c) => MayRun(c)') /\ \A o \in Outcome : IsTrue(o, c) => IsTrue(o, c)'
  <2>1. IsAction(c) /\ GroupOf(c) # "log"
    <3>1. "log" # "net"
      OBVIOUS
    <3> QED
      BY Zenon, <1>3, <1>7, <3>1 DEF BatchInv, WellFormed
  <2>2. c.op = "SaveSnapshot" \/ c.op = "SendRpc"
    BY <2>1, Kinds
  <2> QED
    BY Zenon, <1>2, <2>2 DEF MayRun, IsTrue
<1>8. StoreTypes'
  BY <1>2, <1>6 DEF BatchInv, StoreTypes
<1>9. KnowsSnapshot'
  BY <1>2, <1>3, <1>5, <1>6, <1>8 DEF BatchInv, KnowsSnapshot, NoGap, StoreTypes, Offset
<1> QED
  BY <1>1, <1>2, <1>6, <1>7, <1>8, <1>9, GroupKeeps

LEMMA SnapGroupKeeps ==
    ASSUME Counting, BatchInv, execute_snap_group
    PROVE  BatchInv'
<1>1. PICK a : a = NextAction("snap")
  OBVIOUS
<1>2. /\ todo["snap"] # {} /\ "snap" \in Group
      /\ UNCHANGED <<batch, returned, sent, log, log_start, status, known>>
  BY DEF execute_snap_group, Group
<1>3. /\ Min(todo["snap"]) \in todo["snap"] /\ Min(todo["snap"]) \in DOMAIN batch
      /\ a = batch[Min(todo["snap"])] /\ IsAction(a) /\ GroupOf(a) = "snap" /\ MayRun(a)
      /\ a.op = "SaveSnapshot" => known < a.at
      /\ status = "up"
  BY Zenon, <1>1, <1>2, NextPlace
<1>4. a.op = "SaveSnapshot" /\ a.at \in Offset /\ known < a.at /\ snapshot = known
  BY <1>3, Kinds DEF MayRun
<1>5. /\ log_start \in Nat /\ known \in Nat /\ snapshot \in Offset /\ log_start <= known
  BY <1>3 DEF BatchInv, StoreTypes, KnowsSnapshot, Offset
<1>6. PICK r \in Outcome : /\ Result("snap", r) /\ IsTrue(r, a)'
                           /\ snapshot' \in {snapshot, a.at}
  <2>1. CASE snapshot' = a.at /\ Result("snap", "SnapshotSaved")
    BY <1>4, <2>1 DEF IsTrue, Outcome
  <2>2. CASE snapshot' = snapshot /\ Result("snap", "SnapshotSaveFailed")
    BY <1>4, <1>5, <2>2 DEF IsTrue, Outcome, Offset
  <2> QED
    BY Zenon, <1>1, <2>1, <2>2 DEF execute_snap_group
<1>7. ASSUME NEW j \in DOMAIN batch \ {Min(todo["snap"])}, NEW c, c = batch[j]
      PROVE  (MayRun(c) => MayRun(c)') /\ \A o \in Outcome : IsTrue(o, c) => IsTrue(o, c)'
  <2>1. IsAction(c) /\ GroupOf(c) # "snap"
    <3>1. "snap" # "net"
      OBVIOUS
    <3> QED
      BY Zenon, <1>3, <1>7, <3>1 DEF BatchInv, WellFormed
  <2>2. c.op \in {"AppendLog", "TruncateSuffix", "TruncatePrefix", "SendRpc"}
    BY <2>1, Kinds
  <2>3. end_offset' = end_offset
    BY <1>2 DEF end_offset
  <2> QED
    BY Zenon, <1>2, <2>2, <2>3 DEF MayRun, IsTrue
<1>8. StoreTypes'
  BY <1>2, <1>4, <1>6 DEF BatchInv, StoreTypes, end_offset
<1>9. KnowsSnapshot'
  <2>1. log_start' <= known' /\ known' <= snapshot' /\ log_start' <= snapshot'
    BY <1>2, <1>4, <1>5, <1>6 DEF Offset
  <2>2. snapshot' # known' => /\ batch'[Min(todo["snap"])].op = "SaveSnapshot"
                              /\ snapshot' = batch'[Min(todo["snap"])].at
    BY <1>2, <1>3, <1>4, <1>6
  <2> QED
    BY <1>2, <1>3, <2>1, <2>2 DEF KnowsSnapshot, NoGap
<1> QED
  BY <1>1, <1>2, <1>6, <1>7, <1>8, <1>9, GroupKeeps

LEMMA NetGroupKeeps ==
    ASSUME Counting, BatchInv, execute_net_group
    PROVE  BatchInv'
<1>1. PICK a : a = NextAction("net")
  OBVIOUS
<1>2. /\ todo["net"] # {} /\ "net" \in Group
      /\ UNCHANGED <<batch, returned, snapshot, log, log_start, status, known>>
  BY DEF execute_net_group, Group, diskVars
<1>3. /\ Min(todo["net"]) \in todo["net"] /\ Min(todo["net"]) \in DOMAIN batch
      /\ a = batch[Min(todo["net"])] /\ IsAction(a) /\ GroupOf(a) = "net" /\ MayRun(a)
  BY Zenon, <1>1, <1>2, NextPlace
<1>4. /\ a.op = "SendRpc" /\ a.peer \in Peer /\ a = [op |-> "SendRpc", peer |-> a.peer]
      /\ a.peer \notin sent
  BY <1>3, Kinds DEF MayRun
<1>5. PICK r \in Outcome : /\ Result("net", r) /\ IsTrue(r, a)'
                           /\ sent' \in {sent, sent \cup {a.peer}}
  <2>1. CASE sent' = sent \cup {a.peer} /\ Result("net", "RpcSent")
    BY <1>4, <2>1 DEF IsTrue, Outcome
  <2>2. CASE sent' = sent /\ Result("net", "RpcFailed")
    BY <1>4, <2>2 DEF IsTrue, Outcome
  <2> QED
    BY Zenon, <1>1, <2>1, <2>2 DEF execute_net_group
<1>6. ASSUME NEW j \in DOMAIN batch \ {Min(todo["net"])}, NEW c, c = batch[j]
      PROVE  (MayRun(c) => MayRun(c)') /\ \A o \in Outcome : IsTrue(o, c) => IsTrue(o, c)'
  <2>1. IsAction(c) /\ c # a
    BY Zenon, <1>3, <1>6 DEF BatchInv, WellFormed
  <2>2. /\ c.op \in {"AppendLog", "TruncateSuffix", "TruncatePrefix", "SaveSnapshot", "SendRpc"}
        /\ c.op = "SendRpc" => c = [op |-> "SendRpc", peer |-> c.peer]
    BY Zenon, <2>1, Kinds
  <2>3. c.op = "SendRpc" => c.peer # a.peer
    BY Zenon, <1>4, <2>1, <2>2
  <2>4. c.op = "SendRpc" => (c.peer \in sent' <=> c.peer \in sent)
    <3>1. CASE sent' = sent
      BY Zenon, <3>1
    <3>2. CASE sent' = sent \cup {a.peer}
      BY Zenon, <2>3, <3>2
    <3> QED
      BY Zenon, <1>5, <3>1, <3>2
  <2>5. end_offset' = end_offset
    BY <1>2 DEF end_offset
  <2>6. CASE c.op # "SendRpc"
    BY Zenon, <1>2, <2>2, <2>5, <2>6 DEF MayRun, IsTrue
  <2>7. CASE c.op = "SendRpc"
    <3>1. (c.peer \in sent') = (c.peer \in sent)
      BY <2>4, <2>7
    <3>2. \A o \in Outcome : IsTrue(o, c) => IsTrue(o, c)'
      BY <2>7, <3>1 DEF IsTrue
    <3>3. MayRun(c) => MayRun(c)'
      BY <2>7, <3>1 DEF MayRun
    <3> QED
      BY <3>2, <3>3
  <2> QED
    BY <2>6, <2>7
<1>7. StoreTypes' /\ KnowsSnapshot'
  BY <1>2, <1>4, <1>5 DEF BatchInv, StoreTypes, KnowsSnapshot, NoGap, end_offset
<1> QED
  BY <1>1, <1>2, <1>5, <1>6, <1>7, GroupKeeps

LEMMA ExecuteKeeps ==
    ASSUME Counting, BatchInv, execute
    PROVE  BatchInv'
<1>1. PICK b \in Batches \ {<<>>} : batch' = b /\ todo' = Partition(b)
  BY DEF execute
<1>2. /\ UNCHANGED <<done, returned, sent, log, log_start, snapshot, status, known>>
      /\ batch = <<>> /\ status = "up"
  BY DEF execute, Free, diskVars
<1>3. done = NoDone /\ returned = <<>> /\ sent = {}
  BY <1>2 DEF BatchInv, NoBatch
<1>4. StoreTypes /\ log_start <= known /\ known = snapshot
  BY <1>2 DEF BatchInv, KnowsSnapshot
<1>5. WellFormed(b) /\ \A i \in DOMAIN b : \A a \in {b[i]} : MayRun(a)
  BY <1>3, <1>4, BatchShape
<1>6. WellFormed(batch)'
  BY <1>1, <1>2, <1>5 DEF WellFormed
<1>7. Progress'
  <2>1. /\ todo' \in [Group -> SUBSET DOMAIN batch']
        /\ \A g \in Group : \A i \in DOMAIN batch' : i \in todo'[g] <=> GroupOf(b[i]) = g
        /\ \A g \in Group : todo'[g] \subseteq DOMAIN batch'
    BY <1>1 DEF Partition
  <2>2. /\ done' \in [Group -> Seq([idx : DOMAIN batch', result : Outcome])]
        /\ \A g \in Group : Len(done'[g]) = 0
    BY <1>2, <1>3 DEF NoDone
  <2>3. Left'
    <3> SUFFICES ASSUME NEW g \in Group, NEW i \in todo'[g], NEW a, a = batch'[i]
                 PROVE  GroupOf(a) = g /\ MayRun(a)'
      BY Zenon DEF Left
    <3>1. i \in DOMAIN b /\ a = b[i] /\ GroupOf(a) = g
      BY <1>1, <2>1
    <3>2. MayRun(a)
      BY Zenon, <1>5, <3>1
    <3> QED
      BY <1>2, <3>1, <3>2 DEF MayRun, end_offset
  <2>4. Reported'
    BY <2>2 DEF Reported
  <2>5. Once'
    BY <1>1, <2>1, <2>2 DEF Once
  <2> QED
    BY <2>1, <2>2, <2>3, <2>4, <2>5 DEF Progress
<1>8. StoreTypes' /\ KnowsSnapshot'
  BY <1>2, <1>4 DEF BatchInv, StoreTypes, KnowsSnapshot, NoGap, end_offset
<1> QED
  BY <1>1, <1>2, <1>3, <1>6, <1>7, <1>8 DEF BatchInv, ResultsAreTrue

Joins(w, r, s, t, T) ==
    /\ Len(r) \in Nat /\ Len(s) \in Nat /\ Len(t) \in Nat
    /\ w \in Seq(T) /\ Len(w) = Len(r) + Len(s) + Len(t)
    /\ \A k \in 1 .. Len(r) : w[k] = r[k]
    /\ \A k \in 1 .. Len(s) : w[Len(r) + k] = s[k]
    /\ \A k \in 1 .. Len(t) : w[Len(r) + Len(s) + k] = t[k]

LEMMA Concat3 ==
    ASSUME NEW T, NEW r \in Seq(T), NEW s \in Seq(T), NEW t \in Seq(T), NEW w, w = r \o s \o t
    PROVE  Joins(w, r, s, t, T)
<1>1. ASSUME NEW x \in Seq(T), NEW y \in Seq(T)
      PROVE  /\ x \o y \in Seq(T) /\ Len(x \o y) = Len(x) + Len(y)
             /\ \A k \in 1 .. Len(x) : (x \o y)[k] = x[k]
             /\ \A k \in 1 .. Len(y) : (x \o y)[Len(x) + k] = y[k]
  OBVIOUS
<1>2. PICK u : u = r \o s
  BY Zenon
<1>3. PICK v : v = u \o t
  BY Zenon
<1>4. /\ u \in Seq(T) /\ Len(u) = Len(r) + Len(s)
      /\ \A k \in 1 .. Len(r) : u[k] = r[k]
      /\ \A k \in 1 .. Len(s) : u[Len(r) + k] = s[k]
  BY <1>1, <1>2
<1>5. /\ v \in Seq(T) /\ Len(v) = Len(u) + Len(t)
      /\ \A k \in 1 .. Len(u) : v[k] = u[k]
      /\ \A k \in 1 .. Len(t) : v[Len(u) + k] = t[k]
  <2>1. u \in Seq(T)
    BY <1>4
  <2>2. /\ u \o t \in Seq(T) /\ Len(u \o t) = Len(u) + Len(t)
        /\ \A k \in 1 .. Len(u) : (u \o t)[k] = u[k]
        /\ \A k \in 1 .. Len(t) : (u \o t)[Len(u) + k] = t[k]
    BY <2>1
  <2> QED
    BY Zenon, <1>3, <2>2
<1>6. v = w
  BY Zenon, <1>2, <1>3
<1>7. /\ Len(r) \in Nat /\ Len(s) \in Nat /\ Len(t) \in Nat
      /\ \A k \in 1 .. Len(r) : k \in 1 .. Len(u)
      /\ \A k \in 1 .. Len(s) : Len(r) + k \in 1 .. Len(u)
  BY <1>4
<1>8. /\ \A k \in 1 .. Len(r) : v[k] = r[k]
      /\ \A k \in 1 .. Len(s) : v[Len(r) + k] = s[k]
      /\ \A k \in 1 .. Len(t) : v[Len(r) + Len(s) + k] = t[k]
      /\ Len(v) = Len(r) + Len(s) + Len(t)
  BY Zenon, <1>4, <1>5, <1>7
<1> QED
  BY Zenon, <1>5, <1>6, <1>7, <1>8 DEF Joins

\* The results of a batch that is executed are, in the order of the batch, those
\* of its actions.
LEMMA MergedIsTrue ==
    ASSUME Counting, BatchInv, todo = NoTodo
    PROVE  /\ DOMAIN Merged = DOMAIN batch
           /\ \A i \in DOMAIN batch : \A r \in {Merged[i]} : \A a \in {batch[i]} : IsTrue(r, a)
<1> DEFINE T == [idx : DOMAIN batch, result : Outcome]
           all == done["log"] \o done["snap"] \o done["net"]
           places == { x.idx : x \in Range(all) }
           Rank(x) == Cardinality({ p \in places : p <= x.idx })
<1>1. PICK n \in Nat : DOMAIN batch = 1 .. n
  BY DEF BatchInv, WellFormed
<1>2. /\ "log" \in Group /\ "snap" \in Group /\ "net" \in Group
      /\ \A g \in Group : done[g] \in Seq(T) /\ todo[g] = {}
  BY DEF BatchInv, Progress, NoTodo, Group
<1>3. ASSUME NEW g \in Group, NEW k \in 1 .. Len(done[g])
      PROVE  /\ done[g][k] \in T /\ done[g][k].idx \in 1 .. n
             /\ GroupOf(batch[done[g][k].idx]) = g
             /\ \A r \in {done[g][k].result} : \A a \in {batch[done[g][k].idx]} : IsTrue(r, a)
  <2>1. done[g][k] \in T
    <3> HIDE DEF T
    <3> QED
      BY <1>2
  <2>2. PICK x, a : x = done[g][k] /\ a = batch[x.idx]
    OBVIOUS
  <2>3. GroupOf(a) = g /\ IsTrue(x.result, a)
    BY Zenon, <2>2 DEF BatchInv, Progress, Reported
  <2> QED
    BY <1>1, <2>1, <2>2, <2>3
<1>4. \A i \in 1 .. n : \E g \in Group : \E k \in 1 .. Len(done[g]) : done[g][k].idx = i
  <2>1. \A i \in 1 .. n : GroupOf(batch[i]) \in Group
    BY <1>1, Kinds DEF BatchInv, WellFormed, Group
  <2>2. ASSUME NEW i \in 1 .. n, NEW g \in Group, g = GroupOf(batch[i])
        PROVE  \E k \in 1 .. Len(done[g]) : done[g][k].idx = i
    BY Zenon, <1>1, <1>2, <2>2 DEF BatchInv, Progress, Once
  <2> QED
    BY Zenon, <2>1, <2>2
<1>5. \A g \in Group : \A k, l \in 1 .. Len(done[g]) : done[g][k].idx = done[g][l].idx => k = l
  BY DEF BatchInv, Progress, Once
<1> DEFINE A == Len(done["log"])
           B == Len(done["snap"])
           D == Len(done["net"])
<1>6. /\ A \in Nat /\ B \in Nat /\ D \in Nat
      /\ all \in Seq(T) /\ Len(all) = A + B + D
      /\ \A k \in 1 .. A : all[k] = done["log"][k]
      /\ \A k \in 1 .. B : all[A + k] = done["snap"][k]
      /\ \A k \in 1 .. D : all[A + B + k] = done["net"][k]
  <2> HIDE DEF T
  <2>1. done["log"] \in Seq(T) /\ done["snap"] \in Seq(T) /\ done["net"] \in Seq(T)
    BY <1>2
  <2>2. PICK r, s, t : r = done["log"] /\ s = done["snap"] /\ t = done["net"]
    BY Zenon
  <2>3. r \in Seq(T) /\ s \in Seq(T) /\ t \in Seq(T) /\ all = r \o s \o t
    BY Zenon, <2>1, <2>2
  <2> HIDE DEF all
  <2>4. Joins(all, r, s, t, T)
    BY Zenon, <2>3, Concat3
  <2> QED
    BY Zenon, <2>2, <2>4 DEF Joins
<1> HIDE DEF T, A, B, D, all
<1>7. ASSUME NEW k \in 1 .. Len(all)
      PROVE  \/ k \in 1 .. A /\ all[k] = done["log"][k]
             \/ k - A \in 1 .. B /\ all[k] = done["snap"][k - A]
             \/ k - A - B \in 1 .. D /\ all[k] = done["net"][k - A - B]
  <2>1. CASE k <= A
    BY <1>6, <2>1
  <2>2. CASE A < k /\ k <= A + B
    <3>1. k - A \in 1 .. B /\ A + (k - A) = k
      BY <1>6, <2>2
    <3> QED
      BY <1>6, <3>1
  <2>3. CASE A + B < k
    <3>1. k - A - B \in 1 .. D /\ A + B + (k - A - B) = k
      BY <1>6, <2>3
    <3> QED
      BY <1>6, <3>1
  <2> QED
    BY <1>6, <2>1, <2>2, <2>3
<1>8. ASSUME NEW k \in 1 .. Len(all)
      PROVE  \E g \in Group : \E m \in 1 .. Len(done[g]) : all[k] = done[g][m]
  BY Zenon, <1>2, <1>7 DEF A, B, D
<1>9. ASSUME NEW k \in 1 .. Len(all)
      PROVE  /\ all[k].idx \in 1 .. n
             /\ \A r \in {all[k].result} : \A a \in {batch[all[k].idx]} : IsTrue(r, a)
  BY Zenon, <1>3, <1>8
<1>10. \A k, l \in 1 .. Len(all) : all[k].idx = all[l].idx => k = l
  <2> SUFFICES ASSUME NEW k \in 1 .. Len(all), NEW l \in 1 .. Len(all), all[k].idx = all[l].idx
               PROVE  k = l
    OBVIOUS
  <2>1. /\ \A j \in 1 .. A : done["log"][j].idx # 0 /\ GroupOf(batch[done["log"][j].idx]) = "log"
        /\ \A j \in 1 .. B : GroupOf(batch[done["snap"][j].idx]) = "snap"
        /\ \A j \in 1 .. D : GroupOf(batch[done["net"][j].idx]) = "net"
    BY <1>2, <1>3 DEF A, B, D
  <2>2. /\ \A i, j \in 1 .. A : done["log"][i].idx = done["log"][j].idx => i = j
        /\ \A i, j \in 1 .. B : done["snap"][i].idx = done["snap"][j].idx => i = j
        /\ \A i, j \in 1 .. D : done["net"][i].idx = done["net"][j].idx => i = j
    BY Zenon, <1>2, <1>5 DEF A, B, D
  <2>3. CASE k \in 1 .. A /\ all[k] = done["log"][k]
    BY <1>7, <2>1, <2>2, <2>3
  <2>4. CASE k - A \in 1 .. B /\ all[k] = done["snap"][k - A]
    <3>1. l - A \in 1 .. B /\ all[l] = done["snap"][l - A]
      BY <1>7, <2>1, <2>4
    <3>2. k - A = l - A
      BY <2>2, <2>4, <3>1
    <3> QED
      BY <1>6, <3>2
  <2>5. CASE k - A - B \in 1 .. D /\ all[k] = done["net"][k - A - B]
    <3>1. l - A - B \in 1 .. D /\ all[l] = done["net"][l - A - B]
      BY <1>7, <2>1, <2>5
    <3>2. k - A - B = l - A - B
      BY <2>2, <2>5, <3>1
    <3> QED
      BY <1>6, <3>2
  <2> QED
    BY <1>7, <2>3, <2>4, <2>5
<1>11. \A i \in 1 .. n : \E k \in 1 .. Len(all) : all[k].idx = i
  <2> SUFFICES ASSUME NEW i \in 1 .. n PROVE \E k \in 1 .. Len(all) : all[k].idx = i
    OBVIOUS
  <2>1. PICK g \in Group : \E k \in 1 .. Len(done[g]) : done[g][k].idx = i
    BY <1>4
  <2>2. PICK k \in 1 .. Len(done[g]) : done[g][k].idx = i
    BY <2>1
  <2>3. CASE g = "log"
    <3>1. k \in 1 .. Len(all) /\ all[k].idx = i
      BY <1>6, <2>2, <2>3 DEF A
    <3> QED
      BY <3>1
  <2>4. CASE g = "snap"
    <3>1. A + k \in 1 .. Len(all) /\ all[A + k].idx = i
      BY <1>6, <2>2, <2>4 DEF B
    <3> QED
      BY <3>1
  <2>5. CASE g = "net"
    <3>1. A + B + k \in 1 .. Len(all) /\ all[A + B + k].idx = i
      BY <1>6, <2>2, <2>5 DEF D
    <3> QED
      BY <3>1
  <2> QED
    BY <2>3, <2>4, <2>5 DEF Group
<1>12. Len(all) = n
  <2> DEFINE f == [k \in 1 .. Len(all) |-> all[k].idx]
  <2>1. f \in [1 .. Len(all) -> 1 .. n] /\ Len(all) \in Nat
    BY <1>6, <1>9
  <2>2. /\ \A i, j \in 1 .. Len(all) : f[i] = f[j] => i = j
        /\ \A y \in 1 .. n : \E i \in 1 .. Len(all) : f[i] = y
    BY <1>10, <1>11
  <2> HIDE DEF f
  <2>3. \A h \in [1 .. Len(all) -> 1 .. n] :
           (/\ \A i, j \in 1 .. Len(all) : h[i] = h[j] => i = j
            /\ \A y \in 1 .. n : \E i \in 1 .. Len(all) : h[i] = y) => Len(all) = n
    BY Zenon, <2>1 DEF Counting
  <2> QED
    BY Zenon, <2>1, <2>2, <2>3
<1>13. DOMAIN all = 1 .. n /\ Range(all) = { all[k] : k \in 1 .. n }
  <2>1. DOMAIN all = 1 .. n
    BY <1>6, <1>12
  <2> QED
    BY Zenon, <2>1 DEF Range
<1>14. places = 1 .. n
  <2>1. \A x \in Range(all) : x.idx \in 1 .. n
    BY Zenon, <1>9, <1>12, <1>13
  <2>2. \A i \in 1 .. n : \E x \in Range(all) : x.idx = i
    BY Zenon, <1>11, <1>12, <1>13
  <2> QED
    BY Zenon, <2>1, <2>2
<1> HIDE DEF places
<1>15. ASSUME NEW x \in Range(all) PROVE Rank(x) = x.idx
  <2>1. x.idx \in 1 .. n
    BY <1>9, <1>12, <1>13
  <2> QED
    BY Zenon, <1>14, <2>1 DEF Counting
<1> HIDE DEF Rank
<1>16. Merged = [i \in 1 .. n |-> (CHOOSE x \in Range(all) : Rank(x) = i).result]
  BY Zenon, <1>13 DEF Merged, all, places, Rank
<1>17. ASSUME NEW i \in 1 .. n, NEW r, r = Merged[i], NEW a, a = batch[i] PROVE IsTrue(r, a)
  <2>1. \E x \in Range(all) : Rank(x) = i
    <3>1. PICK k \in 1 .. n : all[k].idx = i
      BY <1>11, <1>12
    <3> QED
      BY Zenon, <1>13, <1>15, <3>1
  <2>2. PICK x \in Range(all) : Rank(x) = i /\ r = x.result
    BY Zenon, <1>16, <1>17, <2>1
  <2>3. PICK k \in 1 .. Len(all) : x = all[k]
    BY Zenon, <1>12, <1>13
  <2> QED
    BY Zenon, <1>9, <1>15, <1>17, <2>2, <2>3
<1> QED
  BY <1>1, <1>16, <1>17

\* A node that is not executing a batch.
LEMMA EmptyBatch == StoreTypes /\ NoBatch /\ KnowsSnapshot => BatchInv
<1> SUFFICES ASSUME StoreTypes, NoBatch, KnowsSnapshot PROVE BatchInv
  OBVIOUS
<1>1. batch = <<>> /\ todo = NoTodo /\ done = NoDone /\ returned = <<>> /\ sent = {}
  BY DEF NoBatch
<1>2. DOMAIN batch = {} /\ DOMAIN batch = 1 .. 0
  BY <1>1
<1>3. WellFormed(batch)
  BY <1>2 DEF WellFormed
<1>4. /\ \A g \in Group : todo[g] = {} /\ done[g] = <<>>
      /\ todo \in [Group -> SUBSET DOMAIN batch]
      /\ done \in [Group -> Seq([idx : DOMAIN batch, result : Outcome])]
  BY <1>1 DEF NoTodo, NoDone
<1>5. Left /\ Once
  BY <1>2, <1>4 DEF Left, Once
<1>6. Reported
  BY <1>4 DEF Reported
<1> QED
  BY <1>1, <1>3, <1>4, <1>5, <1>6 DEF BatchInv, Progress, ResultsAreTrue

\* A step that leaves the stores and the batch alone.
LEMMA BatchStays ==
    ASSUME BatchInv, UNCHANGED <<log_start, log, snapshot, known, status, batch, todo, done, sent>>
    PROVE  StoreTypes' /\ WellFormed(batch)' /\ Progress' /\ KnowsSnapshot'
<1>1. end_offset' = end_offset
  BY DEF end_offset
<1>2. StoreTypes'
  BY <1>1 DEF BatchInv, StoreTypes
<1>3. KnowsSnapshot'
  BY DEF BatchInv, KnowsSnapshot, NoGap
<1>4. WellFormed(batch)'
  BY Zenon DEF BatchInv, WellFormed
<1>5. Left'
  <2> SUFFICES ASSUME NEW g \in Group, NEW i \in todo'[g], NEW a, a = batch'[i]
               PROVE  GroupOf(a) = g /\ MayRun(a)'
    BY Zenon DEF Left
  <2>1. GroupOf(a) = g /\ MayRun(a)
    BY Zenon DEF BatchInv, Progress, Left
  <2> QED
    BY <1>1, <2>1 DEF MayRun
<1>6. Reported'
  <2> SUFFICES ASSUME NEW g \in Group, NEW k \in 1 .. Len(done'[g]), NEW x, x = done'[g][k],
                      NEW a, a = batch'[x.idx]
               PROVE  GroupOf(a) = g /\ x.idx \notin todo'[g] /\ IsTrue(x.result, a)'
    BY ZenonT(30) DEF Reported
  <2>1. GroupOf(a) = g /\ x.idx \notin todo[g] /\ IsTrue(x.result, a)
    BY Zenon DEF BatchInv, Progress, Reported
  <2> QED
    BY Zenon, <1>1, <2>1 DEF IsTrue
<1>7. Once'
  <2>1. Once
    BY DEF BatchInv, Progress
  <2> QED
    BY <2>1 DEF Once
<1> QED
  BY Zenon, <1>2, <1>3, <1>4, <1>5, <1>6, <1>7 DEF BatchInv, Progress

LEMMA QuietKeeps ==
    ASSUME BatchInv, UNCHANGED <<diskVars, batchVars, known, status>>
    PROVE  BatchInv'
<1>1. UNCHANGED <<log_start, log, snapshot, known, status, batch, todo, done, sent, returned>>
  BY DEF diskVars, batchVars
<1>2. StoreTypes' /\ WellFormed(batch)' /\ Progress' /\ KnowsSnapshot'
  BY <1>1, BatchStays
<1>3. ResultsAreTrue'
  <2>1. end_offset' = end_offset
    BY <1>1 DEF end_offset
  <2>2. ASSUME returned # <<>>, NEW i \in DOMAIN batch
        PROVE  IsTrue(returned[i], batch[i])'
    <3>1. IsTrue(returned[i], batch[i])
      BY Zenon, <2>2 DEF BatchInv, ResultsAreTrue
    <3> QED
      BY Zenon, <1>1, <2>1, <3>1 DEF IsTrue
  <2>3. returned # <<>> => DOMAIN returned = DOMAIN batch
    BY DEF BatchInv, ResultsAreTrue
  <2> QED
    BY <1>1, <2>2, <2>3 DEF ResultsAreTrue
<1> QED
  BY <1>1, <1>2, <1>3 DEF BatchInv, NoBatch

LEMMA ReturnsKeeps ==
    ASSUME Counting, BatchInv, execute_returns
    PROVE  BatchInv'
<1>1. /\ UNCHANGED <<log_start, log, snapshot, known, status, batch, todo, done, sent>>
      /\ batch # <<>> /\ todo = NoTodo /\ returned' = Merged
  BY DEF execute_returns, diskVars
<1>2. StoreTypes' /\ WellFormed(batch)' /\ Progress' /\ KnowsSnapshot'
  BY <1>1, BatchStays
<1>3. /\ DOMAIN returned' = DOMAIN batch
      /\ \A i \in DOMAIN batch : \A r \in {returned'[i]} : \A a \in {batch[i]} : IsTrue(r, a)
  BY Zenon, <1>1, MergedIsTrue
<1>4. ResultsAreTrue'
  <2>1. end_offset' = end_offset
    BY <1>1 DEF end_offset
  <2>2. ASSUME NEW i \in DOMAIN batch PROVE IsTrue(returned[i], batch[i])'
    <3>1. PICK r, a : r = returned'[i] /\ a = batch[i]
      BY Zenon
    <3>2. IsTrue(r, a)
      BY Zenon, <1>3, <3>1
    <3> QED
      BY Zenon, <1>1, <2>1, <3>1, <3>2 DEF IsTrue
  <2> QED
    BY <1>1, <1>3, <2>2 DEF ResultsAreTrue
<1> QED
  BY <1>1, <1>2, <1>4 DEF BatchInv

\* The event loop has read the results: what it knows is the newest snapshot.
LEMMA ReadKeeps ==
    ASSUME BatchInv, ReadResults
    PROVE  BatchInv'
<1> DEFINE X == { batch[i].at : i \in { j \in DOMAIN batch : /\ batch[j].op = "SaveSnapshot"
                                                             /\ returned[j] = "SnapshotSaved" } }
<1>1. /\ UNCHANGED <<log_start, log, snapshot, status>> /\ NoBatch' /\ sent' = {}
      /\ known' = Max({known} \cup X) /\ returned # <<>>
  BY DEF ReadResults, diskVars, NoBatch
<1>2. /\ status = "up" /\ known \in Nat /\ snapshot \in Nat /\ known <= snapshot
      /\ snapshot # known => \E i \in DOMAIN batch :
                                 batch[i].op = "SaveSnapshot" /\ snapshot = batch[i].at
  BY <1>1 DEF BatchInv, KnowsSnapshot, StoreTypes, Offset
<1>3. ASSUME NEW i \in DOMAIN batch, batch[i].op = "SaveSnapshot"
      PROVE  (returned[i] = "SnapshotSaved") = (snapshot = batch[i].at)
  <2>1. PICK r, a : r = returned[i] /\ a = batch[i]
    BY Zenon
  <2>2. IsTrue(r, a)
    BY Zenon, <1>1, <2>1 DEF BatchInv, ResultsAreTrue
  <2> QED
    BY Zenon, <1>3, <2>1, <2>2 DEF IsTrue
<1>4. {known} \cup X = {known, snapshot}
  <2>1. \A x \in X : x = snapshot
    BY <1>3
  <2>2. snapshot # known => snapshot \in X
    BY <1>2, <1>3
  <2> HIDE DEF X
  <2> QED
    BY <2>1, <2>2
<1> HIDE DEF X
<1>5. known' = Max({known, snapshot})
  BY Zenon, <1>1, <1>4
<1>6. known' \in {known, snapshot} /\ known' >= snapshot
  <2>1. known \in Int /\ snapshot \in Int
    BY <1>2
  <2> QED
    BY Zenon, <1>5, <2>1, Pairs
<1>7. known' = snapshot
  BY <1>2, <1>6
<1>8. StoreTypes' /\ KnowsSnapshot'
  BY <1>1, <1>2, <1>7 DEF BatchInv, StoreTypes, KnowsSnapshot, NoGap, end_offset
<1>9. (StoreTypes /\ NoBatch /\ KnowsSnapshot => BatchInv)'
  BY EmptyBatch, PTL
<1> QED
  BY <1>1, <1>8, <1>9

LEMMA InitBatch == Init => BatchInv
<1> SUFFICES ASSUME Init PROVE BatchInv
  OBVIOUS
<1>1. StoreTypes /\ KnowsSnapshot /\ NoBatch
  BY BoundsAssumption DEF Init, StoreTypes, KnowsSnapshot, NoGap, NoBatch, Offset, end_offset
<1> QED
  BY <1>1, EmptyBatch

LEMMA NextBatch ==
    ASSUME Counting
    PROVE  BatchInv /\ [Next]_vars => BatchInv'
<1> SUFFICES ASSUME BatchInv, [Next]_vars PROVE BatchInv'
  OBVIOUS
<1>1. (StoreTypes /\ NoBatch /\ KnowsSnapshot => BatchInv)'
  BY EmptyBatch, PTL
<1>2. CASE Open \/ OpenReturns
  <2>1. /\ UNCHANGED <<log_start, log, snapshot, batch, todo, done, returned, sent>>
        /\ known' \in {known, snapshot} /\ status' \in {"opening", "up"} /\ status # "up"
        /\ status = "down" => known' = snapshot
    BY <1>2 DEF Open, OpenReturns, diskVars, batchVars
  <2>2. NoBatch
    BY <2>1 DEF BatchInv
  <2>3. StoreTypes' /\ NoBatch' /\ KnowsSnapshot'
    <3>1. StoreTypes'
      BY <2>1 DEF BatchInv, StoreTypes, end_offset
    <3>2. NoBatch' /\ DOMAIN batch = {}
      BY <2>1, <2>2 DEF NoBatch
    <3>3. log_start <= snapshot /\ log_start \in Nat /\ snapshot \in Nat
      BY DEF BatchInv, KnowsSnapshot, NoGap, StoreTypes, Offset
    <3>4. known' = snapshot
      BY <2>1, <3>2 DEF BatchInv, KnowsSnapshot, StoreTypes
    <3> QED
      BY <2>1, <3>1, <3>2, <3>3, <3>4 DEF KnowsSnapshot, NoGap
  <2> QED
    BY <1>1, <2>3
<1>3. CASE OpenFails \/ Stop
  <2>1. /\ UNCHANGED <<log_start, log, snapshot>> /\ NoBatch' /\ sent' = {}
        /\ known' = 0 /\ status' = "down"
    BY <1>3 DEF OpenFails, Stop, Loses, diskVars, NoBatch
  <2>2. StoreTypes' /\ KnowsSnapshot'
    BY <2>1, BoundsAssumption DEF BatchInv, StoreTypes, KnowsSnapshot, NoGap, Offset, end_offset
  <2> QED
    BY <1>1, <2>1, <2>2
<1>4. CASE UNCHANGED <<diskVars, batchVars, known, status>>
  BY <1>4, QuietKeeps
<1>5. CASE save \/ save_steps \/ save_returns
  BY <1>4, <1>5 DEF save, save_steps, save_returns
<1>6. CASE append \/ persist \/ append_returns
  BY <1>4, <1>6 DEF append, persist, append_returns
<1>7. CASE UNCHANGED vars
  BY <1>4, <1>7 DEF vars
<1>8. CASE execute
  BY <1>8, ExecuteKeeps
<1>9. CASE execute_log_group
  BY <1>9, LogGroupKeeps
<1>10. CASE execute_snap_group
  BY <1>10, SnapGroupKeeps
<1>11. CASE execute_net_group
  BY <1>11, NetGroupKeeps
<1>12. CASE execute_returns
  BY <1>12, ReturnsKeeps
<1>13. CASE ReadResults
  BY <1>13, ReadKeeps
<1> QED
  BY <1>2, <1>3, <1>5, <1>6, <1>7, <1>8, <1>9, <1>10, <1>11, <1>12, <1>13 DEF Next

-----------------------------------------------------------------------------
(* The epochs that open collects. *)

Changes == { i \in DOMAIN log : log[i].entry_type = "LeaderChangeMessage" }

\* i is the place of the first LeaderChangeMessage of term t.
IsFirst(i, t) == /\ i \in Changes /\ log[i].term = t
                 /\ \A j \in Changes : log[j].term = t => i <= j

LEMMA PlaceShape ==
    ASSUME StoreTypes, NEW i \in DOMAIN log
    PROVE  log[i].term \in Term /\ log_start + i - 1 \in Offset /\ i \in Nat
<1>1. log \in Seq(Entry) /\ log[i] \in Entry /\ i \in 1 .. Len(log)
  BY DEF StoreTypes
<1> QED
  BY <1>1, BoundsAssumption DEF StoreTypes, Offset, Entry, end_offset

LEMMA ScanShape ==
    ASSUME Counting, StoreTypes
    PROVE  /\ DOMAIN Scan = { log[i].term : i \in Changes }
           /\ \A t \in DOMAIN Scan : \E i \in Changes : IsFirst(i, t) /\ Scan[t] = log_start + i - 1
           /\ Scan \in EpochMap
<1> DEFINE At(t) == { i \in Changes : log[i].term = t }
<1>1. Scan = [t \in { log[i].term : i \in Changes } |-> log_start + Min(At(t)) - 1]
  BY Zenon DEF Scan, Changes
<1>2. Changes \subseteq DOMAIN log /\ DOMAIN log = 1 .. Len(log) /\ Len(log) \in Nat
  BY DEF Changes, StoreTypes
<1>3. ASSUME NEW t \in { log[i].term : i \in Changes }
      PROVE  /\ Min(At(t)) \in Changes /\ IsFirst(Min(At(t)), t)
             /\ Scan[t] = log_start + Min(At(t)) - 1
  <2>1. At(t) \in SUBSET Nat /\ At(t) # {}
    BY <1>2
  <2> HIDE DEF At
  <2>2. Min(At(t)) \in At(t) /\ \A y \in At(t) : Min(At(t)) <= y
    BY Zenon, <2>1, MinIn
  <2>3. Scan[t] = log_start + Min(At(t)) - 1
    BY Zenon, <1>1
  <2> QED
    BY <2>2, <2>3 DEF At, IsFirst
<1> HIDE DEF At
<1>4. DOMAIN Scan = { log[i].term : i \in Changes }
  BY Zenon, <1>1
<1>5. \A t \in DOMAIN Scan : \E i \in Changes : IsFirst(i, t) /\ Scan[t] = log_start + i - 1
  BY Zenon, <1>3, <1>4
<1>6. Scan \in EpochMap
  <2>1. \A i \in Changes : log[i].term \in Term /\ log_start + i - 1 \in Offset
    BY Zenon, <1>2, PlaceShape
  <2>2. \A t \in DOMAIN Scan : t \in Term /\ Scan[t] \in Offset
    BY <1>4, <1>5, <2>1
  <2>3. PICK T : T = DOMAIN Scan
    BY Zenon
  <2>4. T \in SUBSET Term /\ Scan \in [T -> Offset]
    BY Zenon, <1>1, <1>4, <2>2, <2>3
  <2> QED
    BY Zenon, <2>4 DEF EpochMap
<1> QED
  BY <1>4, <1>5, <1>6

EpochInv == epochs \in EpochMap /\ (status = "opening" => epochs = Scan)

LEMMA InsertShape ==
    ASSUME NEW m \in EpochMap, NEW t \in Term, NEW o \in Offset
    PROVE  Insert(m, t, o) \in EpochMap
<1>1. PICK T \in SUBSET Term : m \in [T -> Offset]
  BY Zenon DEF EpochMap
<1>2. PICK U : U = T \cup {t}
  BY Zenon
<1>3. U \in SUBSET Term /\ Insert(m, t, o) \in [U -> Offset]
  BY <1>1, <1>2 DEF Insert
<1> QED
  BY Zenon, <1>3 DEF EpochMap

LEMMA EmptyMap == <<>> \in EpochMap
<1>1. {} \in SUBSET Term /\ <<>> \in [{} -> Offset]
  OBVIOUS
<1> QED
  BY Zenon, <1>1 DEF EpochMap

LEMMA InitEpoch == Init => EpochInv
BY EmptyMap DEF Init, EpochInv

LEMMA NextEpoch ==
    ASSUME Counting
    PROVE  BatchInv /\ EpochInv /\ [Next]_vars => EpochInv'
<1> SUFFICES ASSUME BatchInv, EpochInv, [Next]_vars PROVE EpochInv'
  OBVIOUS
<1>1. CASE Open
  <2>1. epochs' = Scan /\ UNCHANGED <<log, log_start>>
    BY <1>1 DEF Open, rebuild, diskVars
  <2>2. Scan' = Scan
    BY Zenon, <2>1 DEF Scan
  <2>3. Scan \in EpochMap
    BY ScanShape DEF BatchInv
  <2> QED
    BY <2>1, <2>2, <2>3 DEF EpochInv
<1>2. CASE OpenReturns
  BY <1>2 DEF OpenReturns, EpochInv
<1>3. CASE OpenFails \/ Stop
  BY <1>3, EmptyMap DEF OpenFails, Stop, Loses, EpochInv
<1>4. CASE append
  <2>1. PICK i \in DOMAIN log : epochs' = Insert(epochs, log[i].term, log_start + i - 1)
    BY <1>4 DEF append
  <2>2. log[i].term \in Term /\ log_start + i - 1 \in Offset
    BY PlaceShape DEF BatchInv
  <2>3. status' = "up"
    BY <1>4 DEF append, Free
  <2> QED
    BY <2>1, <2>2, <2>3, InsertShape DEF EpochInv
<1>5. CASE UNCHANGED <<epochs, status, log, log_start>>
  <2>1. Scan' = Scan
    BY Zenon, <1>5 DEF Scan
  <2> QED
    BY <1>5, <2>1 DEF EpochInv
<1>6. CASE save \/ save_steps \/ save_returns \/ persist \/ append_returns
  BY <1>5, <1>6 DEF save, save_steps, save_returns, persist, append_returns, diskVars, epVars
<1>7. CASE execute \/ execute_snap_group \/ execute_net_group \/ execute_returns \/ ReadResults
  BY <1>5, <1>7 DEF execute, execute_snap_group, execute_net_group, execute_returns, ReadResults,
     diskVars, epVars
<1>8. CASE execute_log_group
  <2>1. /\ UNCHANGED <<epochs, status>> /\ todo["log"] # {}
    BY <1>8 DEF execute_log_group, epVars
  <2>2. batch # <<>>
    BY <2>1 DEF BatchInv, NoBatch, NoTodo, Group
  <2> QED
    BY <2>1, <2>2 DEF BatchInv, EpochInv
<1>9. CASE UNCHANGED vars
  BY <1>5, <1>9 DEF vars, diskVars, epVars
<1> QED
  BY <1>1, <1>2, <1>3, <1>4, <1>6, <1>7, <1>8, <1>9 DEF Next

LEMMA MaxIn ==
    ASSUME Counting, NEW t \in Nat, NEW S \in SUBSET (0 .. t), S # {}
    PROVE  Max(S) \in S /\ \A y \in S : y <= Max(S)
<1> DEFINE D == { d \in Nat : t - d \in S }
<1>1. D \in SUBSET Nat /\ D # {}
  <2>1. PICK y \in S : TRUE
    BY Zenon
  <2>2. t - y \in Nat /\ t - (t - y) = y
    OBVIOUS
  <2> QED
    BY Zenon, <2>2
<1> HIDE DEF D
<1>2. PICK d \in D : \A e \in D : d <= e
  BY Zenon, <1>1 DEF Counting
<1>3. t - d \in S /\ \A y \in S : t - d >= y
  <2>1. d \in Nat /\ t - d \in S
    BY DEF D
  <2>2. ASSUME NEW y \in S PROVE y <= t - d
    <3>1. y \in Nat /\ y <= t /\ t - y \in Nat /\ t - (t - y) = y
      OBVIOUS
    <3>2. t - y \in D
      BY <3>1 DEF D
    <3> QED
      BY <1>2, <2>1, <3>1, <3>2
  <2>3. t - d \in Nat
    BY <2>1
  <2> QED
    BY <2>1, <2>2, <2>3
<1>4. \E x \in S : \A y \in S : x >= y
  BY Zenon, <1>3
<1>5. Max(S) \in S /\ \A y \in S : Max(S) >= y
  BY Zenon, <1>4 DEF Max
<1> QED
  BY <1>5

\* The lookup in a map that was just collected from the log.
Looked(m, t) == LET ts == { k \in DOMAIN m : k <= t }
                IN  IF ts = {} THEN <<>> ELSE <<Max(ts), m[Max(ts)]>>

UpTo(t) == { <<log[i].term, log_start + i - 1>> : i \in { j \in Changes : log[j].term <= t } }

Newest(r, S) == IF S = {} THEN r = <<>>
                ELSE r \in S /\ \A x \in S : x[1] < r[1] \/ (x[1] = r[1] /\ x[2] >= r[2])

LEMMA LookupMatches ==
    ASSUME Counting, StoreTypes, NEW t \in Term
    PROVE  Newest(Looked(Scan, t), UpTo(t))
<1>0. PICK m, r, upTo : m = Scan /\ r = Looked(m, t) /\ upTo = UpTo(t)
  BY Zenon
<1> USE <1>0 DEF UpTo
<1> DEFINE ts == { k \in DOMAIN m : k <= t }
<1>1. /\ DOMAIN m = { log[i].term : i \in Changes }
      /\ \A k \in DOMAIN m : \E i \in Changes : IsFirst(i, k) /\ m[k] = log_start + i - 1
  BY Zenon, ScanShape
<1>2. \A i \in Changes : log[i].term \in Nat /\ i \in Nat /\ log_start \in Nat
  <2>1. log_start \in Nat /\ Term \subseteq Nat /\ Changes \subseteq DOMAIN log
    BY BoundsAssumption DEF StoreTypes, Offset, Term, Changes
  <2> QED
    BY Zenon, <2>1, PlaceShape
<1>3. t \in Nat /\ ts \in SUBSET (0 .. t)
  BY <1>1, <1>2 DEF Term
<1>4. ts = {} <=> upTo = {}
  <2>1. ASSUME NEW k \in ts PROVE upTo # {}
    <3>1. PICK i \in Changes : log[i].term = k
      BY <1>1
    <3> QED
      BY Zenon, <3>1
  <2>2. ASSUME NEW x \in upTo PROVE ts # {}
    <3>1. PICK i \in Changes : log[i].term <= t
      BY <2>2
    <3>2. log[i].term \in ts
      BY <1>1, <3>1
    <3> QED
      BY <3>2
  <2> QED
    BY Zenon, <2>1, <2>2
<1>5. r = IF ts = {} THEN <<>> ELSE <<Max(ts), m[Max(ts)]>>
  BY Zenon DEF Looked
<1>6. ASSUME upTo = {} PROVE r = <<>>
  BY <1>4, <1>5, <1>6
<1>7. ASSUME upTo # {}
      PROVE  r \in upTo /\ \A x \in upTo : x[1] < r[1] \/ (x[1] = r[1] /\ x[2] >= r[2])
  <2>1. PICK k : k = Max(ts)
    BY Zenon
  <2>2. k \in ts /\ (\A y \in ts : y <= k) /\ r = <<k, m[k]>>
    <3> HIDE DEF ts
    <3> QED
      BY Zenon, <1>3, <1>4, <1>5, <1>7, <2>1, MaxIn
  <2>3. PICK i \in Changes : IsFirst(i, k) /\ m[k] = log_start + i - 1
    BY <1>1, <2>2
  <2>4. log[i].term = k /\ r = <<log[i].term, log_start + i - 1>> /\ k <= t
    BY <2>2, <2>3 DEF IsFirst
  <2>5. r \in upTo
    BY Zenon, <2>4
  <2>6. ASSUME NEW x \in upTo PROVE x[1] < r[1] \/ (x[1] = r[1] /\ x[2] >= r[2])
    <3>1. PICK j \in Changes : log[j].term <= t /\ x = <<log[j].term, log_start + j - 1>>
      BY <2>6
    <3>2. log[j].term \in ts
      BY <1>1, <3>1
    <3>3. log[j].term <= k /\ (log[j].term = k => i <= j)
      BY Zenon, <2>2, <2>3, <3>2 DEF IsFirst
    <3> QED
      BY <1>2, <2>4, <3>1, <3>3
  <2> QED
    BY <1>7, <2>5, <2>6
<1>8. Newest(r, upTo)
  BY Zenon, <1>6, <1>7 DEF Newest
<1> QED
  BY Zenon, <1>8

LEMMA OpenMatches ==
    ASSUME Counting
    PROVE  BatchInv /\ EpochInv /\ [Next]_vars => OpenMatchesLog
<1> SUFFICES ASSUME BatchInv, EpochInv, [Next]_vars, status = "opening", status' = "up",
                    NEW t \in Term
             PROVE  \A r \in {lookup_le(t)'} : Newest(r, UpTo(t))
  <2>1. \A t \in Term : { j \in Changes : log[j].term <= t }
           = { j \in DOMAIN log : log[j].entry_type = "LeaderChangeMessage" /\ log[j].term <= t }
    BY Zenon DEF Changes
  <2> QED
    BY Zenon, <2>1 DEF OpenMatchesLog, Newest, UpTo
<1>1. epochs' = epochs
  <2>1. CASE OpenReturns
    BY <2>1 DEF OpenReturns
  <2>2. ~ OpenReturns => status' # "up" \/ status = "up" \/ UNCHANGED vars
    BY Zenon DEF Next, Open, OpenFails, Stop, Loses, save, save_steps, save_returns, append, persist,
       append_returns, execute, execute_log_group, execute_snap_group, execute_net_group,
       execute_returns, ReadResults, Free, vars
  <2> QED
    BY <2>1, <2>2 DEF vars, epVars
<1>2. epochs' = Scan
  BY <1>1 DEF EpochInv
<1>3. lookup_le(t)' = Looked(Scan, t)
  BY Zenon, <1>2 DEF lookup_le, Looked
<1>4. StoreTypes
  BY DEF BatchInv
<1> QED
  BY Zenon, <1>3, <1>4, LookupMatches

-----------------------------------------------------------------------------
(* The two files. *)

\* No step of a save leaves a part of a value in the quorum-state file.
LEMMA QuorumFile == Q!FileInv /\ [Q!Next]_(Q!vars) => Q!FileInv'
<1> SUFFICES ASSUME Q!FileInv, [Q!Next]_(Q!vars) PROVE Q!FileInv'
  OBVIOUS
<1> USE DEF Q!FileInv, Q!Idle, Q!NoFile, Q!Content, Q!Contents
<1>1. ASSUME NEW v \in Term, Q!Begin(v) PROVE Q!FileInv'
  BY <1>1 DEF Q!Begin
<1>2. CASE Q!write_temp
  BY Zenon, <1>2 DEF Q!write_temp, Q!At
<1>3. CASE Q!sync_all
  BY Zenon, <1>3 DEF Q!sync_all, Q!At
<1>4. CASE Q!rename
  BY Zenon, <1>4 DEF Q!rename, Q!At
<1>5. CASE Q!ReturnOk \/ Q!ReturnErr
  <2>1. qs_writing' = Q!Idle /\ qs_file' = qs_file
    BY Zenon, <1>5 DEF Q!ReturnOk, Q!ReturnErr
  <2> QED
    BY <2>1
<1>6. CASE Q!Stop
  BY <1>6 DEF Q!Stop
<1>7. CASE UNCHANGED Q!vars
  BY <1>7 DEF Q!vars
<1> QED
  BY Zenon, <1>1, <1>2, <1>3, <1>4, <1>5, <1>6, <1>7 DEF Q!Next, Q!Steps

\* Every step of the engine is a step of the quorum-state file, or none.
LEMMA QuorumStep == [Next]_vars => [Q!Next]_(Q!vars)
<1> SUFFICES ASSUME [Next]_vars PROVE [Q!Next]_(Q!vars)
  OBVIOUS
<1> USE DEF Q!Next, Q!vars
<1>1. CASE Open \/ OpenReturns \/ OpenFails
  BY <1>1 DEF Open, OpenReturns, OpenFails, qsVars
<1>2. CASE Stop
  BY Zenon, <1>2 DEF Stop
<1>3. CASE save
  BY Zenon, <1>3 DEF save
<1>4. CASE save_returns
  BY Zenon, <1>4 DEF save_returns
<1>5. CASE save_steps
  BY Zenon, <1>5 DEF save_steps
<1>6. CASE append \/ persist \/ append_returns
  BY Zenon, <1>6 DEF append, persist, append_returns, qsVars
<1>7. CASE execute \/ execute_log_group \/ execute_snap_group \/ execute_net_group
  BY <1>7 DEF execute, execute_log_group, execute_snap_group, execute_net_group, qsVars
<1>8. CASE execute_returns \/ ReadResults
  BY <1>8 DEF execute_returns, ReadResults, qsVars
<1>9. CASE UNCHANGED vars
  BY <1>9 DEF vars, qsVars
<1> QED
  BY <1>1, <1>2, <1>3, <1>4, <1>5, <1>6, <1>7, <1>8, <1>9 DEF Next

LEMMA QuorumInit == Init => Q!Init /\ Q!FileInv
BY DEF Init, Q!Init, Q!FileInv, Q!Idle, Q!NoFile, Q!Content, Q!Contents

\* A save takes effect at its rename.
LEMMA QuorumMaps == Q!FileInv /\ [Q!Next]_(Q!vars) => [Q!R!Next]_<<qs_file.data, Q!Call>>
<1> SUFFICES ASSUME Q!FileInv, [Q!Next]_(Q!vars) PROVE [Q!R!Next]_<<qs_file.data, Q!Call>>
  OBVIOUS
<1> USE DEF Q!FileInv, Q!Contents, Q!Call, Q!Idle, Q!NoFile, Q!Content, Q!At
<1>1. ASSUME NEW v \in Term, Q!Begin(v) PROVE Q!R!Start
  BY <1>1 DEF Q!Begin, Q!R!Start, Q!R!Calls
<1>2. CASE Q!write_temp
  BY <1>2 DEF Q!write_temp
<1>3. CASE Q!sync_all
  BY <1>3 DEF Q!sync_all
<1>4. CASE Q!rename
  BY <1>4 DEF Q!rename, Q!R!Next, Q!R!Take, Q!R!Calls
<1>5. CASE Q!ReturnOk \/ Q!ReturnErr
  BY <1>5 DEF Q!ReturnOk, Q!ReturnErr, Q!R!Next, Q!R!Return, Q!R!Calls
<1>6. CASE Q!Stop
  <2>1. CASE qs_writing = Q!Idle
    BY <1>6, <2>1 DEF Q!Stop
  <2>2. CASE qs_writing # Q!Idle
    BY <1>6, <2>2 DEF Q!Stop, Q!R!Next, Q!R!Return, Q!R!Calls
  <2> QED
    BY <2>1, <2>2
<1>7. CASE UNCHANGED Q!vars
  BY <1>7 DEF Q!vars
<1> QED
  BY Zenon, <1>1, <1>2, <1>3, <1>4, <1>5, <1>6, <1>7 DEF Q!Next, Q!Steps, Q!R!Next

\* QuorumStateFile implements the register of Register whatever else the
\* engine does (quorum_state_file.rs:49-79).
THEOREM QuorumStateIsAtomic == Spec => SavesAreAtomic
<1>1. Init => Q!R!Init
  BY DEF Init, Q!Init, Q!R!Init, Q!R!Calls, Q!Call, Q!Idle, Q!NoFile, Q!Content
<1>2. Spec => []Q!FileInv
  BY QuorumInit, QuorumStep, QuorumFile, PTL DEF Spec
<1> QED
  BY <1>1, <1>2, QuorumStep, QuorumMaps, PTL DEF Spec, SavesAreAtomic, Q!Implements, Q!R!Spec

(***************************************************************************)
(* What load() returns is the file's value, except between the rename and  *)
(* the end of a save, when it is the one before; neither is older than the *)
(* last acknowledged one.                                                  *)
(***************************************************************************)
Known == Term \cup {Absent}

QInv == /\ Q!FileInv
        /\ cached \in Known /\ acked \in Known
        /\ qs_file.data \in Known
        /\ status # "up" => qs_writing.step = "idle"
        /\ qs_writing.step # "idle" => /\ qs_writing.value \in Term
                                       /\ qs_writing.value >= TermOf(cached)
        /\ status # "down" /\ qs_writing.step # "return" => cached = qs_file.data
        /\ TermOf(qs_file.data) >= TermOf(acked)
        /\ AckedIsLoaded

LEMMA InitQ == Init => QInv
<1> SUFFICES ASSUME Init PROVE QInv
  OBVIOUS
<1>1. Q!FileInv
  BY QuorumInit
<1> QED
  BY <1>1 DEF Init, QInv, Known, TermOf, AckedIsLoaded, Q!Init, Q!Idle, Q!NoFile, Q!Content

LEMMA NextQ == QInv /\ [Next]_vars => QInv'
<1> SUFFICES ASSUME QInv, [Next]_vars PROVE QInv'
  OBVIOUS
<1>1. Q!FileInv /\ Q!FileInv'
  BY QuorumStep, QuorumFile DEF QInv
<1>2. /\ Known \subseteq Nat \cup {Absent}
      /\ \A v \in Known : TermOf(v) \in Nat
      /\ Absent \notin Term
  BY NoneAssumption DEF Known, Term, TermOf
<1>3. CASE UNCHANGED <<qs_file, qs_writing, cached, acked>> /\ status' \in {status, "up"}
                /\ (status = "down" => status' = "down")
  BY Zenon, <1>1, <1>3 DEF QInv, Known, TermOf, AckedIsLoaded
<1>4. CASE Open
  BY <1>1, <1>2, <1>4 DEF Open, quorum_state_open, QInv, Known, TermOf, AckedIsLoaded
<1>5. CASE OpenFails \/ Stop
  <2>1. /\ status' = "down" /\ cached' = Absent /\ acked' = acked
        /\ qs_file' = qs_file /\ qs_writing'.step = "idle"
    <3>1. CASE OpenFails
      BY <3>1 DEF OpenFails, Loses, QInv
    <3>2. CASE Stop
      <4>1. qs_file.synced
        BY <1>1 DEF Q!FileInv
      <4> QED
        BY <3>2, <4>1 DEF Stop, Loses, Q!Stop, Q!Idle
    <3> QED
      BY <1>5, <3>1, <3>2
  <2> QED
    BY <1>1, <1>2, <2>1 DEF QInv, Known, TermOf, AckedIsLoaded
<1>6. CASE save
  <2>1. PICK t \in Term : t >= TermOf(cached) /\ Q!Begin(t)
    BY <1>6 DEF save
  <2>2. /\ qs_writing'.step = "write" /\ qs_writing'.value = t
        /\ UNCHANGED <<qs_file, cached, acked, status>> /\ status = "up"
        /\ qs_writing.step = "idle"
    BY <1>6, <2>1 DEF save, Q!Begin, Q!Idle, Free
  <2> QED
    BY Zenon, <1>1, <1>2, <2>1, <2>2 DEF QInv, Known, TermOf, AckedIsLoaded
<1>7. CASE save_returns
  <2>1. /\ qs_writing.step = "return" /\ qs_writing'.step = "idle"
        /\ UNCHANGED <<qs_file, status>>
        /\ cached' = qs_writing.value /\ acked' = qs_writing.value
        /\ qs_file.data = qs_writing.value
    BY <1>1, <1>7 DEF save_returns, Q!ReturnOk, Q!At, Q!Idle, Q!FileInv
  <2> QED
    BY <1>1, <1>2, <2>1 DEF QInv, Known, TermOf, AckedIsLoaded, Term
<1>8. CASE save_steps
  <2>1. UNCHANGED <<cached, acked, status>>
    BY <1>8 DEF save_steps
  <2>2. CASE Q!write_temp \/ Q!sync_all
    <3>1. /\ qs_writing.step \in {"write", "sync"} /\ qs_writing'.step \in {"sync", "rename"}
          /\ qs_writing'.value = qs_writing.value /\ qs_file' = qs_file
      BY Zenon, <1>1, <2>2 DEF Q!write_temp, Q!sync_all, Q!At, Q!FileInv
    <3> QED
      BY <1>1, <2>1, <3>1 DEF QInv, AckedIsLoaded
  <2>3. CASE Q!rename
    <3>1. /\ qs_writing.step = "rename" /\ qs_writing'.step = "return"
          /\ qs_writing'.value = qs_writing.value /\ qs_file'.data = qs_writing.value
      BY <1>1, <2>3 DEF Q!rename, Q!At, Q!FileInv
    <3> QED
      BY <1>1, <1>2, <2>1, <3>1 DEF QInv, Known, Term, TermOf, AckedIsLoaded
  <2>4. CASE Q!ReturnErr
    <3>1. /\ qs_writing.step \in {"write", "sync", "rename"} /\ qs_writing'.step = "idle"
          /\ qs_file' = qs_file
      BY <1>1, <2>4 DEF Q!ReturnErr, Q!Idle
    <3> QED
      BY <1>1, <2>1, <3>1 DEF QInv, AckedIsLoaded
  <2> QED
    BY <1>8, <2>2, <2>3, <2>4 DEF save_steps, Q!Steps
<1>9. CASE OpenReturns
  BY <1>3, <1>9 DEF OpenReturns, qsVars
<1>10. CASE append \/ persist \/ append_returns
  BY <1>3, <1>10 DEF append, persist, append_returns, qsVars
<1>11. CASE execute \/ execute_log_group \/ execute_snap_group \/ execute_net_group
  BY <1>3, <1>11 DEF execute, execute_log_group, execute_snap_group, execute_net_group, qsVars
<1>12. CASE execute_returns \/ ReadResults
  BY <1>3, <1>12 DEF execute_returns, ReadResults, qsVars
<1>13. CASE UNCHANGED vars
  BY <1>3, <1>13 DEF vars, qsVars
<1> QED
  BY <1>4, <1>5, <1>6, <1>7, <1>8, <1>9, <1>10, <1>11, <1>12, <1>13 DEF Next

\* A term whose save returned Ok is what load() returns, or older than it,
\* through every stop and restart (quorum_state_file.rs:17-79).
THEOREM AckedIsNeverForgotten == Spec => []AckedIsLoaded
<1>1. QInv => AckedIsLoaded
  BY DEF QInv
<1> QED
  BY <1>1, InitQ, NextQ, PTL DEF Spec

(* The checkpoint file is written as the quorum state is. *)

\* No step of a persist leaves a part of an epoch table in the checkpoint file.
LEMMA CheckpointFile == C!FileInv /\ [C!Next]_(C!vars) => C!FileInv'
<1> SUFFICES ASSUME C!FileInv, [C!Next]_(C!vars) PROVE C!FileInv'
  OBVIOUS
<1> USE DEF C!FileInv, C!Idle, C!NoFile, C!Content, C!Contents
<1>1. ASSUME NEW v \in EpochMap, C!Begin(v) PROVE C!FileInv'
  BY <1>1 DEF C!Begin
<1>2. CASE C!write_temp
  BY <1>2 DEF C!write_temp, C!At
<1>3. CASE C!sync_all
  BY <1>3 DEF C!sync_all, C!At
<1>4. CASE C!rename
  BY <1>4 DEF C!rename, C!At
<1>5. CASE C!ReturnOk \/ C!ReturnErr
  <2>1. ep_writing' = C!Idle /\ ep_file' = ep_file
    BY Zenon, <1>5 DEF C!ReturnOk, C!ReturnErr
  <2> QED
    BY <2>1
<1>6. CASE C!Stop
  BY <1>6 DEF C!Stop
<1>7. CASE UNCHANGED C!vars
  BY <1>7 DEF C!vars
<1> QED
  BY Zenon, <1>1, <1>2, <1>3, <1>4, <1>5, <1>6, <1>7 DEF C!Next, C!Steps

LEMMA CheckpointStep == EpochInv' /\ [Next]_vars => [C!Next]_(C!vars)
<1> SUFFICES ASSUME EpochInv', [Next]_vars PROVE [C!Next]_(C!vars)
  OBVIOUS
<1> USE DEF C!Next, C!vars
<1>1. epochs' \in EpochMap
  BY DEF EpochInv
<1>2. CASE Open \/ append
  <2>1. C!Begin(epochs')
    <3>1. CASE Open
      BY <3>1 DEF Open, rebuild
    <3>2. CASE append
      BY <3>2 DEF append
    <3> QED
      BY <1>2, <3>1, <3>2
  <2> QED
    BY Zenon, <1>1, <2>1
<1>3. CASE Stop
  BY Zenon, <1>3 DEF Stop
<1>4. CASE OpenReturns \/ OpenFails \/ append_returns
  BY Zenon, <1>4 DEF OpenReturns, OpenFails, append_returns
<1>5. CASE persist
  BY Zenon, <1>5 DEF persist
<1>6. CASE save \/ save_steps \/ save_returns
  BY <1>6 DEF save, save_steps, save_returns, epVars
<1>7. CASE execute \/ execute_log_group \/ execute_snap_group \/ execute_net_group
  BY <1>7 DEF execute, execute_log_group, execute_snap_group, execute_net_group, epVars
<1>8. CASE execute_returns \/ ReadResults
  BY <1>8 DEF execute_returns, ReadResults, epVars
<1>9. CASE UNCHANGED vars
  BY <1>9 DEF vars, epVars
<1> QED
  BY <1>2, <1>3, <1>4, <1>5, <1>6, <1>7, <1>8, <1>9 DEF Next

LEMMA CheckpointInit == Init => C!FileInv
BY DEF Init, C!Init, C!FileInv, C!Idle, C!NoFile, C!Content, C!Contents

EngineInv == QInv /\ BatchInv /\ EpochInv /\ C!FileInv

LEMMA EngineStep ==
    ASSUME Counting
    PROVE  EngineInv /\ [Next]_vars => EngineInv'
<1> SUFFICES ASSUME EngineInv, [Next]_vars PROVE EngineInv'
  OBVIOUS
<1>1. QInv' /\ BatchInv' /\ EpochInv'
  BY NextQ, NextBatch, NextEpoch DEF EngineInv
<1>2. C!FileInv'
  BY <1>1, CheckpointStep, CheckpointFile DEF EngineInv
<1> QED
  BY <1>1, <1>2 DEF EngineInv

LEMMA EngineParses == EngineInv => FilesParse
<1> SUFFICES ASSUME EngineInv PROVE FilesParse
  OBVIOUS
<1>1. TypeOK
  BY DEF EngineInv, BatchInv, StoreTypes, QInv, Known, EpochInv, TypeOK
<1>2. qs_file.data # Torn
  BY NoneAssumption, BoundsAssumption DEF EngineInv, QInv, Known, Term
<1>3. ep_file.data # Torn
  BY NoneAssumption DEF EngineInv, C!FileInv
<1> QED
  BY <1>1, <1>2, <1>3 DEF FilesParse

-----------------------------------------------------------------------------
INSTANCE FiniteSetTheorems

\* A batch is a list of the actions of a finite set.
LEMMA BatchDomains == \A b \in Batches : \E k \in Nat : DOMAIN b = 1 .. k
<1> SUFFICES ASSUME NEW b \in Batches PROVE \E k \in Nat : DOMAIN b = 1 .. k
  OBVIOUS
<1>1. PICK x \in AtMostOne(LogActions) \X AtMostOne(SnapActions) \X SUBSET NetActions :
         b \in Injection(1 .. Cardinality(x[1] \cup x[2] \cup x[3]), x[1] \cup x[2] \cup x[3])
  BY Zenon DEF Batches
<1>2. PICK X, Y, Z : X = x[1] /\ Y = x[2] /\ Z = x[3]
  BY Zenon
<1>3. X \in AtMostOne(LogActions) /\ Y \in AtMostOne(SnapActions) /\ Z \in SUBSET NetActions
  BY <1>2
<1>4. ASSUME NEW S, NEW R \in AtMostOne(S) PROVE IsFiniteSet(R)
  <2>1. IsFiniteSet({}) /\ \A a : IsFiniteSet({a})
    BY Zenon, FS_EmptySet, FS_Singleton
  <2>2. R = {} \/ \E a : R = {a}
    BY Zenon DEF AtMostOne
  <2> QED
    BY Zenon, <2>1, <2>2
<1>5. IsFiniteSet(NetActions)
  <2> DEFINE f == [p \in Peer |-> [op |-> "SendRpc", peer |-> p]]
  <2>1. f \in Surjection(Peer, NetActions)
    BY Zenon DEF Surjection, NetActions
  <2> HIDE DEF f
  <2> QED
    BY <2>1, FS_Surjection, BoundsAssumption
<1>6. IsFiniteSet(X) /\ IsFiniteSet(Y) /\ IsFiniteSet(Z)
  BY Zenon, <1>3, <1>4, <1>5, FS_Subset
<1>7. IsFiniteSet(X \cup Y \cup Z)
  BY Zenon, <1>6, FS_Union
<1>8. Cardinality(X \cup Y \cup Z) \in Nat
  BY Zenon, <1>7, FS_CardinalityType
<1>9. DOMAIN b = 1 .. Cardinality(X \cup Y \cup Z)
  BY Zenon, <1>1, <1>2 DEF Injection
<1> QED
  BY Zenon, <1>8, <1>9

LEMMA CountingHolds == Counting
<1>1. ASSUME NEW S \in SUBSET Nat, S # {} PROVE \E x \in S : \A y \in S : x <= y
  <2>1. PICK x \in S : \A y \in S : ~ (<<y, x>> \in OpToRel(<, Nat))
    BY Zenon, <1>1, NatLessThanWellFounded, WFMin
  <2>2. \A y \in S : y < x => <<y, x>> \in OpToRel(<, Nat)
    BY Zenon DEF OpToRel
  <2>3. \A y \in S : ~ (y < x)
    BY Zenon, <2>1, <2>2
  <2>4. \A y \in S : x <= y
    BY <2>3
  <2> QED
    BY Zenon, <2>4
<1>2. ASSUME NEW k \in Nat, NEW i \in 1 .. k
      PROVE  Cardinality({ p \in 1 .. k : p <= i }) = i
  <2>1. { p \in 1 .. k : p <= i } = 1 .. i /\ i \in Int /\ i >= 1
    OBVIOUS
  <2>2. Cardinality(1 .. i) = i
    BY <2>1, FS_Interval
  <2> QED
    BY Zenon, <2>1, <2>2
<1>3. ASSUME NEW k \in Nat PROVE IsFiniteSet(1 .. k) /\ Cardinality(1 .. k) = k
  BY FS_Interval
<1>4. \A k, l \in Nat : \A f \in [1 .. k -> 1 .. l] :
         (/\ \A i, j \in 1 .. k : f[i] = f[j] => i = j
          /\ \A y \in 1 .. l : \E i \in 1 .. k : f[i] = y) => k = l
  <2> SUFFICES ASSUME NEW k \in Nat, NEW l \in Nat, NEW f \in [1 .. k -> 1 .. l],
                      \A i, j \in 1 .. k : f[i] = f[j] => i = j,
                      \A y \in 1 .. l : \E i \in 1 .. k : f[i] = y
               PROVE  k = l
    OBVIOUS
  <2>1. f \in Injection(1 .. k, 1 .. l)
    BY Zenon DEF Injection, IsInjective
  <2>2. f \in Surjection(1 .. k, 1 .. l)
    BY Zenon DEF Surjection
  <2>3. Cardinality(1 .. k) = Cardinality(1 .. l)
    BY Zenon, <1>3, <2>1, <2>2, FS_Injection
  <2> QED
    BY Zenon, <1>3, <2>3
<1> QED
  BY Zenon, <1>1, <1>2, <1>4, BatchDomains DEF Counting

\* The inductive invariant: the batch under way with its results, the snapshot
\* that the event loop knows, the epochs and both files (lib.rs:62-118,
\* io_stage.rs:75-206).
THEOREM EngineInvariant == Spec => []EngineInv
<1>1. Init => EngineInv
  BY InitQ, InitBatch, InitEpoch, CheckpointInit DEF EngineInv
<1>2. EngineInv /\ [Next]_vars => EngineInv'
  BY EngineStep, CountingHolds
<1> QED
  BY <1>1, <1>2, PTL DEF Spec

\* No entry is missing between the newest snapshot and the log, whatever fails
\* in a batch and wherever the process stops (io_stage.rs:81-180).
THEOREM NoGapHolds == Spec => []NoGap
<1>1. EngineInv => NoGap
  BY DEF EngineInv, BatchInv, KnowsSnapshot
<1> QED
  BY <1>1, EngineInvariant, PTL

\* execute returns the results in the order of the batch, and each is true of
\* its own action, in whatever order the groups end (io_stage.rs:100-110).
THEOREM ResultsAreTrueHolds == Spec => []ResultsAreTrue
<1>1. EngineInv => ResultsAreTrue
  BY DEF EngineInv, BatchInv
<1> QED
  BY <1>1, EngineInvariant, PTL

\* Both files always parse, so that open never ends in Corruption, and every
\* variable has its type (quorum_state_file.rs:23-25,
\* leader_epoch_checkpoint.rs:27-31).
THEOREM FilesParseHolds == Spec => []FilesParse
BY EngineParses, EngineInvariant, PTL

\* After open the checkpoint answers from the log, whatever an earlier run left
\* in its file (lib.rs:92-109).
THEOREM EpochsMatchLogHolds == Spec => EpochsMatchLog
<1>1. EngineInv /\ [Next]_vars => OpenMatchesLog
  BY OpenMatches, CountingHolds DEF EngineInv
<1> QED
  BY <1>1, EngineInvariant, PTL DEF Spec, EpochsMatchLog
=============================================================================
