----------------------------- MODULE Transport ------------------------------
(***************************************************************************)
(* The in-process transport (xraft-transport/src/channel.rs), one bounded  *)
(* queue per node, and NetworkSimulator (simulator.rs), which puts faults  *)
(* in front of it: partitions, drops, a reorder buffer and delays.         *)
(*                                                                         *)
(* A send reads the rules of its link once, under the lock, and then acts  *)
(* on what it read: every lock, sleep and full queue it waits for is a     *)
(* step at which the control handle may change the rules.  A flush takes   *)
(* the buffered messages and sends each through the same pipeline, without *)
(* the buffer.  Each node sends its messages one after the other, as the   *)
(* event loop does; its receiver is a task of its own.                     *)
(***************************************************************************)
EXTENDS Integers, Sequences, FiniteSets, SequencesExt

CONSTANTS Node,
          Capacity,    \* buffer_size of a node's queue
          MaxMsgs,     \* bound: messages sent on a link
          MaxCalls     \* bound: calls of the control handle

ASSUME TransportAssumption == /\ Capacity \in Nat \ {0}
                              /\ MaxMsgs \in Nat /\ MaxCalls \in Nat

VARIABLES link_rules,      \* per link: drop, delay, reorder
          partitions,      \* the links that are cut
          reorder_buffers, \* per link: the messages held back
          inbox,           \* per node: its queue
          closed,          \* the nodes whose receiver is gone
          task,            \* per sender, and of the flush: where it is
          flushing,        \* the messages a flush has still to send
          count,           \* messages sent on each link so far
          received,        \* per node: what recv returned
          calls,           \* calls of the control handle so far
          lossy, reordered \* the links a call has made lose, or reorder, messages

vars == <<link_rules, partitions, reorder_buffers, inbox, closed, task, flushing, count,
          received, calls, lossy, reordered>>
ruleVars == <<link_rules, partitions, closed, calls, lossy, reordered>>

Link == { l \in Node \X Node : l[1] # l[2] }
Message == [link : Link, num : 1 .. MaxMsgs]
Drops == {"never", "sometimes", "always"}
DefaultRules == [drop |-> "never", delay |-> FALSE, reorder |-> FALSE]

\* The flush of the control handle is one more task; one runs at a time.
Task == Node \cup {"flush"}
Idle == [step |-> "idle"]

Init == /\ link_rules = [l \in Link |-> DefaultRules]
        /\ partitions = {}
        /\ reorder_buffers = [l \in Link |-> {}]
        /\ inbox = [n \in Node |-> <<>>]
        /\ closed = {}
        /\ task = [i \in Task |-> Idle]
        /\ flushing = {}
        /\ count = [l \in Link |-> 0]
        /\ received = [n \in Node |-> <<>>]
        /\ calls = 0
        /\ lossy = {} /\ reordered = {}

(***************************************************************************)
(* The pipeline: partition, drop, reorder, delay, deliver                  *)
(***************************************************************************)
\* Variant: a message to be delayed is held in the reorder buffer.
DelayBuffers(r) == IF r.reorder \/ r.delay THEN "push" ELSE "deliver"

\* Where a message that was not dropped goes, by the rules that were read.
AfterDrop(r) == IF r.reorder THEN "push" ELSE IF r.delay THEN "sleep" ELSE "deliver"

\* Task i reads the rules r of message m's link and goes as far as its first
\* wait.
Enter(i, m, r) ==
    task' = [task EXCEPT ![i] =
               IF m.link \in partitions THEN Idle
               ELSE [step |-> IF r.drop # "never" THEN "roll" ELSE AfterDrop(r),
                     msg |-> m, rules |-> r]]

send(n) == /\ task[n] = Idle
           /\ \E l \in { k \in Link : k[1] = n /\ count[k] < MaxMsgs } :
                 /\ count' = [count EXCEPT ![l] = @ + 1]
                 /\ Enter(n, [link |-> l, num |-> count'[l]], link_rules[l])
           /\ UNCHANGED <<ruleVars, reorder_buffers, inbox, flushing, received>>

\* Variant: the flush does not look at the partitions.
FlushIgnoresPartition ==
    /\ task["flush"] = Idle
    /\ \E m \in flushing :
          /\ flushing' = flushing \ {m}
          /\ task' = [task EXCEPT !["flush"] = [step |-> "deliver", msg |-> m,
                                                rules |-> link_rules[m.link]]]
    /\ UNCHANGED <<ruleVars, reorder_buffers, inbox, count, received>>

\* The next message of a flush, in the shuffled order.
apply_faults_and_deliver ==
    /\ task["flush"] = Idle
    /\ \E m \in flushing :
          /\ flushing' = flushing \ {m}
          /\ Enter("flush", m, [link_rules[m.link] EXCEPT !.reorder = FALSE])
    /\ UNCHANGED <<ruleVars, reorder_buffers, inbox, count, received>>

roll(i) == /\ task[i].step = "roll"
           /\ \/ task' = [task EXCEPT ![i] = Idle]
              \/ /\ task[i].rules.drop # "always"
                 /\ task' = [task EXCEPT ![i].step = AfterDrop(task[i].rules)]
           /\ UNCHANGED <<ruleVars, reorder_buffers, inbox, flushing, count, received>>

push(i) == /\ task[i].step = "push"
           /\ reorder_buffers' = [reorder_buffers EXCEPT ![task[i].msg.link] = @ \cup {task[i].msg}]
           /\ task' = [task EXCEPT ![i] = Idle]
           /\ UNCHANGED <<ruleVars, inbox, flushing, count, received>>

sleep(i) == /\ task[i].step = "sleep"
            /\ task' = [task EXCEPT ![i].step = "deliver"]
            /\ UNCHANGED <<ruleVars, reorder_buffers, inbox, flushing, count, received>>

\* Waits for room in the queue; an error when the receiver is gone.
deliver(i) ==
    /\ task[i].step = "deliver"
    /\ LET t == task[i].msg.link[2]
       IN  \/ /\ t \in closed
              /\ UNCHANGED inbox
           \/ /\ t \notin closed
              /\ Len(inbox[t]) < Capacity
              /\ inbox' = [inbox EXCEPT ![t] = Append(@, task[i].msg)]
    /\ task' = [task EXCEPT ![i] = Idle]
    /\ UNCHANGED <<ruleVars, reorder_buffers, flushing, count, received>>

\* Variant: the node receives only between its own sends.
RecvBetweenSends(n) ==
    /\ inbox[n] # <<>>
    /\ task[n] = Idle
    /\ received' = [received EXCEPT ![n] = Append(@, Head(inbox[n]))]
    /\ inbox' = [inbox EXCEPT ![n] = Tail(@)]
    /\ UNCHANGED <<ruleVars, reorder_buffers, task, flushing, count>>

recv(n) == /\ inbox[n] # <<>>
           /\ received' = [received EXCEPT ![n] = Append(@, Head(inbox[n]))]
           /\ inbox' = [inbox EXCEPT ![n] = Tail(@)]
           /\ UNCHANGED <<ruleVars, reorder_buffers, task, flushing, count>>

(***************************************************************************)
(* The control handle.  Each call changes the rules under the lock.        *)
(***************************************************************************)
Control == calls < MaxCalls /\ calls' = calls + 1
pathVars == <<inbox, task, count, received>>

set_drop_probability(l) ==
    /\ Control
    /\ \E p \in Drops : /\ link_rules' = [link_rules EXCEPT ![l].drop = p]
                        /\ lossy' = IF p = "never" THEN lossy ELSE lossy \cup {l}
    /\ UNCHANGED <<pathVars, partitions, reorder_buffers, closed, flushing, reordered>>

set_delay(l) ==
    /\ Control
    /\ link_rules' = [link_rules EXCEPT ![l].delay = TRUE]
    /\ UNCHANGED <<pathVars, partitions, reorder_buffers, closed, flushing, lossy, reordered>>

clear_delay(l) ==
    /\ Control
    /\ link_rules' = [link_rules EXCEPT ![l].delay = FALSE]
    /\ UNCHANGED <<pathVars, partitions, reorder_buffers, closed, flushing, lossy, reordered>>

enable_reordering(l) ==
    /\ Control
    /\ link_rules' = [link_rules EXCEPT ![l].reorder = TRUE]
    /\ reordered' = reordered \cup {l}
    /\ UNCHANGED <<pathVars, partitions, reorder_buffers, closed, flushing, lossy>>

\* No flush is under way.
NoFlush == flushing = {} /\ task["flush"] = Idle

\* The buffered messages leave the buffer and are sent from here on.
Drain(l) == /\ NoFlush
            /\ flushing' = reorder_buffers[l]
            /\ reorder_buffers' = [reorder_buffers EXCEPT ![l] = {}]

\* Variant: the buffer is copied, not drained.
FlushCopies(l) ==
    /\ Control
    /\ NoFlush
    /\ flushing' = reorder_buffers[l]
    /\ UNCHANGED <<pathVars, link_rules, partitions, reorder_buffers, closed, lossy, reordered>>

flush_reorder_buffer(l) ==
    /\ Control
    /\ Drain(l)
    /\ UNCHANGED <<pathVars, link_rules, partitions, closed, lossy, reordered>>

\* Variant: what is buffered is thrown away.
DisableDiscards(l) ==
    /\ Control
    /\ NoFlush
    /\ link_rules' = [link_rules EXCEPT ![l].reorder = FALSE]
    /\ reorder_buffers' = [reorder_buffers EXCEPT ![l] = {}]
    /\ UNCHANGED <<pathVars, flushing, partitions, closed, lossy, reordered>>

disable_reordering(l) ==
    /\ Control
    /\ link_rules' = [link_rules EXCEPT ![l].reorder = FALSE]
    /\ Drain(l)
    /\ UNCHANGED <<pathVars, partitions, closed, lossy, reordered>>

\* The links L are cut.
Cut(L) == /\ Control
          /\ partitions' = partitions \cup L
          /\ lossy' = lossy \cup L
          /\ UNCHANGED <<pathVars, link_rules, reorder_buffers, closed, flushing, reordered>>

partition(A, B) == Cut({ l \in Link : l \in A \X B \/ l \in B \X A })
partition_one_way(l) == Cut({l})

Heal(L) == /\ Control
           /\ partitions' = partitions \ L
           /\ UNCHANGED <<pathVars, link_rules, reorder_buffers, closed, flushing, lossy, reordered>>

heal_partition == Heal(Link)
heal_link(l) == Heal({l})

\* What is buffered is gone with the rules.
reset == /\ Control
         /\ link_rules' = [l \in Link |-> DefaultRules]
         /\ partitions' = {}
         /\ reorder_buffers' = [l \in Link |-> {}]
         /\ lossy' = lossy \cup { l \in Link : reorder_buffers[l] # {} }
         /\ UNCHANGED <<pathVars, closed, flushing, reordered>>

\* A node ends: its receiver is dropped with what is in its queue.
Close(n) == /\ Control
            /\ closed' = closed \cup {n}
            /\ inbox' = [inbox EXCEPT ![n] = <<>>]
            /\ lossy' = lossy \cup { l \in Link : l[2] = n }
            /\ UNCHANGED <<link_rules, partitions, reorder_buffers, task, flushing, count,
                           received, reordered>>

ControlNext ==
    \/ \E l \in Link : \/ set_drop_probability(l) \/ set_delay(l) \/ clear_delay(l)
                       \/ enable_reordering(l) \/ flush_reorder_buffer(l)
                       \/ disable_reordering(l) \/ partition_one_way(l) \/ heal_link(l)
    \/ \E A, B \in SUBSET Node : A \cap B = {} /\ A # {} /\ B # {} /\ partition(A, B)
    \/ heal_partition
    \/ reset
    \/ \E n \in Node : Close(n)

Moves(i) == roll(i) \/ push(i) \/ sleep(i) \/ deliver(i)

Next == \/ \E n \in Node : send(n) \/ recv(n)
        \/ \E i \in Task : Moves(i)
        \/ apply_faults_and_deliver
        \/ ControlNext

Spec == Init /\ [][Next]_vars

\* A task that can go on does so; a receiver is always waiting in recv.
Fairness == /\ \A i \in Task : WF_vars(Moves(i))
            /\ \A n \in Node : WF_vars(recv(n))
            /\ WF_vars(apply_faults_and_deliver)

FairSpec == Spec /\ Fairness

(***************************************************************************)
(* Properties                                                              *)
(***************************************************************************)
\* The messages a task has in hand.
InHand == { task[i].msg : i \in { j \in Task : task[j] # Idle } }

\* Every variable has its type, and a queue never holds more than its capacity.
TypeOK == /\ link_rules \in [Link -> [drop : Drops, delay : BOOLEAN, reorder : BOOLEAN]]
          /\ partitions \subseteq Link
          /\ reorder_buffers \in [Link -> SUBSET Message]
          /\ \A n \in Node : inbox[n] \in BoundedSeq(Message, Capacity)
          /\ flushing \subseteq Message /\ InHand \subseteq Message

\* How often a message is somewhere between its send and its receiver.
Copies(m) ==
    Cardinality({ i \in Task : task[i] # Idle /\ task[i].msg = m })
    + Cardinality({ l \in Link : m \in reorder_buffers[l] })
    + Cardinality({ x \in {m} : x \in flushing })
    + Cardinality(UNION { { <<n, k>> : k \in { j \in DOMAIN inbox[n] : inbox[n][j] = m } } :
                             n \in Node })
    + Cardinality(UNION { { <<n, k>> : k \in { j \in DOMAIN received[n] : received[n][j] = m } } :
                             n \in Node })

\* No message is ever delivered twice, whatever is flushed, reset or disabled
\* while it is on its way (simulator.rs:181-221).
\* The type invariant, with the bound of the queues, is its first part.
AtMostOnce == TypeOK /\ \A m \in Message : Copies(m) <= 1

\* A message that was sent is on its way or received, unless its link was cut,
\* told to drop, or reset with messages in its buffer, or the receiver ended:
\* delays, reordering and a full queue lose nothing (simulator.rs:340-409).
LossNeedsFault ==
    \A m \in Message : m.num <= count[m.link] /\ m.link \notin lossy => Copies(m) = 1

\* Messages of one node to another arrive in the order they were sent unless
\* reordering was enabled on the link: changing delays and drops never makes
\* one overtake another (simulator.rs:353-394).
InOrder ==
    \A n \in Node : \A j, k \in DOMAIN received[n] :
        /\ j < k
        /\ received[n][j].link = received[n][k].link
        /\ received[n][j].link \notin reordered
        => received[n][j].num < received[n][k].num

\* Once a link is cut and the messages already past the check have landed,
\* nothing more gets onto it until it is healed, from a send or from a flush
\* (simulator.rs:279-291, 342-358).
OnTheirWay(l) == { i \in Task : task[i] # Idle /\ task[i].msg.link = l }
PartitionSeals ==
    [][ \A l \in partitions \cap partitions' : OnTheirWay(l) = {} => OnTheirWay(l)' = {} ]_vars

\* Every send and every flush returns: although queues are bounded and every
\* node may be sending to a full one, no two wait for each other, because a
\* receiver never waits for its own node's sends (channel.rs:107-137).
CallsReturn == /\ \A n \in Node : task[n] # Idle ~> task[n] = Idle
               /\ ~ NoFlush ~> NoFlush
=============================================================================
