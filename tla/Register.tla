------------------------------ MODULE Register ------------------------------
(***************************************************************************)
(* What a caller of QuorumStateStore::save (core traits.rs:33-41)          *)
(* relies on: one value that survives stops.  A call takes effect at one   *)
(* moment while it runs and nothing else changes the value.  How the call  *)
(* ended is not part of this contract: that Ok means durable ("Must fsync  *)
(* before returning Ok") is AckedIsLoaded of StorageEngine.                *)
(***************************************************************************)
CONSTANTS Value, Absent

VARIABLES value,     \* what load() returns after the next start
          call       \* the save under way and its value: none, running, taken

Calls(stage, v) == [stage |-> stage, value |-> v]

Init == value = Absent /\ call = Calls("none", Absent)

Start == /\ call.stage = "none"
         /\ \E v \in Value : call' = Calls("running", v)
         /\ UNCHANGED value

Take == /\ call.stage = "running"
        /\ call' = Calls("taken", call.value)
        /\ value' = call.value

\* The call ends, with Ok, with an error or with the process.  The value stays
\* what it is.
Return == /\ call.stage # "none"
          /\ call' = Calls("none", Absent)
          /\ UNCHANGED value

Next == Start \/ Take \/ Return

Spec == Init /\ [][Next]_<<value, call>>
=============================================================================
