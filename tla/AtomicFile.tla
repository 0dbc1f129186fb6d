----------------------------- MODULE AtomicFile -----------------------------
(***************************************************************************)
(* A small file that is replaced as a whole: written beside itself, synced *)
(* and renamed, under a lock that is held from the first step to the last. *)
(* QuorumStateFile::save (xraft-storage/src/quorum_state_file.rs) and      *)
(* LeaderEpochCheckpoint::persist (leader_epoch_checkpoint.rs) both work   *)
(* this way.  A temporary file left behind is never read and is truncated  *)
(* by the next write, so it is part of the state only while it is written. *)
(*                                                                         *)
(* What was written and not synced may be lost or torn by a stop; a rename *)
(* is taken to be atomic and to last, as the code does.                    *)
(***************************************************************************)
CONSTANTS Value,     \* what the file may be asked to hold
          Absent,    \* there is no file
          Torn       \* bytes that do not parse

VARIABLES file,      \* [data, synced]
          writing    \* [step, temp]: the write under way and its temporary file

Content(v, s) == [data |-> v, synced |-> s]
NoFile == Content(Absent, TRUE)
Idle == [step |-> "idle", value |-> Absent, temp |-> NoFile]

Init == file = NoFile /\ writing = Idle

\* The lock is taken, the value serialised.
Begin(v) == /\ writing = Idle
            /\ writing' = [step |-> "write", value |-> v, temp |-> NoFile]
            /\ UNCHANGED file

At(step) == writing.step = step

\* Variant: the bytes go to the file itself.
WriteInPlace ==
    /\ At("write")
    /\ writing' = [writing EXCEPT !.step = "sync", !.temp = Content(writing.value, FALSE)]
    /\ file' = Content(writing.value, FALSE)

write_temp == /\ At("write")
              /\ writing' = [writing EXCEPT !.step = "sync",
                                            !.temp = Content(writing.value, FALSE)]
              /\ UNCHANGED file

sync_all == /\ At("sync")
            /\ writing' = [writing EXCEPT !.step = "rename", !.temp.synced = TRUE]
            /\ UNCHANGED file

rename == /\ At("rename")
          /\ file' = writing.temp
          /\ writing' = [writing EXCEPT !.step = "return", !.temp = NoFile]

\* Ok(()), and the lock is given back.
ReturnOk == /\ At("return")
            /\ writing' = Idle
            /\ UNCHANGED file

\* Variant: an error is returned of a rename that took effect.
ErrAfterRename == /\ writing.step \in {"write", "sync", "rename"}
                  /\ writing' = Idle
                  /\ file' = IF At("rename") THEN writing.temp ELSE file

\* One of the three calls fails and the error is passed on.
ReturnErr == /\ writing.step \in {"write", "sync", "rename"}
             /\ writing' = Idle
             /\ UNCHANGED file

Steps == write_temp \/ sync_all \/ rename

\* The process, or the machine, stops.
Stop == /\ writing' = Idle
        /\ file' \in IF file.synced THEN {file}
                     ELSE {NoFile, Content(Torn, TRUE), Content(file.data, TRUE)}

Next == \/ \E v \in Value : Begin(v)
        \/ Steps
        \/ ReturnOk
        \/ ReturnErr
        \/ Stop

vars == <<file, writing>>

Spec == Init /\ [][Next]_vars

\* The save under way, as its caller sees it: it takes effect at the rename.
Call == [stage |-> CASE writing.step = "idle" -> "none"
                     [] writing.step = "return" -> "taken"
                     [] OTHER -> "running",
         value |-> writing.value]

R == INSTANCE Register WITH value <- file.data, call <- Call

\* Whatever fails and wherever the process stops, the file holds the value of
\* the last save that took effect, never a part of one, and changes only at one
\* moment of a save (quorum_state_file.rs:47-79).
Implements == R!Spec

Contents == [data : Value \cup {Absent, Torn}, synced : BOOLEAN]

\* What makes it so: the file is always synced and whole, what is renamed is the
\* whole value, synced before, and the file holds the value of a save by the
\* time that save can return Ok.
FileInv == /\ file \in Contents
           /\ file.data \in Value \cup {Absent}
           /\ writing \in [step : {"idle", "write", "sync", "rename", "return"},
                           value : Value \cup {Absent}, temp : Contents]
           /\ file.synced = TRUE
           /\ writing.step = "idle" => writing = Idle
           /\ writing.step \in {"sync", "rename"} => writing.temp.data = writing.value
           /\ writing.step = "rename" => writing.temp.synced = TRUE
           /\ writing.step = "return" => file.data = writing.value
=============================================================================
