-------------------------- MODULE MCSnapshotStore ---------------------------
(* Snapshots whose size is zero, no multiple and a multiple of the chunk    *)
(* size, two of them of one term.                                           *)
EXTENDS SnapshotStore

MCIds == {<<1, 2>>, <<1, 3>>, <<2, 4>>}
MCSize == [id \in MCIds |-> CASE id = <<1, 2>> -> 0 [] id = <<1, 3>> -> 3 [] OTHER -> 4]
=============================================================================
