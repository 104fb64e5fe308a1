------------------------------ MODULE SendList ------------------------------
(***************************************************************************)
(* What message_keep.c promises its callers: a first-in first-out list of  *)
(* sent messages, to which a message is added at the end and from which    *)
(* one message at a time is taken, the others keeping their order.         *)
(***************************************************************************)
EXTENDS Naturals, Sequences, SequencesExt

CONSTANT Ids

VARIABLE kept

Keep(id) == kept' = Append(kept, id)

Take(i) == kept' = RemoveAt(kept, i)

Init == kept = <<>>

Next == (\E id \in Ids : Keep(id)) \/ (\E i \in DOMAIN kept : Take(i))

Spec == Init /\ [][Next]_kept
=============================================================================
