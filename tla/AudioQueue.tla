----------------------------- MODULE AudioQueue -----------------------------
(***************************************************************************)
(* What the ring between the sound mixer and the audio callback promises:  *)
(* a bounded queue.  A sample is offered and kept, or lost whole when the  *)
(* queue is full; samples leave in the order they came, each one once; a   *)
(* saved queue comes back as it was when the state was saved.  SpuRing is  *)
(* shown to implement it.                                                  *)
(***************************************************************************)
EXTENDS Naturals, Sequences

CONSTANTS Capacity, Numbers

VARIABLES queue, saved, heard

queue_vars == <<queue, saved, heard>>

Whole(n) == [left |-> n, right |-> n]

QueueInit == queue = <<>> /\ saved = <<>> /\ heard = Whole(0)

Keep(n) == /\ Len(queue) < Capacity
           /\ queue' = Append(queue, Whole(n)) /\ UNCHANGED <<saved, heard>>
Take == /\ queue # <<>>
        /\ heard' = Head(queue) /\ queue' = Tail(queue) /\ UNCHANGED saved
Save == saved' = queue /\ UNCHANGED <<queue, heard>>
Restore == queue' = saved /\ UNCHANGED <<saved, heard>>

QueueNext == (\E n \in Numbers : Keep(n)) \/ Take \/ Save \/ Restore
QueueSpec == QueueInit /\ [][QueueNext]_queue_vars
=============================================================================
