------------------------------- MODULE Outbox -------------------------------
(***************************************************************************)
(* What the store-and-forward path promises, one box per kind of data and  *)
(* persistence key: items leave a box from the front only, sent or dropped *)
(* whole batches at a time; a slot forgets its item when a newer one       *)
(* arrives; and the one way an item comes back is that the process stopped *)
(* right after it was sent: at-least-once, in order, nothing made up.      *)
(***************************************************************************)
EXTENDS Naturals, Sequences

CONSTANTS ListBoxes,   \* boxes that queue
          SlotBoxes,   \* boxes that keep the latest item only
          Items,       \* what is put into a box
          MaxBatch     \* how many items leave a box at a time

Boxes == ListBoxes \cup SlotBoxes

VARIABLES queue,   \* per box: accepted and not yet sent or dropped
          sent     \* per box: everything sent, in order

vars == <<queue, sent>>

Init ==
  /\ queue = [box \in Boxes |-> <<>>]
  /\ sent = [box \in Boxes |-> <<>>]

Accept(box) ==
  /\ \E item \in Items :
       queue' = [queue EXCEPT ![box] =
                   IF box \in ListBoxes THEN Append(@, item) ELSE <<item>>]
  /\ UNCHANGED sent

TakeFront(box, m) ==
  /\ m <= Len(queue[box])
  /\ queue' = [queue EXCEPT ![box] = SubSeq(@, m + 1, Len(@))]

Send(box) ==
  \E m \in 1 .. MaxBatch :
    /\ TakeFront(box, m)
    /\ sent' = [sent EXCEPT ![box] = @ \o SubSeq(queue[box], 1, m)]

Drop(box) ==
  \E m \in 1 .. MaxBatch : TakeFront(box, m) /\ UNCHANGED sent

(* A stop between the sending and the forgetting of a batch.               *)
Requeue(box) ==
  \E m \in 1 .. MaxBatch :
    /\ m <= Len(sent[box])
    /\ queue' = [queue EXCEPT ![box] =
                   SubSeq(sent[box], Len(sent[box]) - m + 1, Len(sent[box])) \o @]
    /\ UNCHANGED sent

(* Every step but a stutter changes the queue of one box.                   *)
Next ==
  \E box \in Boxes :
    /\ queue'[box] # queue[box]
    /\ Accept(box) \/ Send(box) \/ Drop(box) \/ Requeue(box)

Spec == Init /\ [][Next]_vars

=============================================================================
