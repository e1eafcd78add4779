-------------------------------- MODULE Fifo --------------------------------
(***************************************************************************)
(* What the byte queue promises its callers (spec section 4.A): a bounded  *)
(* first-in first-out sequence of bytes.  An enqueue on a full queue       *)
(* rejects the byte and leaves the queue as it was; a dequeue on an empty  *)
(* queue returns nothing; clear empties it.  No operation blocks.          *)
(***************************************************************************)
EXTENDS Naturals, Sequences

CONSTANTS Capacity, Bytes

VARIABLE fifo

Init == fifo = <<>>

\* A byte is accepted iff there is room; a full queue drops it.
Put(b) == fifo' = IF Len(fifo) < Capacity THEN Append(fifo, b) ELSE fifo

\* The oldest byte leaves first; an empty queue is left alone.
Take == fifo' = IF fifo = <<>> THEN fifo ELSE Tail(fifo)

Flush == fifo' = <<>>

Next == (\E b \in Bytes : Put(b)) \/ Take \/ Flush

Spec == Init /\ [][Next]_fifo
=============================================================================
