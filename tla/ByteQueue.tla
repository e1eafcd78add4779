------------------------------ MODULE ByteQueue ------------------------------
(***************************************************************************)
(* The ring-buffer byte queue of src/queue.h and the queue functions at    *)
(* the end of src/memory.c (queue_init, queue_enqueue, queue_dequeue,      *)
(* queue_clear).  Every function holds q->mutex for its whole body, so     *)
(* each one is a single atomic step here.                                  *)
(*                                                                         *)
(* The operations are operators on a queue record so that the modules     *)
(* that own queues (the CPU's input and output queues) can apply them;     *)
(* the variable `queue` and the actions below exercise one queue alone.    *)
(***************************************************************************)
EXTENDS Naturals, Sequences

CONSTANTS
  QueueSize,   \* QUEUE_SIZE (1024 in the code)
  Bytes        \* the byte values the model distinguishes

ASSUME QueueSize \in Nat \ {0} /\ Bytes # {}

Slots == 0 .. QueueSize - 1

\* queue_t without its mutex.
Queues == [data : [Slots -> Bytes], head : Slots, tail : Slots,
           count : 0 .. QueueSize]

\* queue_init: the indices are zeroed, data[] keeps whatever the allocation
\* held (the queue lives inside a malloc'd cpu_6502_t).
InitQueues == {q \in Queues : q.head = 0 /\ q.tail = 0 /\ q.count = 0}

\* queue_enqueue's return value: false iff count == QUEUE_SIZE.
EnqueueOk(q) == q.count # QueueSize

\* A mutant of Enqueue: the full check is dropped.
EnqueueNoFullCheck(q, b) ==
  [q EXCEPT !.data[q.tail] = b, !.tail = (q.tail + 1) % QueueSize,
            !.count = @ + 1]

\* queue_enqueue: a full queue rejects the byte and is unchanged.
Enqueue(q, b) ==
  IF q.count = QueueSize THEN q
  ELSE [q EXCEPT !.data[q.tail] = b,
                 !.tail = (q.tail + 1) % QueueSize,
                 !.count = @ + 1]

\* A mutant of DequeueOk: the emptiness test is off by one.
DequeueOkOffByOne(q) == q.count > 1

\* queue_dequeue's return value and the byte it stores through *byte.
DequeueOk(q) == q.count # 0
Oldest(q) == q.data[q.head]

\* A mutant of Dequeue: count is decremented but head is not advanced.
DequeueNoAdvance(q) ==
  IF q.count = 0 THEN q ELSE [q EXCEPT !.count = @ - 1]

\* queue_dequeue: an empty queue is unchanged.
Dequeue(q) ==
  IF q.count = 0 THEN q
  ELSE [q EXCEPT !.head = (q.head + 1) % QueueSize, !.count = @ - 1]

\* A mutant of Clear: tail is left where it was.
ClearKeepTail(q) == [q EXCEPT !.head = 0, !.count = 0]

\* queue_clear.
Clear(q) == [q EXCEPT !.head = 0, !.tail = 0, !.count = 0]

\* The bytes a queue holds, oldest first.
Contents(q) == [i \in 1 .. q.count |-> q.data[(q.head + i - 1) % QueueSize]]

-----------------------------------------------------------------------------
VARIABLE queue

Init == queue \in InitQueues

QueueEnqueue(b) == queue' = Enqueue(queue, b)
QueueDequeue == queue' = Dequeue(queue)
QueueClear == queue' = Clear(queue)

Next == (\E b \in Bytes : QueueEnqueue(b)) \/ QueueDequeue \/ QueueClear

Spec == Init /\ [][Next]_queue

-----------------------------------------------------------------------------
TypeOK == queue \in Queues

(***************************************************************************)
(* The ring indices agree with the count: the next free slot is count      *)
(* slots past the oldest one.  queue_enqueue writes at tail and            *)
(* queue_dequeue reads at head, so a clear, a wrap or a full/empty edge    *)
(* that moves one index without the other makes the queue hand out stale   *)
(* slots or overwrite live ones.                                           *)
(***************************************************************************)
IndicesAgree == queue.tail = (queue.head + queue.count) % QueueSize

(***************************************************************************)
(* The ring buffer implements the abstract bounded FIFO of Fifo.tla: under *)
(* the mapping fifo <- Contents(queue), every queue_enqueue,               *)
(* queue_dequeue and queue_clear is a Put, Take or Flush (or leaves the    *)
(* contents alone), so bytes come out in the order they went in, none is   *)
(* duplicated, and one is lost only when the queue was full.               *)
(***************************************************************************)
Abstract == INSTANCE Fifo WITH Capacity <- QueueSize, fifo <- Contents(queue)

ImplementsFifo == Abstract!Spec
=============================================================================
