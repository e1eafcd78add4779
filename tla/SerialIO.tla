------------------------------- MODULE SerialIO -------------------------------
(***************************************************************************)
(* The serial path of 6502-Term: the two byte queues of ByteQueue and the  *)
(* three threads that use them.                                            *)
(*                                                                         *)
(*   input thread   edits input_buffer (INPUT_MAX_LINES lines of          *)
(*                  INPUT_MAX_COLS characters) with printable keys and     *)
(*                  backspace; Enter (main.c 540-578) enqueues its lines   *)
(*                  and "\r\n" on cpu->input_queue one byte at a time;     *)
(*                  F3's load_binary clears cpu->output_queue (284).        *)
(*   emulation      a read of 0xD011 dequeues input_queue (cpu_read); a    *)
(*   thread         write of 0xD012 (cpu_write) or 0x6000 enqueues a byte  *)
(*                  on output_queue, and 0x6001 / 0x6002 enqueue a status  *)
(*                  message one byte at a time (monitored_ram_write).      *)
(*   output thread  dequeues output_queue and prints (main.c 690-736).     *)
(*   render thread  every 100 ms print_cpu_state shows the "I/O In" port  *)
(*                  with cpu_read(cpu, INPUT_ADDR) (main.c 381), which    *)
(*                  dequeues input_queue like the program's own read.     *)
(*                                                                         *)
(* Every queue function holds the queue's mutex for its whole body, so     *)
(* each is one step, and the loops that call it are sequences of steps     *)
(* another thread can fall between.  A byte is abstracted to an id: the    *)
(* ids are handed out in the order the bytes are produced, and 0 is the    *)
(* value cpu_read returns on an empty queue, and the '\0' of a C string.  *)
(* The input buffer is kept as the char arrays it is, so strlen stops at  *)
(* the first 0.  A status message is only its length.                    *)
(***************************************************************************)
EXTENDS Naturals, Sequences, SequencesExt

CONSTANTS
  QueueSize,     \* QUEUE_SIZE
  MaxLines,      \* INPUT_MAX_LINES
  MaxCols,       \* INPUT_MAX_COLS
  MessageLengths,\* lengths of the status messages of 0x6001 / 0x6002
  MaxId          \* bound on the bytes produced in a behaviour

ASSUME MaxLines \in Nat \ {0} /\ MaxCols \in Nat \ {0}
ASSUME MessageLengths \subseteq Nat \ {0}

Ids == 1 .. MaxId
Lines == 0 .. MaxLines - 1
Cols == 0 .. MaxCols          \* char input_buffer[..][INPUT_MAX_COLS + 1]

\* strlen, and the string it measures.
StrLen(a) == CHOOSE k \in Cols : a[k] = 0 /\ \A j \in 0 .. k - 1 : a[j] # 0
Str(a) == [i \in 1 .. StrLen(a) |-> a[i - 1]]
EmptyLine == [k \in Cols |-> 0]

VARIABLES
  buf,          \* input_buffer
  line,         \* current_line
  col,          \* current_col
  ix, iy,       \* input_x, input_y: the cursor in the input window
  inQ,          \* cpu->input_queue
  outQ,         \* cpu->output_queue
  inPending,    \* bytes of the current Enter the input thread has still to enqueue
  cpuPending,   \* bytes of the current status message still to enqueue
  nextId,       \* the id the next produced byte gets
  accepted,     \* ghost: bytes input_queue accepted, in order
  read,         \* ghost: bytes the program got from 0xD011
  shown,        \* ghost: bytes print_cpu_state took from 0xD011
  consumed,     \* ghost: bytes dequeued from input_queue, by either reader
  outAccepted,  \* ghost: bytes output_queue accepted, in order
  discarded,    \* ghost: bytes queue_clear threw away
  printed       \* ghost: bytes the output thread printed

\* The queue functions, applied to either queue; Q also states the queue
\* invariants of input_queue, QOut those of output_queue.
Q == INSTANCE ByteQueue WITH Bytes <- 0 .. MaxId, queue <- inQ
QOut == INSTANCE ByteQueue WITH Bytes <- 0 .. MaxId, queue <- outQ

editVars == <<buf, line, col, ix, iy>>
readVars == <<read, shown, consumed>>
vars == <<editVars, inQ, outQ, inPending, cpuPending, nextId, accepted,
          readVars, outAccepted, discarded, printed>>

\* The ids of the next n bytes.
Fresh(n) == [i \in 1 .. n |-> nextId + i - 1]

\* One queue_enqueue whose result the caller ignores: the ghost history
\* records the byte only if the queue took it.
Offer(q, b, hist) ==
  /\ hist' = IF Q!EnqueueOk(q) THEN Append(hist, b) ELSE hist

TypeOK ==
  /\ buf \in [Lines -> [Cols -> 0 .. MaxId]]
  /\ line \in Lines /\ col \in Cols
  /\ ix \in 1 .. MaxCols + 1 /\ iy \in 1 .. MaxLines
  /\ inQ \in Q!Queues /\ outQ \in Q!Queues
  /\ inPending \in Seq(Ids) /\ cpuPending \in Seq(Ids)
  /\ nextId \in 1 .. MaxId + 1
  /\ discarded \subseteq Ids

\* queue_init on both queues; the slots are taken as zeroed (the ByteQueue
\* run shows that no slot is read before it is written).
Init ==
  /\ buf = [l \in Lines |-> EmptyLine]
  /\ line = 0 /\ col = 0 /\ ix = 1 /\ iy = 1
  /\ inQ = [data |-> [s \in Q!Slots |-> 0], head |-> 0, tail |-> 0, count |-> 0]
  /\ outQ = inQ
  /\ inPending = <<>> /\ cpuPending = <<>>
  /\ nextId = 1
  /\ accepted = <<>> /\ read = <<>> /\ shown = <<>> /\ consumed = <<>>
  /\ outAccepted = <<>>
  /\ discarded = {} /\ printed = <<>>

-----------------------------------------------------------------------------
(* The input thread.                                                       *)

\* A key is read only when the thread is not inside an Enter loop.
Idle == inPending = <<>>

\* A printable key with room on the line: input_buffer[line][col++] = ch,
\* then input_buffer[line][col] = '\0'.  The key is the next id.
TypeOnLine ==
  /\ Idle /\ nextId <= MaxId
  /\ col < MaxCols
  /\ buf' = [buf EXCEPT ![line][col] = nextId, ![line][col + 1] = 0]
  /\ col' = col + 1 /\ ix' = ix + 1
  /\ nextId' = nextId + 1
  /\ UNCHANGED <<line, iy, inQ, outQ, inPending, cpuPending, accepted, readVars,
                 outAccepted, discarded, printed>>

\* A printable key on a full line that is not the last: the key starts the
\* next line.
TypeWrap ==
  /\ Idle /\ nextId <= MaxId
  /\ col >= MaxCols /\ line < MaxLines - 1
  /\ buf' = [buf EXCEPT ![line + 1][0] = nextId, ![line + 1][1] = 0]
  /\ line' = line + 1 /\ col' = 1
  /\ iy' = iy + 1 /\ ix' = 2
  /\ nextId' = nextId + 1
  /\ UNCHANGED <<inQ, outQ, inPending, cpuPending, accepted, readVars,
                 outAccepted, discarded, printed>>

\* A printable key on the full last line: every line is strcpy'd one up
\* (the bytes after the copied '\0' stay), the last line is zeroed, the
\* cursor goes to its start, and the key itself is not stored.
TypeScroll ==
  /\ Idle /\ nextId <= MaxId
  /\ col >= MaxCols /\ line = MaxLines - 1
  /\ LET up(l) == IF l = MaxLines - 1 THEN EmptyLine
                  ELSE [k \in Cols |-> IF k <= StrLen(buf[l + 1]) THEN buf[l + 1][k]
                                       ELSE buf[l][k]]
     IN buf' = [l \in Lines |-> up(l)]
  /\ col' = 0 /\ line' = MaxLines - 1 /\ ix' = 1
  /\ nextId' = nextId + 1
  /\ UNCHANGED <<iy, inQ, outQ, inPending, cpuPending, accepted, readVars,
                 outAccepted, discarded, printed>>

\* A mutant of BackspaceChar: the character is left in the buffer.
BackspaceCharKeep ==
  /\ Idle /\ col > 0
  /\ col' = col - 1 /\ ix' = ix - 1
  /\ UNCHANGED <<buf, line, iy, inQ, outQ, inPending, cpuPending, nextId,
                 accepted, readVars, outAccepted, discarded, printed>>

\* Backspace within a line: current_col--, input_x--, and the character
\* is overwritten by '\0'.
BackspaceChar ==
  /\ Idle /\ col > 0
  /\ buf' = [buf EXCEPT ![line][col - 1] = 0]
  /\ col' = col - 1 /\ ix' = ix - 1
  /\ UNCHANGED <<line, iy, inQ, outQ, inPending, cpuPending, nextId,
                 accepted, readVars, outAccepted, discarded, printed>>

\* Backspace at the start of a line after the first: back to the end of
\* the previous line.
BackspaceLine ==
  /\ Idle /\ col = 0 /\ line > 0
  /\ line' = line - 1
  /\ col' = StrLen(buf[line - 1])
  /\ iy' = iy - 1 /\ ix' = StrLen(buf[line - 1]) + 1
  /\ UNCHANGED <<buf, inQ, outQ, inPending, cpuPending, nextId, accepted,
                 readVars, outAccepted, discarded, printed>>

\* Enter: the strings of lines 0 .. current_line with '\n' between them,
\* then '\r', '\n' (fresh ids), to be enqueued one by one; the buffer and
\* the cursor are cleared.
Enter ==
  /\ Idle
  /\ nextId + line + 2 <= MaxId + 1
  /\ LET sep(i) == IF i < line THEN <<nextId + i>> ELSE <<>>
         text == FlattenSeq([i \in 1 .. line + 1 |-> Str(buf[i - 1]) \o sep(i - 1)])
     IN inPending' = text \o <<nextId + line, nextId + line + 1>>
  /\ nextId' = nextId + line + 2
  /\ buf' = [l \in Lines |-> EmptyLine]
  /\ line' = 0 /\ col' = 0 /\ ix' = 1 /\ iy' = 1
  /\ UNCHANGED <<inQ, outQ, cpuPending, accepted, readVars, outAccepted,
                 discarded, printed>>

\* One queue_enqueue(&cpu->input_queue, ...) of the Enter loops.
InputSend ==
  /\ inPending # <<>>
  /\ inQ' = Q!Enqueue(inQ, Head(inPending))
  /\ Offer(inQ, Head(inPending), accepted)
  /\ inPending' = Tail(inPending)
  /\ UNCHANGED <<editVars, outQ, cpuPending, nextId, readVars, outAccepted, discarded, printed>>

\* load_binary's queue_clear(&cpu->output_queue), from F3.
LoadClear ==
  /\ inPending = <<>>
  /\ outQ' = Q!Clear(outQ)
  /\ discarded' = discarded \cup ToSet(Q!Contents(outQ))
  /\ UNCHANGED <<editVars, inQ, inPending, cpuPending, nextId, accepted, readVars, outAccepted, printed>>

-----------------------------------------------------------------------------
(* The emulation thread.  While it enqueues a status message it runs no   *)
(* other instruction.                                                      *)

\* A mutant of CpuRead: the byte is returned but not dequeued.
CpuReadPeek ==
  /\ cpuPending = <<>>
  /\ Q!DequeueOk(inQ)
  /\ read' = Append(read, Q!Oldest(inQ))
  /\ consumed' = Append(consumed, Q!Oldest(inQ))
  /\ UNCHANGED <<editVars, inQ, outQ, inPending, cpuPending, nextId, accepted,
                 shown, outAccepted, discarded, printed>>

\* cpu_read(0xD011): the oldest input byte, dequeued under
\* input_queue_mutex.  On an empty queue it reads 0x00 and changes nothing.
CpuRead ==
  /\ cpuPending = <<>>
  /\ Q!DequeueOk(inQ)
  /\ read' = Append(read, Q!Oldest(inQ))
  /\ consumed' = Append(consumed, Q!Oldest(inQ))
  /\ inQ' = Q!Dequeue(inQ)
  /\ UNCHANGED <<editVars, outQ, inPending, cpuPending, nextId, accepted,
                 shown, outAccepted, discarded, printed>>

\* cpu_write(0xD012) and monitored_ram_write(0x6000): one queue_enqueue.
CpuWrite ==
  /\ cpuPending = <<>>
  /\ nextId <= MaxId
  /\ outQ' = Q!Enqueue(outQ, nextId)
  /\ Offer(outQ, nextId, outAccepted)
  /\ nextId' = nextId + 1
  /\ UNCHANGED <<editVars, inQ, inPending, cpuPending, accepted, readVars, discarded, printed>>

\* monitored_ram_write(0x6001 or 0x6002): the message is chosen (PASSED or
\* FAILED) and enqueued byte by byte.
StatusWrite(len) ==
  /\ cpuPending = <<>>
  /\ nextId + len <= MaxId + 1
  /\ cpuPending' = Fresh(len)
  /\ nextId' = nextId + len
  /\ UNCHANGED <<editVars, inQ, outQ, inPending, accepted, readVars, outAccepted, discarded, printed>>

MessageSend ==
  /\ cpuPending # <<>>
  /\ outQ' = Q!Enqueue(outQ, Head(cpuPending))
  /\ Offer(outQ, Head(cpuPending), outAccepted)
  /\ cpuPending' = Tail(cpuPending)
  /\ UNCHANGED <<editVars, inQ, inPending, nextId, accepted, readVars, discarded, printed>>

-----------------------------------------------------------------------------
(* The output thread.                                                      *)

\* One pass of the inner loop: queue_dequeue succeeds and the byte is
\* printed (the curses calls under `lock` are left out).
OutputPrint ==
  /\ Q!DequeueOk(outQ)
  /\ printed' = Append(printed, Q!Oldest(outQ))
  /\ outQ' = Q!Dequeue(outQ)
  /\ UNCHANGED <<editVars, inQ, inPending, cpuPending, nextId, accepted, readVars, outAccepted, discarded>>

-----------------------------------------------------------------------------
(* The render thread.                                                      *)

\* print_cpu_state's cpu_read(cpu, INPUT_ADDR) for the "I/O In" field: the
\* same dequeue as the program's read, on a thread of its own that runs
\* every 100 ms whether the emulator is paused or not.
RenderRead ==
  /\ Q!DequeueOk(inQ)
  /\ shown' = Append(shown, Q!Oldest(inQ))
  /\ consumed' = Append(consumed, Q!Oldest(inQ))
  /\ inQ' = Q!Dequeue(inQ)
  /\ UNCHANGED <<editVars, outQ, inPending, cpuPending, nextId, accepted,
                 read, outAccepted, discarded, printed>>

Edit == TypeOnLine \/ TypeWrap \/ TypeScroll \/ BackspaceChar \/ BackspaceLine
InputThread == Edit \/ Enter \/ InputSend \/ LoadClear
Emulation == CpuRead \/ CpuWrite \/ (\E n \in MessageLengths : StatusWrite(n)) \/ MessageSend

Next == InputThread \/ Emulation \/ OutputPrint \/ RenderRead

\* The output thread polls its queue every 10 ms for as long as the
\* program runs, and the input thread finishes a started Enter.
Fairness == WF_vars(OutputPrint) /\ WF_vars(InputSend)

Spec == Init /\ [][Next]_vars /\ Fairness

-----------------------------------------------------------------------------
(***************************************************************************)
(* Every byte input_queue accepted from the input thread is read by the   *)
(* program through 0xD011 exactly once and in the order it was typed:     *)
(* what has been read followed by what is still queued is exactly what   *)
(* was accepted (the spec's serial echo scenario: a guest reading 0xD011  *)
(* gets the queued keys in order).  The render thread's read of the same  *)
(* port (main.c 381) takes bytes the program never sees.                  *)
(***************************************************************************)
InputDelivered == read \o Q!Contents(inQ) = accepted

(***************************************************************************)
(* The two readers of input_queue, the program's cpu_read and             *)
(* print_cpu_state's, take every accepted byte exactly once and in typed  *)
(* order between them: what was dequeued, by either, followed by what is  *)
(* still queued is what was accepted.  The Enter loop, the emulation      *)
(* thread and the render thread interleave byte by byte around the mutex. *)
(***************************************************************************)
InputConsumedInOrder == consumed \o Q!Contents(inQ) = accepted

(***************************************************************************)
(* Every byte output_queue accepted from the program (0xD012, 0x6000 and  *)
(* the status messages) is printed exactly once and in program order,    *)
(* unless F3's queue_clear discarded it while queued: what has been       *)
(* printed followed by what is still queued is what was accepted, less   *)
(* the discarded bytes.                                                  *)
(***************************************************************************)
OutputDelivered ==
  printed \o Q!Contents(outQ) = SelectSeq(outAccepted, LAMBDA b : b \notin discarded)

(***************************************************************************)
(* The output thread drains the queue: every byte output_queue accepted   *)
(* is eventually printed or discarded by F3.                              *)
(***************************************************************************)
OutputDrains ==
  \A b \in Ids : (b \in ToSet(outAccepted)) ~> (b \in ToSet(printed) \cup discarded)

(***************************************************************************)
(* The ring indices of both queues agree with their counts through every *)
(* interleaving of the three threads' enqueues, dequeues and F3's clear,  *)
(* including wraps and the full and empty edges (ByteQueue.tla).          *)
(***************************************************************************)
QueueIndicesAgree == Q!IndicesAgree /\ QOut!IndicesAgree

(***************************************************************************)
(* Each ring buffer, as the threads use it, implements the bounded FIFO   *)
(* of Fifo.tla under fifo <- Contents(queue).                             *)
(***************************************************************************)
QueuesImplementFifo == Q!ImplementsFifo /\ QOut!ImplementsFifo

(***************************************************************************)
(* The line editor's cursor agrees with its buffer after any sequence of  *)
(* keys: current_col is the strlen of the current line and the window     *)
(* cursor is one right of it, every earlier line is full and every later  *)
(* line is empty, so Enter sends exactly what the window shows.           *)
(***************************************************************************)
CursorMatchesBuffer ==
  /\ col = StrLen(buf[line])
  /\ ix = col + 1 /\ iy = line + 1
  /\ \A l \in Lines : l < line => StrLen(buf[l]) = MaxCols
  /\ \A l \in Lines : l > line => StrLen(buf[l]) = 0
=============================================================================
