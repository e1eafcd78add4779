# TLA+ models of 6502-Term

This directory holds TLA+ specifications of the 6502-Term emulator
(`src/`), the TLC configurations that check them, and `PROJECT.json`. That
file lists the components, the runs, the mutants, the map from each
definition to the source lines it models, the findings and the hazards.

## The system and how its parts interact

6502-Term runs a 6502 program inside a curses terminal. `main()` starts
several threads that share one `cpu_6502_t`:

| thread (src/main.c) | what it does to shared state |
|---|---|
| `emulator_loop` (845) | handles `emulator_reset` by calling `load_binary`, then calls `cpu_execute_instruction` while `!emulator_paused \|\| (step_mode && step_instruction)`, then clears `step_instruction` |
| `serial_input_thread` (468) | handles the keys: F2 toggles pause, F3 loads a binary (`prompt_load_binary` → `load_binary` under `lock`), F5 requests a reset, F6 sets PC (`prompt_set_pc`, under `lock`), F7 requests a single step, F10 exits; printable keys and backspace edit a 3-line input buffer, Enter enqueues it into `input_queue` |
| `serial_output_thread` (690) | dequeues `output_queue` and prints it |
| `inject_IRQ_thread` / `inject_NMI_thread` (755/784) | sleep, then call `cpu_inject_IRQ` / `cpu_inject_NMI` once |
| `render_interface` (803) | every 100 ms draws registers and memory; `print_cpu_state` (381) shows the input port with `cpu_read(cpu, INPUT_ADDR)`, which dequeues an input byte |

The emulation thread alone runs the CPU. The input thread writes PC, and
`load_binary` calls `cpu_reset`, both under `lock`. The emulation thread
never takes `lock`, so those writes race it. The interrupt latches are
shared under `interrupt_mutex`. The byte queues (`src/memory.c`) have
their own mutex. The render thread is a second consumer of the input
queue, next to the program's own reads of 0xD011.

The parts of the system and what this project does with each:

| component | sources | module | status |
|---|---|---|---|
| Byte queue | queue.h, memory.c | `ByteQueue`, `Fifo` | modelled |
| CPU control flow and interrupts | cpu_6502.c | `Cpu6502` | partly |
| ALU, addressing, branches, opcode table, TSX/TXS, PHA/PLA, PHP/PLP, flag instructions | cpu_6502.c | `Alu`, `OpcodeTable` | partly |
| Emulator loop and key handling | main.c | `EmulatorLoop` | partly |
| Interrupt injectors | main.c, cpu_6502.c | `Cpu6502` | modelled |
| Program loading | main.c, cpu_6502.c | `EmulatorLoop`, `AddressSpace` | partly |
| RAM device | memory.c | `AddressSpace` | modelled |
| Address bus | bus.h (bus.c absent) | `AddressSpace` | partly, from spec 4.E |
| Clock pacer | cpu_clock.c, cpu_6502.c | `Clock` | modelled |
| Monitored RAM | unnamed/part_005 | `AddressSpace`, `SerialIO` | modelled |
| Serial I/O threads and the render thread's port read | main.c, cpu_6502.c | `SerialIO`, `ByteQueue` | modelled |
| UI, event queue, logging, breakpoints, tests | | none | not modelled (see below) |

## Modules

### `Fifo` and `ByteQueue`: the byte queue

`Fifo` is the abstract promise: a bounded FIFO whose put on a full queue
and take on an empty queue leave it unchanged.

`ByteQueue` translates `queue_t` and its four functions. The functions
are operators on a queue record (`Enqueue`, `Dequeue`, `Clear`), so that
later compositions can apply them to the CPU's input and output queues.
Each function holds `q->mutex` for its whole body, so each is one atomic
action. `Init` lets `data[]` hold any bytes, because the queue sits in
memory that `queue_init` never clears.

Refinement is stated as `ImplementsFifo`, through `Abstract == INSTANCE
Fifo WITH fifo <- Contents(queue)`. It is checked, with `IndicesAgree`,
for both of the CPU's queues as the threads of `SerialIO` use them.

### `Cpu6502`: execution, interrupts and the stack

The state is `cpu = [PC, SP, P, stk]` (the registers the modelled
instructions touch, and the stack page) and the two latches. Ghost
variables record:

- the interrupt event of the last action (`svc`);
- a shadow call stack of live frames (`frames`), with what the last
  return pulled (`returned`);
- the injections so far.

`Step` is one whole `cpu_execute_instruction`:

1. sample and clear the latches;
2. service an interrupt (push PC and P raw, `I := handle_irq`, then the
   NMI or IRQ vector);
3. the clock wait;
4. fetch the opcode;
5. dispatch it.

Opcodes that `initialize_opcode_table` leaves undefined return
`CPU_ERROR_INVALID_OPCODE` with PC past the opcode, and `status` becomes
`"invalid"`. `emulator_loop` then prints the error, sets `emulator_exit`
and breaks (main.c 881-886), so `Step` and `Reset` are disabled from
then on. `Reset` is
`cpu_reset`. `InjectIRQ` and `InjectNMI` are the injectors.

Memory is the constant `Rom` (the loaded image) plus the stack page. A, X
and Y are left out because no modelled instruction reads them. The
instructions modelled are BRK, RTI, RTS, JSR, JMP (absolute and
indirect, with the page-wrap quirk), PHP, PLP, CLI, SEI and NOP: every
instruction that moves PC, SP or P through the stack or the vectors.

`MC_Cpu6502` loads a small image. It enables interrupts, nests a JSR,
runs PHP/PLP and a BRK inside the subroutine, and returns. It then jumps
back through an indirect vector. The IRQ/BRK handler is `NOP; JMP; RTI`,
and the NMI handler is `NOP; RTI`. Neither handler touches I, so what I
is inside a handler is what interrupt entry left.

### `Alu`: the data instructions, addressing modes and branches

Each instruction's computation is a pure operator returning the new
accumulator or memory byte and P:

- `AdcBinary`, `AdcDecimal`, `SbcBinary`, `SbcDecimal` (`instr_adc`,
  `instr_sbc`);
- `AndOp`, `Ora`, `Eor`, `Bit`; `Cmp`, `Cpx`, `Cpy`;
- `Asl`, `Lsr`, `Rol`, `Ror` and their accumulator forms;
- `Inc`, `Dec`, `Inx`, `Iny`, `Dex`, `Dey`;
- the address computations of `addr_zero_page_x/y`, `addr_absolute_x/y`,
  `addr_indirect_x/y` and `addr_relative`, with `page_crossed`;
- `Branch` and the eight `instr_bxx` that call it, with the cycles a
  taken branch adds (1, or 2 across a page).

The page-crossing cycle that `instr_adc`, `instr_and`, `instr_asl`,
`instr_cmp`, `instr_eor`, `instr_ora`, `instr_sbc` and the loads add to
`cycle_count` is left out: the clock model counts one cycle per wait, and
the only use of the count is pacing.

The RAM read and write around each one is left out. The harness variable
`input` walks all 2^17 combinations of A, operand and carry. The
invariants compare each operator with a reference written differently:
bitwise truth tables merged bit by bit (`BitMerge`), shifts as 9-bit
words, compares as a subtraction with carry, indexed addresses by the
carry out of the low byte, and branch targets as signed offsets in
integer arithmetic.

The stack instructions sit on a state `[m, r]`: an `AddressSpace`
machine and the register file A, X, Y, SP, P. `PushByte`/`PullByte`
translate `push_byte`/`pull_byte` (write then `SP--`; `SP++` then read,
both in `uint8_t`). `Pha`, `Pla`, `Php`, `Plp`, `Tsx`, `Txs` and the seven
flag instructions (`SetFlagOp`) use them. `StackRoundTrip` sets SP from
the input with TXS, pushes two bytes and pulls them back.
`StatusRoundTrip` runs PHP, a flag instruction and PLP from every P.
Loads, stores and the other register transfers are single assignments
plus the Z/N update that the other instructions' checks already cover, so
they are not modelled.

### `AddressSpace`: the memory path and program loading

A machine is a record: the devices and the bytes each holds (a function
over the indices written so far; other indices hold calloc's 0), the bus
table, the input and output queues and PC. `CpuRead`/`CpuWrite` are
`cpu_read`/`cpu_write`: 0xD011 dequeues a key or reads 0, 0xD012
enqueues output. Every other address goes to `BusRead`/`BusWrite`,
which take the first table entry holding the address. `RamRead`/
`RamWrite` are `memory.c`'s RAM. `MonitoredRead` and the monitored branch
of `BusWrite` are `monitored_ram_read`/`_write`: the store is at the
masked index and `Hooks` dispatches on the unmasked address. An output
message is abstracted to its hook, pass/fail and code. `LoadProgram` is
`cpu_load_program` after the file is read; `LoadBinary` is `load_binary`
run alone (the two vector writes, `cpu_reset`'s PC, `queue_clear`, the
check). `MainMachine` is `main.c`'s configuration (64 KiB monitored RAM
over 0x0000-0xFFFF), `TestMachine` the test drivers' (64 KiB RAM).

The module has no variables. `Alu` instantiates it and checks its
properties case by case, one case per value of `input`:
`AccessesMatchMemoryMap(k)` runs every sequence of up to three accesses
from 14 writes and 4 reads, on both machines, against `RefRead`/
`RefWrite`, the guest's view from the spec (one byte per address, ports
intercepted, hooks after the store). `LoadBinaryPassesCheck(k)` loads
two images at four bases on both machines.

### `Clock`: the pacer

`clock_wait_next_cycle` is split at the points other threads' writes can
fall between: line 85 (`ReadSchedule` reads `cycle_count` and
`cycle_duration`), line 86 (`ReadTime` reads `start_time` and decides to
sleep), the sleep (`Wake`), and the `cycle_count++` as a load and a store
(`LoadCount`, `StoreCount`). `Advance` is the `+= 7` of an interrupt
entry. The input thread's `cpu_set_clock_frequency` is three steps:
`SetDuration`, then `clock_reset`'s `ResetCount` and `Rebase`. `CpuReset`
is `cpu_reset`'s `cycle_count = 0`. `Tick` advances wall time.

Time is in ticks, and absolute times are ages relative to now that
saturate at `MaxAge`. The schedule spec 4.B promises is ghost state:
`t0Age`, `t0Dur`, the cycles accounted `acct` and the waits returned
`done` since t0, and `emu.specLeft`, the sleep the spec's atomic wait
would choose. `SpecSleepAny` is the longest sleep any spec schedule
allows for a wait that a `set_frequency` overlaps: the one with the change
placed after the wait, or the one with it placed before (a rebase to
count 0 and the new duration). The constant `Callers` says which of the input thread's
calls the user makes, so each run isolates one of them.

### `OpcodeTable`: decoding

`initialize_opcode_table` as a function from the 256 opcodes to
`[instr, mode]`. Every slot first gets the `???` default, then
the 152 assignments (151 official opcodes and 0xEB), written as four groups of rows in the order of the
source. `Decode` is the lookup `cpu_execute_instruction` does before it
dispatches on the name. `RefDecode` is the 6502's own encoding: the
opcode's `aaabbbcc` bit fields select the instruction and mode, with the
exceptional columns listed. `Alu` instantiates the module and checks
`OpcodeTableMatchesReference` on all 256 opcodes. The `bytes` column
always agrees with the mode and is never read, and the `cycles` column
is never charged to the clock (a finding below), so both are left out.

### `SerialIO`: the serial path

Two `ByteQueue` queues, `inQ` and `outQ`, with the three threads that use
them:

- the input thread: the line editor over `input_buffer` (`buf`, one char
  array per line with 0 as `'\0'`), `current_line/col` and the window
  cursor `input_x/y`. `TypeOnLine`, `TypeWrap` and `TypeScroll` are the
  three branches of a printable key, `BackspaceChar` and `BackspaceLine`
  the two of backspace. `Enter` builds the bytes its loop will enqueue
  (each line's `strlen` characters, `'\n'` between lines, then `\r\n`)
  and clears the buffer; `InputSend` is one `queue_enqueue` of that loop,
  and `LoadClear` is F3's `queue_clear`;
- the emulation thread: `CpuRead` (0xD011), `CpuWrite` (0xD012 and
  0x6000), `StatusWrite(len)` starts a 0x6001/0x6002 message, and
  `MessageSend` enqueues one of its bytes;
- the output thread: `OutputPrint`;
- the render thread: `RenderRead`, `print_cpu_state`'s `cpu_read` of
  0xD011, which dequeues like the program's read. It has no fairness:
  it runs every 100 ms, but whether it finds a byte depends on timing.

Each queue call holds the queue mutex and is one step. A byte (a typed
key, a separator, a program output) is a fresh id. The scroll branch's
`strcpy` copies a line up to and including its `'\0'` and leaves the
rest of the destination as it was. Ghost sequences record what each
queue accepted, what the program read (`read`), what the render thread
read (`shown`), what both consumed in dequeue order (`consumed`), and
what was printed and discarded.

### `EmulatorLoop`: the emulation thread against the input thread

The emulation thread is a program counter `epc` over the steps of one
loop pass:

- top;
- the reset load and the reset flags;
- the run check;
- the load of `cpu->reg.PC` in `fetch_byte`, where the opcode is read
  (`EFetch`);
- the store of `PC++` and the rest of the instruction (`EExecute`);
- the step bookkeeping (`EStepDone`).

The program is abstracted to one-byte instructions that fall through, so
the only PC write of an instruction is `fetch_byte`'s `PC++`, a load and
a store; a PC written by the input thread between them is overwritten by
the store. The PC is one of `ProgSize` addresses that follow one another.

Ghost variables: `setPending`/`setTarget` hold the PC that the last F6
or F3 wrote until the next fetch, and `setOk` says whether every such
fetch read it. `f7Owed` says that an F7 press has not yet been used for
a step: a press while paused, or while nothing is in flight, owes one,
and a run check that starts an instruction pays it.

The input thread's handlers are each one action:

- F2, F5, F7 and F10;
- F6 with a chosen target;
- F3 split into the load (`KeyF3Load`: the PC is set from the chosen
  program's reset vector) and the PC check (`KeyF3Check`), because the
  emulation thread can commit an instruction in between. Only a passing
  check updates `current_binary_path_user` (`current`).

The reset branch is likewise split into `EResetLoad` and `EResetCheck`:
`load_binary` runs without `lock`, so F6 or F3 can write the PC before
the check, and a failed check sets `emulator_exit`. Programs are model
values with a load address each (`Origin`); `Boot` is the one loaded at
startup.

## Runs

| run | cfg | expect | what it shows |
|---|---|---|---|
| cpu_interrupts | MC_Cpu6502.cfg | pass | `ReturnRestoresContext`: every RTS/RTI that pulls a live frame resumes where it was pushed, with the flags but B/U restored, through nested JSR, BRK, IRQ and NMI. `NmiEventuallyTaken`: a pending NMI is taken through 0xFFFA |
| cpu_irq_dropped | MC_Cpu6502_IrqEventuallyTaken.cfg | violation | IRQ and NMI pending together: the IRQ latch is cleared, the IRQ never serviced |
| cpu_irq_in_nmi | MC_Cpu6502_NoIrqInsideNmiHandler.cfg | violation | NMI entry clears I, so an IRQ nests inside the NMI handler |
| alu_reference | Alu.cfg | pass | binary ADC/SBC, decimal ADC sums, logic, compares, shifts, inc/dec, addressing with page crossing, and branches agree with their references over every input. `OpcodeTableMatchesReference`: every opcode decodes to the instruction and mode of the 6502 encoding. `MemoryMapMatchesReference`: every sequence of up to three accesses at the ports, hooks, zero page and 0xFFFF gives the documented bytes and output, in main.c's and the tests' configuration. `LoadBinaryPassesCheck`: `load_binary` run alone passes its PC check and leaves no output, also when the image wraps past 0xFFFF, covers the ports or overwrites the vector. `StackRoundTrip`: PHA/PHA/PLA/PLA is a LIFO in page 1 for every SP, wraps included. `StatusRoundTrip`: PHP, a flag instruction, PLP keep every flag but B (cleared) and U (set) |
| alu_decimal | Alu_DecimalModeMatchesReference.cfg | violation | decimal SBC does nothing, and decimal ADC takes Z/N from the BCD byte |
| emulator_loop | MC_EmulatorLoop.cfg | pass | `StepOnlyOnRequest`: while paused, the run check starts an instruction only for an F7 press not yet used, over every interleaving of F2, F3, F5, F6 and F7 with the loop |
| emulator_set_pc | MC_EmulatorLoop_SetPcTakesEffect.cfg | violation | an F6 (or F3) PC write between the load and the store of `fetch_byte`'s `PC++` is overwritten, so the next fetch is not at the new PC |
| emulator_load_fails | MC_EmulatorLoop_LoadNeverFails.cfg | violation | F6 between the reset's `cpu_reset` and its PC check fails the load and ends the emulator |
| clock_reset_burst | MC_Clock_PacedSinceReset.cfg | violation | after `cpu_reset` the waits return at once: the program runs unpaced |
| clock_rebase_stall | MC_Clock_SleepWithinSchedule.cfg | violation | a wait that reads the old count (7) with the new duration (2) sleeps 16 ticks; spec 4.B allows at most 8, whether the set_frequency is placed before or after the wait |
| serial_io | MC_SerialIO.cfg | pass | `InputConsumedInOrder`: the program's and the render thread's dequeues, followed by what is still queued, are exactly the accepted input bytes in order. `OutputDelivered`: each accepted output byte is printed once, in order, unless F3 clears it. `OutputDrains`: each is eventually printed or cleared. `QueueIndicesAgree`, `QueuesImplementFifo`: both rings keep consistent indices through wraps, full/empty edges and clears, and refine the FIFO. `CursorMatchesBuffer`: after any keys the editor's column is the line's strlen, the window cursor sits right of it, earlier lines are full and later ones empty |
| serial_input_stolen | MC_SerialIO_InputDelivered.cfg | violation | `InputDelivered` (the program reads every accepted input byte) fails: the render thread's `cpu_read` of 0xD011 dequeues a typed byte the program never sees |

Every property of a passing run has a mutant in `PROJECT.json`. Each
mutant is a plausible bug in the mapped code (a dropped full check, a
head that does not advance, a tail not reset, RTS without +1, NMI
through the IRQ vector, wrong overflow/borrow, a late BCD adjust,
table defaults written last,
a backspace that leaves the character, a 0xD012 write also stored, the
vector bytes swapped, a pull that reads before incrementing SP, a PLP
that keeps B, a render read that does not dequeue, a `step_instruction`
not cleared after a step), and each is caught by its property.

## Findings

- `cpu_6502.c:1620`: when NMI and IRQ are both pending, the IRQ is
  discarded.
- `cpu_6502.c:1634`: NMI entry leaves I clear, so a pending IRQ is
  serviced inside the NMI handler before its RTI.
- `cpu_6502.c:1631`: the pushed status byte has B set for hardware
  interrupts (seen while modelling; no run).
- `cpu_6502.c:1655`: the base cycles from the opcode table are never
  charged (seen while modelling; no run).
- `cpu_6502.c:829`: decimal SBC is empty, and decimal ADC (line 222)
  takes Z and N from the BCD result.
- `cpu_6502.c:1512`: `cpu_reset` zeroes `cycle_count` but keeps
  `start_time`, so the pacer lets the program run flat out until the count
  catches up with the time since start.
- `cpu_6502.c:1698`: `cpu_set_clock_frequency` rebases the clock field by
  field, with no lock the wait takes. A wait in progress mixes the two
  timelines: with the old count 7 and the new duration 2 it sleeps 16
  ticks, where the spec's schedule allows 8.

Both clock findings come from the code's non-atomicity. Both properties
hold in a variant of `Clock` where `set_frequency` is one step,
`cpu_reset` rebases `start_time`, and a wait excludes both, as spec 4.B's
pacer mutex would.
- `cpu_6502.c:43`: F6's PC write (main.c:1429), and F3's `cpu_reset`,
  land between the load and the store of `fetch_byte`'s `PC++` and are
  overwritten.
- `main.c:894`: a second F7 pressed while the step of the first is in
  flight is cleared with it, so two presses give one step (seen while
  modelling; no run).
- `main.c:381`: the render thread's `print_cpu_state` reads the input
  port through `cpu_read`, which dequeues, so a typed byte can be shown
  on screen and never reach the program.
- `cpu_6502.c:278`: `instr_asl` adds a page-crossing cycle, which spec
  step 6 gives only to the read instructions (seen while modelling; no
  run).
- `main.c:287`: `load_binary`'s PC check races the other thread. An F6
  during an F5 reset fails the check and ends the emulator. An
  instruction committing during F3's load reports the load as failed and
  keeps the old binary for the next F5.
- `cpu_6502.c:1078`: eight base cycle counts of the opcode table differ
  from the NMOS tables (0xD5/0xF5 give 3, 0xD6/0xF6 give 5, 0x2E, 0x4E,
  0x6E and 0xEE give 7). Seen while modelling the table; no run, since the
  cycles are never charged.
- `main.c:641`: with the input window full, a printable key scrolls the
  buffer and is then dropped, and the top line is lost unsent (seen while
  modelling; no run).

- `cpu_6502.c:1581`: `cpu_load_program` copies the image through
  `cpu_write`, not `bus_write` as spec 4.D says. An image byte at 0xD012
  is enqueued as output and never stored; bytes at 0x6000-0x6002 of
  monitored RAM enqueue output during the load. Every other byte reads
  back (seen while modelling `AddressSpace`; no run).

## Bounds and why they suffice

- `MaxInjects = 1`. `main.c` fires each injector exactly once. With both
  latches it covers IRQ alone, NMI alone, both together, and each during
  the other's handler.
- `Alu` checks all 131072 inputs with no bound.
- `AddressSpace`: sequences of up to three accesses from 18: writes of
  0x00 and 'A' at zero page, 0x6000-0x6002, both ports and 0xFFFF, and
  reads at zero page, 0x6001 and both ports, with one key queued. Three
  accesses let a write be read back after another write, a port read
  empty the input queue, and a hook write follow a port write. Loads:
  bases 0x6000, 0xC000, 0xD011 and 0xFFFB, images of 3 and 6 bytes, so
  that loads cover the hooks and ports, wrap past 0xFFFF, and overwrite
  the reset vector.
- `Clock`: `Durations = {1, 2}`, `MaxCycles = 9`. Two durations make a
  frequency change observable. Nine cycles leave room for an interrupt's
  7 plus two waits, so the count is large when a reset or rebase lands.
- `SerialIO`: `QueueSize = 3`, an input window of 2 lines of 1 column,
  messages of 2 or 4 bytes, `MaxId = 6`. Three slots give wraps of both
  indices, full and empty edges and a clear at any offset; `QUEUE_SIZE`
  plays no part in the code beyond the modulus. A 4-byte message
  overflows the queue, so partial messages happen and clears land
  mid-message; an Enter of two lines (5 bytes) overflows the input queue.
  One column makes every key after the first reach the wrap, and the
  third the scroll, so all five editing branches happen within 6 ids.
- `ProgSize = 3`, two programs with load addresses 0 and 1,
  `MaxPresses = 3`. Three addresses let an
  F6 target differ from both the fetched PC and its successor. Three key
  presses let a reset, a resume and a set-PC or step happen in one
  behaviour. Every handler is reached.

## Fairness

- `Cpu6502`: `WF_vars(Step)`. `emulator_loop` calls
  `cpu_execute_instruction` on every pass while `emulator_paused` is
  false. The emulator starts paused and is paused again by every reset,
  so the fairness assumes a user who has pressed F2 and leaves it
  running; `NmiEventuallyTaken` holds under that assumption only. The
  injectors and reset get no fairness.
- `EmulatorLoop`: `WF_vars(Emulator)`. The emulation thread's own steps
  never block (it sleeps only with `usleep`). Key presses are not fair.
  No property of the passing run depends on it: `StepOnlyOnRequest` is
  an action property.
  F10 ends the emulation thread and the input thread, so the EmulatorLoop
  cfgs say `CHECK_DEADLOCK FALSE`.
- `Clock`: `WF_vars(Tick)`. Wall time always advances.
- `SerialIO`: `WF_vars(OutputPrint)` and `WF_vars(InputSend)`. The output
  thread polls every 10 ms while the program runs. The input thread
  finishes the loop of an Enter it started.

## Plan for later work

1. The F4 clock prompt's interplay with a wait in progress, composed
   from `Clock` and `EmulatorLoop`.
2. `Cpu6502`'s stack on an `AddressSpace` machine, so that a stack
   write that lands on a hook is seen.
3. A refinement of `Clock` against an abstract atomic pacer.

## Not modelled

- `bus.c` is absent: `bus_read`/`bus_write` follow spec 4.E, and
  `bus_create`/`bus_connect_device` are reduced to the one mapping the
  program builds. `memory_destroy` and the allocation failures are not
  modelled.
- The curses UI, logging and breakpoints: I/O only.
- `event_queue.c`: unused.
- The performance display in `emulator_loop` (900-922): display only.
  After F3's `cpu_reset` its `uint64_t` difference wraps (a listed hazard).
- `clock_destroy`: it frees memory only.
- The test drivers.
