------------------------------- MODULE Cpu6502 -------------------------------
(***************************************************************************)
(* The control-flow core of src/cpu_6502.c: cpu_execute_instruction        *)
(* (interrupt sampling and service, the clock wait, fetch and dispatch),  *)
(* the stack helpers, the instructions that move PC, SP and P through the *)
(* stack (BRK, RTI, RTS, JSR, JMP, PHP, PLP, CLI, SEI, NOP), undefined     *)
(* opcodes, cpu_reset and the two interrupt injectors.                     *)
(*                                                                         *)
(* The emulator thread is the only one that touches the registers and the *)
(* stack, so one call of cpu_execute_instruction is one atomic Step.  The *)
(* latches are shared with the injector threads under interrupt_mutex;   *)
(* an injection landing between the latch sample and the service only    *)
(* sets a latch again, which the next Step sees, so it is a separate      *)
(* action.  A, X and Y are left out: none of these instructions reads     *)
(* them.  Memory is the program image Rom plus the stack page, the only   *)
(* RAM these instructions write.                                          *)
(***************************************************************************)
EXTENDS Naturals, Sequences, Bitwise

CONSTANTS
  Rom,         \* the loaded image: address -> byte, vectors included
  MaxInjects   \* how many times each injector may fire (main.c: once)

Bytes == 0 .. 255
Addrs == 0 .. 65535
StackPage == 256 .. 511

ASSUME /\ MaxInjects \in Nat
       /\ Rom \in [DOMAIN Rom -> Bytes]
       /\ DOMAIN Rom \subseteq Addrs \ StackPage

\* Status flag bit numbers of cpu_6502.h.
FlagI == 2
FlagB == 4

\* get_flag / set_flag (declared in cpu_6502.h, defined outside src/).
GetFlag(p, f) == (p \div 2^f) % 2
SetFlag(p, f, on) ==
  IF on THEN p | 2^f ELSE p & (255 - 2^f)

\* The opcodes initialize_opcode_table fills in; every other entry keeps
\* execute == NULL and is an invalid opcode.
DefinedOpcodes ==
  {\h00, \h01, \h05, \h06, \h08, \h09, \h0A, \h0D, \h0E, \h10, \h11, \h15,
   \h16, \h18, \h19, \h1D, \h1E, \h20, \h21, \h24, \h25, \h26, \h28, \h29,
   \h2A, \h2C, \h2D, \h2E, \h30, \h31, \h35, \h36, \h38, \h39, \h3D, \h3E,
   \h40, \h41, \h45, \h46, \h48, \h49, \h4A, \h4C, \h4D, \h4E, \h50, \h51,
   \h55, \h56, \h58, \h59, \h5D, \h5E, \h60, \h61, \h65, \h66, \h68, \h69,
   \h6A, \h6C, \h6D, \h6E, \h70, \h71, \h75, \h76, \h78, \h79, \h7D, \h7E,
   \h81, \h84, \h85, \h86, \h88, \h8A, \h8C, \h8D, \h8E, \h90, \h91, \h94,
   \h95, \h96, \h98, \h99, \h9A, \h9D, \hA0, \hA1, \hA2, \hA4, \hA5, \hA6,
   \hA8, \hA9, \hAA, \hAC, \hAD, \hAE, \hB0, \hB1, \hB4, \hB5, \hB6, \hB8,
   \hB9, \hBA, \hBC, \hBD, \hBE, \hC0, \hC1, \hC4, \hC5, \hC6, \hC8, \hC9,
   \hCA, \hCC, \hCD, \hCE, \hD0, \hD1, \hD5, \hD6, \hD8, \hD9, \hDD, \hDE,
   \hE0, \hE1, \hE4, \hE5, \hE6, \hE8, \hE9, \hEA, \hEB, \hEC, \hED, \hEE,
   \hF0, \hF1, \hF5, \hF6, \hF8, \hF9, \hFD, \hFE}

\* The opcode_table entries whose handlers this module models: BRK, RTI,
\* RTS, JSR, JMP abs and (ind), PHP, PLP, CLI, SEI and NOP.
ModelledOpcodes ==
  {\h00, \h40, \h60, \h20, \h4C, \h6C, \h08, \h28, \h58, \h78, \hEA}

\* A machine is the register file PC, SP, P and the stack page stk.
\* cpu_read: the stack page is RAM, the rest is the image (unloaded RAM
\* reads 0).  The input port 0xD011 is not in any image used here.
Read(m, a) ==
  IF a \in StackPage THEN m.stk[a - 256]
  ELSE IF a \in DOMAIN Rom THEN Rom[a] ELSE 0

Word(lo, hi) == lo + 256 * hi

\* fetch_word: two bytes at PC, low first; PC advances by two.
FetchWord(m) == Word(Read(m, m.PC), Read(m, (m.PC + 1) % 65536))

\* push_byte: write at 0x0100 + SP, then SP-- (uint8_t wraps).
PushByte(m, v) == [m EXCEPT !.stk[m.SP] = v, !.SP = (m.SP + 255) % 256]

\* push_word: high byte first.
PushWord(m, v) == PushByte(PushByte(m, v \div 256), v % 256)

\* pull_byte: SP++, then read 0x0100 + SP.  Pulled(m, k) is the k-th byte
\* a run of pulls returns, AfterPulls(m, k) the machine after k pulls.
Pulled(m, k) == m.stk[(m.SP + k) % 256]
AfterPulls(m, k) == [m EXCEPT !.SP = (m.SP + k) % 256]

\* pull_word: low byte first.
PulledWord(m, k) == Word(Pulled(m, k), Pulled(m, k + 1))

\* The interrupt vectors read by the service code, by BRK and by reset.
IrqVector(m) == Word(Read(m, \hFFFE), Read(m, \hFFFF))
ResetVector(m) == Word(Read(m, \hFFFC), Read(m, \hFFFD))

\* A mutant of NmiVector: the NMI is sent through the IRQ/BRK vector.
NmiVectorFromIrq(m) == IrqVector(m)

NmiVector(m) == Word(Read(m, \hFFFA), Read(m, \hFFFB))

-----------------------------------------------------------------------------
(* The instructions.  Each takes the machine after the opcode fetch, with  *)
(* PC at the byte following the opcode.                                    *)

\* instr_brk: PC++ past the padding byte, push PC, set B in P itself, push
\* P | 0x10, set I, jump through 0xFFFE.
Brk(m) ==
  LET m1 == PushWord([m EXCEPT !.PC = (@ + 1) % 65536], (m.PC + 1) % 65536)
      m2 == [m1 EXCEPT !.P = SetFlag(@, FlagB, TRUE)]
      m3 == PushByte(m2, m2.P | \h10)
  IN  [m3 EXCEPT !.P = SetFlag(@, FlagI, TRUE), !.PC = IrqVector(m3)]

\* instr_rti: P is the pulled byte as is, then PC is pulled.
Rti(m) == [AfterPulls(m, 3) EXCEPT !.P = Pulled(m, 1), !.PC = PulledWord(m, 2)]

\* A mutant of Rts: the +1 is left out.
RtsNoIncrement(m) == [AfterPulls(m, 2) EXCEPT !.PC = PulledWord(m, 1)]

\* instr_rts: PC = pull_word + 1, truncated to uint16_t.
Rts(m) == [AfterPulls(m, 2) EXCEPT !.PC = (PulledWord(m, 1) + 1) % 65536]

\* instr_jsr with addr_absolute: fetch the target, push PC - 1 (the last
\* byte of the JSR), jump.
Jsr(m) ==
  LET m1 == [m EXCEPT !.PC = (@ + 2) % 65536]
  IN  [PushWord(m1, (m1.PC + 65535) % 65536) EXCEPT !.PC = FetchWord(m)]

\* instr_jmp with addr_absolute.
Jmp(m) == [m EXCEPT !.PC = FetchWord(m)]

\* instr_jmp with addr_indirect: the high byte of the target is read from
\* the same page as the pointer (the NMOS page-wrap quirk).
JmpIndirect(m) ==
  LET ptr == FetchWord(m)
      hiAddr == (ptr - (ptr % 256)) + ((ptr + 1) % 256)
  IN  [m EXCEPT !.PC = Word(Read(m, ptr), Read(m, hiAddr))]

\* instr_php: push P | 0x30.
Php(m) == PushByte(m, m.P | \h30)

\* instr_plp: P = (pull & 0xEF) | 0x20.
Plp(m) == [AfterPulls(m, 1) EXCEPT !.P = (Pulled(m, 1) & \hEF) | \h20]

\* opcode_table dispatch for the modelled opcodes (instr_cli, instr_sei,
\* instr_nop included).
Execute(op, m) ==
  CASE op = \h00 -> Brk(m)
    [] op = \h40 -> Rti(m)
    [] op = \h60 -> Rts(m)
    [] op = \h20 -> Jsr(m)
    [] op = \h4C -> Jmp(m)
    [] op = \h6C -> JmpIndirect(m)
    [] op = \h08 -> Php(m)
    [] op = \h28 -> Plp(m)
    [] op = \h58 -> [m EXCEPT !.P = SetFlag(@, FlagI, FALSE)]
    [] op = \h78 -> [m EXCEPT !.P = SetFlag(@, FlagI, TRUE)]
    [] op = \hEA -> m

\* The interrupt entry of cpu_execute_instruction: push PC and P (as is),
\* set I to handle_irq (so an NMI alone clears it), jump to the NMI vector
\* if an NMI is handled, else to the IRQ vector.
Service(m, handleNmi, handleIrq) ==
  LET m1 == PushByte(PushWord(m, m.PC), m.P)
  IN  [m1 EXCEPT !.P = SetFlag(@, FlagI, handleIrq),
                 !.PC = IF handleNmi THEN NmiVector(m1) ELSE IrqVector(m1)]

\* The latch sample under interrupt_mutex.
HandleIrq(irq, p) == irq /\ GetFlag(p, FlagI) = 0

\* cpu_reset applied to a machine: the stack page keeps its bytes.
ResetMachine(m) == [m EXCEPT !.SP = \hFD, !.P = \h34, !.PC = ResetVector(m)]

-----------------------------------------------------------------------------
VARIABLES
  cpu,          \* [PC, SP, P, stk]: the registers and the stack page
  nmiPending,   \* cpu->NMI_pending
  irqPending,   \* cpu->IRQ_pending
  status,       \* the cpu_status_t the last step returned
  cycleDelta,   \* what the last action did to clock.cycle_count
  lastOp,       \* the opcode the last step fetched (NoOp: none yet)
  svc,          \* ghost: the interrupt event of the last action
  frames,       \* ghost: a shadow call stack of the live stack frames
  returned,     \* ghost: the frame the last RTS/RTI returned through
  injected      \* [irq, nmi]: calls of each injector so far (the bound)

vars == <<cpu, nmiPending, irqPending, status, cycleDelta, lastOp, svc,
          frames, returned, injected>>

NoOp == 256
NoReturn == [kind |-> "none", ret |-> 0, p |-> 0, pc |-> 0, pAfter |-> 0]
InterruptKinds == {"brk", "nmi", "irq"}

\* main() runs cpu_init and then load_binary's cpu_reset before any thread
\* starts: the stack page is calloc'd zeroes, the latches are clear.
Init ==
  /\ cpu = ResetMachine([PC |-> 0, SP |-> \hFD, P |-> \h34,
                         stk |-> [i \in Bytes |-> 0]])
  /\ nmiPending = FALSE
  /\ irqPending = FALSE
  /\ status = "ok"
  /\ cycleDelta = 0
  /\ lastOp = NoOp
  /\ svc = [kind |-> "reset", entry |-> cpu.PC]
  /\ frames = <<>>
  /\ returned = NoReturn
  /\ injected = [irq |-> 0, nmi |-> 0]

\* One call of cpu_execute_instruction (paused is never set by the caller
\* modelled here): sample and clear the latches, service an interrupt
\* (+7 cycles), clock_wait_next_cycle (+1), fetch, dispatch.  After a call
\* returned CPU_ERROR_INVALID_OPCODE emulator_loop sets emulator_exit and
\* breaks (main.c:881-886): no call follows.  A defined opcode outside
\* ModelledOpcodes disables the step, so an image that reaches one shows
\* up as a deadlock.
Step ==
  LET hn == nmiPending
      hi == HandleIrq(irqPending, cpu.P)
      m1 == IF hn \/ hi THEN Service(cpu, hn, hi) ELSE cpu
      op == Read(m1, m1.PC)
      m2 == [m1 EXCEPT !.PC = (@ + 1) % 65536]
      m3 == IF op \in ModelledOpcodes THEN Execute(op, m2) ELSE m2
      \* the ghost frames: the one the service pushed, then the one BRK
      \* or JSR pushed; a frame is live while SP has not been pulled past it
      f1 == IF hn \/ hi
              THEN Append(frames, [kind |-> IF hn THEN "nmi" ELSE "irq",
                                   ret |-> cpu.PC, p |-> cpu.P, sp |-> m1.SP])
              ELSE frames
      f2 == CASE op = \h00 -> Append(f1, [kind |-> "brk", p |-> m2.P,
                                ret |-> (m2.PC + 1) % 65536, sp |-> m3.SP])
              [] op = \h20 -> Append(f1, [kind |-> "jsr", p |-> m2.P,
                                ret |-> (m2.PC + 2) % 65536, sp |-> m3.SP])
              [] OTHER -> f1
      top == f1[Len(f1)]
      returns == /\ f1 # <<>>
                 /\ top.sp = m2.SP
                 /\ \/ op = \h60 /\ top.kind = "jsr"
                    \/ op = \h40 /\ top.kind \in InterruptKinds
  IN  /\ status # "invalid"
      /\ op \in ModelledOpcodes \cup (Bytes \ DefinedOpcodes)
      /\ cpu' = m3
      /\ nmiPending' = (nmiPending /\ ~hn)
      /\ irqPending' = (irqPending /\ ~hi)
      /\ status' = IF op \in DefinedOpcodes THEN "ok" ELSE "invalid"
      /\ cycleDelta' = (IF hn \/ hi THEN 7 ELSE 0) + 1
      /\ lastOp' = op
      /\ svc' = [kind |-> IF hn THEN "nmi" ELSE IF hi THEN "irq" ELSE "none",
                 entry |-> m1.PC]
      /\ frames' = SelectSeq(f2, LAMBDA f : m3.SP <= f.sp)
      /\ returned' = IF returns
                       THEN [kind |-> top.kind, ret |-> top.ret, p |-> top.p,
                             pc |-> m3.PC, pAfter |-> m3.P]
                       ELSE NoReturn
      /\ UNCHANGED injected

\* cpu_inject_IRQ / cpu_inject_NMI: set the latch under interrupt_mutex.
InjectIRQ ==
  /\ injected.irq < MaxInjects
  /\ injected' = [injected EXCEPT !.irq = @ + 1]
  /\ irqPending' = TRUE
  /\ svc' = [svc EXCEPT !.kind = "inject"]
  /\ UNCHANGED <<cpu, nmiPending, status, cycleDelta, lastOp, frames, returned>>

InjectNMI ==
  /\ injected.nmi < MaxInjects
  /\ injected' = [injected EXCEPT !.nmi = @ + 1]
  /\ nmiPending' = TRUE
  /\ svc' = [svc EXCEPT !.kind = "inject"]
  /\ UNCHANGED <<cpu, irqPending, status, cycleDelta, lastOp, frames, returned>>

\* cpu_reset, from F5's reset branch of emulator_loop (so not once the
\* loop has ended): registers to their power-on values, PC from 0xFFFC,
\* cycle_count = 0, both latches cleared.
Reset ==
  /\ status # "invalid"
  /\ cpu' = ResetMachine(cpu)
  /\ nmiPending' = FALSE
  /\ irqPending' = FALSE
  /\ cycleDelta' = 0
  /\ lastOp' = NoOp
  /\ svc' = [kind |-> "reset", entry |-> cpu'.PC]
  /\ frames' = <<>>
  /\ returned' = NoReturn
  /\ UNCHANGED <<status, injected>>

Next == Step \/ InjectIRQ \/ InjectNMI \/ Reset

\* emulator_loop calls cpu_execute_instruction on every pass while the
\* emulator runs, so the step is weakly fair; the injectors and the reset
\* key are not.
Spec == Init /\ [][Next]_vars /\ WF_vars(Step)

-----------------------------------------------------------------------------
(***************************************************************************)
(* Every RTS or RTI that pulls a live frame (one pushed by JSR, BRK or an  *)
(* interrupt entry and not yet pulled) resumes where that frame says: RTS *)
(* at the instruction after the JSR, RTI at the interrupted instruction   *)
(* or past BRK's padding byte, with every flag but B and the unused bit   *)
(* as it was.  This is the contract between push_word/push_byte in the    *)
(* entry paths and pull_word/pull_byte in the returns (byte order, the    *)
(* PC - 1 of JSR and the + 1 of RTS, BRK's PC++), and it must survive     *)
(* interrupts nesting inside subroutines and BRK handlers.                *)
(***************************************************************************)
ReturnRestoresContext ==
  returned.kind # "none" =>
    /\ returned.pc = returned.ret
    /\ returned.kind \in InterruptKinds =>
         (returned.pAfter & \hCF) = (returned.p & \hCF)

(***************************************************************************)
(* A pending NMI is always taken, and through the NMI vector at 0xFFFA:    *)
(* cpu_execute_instruction samples NMI_pending regardless of I on every   *)
(* call, so unless a reset clears the latch first the CPU enters the NMI  *)
(* handler.                                                                *)
(***************************************************************************)
NmiEventuallyTaken ==
  nmiPending ~> \/ svc.kind = "reset"
                \/ svc.kind = "nmi" /\ svc.entry = Word(Rom[\hFFFA], Rom[\hFFFB])

(***************************************************************************)
(* An IRQ that is raised is eventually serviced (or cleared by a reset):   *)
(* the IRQ line of a 6502 stays asserted until serviced.  The code clears *)
(* IRQ_pending whenever it handles it, also when an NMI is handled in the *)
(* same call and the IRQ vector is never taken.                           *)
(***************************************************************************)
IrqEventuallyTaken == irqPending ~> svc.kind \in {"irq", "reset"}

(***************************************************************************)
(* Interrupt entry sets I (spec 4.F), so an IRQ is never serviced while an *)
(* NMI handler is live (the NMI frame not yet pulled) unless the handler  *)
(* clears I itself, which no handler of the checked image does.  The code *)
(* sets I to handle_irq, which is false for an NMI alone.                  *)
(***************************************************************************)
NoIrqInsideNmiHandler ==
  svc.kind = "irq" => \A i \in 1 .. Len(frames) - 1 : frames[i].kind # "nmi"
=============================================================================
