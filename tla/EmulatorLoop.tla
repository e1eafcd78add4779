---------------------------- MODULE EmulatorLoop ----------------------------
(***************************************************************************)
(* The host side of src/main.c: emulator_loop (the emulation thread) and   *)
(* the key handling of serial_input_thread (F2 pause/resume, F3 load, F5   *)
(* reset, F6 set PC, F7 single step, F10 exit), which talk through the    *)
(* volatile flags emulator_paused, emulator_reset, step_mode,             *)
(* step_instruction and emulator_exit.  No lock orders them: the input     *)
(* thread's `lock` is never taken by emulator_loop.                        *)
(*                                                                         *)
(* The CPU is abstracted to its PC over a small program of one-byte       *)
(* instructions that fall through (NOP, INX, ...): the only PC write of   *)
(* cpu_execute_instruction is fetch_byte's cpu->reg.PC++.  That is a load *)
(* and a store of PC, unsynchronised with the input thread's PC writes,   *)
(* so it is two steps; a write landing between them is overwritten (the  *)
(* build's outcome of the data race).                                      *)
(* load_binary is one step for its memory and register writes and one   *)
(* for its PC check, because the other thread's PC writes fall between.  *)
(* A binary is a name from Programs, loaded at Origin[name]; every load   *)
(* succeeds, so a failing PC check is never the file's fault.             *)
(***************************************************************************)
EXTENDS Naturals

CONSTANTS
  ProgSize,     \* the addresses of the abstract program: 0 .. ProgSize - 1
  Programs,     \* the binaries the user can load
  Origin,       \* Origin[p]: the load address given for binary p
  Boot,         \* the binary main() loads before the threads start
  MaxPresses    \* bound on the keys pressed in one behaviour

Addrs == 0 .. ProgSize - 1

ASSUME ProgSize \in Nat \ {0} /\ Origin \in [Programs -> Addrs]
ASSUME Boot \in Programs /\ MaxPresses \in Nat

\* The instruction at a falls through to the next address.
Succ(a) == (a + 1) % ProgSize

VARIABLES
  pc,           \* cpu->reg.PC
  paused,       \* emulator_paused
  resetReq,     \* emulator_reset
  stepMode,     \* step_mode
  stepInstr,    \* step_instruction
  exitReq,      \* emulator_exit
  epc,          \* where the emulation thread is in its loop
  fetched,      \* the PC fetch_byte loaded (the opcode's address)
  kpc,          \* "idle", or "loading" between F3's cpu_reset and PC check
  image,        \* the binary in memory
  current,      \* current_binary_path_user with current_load_address_user
  f3Prog,       \* the binary F3's load_binary loaded
  resetProg,    \* the binary the reset branch's load_binary loaded
  loadFailed,   \* ghost: a load_binary returned -1
  presses,      \* keys pressed so far (bounded by MaxPresses)
  setPending,   \* ghost: an input-thread PC write no fetch has read yet
  setTarget,    \* ghost: the PC that F6 or F3's load wrote
  setOk,        \* ghost: the first fetch after every such write read its PC
  f7Owed        \* ghost: an F7 press no step has started after yet; one
                \* pressed while an instruction started running freely is
                \* in flight pauses, and that instruction is its step

flagVars == <<paused, resetReq, stepMode, stepInstr, exitReq>>
loadVars == <<kpc, image, current, f3Prog, resetProg, loadFailed>>
ghostVars == <<setPending, setTarget, setOk, f7Owed>>
vars == <<pc, flagVars, epc, fetched, loadVars, presses, ghostVars>>

\* main(): the globals' initialisers (emulator_paused = true), then
\* load_binary has loaded the boot binary before the threads start.
Init ==
  /\ pc = Origin[Boot]
  /\ paused = TRUE
  /\ resetReq = FALSE
  /\ stepMode = FALSE
  /\ stepInstr = FALSE
  /\ exitReq = FALSE
  /\ epc = "top"
  /\ fetched = Origin[Boot]
  /\ kpc = "idle"
  /\ image = Boot /\ current = Boot /\ f3Prog = Boot /\ resetProg = Boot
  /\ loadFailed = FALSE
  /\ presses = 0
  /\ setPending = FALSE
  /\ setTarget = Origin[Boot]
  /\ setOk = TRUE
  /\ f7Owed = FALSE

-----------------------------------------------------------------------------
(* The emulation thread: one pass of the while loop of emulator_loop.     *)

\* while (!emulator_exit) ends the thread.
EExit ==
  /\ epc = "top" /\ exitReq
  /\ epc' = "exited"
  /\ UNCHANGED <<pc, flagVars, fetched, loadVars, presses, ghostVars>>

\* No reset requested: go on to the run check.
ENoReset ==
  /\ epc = "top" /\ ~exitReq /\ ~resetReq
  /\ epc' = "check"
  /\ UNCHANGED <<pc, flagVars, fetched, loadVars, presses, ghostVars>>

\* if (emulator_reset): load_binary(cpu, current_binary_path_user,
\* current_load_address_user) reloads the image, writes the reset vector,
\* runs cpu_reset (PC from the vector) and clears the output queue.
EResetLoad ==
  /\ epc = "top" /\ ~exitReq /\ resetReq
  /\ pc' = Origin[current]
  /\ image' = current
  /\ resetProg' = current
  /\ epc' = "resetcheck"
  /\ setPending' = FALSE
  /\ f7Owed' = FALSE
  /\ UNCHANGED <<flagVars, fetched, kpc, current, f3Prog, loadFailed,
                 presses, setTarget, setOk>>

\* load_binary's check on this thread: a PC other than the load address
\* makes it return -1, and emulator_loop sets emulator_exit and leaves.
EResetCheck ==
  /\ epc = "resetcheck"
  /\ IF pc = Origin[resetProg]
       THEN epc' = "resetting" /\ UNCHANGED <<exitReq, loadFailed>>
       ELSE epc' = "exited" /\ exitReq' = TRUE /\ loadFailed' = TRUE
  /\ UNCHANGED <<pc, paused, resetReq, stepMode, stepInstr, fetched, kpc,
                 image, current, f3Prog, resetProg, presses, ghostVars>>

\* emulator_reset = false; emulator_paused = true; step_mode = false.
\* A step request made since the reset began is dropped with step_mode.
EResetFlags ==
  /\ epc = "resetting"
  /\ resetReq' = FALSE
  /\ paused' = TRUE
  /\ stepMode' = FALSE
  /\ epc' = "check"
  /\ f7Owed' = FALSE
  /\ UNCHANGED <<pc, stepInstr, exitReq, fetched, loadVars, presses,
                 setPending, setTarget, setOk>>

\* if (!emulator_paused || (step_mode && step_instruction)) runs one
\* instruction; otherwise usleep and loop.
ECheckRun ==
  /\ epc = "check"
  /\ LET run == ~paused \/ (stepMode /\ stepInstr) IN
     /\ epc' = IF run THEN "fetch" ELSE "top"
     /\ f7Owed' = (f7Owed /\ ~run)
  /\ UNCHANGED <<pc, flagVars, fetched, loadVars, presses, setPending,
                 setTarget, setOk>>

\* cpu_execute_instruction up to fetch_byte's load of cpu->reg.PC (the
\* opcode is read at it).
EFetch ==
  /\ epc = "fetch"
  /\ fetched' = pc
  /\ epc' = "increment"
  /\ setPending' = FALSE
  /\ setOk' = (setOk /\ (setPending => pc = setTarget))
  /\ UNCHANGED <<pc, flagVars, loadVars, presses, setTarget, f7Owed>>

\* The store of cpu->reg.PC++ (the loaded value plus one) and the rest of
\* the one-byte instruction, which leaves PC alone.
EExecute ==
  /\ epc = "increment"
  /\ pc' = Succ(fetched)
  /\ epc' = "stepped"
  /\ UNCHANGED <<flagVars, fetched, loadVars, presses, ghostVars>>

\* A mutant of EStepDone: step_instruction is left set in step mode.
EStepDoneKeep ==
  /\ epc = "stepped"
  /\ epc' = "top"
  /\ UNCHANGED <<pc, flagVars, fetched, loadVars, presses, ghostVars>>

\* if (step_mode) step_instruction = false; then the clock wait and the
\* usleep of the loop.
EStepDone ==
  /\ epc = "stepped"
  /\ stepInstr' = (stepInstr /\ ~stepMode)
  /\ epc' = "top"
  /\ UNCHANGED <<pc, paused, resetReq, stepMode, exitReq, fetched, loadVars,
                 presses, ghostVars>>

Emulator == EExit \/ ENoReset \/ EResetLoad \/ EResetCheck \/ EResetFlags
              \/ ECheckRun \/ EFetch \/ EExecute \/ EStepDone

-----------------------------------------------------------------------------
(* The input thread: a key handled by serial_input_thread while           *)
(* emulator_exit is false.  F3 and F6 hold `lock`, which does not         *)
(* exclude the emulation thread.                                          *)

Key == ~exitReq /\ kpc = "idle" /\ presses < MaxPresses

\* F2: emulator_paused = !emulator_paused; step_mode = false.
KeyF2 ==
  /\ Key
  /\ paused' = ~paused
  /\ stepMode' = FALSE
  /\ presses' = presses + 1
  /\ UNCHANGED <<pc, resetReq, stepInstr, exitReq, epc, fetched, loadVars,
                 ghostVars>>

\* F5: emulator_reset = true.
KeyF5 ==
  /\ Key
  /\ resetReq' = TRUE
  /\ presses' = presses + 1
  /\ UNCHANGED <<pc, paused, stepMode, stepInstr, exitReq, epc, fetched,
                 loadVars, ghostVars>>

InFlight == {"fetch", "increment", "stepped"}

\* F7: emulator_paused = true; step_mode = true; step_instruction = true.
KeyF7 ==
  /\ Key
  /\ paused' = TRUE
  /\ stepMode' = TRUE
  /\ stepInstr' = TRUE
  /\ presses' = presses + 1
  /\ f7Owed' = (f7Owed \/ paused \/ epc \notin InFlight)
  /\ UNCHANGED <<pc, resetReq, exitReq, epc, fetched, loadVars, setPending,
                 setTarget, setOk>>

\* F10: emulator_exit = true.
KeyF10 ==
  /\ Key
  /\ exitReq' = TRUE
  /\ presses' = presses + 1
  /\ UNCHANGED <<pc, paused, resetReq, stepMode, stepInstr, epc, fetched,
                 loadVars, ghostVars>>

\* F6, prompt_set_pc: a valid address typed by the user is written to
\* cpu->reg.PC.
KeyF6(t) ==
  /\ Key
  /\ pc' = t
  /\ presses' = presses + 1
  /\ setPending' = TRUE
  /\ setTarget' = t
  /\ UNCHANGED <<flagVars, epc, fetched, loadVars, setOk, f7Owed>>

\* F3, prompt_load_binary: the user names binary p and its load address;
\* load_binary up to and including cpu_reset and queue_clear.
KeyF3Load(p) ==
  /\ Key
  /\ pc' = Origin[p]
  /\ image' = p
  /\ f3Prog' = p
  /\ kpc' = "loading"
  /\ presses' = presses + 1
  /\ setPending' = TRUE
  /\ setTarget' = Origin[p]
  /\ UNCHANGED <<flagVars, epc, fetched, current, resetProg, loadFailed,
                 setOk, f7Owed>>

\* load_binary's check, if (cpu->reg.PC != load_address) return -1; only
\* on success does prompt_load_binary record the binary and its address
\* as the ones F5 reloads.
KeyF3Check ==
  /\ kpc = "loading"
  /\ IF pc = Origin[f3Prog]
       THEN current' = f3Prog /\ UNCHANGED loadFailed
       ELSE loadFailed' = TRUE /\ UNCHANGED current
  /\ kpc' = "idle"
  /\ UNCHANGED <<pc, flagVars, epc, fetched, image, f3Prog, resetProg,
                 presses, ghostVars>>

Input == KeyF2 \/ KeyF5 \/ KeyF7 \/ KeyF10 \/ (\E t \in Addrs : KeyF6(t))
           \/ (\E p \in Programs : KeyF3Load(p)) \/ KeyF3Check

Next == Emulator \/ Input

\* emulator_loop polls without blocking (usleep(100) per pass), so the
\* emulation thread is weakly fair; nobody has to press a key.
Spec == Init /\ [][Next]_vars /\ WF_vars(Emulator)

-----------------------------------------------------------------------------
(***************************************************************************)
(* Single-stepping runs one instruction per F7: while the emulator is     *)
(* paused, the run check starts an instruction only for an F7 press that  *)
(* no step has been started for yet.  The input thread sets               *)
(* step_instruction, and emulator_loop clears it after the step (894);    *)
(* F2 and F5 change emulator_paused and step_mode meanwhile.              *)
(***************************************************************************)
StepOnlyOnRequest ==
  [][epc = "check" /\ epc' = "fetch" /\ paused => f7Owed]_vars

(***************************************************************************)
(* A PC written by the input thread (F6's prompt_set_pc, or F3's          *)
(* load_binary through cpu_reset) is where execution continues: the first *)
(* fetch after the write reads the new PC.  Both write cpu->reg.PC under  *)
(* `lock`, which the emulation thread never takes around fetch_byte.      *)
(***************************************************************************)
SetPcTakesEffect == setOk

(***************************************************************************)
(* load_binary fails only when the binary cannot be read (spec 4.F:       *)
(* load_program fails with read_failed on empty input); every load here   *)
(* succeeds.  Its PC check reads cpu->reg.PC after cpu_reset while the    *)
(* other thread may write PC: an instruction committing on the emulation  *)
(* thread during F3, or F6 / F3 on the input thread during an F5 reset.   *)
(* A failed F3 leaves current_binary_path_user at the old binary, so the  *)
(* next F5 restarts the wrong program; a failed reset ends the emulator.  *)
(***************************************************************************)
LoadNeverFails == ~loadFailed
=============================================================================
