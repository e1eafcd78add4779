-------------------------------- MODULE Clock --------------------------------
(***************************************************************************)
(* The clock pacer of src/cpu_clock.c as the three threads of main.c use  *)
(* it.  The emulation thread calls clock_wait_next_cycle twice per         *)
(* instruction (in cpu_execute_instruction and in emulator_loop) and adds  *)
(* 7 to cycle_count on an interrupt entry.  The input thread calls          *)
(* cpu_set_clock_frequency (F4) and, through load_binary, cpu_reset (F3). *)
(* Neither takes a lock the emulation thread holds while it waits, so     *)
(* their writes to the clock interleave with the wait's reads.            *)
(*                                                                         *)
(* Wall time is counted in ticks and the clock's double `cycle_duration`  *)
(* is a whole number of ticks.  Absolute times are kept as ages relative  *)
(* to now: startAge is now - start_time, the value get_current_time        *)
(* returns.  An age saturates at MaxAge, which is at least every          *)
(* expected_time the wait can compute, so a saturated age means "no      *)
(* sleep" exactly as its true value would.                                *)
(*                                                                         *)
(* The schedule spec 4.B promises is kept as ghost state: t0Age is the    *)
(* age of the pacer's reference time t0, which init, reset and            *)
(* set_frequency all capture, and `done` counts the waits that returned   *)
(* since then.                                                             *)
(***************************************************************************)
EXTENDS Naturals

CONSTANTS
  Durations,    \* cycle_duration values 1.0 / frequency can take, in ticks
  InitDur,      \* the duration clock_init starts with
  MaxCycles,    \* bound on cycle_count
  Callers       \* which of the input thread's calls, "reset" (F3) and
                \* "set_frequency" (F4), the user makes

ASSUME InitDur \in Durations /\ MaxCycles \in Nat
ASSUME Callers \subseteq {"reset", "set_frequency"}

\* cpu_execute_instruction's "cycle_count += 7" for an interrupt entry.
InterruptCycles == 7

MaxDur == CHOOSE d \in Durations : \A e \in Durations : d >= e
MaxAge == MaxCycles * MaxDur

VARIABLES
  count,      \* clock.cycle_count
  dur,        \* clock.cycle_duration
  startAge,   \* now - platform_data->start_time
  emu,        \* the emulation thread inside clock_wait_next_cycle
  sf,         \* the input thread inside cpu_set_clock_frequency
  t0Age,      \* ghost: now - t0 of spec 4.B
  t0Dur,      \* ghost: the cycle duration of that timeline
  acct,       \* ghost: spec 4.B's cycle_count, the cycles accounted since t0
  done        \* ghost: waits that returned since t0

vars == <<count, dur, startAge, emu, sf, t0Age, t0Dur, acct, done>>

Older(age) == IF age < MaxAge THEN age + 1 ELSE MaxAge
Sooner(left) == IF left > 0 THEN left - 1 ELSE 0
Bounded(n) == IF n <= MaxCycles + 1 THEN n ELSE MaxCycles + 1

\* Resetting the ghost schedule: t0 := now, no cycle accounted since.
NewTimeline == t0Age' = 0 /\ acct' = 0 /\ done' = 0

\* The sleep spec 4.B's atomic wait would choose now: until
\* t0 + (acct + 1) * duration.
SpecSleep ==
  LET target == (acct + 1) * t0Dur IN IF target > t0Age THEN target - t0Age ELSE 0

\* While cpu_set_clock_frequency is in progress, spec 4.B's atomic
\* set_frequency may be placed before the wait as well: a new timeline at
\* the new duration, whose first wait sleeps one cycle of it.
SpecSleepAny ==
  IF sf.pc = "idle" \/ SpecSleep >= dur THEN SpecSleep ELSE dur

TypeOK ==
  /\ count \in 0 .. MaxCycles
  /\ dur \in Durations /\ t0Dur \in Durations
  /\ startAge \in 0 .. MaxAge /\ t0Age \in 0 .. MaxAge
  /\ emu.pc \in {"top", "time", "sleep", "load", "store"}
  /\ emu.expected \in 0 .. MaxAge /\ emu.remaining \in 0 .. MaxAge
  /\ emu.loaded \in 0 .. MaxCycles /\ emu.specLeft \in 0 .. MaxAge + MaxDur
  /\ sf.pc \in {"idle", "count", "start"}
  /\ acct \in 0 .. MaxCycles + 1 /\ done \in 0 .. MaxCycles + 1

\* clock_init: cycle_count 0, cycle_duration 1 / frequency, start_time now.
Init ==
  /\ count = 0
  /\ dur = InitDur
  /\ startAge = 0
  /\ emu = [pc |-> "top", expected |-> 0, remaining |-> 0, loaded |-> 0, specLeft |-> 0]
  /\ sf = [pc |-> "idle"]
  /\ t0Age = 0
  /\ t0Dur = InitDur
  /\ acct = 0
  /\ done = 0

-----------------------------------------------------------------------------
(* The emulation thread.                                                   *)

\* cpu_execute_instruction entering an interrupt: cycle_count += 7.
Advance ==
  /\ emu.pc = "top"
  /\ count + InterruptCycles < MaxCycles
  /\ count' = count + InterruptCycles
  /\ acct' = Bounded(acct + InterruptCycles)
  /\ UNCHANGED <<dur, startAge, emu, sf, t0Age, t0Dur, done>>

\* Line 85: expected_time = (cycle_count + 1) * cycle_duration.  The ghost
\* specLeft is the sleep of spec 4.B's atomic wait, were it to happen here.
ReadSchedule ==
  /\ emu.pc = "top"
  /\ count < MaxCycles
  /\ emu' = [emu EXCEPT !.pc = "time", !.expected = (count + 1) * dur, !.specLeft = SpecSleepAny]
  /\ UNCHANGED <<count, dur, startAge, sf, t0Age, t0Dur, acct, done>>

\* Lines 86-127: current_time = now - start_time; sleep for the difference
\* if it is positive.  The atomic wait may equally happen here, so specLeft
\* becomes the longer of the two.
ReadTime ==
  /\ emu.pc = "time"
  /\ LET specLeft == IF SpecSleepAny > emu.specLeft THEN SpecSleepAny ELSE emu.specLeft IN
     IF emu.expected > startAge
       THEN emu' = [emu EXCEPT !.pc = "sleep", !.remaining = emu.expected - startAge,
                               !.specLeft = specLeft]
       ELSE emu' = [emu EXCEPT !.pc = "load", !.specLeft = specLeft]
  /\ UNCHANGED <<count, dur, startAge, sf, t0Age, t0Dur, acct, done>>

\* nanosleep returns once the requested time has passed.
Wake ==
  /\ emu.pc = "sleep" /\ emu.remaining = 0
  /\ emu' = [emu EXCEPT !.pc = "load"]
  /\ UNCHANGED <<count, dur, startAge, sf, t0Age, t0Dur, acct, done>>

\* Line 131, cycle_count++, a load and a store that other threads' writes
\* can fall between.  (elapsed_time, line 130, is never read.)
LoadCount ==
  /\ emu.pc = "load"
  /\ emu' = [emu EXCEPT !.pc = "store", !.loaded = count]
  /\ UNCHANGED <<count, dur, startAge, sf, t0Age, t0Dur, acct, done>>

StoreCount ==
  /\ emu.pc = "store"
  /\ count' = emu.loaded + 1
  /\ emu' = [emu EXCEPT !.pc = "top"]
  /\ acct' = Bounded(acct + 1)
  /\ done' = Bounded(done + 1)
  /\ UNCHANGED <<dur, startAge, sf, t0Age, t0Dur>>

-----------------------------------------------------------------------------
(* The input thread.                                                       *)

\* cpu_set_clock_frequency, lines 1699-1700: frequency and cycle_duration.
SetDuration(d) ==
  /\ "set_frequency" \in Callers
  /\ sf.pc = "idle"
  /\ dur' = d
  /\ sf' = [pc |-> "count"]
  /\ UNCHANGED <<count, startAge, emu, t0Age, t0Dur, acct, done>>

\* clock_reset, lines 140-141: cycle_count = 0, elapsed_time = 0.
ResetCount ==
  /\ sf.pc = "count"
  /\ count' = 0
  /\ sf' = [pc |-> "start"]
  /\ UNCHANGED <<dur, startAge, emu, t0Age, t0Dur, acct, done>>

\* clock_reset, line 147: start_time = now.  Spec 4.B's atomic rebase to
\* the new frequency is placed here.
Rebase ==
  /\ sf.pc = "start"
  /\ startAge' = 0
  /\ sf' = [pc |-> "idle"]
  /\ NewTimeline
  /\ t0Dur' = dur
  /\ UNCHANGED <<count, dur, emu>>

\* cpu_reset, line 1512: cycle_count = 0, start_time left alone.  Spec 3
\* and 4.F make reset capture t0 and zero the counter.
CpuReset ==
  /\ "reset" \in Callers
  /\ count' = 0
  /\ NewTimeline
  /\ UNCHANGED <<dur, startAge, emu, sf, t0Dur>>

-----------------------------------------------------------------------------
(* Wall time.                                                              *)

Tick ==
  /\ startAge' = Older(startAge)
  /\ t0Age' = Older(t0Age)
  /\ emu' = [emu EXCEPT !.remaining = IF emu.pc = "sleep" THEN Sooner(@) ELSE @,
                        !.specLeft = Sooner(@)]
  /\ UNCHANGED <<count, dur, sf, t0Dur, acct, done>>

Emulator == Advance \/ ReadSchedule \/ ReadTime \/ Wake \/ LoadCount \/ StoreCount
Input == (\E d \in Durations : SetDuration(d)) \/ ResetCount \/ Rebase \/ CpuReset

Next == Emulator \/ Input \/ Tick

Spec == Init /\ [][Next]_vars /\ WF_vars(Tick)

-----------------------------------------------------------------------------
(***************************************************************************)
(* Spec 4.B: wait_next_cycle sleeps until t0 + cycle_count / freq, so the *)
(* n-th wait to return since t0 returns no earlier than (n - 1) cycles    *)
(* after t0 (one wait may have read its target before t0 moved).  After  *)
(* cpu_reset zeroes cycle_count but keeps start_time, the waits compute   *)
(* targets in the past and return at once: the program runs unpaced.    *)
(***************************************************************************)
PacedSinceReset == done * t0Dur <= t0Age + t0Dur

(***************************************************************************)
(* A wait never sleeps past the time spec 4.B's wait would wake it: the   *)
(* schedule t0 + (cycle_count + 1) / freq as it stood when the wait began, *)
(* or one cycle of the new frequency if set_frequency, an atomic rebase   *)
(* there, is placed first.  In the code the wait reads                    *)
(* cycle_count and cycle_duration at line 85 and start_time at line 86,   *)
(* and cpu_set_clock_frequency writes them one by one, so the wait can     *)
(* combine the old count or the new duration with the other timeline's   *)
(* start and sleep for up to the whole count again.                      *)
(***************************************************************************)
SleepWithinSchedule == emu.pc = "sleep" => emu.remaining <= emu.specLeft
=============================================================================
