---------------------------- MODULE AddressSpace ----------------------------
(***************************************************************************)
(* The path of a guest memory access, single-threaded: cpu_read and     *)
(* cpu_write (src/cpu_6502.c) intercept the serial ports and pass every  *)
(* other address to the bus, which routes it to a memory device: plain   *)
(* RAM (src/memory.c) or monitored RAM (monitored_ram_write), whose      *)
(* writes to 0x6000-0x6002 also enqueue output.  The bus's routing is    *)
(* declared in src/bus.h; its definitions are not in the repository and  *)
(* follow spec 4.E.  On top of the path: cpu_load_program, and the       *)
(* single-threaded part of load_binary (vector writes and cpu_reset).    *)
(*                                                                         *)
(* A machine m is a record: the devices and their bytes, the bus table,  *)
(* the input and output queues and PC.  A device's bytes are a function  *)
(* over the indices written so far; every other index holds the 0 that   *)
(* calloc and memset leave.  The queues are unbounded here (their         *)
(* capacity is SerialIO's concern).  An output element is a character,   *)
(* or a status message given by what selects its text: its hook, whether *)
(* the byte was 0, and the error code it prints.                          *)
(***************************************************************************)
EXTENDS Naturals, Sequences, SequencesExt, Bitwise

Addrs == 0 .. 65535
InputAddr == \hD011            \* INPUT_ADDR
OutputAddr == \hD012           \* OUTPUT_ADDR
OutputChar == \h6000           \* MONITORED_ADDR_OUTPUT_CHAR
TestStatus == \h6001           \* MONITORED_ADDR_TEST_STATUS
AdditionalStatus == \h6002     \* MONITORED_ADDR_ADDITIONAL_STATUS

Char(b) == [kind |-> "char", code |-> b]
Message(kind, b) == [kind |-> kind, passed |-> b = 0, code |-> b]

Get(f, i) == IF i \in DOMAIN f THEN f[i] ELSE 0
Put(f, i, b) == (i :> b) @@ f

\* memory_create_ram; memory_create_monitored_ram refuses a size that is
\* zero or not a power of two (its reads and writes mask the address).
CreateRam(size) == [kind |-> "ram", size |-> size]
CreateMonitored(size) ==
  IF size = 0 \/ (size & (size - 1)) # 0 THEN "null"
  ELSE [kind |-> "monitored", size |-> size]

\* ram_read / ram_write: out-of-range reads give 0xFF, writes are dropped.
RamRead(d, f, a) == IF a >= d.size THEN 255 ELSE Get(f, a)
RamWrite(d, f, a, b) == IF a >= d.size THEN f ELSE Put(f, a, b)

\* monitored_ram_read / monitored_ram_write: the store is at the masked
\* index; the hooks dispatch on the unmasked address.
Masked(d, a) == a & (d.size - 1)
MonitoredRead(d, f, a) == Get(f, Masked(d, a))
Hooks(a, b) ==
  CASE a = OutputChar       -> <<Char(b)>>
    [] a = TestStatus       -> <<Message("test", b)>>
    [] a = AdditionalStatus -> <<Message("additional", b)>>
    [] OTHER                -> <<>>

\* bus_read / bus_write (spec 4.E): the first entry, in connection order,
\* whose range holds the address; no entry reads 0xFF and drops writes.
Route(m, a) == {i \in DOMAIN m.bus : m.bus[i].start <= a /\ a <= m.bus[i].end}
BusRead(m, a) ==
  IF Route(m, a) = {} THEN 255
  ELSE LET i == m.bus[Min(Route(m, a))].dev
           d == m.devs[i]
       IN IF d.kind = "ram" THEN RamRead(d, m.data[i], a)
          ELSE MonitoredRead(d, m.data[i], a)
BusWrite(m, a, b) ==
  IF Route(m, a) = {} THEN m
  ELSE LET i == m.bus[Min(Route(m, a))].dev
           d == m.devs[i]
       IN IF d.kind = "ram"
            THEN [m EXCEPT !.data[i] = RamWrite(d, @, a, b)]
            ELSE [m EXCEPT !.data[i] = Put(@, Masked(d, a), b),
                           !.out = @ \o Hooks(a, b)]

\* cpu_read: 0xD011 dequeues an input byte, or reads 0x00 when there is
\* none; a read is the pair of the machine after it and the byte.
CpuRead(m, a) ==
  IF a = InputAddr
    THEN IF m.inq # <<>> THEN <<[m EXCEPT !.inq = Tail(@)], Head(m.inq)>>
         ELSE <<m, 0>>
    ELSE <<m, BusRead(m, a)>>

\* A mutant of CpuWrite: 0xD012 is also written through to the bus.
CpuWriteThrough(m, a, b) ==
  LET m1 == BusWrite(m, a, b)
  IN IF a = OutputAddr THEN [m1 EXCEPT !.out = Append(@, Char(b))] ELSE m1

\* cpu_write: 0xD012 enqueues the byte and stores nothing.
CpuWrite(m, a, b) ==
  IF a = OutputAddr THEN [m EXCEPT !.out = Append(@, Char(b))]
  ELSE BusWrite(m, a, b)

\* cpu_load_program after the file is read (an empty file fails with
\* CPU_ERROR_READ_FAILED): each byte through cpu_write at addr + i, in
\* uint16_t, then the reset vector.
LoadProgram(m, addr, image) ==
  LET put(mm, i) == CpuWrite(mm, (addr + i - 1) % 65536, image[i])
      loaded == FoldLeft(put, m, [i \in 1 .. Len(image) |-> i])
  IN CpuWrite(CpuWrite(loaded, \hFFFC, addr % 256), \hFFFD, addr \div 256)

\* A mutant of ResetPC: the bytes of the vector swapped.
ResetPCSwapped(m) == 256 * CpuRead(m, \hFFFC)[2] + CpuRead(m, \hFFFD)[2]

\* cpu_reset's PC: the vector read back through cpu_read, low byte first.
ResetPC(m) == CpuRead(m, \hFFFC)[2] + 256 * CpuRead(m, \hFFFD)[2]

\* load_binary run alone: the load, the vector written again, cpu_reset,
\* queue_clear of the output queue and the PC check.
LoadBinary(m, addr, image) ==
  IF image = <<>> THEN [ok |-> FALSE, m |-> m]
  ELSE LET m1 == CpuWrite(CpuWrite(LoadProgram(m, addr, image),
                                   \hFFFC, addr % 256), \hFFFD, addr \div 256)
           m2 == [m1 EXCEPT !.pc = ResetPC(m1), !.out = <<>>]
       IN [ok |-> m2.pc = addr, m |-> m2]

-----------------------------------------------------------------------------
(* The two configurations the program builds: main.c maps one 64 KiB     *)
(* monitored RAM over 0x0000-0xFFFF; the test drivers map one 64 KiB     *)
(* plain RAM the same way.  One key is waiting in the input queue.       *)
Machine(dev) ==
  [devs |-> <<dev>>, data |-> <<<<>>>>,
   bus |-> <<[dev |-> 1, start |-> 0, end |-> 65535]>>,
   inq |-> <<\h41>>, out |-> <<>>, pc |-> 0]
MainMachine == Machine(CreateMonitored(\h10000))
TestMachine == Machine(CreateRam(\h10000))

(* The guest's view, from the spec (4.A, 4.D, 5, memory map): one byte    *)
(* per address, the ports intercepted, and with monitored RAM the status  *)
(* hooks after the store.                                                *)
RefHook(a, b) ==
  IF a = OutputChar THEN <<Char(b)>>
  ELSE IF a \in {TestStatus, AdditionalStatus}
    THEN <<Message(IF a = TestStatus THEN "test" ELSE "additional", b)>>
  ELSE <<>>
RefRead(g, a) ==
  IF a # InputAddr THEN <<g, Get(g.mem, a)>>
  ELSE IF g.inq = <<>> THEN <<g, 0>>
  ELSE <<[g EXCEPT !.inq = Tail(@)], Head(g.inq)>>
RefWrite(g, a, b, monitored) ==
  IF a = OutputAddr THEN [g EXCEPT !.out = Append(@, Char(b))]
  ELSE [g EXCEPT !.mem = Put(@, a, b),
                 !.out = @ \o (IF monitored THEN RefHook(a, b) ELSE <<>>)]

\* Accesses at the ports, the hooks, zero page and the top of memory, as
\* a list: 14 writes of 0x00 or 'A', then 4 reads.
WriteAddrs == <<2, OutputChar, TestStatus, AdditionalStatus, InputAddr,
                OutputAddr, \hFFFF>>
ReadAddrs == <<2, TestStatus, InputAddr, OutputAddr>>
OpList ==
  [i \in 1 .. 14 |-> [op |-> "write", a |-> WriteAddrs[(i - 1) \div 2 + 1],
                      b |-> IF i % 2 = 1 THEN 0 ELSE \h41]]
  \o [i \in 1 .. 4 |-> [op |-> "read", a |-> ReadAddrs[i]]]

\* Case k, for k < AccessCases: a configuration and a sequence of up to
\* three accesses, its digits base 19 (digit 0: no access).
Machines == <<MainMachine, TestMachine>>
PerMachine == 19 * 19 * 19
AccessCases == 2 * PerMachine
CaseOps(k) ==
  LET r == k % PerMachine
      digits == SelectSeq(<<r % 19, (r \div 19) % 19, r \div 361>>,
                          LAMBDA d : d # 0)
  IN [j \in DOMAIN digits |-> OpList[digits[j]]]

\* Applies accesses to a machine (Do) or to the guest's view (RefDo),
\* collecting the bytes read.
Do(st, o) ==
  IF o.op = "write" THEN <<CpuWrite(st[1], o.a, o.b), st[2]>>
  ELSE LET r == CpuRead(st[1], o.a) IN <<r[1], Append(st[2], r[2])>>
RefDo(monitored, st, o) ==
  IF o.op = "write" THEN <<RefWrite(st[1], o.a, o.b, monitored), st[2]>>
  ELSE LET r == RefRead(st[1], o.a) IN <<r[1], Append(st[2], r[2])>>

(***************************************************************************)
(* The memory map the guest sees: for every sequence of up to three reads *)
(* and writes, in both configurations, cpu_read and cpu_write through the *)
(* bus and the device give the bytes and the output of one byte per       *)
(* address with 0xD011/0xD012 intercepted and 0x6000-0x6002 hooked: a     *)
(* port write leaves memory alone, a hooked write still stores, and the   *)
(* masking of monitored RAM aliases nothing.  Case k of AccessCases.      *)
(***************************************************************************)
AccessesMatchMemoryMap(k) ==
  k < AccessCases =>
    LET m == Machines[k \div PerMachine + 1]
        refDo(st, o) == RefDo(k < PerMachine, st, o)
        impl == FoldLeft(Do, <<m, <<>>>>, CaseOps(k))
        ref == FoldLeft(refDo, <<[mem |-> <<>>, inq |-> m.inq, out |-> <<>>], <<>>>>,
                        CaseOps(k))
    IN impl[2] = ref[2] /\ impl[1].out = ref[1].out

\* Load addresses of the ports, the hooks, main.c's default and the top of
\* memory, with images that wrap past 0xFFFF and cover the vectors.
Bases == <<\h6000, \hC000, \hD011, \hFFFB>>
Images == <<<<0, 1, 2>>, <<\h60, \h40, 0, \hC0, 7, 8>>>>
LoadCases == 2 * 4 * 2

(***************************************************************************)
(* load_binary, run alone, passes its PC check and leaves nothing in the  *)
(* output queue, for any load address and image: also when the image     *)
(* wraps past 0xFFFF, overwrites the reset vector, or covers the ports   *)
(* and hooks, whose output the load itself produces.  So a failed check  *)
(* is always the other thread's doing (EmulatorLoop's LoadNeverFails).   *)
(* Case k of LoadCases.                                                  *)
(***************************************************************************)
LoadBinaryPassesCheck(k) ==
  k < LoadCases =>
    LET r == LoadBinary(Machines[(k % 2) + 1], Bases[((k \div 2) % 4) + 1],
                        Images[k \div 8 + 1])
    IN r.ok /\ r.m.out = <<>>
=============================================================================
