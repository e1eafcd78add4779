--------------------------------- MODULE Alu ---------------------------------
(***************************************************************************)
(* The add and subtract data paths of src/cpu_6502.c: instr_adc and       *)
(* instr_sbc in binary and decimal mode, as pure operators from (A,       *)
(* operand, P) to the new (A, P).  They are checked against reference      *)
(* definitions written in plain integer arithmetic: the sum or difference *)
(* as a number, signed overflow as leaving -128 .. 127, and BCD as the    *)
(* decimal value of two digits.                                           *)
(*                                                                         *)
(* The behaviour is a walk over every input (A, operand, carry): the      *)
(* variable `input` counts through them, and the invariants compare the   *)
(* code's result with the reference at every one.                         *)
(***************************************************************************)
EXTENDS Integers, Bitwise

Bytes == 0 .. 255

\* The flag bit numbers of cpu_6502.h.
FlagC == 0
FlagZ == 1
FlagD == 3
FlagV == 6
FlagN == 7

\* get_flag / set_flag and update_zero_and_negative_flags (declared in
\* cpu_6502.h, defined outside src/).
Flag(p, f) == (p \div 2^f) % 2
WithFlag(p, f, on) == p - Flag(p, f) * 2^f + (IF on THEN 2^f ELSE 0)
UpdateZN(p, r) == WithFlag(WithFlag(p, FlagZ, r = 0), FlagN, r >= 128)

Bit7(x) == (x \div 128) % 2
Bit6(x) == (x \div 64) % 2

\* (int8_t) of a byte.
Signed(x) == IF x >= 128 THEN x - 256 ELSE x

\* A mutant of AdcBinary: the overflow test of SBC, ~ dropped.
AdcBinaryOverflowOfSbc(a, v, p) ==
  LET sum == a + v + Flag(p, FlagC)
      result == sum % 256
      p1 == WithFlag(p, FlagC, sum > 255)
      p2 == WithFlag(p1, FlagV, Bit7(a ^^ v) = 1 /\ Bit7(a ^^ result) = 1)
  IN  [a |-> result, p |-> UpdateZN(p2, result)]

\* instr_adc, binary branch: 9-bit sum, C the ninth bit,
\* V = (~(A ^ value) & (A ^ result) & 0x80) != 0.
AdcBinary(a, v, p) ==
  LET sum == a + v + Flag(p, FlagC)
      result == sum % 256
      p1 == WithFlag(p, FlagC, sum > 255)
      p2 == WithFlag(p1, FlagV, Bit7(a ^^ v) = 0 /\ Bit7(a ^^ result) = 1)
  IN  [a |-> result, p |-> UpdateZN(p2, result)]

\* A mutant of AdcDecimal: the low digit is adjusted only above 10.
AdcDecimalLateAdjust(a, v, p) ==
  LET al0 == (a % 16) + (v % 16) + Flag(p, FlagC)
      ah0 == a \div 16 + v \div 16
      al == IF al0 > 10 THEN al0 - 10 ELSE al0
      ah1 == IF al0 > 10 THEN ah0 + 1 ELSE ah0
      ah == IF ah1 > 9 THEN ah1 - 10 ELSE ah1
      result == (ah * 16 + (al % 16)) % 256
  IN  [a |-> result, p |-> UpdateZN(WithFlag(p, FlagC, ah1 > 9), result)]

\* instr_adc, decimal branch: digit sums al and ah (uint8_t), one
\* adjustment of each, C from the high digit, Z and N from the BCD byte,
\* V untouched.
AdcDecimal(a, v, p) ==
  LET al0 == (a % 16) + (v % 16) + Flag(p, FlagC)
      ah0 == a \div 16 + v \div 16
      al == IF al0 > 9 THEN al0 - 10 ELSE al0
      ah1 == IF al0 > 9 THEN ah0 + 1 ELSE ah0
      ah == IF ah1 > 9 THEN ah1 - 10 ELSE ah1
      result == (ah * 16 + (al % 16)) % 256
  IN  [a |-> result, p |-> UpdateZN(WithFlag(p, FlagC, ah1 > 9), result)]

Adc(a, v, p) ==
  IF Flag(p, FlagD) = 1 THEN AdcDecimal(a, v, p) ELSE AdcBinary(a, v, p)

\* A mutant of SbcBinary: the carry is used as the borrow, not inverted.
SbcBinaryCarryAsBorrow(a, v, p) ==
  LET diff == (a - v - Flag(p, FlagC)) % 65536
      result == diff % 256
      p1 == WithFlag(p, FlagC, diff < 256)
      p2 == WithFlag(p1, FlagV, Bit7(a ^^ v) = 1 /\ Bit7(a ^^ result) = 1)
  IN  [a |-> result, p |-> UpdateZN(p2, result)]

\* instr_sbc, binary branch: borrow = !C, diff = A - value - borrow in a
\* uint16_t, C = diff < 0x100, V = ((A ^ value) & (A ^ result) & 0x80) != 0.
SbcBinary(a, v, p) ==
  LET diff == (a - v - (1 - Flag(p, FlagC))) % 65536
      result == diff % 256
      p1 == WithFlag(p, FlagC, diff < 256)
      p2 == WithFlag(p1, FlagV, Bit7(a ^^ v) = 1 /\ Bit7(a ^^ result) = 1)
  IN  [a |-> result, p |-> UpdateZN(p2, result)]

\* instr_sbc, decimal branch: empty, so A and P are left as they were.
SbcDecimal(a, v, p) == [a |-> a, p |-> p]

Sbc(a, v, p) ==
  IF Flag(p, FlagD) = 1 THEN SbcDecimal(a, v, p) ELSE SbcBinary(a, v, p)

-----------------------------------------------------------------------------
(* Logic, compare, shift and increment instructions.  Each takes the byte *)
(* it reads (the accumulator, an index register or memory) and P, and     *)
(* gives the byte it writes back and the new P.  The page-crossing cycle  *)
(* some of them add to clock.cycle_count is left out (see README).        *)

\* instr_and, instr_ora, instr_eor: A op= M, Z and N of A.
AndOp(a, v, p) ==
  [a |-> a & v, p |-> UpdateZN(p, a & v)]
Ora(a, v, p) ==
  [a |-> a | v, p |-> UpdateZN(p, a | v)]
Eor(a, v, p) ==
  [a |-> a ^^ v, p |-> UpdateZN(p, a ^^ v)]

\* A mutant of Bit: N and Z are both taken from A & M.
BitFlagsFromResult(a, v, p) ==
  [a |-> a, p |-> WithFlag(UpdateZN(p, a & v), FlagV, Bit6(v) = 1)]

\* instr_bit: Z from A & M, V and N from bits 6 and 7 of M; A unchanged.
Bit(a, v, p) ==
  [a |-> a,
   p |-> WithFlag(WithFlag(WithFlag(p, FlagZ, (a & v) = 0),
                           FlagV, Bit6(v) = 1), FlagN, Bit7(v) = 1)]

\* A mutant of Cmp: C set only when the register is strictly greater.
CmpStrict(r, v, p) ==
  [a |-> r, p |-> UpdateZN(WithFlag(p, FlagC, r > v), (r - v) % 256)]

\* instr_cmp, instr_cpx, instr_cpy: result = (uint8_t)(reg - M),
\* C = reg >= M, Z and N of the result; the register is unchanged.
Cmp(r, v, p) ==
  [a |-> r, p |-> UpdateZN(WithFlag(p, FlagC, r >= v), (r - v) % 256)]
Cpx(r, v, p) ==
  [a |-> r, p |-> UpdateZN(WithFlag(p, FlagC, r >= v), (r - v) % 256)]
Cpy(r, v, p) ==
  [a |-> r, p |-> UpdateZN(WithFlag(p, FlagC, r >= v), (r - v) % 256)]

\* instr_asl (memory) and instr_asl_accumulator:
\* C = bit 7, value <<= 1 in a uint8_t.
Asl(v, p) ==
  [a |-> (2 * v) % 256, p |-> UpdateZN(WithFlag(p, FlagC, Bit7(v) = 1), (2 * v) % 256)]
AslAccumulator(v, p) ==
  [a |-> (2 * v) % 256, p |-> UpdateZN(WithFlag(p, FlagC, Bit7(v) = 1), (2 * v) % 256)]

\* instr_lsr and instr_lsr_accumulator: C = bit 0, value >>= 1.
Lsr(v, p) == [a |-> v \div 2, p |-> UpdateZN(WithFlag(p, FlagC, v % 2 = 1), v \div 2)]
LsrAccumulator(v, p) ==
  [a |-> v \div 2, p |-> UpdateZN(WithFlag(p, FlagC, v % 2 = 1), v \div 2)]

\* instr_rol and instr_rol_accumulator: the old C enters bit 0, bit 7
\* leaves into C.
Rol(v, p) ==
  LET r == (2 * v + Flag(p, FlagC)) % 256
  IN  [a |-> r, p |-> UpdateZN(WithFlag(p, FlagC, Bit7(v) = 1), r)]
RolAccumulator(v, p) ==
  LET r == (2 * v + Flag(p, FlagC)) % 256
  IN  [a |-> r, p |-> UpdateZN(WithFlag(p, FlagC, Bit7(v) = 1), r)]

\* A mutant of RorAccumulator: the old C is shifted into bit 6.
RorAccumulatorCarryToBit6(v, p) ==
  LET r == v \div 2 + 64 * Flag(p, FlagC)
  IN  [a |-> r, p |-> UpdateZN(WithFlag(p, FlagC, v % 2 = 1), r)]

\* instr_ror and instr_ror_accumulator: the old C enters bit 7, bit 0
\* leaves into C.
Ror(v, p) ==
  LET r == v \div 2 + 128 * Flag(p, FlagC)
  IN  [a |-> r, p |-> UpdateZN(WithFlag(p, FlagC, v % 2 = 1), r)]
RorAccumulator(v, p) ==
  LET r == v \div 2 + 128 * Flag(p, FlagC)
  IN  [a |-> r, p |-> UpdateZN(WithFlag(p, FlagC, v % 2 = 1), r)]

\* instr_inc, instr_dec (memory) and instr_inx, instr_iny, instr_dex,
\* instr_dey: the uint8_t wraps, Z and N of the new value.
Inc(v, p) == [a |-> (v + 1) % 256, p |-> UpdateZN(p, (v + 1) % 256)]
Inx(v, p) == [a |-> (v + 1) % 256, p |-> UpdateZN(p, (v + 1) % 256)]
Iny(v, p) == [a |-> (v + 1) % 256, p |-> UpdateZN(p, (v + 1) % 256)]

\* A mutant of Dec: Z and N are set from the value before the decrement.
DecFlagsBefore(v, p) == [a |-> (v + 255) % 256, p |-> UpdateZN(p, v)]

Dec(v, p) == [a |-> (v + 255) % 256, p |-> UpdateZN(p, (v + 255) % 256)]
Dex(v, p) == [a |-> (v + 255) % 256, p |-> UpdateZN(p, (v + 255) % 256)]
Dey(v, p) == [a |-> (v + 255) % 256, p |-> UpdateZN(p, (v + 255) % 256)]

-----------------------------------------------------------------------------
(* Indexed and relative addressing: effective_address_t as a record of    *)
(* the address and page_crossed.  `& 0xFF00` is the page, x \div 256.     *)

Page(x) == x \div 256

\* addr_zero_page_x / addr_zero_page_y: (operand + X) & 0xFF.
ZeroPageX(zp, x) == (zp + x) % 256
ZeroPageY(zp, y) == (zp + y) % 256

\* The zero-page addresses addr_indirect_x and addr_indirect_y read the
\* pointer's low and high byte from: (operand + X) & 0xFF and the next
\* byte, wrapping within page zero.
IndirectXPointer(zp, x) == LET base == (zp + x) % 256 IN <<base, (base + 1) % 256>>
IndirectYPointer(zp) == <<zp, (zp + 1) % 256>>

\* A mutant of AbsoluteX: page_crossed compares the low bytes (0x00FF).
AbsoluteXLowBytes(base, x) ==
  LET eff == (base + x) % 65536 IN [address |-> eff, crossed |-> base % 256 # eff % 256]

\* addr_absolute_x / addr_absolute_y: base_address + X on a uint16_t.
AbsoluteX(base, x) ==
  LET eff == (base + x) % 65536 IN [address |-> eff, crossed |-> Page(base) # Page(eff)]
AbsoluteY(base, y) ==
  LET eff == (base + y) % 65536 IN [address |-> eff, crossed |-> Page(base) # Page(eff)]

\* addr_indirect_y after its two zero-page reads: base_address is
\* (high << 8) | low, plus Y on a uint16_t.
IndirectY(low, high, y) ==
  LET base == 256 * high + low
      eff == (base + y) % 65536
  IN  [address |-> eff, crossed |-> Page(base) # Page(eff)]

\* addr_relative: PC (already past the offset byte) plus the int8_t
\* offset, on a uint16_t.
Relative(pc, offset) ==
  LET eff == (pc + Signed(offset)) % 65536
  IN  [address |-> eff, crossed |-> Page(pc) # Page(eff)]

\* The shape of every instr_bxx: when the flag condition holds, PC :=
\* ea.address and cycle_count += 1, and 1 more on a page crossing.
Branch(taken, pc, offset) ==
  LET ea == Relative(pc, offset) IN
  IF taken THEN [pc |-> ea.address, extra |-> IF ea.crossed THEN 2 ELSE 1]
           ELSE [pc |-> pc, extra |-> 0]

Bcc(p, pc, off) == Branch(Flag(p, FlagC) = 0, pc, off)
Bcs(p, pc, off) == Branch(Flag(p, FlagC) = 1, pc, off)
Beq(p, pc, off) == Branch(Flag(p, FlagZ) = 1, pc, off)
Bmi(p, pc, off) == Branch(Flag(p, FlagN) = 1, pc, off)
Bpl(p, pc, off) == Branch(Flag(p, FlagN) = 0, pc, off)
Bvc(p, pc, off) == Branch(Flag(p, FlagV) = 0, pc, off)
Bvs(p, pc, off) == Branch(Flag(p, FlagV) = 1, pc, off)

\* A mutant of Bne: the condition tests Z set.
BneInverted(p, pc, off) == Branch(Flag(p, FlagZ) = 1, pc, off)

Bne(p, pc, off) == Branch(Flag(p, FlagZ) = 0, pc, off)

-----------------------------------------------------------------------------
(* Reference definitions.                                                  *)

IsBcd(x) == x % 16 <= 9 /\ x \div 16 <= 9
BcdValue(x) == 10 * (x \div 16) + (x % 16)
ToBcd(n) == 16 * (n \div 10) + (n % 10)

\* What an instruction leaves that the references speak of: the
\* accumulator and the C, Z, N and V flags.
Outcome(r) ==
  [a |-> r.a, c |-> Flag(r.p, FlagC) = 1, z |-> Flag(r.p, FlagZ) = 1,
   n |-> Flag(r.p, FlagN) = 1, v |-> Flag(r.p, FlagV) = 1]

RefAdcBinary(a, v, c) ==
  LET s == a + v + c IN
  [a |-> s % 256, c |-> s > 255, z |-> s % 256 = 0, n |-> s % 256 >= 128,
   v |-> Signed(a) + Signed(v) + c \notin -128 .. 127]

RefSbcBinary(a, v, c) ==
  LET d == a - v - (1 - c) IN
  [a |-> d % 256, c |-> d >= 0, z |-> d % 256 = 0, n |-> d % 256 >= 128,
   v |-> Signed(a) - Signed(v) - (1 - c) \notin -128 .. 127]

\* BCD: the digits' value, C the decimal carry (or no borrow), Z and N
\* from the byte binary mode would have produced (NMOS 6502, spec 4.F).
RefAdcDecimal(a, v, c) ==
  LET s == BcdValue(a) + BcdValue(v) + c IN
  [a |-> ToBcd(s % 100), c |-> s >= 100,
   z |-> (a + v + c) % 256 = 0, n |-> (a + v + c) % 256 >= 128]

RefSbcDecimal(a, v, c) ==
  LET d == BcdValue(a) - BcdValue(v) - (1 - c) IN
  [a |-> ToBcd(d % 100), c |-> d >= 0,
   z |-> (a - v - (1 - c)) % 256 = 0, n |-> (a - v - (1 - c)) % 256 >= 128]

\* A byte built bit by bit from a truth table over the bits of a and v.
RECURSIVE BitMerge(_, _, _, _)
BitMerge(a, v, table, i) ==
  IF i = 8 THEN 0
  ELSE 2^i * table[(a \div 2^i) % 2, (v \div 2^i) % 2] + BitMerge(a, v, table, i + 1)
AndTable == [x \in 0 .. 1, y \in 0 .. 1 |-> x * y]
OrTable  == [x \in 0 .. 1, y \in 0 .. 1 |-> IF x + y > 0 THEN 1 ELSE 0]
XorTable == [x \in 0 .. 1, y \in 0 .. 1 |-> (x + y) % 2]

\* The outcome of an instruction that writes byte r, sets C to c and
\* leaves V as it was (v).
RefWrites(r, c, v) == [a |-> r, c |-> c, z |-> r = 0, n |-> r >= 128, v |-> v]

\* A shift or rotate as a 9-bit word: C above the byte (left) or below it
\* (right).
RefLeft(v, cin) == LET w == 2 * v + cin IN RefWrites(w % 256, w >= 256, FALSE)
RefRight(v, cin) == LET w == 256 * cin + v IN RefWrites(w \div 2, w % 2 = 1, FALSE)

\* Indexing a 16-bit base by an unsigned byte, or a PC by a signed one,
\* written as a carry out of the low byte into the page.
RefIndexed(lo, hi, x) ==
  IF lo + x > 255 THEN [address |-> 256 * ((hi + 1) % 256) + (lo + x - 256), crossed |-> TRUE]
  ELSE [address |-> 256 * hi + lo + x, crossed |-> FALSE]
RefRelative(lo, hi, off) ==
  LET t == lo + Signed(off) IN
  IF t \in 0 .. 255 THEN [address |-> 256 * hi + t, crossed |-> FALSE]
  ELSE [address |-> 256 * ((hi + t \div 256) % 256) + (t % 256), crossed |-> TRUE]

-----------------------------------------------------------------------------
VARIABLE input   \* the index of the input under test

InputCount == 256 * 256 * 2
A == input % 256
Operand == (input \div 256) % 256
Carry == input \div 65536

\* The status register an input starts from: C as given, D clear or set.
PBinary == Carry
PDecimal == Carry + 2^FlagD

\* The page of a base address or PC: page 0 and page 0xFF, so that both
\* wraps of the 16-bit address happen.
HiByte == IF Carry = 0 THEN 0 ELSE \hFF

Init == input = 0
NextInput == input' = (input + 1) % InputCount
Spec == Init /\ [][NextInput]_input

-----------------------------------------------------------------------------
(***************************************************************************)
(* Binary ADC gives the 8-bit sum, the carry out, the signed overflow and  *)
(* Z and N of the sum, for every accumulator, operand and carry.  The code *)
(* computes V from the sign bits with ~(A ^ value) & (A ^ result).         *)
(***************************************************************************)
AdcBinaryMatchesReference ==
  LET r == Outcome(Adc(A, Operand, PBinary)) IN
  r = RefAdcBinary(A, Operand, Carry)

(***************************************************************************)
(* Binary SBC gives A - M - !C modulo 256, C set iff no borrow, the signed *)
(* overflow and Z and N of the difference.  The code inverts C into a      *)
(* borrow and tests diff < 0x100 on a uint16_t.                            *)
(***************************************************************************)
SbcBinaryMatchesReference ==
  LET r == Outcome(Sbc(A, Operand, PBinary)) IN
  r = RefSbcBinary(A, Operand, Carry)

(***************************************************************************)
(* Decimal ADC on two BCD bytes gives the BCD digits of the decimal sum    *)
(* modulo 100 and the decimal carry out: the half carry from the low      *)
(* digit into the high one and the carry out of the high digit.          *)
(***************************************************************************)
AdcDecimalSum ==
  IsBcd(A) /\ IsBcd(Operand) =>
    LET r == Outcome(Adc(A, Operand, PDecimal)) IN
    /\ r.a = RefAdcDecimal(A, Operand, Carry).a
    /\ r.c = RefAdcDecimal(A, Operand, Carry).c

(***************************************************************************)
(* AND, ORA and EOR give the bitwise function of A and M with Z and N of   *)
(* the result, and BIT sets Z from A AND M but N and V from bits 7 and 6  *)
(* of M itself, leaving A alone; none of them touches C or V otherwise.   *)
(***************************************************************************)
LogicMatchesReference ==
  LET c == Carry = 1 IN
  /\ Outcome(AndOp(A, Operand, PBinary)) = RefWrites(BitMerge(A, Operand, AndTable, 0), c, FALSE)
  /\ Outcome(Ora(A, Operand, PBinary)) = RefWrites(BitMerge(A, Operand, OrTable, 0), c, FALSE)
  /\ Outcome(Eor(A, Operand, PBinary)) = RefWrites(BitMerge(A, Operand, XorTable, 0), c, FALSE)
  /\ Outcome(Bit(A, Operand, PBinary)) =
       [a |-> A, c |-> c, z |-> BitMerge(A, Operand, AndTable, 0) = 0,
        n |-> Operand >= 128, v |-> Operand % 128 >= 64]

(***************************************************************************)
(* CMP, CPX and CPY set the flags of the 6502's subtraction reg + ~M + 1: *)
(* C is its carry out of bit 7 (no borrow), Z says reg = M, N is bit 7 of  *)
(* the difference, and the register is unchanged.                        *)
(***************************************************************************)
CompareMatchesReference ==
  LET d == A + (255 - Operand) + 1
      ref == [a |-> A, c |-> d >= 256, z |-> A = Operand, n |-> (d % 256) >= 128, v |-> FALSE]
  IN  /\ Outcome(Cmp(A, Operand, PBinary)) = ref
      /\ Outcome(Cpx(A, Operand, PBinary)) = ref
      /\ Outcome(Cpy(A, Operand, PBinary)) = ref

(***************************************************************************)
(* ASL, LSR, ROL and ROR, on memory and on A, shift the 9-bit word of the *)
(* byte and C: the bit shifted out lands in C, and the rotates bring the  *)
(* old C in at the other end.                                             *)
(***************************************************************************)
ShiftsMatchReference ==
  /\ Outcome(Asl(A, PBinary)) = RefLeft(A, 0)
  /\ Outcome(AslAccumulator(A, PBinary)) = RefLeft(A, 0)
  /\ Outcome(Rol(A, PBinary)) = RefLeft(A, Carry)
  /\ Outcome(RolAccumulator(A, PBinary)) = RefLeft(A, Carry)
  /\ Outcome(Lsr(A, PBinary)) = RefRight(A, 0)
  /\ Outcome(LsrAccumulator(A, PBinary)) = RefRight(A, 0)
  /\ Outcome(Ror(A, PBinary)) = RefRight(A, Carry)
  /\ Outcome(RorAccumulator(A, PBinary)) = RefRight(A, Carry)

(***************************************************************************)
(* INC, INX and INY wrap 255 to 0, DEC, DEX and DEY wrap 0 to 255, and Z  *)
(* and N describe the new value; C is kept.                               *)
(***************************************************************************)
IncDecMatchesReference ==
  LET c == Carry = 1
      up == IF A = 255 THEN 0 ELSE A + 1
      down == IF A = 0 THEN 255 ELSE A - 1
  IN  /\ \A r \in {Inc(A, PBinary), Inx(A, PBinary), Iny(A, PBinary)} :
           Outcome(r) = RefWrites(up, c, FALSE)
      /\ \A r \in {Dec(A, PBinary), Dex(A, PBinary), Dey(A, PBinary)} :
           Outcome(r) = RefWrites(down, c, FALSE)

(***************************************************************************)
(* Zero-page indexing and the (indirect) pointers stay in page zero.      *)
(* Absolute,X, absolute,Y and (indirect),Y give the base plus the index   *)
(* and report page_crossed exactly when the low byte carries into the     *)
(* page, including the wrap from 0xFFxx to 0x00xx; a relative branch      *)
(* target crosses exactly when PC's low byte plus the signed offset       *)
(* leaves 0 .. 255.  The +1 cycle of the reads and branches hangs on it.  *)
(***************************************************************************)
AddressingMatchesReference ==
  LET base == 256 * HiByte + A IN
  /\ AbsoluteX(base, Operand) = RefIndexed(A, HiByte, Operand)
  /\ AbsoluteY(base, Operand) = RefIndexed(A, HiByte, Operand)
  /\ IndirectY(A, HiByte, Operand) = RefIndexed(A, HiByte, Operand)
  /\ Relative(base, Operand) = RefRelative(A, HiByte, Operand)
  /\ ZeroPageX(A, Operand) = RefIndexed(A, 0, Operand).address % 256
  /\ ZeroPageY(A, Operand) = RefIndexed(A, 0, Operand).address % 256
  /\ IndirectXPointer(A, Operand) =
       LET p == RefIndexed(A, 0, Operand).address % 256
       IN  <<p, IF p = 255 THEN 0 ELSE p + 1>>
  /\ IndirectYPointer(A) = <<A, IF A = 255 THEN 0 ELSE A + 1>>

(***************************************************************************)
(* Each of the eight branches is taken exactly when its flag has the      *)
(* value it tests, then PC becomes the relative target and the branch     *)
(* costs 1 cycle more, 2 if the target is on another page; not taken, PC  *)
(* stays past the offset and no cycle is added.                           *)
(***************************************************************************)
BranchesMatchReference ==
  LET pc == 256 * HiByte + A
      target == RefRelative(A, HiByte, Operand)
      ref(f, val) ==
        IF (A \div 2^f) % 2 = val
        THEN [pc |-> target.address, extra |-> IF target.crossed THEN 2 ELSE 1]
        ELSE [pc |-> pc, extra |-> 0]
  IN  /\ Bcc(A, pc, Operand) = ref(FlagC, 0)
      /\ Bcs(A, pc, Operand) = ref(FlagC, 1)
      /\ Beq(A, pc, Operand) = ref(FlagZ, 1)
      /\ Bne(A, pc, Operand) = ref(FlagZ, 0)
      /\ Bmi(A, pc, Operand) = ref(FlagN, 1)
      /\ Bpl(A, pc, Operand) = ref(FlagN, 0)
      /\ Bvc(A, pc, Operand) = ref(FlagV, 0)
      /\ Bvs(A, pc, Operand) = ref(FlagV, 1)

\* The opcode table the instructions above are dispatched through.
OT == INSTANCE OpcodeTable

(***************************************************************************)
(* Every opcode byte dispatches to the handler and addressing mode the    *)
(* 6502 opcode matrix gives it, and exactly the official opcodes and 0xEB *)
(* are defined: an opcode the table leaves at its default raises          *)
(* CPU_ERROR_INVALID_OPCODE.  A handler or mode swapped within the 152     *)
(* hand-written initialisers of initialize_opcode_table, or an entry      *)
(* overwritten, mis-executes one opcode that no other test runs.          *)
(***************************************************************************)
OpcodeTableMatchesReference == OT!Decode(A) = OT!RefDecode(A)

\* The memory path the instructions above read and write through.
AS == INSTANCE AddressSpace

(***************************************************************************)
(* Up to three guest reads and writes at the ports, the status hooks,     *)
(* zero page and 0xFFFF, through cpu_read/cpu_write, the bus and the       *)
(* device, read the bytes and produce the output of the spec's memory map *)
(* (AddressSpace's AccessesMatchMemoryMap), with main.c's monitored RAM   *)
(* and with the test drivers' plain RAM; input k checks case k.          *)
(***************************************************************************)
MemoryMapMatchesReference == AS!AccessesMatchMemoryMap(input)

(***************************************************************************)
(* load_binary, run alone, passes its PC check and leaves the output      *)
(* queue empty for images that wrap past 0xFFFF, overwrite the vectors or *)
(* cover the ports and hooks (AddressSpace's LoadBinaryPassesCheck);    *)
(* input k checks case k.                                                 *)
(***************************************************************************)
LoadBinaryPassesCheck == AS!LoadBinaryPassesCheck(input)

(***************************************************************************)
(* Decimal mode follows the NMOS 6502 (spec 4.F): on two BCD bytes, ADC    *)
(* and SBC give the BCD digits of the decimal sum or difference modulo    *)
(* 100, C is the decimal carry (or no borrow), and Z and N follow the     *)
(* byte binary mode would have produced.  instr_sbc's decimal branch is   *)
(* empty and instr_adc's takes Z and N from the BCD byte.                 *)
(***************************************************************************)
DecimalModeMatchesReference ==
  IsBcd(A) /\ IsBcd(Operand) =>
    LET adc == Outcome(Adc(A, Operand, PDecimal))
        sbc == Outcome(Sbc(A, Operand, PDecimal))
        refAdc == RefAdcDecimal(A, Operand, Carry)
        refSbc == RefSbcDecimal(A, Operand, Carry)
    IN  /\ [f \in {"a", "c", "z", "n"} |-> adc[f]] = refAdc
        /\ [f \in {"a", "c", "z", "n"} |-> sbc[f]] = refSbc
-----------------------------------------------------------------------------
(* TSX, TXS and the stack, on a state st = [m, r]: the machine of         *)
(* AddressSpace and the register file r = [A, X, Y, SP, P].               *)

\* push_byte: cpu_write at 0x0100 + SP, then SP-- in uint8_t.
PushByte(st, v) ==
  [st EXCEPT !.m = AS!CpuWrite(@, 256 + st.r.SP, v), !.r.SP = (@ + 255) % 256]

\* A mutant of PullByte: the byte is read before SP is incremented.
PullByteReadFirst(st) ==
  LET rd == AS!CpuRead(st.m, 256 + st.r.SP)
  IN <<[st EXCEPT !.m = rd[1], !.r.SP = (@ + 1) % 256], rd[2]>>

\* pull_byte: SP++ in uint8_t, then cpu_read at 0x0100 + SP.
PullByte(st) ==
  LET sp == (st.r.SP + 1) % 256
      rd == AS!CpuRead(st.m, 256 + sp)
  IN <<[st EXCEPT !.m = rd[1], !.r.SP = sp], rd[2]>>

\* instr_pha, instr_pla.
Pha(st) == PushByte(st, st.r.A)
Pla(st) ==
  LET p == PullByte(st)
  IN [p[1] EXCEPT !.r.A = p[2], !.r.P = UpdateZN(@, p[2])]

\* instr_php: P with B and U set (| 0x30) through push_byte.
Php(st) == PushByte(st, WithFlag(WithFlag(st.r.P, 4, TRUE), 5, TRUE))

\* A mutant of Plp: the pulled byte taken as it is.
PlpKeepB(st) ==
  LET p == PullByte(st) IN [p[1] EXCEPT !.r.P = p[2]]

\* instr_plp: the pulled byte with B cleared (& 0xEF) and U set (| 0x20).
Plp(st) ==
  LET p == PullByte(st)
  IN [p[1] EXCEPT !.r.P = WithFlag(WithFlag(p[2], 4, FALSE), 5, TRUE)]

\* instr_clc, instr_cld, instr_cli, instr_clv, instr_sec, instr_sed,
\* instr_sei: set_flag of one flag.
FlagOps ==
  <<[f |-> FlagC, on |-> FALSE], [f |-> FlagD, on |-> FALSE],
    [f |-> 2, on |-> FALSE], [f |-> FlagV, on |-> FALSE],
    [f |-> FlagC, on |-> TRUE], [f |-> FlagD, on |-> TRUE],
    [f |-> 2, on |-> TRUE]>>
SetFlagOp(r, op) == [r EXCEPT !.P = WithFlag(@, op.f, op.on)]

\* instr_tsx: copy and set Z, N; instr_txs: copy only.
Tsx(r) == [r EXCEPT !.X = r.SP, !.P = UpdateZN(@, r.SP)]
Txs(r) == [r EXCEPT !.SP = r.X]

\* The state an input starts from: main.c's machine, A from the input and
\* X = Operand, SP as cpu_reset leaves it.
Start ==
  [m |-> AS!MainMachine,
   r |-> [A |-> A, X |-> Operand, Y |-> 0, SP |-> \hFD, P |-> PBinary]]

(***************************************************************************)
(* The stack is a LIFO in page 1 whatever SP holds: after TXS sets SP to  *)
(* any byte, PHA A, PHA B, PLA, PLA give back B then A with their Z and   *)
(* N, restore SP (TSX reads it back), leave the bytes at 0x0100+SP and    *)
(* 0x0100+SP-1 taken modulo 256, and produce no output.  SP = 0x00 and     *)
(* 0x01 wrap between 0x0100 and 0x01FF (spec 3: SP is modulo 0x100).       *)
(***************************************************************************)
StackRoundTrip ==
  LET b == 255 - A
      s1 == Pha([Start EXCEPT !.r = Txs(@)])
      s2 == Pha([s1 EXCEPT !.r.A = b])
      s3 == Pla(s2)
      s4 == Pla(s3)
      sp == Operand
  IN /\ s3.r.A = b /\ Flag(s3.r.P, FlagZ) = IF b = 0 THEN 1 ELSE 0
     /\ s4.r.A = A /\ Flag(s4.r.P, FlagN) = A \div 128
     /\ Tsx(s4.r).X = sp /\ s4.r.SP = sp
     /\ AS!BusRead(s4.m, 256 + sp) = A
     /\ AS!BusRead(s4.m, 256 + ((sp + 255) % 256)) = b
     /\ s4.m.out = <<>>

(***************************************************************************)
(* PHP, one of the seven flag instructions, PLP: for every P the stack    *)
(* holds P with B and U set, the flag instruction changes its flag and no *)
(* other, and PLP gives back the P pushed with B clear and U set, SP      *)
(* where it was.  (instr_php/instr_plp; spec 3: B and U exist only on     *)
(* the stack.)                                                            *)
(***************************************************************************)
StatusRoundTrip ==
  LET op == FlagOps[(Operand % 7) + 1]
      s0 == [Start EXCEPT !.r.P = A]
      s1 == Php(s0)
      s2 == [s1 EXCEPT !.r = SetFlagOp(@, op)]
      s3 == Plp(s2)
  IN /\ AS!BusRead(s1.m, 256 + s0.r.SP) = WithFlag(WithFlag(A, 4, TRUE), 5, TRUE)
     /\ \A f \in 0 .. 7 : Flag(s2.r.P, f) = IF f = op.f THEN IF op.on THEN 1 ELSE 0
                                             ELSE Flag(A, f)
     /\ s3.r.SP = s0.r.SP
     /\ Flag(s3.r.P, 4) = 0 /\ Flag(s3.r.P, 5) = 1
     /\ \A f \in {0, 1, 2, 3, 6, 7} : Flag(s3.r.P, f) = Flag(A, f)
=============================================================================
