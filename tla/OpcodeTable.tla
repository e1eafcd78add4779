----------------------------- MODULE OpcodeTable -----------------------------
(***************************************************************************)
(* The opcode table of src/cpu_6502.c: initialize_opcode_table fills all   *)
(* 256 entries with an undefined handler, then assigns one entry per       *)
(* official opcode (and 0xEB, the SBC #imm alias the spec keeps).          *)
(* cpu_execute_instruction dispatches through the entry of the fetched     *)
(* opcode and reports CPU_ERROR_INVALID_OPCODE when its handler is NULL.   *)
(*                                                                         *)
(* An entry is abstracted to the handler's mnemonic, the addressing mode   *)
(* function ("none" for NULL).  The cycles column is left out: it is     *)
(* never charged to the clock (see README).  The handler names           *)
(* follow the mnemonic (instr_asl_accumulator is ASL with mode "none"),    *)
(* and `bytes` agrees with the mode in every entry and is never read.      *)
(***************************************************************************)
EXTENDS Naturals, Sequences

Opcodes == 0 .. 255

\* One group of opcode_entry_t initialisers: the rows are
\* <<opcode, addressing mode>> for the handler of mnemonic name.
Ins(name, rows) ==
  {[op |-> r[1], instr |-> name, mode |-> r[2]] : r \in rows}

\* initialize_opcode_table, lines 972-1059: ADC to BVS.
EntriesAdcToBvs ==
  Ins("ADC", {<<\h69, "imm">>, <<\h65, "zp">>, <<\h75, "zpx">>,
              <<\h6D, "abs">>, <<\h7D, "absx">>, <<\h79, "absy">>,
              <<\h61, "indx">>, <<\h71, "indy">>}) \cup
  Ins("AND", {<<\h29, "imm">>, <<\h25, "zp">>, <<\h35, "zpx">>,
              <<\h2D, "abs">>, <<\h3D, "absx">>, <<\h39, "absy">>,
              <<\h21, "indx">>, <<\h31, "indy">>}) \cup
  Ins("ASL", {<<\h0A, "none">>, <<\h06, "zp">>, <<\h16, "zpx">>,
              <<\h0E, "abs">>, <<\h1E, "absx">>}) \cup
  Ins("BCC", {<<\h90, "rel">>}) \cup
  Ins("BCS", {<<\hB0, "rel">>}) \cup
  Ins("BEQ", {<<\hF0, "rel">>}) \cup
  Ins("BIT", {<<\h24, "zp">>, <<\h2C, "abs">>}) \cup
  Ins("BMI", {<<\h30, "rel">>}) \cup
  Ins("BNE", {<<\hD0, "rel">>}) \cup
  Ins("BPL", {<<\h10, "rel">>}) \cup
  Ins("BRK", {<<\h00, "none">>}) \cup
  Ins("BVC", {<<\h50, "rel">>}) \cup
  Ins("BVS", {<<\h70, "rel">>})

\* initialize_opcode_table, lines 1061-1155: CLC to INY.
EntriesClcToIny ==
  Ins("CLC", {<<\h18, "none">>}) \cup
  Ins("CLD", {<<\hD8, "none">>}) \cup
  Ins("CLI", {<<\h58, "none">>}) \cup
  Ins("CLV", {<<\hB8, "none">>}) \cup
  Ins("CMP", {<<\hC9, "imm">>, <<\hC5, "zp">>, <<\hD5, "zpx">>,
              <<\hCD, "abs">>, <<\hDD, "absx">>, <<\hD9, "absy">>,
              <<\hC1, "indx">>, <<\hD1, "indy">>}) \cup
  Ins("CPX", {<<\hE0, "imm">>, <<\hE4, "zp">>, <<\hEC, "abs">>}) \cup
  Ins("CPY", {<<\hC0, "imm">>, <<\hC4, "zp">>, <<\hCC, "abs">>}) \cup
  Ins("DEC", {<<\hC6, "zp">>, <<\hD6, "zpx">>, <<\hCE, "abs">>,
              <<\hDE, "absx">>}) \cup
  Ins("DEX", {<<\hCA, "none">>}) \cup
  Ins("DEY", {<<\h88, "none">>}) \cup
  Ins("EOR", {<<\h49, "imm">>, <<\h45, "zp">>, <<\h55, "zpx">>,
              <<\h4D, "abs">>, <<\h5D, "absx">>, <<\h59, "absy">>,
              <<\h41, "indx">>, <<\h51, "indy">>}) \cup
  Ins("INC", {<<\hE6, "zp">>, <<\hF6, "zpx">>, <<\hEE, "abs">>,
              <<\hFE, "absx">>}) \cup
  Ins("INX", {<<\hE8, "none">>}) \cup
  Ins("INY", {<<\hC8, "none">>})

\* initialize_opcode_table, lines 1157-1252: JMP to PLP.
EntriesJmpToPlp ==
  Ins("JMP", {<<\h4C, "abs">>, <<\h6C, "ind">>}) \cup
  Ins("JSR", {<<\h20, "abs">>}) \cup
  Ins("LDA", {<<\hA9, "imm">>, <<\hA5, "zp">>, <<\hB5, "zpx">>,
              <<\hAD, "abs">>, <<\hBD, "absx">>, <<\hB9, "absy">>,
              <<\hA1, "indx">>, <<\hB1, "indy">>}) \cup
  Ins("LDX", {<<\hA2, "imm">>, <<\hA6, "zp">>, <<\hB6, "zpy">>,
              <<\hAE, "abs">>, <<\hBE, "absy">>}) \cup
  Ins("LDY", {<<\hA0, "imm">>, <<\hA4, "zp">>, <<\hB4, "zpx">>,
              <<\hAC, "abs">>, <<\hBC, "absx">>}) \cup
  Ins("LSR", {<<\h4A, "none">>, <<\h46, "zp">>, <<\h56, "zpx">>,
              <<\h4E, "abs">>, <<\h5E, "absx">>}) \cup
  Ins("NOP", {<<\hEA, "none">>}) \cup
  Ins("ORA", {<<\h09, "imm">>, <<\h05, "zp">>, <<\h15, "zpx">>,
              <<\h0D, "abs">>, <<\h1D, "absx">>, <<\h19, "absy">>,
              <<\h01, "indx">>, <<\h11, "indy">>}) \cup
  Ins("PHA", {<<\h48, "none">>}) \cup
  Ins("PHP", {<<\h08, "none">>}) \cup
  Ins("PLA", {<<\h68, "none">>}) \cup
  Ins("PLP", {<<\h28, "none">>})

\* initialize_opcode_table, lines 1254-1362: ROL to TYA.
EntriesRolToTya ==
  Ins("ROL", {<<\h2A, "none">>, <<\h26, "zp">>, <<\h36, "zpx">>,
              <<\h2E, "abs">>, <<\h3E, "absx">>}) \cup
  Ins("ROR", {<<\h6A, "none">>, <<\h66, "zp">>, <<\h76, "zpx">>,
              <<\h6E, "abs">>, <<\h7E, "absx">>}) \cup
  Ins("RTI", {<<\h40, "none">>}) \cup
  Ins("RTS", {<<\h60, "none">>}) \cup
  Ins("SBC", {<<\hE9, "imm">>, <<\hEB, "imm">>, <<\hE5, "zp">>,
              <<\hF5, "zpx">>, <<\hED, "abs">>, <<\hFD, "absx">>,
              <<\hF9, "absy">>, <<\hE1, "indx">>, <<\hF1, "indy">>}) \cup
  Ins("SEC", {<<\h38, "none">>}) \cup
  Ins("SED", {<<\hF8, "none">>}) \cup
  Ins("SEI", {<<\h78, "none">>}) \cup
  Ins("STA", {<<\h85, "zp">>, <<\h95, "zpx">>, <<\h8D, "abs">>,
              <<\h9D, "absx">>, <<\h99, "absy">>, <<\h81, "indx">>,
              <<\h91, "indy">>}) \cup
  Ins("STX", {<<\h86, "zp">>, <<\h96, "zpy">>, <<\h8E, "abs">>}) \cup
  Ins("STY", {<<\h84, "zp">>, <<\h94, "zpx">>, <<\h8C, "abs">>}) \cup
  Ins("TAX", {<<\hAA, "none">>}) \cup
  Ins("TAY", {<<\hA8, "none">>}) \cup
  Ins("TSX", {<<\hBA, "none">>}) \cup
  Ins("TXA", {<<\h8A, "none">>}) \cup
  Ins("TXS", {<<\h9A, "none">>}) \cup
  Ins("TYA", {<<\h98, "none">>})

Entries == EntriesAdcToBvs \cup EntriesClcToIny \cup EntriesJmpToPlp \cup EntriesRolToTya

\* The loop at the top of initialize_opcode_table: mnemonic "???",
\* execute and addr_mode NULL.
Undefined == [instr |-> "???", mode |-> "none"]

\* A mutant of InitializeOpcodeTable: the defaulting loop runs after the
\* assignments and overwrites them.
InitializeOpcodeTableDefaultsLast == [o \in Opcodes |-> Undefined]

\* initialize_opcode_table: the defaults, then every assignment.
InitializeOpcodeTable ==
  [o \in Opcodes |->
     IF \E e \in Entries : e.op = o
       THEN LET e == CHOOSE e \in Entries : e.op = o
            IN [instr |-> e.instr, mode |-> e.mode]
       ELSE Undefined]

\* cpu_execute_instruction: the handler and addressing mode it calls for
\* an opcode, "???" standing for the invalid-opcode error.
Decode(op) ==
  [instr |-> InitializeOpcodeTable[op].instr, mode |-> InitializeOpcodeTable[op].mode]

-----------------------------------------------------------------------------
(***************************************************************************)
(* Reference: the NMOS 6502 opcode matrix read from the bit fields of an  *)
(* opcode aaabbbcc.  cc selects the group, aaa the operation and bbb the   *)
(* addressing mode, with the single-byte instructions in the columns       *)
(* bbb = 010 and 110 and the branches in bbb = 100 of group 00.           *)
(***************************************************************************)
RefDecode(op) ==
  LET a == op \div 32
      b == (op \div 4) % 8
      c == op % 4
      I(n, m) == [instr |-> n, mode |-> m]
      none == I("???", "none")
      xy == IF a \in {4, 5} THEN "y" ELSE "x"
      g1 == <<"ORA", "AND", "EOR", "ADC", "STA", "LDA", "CMP", "SBC">>
      g1Modes == <<"indx", "zp", "imm", "abs", "indy", "zpx", "absy", "absx">>
      g2 == <<"ASL", "ROL", "LSR", "ROR", "STX", "LDX", "DEC", "INC">>
      g0 == <<"BRK", "BIT", "JMP", "JMP", "STY", "LDY", "CPY", "CPX">>
  IN CASE c = 1 -> IF op = \h89 THEN none ELSE I(g1[a + 1], g1Modes[b + 1])
       [] c = 2 ->
            CASE b = 0 -> IF a = 5 THEN I(g2[a + 1], "imm") ELSE none
              [] b = 1 -> I(g2[a + 1], "zp")
              [] b = 2 -> IF a < 4 THEN I(g2[a + 1], "none")
                          ELSE I(<<"TXA", "TAX", "DEX", "NOP">>[a - 3], "none")
              [] b = 3 -> I(g2[a + 1], "abs")
              [] b = 5 -> I(g2[a + 1], "zp" \o xy)
              [] b = 6 -> CASE a = 4 -> I("TXS", "none")
                            [] a = 5 -> I("TSX", "none")
                            [] OTHER -> none
              [] b = 7 -> IF a = 4 THEN none ELSE I(g2[a + 1], "abs" \o xy)
              [] OTHER -> none
       [] c = 0 ->
            CASE b = 0 -> CASE a = 0 -> I("BRK", "none")
                            [] a = 1 -> I("JSR", "abs")
                            [] a = 2 -> I("RTI", "none")
                            [] a = 3 -> I("RTS", "none")
                            [] a = 4 -> none
                            [] OTHER -> I(g0[a + 1], "imm")
              [] b = 1 -> IF a \in {1, 4, 5, 6, 7} THEN I(g0[a + 1], "zp") ELSE none
              [] b = 2 -> I(<<"PHP", "PLP", "PHA", "PLA", "DEY", "TAY", "INY", "INX">>[a + 1], "none")
              [] b = 3 -> CASE a = 0 -> none
                            [] a = 3 -> I("JMP", "ind")
                            [] OTHER -> I(g0[a + 1], "abs")
              [] b = 4 -> I(<<"BPL", "BMI", "BVC", "BVS", "BCC", "BCS", "BNE", "BEQ">>[a + 1], "rel")
              [] b = 5 -> IF a \in {4, 5} THEN I(g0[a + 1], "zpx") ELSE none
              [] b = 6 -> I(<<"CLC", "SEC", "CLI", "SEI", "TYA", "CLV", "CLD", "SED">>[a + 1], "none")
              [] OTHER -> IF a = 5 THEN I(g0[a + 1], "absx") ELSE none
       [] OTHER -> IF op = \hEB THEN I("SBC", "imm") ELSE none
=============================================================================
