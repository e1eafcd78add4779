----------------------------- MODULE MC_Cpu6502 -----------------------------
(***************************************************************************)
(* A test image loaded at 0xC000, main.c's default load address.  The     *)
(* main loop enables IRQs, calls a subroutine that round-trips P through  *)
(* the stack and executes BRK, disables IRQs and jumps back through an    *)
(* indirect pointer.  The IRQ/BRK handler runs NOP and JMP before RTI;    *)
(* the NMI handler runs NOP before RTI.  Neither handler touches I.       *)
(*                                                                         *)
(*   C000 CLI            C010 PHP            C040 NOP                      *)
(*   C001 JSR C010       C011 PLP            C041 JMP C044                 *)
(*   C004 SEI            C012 BRK ; pad EA   C044 RTI                      *)
(*   C005 JMP (C030)     C014 RTS            C050 NOP ; C051 RTI           *)
(*   C030 .word C000     FFFA NMI C050  FFFC RESET C000  FFFE IRQ C040     *)
(***************************************************************************)
EXTENDS Cpu6502, TLC

MCMaxInjects == 1

MCRom ==
  (\hC000 :> \h58) @@ (\hC001 :> \h20) @@ (\hC002 :> \h10) @@
  (\hC003 :> \hC0) @@ (\hC004 :> \h78) @@ (\hC005 :> \h6C) @@
  (\hC006 :> \h30) @@ (\hC007 :> \hC0) @@
  (\hC010 :> \h08) @@ (\hC011 :> \h28) @@ (\hC012 :> \h00) @@
  (\hC013 :> \hEA) @@ (\hC014 :> \h60) @@
  (\hC030 :> \h00) @@ (\hC031 :> \hC0) @@
  (\hC040 :> \hEA) @@ (\hC041 :> \h4C) @@ (\hC042 :> \h44) @@
  (\hC043 :> \hC0) @@ (\hC044 :> \h40) @@
  (\hC050 :> \hEA) @@ (\hC051 :> \h40) @@
  (\hFFFA :> \h50) @@ (\hFFFB :> \hC0) @@ (\hFFFC :> \h00) @@
  (\hFFFD :> \hC0) @@ (\hFFFE :> \h40) @@ (\hFFFF :> \hC0)
=============================================================================
