------------------------------- MODULE MC_Clock -------------------------------
(* Clock with two frequencies, one and two ticks per cycle, and room for  *)
(* an interrupt entry's 7 cycles plus two more waits.                      *)
EXTENDS Clock

MCDurations == {1, 2}
MCInitDur == 1
MCMaxCycles == 9
MCResetOnly == {"reset"}
MCSetFrequencyOnly == {"set_frequency"}
=============================================================================
