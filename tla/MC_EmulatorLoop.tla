--------------------------- MODULE MC_EmulatorLoop ---------------------------
EXTENDS EmulatorLoop

\* Three addresses, so that a step and an F6 write land on different PCs.
MCProgSize == 3
\* Two binaries at different load addresses: the one main() boots and one
\* the user loads with F3.
MCPrograms == {"hello", "test"}
MCOrigin == [p \in MCPrograms |-> IF p = "hello" THEN 0 ELSE 1]
MCBoot == "hello"
\* Enough keys for a resume, a reset and a step request in one behaviour.
MCMaxPresses == 3
=============================================================================
