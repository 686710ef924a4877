---------------------------- MODULE DurableMeter ----------------------------
(***************************************************************************)
(* What the pulse path promises, without counter, policy or boot sequence: *)
(* a reading that only grows while the device is up, and a stored value    *)
(* that is only ever set to the reading of the moment.  A start-up resumes *)
(* from the stored value, or from 0 when the store could not be read.      *)
(***************************************************************************)
EXTENDS Naturals

VARIABLES up, reading, stored

vars == <<up, reading, stored>>

Init == up = FALSE /\ reading = 0 /\ stored = 0

Resume == /\ ~up /\ up'
          /\ reading' \in {0, stored}
          /\ UNCHANGED stored

\* The stored value can be erased only before the device resumes from it.
Erase  == /\ ~up
          /\ stored' = 0
          /\ UNCHANGED <<up, reading>>

Count  == /\ up
          /\ reading' > reading
          /\ UNCHANGED <<up, stored>>

Save   == /\ up
          /\ stored' = reading
          /\ UNCHANGED <<up, reading>>

Stop   == /\ up /\ ~up'
          /\ reading' = 0
          /\ UNCHANGED stored

Next == Resume \/ Erase \/ Count \/ Save \/ Stop

Spec == Init /\ [][Next]_vars
=============================================================================
