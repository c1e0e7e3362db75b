------------------------------- MODULE Energy -------------------------------
(***************************************************************************)
(* The five 0..100 gauges of domain/value_objects/energy.py.  The code     *)
(* holds them as floats rounded to four decimals; every amount the program *)
(* adds or removes is a multiple of a tenth, so a gauge is counted here in *)
(* tenths of a point and the arithmetic is exact.                          *)
(***************************************************************************)
EXTENDS Integers

EnergyMin == 0
EnergyMax == 1000

EnergyKinds ==
  {"CREATIVE", "RESEARCH", "CRITICAL", "NOVELTY_PRESSURE", "MEMORY_PRESSURE"}

EnergyLevel == EnergyMin .. EnergyMax

EnergyProfile == [EnergyKinds -> EnergyLevel]

\* Variant for mutation runs: the upper bound is forgotten.
ClampedBelow(value) == IF value < EnergyMin THEN EnergyMin ELSE value

Clamped(value) ==
  IF value < EnergyMin THEN EnergyMin
  ELSE IF value > EnergyMax THEN EnergyMax ELSE value

Spend(energy, kind, amount) ==
  [energy EXCEPT ![kind] = Clamped(energy[kind] - amount)]

Restore(energy, kind, amount) ==
  [energy EXCEPT ![kind] = Clamped(energy[kind] + amount)]

\* EnergyProfile.rested: full productive gauges, no pressure.
Rested ==
  [kind \in EnergyKinds |->
     IF kind \in {"CREATIVE", "RESEARCH", "CRITICAL"} THEN EnergyMax ELSE EnergyMin]

\* What one night changes, gauge by gauge: sleep refills work and drains pressure.
SleepEffect ==
  [CREATIVE |-> 600, RESEARCH |-> 600, CRITICAL |-> 700,
   NOVELTY_PRESSURE |-> -250, MEMORY_PRESSURE |-> -800]

RestoredBySleep(energy) ==
  [kind \in EnergyKinds |-> Clamped(energy[kind] + SleepEffect[kind])]

=============================================================================
