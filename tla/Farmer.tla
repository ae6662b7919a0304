------------------------------- MODULE Farmer -------------------------------
(***************************************************************************)
(* The part of a user document that every gameplay handler charges and     *)
(* credits: energy, the energyFull flag the regeneration worker filters    *)
(* on, level and experiences.  EnergyService and LevelService as pure      *)
(* operators on that record.                                               *)
(***************************************************************************)
EXTENDS Integers

Farmers == [energy : Nat, energyFull : BOOLEAN, level : Nat \ {0}, experiences : Nat]

MaxEnergy(level) == 50 + (level - 1) * 3

ExperiencesQuota(level) == 50 * level + 25 * (level - 1) * (level - 1)

\* Mutant: only an exhausted user is refused.
CanSpendAnything(f, n) == f.energy > 0

CanSpend(f, n) == f.energy >= n

SpendEnergy(f, n) == [f EXCEPT !.energy = @ - n, !.energyFull = FALSE]

AddEnergy(f, n) ==
  LET full == f.energy + n >= MaxEnergy(f.level)
  IN  [f EXCEPT !.energy = IF full THEN MaxEnergy(f.level) ELSE @ + n,
                !.energyFull = full]

\* At most one level per call, whatever is left over.
AddExperiences(f, n) ==
  LET quota == ExperiencesQuota(f.level)
  IN  IF f.experiences + n >= quota
        THEN [f EXCEPT !.experiences = @ + n - quota, !.level = @ + 1]
        ELSE [f EXCEPT !.experiences = @ + n]

\* checkSufficient, subtract and addExperiences, as the handlers call them in a row.
Work(f, energy, experiences) == AddExperiences(SpendEnergy(f, energy), experiences)
=============================================================================
