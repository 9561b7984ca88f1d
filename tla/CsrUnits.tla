------------------------------ MODULE CsrUnits ------------------------------
(* Two units behind the CSRs, one of them in each behaviour; the variables  *)
(* of the other hold "unused".  The constants of each are those of its own  *)
(* module.                                                                  *)
(*  - counters: mcycle, minstret and the event counters;                    *)
(*  - seed: the entropy source with its health tests.                       *)
EXTENDS Integers, Sequences

CONSTANTS
  Counters, Hpms, Half, Events, Selectors,                     \* counters
  BistSamples, RepCutoff, ApWindow, ApCutoff, Width, MaxSamples  \* seed

VARIABLES
  unit,                                               \* the one that runs
  count, sel, inhibit, watch, bus, words,             \* rvntt_csr
  noise, health, seed, log, grew, emptied             \* rvntt_seed

countVars == <<count, sel, inhibit, watch, bus, words>>
seedVars == <<noise, health, seed, log, grew, emptied>>

C == INSTANCE Counters
S == INSTANCE Seed

U == "unused"
NoCount == count = U /\ sel = U /\ inhibit = U /\ watch = U /\ bus = U /\ words = U
NoSeed == noise = U /\ health = U /\ seed = U /\ log = U /\ grew = U
          /\ emptied = U
CsrInit ==
  \/ unit = "counters" /\ C!Init /\ NoSeed
  \/ unit = "seed" /\ S!Init /\ NoCount

NextCount == unit = "counters" /\ C!Next /\ UNCHANGED <<unit, seedVars>>
NextSeed == unit = "seed" /\ S!Next /\ UNCHANGED <<unit, countVars>>
CsrNext == NextCount \/ NextSeed

csrVars == <<unit, countVars, seedVars>>
CsrSpec == CsrInit /\ [][CsrNext]_csrVars

-----------------------------------------------------------------------------
(* CountsInOrder, HealthAsStandard, SeedFresh: the counters of rvntt_csr   *)
(* and the seed of rvntt_seed, as Counters and Seed state them.            *)
CountsInOrder == unit = "counters" => C!CountsInOrder
HealthAsStandard == unit = "seed" => S!HealthAsStandard
SeedFresh == unit = "seed" => S!SeedFresh
=============================================================================
