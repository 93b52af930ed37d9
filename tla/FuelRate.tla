------------------------------ MODULE FuelRate ------------------------------
(***************************************************************************)
(* The fuel-rate controller GetElementForBurn (src/src/miner/miner.cpp)    *)
(* and the chain it reads.  Every block's header carries the fuel rate the *)
(* factory took from GetElementForBurn(tip) and the total fuel its         *)
(* transactions paid at that rate; the next rate is adapted from the run   *)
(* steps the last nBlock headers imply.                                    *)
(*                                                                         *)
(* A block is produced with a nondeterministic load (its run steps).  The  *)
(* fuel its transactions pay is not computed under src/: as spec 4.3 has  *)
(* it, a block of s steps at rate f pays s * f / 100 (integer).  Only the  *)
(* last nBlock headers are kept, and the height saturates once the warm-up *)
(* guard can no longer hold.                                               *)
(***************************************************************************)
EXTENDS Integers, Sequences, SequencesExt

CONSTANTS
    nBlock,              \* -blocksizeforburn
    MAX_BLOCK_RUN_STEP,
    INIT_FUEL_RATES,
    MIN_FUEL_RATES,
    BlockSteps,          \* the run steps a block may use
    MaxFuelRate          \* bound on the explored rates

ASSUME nBlock \in Int /\ MIN_FUEL_RATES \in Nat \ {0}
ASSUME INIT_FUEL_RATES \in Nat \ {0} /\ BlockSteps \subseteq 0 .. MAX_BLOCK_RUN_STEP

VARIABLES
    chain,    \* the last headers, oldest first: [fuel, fuelRate, step]
    height    \* the tip's height, saturated at HeightCap

vars == <<chain, height>>

(* Beyond this height nBlock * 2 >= height - 1 never holds again. *)
HeightCap == 2 * nBlock + 2

KeptBlocks == IF nBlock > 1 THEN nBlock ELSE 1

(* The fuel a block of s run steps pays at rate f (spec 4.3, not src/). *)
BlockFuel(s, f) == (s * f) \div 100

Tip == chain[Len(chain)]

(* The run steps the loop reads back from one header. *)
StepOf(b) == (b.fuel \div b.fuelRate) * 100

(* nTotalStep / nBlock over the nBlock headers ending at the tip. *)
AverageStep(c) == FoldLeft(LAMBDA acc, b : acc + StepOf(b), 0, c) \div nBlock

(* Below 0.75 * MAX_BLOCK_RUN_STEP the rate is cut by 10%, above 0.85 *    *)
(* MAX_BLOCK_RUN_STEP raised by 10%, truncated to uint32_t, then clamped.  *)
NewFuelRate(avg, prev) ==
    LET rate == IF 4 * avg < 3 * MAX_BLOCK_RUN_STEP THEN (prev * 9) \div 10
                ELSE IF 20 * avg > 17 * MAX_BLOCK_RUN_STEP THEN (prev * 11) \div 10
                ELSE prev
    IN  IF rate < MIN_FUEL_RATES THEN MIN_FUEL_RATES ELSE rate

(* The warm-up guard: the chain is too short to adapt. *)
WarmingUp(h) == nBlock * 2 >= h - 1

GetElementForBurn(c, h) ==
    IF WarmingUp(h) THEN INIT_FUEL_RATES
    ELSE NewFuelRate(AverageStep(c), c[Len(c)].fuelRate)

Init ==
    /\ chain = <<[fuel |-> 0, fuelRate |-> INIT_FUEL_RATES, step |-> 0]>>
    /\ height = 0

(* The factory takes the rate from the tip, its block pays the fuel of    *)
(* its steps at that rate, and the block becomes the tip.                  *)
NewBlock ==
    \E s \in BlockSteps :
        LET rate == GetElementForBurn(chain, height)
            next == Append(chain, [fuel |-> BlockFuel(s, rate), fuelRate |-> rate, step |-> s])
        IN  /\ rate <= MaxFuelRate
            /\ chain' = SubSeq(next, Len(next) - Min({Len(next), KeptBlocks}) + 1, Len(next))
            /\ height' = Min({height + 1, HeightCap})

(* The rate bound is reached: no further block is explored. *)
Bounded ==
    /\ GetElementForBurn(chain, height) > MaxFuelRate
    /\ UNCHANGED vars

Next == NewBlock \/ Bounded

Spec == Init /\ [][Next]_vars

(***************************************************************************)
(* Properties                                                              *)
(***************************************************************************)
NewRate == chain'[Len(chain')].fuelRate

(* Spec 4.3: step = fuel * 100 / fuel_rate for each block of the window.   *)
SpecAverageStep(c) ==
    FoldLeft(LAMBDA acc, b : acc + (b.fuel * 100) \div b.fuelRate, 0, c) \div nBlock

(* Spec 4.3: the rate GetElementForBurn returns is the one the spec's      *)
(* per-block step formula gives.                                            *)
RateMatchesSpec ==
    WarmingUp(height) \/ nBlock <= 0 \/
    GetElementForBurn(chain, height) = NewFuelRate(SpecAverageStep(chain), Tip.fuelRate)

(* Spec 4.3 and its test 3: a window above 85% load raises the rate by    *)
(* 10% (100 -> 110).                                                       *)
RateRisesUnderLoad ==
    [][NewBlock /\ ~WarmingUp(height)
       /\ 20 * AverageStep(chain) > 17 * MAX_BLOCK_RUN_STEP
         => NewRate > Tip.fuelRate]_vars

=============================================================================
