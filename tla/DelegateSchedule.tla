-------------------------- MODULE DelegateSchedule --------------------------
(***************************************************************************)
(* The delegate schedule (src/src/miner/miner.cpp): ShuffleDelegates       *)
(* permutes the top-N delegate list in place with swaps driven by a chain  *)
(* of digests, and GetCurrentDelegate maps a block time to the delegate    *)
(* of its slot.  MineBlock and VerifyRewardTx both call the pair, with the *)
(* block's height and time.                                                *)
(*                                                                         *)
(* The digests are SHA-256 over the epoch number ceil(h / N) and the       *)
(* previous digests; only their 64-bit lanes modulo N are ever used, so    *)
(* the model takes the digest chain as a free function `lanes` from        *)
(* (round, lane) to 0 .. N-1: every digest chain is covered.  Delegates    *)
(* are their original positions 1 .. N.  The shuffle is modelled step by   *)
(* step, one action per statement group of its two nested loops.           *)
(***************************************************************************)
EXTENDS Integers, Sequences, FiniteSets

CONSTANTS
    MaxDelegates,  \* IniCfg().GetTotalDelegateNum() ranges over 1 .. MaxDelegates
    Interval       \* GetBlockInterval(height), in seconds

ASSUME MaxDelegates \in Nat \ {0} /\ Interval \in Nat \ {0}

VARIABLES
    n,       \* totalDelegateNum
    lanes,   \* the digest chain: <<round, x>> -> lane value mod n
    list,    \* delegateList
    i,       \* the loop index i
    x,       \* the lane index x
    r,       \* the number of digests consumed (re-hashes)
    pc       \* "outer", "inner" or "done"

vars == <<n, lanes, list, i, x, r, pc>>

(* The lanes a shuffle of num delegates can read: four per digest. *)
LaneKeys(num) == {<<k \div 4, k % 4>> : k \in 0 .. num - 1}

Swap(s, a, b) == [s EXCEPT ![a] = s[b], ![b] = s[a]]

Init ==
    /\ n \in 1 .. MaxDelegates
    /\ lanes \in [LaneKeys(n) -> 0 .. n - 1]
    /\ list = [k \in 1 .. n |-> k]
    /\ i = 0 /\ x = 0 /\ r = 0
    /\ pc = "outer"

(* for (i = 0; i < totalDelegateNum; i++): the outer loop's test. *)
OuterTest ==
    /\ pc = "outer"
    /\ pc' = IF i < n THEN "inner" ELSE "done"
    /\ x' = 0
    /\ UNCHANGED <<n, lanes, list, i, r>>

\* Mutant: the swap loses the temporary and copies one way only.
InnerSwapNoTemp ==
    /\ pc = "inner"
    /\ x < 4 /\ i < n
    /\ list' = [list EXCEPT ![i + 1] = list[lanes[<<r, x>>] + 1]]
    /\ i' = i + 1 /\ x' = x + 1
    /\ UNCHANGED <<n, lanes, r, pc>>

(* The inner loop body: newIndex = lane x mod N, swap delegateList[newIndex] *)
(* and delegateList[i]; then i++, x++.                                     *)
InnerSwap ==
    /\ pc = "inner"
    /\ x < 4 /\ i < n
    /\ list' = Swap(list, i + 1, lanes[<<r, x>>] + 1)
    /\ i' = i + 1 /\ x' = x + 1
    /\ UNCHANGED <<n, lanes, r, pc>>

(* The inner loop ends: ss << currentSeed re-hashes, and the outer loop's  *)
(* own i++ runs as well.                                                   *)
NextDigest ==
    /\ pc = "inner"
    /\ ~(x < 4 /\ i < n)
    /\ r' = r + 1
    /\ i' = i + 1
    /\ pc' = "outer"
    /\ UNCHANGED <<n, lanes, list, x>>

(* The shuffle has returned. *)
Done == pc = "done" /\ UNCHANGED vars

Next == OuterTest \/ InnerSwap \/ NextDigest \/ Done

Spec == Init /\ [][Next]_vars

(* GetCurrentDelegate: slot = time / interval, index = slot % N. *)
GetCurrentDelegate(time, delegates) ==
    delegates[((time \div Interval) % Len(delegates)) + 1]

(***************************************************************************)
(* Properties                                                              *)
(***************************************************************************)
(* Slot uniqueness (spec 8): with the shuffled list, every N consecutive    *)
(* slots, from any starting slot and at any time inside each slot, are      *)
(* assigned to N distinct delegates, so each delegate gets exactly one      *)
(* slot per round.                                                          *)
EveryDelegateOneSlotPerRound ==
    pc = "done" =>
        \A start \in 0 .. n - 1 :
            {GetCurrentDelegate(t, list) :
                t \in start * Interval .. (start + n) * Interval - 1} = 1 .. n

(* The shuffle spec 4.2 describes: position i is swapped with lane i % 4   *)
(* of digest i \div 4, for i = 0 .. N-1.                                   *)
RECURSIVE SpecShuffle(_, _)
SpecShuffle(s, k) ==
    IF k >= Len(s) THEN s
    ELSE SpecShuffle(Swap(s, k + 1, lanes[<<k \div 4, k % 4>>] + 1), k + 1)

(* Spec 4.2: the returned list is the one the loop advancing i by 4 per    *)
(* digest produces.                                                         *)
ShuffleMatchesSpec ==
    pc = "done" => list = SpecShuffle([k \in 1 .. n |-> k], 0)

=============================================================================
