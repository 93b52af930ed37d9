------------------------------ MODULE DPoSChain ------------------------------
(***************************************************************************)
(* What the block producers of a DPoS chain promise (spec 4.2 and 5): a    *)
(* block is produced by the delegate of the slot its time falls in, at     *)
(* least one interval after the block it extends and never in the future. *)
(* Blocks are their time and producer; nothing else of them is promised   *)
(* here.                                                                   *)
(***************************************************************************)
EXTENDS Integers, Sequences

CONSTANTS Delegates, Schedule, Interval

VARIABLES chain, now

SlotOwner(t) == Schedule[((t \div Interval) % Len(Schedule)) + 1]

Last == chain[Len(chain)]

Init ==
    /\ chain = <<[time |-> 0, delegate |-> Schedule[1]]>>
    /\ now = 0

(* Some delegate produces the next block at a time t of its slot. *)
Produce ==
    \E t \in Last.time + Interval .. now :
        /\ chain' = Append(chain, [time |-> t, delegate |-> SlotOwner(t)])
        /\ UNCHANGED now

Tick ==
    /\ now' = now + 1
    /\ UNCHANGED chain

Spec == Init /\ [][Produce \/ Tick]_<<chain, now>>

=============================================================================
