---------------------------- MODULE MCMinerLoop -----------------------------
(* Two delegates, this node's and another, alternating slots of 2 s.  The  *)
(* stable-coin genesis block is at height 2 and the release starts at 3,    *)
(* so both factory switches are crossed within three blocks.                *)
EXTENDS MinerLoop

CONSTANTS d1, d2

MCSchedule == <<d1, d2>>

=============================================================================
