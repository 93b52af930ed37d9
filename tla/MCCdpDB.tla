------------------------------ MODULE MCCdpDB ------------------------------
(* Model-checking instance of CdpDB: two CDPs of two owners, stake and     *)
(* debt amounts small enough that every NewCDP/UpdateCDP/EraseCDP can be   *)
(* interleaved with flushes, dropped caches and block connect/undo.        *)
EXTENDS CdpDB

CONSTANTS c1, c2
MCCdpIds       == {c1, c2}
MCOwners       == {"o1"}
MCStakeAmounts == {1, 2}
MCOwedAmounts  == {1}

(* Prices below, at and above PRICE_BOOST; targets on both sides of the  *)
(* CDPs' ratios, some of them exactly at one.                            *)
MCPrices       == {1, 2}
MCTargetRatios == {2, 3}

(* A cdpid is an opaque transaction hash: no operation of CCdpDBCache    *)
(* orders or compares ids, so any permutation of them is a symmetry of   *)
(* every state and of every invariant (all are safety properties).       *)
Symmetry == Permutations(MCCdpIds)



=============================================================================
