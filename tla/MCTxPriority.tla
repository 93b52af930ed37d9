---------------------------- MODULE MCTxPriority ----------------------------
EXTENDS TxPriority

(* Three mempool transactions, all below TRANSACTION_PRIORITY_CEILING      *)
(* (scoin.h), with fees, fuels and sizes whose fee-per-kB quotients both   *)
(* tie (2/2 = 1/1) and differ.                                             *)
MCHashes     == {1, 2, 3}
MCPriorities == {0, 999}
MCFees       == {1, 2}
MCFuels      == {0, 1}
MCSizes      == {1, 2}
=============================================================================
