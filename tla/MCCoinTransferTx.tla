-------------------------- MODULE MCCoinTransferTx --------------------------
(* Two users, the wallet's and another; amounts at the VARINT boundaries: *)
(* 127 is the largest one-byte value, 128 the smallest two-byte one and   *)
(* 16512 the smallest three-byte one; two memos; both fee symbols.        *)
EXTENDS CoinTransferTx

CONSTANTS u1, u2, m1, m2

MCUsers   == {u1, u2}
MCAmounts == {127, 128, 16512}
MCMemos   == {m1, m2}
MCSymbols == {"WICC", "WUSD"}
=============================================================================
