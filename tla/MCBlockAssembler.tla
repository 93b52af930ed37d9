-------------------------- MODULE MCBlockAssembler --------------------------
(* Model-checking instance of BlockAssembler.  Two accounts; four          *)
(* candidate transactions in the mempool plus a reward transaction and one *)
(* already in the txCache.  t1 and t2 both spend a1's WICC, which covers   *)
(* only one of them; t3 spends WICC a2 only holds once t1 or t2 has paid   *)
(* it; t4 fails CheckTx; t5 pays its fee in WUSD.  Sizes and run steps are *)
(* chosen so that both bounds cut the block for some queue orders.         *)
EXTENDS BlockAssembler

MCAccounts == {"a1", "a2"}
MCSymbols  == {"WICC", "WUSD"}

MkTx(id, kind, from, to, amt, fee, sym, size, step, fuel, valid) ==
    [id |-> id, kind |-> kind, from |-> from, to |-> to, amt |-> amt,
     fee |-> fee, sym |-> sym, size |-> size, step |-> step, fuel |-> fuel,
     valid |-> valid]

MCMempoolTxs ==
    { MkTx("t1", "transfer", "a1", "a2", 2, 2, "WICC", 1, 2, 1, TRUE),
      MkTx("t2", "transfer", "a1", "a2", 1, 2, "WICC", 3, 3, 2, TRUE),
      MkTx("t3", "transfer", "a2", "a1", 1, 1, "WICC", 1, 2, 0, TRUE),
      MkTx("t4", "transfer", "a2", "a1", 0, 1, "WICC", 1, 1, 1, FALSE),
      MkTx("t5", "transfer", "a2", "a1", 1, 2, "WUSD", 2, 1, 1, TRUE),
      MkTx("r0", "reward",   "a1", "a1", 0, 0, "WICC", 1, 0, 0, TRUE),
      MkTx("s0", "transfer", "a1", "a2", 1, 1, "WICC", 1, 1, 1, TRUE) }

MCSeenTxIds == {"s0"}

MCInitBalances == [a \in MCAccounts |->
                     [s \in MCSymbols |->
                        IF a = "a1" /\ s = "WICC" THEN 4
                        ELSE IF a = "a2" /\ s = "WUSD" THEN 3 ELSE 0]]

MCMedianTx == MkTx("median", "median", "a1", "a1", 0, 0, "WICC", 1, 1, 0, TRUE)
=============================================================================
