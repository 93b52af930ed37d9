--------------------------- MODULE BlockAssembler ---------------------------
(***************************************************************************)
(* Block assembly and its replay by the verifier (src/src/miner/miner.cpp):*)
(* CreateNewBlockPreStableCoinRelease / CreateNewBlockStableCoinRelease    *)
(* pack mempool transactions into a block against the cache cwIn, and      *)
(* VerifyRewardTx(bNeedRunTx = true) re-executes the block's transactions  *)
(* on a fresh cache over the same committed state.                         *)
(*                                                                         *)
(* The packing loop walks the priority queue best-first.  For every        *)
(* transaction it may stop on the slot budget (stable-coin release only),  *)
(* skip on the size bound, execute CheckTx and ExecuteTx on a child cache  *)
(* spCW, drop the child on failure or on the run-step bound, and otherwise *)
(* flush the child into cwIn, account size, steps, fuel and fees and       *)
(* append the transaction.  The queue order is the order of the priority   *)
(* set; every order of the eligible transactions is explored here (the     *)
(* comparator itself is modelled in TxPriority).                           *)
(*                                                                         *)
(* Transaction business rules are outside src/: ExecuteTx is modelled as a *)
(* transfer of `amt` plus the fee `fee` in symbol `sym` from `from` to     *)
(* `to`, failing when the balance does not cover it.                       *)
(***************************************************************************)
EXTENDS Integers, Sequences, FiniteSets, SequencesExt, TLC

CONSTANTS
    Accounts,            \* account RegIDs
    Symbols,             \* fee / coin symbols (WICC, WUSD)
    MempoolTxs,          \* the mempool's transactions (records, see Tx)
    SeenTxIds,           \* ids already in the committed txCache
    InitBalances,        \* committed balances: Accounts -> Symbols -> Nat
    MedianTx,            \* the BlockPriceMedianTx injected after the fork
    MAX_BLOCK_RUN_STEP,
    MAX_BLOCK_SIZE,
    KB,                  \* the 1000-byte margin of the size clamp
    ConfiguredMaxSize,   \* -blockmaxsize
    RewardTxSize         \* serialized size of the block with its reward tx

Tx == [id : STRING, kind : {"transfer", "median", "reward"},
       from : Accounts, to : Accounts, amt : Nat, fee : Nat, sym : Symbols,
       size : Nat, step : Nat, fuel : Nat, valid : BOOLEAN]

ASSUME MempoolTxs \subseteq Tx /\ MedianTx \in Tx /\ MedianTx.kind = "median"
ASSUME RewardTxSize < KB

VARIABLES
    mode,          \* "pre" (CreateNewBlockPreStableCoinRelease) or "post"
    queue,         \* txPriorities still to visit, best first
    cw,            \* balances seen through cwIn
    vptx,          \* the block's transactions after the reward tx
    totalBlockSize,
    totalRunStep,
    totalFuel,
    rewards,       \* fee symbol -> accumulated fees - fuel
    packed,        \* the packing loop has ended and the header is filled
    vIdx,          \* verifier: next block position to re-execute
    vcw,           \* verifier: balances seen through its spCW
    vRunStep,
    vFuel,
    verdict        \* "pending", "accepted" or "rejected"

asmVars == <<mode, queue, cw, vptx, totalBlockSize, totalRunStep, totalFuel,
             rewards, packed>>
verVars == <<vIdx, vcw, vRunStep, vFuel, verdict>>
vars == <<asmVars, verVars>>

(* The size clamp: between 1K and MAX_BLOCK_SIZE - 1K. *)
nBlockMaxSize == LET capped == IF MAX_BLOCK_SIZE - KB < ConfiguredMaxSize
                               THEN MAX_BLOCK_SIZE - KB ELSE ConfiguredMaxSize
                 IN  IF KB > capped THEN KB ELSE capped

\* Mutant: transactions already in the txCache are not filtered out.
GetPriorityTxKeepsSeen == {t \in MempoolTxs : t.kind # "reward"}

(* GetPriorityTx: block reward transactions and transactions already in    *)
(* the txCache are left out.                                               *)
GetPriorityTx == {t \in MempoolTxs : t.kind # "reward" /\ t.id \notin SeenTxIds}

(* The fee symbols the reward transaction of each factory accounts. *)
RewardSymbols(m) == IF m = "pre" THEN {"WICC"} ELSE {"WICC", "WUSD"}

(***************************************************************************)
(* Transaction execution (tx business rules, not under src/).              *)
(***************************************************************************)
\* CheckTx: static validity; before the stable-coin release only WICC fees.
CheckTx(t, m) == t.valid /\ (m = "pre" => t.sym = "WICC")

\* ExecuteTx succeeds when the sender covers amount and fee.
CanExecute(bal, t) ==
    t.kind = "median" \/ bal[t.from][t.sym] >= t.amt + t.fee

ExecuteTx(bal, t) ==
    IF t.kind = "median" THEN bal
    ELSE [bal EXCEPT ![t.from][t.sym] = @ - (t.amt + t.fee),
                     ![t.to][t.sym]   = @ + t.amt]

RECURSIVE ExecuteAll(_, _)
ExecuteAll(bal, seq) ==
    IF seq = <<>> THEN bal ELSE ExecuteAll(ExecuteTx(bal, Head(seq)), Tail(seq))

(***************************************************************************)
(* The packing loop                                                        *)
(***************************************************************************)
Init ==
    /\ mode \in {"pre", "post"}
    /\ \E order \in SetToSeqs(GetPriorityTx) :
          queue = IF mode = "post" THEN <<MedianTx>> \o order ELSE order
    /\ cw = InitBalances
    /\ vptx = <<>>
    /\ totalBlockSize = RewardTxSize
    /\ totalRunStep = 0
    /\ totalFuel = 0
    /\ rewards = [s \in RewardSymbols(mode) |-> 0]
    /\ packed = FALSE
    /\ vIdx = 1
    /\ vcw = InitBalances
    /\ vRunStep = 0
    /\ vFuel = 0
    /\ verdict = "pending"

Visiting == ~packed /\ queue # <<>>

\* The slot budget (interval - 1s) is spent: the loop breaks.  Only the
\* stable-coin release factory has this guard; elapsed time is not modelled,
\* so the break may come before any transaction.
BudgetExpired ==
    /\ Visiting
    /\ mode = "post"
    /\ queue' = <<>>
    /\ UNCHANGED <<mode, cw, vptx, totalBlockSize, totalRunStep, totalFuel,
                   rewards, packed, verVars>>

\* The transaction would reach the block size bound: skipped.
ExceedsSize(t) == totalBlockSize + t.size >= nBlockMaxSize

SkipSize ==
    /\ Visiting
    /\ ExceedsSize(Head(queue))
    /\ queue' = Tail(queue)
    /\ UNCHANGED <<mode, cw, vptx, totalBlockSize, totalRunStep, totalFuel,
                   rewards, packed, verVars>>

\* CheckTx or ExecuteTx fails: the execute failure is logged and spCW dropped.
ExecuteFails ==
    /\ Visiting
    /\ LET t == Head(queue) IN
          /\ ~ExceedsSize(t)
          /\ ~(CheckTx(t, mode) /\ CanExecute(cw, t))
    /\ queue' = Tail(queue)
    /\ UNCHANGED <<mode, cw, vptx, totalBlockSize, totalRunStep, totalFuel,
                   rewards, packed, verVars>>

\* The run-step bound, tested after execution: spCW is dropped unflushed.
ExceedsRunStep(t) == totalRunStep + t.step >= MAX_BLOCK_RUN_STEP

\* Mutant: spCW is flushed before the run-step test drops the transaction.
SkipRunStepFlushed ==
    /\ Visiting
    /\ LET t == Head(queue) IN
          /\ ~ExceedsSize(t)
          /\ CheckTx(t, mode) /\ CanExecute(cw, t)
          /\ ExceedsRunStep(t)
          /\ cw' = ExecuteTx(cw, t)
    /\ queue' = Tail(queue)
    /\ UNCHANGED <<mode, vptx, totalBlockSize, totalRunStep, totalFuel,
                   rewards, packed, verVars>>

SkipRunStep ==
    /\ Visiting
    /\ LET t == Head(queue) IN
          /\ ~ExceedsSize(t)
          /\ CheckTx(t, mode) /\ CanExecute(cw, t)
          /\ ExceedsRunStep(t)
    /\ queue' = Tail(queue)
    /\ UNCHANGED <<mode, cw, vptx, totalBlockSize, totalRunStep, totalFuel,
                   rewards, packed, verVars>>

\* Mutant: only CheckTx's result is tested, a failed ExecuteTx is packed.
PackTxIgnoresExecute ==
    /\ Visiting
    /\ LET t == Head(queue) IN
          /\ ~ExceedsSize(t)
          /\ CheckTx(t, mode)
          /\ ~ExceedsRunStep(t)
          /\ cw' = ExecuteTx(cw, t)
          /\ totalBlockSize' = totalBlockSize + t.size
          /\ totalRunStep' = totalRunStep + t.step
          /\ totalFuel' = totalFuel + t.fuel
          /\ rewards' = [rewards EXCEPT ![t.sym] = @ + (t.fee - t.fuel)]
          /\ vptx' = Append(vptx, t)
    /\ queue' = Tail(queue)
    /\ UNCHANGED <<mode, packed, verVars>>

\* spCW->Flush(), the accounting and vptx.push_back.
PackTx ==
    /\ Visiting
    /\ LET t == Head(queue) IN
          /\ ~ExceedsSize(t)
          /\ CheckTx(t, mode) /\ CanExecute(cw, t)
          /\ ~ExceedsRunStep(t)
          /\ cw' = ExecuteTx(cw, t)
          /\ totalBlockSize' = totalBlockSize + t.size
          /\ totalRunStep' = totalRunStep + t.step
          /\ totalFuel' = totalFuel + t.fuel
          /\ rewards' = [rewards EXCEPT ![t.sym] = @ + (t.fee - t.fuel)]
          /\ vptx' = Append(vptx, t)
    /\ queue' = Tail(queue)
    /\ UNCHANGED <<mode, packed, verVars>>

\* The queue is exhausted: reward_fees and the header (fuel, fuel rate) are
\* set from the totals, and the block is handed over.
FillHeader ==
    /\ ~packed
    /\ queue = <<>>
    /\ packed' = TRUE
    /\ UNCHANGED <<mode, queue, cw, vptx, totalBlockSize, totalRunStep,
                   totalFuel, rewards, verVars>>

(***************************************************************************)
(* VerifyRewardTx with bNeedRunTx: transactions 1..n re-executed in order. *)
(***************************************************************************)
Verifying == packed /\ verdict = "pending"

VerifyTx ==
    /\ Verifying
    /\ vIdx <= Len(vptx)
    /\ LET t == vptx[vIdx] IN
          IF t.id \in SeenTxIds \/ ~CanExecute(vcw, t)
                \/ vRunStep + t.step > MAX_BLOCK_RUN_STEP
          THEN /\ verdict' = "rejected"
               /\ UNCHANGED <<vIdx, vcw, vRunStep, vFuel>>
          ELSE /\ vcw' = ExecuteTx(vcw, t)
               /\ vRunStep' = vRunStep + t.step
               /\ vFuel' = vFuel + t.fuel
               /\ vIdx' = vIdx + 1
               /\ UNCHANGED verdict
    /\ UNCHANGED asmVars

\* The summed fuel must equal the fuel in the block header.
VerifyFuel ==
    /\ Verifying
    /\ vIdx > Len(vptx)
    /\ verdict' = IF vFuel = totalFuel THEN "accepted" ELSE "rejected"
    /\ UNCHANGED <<vIdx, vcw, vRunStep, vFuel, asmVars>>

\* The block has been verified: nothing is left to do for it.
Done ==
    /\ verdict # "pending"
    /\ UNCHANGED vars

Next ==
    \/ BudgetExpired
    \/ SkipSize
    \/ ExecuteFails
    \/ SkipRunStep
    \/ PackTx
    \/ FillHeader
    \/ VerifyTx
    \/ VerifyFuel
    \/ Done

Spec == Init /\ [][Next]_vars

(***************************************************************************)
(* Properties                                                              *)
(***************************************************************************)
TypeOK ==
    /\ mode \in {"pre", "post"}
    /\ queue \in Seq(Tx) /\ vptx \in Seq(Tx)
    /\ cw \in [Accounts -> [Symbols -> Nat]]
    /\ rewards \in [RewardSymbols(mode) -> Nat]
    /\ packed \in BOOLEAN
    /\ verdict \in {"pending", "accepted", "rejected"}
    /\ vIdx \in 1 .. Len(vptx) + 1

(* Per-transaction errors are contained: whatever was skipped, failed or   *)
(* hit a bound, cwIn holds exactly the effects of the packed transactions, *)
(* executed in block order over the committed state.                      *)
CacheHoldsPackedTxs == cw = ExecuteAll(InitBalances, vptx)

(* Assembler-verifier round trip (spec 8): a block built against a state   *)
(* is accepted by VerifyRewardTx re-executing it against the same state,  *)
(* and the verifier's cache ends where the assembler's did.               *)
VerifierAccepts ==
    /\ verdict # "rejected"
    /\ verdict = "accepted" => vcw = cw

=============================================================================
