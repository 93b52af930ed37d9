# TLA+ models of the WaykiChain miner and CDP persistence

This directory holds TLA+ models of the parts of `src/` that decide which
transactions go into a block, whether a block is accepted, and how CDP state
is stored. Each model is checked with TLC. `PROJECT.json` is the machine-readable
index for the project:

- `components`: every part of the code, modelled or not;
- `runs`: the TLC runs and what each checks;
- `mutants`: the seeded bugs each property must catch;
- `map`: each TLA+ definition to the source lines it translates;
- `hazards`: what is hard to test in this code, at the line where it bites.

## 1. The system and its parts

The source under `src/` consists of the miner (`src/src/miner/miner.cpp`,
`miner.h`), the CDP store (`src/src/persistence/cdpdb.cpp`), the stable-coin
parameter table (`src/src/config/scoin.h`), the coin-transfer transaction
classes (`src/src/tx/cointransfertx.h`) and a test harness
(`src/src/tests/ptests/CycleTestManger.cpp`). The parts:

| Part | Code | State | Operations | Interacts with |
|---|---|---|---|---|
| Mining loop | `CoinMiner`, `MineBlock`, `CheckWork`, `CreateBlockRewardTx` | the tip it builds on, the mempool update counter, the wall clock | choose a factory from the next height; wait for the slot; find the slot's delegate; sign; submit; retry on timeout | the network thread moving `chainActive`; the mempool; the factories; the verifier (through `ProcessBlock`) |
| Block factories | `CreateNewBlockPreStableCoinRelease`, `CreateNewBlockStableCoinRelease`, `CreateStableCoinGenesisBlock` | `cwIn`, a cache over the committed state; the block under construction; running totals of size, run steps, fuel and fees | walk the priority set best-first; for each transaction, break on the slot budget, skip on size, execute on a child cache `spCW`, skip on run steps, then flush and account | the mempool (`GetPriorityTx`); the fuel rate (`GetElementForBurn`); the CDP and account caches through `ExecuteTx` |
| Priority selection | `GetPriorityTx`, `TxPriority::operator<` | a `std::set<TxPriority>` | filter the mempool; compute the fee per kB; order by priority, fee and hash | the factories |
| Verifier | `VerifyRewardTx` | its own `spCW` over `cwIn`; run-step and fuel totals | check the delegate, nonce, merkle root, same-slot rule and signature; with `bNeedRunTx`, re-execute transactions 1..n and compare the fuel | the factories' output; `ShuffleDelegates`; `GetCurrentDelegate` |
| Delegate schedule | `ShuffleDelegates`, `GetCurrentDelegate` | the delegate list | a seeded in-place shuffle; slot → index | the miner and the verifier, which must agree |
| Fuel rate | `GetElementForBurn` | the fuel and fuel rate of the last `nBlock` blocks | adapt the rate by ×0.9 or ×1.1 toward a run-step target | the factories, and the verifier through the header |
| CDP store | `CCdpDBCache` | five keyed stores: global staked, global owed, `cdpCache`, `regId2CDPCache`, `ratioCDPIdCache` | `NewCDP`, `UpdateCDP`, `EraseCDP`, `Flush`, `SetDbOpLogMap`, `UndoData`; queries | the transaction execution inside both factories and the verifier, through the per-transaction cache stack |
| Mined-block ring | `MinedBlockInfo`, `GetMinedBlocks` | a circular buffer under `csMinedBlocks` | push front; read | RPC `getminedblocks` (MinerLoop) |
| Coin transfer transactions | `CBaseCoinTransferTx`, `CCoinTransferTx` (`cointransfertx.h`) | the fields, and the `mutable sigHash` cache | construct; serialize and read back; `ComputeSignatureHash` | the wallet that signs them; the node that reads, hashes and verifies them before `ExecuteTx` |
| Parameters, test harness | `scoin.h`, `CycleTestManger.cpp` | static data | none that change node state | n/a |

How the parts work together. `CoinMiner` builds a block through a factory on a
cache over the database. `MineBlock` signs it and hands it to `CheckWork`.
`CheckWork` calls `ProcessBlock`, which runs `VerifyRewardTx` on every node.
Each transaction's `ExecuteTx` writes to the CDP store, the account store and
the other stores through a stack of caches:

- database;
- block cache;
- per-transaction `spCW`.

A transaction's writes reach the layer below only through `Flush`. Connecting a
block records an op log, and `UndoData` uses it to undo the block.

### What is hard here

**Per-transaction atomicity.** A failed or skipped transaction must leave
nothing in `cwIn`. In the code this depends on where `spCW->Flush()` is placed
relative to the `continue` statements.

**Assembler and verifier agreement.** The assembler tests run steps with `>=`
after execution, and the verifier with `>` on the running sum. The assembler
filters seen transactions, and the verifier rejects duplicates. The header fuel
must equal the fuel the verifier recomputes. A mismatch rejects every block this
node mines.

**Multi-store consistency of a CDP.** One CDP spans five stores, which are
written in a fixed order through three cache layers and undone through an op
log. The order of erase and save in `UpdateCDP` matters when the ratio key does
not change.

**Concurrency in the miner loop.**
- `CoinMiner` reads the tip and the mempool counter without `cs_main` (miner.cpp:739–741).
- `MineBlock` re-checks the tip before signing (miner.cpp:599, 639) and again in `CheckWork` (miner.cpp:575).
- It retries after 60 s, or when the mempool changes (miner.cpp:683).

**Comparator and shuffle determinism.** `TxPriority::operator<` is not a
strict weak order (miner.h:41). `ShuffleDelegates` advances `i` twice per
group (miner.cpp:156).

**Integer edges.**
- Unsigned `fees - fuel` (miner.cpp:85, 353, 532).
- Division by `nBlock` and by the price (miner.cpp:55, cdpdb.cpp:131).
- Truncating `nFuel / nFuelRate * 100` and `rate * 1.1` (miner.cpp:51, 59).

### What makes each part correct

- **CDP store:**
  - the global counters equal the sums over live CDPs;
  - the ratio index holds exactly one entry per live CDP, at its current key;
  - the owner index holds exactly the live CDPs of each owner;
  - all three hold in every cache layer, after flush, after drop, and after connect and undo.
- **Factories:**
  - `cwIn` equals the replay of the packed body.
- **Verifier:** accepts every block the factory produced against the same state. It re-executes the body, recomputes the fuel sum against the header and tests the run steps with its own `>` bound, so the header totals and the bounds are checked through it.
- **Priority and shuffle:**
  - the comparator is a strict weak order;
  - the shuffle is a permutation that every node computes alike and that follows the documented algorithm.
- **Miner loop:**
  - never submits a block built on a tip that is no longer the tip;
  - never submits a block the verifier's delegate or same-slot check rejects;
  - builds every block with the factory its height calls for;
  - together with the other delegates, produces the chain the DPoS rules describe: each block by its slot's delegate, at least one interval after its parent.
- **Fuel rate:** the rate follows spec 4.3's formula, and rises under a window above 85% load.

## 2. Modules

| Module | Models | Composed with |
|---|---|---|
| `CdpDB` | `CCdpDBCache` over a database / block cache / transaction cache stack | — |
| `MCCdpDB` | model values and bounds for `CdpDB` | extends `CdpDB` |
| `BlockAssembler` | both factories' packing loops and `VerifyRewardTx`'s re-execution | — |
| `MCBlockAssembler` | a mempool with conflicting, failing, oversized, foreign-symbol and already-seen transactions | extends `BlockAssembler` |
| `TxPriority` | `GetPriorityTx` filling the `std::set<TxPriority>`, and `TxPriority::operator<` | — |
| `MCTxPriority` | three mempool transactions with tying and differing fees | extends `TxPriority` |
| `DelegateSchedule` | `ShuffleDelegates` step by step and `GetCurrentDelegate` | — (checked directly) |
| `FuelRate` | `GetElementForBurn` over a growing chain of headers | — (checked directly) |
| `MinerLoop` | `CoinMiner`, `MineBlock`, `CreateBlockRewardTx`, `CheckWork` and `VerifyRewardTx`'s header checks, against the network thread, the mempool and the clock | instances `DPoSChain` |
| `MCMinerLoop` | two delegates in alternating slots | extends `MinerLoop` |
| `DPoSChain` | the abstract chain of time and producer | refined by `MinerLoop` |
| `CoinTransferTx` | both coin transfer classes between a signing wallet, a network with a re-encoding adversary and a node | — |
| `MCCoinTransferTx` | two users, amounts around the VARINT byte boundary, two memos and symbols | extends `CoinTransferTx` |

The modules share no variables. They meet at interfaces, each of which one
module fixes and another takes as given:
- the order of the priority set, which `TxPriority` checks and `BlockAssembler` leaves free;
- the shuffled delegate list, which `DelegateSchedule` checks and `MinerLoop` takes as a fixed `Schedule`;
- the fuel rate in the header, which `FuelRate` computes and `BlockAssembler` takes as a constant.

### CdpDB

Each cache layer is a function from keys to values. A key is tagged with its
store:
- `<<"staked">>` and `<<"owed">>`: the global counters;
- `<<"cdp", id>>`: `cdpCache`;
- `<<"owner", o>>`: `regId2CDPCache`;
- `<<"ratio", r, id>>`: `ratioCDPIdCache`.

A stack of layers is a tuple, searched top first by the recursive `Find`. The
constant `Absent` is the tombstone that `EraseData` leaves.

The variables are the layers:
- `db`: the database;
- `blk`: the block cache;
- `tx`: the transaction's `spCW`.

`undo` is the op log, and `txOps` bounds the writes per transaction. The cache
classes themselves are not under `src/`. Their read-through, write and flush
semantics are modelled from the spec, and those definitions are marked
`spec_modelled` in the map.

| Code | Definition |
|---|---|
| `SaveCDPToDB`, `EraseCDPFromDB`, `SaveCDPToRatioDB`, `EraseCDPFromRatioDB` | definitions of the same names, operating on (top layer, layers below) |
| `NewCDP`, `UpdateCDP`, `EraseCDP` | the actions `NewCDP`, `UpdateCDP`, `EraseCDP`, built from `NewCDPLayer`, `UpdateCDPLayer`, `EraseCDPLayer` in the code's call order |
| `spCW->Flush()` | `Flush` |
| dropping `spCW` | `DropTxCache` |
| connecting a block: flush to the database and record the op log | `ConnectBlock` |
| `UndoData` | `DisconnectBlock` |

The counters are `% 2^WordBits`, as in the code's `uint64_t`.

`GetCdpListByCollateralRatio` is an operator over a view. `ThresholdKeys` is
its threshold: `(ratio / RATIO_BOOST) / (price / PRICE_BOOST) *
CDP_BASE_RATIO_BOOST`, computed in double and truncated to `uint64_t`. The
model gives the exact floor, or one less when the exact quotient is an integer
that the double can fall just below. `GetAllElements` is outside `src/`, so
`RatioEntries` takes its meaning from spec 4.7: the ratio entries at or below
the threshold, each read through the layers.

`GetGlobalCollateralRatio` and `CheckGlobalCollateralRatioFloorReached` are
operators over a view too. They read the two aggregate counters of that view,
give `UINT64_MAX` when there is no debt, and otherwise truncate
`staked * price / PRICE_BOOST / owed * RATIO_BOOST`. For the model's amounts the
double quotient is exact, so the truncated integer quotient is exact too.

### BlockAssembler

A transaction is a record with these fields:
- id, kind, sender, receiver and amount;
- fee and fee symbol;
- serialized size, run steps and fuel;
- a validity flag for `CheckTx`.

The business rules of `ExecuteTx` are not under `src/`. A transfer is modelled
as "the sender pays amount + fee, the receiver gets the amount", and it fails
when the sender cannot pay.

`Init` chooses the factory (`mode`) and an order of the filtered mempool. After
the fork, the median-price transaction comes first, because it has the highest
priority. Every order is explored: which orders the set can really produce is
`TxPriority`'s question.

The loop actions, one per branch of the loop body:

| Action | Branch | Effect |
|---|---|---|
| `BudgetExpired` | `costTime >= interval - 1`, post factory only | break |
| `SkipSize` | size bound reached | skip |
| `ExecuteFails` | `CheckTx` or `ExecuteTx` fails, or the catch | skip |
| `SkipRunStep` | run-step bound reached, after execution | skip |
| `PackTx` | success | flush, account, append |

`FillHeader` ends the loop, and then the verifier runs:
- `VerifyTx`, once per body transaction: duplicate check, `ExecuteTx`, run-step check;
- `VerifyFuel`: compares the fuel sum with the header.

`Done` is the terminal stutter after the verdict.

### TxPriority

`mempool` maps each hash to (priority, fee, fuel, size). `pending` is the part
of `memPoolTxs` that `GetPriorityTx` has not yet visited, in ascending hash
order, as `std::map` iterates. `txPriorities` is the `std::set` as its in-order
sequence. `CollectTx` is one iteration of `GetPriorityTx`'s loop, and
`QueueMedian` is the post factory's `emplace` of the price-median transaction.

`std::set::emplace` is modelled by what a search tree does:
- the descent compares the new element with a node and goes left or right;
- the element is inserted unless its in-order predecessor does not compare less than it.

`InsertGaps` (recursive) lets the descent meet any node of the current range,
which covers every tree shape. `TxLess` is `operator<` exactly as written. Its
inner test is `fabs(feePerKb < other.feePerKb) <= 1e-8`, the absolute value of
a bool, which holds when the fee is *not* less. A fee per kB is represented by
numerator and denominator, compared by cross-multiplication. `fee - fuel` is
taken modulo `2^WordBits`.

### DelegateSchedule

The digest chain of `ShuffleDelegates` enters only through its 64-bit lanes
modulo N. The model therefore takes the chain as a free function `lanes` from
(round, lane) to 0..N-1, which covers every SHA-256 output. `OuterTest`,
`InnerSwap` and `NextDigest` are the loop's statement groups. `NextDigest`
includes the outer loop's own `i++`, which the code executes after the inner
loop's. `GetCurrentDelegate` is an operator, and so is `SpecShuffle`
(recursive), the shuffle spec 4.2 describes.

### FuelRate

`chain` holds the last `nBlock` headers as (fuel, fuelRate, steps), and
`height` is the tip's height, saturated once the warm-up guard can no longer
hold. `NewBlock` is a factory building one block: it takes the rate from
`GetElementForBurn(tip)`, and a nondeterministic load from `BlockSteps` pays
`steps * rate / 100` fuel. That fuel formula is spec 4.3's, since `GetFuel` is
not under `src/`.

`GetElementForBurn` keeps the code's integer steps:
- the per-header read-back `nFuel / nFuelRate * 100`;
- the average `/ nBlock`;
- the ×0.9 and ×1.1 branches truncated to `uint32_t`;
- the clamp to `MIN_FUEL_RATES`.

FuelRate has no passing run. A safety property relating the rate to the
blocks' true load ("the rate rises only under load") would hold or fail by the
rounding of the assumed fuel formula, not by anything in `miner.cpp`, so it is
not checked. The two runs compare the code's rate with what spec 4.3 says it
should be, and both find a disagreement.

### MinerLoop and DPoSChain

The variables:
- `chain`: `chainActive`, as a sequence of blocks (height, factory kind, time, producer);
- `now`: `GetTime()`;
- `mpUpdated`: the mempool's update counter;
- `pc` and the miner's locals: `txUpdated`, `blockHeight`, `prevIdx` (`pIndexPrev`), `block`, `nStart`, `currentTime`;
- `miningBlockInfo` and `minedBlocks`: the global `MinedBlockInfo` and the `circular_buffer` of capacity `MaxMinedBlockCount` (`MAX_MINED_BLOCK_COUNT`). A hash is abstracted to (height, time, producer). The counters `txCount`, `totalBlockSize` and `totalFees` are abstracted to whether an ordinary factory filled them;
- `clockRaced`: a history variable, used only by the liveness property. It becomes TRUE once the clock moves while the real-time assumption below does not hold.

The miner's actions, in the code's order:

| Action | Code |
|---|---|
| `ReadMempoolCounter`, `ReadHeight`, `ReadTip` | the old-tip wait (724–731, `TipStale`: no step while the tip above height 1 is older than `StaleTipAge`), `miningBlockInfo.SetNull()` (733) and the three unlocked reads, miner.cpp:739–741, one step each, so the network thread can run between them |
| `CreateBlock` | the factory chosen from `blockHeight`, built under `cs_main` on the tip it reads itself (744–760); the ordinary factories fill `miningBlockInfo`'s counters (365–367, 545–547) |
| `CheckTip` | `pIndexPrev != chainActive.Tip()` (599) |
| `WakeUp` | the sleep until `pIndexPrev` time + interval (603–608) |
| `PickDelegate` | `currentTime = GetTime()` and `GetCurrentDelegate` (626–628) |
| `Sign` | under `cs_main`: the height check (639), the wallet key (643), `CreateBlockRewardTx`'s same-slot refusal (`RewardTxAllowed`, 104–121), and the header time |
| `CheckWork` | the stale check and `ProcessBlock`, which connects the block when `VerifyHeader` (`VerifyRewardTx`'s delegate and same-slot checks, 176–214) accepts it; then, whatever CheckWork returned, the header copy into `miningBlockInfo` (`RecordMinedBlock`, 667–673, with `hashPrevBlock` set to the block's own hash as the code does) and `minedBlocks.push_front` (`PushFront`, 674–678) |
| `Retry` | the 60 s or mempool-change exit (683) |

The rest of the node:
- `ConnectOtherBlock`: another delegate's block, produced in its slot by the same rules;
- `MempoolChanges`;
- `Tick`.

`DPoSChain` is the abstract promise: blocks of (time, producer), each produced
by `SlotOwner(time)` at least one interval after its parent and no later than
`now`. `MinerLoop` instantiates it with `chain <- Produced`, the connected
blocks stripped to (time, producer). `ImplementsDPoSChain` is that refinement,
stated as a property.

`GetMinedBlocks(count)` is an operator over `minedBlocks` (807–815). It is
read-only under `csMinedBlocks`, so it needs no action.

### CoinTransferTx

The variables:
- `wallet`: the transactions the wallet built and signed, each with its `sigHash` cache;
- `wire`: the serialized messages on the network;
- `mempool`: the transactions the node accepted, keyed by their hash.

A transaction is a record with the fields of both classes. The constructors
(`NewBaseCoinTransferTx`, `NewCoinTransferTx`) fill the class's fields and
leave the others at their default. The encodings are modelled by what they do:
- `VARINT` is `WriteVarInt`: 7-bit groups, most significant first, continuation bit 0x80, and `n = (n >> 7) - 1` between groups (a RECURSIVE operator). `ReadVarIntFrom` is its reader, which adds the 1 back;
- `BaseBody` and `CoinBody` are the two `IMPLEMENT_SERIALIZE` lists (cointransfertx.h:28–39, 105–115), with `TransfersStream` for `SingleTransfer`'s (72–76). `ReadBaseBody`, `ReadCoinBody` and `ReadHeader` read the same lists back, into an object whose `sigHash` is null;
- `BaseSignedStream` and `CoinSignedStream` are the two `ss << ...` chains (44–45, 120–121). `ComputeSignatureHash` returns the cached hash unless it is null or `recalculate` is set, and fills the cache (41–50, 117–127).

User ids, strings and the signature are single opaque tokens, because their
encoders are outside `src/`. The hash is ideal: the hashed stream itself.

The actions:
- `CreateAndSign`: the wallet builds a transaction and signs `ComputeSignatureHash()`, which fills the cache;
- `Relay`: a signed transaction is serialized onto the network;
- `Tamper`: an adversary reads a message and writes another transaction of the same class with the original signature. It holds no key;
- `AcceptToMempool`: the node reads a message, hashes it, checks the signature and keeps it under its hash.

`CheckTx` and `ExecuteTx` are declared in the header, but their bodies are not
under `src/`. `Verifies` stands for their signature check only.

## 3. Runs

| Run | Module / cfg | Checks | Bounds | Result |
|---|---|---|---|---|
| `cdp_consistency` | `MCCdpDB` / `MCCdpDB.cfg` | `TypeOK`, `AggregatesConsistent`, `RatioIndexExact`, `OwnerIndexExact`, `LiquidationCandidatesComplete`, `GlobalFloorHasCandidates` | 2 CDP ids (model values, a symmetry set), 1 owner, stakes {1, 2}, owed {1}, boosts 4 (key), 2 (ratio), 2 (price), prices {1, 2}, target ratios {2, 3}, 8-bit words, 2 writes per transaction | passes, about 257k distinct states (up to permutation of the ids), about 1.5 min |
| `packing_round_trip` | `MCBlockAssembler` / `MCBlockAssembler.cfg` | `TypeOK`, `CacheHoldsPackedTxs`, `VerifierAccepts` | 5 mempool transactions plus one reward, one seen and the median tx; block size 9, run-step limit 5 | passes, 888 distinct states |
| `priority_order` | `MCTxPriority` / `MCTxPriority.cfg` | `NoTxDropped`, `BestFirstOrder` | 3 hashes, priorities {0, 999}, fees {1, 2}, fuels {0, 1}, sizes {1, 2}, both factories | passes, 36,864 distinct states |
| `priority_asymmetry` | `MCTxPriority` / `MCTxPriorityAsym.cfg` | `PriorityAsymmetric` | as above | **violated** |
| `slot_schedule` | `DelegateSchedule` / `MCDelegateSchedule.cfg` | `EveryDelegateOneSlotPerRound` | 1..6 delegates, every digest chain, interval 2 | passes, about 540k distinct states |
| `shuffle_vs_spec` | `DelegateSchedule` / `MCDelegateScheduleSpec.cfg` | `ShuffleMatchesSpec` | as above | **violated** at 5 delegates |
| `fuel_rate_vs_spec` | `FuelRate` / `MCFuelRateSpec.cfg` | `RateMatchesSpec` | nBlock 2, run-step limit 1000, loads {0, 760, 900}, initial rate 100, rates up to 150 | **violated** |
| `fuel_rate_stuck` | `FuelRate` / `MCFuelRateStuck.cfg` | `RateRisesUnderLoad` | as `fuel_rate_vs_spec` | **violated** at rate 9 |
| `miner_vs_network` | `MCMinerLoop` / `MCMinerLoop.cfg` | `OwnBlocksPassVerifier`, `MinedBlocksNewestFirst`, `OwnBlocksRecorded`, `ImplementsDPoSChain`, `ProducesInOwnSlot` | 2 delegates, interval 2, clock to 11, other delegates' heights to 3, one mempool change, retry timeout 3, genesis height 2, fork height 3, ring capacity 2 | passes, about 330k distinct states |
| `factory_race` | `MCMinerLoop` / `MCMinerLoopFactory.cfg` | `FactoryMatchesHeight` | as above, clock to 9 | **violated** |
| `coin_transfer_relay` | `MCCoinTransferTx` / `MCCoinTransferTx.cfg` | `TypeOK`, `RelayedTxVerifies`, `MempoolHoldsSignedContent` | 2 users, amounts {127, 128, 16512}, fee 1, 2 memos, symbols {WICC, WUSD}, 1 signed transaction, 2 messages | passes, 4,957 distinct states |

### Why the bounds are enough

**CdpDB.** With two ids and stakes {1, 2}, an `UpdateCDP` either keeps the
ratio key or moves it. Two CDPs can share a ratio key. One owner can hold both
CDPs, so the owner set grows to two entries and shrinks to empty. Two writes
per transaction allow "create, then update" or "update, then erase" inside one
`spCW`. Connect and undo then exercise the op log over every such block cache.
The query's prices lie at and below `PRICE_BOOST`. Its thresholds fall
exactly on the CDPs' ratio keys (4 and 8), between them (6) and above them
(12). Every threshold is an integer quotient, so the rounded-down threshold is
exercised. The global ratio falls below target 2 at price 1 and stays above it
at price 2. Views without debt occur in every layer.
The ids are model values under `SYMMETRY`: no code in `cdpdb.cpp` orders or
compares cdpids, and every invariant treats them alike, so TLC checks one state
per permutation of the ids. The run checks safety only, so symmetry is sound there.

**BlockAssembler.** The mempool makes every branch of the loop body fire
across the orders:
- t2 is too big once t1 is in;
- t4 fails `CheckTx`;
- t3 fails unless t1 or t2 paid first;
- t5 pays in WUSD, which the pre factory rejects;
- some orders hit the run-step limit;
- the budget break happens in the post factory.

**TxPriority.** Priorities 0 and 999 lie inside the 1000 band, where the fee
and the hash decide. The median transaction's 10000 lies outside it. Fee per kB
quotients both tie (2/2 = 1/1) and differ. With three transactions and the
median, every tree shape of up to four nodes is covered. The fuels stay at or
below the fees, so the `fee - fuel` wrap is in the model but not reached (see
the hazards).

**DelegateSchedule.** Five delegates is the first count at which the double
`i++` skips a position. Six delegates need two digests. The real committee
(`TotalDelegateNum`, 11 on main net) is not enumerated, because its lane
functions number 11^11. Skipped positions occur at every N ≥ 5, so the
divergence does not depend on the count.

**FuelRate.** `MAX_BLOCK_RUN_STEP` is scaled to 1000. Loads of 0, 76% and 90%
fall under, between and above the 75% and 85% thresholds. 760 lies within 99
steps of 750, where the truncating read-back matters. Rates up to 150 allow
runs of rises and falls. The run that drives the rate to 9 reaches it by idle
blocks.

**MinerLoop.** The clock reaches slot 5 (three slots of this node: 2–3,
6–7 and 10–11) and the other delegate's blocks reach height 3, so the
following all happen within the bounds:
- the stable-coin genesis height and the fork height are both crossed;
- the miner's own blocks and the other delegate's alternate;
- the mempool change and the 60 s (here 3 s) timeout both send the miner back to `CoinMiner`;
- a block arrives between every pair of the miner's steps;
- the ring of capacity 2 fills and pushes out an own connected block, so `OwnBlocksRecorded`'s second case occurs;
- an attempt signed at the end of the node's slot becomes stale before `CheckWork` and is still pushed onto the ring;
- the one-hour wait is scaled to `StaleTipAge = 4`, above the retry timeout, as an hour is above 60 s. It fires after a timeout on an aged tip, and `ProducesInOwnSlot` still holds with it.

**CoinTransferTx.** 127 is the largest one-byte VARINT, 128 the smallest
two-byte one, and 16512 the smallest three-byte one (the -1 trick shifts each
boundary). Each is tried as an amount of both classes. One signed transaction
is enough, because transactions do not interact: each message is read and
hashed on its own. Two messages allow the relayed transaction plus one
tampered copy. The adversary may change any field, the memo and the
symbols included, in either class.

## 4. Mutants

Each property of a passing run is shown to be sensitive by a mutant of the
code. TLC finds the property violated when the mapped definition is replaced by
the mutant:

| Property | Definition → mutant | Plausible bug it stands for |
|---|---|---|
| `TypeOK` (CdpDB) | `EraseCDPFromDB` → `EraseCDPFromDBKeepsEmpty` | the emptied owner set is written back instead of erased |
| `AggregatesConsistent` | `EraseCDPLayer` → `EraseCDPLayerNoRatio` | `EraseCDP` forgets the ratio store and the counters |
| `RatioIndexExact` | `UpdateCDPLayer` → `UpdateCDPLayerSaveFirst` | the new ratio entry is saved before the old one is erased |
| `OwnerIndexExact` | `EraseCDPFromDB` → `EraseCDPFromDBKeepsOwner` | the owner index is left as it was |
| `TypeOK` (BlockAssembler) | `PackTx` → `PackTxIgnoresExecute` | a transaction is packed without executing successfully |
| `CacheHoldsPackedTxs` | `SkipRunStep` → `SkipRunStepFlushed` | `spCW` is flushed before the run-step test |
| `VerifierAccepts` | `GetPriorityTx` → `GetPriorityTxKeepsSeen` | the txCache filter is dropped |
| `NoTxDropped` | `TxLess` → `TxLessNoTieBreak` | the comparator has no hash tie-break |
| `BestFirstOrder` | `MemPoolOrder` → `MemPoolOrderDescending` | the mempool is iterated in another order |
| `EveryDelegateOneSlotPerRound` | `InnerSwap` → `InnerSwapNoTemp` | the swap copies one way only |
| `OwnBlocksPassVerifier` | `Sign` → `SignLateClock` | the header takes the clock at signing, not the time the delegate was computed for |
| `ImplementsDPoSChain` | `WakeUp` → `WakeUpNoSleep` | the attempt does not sleep until one interval after the tip |
| `MinedBlocksNewestFirst` | `PushFront` → `PushBack` | `push_back` instead of `push_front` |
| `OwnBlocksRecorded` | `RecordMinedBlock` → `RecordMinedBlockStaleHeight` | the record takes CoinMiner's unlocked `blockHeight` instead of the block's height |
| `ProducesInOwnSlot` | `WakeUp` → `WakeUpLate` | the sleep loop tests `GetTime() <= whenCanIStart` |
| `LiquidationCandidatesComplete` | `ThresholdKeys` → `ThresholdKeysNoPriceBoost` | the price is used without dividing out `PRICE_BOOST` |
| `GlobalFloorHasCandidates` | `GetGlobalCollateralRatio` → `GetGlobalCollateralRatioNoZeroCase` | a view without debt gets ratio 0 instead of `UINT64_MAX` |
| `TypeOK` (CoinTransferTx) | `ComputeSignatureHash` → `ComputeSignatureHashNoCache` | the hash is computed but not stored in the `mutable sigHash` |
| `RelayedTxVerifies` | `ReadVarIntFrom` → `ReadVarIntNoIncrement` | the reader does not undo the writer's `-1` |
| `MempoolHoldsSignedContent` | `CoinSignedStream` → `CoinSignedStreamNoMemo` | the memo is serialized but left out of the signed stream |

## 5. Findings

- **`TxPriority::operator<` is not asymmetric** (miner.h:41; `priority_asymmetry`). Two transactions in the 1000 band with equal fee fields but different fee per kB (the one with the higher fee per kB having the lower hash) compare less both ways. `std::set` requires a strict weak order. `priority_order` shows the set still comes out sorted best first and drops nothing, but only because `memPoolTxs` feeds it in ascending hash order.
- **`ShuffleDelegates` diverges from spec 4.2** (miner.cpp:156; `shuffle_vs_spec`). Positions 4, 9, 14, … are never swapped from, at every N ≥ 5. Every node runs the same code, so the schedule is still a permutation (`slot_schedule`) and consensus holds.
- **The fuel rate read-back divides first** (miner.cpp:51; `fuel_rate_vs_spec`). `nFuel / nFuelRate * 100` loses up to 99 steps per header and can cut the rate where the spec keeps it.
- **A rate below 10 can never rise** (miner.cpp:59; `fuel_rate_stuck`). `rate * 1.1` truncates back to the rate.
- **The factory race** (miner.cpp:740; `factory_race`). A block connected between CoinMiner's unlocked height read and its tip read makes the ordinary factory build the block at the stable-coin genesis height. That block lacks the genesis transactions, and it is signed and submitted. The same race puts the genesis transactions one block too high, and uses the wrong reward transaction type at the fork height.

### Observations read from the code

These are not violated runs. All but the last are recorded as hazards in PROJECT.json:
- **The query threshold loses CDPs exactly at the target** (cdpdb.cpp:132). Evaluated in double precision, the threshold for target 1.13 at price 1.0 is 112999999, not 113000000. The same happens for about one target in twenty at price 1.0. A CDP whose base ratio is exactly the target is then not a candidate, while spec 4.7 says "≤". TLC cannot evaluate IEEE-754 rounding, so `LiquidationCandidatesComplete` is stated for CDPs strictly below the target.
- **`hashPrevBlock` of the mined-block ring** (miner.cpp:673). It is the block's own hash.
- **`-blocksizeforburn=0` divides by zero** (miner.cpp:55). `GetElementForBurn` divides by `nBlock` once the third block is built. The option is read once at start-up, and a unit test with the option set reaches the division directly. It is therefore neither a run nor a hazard.

## 6. Fairness

One run checks liveness: `ProducesInOwnSlot` in `miner_vs_network`. It states
that whenever one of this node's slots begins, a block of this node with a time
in that slot is eventually on the chain. `Spec` itself has no fairness and
leaves the clock free, so the safety properties see every interleaving of the
clock with the miner (the `SignLateClock` mutant needs time to pass between
`PickDelegate` and `Sign`). The property is an implication. Its assumptions
are what the code relies on:
- **The miner thread runs: `WF_vars(Miner)`.** The miner thread is never blocked forever. Its only locks are `cs_main`, `cs_wallet` and `csMinedBlocks`, which the network thread holds for bounded work.
- **Time passes: `WF_vars(TimelyTick)`.**
- **Real time: `[]~clockRaced`.** After a failed attempt, `MineBlock` loops without sleeping, so one pass takes far less than a second. The clock therefore moves only while the miner sleeps in the wait (603–608), and within one second the miner either has tried once (`currentTime = now`) or cannot wake yet. TLC does not accept `[][Tick => RealTimeOk]_vars` on the left of an implication, so the history variable `clockRaced` records whether a `Tick` ever broke it.

The other delegates and the mempool get no fairness: another delegate need not
produce, and the mempool need not change. Slots that end after `MaxTime` are
excluded (`OwnSlots`), because the bounded clock stops there.

The other components have no liveness:
- **CDP store.** It is driven by callers, and nothing in it is obliged to happen.
- **Packing loop and shuffle.** They are finite loops. Their terminal stutters keep deadlock checking meaningful.
- **`FuelRate`.** The property the spec implies, "the rate rises under sustained full blocks", is stated as an action property and found violated.

## 7. Not modelled, and why

- **The global ceiling check (cdpdb.cpp:123).** Only CDP transactions call it, and their `CheckTx` is outside `src/`. No modelled operation calls it, and its `uint64` sum can wrap only for stake amounts that the outside code may or may not bound.
- **The ratio-key overflow test (cdpdb.cpp:87).** The type of `collateral_ratio_base` is outside `src/`. Stakes stay below the bound by an `ASSUME`.
- **`CreateStableCoinGenesisBlock`'s body.** It is genesis transactions from the configuration, with no loop. `MinerLoop` keeps which factory built a block.
- **Nonce, merkle root and signature checks.** These are cryptography.
- **The header time.** The transactions execute with the assembly time, and the header is signed with `currentTime`. Whether that matters depends on `ExecuteTx`, outside `src/` (a hazard in PROJECT.json).
- **Reorganisations.** Heights identify blocks in `MinerLoop`, so a pointer comparison against a different block at the same height is not explored.
- **The wait for peers (miner.cpp:726, 658), the regtest target height and `GenerateCoinBlock`'s thread restart.** The restart deletes the old thread group without a join, so for a while two miner threads can run. Modelling that needs a second miner thread. PROJECT.json lists it as a hazard.
- **The ring's `hashPrevBlock` (miner.cpp:673).** It is the block's own hash on every path. The miner.h comment says it is the previous block's hash. `RecordMinedBlock` keeps it as written, and no property is needed to see it.
- **Stale attempts in the ring.** `MineBlock` pushes the record whether or not `CheckWork` succeeded, and TLC reaches such states. Neither the spec nor a comment restricts the ring to connected blocks, so no property claims it.
- **Parameter table and test harness.** Neither changes consensus state.
- **`CheckTx`, `ExecuteTx`, `GetNewInstance`, `ToString` and `ToJson` of the transfer classes.** The bodies of the first two are outside `src/`. The last three change no state. `GetNewInstance` copies the `sigHash` cache, and PROJECT.json lists that as a hazard.

## 8. What remains

1. An abstract block spec ("a block is an executable prefix-closed selection whose replay is the new state"), with `BlockAssembler` refining it.
2. Reorganisations in `MinerLoop`: the network thread disconnecting the tip, with the pointer comparisons at miner.cpp:599 and 575.
3. The transfer transactions inside a block: `CoinTransferTx`'s node side feeding `BlockAssembler`'s mempool.
