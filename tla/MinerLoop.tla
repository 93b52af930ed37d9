------------------------------ MODULE MinerLoop ------------------------------
(***************************************************************************)
(* The mining thread (src/src/miner/miner.cpp: CoinMiner, MineBlock,       *)
(* CreateBlockRewardTx, CheckWork) against the rest of the node: the       *)
(* network thread, which connects other delegates' blocks under cs_main,   *)
(* the mempool, whose update counter moves, and the clock.                 *)
(*                                                                         *)
(* The miner reads the mempool counter, the next height and the tip        *)
(* without cs_main, chooses a factory from that height, and the factory    *)
(* reads the tip again under cs_main.  MineBlock then loops: give up if    *)
(* the tip moved, sleep until one interval after the tip, find the slot's  *)
(* delegate, and if it is this node's, sign under cs_main and hand the     *)
(* block to CheckWork, which compares it with the tip again and runs       *)
(* ProcessBlock.  After a failed attempt it retries unless the mempool     *)
(* changed or 60 s passed.  After CheckWork, MineBlock records the block   *)
(* in miningBlockInfo and pushes it onto the minedBlocks ring that the     *)
(* getminedblocks RPC reads.                                               *)
(*                                                                         *)
(* Blocks are records; the packing itself is BlockAssembler's.  Heights    *)
(* identify blocks: the model has no reorganisations.  The slot schedule   *)
(* is a fixed shuffled list (DelegateSchedule).                            *)
(***************************************************************************)
EXTENDS Integers, Sequences

CONSTANTS
    Delegates,
    Me,                        \* the delegate whose key this wallet holds
    Schedule,                  \* the shuffled delegate list: a sequence
    Interval,                  \* GetBlockInterval
    StableCoinGenesisHeight,
    ForkHeight,                \* first height of the stable-coin release
    RetryTimeout,              \* MineBlock's 60 s
    StaleTipAge,               \* CoinMiner's 60 * 60 s without -genblockforce
    MaxMinedBlockCount,        \* MAX_MINED_BLOCK_COUNT, the ring's capacity
    MaxTime, MaxHeight, MaxMempoolUpdates

ASSUME Me \in Delegates /\ Schedule \in Seq(Delegates) /\ Len(Schedule) > 0
ASSUME Interval \in Nat \ {0}
ASSUME MaxMinedBlockCount \in Nat \ {0}

VARIABLES
    chain,        \* chainActive: blocks by height, chain[1] at height 0
    now,          \* GetTime()
    mpUpdated,    \* mempool.GetUpdatedTransactionNum()
    pc,           \* the miner's position
    txUpdated,    \* CoinMiner's copy of the mempool counter
    blockHeight,  \* CoinMiner's chainActive.Height() + 1
    prevIdx,      \* CoinMiner's pIndexPrev, as a height
    block,        \* the block being mined
    nStart,       \* MineBlock's start time
    currentTime,  \* MineBlock's GetTime() for this attempt
    miningBlockInfo, \* the global MinedBlockInfo the miner fills
    minedBlocks,  \* the circular_buffer of MinedBlockInfo, newest first
    clockRaced    \* history: the clock once moved while the miner was busy

vars == <<chain, now, mpUpdated, pc, txUpdated, blockHeight, prevIdx, block,
          nStart, currentTime, miningBlockInfo, minedBlocks, clockRaced>>
minerVars == <<pc, txUpdated, blockHeight, prevIdx, block, nStart, currentTime,
               miningBlockInfo, minedBlocks>>

TipHeight == Len(chain) - 1
Tip == chain[Len(chain)]
BlockAt(h) == chain[h + 1]

(* GetCurrentDelegate over the shuffled list. *)
SlotOwner(t) == Schedule[((t \div Interval) % Len(Schedule)) + 1]

(* The factory CoinMiner picks for a height (GetFeatureForkVersion is not  *)
(* under src/: the release starts at ForkHeight).                          *)
FactoryFor(h) ==
    IF h = StableCoinGenesisHeight THEN "genesis"
    ELSE IF h < ForkHeight THEN "pre" ELSE "post"

(* VerifyRewardTx's header checks inside ProcessBlock: the block's         *)
(* delegate owns the slot of its time, and the previous block's delegate   *)
(* did not produce it less than one interval earlier (not checked on top *)
(* of the genesis block).                                                  *)
VerifyHeader(b) ==
    LET prev == BlockAt(b.height - 1)
    IN  /\ SlotOwner(b.time) = b.delegate
        /\ b.height # 1 => ~(b.time - prev.time < Interval /\ prev.delegate = b.delegate)

(* A block's hash: heights, times and producers tell the model's blocks    *)
(* apart.                                                                  *)
Hash(b) == <<b.height, b.time, b.delegate>>

(* MinedBlockInfo::SetNull.  stats stands for txCount, totalBlockSize and  *)
(* totalFees, which the ordinary factories fill in ("counted").            *)
NullInfo == [height |-> 0, time |-> 0, hash |-> "null", hashPrevBlock |-> "null",
             stats |-> "none"]

(* GetMinedBlocks(count): the first min(size, count) entries of the ring.  *)
GetMinedBlocks(count) ==
    SubSeq(minedBlocks, 1, IF count < Len(minedBlocks) THEN count ELSE Len(minedBlocks))

\* Mutant: push_back, which on a full buffer drops the front entry.
PushBack(ring, e) ==
    IF Len(ring) < MaxMinedBlockCount THEN Append(ring, e) ELSE Append(Tail(ring), e)

(* circular_buffer::push_front: on a full buffer the back entry is lost.   *)
PushFront(ring, e) ==
    SubSeq(<<e>> \o ring, 1, IF Len(ring) < MaxMinedBlockCount THEN Len(ring) + 1
                                                              ELSE MaxMinedBlockCount)

Init ==
    /\ chain = <<[height |-> 0, kind |-> "initial", time |-> 0,
                 delegate |-> Schedule[1]]>>
    /\ now = 0
    /\ mpUpdated = 0
    /\ pc = "start"
    /\ txUpdated = 0 /\ blockHeight = 0 /\ prevIdx = 0
    /\ block = chain[1]
    /\ nStart = 0 /\ currentTime = 0
    /\ miningBlockInfo = NullInfo
    /\ minedBlocks = <<>>
    /\ clockRaced = FALSE

(***************************************************************************)
(* CoinMiner                                                               *)
(***************************************************************************)
(* The busy-wait for the network (not on regtest): the miner sleeps while *)
(* the tip above height 1 is older than an hour.  The node has peers.     *)
TipStale == TipHeight > 1 /\ now - Tip.time > StaleTipAge

(* Once the wait is over: miningBlockInfo.SetNull(), then txUpdated =     *)
(* mempool.GetUpdatedTransactionNum(), without cs_main.                    *)
ReadMempoolCounter ==
    /\ pc = "start"
    /\ ~TipStale
    /\ miningBlockInfo' = NullInfo
    /\ txUpdated' = mpUpdated
    /\ pc' = "height"
    /\ UNCHANGED <<clockRaced, minedBlocks, chain, now, mpUpdated, blockHeight, prevIdx, block, nStart, currentTime>>

(* blockHeight = chainActive.Height() + 1, without cs_main. *)
ReadHeight ==
    /\ pc = "height"
    /\ blockHeight' = TipHeight + 1
    /\ pc' = "tip"
    /\ UNCHANGED <<clockRaced, miningBlockInfo, minedBlocks, chain, now, mpUpdated, txUpdated, prevIdx, block, nStart, currentTime>>

(* pIndexPrev = chainActive.Tip(), without cs_main. *)
ReadTip ==
    /\ pc = "tip"
    /\ prevIdx' = TipHeight
    /\ pc' = "create"
    /\ UNCHANGED <<clockRaced, miningBlockInfo, minedBlocks, chain, now, mpUpdated, txUpdated, blockHeight, block, nStart, currentTime>>

(* The factory chosen from blockHeight runs under cs_main and builds on    *)
(* the tip it reads itself; the ordinary factories count the block's      *)
(* transactions into miningBlockInfo.  MineBlock starts (nStart).          *)
CreateBlock ==
    /\ pc = "create"
    /\ block' = [height |-> TipHeight + 1, kind |-> FactoryFor(blockHeight),
                 time |-> now, delegate |-> Me]
    /\ miningBlockInfo' = IF FactoryFor(blockHeight) = "genesis" THEN miningBlockInfo
                          ELSE [miningBlockInfo EXCEPT !.stats = "counted"]
    /\ nStart' = now
    /\ pc' = "mine"
    /\ UNCHANGED <<clockRaced, minedBlocks, chain, now, mpUpdated, txUpdated, blockHeight, prevIdx, currentTime>>

(***************************************************************************)
(* MineBlock                                                               *)
(***************************************************************************)
(* if (pIndexPrev != chainActive.Tip()) return false; *)
CheckTip ==
    /\ pc = "mine"
    /\ pc' = IF prevIdx # TipHeight THEN "start" ELSE "wait"
    /\ UNCHANGED <<clockRaced, miningBlockInfo, minedBlocks, chain, now, mpUpdated, txUpdated, blockHeight, prevIdx, block, nStart, currentTime>>

\* Mutant: the attempt does not sleep until one interval after pIndexPrev.
WakeUpNoSleep ==
    /\ pc = "wait"
    /\ pc' = "slot"
    /\ UNCHANGED <<clockRaced, miningBlockInfo, minedBlocks, chain, now, mpUpdated, txUpdated, blockHeight, prevIdx, block, nStart, currentTime>>

\* Mutant: the sleep loop tests GetTime() <= whenCanIStart.
WakeUpLate ==
    /\ pc = "wait"
    /\ now > BlockAt(prevIdx).time + Interval
    /\ pc' = "slot"
    /\ UNCHANGED <<clockRaced, miningBlockInfo, minedBlocks, chain, now, mpUpdated, txUpdated, blockHeight, prevIdx, block, nStart, currentTime>>

(* The sleep until pIndexPrev's time plus one interval is over. *)
WakeUp ==
    /\ pc = "wait"
    /\ now >= BlockAt(prevIdx).time + Interval
    /\ pc' = "slot"
    /\ UNCHANGED <<clockRaced, miningBlockInfo, minedBlocks, chain, now, mpUpdated, txUpdated, blockHeight, prevIdx, block, nStart, currentTime>>

(* After the shuffle: currentTime = GetTime(), whose slot's delegate       *)
(* GetCurrentDelegate returns.                                             *)
PickDelegate ==
    /\ pc = "slot"
    /\ currentTime' = now
    /\ pc' = "sign"
    /\ UNCHANGED <<clockRaced, miningBlockInfo, minedBlocks, chain, now, mpUpdated, txUpdated, blockHeight, prevIdx, block, nStart>>

(* CreateBlockRewardTx refuses a block at time t from the delegate of the  *)
(* previous block less than one interval after it (above height 1).        *)
RewardTxAllowed(b, t) ==
    LET prev == BlockAt(b.height - 1)
    IN  b.height # 1 => ~(t - prev.time < Interval /\ prev.delegate = Me)

\* Mutant: the header takes the clock at signing, not the attempt's time.
SignLateClock ==
    /\ pc = "sign"
    /\ IF TipHeight + 1 # block.height
       THEN pc' = "start" /\ UNCHANGED block
       ELSE IF SlotOwner(currentTime) = Me /\ RewardTxAllowed(block, now)
            THEN /\ block' = [block EXCEPT !.time = now, !.delegate = Me]
                 /\ pc' = "checkwork"
            ELSE pc' = "retry" /\ UNCHANGED block
    /\ UNCHANGED <<clockRaced, miningBlockInfo, minedBlocks, chain, now, mpUpdated, txUpdated, blockHeight, prevIdx, nStart, currentTime>>

(* Under cs_main: give up if the height moved; the wallet holds a key only *)
(* for the slot's delegate Me; CreateBlockRewardTx then signs the block    *)
(* with time currentTime, or fails and leaves success false.               *)
Sign ==
    /\ pc = "sign"
    /\ IF TipHeight + 1 # block.height
       THEN pc' = "start" /\ UNCHANGED block
       ELSE IF SlotOwner(currentTime) = Me /\ RewardTxAllowed(block, currentTime)
            THEN /\ block' = [block EXCEPT !.time = currentTime, !.delegate = Me]
                 /\ pc' = "checkwork"
            ELSE pc' = "retry" /\ UNCHANGED block
    /\ UNCHANGED <<clockRaced, miningBlockInfo, minedBlocks, chain, now, mpUpdated, txUpdated, blockHeight, prevIdx, nStart, currentTime>>

(* CheckWork under cs_main: a block whose parent is no longer the tip is   *)
(* stale; otherwise ProcessBlock connects it if VerifyRewardTx accepts.    *)
(* Whatever CheckWork returned, MineBlock copies the block's header into   *)
(* miningBlockInfo, hashPrevBlock from GetHash() as the code does, pushes  *)
(* it onto the ring under csMinedBlocks and returns.                       *)
\* Mutant: the record takes CoinMiner's blockHeight.
RecordMinedBlockStaleHeight(info, b) ==
    [info EXCEPT !.height = blockHeight, !.time = b.time,
                 !.hash = <<blockHeight, b.time, b.delegate>>, !.hashPrevBlock = Hash(b)]

RecordMinedBlock(info, b) ==
    [info EXCEPT !.height = b.height, !.time = b.time,
                 !.hash = Hash(b), !.hashPrevBlock = Hash(b)]

CheckWork ==
    /\ pc = "checkwork"
    /\ chain' = IF block.height = TipHeight + 1 /\ VerifyHeader(block)
                THEN Append(chain, block) ELSE chain
    /\ miningBlockInfo' = RecordMinedBlock(miningBlockInfo, block)
    /\ minedBlocks' = PushFront(minedBlocks, RecordMinedBlock(miningBlockInfo, block))
    /\ pc' = "start"
    /\ UNCHANGED <<clockRaced, now, mpUpdated, txUpdated, blockHeight, prevIdx, block, nStart, currentTime>>

(* The attempt failed: a new block is built if the mempool changed or the  *)
(* attempt is older than 60 s, else MineBlock loops.                       *)
Retry ==
    /\ pc = "retry"
    /\ pc' = IF mpUpdated # txUpdated \/ now - nStart > RetryTimeout THEN "start" ELSE "mine"
    /\ UNCHANGED <<clockRaced, miningBlockInfo, minedBlocks, chain, now, mpUpdated, txUpdated, blockHeight, prevIdx, block, nStart, currentTime>>

(***************************************************************************)
(* The rest of the node                                                    *)
(***************************************************************************)
(* Another delegate's block, produced in its slot one interval after the   *)
(* tip, is connected by the network thread under cs_main.                  *)
ConnectOtherBlock ==
    /\ TipHeight < MaxHeight
    /\ SlotOwner(now) # Me
    /\ now >= Tip.time + Interval
    /\ chain' = Append(chain, [height |-> TipHeight + 1, kind |-> FactoryFor(TipHeight + 1),
                               time |-> now, delegate |-> SlotOwner(now)])
    /\ UNCHANGED <<clockRaced, now, mpUpdated, minerVars>>

MempoolChanges ==
    /\ mpUpdated < MaxMempoolUpdates
    /\ mpUpdated' = mpUpdated + 1
    /\ UNCHANGED <<clockRaced, chain, now, minerVars>>

RealTimeOk ==
    /\ pc = "wait"
    /\ \/ now < BlockAt(prevIdx).time + Interval
       \/ currentTime = now

Tick ==
    /\ now < MaxTime
    /\ now' = now + 1
    /\ clockRaced' = (clockRaced \/ ~RealTimeOk)
    /\ UNCHANGED <<chain, mpUpdated, minerVars>>

Miner ==
    \/ ReadMempoolCounter \/ ReadHeight \/ ReadTip \/ CreateBlock
    \/ CheckTip \/ WakeUp \/ PickDelegate \/ Sign \/ CheckWork \/ Retry

Next == Miner \/ ConnectOtherBlock \/ MempoolChanges \/ Tick

Spec == Init /\ [][Next]_vars

(***************************************************************************)
(* Properties                                                              *)
(***************************************************************************)
(* Every block this miner hands to ProcessBlock on the current tip passes  *)
(* VerifyRewardTx's delegate and same-slot checks: the miner never wastes  *)
(* its slot on a block the network rejects.                                *)
OwnBlocksPassVerifier ==
    pc = "checkwork" /\ block.height = TipHeight + 1 => VerifyHeader(block)

(* Spec 5: every connected block was built by the factory its height       *)
(* calls for (the stable-coin genesis block exactly at its height).        *)
FactoryMatchesHeight ==
    \A h \in 1 .. TipHeight : BlockAt(h).kind = FactoryFor(h)

(* The chain of time and producer the connected blocks form. *)
Produced == [k \in 1 .. Len(chain) |-> [time |-> chain[k].time, delegate |-> chain[k].delegate]]

DPoS == INSTANCE DPoSChain WITH chain <- Produced

(* Spec 5 "between blocks the mining loop sleeps until prev.time +         *)
(* interval(h)": the miner and the other delegates together implement the  *)
(* DPoS chain: every block is its slot's delegate's, at least one interval *)
(* after its parent and not later than the clock.                          *)
ImplementsDPoSChain == DPoS!Spec

(* getminedblocks: GetMinedBlocks(n) lists the node's attempts newest     *)
(* first, each at a greater height than the next: a stale or replaced      *)
(* attempt never appears after, or twice beside, the block that followed   *)
(* it, however the network's blocks interleave with the miner.             *)
MinedBlocksNewestFirst ==
    LET r == GetMinedBlocks(MaxMinedBlockCount)
    IN  \A i \in 1 .. Len(r) - 1 : r[i].height > r[i + 1].height

(* Every block of this node on the chain is reported by GetMinedBlocks     *)
(* with its own hash and the counters of the factory that built it, until  *)
(* MAX_MINED_BLOCK_COUNT newer attempts push it out: the record MineBlock  *)
(* pushes describes the block that was connected, not the height or the    *)
(* counters CoinMiner read before the factory ran.                         *)
OwnBlocksRecorded ==
    \A k \in 2 .. Len(chain) :
        chain[k].delegate = Me =>
            \/ \E i \in 1 .. Len(minedBlocks) :
                  /\ minedBlocks[i].hash = Hash(chain[k])
                  /\ minedBlocks[i].stats = IF chain[k].kind = "genesis" THEN "none" ELSE "counted"
            \/ /\ Len(minedBlocks) = MaxMinedBlockCount
               /\ minedBlocks[MaxMinedBlockCount].height > chain[k].height

(***************************************************************************)
(* Liveness.  Spec leaves the clock free, so that every interleaving of   *)
(* the miner's steps with the clock is checked for safety.  Progress needs *)
(* what the code assumes of real time: one pass of MineBlock's loop takes  *)
(* far less than a second (it does not sleep after a failed attempt), so   *)
(* the clock only moves while the miner sleeps in the wait (603-608), and  *)
(* within a second the miner has tried once (currentTime = now) or cannot  *)
(* wake yet.  The miner thread is never blocked forever: weak fairness.    *)
(* The network and the mempool need not do anything.                       *)
(***************************************************************************)
TimelyTick == Tick /\ RealTimeOk

(* The slots of this node that end before the clock's bound. *)
OwnSlots ==
    {s \in 0 .. (MaxTime \div Interval) :
        /\ SlotOwner(s * Interval) = Me
        /\ s * Interval + Interval - 1 <= MaxTime}

(* Spec 5 "MineBlock ... sleeps until prev.time + interval, then signs if  *)
(* this node is the slot's delegate": whenever one of this node's slots    *)
(* begins, a block of this node with a time in that slot is eventually on  *)
(* the chain, whatever the other delegates and the mempool do, provided    *)
(* the miner runs and time passes as above.  It fails if an attempt reads  *)
(* the clock too early, sleeps too long or retries on a stale block.       *)
ProducesInOwnSlot ==
    (/\ WF_vars(Miner)
     /\ WF_vars(TimelyTick)
     /\ []~clockRaced)
    => \A s \in OwnSlots :
          (now = s * Interval) ~>
             (\E k \in 1 .. Len(chain) : chain[k].delegate = Me /\ chain[k].time \div Interval = s)

=============================================================================
