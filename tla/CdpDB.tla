------------------------------- MODULE CdpDB -------------------------------
(***************************************************************************)
(* CDP persistence (src/src/persistence/cdpdb.cpp) over the layered cache  *)
(* fabric it is used through.                                              *)
(*                                                                         *)
(* CCdpDBCache holds five stores: the two global counters                 *)
(* (globalStakedBcoinsCache, globalOwedScoinsCache), the primary CDP store *)
(* cdpCache, the owner index regId2CDPCache and the ratio index            *)
(* ratioCDPIdCache.  A view is a stack of layers: the committed database   *)
(* `db`, the block scratch cache `blk` (cwIn of the block assembler, the   *)
(* cache a block is connected through) and the per-transaction scratch    *)
(* `tx` (spCW).  All five stores share one layer function here: its keys   *)
(* are tagged with the store they belong to, so one Flush moves every     *)
(* store and an erased entry is the tombstone Absent.                     *)
(*                                                                         *)
(* Transactions (not under src/) call NewCDP, UpdateCDP and EraseCDP on   *)
(* the per-transaction layer with `old` read from that same view; the     *)
(* layer is then flushed into the block cache or dropped.  A connected    *)
(* block is flushed into the database with its undo log, and a            *)
(* disconnected block is undone from that log.                            *)
(***************************************************************************)
EXTENDS Integers, Sequences, FiniteSets, FiniteSetsExt, TLC

CONSTANTS
    CdpIds,               \* cdpid values (transaction hashes)
    Owners,               \* owner RegIDs
    StakeAmounts,         \* bcoin amounts a CDP may hold
    OwedAmounts,          \* scoin amounts a CDP may owe (> 0: zero erases)
    CDP_BASE_RATIO_BOOST, \* the boost of the ratio key (1e8 in scoin.h)
    RATIO_BOOST,          \* collateral ratios' boost (10000 in scoin.h)
    PRICE_BOOST,          \* prices' boost (1e8 in scoin.h)
    Prices,               \* bcoin median prices a query is made at (> 0)
    TargetRatios,         \* collateral ratios a query is made for
    WordBits,             \* width of uint64_t, scaled down
    MaxTxOps,             \* bound on CDP operations in one transaction
    Absent                \* a missing entry or a tombstone

ASSUME OwedAmounts \subseteq Nat \ {0}
ASSUME StakeAmounts \subseteq Nat
ASSUME Prices \subseteq Nat \ {0}
ASSUME \A s \in StakeAmounts : s * CDP_BASE_RATIO_BOOST < 2 ^ WordBits

VARIABLES
    db,     \* committed store: tagged key -> value
    blk,    \* block scratch layer (cwIn)
    tx,     \* per-transaction scratch layer (spCW)
    undo,   \* undo log of the last connected block, or Absent
    txOps   \* CDP operations applied to the current transaction layer

vars == <<db, blk, tx, undo, txOps>>

Word     == 2 ^ WordBits
UINT_MAX == Word - 1

(* Keys of the five stores. *)
StakedKey     == <<"staked">>
OwedKey       == <<"owed">>
CdpKey(id)    == <<"cdp", id>>
OwnerKey(o)   == <<"owner", o>>
RatioKey(r, id) == <<"ratio", r, id>>

(* A CUserCDP reduced to the fields cdpdb.cpp reads. *)
CDP == [id : CdpIds, owner : Owners, staked : StakeAmounts, owed : OwedAmounts]

(* The ratio index key of SaveCDPToRatioDB/EraseCDPFromRatioDB:          *)
(* collateral_ratio_base (staked / owed, computed by CUserCDP outside      *)
(* src/) times CDP_BASE_RATIO_BOOST.  The model keeps the product below    *)
(* the word, where the code's overflow test never fires.  "%016x" is a     *)
(* fixed-width hex rendering, so its order is the order of the integer.    *)
RatioKeyOf(cdp) == (cdp.staked * CDP_BASE_RATIO_BOOST) \div cdp.owed

(***************************************************************************)
(* The cache fabric (CCompositeKVCache, not under src/): a read looks      *)
(* through the layers top-down; a write goes to the top layer.            *)
(***************************************************************************)
RECURSIVE Find(_, _)
Find(layers, k) ==
    IF layers = <<>> THEN Absent
    ELSE IF k \in DOMAIN Head(layers) THEN Head(layers)[k]
    ELSE Find(Tail(layers), k)

SetData(layer, k, v) == (k :> v) @@ layer

\* Unsigned 64-bit counters read with a default of 0.
GetCounter(layers, k) == LET v == Find(layers, k) IN IF v = Absent THEN 0 ELSE v

\* A set-valued entry read with a default of {}.
GetIdSet(layers, k) == LET v == Find(layers, k) IN IF v = Absent THEN {} ELSE v

\* Flush: the child's entries overwrite the parent's.
FlushLayer(child, parent) == child @@ parent

\* The root store has no parent: an erased key leaves it.
FlushToRoot(child, root) ==
    LET merged == child @@ root
    IN  [k \in {x \in DOMAIN merged : merged[x] # Absent} |-> merged[k]]

EmptyLayer == [k \in {} |-> Absent]

TxView  == <<tx, blk, db>>
BlkView == <<blk, db>>
DbView  == <<db>>

(***************************************************************************)
(* CCdpDBCache helpers.  Each takes the top layer `top` of a view whose    *)
(* lower layers are `below`, and returns the new top layer.               *)
(***************************************************************************)
SaveCDPToDB(top, below, cdp) ==
    LET view == <<top>> \o below
        ids  == GetIdSet(view, OwnerKey(cdp.owner)) \cup {cdp.id}
    IN  SetData(SetData(top, CdpKey(cdp.id), cdp), OwnerKey(cdp.owner), ids)

\* Mutant: the owner index keeps the erased cdpid.
EraseCDPFromDBKeepsOwner(top, below, cdp) == SetData(top, CdpKey(cdp.id), Absent)

\* Mutant: the emptied owner set is written back instead of erasing the key.
EraseCDPFromDBKeepsEmpty(top, below, cdp) ==
    LET view == <<top>> \o below
    IN  SetData(SetData(top, CdpKey(cdp.id), Absent), OwnerKey(cdp.owner),
                GetIdSet(view, OwnerKey(cdp.owner)) \ {cdp.id})

\* regId2CDPCache erases the key when the id set becomes empty.
EraseCDPFromDB(top, below, cdp) ==
    LET view == <<top>> \o below
        ids  == GetIdSet(view, OwnerKey(cdp.owner)) \ {cdp.id}
    IN  SetData(SetData(top, CdpKey(cdp.id), Absent),
                OwnerKey(cdp.owner), IF ids = {} THEN Absent ELSE ids)

SaveCDPToRatioDB(top, below, cdp) ==
    LET view   == <<top>> \o below
        staked == (GetCounter(view, StakedKey) + cdp.staked) % Word
        owed   == (GetCounter(view, OwedKey) + cdp.owed) % Word
    IN  SetData(SetData(SetData(top, StakedKey, staked), OwedKey, owed),
                RatioKey(RatioKeyOf(cdp), cdp.id), cdp)

EraseCDPFromRatioDB(top, below, cdp) ==
    LET view   == <<top>> \o below
        staked == (GetCounter(view, StakedKey) - cdp.staked) % Word
        owed   == (GetCounter(view, OwedKey) - cdp.owed) % Word
    IN  SetData(SetData(SetData(top, StakedKey, staked), OwedKey, owed),
                RatioKey(RatioKeyOf(cdp), cdp.id), Absent)

NewCDPLayer(top, below, cdp) ==
    SaveCDPToRatioDB(SaveCDPToDB(top, below, cdp), below, cdp)

\* Mutant: the new ratio entry is saved before the old one is erased, the
\* order the comment above UpdateCDP warns against.
UpdateCDPLayerSaveFirst(top, below, old, new) ==
    LET l1 == SaveCDPToDB(top, below, new)
        l2 == SaveCDPToRatioDB(l1, below, new)
    IN  EraseCDPFromRatioDB(l2, below, old)

UpdateCDPLayer(top, below, old, new) ==
    LET l1 == SaveCDPToDB(top, below, new)
        l2 == EraseCDPFromRatioDB(l1, below, old)
    IN  SaveCDPToRatioDB(l2, below, new)

\* Mutant: EraseCDP stops after the primary store.
EraseCDPLayerNoRatio(top, below, old, cdp) == EraseCDPFromDB(top, below, cdp)

EraseCDPLayer(top, below, old, cdp) ==
    EraseCDPFromRatioDB(EraseCDPFromDB(top, below, cdp), below, old)

(***************************************************************************)
(* Queries                                                                 *)
(***************************************************************************)
\* Mutant: the price is used without removing its PRICE_BOOST.
ThresholdKeysNoPriceBoost(cr, price) ==
    {(cr * CDP_BASE_RATIO_BOOST) \div (RATIO_BOOST * price)}

(* GetCdpListByCollateralRatio's threshold key: (collateralRatio /         *)
(* RATIO_BOOST) / (price / PRICE_BOOST) * CDP_BASE_RATIO_BOOST in double,  *)
(* truncated to uint64.  The three roundings leave the double within a few *)
(* ulps of the exact quotient, so the truncation gives the exact floor, or *)
(* one less when the exact quotient is an integer the double falls just    *)
(* below (1.13 at price 1.0 gives 112999999).  A zero price is excluded:   *)
(* the quotient is infinite and the assert fires.                          *)
ThresholdKeys(cr, price) ==
    LET num == cr * PRICE_BOOST * CDP_BASE_RATIO_BOOST
        den == RATIO_BOOST * price
    IN  {num \div den} \cup (IF num % den = 0 /\ num > 0 THEN {num \div den - 1} ELSE {})

(* The ratio index entries of a view (GetAllElements, not under src/: the  *)
(* entries whose ratio key is at most the threshold, each key read through *)
(* the layers so that a tombstone hides the entry below it).               *)
RatioEntries(view) ==
    {k \in UNION {DOMAIN view[i] : i \in DOMAIN view} : k[1] = "ratio"}

GetCdpListByCollateralRatio(view, threshold) ==
    {Find(view, e) : e \in {k \in RatioEntries(view) : k[2] <= threshold}} \ {Absent}

\* Mutant: no special case for a view without debt.
GetGlobalCollateralRatioNoZeroCase(view, price) ==
    (GetCounter(view, StakedKey) * price * RATIO_BOOST) \div
        (PRICE_BOOST * (IF GetCounter(view, OwedKey) = 0 THEN 1 ELSE GetCounter(view, OwedKey)))

(* GetGlobalCollateralRatio: UINT64_MAX without debt, else the double      *)
(* staked * price / PRICE_BOOST / owed * RATIO_BOOST truncated to uint64;  *)
(* its value is below the word for the model's amounts.                   *)
GetGlobalCollateralRatio(view, price) ==
    IF GetCounter(view, OwedKey) = 0 THEN UINT_MAX
    ELSE (GetCounter(view, StakedKey) * price * RATIO_BOOST) \div
             (PRICE_BOOST * GetCounter(view, OwedKey))

CheckGlobalCollateralRatioFloorReached(view, price, limit) ==
    GetGlobalCollateralRatio(view, price) < limit

(* The CDP stored under id in the per-transaction view. *)
TxCDP(id) == Find(TxView, CdpKey(id))

(***************************************************************************)
(* Actions                                                                 *)
(***************************************************************************)
Init ==
    /\ db = EmptyLayer
    /\ blk = EmptyLayer
    /\ tx = EmptyLayer
    /\ undo = Absent
    /\ txOps = 0

\* NewCDP asserts that the cdpid is new.
NewCDP(cdp) ==
    /\ txOps < MaxTxOps
    /\ TxCDP(cdp.id) = Absent
    /\ tx' = NewCDPLayer(tx, BlkView, cdp)
        /\ txOps' = txOps + 1
    /\ UNCHANGED <<db, blk, undo>>

\* Stake or redeem: the caller reads the stored CDP and writes its update.
UpdateCDP(id, staked, owed) ==
    LET old == TxCDP(id)
    IN  /\ txOps < MaxTxOps
        /\ old # Absent
        /\ tx' = UpdateCDPLayer(tx, BlkView, old,
                                [old EXCEPT !.staked = staked, !.owed = owed])
        /\ txOps' = txOps + 1
        /\ UNCHANGED <<db, blk, undo>>

\* The debt is fully repaid or liquidated: the CDP is erased.
EraseCDP(id) ==
    LET old == TxCDP(id)
    IN  /\ txOps < MaxTxOps
        /\ old # Absent
        /\ tx' = EraseCDPLayer(tx, BlkView, old, old)
        /\ txOps' = txOps + 1
        /\ UNCHANGED <<db, blk, undo>>

\* The transaction executed: spCW->Flush() moves every store into cwIn.
Flush ==
    /\ tx # EmptyLayer
    /\ blk' = FlushLayer(tx, blk)
    /\ tx' = EmptyLayer
    /\ txOps' = 0
    /\ UNCHANGED <<db, undo>>

\* CheckTx/ExecuteTx failed or the run-step bound was hit: spCW is dropped.
DropTxCache ==
    /\ tx # EmptyLayer
    /\ tx' = EmptyLayer
    /\ txOps' = 0
    /\ UNCHANGED <<db, blk, undo>>

\* The block is connected: its cache is flushed into the database with an
\* op log holding the value each written key had before.
ConnectBlock ==
    /\ tx = EmptyLayer
    /\ blk # EmptyLayer
    /\ undo' = [k \in DOMAIN blk |-> Find(DbView, k)]
    /\ db' = FlushToRoot(blk, db)
    /\ blk' = EmptyLayer
    /\ UNCHANGED <<tx, txOps>>

\* UndoData: every store restores the values its op log recorded.
UndoData(log, root) == FlushToRoot(log, root)

DisconnectBlock ==
    /\ tx = EmptyLayer
    /\ blk = EmptyLayer
    /\ undo # Absent
    /\ db' = UndoData(undo, db)
    /\ undo' = Absent
    /\ UNCHANGED <<blk, tx, txOps>>

Next ==
    \/ \E cdp \in CDP : NewCDP(cdp)
    \/ \E id \in CdpIds, s \in StakeAmounts, o \in OwedAmounts : UpdateCDP(id, s, o)
    \/ \E id \in CdpIds : EraseCDP(id)
    \/ Flush
    \/ DropTxCache
    \/ ConnectBlock
    \/ DisconnectBlock

Spec == Init /\ [][Next]_vars

(***************************************************************************)
(* Properties                                                              *)
(***************************************************************************)
Views == {DbView, BlkView, TxView}

\* The CDPs stored in a view (SaveCDPToDB stores a CDP under its own id).
LiveCDPs(view) == {Find(view, CdpKey(id)) : id \in CdpIds} \ {Absent}

TypeOK ==
    /\ \A v \in Views : \A c \in CdpIds :
           Find(v, CdpKey(c)) \in CDP \cup {Absent}
    /\ \A v \in Views : \A o \in Owners :
           Find(v, OwnerKey(o)) \in (SUBSET CdpIds \ {{}}) \cup {Absent}
    /\ \A v \in Views : GetCounter(v, StakedKey) \in 0 .. UINT_MAX
    /\ \A v \in Views : GetCounter(v, OwedKey) \in 0 .. UINT_MAX
    /\ txOps \in 0 .. MaxTxOps

(* Aggregate consistency (spec 8): in the committed view, in the block     *)
(* cache and in every per-transaction cache, global_staked and global_owed *)
(* equal the sums over the live CDPs, whatever sequence of NewCDP,          *)
(* UpdateCDP and EraseCDP, flushes, dropped caches and block undo led      *)
(* there.                                                                  *)
AggregatesConsistent ==
    \A v \in Views :
        /\ GetCounter(v, StakedKey) = MapThenSumSet(LAMBDA c : c.staked, LiveCDPs(v))
        /\ GetCounter(v, OwedKey) = MapThenSumSet(LAMBDA c : c.owed, LiveCDPs(v))

(* Ratio index coverage (spec 8): in every view, the ratio index holds     *)
(* exactly one entry per live CDP, under the key computed from its current *)
(* collateral_ratio_base, and the entry carries the current CDP.           *)
RatioIndexExact ==
    \A v \in Views : \A id \in CdpIds :
        \A r \in {RatioKeyOf(x) : x \in CDP} :
            LET e == Find(v, RatioKey(r, id))
                c == Find(v, CdpKey(id))
                indexed == c # Absent /\ r = RatioKeyOf(c)
            IN  /\ indexed => e = c
                /\ e # Absent => indexed

(* The owner index regId2CDPCache lists, for every owner, exactly the      *)
(* cdpids of its live CDPs (GetCDPList reads a CDP for each of them and    *)
(* fails if one is missing).                                               *)
OwnerIndexExact ==
    \A v \in Views : \A o \in Owners :
        GetIdSet(v, OwnerKey(o)) = {c.id : c \in {x \in LiveCDPs(v) : x.owner = o}}

(* Spec 4.7: GetCdpListByCollateralRatio(ratio, price) is the liquidation  *)
(* candidate set.  In every view, whatever updates and erasures the layers *)
(* above the database hold, it returns only live CDPs in their current     *)
(* state, and every live CDP whose collateral ratio at that price          *)
(* (staked / owed * price, boosted) is below the target is in it.          *)
LiquidationCandidatesComplete ==
    \A v \in Views :
        LET live == LiveCDPs(v)
        IN  \A cr \in TargetRatios, p \in Prices : \A q \in ThresholdKeys(cr, p) :
            LET found == GetCdpListByCollateralRatio(v, q)
            IN  /\ found \subseteq live
                /\ \A c \in live :
                      c.staked * p * RATIO_BOOST < cr * PRICE_BOOST * c.owed => c \in found

(* The global floor check (cdpdb.cpp:117) and the ratio index agree: in    *)
(* every view, when the global collateral ratio read from the two         *)
(* aggregate counters is below a limit at a price, the liquidation query   *)
(* at that limit and price returns a CDP.  It fails if the counters drift  *)
(* from the CDPs, or the ratio treats a view without debt as undercollateralised. *)
GlobalFloorHasCandidates ==
    \A v \in Views, cr \in TargetRatios, p \in Prices :
        CheckGlobalCollateralRatioFloorReached(v, p, cr) =>
            \E q \in ThresholdKeys(cr, p) : GetCdpListByCollateralRatio(v, q) # {}

=============================================================================
