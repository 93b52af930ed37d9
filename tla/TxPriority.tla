----------------------------- MODULE TxPriority -----------------------------
(***************************************************************************)
(* The priority queue of the block factories (src/src/miner/miner.h,       *)
(* miner.cpp): GetPriorityTx walks mempool.memPoolTxs, a std::map keyed by *)
(* the transaction hash, computes each transaction's fee per kB and        *)
(* emplaces a TxPriority into a std::set ordered by TxPriority::operator<. *)
(* The stable-coin release factory then emplaces the price-median          *)
(* transaction, and both factories visit the set from rbegin().            *)
(*                                                                         *)
(* std::set is a search tree: emplace descends from the root, going left   *)
(* where the new element compares less than the node, and then inserts     *)
(* unless its in-order predecessor does not compare less than it (the      *)
(* element is then "equivalent" and dropped).  Rotations never compare, so *)
(* the in-order sequence is all that matters; the tree's shape is left     *)
(* free: every node of the current range may be the one the descent meets  *)
(* next.                                                                   *)
(*                                                                         *)
(* feePerKb is a double (fee - fuel) / size * 1000.  The division is       *)
(* correctly rounded, so equal quotients give equal doubles and, for the   *)
(* small operands here, distinct quotients keep their order: a fee per kB  *)
(* is represented by its numerator and denominator.  fee - fuel is uint64  *)
(* arithmetic and wraps modulo 2^WordBits.                                 *)
(***************************************************************************)
EXTENDS Integers, Sequences, SequencesExt, FiniteSets

CONSTANTS
    Hashes,        \* the mempool's transaction hashes, ordered by <
    Priorities,    \* GetPriority() of mempool entries
    Fees,          \* fee amounts
    Fuels,         \* GetFuel(height, fuelRate)
    Sizes,         \* serialized sizes
    MedianHash,    \* hash of the injected CBlockPriceMedianTx
    WordBits       \* width of uint64_t

ASSUME Hashes \subseteq Nat /\ MedianHash \in Nat \ Hashes
ASSUME Sizes \subseteq Nat \ {0}

VARIABLES
    mode,          \* "pre" or "post" (CreateNewBlock...StableCoinRelease)
    mempool,       \* hash -> mempool entry
    pending,       \* hashes of memPoolTxs not yet visited by GetPriorityTx
    txPriorities,  \* the std::set, as its in-order sequence
    medianQueued   \* the price-median transaction has been emplaced

vars == <<mode, mempool, pending, txPriorities, medianQueued>>

Word == 2 ^ WordBits

(* src/src/config/scoin.h *)
PRICE_MEDIAN_TRANSACTION_PRIORITY == 10000

MempoolEntry == [priority : Priorities, fee : Fees, fuel : Fuels, size : Sizes]

(* feePerKb = double(fee - GetFuel()) / txSize * 1000.0, with the unsigned *)
(* subtraction of the code.                                                *)
FeePerKb(e) == [num |-> (e.fee - e.fuel) % Word, den |-> e.size]

(* The TxPriority that GetPriorityTx emplaces for the entry under h. *)
ToTxPriority(h) ==
    [priority |-> mempool[h].priority, feePerKb |-> FeePerKb(mempool[h]), hash |-> h]

(* TxPriority(PRICE_MEDIAN_TRANSACTION_PRIORITY, 0, CBlockPriceMedianTx). *)
MedianTxPriority ==
    [priority |-> PRICE_MEDIAN_TRANSACTION_PRIORITY,
     feePerKb |-> [num |-> 0, den |-> 1], hash |-> MedianHash]

FeeLess(a, b)  == a.feePerKb.num * b.feePerKb.den < b.feePerKb.num * a.feePerKb.den
FeeEqual(a, b) == a.feePerKb.num * b.feePerKb.den = b.feePerKb.num * a.feePerKb.den

(* fabs(this->priority - other.priority) <= 1000 *)
Near(a, b) == a.priority - b.priority \in -1000 .. 1000

\* Mutant: no hash tie-break, equal fees compare false both ways.
TxLessNoTieBreak(a, b) ==
    IF Near(a, b)
    THEN IF ~FeeLess(a, b) THEN FALSE ELSE FeeLess(a, b)
    ELSE a.priority < b.priority

(* TxPriority::operator< as written: the inner test is                     *)
(* fabs(feePerKb < other.feePerKb) <= 1e-8, the absolute value of a bool,  *)
(* which holds exactly when this->feePerKb < other.feePerKb is false.      *)
TxLess(a, b) ==
    IF Near(a, b)
    THEN IF ~FeeLess(a, b) THEN a.hash < b.hash ELSE FeeLess(a, b)
    ELSE a.priority < b.priority

(* std::set::emplace: the gaps (insert before position g) a descent can    *)
(* reach in s[lo..hi], for any shape of the tree over s.                   *)
RECURSIVE InsertGaps(_, _, _, _)
InsertGaps(s, x, lo, hi) ==
    IF lo > hi THEN {lo}
    ELSE UNION {IF TxLess(x, s[p]) THEN InsertGaps(s, x, lo, p - 1)
                                   ELSE InsertGaps(s, x, p + 1, hi) : p \in lo .. hi}

(* The sets emplace can leave: x is inserted at the gap unless its         *)
(* predecessor does not compare less than it.                              *)
Emplace(s, x) ==
    {IF g = 1 \/ TxLess(s[g - 1], x) THEN InsertAt(s, g, x) ELSE s :
        g \in InsertGaps(s, x, 1, Len(s))}

\* Mutant: memPoolTxs iterated against hash order (an unordered container).
MemPoolOrderDescending == Reverse(SetToSortSeq(Hashes, LAMBDA a, b : a < b))

(* memPoolTxs is a std::map<uint256, ...>: iteration is by ascending hash. *)
MemPoolOrder == SetToSortSeq(Hashes, LAMBDA a, b : a < b)

Init ==
    /\ mode \in {"pre", "post"}
    /\ mempool \in [Hashes -> MempoolEntry]
    /\ pending = MemPoolOrder
    /\ txPriorities = <<>>
    /\ medianQueued = FALSE

(* One iteration of GetPriorityTx's loop. *)
CollectTx ==
    /\ pending # <<>>
    /\ \E r \in Emplace(txPriorities, ToTxPriority(Head(pending))) : txPriorities' = r
    /\ pending' = Tail(pending)
    /\ UNCHANGED <<mode, mempool, medianQueued>>

(* txPriorities.emplace(TxPriority(PRICE_MEDIAN_TRANSACTION_PRIORITY, ...)) *)
QueueMedian ==
    /\ pending = <<>>
    /\ mode = "post"
    /\ ~medianQueued
    /\ \E r \in Emplace(txPriorities, MedianTxPriority) : txPriorities' = r
    /\ medianQueued' = TRUE
    /\ UNCHANGED <<mode, mempool, pending>>

Ready == pending = <<>> /\ (mode = "post" => medianQueued)

(* The set is complete: the packing loop takes it over. *)
Done == Ready /\ UNCHANGED vars

Next == CollectTx \/ QueueMedian \/ Done

Spec == Init /\ [][Next]_vars

(***************************************************************************)
(* Properties                                                              *)
(***************************************************************************)
(* The order spec 4.4 prescribes: by priority outside the 1000 band, else  *)
(* by fee per kB when the fees differ, else by hash.                       *)
SpecLess(a, b) ==
    IF Near(a, b)
    THEN IF FeeEqual(a, b) THEN a.hash < b.hash ELSE FeeLess(a, b)
    ELSE a.priority < b.priority

(* The order the packing loop visits: rbegin() to rend(). *)
VisitOrder == Reverse(txPriorities)

(* Every transaction GetPriorityTx has visited, and the price-median       *)
(* transaction once emplaced, is in the set: emplace never finds two       *)
(* distinct transactions equivalent and drops one.                         *)
NoTxDropped ==
    {e.hash : e \in ToSet(txPriorities)} =
        (Hashes \ ToSet(pending)) \cup (IF medianQueued THEN {MedianHash} ELSE {})

(* Best first (spec 4.4): the packing loop never visits a transaction      *)
(* before one that ranks above it in the prescribed order, although        *)
(* operator< itself is not that order; the set is sorted because memPoolTxs *)
(* feeds it in ascending hash order.                                       *)
BestFirstOrder ==
    \A i, j \in 1 .. Len(VisitOrder) :
        i < j => ~SpecLess(VisitOrder[i], VisitOrder[j])

(* Spec 8, priority total order: operator< is asymmetric on the            *)
(* transactions the set holds, as std::set requires of its comparator.     *)
PriorityAsymmetric ==
    \A a, b \in ToSet(txPriorities) : TxLess(a, b) => ~TxLess(b, a)

=============================================================================
