---------------------------- MODULE CoinTransferTx ----------------------------
(***************************************************************************)
(* The two coin transfer transactions of src/src/tx/cointransfertx.h,      *)
(* CBaseCoinTransferTx and CCoinTransferTx, between a wallet that builds   *)
(* and signs them and a node that receives them from the network.          *)
(*                                                                         *)
(* IMPLEMENT_SERIALIZE lists the fields a transaction is written and read  *)
(* in; ComputeSignatureHash hashes the fields the signature covers and     *)
(* caches the result in the mutable sigHash.  Integers are written as      *)
(* VARINT; user ids, strings and the signature (whose encoders are not     *)
(* under src/) are single opaque tokens.  The hash is ideal: the hashed    *)
(* stream itself.  The network may be read by an adversary that re-encodes *)
(* a message with other fields but the original signature; it holds no     *)
(* wallet key, so it cannot sign.                                          *)
(***************************************************************************)
EXTENDS Integers, Sequences, SequencesExt, FiniteSets

CONSTANTS
    Users,              \* CUserIDs
    Me,                 \* the user whose key the wallet holds
    Amounts, Fees, Memos,
    Symbols,            \* token symbols, SYMB::WICC among them
    WICC,
    BCOIN_TRANSFER_TX, UCOIN_TRANSFER_TX,  \* nTxType codes (one byte)
    INIT_TX_VERSION, ValidHeights,
    MaxTxs, MaxWire     \* bounds on signed transactions and messages

ASSUME Me \in Users /\ WICC \in Symbols
ASSUME Amounts \cup Fees \cup ValidHeights \subseteq Nat

VARIABLES
    wallet,   \* the transactions the wallet built, with their sigHash cache
    wire,     \* the serialized messages on the network
    mempool   \* the node's transactions by hash

vars == <<wallet, wire, mempool>>

NullHash == <<>>
NoSig    == <<>>

(* CWallet::Sign, not under src/: only the key of uid produces it. *)
SignatureOf(uid, hash) == <<uid, hash>>

(***************************************************************************)
(* Encoding (serialize.h, not under src/).  A stream is a sequence of      *)
(* tokens: <<"byte", b>> or an opaque <<"uid" | "str" | "sig", value>>.    *)
(***************************************************************************)
Byte(b) == <<"byte", b>>
Tok(kind, v) == <<kind, v>>

(* WriteVarInt: seven bits per byte, most significant group first, every   *)
(* byte but the last flagged with 0x80, and n = (n >> 7) - 1 between      *)
(* groups so that each value has one encoding.                            *)
RECURSIVE VarIntGroups(_, _)
VarIntGroups(n, len) ==
    LET b == Byte((n % 128) + (IF len > 0 THEN 128 ELSE 0))
    IN  IF n <= 127 THEN <<b>> ELSE VarIntGroups((n \div 128) - 1, len + 1) \o <<b>>

VARINT(n) == VarIntGroups(n, 0)

\* Mutant: the reader does not add back the 1 the writer took off.
RECURSIVE ReadVarIntNoIncrement(_, _, _)
ReadVarIntNoIncrement(w, i, n) ==
    LET ch == w[i][2]
        m  == n * 128 + (ch % 128)
    IN  IF ch >= 128 THEN ReadVarIntNoIncrement(w, i + 1, m)
        ELSE [val |-> m, next |-> i + 1]

(* ReadVarInt from position i: the value and the position after it. *)
RECURSIVE ReadVarIntFrom(_, _, _)
ReadVarIntFrom(w, i, n) ==
    LET ch == w[i][2]
        m  == n * 128 + (ch % 128)
    IN  IF ch >= 128 THEN ReadVarIntFrom(w, i + 1, m + 1)
        ELSE [val |-> m, next |-> i + 1]

ReadVarInt(w, i) == ReadVarIntFrom(w, i, 0)

(***************************************************************************)
(* The transactions                                                        *)
(***************************************************************************)
(* A transaction record carries the fields of both classes; the ones a    *)
(* class does not have keep their default.                                 *)
SingleTransfer(to, sym, amt) == [to_uid |-> to, coin_symbol |-> sym, coin_amount |-> amt]

(* SingleTransfer's IMPLEMENT_SERIALIZE, for each element of the vector   *)
(* after its compact-size count.                                          *)
TransfersStream(ts) ==
    <<Byte(Len(ts))>> \o
    FlattenSeq([k \in 1 .. Len(ts) |->
        <<Tok("uid", ts[k].to_uid), Tok("str", ts[k].coin_symbol)>> \o VARINT(ts[k].coin_amount)])

(* The constructors: CBaseTx(type, txUid, validHeight, feeSymbol, fees). *)
NewBaseCoinTransferTx(from, to, vh, amt, fee, memo) ==
    [nTxType |-> BCOIN_TRANSFER_TX, nVersion |-> INIT_TX_VERSION, valid_height |-> vh,
     txUid |-> from, fee_symbol |-> WICC, llFees |-> fee, toUid |-> to,
     coin_amount |-> amt, transfers |-> <<>>, memo |-> memo,
     signature |-> NoSig, sigHash |-> NullHash]

NewCoinTransferTx(from, to, vh, sym, amt, feeSym, fee, memo) ==
    [nTxType |-> UCOIN_TRANSFER_TX, nVersion |-> INIT_TX_VERSION, valid_height |-> vh,
     txUid |-> from, fee_symbol |-> feeSym, llFees |-> fee, toUid |-> "none",
     coin_amount |-> 0, transfers |-> <<SingleTransfer(to, sym, amt)>>, memo |-> memo,
     signature |-> NoSig, sigHash |-> NullHash]

(* What a transaction says: every field but the signature and the cache. *)
Content(tx) == [f \in DOMAIN tx \ {"signature", "sigHash"} |-> tx[f]]

(* The ss << ... chain of CBaseCoinTransferTx::ComputeSignatureHash. *)
BaseSignedStream(tx) ==
    VARINT(tx.nVersion) \o <<Byte(tx.nTxType)>> \o VARINT(tx.valid_height)
    \o <<Tok("uid", tx.txUid), Tok("uid", tx.toUid)>> \o VARINT(tx.llFees) \o VARINT(tx.coin_amount)
    \o <<Tok("str", tx.memo)>>

\* Mutant: the memo is left out of the signed stream.
CoinSignedStreamNoMemo(tx) ==
    VARINT(tx.nVersion) \o <<Byte(tx.nTxType)>> \o VARINT(tx.valid_height)
    \o <<Tok("uid", tx.txUid), Tok("str", tx.fee_symbol)>> \o VARINT(tx.llFees)
    \o TransfersStream(tx.transfers)

(* The ss << ... chain of CCoinTransferTx::ComputeSignatureHash. *)
CoinSignedStream(tx) ==
    VARINT(tx.nVersion) \o <<Byte(tx.nTxType)>> \o VARINT(tx.valid_height)
    \o <<Tok("uid", tx.txUid), Tok("str", tx.fee_symbol)>> \o VARINT(tx.llFees)
    \o TransfersStream(tx.transfers) \o <<Tok("str", tx.memo)>>

(* The virtual dispatch: each class hashes its own stream. *)
SignedStream(tx) ==
    IF tx.nTxType = BCOIN_TRANSFER_TX THEN BaseSignedStream(tx) ELSE CoinSignedStream(tx)

\* Mutant: the hash is computed but not stored in sigHash.
ComputeSignatureHashNoCache(tx, recalculate) ==
    LET h == IF recalculate \/ tx.sigHash = NullHash THEN SignedStream(tx) ELSE tx.sigHash
    IN  [hash |-> h, tx |-> tx]

(* ComputeSignatureHash(recalculate): the cached sigHash unless it is null *)
(* or a recalculation is asked for.  Returns the hash and the transaction  *)
(* with its cache filled.                                                  *)
ComputeSignatureHash(tx, recalculate) ==
    LET h == IF recalculate \/ tx.sigHash = NullHash THEN SignedStream(tx) ELSE tx.sigHash
    IN  [hash |-> h, tx |-> [tx EXCEPT !.sigHash = h]]

(* IMPLEMENT_SERIALIZE of CBaseCoinTransferTx, written. *)
BaseBody(tx) ==
    VARINT(tx.nVersion) \o VARINT(tx.valid_height) \o <<Tok("uid", tx.txUid), Tok("uid", tx.toUid)>>
    \o VARINT(tx.llFees) \o VARINT(tx.coin_amount) \o <<Tok("str", tx.memo), Tok("sig", tx.signature)>>

(* IMPLEMENT_SERIALIZE of CCoinTransferTx, written. *)
CoinBody(tx) ==
    VARINT(tx.nVersion) \o VARINT(tx.valid_height) \o <<Tok("uid", tx.txUid), Tok("str", tx.fee_symbol)>>
    \o VARINT(tx.llFees) \o TransfersStream(tx.transfers) \o <<Tok("str", tx.memo), Tok("sig", tx.signature)>>

(* The network form: the nTxType byte the polymorphic serializer writes    *)
(* (not under src/), then the class's IMPLEMENT_SERIALIZE.                 *)
Serialize(tx) ==
    <<Byte(tx.nTxType)>> \o (IF tx.nTxType = BCOIN_TRANSFER_TX THEN BaseBody(tx) ELSE CoinBody(tx))

(* The fields both IMPLEMENT_SERIALIZE read first, from position 2 of the *)
(* wire (after the type byte): nVersion, valid_height, txUid.             *)
ReadHeader(w) ==
    LET ver == ReadVarInt(w, 2)
        vh  == ReadVarInt(w, ver.next)
    IN  [nVersion |-> ver.val, valid_height |-> vh.val, txUid |-> w[vh.next][2], next |-> vh.next + 1]

(* IMPLEMENT_SERIALIZE of CBaseCoinTransferTx, read into a default-        *)
(* constructed object: the fields come from the stream, sigHash stays null.*)
ReadBaseBody(w) ==
    LET hd  == ReadHeader(w)
        fee == ReadVarInt(w, hd.next + 1)
        amt == ReadVarInt(w, fee.next)
    IN  [nTxType |-> BCOIN_TRANSFER_TX, nVersion |-> hd.nVersion, valid_height |-> hd.valid_height,
         txUid |-> hd.txUid, fee_symbol |-> WICC, llFees |-> fee.val, toUid |-> w[hd.next][2],
         coin_amount |-> amt.val, transfers |-> <<>>,
         memo |-> w[amt.next][2], signature |-> w[amt.next + 1][2], sigHash |-> NullHash]

(* IMPLEMENT_SERIALIZE of CCoinTransferTx, read; a transfers vector of at *)
(* most one element, as the constructor builds.                           *)
ReadCoinBody(w) ==
    LET hd  == ReadHeader(w)
        fee == ReadVarInt(w, hd.next + 1)
        n   == w[fee.next][2]
        amt == ReadVarInt(w, fee.next + 3)
        nxt == IF n = 0 THEN fee.next + 1 ELSE amt.next
    IN  [nTxType |-> UCOIN_TRANSFER_TX, nVersion |-> hd.nVersion, valid_height |-> hd.valid_height,
         txUid |-> hd.txUid, fee_symbol |-> w[hd.next][2], llFees |-> fee.val, toUid |-> "none",
         coin_amount |-> 0,
         transfers |-> IF n = 0 THEN <<>>
                       ELSE <<SingleTransfer(w[fee.next + 1][2], w[fee.next + 2][2], amt.val)>>,
         memo |-> w[nxt][2], signature |-> w[nxt + 1][2], sigHash |-> NullHash]

(* The polymorphic reader: the type byte picks the class. *)
Deserialize(w) ==
    IF w[1][2] = BCOIN_TRANSFER_TX THEN ReadBaseBody(w) ELSE ReadCoinBody(w)

(* The transactions the wallet can build, of either class. *)
Buildable ==
    {NewBaseCoinTransferTx(Me, to, vh, amt, fee, memo) :
        to \in Users, vh \in ValidHeights, amt \in Amounts, fee \in Fees, memo \in Memos}
    \cup
    {NewCoinTransferTx(Me, to, vh, sym, amt, feeSym, fee, memo) :
        to \in Users, vh \in ValidHeights, sym \in Symbols, amt \in Amounts,
        feeSym \in Symbols, fee \in Fees, memo \in Memos}

(* The node's check of a received transaction (CheckTx, not under src/):  *)
(* the signature is the sender's over ComputeSignatureHash().             *)
Verifies(tx) == tx.signature = SignatureOf(tx.txUid, ComputeSignatureHash(tx, FALSE).hash)

Init ==
    /\ wallet = {}
    /\ wire = {}
    /\ mempool = [h \in {} |-> NoSig]

(* The wallet builds a transaction and signs ComputeSignatureHash(), which *)
(* fills the cache; it then relays the serialized transaction.            *)
CreateAndSign ==
    /\ Cardinality(wallet) < MaxTxs
    /\ \E tx \in Buildable :
          LET r == ComputeSignatureHash(tx, FALSE)
          IN  wallet' = wallet \cup {[r.tx EXCEPT !.signature = SignatureOf(Me, r.hash)]}
    /\ UNCHANGED <<wire, mempool>>

Relay ==
    /\ Cardinality(wire) < MaxWire
    /\ \E tx \in wallet : wire' = wire \cup {Serialize(tx)}
    /\ UNCHANGED <<wallet, mempool>>

(* The adversary reads a message and re-encodes it with the fields of     *)
(* another transaction of the same class, keeping the signature.          *)
Tamper ==
    /\ Cardinality(wire) < MaxWire
    /\ \E w \in wire, other \in Buildable :
          LET tx == Deserialize(w)
          IN  /\ other.nTxType = tx.nTxType
              /\ wire' = wire \cup {Serialize([other EXCEPT !.signature = tx.signature])}
    /\ UNCHANGED <<wallet, mempool>>

(* The node reads a message into a new object, computes its hash, checks  *)
(* the signature and keeps the transaction under its hash unless it has   *)
(* it already.                                                             *)
AcceptToMempool ==
    \E w \in wire :
        LET r == ComputeSignatureHash(Deserialize(w), FALSE)
        IN  /\ r.hash \notin DOMAIN mempool
            /\ Verifies(r.tx)
            /\ mempool' = (r.hash :> r.tx) @@ mempool
            /\ UNCHANGED <<wallet, wire>>

Next == CreateAndSign \/ Relay \/ Tamper \/ AcceptToMempool

Spec == Init /\ [][Next]_vars

(***************************************************************************)
(* Properties                                                              *)
(***************************************************************************)
(* Type invariant: the wallet holds buildable transactions with a filled *)
(* sigHash cache, and the mempool keys each transaction by its sigHash.  *)
TypeOK ==
    /\ \A tx \in wallet : Content(tx) \in {Content(b) : b \in Buildable} /\ tx.sigHash # NullHash
    /\ \A h \in DOMAIN mempool : mempool[h].sigHash = h

(* A message of a signed transaction, read back by the node, is the same   *)
(* transaction and its signature verifies: the read side of                *)
(* IMPLEMENT_SERIALIZE, VARINT included, undoes the write side for every  *)
(* class and every amount, at and across the 127/128 byte boundary.       *)
RelayedTxVerifies ==
    \A tx \in wallet :
        Serialize(tx) \in wire =>
            LET got == Deserialize(Serialize(tx))
            IN  Content(got) = Content(tx) /\ Verifies(got)

(* Whatever the adversary re-encodes, the node's mempool holds only what   *)
(* the wallet signed: every accepted transaction has the content of a      *)
(* signed one, under the hash the wallet signed.  It fails if the signed  *)
(* stream leaves out a field the message carries.                          *)
MempoolHoldsSignedContent ==
    \A h \in DOMAIN mempool :
        \E tx \in wallet : Content(tx) = Content(mempool[h]) /\ tx.sigHash = h

====
