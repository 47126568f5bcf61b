-------------------------------- MODULE Wire --------------------------------
(***************************************************************************)
(* Blocks and transactions as bytes.  The writer is the miner's            *)
(* (src/miner/Miner.cpp); Transaction::GetHash (src/CoreTypes.cpp), the    *)
(* wallet (src/wallet/Wallet.cpp:201-229) and the NetManager               *)
(* (src/net/NetManager.cpp:271-321) write transactions byte for byte the   *)
(* same way.  The reader is that of submitblock in src/main.cpp.           *)
(*                                                                         *)
(* Numbers are below 2^31, TLC's largest integer.  A text that submitblock *)
(* reads past its end is undefined in the code, and left out.              *)
(***************************************************************************)
EXTENDS Bytes, SequencesExt

CONSTANT HashSize      \* the number of bytes of a hash, 32

ASSUME WireAssumption == HashSize \in Nat \ {0}

-----------------------------------------------------------------------------
(* The data. *)

(* v >> 8n *)
Shifted8(v, n) ==
    LET left[k \in Nat] == IF k = 0 THEN v ELSE left[k-1] \div 256 IN left[n]

(* The numbers that n bytes hold: uint32_t for 4 and uint64_t for 8. *)
UInt(n) == {v \in Nat : Shifted8(v, n) = 0}

HashBytes == [1 .. HashSize -> Byte]

(* Vectors and scripts whose size can be written. *)
Sized(S) == {s \in Seq(S) : Len(s) \in UInt(4)}

InputData ==
    [prevTxHash : HashBytes, prevVout : UInt(4), scriptSig : Sized(Byte), sequence : UInt(4)]

OutputData == [value : UInt(8), scriptPubKey : Sized(Byte)]

TxData ==
    [version : UInt(4), inputs : Sized(InputData), outputs : Sized(OutputData),
     lockTime : UInt(4)]

BlockData ==
    [version : UInt(4), prevBlockHash : HashBytes, merkleRoot : HashBytes, timestamp : UInt(4),
     targetBits : UInt(4), nonce : UInt(4), transactions : Sized(TxData)]

-----------------------------------------------------------------------------
(* Writing. *)

(* push4 and push8, for n = 4 and n = 8: the lowest byte comes first. *)
Little(v, n) == [k \in 1 .. n |-> Shifted8(v, k - 1) % 256]

(* The items of a vector, each as its bytes, after their number. *)
Counted(items) == Little(Len(items), 4) \o FlattenSeq(items)

Script(s) == Little(Len(s), 4) \o s

InputBytes(in) ==
    in.prevTxHash \o Little(in.prevVout, 4) \o Script(in.scriptSig) \o Little(in.sequence, 4)

OutputBytes(out) == Little(out.value, 8) \o Script(out.scriptPubKey)

TxBytes(tx) ==
    Little(tx.version, 4)
        \o Counted([i \in DOMAIN tx.inputs |-> InputBytes(tx.inputs[i])])
        \o Counted([i \in DOMAIN tx.outputs |-> OutputBytes(tx.outputs[i])])
        \o Little(tx.lockTime, 4)

BlockBytes(b) ==
    Little(b.version, 4) \o b.prevBlockHash \o b.merkleRoot
        \o Little(b.timestamp, 4) \o Little(b.targetBits, 4) \o Little(b.nonce, 4)
        \o Counted([i \in DOMAIN b.transactions |-> TxBytes(b.transactions[i])])

(* "%02x" *)
HexText(bytes) ==
    LET Letter16(n) == IF n < 10 THEN 48 + n ELSE 87 + n
    IN  [k \in 1 .. 2 * Len(bytes) |->
            LET byte == bytes[(k + 1) \div 2]
            IN  Letter16(IF k % 2 = 1 THEN byte \div 16 ELSE byte % 16)]

-----------------------------------------------------------------------------
(* Reading: each operator reads raw from place off on, and gives what it    *)
(* has read and the place after it.                                         *)

(* stoul of every two letters; HexText writes no capitals. *)
Unhex(text) ==
    LET Value16(c) == IF c < 58 THEN c - 48 ELSE c - 87
    IN  [i \in 1 .. Len(text) \div 2 |-> 16 * Value16(text[2*i - 1]) + Value16(text[2*i])]

Read(raw, off, n) == <<SubSeq(raw, off, off + n - 1), off + n>>

(* read4, and the loop of submitblock over the eight bytes of a value. *)
ReadLittle(raw, off, n) ==
    LET value[k \in 0 .. n] == IF k = 0 THEN 0 ELSE 256 * value[k-1] + raw[off + n - k]
    IN  <<value[n], off + n>>

ReadScript(raw, off) ==
    LET size == ReadLittle(raw, off, 4) IN Read(raw, size[2], size[1])

(* [faulty: the sequence of an input is skipped.] *)
ReadInputNoSequence(raw, off) ==
    LET hash == Read(raw, off, HashSize)
        vout == ReadLittle(raw, hash[2], 4)
        sig == ReadScript(raw, vout[2])
    IN  <<[prevTxHash |-> hash[1], prevVout |-> vout[1], scriptSig |-> sig[1], sequence |-> 0],
          sig[2] + 4>>

ReadInput(raw, off) ==
    LET hash == Read(raw, off, HashSize)
        vout == ReadLittle(raw, hash[2], 4)
        sig == ReadScript(raw, vout[2])
        sequence == ReadLittle(raw, sig[2], 4)
    IN  <<[prevTxHash |-> hash[1], prevVout |-> vout[1], scriptSig |-> sig[1],
           sequence |-> sequence[1]], sequence[2]>>

ReadOutput(raw, off) ==
    LET value == ReadLittle(raw, off, 8)
        key == ReadScript(raw, value[2])
    IN  <<[value |-> value[1], scriptPubKey |-> key[1]], key[2]>>

(* A loop over a number of items that is read first; read gives the item at  *)
(* each place.                                                              *)
ReadCounted(raw, off, read) ==
    LET count == ReadLittle(raw, off, 4)
        loop[k \in 0 .. count[1]] ==
            IF k = 0 THEN <<<<>>, count[2]>>
            ELSE LET so == loop[k-1]
                     item == read[so[2]]
                 IN  <<Append(so[1], item[1]), item[2]>>
    IN  loop[count[1]]

ReadTx(raw, off) ==
    LET version == ReadLittle(raw, off, 4)
        inputs == ReadCounted(raw, version[2], [i \in DOMAIN raw |-> ReadInput(raw, i)])
        outputs == ReadCounted(raw, inputs[2], [i \in DOMAIN raw |-> ReadOutput(raw, i)])
        lockTime == ReadLittle(raw, outputs[2], 4)
    IN  <<[version |-> version[1], inputs |-> inputs[1], outputs |-> outputs[1],
           lockTime |-> lockTime[1]], lockTime[2]>>

ReadBlock(raw) ==
    LET version == ReadLittle(raw, 1, 4)
        parent == Read(raw, version[2], HashSize)
        root == Read(raw, parent[2], HashSize)
        timestamp == ReadLittle(raw, root[2], 4)
        bits == ReadLittle(raw, timestamp[2], 4)
        nonce == ReadLittle(raw, bits[2], 4)
        transactions == ReadCounted(raw, nonce[2], [i \in DOMAIN raw |-> ReadTx(raw, i)])
    IN  <<[version |-> version[1], prevBlockHash |-> parent[1], merkleRoot |-> root[1],
           timestamp |-> timestamp[1], targetBits |-> bits[1], nonce |-> nonce[1],
           transactions |-> transactions[1]], transactions[2]>>
=============================================================================
