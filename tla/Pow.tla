-------------------------------- MODULE Pow --------------------------------
(***************************************************************************)
(* The target that ConsensusEngine::CheckProofOfWork (src/Consensus.cpp)   *)
(* computes from the compact bits of a header.  Bits are an exponent byte  *)
(* e and the bytes m of a 32-bit mantissa, least significant first: a      *)
(* 23-bit value.  A target is 32 bytes, most significant first, compared   *)
(* with the hash of the block from the left.                               *)
(*                                                                         *)
(* From exponent 7 on, the node shifts a 32-bit integer by more than 31    *)
(* bits, which C++ leaves undefined: the shift instructions of the         *)
(* platforms of README.md:56 take the count modulo 32, and a compiler that *)
(* evaluates the shift itself, or vectorises it, may have it give 0.  Each *)
(* of the two shifts gives either.                                         *)
(***************************************************************************)
EXTENDS Bytes

CONSTANT SomeBytes    \* the bytes that mantissas are made of

VARIABLES
    bits,     \* the compact bits of the block being checked, or <<>>
    target    \* the target computed from them, or <<>>

(* targetCompact & 0x007FFFFF *)
Mantissas == {<<a, b, c, 0>> : a \in SomeBytes, b \in SomeBytes, c \in SomeBytes \cap 0 .. 127}

(* m >> 8n and m << 8n, for n in 0 .. 3. *)
ShiftRight(m, n) == [i \in 1 .. 4 |-> IF i + n <= 4 THEN m[i + n] ELSE 0]
ShiftLeft(m, n)  == [i \in 1 .. 4 |-> IF i > n THEN m[i - n] ELSE 0]

(* What m << 8n may give, for any n. *)
LeftOutcomes(m, n) ==
    {ShiftLeft(m, n % 4)} \cup (IF n < 4 THEN {} ELSE {[i \in 1 .. 4 |-> 0]})

(* What one shift by the exponent may give, and what the two may.           *)
ShiftOutcomes(e, m) ==
    IF e <= 3 THEN {ShiftRight(m, 3 - e)} ELSE LeftOutcomes(m, e - 3)

Shifted(e, m) == UNION {ShiftOutcomes(e, s) : s \in ShiftOutcomes(e, m)}

(* Three bytes of s go to one end of the target, or to the other.           *)
Placed(e, s) ==
    LET first == IF e > 3 THEN 1 ELSE 30
    IN  [i \in 1 .. 32 |-> IF i \in first .. first + 2 THEN s[3 - (i - first)] ELSE 0]

PowInit == bits = <<>> /\ target = <<>>

(* The target for a block with the bits e and m. *)
CheckProofOfWork(e, m) ==
    /\ bits = <<>>
    /\ bits' = <<e, m>>
    /\ \E s \in Shifted(e, m) : target' = Placed(e, s)

PowNext == \E e \in Byte, m \in Mantissas : CheckProofOfWork(e, m)

PowSpec == PowInit /\ [][PowNext]_<<bits, target>>

-----------------------------------------------------------------------------
(* Properties. *)

(* m * 2^(8*(e-3)) as 32 bytes: the lowest byte of m is e - 3 places from   *)
(* the right, and what falls off either end is lost.                        *)
Formula(e, m) ==
    [i \in 1 .. 32 |-> LET k == 33 - i - (e - 3) IN IF k \in 1 .. 4 THEN m[k] ELSE 0]

(* The target is the one that the comment above the computation gives:      *)
(* "target = (targetCompact & 0x007FFFFF) * 2^(8*((targetCompact>>24)-3))". *)
NodeTargetIsFormula == bits # <<>> => target = Formula(bits[1], bits[2])
=============================================================================
