----------------------------- MODULE MCFormats ------------------------------
(* Formats with strings that need every kind of escape, integers at the     *)
(* limits of their types, doubles, foreign texts made from a good one, and  *)
(* blocks with and without inputs, outputs and scripts.                     *)
EXTENDS Formats

(* Doubles of three significant digits, of which two are printed, are for   *)
(* those of about 16, of which 6 are.  m in 100 .. 999 and x stand for      *)
(* m / 100 * 10^x.  As for a double of 64 bits, the smallest is printed as  *)
(* a number that is too small, and the greatest as one that is not too      *)
(* great.                                                                   *)
MCDoubles ==
    {d \in BOOLEAN \X (100 .. 999) \X (-6 .. 6) :
        /\ d[3] = -6 => d[2] >= 104
        /\ d[3] = 6 => d[2] <= 183}
    \cup (BOOLEAN \X {0} \X {0})

(* n in tens, to the nearest and the even one of two. *)
Tens(n) ==
    LET up == IF n % 10 = 5 THEN (n \div 10) % 2 = 1 ELSE n % 10 > 5
    IN  IF up THEN n \div 10 + 1 ELSE n \div 10

(* The first three of some digits: one more is enough to round them, if it  *)
(* is not 5 or 0 when something follows.                                    *)
ThreeDigits(digits) ==
    LET D(i) == IF i \in DOMAIN digits THEN digits[i] - 48 ELSE 0
        sticky == IF D(4) % 5 = 0 /\ \E i \in DOMAIN digits : i > 4 /\ digits[i] # 48 THEN 1 ELSE 0
    IN  Tens(1000 * D(1) + 100 * D(2) + 10 * D(3) + D(4) + sticky)

(* The exponent at place q of a number; none without a digit. *)
Power(t, q) ==
    LET i == q + (IF At(t, q + 1) \in {43, Minus} THEN 2 ELSE 1)
        n == NumberOf(SubSeq(t, i, Past(t, i, Digit) - 1))
    IN  IF q > Len(t) THEN 0 ELSE IF At(t, q + 1) = Minus THEN -n ELSE n

(* m may be rounded up to 1000, and in MCShown to 100. *)
MCStod(t) ==
    LET digits == SubSeq(t, First(t, 1), Point(t, 1) - 1)
                     \o SubSeq(t, Point(t, 1) + 1, Mantissa(t, 1) - 1)
        k == Past(digits, 1, {48})
        m == ThreeDigits(SubSeq(digits, k, Len(digits)))
        x == Point(t, 1) - First(t, 1) - k + Power(t, Mantissa(t, 1))
        negative == At(t, 1) = Minus
    IN  IF k > Len(digits) THEN <<negative, 0, 0>>
        ELSE IF m = 1000 THEN <<negative, 100, x + 1>> ELSE <<negative, m, x>>

(* The digits of n in 10 .. 99, with the point after the first of them. *)
Pointed(n) == <<48 + n \div 10>> \o (IF n % 10 = 0 THEN <<>> ELSE <<Dot, 48 + (n % 10)>>)

(* As %g: with an exponent below -4 and from the number of digits on. *)
Positive(n, x) ==
    IF x < -4 \/ x > 1
    THEN Pointed(n) \o <<101, IF x < 0 THEN Minus ELSE 43, 48, 48 + (IF x < 0 THEN -x ELSE x)>>
    ELSE IF x = 1 THEN Decimal(n)
    ELSE IF x = 0 THEN Pointed(n)
    ELSE <<48, Dot>> \o [i \in 1 .. -x-1 |-> 48] \o SelectSeq(Pointed(n), LAMBDA c : c # Dot)

MCShown(d) ==
    LET n == Tens(d[2])
    IN  (IF d[1] THEN <<Minus>> ELSE <<>>)
            \o (IF d[2] = 0 THEN <<48>>
                ELSE IF n = 100 THEN Positive(10, d[3] + 1) ELSE Positive(n, d[3]))

(* A letter; a quote; a backslash before a u; LF and another control byte;  *)
(* bytes above ASCII.                                                       *)
Strings == {<<97>>, <<34>>, <<92, 117>>, <<10, 31>>, <<127, 255>>}

Numbers == {Signed(n) : n \in {-128, -1, 0, 99, 100, 127}}
               \cup {Unsigned(n) : n \in {0, 99, 100, 127, 128, 255}}

(* 1.23 is printed as 1.2, and -49.7 as -50. *)
Fractions == {Double(<<FALSE, 123, 0>>), Double(<<TRUE, 497, 1>>)}

Atoms == {Null, Bool(TRUE), Bool(FALSE)} \cup Numbers \cup Fractions \cup {String(s) : s \in Strings}

MCSubmitBlock == <<115>>
MCNames == Strings \cup {MCSubmitBlock}
MCMethods == MCNames \ {<<97>>}
MCParameters == {<<>>} \cup {<<String(<<97>>), a>> : a \in Atoms}
MCBatches ==
    {<<>>} \cup {<<<<n, <<>>>>>> : n \in Strings}
           \cup {<<<<m, <<Unsigned(7)>>>>, <<n, <<>>>>>> : m \in Strings, n \in Strings}
MCResults ==
    LET pairs == {<<a, b>> : a \in {Null, String(<<34>>)}, b \in {Unsigned(7), Signed(-1), Bool(TRUE)}}
    IN  Atoms \cup {Array(p) : p \in pairs}
              \cup {Object(WithMember(<<s, p[1]>>, <<<<<<101>>, p[2]>>>>)) : p \in pairs, s \in Strings}
MCComplaints == Strings

(* {"i":7,"j":"2","m":"\"","p":[]}, for instance; id is a text.              *)
Good(id, version, method, params) ==
    <<OpenBrace>> \o Quoted(Id) \o <<Colon>> \o id \o <<Comma>>
        \o Tail(Dump[Object(<<<<Jsonrpc, version>>, <<Method, method>>, <<Params, params>>>>)])

(* null, 128, "\"", -1e, 0.1234567, 1e9 (out of range), 1.04e-6 (in range,  *)
(* but not as it is printed), and that in an array.                         *)
IdTexts ==
    LET small == <<49, 46, 48, 52, 101, 45, 54>>
    IN  {NullWord, <<49, 50, 56>>, Quoted(<<34>>), <<45, 49, 101>>,
         <<48, 46, 49, 50, 51, 52, 53, 54, 55>>, <<49, 101, 57>>, small,
         <<OpenBracket>> \o small \o <<CloseBracket>>}

(* Texts: one byte of a good one left out, or replaced; ends cut off; good  *)
(* ones with something in the wrong place; blanks, and texts without members.*)
MCForeign ==
    LET good == Good(<<55>>, Version, String(<<34>>), Array(<<>>))
    IN  {good, <<>>, <<32>>, <<32, 34, 34>>, NullWord, Dump[Object(<<>>)], Dump[Array(<<Null>>)]}
          \cup {SubSeq(good, 1, n) : n \in 1 .. Len(good)}
          \cup {SubSeq(good, 1, n - 1) \o SubSeq(good, n + 1, Len(good)) : n \in 1 .. Len(good)}
          \cup {[good EXCEPT ![n] = c] : n \in 1 .. Len(good), c \in {32, 34, 48, 92, 93, 110}}
          \cup {Good(id, v, m, p) : id \in IdTexts,
                                    v \in {Version, Null, String(<<>>)},
                                    m \in {String(<<34>>), String(<<97>>), Signed(-1)},
                                    p \in {Null, Array(<<>>), Array(<<Unsigned(100)>>)}}

In(hash, n, script) == [prevTxHash |-> hash, prevVout |-> n, scriptSig |-> script, sequence |-> n]
Out(n, script) == [value |-> n, scriptPubKey |-> script]
InputLists ==
    {<<>>, <<In(<<0, 0>>, 2147483647, <<>>)>>,
     <<In(<<16, 255>>, 1, <<118, 0>>), In(<<16, 255>>, 256, <<>>)>>}
OutputLists == {<<>>, <<Out(0, <<118, 0>>)>>, <<Out(2147483647, <<>>), Out(258, <<1>>)>>}
Transactions ==
    {[version |-> 1, inputs |-> is, outputs |-> os, lockTime |-> 0] :
        is \in InputLists, os \in OutputLists}
MCBlocks ==
    {[version |-> 1, prevBlockHash |-> <<16, 255>>, merkleRoot |-> <<1, 2>>, timestamp |-> 65536,
      targetBits |-> 545259519, nonce |-> 2147483647, transactions |-> txs] :
        txs \in {<<>>} \cup {<<t>> : t \in Transactions}
               \cup {<<t, [t EXCEPT !.lockTime = 256]>> : t \in Transactions}}
=============================================================================
