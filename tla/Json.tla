-------------------------------- MODULE Json --------------------------------
(***************************************************************************)
(* The JSON library (src/rpc/Json.h, src/rpc/Json.cpp): the values, the    *)
(* recursive-descent Parser, and the text that dump writes for a value.    *)
(*                                                                         *)
(* A text is a sequence of bytes.  A value is a tuple of its alternative   *)
(* of Value::m_data and what it holds; an object is the sequence of its    *)
(* members, a name and a value each, in the order of std::map.  Integers   *)
(* of 64 bits and their 18 digits are scaled down by the constants; what a *)
(* double is, and how the C++ library reads and writes it, is external.    *)
(***************************************************************************)
EXTENDS Bytes, SequencesExt

CONSTANTS
    MaxSigned,     \* the largest int64_t
    MaxUnsigned,   \* the largest uint64_t
    ShortDigits,   \* 18: integers of no more digits become int64_t
    Doubles,       \* the values of type double that are finite
    Stod(_),       \* what std::stod makes of a text: no double when it throws
    Shown(_),      \* the text that an ostream prints for a double: 6 digits
    MaxNesting     \* how deep the values are nested that the stack has room for

ASSUME JsonAssumption ==
    /\ MaxSigned \in Nat /\ MaxUnsigned = 2 * MaxSigned + 1
    /\ ShortDigits \in Nat \ {0} /\ 10^ShortDigits <= MaxSigned
    /\ MaxNesting \in Nat

Null == <<"null">>
Bool(b) == <<"bool", b>>
Signed(n) == <<"int64", n>>
Unsigned(n) == <<"uint64", n>>
Double(d) == <<"double", d>>
String(s) == <<"string", s>>
Array(items) == <<"array", items>>
Object(members) == <<"object", members>>

(* Value::Object: find, and the order of the names. *)
Has(members, name) == \E k \in DOMAIN members : members[k][1] = name
Member(members, name) == members[CHOOSE k \in DOMAIN members : members[k][1] = name][2]

Before(s, t) ==
    LET Letter(u, i) == IF i \in DOMAIN u THEN u[i] ELSE -1
    IN  \E i \in DOMAIN t : /\ Letter(s, i) < t[i]
                            /\ \A j \in 1 .. i-1 : Letter(s, j) = t[j]

(* ASCII *)
Quote == 34
Comma == 44
Minus == 45
Dot == 46
Colon == 58
OpenBracket == 91
Backslash == 92
CloseBracket == 93
OpenBrace == 123
CloseBrace == 125
Space == {9, 10, 11, 12, 13, 32}
Digit == 48 .. 57
True == <<116, 114, 117, 101>>
False == <<102, 97, 108, 115, 101>>
NullWord == <<110, 117, 108, 108>>

(* The bytes that are written as a letter after a backslash: " \ BS FF LF   *)
(* CR TAB.                                                                  *)
Letter ==
    [c \in {34, 92, 8, 12, 10, 13, 9} |->
        CASE c = 8 -> 98 [] c = 12 -> 102 [] c = 10 -> 110 [] c = 13 -> 114 [] c = 9 -> 116
          [] OTHER -> c]

-----------------------------------------------------------------------------
(* Reading.  Each operator reads the text t from place i on; it gives what  *)
(* it has read and the place after it, or Throws.                           *)

Throws == <<>>
Got(v, i) == <<v, i>>

(* What is made of something that has been read. *)
Then(got, Make(_)) == IF got = Throws THEN Throws ELSE Got(Make(got[1]), got[2])

(* peek: 0 at the end. *)
At(t, i) == IF i <= Len(t) THEN t[i] ELSE 0

(* The first place of t from i on that does not hold one of the bytes S. *)
Past(t, i, S) == Min({k \in i .. Len(t) + 1 : k > Len(t) \/ t[k] \notin S})

SkipWs(t, i) == Past(t, i, Space)

Word(t, i, word, v) ==
    IF i + Len(word) - 1 <= Len(t) /\ SubSeq(t, i, i + Len(word) - 1) = word
    THEN Got(v, i + Len(word)) ELSE Throws

Unescaped(letter) == CHOOSE c \in DOMAIN Letter \cup {47} :
                   IF c = 47 THEN letter = 47 ELSE letter = Letter[c]

HexValue(c) == IF c \in Digit THEN c - 48 ELSE IF c \in 97 .. 102 THEN c - 87 ELSE c - 55

(* A code of 16 bits in UTF-8: in one byte up to 7 bits, in two up to 11.   *)
Utf8(code) ==
    LET high == code \div 64
        low == 128 + (code % 64)
    IN  IF code < 128 THEN <<code>>
        ELSE IF high < 32 THEN <<192 + high, low>>
        ELSE <<224 + high \div 64, 128 + (high % 64), low>>

(* The escape after the backslash at i: its bytes, and the place after it. *)
Escaped(t, i) ==
    LET letter == At(t, i + 1)
    IN  IF letter \in {47} \cup {Letter[c] : c \in DOMAIN Letter}
        THEN Got(<<Unescaped(letter)>>, i + 2)
        ELSE IF /\ letter = 117
                /\ i + 5 <= Len(t)
                /\ \A k \in i+2 .. i+5 : t[k] \in Digit \cup (65 .. 70) \cup (97 .. 102)
        THEN Got(Utf8(((HexValue(t[i+2]) * 16 + HexValue(t[i+3])) * 16
                           + HexValue(t[i+4])) * 16 + HexValue(t[i+5])), i + 6)
        ELSE Throws

(* The bytes of a string that stand for themselves. *)
Plain == Byte \ {Quote, Backslash}

(* The rest of a string, where rest is what follows from later places on:   *)
(* from an escape that comes after plain, and from j on, where k is the     *)
(* first place that does not stand for itself.                              *)
RestWith(plain, escaped, rest) ==
    IF escaped = Throws THEN Throws
    ELSE Then(rest[escaped[2]], LAMBDA s : plain \o escaped[1] \o s)

RestFrom(t, j, k, rest) ==
    IF k > Len(t) THEN Throws
    ELSE IF t[k] = Quote THEN Got(SubSeq(t, j, k - 1), k + 1)
    ELSE RestWith(SubSeq(t, j, k - 1), Escaped(t, k), rest)

RestAt(t, j, rest) == RestFrom(t, j, Past(t, j, Plain), rest)

RestOfString(t) ==
    LET rest[j \in 1 .. Len(t) + 1] == RestAt(t, j, rest) IN rest

(* A string, from a place after its opening quote on: what is in the place  *)
(* of that quote is not looked at.                                          *)
ParseString(t, i) ==
    Then(RestOfString(t)[IF i <= Len(t) THEN i + 1 ELSE i], String)

NumberOf(digits) ==
    LET value[k \in 0 .. Len(digits)] ==
            IF k = 0 THEN 0 ELSE 10 * value[k-1] + digits[k] - 48
    IN  value[Len(digits)]

(* [faulty: everything goes through stoll.] *)
IntegerSigned(negative, digits) ==
    LET n == IF negative THEN -NumberOf(digits) ELSE NumberOf(digits)
    IN  IF digits = <<>> \/ n \notin -MaxSigned-1 .. MaxSigned THEN Throws ELSE Signed(n)

(* stoll and stoull throw when there is no digit and out of their range. *)
Integer(negative, digits) ==
    LET n == NumberOf(digits)
    IN  IF digits = <<>> \/ n > (IF negative THEN MaxSigned + 1 ELSE MaxUnsigned) THEN Throws
        ELSE IF negative THEN Signed(-n)
        ELSE IF Len(digits) > ShortDigits \/ n > MaxSigned THEN Unsigned(n)
        ELSE Signed(n)

(* The places after the digits from i on, a fraction, and an exponent. *)
Fraction(t, i) == IF At(t, i) = Dot THEN Past(t, i + 1, Digit) ELSE i
Exponent(t, i) ==
    IF At(t, i) \in {69, 101}
    THEN Past(t, i + (IF At(t, i + 1) \in {43, Minus} THEN 2 ELSE 1), Digit)
    ELSE i

(* The places in a number at i: after its sign, its digits, its fraction,   *)
(* and its exponent.                                                        *)
First(t, i) == IF At(t, i) = Minus THEN i + 1 ELSE i
Point(t, i) == Past(t, First(t, i), Digit)
Mantissa(t, i) == Fraction(t, Point(t, i))
NumberEnd(t, i) == Exponent(t, Mantissa(t, i))

(* stod throws when there is no digit before the exponent, and out of the   *)
(* range of double.                                                         *)
Float(t, i) ==
    LET d == Stod(SubSeq(t, i, NumberEnd(t, i) - 1))
    IN  IF d \in Doubles /\ \E k \in First(t, i) .. Mantissa(t, i) - 1 : t[k] \in Digit
        THEN Double(d) ELSE Throws

Whole(t, i) == Integer(At(t, i) = Minus, SubSeq(t, First(t, i), Point(t, i) - 1))

ParseNumber(t, i) ==
    LET number == IF NumberEnd(t, i) = Point(t, i) THEN Whole(t, i) ELSE Float(t, i)
    IN  IF number = Throws THEN Throws ELSE Got(number, NumberEnd(t, i))

(* A value at i.  read gives the items of an array, and the members of an   *)
(* object, from each place on.                                              *)
ValueAt(t, i, read) ==
    LET c == At(t, i)
        inside == SkipWs(t, i + 1)
    IN  CASE c = OpenBrace ->
                IF At(t, inside) = CloseBrace THEN Got(Object(<<>>), inside + 1)
                ELSE Then(read[<<"members", inside>>], Object)
          [] c = OpenBracket ->
                IF At(t, inside) = CloseBracket THEN Got(Array(<<>>), inside + 1)
                ELSE Then(read[<<"items", inside>>], Array)
          [] c = Quote -> ParseString(t, i)
          [] c = True[1] -> Word(t, i, True, Bool(TRUE))
          [] c = False[1] -> Word(t, i, False, Bool(FALSE))
          [] c = NullWord[1] -> Word(t, i, NullWord, Null)
          [] c \in Digit \cup {Minus} -> ParseNumber(t, i)
          [] OTHER -> Throws

(* The place after something that has been read, and after blanks. *)
EndOf(t, got) == SkipWs(t, got[2])

(* Array items: item and those after it, and the items from i on. *)
ItemsFrom(t, item, read) ==
    IF item = Throws THEN Throws
    ELSE IF At(t, EndOf(t, item)) = CloseBracket THEN Got(<<item[1]>>, EndOf(t, item) + 1)
    ELSE IF At(t, EndOf(t, item)) = Comma
    THEN Then(read[<<"items", EndOf(t, item) + 1>>], LAMBDA items : <<item[1]>> \o items)
    ELSE Throws

ItemsAt(t, i, read) == ItemsFrom(t, ValueAt(t, SkipWs(t, i), read), read)

(* A member with those that follow it in the text: the last of a name counts.*)
WithMember(member, members) ==
    LET larger == {k \in 1 .. Len(members) + 1 :
                      k > Len(members) \/ Before(member[1], members[k][1])}
    IN  IF Has(members, member[1]) THEN members ELSE InsertAt(members, Min(larger), member)

(* Members of an object: the member of a name and a value and those after   *)
(* it; those of a name with what stands after it; and those from i on.      *)
MembersFrom(t, name, value, read) ==
    IF value = Throws THEN Throws
    ELSE IF At(t, EndOf(t, value)) = CloseBrace
    THEN Got(<<<<name, value[1]>>>>, EndOf(t, value) + 1)
    ELSE IF At(t, EndOf(t, value)) = Comma
    THEN Then(read[<<"members", EndOf(t, value) + 1>>],
              LAMBDA members : WithMember(<<name, value[1]>>, members))
    ELSE Throws

MembersNamed(t, name, read) ==
    IF name = Throws \/ At(t, EndOf(t, name)) # Colon THEN Throws
    ELSE MembersFrom(t, name[1][2], ValueAt(t, SkipWs(t, EndOf(t, name) + 1), read), read)

MembersAt(t, i, read) == MembersNamed(t, ParseString(t, SkipWs(t, i)), read)

Reader(t) ==
    LET read[p \in {"items", "members"} \X (1 .. Len(t) + 1)] ==
            IF p[1] = "items" THEN ItemsAt(t, p[2], read) ELSE MembersAt(t, p[2], read)
    IN  read

ValueRead(got) == IF got = Throws THEN Throws ELSE got[1]

(* json::parse: the first value of the text.  What follows it is ignored. *)
Parse(t) == ValueRead(ValueAt(t, SkipWs(t, 1), Reader(t)))

-----------------------------------------------------------------------------
(* Values. *)

(* Texts that are scanned as one number, whether or not it can be read.     *)
Numerals ==
    {text \in Bytes : At(text, 1) \in Digit \cup {Minus} /\ NumberEnd(text, 1) = Len(text) + 1}

(* What is printed for a double looks like a number.                        *)
ASSUME DoublesAssumption == \A d \in Doubles : Shown(d) \in Numerals

Flat ==
    {Null} \cup ({"bool"} \X BOOLEAN)
        \cup ({"int64"} \X (-MaxSigned-1 .. MaxSigned)) \cup ({"uint64"} \X (0 .. MaxUnsigned))
        \cup ({"double"} \X Doubles) \cup ({"string"} \X Bytes)

(* Objects with members in S, in the order of their names. *)
Objects(S) ==
    {"object"} \X {members \in Seq(Bytes \X S) :
                      \A i, j \in DOMAIN members : i < j => Before(members[i][1], members[j][1])}

(* Values that nest no deeper than d. *)
ValuesTo[d \in Nat] ==
    IF d = 0 THEN Flat
    ELSE LET inner == ValuesTo[d-1]
         IN  Flat \cup ({"array"} \X Seq(inner)) \cup Objects(inner)

Values == ValuesTo[MaxNesting]

-----------------------------------------------------------------------------
(* Writing. *)

HexDigit(n) == IF n < 10 THEN 48 + n ELSE 55 + n

(* [faulty: the backslash is written as it is.] *)
EscapeQuoteOnly(s) ==
    LET from[i \in 1 .. Len(s) + 1] ==
            LET k == Past(s, i, Byte \ {Quote})
                rest == IF k > Len(s) THEN <<>> ELSE <<Backslash, Quote>> \o from[k+1]
            IN  SubSeq(s, i, k - 1) \o rest
    IN  from[1]

EscapeByte(c) ==
    IF c \in DOMAIN Letter THEN <<Backslash, Letter[c]>>
    ELSE <<Backslash, 117, 48, 48, HexDigit(c \div 16), HexDigit(c % 16)>>

(* The text for s from i on, where from is what follows.                    *)
EscapedFrom(s, i, from) ==
    LET k == Past(s, i, 32 .. 255 \ {Quote, Backslash})
        rest == IF k > Len(s) THEN <<>> ELSE EscapeByte(s[k]) \o from[k+1]
    IN  SubSeq(s, i, k - 1) \o rest

Escape(s) ==
    LET from[i \in 1 .. Len(s) + 1] == EscapedFrom(s, i, from) IN from[1]

Quoted(s) == <<Quote>> \o Escape(s) \o <<Quote>>

Digits[n \in Nat] == IF n < 10 THEN <<48 + n>> ELSE Digits[n \div 10] \o <<48 + (n % 10)>>

Decimal(n) == IF n < 0 THEN <<Minus>> \o Digits[-n] ELSE Digits[n]

CommaSeparated(texts) ==
    FlattenSeq([i \in DOMAIN texts |-> IF i = 1 THEN texts[i] ELSE <<Comma>> \o texts[i]])

(* The text of v, where write gives the texts of the values in it.          *)
ItemTexts(write, items) == [i \in DOMAIN items |-> write[items[i]]]

MemberText(write, member) == Quoted(member[1]) \o <<Colon>> \o write[member[2]]
MemberTexts(write, members) == [i \in DOMAIN members |-> MemberText(write, members[i])]

Written(v, write) ==
    CASE v[1] = "null" -> NullWord
      [] v[1] = "bool" -> IF v[2] THEN True ELSE False
      [] v[1] \in {"int64", "uint64"} -> Decimal(v[2])
      [] v[1] = "double" -> Shown(v[2])
      [] v[1] = "string" -> Quoted(v[2])
      [] v[1] = "array" ->
            <<OpenBracket>> \o CommaSeparated(ItemTexts(write, v[2])) \o <<CloseBracket>>
      [] v[1] = "object" ->
            <<OpenBrace>> \o CommaSeparated(MemberTexts(write, v[2])) \o <<CloseBrace>>

Dump[v \in Values] == Written(v, Dump)

-----------------------------------------------------------------------------

(* What becomes of a value that is written and read again: an integer that  *)
(* is not negative may change its type; a double becomes what the digits    *)
(* printed for it read as, perhaps an integer, perhaps nothing; and nothing *)
(* is left of an array or an object with something that cannot be read.     *)
ReadBack(v, read) ==
    CASE v[1] \in {"int64", "uint64"} /\ v[2] >= 0 ->
            IF Len(Digits[v[2]]) > ShortDigits \/ v[2] > MaxSigned
            THEN Unsigned(v[2]) ELSE Signed(v[2])
      [] v[1] = "double" -> ValueRead(ParseNumber(Shown(v[2]), 1))
      [] v[1] = "array" ->
            IF \E i \in DOMAIN v[2] : read[v[2][i]] = Throws THEN Throws
            ELSE Array([i \in DOMAIN v[2] |-> read[v[2][i]]])
      [] v[1] = "object" ->
            IF \E i \in DOMAIN v[2] : read[v[2][i][2]] = Throws THEN Throws
            ELSE Object([i \in DOMAIN v[2] |-> <<v[2][i][1], read[v[2][i][2]]>>])
      [] OTHER -> v

AsRead[v \in Values] == ReadBack(v, AsRead)
=============================================================================
