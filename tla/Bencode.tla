------------------------------- MODULE Bencode -------------------------------
(***************************************************************************)
(* bencode.encode and bencode.decode.  A string of bytes is a sequence of  *)
(* tokens: the bytes that mean something to the decoder are tokens, and so *)
(* is every name a torrent has in it, which counts as one byte.  A Python  *)
(* value is a tagged record; a dict is the sequence of its <<key, value>>  *)
(* pairs in insertion order.                                               *)
(***************************************************************************)
EXTENDS Integers, Sequences, SequencesExt

Digits == <<"0", "1", "2", "3", "4", "5", "6", "7", "8", "9">>

\* The tokens in the order of their bytes.
Bytes == <<"+", "-">> \o Digits \o
         <<":", "_", "announce", "announce-list", "comment", "created by", "d", "e",
           "files", "i", "info", "l", "length", "name", "path", "piece length",
           "pieces", "x", "xff">>

Rank(c) == CHOOSE k \in DOMAIN Bytes : Bytes[k] = c

IsDigit(c) == c \in ToSet(Digits)

IntVal(n)   == [t |-> "int",  v |-> n]
BytesVal(s) == [t |-> "str",  v |-> s]
ListVal(s)  == [t |-> "list", v |-> s]
DictVal(s)  == [t |-> "dict", v |-> s]

-----------------------------------------------------------------------------
(* encode *)

RECURSIVE Decimal(_)
Decimal(n) == IF n < 10 THEN <<Digits[n + 1]>> ELSE Decimal(n \div 10) \o <<Digits[(n % 10) + 1]>>

\* str(n)
Numeral(n) == IF n < 0 THEN <<"-">> \o Decimal(-n) ELSE Decimal(n)

EncodeBytes(s) == Numeral(Len(s)) \o <<":">> \o s

\* Python's < on bytes.
KeyLess(a, b) ==
    \/ IsStrictPrefix(a, b)
    \/ \E k \in DOMAIN a \cap DOMAIN b :
          /\ Rank(a[k]) < Rank(b[k])
          /\ SubSeq(a, 1, k - 1) = SubSeq(b, 1, k - 1)

SortedEntries(s) == SortSeq(s, LAMBDA p, q : KeyLess(p[1], q[1]))

RECURSIVE Encode(_)
Encode(x) ==
    CASE x.t = "int"  -> <<"i">> \o Numeral(x.v) \o <<"e">>
      [] x.t = "str"  -> EncodeBytes(x.v)
      [] x.t = "list" -> <<"l">> \o FlattenSeq([k \in DOMAIN x.v |-> Encode(x.v[k])]) \o <<"e">>
      [] x.t = "dict" -> LET s == SortedEntries(x.v)
                         IN <<"d">> \o FlattenSeq([k \in DOMAIN s |->
                                          EncodeBytes(s[k][1]) \o Encode(s[k][2])]) \o <<"e">>

-----------------------------------------------------------------------------
(* decode: either a value and the bytes after it, or the exception raised. *)

Got(x, rest) == [got |-> TRUE, val |-> x, rest |-> rest]

Raise(e) == [got |-> FALSE, val |-> e, rest |-> <<>>]

\* data.index(c) + 1; 0 where index raises ValueError.
IndexOf(c, data) == SelectInSeq(data, LAMBDA b : b = c)

Unsigned(s) == IF s # <<>> /\ Head(s) \in {"+", "-"} THEN Tail(s) ELSE s

\* What int() takes, whitespace aside: a sign, digits, single underscores
\* between digits.
IsNumber(s) ==
    LET d == Unsigned(s)
    IN /\ d # <<>>
       /\ \A k \in DOMAIN d :
            \/ IsDigit(d[k])
            \/ d[k] = "_" /\ k \in 2..Len(d) - 1 /\ IsDigit(d[k - 1]) /\ IsDigit(d[k + 1])

Number(s) ==
    LET n == FoldLeft(LAMBDA a, c : IF c = "_" THEN a ELSE 10 * a + Rank(c) - Rank("0"),
                      0, Unsigned(s))
    IN IF Head(s) = "-" THEN -n ELSE n

\* Mutation: only a leading zero is refused, not one behind a sign.
LeadingZerosUnsigned(s) == Len(s) > 1 /\ s[1] = "0"

\* "Leading zeros", "Negative zero"
LeadingZeros(s) == Len(s) > 1 /\ (s[1] = "0" \/ (s[1] = "-" /\ s[2] = "0"))

DecodeInt(data) ==
    LET end == IndexOf("e", data)
        num == SubSeq(data, 2, end - 1)
    IN IF end = 0 THEN Raise("ValueError")
       ELSE IF num = <<>> \/ LeadingZeros(num) \/ ~IsNumber(num) THEN Raise("BencodeDecodeError")
       ELSE Got(IntVal(Number(num)), SubSeq(data, end + 1, Len(data)))

DecodeBytes(data) ==
    LET colon == IndexOf(":", data)
        num   == SubSeq(data, 1, colon - 1)
        end   == colon + Number(num)
    IN IF colon = 0 THEN Raise("ValueError")
       ELSE IF ~IsNumber(num) \/ Number(num) < 0 \/ end > Len(data) THEN Raise("BencodeDecodeError")
       ELSE Got(BytesVal(SubSeq(data, colon + 1, end)), SubSeq(data, end + 1, Len(data)))

\* "Dictionary keys not in sorted order"
OutOfOrder(before, key) == before # <<>> /\ ~KeyLess(before[Len(before)][1], key)

RECURSIVE DecodeNext(_), DecodeItems(_, _), DecodeEntries(_, _)

DecodeNext(data) ==
    IF data = <<>> THEN Raise("BencodeDecodeError")
    ELSE CASE Head(data) = "i"    -> DecodeInt(data)
           [] Head(data) = "l"    -> DecodeItems(<<>>, Tail(data))
           [] Head(data) = "d"    -> DecodeEntries(<<>>, Tail(data))
           [] IsDigit(Head(data)) -> DecodeBytes(data)
           [] OTHER               -> Raise("BencodeDecodeError")

\* The loop of _decode_list, result in hand.
DecodeItems(result, data) ==
    IF data = <<>> THEN Raise("BencodeDecodeError")
    ELSE IF Head(data) = "e" THEN Got(ListVal(result), Tail(data))
    ELSE LET item == DecodeNext(data)
         IN IF item.got THEN DecodeItems(Append(result, item.val), item.rest) ELSE item

\* The loop of _decode_dict.
DecodeEntries(result, data) ==
    IF data = <<>> THEN Raise("BencodeDecodeError")
    ELSE IF Head(data) = "e" THEN Got(DictVal(result), Tail(data))
    ELSE LET key == DecodeBytes(data)
             value == DecodeNext(key.rest)
         IN IF ~key.got THEN key
            ELSE IF ~value.got THEN value
            ELSE IF OutOfOrder(result, key.val.v) THEN Raise("BencodeDecodeError")
            ELSE DecodeEntries(Append(result, <<key.val.v, value.val>>), value.rest)

\* decode
Decode(data) ==
    LET r == DecodeNext(data)
    IN IF r.got /\ r.rest # <<>> THEN Raise("BencodeDecodeError") ELSE r

-----------------------------------------------------------------------------
\* Spellings of a number that int() takes and str() does not give.
LaxNumber(data) ==
    \E k \in DOMAIN data :
        \/ data[k] \in {"+", "_"}
        \/ /\ k < Len(data) /\ data[k] = "0" /\ IsDigit(data[k + 1])
           /\ k = 1 \/ ~IsDigit(data[k - 1])
        \/ k + 2 <= Len(data) /\ SubSeq(data, k, k + 2) = <<"-", "0", ":">>
=============================================================================
