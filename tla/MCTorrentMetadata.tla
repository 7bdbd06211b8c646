-------------------------- MODULE MCTorrentMetadata --------------------------
(***************************************************************************)
(* TorrentMetadata with Bencode, for TLC.  Offered are every short string  *)
(* of some tokens; well-formed torrents of one to three files; torrents    *)
(* with a field missing, of another type, not in UTF-8 or out of order;    *)
(* torrents whose path is any kind of value; and one torrent               *)
(* with every single token deleted, doubled with its neighbour's place,    *)
(* or preceded by a sign, a zero or an underscore.                         *)
(***************************************************************************)
EXTENDS TorrentMetadata, Bencode, TLC

CONSTANTS Alphabet, MaxLength, MaxSize, MaxTotal, MaxFiles, PieceLengths

Str(c) == BytesVal(<<c>>)

Entry(key, x) == <<<<key>>, x>>

Hashes(n) == BytesVal([k \in 1..n * HashLength |-> "x"])

FileVal(k, size) ==
    DictVal(<<Entry("length", IntVal(size)), Entry("path", ListVal(<<Str("d"), Str(Digits[k])>>))>>)

\* 0xff is in no UTF-8 string.
Utf8(s) == "xff" \notin ToSet(s)

\* The entries of an info dictionary: one file if multi is false.
Info(sizes, multi, length, n) ==
    <<IF multi THEN Entry("files", ListVal([k \in DOMAIN sizes |-> FileVal(k, sizes[k])]))
               ELSE Entry("length", IntVal(sizes[1])),
      Entry("name", Str("name")), Entry("piece length", IntVal(length)), Entry("pieces", Hashes(n))>>

Torrent(info) == <<Entry("announce", Str("x")), Entry("info", DictVal(info))>>

\* With every optional field.
Chatty(info) ==
    <<Entry("announce", Str("x")), Entry("announce-list", ListVal(<<ListVal(<<Str("x")>>)>>)),
      Entry("comment", Str("x")), Entry("created by", Str("x")), Entry("info", DictVal(info))>>

Total(s) == FoldLeft(LAMBDA a, b : a + b, 0, s)

Sizes == {s \in UNION {[1..n -> 0..MaxSize] : n \in 1..MaxFiles} : Total(s) <= MaxTotal}

WellFormed ==
    {Info(s, TRUE, l, (Total(s) + l - 1) \div l) : s \in Sizes, l \in PieceLengths}
    \cup {Info(<<n>>, FALSE, l, m) : n \in 0..MaxSize, l \in PieceLengths \cup {0}, m \in 0..MaxSize}

Base == Info(<<1, 1>>, TRUE, 2, 1)

\* A dict for a list, or for bytes.
Keys == DictVal(<<Entry("d", IntVal(1)), Entry("e", IntVal(1))>>)

\* A torrent of one file whose path is x.
WithPath(x) ==
    <<Entry("files", ListVal(<<DictVal(<<Entry("length", IntVal(1)), Entry("path", x)>>)>>)),
      Entry("name", Str("name")), Entry("piece length", IntVal(1)), Entry("pieces", Hashes(1))>>

OddPaths == {WithPath(x) : x \in {Keys, Str("x"), BytesVal(<<>>), IntVal(1), ListVal(<<IntVal(1)>>),
                                ListVal(<<Str("xff")>>), ListVal(<<Str("d"), Str("xff")>>)}}

\* Every way to leave an entry out, to put a value of another kind or bytes that
\* are no text in its place, or to exchange two entries.
Damaged(d) ==
    {RemoveAt(d, k) : k \in DOMAIN d}
    \cup {[d EXCEPT ![k][2] = x] : k \in DOMAIN d, x \in {IntVal(1), ListVal(<<IntVal(1)>>), Keys, Str("xff")}}

Swapped(d) == {[d EXCEPT ![j] = d[k], ![k] = d[j]] : j, k \in DOMAIN d}

\* A dictionary written in the order given.
Unsorted(d) == <<"d">> \o FlattenSeq([k \in DOMAIN d |-> EncodeBytes(d[k][1]) \o Encode(d[k][2])]) \o <<"e">>

Edited(s) ==
    {RemoveAt(s, k) : k \in DOMAIN s}
    \cup {InsertAt(s, k, c) : k \in DOMAIN s, c \in {"+", "-", "0", "1", "_"}}
    \cup {[s EXCEPT ![k] = s[k + 1], ![k + 1] = s[k]] : k \in 1..Len(s) - 1}
    \cup {SubSeq(s, 1, k) : k \in DOMAIN s}

MCDocuments ==
    SeqOf(Alphabet, MaxLength)
    \cup {Encode(DictVal(Torrent(i))) : i \in WellFormed \cup OddPaths \cup Damaged(Base)
                                          \cup Damaged(Info(<<2>>, FALSE, 1, 2)) \cup Damaged(Info(<<1>>, FALSE, 1, 0))}
    \cup {Encode(DictVal(t)) : t \in Damaged(Torrent(Base)) \cup Damaged(Chatty(Base))}
    \cup {Unsorted(t) : t \in Swapped(Torrent(Base))}
    \cup Edited(Encode(DictVal(Torrent(Base))))

\* A value and the values in it.
RECURSIVE Within(_)
Within(x) ==
    {x} \cup UNION (CASE x.t = "list" -> {Within(x.v[k]) : k \in DOMAIN x.v}
                      [] x.t = "dict" -> {Within(x.v[k][2]) : k \in DOMAIN x.v}
                      [] OTHER        -> {})

\* All that is in what was offered, worked out once.
Decoded == UNION {IF Decode(d).got THEN Within(Decode(d).val) ELSE {} : d \in MCDocuments}

MCValues == Decoded

\* The threads of the executor are alike.
ThreadSymmetry == Permutations(Threads)

\* The info hash is taken of the re-encoded info dictionary, so it is the
\* torrent's only if re-encoding gives the file's own bytes back.  It does,
\* for everything decode takes, but for lax numbers.
SpellingIsKept ==
    LET r == decode(doc) IN r.got => LaxNumber(doc) \/ encode(r.val) = doc
=============================================================================
