--------------------------- MODULE TorrentMetadata ---------------------------
(***************************************************************************)
(* A .torrent file on its way to the disk: TorrentMetadata decodes and     *)
(* checks it, PieceManager cuts it into pieces, and the threads of         *)
(* FileWriting put them into its files, in any order.  Of bencode it asks  *)
(* only that decode gives Python values; Bencode says which.               *)
(***************************************************************************)
EXTENDS FileWriting

CONSTANTS
    Documents,      \* the files offered
    HashLength,     \* 20, the length of a piece's hash
    Values,         \* Python values, with all that is in them
    decode(_),      \* bencode.decode, as Bencode!Decode
    encode(_),      \* bencode.encode, as Bencode!Encode
    utf8(_)         \* whether bytes are UTF-8

ASSUME MetadataAssumption == HashLength \in Nat \ {0}

\* A value is a tagged record; a dict is the sequence of its <<key, value>> pairs.
ASSUME DecodeAssumption ==
    /\ \A x \in Values :
          \/ x.t = "int"  /\ x.v \in Int
          \/ x.t = "str"  /\ x.v \in Seq(STRING)
          \/ x.t = "list" /\ x.v \in Seq(Values)
          \/ x.t = "dict" /\ x.v \in Seq(Seq(STRING) \X Values)
    /\ \A d \in Documents : decode(d).got => decode(d).val \in Values

VARIABLES
    doc,            \* the file's bytes
    phase           \* "read", "rejected": TorrentMetadataError, "crashed":
                    \* any other exception, "loaded"

vars == <<doc, phase, meta, writeVars>>

NoMeta == [infoHash |-> <<>>, pieceLength |-> 0, numPieces |-> 0, files |-> <<>>, size |-> 0]

TypeOK ==
    /\ phase \in {"read", "rejected", "crashed", "loaded"}
    /\ meta.numPieces > 0 => IsLayout(meta) /\ meta.pieceLength # 0
    /\ WriteTypeOK

Init ==
    /\ doc \in Documents
    /\ phase = "read"
    /\ meta = NoMeta
    /\ WriteInit

-----------------------------------------------------------------------------
(* TorrentMetadata.__init__ *)

IsEntry(d, key, k) == d.v[k][1] = <<key>>

Has(d, key) == \E k \in DOMAIN d.v : IsEntry(d, key, k)

Get(d, key) == d.v[CHOOSE k \in DOMAIN d.v : IsEntry(d, key, k)][2]

IsBytes(x) == x.t = "str"

\* decode('utf-8') does not raise.
IsText(x) == x.t = "str" /\ utf8(x.v)

\* What "for" and "in" find at place k: a dict gives its keys, bytes give numbers.
Item(x, k) ==
    IF x.t = "list" THEN x.v[k]
    ELSE IF x.t = "dict" THEN [t |-> "str", v |-> x.v[k][1]]
    ELSE [t |-> "int", v |-> 0]

\* What "for x in value" and x's own check let through.
Iterable(x, Fine(_)) == x.t # "int" /\ \A k \in DOMAIN x.v : Fine(Item(x, k))

FileParses(f) ==
    /\ f.t = "dict" /\ Has(f, "path") /\ Has(f, "length")
    /\ Iterable(Get(f, "path"), IsText)
    /\ Get(f, "length").t = "int"

FilesParse(info) ==
    IF Has(info, "files") THEN Iterable(Get(info, "files"), FileParses)
                          ELSE Get(info, "length").t = "int"

\* The first check that fails decides; "rejected" where the code raises
\* TorrentMetadataError itself.
InfoVerdict(info) ==
    IF ~Has(info, "piece length") \/ ~Has(info, "pieces") THEN "rejected"
    ELSE IF Get(info, "pieces").t = "int" THEN "crashed"
    ELSE IF Len(Get(info, "pieces").v) % HashLength # 0 THEN "rejected"
    ELSE IF Get(info, "pieces").t = "dict" /\ Get(info, "pieces").v # <<>> THEN "crashed"
    ELSE IF ~Has(info, "name") THEN "rejected"
    ELSE IF ~IsText(Get(info, "name")) THEN "crashed"
    ELSE IF ~Has(info, "files") /\ ~Has(info, "length") THEN "rejected"
    ELSE IF FilesParse(info) THEN "loaded" ELSE "crashed"

TiersParse(d) ==
    Has(d, "announce-list") =>
        Iterable(Get(d, "announce-list"), LAMBDA tier : Iterable(tier, IsText))

CommentsParse(d) ==
    \A key \in {"comment", "created by"} : Has(d, key) => IsBytes(Get(d, key))

Verdict(r) ==
    IF ~r.got THEN IF r.val = "BencodeDecodeError" THEN "rejected" ELSE "crashed"
    ELSE IF r.val.t # "dict" THEN "rejected"
    ELSE IF ~Has(r.val, "announce") THEN "rejected"
    ELSE IF ~IsText(Get(r.val, "announce")) \/ ~TiersParse(r.val) THEN "crashed"
    ELSE IF ~Has(r.val, "info") THEN "rejected"
    ELSE IF Get(r.val, "info").t # "dict" THEN "rejected"
    ELSE IF InfoVerdict(Get(r.val, "info")) = "loaded" /\ ~CommentsParse(r.val) THEN "crashed"
    ELSE InfoVerdict(Get(r.val, "info"))

\* self.files
Files(info) ==
    LET name == Get(info, "name").v
        dirs(f) == LET p == Get(f, "path") IN [k \in DOMAIN p.v |-> Item(p, k).v]
        list == Get(info, "files").v
    IN IF ~Has(info, "files") THEN <<[path |-> <<name>>, size |-> Get(info, "length").v]>>
       ELSE [k \in DOMAIN list |-> [path |-> <<name>> \o dirs(list[k]),
                                    size |-> Get(list[k], "length").v]]

\* SHA-1 is one to one here: the hash is what is hashed.
Attributes(info) ==
    [infoHash |-> encode(info),
     pieceLength |-> Get(info, "piece length").v,
     numPieces |-> Len(Get(info, "pieces").v) \div HashLength,
     files |-> Files(info),
     size |-> TotalSize(Files(info))]

\* Mutation: a piece length of 0 goes through.
DividesByAny(info) ==
    Len(Get(info, "pieces").v) < HashLength \/ Get(info, "piece length").t = "int"

\* PieceManager.__init__ divides by the piece length.
Divides(info) ==
    \/ Len(Get(info, "pieces").v) < HashLength
    \/ Get(info, "piece length").t = "int" /\ Get(info, "piece length").v # 0

Load ==
    /\ phase = "read"
    /\ LET r == decode(doc)
           info == Get(r.val, "info")
       IN /\ phase' = IF Verdict(r) = "loaded" /\ ~Divides(info) THEN "crashed" ELSE Verdict(r)
          /\ meta' = IF phase' = "loaded" THEN Attributes(info) ELSE meta
    /\ UNCHANGED <<doc, writeVars>>

Writes == phase = "loaded" /\ WriteStep /\ UNCHANGED <<doc, phase, meta>>

Next == Load \/ Writes

Spec == Init /\ [][Next]_vars
=============================================================================
