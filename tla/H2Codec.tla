------------------------------ MODULE H2Codec -------------------------------
(* The HTTP/2 wire formats of lb-h2: header compression and frames.      *)
EXTENDS Integers, SequencesExt

-----------------------------------------------------------------------------
(* The header codecs: HPACK with its two dynamic tables (lb-h2/src/hpack.rs) *)
(* and QPACK without one (lb-h3-testcodec/src/qpack.rs).  An encoder and a   *)
(* decoder at the two ends of a connection; blocks arrive in order.          *)
(*                                                                           *)
(* A byte is a record: the representation its high bits announce, the number *)
(* in its low bits and, inside a string, the text it belongs to.             *)

CONSTANTS
  Overhead,      \* 32 octets of an entry beyond its name and value
  Base,          \* 128: what a continuation byte carries
  PrefixMax,     \* the largest number that is no prefix: 2^prefix_bits - 1, for each representation
  MaxShift,      \* 4: continuation bytes after which one more is an overflow (28 / 7)
  TableSizes,    \* table sizes that are set or announced
  TextLength,    \* text -> its octets
  Static,        \* the static table
  MaxBlocks      \* bound on the blocks

VARIABLES
  hpEnc, hpDec,  \* the dynamic tables: [entries, size, max], newest first
  hpWire,        \* the block in flight
  hpSent,        \* its headers
  hpGot,         \* what the last block decoded to: [headers, err]
  hpAt,          \* "idle", "flying", "cut" or "closed"
  hpBlocks,      \* blocks so far
  hpSetting      \* the size the tables were last set to by SETTINGS

hpackVars == <<hpEnc, hpDec, hpWire, hpSent, hpGot, hpAt, hpBlocks, hpSetting>>

Fields == [name : {"m", "x"}, value : {"", "v"}]
HeaderLists == UNION {[1 .. n -> Fields] : n \in 1 .. 2}
-----------------------------------------------------------------------------
(* DynamicTable.                                                             *)

NewTable(max) == [entries |-> <<>>, size |-> 0, max |-> max]
EntrySize(f) == TextLength[f.name] + TextLength[f.value] + Overhead

RECURSIVE Evict(_, _)
Evict(t, needed) ==
  IF t.size + needed <= t.max \/ t.entries = <<>> THEN t
  ELSE Evict([t EXCEPT !.entries = Front(@), !.size = @ - EntrySize(Last(t.entries))], needed)

\* An entry larger than the table empties it.
Insert(t, f) ==
  LET room == Evict(t, EntrySize(f))
  IN IF EntrySize(f) > t.max THEN room
     ELSE [room EXCEPT !.entries = <<f>> \o @, !.size = @ + EntrySize(f)]

SetMaxSize(t, max) == Evict([t EXCEPT !.max = max], 0)

\* One numbering for both tables; table_get fails outside it.
Numbered(t) == Static \o t.entries

\* The first full match, else the first of the name; 0 for none.
FindInTables(f, all) ==
  LET full == {i \in DOMAIN all : all[i] = f}
      named == {i \in DOMAIN all : all[i].name = f.name}
      first(s) == CHOOSE i \in s : \A j \in s : i <= j
  IN IF full # {} THEN [index |-> first(full), full |-> TRUE]
     ELSE [index |-> IF named = {} THEN 0 ELSE first(named), full |-> FALSE]
-----------------------------------------------------------------------------
(* Integers and strings, shared by both codecs.                              *)

Byte(op, n, t) == [op |-> op, n |-> n, t |-> t]

RECURSIVE Groups(_)
Groups(v) == IF v < Base THEN <<Byte("last", v, "")>>
             ELSE <<Byte("more", v % Base, "")>> \o Groups(v \div Base)

EncodeInteger(op, v) ==
  IF v < PrefixMax[op] THEN <<Byte(op, v, "")>>
  ELSE <<Byte(op, PrefixMax[op], "")>> \o Groups(v - PrefixMax[op])

RECURSIVE DecodeGroups(_, _, _, _, _)
DecodeGroups(buf, pos, shift, weight, value) ==
  IF pos > Len(buf) THEN [err |-> "incomplete", value |-> 0, next |-> pos]
  ELSE LET sum == value + buf[pos].n * weight IN
       IF buf[pos].op = "last" THEN [err |-> "", value |-> sum, next |-> pos + 1]
       ELSE IF shift + 1 > MaxShift THEN [err |-> "overflow", value |-> 0, next |-> pos]
       ELSE DecodeGroups(buf, pos + 1, shift + 1, weight * Base, sum)

DecodeInteger(buf, pos) ==
  IF pos > Len(buf) THEN [err |-> "incomplete", value |-> 0, next |-> pos]
  ELSE IF buf[pos].n < PrefixMax[buf[pos].op]
    THEN [err |-> "", value |-> buf[pos].n, next |-> pos + 1]
  ELSE DecodeGroups(buf, pos + 1, 0, 1, buf[pos].n)

Text(t) == [i \in 1 .. TextLength[t] |-> Byte("text", i, t)]
EncodeString(op, t) == EncodeInteger(op, TextLength[t]) \o Text(t)

DecodeString(buf, pos) ==
  LET len == DecodeInteger(buf, pos) IN
  IF len.err # "" \/ len.next + len.value > Len(buf) + 1
  THEN [err |-> IF len.err = "" THEN "incomplete" ELSE len.err, value |-> "", next |-> pos]
  ELSE [err |-> "", value |-> IF len.value = 0 THEN "" ELSE buf[len.next].t,
        next |-> len.next + len.value]
-----------------------------------------------------------------------------
(* HpackEncoder and HpackDecoder.                                            *)

\* One header: [table, wire] with the next.
EncodeHeader(st, f) ==
  LET found == FindInTables(f, Numbered(st.table)) IN
  IF found.full THEN [st EXCEPT !.wire = @ \o EncodeInteger("indexed", found.index)]
  ELSE [table |-> Insert(st.table, f),
        wire |-> st.wire \o EncodeInteger("incremental", found.index)
                   \o (IF found.index = 0 THEN EncodeString("string", f.name) ELSE <<>>)
                   \o EncodeString("string", f.value)]

EncodeBlock(table, headers) ==
  FoldLeft(EncodeHeader, [table |-> table, wire |-> <<>>], headers)

\* The name and the value of a literal: by index or in full.
DecodeLiteral(buf, index, all) ==
  LET name == IF index.value = 0 THEN DecodeString(buf, index.next)
              ELSE IF index.value \notin DOMAIN all THEN [err |-> "index", value |-> "", next |-> 0]
              ELSE [err |-> "", value |-> all[index.value].name, next |-> index.next]
      value == DecodeString(buf, name.next)
  IN [err |-> IF name.err # "" THEN name.err ELSE value.err, next |-> value.next,
      field |-> [name |-> name.value, value |-> value.value]]

\* One representation at pos.
DecodeStep(d, buf) ==
  LET op == buf[d.pos].op
      index == DecodeInteger(buf, d.pos)
      all == Numbered(d.table)
      literal == DecodeLiteral(buf, index, all)
      fail(err) == [d EXCEPT !.err = err]
  IN IF index.err # "" THEN fail(index.err)
     ELSE IF op = "indexed" THEN
       IF index.value \notin DOMAIN all THEN fail("index")
       ELSE [d EXCEPT !.pos = index.next, !.headers = Append(@, all[index.value])]
     ELSE IF op = "resize" THEN [d EXCEPT !.pos = index.next, !.table = SetMaxSize(@, index.value)]
     ELSE IF literal.err # "" THEN fail(literal.err)
     ELSE [d EXCEPT !.pos = literal.next, !.headers = Append(@, literal.field),
                    !.table = IF op = "incremental" THEN Insert(@, literal.field) ELSE @]

RECURSIVE DecodeLoop(_, _)
DecodeLoop(d, buf) ==
  IF d.err # "" \/ d.pos > Len(buf) THEN d ELSE DecodeLoop(DecodeStep(d, buf), buf)

DecodeBlock(table, buf) ==
  DecodeLoop([pos |-> 1, table |-> table, headers |-> <<>>, err |-> ""], buf)
-----------------------------------------------------------------------------
(* QPACK: a prefix of two integers, then the static table, counted from 0,   *)
(* or literals.  Its integers and strings are those of HPACK.                *)

FindStatic(f) == FindInTables(f, Static)
EncodeQint(op, v) == EncodeInteger(op, v)
DecodeQint(buf, pos) == DecodeInteger(buf, pos)

QEncodeHeader(wire, f) ==
  LET found == FindStatic(f) IN
  wire \o (IF found.full THEN EncodeQint("qindexed", found.index - 1)
           ELSE IF found.index > 0
             THEN EncodeQint("qreference", found.index - 1) \o EncodeString("string", f.value)
           ELSE EncodeString("qname", f.name) \o EncodeString("string", f.value))

QEncode(headers) ==
  FoldLeft(QEncodeHeader, EncodeQint("insert_count", 0) \o EncodeQint("base", 0), headers)

QDecodeStep(d, buf) ==
  LET op == buf[d.pos].op
      index == DecodeQint(buf, d.pos)
      name == CASE op = "qname" -> DecodeString(buf, d.pos)
                [] op # "qname" /\ index.err # "" -> [err |-> index.err, value |-> "", next |-> 0]
                [] op # "qname" /\ index.err = "" /\ index.value + 1 \notin DOMAIN Static ->
                     [err |-> "index", value |-> "", next |-> 0]
                [] OTHER -> [err |-> "", value |-> Static[index.value + 1].name, next |-> index.next]
      value == IF op = "qindexed" /\ name.err = ""
               THEN [err |-> "", value |-> Static[index.value + 1].value, next |-> index.next]
               ELSE DecodeString(buf, name.next)
  IN IF name.err # "" \/ value.err # ""
     THEN [d EXCEPT !.err = IF name.err # "" THEN name.err ELSE value.err]
     ELSE [d EXCEPT !.pos = value.next,
                    !.headers = Append(@, [name |-> name.value, value |-> value.value])]

RECURSIVE QDecodeLoop(_, _)
QDecodeLoop(d, buf) ==
  IF d.err # "" \/ d.pos > Len(buf) THEN d ELSE QDecodeLoop(QDecodeStep(d, buf), buf)

QDecode(buf) ==
  LET count == DecodeQint(buf, 1) base == DecodeQint(buf, count.next)
      fresh == [pos |-> base.next, headers |-> <<>>, err |-> ""]
  IN IF count.err # "" \/ base.err # "" THEN [fresh EXCEPT !.err = "incomplete"]
     ELSE IF count.value # 0 THEN [fresh EXCEPT !.err = "dynamic"]
     ELSE QDecodeLoop(fresh, buf)
-----------------------------------------------------------------------------

HpackInit ==
  /\ \E max \in TableSizes : hpEnc = NewTable(max) /\ hpSetting = max
  /\ hpDec = hpEnc /\ hpWire = <<>> /\ hpSent = <<>> /\ hpGot = [headers |-> <<>>, err |-> ""]
  /\ hpAt = "idle" /\ hpBlocks = 0

Send(table, wire, headers) ==
  /\ hpAt = "idle" /\ hpBlocks < MaxBlocks
  /\ hpEnc' = table /\ hpWire' = wire /\ hpSent' = headers
  /\ hpAt' = "flying" /\ hpBlocks' = hpBlocks + 1
  /\ UNCHANGED <<hpDec, hpGot, hpSetting>>

\* HpackEncoder::encode.
Encode(headers) ==
  LET block == EncodeBlock(hpEnc, headers) IN Send(block.table, block.wire, headers)

\* Another encoder may also announce a size and keep a literal out of the table.
PeerResizes(max, headers) ==
  LET block == EncodeBlock(SetMaxSize(hpEnc, max), headers)
  IN Send(block.table, EncodeInteger("resize", max) \o block.wire, headers)

PeerPlain(f) ==
  LET found == FindInTables(f, Numbered(hpEnc))
  IN Send(hpEnc, EncodeInteger("plain", found.index)
                   \o (IF found.index = 0 THEN EncodeString("string", f.name) ELSE <<>>)
                   \o EncodeString("string", f.value), <<f>>)

\* set_max_table_size at both ends, between blocks.
SetMaxTableSize(max) ==
  /\ hpAt = "idle" /\ hpBlocks < MaxBlocks
  /\ hpEnc' = SetMaxSize(hpEnc, max) /\ hpDec' = SetMaxSize(hpDec, max) /\ hpSetting' = max
  /\ UNCHANGED <<hpWire, hpSent, hpGot, hpAt, hpBlocks>>

\* The block is handed over without its last bytes.
Cut(n) ==
  /\ hpAt = "flying" /\ n < Len(hpWire)
  /\ hpWire' = SubSeq(hpWire, 1, n) /\ hpAt' = "cut"
  /\ UNCHANGED <<hpEnc, hpDec, hpSent, hpGot, hpBlocks, hpSetting>>

\* HpackDecoder::decode.
Decode ==
  /\ hpAt \in {"flying", "cut"}
  /\ LET d == DecodeBlock(hpDec, hpWire) IN
       /\ hpDec' = d.table
       /\ hpGot' = [headers |-> IF d.err = "" THEN d.headers ELSE <<>>, err |-> d.err]
  /\ hpAt' = IF hpAt = "cut" THEN "closed" ELSE "idle"
  /\ UNCHANGED <<hpEnc, hpWire, hpSent, hpBlocks, hpSetting>>

HpackNext ==
  \/ Decode
  \/ \E headers \in HeaderLists : Encode(headers)
  \/ \E f \in Fields : PeerPlain(f)
  \/ \E max \in TableSizes : SetMaxTableSize(max) \/ \E f \in Fields : PeerResizes(max, <<f>>)
  \/ \E n \in 0 .. Len(hpWire) : Cut(n)
-----------------------------------------------------------------------------

\* Between two blocks both ends hold the same table, so that an index means the
\* same header to both, through evictions, entries too large for the table and
\* changes of its size; and what was sent is what arrived.
TablesAgree ==
  hpAt = "idle" => hpEnc = hpDec /\ hpGot = [headers |-> hpSent, err |-> ""]

\* The size a table counts is that of its entries, and no more than its limit.
TableSizeExact ==
  \A t \in {hpEnc, hpDec} :
    /\ t.size = FoldLeft(LAMBDA n, f : n + EntrySize(f), 0, t.entries)
    /\ t.size <= t.max

\* A block that was cut short yields headers that were sent or is incomplete:
\* never a header nobody sent, a wrong index or an overflow.
CutIsPrefix ==
  hpAt = "closed" => IsPrefix(hpGot.headers, hpSent) /\ hpGot.err \in {"", "incomplete"}

\* QPACK keeps the same two promises without a table.
QpackKeeps ==
  (hpAt = "flying") =>
    /\ QDecode(QEncode(hpSent)).headers = hpSent /\ QDecode(QEncode(hpSent)).err = ""
    /\ \A n \in 0 .. Len(QEncode(hpSent)) :
         LET d == QDecode(SubSeq(QEncode(hpSent), 1, n))
         IN IsPrefix(d.headers, hpSent) /\ d.err \in {"", "incomplete"}

HpackSound == TablesAgree /\ TableSizeExact /\ CutIsPrefix /\ QpackKeeps

\* Refuted: a decoder keeps the "given maximum dynamic table size".  A size update
\* in a block sets any size, larger ones too.
TableWithinSetting == hpDec.max <= hpSetting

-----------------------------------------------------------------------------
(* The HTTP/2 frame codec, lb-h2/src/frame.rs: frames are written one after  *)
(* another, arrive in pieces of any size, and are decoded from the front of  *)
(* what has arrived.                                                         *)
(*                                                                           *)
(* The unit of a payload is a field: a 32-bit word (PRIORITY's weight and a  *)
(* setting's number are one too) or a byte of a block.  A word is its low    *)
(* part and its top bit, which most words reserve.                           *)

CONSTANTS
  MaxFrameSize,     \* SETTINGS_MAX_FRAME_SIZE, in units
  MaxFrames         \* bound on the frames

VARIABLES
  fmSent,           \* the frames, as their sender means them
  fmWire,           \* written and not yet arrived
  fmBuf,            \* arrived and not yet decoded
  fmGot,            \* decoded
  fmErr             \* decode_frame failed, other than by Incomplete

frameVars == <<fmSent, fmWire, fmBuf, fmGot, fmErr>>

W(n, high) == [n |-> n, high |-> high]
Masked(w) == [w EXCEPT !.high = FALSE]

\* H2Frame; what a kind of frame does not have is empty.
Frame(kind, stream, flags, words, block) ==
  [kind |-> kind, stream |-> stream, flags |-> flags, words |-> words, block |-> block]

END_STREAM == "0x1"
ACK == "0x1"
END_HEADERS == "0x4"
PADDED == "0x8"
PRIORITY_FLAG == "0x20"

Blocks == {<<>>, <<W(1, FALSE), W(2, FALSE)>>}

\* The frames a caller encodes; an error code may use its top bit.
Frames ==
  LET s == W(1, FALSE) zero == W(0, FALSE) w == W(2, FALSE) code == W(2, TRUE) IN
       {Frame("DATA", s, f, <<>>, b) : f \in SUBSET {END_STREAM}, b \in Blocks}
  \cup {Frame("HEADERS", s, f, <<>>, b) : f \in SUBSET {END_STREAM, END_HEADERS}, b \in Blocks}
  \cup {Frame("PRIORITY", s, {}, <<W(2, exclusive), w>>, <<>>) : exclusive \in BOOLEAN}
  \cup {Frame("RST_STREAM", s, {}, <<code>>, <<>>), Frame("WINDOW_UPDATE", s, {}, <<w>>, <<>>),
        Frame("SETTINGS", zero, {ACK}, <<>>, <<>>), Frame("SETTINGS", zero, {}, <<w, code>>, <<>>)}
  \cup {Frame("PING", zero, f, <<w, code>>, <<>>) : f \in SUBSET {ACK}}
  \cup {Frame("PUSH_PROMISE", s, {}, <<w>>, b) : b \in Blocks}
  \cup {Frame("GOAWAY", zero, {}, <<w, code>>, b) : b \in Blocks}
  \cup {Frame("CONTINUATION", s, f, <<>>, b) : f \in SUBSET {END_HEADERS}, b \in Blocks}
  \cup {Frame("UNKNOWN", s, f, <<>>, b) : f \in SUBSET {PADDED}, b \in Blocks}
-----------------------------------------------------------------------------

\* write_header, then the payload.
Written(kind, flags, stream, payload) ==
  <<[length |-> Len(payload), kind |-> kind, flags |-> flags, stream |-> Masked(stream)]>> \o payload

\* encode_frame_lower: as it stands; PRIORITY's first word has the exclusive bit.
EncodeLower(f) == Written(f.kind, f.flags, f.stream, f.words \o f.block)

\* encode_frame_upper: identifiers and increments lose their top bit.
EncodeUpper(f) ==
  LET masked == IF f.kind \in {"PUSH_PROMISE", "GOAWAY", "WINDOW_UPDATE"}
                THEN [f.words EXCEPT ![1] = Masked(@)] ELSE f.words
  IN Written(f.kind, f.flags, f.stream, masked \o f.block)

EncodeFrame(f) == IF f.kind \in {"DATA", "HEADERS", "PRIORITY", "RST_STREAM", "SETTINGS"}
             THEN EncodeLower(f) ELSE EncodeUpper(f)

\* strip_padding: the first unit counts the padding at the end.
StripPadding(payload) ==
  IF payload = <<>> \/ payload[1].n + 1 > Len(payload) THEN {}
  ELSE {SubSeq(payload, 2, Len(payload) - payload[1].n)}

Take(payload, n) == SubSeq(payload, n + 1, Len(payload))

\* decode_frame_low: DATA, HEADERS, PRIORITY and RST_STREAM; no element is an error.
DecodeLow(kind, flags, stream, payload) ==
  LET inner == IF PADDED \in flags THEN StripPadding(payload) ELSE {payload} IN
  CASE kind = "DATA" -> {Frame(kind, stream, flags \cap {END_STREAM}, <<>>, b) : b \in inner}
    [] kind = "HEADERS" ->
         {Frame(kind, stream, flags \cap {END_STREAM, END_HEADERS}, <<>>,
                IF PRIORITY_FLAG \in flags THEN Take(b, 2) ELSE b)
            : b \in {i \in inner : PRIORITY_FLAG \in flags => Len(i) >= 2}}
    [] kind = "PRIORITY" -> IF Len(payload) = 2 THEN {Frame(kind, stream, {}, payload, <<>>)} ELSE {}
    [] kind = "RST_STREAM" -> IF Len(payload) = 1 THEN {Frame(kind, stream, {}, payload, <<>>)} ELSE {}

\* decode_frame_high: the others.
DecodeHigh(kind, flags, stream, payload) ==
  LET first == Masked(payload[1])
      ok(cond, f) == IF cond THEN {f} ELSE {}
  IN CASE kind = "SETTINGS" ->
            ok((ACK \in flags => payload = <<>>) /\ Len(payload) % 2 = 0,
               Frame(kind, W(0, FALSE), flags \cap {ACK}, payload, <<>>))
       [] kind = "PUSH_PROMISE" ->
            IF payload = <<>> THEN {} ELSE {Frame(kind, stream, {}, <<first>>, Take(payload, 1))}
       [] kind = "PING" ->
            ok(Len(payload) = 2, Frame(kind, W(0, FALSE), flags \cap {ACK}, payload, <<>>))
       [] kind = "GOAWAY" ->
            IF Len(payload) < 2 THEN {}
            ELSE {Frame(kind, W(0, FALSE), {}, <<first, payload[2]>>, Take(payload, 2))}
       [] kind = "WINDOW_UPDATE" ->
            IF Len(payload) # 1 THEN {} ELSE {Frame(kind, stream, {}, <<first>>, <<>>)}
       [] kind = "CONTINUATION" -> {Frame(kind, stream, flags \cap {END_HEADERS}, <<>>, payload)}
       [] OTHER -> {Frame(kind, stream, flags, <<>>, payload)}

\* decode_frame: the header first, then the limit, then the rest.
DecodeFrame(buf) ==
  LET head == buf[1]
      payload == SubSeq(buf, 2, head.length + 1)
      frame == IF head.kind \in {"DATA", "HEADERS", "PRIORITY", "RST_STREAM"}
               THEN DecodeLow(head.kind, head.flags, Masked(head.stream), payload)
               ELSE DecodeHigh(head.kind, head.flags, Masked(head.stream), payload)
      result(err, frames, used) == [err |-> err, frames |-> frames, used |-> used]
  IN IF buf = <<>> THEN result("incomplete", {}, 0)
     ELSE IF head.length > MaxFrameSize THEN result("too large", {}, 0)
     ELSE IF Len(buf) < 1 + head.length THEN result("incomplete", {}, 0)
     ELSE result(IF frame = {} THEN "invalid" ELSE "", frame, 1 + head.length)
-----------------------------------------------------------------------------

FrameInit == fmSent = <<>> /\ fmWire = <<>> /\ fmBuf = <<>> /\ fmGot = <<>> /\ fmErr = ""

Write(meant, units) ==
  /\ Len(fmSent) < MaxFrames
  /\ fmSent' = Append(fmSent, meant) /\ fmWire' = fmWire \o units
  /\ UNCHANGED <<fmBuf, fmGot, fmErr>>

SendFrame(f) == Write(f, EncodeFrame(f))

\* Another endpoint may pad, may prefix a priority, and may set reserved bits.
Pad(n, payload) == <<W(n, FALSE)>> \o payload \o [i \in 1 .. n |-> W(0, FALSE)]

PeerFrame(f, n, priority) ==
  LET inner == (IF priority THEN <<W(1, TRUE), W(3, FALSE)>> ELSE <<>>) \o f.block
      flags == f.flags \cup {PADDED} \cup (IF priority THEN {PRIORITY_FLAG} ELSE {})
  IN /\ f.kind \in (IF priority THEN {"HEADERS"} ELSE {"DATA", "HEADERS"})
     /\ Write(f, <<[length |-> n + 1 + Len(inner), kind |-> f.kind, flags |-> flags,
                    stream |-> [f.stream EXCEPT !.high = TRUE]]>> \o Pad(n, inner))

Arrive(n) ==
  /\ n <= Len(fmWire)
  /\ fmBuf' = fmBuf \o SubSeq(fmWire, 1, n) /\ fmWire' = Take(fmWire, n)
  /\ UNCHANGED <<fmSent, fmGot, fmErr>>

\* The caller's loop: decode, and drop what was consumed.
DecodeNext ==
  /\ fmErr = "" /\ fmBuf # <<>>
  /\ LET d == DecodeFrame(fmBuf) IN
       /\ d.err # "incomplete"
       /\ fmErr' = d.err
       /\ fmGot' = IF d.err = "" THEN Append(fmGot, CHOOSE f \in d.frames : TRUE) ELSE fmGot
       /\ fmBuf' = Take(fmBuf, d.used)
  /\ UNCHANGED <<fmSent, fmWire>>

FrameNext ==
  \/ DecodeNext
  \/ \E n \in 1 .. Len(fmWire) : Arrive(n)
  \/ \E f \in Frames : SendFrame(f) \/ \E n \in 0 .. 1, p \in BOOLEAN : PeerFrame(f, n, p)
-----------------------------------------------------------------------------

\* What is decoded is what was sent, in order, however the wire was cut, padded
\* or decorated; a frame is refused only for its size, and nothing is left over.
FramesArrive ==
  /\ IsPrefix(fmGot, fmSent)
  /\ fmErr \in {"", "too large"}
  /\ fmErr = "too large" =>
       \E f \in {fmSent[Len(fmGot) + 1]} : Len(f.words \o f.block) + 4 > MaxFrameSize
  /\ (fmErr = "" /\ fmWire = <<>> /\ Len(fmGot) = Len(fmSent)) => fmBuf = <<>>

\* A frame that is there in full is decoded or refused at once: the decoder never
\* waits for the next frame.
NeverWaitsForMore ==
  (fmErr = "" /\ fmBuf # <<>> /\ fmWire = <<>>) => DecodeFrame(fmBuf).err # "incomplete"

FramesSound == FramesArrive /\ NeverWaitsForMore

\* Refuted: FLAG_PADDED is said to cover "PUSH_PROMISE", whose padding stays in
\* the header block.
PushPaddingStripped ==
  LET wire == Written("PUSH_PROMISE", {PADDED}, W(1, FALSE), Pad(1, <<W(2, FALSE), W(1, FALSE)>>))
  IN \A f \in DecodeFrame(wire).frames : f.block = <<W(1, FALSE)>>
=============================================================================
