------------------------------ MODULE Envelope ------------------------------
(***************************************************************************)
(* The frames of the protocol (envelope.py) and the chunks content is cut  *)
(* into (chunking.py).  Flags and counters are numbers packed into bytes   *)
(* as the code packs them; a path or a payload is a sequence of bytes; a   *)
(* checksum is one value that takes four bytes; a key prefix is an atom    *)
(* that takes six.  A field a frame does not carry is <<>>, 0 or FALSE     *)
(* where the code has None; a response's checksum is <<>> or <<value>>.    *)
(***************************************************************************)
EXTENDS Integers, Sequences

CONSTANT MaxSafe    \* MAX_SAFE_PAYLOAD

REQ_FIXED_LEN == 11
POST_HEADER_LEN == 6
RESP_FIXED_LEN == 6
RESP_FIRST_EXTRA_LEN == 3
CRC_LEN == 4

\* chunking.py refuses to load when a chunk has no room; that the header of a
\* post has room too, which takes a little more, is not looked at there.
ASSUME RoomForAChunk ==
    MaxSafe \in Nat /\ MaxSafe > REQ_FIXED_LEN + POST_HEADER_LEN

CONTINUE == 3
POST == 4
Subcommands == 0 .. 4
Statuses == 0 .. 6
REQUEST == 0
RESPONSE == 1

\* Two bytes hold fewer.
Word == 256 * 256

Bit(b) == IF b THEN 1 ELSE 0
IsSet(byte, weight) == (byte \div weight) % 2 = 1

-----------------------------------------------------------------------------
(* The ctrl byte: marker, version, message type, dictionary *)

Ctrl(type, dict) == 64 + 16 + 8 * (type % 2) + (dict % 8)
IsFrameOf(ctrl, type) ==
    /\ (ctrl \div 64) % 4 = 1
    /\ (ctrl \div 16) % 4 = 1
    /\ (ctrl \div 8) % 2 = type
DictOf(ctrl) == ctrl % 8

-----------------------------------------------------------------------------
(* Requests *)

\* Variant: the attempt is not on the wire.
FlagsWithoutAttempt(r) == (r.sub % 8) + 8 * Bit(r.prefer) + 16 * Bit(r.upload)

RequestFlags(r) ==
    (r.sub % 8) + 8 * Bit(r.prefer) + 16 * Bit(r.upload) + 32 * (r.attempt % 8)

EncodeRequest(r) ==
    LET first == r.sub = POST /\ r.chunk = 0
    IN  [ctrl |-> Ctrl(REQUEST, r.dict), rid |-> r.rid % Word,
         prefix |-> r.prefix, flags |-> RequestFlags(r), chunk |-> r.chunk % 256,
         head |-> IF first THEN <<r.total % 256, r.checksum, Len(r.path)>> ELSE <<>>,
         rest |-> IF r.sub = CONTINUE THEN <<r.token % 256>>
                  ELSE IF first THEN r.path \o r.payload
                  ELSE IF r.sub = POST THEN r.payload
                  ELSE r.path]

RequestSize(f) ==
    REQ_FIXED_LEN + (IF f.head = <<>> THEN 0 ELSE POST_HEADER_LEN) + Len(f.rest)

\* What encode refuses: a long destination, a frame too large for the radio.
RequestEncodes(r) ==
    /\ r.sub = POST /\ r.chunk = 0 => Len(r.path) <= 255
    /\ RequestSize(EncodeRequest(r)) <= MaxSafe

DecodeRequest(f) ==
    LET sub == f.flags % 8
        first == sub = POST /\ f.chunk = 0
        n == IF first THEN f.head[3] ELSE 0
    IN  [rid |-> f.rid, prefix |-> f.prefix, sub |-> sub, chunk |-> f.chunk,
         dict |-> DictOf(f.ctrl), attempt |-> (f.flags \div 32) % 8,
         prefer |-> IsSet(f.flags, 8),
         upload |-> sub = POST /\ IsSet(f.flags, 16),
         token |-> IF sub = CONTINUE THEN f.rest[1] ELSE 0,
         path |-> IF first THEN SubSeq(f.rest, 1, n)
                  ELSE IF sub \in {POST, CONTINUE} THEN <<>> ELSE f.rest,
         total |-> IF first THEN f.head[1] ELSE 0,
         checksum |-> IF first THEN f.head[2] ELSE 0,
         payload |-> IF sub = POST THEN SubSeq(f.rest, n + 1, Len(f.rest)) ELSE <<>>]

\* Requests whose fields fit their width, as the client makes them; a byte of
\* a path or a payload may be any number, so that bytes can be told apart.
Byte == 0 .. 255
Request ==
    [rid : 0 .. Word - 1, prefix : Nat, sub : Subcommands, chunk : Byte, dict : 0 .. 7,
     attempt : Nat, prefer : BOOLEAN, upload : BOOLEAN, token : Byte,
     path : Seq(Nat), total : Byte, checksum : Nat, payload : Seq(Nat)]

\* The fields of a request its subcommand has on the wire; of the attempt,
\* three bits.
OnWire(r) ==
    LET first == r.sub = POST /\ r.chunk = 0
    IN  [rid |-> r.rid, prefix |-> r.prefix, sub |-> r.sub, chunk |-> r.chunk,
         dict |-> r.dict, attempt |-> r.attempt % 8, prefer |-> r.prefer,
         upload |-> r.sub = POST /\ r.upload,
         token |-> IF r.sub = CONTINUE THEN r.token ELSE 0,
         path |-> IF r.sub = CONTINUE \/ (r.sub = POST /\ ~first)
                  THEN <<>> ELSE r.path,
         total |-> IF first THEN r.total ELSE 0,
         checksum |-> IF first THEN r.checksum ELSE 0,
         payload |-> IF r.sub = POST THEN r.payload ELSE <<>>]

-----------------------------------------------------------------------------
(* Responses *)

\* Only a final response has a checksum, and not every one.
Crc(r) == IF r.final THEN r.checksum ELSE <<>>

\* Variant: the first chunk does not say so.
FlagsWithoutFirst(r) ==
    (r.status % 8) + 8 * Bit(r.compressed) + 16 * Bit(r.final) + 32 * Len(Crc(r))

ResponseFlags(r) ==
    (r.status % 8) + 8 * Bit(r.compressed) + 16 * Bit(r.final)
      + 32 * Len(Crc(r)) + 64 * Bit(r.chunk = 0)

EncodeResponse(r) ==
    [ctrl |-> Ctrl(RESPONSE, r.dict), rid |-> r.rid % Word,
     flags |-> ResponseFlags(r), chunk |-> r.chunk % 256, token |-> r.token % 256,
     rest |-> (IF r.chunk = 0 THEN <<r.size % Word, r.total % 256>> ELSE <<>>)
              \o r.payload \o Crc(r)]

ResponseSize(r) ==
    RESP_FIXED_LEN + (IF r.chunk = 0 THEN RESP_FIRST_EXTRA_LEN ELSE 0)
      + Len(r.payload) + CRC_LEN * Len(Crc(r))

ResponseEncodes(r) ==
    /\ r.chunk = 0 => r.total <= 255 /\ r.size < Word
    /\ ResponseSize(r) <= MaxSafe

\* The checksum is taken off the end first, then the size off the front.
DecodeResponse(f) ==
    LET final == IsSet(f.flags, 16)
        crc == final /\ IsSet(f.flags, 32)
        first == IsSet(f.flags, 64)
        body == IF crc THEN SubSeq(f.rest, 1, Len(f.rest) - 1) ELSE f.rest
    IN  [rid |-> f.rid, status |-> f.flags % 8, chunk |-> f.chunk, token |-> f.token,
         dict |-> DictOf(f.ctrl), compressed |-> IsSet(f.flags, 8), final |-> final,
         checksum |-> IF crc THEN <<f.rest[Len(f.rest)]>> ELSE <<>>,
         size |-> IF first THEN body[1] ELSE 0,
         total |-> IF first THEN body[2] ELSE 0,
         payload |-> IF first THEN SubSeq(body, 3, Len(body)) ELSE body]

-----------------------------------------------------------------------------
(* Chunks *)

Least(a, b) == IF a < b THEN a ELSE b
CeilDiv(a, b) == (a + b - 1) \div b

\* Every chunk could be the first and the last one at once.
MAX_CHUNK_PAYLOAD ==
    MaxSafe - (RESP_FIXED_LEN + RESP_FIRST_EXTRA_LEN + CRC_LEN)

\* split: empty content is one empty chunk.
Chunks(data, k) == IF data = <<>> THEN 1 ELSE CeilDiv(Len(data), k)
Split(data, k) ==
    [i \in 1 .. Chunks(data, k) |->
       SubSeq(data, (i - 1) * k + 1, Least(i * k, Len(data)))]

\* Variant: the length of the path is not part of the header.
RoomyFirst(dest) == MaxSafe - (REQ_FIXED_LEN + POST_HEADER_LEN - 1 + Len(dest))

\* post: the first frame also has the header and the destination.
FirstRoom(dest) == MaxSafe - (REQ_FIXED_LEN + POST_HEADER_LEN + Len(dest))
RestRoom == MaxSafe - REQ_FIXED_LEN

\* The slices of a post: what fits beside the header, then full frames.
PostSlices(data, dest) ==
    LET k == FirstRoom(dest)
        tail == SubSeq(data, k + 1, Len(data))
    IN  <<SubSeq(data, 1, Least(k, Len(data)))>>
          \o (IF tail = <<>> THEN <<>> ELSE Split(tail, RestRoom))
=============================================================================
