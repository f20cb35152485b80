---------------------------- MODULE ReplyFrames -----------------------------
(***************************************************************************)
(* The frames of one reply: the server cuts the content into chunks and    *)
(* encodes each (_send_chunk), the client decodes them and puts the        *)
(* content together.  Which chunk is asked for when, and of which          *)
(* transfer, is the business of Fetch.                                     *)
(***************************************************************************)
EXTENDS Envelope, Compression, SequencesExt

CONSTANTS
    MaxTotal,   \* MAX_TOTAL_CHUNKS
    MaxSize     \* MAX_UNCOMPRESSED_SIZE

\* One byte and two bytes of the first frame.
ASSUME ReplyConstants == MaxTotal \in 0 .. 255 /\ MaxSize \in 0 .. Word - 1

VARIABLES
    content, size,      \* the bytes to be sent; how many the page has
    compressed,         \* they are compressed
    ours, peer,         \* the dictionaries of the server and of the client
    status,             \* of the answer: 0 is OK
    last,               \* the response sent last
    got                 \* the responses the client decoded, in order

answer == <<content, size, compressed, ours, peer, status>>
replyVars == <<content, size, compressed, ours, peer, status, last, got>>

OK == 0
Nothing == [chunk |-> 0]

Pieces == Split(content, MAX_CHUNK_PAYLOAD)
Bytes(l) == [i \in 1 .. l |-> i]

\* Compression is used when it saves a chunk.
Saves(l, u) ==
    Chunks(Bytes(l), MAX_CHUNK_PAYLOAD) < Chunks(Bytes(u), MAX_CHUNK_PAYLOAD)

\* Content the header cannot describe is refused.
TooLarge(l, u) ==
    u > MaxSize \/ Chunks(Bytes(l), MAX_CHUNK_PAYLOAD) > MaxTotal

\* Which dictionaries the two ends have matters to a compressed page only; the
\* client names its own in every request.
Page(l, u) ==
    /\ ~TooLarge(l, u)
    /\ status = OK /\ content = Bytes(l) /\ size = u
    /\ \/ l = u /\ compressed = FALSE /\ ours = DICT_NONE /\ peer = DICT_NONE
       \/ Saves(l, u) /\ compressed = TRUE /\ ours \in Dicts /\ peer \in Dicts

Refusal ==
    /\ status \in Statuses \ {OK} /\ content = <<>> /\ size = 0
    /\ compressed = FALSE /\ ours = DICT_NONE /\ peer = DICT_NONE

ReplyInit ==
    /\ Refusal \/ \E l, u \in 0 .. MaxSize + 1 : Page(l, u)
    /\ last = Nothing /\ got = <<>>

\* The dictionary it was compressed with.
dict == IF compressed THEN DictFor(ours, peer) ELSE DICT_NONE

\* A reply of one chunk has no token.
Response(n) ==
    [rid |-> 1, status |-> status, chunk |-> n,
     token |-> IF Len(Pieces) = 1 THEN 0 ELSE 1, dict |-> dict,
     compressed |-> compressed, final |-> n = Len(Pieces) - 1,
     checksum |-> IF n = Len(Pieces) - 1 /\ status = OK THEN <<7>> ELSE <<>>,
     size |-> IF n = 0 THEN size ELSE 0,
     total |-> IF n = 0 THEN Len(Pieces) ELSE 0, payload |-> Pieces[n + 1]]

\* The next chunk is encoded and sent, and decoded by the client.
Deliver ==
    /\ Len(got) < Len(Pieces)
    /\ last' = Response(Len(got))
    /\ got' = Append(got, DecodeResponse(EncodeResponse(last')))
    /\ UNCHANGED answer

ReplyNext == Deliver

ReplySpec == ReplyInit /\ [][ReplyNext]_replyVars

-----------------------------------------------------------------------------
(* Properties *)

\* Every chunk fits the radio, as the first, the last, both or neither.
EveryChunkEncodes == last # Nothing => ResponseEncodes(last)

\* The client reads what the server wrote, whatever the flags around it.
ReadAsWritten == last # Nothing => got[Len(got)] = last

\* compress.py, "a mismatch costs compression ratio" and no more: whatever
\* dictionaries the two builds came with, the client can open what it reads.
RepliesOpen == last # Nothing => Decompresses(got[Len(got)].dict, peer)

\* The chunks make the content, and only the last one says it is final.
ContentArrivesWhole ==
    Len(got) = Len(Pieces) =>
      /\ FlattenSeq([i \in DOMAIN got |-> got[i].payload]) = content
      /\ got[1].total = Len(got)
      /\ \A i \in DOMAIN got : got[i].final <=> i = Len(got)
=============================================================================
