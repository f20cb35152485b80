---------------------------- MODULE Frames_proofs ----------------------------
(***************************************************************************)
(* What the frames and the chunks do for fields and contents of any value: *)
(* the flags that share a byte are read back one by one, the optional      *)
(* fields are found, and every chunk and every slice fits the radio.       *)
(* A post of any length to a destination of any length: retries that are   *)
(* near each other differ on the wire.  A reply of any length, for any     *)
(* radio and any limits of the header: the client reads what the server    *)
(* wrote.  What is cut into slices or chunks is put together again.  Each  *)
(* half moves as its own module says, so what is proved of the frames of a *)
(* post and of those of a reply holds of both together.                    *)
(***************************************************************************)
EXTENDS Frames, SequenceTheorems, NaturalsInduction, WellFoundedInduction, TLAPS

-----------------------------------------------------------------------------
(* Bytes shared by several fields *)

\* A flag is one bit of its byte.
LEMMA BitIsOneBit == \A b \in BOOLEAN : Bit(b) \in {0, 1} /\ (b <=> Bit(b) = 1)
  BY DEF Bit

\* Status, compressed, final, checksum and first chunk come back out of the
\* status byte of a response.
LEMMA ResponseFlagsReadBack ==
    ASSUME NEW s \in 0 .. 7, NEW c \in {0, 1}, NEW f \in {0, 1},
           NEW k \in {0, 1}, NEW b \in {0, 1}
    PROVE  \A flags : flags = s + 8 * c + 16 * f + 32 * k + 64 * b =>
               /\ flags \in 0 .. 127
               /\ flags % 8 = s
               /\ (flags \div 8) % 2 = c
               /\ (flags \div 16) % 2 = f
               /\ (flags \div 32) % 2 = k
               /\ (flags \div 64) % 2 = b
  OBVIOUS

\* Subcommand, both compression flags and three bits of the attempt come back
\* out of the subcommand byte of a request.
LEMMA RequestFlagsReadBack ==
    ASSUME NEW s \in 0 .. 7, NEW p \in {0, 1}, NEW u \in {0, 1},
           NEW a \in 0 .. 7
    PROVE  \A flags : flags = s + 8 * p + 16 * u + 32 * a =>
               /\ flags \in 0 .. 255
               /\ flags % 8 = s
               /\ (flags \div 8) % 2 = p
               /\ (flags \div 16) % 2 = u
               /\ (flags \div 32) % 8 = a
  OBVIOUS

\* A field that fits its width is written as it is.
LEMMA FieldFits ==
    ASSUME NEW w \in Nat \ {0}, NEW v \in 0 .. w - 1
    PROVE  v % w = v
  OBVIOUS

LEMMA WordIsWide == Word \in Nat /\ Word > 256
  BY DEF Word

\* A frame is taken for what it is, request or response, and its dictionary
\* comes back out of the ctrl byte.
LEMMA CtrlReadBack ==
    ASSUME NEW type \in {REQUEST, RESPONSE}, NEW id \in 0 .. 7
    PROVE  /\ Ctrl(type, id) \in 0 .. 255
           /\ DictOf(Ctrl(type, id)) = id
           /\ \A t \in {REQUEST, RESPONSE} :
                IsFrameOf(Ctrl(type, id), t) <=> t = type
  BY DEF Ctrl, DictOf, IsFrameOf, REQUEST, RESPONSE

\* Within eight attempts no two leave the same three bits.
LEMMA AttemptsDiffer ==
    \A a, b \in Nat : a < b /\ b < a + 8 => a % 8 # b % 8
  OBVIOUS

-----------------------------------------------------------------------------
(* Parts of sequences *)

\* What was put in front and what was put behind can be taken off again.
LEMMA TakeApart ==
    ASSUME NEW S, NEW s \in Seq(S), NEW t \in Seq(S)
    PROVE  /\ SubSeq(s \o t, 1, Len(s)) = s
           /\ SubSeq(s \o t, Len(s) + 1, Len(s \o t)) = t
<1>1. /\ s \o t \in Seq(S)
      /\ Len(s \o t) = Len(s) + Len(t)
      /\ \A i \in 1 .. Len(s) + Len(t) :
           (s \o t)[i] = IF i <= Len(s) THEN s[i] ELSE t[i - Len(s)]
  BY ConcatProperties
<1>2. Len(s) \in Nat /\ Len(t) \in Nat
  BY LenProperties
<1>3. \A i \in 1 .. Len(s) + Len(t) : (s \o t)[i] \in S
  BY <1>1, <1>2, ElementOfSeq
<1>4. SubSeq(s \o t, 1, Len(s)) = s
  <2>1. /\ SubSeq(s \o t, 1, Len(s)) \in Seq(S)
        /\ Len(SubSeq(s \o t, 1, Len(s))) = Len(s)
        /\ \A i \in 1 .. Len(s) : SubSeq(s \o t, 1, Len(s))[i] = (s \o t)[i]
    <3>1. \A i \in 1 .. Len(s) : (s \o t)[i] \in S
      BY <1>2, <1>3
    <3>2. /\ SubSeq(s \o t, 1, Len(s)) \in Seq(S)
          /\ Len(SubSeq(s \o t, 1, Len(s)))
               = IF 1 <= Len(s) THEN Len(s) - 1 + 1 ELSE 0
          /\ \A i \in 1 .. Len(s) - 1 + 1 :
               SubSeq(s \o t, 1, Len(s))[i] = (s \o t)[1 + i - 1]
      BY <1>2, <3>1, SubSeqProperties
    <3>3. QED
      BY <1>2, <3>2
  <2>2. \A i \in 1 .. Len(s) : SubSeq(s \o t, 1, Len(s))[i] = s[i]
    BY <1>1, <1>2, <2>1
  <2>3. QED
    BY <2>1, <2>2, SeqEqual
<1>5. SubSeq(s \o t, Len(s) + 1, Len(s \o t)) = t
  <2>1. /\ SubSeq(s \o t, Len(s) + 1, Len(s \o t)) \in Seq(S)
        /\ Len(SubSeq(s \o t, Len(s) + 1, Len(s \o t))) = Len(t)
        /\ \A i \in 1 .. Len(t) :
             SubSeq(s \o t, Len(s) + 1, Len(s \o t))[i] = (s \o t)[Len(s) + i]
    <3>1. \A i \in Len(s) + 1 .. Len(s \o t) : (s \o t)[i] \in S
      BY <1>1, <1>2, <1>3
    <3>2. Len(s) + 1 \in Int /\ Len(s \o t) \in Int
      BY <1>1, <1>2
    <3>3. /\ SubSeq(s \o t, Len(s) + 1, Len(s \o t)) \in Seq(S)
          /\ Len(SubSeq(s \o t, Len(s) + 1, Len(s \o t)))
               = IF Len(s) + 1 <= Len(s \o t)
                 THEN Len(s \o t) - (Len(s) + 1) + 1 ELSE 0
          /\ \A i \in 1 .. Len(s \o t) - (Len(s) + 1) + 1 :
               SubSeq(s \o t, Len(s) + 1, Len(s \o t))[i]
                 = (s \o t)[Len(s) + 1 + i - 1]
      BY <3>1, <3>2, SubSeqProperties
    <3>4. QED
      BY <1>1, <1>2, <3>3
  <2>2. \A i \in 1 .. Len(t) :
          SubSeq(s \o t, Len(s) + 1, Len(s \o t))[i] = t[i]
    BY <1>1, <1>2, <2>1
  <2>3. QED
    BY <2>1, <2>2, SeqEqual
<1>6. QED
  BY <1>4, <1>5

-----------------------------------------------------------------------------
(* Responses *)

\* The responses the server makes: at most one checksum, in the final chunk;
\* the size and the number of chunks in the first one.
Responses ==
    [rid : 0 .. Word - 1, status : 0 .. 7, chunk : 0 .. 255, token : 0 .. 255,
     dict : 0 .. 7, compressed : BOOLEAN, final : BOOLEAN, checksum : Seq(Nat),
     size : 0 .. Word - 1, total : 0 .. 255, payload : Seq(Nat)]
WellFormed(r) ==
    /\ r.chunk # 0 => r.size = 0 /\ r.total = 0
    /\ Len(r.checksum) \in {0, 1}
    /\ ~r.final => r.checksum = <<>>

\* The flags of a response are those of its fields.
LEMMA ResponseFlagsAreRead ==
    ASSUME NEW r \in Responses, WellFormed(r)
    PROVE  LET flags == ResponseFlags(r)
           IN  /\ flags % 8 = r.status
               /\ IsSet(flags, 8) <=> r.compressed
               /\ IsSet(flags, 16) <=> r.final
               /\ IsSet(flags, 32) <=> r.checksum # <<>>
               /\ IsSet(flags, 64) <=> r.chunk = 0
<1>1. /\ r.status \in 0 .. 7 /\ r.compressed \in BOOLEAN
      /\ r.final \in BOOLEAN /\ r.chunk \in 0 .. 255 /\ r.checksum \in Seq(Nat)
  BY DEF Responses
<1>2. Crc(r) = r.checksum
  BY DEF WellFormed, Crc
<1>3. /\ Len(r.checksum) \in {0, 1}
      /\ r.checksum # <<>> => Len(r.checksum) = 1
      /\ r.checksum = <<>> => Len(r.checksum) = 0
  <2>1. Len(<<>>) = 0 /\ \A q \in Seq(Nat) : q # <<>> => Len(q) \in Nat \ {0}
    BY EmptySeq
  <2>2. Len(r.checksum) \in {0, 1}
    BY DEF WellFormed
  <2>3. QED
    BY <1>1, <2>1, <2>2
<1>4. /\ Bit(r.compressed) \in {0, 1} /\ (r.compressed <=> Bit(r.compressed) = 1)
      /\ Bit(r.final) \in {0, 1} /\ (r.final <=> Bit(r.final) = 1)
      /\ Bit(r.chunk = 0) \in {0, 1} /\ (r.chunk = 0 <=> Bit(r.chunk = 0) = 1)
  BY <1>1, BitIsOneBit
<1>5. ResponseFlags(r) = r.status + 8 * Bit(r.compressed) + 16 * Bit(r.final)
                           + 32 * Len(r.checksum) + 64 * Bit(r.chunk = 0)
  BY <1>1, <1>2 DEF ResponseFlags
<1> DEFINE flags == ResponseFlags(r)
           s == r.status
           c == Bit(r.compressed)
           f == Bit(r.final)
           k == Len(r.checksum)
           b == Bit(r.chunk = 0)
<1>6. c \in {0, 1} /\ f \in {0, 1} /\ k \in {0, 1} /\ b \in {0, 1}
  BY <1>3, <1>4
<1>7. s \in 0 .. 7 /\ flags = s + 8 * c + 16 * f + 32 * k + 64 * b
  BY <1>1, <1>5
<1>8. /\ r.compressed <=> c = 1
      /\ r.final <=> f = 1
      /\ r.checksum # <<>> <=> k = 1
      /\ r.chunk = 0 <=> b = 1
  BY <1>3, <1>4
<1> HIDE DEF flags, s, c, f, k, b
<1>9. /\ flags % 8 = s
      /\ (flags \div 8) % 2 = c
      /\ (flags \div 16) % 2 = f
      /\ (flags \div 32) % 2 = k
      /\ (flags \div 64) % 2 = b
  BY <1>6, <1>7, ResponseFlagsReadBack
<1>10. /\ IsSet(flags, 8) <=> c = 1
       /\ IsSet(flags, 16) <=> f = 1
       /\ IsSet(flags, 32) <=> k = 1
       /\ IsSet(flags, 64) <=> b = 1
  BY <1>9 DEF IsSet
<1>11. QED
  BY <1>8, <1>9, <1>10 DEF flags, s

\* The client reads a response as the server wrote it, whichever optional
\* fields it carries.
THEOREM ResponseReadAsWritten ==
    ASSUME NEW r \in Responses, WellFormed(r)
    PROVE  DecodeResponse(EncodeResponse(r)) = r
<1> DEFINE head == IF r.chunk = 0 THEN <<r.size, r.total>> ELSE <<>>
           rest == head \o r.payload \o r.checksum
           body == head \o r.payload
<1>1. /\ r.rid \in 0 .. Word - 1 /\ r.chunk \in 0 .. 255 /\ r.token \in 0 .. 255
      /\ r.size \in 0 .. Word - 1 /\ r.total \in 0 .. 255 /\ r.dict \in 0 .. 7
      /\ r.payload \in Seq(Nat)
      /\ r.compressed \in BOOLEAN /\ r.final \in BOOLEAN
      /\ r.checksum \in Seq(Nat) /\ Len(r.checksum) \in {0, 1}
      /\ r.chunk # 0 => r.size = 0 /\ r.total = 0
      /\ ~r.final => r.checksum = <<>>
  BY DEF Responses, WellFormed
<1>2. /\ r.rid % Word = r.rid /\ r.chunk % 256 = r.chunk
      /\ r.token % 256 = r.token /\ r.size % Word = r.size
      /\ r.total % 256 = r.total
  <2>1. Word \in Nat \ {0}
    BY WordIsWide
  <2>2. r.rid % Word = r.rid
    BY <1>1, <2>1, FieldFits
  <2>3. r.size % Word = r.size
    BY <1>1, <2>1, FieldFits
  <2>4. r.chunk % 256 = r.chunk /\ r.token % 256 = r.token
        /\ r.total % 256 = r.total
    <3>1. r.chunk \in 0 .. 255 /\ r.token \in 0 .. 255 /\ r.total \in 0 .. 255
      BY <1>1
    <3>2. QED
      BY <3>1
  <2>5. QED
    BY <2>2, <2>3, <2>4
<1>3. Crc(r) = r.checksum
  BY <1>1 DEF Crc
<1>4. EncodeResponse(r) =
        [ctrl |-> Ctrl(RESPONSE, r.dict), rid |-> r.rid,
         flags |-> ResponseFlags(r), chunk |-> r.chunk, token |-> r.token,
         rest |-> rest]
  BY <1>2, <1>3 DEF EncodeResponse
<1>5. /\ ResponseFlags(r) % 8 = r.status
      /\ IsSet(ResponseFlags(r), 8) <=> r.compressed
      /\ IsSet(ResponseFlags(r), 16) <=> r.final
      /\ IsSet(ResponseFlags(r), 32) <=> r.checksum # <<>>
      /\ IsSet(ResponseFlags(r), 64) <=> r.chunk = 0
  BY ResponseFlagsAreRead
<1>6. DictOf(Ctrl(RESPONSE, r.dict)) = r.dict
  BY <1>1, CtrlReadBack
<1>7. /\ head \in Seq(Nat) /\ body \in Seq(Nat) /\ r.checksum \in Seq(Nat)
      /\ Len(body) \in Nat
  <2>1. head \in Seq(Nat)
    <3>1. CASE r.chunk = 0
      <4>1. r.size \in Nat /\ r.total \in Nat
        <5>1. r.size \in 0 .. Word - 1 /\ r.total \in 0 .. 255
          BY <1>1
        <5>2. QED
          BY <5>1, WordIsWide
      <4>2. QED
        BY <3>1, <4>1
    <3>2. CASE r.chunk # 0
      BY <3>2, EmptySeq
    <3>3. QED
      BY <3>1, <3>2
  <2>2. body \in Seq(Nat)
    BY <1>1, <2>1, ConcatProperties
  <2>3. r.checksum \in Seq(Nat)
    BY <1>1
  <2>4. QED
    BY <2>1, <2>2, <2>3, LenProperties
<1>8. IF r.checksum # <<>>
      THEN SubSeq(rest, 1, Len(rest) - 1) = body
           /\ <<rest[Len(rest)]>> = r.checksum
      ELSE rest = body
  <2>1. CASE r.checksum = <<>>
    BY <1>7, <2>1, ConcatEmptySeq
  <2>2. CASE r.checksum # <<>>
    <3>1. Len(r.checksum) = 1
      BY <1>1, <2>2, EmptySeq
    <3>2. r.checksum = <<r.checksum[1]>>
      BY <1>1, <3>1
    <3>3. Len(rest) = Len(body) + 1 /\ rest[Len(body) + 1] = r.checksum[1]
      <4>1. Len(rest) = Len(body) + Len(r.checksum)
        BY <1>7, ConcatProperties
      <4>2. \A i \in 1 .. Len(body) + Len(r.checksum) :
              rest[i] = IF i <= Len(body) THEN body[i]
                        ELSE r.checksum[i - Len(body)]
        BY <1>7, ConcatProperties
      <4> HIDE DEF rest, body
      <4>3. QED
        BY <1>7, <3>1, <4>1, <4>2
    <3>4. SubSeq(rest, 1, Len(body)) = body
      BY <1>7, TakeApart
    <3> HIDE DEF rest, body
    <3>5. Len(rest) - 1 = Len(body)
      BY <1>7, <3>3
    <3>6. QED
      BY <2>2, <3>2, <3>3, <3>4, <3>5
  <2>3. QED
    BY <2>1, <2>2
<1>9. IF r.chunk = 0
      THEN /\ body[1] = r.size /\ body[2] = r.total
           /\ SubSeq(body, 3, Len(body)) = r.payload
      ELSE body = r.payload /\ r.size = 0 /\ r.total = 0
  <2>1. CASE r.chunk = 0
    <3>1. /\ head = <<r.size, r.total>> /\ Len(head) = 2
          /\ head[1] = r.size /\ head[2] = r.total
      BY <2>1
    <3>2. SubSeq(body, Len(head) + 1, Len(body)) = r.payload
      BY <1>1, <1>7, TakeApart
    <3>3. body[1] = head[1] /\ body[2] = head[2]
      <4>1. Len(r.payload) \in Nat
        BY <1>1, LenProperties
      <4>2. \A i \in 1 .. Len(head) + Len(r.payload) :
              body[i] = IF i <= Len(head) THEN head[i]
                        ELSE r.payload[i - Len(head)]
        BY <1>1, <1>7, ConcatProperties
      <4> HIDE DEF head, body
      <4>3. QED
        BY <3>1, <4>1, <4>2
    <3>4. QED
      BY <2>1, <3>1, <3>2, <3>3
  <2>2. CASE r.chunk # 0
    BY <1>1, <2>2, ConcatEmptySeq
  <2>3. QED
    BY <2>1, <2>2
<1> HIDE DEF head, rest, body
<1> DEFINE f == EncodeResponse(r)
<1>10. /\ f.rid = r.rid /\ f.chunk = r.chunk /\ f.token = r.token
       /\ f.rest = rest /\ f.flags = ResponseFlags(r)
       /\ f.ctrl = Ctrl(RESPONSE, r.dict)
  BY <1>4
<1> HIDE DEF f
<1>11. /\ DecodeResponse(f).rid = r.rid
       /\ DecodeResponse(f).status = r.status
       /\ DecodeResponse(f).chunk = r.chunk
       /\ DecodeResponse(f).token = r.token
       /\ DecodeResponse(f).dict = r.dict
  BY <1>5, <1>6, <1>10 DEF DecodeResponse
<1>12. /\ DecodeResponse(f).compressed = r.compressed
       /\ DecodeResponse(f).final = r.final
  <2>1. /\ DecodeResponse(f).compressed = IsSet(f.flags, 8)
        /\ DecodeResponse(f).final = IsSet(f.flags, 16)
    BY DEF DecodeResponse
  <2>2. IsSet(f.flags, 8) \in BOOLEAN /\ IsSet(f.flags, 16) \in BOOLEAN
    BY DEF IsSet
  <2>3. QED
    <3>1. IsSet(f.flags, 8) <=> r.compressed
      BY <1>5, <1>10
    <3>2. IsSet(f.flags, 16) <=> r.final
      BY <1>5, <1>10
    <3>3. r.compressed \in BOOLEAN /\ r.final \in BOOLEAN
      BY <1>1
    <3>4. QED
      BY Zenon, <2>1, <2>2, <3>1, <3>2, <3>3
<1>13. IsSet(f.flags, 16) /\ IsSet(f.flags, 32) <=> r.checksum # <<>>
  BY <1>1, <1>5, <1>10
<1>14. DecodeResponse(f).checksum = r.checksum
  BY <1>8, <1>10, <1>13 DEF DecodeResponse
<1>15. /\ DecodeResponse(f).size = r.size
       /\ DecodeResponse(f).total = r.total
       /\ DecodeResponse(f).payload = r.payload
  <2>1. IsSet(f.flags, 64) <=> r.chunk = 0
    BY <1>5, <1>10
  <2> DEFINE cut == IF IsSet(f.flags, 16) /\ IsSet(f.flags, 32)
                    THEN SubSeq(f.rest, 1, Len(f.rest) - 1) ELSE f.rest
  <2>2. cut = body
    BY <1>8, <1>10, <1>13
  <2>3. /\ DecodeResponse(f).size = IF IsSet(f.flags, 64) THEN cut[1] ELSE 0
        /\ DecodeResponse(f).total = IF IsSet(f.flags, 64) THEN cut[2] ELSE 0
        /\ DecodeResponse(f).payload
             = IF IsSet(f.flags, 64) THEN SubSeq(cut, 3, Len(cut)) ELSE cut
    BY DEF DecodeResponse
  <2> HIDE DEF cut
  <2>4. QED
    BY <1>9, <2>1, <2>2, <2>3
<1>16. DecodeResponse(f) =
         [rid |-> r.rid, status |-> r.status, chunk |-> r.chunk,
          token |-> r.token, dict |-> r.dict, compressed |-> r.compressed,
          final |-> r.final, checksum |-> r.checksum, size |-> r.size,
          total |-> r.total, payload |-> r.payload]
  BY <1>11, <1>12, <1>14, <1>15 DEF DecodeResponse
<1>17. QED
  BY <1>16 DEF Responses, f

-----------------------------------------------------------------------------
(* Requests *)

\* The flags of a request are those of its fields, and of its attempt three
\* bits.
LEMMA RequestFlagsAreRead ==
    ASSUME NEW r \in Request
    PROVE  LET flags == RequestFlags(r)
           IN  /\ flags % 8 = r.sub
               /\ IsSet(flags, 8) <=> r.prefer
               /\ IsSet(flags, 16) <=> r.upload
               /\ (flags \div 32) % 8 = r.attempt % 8
<1> DEFINE flags == RequestFlags(r)
           s == r.sub
           p == Bit(r.prefer)
           u == Bit(r.upload)
           a == r.attempt % 8
<1>1. /\ r.sub \in 0 .. 4 /\ r.attempt \in Nat
      /\ r.prefer \in BOOLEAN /\ r.upload \in BOOLEAN
  BY DEF Request, Subcommands
<1>2. a \in 0 .. 7 /\ r.sub % 8 = s /\ s \in 0 .. 7
  BY <1>1
<1>3. p \in {0, 1} /\ u \in {0, 1}
  BY <1>1, BitIsOneBit
<1>4. /\ r.prefer <=> p = 1
      /\ r.upload <=> u = 1
  BY <1>1, BitIsOneBit
<1>5. flags = s + 8 * p + 16 * u + 32 * a
  BY <1>2 DEF RequestFlags
<1> HIDE DEF flags, s, p, u, a
<1>6. /\ flags % 8 = s
      /\ (flags \div 8) % 2 = p
      /\ (flags \div 16) % 2 = u
      /\ (flags \div 32) % 8 = a
  BY <1>2, <1>3, <1>5, RequestFlagsReadBack
<1>7. IsSet(flags, 8) <=> p = 1
  BY <1>6 DEF IsSet
<1>8. IsSet(flags, 16) <=> u = 1
  BY <1>6 DEF IsSet
<1>9. QED
  BY <1>4, <1>6, <1>7, <1>8 DEF flags, s, a

\* The server reads of a request what its subcommand puts on the wire.
THEOREM RequestReadAsWritten ==
    ASSUME NEW r \in Request
    PROVE  DecodeRequest(EncodeRequest(r)) = OnWire(r)
<1> DEFINE first == r.sub = POST /\ r.chunk = 0
           f == EncodeRequest(r)
           d == DecodeRequest(f)
<1>1. /\ r.rid \in 0 .. Word - 1 /\ r.chunk \in 0 .. 255 /\ r.dict \in 0 .. 7
      /\ r.token \in 0 .. 255 /\ r.total \in 0 .. 255 /\ r.attempt \in Nat
  BY DEF Request, Byte
<1>2. /\ r.prefer \in BOOLEAN /\ r.upload \in BOOLEAN
      /\ r.path \in Seq(Nat) /\ r.payload \in Seq(Nat)
  BY DEF Request
<1>3. /\ r.chunk % 256 = r.chunk /\ r.token % 256 = r.token
      /\ r.total % 256 = r.total
  BY <1>1
<1>4. r.rid % Word = r.rid
  BY <1>1, WordIsWide, FieldFits
<1>5. /\ f.rid = r.rid /\ f.chunk = r.chunk /\ f.prefix = r.prefix
      /\ f.flags = RequestFlags(r) /\ f.ctrl = Ctrl(REQUEST, r.dict)
      /\ f.head = IF first THEN <<r.total, r.checksum, Len(r.path)>> ELSE <<>>
      /\ f.rest = IF r.sub = CONTINUE THEN <<r.token>>
                  ELSE IF first THEN r.path \o r.payload
                  ELSE IF r.sub = POST THEN r.payload
                  ELSE r.path
  BY <1>3, <1>4 DEF EncodeRequest
<1> HIDE DEF f
<1>6. /\ f.flags % 8 = r.sub
      /\ IsSet(f.flags, 8) <=> r.prefer
      /\ IsSet(f.flags, 16) <=> r.upload
      /\ (f.flags \div 32) % 8 = r.attempt % 8
  BY <1>5, RequestFlagsAreRead
<1>7. DictOf(f.ctrl) = r.dict
  BY <1>1, <1>5, CtrlReadBack
<1>8. /\ d.rid = r.rid /\ d.prefix = r.prefix /\ d.sub = r.sub
      /\ d.chunk = r.chunk /\ d.dict = r.dict /\ d.attempt = r.attempt % 8
  BY <1>5, <1>6, <1>7 DEF DecodeRequest
<1>9. d.prefer = r.prefer
  <2>1. d.prefer = IsSet(f.flags, 8)
    BY DEF DecodeRequest
  <2>2. IsSet(f.flags, 8) \in BOOLEAN
    BY DEF IsSet
  <2>3. IsSet(f.flags, 8) <=> r.prefer
    BY <1>6
  <2>4. QED
    BY Zenon, <1>2, <2>1, <2>2, <2>3
<1>10. d.upload = (r.sub = POST /\ r.upload)
  <2>1. d.upload = (r.sub = POST /\ IsSet(f.flags, 16))
    BY <1>6 DEF DecodeRequest
  <2>2. IsSet(f.flags, 16) <=> r.upload
    BY <1>6
  <2>3. QED
    BY Zenon, <2>1, <2>2
<1>11. d.token = IF r.sub = CONTINUE THEN r.token ELSE 0
  <2>1. d.token = IF r.sub = CONTINUE THEN f.rest[1] ELSE 0
    BY <1>6 DEF DecodeRequest
  <2>2. r.sub = CONTINUE => f.rest[1] = r.token
    BY <1>5
  <2>3. QED
    BY <2>1, <2>2
<1>12. /\ d.total = IF first THEN r.total ELSE 0
       /\ d.checksum = IF first THEN r.checksum ELSE 0
  <2>1. /\ d.total = IF first THEN f.head[1] ELSE 0
        /\ d.checksum = IF first THEN f.head[2] ELSE 0
    BY <1>5, <1>6 DEF DecodeRequest
  <2>2. CASE first
    <3>1. f.head[1] = r.total /\ f.head[2] = r.checksum
      BY <1>5, <2>2
    <3>2. QED
      BY <2>1, <2>2, <3>1
  <2>3. CASE ~first
    BY <2>1, <2>3
  <2>4. QED
    BY <2>2, <2>3
<1>13. /\ d.path = IF r.sub = CONTINUE \/ (r.sub = POST /\ ~first)
                   THEN <<>> ELSE r.path
       /\ d.payload = IF r.sub = POST THEN r.payload ELSE <<>>
  <2>1. CASE first
    <3>1. f.rest = r.path \o r.payload /\ f.head[3] = Len(r.path)
      BY <1>5, <2>1 DEF POST, CONTINUE
    <3>2. /\ d.path = SubSeq(f.rest, 1, f.head[3])
          /\ d.payload = SubSeq(f.rest, f.head[3] + 1, Len(f.rest))
      BY <1>5, <1>6, <2>1 DEF DecodeRequest
    <3> DEFINE s == r.path
               t == r.payload
    <3>3. s \in Seq(Nat) /\ t \in Seq(Nat)
      BY <1>2
    <3> HIDE DEF s, t
    <3>4. /\ SubSeq(s \o t, 1, Len(s)) = s
          /\ SubSeq(s \o t, Len(s) + 1, Len(s \o t)) = t
      BY <3>3, TakeApart
    <3>5. d.path = r.path /\ d.payload = r.payload
      BY <3>1, <3>2, <3>4 DEF s, t
    <3>6. QED
      BY <2>1, <3>5 DEF POST, CONTINUE
  <2>2. CASE r.sub = POST /\ ~first
    <3>1. f.rest = r.payload
      BY <1>5, <2>2 DEF POST, CONTINUE
    <3>2. d.path = <<>> /\ d.payload = SubSeq(f.rest, 0 + 1, Len(f.rest))
      BY <1>5, <1>6, <2>2 DEF DecodeRequest
    <3>3. SubSeq(f.rest, 0 + 1, Len(f.rest)) = f.rest
      BY <1>2, <3>1, SubSeqFull
    <3>4. QED
      BY <2>2, <3>1, <3>2, <3>3
  <2>3. CASE r.sub # POST
    BY <1>5, <1>6, <2>3 DEF DecodeRequest, POST, CONTINUE
  <2>4. QED
    BY <2>1, <2>2, <2>3
<1> HIDE DEF d
<1>14. d = [rid |-> d.rid, prefix |-> d.prefix, sub |-> d.sub,
            chunk |-> d.chunk, dict |-> d.dict, attempt |-> d.attempt,
            prefer |-> d.prefer, upload |-> d.upload, token |-> d.token,
            path |-> d.path, total |-> d.total, checksum |-> d.checksum,
            payload |-> d.payload]
  BY DEF d, DecodeRequest
<1>15. d = OnWire(r)
  BY <1>8, <1>9, <1>10, <1>11, <1>12, <1>13, <1>14 DEF OnWire
<1>16. QED
  BY <1>15 DEF d, f

-----------------------------------------------------------------------------
(* Chunks *)

\* Division rounds down.
LEMMA QuotientBounds ==
    ASSUME NEW a \in Nat, NEW k \in Nat \ {0}
    PROVE  /\ a \div k \in Nat
           /\ (a \div k) * k <= a
           /\ a < (a \div k) * k + k
  OBVIOUS

LEMMA Monotone ==
    \A a, b, k \in Nat : a <= b => a * k <= b * k
  OBVIOUS

\* There are chunks, the last of them begins within the content and no byte
\* is behind it.
LEMMA ChunksWithin ==
    ASSUME NEW bytes \in Seq(Nat), NEW k \in Nat \ {0}
    PROVE  /\ Chunks(bytes, k) \in Nat \ {0}
           /\ \A i \in 1 .. Chunks(bytes, k) :
                (i - 1) * k \in Nat /\ (i - 1) * k <= Len(bytes)
           /\ bytes # <<>> =>
                \A i \in 1 .. Chunks(bytes, k) : (i - 1) * k < Len(bytes)
           /\ Len(bytes) <= Chunks(bytes, k) * k
<1>1. Len(bytes) \in Nat
  BY LenProperties
<1>2. CASE bytes = <<>>
  <2>1. Chunks(bytes, k) = 1
    BY <1>2 DEF Chunks
  <2>2. \A i \in 1 .. 1 : (i - 1) * k = 0
    BY DEF Chunks
  <2>3. Len(bytes) = 0
    BY <1>2
  <2>4. QED
    BY <1>1, <1>2, <2>1, <2>2, <2>3
<1>3. CASE bytes # <<>>
  <2> DEFINE q == (Len(bytes) + k - 1) \div k
  <2>1. Len(bytes) + k - 1 \in Nat
    BY <1>1
  <2>2. q \in Nat /\ q * k <= Len(bytes) + k - 1 /\ Len(bytes) + k - 1 < q * k + k
    BY <2>1, QuotientBounds
  <2>3. Chunks(bytes, k) = q
    BY <1>3 DEF Chunks, CeilDiv
  <2>4. Len(bytes) > 0
    BY <1>1, <1>3, EmptySeq
  <2> HIDE DEF q
  <2>5. q # 0
    BY <1>1, <2>2, <2>4
  <2>6. ASSUME NEW i \in 1 .. q
        PROVE  (i - 1) * k \in Nat /\ (i - 1) * k < Len(bytes)
    <3>1. i - 1 \in Nat /\ q - 1 \in Nat /\ i - 1 <= q - 1
      BY <2>2
    <3>2. (i - 1) * k \in Nat
      BY <3>1
    <3>3. (i - 1) * k <= (q - 1) * k
      BY <3>1, Monotone
    <3>4. (q - 1) * k = q * k - k
      BY <2>2
    <3>5. q * k \in Nat
      BY <2>2
    <3>6. QED
      BY <1>1, <2>2, <3>2, <3>3, <3>4, <3>5
  <2>7. q * k \in Nat /\ Len(bytes) <= q * k
    BY <1>1, <2>2
  <2>8. \A i \in 1 .. q : (i - 1) * k \in Nat /\ (i - 1) * k <= Len(bytes)
    BY <1>1, <2>6
  <2>9. QED
    BY <2>2, <2>3, <2>5, <2>6, <2>7, <2>8
<1>4. QED
  BY <1>2, <1>3

\* A set of numbers that holds 0, and with each number the next, holds all.
LEMMA SetInduction ==
    ASSUME NEW S, S \subseteq Nat, 0 \in S, \A j \in S : j + 1 \in S
    PROVE  S = Nat
<1>1. SUFFICES ASSUME Nat \ S # {} PROVE FALSE
  OBVIOUS
<1>2. IsWellFoundedOn(OpToRel(<, Nat), Nat)
  BY NatLessThanWellFounded
<1>3. PICK x \in Nat \ S : \A y \in Nat \ S : ~(<<y, x>> \in OpToRel(<, Nat))
  <2> DEFINE R == OpToRel(<, Nat)
             T == Nat \ S
  <2>1. IsWellFoundedOn(R, Nat) /\ T \subseteq Nat /\ T # {}
    BY <1>1, <1>2
  <2> HIDE DEF R, T
  <2>2. \E y \in T : \A z \in T : ~(<<z, y>> \in R)
    BY <2>1, WFMin
  <2> QED BY <2>2 DEF R, T
<1>4. x # 0 /\ x - 1 \in Nat /\ x - 1 < x
  OBVIOUS
<1>5. x - 1 \in S
  BY <1>3, <1>4 DEF OpToRel
<1> QED BY <1>4, <1>5

\* Parts that follow each other in a sequence, from its start to its end, make
\* it again; upTo says where each part ends.
Cuts(parts, whole, upTo, m) ==
    /\ upTo[0] = 0 /\ upTo[m] = Len(whole)
    /\ \A i \in 1 .. m :
         /\ upTo[i - 1] \in Nat /\ upTo[i] \in Nat
         /\ upTo[i - 1] <= upTo[i] /\ upTo[i] <= Len(whole)
         /\ parts[i] = SubSeq(whole, upTo[i - 1] + 1, upTo[i])

LEMMA FlattenIs ==
    ASSUME NEW A, NEW whole \in Seq(A), NEW parts, NEW m \in Nat \ {0},
           Len(parts) = m, NEW upTo, Cuts(parts, whole, upTo, m)
    PROVE  FlattenSeq(parts) = whole
<1> DEFINE F(f) == [i \in 1 .. Len(parts) |->
                      IF i = 1 THEN parts[i] ELSE f[i - 1] \o parts[i]]
           h == CHOOSE f : f = F(f)
           g == [i \in 1 .. m |-> SubSeq(whole, 1, upTo[i])]
<1>1. /\ upTo[0] = 0 /\ upTo[m] = Len(whole) /\ Len(whole) \in Nat
      /\ \A i \in 1 .. m :
           /\ upTo[i - 1] \in Nat /\ upTo[i] \in Nat
           /\ upTo[i - 1] <= upTo[i] /\ upTo[i] <= Len(whole)
           /\ parts[i] = SubSeq(whole, upTo[i - 1] + 1, upTo[i])
  BY LenProperties DEF Cuts
<1>2. parts[1] = SubSeq(whole, 1, upTo[1])
  <2>1. 1 \in 1 .. m /\ 1 - 1 = 0
    OBVIOUS
  <2>2. parts[1] = SubSeq(whole, upTo[0] + 1, upTo[1])
    BY <1>1, <2>1
  <2>3. QED
    BY <1>1, <2>2
<1>3. ASSUME NEW i \in 1 .. m, i # 1
      PROVE  SubSeq(whole, 1, upTo[i - 1]) \o parts[i] = SubSeq(whole, 1, upTo[i])
  <2> DEFINE k == upTo[i - 1]
             j == upTo[i]
  <2>1. /\ k \in Nat /\ j \in Nat /\ k <= j /\ j <= Len(whole)
        /\ parts[i] = SubSeq(whole, k + 1, j)
    BY <1>1
  <2> HIDE DEF k, j
  <2>2. 1 \in 1 .. Len(whole) + 1 /\ k \in 1 - 1 .. Len(whole) /\ j \in k .. Len(whole)
    BY <1>1, <2>1
  <2>3. SubSeq(whole, 1, k) \o SubSeq(whole, k + 1, j) = SubSeq(whole, 1, j)
    BY <2>2, ConcatAdjacentSubSeq
  <2>4. SubSeq(whole, 1, k) \o parts[i] = SubSeq(whole, 1, j)
    BY <2>1, <2>3
  <2>5. QED
    BY <2>4 DEF k, j
<1>4. g = F(g)
  <2>1. ASSUME NEW i \in 1 .. m PROVE g[i] = F(g)[i]
    <3>1. CASE i = 1
      <4>1. g[i] = SubSeq(whole, 1, upTo[1]) /\ F(g)[i] = parts[1]
        BY <3>1
      <4>2. QED
        BY Zenon, <1>2, <4>1
    <3>2. CASE i # 1
      <4>1. i - 1 \in 1 .. m
        BY <3>2
      <4>2. F(g)[i] = g[i - 1] \o parts[i]
        BY <3>2
      <4>3. g[i - 1] = SubSeq(whole, 1, upTo[i - 1]) /\ g[i] = SubSeq(whole, 1, upTo[i])
        BY <4>1
      <4>4. SubSeq(whole, 1, upTo[i - 1]) \o parts[i] = SubSeq(whole, 1, upTo[i])
        BY <1>3, <3>2
      <4>5. QED
        BY Zenon, <4>2, <4>3, <4>4
    <3>3. QED
      BY <3>1, <3>2
  <2>2. g = [i \in 1 .. m |-> g[i]] /\ Len(parts) = m
    OBVIOUS
  <2> HIDE DEF g
  <2>3. \A i \in 1 .. m : g[i] = IF i = 1 THEN parts[i] ELSE g[i - 1] \o parts[i]
    BY <2>1, <2>2
  <2>4. [i \in 1 .. m |-> g[i]] = F(g)
    BY <2>2, <2>3
  <2>5. QED
    BY Zenon, <2>2, <2>4
<1>5. h = F(h)
  BY <1>4
<1>6. FlattenSeq(parts) = h[m]
  BY DEF FlattenSeq
<1> HIDE DEF h
<1>7. /\ h[1] = parts[1]
      /\ \A i \in 1 .. m : i # 1 => h[i] = h[i - 1] \o parts[i]
  <2>1. /\ F(h)[1] = parts[1]
        /\ \A i \in 1 .. m : i # 1 => F(h)[i] = h[i - 1] \o parts[i]
    OBVIOUS
  <2> HIDE DEF F
  <2>2. QED
    BY <1>5, <2>1
<1> DEFINE T == {j \in Nat : j + 1 <= m => h[j + 1] = SubSeq(whole, 1, upTo[j + 1])}
<1>8. T = Nat
  <2>1. 0 \in T
    BY <1>2, <1>7
  <2>2. ASSUME NEW j \in T PROVE j + 1 \in T
    <3> SUFFICES ASSUME (j + 1) + 1 <= m
                 PROVE  h[(j + 1) + 1] = SubSeq(whole, 1, upTo[(j + 1) + 1])
      OBVIOUS
    <3> DEFINE i == (j + 1) + 1
    <3>1. j \in Nat /\ i \in 1 .. m /\ i # 1 /\ i - 1 = j + 1
      OBVIOUS
    <3>2. h[j + 1] = SubSeq(whole, 1, upTo[j + 1])
      OBVIOUS
    <3> HIDE DEF i
    <3>3. h[i] = h[i - 1] \o parts[i]
      BY <1>7, <3>1
    <3>4. SubSeq(whole, 1, upTo[i - 1]) \o parts[i] = SubSeq(whole, 1, upTo[i])
      BY <1>3, <3>1
    <3>5. h[i - 1] = SubSeq(whole, 1, upTo[i - 1])
      BY <3>1, <3>2
    <3>6. h[i] = SubSeq(whole, 1, upTo[i])
      BY Zenon, <3>3, <3>4, <3>5
    <3>7. QED
      BY <3>6 DEF i
  <2>3. T \subseteq Nat
    OBVIOUS
  <2> HIDE DEF T
  <2>4. QED
    BY <2>1, <2>2, <2>3, SetInduction
<1>9. h[m] = SubSeq(whole, 1, upTo[m])
  <2>1. m - 1 \in Nat /\ (m - 1) + 1 = m
    OBVIOUS
  <2>2. m - 1 \in Nat => m - 1 \in T
    BY Zenon, <1>8
  <2> DEFINE j == m - 1
  <2>3. j \in T /\ j + 1 = m
    BY <2>1, <2>2
  <2> HIDE DEF j
  <2>4. h[j + 1] = SubSeq(whole, 1, upTo[j + 1])
    BY <2>3
  <2>5. QED
    BY <2>3, <2>4
<1>10. SubSeq(whole, 1, Len(whole)) = whole
  BY SubSeqFull
<1>11. QED
  BY <1>1, <1>6, <1>9, <1>10

\* The chunks of split(), one after the other, are the content.
LEMMA SplitWhole ==
    ASSUME NEW bytes \in Seq(Nat), NEW k \in Nat \ {0}
    PROVE  FlattenSeq(Split(bytes, k)) = bytes
<1> DEFINE m == Chunks(bytes, k)
           parts == Split(bytes, k)
           upTo == [i \in 0 .. m |-> Least(i * k, Len(bytes))]
<1>1. /\ m \in Nat \ {0} /\ Len(bytes) \in Nat /\ Len(bytes) <= m * k
      /\ \A i \in 1 .. m : (i - 1) * k \in Nat /\ (i - 1) * k <= Len(bytes)
  BY ChunksWithin, LenProperties
<1>2. Len(parts) = m /\ \A i \in 1 .. m :
        parts[i] = SubSeq(bytes, (i - 1) * k + 1, Least(i * k, Len(bytes)))
  <2>1. parts = [i \in 1 .. m |-> SubSeq(bytes, (i - 1) * k + 1, Least(i * k, Len(bytes)))]
    BY DEF Split
  <2> HIDE DEF m, parts
  <2>2. Len(parts) = m
    BY <1>1, <2>1
  <2>3. QED
    BY <2>1, <2>2
<1> HIDE DEF m, parts
<1>3. upTo[0] = 0 /\ upTo[m] = Len(bytes)
  <2>1. upTo[0] = Least(0 * k, Len(bytes)) /\ upTo[m] = Least(m * k, Len(bytes))
    BY <1>1
  <2>2. 0 * k = 0 /\ m * k \in Nat
    BY <1>1
  <2>3. QED
    BY <1>1, <2>1, <2>2 DEF Least
<1>4. ASSUME NEW i \in 1 .. m
      PROVE  /\ upTo[i - 1] \in Nat /\ upTo[i] \in Nat
             /\ upTo[i - 1] <= upTo[i] /\ upTo[i] <= Len(bytes)
             /\ parts[i] = SubSeq(bytes, upTo[i - 1] + 1, upTo[i])
  <2> DEFINE a == (i - 1) * k
             b == i * k
  <2>1. a \in Nat /\ a <= Len(bytes) /\ b = a + k
    BY <1>1
  <2>2. upTo[i - 1] = Least(a, Len(bytes)) /\ upTo[i] = Least(b, Len(bytes))
    BY <1>1
  <2>3. parts[i] = SubSeq(bytes, a + 1, Least(b, Len(bytes)))
    BY <1>2
  <2> HIDE DEF a, b, upTo
  <2>4. upTo[i - 1] = a
    BY <1>1, <2>1, <2>2 DEF Least
  <2>5. /\ upTo[i - 1] \in Nat /\ upTo[i] \in Nat
        /\ upTo[i - 1] <= upTo[i] /\ upTo[i] <= Len(bytes)
    BY <1>1, <2>1, <2>2, <2>4 DEF Least
  <2>6. QED
    BY <2>2, <2>3, <2>4, <2>5
<1> HIDE DEF upTo
<1>5. Cuts(parts, bytes, upTo, m)
  BY <1>3, <1>4 DEF Cuts
<1>6. FlattenSeq(parts) = bytes
  BY <1>1, <1>2, <1>5, FlattenIs
<1>7. QED
  BY <1>6 DEF parts

\* A chunk is no longer than asked for, every chunk but the last is full, and
\* the chunks one after the other are the content, to the last byte.
THEOREM PiecesFit ==
    ASSUME NEW bytes \in Seq(Nat), NEW k \in Nat \ {0}
    PROVE  LET count == Chunks(bytes, k)
               piece == Split(bytes, k)
           IN  /\ count \in Nat \ {0} /\ Len(piece) = count
               /\ \A i \in 1 .. count :
                    /\ piece[i] \in Seq(Nat) /\ Len(piece[i]) <= k
                    /\ i < count => Len(piece[i]) = k
                    /\ \A o \in 1 .. Len(piece[i]) :
                         piece[i][o] = bytes[(i - 1) * k + o]
               /\ (count - 1) * k + Len(piece[count]) = Len(bytes)
<1> DEFINE count == Chunks(bytes, k)
           piece == Split(bytes, k)
<1>1. count \in Nat \ {0} /\ Len(bytes) \in Nat
  BY ChunksWithin, LenProperties
<1>2. Len(piece) = count
  BY <1>1 DEF Split
<1>3. ASSUME NEW i \in 1 .. count
      PROVE  /\ piece[i] \in Seq(Nat) /\ Len(piece[i]) <= k
             /\ i < count => Len(piece[i]) = k
             /\ i = count => (i - 1) * k + Len(piece[i]) = Len(bytes)
             /\ \A o \in 1 .. Len(piece[i]) :
                  piece[i][o] = bytes[(i - 1) * k + o]
  <2> DEFINE m == (i - 1) * k
             e == Least(i * k, Len(bytes))
  <2>1. m \in Nat /\ m <= Len(bytes)
    BY ChunksWithin
  <2>2. i * k = m + k
    BY <1>1
  <2>3. i < count => i * k <= Len(bytes)
    <3>1. SUFFICES ASSUME i < count PROVE i * k <= Len(bytes)
      OBVIOUS
    <3>2. i + 1 \in 1 .. count /\ (i + 1) - 1 = i
      BY <1>1, <3>1
    <3>3. QED
      BY <3>2, ChunksWithin
  <2>4. i = count => Len(bytes) <= i * k
    BY ChunksWithin
  <2>5. piece[i] = SubSeq(bytes, m + 1, e)
    BY <1>1 DEF Split
  <2> HIDE DEF m, count, piece
  <2>6. /\ e \in Int /\ e <= Len(bytes) /\ e <= m + k
        /\ i < count => e = m + k
        /\ i = count => e = Len(bytes)
        /\ m <= e
    BY <1>1, <2>1, <2>2, <2>3, <2>4 DEF Least
  <2> HIDE DEF e
  <2>7. m + 1 \in Int /\ \A j \in m + 1 .. e : bytes[j] \in Nat
    BY <1>1, <2>1, <2>6, ElementOfSeq
  <2>8. /\ SubSeq(bytes, m + 1, e) \in Seq(Nat)
        /\ Len(SubSeq(bytes, m + 1, e))
             = IF m + 1 <= e THEN e - (m + 1) + 1 ELSE 0
        /\ \A o \in 1 .. e - (m + 1) + 1 :
             SubSeq(bytes, m + 1, e)[o] = bytes[m + 1 + o - 1]
    BY <2>6, <2>7, SubSeqProperties
  <2>9. Len(piece[i]) = e - m
    BY <2>1, <2>5, <2>6, <2>8
  <2>10. \A o \in 1 .. Len(piece[i]) : piece[i][o] = bytes[m + o]
    BY <2>1, <2>5, <2>6, <2>8, <2>9
  <2>11. /\ piece[i] \in Seq(Nat) /\ Len(piece[i]) <= k
         /\ i < count => Len(piece[i]) = k
         /\ i = count => m + Len(piece[i]) = Len(bytes)
    BY <1>1, <2>1, <2>5, <2>6, <2>8, <2>9
  <2>12. QED
    BY <2>10, <2>11 DEF m
<1> HIDE DEF count, piece
<1>4. count \in 1 .. count
  BY <1>1
<1>5. (count - 1) * k + Len(piece[count]) = Len(bytes)
  BY <1>3, <1>4
<1>6. QED
  BY <1>1, <1>2, <1>3, <1>5 DEF count, piece

-----------------------------------------------------------------------------
(* Posts *)

\* The first slice leaves room for header and destination, the others fill
\* what a request has room for.
LEMMA SlicesFit ==
    ASSUME NEW bytes \in Seq(Nat), NEW path \in Seq(Nat), FirstRoom(path) > 0
    PROVE  LET slice == PostSlices(bytes, path)
           IN  /\ Len(slice) \in Nat \ {0}
               /\ slice[1] \in Seq(Nat) /\ Len(slice[1]) <= FirstRoom(path)
               /\ \A i \in 2 .. Len(slice) :
                    slice[i] \in Seq(Nat) /\ Len(slice[i]) <= RestRoom
               /\ Len(bytes) <= 253 * RestRoom => Len(slice) <= 255
<1> DEFINE k == FirstRoom(path)
           head == SubSeq(bytes, 1, Least(k, Len(bytes)))
           tail == SubSeq(bytes, k + 1, Len(bytes))
           pieces == Split(tail, RestRoom)
           rest == IF tail = <<>> THEN <<>> ELSE pieces
           slice == PostSlices(bytes, path)
<1>1. /\ k \in Nat \ {0} /\ RestRoom \in Nat \ {0} /\ Len(bytes) \in Nat
  <2>1. Len(path) \in Nat /\ Len(bytes) \in Nat
    BY LenProperties
  <2>2. QED
    BY <2>1, RoomForAChunk DEF FirstRoom, RestRoom, REQ_FIXED_LEN, POST_HEADER_LEN
<1>2. slice = <<head>> \o rest
  BY DEF PostSlices
<1> HIDE DEF k
<1>3. head \in Seq(Nat) /\ Len(head) <= k
  <2> DEFINE e == Least(k, Len(bytes))
  <2>1. e \in Nat /\ e <= k /\ e <= Len(bytes)
    BY <1>1 DEF Least
  <2> HIDE DEF e
  <2>2. \A i \in 1 .. e : bytes[i] \in Nat
    BY <1>1, <2>1, ElementOfSeq
  <2>3. /\ SubSeq(bytes, 1, e) \in Seq(Nat)
        /\ Len(SubSeq(bytes, 1, e)) = IF 1 <= e THEN e - 1 + 1 ELSE 0
    BY <2>1, <2>2, SubSeqProperties
  <2>4. QED
    BY <1>1, <2>1, <2>3 DEF e
<1>4. tail \in Seq(Nat) /\ Len(tail) <= Len(bytes)
  <2>1. \A i \in k + 1 .. Len(bytes) : bytes[i] \in Nat
    BY <1>1, ElementOfSeq
  <2>2. /\ tail \in Seq(Nat)
        /\ Len(tail) = IF k + 1 <= Len(bytes) THEN Len(bytes) - (k + 1) + 1 ELSE 0
    BY <1>1, <2>1, SubSeqProperties
  <2>3. QED
    BY <1>1, <2>2
<1> HIDE DEF head, tail
<1>5. /\ rest \in Seq(Seq(Nat))
      /\ \A i \in 1 .. Len(rest) : Len(rest[i]) <= RestRoom
      /\ Len(bytes) <= 253 * RestRoom => Len(rest) <= 254
  <2>1. CASE tail = <<>>
    BY <2>1, EmptySeq
  <2>2. CASE tail # <<>>
    <3> DEFINE m == Chunks(tail, RestRoom)
    <3>1. /\ m \in Nat \ {0} /\ Len(pieces) = m
          /\ \A i \in 1 .. m :
               pieces[i] \in Seq(Nat) /\ Len(pieces[i]) <= RestRoom
      BY <1>1, <1>4, PiecesFit
    <3>2. Len(bytes) <= 253 * RestRoom => m <= 254
      <4>1. SUFFICES ASSUME Len(bytes) <= 253 * RestRoom, m >= 255
                     PROVE  FALSE
        BY <3>1
      <4>2. (m - 1) * RestRoom \in Nat /\ (m - 1) * RestRoom <= Len(tail)
        <5>1. m \in 1 .. m
          BY <3>1
        <5>2. QED
          BY <1>1, <1>4, <5>1, ChunksWithin
      <4>3. 254 * RestRoom <= (m - 1) * RestRoom
        <5>1. m - 1 \in Nat /\ 254 <= m - 1 /\ RestRoom \in Nat /\ 254 \in Nat
          BY <1>1, <3>1, <4>1
        <5> HIDE DEF m
        <5>2. QED
          BY Zenon, <5>1, Monotone
      <4>4. Len(tail) \in Nat
        BY <1>4, LenProperties
      <4>5. QED
        BY <1>1, <1>4, <4>1, <4>2, <4>3, <4>4
    <3>3. pieces = [i \in 1 .. m |-> pieces[i]]
      BY DEF Split
    <3> HIDE DEF m, pieces
    <3>4. pieces \in [1 .. m -> Seq(Nat)]
      BY <3>1, <3>3
    <3>5. pieces \in Seq(Seq(Nat))
      BY <3>1, <3>4
    <3>6. QED
      BY <2>2, <3>1, <3>5, <3>2
  <2>3. QED
    BY <2>1, <2>2
<1> HIDE DEF rest
<1>6. <<head>> \in Seq(Seq(Nat)) /\ Len(<<head>>) = 1 /\ <<head>>[1] = head
  BY <1>3
<1>7. /\ Len(slice) = 1 + Len(rest)
      /\ slice[1] = head
      /\ \A i \in 2 .. Len(slice) : slice[i] = rest[i - 1]
  <2> DEFINE h == <<head>>
  <2>1. h \in Seq(Seq(Nat)) /\ Len(h) = 1 /\ h[1] = head
    BY <1>6
  <2>2. slice = h \o rest
    BY <1>2
  <2> HIDE DEF h, slice
  <2>3. /\ Len(h \o rest) = Len(h) + Len(rest)
        /\ \A i \in 1 .. Len(h) + Len(rest) :
             (h \o rest)[i] = IF i <= Len(h) THEN h[i] ELSE rest[i - Len(h)]
    <3>1. rest \in Seq(Seq(Nat))
      BY <1>5
    <3>2. QED
      BY <2>1, <3>1, ConcatProperties
  <2>4. Len(rest) \in Nat
    BY <1>5, LenProperties
  <2>5. QED
    BY <2>1, <2>2, <2>3, <2>4
<1>8. Len(rest) \in Nat
  BY <1>5, LenProperties
<1> HIDE DEF slice
<1>9. \A i \in 2 .. Len(slice) :
        slice[i] \in Seq(Nat) /\ Len(slice[i]) <= RestRoom
  <2> SUFFICES ASSUME NEW i \in 2 .. Len(slice)
               PROVE  slice[i] \in Seq(Nat) /\ Len(slice[i]) <= RestRoom
    OBVIOUS
  <2>1. i - 1 \in 1 .. Len(rest)
    BY <1>7, <1>8
  <2>2. rest[i - 1] \in Seq(Nat) /\ Len(rest[i - 1]) <= RestRoom
    BY <1>5, <2>1, ElementOfSeq
  <2>3. QED
    BY <1>7, <2>2
<1>10. QED
  BY <1>3, <1>5, <1>7, <1>8, <1>9 DEF slice, k

\* A part of the rest of a sequence is a part of the sequence.
LEMMA PartOfRest ==
    ASSUME NEW s \in Seq(Nat), NEW x \in 1 .. Len(s),
           NEW y \in 1 .. Len(s) - x + 1, NEW e \in 1 .. Len(s) - x + 1
    PROVE  SubSeq(SubSeq(s, x, Len(s)), y, e) = SubSeq(s, x + y - 1, x + e - 1)
  OBVIOUS

\* The slices of a post, one after the other, are what is posted.
LEMMA SlicesWhole ==
    ASSUME NEW bytes \in Seq(Nat), NEW path \in Seq(Nat), FirstRoom(path) > 0
    PROVE  /\ PostSlices(bytes, path) \in Seq(Seq(Nat))
           /\ FlattenSeq(PostSlices(bytes, path)) = bytes
<1> DEFINE k == FirstRoom(path)
           l == Len(bytes)
           head == SubSeq(bytes, 1, Least(k, l))
           tail == SubSeq(bytes, k + 1, l)
           parts == PostSlices(bytes, path)
<1>1. k \in Nat \ {0} /\ RestRoom \in Nat \ {0} /\ l \in Nat
  <2>1. Len(path) \in Nat /\ Len(bytes) \in Nat
    BY LenProperties
  <2>2. QED
    BY <2>1, RoomForAChunk DEF FirstRoom, RestRoom, REQ_FIXED_LEN, POST_HEADER_LEN
<1>2. parts = <<head>> \o (IF tail = <<>> THEN <<>> ELSE Split(tail, RestRoom))
  BY DEF PostSlices
<1> HIDE DEF k, parts
<1>3. head \in Seq(Nat)
  <2> DEFINE e == Least(k, l)
  <2>1. e \in Nat /\ e <= l
    BY <1>1 DEF Least
  <2> HIDE DEF e
  <2>2. \A i \in 1 .. e : bytes[i] \in Nat
    BY <1>1, <2>1, ElementOfSeq
  <2>3. SubSeq(bytes, 1, e) \in Seq(Nat)
    BY <2>1, <2>2, SubSeqProperties
  <2>4. QED
    BY <2>3 DEF e
<1>4. CASE l <= k
  <2>1. tail = <<>>
    BY <1>1, <1>4, SubSeqEmpty
  <2>2. head = bytes
    <3>1. Least(k, l) = l
      BY <1>1, <1>4 DEF Least
    <3>2. QED
      BY <3>1, SubSeqFull
  <2> DEFINE upTo == [i \in 0 .. 1 |-> IF i = 0 THEN 0 ELSE l]
  <2> HIDE DEF head, tail
  <2>3. parts = <<head>>
    BY <1>2, <2>1
  <2>4. Len(parts) = 1 /\ parts[1] = bytes /\ parts \in Seq(Seq(Nat))
    BY <2>2, <2>3
  <2>5. upTo[0] = 0 /\ upTo[1] = l
    OBVIOUS
  <2>6. SubSeq(bytes, 0 + 1, l) = bytes
    BY SubSeqFull
  <2>7. \A i \in 1 .. 1 : i = 1 /\ i - 1 = 0
    OBVIOUS
  <2> HIDE DEF upTo
  <2>8. Cuts(parts, bytes, upTo, 1)
    BY <1>1, <2>4, <2>5, <2>6, <2>7 DEF Cuts
  <2>9. FlattenSeq(parts) = bytes
    <3>1. 1 \in Nat \ {0} /\ Len(parts) = 1
      BY <2>4
    <3>2. QED
      BY Zenon, <2>8, <3>1, FlattenIs
  <2>10. QED
    BY <2>4, <2>9 DEF parts
<1>5. CASE l > k
  <2>1. tail \in Seq(Nat) /\ Len(tail) = l - k
    <3>1. \A i \in k + 1 .. l : bytes[i] \in Nat
      BY <1>1, ElementOfSeq
    <3>2. /\ tail \in Seq(Nat)
          /\ Len(tail) = IF k + 1 <= l THEN l - (k + 1) + 1 ELSE 0
      BY <1>1, <3>1, SubSeqProperties
    <3>3. QED
      BY <1>1, <1>5, <3>2
  <2>2. tail # <<>>
    <3> HIDE DEF tail
    <3>1. QED
      BY <1>1, <1>5, <2>1
  <2> DEFINE m == Chunks(tail, RestRoom)
             pieces == Split(tail, RestRoom)
             upTo == [i \in 0 .. m + 1 |->
                        IF i = 0 THEN 0 ELSE k + Least((i - 1) * RestRoom, l - k)]
  <2>3. /\ m \in Nat \ {0} /\ l - k <= m * RestRoom
        /\ \A i \in 1 .. m :
             (i - 1) * RestRoom \in Nat /\ (i - 1) * RestRoom < l - k
    BY <1>1, <2>1, <2>2, ChunksWithin
  <2>4. pieces = [i \in 1 .. m |-> SubSeq(tail, (i - 1) * RestRoom + 1,
                                          Least(i * RestRoom, Len(tail)))]
    BY DEF Split
  <2>5. \A i \in 1 .. m :
          pieces[i] = SubSeq(tail, (i - 1) * RestRoom + 1, Least(i * RestRoom, l - k))
    BY <2>1, <2>4
  <2>6. pieces \in Seq(Seq(Nat)) /\ Len(pieces) = m
    <3>1. /\ m \in Nat \ {0} /\ Len(pieces) = m
          /\ \A i \in 1 .. m : pieces[i] \in Seq(Nat)
      BY <1>1, <2>1, PiecesFit
    <3>2. pieces = [i \in 1 .. m |-> pieces[i]]
      BY DEF Split
    <3> HIDE DEF m, pieces
    <3>3. pieces \in [1 .. m -> Seq(Nat)]
      BY <3>1, <3>2
    <3>4. QED
      BY <3>1, <3>3
  <2> HIDE DEF m, pieces, head
  <2>7. parts = <<head>> \o pieces
    BY <1>2, <2>2 DEF pieces
  <2> HIDE DEF tail
  <2>8. /\ parts \in Seq(Seq(Nat)) /\ Len(parts) = m + 1 /\ parts[1] = head
        /\ \A i \in 2 .. m + 1 : parts[i] = pieces[i - 1]
    <3> DEFINE h == <<head>>
    <3>1. h \in Seq(Seq(Nat)) /\ Len(h) = 1 /\ h[1] = head
      BY <1>3
    <3>2. parts = h \o pieces
      BY <2>7
    <3> HIDE DEF h
    <3>3. /\ h \o pieces \in Seq(Seq(Nat))
          /\ Len(h \o pieces) = Len(h) + Len(pieces)
          /\ \A i \in 1 .. Len(h) + Len(pieces) :
               (h \o pieces)[i] = IF i <= Len(h) THEN h[i] ELSE pieces[i - Len(h)]
      BY <2>6, <3>1, ConcatProperties
    <3>4. QED
      BY <2>3, <2>6, <3>1, <3>2, <3>3
  <2>9. /\ upTo[0] = 0
        /\ \A i \in 1 .. m + 1 : upTo[i] = k + Least((i - 1) * RestRoom, l - k)
    BY <2>3
  <2> HIDE DEF upTo
  <2>10. upTo[1] = k
    <3>1. 1 \in 1 .. m + 1 /\ (1 - 1) * RestRoom = 0
      BY <1>1, <2>3
    <3>2. upTo[1] = k + Least(0, l - k)
      BY <2>9, <3>1
    <3>3. QED
      BY <1>1, <1>5, <3>2 DEF Least
  <2>11. upTo[m + 1] = l
    <3>1. m + 1 \in 1 .. m + 1 /\ (m + 1) - 1 = m
      BY <2>3
    <3>2. upTo[m + 1] = k + Least(m * RestRoom, l - k)
      BY <2>9, <3>1
    <3>3. m * RestRoom \in Nat
      BY <1>1, <2>3
    <3>4. QED
      BY <1>1, <1>5, <2>3, <3>2, <3>3 DEF Least
  <2>12. ASSUME NEW i \in 1 .. m + 1
         PROVE  /\ upTo[i - 1] \in Nat /\ upTo[i] \in Nat
                /\ upTo[i - 1] <= upTo[i] /\ upTo[i] <= l
                /\ parts[i] = SubSeq(bytes, upTo[i - 1] + 1, upTo[i])
    <3>1. CASE i = 1
      <4>1. upTo[i - 1] = 0 /\ upTo[i] = k
        BY <2>9, <2>10, <3>1
      <4>2. Least(k, l) = k
        BY <1>1, <1>5 DEF Least
      <4>3. parts[i] = SubSeq(bytes, 0 + 1, k)
        BY <2>8, <3>1, <4>2 DEF head
      <4>4. QED
        BY <1>1, <1>5, <4>1, <4>3
    <3>2. CASE i # 1
      <4> DEFINE c == i - 1
                 a == (c - 1) * RestRoom
                 b == c * RestRoom
                 e == Least(b, l - k)
      <4>1. /\ c \in 1 .. m /\ i \in 2 .. m + 1 /\ i = c + 1
            /\ c \in 1 .. m + 1 /\ i - 1 = c
        BY <2>3, <3>2
      <4>2. a \in Nat /\ a < l - k /\ b = a + RestRoom
        <5> HIDE DEF c
        <5>1. a \in Nat /\ a < l - k
          BY <2>3, <4>1
        <5>2. c \in Nat /\ RestRoom \in Nat
          BY <1>1, <2>3, <4>1
        <5>3. QED
          BY <5>1, <5>2
      <4>3. upTo[i - 1] = k + Least(a, l - k) /\ upTo[i] = k + e
        BY <2>9, <4>1
      <4>4. parts[i] = SubSeq(tail, a + 1, e)
        BY <2>5, <2>8, <4>1
      <4> HIDE DEF a, b, c
      <4>5. e \in Nat /\ a < e /\ e <= l - k
        BY <1>1, <1>5, <4>2 DEF Least
      <4>6. upTo[i - 1] = k + a
        BY <1>1, <4>2, <4>3 DEF Least
      <4> HIDE DEF e
      <4>7. SubSeq(tail, a + 1, e) = SubSeq(bytes, k + a + 1, k + e)
        <5> DEFINE x == k + 1
        <5>1. /\ x \in 1 .. l /\ l \in 1 .. l /\ a + 1 \in 1 .. l - x + 1
              /\ e \in 1 .. l - x + 1
          BY <1>1, <1>5, <4>2, <4>5
        <5>2. x + (a + 1) - 1 = k + a + 1 /\ x + e - 1 = k + e
          BY <1>1, <4>2, <4>5
        <5> HIDE DEF x
        <5>3. SubSeq(SubSeq(bytes, x, l), a + 1, e)
                = SubSeq(bytes, x + (a + 1) - 1, x + e - 1)
          <6> DEFINE y == a + 1
          <6>1. y \in 1 .. l - x + 1
            BY <5>1
          <6> HIDE DEF y
          <6>2. SubSeq(SubSeq(bytes, x, l), y, e) = SubSeq(bytes, x + y - 1, x + e - 1)
            BY Zenon, <5>1, <6>1, PartOfRest
          <6>3. QED
            BY Zenon, <6>2 DEF y
        <5>4. QED
          BY <5>2, <5>3 DEF x, tail
      <4>8. upTo[i] = k + e /\ upTo[i - 1] + 1 = k + a + 1
        BY <1>1, <4>2, <4>3, <4>6
      <4>9. parts[i] = SubSeq(bytes, upTo[i - 1] + 1, upTo[i])
        BY Zenon, <4>4, <4>7, <4>8
      <4>10. /\ upTo[i - 1] \in Nat /\ upTo[i] \in Nat
             /\ upTo[i - 1] <= upTo[i] /\ upTo[i] <= l
        BY <1>1, <4>2, <4>5, <4>6, <4>8
      <4>11. QED
        BY <4>9, <4>10
    <3>3. QED
      BY <3>1, <3>2
  <2>13. Cuts(parts, bytes, upTo, m + 1)
    BY <2>9, <2>11, <2>12 DEF Cuts
  <2>14. m + 1 \in Nat \ {0}
    BY <2>3
  <2>15. FlattenSeq(parts) = bytes
    BY <2>8, <2>13, <2>14, FlattenIs
  <2>16. QED
    BY <2>8, <2>15 DEF parts
<1>6. QED
  BY <1>1, <1>4, <1>5

-----------------------------------------------------------------------------

\* What is posted, and how far the call is.
CallOK ==
    /\ data \in Seq(Nat) /\ Len(data) <= 253 * RestRoom
    /\ dest \in Seq(Nat) /\ upload \in BOOLEAN /\ zdict \in 0 .. 7
    /\ n \in Nat /\ attempt \in Nat /\ state # "unencodable"
    /\ state = "sending" => FirstRoom(dest) > 0 /\ n < Len(Slices)

Frames == {EncodeRequest(r) : r \in Request}
Sendings == [attempt : Nat, frame : Frames]

\* Every transmission has an attempt of its own, in three bits of its frame.
SentOK ==
    /\ sent \in Seq(Sendings)
    /\ \A i \in 1 .. Len(sent) :
         /\ sent[i].attempt <= attempt
         /\ (sent[i].frame.flags \div 32) % 8 = sent[i].attempt % 8
    /\ \A i, j \in 1 .. Len(sent) : i < j => sent[i].attempt < sent[j].attempt

\* r is a request with the m-th slice.
OfSlice(r, m) ==
    /\ r.sub = POST /\ r.chunk = m /\ r.dict = zdict /\ r.upload = upload
    /\ m = 0 => r.path = dest /\ r.total = Len(Slices)
    /\ r.payload = Slices[m + 1]

\* What is on the air is of the slice in hand, and the server has read those
\* before it, in their order.
Readings == {OnWire(r) : r \in Request}

ReadOK ==
    /\ \A i \in 1 .. Len(sent) :
         \E r \in Request : OfSlice(r, n) /\ sent[i].frame = EncodeRequest(r)
    /\ arrived \in Seq(Readings) /\ Len(arrived) = n
    /\ \A i \in 1 .. n : OfSlice(arrived[i], i - 1)
    /\ state = "done" => FirstRoom(dest) > 0 /\ n = Len(Slices)

FramesInv == CallOK /\ SentOK /\ ReadOK

\* The request in hand is one the codec is made for, and fits the radio.
LEMMA NextRequestOK ==
    ASSUME CallOK, state = "sending"
    PROVE  NextRequest \in Request /\ RequestEncodes(NextRequest)
<1> DEFINE r == NextRequest
<1>1. /\ data \in Seq(Nat) /\ dest \in Seq(Nat) /\ upload \in BOOLEAN /\ zdict \in 0 .. 7
      /\ n \in Nat /\ attempt \in Nat /\ n < Len(Slices) /\ FirstRoom(dest) > 0
      /\ Len(data) <= 253 * RestRoom
  BY DEF CallOK
<1>2. /\ Len(Slices) \in 1 .. 255
      /\ Slices[1] \in Seq(Nat) /\ Len(Slices[1]) <= FirstRoom(dest)
      /\ \A i \in 2 .. Len(Slices) :
           Slices[i] \in Seq(Nat) /\ Len(Slices[i]) <= RestRoom
  <2> DEFINE slice == PostSlices(data, dest)
  <2>1. /\ Len(slice) \in Nat \ {0}
        /\ slice[1] \in Seq(Nat) /\ Len(slice[1]) <= FirstRoom(dest)
        /\ \A i \in 2 .. Len(slice) :
             slice[i] \in Seq(Nat) /\ Len(slice[i]) <= RestRoom
        /\ Len(data) <= 253 * RestRoom => Len(slice) <= 255
    BY <1>1, SlicesFit
  <2>2. Slices = slice
    BY DEF Slices
  <2> HIDE DEF slice
  <2>3. Len(slice) \in 1 .. 255
    <3> DEFINE l == Len(slice)
    <3>1. l \in Nat \ {0} /\ l <= 255
      BY <1>1, <2>1
    <3> HIDE DEF l
    <3>2. l \in 1 .. 255
      BY <3>1
    <3>3. QED
      BY <3>2 DEF l
  <2>4. QED
    BY <2>1, <2>2, <2>3
<1>3. /\ r.rid = 1 /\ r.prefix = 1 /\ r.sub = POST /\ r.chunk = n
      /\ r.dict = zdict /\ r.attempt = attempt + 1 /\ r.prefer = TRUE
      /\ r.upload = upload /\ r.token = 0
      /\ r.path = (IF n = 0 THEN dest ELSE <<>>)
      /\ r.total = (IF n = 0 THEN Len(Slices) ELSE 0)
      /\ r.checksum = (IF n = 0 THEN 7 ELSE 0) /\ r.payload = Slices[n + 1]
  BY DEF NextRequest
<1>4. r = [rid |-> r.rid, prefix |-> r.prefix, sub |-> r.sub,
           chunk |-> r.chunk, dict |-> r.dict, attempt |-> r.attempt,
           prefer |-> r.prefer, upload |-> r.upload, token |-> r.token,
           path |-> r.path, total |-> r.total, checksum |-> r.checksum,
           payload |-> r.payload]
  BY DEF NextRequest
<1> HIDE DEF r
<1>5. n \in 0 .. 254
  <2> DEFINE l == Len(Slices)
  <2>1. n \in Nat /\ n < l /\ l \in 1 .. 255
    BY <1>1, <1>2
  <2> HIDE DEF l
  <2>2. QED
    BY <2>1
<1>6. r.path \in Seq(Nat)
  BY <1>1, <1>3, EmptySeq
<1>7. r.payload \in Seq(Nat)
  <2>1. CASE n = 0
    BY <1>2, <1>3, <2>1
  <2>2. CASE n # 0
    <3>1. n + 1 \in 2 .. Len(Slices)
      BY <1>1, <1>2, <2>2
    <3>2. QED
      BY <1>2, <1>3, <3>1
  <2>3. QED
    BY <2>1, <2>2
<1>8. /\ r.rid \in 0 .. Word - 1 /\ r.prefix \in Nat /\ r.sub \in 0 .. 4
      /\ r.chunk \in 0 .. 255 /\ r.attempt \in Nat /\ r.token \in 0 .. 255
      /\ r.total \in 0 .. 255 /\ r.checksum \in Nat
  BY <1>1, <1>2, <1>3, <1>5, WordIsWide DEF POST
<1>9. r.dict \in 0 .. 7
  BY <1>1, <1>3
<1>10. r.prefer \in BOOLEAN /\ r.upload \in BOOLEAN
  BY Zenon, <1>1, <1>3
<1>11. r \in Request
  BY <1>4, <1>6, <1>7, <1>8, <1>9, <1>10 DEF Request, Subcommands, Byte
<1>12. RequestEncodes(r)
  <2> DEFINE f == EncodeRequest(r)
             p == Len(dest)
  <2>1. p \in Nat /\ FirstRoom(dest) = MaxSafe - (17 + p)
    BY <1>1, LenProperties DEF FirstRoom, REQ_FIXED_LEN, POST_HEADER_LEN
  <2>2. MaxSafe \in Nat /\ MaxSafe <= 273
    BY RoomForAChunk, ShortFrames DEF REQ_FIXED_LEN, POST_HEADER_LEN
  <2>3. CASE n = 0
    <3>1. /\ f.head = <<r.total % 256, r.checksum, Len(r.path)>>
          /\ f.rest = dest \o r.payload
      BY <1>3, <2>3 DEF EncodeRequest, POST, CONTINUE
    <3>2. f.head # <<>>
      BY <3>1
    <3>3. Len(f.rest) = p + Len(Slices[1])
      <4>1. r.payload = Slices[1]
        BY <1>3, <2>3
      <4>2. QED
        BY <1>1, <1>2, <3>1, <4>1, ConcatProperties
    <3>4. RequestSize(f) = 17 + Len(f.rest)
      BY <3>2 DEF RequestSize, REQ_FIXED_LEN, POST_HEADER_LEN
    <3>5. Len(Slices[1]) \in Nat
      BY <1>2, LenProperties
    <3> HIDE DEF f, p
    <3>6. RequestSize(f) <= MaxSafe /\ p <= 255
      BY <1>1, <1>2, <2>1, <2>2, <3>3, <3>4, <3>5
    <3>7. r.path = dest
      BY <1>3, <2>3
    <3>8. QED
      BY <3>6, <3>7 DEF RequestEncodes, f, p
  <2>4. CASE n # 0
    <3>1. f.head = <<>> /\ f.rest = r.payload
      BY <1>3, <2>4 DEF EncodeRequest, POST, CONTINUE
    <3>2. n + 1 \in 2 .. Len(Slices)
      BY <1>1, <1>2, <2>4
    <3>3. Len(r.payload) <= RestRoom
      BY <1>2, <1>3, <3>2
    <3>4. RequestSize(f) = 11 + Len(r.payload)
      BY <3>1 DEF RequestSize, REQ_FIXED_LEN
    <3>5. Len(r.payload) \in Nat
      BY <1>7, LenProperties
    <3> HIDE DEF f
    <3>6. RequestSize(f) <= MaxSafe
      BY <2>2, <3>3, <3>4, <3>5 DEF RestRoom, REQ_FIXED_LEN
    <3>7. r.chunk # 0
      BY <1>3, <2>4
    <3>8. QED
      BY <3>6, <3>7 DEF RequestEncodes, f
  <2>5. QED
    BY <2>3, <2>4
<1>13. QED
  BY <1>11, <1>12 DEF r

-----------------------------------------------------------------------------

\* Attempts are counted.
LEMMA SentAttempts ==
    SentOK => \A i \in 1 .. Len(sent) : sent[i].attempt \in Nat
<1> SUFFICES ASSUME SentOK, NEW i \in 1 .. Len(sent)
             PROVE  sent[i].attempt \in Nat
  OBVIOUS
<1>1. sent \in Seq(Sendings)
  BY DEF SentOK
<1>2. sent[i] \in Sendings
  BY <1>1, ElementOfSeq
<1>3. QED
  BY <1>2 DEF Sendings

\* The invariant holds at the start.
LEMMA InitInv == PostInit => FramesInv
<1> SUFFICES ASSUME PostInit PROVE FramesInv
  OBVIOUS
<1>1. PICK l \in 0 .. MaxLen : data = [i \in 1 .. l |-> i]
  BY DEF PostInit
<1>2. PICK d \in 1 .. MaxDest : dest = [i \in 1 .. d |-> 100 + i]
  BY DEF PostInit
<1>3. MaxLen \in Nat /\ MaxDest \in Nat /\ MaxLen <= 253 * RestRoom
      /\ RestRoom \in Nat
  BY PostFramesConstants, FewSlices, RoomForAChunk
     DEF RestRoom, REQ_FIXED_LEN, POST_HEADER_LEN
<1>4. data \in Seq(Nat) /\ Len(data) <= 253 * RestRoom
  BY <1>1, <1>3
<1>5. dest \in Seq(Nat)
  BY <1>2, <1>3
<1>6. /\ upload \in BOOLEAN /\ zdict \in 0 .. 7
      /\ n = 0 /\ attempt = 0 /\ sent = <<>>
      /\ state = IF FirstRoom(dest) <= 0 THEN "too long" ELSE "sending"
  <2>1. upload \in BOOLEAN
    BY Zenon DEF PostInit
  <2>2. zdict \in 0 .. 7
    BY DictConstants DEF PostInit
  <2>3. QED
    BY <2>1, <2>2 DEF PostInit
<1>7. state = "sending" => FirstRoom(dest) > 0 /\ n < Len(Slices)
  <2>1. SUFFICES ASSUME state = "sending"
                 PROVE  FirstRoom(dest) > 0 /\ n < Len(Slices)
    OBVIOUS
  <2>2. FirstRoom(dest) \in Int
    BY <1>5, RoomForAChunk, LenProperties
       DEF FirstRoom, REQ_FIXED_LEN, POST_HEADER_LEN
  <2>3. FirstRoom(dest) > 0
    BY <1>6, <2>1, <2>2
  <2>4. Len(Slices) \in Nat \ {0}
    BY <1>4, <1>5, <2>3, SlicesFit DEF Slices
  <2>5. n = 0
    BY <1>6
  <2>6. QED
    BY <2>3, <2>4, <2>5
<1>8. CallOK
  BY <1>4, <1>5, <1>6, <1>7 DEF CallOK
<1>9. SentOK
  <2>1. sent = <<>> /\ <<>> \in Seq(Sendings) /\ Len(<<>>) = 0
    BY <1>6, EmptySeq
  <2>2. QED
    BY <2>1 DEF SentOK
<1>10. ReadOK
  <2>1. sent = <<>> /\ arrived = <<>> /\ n = 0 /\ state # "done"
    BY <1>6 DEF PostInit
  <2>2. <<>> \in Seq(Readings) /\ Len(<<>>) = 0
    BY EmptySeq
  <2>3. QED
    BY <2>1, <2>2 DEF ReadOK
<1>11. QED
  BY <1>8, <1>9, <1>10 DEF FramesInv

\* What the server reads of a request with a slice is that slice.
LEMMA SliceIsRead ==
    ASSUME NEW r \in Request, NEW c, OfSlice(r, c)
    PROVE  /\ DecodeRequest(EncodeRequest(r)) \in Readings
           /\ OfSlice(DecodeRequest(EncodeRequest(r)), c)
<1>1. DecodeRequest(EncodeRequest(r)) = OnWire(r)
  BY RequestReadAsWritten
<1>2. r.upload \in BOOLEAN
  BY DEF Request
<1>3. OfSlice(OnWire(r), c)
  BY <1>2 DEF OfSlice, OnWire, POST, CONTINUE
<1>4. QED
  BY <1>1, <1>3 DEF Readings

\* A post goes on with the slice after those the server has read.
LEMMA StepReads == FramesInv /\ [PostNext]_postVars => ReadOK'
<1> SUFFICES ASSUME FramesInv, [PostNext]_postVars PROVE ReadOK'
  OBVIOUS
<1> USE DEF FramesInv
<1>1. CASE Transmit
  <2>1. state = "sending"
    BY <1>1 DEF Transmit
  <2>2. NextRequest \in Request /\ RequestEncodes(NextRequest)
    BY <2>1, NextRequestOK
  <2> DEFINE x == [attempt |-> attempt + 1, frame |-> EncodeRequest(NextRequest)]
  <2>3. sent' = Append(sent, x) /\ UNCHANGED <<data, dest, upload, zdict, n, state, arrived>>
    BY <1>1, <2>2 DEF Transmit
  <2>4. OfSlice(NextRequest, n) /\ x.frame = EncodeRequest(NextRequest)
    BY DEF OfSlice, NextRequest
  <2>5. x \in Sendings
    BY <2>2 DEF CallOK, Sendings, Frames
  <2> HIDE DEF x
  <2>6. /\ Len(sent') = Len(sent) + 1 /\ Len(sent) \in Nat
        /\ \A i \in 1 .. Len(sent) : sent'[i] = sent[i]
        /\ sent'[Len(sent')] = x
    BY <2>3, <2>5 DEF SentOK
  <2>7. ASSUME NEW i \in 1 .. Len(sent')
        PROVE  \E r \in Request : OfSlice(r, n) /\ sent'[i].frame = EncodeRequest(r)
    <3>1. i = Len(sent') \/ i \in 1 .. Len(sent)
      BY <2>6
    <3>2. QED
      BY <2>2, <2>4, <2>6, <3>1 DEF ReadOK
  <2>8. \A r, c : OfSlice(r, c)' <=> OfSlice(r, c)
    BY <2>3 DEF OfSlice, Slices
  <2>9. Slices' = Slices
    BY <2>3 DEF Slices
  <2>10. QED
    BY <2>3, <2>7, <2>8, <2>9 DEF ReadOK
<1>2. CASE Arrives
  <2>1. /\ n' = n + 1 /\ sent' = <<>> /\ state = "sending"
        /\ state' = IF n' = Len(Slices) THEN "done" ELSE state
        /\ UNCHANGED <<data, dest, upload, zdict>>
    BY <1>2 DEF Arrives
  <2>2. PICK i \in DOMAIN sent :
               arrived' = Append(arrived, DecodeRequest(sent[i].frame))
    BY <1>2 DEF Arrives
  <2>3. i \in 1 .. Len(sent)
    BY <2>2, LenProperties DEF SentOK
  <2>4. PICK r \in Request : OfSlice(r, n) /\ sent[i].frame = EncodeRequest(r)
    BY <2>3 DEF ReadOK
  <2> DEFINE d == DecodeRequest(sent[i].frame)
  <2>5. d \in Readings /\ OfSlice(d, n)
    BY <2>4, SliceIsRead
  <2> HIDE DEF d
  <2>6. /\ arrived' \in Seq(Readings) /\ Len(arrived') = n + 1 /\ n \in Nat
        /\ \A j \in 1 .. n : arrived'[j] = arrived[j]
        /\ arrived'[n + 1] = d
    <3>1. arrived' = Append(arrived, d) /\ arrived \in Seq(Readings) /\ Len(arrived) = n
      BY <2>2 DEF d, ReadOK
    <3>2. n \in Nat
      BY DEF CallOK
    <3>3. QED
      BY <2>5, <3>1, <3>2, AppendProperties
  <2>7. \A p, c : OfSlice(p, c)' <=> OfSlice(p, c)
    BY <2>1 DEF OfSlice, Slices
  <2>8. ASSUME NEW j \in 1 .. n' PROVE OfSlice(arrived'[j], j - 1)
    <3>1. CASE j = n + 1
      <4>1. j - 1 = n /\ arrived'[j] = d
        BY <2>6, <3>1
      <4>2. QED
        BY Zenon, <2>5, <4>1
    <3>2. CASE j # n + 1
      <4>1. j \in 1 .. n /\ arrived'[j] = arrived[j]
        BY <2>1, <2>6, <3>2
      <4>2. QED
        BY <4>1 DEF ReadOK
    <3>3. QED
      BY <3>1, <3>2
  <2>9. Slices' = Slices /\ FirstRoom(dest)' = FirstRoom(dest)
    BY <2>1 DEF Slices, FirstRoom
  <2>10. state' = "done" => FirstRoom(dest) > 0 /\ n' = Len(Slices)
    BY <2>1 DEF CallOK
  <2>11. Len(sent') = 0
    BY <2>1, EmptySeq
  <2>12. QED
    BY <2>1, <2>6, <2>7, <2>8, <2>9, <2>10, <2>11 DEF ReadOK
<1>3. CASE Refused \/ GivesUp \/ UNCHANGED postVars
  <2>1. /\ UNCHANGED <<data, dest, upload, zdict, n, sent, arrived>>
        /\ state' = state \/ state' = "gave up"
    BY <1>3 DEF Refused, GivesUp, postVars
  <2>2. /\ \A r, c : OfSlice(r, c)' <=> OfSlice(r, c)
        /\ Slices' = Slices /\ FirstRoom(dest)' = FirstRoom(dest)
    BY <2>1 DEF OfSlice, Slices, FirstRoom
  <2>3. QED
    BY <2>1, <2>2 DEF ReadOK
<1>4. QED
  BY <1>1, <1>2, <1>3 DEF PostNext

\* Every step keeps it.
LEMMA StepInv == FramesInv /\ [PostNext]_postVars => FramesInv'
<1> SUFFICES ASSUME FramesInv, [PostNext]_postVars PROVE CallOK' /\ SentOK'
  BY StepReads DEF FramesInv
<1> USE DEF FramesInv
<1>1. CASE Transmit
  <2>1. state = "sending" /\ attempt < MaxAttempts
    BY <1>1 DEF Transmit
  <2>2. NextRequest \in Request /\ RequestEncodes(NextRequest)
    BY <2>1, NextRequestOK
  <2> DEFINE x == [attempt |-> attempt + 1, frame |-> EncodeRequest(NextRequest)]
  <2>3. /\ sent' = Append(sent, x) /\ attempt' = attempt + 1
        /\ UNCHANGED <<data, dest, upload, zdict, n, state>>
    BY <1>1, <2>2 DEF Transmit
  <2>4. CallOK'
    BY <2>3 DEF CallOK, Slices
  <2>5. attempt \in Nat
    BY DEF CallOK
  <2>6. x.frame \in Frames
    BY <2>2 DEF Frames
  <2>7. (x.frame.flags \div 32) % 8 = x.attempt % 8
    <3>1. x.frame.flags = RequestFlags(NextRequest)
      BY DEF EncodeRequest
    <3>2. NextRequest.attempt = x.attempt
      BY DEF NextRequest
    <3>3. (RequestFlags(NextRequest) \div 32) % 8 = NextRequest.attempt % 8
      BY <2>2, RequestFlagsAreRead
    <3>4. QED
      BY <3>1, <3>2, <3>3
  <2>8. x \in Sendings /\ x.attempt = attempt + 1
    BY <2>5, <2>6 DEF Sendings
  <2> HIDE DEF x
  <2>9. /\ sent' \in Seq(Sendings)
        /\ Len(sent') = Len(sent) + 1 /\ Len(sent) \in Nat
        /\ \A i \in 1 .. Len(sent) : sent'[i] = sent[i]
        /\ sent'[Len(sent')] = x
    BY <2>3, <2>8 DEF SentOK
  <2>10. \A i \in 1 .. Len(sent) : sent[i].attempt \in Nat
    BY SentAttempts
  <2>11. ASSUME NEW i \in 1 .. Len(sent')
         PROVE  /\ sent'[i].attempt <= attempt'
                /\ (sent'[i].frame.flags \div 32) % 8 = sent'[i].attempt % 8
    <3>1. CASE i = Len(sent')
      BY <2>3, <2>5, <2>7, <2>8, <2>9, <3>1
    <3>2. CASE i # Len(sent')
      <4>1. i \in 1 .. Len(sent)
        BY <2>9, <3>2
      <4>2. /\ sent[i].attempt <= attempt
            /\ (sent[i].frame.flags \div 32) % 8 = sent[i].attempt % 8
        BY <4>1 DEF SentOK
      <4>3. QED
        BY <2>3, <2>5, <2>9, <2>10, <4>1, <4>2
    <3>3. QED
      BY <3>1, <3>2
  <2>12. ASSUME NEW i \in 1 .. Len(sent'), NEW j \in 1 .. Len(sent'), i < j
         PROVE  sent'[i].attempt < sent'[j].attempt
    <3>1. i \in 1 .. Len(sent)
      BY <2>9, <2>12
    <3>2. CASE j = Len(sent')
      <4>1. sent[i].attempt <= attempt /\ sent[i].attempt \in Nat
        BY <2>10, <3>1 DEF SentOK
      <4>2. sent'[i] = sent[i] /\ sent'[j] = x
        BY <2>9, <3>1, <3>2
      <4>3. QED
        BY <2>5, <2>8, <4>1, <4>2
    <3>3. CASE j # Len(sent')
      <4>1. j \in 1 .. Len(sent)
        BY <2>9, <3>3
      <4>2. sent[i].attempt < sent[j].attempt
        BY <2>12, <3>1, <4>1 DEF SentOK
      <4>3. QED
        BY <2>9, <3>1, <4>1, <4>2
    <3>4. QED
      BY <3>2, <3>3
  <2>13. SentOK'
    BY <2>9, <2>11, <2>12 DEF SentOK
  <2>14. QED
    BY <2>4, <2>13
<1>2. CASE Refused
  <2>1. attempt' = attempt + 1 /\ UNCHANGED <<data, dest, upload, zdict, n, sent, state>>
    BY <1>2 DEF Refused
  <2>2. CallOK'
    BY <2>1 DEF CallOK, Slices
  <2>3. attempt \in Nat /\ \A i \in 1 .. Len(sent) : sent[i].attempt \in Nat
    BY SentAttempts DEF CallOK
  <2>4. SentOK'
    BY <2>1, <2>3 DEF SentOK
  <2>5. QED
    BY <2>2, <2>4
<1>3. CASE Arrives
  <2>1. /\ n' = n + 1 /\ attempt' = 0 /\ sent' = <<>> /\ state = "sending"
        /\ state' = IF n' = Len(Slices) THEN "done" ELSE state
        /\ UNCHANGED <<data, dest, upload, zdict>>
    BY <1>3 DEF Arrives
  <2>2. Slices' = Slices
    BY <2>1 DEF Slices
  <2>3. n \in Nat /\ n < Len(Slices) /\ FirstRoom(dest) > 0
    BY <2>1 DEF CallOK
  <2>4. Len(Slices) \in Nat
    <3>1. data \in Seq(Nat) /\ dest \in Seq(Nat)
      BY DEF CallOK
    <3>2. QED
      BY <2>3, <3>1, SlicesFit DEF Slices
  <2>5. state' = "sending" => n' < Len(Slices)
    BY <2>1, <2>3, <2>4
  <2>6. CallOK'
    BY <2>1, <2>2, <2>3, <2>5 DEF CallOK
  <2>7. SentOK'
    BY <2>1, EmptySeq DEF SentOK
  <2>8. QED
    BY <2>6, <2>7
<1>4. CASE GivesUp
  BY <1>4 DEF GivesUp, CallOK, SentOK, Slices
<1>5. CASE UNCHANGED postVars
  BY <1>5 DEF postVars, CallOK, SentOK, Slices
<1>6. QED
  BY <1>1, <1>2, <1>3, <1>4, <1>5 DEF PostNext

\* FramesInv is an invariant.
THEOREM FramesInvariant == PostSpec => []FramesInv
<1>1. QED
  BY InitInv, StepInv, PTL DEF PostSpec

\* post() never makes a slice the radio has no room for, whatever the length
\* of the text and of the destination (client.py:452-461).
THEOREM SlicesEncode == PostSpec => []EverySliceEncodes
<1>1. FramesInv => EverySliceEncodes
  BY DEF FramesInv, CallOK, EverySliceEncodes
<1>2. QED
  BY <1>1, FramesInvariant, PTL

\* Two transmissions of a slice less than eight attempts apart differ in the
\* attempt their frames carry.
THEOREM NearRetries == PostSpec => []NearRetriesDiffer
<1>1. FramesInv => NearRetriesDiffer
  <2> SUFFICES ASSUME FramesInv, NEW i \in DOMAIN sent, NEW j \in DOMAIN sent,
                      i < j, sent[j].attempt - sent[i].attempt < 8
               PROVE  sent[i].frame # sent[j].frame
    BY DEF NearRetriesDiffer
  <2>1. i \in 1 .. Len(sent) /\ j \in 1 .. Len(sent)
    BY LenProperties DEF FramesInv, SentOK
  <2>2. sent[i].attempt \in Nat /\ sent[j].attempt \in Nat
    BY <2>1, SentAttempts DEF FramesInv
  <2>3. sent[i].attempt < sent[j].attempt
    BY <2>1 DEF FramesInv, SentOK
  <2>4. sent[j].attempt < sent[i].attempt + 8
    BY <2>2
  <2>5. sent[i].attempt % 8 # sent[j].attempt % 8
    BY <2>2, <2>3, <2>4, AttemptsDiffer
  <2>6. /\ (sent[i].frame.flags \div 32) % 8 = sent[i].attempt % 8
        /\ (sent[j].frame.flags \div 32) % 8 = sent[j].attempt % 8
    BY <2>1 DEF FramesInv, SentOK
  <2>7. QED
    BY <2>5, <2>6
<1>2. QED
  BY <1>1, FramesInvariant, PTL

\* The server puts together what was posted and for where it was meant, at any
\* length, whichever of the copies of a slice it reads.
THEOREM PostsArriveWhole == PostSpec => []PostArrivesWhole
<1>1. FramesInv => PostArrivesWhole
  <2> SUFFICES ASSUME FramesInv, state = "done" PROVE PostArrivesWhole
    BY DEF PostArrivesWhole
  <2>1. /\ data \in Seq(Nat) /\ dest \in Seq(Nat) /\ FirstRoom(dest) > 0
        /\ n = Len(Slices) /\ Len(arrived) = n /\ arrived \in Seq(Readings)
        /\ \A i \in 1 .. n : OfSlice(arrived[i], i - 1)
    BY DEF FramesInv, CallOK, ReadOK
  <2>2. Slices \in Seq(Seq(Nat)) /\ FlattenSeq(Slices) = data /\ Len(Slices) \in Nat \ {0}
    BY <2>1, SlicesWhole, SlicesFit DEF Slices
  <2>3. DOMAIN arrived = 1 .. n /\ 1 \in 1 .. n /\ 1 - 1 = 0
    BY <2>1, <2>2, LenProperties
  <2>4. \A i \in 1 .. n : (i - 1) + 1 = i
    BY <2>1, <2>2
  <2>5. \A i \in 1 .. n : /\ arrived[i].payload = Slices[i]
                          /\ arrived[i].chunk = i - 1 /\ arrived[i].upload = upload
                          /\ arrived[i].dict = zdict
    BY <2>1, <2>4 DEF OfSlice
  <2>6. [i \in DOMAIN arrived |-> arrived[i].payload] = Slices
    <3>1. Slices = [i \in 1 .. n |-> Slices[i]]
      BY <2>1, <2>2
    <3>2. QED
      BY <2>3, <2>5, <3>1
  <2>7. arrived[1].path = dest /\ arrived[1].total = Len(arrived)
    BY <2>1, <2>3 DEF OfSlice
  <2>8. FlattenSeq([i \in DOMAIN arrived |-> arrived[i].payload]) = data
    BY Zenon, <2>2, <2>6
  <2>9. QED
    BY <2>3, <2>5, <2>7, <2>8 DEF PostArrivesWhole
<1>2. QED
  BY <1>1, FramesInvariant, PTL

-----------------------------------------------------------------------------
(* Replies *)

\* What the server settles before the first chunk is sent.
AnswerOK ==
    /\ content \in Seq(Nat) /\ Chunks(content, MAX_CHUNK_PAYLOAD) \in 1 .. 255
    /\ size \in 0 .. Word - 1
    /\ compressed \in BOOLEAN /\ status \in 0 .. 7
    /\ ours \in Dicts /\ peer \in Dicts

\* The response sent last is one of the answer's, and was read as written.
LastOK ==
    last # Nothing =>
      /\ \E c \in 0 .. Chunks(content, MAX_CHUNK_PAYLOAD) - 1 : last = Response(c)
      /\ got # <<>> /\ got[Len(got)] = last

\* The client has read the chunks in their order, and none behind the last.
GotOK ==
    /\ got \in Seq(Responses) /\ Len(got) <= Len(Pieces)
    /\ \A i \in 1 .. Len(got) : got[i] = Response(i - 1)

ReplyInv == AnswerOK /\ LastOK /\ GotOK

-----------------------------------------------------------------------------

\* A chunk has room, whatever surrounds it.
LEMMA ChunkRoom ==
    /\ MAX_CHUNK_PAYLOAD \in Nat \ {0}
    /\ MAX_CHUNK_PAYLOAD + 13 = MaxSafe
  BY RoomForAChunk DEF MAX_CHUNK_PAYLOAD, RESP_FIXED_LEN, RESP_FIRST_EXTRA_LEN,
     CRC_LEN, REQ_FIXED_LEN, POST_HEADER_LEN

\* Every response of an answer is one the codec is made for.
LEMMA ResponsesWellFormed ==
    ASSUME AnswerOK, NEW c \in 0 .. Chunks(content, MAX_CHUNK_PAYLOAD) - 1
    PROVE  /\ Response(c) \in Responses /\ WellFormed(Response(c))
           /\ Len(Response(c).payload) <= MAX_CHUNK_PAYLOAD
           /\ Response(c) # Nothing
<1> DEFINE k == MAX_CHUNK_PAYLOAD
           t == Chunks(content, k)
           r == Response(c)
<1>1. /\ t \in 1 .. 255 /\ content \in Seq(Nat) /\ k \in Nat \ {0}
      /\ c \in 0 .. t - 1
  BY ChunkRoom DEF AnswerOK
<1>2. /\ Len(Pieces) = t
      /\ Pieces[c + 1] \in Seq(Nat) /\ Len(Pieces[c + 1]) <= k
  <2> HIDE DEF t, k
  <2>1. c + 1 \in 1 .. t
    BY <1>1
  <2>2. QED
    BY <1>1, <2>1, PiecesFit DEF Pieces, t, k
<1> HIDE DEF t, k
<1>3. r = [rid |-> 1, status |-> status, chunk |-> c,
           token |-> IF t = 1 THEN 0 ELSE 1, dict |-> dict,
           compressed |-> compressed, final |-> (c = t - 1),
           checksum |-> IF c = t - 1 /\ status = OK THEN <<7>> ELSE <<>>,
           size |-> IF c = 0 THEN size ELSE 0,
           total |-> IF c = 0 THEN t ELSE 0, payload |-> Pieces[c + 1]]
  BY <1>2 DEF Response
<1>4. c \in 0 .. 255
  <2>1. \A total \in 1 .. 255 : \A m \in 0 .. total - 1 : m \in 0 .. 255
    OBVIOUS
  <2>2. QED
    BY Zenon, <1>1, <2>1
<1>5. /\ status \in 0 .. 7 /\ dict \in 0 .. 7 /\ compressed \in BOOLEAN
      /\ size \in 0 .. Word - 1
  <2>1. ours \in 0 .. 7 /\ peer \in 0 .. 7
    BY DictConstants DEF AnswerOK
  <2>2. dict \in 0 .. 7
    BY <2>1 DEF dict, DictFor, DICT_NONE
  <2>3. QED
    BY <2>2 DEF AnswerOK
<1>6. /\ r.checksum \in Seq(Nat) /\ Len(r.checksum) \in {0, 1}
      /\ c # t - 1 => r.checksum = <<>>
  <2>1. CASE c = t - 1 /\ status = OK
    <3>1. r.checksum = <<7>>
      BY <1>3, <2>1
    <3>2. <<7>> \in Seq(Nat) /\ Len(<<7>>) = 1
      OBVIOUS
    <3>3. QED
      BY <2>1, <3>1, <3>2
  <2>2. CASE ~(c = t - 1 /\ status = OK)
    <3>1. r.checksum = <<>>
      BY <1>3, <2>2
    <3>2. QED
      BY <3>1, EmptySeq
  <2>3. QED
    BY <2>1, <2>2
<1>7. r.size \in 0 .. Word - 1 /\ (c # 0 => r.size = 0 /\ r.total = 0)
  BY <1>3, <1>5, WordIsWide
<1>8. r.total \in 0 .. 255
  BY <1>1, <1>3
<1>9. /\ r.rid = 1 /\ r.status = status /\ r.chunk = c /\ r.dict = dict
      /\ r.token \in 0 .. 255 /\ r.compressed = compressed
      /\ r.final = (c = t - 1) /\ r.payload = Pieces[c + 1]
  BY <1>3
<1>10. r = [rid |-> r.rid, status |-> r.status, chunk |-> r.chunk,
            token |-> r.token, dict |-> r.dict, compressed |-> r.compressed,
            final |-> r.final, checksum |-> r.checksum, size |-> r.size,
            total |-> r.total, payload |-> r.payload]
  BY <1>3
<1> HIDE DEF r
<1>11. r.rid \in 0 .. Word - 1 /\ r.final \in BOOLEAN
  BY <1>9, WordIsWide
<1>12. r \in Responses
  BY <1>2, <1>4, <1>5, <1>6, <1>7, <1>8, <1>9, <1>10, <1>11 DEF Responses
<1>13. WellFormed(r)
  BY <1>6, <1>7, <1>9 DEF WellFormed
<1>14. r # Nothing
  BY <1>10 DEF Nothing
<1>15. QED
  BY <1>2, <1>9, <1>12, <1>13, <1>14 DEF r, k

-----------------------------------------------------------------------------

\* The invariant holds at the start.
LEMMA ReplyInitInv == ReplyInit => ReplyInv
<1> SUFFICES ASSUME ReplyInit PROVE ReplyInv
  OBVIOUS
<1>1. AnswerOK => LastOK /\ GotOK
  <2>1. LastOK
    BY DEF ReplyInit, LastOK
  <2>2. got \in Seq(Responses) /\ Len(got) = 0
    BY EmptySeq DEF ReplyInit
  <2>3. AnswerOK => Len(Pieces) \in Nat \ {0}
    BY ChunkRoom, PiecesFit DEF Pieces, AnswerOK
  <2>4. QED
    BY <2>1, <2>2, <2>3 DEF GotOK
<1>2. CASE Refusal
  <2>1. content = <<>> /\ <<>> \in Seq(Nat)
    BY <1>2, EmptySeq DEF Refusal
  <2>2. Chunks(content, MAX_CHUNK_PAYLOAD) = 1
    BY <2>1 DEF Chunks
  <2>3. /\ size = 0 /\ compressed = FALSE /\ ours = DICT_NONE /\ peer = DICT_NONE
        /\ status \in Statuses
    BY <1>2 DEF Refusal
  <2>4. size \in 0 .. Word - 1
    BY <2>3, WordIsWide
  <2>5. compressed \in BOOLEAN /\ ours \in Dicts /\ peer \in Dicts /\ status \in 0 .. 7
    <3>1. compressed \in BOOLEAN
      BY Zenon, <2>3
    <3>2. ours \in Dicts /\ peer \in Dicts /\ status \in 0 .. 7
      BY <2>3, DictConstants DEF Statuses
    <3>3. QED
      BY <3>1, <3>2
  <2>6. content \in Seq(Nat) /\ Chunks(content, MAX_CHUNK_PAYLOAD) \in 1 .. 255
    BY <2>1, <2>2
  <2>7. QED
    BY <1>1, <2>4, <2>5, <2>6 DEF ReplyInv, AnswerOK
<1>3. CASE \E l, u \in 0 .. MaxSize + 1 : Page(l, u)
  <2>1. PICK l \in 0 .. MaxSize + 1, u \in 0 .. MaxSize + 1 : Page(l, u)
    BY <1>3
  <2>2. /\ ~TooLarge(l, u) /\ content = Bytes(l) /\ size = u /\ status = 0
        /\ compressed \in BOOLEAN /\ ours \in Dicts /\ peer \in Dicts
    BY <2>1, DictConstants DEF Page, OK
  <2>3. MaxSize \in 0 .. Word - 1 /\ MaxTotal \in 0 .. 255
    BY ReplyConstants
  <2>4. size \in 0 .. Word - 1
    BY <2>2, <2>3, WordIsWide DEF TooLarge
  <2>5. content \in Seq(Nat)
    BY <2>2, <2>3, WordIsWide DEF Bytes
  <2>6. Chunks(content, MAX_CHUNK_PAYLOAD) \in Nat \ {0}
    BY <2>5, ChunkRoom, ChunksWithin
  <2>7. Chunks(content, MAX_CHUNK_PAYLOAD) \in 1 .. 255
    BY <2>2, <2>3, <2>6 DEF TooLarge
  <2>8. QED
    BY <1>1, <2>2, <2>4, <2>5, <2>7 DEF ReplyInv, AnswerOK
<1>4. QED
  BY <1>2, <1>3 DEF ReplyInit

\* Every step keeps it.
LEMMA ReplyStepInv == ReplyInv /\ [ReplyNext]_replyVars => ReplyInv'
<1> SUFFICES ASSUME ReplyInv, [ReplyNext]_replyVars PROVE ReplyInv'
  OBVIOUS
<1> USE DEF ReplyInv
<1>1. CASE Deliver
  <2> DEFINE c == Len(got)
             t == Chunks(content, MAX_CHUNK_PAYLOAD)
  <2>1. AnswerOK' /\ t' = t
    BY <1>1 DEF Deliver, answer, AnswerOK
  <2>2. got \in Seq(Responses) /\ c \in Nat /\ t \in 1 .. 255
    BY LenProperties DEF AnswerOK, GotOK
  <2>3. Len(Pieces) = t
    BY ChunkRoom, PiecesFit DEF Pieces, AnswerOK
  <2>4. c \in 0 .. t - 1
    BY <1>1, <2>2, <2>3 DEF Deliver
  <2>5. /\ Response(c) \in Responses /\ WellFormed(Response(c))
        /\ Response(c) # Nothing
    BY <2>4, ResponsesWellFormed
  <2>6. last' = Response(c)
    BY <1>1 DEF Deliver
  <2>7. \A m : Response(m)' = Response(m)
    BY <1>1 DEF Deliver, answer, Response, Pieces, dict
  <2>8. got' = Append(got, last')
    BY <1>1, <2>5, <2>6, ResponseReadAsWritten DEF Deliver
  <2>9. /\ got' \in Seq(Responses) /\ got' # <<>> /\ Len(got') = c + 1
        /\ got'[Len(got')] = last'
        /\ \A i \in 1 .. c : got'[i] = got[i]
    BY <2>2, <2>5, <2>6, <2>8
  <2>10. \E m \in 0 .. t' - 1 : last' = Response(m)'
    BY <2>1, <2>4, <2>6, <2>7
  <2>11. ASSUME NEW i \in 1 .. c + 1 PROVE got'[i] = Response(i - 1)
    <3>1. CASE i = c + 1
      <4>1. i - 1 = c /\ got'[i] = last'
        BY <2>2, <2>9, <3>1
      <4>2. QED
        BY Zenon, <2>6, <4>1
    <3>2. CASE i # c + 1
      <4>1. i \in 1 .. c
        BY <2>2, <3>2
      <4>2. QED
        BY <2>9, <4>1 DEF GotOK
    <3>3. QED
      BY <3>1, <3>2
  <2>12. Pieces' = Pieces
    BY <1>1 DEF Deliver, answer, Pieces
  <2>13. c + 1 <= Len(Pieces)
    BY <2>2, <2>3, <2>4
  <2>14. GotOK'
    BY <2>7, <2>9, <2>11, <2>12, <2>13 DEF GotOK
  <2>15. QED
    BY <2>1, <2>9, <2>10, <2>14 DEF LastOK
<1>2. CASE UNCHANGED replyVars
  BY <1>2 DEF replyVars, AnswerOK, LastOK, GotOK, Response, Pieces, dict
<1>3. QED
  BY <1>1, <1>2 DEF ReplyNext

\* ReplyInv is an invariant.
THEOREM ReplyInvariant == ReplySpec => []ReplyInv
<1>1. QED
  BY ReplyInitInv, ReplyStepInv, PTL DEF ReplySpec

\* No chunk is refused by the encoder: each fits the radio as the first, the
\* last, both or neither (chunking.py takes room for all of it off each).
THEOREM RepliesEncode == ReplySpec => []EveryChunkEncodes
<1>1. ReplyInv => EveryChunkEncodes
  <2> SUFFICES ASSUME ReplyInv, last # Nothing PROVE ResponseEncodes(last)
    BY DEF EveryChunkEncodes
  <2>1. PICK c \in 0 .. Chunks(content, MAX_CHUNK_PAYLOAD) - 1 :
               last = Response(c)
    BY DEF ReplyInv, LastOK
  <2>2. /\ last \in Responses /\ WellFormed(last)
        /\ Len(last.payload) <= MAX_CHUNK_PAYLOAD
    BY <2>1, ResponsesWellFormed DEF ReplyInv
  <2>3. /\ last.total \in 0 .. 255 /\ last.size \in 0 .. Word - 1
        /\ last.payload \in Seq(Nat) /\ Len(last.checksum) \in {0, 1}
        /\ ~last.final => last.checksum = <<>>
    BY <2>2 DEF Responses, WellFormed
  <2>4. Crc(last) = last.checksum
    BY <2>3 DEF Crc
  <2>5. Len(last.payload) \in Nat
    BY <2>3, LenProperties
  <2>6. ResponseSize(last) <= MaxSafe
    <3> DEFINE a == Len(last.payload)
               d == Len(last.checksum)
    <3>1. a \in Nat /\ a <= MAX_CHUNK_PAYLOAD /\ d \in {0, 1}
      BY <2>2, <2>3, <2>5
    <3>2. ResponseSize(last) = 6 + (IF last.chunk = 0 THEN 3 ELSE 0) + a + 4 * d
      BY <2>4 DEF ResponseSize, RESP_FIXED_LEN, RESP_FIRST_EXTRA_LEN, CRC_LEN
    <3> HIDE DEF a, d
    <3>3. QED
      BY <3>1, <3>2, ChunkRoom
  <2>7. last.total <= 255
    <3>1. last.total \in 0 .. 255
      BY <2>3
    <3>2. QED
      BY <3>1
  <2>8. last.size < Word
    <3>1. last.size \in 0 .. Word - 1
      BY <2>3
    <3>2. QED
      BY <3>1, WordIsWide
  <2>9. QED
    BY <2>6, <2>7, <2>8 DEF ResponseEncodes
<1>2. QED
  BY <1>1, ReplyInvariant, PTL

\* What the client decodes is what the server encoded.
THEOREM RepliesReadAsWritten == ReplySpec => []ReadAsWritten
<1>1. ReplyInv => ReadAsWritten
  BY DEF ReplyInv, LastOK, ReadAsWritten
<1>2. QED
  BY <1>1, ReplyInvariant, PTL

\* Whatever dictionaries the two builds have, the client can open every reply.
THEOREM RepliesCanBeOpened == ReplySpec => []RepliesOpen
<1>1. ReplyInv => RepliesOpen
  <2> SUFFICES ASSUME ReplyInv, last # Nothing
               PROVE  Decompresses(got[Len(got)].dict, peer)
    BY DEF RepliesOpen
  <2>1. PICK c \in 0 .. Chunks(content, MAX_CHUNK_PAYLOAD) - 1 :
               last = Response(c)
    BY DEF ReplyInv, LastOK
  <2>2. got[Len(got)].dict = dict
    BY <2>1 DEF ReplyInv, LastOK, Response
  <2>3. QED
    BY <2>2 DEF dict, DictFor, Decompresses
<1>2. QED
  BY <1>1, ReplyInvariant, PTL

\* The chunks make the content again, at any length, and the last one alone
\* says it is final.
THEOREM RepliesArriveWhole == ReplySpec => []ContentArrivesWhole
<1>1. ReplyInv => ContentArrivesWhole
  <2> SUFFICES ASSUME ReplyInv, Len(got) = Len(Pieces) PROVE ContentArrivesWhole
    BY DEF ContentArrivesWhole
  <2> DEFINE t == Len(Pieces)
  <2>1. /\ Pieces = [i \in 1 .. t |-> Pieces[i]]
        /\ t \in Nat \ {0} /\ FlattenSeq(Pieces) = content
    <3>1. content \in Seq(Nat) /\ MAX_CHUNK_PAYLOAD \in Nat \ {0}
      BY ChunkRoom DEF ReplyInv, AnswerOK
    <3>2. t = Chunks(content, MAX_CHUNK_PAYLOAD) /\ t \in Nat \ {0}
      BY <3>1, PiecesFit DEF Pieces
    <3>3. FlattenSeq(Pieces) = content
      BY <3>1, SplitWhole DEF Pieces
    <3>4. DOMAIN Pieces = 1 .. t /\ Pieces = [i \in DOMAIN Pieces |-> Pieces[i]]
      BY <3>2 DEF Pieces, Split
    <3>5. QED
      BY <3>2, <3>3, <3>4
  <2> HIDE DEF t
  <2>2. /\ got \in Seq(Responses) /\ Len(got) = t
        /\ \A i \in 1 .. t : got[i] = Response(i - 1)
    BY DEF ReplyInv, GotOK, t
  <2>3. DOMAIN got = 1 .. t /\ 1 \in 1 .. t /\ 1 - 1 = 0
    BY <2>1, <2>2, LenProperties
  <2>4. \A i \in 1 .. t : (i - 1) + 1 = i /\ (i - 1 = t - 1 <=> i = t)
    BY <2>1
  <2>5. \A c : /\ Response(c).payload = Pieces[c + 1]
               /\ Response(c).final = (c = t - 1)
               /\ Response(c).total = IF c = 0 THEN t ELSE 0
    BY DEF Response, t
  <2>6. \A i \in 1 .. t : got[i].payload = Pieces[i] /\ (got[i].final <=> i = t)
    <3> SUFFICES ASSUME NEW i \in 1 .. t
                 PROVE  got[i].payload = Pieces[i] /\ (got[i].final <=> i = t)
      OBVIOUS
    <3>1. got[i].payload = Pieces[(i - 1) + 1] /\ got[i].final = (i - 1 = t - 1)
      <4> DEFINE c == i - 1
      <4>1. got[i] = Response(c)
        BY <2>2
      <4>2. Response(c).payload = Pieces[c + 1] /\ Response(c).final = (c = t - 1)
        BY <2>5
      <4> HIDE DEF c
      <4>3. got[i].payload = Pieces[c + 1] /\ got[i].final = (c = t - 1)
        BY <4>1, <4>2
      <4>4. QED
        BY <4>3 DEF c
    <3>2. (i - 1) + 1 = i /\ (i - 1 = t - 1 <=> i = t)
      BY <2>4
    <3>3. QED
      BY Zenon, <3>1, <3>2
  <2>7. [i \in DOMAIN got |-> got[i].payload] = Pieces
    BY <2>1, <2>3, <2>6
  <2>8. got[1].total = t
    BY <2>2, <2>3, <2>5
  <2>9. FlattenSeq([i \in DOMAIN got |-> got[i].payload]) = content
    BY Zenon, <2>1, <2>7
  <2>10. QED
    BY <2>2, <2>3, <2>6, <2>8, <2>9 DEF ContentArrivesWhole
<1>2. QED
  BY <1>1, ReplyInvariant, PTL

-----------------------------------------------------------------------------
(* Both over one radio *)

\* The half that is at rest stutters.
LEMMA StepOfBoth == [Next]_vars => [PostNext]_postVars /\ [ReplyNext]_replyVars
BY DEF Next, Up, Down, vars

LEMMA PostHalf == Spec => PostSpec
<1>1. Init => PostInit
  BY DEF Init
<1>2. QED
  BY <1>1, StepOfBoth, PTL DEF Spec, PostSpec

LEMMA ReplyHalf == Spec => ReplySpec
<1>1. Init => ReplyInit
  BY DEF Init
<1>2. QED
  BY <1>1, StepOfBoth, PTL DEF Spec, ReplySpec

\* No frame of a post or a reply is refused by the encoder, at any length of
\* text, destination and content, and the client reads what the server wrote and
\* can open it.
THEOREM FramesAlwaysHold == Spec => []FramesHold
BY PostHalf, ReplyHalf, SlicesEncode, RepliesEncode, RepliesReadAsWritten,
   RepliesCanBeOpened, PTL
   DEF FramesHold

\* What is posted or sent is put together again at the other end.
THEOREM AllArrivesWhole == Spec => []ArrivesWhole
BY PostHalf, ReplyHalf, PostsArriveWhole, RepliesArriveWhole, PTL DEF ArrivesWhole

\* Retries of a slice less than eight attempts apart are different frames.
THEOREM RetriesDiffer == Spec => []NearRetriesDiffer
BY PostHalf, NearRetries, PTL
=============================================================================
