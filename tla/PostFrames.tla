----------------------------- MODULE PostFrames -----------------------------
(***************************************************************************)
(* The frames of one post: the client cuts it into slices and sends each   *)
(* until it is acknowledged (_send_and_wait), with the number of the       *)
(* attempt in the frame; the server decodes what arrives and puts the      *)
(* slices together.  What the order of frames, expiry and restarts do is   *)
(* the business of PostUpload.                                             *)
(***************************************************************************)
EXTENDS Envelope, Compression, SequencesExt

CONSTANTS
    MaxDest,        \* bound: bytes of the destination
    MaxLen,         \* bound: bytes of the post
    MaxAttempts     \* bound: attempts at a frame; 90 s of them, 5.5 s apart

ASSUME PostFramesConstants ==
    MaxDest \in Nat /\ MaxLen \in Nat /\ MaxAttempts \in Nat

\* A destination that leaves room in the first frame fits its length byte;
\* MAX_SAFE_PAYLOAD is 160.
ASSUME ShortFrames == MaxSafe <= 256 + REQ_FIXED_LEN + POST_HEADER_LEN

\* The slices can be counted in a byte; what boards take is far below that.
ASSUME FewSlices == MaxLen <= 253 * RestRoom

VARIABLES
    data, dest,     \* what is posted and where to
    upload, zdict,  \* it is compressed, and with which dictionary
    n,              \* the slice in hand
    attempt,        \* attempts at it so far
    sent,           \* frames of it that were transmitted, with their attempt
    state,          \* of the call: "sending", "done", "too long" (the
                    \* destination), "unencodable", "gave up"
    arrived         \* requests the server decoded, by slice

postVars == <<data, dest, upload, zdict, n, attempt, sent, state, arrived>>

Slices == PostSlices(data, dest)

\* The bytes are told apart by their place.  The client compresses with the
\* dictionary it has, and does not know what the server has.
PostInit ==
    /\ \E l \in 0 .. MaxLen : data = [i \in 1 .. l |-> i]
    /\ \E d \in 1 .. MaxDest : dest = [i \in 1 .. d |-> 100 + i]
    /\ \/ upload = FALSE /\ zdict = DICT_NONE
       \/ upload = TRUE /\ zdict \in Dicts
    /\ n = 0 /\ attempt = 0 /\ sent = <<>> /\ arrived = <<>>
    /\ state = IF FirstRoom(dest) <= 0 THEN "too long" ELSE "sending"

NextRequest ==
    [rid |-> 1, prefix |-> 1, sub |-> POST, chunk |-> n, dict |-> zdict,
     attempt |-> attempt + 1, prefer |-> TRUE, upload |-> upload, token |-> 0,
     path |-> IF n = 0 THEN dest ELSE <<>>,
     total |-> IF n = 0 THEN Len(Slices) ELSE 0,
     checksum |-> IF n = 0 THEN 7 ELSE 0, payload |-> Slices[n + 1]]

\* The frame is encoded and transmitted; an EnvelopeError is not retried.
Transmit ==
    /\ state = "sending" /\ attempt < MaxAttempts
    /\ IF RequestEncodes(NextRequest)
       THEN /\ sent' = Append(sent, [attempt |-> attempt + 1,
                                     frame |-> EncodeRequest(NextRequest)])
            /\ attempt' = attempt + 1
            /\ UNCHANGED state
       ELSE /\ state' = "unencodable"
            /\ UNCHANGED <<sent, attempt>>
    /\ UNCHANGED <<data, dest, upload, zdict, n, arrived>>

\* The radio refuses the frame; the attempt counts.
Refused ==
    /\ state = "sending" /\ attempt < MaxAttempts
    /\ RequestEncodes(NextRequest)
    /\ attempt' = attempt + 1
    /\ UNCHANGED <<data, dest, upload, zdict, n, sent, state, arrived>>

\* A frame is decoded and acknowledged, the client goes on.
Arrives ==
    /\ state = "sending"
    /\ \E i \in DOMAIN sent :
         arrived' = Append(arrived, DecodeRequest(sent[i].frame))
    /\ n' = n + 1
    /\ state' = IF n' = Len(Slices) THEN "done" ELSE state
    /\ attempt' = 0 /\ sent' = <<>>
    /\ UNCHANGED <<data, dest, upload, zdict>>

GivesUp ==
    /\ state = "sending" /\ attempt = MaxAttempts
    /\ state' = "gave up"
    /\ UNCHANGED <<data, dest, upload, zdict, n, attempt, sent, arrived>>

PostNext == Transmit \/ Refused \/ Arrives \/ GivesUp

PostSpec == PostInit /\ [][PostNext]_postVars

-----------------------------------------------------------------------------
(* Properties *)

\* The slices post() makes fit the radio, at every length of the post and of
\* its destination.
EverySliceEncodes == state # "unencodable"

\* The server puts together what was posted, and for where it was meant.
PostArrivesWhole ==
    state = "done" =>
      /\ FlattenSeq([i \in DOMAIN arrived |-> arrived[i].payload]) = data
      /\ \A i \in DOMAIN arrived :
           /\ arrived[i].chunk = i - 1 /\ arrived[i].upload = upload
           /\ arrived[i].dict = zdict
      /\ arrived[1].path = dest /\ arrived[1].total = Len(arrived)

\* Retries less than eight attempts apart differ on the wire, so the mesh
\* does not take one for a copy of another.
NearRetriesDiffer ==
    \A i, j \in DOMAIN sent :
      i < j /\ sent[j].attempt - sent[i].attempt < 8
        => sent[i].frame # sent[j].frame
=============================================================================
