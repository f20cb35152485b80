----------------------------- MODULE PostUpload -----------------------------
(***************************************************************************)
(* The POST path: VagrantNetClient.post with its stop-and-wait loop        *)
(* (_send_and_wait) on one side, VagrantNetServer._handle_post with the    *)
(* in-memory UploadStore on the other, and a radio link between them that  *)
(* loses and reorders frames.                                              *)
(*                                                                         *)
(* A poster is one call of post().  A key is the pair (client prefix,      *)
(* request id) an upload is filed under; request ids are drawn at random   *)
(* and the model draws each key once (two draws meeting in the 16-bit      *)
(* space is left out).  Payloads are abstracted to "intact" or "corrupt":  *)
(* which poster's chunk a frame carries is given by its key and number.    *)
(*                                                                         *)
(* Time is a clock that ticks; a client timer fires at its instant (Tick   *)
(* waits for it), a frame lives MaxDelay at most.  The store sweeps before *)
(* every read, so an expired entry is one that is never seen again: it is  *)
(* kept here and Live / Remembered say whether a read still finds it.      *)
(***************************************************************************)
EXTENDS Integers, FiniteSets

CONSTANTS
    Posters,        \* calls of post()
    Keys,           \* (client prefix, request id) pairs, drawn once each
    NoKey,          \* a poster that has drawn no key yet
    Total,          \* number of chunks of a post
    Rejected,       \* posters whose assembled body _commit_post turns down
    UploadTTL,      \* UploadStore.ttl, for uploads and for committed ids
    MaxOpen,        \* UploadStore.max_open
    ChunkTimeout,   \* _chunk_timeout(hops)
    RetryDeadline,  \* max(CHUNK_RETRY_DEADLINE_SECONDS, 3 * timeout)
    MinJitter,      \* CHUNK_RETRY_JITTER_SECONDS
    MaxJitter,
    MaxDelay,       \* longest life of a frame on the mesh
    MaxLosses,      \* bound: restarts of the server, appends that raise
    MaxCorrupt,     \* bound: request frames that arrive with a bad payload
    MaxTime,        \* bound: the clock
    LatestStart     \* bound: when a call of post() may begin

Never == -1
NoOne == "no-one"
MaxPostRestarts == 2
Last == Total - 1
Chunk == 0 .. Last

ASSUME PostConstants ==
    /\ NoKey \notin Keys
    /\ NoOne \notin Posters
    /\ Rejected \subseteq Posters
    /\ Total \in Nat \ {0}
    /\ UploadTTL \in Nat /\ MaxOpen \in Nat
    /\ ChunkTimeout \in Nat \ {0} /\ RetryDeadline \in Nat
    /\ MinJitter \in Nat /\ MaxJitter \in Nat /\ MinJitter <= MaxJitter
    /\ MaxDelay \in Nat

\* The last copy of a chunk leaves within RetryDeadline + MaxJitter of the
\* first and is heard MaxDelay later at most; both memories of the server
\* outlive that (105 s + 2 s + MaxDelay against 120 s).
ASSUME DedupeWindow == RetryDeadline + MaxJitter + MaxDelay <= UploadTTL

VARIABLES
    now,        \* the clock
    call,       \* the state of each post() call
    drawn,      \* when each key was drawn, or Never
    owner,      \* the poster that drew the key, or NoOne
    reqs,       \* POST frames in the air
    acks,       \* answers in the air
    started,    \* UploadStore._open: Upload.started, or Never
    have,       \* Upload.chunks: the indices stored
    bad,        \* those of them stored from a corrupt frame
    markedAt,   \* UploadStore._committed, or Never
    stored,     \* times the post under this key was appended to the board
    posting,    \* config.enable_posting
    losses,     \* times the server dropped uploads: restarts, failed appends
    corrupted   \* corrupt frames so far

timeVars == <<now, losses, corrupted>>
linkVars == <<reqs, acks>>
keyVars == <<drawn, owner>>
serverVars == <<started, have, bad, markedAt, stored, posting>>
vars == <<now, call, drawn, owner, reqs, acks, started, have, bad, markedAt,
          stored, posting, losses, corrupted>>

Phase == {"idle", "send", "wait", "ok", "failed"}
Refusal == {"ACCESS_DENIED", "ERROR", "INVALID_REQUEST", "NOT_FOUND"}
Status == {"OK", "UNKNOWN_TOKEN"} \cup Refusal

\* phase, key and n: the request in hand; since: when _send_and_wait was
\* entered for it; at: when it is due ("send") or was sent ("wait");
\* retries: restarts of the whole post; warned: an ack named another chunk.
Call == [phase : Phase, key : Keys \cup {NoKey}, n : Chunk, since : Nat,
         at : Nat, retries : 0 .. MaxPostRestarts, warned : BOOLEAN]

Req == [key : Keys, n : Chunk, sent : Nat]
Ack == [key : Keys, n : Chunk, status : Status, sent : Nat]

Init ==
    /\ now = 0
    /\ call = [p \in Posters |->
                 [phase |-> "idle", key |-> NoKey, n |-> 0, since |-> 0,
                  at |-> 0, retries |-> 0, warned |-> FALSE]]
    /\ drawn = [k \in Keys |-> Never]
    /\ owner = [k \in Keys |-> NoOne]
    /\ reqs = {}
    /\ acks = {}
    /\ started = [k \in Keys |-> Never]
    /\ have = [k \in Keys |-> {}]
    /\ bad = [k \in Keys |-> {}]
    /\ markedAt = [k \in Keys |-> Never]
    /\ stored = [k \in Keys |-> 0]
    /\ posting \in BOOLEAN
    /\ losses = 0
    /\ corrupted = 0

-----------------------------------------------------------------------------
(* The client *)

\* A fresh request id, and chunk 0 of the post to send at once.
Begin(p, k, retries) ==
    /\ drawn[k] = Never
    /\ drawn' = [drawn EXCEPT ![k] = now]
    /\ owner' = [owner EXCEPT ![k] = p]
    /\ call' = [call EXCEPT ![p] =
                  [phase |-> "send", key |-> k, n |-> 0, since |-> now,
                   at |-> now, retries |-> retries, warned |-> FALSE]]

StartPost(p) ==
    /\ call[p].phase = "idle"
    /\ now <= LatestStart
    /\ \E k \in Keys : Begin(p, k, 0)
    /\ UNCHANGED <<timeVars, linkVars, serverVars>>

SendDue(p) == call[p].phase = "send" /\ now >= call[p].at

Send(p) ==
    /\ SendDue(p)
    /\ reqs' = reqs \cup {[key |-> call[p].key, n |-> call[p].n, sent |-> now]}
    /\ call' = [call EXCEPT ![p].phase = "wait", ![p].at = now]
    /\ UNCHANGED <<timeVars, acks, keyVars, serverVars>>

\* Variants of the code, used to see that the properties notice them.
DeadlineFromLastTry(p) ==
    \/ /\ now >= call[p].at + RetryDeadline
       /\ call' = [call EXCEPT ![p].phase = "failed"]
    \/ /\ now < call[p].at + RetryDeadline
       /\ \E j \in MinJitter .. MaxJitter :
            call' = [call EXCEPT ![p].phase = "send", ![p].at = now + j]

\* An attempt came to nothing: give up past the deadline, else sleep a
\* random jitter and send the same request id again.
RetryOrGiveUp(p) ==
    \/ /\ now >= call[p].since + RetryDeadline
       /\ call' = [call EXCEPT ![p].phase = "failed"]
    \/ /\ now < call[p].since + RetryDeadline
       /\ \E j \in MinJitter .. MaxJitter :
            call' = [call EXCEPT ![p].phase = "send", ![p].at = now + j]

\* The radio refuses the frame, nothing is transmitted.
SendRefused(p) ==
    /\ SendDue(p)
    /\ RetryOrGiveUp(p)
    /\ UNCHANGED <<timeVars, linkVars, keyVars, serverVars>>

\* Variant: the answer is awaited without a timeout.
WaitsForEver(p) == FALSE

WaitOver(p) ==
    call[p].phase = "wait" /\ now >= call[p].at + ChunkTimeout

Timeout(p) ==
    /\ WaitOver(p)
    /\ RetryOrGiveUp(p)
    /\ UNCHANGED <<timeVars, linkVars, keyVars, serverVars>>

\* _pending is keyed by request id alone, so any answer to any chunk of this
\* post resolves the wait.
Hears(p, a) ==
    /\ call[p].phase = "wait"
    /\ a.key = call[p].key
    /\ acks' = acks \ {a}

\* An ack for another chunk is only logged; the loop moves on all the same.
AckAdvances(p, a) ==
    /\ Hears(p, a)
    /\ a.status = "OK"
    /\ LET c == call[p]
           h == c.warned \/ a.n # c.n
       IN  call' = [call EXCEPT ![p] =
                      IF c.n = Last
                      THEN [c EXCEPT !.phase = "ok", !.warned = h]
                      ELSE [c EXCEPT !.phase = "send", !.n = c.n + 1,
                                     !.since = now, !.at = now, !.warned = h]]
    /\ UNCHANGED <<timeVars, reqs, keyVars, serverVars>>

\* The server lost the partial post: the whole post again, under a new id.
AckRestarts(p, a) ==
    /\ Hears(p, a)
    /\ a.status = "UNKNOWN_TOKEN"
    /\ call[p].n > 0
    /\ call[p].retries < MaxPostRestarts
    /\ \E k \in Keys : Begin(p, k, call[p].retries + 1)
    /\ UNCHANGED <<timeVars, reqs, serverVars>>

AckFails(p, a) ==
    /\ Hears(p, a)
    /\ \/ a.status \in Refusal
       \/ /\ a.status = "UNKNOWN_TOKEN"
          /\ call[p].n = 0 \/ call[p].retries = MaxPostRestarts
    /\ call' = [call EXCEPT ![p].phase = "failed"]
    /\ UNCHANGED <<timeVars, reqs, keyVars, serverVars>>

Client(p) ==
    \/ StartPost(p)
    \/ Send(p)
    \/ SendRefused(p)
    \/ Timeout(p)
    \/ \E a \in acks :
         AckAdvances(p, a) \/ AckRestarts(p, a) \/ AckFails(p, a)

-----------------------------------------------------------------------------
(* The server: one POST frame, handled without a suspension up to its ack *)

\* Variant: committed ids are not looked up.
ForgetsCommitted(k) == FALSE

\* What a read of the store finds, after the sweep that precedes it.
Live(k) == started[k] # Never /\ now - started[k] <= UploadTTL
Remembered(k) == markedAt[k] # Never /\ now - markedAt[k] <= UploadTTL
Open == {k \in Keys : Live(k)}

\* Variant: one upload too many.
BeginsOneMore(k) == Live(k) \/ Cardinality(Open) <= MaxOpen

\* UploadStore.begin keeps an upload that is already open under the key.
CanBegin(k) == Live(k) \/ Cardinality(Open) < MaxOpen
Has(k) == IF Live(k) THEN have[k] ELSE {}
Bad(k) == IF Live(k) THEN bad[k] ELSE {}

\* The frame leaves the air and its answer takes to it.
Answer(m, status) ==
    /\ reqs' = reqs \ {m}
    /\ acks' = acks \cup {[key |-> m.key, n |-> m.n, status |-> status,
                           sent |-> now]}
    /\ UNCHANGED <<now, losses, posting, call, keyVars>>

Deny(m) ==
    /\ ~posting
    /\ Answer(m, "ACCESS_DENIED")
    /\ UNCHANGED <<started, have, bad, markedAt, stored, corrupted>>

AckCommitted(m) ==
    /\ posting
    /\ Remembered(m.key)
    /\ Answer(m, "OK")
    /\ UNCHANGED <<started, have, bad, markedAt, stored, corrupted>>

TooManyOpen(m) ==
    /\ posting
    /\ ~Remembered(m.key)
    /\ m.n = 0
    /\ ~CanBegin(m.key)
    /\ Answer(m, "ERROR")
    /\ UNCHANGED <<started, have, bad, markedAt, stored, corrupted>>

UploadUnknown(m) ==
    /\ posting
    /\ ~Remembered(m.key)
    /\ m.n > 0
    /\ ~Live(m.key)
    /\ Answer(m, "UNKNOWN_TOKEN")
    /\ UNCHANGED <<started, have, bad, markedAt, stored, corrupted>>

\* The chunk joins the upload; a chunk sent again overwrites its slot.
\* crc is whether this frame's payload is corrupt.
Accepts(m, crc) ==
    /\ posting
    /\ ~Remembered(m.key)
    /\ IF m.n = 0 THEN CanBegin(m.key) ELSE Live(m.key)
    /\ crc => corrupted < MaxCorrupt
    /\ corrupted' = IF crc THEN corrupted + 1 ELSE corrupted

HasAfter(m) == Has(m.key) \cup {m.n}
BadAfter(m, crc) == IF crc THEN Bad(m.key) \cup {m.n} ELSE Bad(m.key) \ {m.n}

Keep(m, crc) ==
    /\ started' = [started EXCEPT ![m.key] = IF Live(m.key) THEN @ ELSE now]
    /\ have' = [have EXCEPT ![m.key] = HasAfter(m)]
    /\ bad' = [bad EXCEPT ![m.key] = BadAfter(m, crc)]
    /\ UNCHANGED <<markedAt, stored>>

AcceptPartial(m, crc) ==
    /\ Accepts(m, crc)
    /\ HasAfter(m) # Chunk
    /\ Keep(m, crc)
    /\ Answer(m, "OK")

\* Variant: the id counts as committed before the checksum is looked at.
MarksBeforeChecksum(m, crc) ==
    /\ Accepts(m, crc)
    /\ HasAfter(m) = Chunk
    /\ BadAfter(m, crc) # {}
    /\ started' = [started EXCEPT ![m.key] = IF Live(m.key) THEN @ ELSE now]
    /\ have' = [have EXCEPT ![m.key] = HasAfter(m)]
    /\ bad' = [bad EXCEPT ![m.key] = BadAfter(m, crc)]
    /\ markedAt' = [markedAt EXCEPT ![m.key] = now]
    /\ UNCHANGED stored
    /\ Answer(m, "INVALID_REQUEST")

\* Complete but the checksum fails: refused, and the upload stays open.
ChecksumFails(m, crc) ==
    /\ Accepts(m, crc)
    /\ HasAfter(m) = Chunk
    /\ BadAfter(m, crc) # {}
    /\ Keep(m, crc)
    /\ Answer(m, "INVALID_REQUEST")

\* Complete and intact: the upload is closed whatever _commit_post says.
Assembled(m, crc) ==
    /\ Accepts(m, crc)
    /\ HasAfter(m) = Chunk
    /\ BadAfter(m, crc) = {}
    /\ started' = [started EXCEPT ![m.key] = Never]
    /\ have' = [have EXCEPT ![m.key] = {}]
    /\ bad' = [bad EXCEPT ![m.key] = {}]

\* Variant: the id is not remembered.
CommitsUnmarked(m, crc) ==
    /\ Assembled(m, crc)
    /\ owner[m.key] \notin Rejected
    /\ stored' = [stored EXCEPT ![m.key] = @ + 1]
    /\ UNCHANGED markedAt
    /\ Answer(m, "OK")

Commit(m, crc) ==
    /\ Assembled(m, crc)
    /\ owner[m.key] \notin Rejected
    /\ stored' = [stored EXCEPT ![m.key] = @ + 1]
    /\ markedAt' = [markedAt EXCEPT ![m.key] = now]
    /\ Answer(m, "OK")

\* A board or thread that is gone, an empty text, a body that is no UTF-8.
CommitRejected(m, crc) ==
    /\ Assembled(m, crc)
    /\ owner[m.key] \in Rejected
    /\ \E status \in {"INVALID_REQUEST", "NOT_FOUND"} : Answer(m, status)
    /\ UNCHANGED <<markedAt, stored>>

HandlePost(m) ==
    \/ Deny(m)
    \/ AckCommitted(m)
    \/ TooManyOpen(m)
    \/ UploadUnknown(m)
    \/ \E crc \in BOOLEAN : \/ AcceptPartial(m, crc)
                            \/ ChecksumFails(m, crc)
                            \/ Commit(m, crc)
                            \/ CommitRejected(m, crc)

\* append_post raises (a full disk): the upload is closed already, nothing is
\* remembered, nothing can be read of the post, and no answer is sent.
AppendRaises(m, crc) ==
    /\ losses < MaxLosses
    /\ Assembled(m, crc)
    /\ owner[m.key] \notin Rejected
    /\ losses' = losses + 1
    /\ reqs' = reqs \ {m}
    /\ UNCHANGED <<now, call, keyVars, acks, markedAt, stored, posting>>

\* Uploads and committed ids live in memory; the boards are files.  The
\* configuration is read again.
Restart ==
    /\ losses < MaxLosses
    /\ losses' = losses + 1
    /\ started' = [k \in Keys |-> Never]
    /\ have' = [k \in Keys |-> {}]
    /\ bad' = [k \in Keys |-> {}]
    /\ markedAt' = [k \in Keys |-> Never]
    /\ posting' \in BOOLEAN
    /\ UNCHANGED <<now, call, keyVars, linkVars, stored, corrupted>>

-----------------------------------------------------------------------------
(* Time, and the frames the mesh gives up on *)

Tick ==
    /\ now < MaxTime
    /\ \A p \in Posters : ~SendDue(p) /\ ~WaitOver(p)
    /\ now' = now + 1
    /\ reqs' = {m \in reqs : now' <= m.sent + MaxDelay}
    /\ acks' = {a \in acks : now' <= a.sent + MaxDelay}
    /\ UNCHANGED <<call, keyVars, serverVars, losses, corrupted>>

Next ==
    \/ \E p \in Posters : Client(p)
    \/ \E m \in reqs : HandlePost(m)
    \/ \E m \in reqs, crc \in BOOLEAN : AppendRaises(m, crc)
    \/ Restart
    \/ Tick

Spec == Init /\ [][Next]_vars

\* The event loop runs every timer and the clock goes on.  Nothing is
\* assumed of the radio or of the server.
Fairness ==
    /\ \A p \in Posters : /\ WF_vars(Send(p) \/ SendRefused(p))
                          /\ WF_vars(Timeout(p))
    /\ WF_vars(Tick)

FairSpec == Spec /\ Fairness

-----------------------------------------------------------------------------
(* Properties *)

\* A call in progress holds a key.
CallsTyped ==
    /\ call \in [Posters -> Call]
    /\ \A p \in Posters : call[p].phase # "idle" => call[p].key \in Keys

TypeOK ==
    /\ now \in Nat
    /\ CallsTyped
    /\ drawn \in [Keys -> Nat \cup {Never}]
    /\ owner \in [Keys -> Posters \cup {NoOne}]
    /\ reqs \subseteq Req
    /\ acks \subseteq Ack
    /\ started \in [Keys -> Nat \cup {Never}]
    /\ have \in [Keys -> SUBSET Chunk]
    /\ bad \in [Keys -> SUBSET Chunk]
    /\ markedAt \in [Keys -> Nat \cup {Never}]
    /\ stored \in [Keys -> Nat]
    /\ posting \in BOOLEAN
    /\ losses \in Nat
    /\ corrupted \in Nat

\* Keys of one poster under which the post reached the board.
StoredKeys(p) == {k \in Keys : owner[k] = p /\ stored[k] > 0}

\* Unless the server drops uploads, a post is on the board at most once,
\* whatever is lost, late, repeated or restarted under a new request id.
PostedAtMostOnce ==
    losses = 0 =>
      \A p \in Posters : \A j, k \in StoredKeys(p) : j = k /\ stored[k] = 1

\* Unless the server drops uploads, a post the board takes and that succeeds
\* with every ack naming the chunk it was waiting for is on the board.
CleanSuccessIsStored ==
    \A p \in Posters \ Rejected :
      (losses = 0 /\ call[p].phase = "ok" /\ ~call[p].warned)
        => StoredKeys(p) # {}

\* The uploads the server holds open never exceed max_open.
OpenWithinLimit == Cardinality(Open) <= MaxOpen

\* Every post() call returns or raises: no loss pattern, no server restart
\* and no stream of UNKNOWN_TOKEN keeps it going for ever.
PostTerminates ==
    \A p \in Posters :
      call[p].phase = "send" ~> call[p].phase \in {"ok", "failed"}

\* As long as the server drops no upload, posts implement PostOnce; an ack for
\* another chunk leaves a success unconfirmed, and so does a success of a post
\* the board turns down.
Outcome(p) ==
    IF call[p].phase = "failed" THEN "failed"
    ELSE IF call[p].phase # "ok" THEN "pending"
    ELSE IF call[p].warned \/ p \in Rejected THEN "unconfirmed"
    ELSE "confirmed"

\* The rows of the board a post became.
Rows(p) == UNION {{<<k, i>> : i \in 1 .. stored[k]} : k \in StoredKeys(p)}

Once == INSTANCE PostOnce WITH
    Copies <- Keys \X {1},
    board <- [p \in Posters |-> Rows(p)],
    outcome <- [p \in Posters |-> Outcome(p)]

ImplementsPostOnce == Once!Spec

-----------------------------------------------------------------------------
(* The inductive invariant behind PostedAtMostOnce and CleanSuccessIsStored. *)

\* The last instant a copy of a chunk first sent at t can leave the client.
LastSend(t) == t + RetryDeadline + MaxJitter

\* A poster holds a key it drew itself, and works within its deadlines.
ClientInv ==
    \A p \in Posters :
      IF call[p].phase = "idle" THEN call[p].key = NoKey
      ELSE /\ call[p].key \in Keys
           /\ owner[call[p].key] = p
           /\ drawn[call[p].key] <= call[p].since
           /\ call[p].since <= now
           /\ call[p].n = 0 => call[p].since = drawn[call[p].key]
           /\ call[p].phase = "send" =>
                now <= call[p].at /\ call[p].at <= LastSend(call[p].since)

\* A key nobody drew has left no trace.
FreshInv ==
    \A k \in Keys :
      /\ drawn[k] <= now
      /\ owner[k] \in Posters => drawn[k] # Never /\ call[owner[k]].phase # "idle"
      /\ owner[k] = NoOne =>
           /\ started[k] = Never
           /\ markedAt[k] = Never
           /\ stored[k] = 0
      /\ drawn[k] = Never => owner[k] = NoOne

\* Every frame in the air is recent, belongs to a drawn key and, while its
\* poster still uses that key, is no later than the chunk in hand.
ReqInv ==
    \A m \in reqs :
      /\ owner[m.key] \in Posters
      /\ m.sent <= now
      /\ now <= m.sent + MaxDelay
      /\ m.n = 0 => m.sent <= LastSend(drawn[m.key])
      /\ call[owner[m.key]].key = m.key =>
           /\ m.n <= call[owner[m.key]].n
           /\ m.sent <= LastSend(call[owner[m.key]].since)

UploadInv ==
    \A k \in Keys :
      /\ started[k] # Never => drawn[k] <= started[k] /\ started[k] <= now
      /\ started[k] = Never => have[k] = {}
      /\ markedAt[k] <= now
      /\ markedAt[k] # Never => stored[k] > 0
      /\ (owner[k] \in Posters /\ call[owner[k]].key = k) =>
           \A i \in have[k] : i <= call[owner[k]].n

\* A key its poster gave up: not stored and, by now, past storing.
Dead(k) ==
    /\ stored[k] = 0
    /\ owner[k] \in Posters \ Rejected =>
         ~Live(k) /\ drawn[k] + UploadTTL < now

MovedInv ==
    \A k \in Keys :
      (owner[k] \in Posters /\ call[owner[k]].key # k) => Dead(k)

\* What an answer in the air tells about the server.
Truthful(a) ==
    /\ owner[a.key] \in Posters
    /\ a.status = "UNKNOWN_TOKEN" => Dead(a.key)
    /\ (a.status = "OK" /\ owner[a.key] \notin Rejected) =>
         /\ a.n \in have[a.key] \/ stored[a.key] > 0
         /\ (/\ a.n = Last
             /\ call[owner[a.key]].key = a.key
             /\ ~call[owner[a.key]].warned) => stored[a.key] > 0

AckInv == \A a \in acks : Truthful(a)

\* A stored post: its poster is at the last chunk or done, and the committed
\* id is at least as recent as the first copy of that chunk.
StoredInv ==
    \A k \in Keys :
      stored[k] > 0 =>
        /\ stored[k] = 1
        /\ owner[k] \in Posters \ Rejected
        /\ call[owner[k]].key = k
        /\ call[owner[k]].n = Last
        /\ call[owner[k]].since <= markedAt[k]

\* What the acks a poster went by say about its upload.
ProgressInv ==
    \A p \in Posters \ Rejected :
      call[p].phase # "idle" =>
        /\ call[p].n > 0 =>
             started[call[p].key] # Never \/ stored[call[p].key] > 0
        /\ ~call[p].warned =>
             \/ stored[call[p].key] > 0
             \/ /\ call[p].phase # "ok"
                /\ 0 .. (call[p].n - 1) \subseteq have[call[p].key]

PostParts ==
    /\ ClientInv
    /\ FreshInv
    /\ ReqInv
    /\ UploadInv
    /\ MovedInv
    /\ AckInv
    /\ StoredInv
    /\ ProgressInv

PostInv == losses = 0 => PostParts

\* The whole of what the proofs go by.
Inductive == TypeOK /\ PostInv
=============================================================================
