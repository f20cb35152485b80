------------------------------- MODULE Fetch --------------------------------
(***************************************************************************)
(* VagrantNetClient.fetch against the handlers and the TransferStore of    *)
(* Transfers, over a radio link that loses and delays frames.  A call of   *)
(* fetch() gets chunk 0 with the request for the page and walks through    *)
(* the rest with CONTINUE, each chunk under a request id of its own and    *)
(* with the stop-and-wait loop of _send_and_wait.                          *)
(*                                                                         *)
(* A call is named by its first request id (Ids); request n of call f is   *)
(* the pair (f, n), drawn afresh, so an answer to another request is never *)
(* taken for it.  A chunk is named by the body it comes from: a page that  *)
(* is edited has another body.                                             *)
(***************************************************************************)
EXTENDS Transfers, Sequences

CONSTANTS
    Others,         \* calls that are followed at the server only
    ClientOf,       \* the client of each call
    Pages,          \* paths
    PageOf,         \* the page each call asks for
    NoBody,         \* no page, no chunk, no checksum
    Packed,         \* bodies that go out compressed
    ChunkTimeout,   \* _chunk_timeout(hops)
    RetryDeadline,  \* max(CHUNK_RETRY_DEADLINE_SECONDS, 3 * timeout)
    MaxJitter,      \* CHUNK_RETRY_JITTER_SECONDS
    MaxDelay,       \* longest life of a frame on the mesh
    MaxEdits,       \* bound: edits of a page
    MaxRestarts,    \* bound: restarts of the server
    LatestStart     \* bound: when a call of fetch() may begin

ASSUME FetchConstants ==
    /\ Others \subseteq Ids
    /\ ClientOf \in [Ids -> Clients]
    /\ PageOf \in [Ids -> Pages]
    /\ NoBody \notin Bodies /\ "pending" \notin Bodies
    /\ Packed \subseteq Bodies

\* No copy of a request outlives the transfer it may open: 105 s + 2 s +
\* MaxDelay against 300 s.  Nor does one that was sent before an answer came
\* outlive the transfer of that answer, marked done right after it: twice
\* MaxDelay, of 13 s in PostUpload, against 60 s.
ASSUME FetchWindow ==
    /\ RetryDeadline \in Nat /\ MaxJitter \in Nat /\ MaxDelay \in Nat
    /\ RetryDeadline + MaxJitter + MaxDelay <= TTL
    /\ 2 * MaxDelay <= Linger

VARIABLES
    fetch,      \* the state of each fetch() call
    content,    \* the body of each page
    reqs,       \* requests in the air
    answers,    \* responses in the air
    edits, restarts,
    seen,       \* history: what the page was since the call
    retaken     \* history: calls whose token another call of theirs was given

history == <<seen, retaken>>
clientVars == <<fetch, seen, retaken>>
pageVars == <<content, edits>>
vars == <<now, slots, sending, fetch, content, reqs, answers, edits, restarts,
          seen, retaken>>

Refusal == {"ERROR", "NOT_FOUND", "INVALID_REQUEST"}

\* n: the chunk in hand; since: when _send_and_wait was entered for it; at:
\* when it is due ("send") or was sent ("wait"); got: the body each chunk so
\* far came from; sum: the body the checksum was made of.
Init ==
    /\ StoreInit
    /\ fetch = [f \in Ids |->
                  [phase |-> "idle", n |-> 0, since |-> 0, at |-> 0, began |-> 0,
                   total |-> 1, token |-> 0, got |-> <<>>, sum |-> NoBody]]
    /\ content \in [Pages -> Bodies \cup {NoBody}]
    /\ reqs = {}
    /\ answers = {}
    /\ edits = 0
    /\ restarts = 0
    /\ seen = [f \in Ids |-> {}]
    /\ retaken = {}

-----------------------------------------------------------------------------
(* The client *)

StartFetch(f) ==
    /\ f \notin Others
    /\ fetch[f].phase = "idle"
    /\ now <= LatestStart
    /\ fetch' = [fetch EXCEPT ![f].phase = "send", ![f].since = now,
                              ![f].at = now, ![f].began = now]
    /\ seen' = [seen EXCEPT ![f] = {content[PageOf[f]]}]
    /\ UNCHANGED <<storeVars, pageVars, reqs, answers, restarts, retaken>>

SendDue(f) == fetch[f].phase = "send" /\ now >= fetch[f].at

SendRequest(f) ==
    /\ SendDue(f)
    /\ reqs' = reqs \cup {[f |-> f, n |-> fetch[f].n, token |-> fetch[f].token,
                           sent |-> now]}
    /\ fetch' = [fetch EXCEPT ![f].phase = "wait", ![f].at = now]
    /\ UNCHANGED <<storeVars, pageVars, answers, restarts, history>>

RetryOrGiveUp(f) ==
    \/ /\ now >= fetch[f].since + RetryDeadline
       /\ fetch' = [fetch EXCEPT ![f].phase = "failed"]
    \/ /\ now < fetch[f].since + RetryDeadline
       /\ \E j \in 0 .. MaxJitter :
            fetch' = [fetch EXCEPT ![f].phase = "send", ![f].at = now + j]

\* Variant: the answer is awaited without a timeout.
WaitsForEver(f) == FALSE

WaitOver(f) ==
    fetch[f].phase = "wait" /\ now >= fetch[f].at + ChunkTimeout

\* No answer in time, or the radio refused the frame.
Timeout(f) ==
    /\ SendDue(f) \/ WaitOver(f)
    /\ RetryOrGiveUp(f)
    /\ UNCHANGED <<storeVars, pageVars, reqs, answers, restarts, history>>

Hears(f, a) ==
    /\ fetch[f].phase = "wait"
    /\ a.f = f /\ a.n = fetch[f].n
    /\ answers' = answers \ {a}
    /\ UNCHANGED <<storeVars, pageVars, reqs, restarts, history>>

OneBody(got) == \A i \in DOMAIN got : got[i] = got[1]

\* What may come of the chunks once all are in: a checksum that was heard is
\* compared, a mix of bodies may also fail to decompress.
Verdicts(x) ==
    LET whole == OneBody(x.got) /\ Len(x.got) = Sizes[x.got[1]]
    IN  IF x.sum # NoBody /\ ~(whole /\ x.got[1] = x.sum) THEN {"failed"}
        ELSE IF ~whole /\ x.got[1] \in Packed THEN {"ok", "failed"}
        ELSE {"ok"}

\* The chunk is stored; the loop goes on to the next one or is over.
Goes(f, x) ==
    IF x.n + 1 < x.total
    THEN fetch' = [fetch EXCEPT ![f] = [x EXCEPT !.phase = "send", !.n = x.n + 1,
                                                 !.since = now, !.at = now]]
    ELSE \E v \in Verdicts(x) : fetch' = [fetch EXCEPT ![f] = [x EXCEPT !.phase = v]]

HearFirst(f, a) ==
    /\ Hears(f, a)
    /\ a.n = 0 /\ a.status = "OK"
    /\ Goes(f, [fetch[f] EXCEPT !.got = <<a.body>>, !.total = a.total,
                  !.token = a.token, !.sum = IF a.final THEN a.body ELSE NoBody])

HearNext(f, a) ==
    /\ Hears(f, a)
    /\ a.n > 0 /\ a.status = "OK"
    /\ Goes(f, [fetch[f] EXCEPT !.got = Append(@, a.body),
                  !.sum = IF a.final THEN a.body ELSE @])

HearLost(f, a) ==
    /\ Hears(f, a)
    /\ a.status = "UNKNOWN_TOKEN"
    /\ fetch' = [fetch EXCEPT ![f].phase = "lost"]

HearRefused(f, a) ==
    /\ Hears(f, a)
    /\ a.status \in Refusal
    /\ fetch' = [fetch EXCEPT ![f].phase = "failed"]

-----------------------------------------------------------------------------
(* The server *)

\* The request leaves the air and its answer takes to it.
Answer(m, a) ==
    /\ reqs' = reqs \ {m}
    /\ answers' = answers \cup {[f |-> m.f, n |-> m.n, sent |-> now,
                                 status |-> a.status, token |-> a.token,
                                 body |-> a.body, total |-> a.total,
                                 final |-> a.final]}
    /\ UNCHANGED <<pageVars, restarts, fetch, seen>>

Refuse(m, status) ==
    Answer(m, [status |-> status, token |-> 0, body |-> NoBody, total |-> 1,
               final |-> TRUE])

Sends(m, t, b, final) ==
    Answer(m, [status |-> "OK", token |-> t, body |-> b, total |-> Sizes[b],
               final |-> final])

ServeMissing(m) ==
    /\ content[PageOf[m.f]] = NoBody
    /\ UNCHANGED storeVars
    /\ Refuse(m, "NOT_FOUND")

\* One chunk is sent as it is and leaves no transfer behind.
ServeSingle(m) ==
    LET b == content[PageOf[m.f]]
    IN  /\ b # NoBody
        /\ Sizes[b] = 1
        /\ UNCHANGED storeVars
        /\ Sends(m, 0, b, TRUE)

ServeMany(m) ==
    LET b == content[PageOf[m.f]]
        c == ClientOf[m.f]
    IN  /\ b # NoBody
        /\ Sizes[b] > 1
        /\ \/ \E t \in Tokens :
                \/ GetAgain(c, m.f, t) /\ Sends(m, t, Swept[t].body, FALSE)
                \/ GetStarts(c, m.f, b, t) /\ Sends(m, t, b, FALSE)
           \/ GetFull(c, m.f) /\ Refuse(m, "ERROR")

\* Variant: the token alone decides, whoever asks.
ServesAnyone(m) ==
    LET t == m.token
        b == Swept[t].body
        c == Swept[t].client
    IN  \/ ~Busy(Swept[t]) /\ ContinueUnknown(ClientOf[m.f], t) /\ Refuse(m, "UNKNOWN_TOKEN")
        \/ /\ Busy(Swept[t])
           /\ \/ ContinueOutOfRange(c, t, m.n) /\ Refuse(m, "INVALID_REQUEST")
              \/ ContinueMiddle(c, t, m.n) /\ Sends(m, t, b, FALSE)
              \/ ContinueFinal(c, t, m.n) /\ Sends(m, t, b, TRUE)

ServeContinue(m) ==
    LET t == m.token
        b == Swept[t].body
        c == ClientOf[m.f]
    IN  \/ ContinueUnknown(c, t) /\ Refuse(m, "UNKNOWN_TOKEN")
        \/ ContinueOutOfRange(c, t, m.n) /\ Refuse(m, "INVALID_REQUEST")
        \/ ContinueMiddle(c, t, m.n) /\ Sends(m, t, b, FALSE)
        \/ ContinueFinal(c, t, m.n) /\ Sends(m, t, b, TRUE)

Pending(f) == fetch[f].phase \in {"send", "wait"}

\* The token of a call that is under way now stands for another transfer of the
\* same client, which the server does not tell from the first.
TokensMove ==
    retaken' = retaken \cup
      {f \in Ids :
         /\ Pending(f) /\ fetch[f].n > 0
         /\ LET x == slots'[fetch[f].token]
            IN  Busy(x) /\ x.client = ClientOf[f] /\ x.id # f}

Serve(m) ==
    /\ \/ m.n = 0 /\ (ServeMissing(m) \/ ServeSingle(m) \/ ServeMany(m))
       \/ m.n > 0 /\ ServeContinue(m)
    /\ TokensMove

\* Other calls, of this client or of another, take tokens and places.
OthersAsk(f) ==
    LET b == content[PageOf[f]]
    IN  /\ b # NoBody
        /\ Sizes[b] > 1
        /\ \E t \in Tokens : GetStarts(ClientOf[f], f, b, t)
        /\ TokensMove
        /\ UNCHANGED <<pageVars, reqs, answers, restarts, fetch, seen>>

\* A handler that was sending a final chunk goes on, or its send raised.
AfterSend(w) ==
    /\ FinishSend(w) \/ SendRaises(w)
    /\ UNCHANGED <<pageVars, reqs, answers, restarts, clientVars>>

Restart ==
    /\ restarts < MaxRestarts
    /\ restarts' = restarts + 1
    /\ slots' = [t \in Tokens |-> Free]
    /\ sending' = {}
    /\ UNCHANGED <<now, pageVars, reqs, answers, clientVars>>

-----------------------------------------------------------------------------
\* The operator edits, adds or removes a page.
Edit(p) ==
    /\ edits < MaxEdits
    /\ edits' = edits + 1
    /\ \E b \in (Bodies \cup {NoBody}) \ {content[p]} :
         /\ content' = [content EXCEPT ![p] = b]
         /\ seen' = [f \in Ids |-> IF PageOf[f] = p /\ Pending(f)
                                   THEN seen[f] \cup {b} ELSE seen[f]]
    /\ UNCHANGED <<storeVars, reqs, answers, restarts, fetch, retaken>>

\* A frame that is lost is one that nobody hears before it is too old.  A
\* timer of the client fires at its instant.
Tick ==
    /\ StoreTick
    /\ \A f \in Ids : ~SendDue(f) /\ ~WaitOver(f)
    /\ reqs' = {m \in reqs : m.sent + MaxDelay > now}
    /\ answers' = {a \in answers : a.sent + MaxDelay > now}
    /\ UNCHANGED <<pageVars, restarts, clientVars>>

Next ==
    \/ \E f \in Ids :
         \/ StartFetch(f)
         \/ SendRequest(f)
         \/ Timeout(f)
         \/ \E a \in answers :
              \/ HearFirst(f, a)
              \/ HearNext(f, a)
              \/ HearLost(f, a)
              \/ HearRefused(f, a)
    \/ \E m \in reqs : Serve(m)
    \/ \E f \in Others : OthersAsk(f)
    \/ \E w \in sending : AfterSend(w)
    \/ Restart
    \/ \E p \in Pages : Edit(p)
    \/ Tick

Spec == Init /\ [][Next]_vars

\* The event loops run their timers, a send ends, and the clock goes on.
\* Nothing is assumed of the radio.
Fairness ==
    /\ \A f \in Ids \ Others : WF_vars(SendRequest(f) \/ Timeout(f))
    /\ WF_vars(\E w \in sending : AfterSend(w))
    /\ WF_vars(Tick)

FairSpec == Spec /\ Fairness

-----------------------------------------------------------------------------
(* Properties *)

\* Every fetch() call returns or raises, whatever the link and the server do.
FetchTerminates ==
    \A f \in Ids \ Others : Pending(f) ~> ~Pending(f)

Whole(got) == OneBody(got) /\ Len(got) = Sizes[got[1]]

\* A restart gives the tokens out again, and a fetch may go on in the transfer
\* of a late copy of its own request, made from a page that was edited since;
\* or its token is by now that of another call of the same client.
Disturbed(f) ==
    \/ restarts > 0 /\ Cardinality(seen[f]) > 1
    \/ f \in retaken

\* A mix that the server had no way to prevent counts as a failure, any other
\* one as an outcome that PageRead does not know.
Outcome(f) ==
    IF fetch[f].phase \in {"failed", "lost"} THEN "failed"
    ELSE IF fetch[f].phase # "ok" THEN "pending"
    ELSE IF Whole(fetch[f].got) THEN fetch[f].got[1]
    ELSE IF Disturbed(f) THEN "failed" ELSE "mixed"

Read == INSTANCE PageRead WITH
    Fetches <- Ids,
    Missing <- NoBody,
    outcome <- [f \in Ids |-> Outcome(f)]

\* A fetch returns the page whole, as it stood at one instant of the call
\* (README, "multi-chunk with a byte-exact checksum"): no expired token, retry,
\* edit, restart or call of another client mixes two bodies.
ImplementsPageRead == Read!Spec
=============================================================================
