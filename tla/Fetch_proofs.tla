---------------------------- MODULE Fetch_proofs ----------------------------
(***************************************************************************)
(* Proofs about Transfers and Fetch.  Of the table: types, the caps, one   *)
(* transfer per request, and that a transfer keeps its token, for every    *)
(* number of clients, tokens and limits.  A sweep and a late mark only     *)
(* take transfers out of flight, and a start adds one, under a free token  *)
(* and where there is room.                                                *)
(*                                                                         *)
(* Of a call of fetch(): it implements PageRead, for any number of calls,  *)
(* clients, tokens, pages, edits and restarts.  What a call holds is of    *)
(* one body because the transfer it walks through outlives every copy of   *)
(* its first request, which alone could begin another.                     *)
(***************************************************************************)
EXTENDS Fetch, FiniteSetTheorems, TLAPS

Table == [Tokens -> Transfer \cup {Free}]

\* What the caps and the retry look-up are about, for any table.
Caps(s) ==
    /\ Cardinality(InFlightIn(s)) <= MaxTotal
    /\ \A c \in Clients : Cardinality(OfClient(s, c)) <= MaxPerClient

OnePer(s) ==
    \A a, b \in InFlightIn(s) :
      (s[a].client = s[b].client /\ s[a].id = s[b].id) => a = b

\* r has the transfers of s, some of them done or gone.
Fades(s, r) ==
    \A t \in Tokens : InFlight(r[t]) => r[t] = s[t]

StoreInv == StoreTypeOK /\ Caps(slots) /\ OnePer(slots)

LEMMA FreeIsNoTransfer ==
    \A x \in Transfer : x # Free
BY DEF Transfer, Free

LEMMA TokensFinite ==
    IsFiniteSet(Tokens)
BY TransferConstants, FS_Interval DEF Tokens

\* The sets the caps count are finite.
LEMMA InFlightFinite ==
    ASSUME NEW s
    PROVE  /\ IsFiniteSet(InFlightIn(s)) /\ Cardinality(InFlightIn(s)) \in Nat
           /\ \A c : /\ IsFiniteSet(OfClient(s, c))
                     /\ Cardinality(OfClient(s, c)) \in Nat
<1>1. InFlightIn(s) \subseteq Tokens
  BY DEF InFlightIn
<1>2. IsFiniteSet(InFlightIn(s))
  BY <1>1, TokensFinite, FS_Subset
<1>3. \A c : OfClient(s, c) \subseteq InFlightIn(s)
  BY DEF OfClient
<1>4. \A c : IsFiniteSet(OfClient(s, c))
  BY <1>2, <1>3, FS_Subset
<1> QED BY <1>2, <1>4, FS_CardinalityType

\* A table whose transfers fade keeps the caps and the one per request.
LEMMA FadingKeeps ==
    ASSUME NEW s, NEW r, Fades(s, r)
    PROVE  /\ Caps(s) => Caps(r)
           /\ OnePer(s) => OnePer(r)
<1>1. InFlightIn(r) \subseteq InFlightIn(s)
  BY DEF Fades, InFlightIn
<1>2. \A c \in Clients : OfClient(r, c) \subseteq OfClient(s, c)
  BY <1>1 DEF Fades, InFlightIn, OfClient
<1>3. Cardinality(InFlightIn(r)) <= Cardinality(InFlightIn(s))
  BY <1>1, InFlightFinite, FS_Subset
<1>4. \A c \in Clients : Cardinality(OfClient(r, c)) <= Cardinality(OfClient(s, c))
  BY <1>2, InFlightFinite, FS_Subset
<1>5. Caps(s) => Caps(r)
  <2>1. Caps(s) => Cardinality(InFlightIn(r)) <= MaxTotal
    BY <1>3, InFlightFinite, TransferConstants DEF Caps
  <2>2. Caps(s) => \A c \in Clients : Cardinality(OfClient(r, c)) <= MaxPerClient
    BY <1>4, InFlightFinite, TransferConstants DEF Caps
  <2> QED BY <2>1, <2>2 DEF Caps
<1>6. OnePer(s) => OnePer(r)
  BY <1>1 DEF Fades, InFlightIn, OnePer
<1> QED BY <1>5, <1>6

LEMMA SweepFades ==
    Fades(slots, Swept)
BY FreeIsNoTransfer DEF Fades, Swept, InFlight, Busy

LEMMA SweepTyped ==
    slots \in Table => Swept \in Table
BY DEF Table, Swept

\* A start under a token that is free, with room, keeps the three facts.
LEMMA StartKeeps ==
    ASSUME NEW s \in Table, NEW c \in Clients, NEW id \in Ids, NEW x \in Transfer,
           NEW t \in Tokens, x.client = c, x.id = id,
           Existing(s, c, id) = {}, RoomFor(s, c), Caps(s), OnePer(s)
    PROVE  LET r == [s EXCEPT ![t] = x] IN Caps(r) /\ OnePer(r)
<1> DEFINE r == [s EXCEPT ![t] = x]
<1>1. /\ r[t] = x
      /\ \A u \in Tokens : u # t => r[u] = s[u]
  BY DEF Table
<1>2. /\ InFlightIn(r) \subseteq InFlightIn(s) \cup {t}
      /\ \A d : OfClient(r, d) \subseteq OfClient(s, d) \cup {t}
      /\ \A d : d # c => OfClient(r, d) \subseteq OfClient(s, d)
  <2> HIDE DEF r
  <2> QED BY <1>1 DEF InFlightIn, OfClient
<1>3. \A S : IsFiniteSet(S) =>
        /\ IsFiniteSet(S \cup {t})
        /\ Cardinality(S \cup {t}) <= Cardinality(S) + 1
  <2> TAKE S
  <2> HAVE IsFiniteSet(S)
  <2>1. IsFiniteSet(S \cup {t}) /\ Cardinality(S) \in Nat
    BY FS_AddElement, FS_CardinalityType
  <2>2. Cardinality(S \cup {t}) = IF t \in S THEN Cardinality(S) ELSE Cardinality(S) + 1
    BY FS_AddElement
  <2> QED BY <2>1, <2>2
<1>4. Cardinality(InFlightIn(r)) <= Cardinality(InFlightIn(s)) + 1
  <2>1. Cardinality(InFlightIn(r)) <= Cardinality(InFlightIn(s) \cup {t})
    BY <1>2, <1>3, InFlightFinite, FS_Subset
  <2>2. Cardinality(InFlightIn(s) \cup {t}) \in Nat
    BY <1>3, InFlightFinite, FS_CardinalityType
  <2> HIDE DEF r
  <2> QED BY <2>1, <2>2, <1>3, InFlightFinite
<1>5. Cardinality(OfClient(r, c)) <= Cardinality(OfClient(s, c)) + 1
  <2>1. Cardinality(OfClient(r, c)) <= Cardinality(OfClient(s, c) \cup {t})
    BY <1>2, <1>3, InFlightFinite, FS_Subset
  <2>2. Cardinality(OfClient(s, c) \cup {t}) \in Nat
    BY <1>3, InFlightFinite, FS_CardinalityType
  <2> HIDE DEF r
  <2> QED BY <2>1, <2>2, <1>3, InFlightFinite
<1>6. \A d \in Clients : d # c => Cardinality(OfClient(r, d)) <= Cardinality(OfClient(s, d))
  BY <1>2, InFlightFinite, FS_Subset
<1>7. Caps(r)
  <2> HIDE DEF r
  <2>1. Cardinality(InFlightIn(r)) <= MaxTotal
    BY <1>4, InFlightFinite, TransferConstants DEF RoomFor
  <2>2. Cardinality(OfClient(r, c)) <= MaxPerClient
    BY <1>5, InFlightFinite, TransferConstants DEF RoomFor
  <2>3. \A d \in Clients : d # c => Cardinality(OfClient(r, d)) <= MaxPerClient
    <3> TAKE d \in Clients
    <3>1. Cardinality(OfClient(s, d)) \in Nat /\ Cardinality(OfClient(r, d)) \in Nat
      BY InFlightFinite
    <3>2. Cardinality(OfClient(s, d)) <= MaxPerClient
      BY DEF Caps
    <3> QED BY <1>6, <3>1, <3>2, TransferConstants
  <2> QED BY <2>1, <2>2, <2>3 DEF Caps
<1>8. OnePer(r)
  <2> HIDE DEF r
  <2> SUFFICES ASSUME NEW a \in InFlightIn(r), NEW b \in InFlightIn(r),
                      r[a].client = r[b].client, r[a].id = r[b].id, a # b
               PROVE  FALSE
    BY DEF OnePer
  <2>1. a \in Tokens /\ b \in Tokens /\ InFlight(r[a]) /\ InFlight(r[b])
    BY DEF InFlightIn
  <2>2. a # t /\ b # t => FALSE
    BY <1>1, <2>1 DEF OnePer, InFlightIn
  <2>3. \A u \in Tokens : u # t /\ InFlight(r[u]) => ~(r[u].client = c /\ r[u].id = id)
    BY <1>1 DEF Existing, InFlightIn
  <2> QED BY <1>1, <2>1, <2>2, <2>3
<1> QED BY <1>7, <1>8

LEMMA MarkFades ==
    ASSUME NEW w, slots \in Table, now \in Nat, FinishSend(w)
    PROVE  Fades(slots, slots')
<1>1. Never \notin Nat
  BY DEF Never
<1> SUFFICES ASSUME NEW t \in Tokens, InFlight(slots'[t])
             PROVE  slots'[t] = slots[t]
  BY DEF Fades
<1>2. CASE t # w.token
  BY <1>2 DEF FinishSend, Table
<1>3. CASE t = w.token /\ ~InFlight(slots[t])
  BY <1>3 DEF FinishSend, Table
<1>4. CASE t = w.token /\ InFlight(slots[t])
  <2>1. slots[t] \in Transfer
    BY <1>4 DEF InFlight, Busy, Table
  <2>2. slots'[t] = [slots[t] EXCEPT !.completed = now]
    BY <1>4 DEF FinishSend, Table
  <2>3. slots'[t].completed = now
    BY <2>1, <2>2 DEF Transfer
  <2> QED BY <2>3, <1>1 DEF InFlight
<1> QED BY <1>2, <1>3, <1>4

LEMMA MarkTyped ==
    ASSUME NEW w, slots \in Table, now \in Nat, FinishSend(w)
    PROVE  slots' \in Table
<1>1. \A x \in Transfer : [x EXCEPT !.completed = now] \in Transfer
  BY DEF Transfer
<1>2. \A x \in Transfer \cup {Free} : InFlight(x) => x \in Transfer
  BY DEF InFlight, Busy
<1> QED BY <1>1, <1>2 DEF FinishSend, Table

-----------------------------------------------------------------------------
\* A step only sweeps, only marks, starts one transfer, or leaves the table.
LEMMA StepKinds ==
    ASSUME StoreNext
    PROVE  \/ slots' = Swept
           \/ slots' = slots
           \/ \E w \in sending : FinishSend(w)
           \/ \E c \in Clients, id \in Ids, b \in Bodies, t \in Tokens :
                GetStarts(c, id, b, t)
BY DEF StoreNext, GetAgain, GetFull, ContinueUnknown, ContinueOutOfRange,
       ContinueMiddle, ContinueFinal, SendRaises, StoreTick

LEMMA NewTyped ==
    ASSUME now \in Nat, NEW c \in Clients, NEW id \in Ids, NEW b \in Bodies
    PROVE  /\ New(c, id, b) \in Transfer
           /\ New(c, id, b).client = c /\ New(c, id, b).id = id
BY DEF New, Transfer

LEMMA InitInv ==
    StoreInit => StoreInv
<1> SUFFICES ASSUME StoreInit PROVE StoreInv
  OBVIOUS
<1>1. StoreTypeOK
  BY DEF StoreInit, StoreTypeOK, Tokens
<1>2. InFlightIn(slots) = {}
  BY DEF StoreInit, InFlightIn, InFlight, Busy
<1>3. \A c \in Clients : OfClient(slots, c) = {}
  BY <1>2 DEF OfClient
<1>4. Caps(slots)
  BY <1>2, <1>3, FS_EmptySet, TransferConstants DEF Caps
<1>5. OnePer(slots)
  BY <1>2 DEF OnePer
<1> QED BY <1>1, <1>4, <1>5 DEF StoreInv

LEMMA NextType ==
    StoreTypeOK /\ [StoreNext]_storeVars => StoreTypeOK'
<1> SUFFICES ASSUME StoreTypeOK, [StoreNext]_storeVars PROVE StoreTypeOK'
  OBVIOUS
<1>0. slots \in Table /\ Swept \in Table /\ now \in Nat
  BY SweepTyped DEF StoreTypeOK, Table
<1>1. now' \in Nat
  <2>1. now' = now \/ now' = now + 1
    BY DEF StoreNext, storeVars, GetAgain, GetStarts, GetFull,
           ContinueUnknown, ContinueOutOfRange, ContinueMiddle, ContinueFinal,
           FinishSend, SendRaises, StoreTick
  <2> QED BY <1>0, <2>1
<1>2. slots' \in Table
  <2>1. CASE slots' = Swept \/ slots' = slots
    BY <1>0, <2>1
  <2>2. ASSUME NEW w \in sending, FinishSend(w)
        PROVE  slots' \in Table
    BY <1>0, <2>2, MarkTyped
  <2>3. ASSUME NEW c \in Clients, NEW id \in Ids, NEW b \in Bodies,
               NEW t \in Tokens, GetStarts(c, id, b, t)
        PROVE  slots' \in Table
    <3>1. slots' = [Swept EXCEPT ![t] = New(c, id, b)]
      BY <2>3 DEF GetStarts
    <3> QED BY <1>0, <3>1, NewTyped DEF Table
  <2> QED BY <2>1, <2>2, <2>3, StepKinds DEF storeVars
<1>3. sending' \subseteq [token : Tokens, of : Transfer, at : Nat]
  <2>1. ASSUME NEW c \in Clients, NEW t \in Tokens, NEW n, ContinueFinal(c, t, n)
        PROVE  sending' \subseteq [token : Tokens, of : Transfer, at : Nat]
    <3>1. Swept[t] \in Transfer
      BY <1>0, <2>1 DEF ContinueFinal, Owns, Busy, Table
    <3> QED BY <1>0, <2>1, <3>1 DEF ContinueFinal, StoreTypeOK
  <2>2. \/ sending' \subseteq sending
        \/ \E c \in Clients, t \in Tokens : \E n : ContinueFinal(c, t, n)
    BY DEF StoreNext, storeVars, GetAgain, GetStarts, GetFull, ContinueUnknown,
           ContinueOutOfRange, ContinueMiddle, FinishSend, SendRaises, StoreTick
  <2> QED BY <2>1, <2>2 DEF StoreTypeOK
<1> QED BY <1>1, <1>2, <1>3 DEF StoreTypeOK, Table

LEMMA NextInv ==
    StoreInv /\ [StoreNext]_storeVars => StoreInv'
<1> SUFFICES ASSUME StoreInv, [StoreNext]_storeVars PROVE StoreInv'
  OBVIOUS
<1>0. slots \in Table /\ Swept \in Table /\ now \in Nat
  BY SweepTyped DEF StoreInv, StoreTypeOK, Table
<1>1. StoreTypeOK'
  BY NextType DEF StoreInv
<1>2. Caps(Swept) /\ OnePer(Swept)
  BY SweepFades, FadingKeeps DEF StoreInv
<1>3. CASE slots' = Swept
  <2>1. Caps(slots') /\ OnePer(slots')
    BY <1>2, <1>3
  <2> QED BY <1>1, <2>1 DEF StoreInv
<1>4. CASE slots' = slots
  <2>1. Caps(slots') /\ OnePer(slots')
    BY <1>4 DEF StoreInv
  <2> QED BY <1>1, <2>1 DEF StoreInv
<1>5. ASSUME NEW w \in sending, FinishSend(w)
      PROVE  StoreInv'
  <2>1. Fades(slots, slots')
    BY <1>0, <1>5, MarkFades
  <2>2. Caps(slots') /\ OnePer(slots')
    BY <2>1, FadingKeeps DEF StoreInv
  <2> QED BY <1>1, <2>2 DEF StoreInv
<1>6. ASSUME NEW c \in Clients, NEW id \in Ids, NEW b \in Bodies,
             NEW t \in Tokens, GetStarts(c, id, b, t)
      PROVE  StoreInv'
  <2>1. Caps(slots') /\ OnePer(slots')
    <3> DEFINE x == New(c, id, b)
    <3>1. x \in Transfer /\ x.client = c /\ x.id = id
      BY <1>0, NewTyped
    <3>2. Existing(Swept, c, id) = {} /\ RoomFor(Swept, c)
      BY <1>6 DEF GetStarts
    <3>3. slots' = [Swept EXCEPT ![t] = x]
      BY <1>6 DEF GetStarts
    <3> HIDE DEF x
    <3>4. Caps([Swept EXCEPT ![t] = x]) /\ OnePer([Swept EXCEPT ![t] = x])
      BY <1>0, <1>2, <3>1, <3>2, StartKeeps
    <3> QED BY <3>3, <3>4
  <2> QED BY <1>1, <2>1 DEF StoreInv
<1> QED BY <1>3, <1>4, <1>5, <1>6, StepKinds DEF storeVars

\* Types, and the caps with one transfer per request, hold in every state.
THEOREM StoreInvariant ==
    StoreSpec => []StoreInv
BY InitInv, NextInv, PTL DEF StoreSpec

\* TransferStore: every variable keeps its type.
THEOREM StoreTypeCorrect ==
    StoreSpec => []StoreTypeOK
<1>1. StoreInv => StoreTypeOK
  BY DEF StoreInv
<1> QED BY <1>1, StoreInvariant, PTL

\* TransferStore.start: the limits hold in every state, not only at a start.
THEOREM CapsAlwaysHold ==
    StoreSpec => []CapsHold
<1>1. StoreInv => CapsHold
  BY DEF StoreInv, Caps, CapsHold
<1> QED BY <1>1, StoreInvariant, PTL

\* find_by_request: a retried request never has two unfinished transfers.
THEOREM RetriesShareATransfer ==
    StoreSpec => []OneTransferPerRequest
<1>1. StoreInv => OneTransferPerRequest
  BY DEF StoreInv, OnePer, OneTransferPerRequest
<1> QED BY <1>1, StoreInvariant, PTL

\* start and _sweep_expired: no step takes the token of a transfer that is not
\* stale, a lingering one included.
THEOREM TokensAreKept ==
    StoreSpec => KeepsItsToken
<1> DEFINE Kept ==
      \A t \in Tokens :
        (Busy(slots[t]) /\ ~Stale(slots[t])) =>
          /\ Busy(slots'[t])
          /\ slots'[t] = [slots[t] EXCEPT !.completed = slots'[t].completed]
<1>1. ASSUME StoreTypeOK, [StoreNext]_storeVars
      PROVE  [Kept]_storeVars
  <2> SUFFICES ASSUME NEW t \in Tokens, Busy(slots[t]), ~Stale(slots[t])
               PROVE  /\ Busy(slots'[t])
                      /\ slots'[t] = [slots[t] EXCEPT !.completed = slots'[t].completed]
    OBVIOUS
  <2>0. slots \in Table /\ now \in Nat /\ slots[t] \in Transfer
    BY <1>1 DEF StoreTypeOK, Table, Busy
  <2>1. Swept[t] = slots[t]
    BY DEF Swept
  <2>2. slots'[t] = slots[t] =>
          /\ Busy(slots'[t])
          /\ slots'[t] = [slots[t] EXCEPT !.completed = slots'[t].completed]
    BY <2>0 DEF Transfer
  <2>3. CASE slots' = Swept \/ slots' = slots
    BY <2>1, <2>2, <2>3
  <2>4. ASSUME NEW w \in sending, FinishSend(w)
        PROVE  /\ Busy(slots'[t])
               /\ slots'[t] = [slots[t] EXCEPT !.completed = slots'[t].completed]
    <3>1. CASE t # w.token \/ ~InFlight(slots[t])
      BY <2>0, <2>2, <2>4, <3>1 DEF FinishSend, Table
    <3>2. CASE t = w.token /\ InFlight(slots[t])
      <4>1. slots'[t] = [slots[t] EXCEPT !.completed = now]
        BY <2>0, <2>4, <3>2 DEF FinishSend, Table
      <4>2. slots'[t] \in Transfer /\ slots'[t].completed = now
        BY <2>0, <4>1 DEF Transfer
      <4> QED BY <4>1, <4>2, FreeIsNoTransfer DEF Busy
    <3> QED BY <3>1, <3>2
  <2>5. ASSUME NEW c \in Clients, NEW id \in Ids, NEW b \in Bodies,
               NEW u \in Tokens, GetStarts(c, id, b, u)
        PROVE  slots'[t] = slots[t]
    <3>1. t # u
      BY <2>1, <2>5 DEF GetStarts, FreeTokens
    <3> QED BY <2>0, <2>1, <2>5, <3>1, SweepTyped DEF GetStarts, Table
  <2> QED BY <1>1, <2>2, <2>3, <2>4, <2>5, StepKinds DEF storeVars
<1> QED BY <1>1, StoreTypeCorrect, PTL DEF StoreSpec, KeepsItsToken
-----------------------------------------------------------------------------
(* A fetch *)

Phases == {"idle", "send", "wait", "ok", "lost", "failed"}
Content == Bodies \cup {NoBody}
Calls == [phase : Phases, n : Nat, since : Nat, at : Nat, began : Nat, total : Nat,
          token : Tokens, got : Seq(Bodies), sum : Content]
Requests == [f : Ids, n : Nat, token : Tokens, sent : Nat]
Answers == [f : Ids, n : Nat, sent : Nat, status : {"OK", "UNKNOWN_TOKEN"} \cup Refusal,
            token : Tokens, body : Content, total : Nat, final : BOOLEAN]

FetchTypes ==
    /\ fetch \in [Ids -> Calls]
    /\ content \in [Pages -> Content]
    /\ reqs \subseteq Requests
    /\ answers \subseteq Answers
    /\ restarts \in Nat
    /\ seen \in [Ids -> SUBSET Content] /\ \A f \in Ids : IsFiniteSet(seen[f])
    /\ retaken \subseteq Ids

\* The last instant at which a call may ask for its first chunk.
LastAsk(f) == fetch[f].began + RetryDeadline + MaxJitter

\* A call that is under way has seen the page, and its chunks are of bodies the
\* page had, unless its token was given to another call.
Started(f) ==
    /\ f \in Others => fetch[f].phase = "idle"
    /\ fetch[f].phase = "idle" <=> seen[f] = {}
    /\ fetch[f].phase = "idle" => fetch[f].n = 0 /\ fetch[f].got = <<>>

Walking(f) ==
    Pending(f) =>
      /\ fetch[f].began <= now
      /\ fetch[f].n = 0 => fetch[f].since = fetch[f].began
      /\ fetch[f].phase = "send" =>
           now <= fetch[f].at /\ fetch[f].at <= fetch[f].since + RetryDeadline + MaxJitter
      /\ Len(fetch[f].got) = fetch[f].n
      /\ fetch[f].n > 0 =>
           /\ fetch[f].n < fetch[f].total /\ fetch[f].total = Sizes[fetch[f].got[1]]
           /\ fetch[f].got[1] \in seen[f]
           /\ f \in retaken \/ \A i \in 1 .. fetch[f].n : fetch[f].got[i] \in seen[f]

\* What a call returns is one body of the page, or it was disturbed.
Returned(f) ==
    fetch[f].phase = "ok" =>
      /\ fetch[f].got # <<>> /\ fetch[f].got[1] \in seen[f]
      /\ Whole(fetch[f].got) \/ Disturbed(f)

RequestOK(m) ==
    /\ m.sent <= now /\ now <= m.sent + MaxDelay
    /\ fetch[m.f].phase # "idle"
    /\ m.n = 0 => m.sent <= LastAsk(m.f)
    /\ m.n > 0 => fetch[m.f].n > 0 /\ m.token = fetch[m.f].token

AnswerOK(a) ==
    /\ a.sent <= now /\ now <= a.sent + MaxDelay
    /\ fetch[a.f].phase # "idle"
    /\ a.n > 0 => fetch[a.f].n > 0
    /\ a.status = "OK" =>
         /\ a.body \in Bodies /\ a.total = Sizes[a.body]
         /\ Pending(a.f) => a.body \in seen[a.f] \/ (a.n > 0 /\ a.f \in retaken)

\* A transfer of a call that is under way began after it, on the page as it was.
SlotOK(t) ==
    Busy(slots[t]) =>
      /\ slots[t].id \in Others \/ fetch[slots[t].id].phase # "idle"
      /\ Pending(slots[t].id) =>
           /\ slots[t].body \in seen[slots[t].id]
           /\ fetch[slots[t].id].began <= slots[t].created

Of(f, t) == Busy(slots[t]) /\ slots[t].id = f

\* Of a server that did not restart: the transfer whose token an answer brings is
\* still there, or too late for the call to begin another under that token.
Offered(f) ==
    Pending(f) /\ restarts = 0 /\ fetch[f].n = 0 =>
      \A a \in answers :
        a.f = f /\ a.n = 0 /\ a.status = "OK" /\ a.total > 1 =>
          IF Of(f, a.token)
          THEN /\ slots[a.token].body = a.body
               /\ slots[a.token].completed # Never => a.sent <= slots[a.token].completed
          ELSE now > LastAsk(f) + MaxDelay

\* And the transfer a call walks through is one, as long as it is its own.
Steady(f) ==
    Pending(f) /\ restarts = 0 /\ fetch[f].n > 0 =>
      /\ Of(f, fetch[f].token) => slots[fetch[f].token].body = fetch[f].got[1]
      /\ \A m \in reqs :
           m.f = f /\ m.n = 0 =>
             /\ Of(f, fetch[f].token)
             /\ slots[fetch[f].token].completed # Never =>
                  m.sent + MaxDelay <= slots[fetch[f].token].completed + Linger
      /\ f \in retaken \/ OneBody(fetch[f].got)
      /\ \A a \in answers :
           a.f = f /\ a.n > 0 /\ a.status = "OK" =>
             f \in retaken \/ a.body = fetch[f].got[1]

FetchInv ==
    /\ StoreTypeOK /\ FetchTypes
    /\ \A f \in Ids : Started(f) /\ Walking(f) /\ Returned(f)
    /\ \A m \in reqs : RequestOK(m)
    /\ \A a \in answers : AnswerOK(a)
    /\ \A t \in Tokens : SlotOK(t)
    /\ \A f \in Ids : Offered(f) /\ Steady(f)

-----------------------------------------------------------------------------
(* What a step does to the store *)

LEMMA FetchNats ==
    /\ RetryDeadline \in Nat /\ MaxJitter \in Nat /\ MaxDelay \in Nat
    /\ TTL \in Nat /\ Linger \in Nat
BY FetchWindow, TransferConstants

\* A request of one chunk or none leaves the store alone; every other one is one
\* of the requests Transfers answers.
LEMMA ServeIsOfStore ==
    ASSUME StoreTypeOK, FetchTypes, NEW m \in reqs, Serve(m)
    PROVE  StoreNext \/ UNCHANGED storeVars
<1>1. m \in Requests /\ ClientOf[m.f] \in Clients /\ m.f \in Ids
  BY FetchConstants DEF FetchTypes, Requests
<1>2. content[PageOf[m.f]] \in Content
  BY <1>1, FetchConstants DEF FetchTypes
<1>3. CASE m.n = 0 /\ (ServeMissing(m) \/ ServeSingle(m))
  BY <1>3 DEF ServeMissing, ServeSingle
<1>4. CASE m.n = 0 /\ ServeMany(m)
  <2>1. content[PageOf[m.f]] \in Bodies /\ Sizes[content[PageOf[m.f]]] > 1
    BY <1>2, <1>4 DEF ServeMany, Content
  <2>2. CASE GetFull(ClientOf[m.f], m.f)
    BY <1>1, <2>2 DEF StoreNext
  <2>3. ASSUME NEW t \in Tokens, GetAgain(ClientOf[m.f], m.f, t)
        PROVE  StoreNext
    BY <1>1, <2>3 DEF StoreNext
  <2>4. ASSUME NEW t \in Tokens,
               GetStarts(ClientOf[m.f], m.f, content[PageOf[m.f]], t)
        PROVE  StoreNext
    BY <1>1, <2>1, <2>4 DEF StoreNext
  <2>5. QED
    BY <1>4, <2>2, <2>3, <2>4 DEF ServeMany
<1>5. CASE m.n > 0 /\ ServeContinue(m)
  <2>1. m.token \in Tokens /\ m.n \in Nat
    BY <1>1 DEF Requests
  <2>2. Owns(ClientOf[m.f], m.token) =>
          Swept[m.token].body \in Bodies /\ Sizes[Swept[m.token].body] \in Nat \ {0}
    BY <2>1, SweepTyped, TransferConstants DEF StoreTypeOK, Table, Owns, Busy, Transfer
  <2>3. CASE ContinueUnknown(ClientOf[m.f], m.token)
    BY <1>1, <2>1, <2>3 DEF StoreNext
  <2>4. CASE ContinueOutOfRange(ClientOf[m.f], m.token, m.n)
    <3>1. PICK b \in Bodies : b = Swept[m.token].body /\ Sizes[b] \in Nat \ {0}
      BY <2>2, <2>4 DEF ContinueOutOfRange
    <3>2. ContinueOutOfRange(ClientOf[m.f], m.token, Sizes[b])
      BY <2>4, <3>1 DEF ContinueOutOfRange
    <3>3. Sizes[b] \in 1 .. Sizes[b]
      BY <3>1
    <3>4. QED
      BY <1>1, <2>1, <3>2, <3>3 DEF StoreNext
  <2>5. CASE \/ ContinueMiddle(ClientOf[m.f], m.token, m.n)
             \/ ContinueFinal(ClientOf[m.f], m.token, m.n)
    <3>1. PICK b \in Bodies : b = Swept[m.token].body /\ Sizes[b] \in Nat \ {0}
      BY <2>2, <2>5 DEF ContinueMiddle, ContinueFinal
    <3>2. m.n \in 1 .. Sizes[b]
      BY <1>5, <2>1, <2>5, <3>1 DEF ContinueMiddle, ContinueFinal
    <3>3. QED
      BY <1>1, <2>1, <2>5, <3>2 DEF StoreNext
  <2>6. QED
    BY <1>5, <2>3, <2>4, <2>5 DEF ServeContinue
<1>6. QED
  BY <1>3, <1>4, <1>5 DEF Serve

LEMMA OthersAreOfStore ==
    ASSUME FetchTypes, NEW f \in Others, OthersAsk(f) PROVE StoreNext
<1>1. f \in Ids /\ ClientOf[f] \in Clients /\ content[PageOf[f]] \in Bodies
  BY FetchConstants DEF FetchTypes, Content, OthersAsk
<1>2. QED
  BY <1>1 DEF OthersAsk, StoreNext

\* A step of a fetch is one of the store it asks, or a restart.
LEMMA StepOfStore ==
    ASSUME StoreTypeOK, FetchTypes, [Next]_vars
    PROVE  [StoreNext]_storeVars \/ Restart
<1>1. CASE UNCHANGED vars
  BY <1>1 DEF vars, storeVars
<1>2. ASSUME NEW f \in Ids,
             \/ StartFetch(f) \/ SendRequest(f) \/ Timeout(f)
             \/ \E a \in answers : \/ HearFirst(f, a) \/ HearNext(f, a)
                                   \/ HearLost(f, a) \/ HearRefused(f, a)
      PROVE  UNCHANGED storeVars
  BY <1>2 DEF StartFetch, SendRequest, Timeout, HearFirst, HearNext, HearLost,
     HearRefused, Hears
<1>3. ASSUME NEW m \in reqs, Serve(m) PROVE [StoreNext]_storeVars
  BY <1>3, ServeIsOfStore
<1>4. ASSUME NEW f \in Others, OthersAsk(f) PROVE StoreNext
  BY <1>4, OthersAreOfStore
<1>5. ASSUME NEW w \in sending, AfterSend(w) PROVE StoreNext
  BY <1>5 DEF AfterSend, StoreNext
<1>6. ASSUME NEW p \in Pages, Edit(p) PROVE UNCHANGED storeVars
  BY <1>6 DEF Edit
<1>7. CASE Tick
  BY <1>7 DEF Tick, StoreNext
<1>8. QED
  BY <1>1, <1>2, <1>3, <1>4, <1>5, <1>6, <1>7 DEF Next

LEMMA RestartKeepsStore == ASSUME StoreTypeOK, Restart PROVE StoreInv'
<1>1. /\ now' = now /\ slots' = [t \in Tokens |-> Free] /\ sending' = {}
  BY DEF Restart
<1>2. StoreTypeOK'
  BY <1>1 DEF StoreTypeOK
<1>3. InFlightIn(slots') = {}
  BY <1>1 DEF InFlightIn, InFlight, Busy
<1>4. \A c \in Clients : OfClient(slots', c) = {}
  BY <1>3 DEF OfClient
<1>5. Caps(slots')
  BY <1>3, <1>4, FS_EmptySet, TransferConstants DEF Caps
<1>6. OnePer(slots')
  BY <1>3 DEF OnePer
<1>7. QED
  BY <1>2, <1>5, <1>6 DEF StoreInv

-----------------------------------------------------------------------------
(* What a step does to the calls *)

LEMMA VerdictsAre == \A x : Verdicts(x) \subseteq {"ok", "failed"}
BY DEF Verdicts

\* The end of a loop that heard a chunk.
LEMMA GoesIs ==
    ASSUME fetch \in [Ids -> Calls], now \in Nat, NEW f \in Ids, NEW x \in Calls, Goes(f, x)
    PROVE  /\ fetch' \in [Ids -> Calls]
           /\ \A g \in Ids \ {f} : fetch'[g] = fetch[g]
           /\ fetch'[f].began = x.began /\ fetch'[f].got = x.got
           /\ fetch'[f].total = x.total /\ fetch'[f].token = x.token
           /\ \/ /\ x.n + 1 < x.total /\ fetch'[f].phase = "send"
                 /\ fetch'[f].n = x.n + 1 /\ fetch'[f].since = now /\ fetch'[f].at = now
              \/ /\ ~(x.n + 1 < x.total) /\ fetch'[f].phase \in {"ok", "failed"}
                 /\ fetch'[f].n = x.n
<1>1. CASE x.n + 1 < x.total
  <2>1. PICK y : y = [x EXCEPT !.phase = "send", !.n = x.n + 1,
                               !.since = now, !.at = now]
    OBVIOUS
  <2>2. fetch' = [fetch EXCEPT ![f] = y]
    BY <1>1, <2>1 DEF Goes
  <2>3. /\ y \in Calls /\ y.began = x.began /\ y.got = x.got /\ y.total = x.total
        /\ y.token = x.token /\ y.phase = "send" /\ y.n = x.n + 1
        /\ y.since = now /\ y.at = now
    <3>1. ASSUME NEW k \in Nat, y = [x EXCEPT !.phase = "send", !.n = k,
                                              !.since = now, !.at = now]
          PROVE  /\ y \in Calls /\ y.began = x.began /\ y.got = x.got
                 /\ y.total = x.total /\ y.token = x.token /\ y.phase = "send"
                 /\ y.n = k /\ y.since = now /\ y.at = now
      BY <3>1 DEF Calls, Phases
    <3>2. x.n + 1 \in Nat
      BY DEF Calls
    <3>3. QED
      BY <2>1, <3>1, <3>2
  <2>4. fetch' \in [Ids -> Calls] /\ fetch'[f] = y
        /\ \A g \in Ids \ {f} : fetch'[g] = fetch[g]
    BY <2>2, <2>3
  <2>5. QED
    BY <1>1, <2>3, <2>4
<1>2. CASE ~(x.n + 1 < x.total)
  <2>1. PICK v \in Verdicts(x) : fetch' = [fetch EXCEPT ![f] = [x EXCEPT !.phase = v]]
    BY <1>2 DEF Goes
  <2>2. PICK y : y = [x EXCEPT !.phase = v]
    OBVIOUS
  <2>3. v \in {"ok", "failed"}
    BY <2>1, VerdictsAre
  <2>4. /\ y \in Calls /\ y.began = x.began /\ y.got = x.got /\ y.total = x.total
        /\ y.token = x.token /\ y.phase = v /\ y.n = x.n
    BY <2>2, <2>3 DEF Calls, Phases
  <2>5. fetch' \in [Ids -> Calls] /\ fetch'[f] = y
        /\ \A g \in Ids \ {f} : fetch'[g] = fetch[g]
    BY <2>1, <2>2, <2>4
  <2>6. QED
    BY <1>2, <2>3, <2>4, <2>5
<1>3. QED
  BY <1>1, <1>2

Heard(f, a) == HearFirst(f, a) \/ HearNext(f, a)

LEMMA HeardIs ==
    ASSUME now \in Nat, FetchTypes, NEW f \in Ids, NEW a \in answers, AnswerOK(a),
           Walking(f), Heard(f, a)
    PROVE  /\ Pending(f) /\ a.f = f /\ a.n = fetch[f].n /\ a.status = "OK"
           /\ a.body \in Bodies /\ answers' = answers \ {a}
           /\ UNCHANGED <<storeVars, pageVars, reqs, restarts, history>>
           /\ fetch' \in [Ids -> Calls]
           /\ \A g \in Ids \ {f} : fetch'[g] = fetch[g]
           /\ fetch'[f].began = fetch[f].began
           /\ fetch'[f].got = Append(fetch[f].got, a.body)
           /\ a.n = 0 => fetch'[f].total = a.total /\ fetch'[f].token = a.token
           /\ a.n > 0 => /\ fetch'[f].total = fetch[f].total
                         /\ fetch'[f].token = fetch[f].token
           /\ \/ /\ a.n + 1 < fetch'[f].total /\ fetch'[f].phase = "send"
                 /\ fetch'[f].n = a.n + 1 /\ fetch'[f].since = now /\ fetch'[f].at = now
              \/ /\ ~(a.n + 1 < fetch'[f].total) /\ fetch'[f].phase \in {"ok", "failed"}
                 /\ fetch'[f].n = a.n
<1>1. /\ Pending(f) /\ a.f = f /\ a.n = fetch[f].n /\ a.status = "OK"
      /\ answers' = answers \ {a}
      /\ UNCHANGED <<storeVars, pageVars, reqs, restarts, history>>
  BY DEF Heard, HearFirst, HearNext, Hears, Pending
<1>2. a.body \in Bodies /\ a \in Answers /\ fetch[f] \in Calls /\ fetch \in [Ids -> Calls]
  BY <1>1 DEF AnswerOK, FetchTypes
<1>3. /\ a.total \in Nat /\ a.token \in Tokens
      /\ (IF a.final THEN a.body ELSE NoBody) \in Content
      /\ (IF a.final THEN a.body ELSE fetch[f].sum) \in Content
  BY <1>2 DEF Answers, Calls, Content
<1>4. Len(fetch[f].got) = fetch[f].n /\ fetch[f].got \in Seq(Bodies)
  BY <1>1, <1>2 DEF Walking, Calls
<1>5. CASE HearFirst(f, a)
  <2>1. PICK x : x = [fetch[f] EXCEPT !.got = <<a.body>>, !.total = a.total,
                        !.token = a.token, !.sum = IF a.final THEN a.body ELSE NoBody]
    OBVIOUS
  <2>2. a.n = 0 /\ Goes(f, x)
    BY <1>5, <2>1 DEF HearFirst
  <2>3. <<a.body>> \in Seq(Bodies) /\ <<a.body>> = Append(fetch[f].got, a.body)
    BY <1>1, <1>2, <1>4, <2>2
  <2>4. /\ x \in Calls /\ x.n = a.n /\ x.began = fetch[f].began
        /\ x.total = a.total /\ x.token = a.token
    BY <1>1, <1>2, <1>3, <2>1, <2>3 DEF Calls
  <2>5. x.got = Append(fetch[f].got, a.body)
    BY <1>2, <2>1, <2>3 DEF Calls
  <2>6. QED
    BY <1>1, <1>2, <2>2, <2>4, <2>5, GoesIs
<1>6. CASE HearNext(f, a)
  <2>1. PICK x : x = [fetch[f] EXCEPT !.got = Append(@, a.body),
                        !.sum = IF a.final THEN a.body ELSE @]
    OBVIOUS
  <2>2. a.n > 0 /\ Goes(f, x)
    BY <1>6, <2>1 DEF HearNext
  <2>3. Append(fetch[f].got, a.body) \in Seq(Bodies)
    BY <1>2, <1>4
  <2>4. /\ x \in Calls /\ x.n = a.n /\ x.began = fetch[f].began
        /\ x.total = fetch[f].total /\ x.token = fetch[f].token
        /\ x.got = Append(fetch[f].got, a.body)
    BY <1>1, <1>2, <1>3, <2>1, <2>3 DEF Calls
  <2>5. a.n # 0
    BY <2>2
  <2>6. QED
    BY <1>1, <1>2, <2>2, <2>4, <2>5, GoesIs
<1>7. QED
  BY <1>5, <1>6 DEF Heard

\* What the other steps of a call leave as it was.
SameCall(f) ==
    /\ fetch' \in [Ids -> Calls]
    /\ \A g \in Ids \ {f} : fetch'[g] = fetch[g]
    /\ fetch'[f].n = fetch[f].n /\ fetch'[f].got = fetch[f].got
    /\ fetch'[f].total = fetch[f].total /\ fetch'[f].token = fetch[f].token

LEMMA StartIs ==
    ASSUME now \in Nat, FetchTypes, NEW f \in Ids, StartFetch(f)
    PROVE  /\ SameCall(f) /\ fetch'[f].phase = "send"
           /\ fetch'[f].since = now /\ fetch'[f].at = now /\ fetch'[f].began = now
<1>1. PICK y : y = [fetch[f] EXCEPT !.phase = "send", !.since = now,
                                    !.at = now, !.began = now]
  OBVIOUS
<1>2. fetch' = [fetch EXCEPT ![f] = y]
  BY <1>1 DEF StartFetch
<1>3. fetch[f] \in Calls /\ fetch \in [Ids -> Calls]
  BY DEF FetchTypes
<1>4. /\ y \in Calls /\ y.n = fetch[f].n /\ y.got = fetch[f].got
      /\ y.total = fetch[f].total /\ y.token = fetch[f].token
      /\ y.phase = "send" /\ y.since = now /\ y.at = now /\ y.began = now
  BY <1>1, <1>3 DEF Calls, Phases
<1>5. QED
  BY <1>2, <1>3, <1>4 DEF SameCall

\* A call that is under way changes its place and when it is due.
Waits(f, phase, at) ==
    /\ SameCall(f) /\ fetch'[f].phase = phase /\ fetch'[f].at = at
    /\ fetch'[f].since = fetch[f].since /\ fetch'[f].began = fetch[f].began

LEMMA WaitsIs ==
    ASSUME FetchTypes, NEW f \in Ids, NEW phase \in Phases, NEW at \in Nat,
           \/ fetch' = [fetch EXCEPT ![f].phase = phase, ![f].at = at]
           \/ /\ fetch' = [fetch EXCEPT ![f].phase = phase]
              /\ at = fetch[f].at
    PROVE  Waits(f, phase, at)
<1>1. PICK y : y = [fetch[f] EXCEPT !.phase = phase, !.at = at]
  OBVIOUS
<1>2. fetch[f] \in Calls /\ fetch \in [Ids -> Calls]
  BY DEF FetchTypes
<1>3. /\ y \in Calls /\ y.n = fetch[f].n /\ y.got = fetch[f].got
      /\ y.total = fetch[f].total /\ y.token = fetch[f].token
      /\ y.phase = phase /\ y.at = at
      /\ y.since = fetch[f].since /\ y.began = fetch[f].began
  BY <1>1, <1>2 DEF Calls
<1>4. CASE fetch' = [fetch EXCEPT ![f].phase = phase, ![f].at = at]
  BY <1>1, <1>2, <1>3, <1>4 DEF SameCall, Waits
<1>5. CASE fetch' = [fetch EXCEPT ![f].phase = phase] /\ at = fetch[f].at
  <2>1. [fetch[f] EXCEPT !.phase = phase] = y
    BY <1>1, <1>2, <1>5 DEF Calls
  <2>2. fetch' = [fetch EXCEPT ![f] = y]
    BY <1>5, <2>1
  <2>3. QED
    BY <1>2, <1>3, <2>2 DEF SameCall, Waits
<1>6. QED
  BY <1>4, <1>5

LEMMA SendIs ==
    ASSUME now \in Nat, FetchTypes, NEW f \in Ids, SendRequest(f)
    PROVE  Waits(f, "wait", now)
BY WaitsIs DEF SendRequest, Phases

LEMMA TimeoutIs ==
    ASSUME now \in Nat, FetchTypes, NEW f \in Ids, Timeout(f)
    PROVE  \/ Waits(f, "failed", fetch[f].at)
           \/ \E j \in 0 .. MaxJitter :
                Waits(f, "send", now + j) /\ now < fetch[f].since + RetryDeadline
<1>1. fetch[f].at \in Nat /\ \A j \in 0 .. MaxJitter : now + j \in Nat
  BY FetchNats DEF FetchTypes, Calls
<1>2. QED
  BY <1>1, WaitsIs DEF Timeout, RetryOrGiveUp, Phases

LEMMA EndIs ==
    ASSUME FetchTypes, NEW f \in Ids, NEW a, HearLost(f, a) \/ HearRefused(f, a)
    PROVE  \E v \in {"lost", "failed"} : Waits(f, v, fetch[f].at)
<1>1. fetch[f].at \in Nat
  BY DEF FetchTypes, Calls
<1>2. QED
  BY <1>1, WaitsIs DEF HearLost, HearRefused, Phases

-----------------------------------------------------------------------------
(* What a request makes of the table *)

\* A place in the table stays, is swept, or is marked done.
AgesAt(t) ==
    \/ slots'[t] = slots[t]
    \/ Stale(slots[t]) /\ slots'[t] = Free
    \/ InFlight(slots[t]) /\ slots'[t] = [slots[t] EXCEPT !.completed = now]

\* Or it is taken for a call.
BeginsAt(f, b, t) ==
    /\ ~Busy(Swept[t])
    /\ slots'[t] = New(ClientOf[f], f, b)

LEMMA AgedIs ==
    ASSUME slots \in Table, now \in Nat, NEW t \in Tokens, AgesAt(t)
    PROVE  /\ Busy(slots'[t]) =>
                /\ Busy(slots[t]) /\ slots'[t].id = slots[t].id
                /\ slots'[t].body = slots[t].body /\ slots'[t].created = slots[t].created
                /\ \/ slots'[t].completed = slots[t].completed
                   \/ slots[t].completed = Never /\ slots'[t].completed = now
           /\ ~Busy(slots'[t]) /\ Busy(slots[t]) => Stale(slots[t])
<1>1. CASE slots'[t] = slots[t]
  BY <1>1
<1>2. CASE Stale(slots[t]) /\ slots'[t] = Free
  BY <1>2 DEF Busy
<1>3. CASE InFlight(slots[t]) /\ slots'[t] = [slots[t] EXCEPT !.completed = now]
  <2>1. slots[t] \in Transfer /\ slots[t].completed = Never
    BY <1>3 DEF Table, InFlight, Busy
  <2>2. /\ slots'[t] \in Transfer /\ slots'[t].id = slots[t].id
        /\ slots'[t].body = slots[t].body /\ slots'[t].created = slots[t].created
        /\ slots'[t].completed = now
    BY <1>3, <2>1 DEF Transfer
  <2>3. Busy(slots'[t]) /\ Busy(slots[t])
    BY <2>1, <2>2, FreeIsNoTransfer DEF Busy
  <2>4. QED
    BY <2>1, <2>2, <2>3
<1>4. QED
  BY <1>1, <1>2, <1>3 DEF AgesAt

LEMMA SweptAges ==
    ASSUME NEW t \in Tokens, slots' = slots \/ slots'[t] = Swept[t] PROVE AgesAt(t)
BY DEF AgesAt, Swept

LEMMA MarkAges ==
    ASSUME slots \in Table, NEW w \in sending, FinishSend(w), NEW t \in Tokens
    PROVE  AgesAt(t)
BY DEF FinishSend, AgesAt, Table

\* What is taken is not taken by another.
LEMMA BegunIs ==
    ASSUME slots \in Table, now \in Nat, NEW f, NEW b, NEW t \in Tokens, BeginsAt(f, b, t)
    PROVE  /\ slots'[t].id = f /\ slots'[t].body = b
           /\ slots'[t].created = now /\ slots'[t].completed = Never
           /\ Busy(slots[t]) => Stale(slots[t])
BY DEF BeginsAt, New, Swept, Busy

LEMMA StartBegins ==
    ASSUME slots \in Table, NEW f \in Ids, NEW b, NEW t \in Tokens,
           GetStarts(ClientOf[f], f, b, t)
    PROVE  /\ BeginsAt(f, b, t)
           /\ \A u \in Tokens \ {t} : AgesAt(u)
<1>1. Swept \in Table /\ slots' = [Swept EXCEPT ![t] = New(ClientOf[f], f, b)]
      /\ ~Busy(Swept[t])
  BY SweepTyped DEF GetStarts, FreeTokens
<1>2. slots'[t] = New(ClientOf[f], f, b) /\ \A u \in Tokens \ {t} : slots'[u] = Swept[u]
  BY <1>1 DEF Table
<1>3. \A u \in Tokens \ {t} : AgesAt(u)
  BY <1>2, SweptAges
<1>4. QED
  BY <1>1, <1>2, <1>3 DEF BeginsAt

-----------------------------------------------------------------------------
(* What a request is answered *)

AllAge == \A t \in Tokens : AgesAt(t)

\* A refusal.
Refuses(a) == a.status # "OK" /\ AllAge

\* A page of one chunk.
Single(a) ==
    /\ a.status = "OK" /\ a.n = 0 /\ a.total = 1 /\ AllAge
    /\ a.body = content[PageOf[a.f]]

\* The first chunk of a transfer that is there.
Again(a) ==
    /\ a.status = "OK" /\ a.n = 0 /\ AllAge
    /\ InFlight(slots'[a.token]) /\ slots'[a.token].id = a.f
    /\ slots'[a.token].body = a.body

\* The first chunk of a transfer that begins.
Afresh(a) ==
    /\ a.status = "OK" /\ a.n = 0
    /\ a.body = content[PageOf[a.f]]
    /\ BeginsAt(a.f, a.body, a.token)
    /\ \A t \in Tokens \ {a.token} : AgesAt(t)

\* A later chunk, of the transfer that has the token.
Further(a, token) ==
    /\ a.status = "OK" /\ a.n > 0 /\ AllAge
    /\ a.token = token /\ Busy(slots'[token])
    /\ slots'[token].client = ClientOf[a.f] /\ slots'[token].body = a.body

Answered(m, a) ==
    /\ a \in Answers /\ a.f = m.f /\ a.n = m.n /\ a.sent = now
    /\ reqs' = reqs \ {m} /\ answers' = answers \cup {a}
    /\ UNCHANGED <<now, pageVars, restarts, fetch, seen>>
    /\ a.status = "OK" => a.body \in Bodies /\ a.total = Sizes[a.body]
    /\ \/ Refuses(a) \/ Single(a) \/ Again(a) \/ Afresh(a)
       \/ Further(a, m.token)

\* The record that Answer puts on the air.
LEMMA AnswerIs ==
    ASSUME FetchTypes, now \in Nat, NEW m \in reqs, NEW x, Answer(m, x),
           x.status \in {"OK", "UNKNOWN_TOKEN"} \cup Refusal, x.token \in Tokens,
           x.body \in Content, x.total \in Nat, x.final \in BOOLEAN
    PROVE  \E a \in Answers :
             /\ a.f = m.f /\ a.n = m.n /\ a.sent = now
             /\ a.status = x.status /\ a.token = x.token /\ a.body = x.body
             /\ a.total = x.total
             /\ reqs' = reqs \ {m} /\ answers' = answers \cup {a}
             /\ UNCHANGED <<pageVars, restarts, fetch, seen>>
<1>1. m \in Requests
  BY DEF FetchTypes
<1>2. PICK a : a = [f |-> m.f, n |-> m.n, sent |-> now, status |-> x.status,
                    token |-> x.token, body |-> x.body, total |-> x.total,
                    final |-> x.final]
  OBVIOUS
<1>3. a \in Answers
  BY <1>1, <1>2 DEF Requests, Answers
<1>4. reqs' = reqs \ {m} /\ answers' = answers \cup {a}
      /\ UNCHANGED <<pageVars, restarts, fetch, seen>>
  BY <1>2 DEF Answer
<1>5. a.f = m.f /\ a.n = m.n /\ a.sent = now
      /\ a.status = x.status /\ a.token = x.token /\ a.body = x.body
      /\ a.total = x.total
  BY <1>2
<1>6. QED
  BY <1>3, <1>4, <1>5

LEMMA RefuseIs ==
    ASSUME FetchTypes, now \in Nat, NEW m \in reqs, NEW s,
           s \in {"UNKNOWN_TOKEN"} \cup Refusal, Refuse(m, s), AllAge, now' = now
    PROVE  \E a \in Answers : Answered(m, a)
<1>1. PICK x : x = [status |-> s, token |-> 0, body |-> NoBody, total |-> 1, final |-> TRUE]
  OBVIOUS
<1>2. /\ x.status = s /\ x.token \in Tokens /\ x.body \in Content /\ x.total \in Nat
      /\ x.final \in BOOLEAN /\ s # "OK"
  BY <1>1, TransferConstants DEF Tokens, Content, Refusal
<1>3. Answer(m, x)
  BY <1>1 DEF Refuse
<1>4. QED
  BY <1>2, <1>3, AnswerIs DEF Answered, Refuses

\* The answer with chunks of b under a token.
Carries(m, a, t, b) ==
    /\ a.f = m.f /\ a.n = m.n /\ a.sent = now
    /\ a.status = "OK" /\ a.token = t /\ a.body = b /\ a.total = Sizes[b]
    /\ reqs' = reqs \ {m} /\ answers' = answers \cup {a}
    /\ UNCHANGED <<now, pageVars, restarts, fetch, seen>>

LEMMA SendsIs ==
    ASSUME FetchTypes, now \in Nat, NEW m \in reqs, NEW t \in Tokens, NEW b \in Bodies,
           NEW last \in BOOLEAN, Sends(m, t, b, last), now' = now
    PROVE  \E a \in Answers : Carries(m, a, t, b)
<1>1. PICK x : x = [status |-> "OK", token |-> t, body |-> b, total |-> Sizes[b],
                    final |-> last]
  OBVIOUS
<1>2. /\ x.status = "OK" /\ x.token = t /\ x.body = b /\ x.total = Sizes[b]
      /\ x.final = last /\ b \in Content /\ Sizes[b] \in Nat
  BY <1>1, TransferConstants DEF Content
<1>3. Answer(m, x)
  BY <1>1 DEF Sends
<1>4. QED
  BY <1>2, <1>3, AnswerIs DEF Carries

LEMMA SweptIs ==
    ASSUME StoreTypeOK
    PROVE  Swept \in Table /\ \A t \in Tokens : Busy(Swept[t]) => Swept[t] \in Transfer
BY SweepTyped DEF StoreTypeOK, Table, Busy

LEMMA AnswersFirst ==
    ASSUME StoreTypeOK, FetchTypes, NEW m \in reqs, m.n = 0,
           ServeMissing(m) \/ ServeSingle(m) \/ ServeMany(m)
    PROVE  \E a \in Answers : Answered(m, a)
<1> DEFINE b == content[PageOf[m.f]]
           c == ClientOf[m.f]
<1>1. now \in Nat /\ slots \in Table /\ m.f \in Ids /\ b \in Content /\ 0 \in Tokens
  BY FetchConstants, TransferConstants
     DEF StoreTypeOK, Table, FetchTypes, Requests, Tokens
<1>2. CASE ServeMissing(m)
  <2>1. Refuse(m, "NOT_FOUND") /\ slots' = slots /\ now' = now
    BY <1>2 DEF ServeMissing, storeVars
  <2>2. AllAge
    BY <2>1, SweptAges DEF AllAge
  <2>3. QED
    BY <1>1, <2>1, <2>2, RefuseIs DEF Refusal
<1>3. CASE ServeSingle(m)
  <2>1. b \in Bodies /\ Sizes[b] = 1 /\ slots' = slots /\ now' = now
        /\ Sends(m, 0, b, TRUE)
    BY <1>1, <1>3 DEF ServeSingle, storeVars, Content
  <2>2. AllAge
    BY <2>1, SweptAges DEF AllAge
  <2> HIDE DEF b
  <2>3. PICK a \in Answers : Carries(m, a, 0, b)
    BY <1>1, <2>1, SendsIs
  <2>4. Single(a)
    BY <2>1, <2>2, <2>3 DEF Single, Carries, b
  <2>5. QED
    BY <2>1, <2>3, <2>4 DEF Answered, Carries
<1>4. CASE ServeMany(m)
  <2>1. b \in Bodies
    BY <1>1, <1>4 DEF ServeMany, Content
  <2>2. CASE GetFull(c, m.f) /\ Refuse(m, "ERROR")
    <3>1. slots' = Swept /\ now' = now
      BY <2>2 DEF GetFull
    <3>2. AllAge
      BY <3>1, SweptAges DEF AllAge
    <3>3. QED
      BY <1>1, <2>2, <3>1, <3>2, RefuseIs DEF Refusal
  <2>3. ASSUME NEW t \in Tokens, GetAgain(c, m.f, t), Sends(m, t, Swept[t].body, FALSE)
        PROVE  \E a \in Answers : Answered(m, a)
    <3>1. slots' = Swept /\ now' = now /\ InFlight(Swept[t]) /\ Swept[t].id = m.f
      BY <2>3 DEF GetAgain, Existing, InFlightIn
    <3>2. Swept[t].body \in Bodies
      BY <3>1, SweptIs DEF InFlight, Transfer
    <3>3. AllAge
      BY <3>1, SweptAges DEF AllAge
    <3>4. PICK d \in Bodies : d = Swept[t].body /\ Sends(m, t, d, FALSE)
      BY <2>3, <3>2
    <3>5. PICK a \in Answers : Carries(m, a, t, d)
      BY <1>1, <3>1, <3>4, SendsIs
    <3>6. Again(a)
      BY <3>1, <3>3, <3>4, <3>5 DEF Again, Carries
    <3>7. QED
      BY <3>4, <3>5, <3>6 DEF Answered, Carries
  <2>4. ASSUME NEW t \in Tokens, GetStarts(c, m.f, b, t), Sends(m, t, b, FALSE)
        PROVE  \E a \in Answers : Answered(m, a)
    <3>1. now' = now
      BY <2>4 DEF GetStarts
    <3>2. BeginsAt(m.f, b, t) /\ \A u \in Tokens \ {t} : AgesAt(u)
      BY <1>1, <2>4, StartBegins
    <3> HIDE DEF b
    <3>3. PICK a \in Answers : Carries(m, a, t, b)
      BY <1>1, <2>1, <2>4, <3>1, SendsIs
    <3>4. Afresh(a)
      BY <3>2, <3>3 DEF Afresh, Carries, b
    <3>5. QED
      BY <2>1, <3>3, <3>4 DEF Answered, Carries
  <2>5. QED
    BY <1>4, <2>2, <2>3, <2>4 DEF ServeMany
<1>5. QED
  BY <1>2, <1>3, <1>4

LEMMA AnswersFurther ==
    ASSUME StoreTypeOK, FetchTypes, NEW m \in reqs, m.n > 0, ServeContinue(m)
    PROVE  \E a \in Answers : Answered(m, a)
<1> DEFINE t == m.token
           c == ClientOf[m.f]
<1>1. now \in Nat /\ t \in Tokens
  BY DEF StoreTypeOK, FetchTypes, Requests
<1>2. now' = now /\ slots' = Swept
  BY DEF ServeContinue, ContinueUnknown, ContinueOutOfRange, ContinueMiddle, ContinueFinal
<1>3. AllAge
  BY <1>2, SweptAges DEF AllAge
<1>4. CASE Refuse(m, "UNKNOWN_TOKEN") \/ Refuse(m, "INVALID_REQUEST")
  BY <1>1, <1>2, <1>3, <1>4, RefuseIs DEF Refusal
<1>5. ASSUME NEW last \in BOOLEAN, Owns(c, t), Sends(m, t, Swept[t].body, last)
      PROVE  \E a \in Answers : Answered(m, a)
  <2>1. Busy(Swept[t]) /\ Swept[t].client = c
    BY <1>5 DEF Owns
  <2>2. PICK d \in Bodies : d = Swept[t].body /\ Sends(m, t, d, last)
    BY <1>1, <1>5, <2>1, SweptIs DEF Transfer
  <2>3. PICK a \in Answers : Carries(m, a, t, d)
    BY <1>1, <1>2, <2>2, SendsIs
  <2>4. Further(a, t)
    BY <1>2, <1>3, <2>1, <2>2, <2>3 DEF Further, Carries
  <2>5. QED
    BY <2>2, <2>3, <2>4 DEF Answered, Carries
<1>6. QED
  BY <1>4, <1>5 DEF ServeContinue, ContinueMiddle, ContinueFinal

LEMMA ServeIs ==
    ASSUME StoreTypeOK, FetchTypes, NEW m \in reqs, Serve(m)
    PROVE  TokensMove /\ \E a \in Answers : Answered(m, a)
BY AnswersFirst, AnswersFurther DEF Serve

LEMMA TokensOnlyMove ==
    ASSUME TokensMove, retaken \subseteq Ids
    PROVE  retaken \subseteq retaken' /\ retaken' \subseteq Ids
BY DEF TokensMove

\* A call that is answered from a transfer of another call of its client.
LEMMA FurtherIs ==
    ASSUME NEW a, NEW f \in Ids, a.f = f, Pending(f), fetch[f].n > 0,
           Further(a, fetch[f].token), TokensMove
    PROVE  f \in retaken' \/ slots'[a.token].id = f
BY DEF Further, TokensMove

-----------------------------------------------------------------------------
(* Steps of a call *)

LEMMA InitFetch == Init => FetchInv
<1> SUFFICES ASSUME Init PROVE FetchInv
  OBVIOUS
<1>1. StoreTypeOK
  BY InitInv DEF Init, StoreInv
<1>2. PICK y : y = [phase |-> "idle", n |-> 0, since |-> 0, at |-> 0, began |-> 0,
                    total |-> 1, token |-> 0, got |-> <<>>, sum |-> NoBody]
  OBVIOUS
<1>3. y \in Calls /\ y.phase = "idle" /\ y.n = 0 /\ y.got = <<>>
  BY <1>2, TransferConstants DEF Calls, Phases, Tokens, Content
<1>4. fetch = [f \in Ids |-> y]
  BY <1>2 DEF Init
<1>5. FetchTypes
  BY <1>3, <1>4, FS_EmptySet DEF Init, FetchTypes, Content
<1>6. \A f \in Ids : /\ fetch[f].phase = "idle" /\ fetch[f].n = 0
                      /\ fetch[f].got = <<>> /\ seen[f] = {}
  BY <1>3, <1>4 DEF Init
<1>7. \A t \in Tokens : ~Busy(slots[t])
  BY DEF Init, StoreInit, Busy
<1>8. reqs = {} /\ answers = {}
  BY DEF Init
<1>9. \A f \in Ids : ~Pending(f)
  BY <1>6 DEF Pending
<1>10. QED
  BY <1>1, <1>5, <1>6, <1>7, <1>8, <1>9
     DEF FetchInv, Started, Walking, Returned, SlotOK, Offered, Steady

\* The parts of the invariant that are about a call.
CallOK(f) ==
    Started(f) /\ Walking(f) /\ Returned(f) /\ Offered(f) /\ Steady(f)

LEMMA InvIs ==
    FetchInv <=> /\ StoreTypeOK /\ FetchTypes
                 /\ \A f \in Ids : CallOK(f)
                 /\ \A m \in reqs : RequestOK(m)
                 /\ \A a \in answers : AnswerOK(a)
                 /\ \A t \in Tokens : SlotOK(t)
BY DEF FetchInv, CallOK

\* The frames of a call, and its transfers.
FramesOK(f) ==
    /\ \A m \in reqs : m.f = f => RequestOK(m)
    /\ \A a \in answers : a.f = f => AnswerOK(a)
    /\ \A t \in Tokens : Of(f, t) => SlotOK(t)

\* A call changes nothing that another's invariant is about.
LEMMA OtherCalls ==
    ASSUME FetchInv, FetchTypes', NEW f \in Ids,
           \A g \in Ids \ {f} : fetch'[g] = fetch[g] /\ seen'[g] = seen[g],
           UNCHANGED <<storeVars, restarts, retaken>>,
           \A m \in reqs' : m \in reqs \/ m.f = f,
           answers' \subseteq answers,
           CallOK(f)', FramesOK(f)'
    PROVE  FetchInv'
<1>1. StoreTypeOK'
  BY DEF FetchInv, StoreTypeOK, storeVars
<1>2. now' = now /\ slots' = slots /\ restarts' = restarts /\ retaken' = retaken
  BY DEF storeVars
<1>3. ASSUME NEW g \in Ids \ {f} PROVE CallOK(g)'
  <2>1. fetch'[g] = fetch[g] /\ seen'[g] = seen[g] /\ CallOK(g)
    BY InvIs
  <2>2. Pending(g)' <=> Pending(g)
    BY <2>1 DEF Pending
  <2>3. Disturbed(g)' <=> Disturbed(g)
    BY <1>2, <2>1 DEF Disturbed
  <2>4. Started(g)' /\ Walking(g)' /\ Returned(g)'
    BY <1>2, <2>1, <2>2, <2>3 DEF CallOK, Started, Walking, Returned
  <2>5. Offered(g)'
    BY <1>2, <2>1, <2>2 DEF CallOK, Offered, Of, LastAsk
  <2>6. Steady(g)'
    BY <1>2, <2>1, <2>2 DEF CallOK, Steady, Of
  <2>7. QED
    BY <2>4, <2>5, <2>6 DEF CallOK
<1>4. ASSUME NEW m \in reqs' PROVE RequestOK(m)'
  <2>1. CASE m.f = f
    BY <2>1 DEF FramesOK
  <2>2. CASE m.f # f
    <3>1. m \in reqs /\ m.f \in Ids \ {f} /\ RequestOK(m)
      BY <2>2 DEF FetchInv, FetchTypes, Requests
    <3>2. QED
      BY <1>2, <3>1 DEF RequestOK, LastAsk
  <2>3. QED
    BY <2>1, <2>2
<1>5. ASSUME NEW a \in answers' PROVE AnswerOK(a)'
  <2>1. CASE a.f = f
    BY <2>1 DEF FramesOK
  <2>2. CASE a.f # f
    <3>1. a \in answers /\ a.f \in Ids \ {f} /\ AnswerOK(a)
      BY <2>2 DEF FetchInv, FetchTypes, Answers
    <3>2. QED
      BY <1>2, <3>1 DEF AnswerOK, Pending
  <2>3. QED
    BY <2>1, <2>2
<1>6. ASSUME NEW t \in Tokens PROVE SlotOK(t)'
  <2>1. CASE Of(f, t)
    BY <1>2, <2>1 DEF FramesOK, Of
  <2>2. CASE ~Of(f, t) /\ Busy(slots[t])
    <3>1. slots[t].id \in Ids \ {f} /\ SlotOK(t)
      BY <2>2 DEF FetchInv, StoreTypeOK, Transfer, Busy, Of
    <3>2. QED
      BY <1>2, <3>1 DEF SlotOK, Pending
  <2>3. CASE ~Busy(slots[t])
    BY <1>2, <2>3 DEF SlotOK
  <2>4. QED
    BY <2>1, <2>2, <2>3
<1>7. QED
  BY <1>1, <1>3, <1>4, <1>5, <1>6 DEF FetchInv, CallOK

\* A call that begins has no frame on the air and no transfer.
LEMMA StartFetchKeeps ==
    ASSUME FetchInv, NEW f \in Ids, StartFetch(f) PROVE FetchInv'
<1>1. now \in Nat /\ FetchTypes
  BY DEF FetchInv, StoreTypeOK
<1>2. /\ UNCHANGED <<storeVars, content, edits, reqs, answers, restarts, retaken>>
      /\ fetch[f].phase = "idle" /\ f \notin Others
      /\ seen' = [seen EXCEPT ![f] = {content[PageOf[f]]}]
  BY DEF StartFetch, pageVars
<1>3. /\ SameCall(f) /\ fetch'[f].phase = "send"
      /\ fetch'[f].since = now /\ fetch'[f].at = now /\ fetch'[f].began = now
  BY <1>1, StartIs
<1>4. PICK c \in Content : c = content[PageOf[f]]
  BY <1>1, FetchConstants DEF FetchTypes
<1>5. /\ seen' \in [Ids -> SUBSET Content] /\ seen'[f] = {c}
      /\ \A g \in Ids \ {f} : seen'[g] = seen[g]
  BY <1>1, <1>2, <1>4 DEF FetchTypes
<1>6. \A g \in Ids : IsFiniteSet(seen'[g])
  <2>1. IsFiniteSet({c})
    BY FS_Singleton
  <2>2. QED
    BY <1>1, <1>5, <2>1 DEF FetchTypes
<1>7. FetchTypes'
  BY <1>1, <1>2, <1>3, <1>5, <1>6 DEF FetchTypes, SameCall
<1>8. fetch[f].n = 0 /\ fetch'[f].n = 0 /\ Len(fetch'[f].got) = 0
  BY <1>2, <1>3 DEF FetchInv, Started, SameCall
<1>9. now' = now /\ reqs' = reqs /\ answers' = answers /\ slots' = slots
  BY <1>2 DEF storeVars
<1>10. \A m \in reqs : m.f # f
  BY <1>2 DEF FetchInv, RequestOK
<1>11. \A a \in answers : a.f # f
  BY <1>2 DEF FetchInv, AnswerOK
<1>12. \A t \in Tokens : ~Of(f, t)
  BY <1>2 DEF FetchInv, SlotOK, Of
<1>13. FramesOK(f)'
  BY <1>9, <1>10, <1>11, <1>12 DEF FramesOK, Of
<1>14. CallOK(f)'
  <2>1. now <= now + RetryDeadline + MaxJitter
    BY <1>1, FetchNats
  <2>2. Started(f)' /\ Returned(f)'
    BY <1>2, <1>3, <1>5, <1>8 DEF Started, Returned
  <2>3. Walking(f)'
    BY <1>1, <1>3, <1>8, <1>9, <2>1 DEF Walking
  <2>4. Offered(f)' /\ Steady(f)'
    BY <1>8, <1>9, <1>11 DEF Offered, Steady
  <2>5. QED
    BY <2>2, <2>3, <2>4 DEF CallOK
<1>15. QED
  BY <1>2, <1>3, <1>5, <1>7, <1>9, <1>13, <1>14, OtherCalls DEF SameCall

\* A call that waits, asks or ends: its chunks are what they were, and no more
\* requests for the first of them are on the air than it may send.
LEMMA WaitsKeeps ==
    ASSUME FetchInv, NEW f \in Ids, Pending(f), NEW phase \in {"send", "wait", "lost", "failed"},
           NEW at \in Nat, Waits(f, phase, at),
           UNCHANGED <<storeVars, content, edits, restarts, seen, retaken>>,
           reqs' \subseteq Requests, answers' \subseteq answers,
           phase = "send" =>
             now <= at /\ at <= fetch[f].since + RetryDeadline + MaxJitter,
           \A m \in reqs' \ reqs :
             /\ m.f = f /\ m.sent = now /\ m.n = fetch[f].n /\ m.token = fetch[f].token
             /\ m.n = 0 => now <= LastAsk(f)
    PROVE  FetchInv'
<1>1. now \in Nat /\ FetchTypes /\ fetch[f] \in Calls /\ CallOK(f)
  BY InvIs DEF StoreTypeOK, FetchTypes
<1>2. /\ fetch' \in [Ids -> Calls] /\ \A g \in Ids \ {f} : fetch'[g] = fetch[g]
      /\ fetch'[f].n = fetch[f].n /\ fetch'[f].got = fetch[f].got
      /\ fetch'[f].total = fetch[f].total /\ fetch'[f].token = fetch[f].token
      /\ fetch'[f].phase = phase /\ fetch'[f].at = at
      /\ fetch'[f].since = fetch[f].since /\ fetch'[f].began = fetch[f].began
  BY DEF Waits, SameCall
<1>3. FetchTypes'
  BY <1>1, <1>2 DEF FetchTypes
<1>4. /\ now' = now /\ slots' = slots /\ seen' = seen /\ restarts' = restarts
      /\ retaken' = retaken
  BY DEF storeVars
<1>5. fetch[f].phase \in {"send", "wait"} /\ fetch[f].n \in Nat
  BY <1>1 DEF Pending, Calls
<1>6. FramesOK(f)'
  <2>1. ASSUME NEW m \in reqs', m.f = f PROVE RequestOK(m)'
    <3>1. CASE m \in reqs
      <4>1. RequestOK(m)
        BY <3>1 DEF FetchInv
      <4>2. QED
        BY <1>2, <1>4, <2>1, <4>1 DEF RequestOK, LastAsk
    <3>2. CASE m \notin reqs
      <4>1. /\ m.sent = now /\ m.n = fetch[f].n /\ m.token = fetch[f].token
            /\ m.n = 0 => now <= LastAsk(f)
        BY <2>1, <3>2
      <4>2. now <= now + MaxDelay
        BY <1>1, FetchNats
      <4>3. QED
        BY <1>1, <1>2, <1>4, <1>5, <2>1, <4>1, <4>2 DEF RequestOK, LastAsk
    <3>3. QED
      BY <3>1, <3>2
  <2>2. ASSUME NEW a \in answers', a.f = f PROVE AnswerOK(a)'
    <3>1. AnswerOK(a)
      BY <2>2 DEF FetchInv
    <3>2. QED
      BY <1>2, <1>4, <2>2, <3>1 DEF AnswerOK, Pending
  <2>3. ASSUME NEW t \in Tokens, Of(f, t) PROVE SlotOK(t)'
    <3>1. SlotOK(t) /\ slots[t].id = f
      BY <2>3 DEF FetchInv, Of
    <3>2. QED
      BY <1>2, <1>4, <3>1 DEF SlotOK, Pending
  <2>4. QED
    BY <1>4, <2>1, <2>2, <2>3 DEF FramesOK, Of
<1>7. CallOK(f)'
  <2>1. Started(f)' /\ Returned(f)'
    BY <1>1, <1>2, <1>4, <1>5 DEF CallOK, Started, Returned
  <2>2. Walking(f)'
    BY <1>1, <1>2, <1>4 DEF CallOK, Walking, Pending
  <2>3. Offered(f)'
    BY <1>1, <1>2, <1>4 DEF CallOK, Offered, Of, LastAsk, Pending
  <2>4. Steady(f)'
    <3>1. \A m \in reqs' \ reqs : m.n = fetch[f].n
      OBVIOUS
    <3>2. QED
      BY <1>1, <1>2, <1>4, <1>5, <3>1 DEF CallOK, Steady, Of, Pending
  <2>5. QED
    BY <2>1, <2>2, <2>3, <2>4 DEF CallOK
<1>8. QED
  BY <1>2, <1>3, <1>4, <1>6, <1>7, OtherCalls

LEMMA SendKeeps ==
    ASSUME FetchInv, NEW f \in Ids, SendRequest(f) PROVE FetchInv'
<1>1. now \in Nat /\ FetchTypes /\ fetch[f] \in Calls /\ CallOK(f)
  BY InvIs DEF StoreTypeOK, FetchTypes
<1>2. PICK m : /\ m = [f |-> f, n |-> fetch[f].n, token |-> fetch[f].token, sent |-> now]
               /\ reqs' = reqs \cup {m}
  BY DEF SendRequest
<1>3. m \in Requests
  BY <1>1, <1>2 DEF Requests, Calls
<1>4. /\ fetch[f].phase = "send" /\ Pending(f)
      /\ UNCHANGED <<storeVars, content, edits, restarts, seen, retaken, answers>>
  BY DEF SendRequest, SendDue, pageVars, history, Pending
<1>5. fetch[f].n = 0 => now <= LastAsk(f)
  <2>1. ASSUME fetch[f].n = 0
        PROVE  now <= fetch[f].at /\ fetch[f].at <= LastAsk(f)
    BY <1>1, <1>4, <2>1 DEF CallOK, Walking, LastAsk
  <2>2. fetch[f].at \in Nat /\ LastAsk(f) \in Nat
    BY <1>1, FetchNats DEF Calls, LastAsk
  <2>3. QED
    BY <1>1, <2>1, <2>2
<1>6. Waits(f, "wait", now)
  BY <1>1, SendIs
<1>7. reqs' \subseteq Requests
  BY <1>1, <1>2, <1>3 DEF FetchTypes
<1>8. \A r \in reqs' \ reqs :
        /\ r.f = f /\ r.sent = now /\ r.n = fetch[f].n /\ r.token = fetch[f].token
        /\ r.n = 0 => now <= LastAsk(f)
  BY <1>2, <1>5
<1>9. QED
  BY <1>1, <1>4, <1>6, <1>7, <1>8, WaitsKeeps

LEMMA TimeoutKeeps ==
    ASSUME FetchInv, NEW f \in Ids, Timeout(f) PROVE FetchInv'
<1>1. now \in Nat /\ FetchTypes /\ fetch[f] \in Calls /\ reqs \subseteq Requests
  BY DEF FetchInv, StoreTypeOK, FetchTypes
<1>2. /\ Pending(f) /\ reqs' = reqs /\ answers' = answers
      /\ UNCHANGED <<storeVars, content, edits, restarts, seen, retaken>>
  BY DEF Timeout, SendDue, WaitOver, pageVars, history, Pending
<1>3. CASE Waits(f, "failed", fetch[f].at)
  BY <1>1, <1>2, <1>3, WaitsKeeps DEF Calls
<1>4. ASSUME NEW j \in 0 .. MaxJitter, Waits(f, "send", now + j),
             now < fetch[f].since + RetryDeadline
      PROVE  FetchInv'
  <2>1. /\ now + j \in Nat /\ now <= now + j
        /\ now + j <= fetch[f].since + RetryDeadline + MaxJitter
    BY <1>1, <1>4, FetchNats DEF Calls
  <2>2. QED
    BY <1>1, <1>2, <1>4, <2>1, WaitsKeeps
<1>5. QED
  BY <1>1, <1>3, <1>4, TimeoutIs

LEMMA EndKeeps ==
    ASSUME FetchInv, NEW f \in Ids, NEW a \in answers, HearLost(f, a) \/ HearRefused(f, a)
    PROVE  FetchInv'
<1>1. FetchTypes /\ fetch[f] \in Calls /\ reqs \subseteq Requests
  BY DEF FetchInv, FetchTypes
<1>2. /\ Pending(f) /\ reqs' = reqs /\ answers' \subseteq answers
      /\ UNCHANGED <<storeVars, content, edits, restarts, seen, retaken>>
  BY DEF HearLost, HearRefused, Hears, pageVars, history, Pending
<1>3. PICK v \in {"lost", "failed"} : Waits(f, v, fetch[f].at)
  BY <1>1, EndIs
<1>4. QED
  BY <1>1, <1>2, <1>3, WaitsKeeps DEF Calls

-----------------------------------------------------------------------------
(* An answer is heard *)

LEMMA AppendIs ==
    ASSUME NEW s \in Seq(Bodies), NEW b \in Bodies
    PROVE  /\ Append(s, b) \in Seq(Bodies) /\ Len(Append(s, b)) = Len(s) + 1
           /\ Len(s) \in Nat
           /\ \A i \in 1 .. Len(s) : Append(s, b)[i] = s[i]
           /\ Append(s, b)[Len(s) + 1] = b
           /\ DOMAIN Append(s, b) = 1 .. Len(s) + 1
           /\ DOMAIN s = 1 .. Len(s)
OBVIOUS

\* The first answer: its transfer is that of the call from now on.
LEMMA FirstKeepsSteady ==
    ASSUME FetchInv, NEW f \in Ids, NEW a \in answers, Heard(f, a), a.n = 0, a.total > 1
    PROVE  Steady(f)'
<1>1. now \in Nat /\ FetchTypes /\ AnswerOK(a) /\ Walking(f) /\ CallOK(f)
  BY InvIs DEF StoreTypeOK, CallOK
<1>2. /\ Pending(f) /\ a.f = f /\ a.n = fetch[f].n /\ a.status = "OK"
      /\ a.body \in Bodies /\ answers' = answers \ {a}
      /\ UNCHANGED <<storeVars, pageVars, reqs, restarts, history>>
      /\ fetch'[f].began = fetch[f].began
      /\ fetch'[f].got = Append(fetch[f].got, a.body)
      /\ fetch'[f].token = a.token
  BY <1>1, HeardIs
<1>3. /\ now' = now /\ slots' = slots /\ reqs' = reqs /\ restarts' = restarts
      /\ retaken' = retaken
  BY <1>2 DEF storeVars, history
<1>4. fetch[f] \in Calls /\ a \in Answers
  BY <1>1 DEF FetchTypes
<1>5. fetch[f].got \in Seq(Bodies) /\ Len(fetch[f].got) = 0
  BY <1>1, <1>2, <1>4 DEF Walking, Calls
<1>6. /\ fetch'[f].got[1] = a.body /\ DOMAIN fetch'[f].got = 1 .. 1
      /\ OneBody(fetch'[f].got)
  BY <1>2, <1>5, AppendIs DEF OneBody
<1>7. \A b \in answers : b.f = f => ~(b.n > 0)
  BY <1>2 DEF FetchInv, AnswerOK
<1>8. ASSUME restarts = 0
      PROVE  IF Of(f, a.token)
             THEN /\ slots[a.token].body = a.body
                  /\ slots[a.token].completed # Never => a.sent <= slots[a.token].completed
             ELSE now > LastAsk(f) + MaxDelay
  BY <1>1, <1>2, <1>8 DEF CallOK, Offered
<1>9. ASSUME restarts = 0, NEW m \in reqs, m.f = f, m.n = 0
      PROVE  /\ Of(f, a.token)
             /\ slots[a.token].completed # Never =>
                  m.sent + MaxDelay <= slots[a.token].completed + Linger
  <2>1. m \in Requests /\ RequestOK(m)
    BY <1>1 DEF FetchInv, FetchTypes
  <2>2. m.sent <= now /\ now <= m.sent + MaxDelay /\ m.sent <= LastAsk(f)
    BY <1>9, <2>1 DEF RequestOK
  <2>3. m.sent \in Nat /\ LastAsk(f) \in Nat
    BY <1>4, <2>1, FetchNats DEF Requests, LastAsk, Calls
  <2>4. ~(now > LastAsk(f) + MaxDelay)
    BY <1>1, <2>2, <2>3, FetchNats
  <2>5. Of(f, a.token)
    BY <1>8, <1>9, <2>4
  <2>6. ASSUME slots[a.token].completed # Never
        PROVE  m.sent + MaxDelay <= slots[a.token].completed + Linger
    <3>1. a.sent <= slots[a.token].completed /\ now <= a.sent + MaxDelay
      BY <1>1, <1>8, <1>9, <2>5, <2>6 DEF AnswerOK
    <3>2. slots[a.token].completed \in Nat /\ a.sent \in Nat
      BY <1>4, <2>5, <2>6 DEF Of, Busy, FetchInv, StoreTypeOK, Transfer, Answers
    <3>3. QED
      BY <1>1, <2>2, <2>3, <3>1, <3>2, FetchNats, FetchWindow
  <2>7. QED
    BY <2>5, <2>6
<1>10. QED
  BY <1>2, <1>3, <1>6, <1>7, <1>8, <1>9 DEF Steady, Of

\* The next one is of the body of the first, unless the token went to another.
LEMMA NextKeepsSteady ==
    ASSUME FetchInv, NEW f \in Ids, NEW a \in answers, Heard(f, a), a.n > 0
    PROVE  Steady(f)' /\ (restarts = 0 => f \in retaken \/ OneBody(fetch'[f].got))
<1>1. now \in Nat /\ FetchTypes /\ AnswerOK(a) /\ Walking(f) /\ CallOK(f)
  BY InvIs DEF StoreTypeOK, CallOK
<1>2. /\ Pending(f) /\ a.f = f /\ a.n = fetch[f].n /\ a.status = "OK"
      /\ a.body \in Bodies /\ answers' = answers \ {a}
      /\ UNCHANGED <<storeVars, pageVars, reqs, restarts, history>>
      /\ fetch'[f].got = Append(fetch[f].got, a.body)
      /\ fetch'[f].token = fetch[f].token
  BY <1>1, HeardIs
<1>3. /\ now' = now /\ slots' = slots /\ reqs' = reqs /\ restarts' = restarts
      /\ retaken' = retaken
  BY <1>2 DEF storeVars, history
<1>4. fetch[f] \in Calls
  BY <1>1 DEF FetchTypes
<1>5. fetch[f].got \in Seq(Bodies) /\ Len(fetch[f].got) = fetch[f].n /\ fetch[f].n \in Nat
  BY <1>1, <1>2, <1>4 DEF Walking, Calls
<1>6. /\ fetch'[f].got[1] = fetch[f].got[1]
      /\ DOMAIN fetch'[f].got = 1 .. Len(fetch[f].got) + 1
      /\ \A i \in 1 .. Len(fetch[f].got) : fetch'[f].got[i] = fetch[f].got[i]
      /\ fetch'[f].got[Len(fetch[f].got) + 1] = a.body
  <2>1. 1 \in 1 .. Len(fetch[f].got)
    BY <1>2, <1>5
  <2>2. QED
    BY <1>2, <1>5, <2>1, AppendIs
<1>7. ASSUME restarts = 0, f \notin retaken
      PROVE  OneBody(fetch'[f].got)
  <2>1. OneBody(fetch[f].got) /\ a.body = fetch[f].got[1]
    BY <1>1, <1>2, <1>7 DEF CallOK, Steady
  <2>2. \A i \in 1 .. Len(fetch[f].got) : fetch[f].got[i] = fetch[f].got[1]
    BY <1>5, <2>1, AppendIs DEF OneBody
  <2>3. ASSUME NEW i \in DOMAIN fetch'[f].got
        PROVE  fetch'[f].got[i] = fetch'[f].got[1]
    <3>1. CASE i = Len(fetch[f].got) + 1
      BY <1>6, <2>1, <3>1
    <3>2. CASE i # Len(fetch[f].got) + 1
      <4>1. i \in 1 .. Len(fetch[f].got)
        BY <1>5, <1>6, <3>2
      <4>2. QED
        BY <1>6, <2>2, <4>1
    <3>3. QED
      BY <3>1, <3>2
  <2>4. QED
    BY <2>3 DEF OneBody
<1>8. Steady(f)'
  BY <1>1, <1>2, <1>3, <1>6, <1>7 DEF CallOK, Steady, Of
<1>9. QED
  BY <1>7, <1>8

\* Two bodies of a page were seen if two are held.
LEMMA TwoSeen ==
    ASSUME NEW S, IsFiniteSet(S), NEW x \in S, NEW y \in S, x # y
    PROVE  Cardinality(S) > 1
<1>1. IsFiniteSet({x}) /\ Cardinality({x}) = 1
  BY FS_Singleton
<1>2. IsFiniteSet({x} \cup {y}) /\ Cardinality({x} \cup {y}) = 2
  <2> DEFINE X == {x}
  <2>1. IsFiniteSet(X) /\ Cardinality(X) = 1 /\ y \notin X
    BY <1>1
  <2> HIDE DEF X
  <2>2. /\ IsFiniteSet(X \cup {y})
        /\ Cardinality(X \cup {y}) = IF y \in X THEN Cardinality(X) ELSE Cardinality(X) + 1
    BY ONLY <2>1, FS_AddElement
  <2>3. IsFiniteSet(X \cup {y}) /\ Cardinality(X \cup {y}) = 2
    BY ONLY <2>1, <2>2
  <2>4. QED
    BY <2>3 DEF X
<1>3. {x} \cup {y} \subseteq S
  OBVIOUS
<1>4. Cardinality({x} \cup {y}) <= Cardinality(S) /\ Cardinality(S) \in Nat
  BY <1>3, FS_Subset, FS_CardinalityType
<1>5. QED
  BY <1>2, <1>4

\* A call that has all its chunks has them of one body it saw, or was disturbed.
LEMMA AllHeard ==
    ASSUME FetchInv, NEW f \in Ids, NEW a \in answers, Heard(f, a),
           ~(a.n + 1 < fetch'[f].total)
    PROVE  /\ fetch'[f].got # <<>> /\ fetch'[f].got[1] \in seen[f]
           /\ Whole(fetch'[f].got) \/ Disturbed(f)
<1>1. now \in Nat /\ FetchTypes /\ AnswerOK(a) /\ Walking(f) /\ CallOK(f)
  BY InvIs DEF StoreTypeOK, CallOK
<1>2. /\ Pending(f) /\ a.f = f /\ a.n = fetch[f].n /\ a.status = "OK"
      /\ a.body \in Bodies
      /\ fetch'[f].got = Append(fetch[f].got, a.body)
      /\ a.n = 0 => fetch'[f].total = a.total
      /\ a.n > 0 => fetch'[f].total = fetch[f].total
  BY <1>1, HeardIs
<1>3. fetch[f] \in Calls /\ fetch[f].got \in Seq(Bodies)
      /\ Len(fetch[f].got) = fetch[f].n /\ fetch[f].n \in Nat
      /\ Sizes[a.body] \in Nat \ {0} /\ a.total = Sizes[a.body]
  BY <1>1, <1>2, TransferConstants DEF FetchTypes, Walking, Calls, AnswerOK
<1>4. /\ fetch'[f].got \in Seq(Bodies) /\ Len(fetch'[f].got) = fetch[f].n + 1
      /\ DOMAIN fetch'[f].got = 1 .. fetch[f].n + 1
      /\ \A i \in 1 .. fetch[f].n : fetch'[f].got[i] = fetch[f].got[i]
      /\ fetch'[f].got[fetch[f].n + 1] = a.body
  BY <1>2, <1>3, AppendIs
<1>5. fetch'[f].got # <<>>
  BY <1>3, <1>4
<1>6. CASE a.n = 0
  <2>1. fetch'[f].got[1] = a.body /\ Len(fetch'[f].got) = 1 /\ a.total = 1
    BY <1>2, <1>3, <1>4, <1>6
  <2>2. OneBody(fetch'[f].got)
    BY <1>2, <1>4, <1>6 DEF OneBody
  <2>3. a.body \in seen[f]
    BY <1>1, <1>2, <1>6 DEF AnswerOK
  <2>4. QED
    BY <1>3, <1>5, <2>1, <2>2, <2>3 DEF Whole
<1>7. CASE a.n # 0
  <2>1. /\ fetch[f].n > 0 /\ a.n > 0 /\ fetch[f].n < fetch[f].total
        /\ fetch[f].total = Sizes[fetch[f].got[1]] /\ fetch[f].got[1] \in seen[f]
        /\ f \in retaken \/ \A i \in 1 .. fetch[f].n : fetch[f].got[i] \in seen[f]
    BY <1>1, <1>2, <1>3, <1>7 DEF Walking
  <2>2. fetch'[f].got[1] = fetch[f].got[1] /\ fetch[f].total \in Nat
    BY <1>3, <1>4, <2>1 DEF Calls
  <2>3. Len(fetch'[f].got) = Sizes[fetch'[f].got[1]]
    BY <1>2, <1>3, <1>4, <2>1, <2>2
  <2>4. CASE OneBody(fetch'[f].got)
    BY <1>5, <2>1, <2>2, <2>3, <2>4 DEF Whole
  <2>5. CASE ~OneBody(fetch'[f].got) /\ f \notin retaken
    <3>1. restarts > 0
      <4>1. restarts # 0
        BY <2>1, <2>5, NextKeepsSteady
      <4>2. QED
        BY <1>1, <4>1 DEF FetchTypes
    <3>2. a.body \in seen[f]
      BY <1>1, <1>2, <2>5 DEF AnswerOK
    <3>3. PICK i \in 1 .. fetch[f].n + 1 : fetch'[f].got[i] # fetch'[f].got[1]
      BY <1>4, <2>5 DEF OneBody
    <3>4. fetch'[f].got[i] \in seen[f]
      <4>1. CASE i = fetch[f].n + 1
        BY <1>4, <3>2, <4>1
      <4>2. CASE i # fetch[f].n + 1
        <5>1. i \in 1 .. fetch[f].n
          BY <1>3, <4>2
        <5>2. QED
          BY <1>4, <2>1, <2>5, <5>1
      <4>3. QED
        BY <4>1, <4>2
    <3>5. Cardinality(seen[f]) > 1
      BY <1>1, <2>1, <2>2, <3>3, <3>4, TwoSeen DEF FetchTypes
    <3>6. QED
      BY <1>5, <2>1, <2>2, <3>1, <3>5 DEF Disturbed
  <2>6. CASE f \in retaken
    BY <1>5, <2>1, <2>2, <2>6 DEF Disturbed
  <2>7. QED
    BY <2>4, <2>5, <2>6
<1>8. QED
  BY <1>6, <1>7

LEMMA HeardKeeps ==
    ASSUME FetchInv, NEW f \in Ids, NEW a \in answers, Heard(f, a) PROVE FetchInv'
<1>1. now \in Nat /\ FetchTypes /\ AnswerOK(a) /\ Walking(f) /\ CallOK(f)
  BY InvIs DEF StoreTypeOK, CallOK
<1>2. /\ Pending(f) /\ a.f = f /\ a.n = fetch[f].n /\ a.status = "OK"
      /\ a.body \in Bodies /\ answers' = answers \ {a}
      /\ UNCHANGED <<storeVars, pageVars, reqs, restarts, history>>
      /\ fetch' \in [Ids -> Calls]
      /\ \A g \in Ids \ {f} : fetch'[g] = fetch[g]
      /\ fetch'[f].began = fetch[f].began
      /\ fetch'[f].got = Append(fetch[f].got, a.body)
      /\ a.n = 0 => fetch'[f].total = a.total /\ fetch'[f].token = a.token
      /\ a.n > 0 => /\ fetch'[f].total = fetch[f].total
                    /\ fetch'[f].token = fetch[f].token
      /\ \/ /\ a.n + 1 < fetch'[f].total /\ fetch'[f].phase = "send"
            /\ fetch'[f].n = a.n + 1 /\ fetch'[f].since = now /\ fetch'[f].at = now
         \/ /\ ~(a.n + 1 < fetch'[f].total) /\ fetch'[f].phase \in {"ok", "failed"}
            /\ fetch'[f].n = a.n
  BY <1>1, HeardIs
<1>3. /\ now' = now /\ slots' = slots /\ reqs' = reqs /\ restarts' = restarts
      /\ retaken' = retaken /\ seen' = seen /\ content' = content
  BY <1>2 DEF storeVars, history, pageVars
<1>4. FetchTypes'
  BY <1>1, <1>2, <1>3 DEF FetchTypes
<1>5. /\ fetch[f] \in Calls /\ fetch[f].got \in Seq(Bodies)
      /\ Len(fetch[f].got) = fetch[f].n /\ fetch[f].n \in Nat
      /\ a.total = Sizes[a.body]
  BY <1>1, <1>2 DEF FetchTypes, Walking, Calls, AnswerOK
<1>6. FramesOK(f)'
  <2>1. fetch'[f].phase # "idle" /\ (Pending(f)' => Pending(f))
        /\ (fetch[f].n > 0 => fetch'[f].n > 0)
    BY <1>2, <1>5
  <2>2. ASSUME NEW m \in reqs, m.f = f PROVE RequestOK(m)'
    <3>1. RequestOK(m) /\ m \in Requests
      BY <1>1 DEF FetchInv, FetchTypes
    <3>2. m.n > 0 => a.n > 0
      BY <1>2, <2>2, <3>1 DEF RequestOK
    <3>3. QED
      BY <1>2, <1>3, <2>1, <2>2, <3>1, <3>2 DEF RequestOK, LastAsk
  <2>3. ASSUME NEW b \in answers, b.f = f PROVE AnswerOK(b)'
    <3>1. AnswerOK(b)
      BY DEF FetchInv
    <3>2. QED
      BY <1>3, <2>1, <2>3, <3>1 DEF AnswerOK
  <2>4. ASSUME NEW t \in Tokens, Of(f, t) PROVE SlotOK(t)'
    <3>1. SlotOK(t) /\ slots[t].id = f
      BY <2>4 DEF FetchInv, Of
    <3>2. QED
      BY <1>2, <1>3, <2>1, <3>1 DEF SlotOK
  <2>5. QED
    BY <1>2, <1>3, <2>2, <2>3, <2>4 DEF FramesOK, Of
<1>7. CASE /\ a.n + 1 < fetch'[f].total /\ fetch'[f].phase = "send"
           /\ fetch'[f].n = a.n + 1 /\ fetch'[f].since = now /\ fetch'[f].at = now
  <2>1. Started(f)' /\ Returned(f)'
    BY <1>1, <1>2, <1>3, <1>7 DEF CallOK, Started, Returned, Pending
  <2>2. fetch'[f].n > 0 /\ fetch'[f].n # 0 /\ fetch'[f].n \in Nat
    BY <1>2, <1>5, <1>7
  <2>3. Offered(f)'
    BY <2>2 DEF Offered
  <2>4. Steady(f)'
    <3>1. CASE a.n = 0
      BY <1>2, <1>5, <1>7, <3>1, FirstKeepsSteady
    <3>2. CASE a.n # 0
      <4>1. a.n > 0
        BY <1>2, <1>5, <3>2
      <4>2. QED
        BY <4>1, NextKeepsSteady
    <3>3. QED
      BY <3>1, <3>2
  <2>5. /\ Len(fetch'[f].got) = fetch'[f].n
        /\ \A i \in 1 .. fetch[f].n : fetch'[f].got[i] = fetch[f].got[i]
        /\ fetch'[f].got[fetch[f].n + 1] = a.body
    BY <1>2, <1>5, <1>7, AppendIs
  <2>6. /\ fetch'[f].total = Sizes[fetch'[f].got[1]]
        /\ fetch'[f].got[1] \in seen[f]
        /\ f \in retaken \/ \A i \in 1 .. fetch'[f].n : fetch'[f].got[i] \in seen[f]
    <3>1. CASE a.n = 0
      <4>1. a.body \in seen[f]
        BY <1>1, <1>2, <3>1 DEF AnswerOK
      <4>2. QED
        BY <1>2, <1>5, <1>7, <2>5, <3>1, <4>1
    <3>2. CASE a.n # 0
      <4>1. fetch[f].n > 0 /\ a.n > 0 /\ 1 \in 1 .. fetch[f].n
        BY <1>2, <1>5, <3>2
      <4>2. /\ fetch[f].total = Sizes[fetch[f].got[1]] /\ fetch[f].got[1] \in seen[f]
            /\ f \in retaken \/ \A i \in 1 .. fetch[f].n : fetch[f].got[i] \in seen[f]
        BY <1>1, <1>2, <4>1 DEF Walking
      <4>3. fetch'[f].got[1] = fetch[f].got[1]
        BY <2>5, <4>1
      <4>4. a.body \in seen[f] \/ f \in retaken
        BY <1>1, <1>2 DEF AnswerOK
      <4>5. ASSUME f \notin retaken, NEW i \in 1 .. fetch'[f].n
            PROVE  fetch'[f].got[i] \in seen[f]
        <5>1. CASE i = fetch[f].n + 1
          BY <2>5, <4>4, <4>5, <5>1
        <5>2. CASE i # fetch[f].n + 1
          <6>1. i \in 1 .. fetch[f].n
            BY <1>2, <1>5, <1>7, <5>2
          <6>2. QED
            BY <2>5, <4>2, <4>5, <6>1
        <5>3. QED
          BY <5>1, <5>2
      <4>6. QED
        BY <1>2, <4>1, <4>2, <4>3, <4>5
    <3>3. QED
      BY <3>1, <3>2
  <2>7. Walking(f)'
    <3>1. fetch'[f].began <= now
      BY <1>1, <1>2 DEF Walking
    <3>2. now <= now + RetryDeadline + MaxJitter
      BY <1>1, FetchNats
    <3>3. fetch'[f].n < fetch'[f].total
      BY <1>7
    <3>4. /\ now' <= fetch'[f].at
          /\ fetch'[f].at <= fetch'[f].since + RetryDeadline + MaxJitter
      BY <1>1, <1>3, <1>7, <3>2
    <3>5. fetch'[f].began <= now' /\ fetch'[f].n # 0
      BY <1>3, <2>2, <3>1
    <3>6. seen'[f] = seen[f] /\ retaken' = retaken
      BY <1>3
    <3>7. Pending(f)' =>
            /\ fetch'[f].began <= now'
            /\ fetch'[f].n = 0 => fetch'[f].since = fetch'[f].began
            /\ fetch'[f].phase = "send" =>
                 now' <= fetch'[f].at /\ fetch'[f].at <= fetch'[f].since + RetryDeadline + MaxJitter
            /\ Len(fetch'[f].got) = fetch'[f].n
            /\ fetch'[f].n > 0 =>
                 /\ fetch'[f].n < fetch'[f].total /\ fetch'[f].total = Sizes[fetch'[f].got[1]]
                 /\ fetch'[f].got[1] \in seen'[f]
                 /\ f \in retaken' \/ \A i \in 1 .. fetch'[f].n : fetch'[f].got[i] \in seen'[f]
      BY <2>5, <2>6, <3>3, <3>4, <3>5, <3>6
    <3>8. QED
      BY <3>7 DEF Walking
  <2>8. CallOK(f)'
    BY <2>1, <2>3, <2>4, <2>7 DEF CallOK
  <2>9. QED
    BY <1>2, <1>3, <1>4, <1>6, <2>8, OtherCalls
<1>8. CASE /\ ~(a.n + 1 < fetch'[f].total) /\ fetch'[f].phase \in {"ok", "failed"}
           /\ fetch'[f].n = a.n
  <2>1. ~Pending(f)'
    BY <1>8 DEF Pending
  <2>2. Walking(f)' /\ Offered(f)' /\ Steady(f)'
    BY <2>1 DEF Walking, Offered, Steady
  <2>3. Started(f)'
    BY <1>1, <1>2, <1>3, <1>8 DEF CallOK, Started, Pending
  <2>4. Disturbed(f)' <=> Disturbed(f)
    BY <1>3 DEF Disturbed
  <2>5. Returned(f)'
    BY <1>3, <1>8, <2>4, AllHeard DEF Returned
  <2>6. CallOK(f)'
    BY <2>2, <2>3, <2>5 DEF CallOK
  <2>7. QED
    BY <1>2, <1>3, <1>4, <1>6, <2>6, OtherCalls
<1>9. QED
  BY <1>2, <1>7, <1>8

-----------------------------------------------------------------------------
(* Steps of the server *)

\* A call that is under way has seen the page as it is.
Watched == \A f \in Ids : Pending(f) => content[PageOf[f]] \in seen[f]

\* A place is taken for a call of which a first request is in the air, or that
\* is followed at the server only.
Taken(t) ==
    \E g \in Ids :
      /\ g \in Others \/ \E m \in reqs : m.f = g /\ m.n = 0
      /\ content[PageOf[g]] \in Bodies
      /\ BeginsAt(g, content[PageOf[g]], t)

\* What a step of the server, but a restart, changes.
ServerMoves ==
    /\ UNCHANGED <<now, content, restarts, fetch, seen>>
    /\ retaken \subseteq retaken' /\ retaken' \subseteq Ids
    /\ reqs' \subseteq reqs
    /\ \A a \in answers' : a \in answers \/ \E m \in reqs : Answered(m, a) /\ TokensMove
    /\ \A t \in Tokens : AgesAt(t) \/ Taken(t)

\* A call's transfer that is swept unfinished is too old for any copy of the
\* first request.
LEMMA SweptTooLate ==
    ASSUME FetchInv, NEW f \in Ids, Pending(f), NEW t \in Tokens, Of(f, t),
           Stale(slots[t]), slots[t].completed = Never
    PROVE  now > LastAsk(f) + MaxDelay
<1>1. /\ slots[t] \in Transfer /\ slots[t].created \in Nat
      /\ fetch[f] \in Calls /\ fetch[f].began \in Nat /\ now \in Nat
  BY DEF FetchInv, StoreTypeOK, Of, Busy, Transfer, FetchTypes, Calls
<1>2. fetch[f].began <= slots[t].created
  BY DEF FetchInv, SlotOK, Of
<1>3. now - slots[t].created > TTL
  BY DEF Stale
<1>4. RetryDeadline + MaxJitter + MaxDelay <= TTL
  BY FetchWindow
<1>5. QED
  BY <1>1, <1>2, <1>3, <1>4, FetchNats DEF LastAsk

LEMMA AskedInTime ==
    ASSUME FetchInv, NEW m \in reqs, m.n = 0
    PROVE  ~(now > LastAsk(m.f) + MaxDelay)
<1>1. RequestOK(m) /\ m \in Requests /\ fetch[m.f] \in Calls /\ now \in Nat
  BY DEF FetchInv, FetchTypes, Requests, StoreTypeOK
<1>2. m.sent \in Nat /\ LastAsk(m.f) \in Nat
  BY <1>1, FetchNats DEF Requests, LastAsk, Calls
<1>3. m.sent <= LastAsk(m.f) /\ now <= m.sent + MaxDelay
  BY <1>1 DEF RequestOK
<1>4. QED
  BY <1>1, <1>2, <1>3, FetchNats

\* So a place that is taken for a call under way had nothing too old for it.
LEMMA TakenIs ==
    ASSUME FetchInv, Watched, NEW t \in Tokens, Taken(t), now' = now
    PROVE  /\ Busy(slots[t]) => Stale(slots[t])
           /\ Busy(slots'[t]) /\ slots'[t].id \in Ids
           /\ slots'[t].body = content[PageOf[slots'[t].id]]
           /\ slots'[t].created = now /\ slots'[t].completed = Never
           /\ fetch[slots'[t].id].phase # "idle" \/ slots'[t].id \in Others
           /\ Pending(slots'[t].id) => \E m \in reqs : m.f = slots'[t].id /\ m.n = 0
<1>1. PICK g \in Ids : /\ g \in Others \/ \E m \in reqs : m.f = g /\ m.n = 0
                       /\ content[PageOf[g]] \in Bodies
                       /\ BeginsAt(g, content[PageOf[g]], t)
  BY DEF Taken
<1>2. slots \in Table /\ now \in Nat
  BY DEF FetchInv, StoreTypeOK, Table
<1>3. /\ slots'[t].id = g /\ slots'[t].body = content[PageOf[g]]
      /\ slots'[t].created = now /\ slots'[t].completed = Never
      /\ Busy(slots[t]) => Stale(slots[t])
  BY <1>1, <1>2, BegunIs
<1>4. Busy(slots'[t])
  BY <1>1, <1>2, NewTyped, FreeIsNoTransfer, FetchConstants DEF BeginsAt, Busy
<1>5. g \in Others => ~Pending(g)
  BY DEF FetchInv, Started, Pending
<1>6. fetch[g].phase # "idle" \/ g \in Others
  BY <1>1 DEF FetchInv, RequestOK
<1>7. QED
  BY <1>1, <1>3, <1>4, <1>5, <1>6

LEMMA OfferLasts ==
    ASSUME FetchInv, Watched, ServerMoves, NEW f \in Ids, Pending(f), restarts = 0,
           fetch[f].n = 0, NEW a \in answers, a.f = f, a.n = 0, a.status = "OK",
           a.total > 1
    PROVE  IF Of(f, a.token)'
           THEN /\ slots'[a.token].body = a.body
                /\ slots'[a.token].completed # Never => a.sent <= slots'[a.token].completed
           ELSE now > LastAsk(f) + MaxDelay
<1>1. PICK t \in Tokens : t = a.token
  BY DEF FetchInv, FetchTypes, Answers
<1>2. /\ slots \in Table /\ now \in Nat /\ now' = now /\ a.sent \in Nat
      /\ a.sent <= now /\ now <= a.sent + MaxDelay /\ CallOK(f)
      /\ AgesAt(t) \/ Taken(t)
  BY InvIs DEF StoreTypeOK, Table, FetchTypes, Answers, ServerMoves, AnswerOK
<1>3. IF Of(f, t)
      THEN /\ slots[t].body = a.body
           /\ slots[t].completed # Never => a.sent <= slots[t].completed
      ELSE now > LastAsk(f) + MaxDelay
  BY <1>1, <1>2 DEF CallOK, Offered
<1>4. ASSUME Of(f, t), Stale(slots[t]) PROVE now > LastAsk(f) + MaxDelay
  <2>1. CASE slots[t].completed = Never
    BY <1>4, <2>1, SweptTooLate
  <2>2. CASE slots[t].completed # Never
    <3>1. slots[t].completed \in Nat /\ now - slots[t].completed > Linger
      BY <1>2, <1>4, <2>2 DEF Of, Busy, Table, Transfer, Stale
    <3>2. a.sent <= slots[t].completed
      BY <1>3, <1>4, <2>2
    <3>3. QED
      BY <1>2, <3>1, <3>2, FetchNats, FetchWindow
  <2>3. QED
    BY <2>1, <2>2
<1>5. CASE AgesAt(t)
  <2>1. /\ Busy(slots'[t]) =>
             /\ Busy(slots[t]) /\ slots'[t].id = slots[t].id
             /\ slots'[t].body = slots[t].body
             /\ \/ slots'[t].completed = slots[t].completed
                \/ slots[t].completed = Never /\ slots'[t].completed = now
        /\ ~Busy(slots'[t]) /\ Busy(slots[t]) => Stale(slots[t])
    BY <1>2, <1>5, AgedIs
  <2>2. CASE Of(f, t)'
    BY <1>1, <1>2, <1>3, <2>1, <2>2 DEF Of
  <2>3. CASE ~Of(f, t)'
    BY <1>1, <1>3, <1>4, <2>1, <2>3 DEF Of
  <2>4. QED
    BY <2>2, <2>3
<1>6. CASE Taken(t)
  <2>1. /\ Busy(slots[t]) => Stale(slots[t])
        /\ slots'[t].id = f => \E m \in reqs : m.f = f /\ m.n = 0
    BY <1>2, <1>6, TakenIs
  <2>2. now > LastAsk(f) + MaxDelay
    BY <1>3, <1>4, <2>1 DEF Of
  <2>3. ~Of(f, t)'
    BY <2>1, <2>2, AskedInTime DEF Of
  <2>4. QED
    BY <1>1, <2>2, <2>3
<1>7. QED
  BY <1>2, <1>5, <1>6

\* The transfer of a call outlives the copies of its first request: it is there
\* for them, and no other one of the call takes its token.
LEMMA SteadyLasts ==
    ASSUME FetchInv, Watched, ServerMoves, NEW f \in Ids, Pending(f), restarts = 0,
           fetch[f].n > 0
    PROVE  /\ Of(f, fetch[f].token)' => slots'[fetch[f].token].body = fetch[f].got[1]
           /\ \A m \in reqs' :
                m.f = f /\ m.n = 0 =>
                  /\ Of(f, fetch[f].token)'
                  /\ slots'[fetch[f].token].completed # Never =>
                       m.sent + MaxDelay <= slots'[fetch[f].token].completed + Linger
<1>1. PICK t \in Tokens : t = fetch[f].token
  BY DEF FetchInv, FetchTypes, Calls
<1>2. /\ slots \in Table /\ now \in Nat /\ now' = now /\ CallOK(f)
      /\ AgesAt(t) \/ Taken(t)
      /\ reqs' \subseteq reqs /\ t = fetch'[f].token
  BY <1>1, InvIs DEF StoreTypeOK, Table, ServerMoves
<1>3. /\ Of(f, t) => slots[t].body = fetch[f].got[1]
      /\ \A m \in reqs :
           m.f = f /\ m.n = 0 =>
             /\ Of(f, t)
             /\ slots[t].completed # Never => m.sent + MaxDelay <= slots[t].completed + Linger
  BY <1>1, <1>2 DEF CallOK, Steady
<1>4. ASSUME NEW m \in reqs, m.f = f, m.n = 0 PROVE Of(f, t) /\ ~Stale(slots[t])
  <2>1. Of(f, t)
    BY <1>3, <1>4
  <2>2. ASSUME Stale(slots[t]), slots[t].completed = Never PROVE FALSE
    BY <1>4, <2>1, <2>2, SweptTooLate, AskedInTime
  <2>3. ASSUME Stale(slots[t]), slots[t].completed # Never PROVE FALSE
    <3>1. slots[t].completed \in Nat /\ now - slots[t].completed > Linger
      BY <1>2, <2>1, <2>3 DEF Of, Busy, Table, Transfer, Stale
    <3>2. m.sent + MaxDelay <= slots[t].completed + Linger
      BY <1>3, <1>4, <2>3
    <3>3. now <= m.sent + MaxDelay /\ m.sent \in Nat
      BY DEF FetchInv, RequestOK, FetchTypes, Requests
    <3>4. QED
      BY <1>2, <3>1, <3>2, <3>3, FetchNats
  <2>4. QED
    BY <2>1, <2>2, <2>3
<1>5. CASE AgesAt(t)
  <2>1. /\ Busy(slots'[t]) =>
             /\ Busy(slots[t]) /\ slots'[t].id = slots[t].id
             /\ slots'[t].body = slots[t].body
             /\ \/ slots'[t].completed = slots[t].completed
                \/ slots[t].completed = Never /\ slots'[t].completed = now
        /\ ~Busy(slots'[t]) /\ Busy(slots[t]) => Stale(slots[t])
    BY <1>2, <1>5, AgedIs
  <2>2. Of(f, t)' => slots'[t].body = fetch[f].got[1]
    BY <1>3, <2>1 DEF Of
  <2>3. ASSUME NEW m \in reqs', m.f = f, m.n = 0
        PROVE  /\ Of(f, t)'
               /\ slots'[t].completed # Never =>
                    m.sent + MaxDelay <= slots'[t].completed + Linger
    <3>1. m \in reqs /\ Of(f, t) /\ ~Stale(slots[t])
      BY <1>2, <1>4, <2>3
    <3>2. Of(f, t)'
      BY <2>1, <3>1 DEF Of
    <3>3. m.sent \in Nat /\ m.sent <= now
      BY <3>1 DEF FetchInv, RequestOK, FetchTypes, Requests
    <3>4. m.sent + MaxDelay <= now + Linger
      BY <1>2, <3>3, FetchNats, FetchWindow
    <3>5. QED
      BY <1>3, <2>1, <2>3, <3>1, <3>2, <3>4 DEF Of
  <2>4. QED
    BY <1>1, <1>2, <2>2, <2>3
<1>6. CASE Taken(t)
  <2>1. /\ Busy(slots[t]) => Stale(slots[t])
        /\ slots'[t].id = f => \E m \in reqs : m.f = f /\ m.n = 0
    BY <1>2, <1>6, TakenIs
  <2>2. \A m \in reqs : ~(m.f = f /\ m.n = 0)
    BY <1>4, <2>1 DEF Of
  <2>3. ~Of(f, t)'
    BY <2>1, <2>2 DEF Of
  <2>4. QED
    BY <1>1, <1>2, <2>2, <2>3
<1>7. QED
  BY <1>2, <1>5, <1>6

\* A chunk of a later request is of the call's own body, if the transfer is its.
LEMMA FurtherOwn ==
    ASSUME FetchInv, ServerMoves, NEW m \in reqs, NEW a, Answered(m, a), TokensMove,
           a.n > 0, a.status = "OK", Pending(a.f)
    PROVE  /\ fetch[a.f].n > 0 /\ a.token = fetch[a.f].token
           /\ a.f \in retaken' \/ /\ Of(a.f, a.token)' /\ Of(a.f, a.token)
                                  /\ slots'[a.token].body = a.body
                                  /\ slots[a.token].body = a.body
<1>1. PICK f \in Ids : f = a.f /\ f = m.f
  BY DEF Answered, Answers
<1>2. RequestOK(m) /\ a.n = m.n /\ a.token \in Tokens
      /\ slots \in Table /\ now \in Nat
  BY DEF FetchInv, Answered, Answers, StoreTypeOK, Table
<1>3. fetch[f].n > 0 /\ m.token = fetch[f].token
  BY <1>1, <1>2 DEF RequestOK
<1>4. Further(a, fetch[f].token)
  <2>1. ~(a.n = 0)
    BY DEF Answered, Answers
  <2>2. QED
    BY <1>3, <2>1 DEF Answered, Refuses, Single, Again, Afresh
<1>5. f \in retaken' \/ slots'[a.token].id = f
  BY <1>1, <1>3, <1>4, FurtherIs
<1>6. /\ a.token = fetch[f].token /\ Busy(slots'[a.token])
      /\ slots'[a.token].body = a.body /\ AgesAt(a.token)
  BY <1>2, <1>4 DEF Further, AllAge
<1>7. Busy(slots[a.token]) /\ slots'[a.token].id = slots[a.token].id
      /\ slots'[a.token].body = slots[a.token].body
  BY <1>2, <1>6, AgedIs
<1>8. QED
  BY <1>1, <1>3, <1>5, <1>6, <1>7 DEF Of

LEMMA NewAnswerOK ==
    ASSUME FetchInv, Watched, ServerMoves, NEW m \in reqs, NEW a, Answered(m, a), TokensMove
    PROVE  AnswerOK(a)'
<1>1. PICK f \in Ids : f = a.f /\ f = m.f
  BY DEF Answered, Answers
<1>2. /\ RequestOK(m) /\ a.n = m.n /\ a.sent = now /\ a.n \in Nat /\ a.token \in Tokens
      /\ slots \in Table /\ now \in Nat
      /\ a.status = "OK" => a.body \in Bodies /\ a.total = Sizes[a.body]
  BY DEF FetchInv, Answered, Answers, StoreTypeOK, Table
<1>3. now' = now /\ fetch' = fetch /\ seen' = seen
  BY DEF ServerMoves
<1>4. now <= now + MaxDelay
  BY <1>2, FetchNats
<1>5. ASSUME a.status = "OK", Pending(f)
      PROVE  a.body \in seen[f] \/ (a.n > 0 /\ f \in retaken')
  <2>1. ASSUME NEW t \in Tokens, Of(f, t) PROVE slots[t].body \in seen[f]
    BY <1>5, <2>1 DEF FetchInv, SlotOK, Of
  <2>2. CASE Single(a) \/ Afresh(a)
    BY <1>1, <1>5, <2>2 DEF Single, Afresh, Watched
  <2>3. CASE Again(a)
    <3>1. Busy(slots'[a.token]) /\ slots'[a.token].id = f
          /\ slots'[a.token].body = a.body /\ AgesAt(a.token)
      BY <1>1, <1>2, <2>3 DEF Again, InFlight, AllAge
    <3>2. Of(f, a.token) /\ slots[a.token].body = a.body
      BY <1>2, <3>1, AgedIs DEF Of
    <3>3. QED
      BY <1>2, <2>1, <3>2
  <2>4. CASE Further(a, m.token)
    <3>1. a.n > 0
      BY <2>4 DEF Further
    <3>2. f \in retaken' \/ (Of(f, a.token) /\ slots[a.token].body = a.body)
      BY <1>1, <1>5, <3>1, FurtherOwn
    <3>3. QED
      BY <1>2, <2>1, <3>1, <3>2
  <2>5. ~Refuses(a)
    BY <1>5 DEF Refuses
  <2>6. QED
    BY <2>2, <2>3, <2>4, <2>5 DEF Answered
<1>6. fetch[f].phase # "idle" /\ (a.n > 0 => fetch[f].n > 0)
  BY <1>1, <1>2 DEF RequestOK
<1>7. Pending(f)' <=> Pending(f)
  BY <1>3 DEF Pending
<1>8. QED
  BY <1>1, <1>2, <1>3, <1>4, <1>5, <1>6, <1>7 DEF AnswerOK

\* What a first answer offers is there.
LEMMA NewOffer ==
    ASSUME FetchInv, Watched, ServerMoves, NEW m \in reqs, NEW a, Answered(m, a), TokensMove,
           a.n = 0, a.status = "OK", a.total > 1
    PROVE  /\ Of(a.f, a.token)' /\ slots'[a.token].body = a.body
           /\ slots'[a.token].completed = Never
<1>1. a.f \in Ids /\ a.token \in Tokens /\ slots \in Table /\ now \in Nat
      /\ a.body \in Bodies
  BY DEF FetchInv, Answered, Answers, StoreTypeOK, Table
<1>2. Again(a) \/ Afresh(a)
  BY DEF Answered, Refuses, Single, Further
<1>3. CASE Again(a)
  BY <1>3 DEF Again, InFlight, Of
<1>4. CASE Afresh(a)
  <2>1. /\ slots'[a.token].id = a.f /\ slots'[a.token].body = a.body
        /\ slots'[a.token].completed = Never
    BY <1>1, <1>4, BegunIs DEF Afresh
  <2>2. Busy(slots'[a.token])
    BY <1>1, <1>4, NewTyped, FreeIsNoTransfer, FetchConstants
       DEF Afresh, BeginsAt, Busy
  <2>3. QED
    BY <2>1, <2>2 DEF Of
<1>5. QED
  BY <1>2, <1>3, <1>4

LEMMA MovesKeep ==
    ASSUME FetchInv, Watched, ServerMoves, StoreTypeOK', FetchTypes' PROVE FetchInv'
<1>1. /\ now' = now /\ content' = content /\ restarts' = restarts /\ fetch' = fetch
      /\ seen' = seen /\ retaken \subseteq retaken' /\ reqs' \subseteq reqs
      /\ \A a \in answers' : a \in answers \/ \E m \in reqs : Answered(m, a) /\ TokensMove
      /\ \A t \in Tokens : AgesAt(t) \/ Taken(t)
  BY DEF ServerMoves
<1>2. slots \in Table /\ now \in Nat
  BY DEF FetchInv, StoreTypeOK, Table
<1>3. \A f \in Ids : Pending(f)' <=> Pending(f)
  BY <1>1 DEF Pending
<1>4. ASSUME NEW f \in Ids PROVE CallOK(f)'
  <2>1. CallOK(f)
    BY InvIs
  <2>2. Started(f)' /\ Walking(f)'
    BY <1>1, <1>3, <2>1 DEF CallOK, Started, Walking
  <2>3. Returned(f)'
    <3>1. Disturbed(f) => Disturbed(f)'
      BY <1>1 DEF Disturbed
    <3>2. QED
      BY <1>1, <2>1, <3>1 DEF CallOK, Returned
  <2>4. Offered(f)'
    <3> SUFFICES ASSUME Pending(f), restarts = 0, fetch[f].n = 0,
                        NEW a \in answers', a.f = f, a.n = 0, a.status = "OK", a.total > 1
                 PROVE  IF Of(f, a.token)'
                        THEN /\ slots'[a.token].body = a.body
                             /\ slots'[a.token].completed # Never =>
                                  a.sent <= slots'[a.token].completed
                        ELSE now > LastAsk(f) + MaxDelay
      BY <1>1, <1>3 DEF Offered, LastAsk
    <3>1. CASE a \in answers
      BY <3>1, OfferLasts
    <3>2. CASE a \notin answers
      BY <1>1, <3>2, NewOffer
    <3>3. QED
      BY <3>1, <3>2
  <2>5. Steady(f)'
    <3> SUFFICES ASSUME Pending(f), restarts = 0, fetch[f].n > 0
                 PROVE  Steady(f)'
      BY <1>1, <1>3 DEF Steady
    <3>1. /\ Of(f, fetch[f].token)' => slots'[fetch[f].token].body = fetch[f].got[1]
          /\ \A m \in reqs' :
               m.f = f /\ m.n = 0 =>
                 /\ Of(f, fetch[f].token)'
                 /\ slots'[fetch[f].token].completed # Never =>
                      m.sent + MaxDelay <= slots'[fetch[f].token].completed + Linger
      BY SteadyLasts
    <3>2. f \in retaken' \/ OneBody(fetch[f].got)
      BY <1>1, <2>1 DEF CallOK, Steady
    <3>3. ASSUME NEW a \in answers', a.f = f, a.n > 0, a.status = "OK"
          PROVE  f \in retaken' \/ a.body = fetch[f].got[1]
      <4>1. CASE a \in answers
        BY <1>1, <2>1, <3>3, <4>1 DEF CallOK, Steady
      <4>2. CASE a \notin answers
        <5>1. PICK m \in reqs : Answered(m, a) /\ TokensMove
          BY <1>1, <4>2
        <5>2. /\ a.token = fetch[f].token
              /\ f \in retaken' \/ (Of(f, a.token)' /\ slots'[a.token].body = a.body)
          BY <3>3, <5>1, FurtherOwn
        <5>3. Of(f, a.token)' => Of(f, fetch[f].token)'
          BY <1>1, <5>2 DEF Of
        <5>4. QED
          BY <3>1, <5>2, <5>3
      <4>3. QED
        BY <4>1, <4>2
    <3>4. QED
      BY <1>1, <3>1, <3>2, <3>3 DEF Steady
  <2>6. QED
    BY <2>2, <2>3, <2>4, <2>5 DEF CallOK
<1>5. ASSUME NEW m \in reqs' PROVE RequestOK(m)'
  <2>1. m \in reqs /\ RequestOK(m)
    BY <1>1 DEF FetchInv
  <2>2. QED
    BY <1>1, <2>1 DEF RequestOK, LastAsk
<1>6. ASSUME NEW a \in answers' PROVE AnswerOK(a)'
  <2>1. CASE a \in answers
    <3>1. AnswerOK(a) /\ a.f \in Ids
      BY <2>1 DEF FetchInv, FetchTypes, Answers
    <3>2. QED
      BY <1>1, <1>3, <3>1 DEF AnswerOK
  <2>2. CASE a \notin answers
    BY <1>1, <2>2, NewAnswerOK
  <2>3. QED
    BY <2>1, <2>2
<1>7. ASSUME NEW t \in Tokens PROVE SlotOK(t)'
  <2>1. CASE AgesAt(t)
    <3>1. Busy(slots'[t]) =>
            /\ Busy(slots[t]) /\ slots'[t].id = slots[t].id /\ slots[t].id \in Ids
            /\ slots'[t].body = slots[t].body /\ slots'[t].created = slots[t].created
      BY <1>2, <2>1, AgedIs DEF Table, Transfer, Busy
    <3>2. SlotOK(t)
      BY DEF FetchInv
    <3>3. QED
      BY <1>1, <1>3, <3>1, <3>2 DEF SlotOK
  <2>2. CASE Taken(t)
    <3>1. PICK g \in Ids : g = slots'[t].id
      BY <1>1, <2>2, TakenIs
    <3>2. /\ slots'[t].body = content[PageOf[g]] /\ slots'[t].created = now
          /\ fetch[g].phase # "idle" \/ g \in Others
      BY <1>1, <2>2, <3>1, TakenIs
    <3>3. Pending(g) => content[PageOf[g]] \in seen[g] /\ fetch[g].began <= now
      BY DEF FetchInv, Walking, Watched
    <3>4. QED
      BY <1>1, <1>3, <3>1, <3>2, <3>3 DEF SlotOK
  <2>3. QED
    BY <1>1, <2>1, <2>2
<1>8. QED
  BY <1>4, <1>5, <1>6, <1>7 DEF FetchInv, CallOK

LEMMA ServeKeeps ==
    ASSUME FetchInv, Watched, NEW m \in reqs, Serve(m) PROVE FetchInv'
<1>1. StoreTypeOK /\ FetchTypes /\ m \in Requests
  BY DEF FetchInv, FetchTypes
<1>2. StoreTypeOK'
  BY <1>1, ServeIsOfStore, NextType
<1>3. PICK a \in Answers : Answered(m, a)
  BY <1>1, ServeIs
<1>4. /\ TokensMove /\ retaken \subseteq retaken' /\ retaken' \subseteq Ids
      /\ reqs' = reqs \ {m} /\ answers' = answers \cup {a}
      /\ UNCHANGED <<now, content, restarts, fetch, seen>>
  BY <1>1, <1>3, ServeIs, TokensOnlyMove DEF Answered, pageVars, FetchTypes
<1>5. ASSUME NEW t \in Tokens PROVE AgesAt(t) \/ Taken(t)
  <2>1. CASE AllAge
    BY <2>1 DEF AllAge
  <2>2. CASE Afresh(a) /\ t # a.token
    BY <2>2 DEF Afresh
  <2>3. CASE Afresh(a) /\ t = a.token
    <3>1. a.f = m.f /\ m.f \in Ids /\ m.n = 0 /\ a.body \in Bodies
      BY <1>1, <1>3, <2>3 DEF Answered, Afresh, Requests
    <3>2. QED
      BY <2>3, <3>1 DEF Taken, Afresh
  <2>4. QED
    BY <1>3, <2>1, <2>2, <2>3 DEF Answered, Refuses, Single, Again, Further
<1>6. ServerMoves
  BY <1>3, <1>4, <1>5 DEF ServerMoves
<1>7. FetchTypes'
  BY <1>1, <1>4 DEF FetchTypes
<1>8. QED
  BY <1>2, <1>6, <1>7, MovesKeep

LEMMA OthersKeep ==
    ASSUME FetchInv, Watched, NEW f \in Others, OthersAsk(f) PROVE FetchInv'
<1>1. StoreTypeOK /\ FetchTypes /\ slots \in Table /\ f \in Ids
      /\ content[PageOf[f]] \in Bodies
  BY FetchConstants DEF FetchInv, FetchTypes, StoreTypeOK, Table, Content, OthersAsk
<1>2. StoreTypeOK'
  BY <1>1, OthersAreOfStore, NextType
<1>3. PICK t \in Tokens : GetStarts(ClientOf[f], f, content[PageOf[f]], t)
  BY DEF OthersAsk
<1>4. /\ retaken \subseteq retaken' /\ retaken' \subseteq Ids
      /\ UNCHANGED <<now, content, reqs, answers, restarts, fetch, seen>>
  BY <1>1, <1>3, TokensOnlyMove DEF OthersAsk, GetStarts, pageVars, FetchTypes
<1>5. BeginsAt(f, content[PageOf[f]], t) /\ \A u \in Tokens \ {t} : AgesAt(u)
  BY <1>1, <1>3, StartBegins
<1>6. Taken(t)
  BY <1>1, <1>5 DEF Taken
<1>7. ServerMoves
  BY <1>4, <1>5, <1>6 DEF ServerMoves
<1>8. FetchTypes'
  BY <1>1, <1>4 DEF FetchTypes
<1>9. QED
  BY <1>2, <1>7, <1>8, MovesKeep

LEMMA AfterSendKeeps ==
    ASSUME FetchInv, Watched, NEW w \in sending, AfterSend(w) PROVE FetchInv'
<1>1. StoreTypeOK /\ FetchTypes /\ slots \in Table
  BY DEF FetchInv, StoreTypeOK, Table
<1>2. StoreTypeOK'
  <2>1. StoreNext
    BY DEF AfterSend, StoreNext
  <2>2. QED
    BY <1>1, <2>1, NextType
<1>3. UNCHANGED <<now, content, reqs, answers, restarts, fetch, seen, retaken>>
  BY DEF AfterSend, FinishSend, SendRaises, pageVars, clientVars
<1>4. ASSUME NEW t \in Tokens PROVE AgesAt(t)
  <2>1. CASE FinishSend(w)
    BY <1>1, <2>1, MarkAges
  <2>2. CASE SendRaises(w)
    BY <2>2 DEF SendRaises, AgesAt
  <2>3. QED
    BY <2>1, <2>2 DEF AfterSend
<1>5. ServerMoves
  BY <1>1, <1>3, <1>4 DEF ServerMoves, FetchTypes
<1>6. FetchTypes'
  BY <1>1, <1>3 DEF FetchTypes
<1>7. QED
  BY <1>2, <1>5, <1>6, MovesKeep

-----------------------------------------------------------------------------
(* Steps of neither, and the invariant *)

LEMMA RestartKeeps == ASSUME FetchInv, Restart PROVE FetchInv'
<1>1. StoreTypeOK /\ FetchTypes /\ restarts \in Nat
  BY DEF FetchInv, FetchTypes
<1>2. StoreTypeOK'
  BY <1>1, RestartKeepsStore DEF StoreInv
<1>3. /\ now' = now /\ restarts' = restarts + 1 /\ \A t \in Tokens : ~Busy(slots'[t])
      /\ UNCHANGED <<content, fetch, reqs, answers, seen, retaken>>
  BY DEF Restart, Busy, pageVars, clientVars
<1>4. restarts' \in Nat /\ restarts' > 0 /\ restarts' # 0
  BY <1>1, <1>3
<1>5. FetchTypes'
  BY <1>1, <1>3, <1>4 DEF FetchTypes
<1>6. ASSUME NEW f \in Ids PROVE CallOK(f)'
  <2>1. CallOK(f)
    BY InvIs
  <2>2. Disturbed(f) => Disturbed(f)'
    BY <1>3, <1>4 DEF Disturbed
  <2>3. QED
    BY <1>3, <1>4, <2>1, <2>2
       DEF CallOK, Started, Walking, Returned, Offered, Steady, Pending
<1>7. (\A m \in reqs : RequestOK(m))' /\ (\A a \in answers : AnswerOK(a))'
  BY <1>3 DEF FetchInv, RequestOK, LastAsk, AnswerOK, Pending
<1>8. (\A t \in Tokens : SlotOK(t))'
  BY <1>3 DEF SlotOK
<1>9. QED
  BY <1>2, <1>5, <1>6, <1>7, <1>8 DEF FetchInv, CallOK

\* What an edit adds to what a call has seen.
LEMMA EditIs ==
    ASSUME FetchTypes, NEW p \in Pages, Edit(p)
    PROVE  \E b \in Content :
             /\ content' = [content EXCEPT ![p] = b]
             /\ content' \in [Pages -> Content]
             /\ \A f \in Ids : seen'[f] = IF PageOf[f] = p /\ Pending(f)
                                          THEN seen[f] \cup {b} ELSE seen[f]
             /\ seen' \in [Ids -> SUBSET Content]
             /\ \A f \in Ids : IsFiniteSet(seen'[f])
<1>1. PICK b \in Content :
        /\ content' = [content EXCEPT ![p] = b]
        /\ seen' = [f \in Ids |-> IF PageOf[f] = p /\ Pending(f)
                                  THEN seen[f] \cup {b} ELSE seen[f]]
  BY DEF Edit, Content
<1>2. \A f \in Ids : IsFiniteSet(seen[f] \cup {b})
  BY FS_AddElement DEF FetchTypes
<1>3. QED
  BY <1>1, <1>2 DEF FetchTypes

LEMMA EditKeeps == ASSUME FetchInv, NEW p \in Pages, Edit(p) PROVE FetchInv'
<1>1. StoreTypeOK /\ FetchTypes
  BY DEF FetchInv
<1>2. UNCHANGED <<now, slots, sending, reqs, answers, restarts, fetch, retaken>>
  BY DEF Edit, storeVars
<1>3. /\ content' \in [Pages -> Content] /\ seen' \in [Ids -> SUBSET Content]
      /\ \A f \in Ids : IsFiniteSet(seen'[f])
      /\ \A f \in Ids : seen[f] \subseteq seen'[f] /\ (~Pending(f) => seen'[f] = seen[f])
  BY <1>1, EditIs
<1>4. StoreTypeOK' /\ FetchTypes'
  BY <1>1, <1>2, <1>3 DEF StoreTypeOK, FetchTypes
<1>5. \A f \in Ids : Pending(f)' <=> Pending(f)
  BY <1>2 DEF Pending
<1>6. ASSUME NEW f \in Ids PROVE CallOK(f)'
  <2>1. CallOK(f) /\ seen[f] \subseteq seen'[f] /\ (~Pending(f) => seen'[f] = seen[f])
    BY <1>3, InvIs
  <2>2. Started(f)'
    BY <1>2, <2>1 DEF CallOK, Started, Pending
  <2>3. Walking(f)'
    BY <1>2, <1>5, <2>1 DEF CallOK, Walking
  <2>4. Returned(f)'
    BY <1>2, <2>1 DEF CallOK, Returned, Disturbed, Pending
  <2>5. Offered(f)' /\ Steady(f)'
    BY <1>2, <1>5, <2>1 DEF CallOK, Offered, Steady, Of, LastAsk
  <2>6. QED
    BY <2>2, <2>3, <2>4, <2>5 DEF CallOK
<1>7. (\A m \in reqs : RequestOK(m))'
  BY <1>2 DEF FetchInv, RequestOK, LastAsk
<1>8. ASSUME NEW a \in answers PROVE AnswerOK(a)'
  <2>1. AnswerOK(a) /\ a.f \in Ids
    BY DEF FetchInv, FetchTypes, Answers
  <2>2. QED
    BY <1>2, <1>3, <1>5, <2>1 DEF AnswerOK
<1>9. ASSUME NEW t \in Tokens PROVE SlotOK(t)'
  <2>1. SlotOK(t) /\ (Busy(slots[t]) => slots[t].id \in Ids)
    BY DEF FetchInv, StoreTypeOK, Transfer, Busy
  <2>2. QED
    BY <1>2, <1>3, <1>5, <2>1 DEF SlotOK
<1>10. QED
  BY <1>2, <1>4, <1>6, <1>7, <1>8, <1>9 DEF FetchInv, CallOK

\* A frame that is still in the air is not too old, and a call that is to send
\* did not miss its instant.
LEMMA TickKeeps == ASSUME FetchInv, Tick PROVE FetchInv'
<1>1. StoreTypeOK /\ FetchTypes /\ now \in Nat
  BY DEF FetchInv, StoreTypeOK
<1>2. StoreTypeOK'
  BY <1>1, NextType DEF Tick, StoreNext
<1>3. /\ now' = now + 1 /\ \A f \in Ids : ~SendDue(f)
      /\ reqs' = {m \in reqs : m.sent + MaxDelay > now}
      /\ answers' = {a \in answers : a.sent + MaxDelay > now}
      /\ UNCHANGED <<slots, content, restarts, fetch, seen, retaken>>
  BY DEF Tick, StoreTick, pageVars, clientVars
<1>4. FetchTypes'
  BY <1>1, <1>3 DEF FetchTypes
<1>5. \A f \in Ids : Pending(f)' <=> Pending(f)
  BY <1>3 DEF Pending
<1>6. ASSUME NEW f \in Ids PROVE CallOK(f)'
  <2>1. CallOK(f) /\ fetch[f] \in Calls
    BY <1>1, InvIs DEF FetchTypes
  <2>2. /\ fetch[f].began \in Nat /\ fetch[f].at \in Nat /\ LastAsk(f) \in Nat
        /\ LastAsk(f)' = LastAsk(f)
    BY <1>3, <2>1, FetchNats DEF Calls, LastAsk
  <2>3. Started(f)' /\ Returned(f)'
    BY <1>3, <2>1 DEF CallOK, Started, Returned, Disturbed
  <2>4. Walking(f)'
    <3>1. fetch[f].began <= now => fetch[f].began <= now'
      BY <1>1, <1>3, <2>2
    <3>2. fetch[f].phase = "send" => now' <= fetch[f].at
      BY <1>1, <1>3, <2>2 DEF SendDue
    <3>3. QED
      BY <1>3, <1>5, <2>1, <3>1, <3>2 DEF CallOK, Walking
  <2>5. Offered(f)'
    <3>1. now > LastAsk(f) + MaxDelay => now' > LastAsk(f) + MaxDelay
      BY <1>1, <1>3, <2>2, FetchNats
    <3>2. QED
      BY <1>3, <1>5, <2>1, <2>2, <3>1 DEF CallOK, Offered, Of
  <2>6. Steady(f)'
    BY <1>3, <1>5, <2>1 DEF CallOK, Steady, Of
  <2>7. QED
    BY <2>3, <2>4, <2>5, <2>6 DEF CallOK
<1>7. ASSUME NEW m \in reqs' PROVE RequestOK(m)'
  <2>1. m \in Requests /\ RequestOK(m) /\ m.sent + MaxDelay > now
    BY <1>1, <1>3 DEF FetchInv, FetchTypes
  <2>2. m.sent <= now' /\ now' <= m.sent + MaxDelay
    BY <1>1, <1>3, <2>1, FetchNats DEF RequestOK, Requests
  <2>3. QED
    BY <1>3, <2>1, <2>2 DEF RequestOK, LastAsk
<1>8. ASSUME NEW a \in answers' PROVE AnswerOK(a)'
  <2>1. a \in Answers /\ AnswerOK(a) /\ a.sent + MaxDelay > now
    BY <1>1, <1>3 DEF FetchInv, FetchTypes
  <2>2. a.sent <= now' /\ now' <= a.sent + MaxDelay
    BY <1>1, <1>3, <2>1, FetchNats DEF AnswerOK, Answers
  <2>3. a.f \in Ids
    BY <2>1 DEF Answers
  <2>4. QED
    BY <1>3, <1>5, <2>1, <2>2, <2>3 DEF AnswerOK
<1>9. ASSUME NEW t \in Tokens PROVE SlotOK(t)'
  <2>1. SlotOK(t) /\ (Busy(slots[t]) => slots[t].id \in Ids)
    BY DEF FetchInv, StoreTypeOK, Transfer, Busy
  <2>2. QED
    BY <1>3, <1>5, <2>1 DEF SlotOK
<1>10. QED
  BY <1>2, <1>4, <1>6, <1>7, <1>8, <1>9 DEF FetchInv, CallOK

LEMMA StutterKeeps ==
    ASSUME FetchInv, Watched, UNCHANGED vars PROVE FetchInv' /\ Watched'
<1>1. /\ now' = now /\ slots' = slots /\ sending' = sending /\ fetch' = fetch
      /\ content' = content /\ reqs' = reqs /\ answers' = answers
      /\ restarts' = restarts /\ seen' = seen /\ retaken' = retaken
  BY DEF vars
<1>2. \A f \in Ids : (Pending(f)' <=> Pending(f)) /\ (Disturbed(f)' <=> Disturbed(f))
  BY <1>1 DEF Pending, Disturbed
<1>3. StoreTypeOK' /\ FetchTypes'
  BY <1>1 DEF FetchInv, StoreTypeOK, FetchTypes
<1>4. \A f \in Ids : Started(f)' /\ Walking(f)' /\ Returned(f)'
  BY <1>1, <1>2 DEF FetchInv, Started, Walking, Returned
<1>5. \A f \in Ids : Offered(f)' /\ Steady(f)'
  BY <1>1, <1>2 DEF FetchInv, Offered, Steady, Of, LastAsk
<1>6. (\A m \in reqs : RequestOK(m))' /\ (\A t \in Tokens : SlotOK(t))'
      /\ (\A a \in answers : AnswerOK(a))'
  BY <1>1 DEF FetchInv, RequestOK, LastAsk, SlotOK, AnswerOK, Pending
<1>7. Watched'
  BY <1>1, <1>2 DEF Watched
<1>8. QED
  BY <1>3, <1>4, <1>5, <1>6, <1>7 DEF FetchInv

LEMMA QuietWatched ==
    ASSUME Watched, content' = content, seen' = seen,
           \A f \in Ids : Pending(f)' => Pending(f)
    PROVE  Watched'
BY DEF Watched

\* The step of a call: what it leaves of the other calls.
CallStep(f) ==
    \/ StartFetch(f) \/ SendRequest(f) \/ Timeout(f)
    \/ \E a \in answers : \/ HearFirst(f, a) \/ HearNext(f, a)
                          \/ HearLost(f, a) \/ HearRefused(f, a)

LEMMA CallStepIs ==
    ASSUME FetchInv, NEW f \in Ids, CallStep(f)
    PROVE  /\ fetch' \in [Ids -> Calls] /\ \A g \in Ids \ {f} : fetch'[g] = fetch[g]
           /\ UNCHANGED <<content, restarts, retaken>>
           /\ StartFetch(f) \/ (seen' = seen /\ Pending(f))
<1>1. FetchTypes /\ now \in Nat
  BY DEF FetchInv, StoreTypeOK
<1>2. CASE StartFetch(f)
  BY <1>1, <1>2, StartIs DEF SameCall, StartFetch, pageVars
<1>3. CASE SendRequest(f)
  BY <1>1, <1>3, SendIs DEF Waits, SameCall, SendRequest, SendDue, Pending, pageVars, history
<1>4. CASE Timeout(f)
  <2>1. fetch' \in [Ids -> Calls] /\ \A g \in Ids \ {f} : fetch'[g] = fetch[g]
    BY <1>1, <1>4, TimeoutIs DEF Waits, SameCall
  <2>2. QED
    BY <1>4, <2>1 DEF Timeout, SendDue, WaitOver, Pending, pageVars, history
<1>5. ASSUME NEW a \in answers, HearLost(f, a) \/ HearRefused(f, a)
      PROVE  /\ fetch' \in [Ids -> Calls] /\ \A g \in Ids \ {f} : fetch'[g] = fetch[g]
             /\ UNCHANGED <<content, restarts, retaken>> /\ seen' = seen /\ Pending(f)
  <2>1. fetch' \in [Ids -> Calls] /\ \A g \in Ids \ {f} : fetch'[g] = fetch[g]
    BY <1>1, <1>5, EndIs DEF Waits, SameCall
  <2>2. QED
    BY <1>5, <2>1 DEF HearLost, HearRefused, Hears, Pending, pageVars, history
<1>6. ASSUME NEW a \in answers, Heard(f, a)
      PROVE  /\ fetch' \in [Ids -> Calls] /\ \A g \in Ids \ {f} : fetch'[g] = fetch[g]
             /\ UNCHANGED <<content, restarts, retaken>> /\ seen' = seen /\ Pending(f)
  <2>1. AnswerOK(a) /\ Walking(f)
    BY DEF FetchInv
  <2>2. QED
    BY <1>1, <1>6, <2>1, HeardIs DEF pageVars, history
<1>7. QED
  BY <1>2, <1>3, <1>4, <1>5, <1>6 DEF CallStep, Heard

LEMMA CallStepKeeps ==
    ASSUME FetchInv, Watched, NEW f \in Ids, CallStep(f) PROVE FetchInv' /\ Watched'
<1>1. FetchInv'
  BY StartFetchKeeps, SendKeeps, TimeoutKeeps, EndKeeps, HeardKeeps DEF CallStep, Heard
<1>2. /\ \A g \in Ids \ {f} : fetch'[g] = fetch[g]
      /\ content' = content
      /\ StartFetch(f) \/ (seen' = seen /\ Pending(f))
  BY CallStepIs
<1>3. CASE StartFetch(f)
  <2>1. seen \in [Ids -> SUBSET Content] /\ seen' = [seen EXCEPT ![f] = {content[PageOf[f]]}]
    BY <1>3 DEF StartFetch, FetchInv, FetchTypes
  <2>2. content[PageOf[f]] \in seen'[f] /\ \A g \in Ids \ {f} : seen'[g] = seen[g]
    BY <2>1
  <2>3. QED
    BY <1>1, <1>2, <2>2 DEF Watched, Pending
<1>4. CASE seen' = seen /\ Pending(f)
  <2>1. \A g \in Ids : Pending(g)' => Pending(g)
    BY <1>2, <1>4 DEF Pending
  <2>2. QED
    BY <1>1, <1>2, <1>4, <2>1, QuietWatched
<1>5. QED
  BY <1>2, <1>3, <1>4

\* A step of the server, or of the clock, as the calls see it.
Unseen ==
    \/ \E m \in reqs : Serve(m)
    \/ \E f \in Others : OthersAsk(f)
    \/ \E w \in sending : AfterSend(w)
    \/ Restart
    \/ Tick

LEMMA UnseenIs ==
    ASSUME FetchInv, Unseen
    PROVE  /\ UNCHANGED <<content, fetch, seen>>
           /\ \A f \in Ids : Disturbed(f) => Disturbed(f)'
<1>1. StoreTypeOK /\ FetchTypes /\ restarts \in Nat
  BY DEF FetchInv, FetchTypes
<1>2. UNCHANGED <<content, fetch, seen>> /\ retaken \subseteq retaken'
      /\ (restarts' = restarts \/ restarts' = restarts + 1)
  <2>1. CASE \E m \in reqs : Serve(m)
    BY <1>1, <2>1, ServeIs, TokensOnlyMove DEF Answered, pageVars, FetchTypes
  <2>2. CASE \E f \in Others : OthersAsk(f)
    BY <1>1, <2>2, TokensOnlyMove DEF OthersAsk, pageVars, FetchTypes
  <2>3. CASE \E w \in sending : AfterSend(w)
    BY <2>3 DEF AfterSend, pageVars, clientVars
  <2>4. CASE Restart
    BY <2>4 DEF Restart, pageVars, clientVars
  <2>5. CASE Tick
    BY <2>5 DEF Tick, pageVars, clientVars
  <2>6. QED
    BY <2>1, <2>2, <2>3, <2>4, <2>5 DEF Unseen
<1>3. restarts > 0 => restarts' > 0
  BY <1>1, <1>2
<1>4. QED
  BY <1>2, <1>3 DEF Disturbed

LEMMA NextIs ==
    ASSUME [Next]_vars
    PROVE  \/ UNCHANGED vars
           \/ \E f \in Ids : CallStep(f)
           \/ Unseen
           \/ \E p \in Pages : Edit(p)
BY DEF Next, CallStep, Unseen

LEMMA FetchStep ==
    ASSUME FetchInv, Watched, [Next]_vars PROVE FetchInv' /\ Watched'
<1>1. CASE UNCHANGED vars
  BY <1>1, StutterKeeps
<1>2. ASSUME NEW f \in Ids, CallStep(f) PROVE FetchInv' /\ Watched'
  BY <1>2, CallStepKeeps
<1>3. CASE Unseen
  <2>1. FetchInv'
    BY <1>3, ServeKeeps, OthersKeep, AfterSendKeeps, RestartKeeps, TickKeeps DEF Unseen
  <2>2. content' = content /\ fetch' = fetch /\ seen' = seen
    BY <1>3, UnseenIs
  <2>3. \A f \in Ids : Pending(f)' => Pending(f)
    BY <2>2 DEF Pending
  <2>4. QED
    BY <2>1, <2>2, <2>3, QuietWatched
<1>4. ASSUME NEW p \in Pages, Edit(p) PROVE FetchInv' /\ Watched'
  <2>1. FetchTypes /\ fetch' = fetch /\ content \in [Pages -> Content]
        /\ \A f \in Ids : PageOf[f] \in Pages
    BY <1>4, FetchConstants DEF FetchInv, FetchTypes, Edit
  <2>2. PICK b \in Content :
          /\ content' = [content EXCEPT ![p] = b]
          /\ \A f \in Ids : seen'[f] = IF PageOf[f] = p /\ Pending(f)
                                       THEN seen[f] \cup {b} ELSE seen[f]
    BY <1>4, <2>1, EditIs
  <2>3. ASSUME NEW f \in Ids, Pending(f) PROVE content'[PageOf[f]] \in seen'[f]
    BY <2>1, <2>2, <2>3 DEF Watched
  <2>4. Watched'
    BY <2>1, <2>3 DEF Watched, Pending
  <2>5. QED
    BY <1>4, <2>4, EditKeeps
<1>5. QED
  BY <1>1, <1>2, <1>3, <1>4, NextIs

\* fetch() and the handlers: the invariant holds in every state.
THEOREM FetchInvariant == Spec => [](FetchInv /\ Watched)
<1>1. Init => FetchInv /\ Watched
  <2>1. Init => \A f \in Ids : ~Pending(f)
    BY DEF Init, Pending
  <2>2. QED
    BY <2>1, InitFetch DEF Watched
<1>2. FetchInv /\ Watched /\ [Next]_vars => FetchInv' /\ Watched'
  BY FetchStep
<1>3. QED
  BY <1>1, <1>2, PTL DEF Spec

\* TransferStore, in a server that fetches ask and that restarts: the limits
\* hold, and a retried request never has two unfinished transfers.
THEOREM StoreHoldsInFetch == Spec => [](CapsHold /\ OneTransferPerRequest)
<1>1. Init => StoreInv
  BY InitInv DEF Init
<1>2. StoreInv /\ FetchInv /\ [Next]_vars => StoreInv'
  <2> SUFFICES ASSUME StoreInv, FetchInv, [Next]_vars PROVE StoreInv'
    OBVIOUS
  <2>1. [StoreNext]_storeVars \/ Restart
    BY StepOfStore DEF FetchInv
  <2>2. QED
    BY <2>1, NextInv, RestartKeepsStore DEF StoreInv
<1>3. StoreInv => CapsHold /\ OneTransferPerRequest
  BY DEF StoreInv, Caps, CapsHold, OnePer, OneTransferPerRequest
<1>4. QED
  BY <1>1, <1>2, <1>3, FetchInvariant, PTL DEF Spec

-----------------------------------------------------------------------------
(* A call of fetch() is a read of PageRead *)

Outcomes == [f \in Ids |-> Outcome(f)]

Over(f) == fetch[f].phase \in {"ok", "lost", "failed"}

LEMMA OutcomeIs ==
    ASSUME FetchInv, NEW f \in Ids
    PROVE  Outcome(f) = "pending" <=> ~Over(f)
<1>1. CASE fetch[f].phase = "ok"
  <2>1. fetch[f].got \in Seq(Bodies) /\ fetch[f].got # <<>>
    BY <1>1 DEF FetchInv, FetchTypes, Calls, Returned
  <2>2. fetch[f].got[1] # "pending"
    BY <2>1, FetchConstants
  <2>3. QED
    BY <1>1, <2>2 DEF Outcome, Over
<1>2. CASE fetch[f].phase # "ok"
  BY <1>2 DEF Outcome, Over
<1>3. QED
  BY <1>1, <1>2

\* An outcome stays if the call does, or if it neither was over nor is.
LEMMA OutcomeStays ==
    ASSUME FetchInv, NEW f \in Ids,
           \/ ~Over(f) /\ ~Over(f)'
           \/ fetch'[f] = fetch[f] /\ (Disturbed(f) => Disturbed(f)')
    PROVE  Outcome(f)' = Outcome(f)
<1>1. CASE ~Over(f) /\ ~Over(f)'
  BY <1>1 DEF Over, Outcome
<1>2. CASE fetch'[f] = fetch[f] /\ (Disturbed(f) => Disturbed(f)')
  <2>1. fetch[f].phase = "ok" => Whole(fetch[f].got) \/ Disturbed(f)
    BY DEF FetchInv, Returned
  <2>2. QED
    BY <1>2, <2>1 DEF Outcome
<1>3. QED
  BY <1>1, <1>2

\* A call that ends.
LEMMA OutcomeEnds ==
    ASSUME NEW f \in Ids, \A g \in Ids \ {f} : Outcome(g)' = Outcome(g)
    PROVE  Outcomes' = [Outcomes EXCEPT ![f] = Outcome(f)']
BY DEF Outcomes

LEMMA InitReads == Init => Read!Init
<1> SUFFICES ASSUME Init PROVE Read!Init
  OBVIOUS
<1>1. \A f \in Ids : Outcome(f) = "pending"
  BY DEF Init, Outcome
<1>2. QED
  BY <1>1 DEF Init, Read!Init

\* How a call ends.
LEMMA EndOf ==
    ASSUME FetchInv, NEW f \in Ids, CallStep(f), Over(f)'
    PROVE  \/ Outcome(f)' = "failed"
           \/ Outcome(f)' \in seen[f] \ {NoBody}
<1>1. FetchTypes /\ now \in Nat
  BY DEF FetchInv, StoreTypeOK
<1>2. CASE StartFetch(f) \/ SendRequest(f)
  BY <1>1, <1>2, StartIs, SendIs DEF Waits, Over
<1>3. CASE Timeout(f)
  BY <1>1, <1>3, TimeoutIs DEF Waits, Over, Outcome
<1>4. ASSUME NEW a \in answers, HearLost(f, a) \/ HearRefused(f, a)
      PROVE  Outcome(f)' = "failed"
  BY <1>1, <1>4, EndIs DEF Waits, Outcome
<1>5. ASSUME NEW a \in answers, Heard(f, a)
      PROVE  Outcome(f)' = "failed" \/ Outcome(f)' \in seen[f] \ {NoBody}
  <2>1. AnswerOK(a) /\ Walking(f)
    BY DEF FetchInv
  <2>2. /\ fetch' \in [Ids -> Calls]
        /\ UNCHANGED <<storeVars, pageVars, reqs, restarts, history>>
        /\ \/ fetch'[f].phase = "send"
           \/ ~(a.n + 1 < fetch'[f].total) /\ fetch'[f].phase \in {"ok", "failed"}
    BY <1>1, <1>5, <2>1, HeardIs
  <2>3. CASE fetch'[f].phase = "failed"
    BY <2>3 DEF Outcome
  <2>4. CASE ~(a.n + 1 < fetch'[f].total) /\ fetch'[f].phase = "ok"
    <3>1. /\ fetch'[f].got # <<>> /\ fetch'[f].got[1] \in seen[f]
          /\ Whole(fetch'[f].got) \/ Disturbed(f)
      BY <1>5, <2>4, AllHeard
    <3>2. fetch'[f].got[1] \in Bodies
      BY <2>2, <3>1 DEF Calls
    <3>3. Disturbed(f) => Disturbed(f)'
      BY <2>2 DEF Disturbed, history
    <3>4. CASE Whole(fetch'[f].got)
      BY <2>4, <3>1, <3>2, <3>4, FetchConstants DEF Outcome
    <3>5. CASE ~Whole(fetch'[f].got)
      BY <2>4, <3>1, <3>3, <3>5 DEF Outcome
    <3>6. QED
      BY <3>4, <3>5
  <2>5. QED
    BY <2>2, <2>3, <2>4 DEF Over
<1>6. QED
  BY <1>2, <1>3, <1>4, <1>5 DEF CallStep, Heard

LEMMA CallStepReads ==
    ASSUME FetchInv, NEW f \in Ids, CallStep(f)
    PROVE  [Read!Next]_Read!vars
<1>1. /\ \A g \in Ids \ {f} : fetch'[g] = fetch[g]
      /\ UNCHANGED <<content, restarts, retaken>>
      /\ StartFetch(f) \/ (seen' = seen /\ Pending(f))
  BY CallStepIs
<1>2. \A g \in Ids \ {f} : seen'[g] = seen[g]
  BY <1>1 DEF StartFetch, FetchInv, FetchTypes
<1>3. ASSUME NEW g \in Ids \ {f} PROVE Outcome(g)' = Outcome(g)
  BY <1>1, <1>2, OutcomeStays DEF Disturbed
<1>4. ~Over(f) /\ Outcome(f) = "pending"
  <2>1. ~Over(f)
    BY <1>1 DEF StartFetch, Pending, Over
  <2>2. QED
    BY <2>1, OutcomeIs
<1>5. CASE StartFetch(f)
  <2>1. seen[f] = {} /\ seen' = [seen EXCEPT ![f] = {content[PageOf[f]]}]
    BY <1>5 DEF StartFetch, FetchInv, Started
  <2>2. Outcome(f)' = Outcome(f)
    <3>1. ~Over(f)'
      BY <1>5, StartIs DEF FetchInv, StoreTypeOK, Over
    <3>2. QED
      BY <1>4, <3>1, OutcomeStays
  <2>3. Outcomes' = Outcomes
    BY <1>3, <2>2 DEF Outcomes
  <2>4. Read!Start(f)
    BY <1>1, <1>4, <2>1, <2>3 DEF Read!Start, Outcomes
  <2>5. QED
    BY <2>4 DEF Read!Next
<1>6. CASE seen' = seen /\ ~Over(f)'
  <2>1. Outcome(f)' = Outcome(f)
    BY <1>4, <1>6, OutcomeStays
  <2>2. Outcomes' = Outcomes
    BY <1>3, <2>1 DEF Outcomes
  <2>3. QED
    BY <1>1, <1>6, <2>2 DEF Read!vars, Outcomes
<1>7. CASE seen' = seen /\ Over(f)'
  <2>1. Outcomes' = [Outcomes EXCEPT ![f] = Outcome(f)']
    BY <1>3, OutcomeEnds
  <2>2. CASE Outcome(f)' = "failed"
    <3>1. Read!Fail(f)
      BY <1>1, <1>4, <1>7, <2>1, <2>2 DEF Read!Fail, Outcomes
    <3>2. QED
      BY <3>1 DEF Read!Next
  <2>3. CASE Outcome(f)' \in seen[f] \ {NoBody}
    <3>1. Read!Return(f)
      BY <1>1, <1>4, <1>7, <2>1, <2>3 DEF Read!Return, Outcomes
    <3>2. QED
      BY <3>1 DEF Read!Next
  <2>4. QED
    BY <1>7, <2>2, <2>3, EndOf
<1>8. QED
  BY <1>1, <1>5, <1>6, <1>7

LEMMA EditReads ==
    ASSUME FetchInv, NEW p \in Pages, Edit(p) PROVE Read!Next
<1>1. FetchTypes /\ fetch' = fetch /\ restarts' = restarts /\ retaken' = retaken
  BY DEF FetchInv, Edit
<1>2. PICK b \in Content :
        /\ content' = [content EXCEPT ![p] = b]
        /\ \A f \in Ids : seen'[f] = IF PageOf[f] = p /\ Pending(f)
                                     THEN seen[f] \cup {b} ELSE seen[f]
        /\ seen' \in [Ids -> SUBSET Content]
  BY <1>1, EditIs
<1>3. content'[p] = b
  BY <1>1, <1>2 DEF FetchTypes
<1>4. ASSUME NEW f \in Ids
      PROVE  /\ Pending(f) <=> seen[f] # {} /\ Outcomes[f] = "pending"
             /\ Outcome(f)' = Outcome(f)
  <2>1. Outcome(f) = "pending" <=> ~Over(f)
    BY OutcomeIs
  <2>2. fetch[f].phase \in Phases /\ (fetch[f].phase = "idle" <=> seen[f] = {})
    BY DEF FetchInv, FetchTypes, Calls, Started
  <2>3. Pending(f) <=> seen[f] # {} /\ Outcomes[f] = "pending"
    BY <2>1, <2>2 DEF Pending, Over, Phases, Outcomes
  <2>4. Pending(f) => ~Over(f) /\ ~Over(f)'
    BY <1>1 DEF Pending, Over
  <2>5. ~Pending(f) => seen'[f] = seen[f]
    BY <1>2
  <2>6. ~Pending(f) => (Disturbed(f) => Disturbed(f)')
    BY <1>1, <2>5 DEF Disturbed
  <2>7. Outcome(f)' = Outcome(f)
    BY <1>1, <2>4, <2>6, OutcomeStays
  <2>8. QED
    BY <2>3, <2>7
<1>5. Outcomes' = Outcomes
  BY <1>4 DEF Outcomes
<1>6. seen' = [f \in Ids |->
                 IF PageOf[f] = p /\ seen[f] # {} /\ Outcomes[f] = "pending"
                 THEN seen[f] \cup {content'[p]} ELSE seen[f]]
  <2>1. ASSUME NEW f \in Ids
        PROVE  seen'[f] = IF PageOf[f] = p /\ seen[f] # {} /\ Outcomes[f] = "pending"
                          THEN seen[f] \cup {content'[p]} ELSE seen[f]
    BY <1>2, <1>3, <1>4
  <2>2. QED
    BY <1>2, <2>1
<1>7. Read!Edit(p)
  BY <1>2, <1>5, <1>6 DEF Read!Edit, Content, Outcomes
<1>8. QED
  BY <1>7 DEF Read!Next

LEMMA StepReads ==
    ASSUME FetchInv, [Next]_vars PROVE [Read!Next]_Read!vars
<1>1. ASSUME UNCHANGED <<content, fetch, seen>>,
             \A f \in Ids : Disturbed(f) => Disturbed(f)'
      PROVE  UNCHANGED Read!vars
  <2>1. \A f \in Ids : Outcome(f)' = Outcome(f)
    BY <1>1, OutcomeStays
  <2>2. QED
    BY <1>1, <2>1 DEF Read!vars
<1>2. CASE UNCHANGED vars
  BY <1>1, <1>2 DEF vars, Disturbed
<1>3. CASE Unseen
  BY <1>1, <1>3, UnseenIs
<1>4. QED
  BY <1>2, <1>3, CallStepReads, EditReads, NextIs

\* fetch(), the handlers and the TransferStore: whatever is lost, delayed,
\* retried, edited or restarted, a call returns one page whole, as it stood at
\* one instant of the call, or fails.
THEOREM FetchesAreReads == Spec => ImplementsPageRead
<1>1. FetchInv /\ [Next]_vars => [Read!Next]_Read!vars
  BY StepReads
<1>2. QED
  BY <1>1, InitReads, FetchInvariant, PTL DEF Spec, ImplementsPageRead, Read!Spec
=============================================================================
