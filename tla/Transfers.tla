----------------------------- MODULE Transfers ------------------------------
(***************************************************************************)
(* TransferStore and what the handlers of GET_PAGE / GET_FILE / LIST and   *)
(* CONTINUE do to it.  A handler runs without a suspension up to the send  *)
(* of its answer; the handler of a final chunk goes on after the send and  *)
(* marks the token done, so that part is a step of its own (FinishSend).   *)
(*                                                                         *)
(* A body stands for the chunks and the checksum made of a content; Sizes  *)
(* says in how many chunks it goes out.  What a client may ask is left     *)
(* open here: any request, in any order.  Fetch adds the answers and a     *)
(* real client.                                                            *)
(***************************************************************************)
EXTENDS Integers, FiniteSets, TLC

CONSTANTS
    Clients,        \* pubkey prefixes
    Ids,            \* request ids
    Bodies,         \* contents
    Sizes,          \* chunks of each body
    MaxToken,       \* 255
    TTL,            \* ttl_seconds, counted from the creation of a transfer
    Linger,         \* linger_seconds, counted from its last chunk
    MaxTotal,       \* in-flight transfers
    MaxPerClient,   \* in-flight transfers of one client
    MaxSend,        \* longest suspension of send_raw_data
    MaxSending,     \* bound: final chunks being sent at a time
    MaxTime         \* bound: the clock

Never == -1
Tokens == 0 .. MaxToken
Free == [client |-> "none"]

ASSUME TransferConstants ==
    /\ Sizes \in [Bodies -> Nat \ {0}]
    /\ MaxToken \in Nat /\ TTL \in Nat /\ Linger \in Nat
    /\ MaxTotal \in Nat /\ MaxPerClient \in Nat

VARIABLES
    now,        \* the clock
    slots,      \* TransferStore._by_token
    sending     \* handlers suspended in the send of a final chunk

storeVars == <<now, slots, sending>>

Transfer == [client : Clients, id : Ids, body : Bodies, created : Nat,
             completed : Nat \cup {Never}]

StoreInit ==
    /\ now = 0
    /\ slots = [t \in Tokens |-> Free]
    /\ sending = {}

-----------------------------------------------------------------------------
(* TransferStore *)

Busy(x) == x # Free
InFlight(x) == Busy(x) /\ x.completed = Never

Stale(x) ==
    /\ Busy(x)
    /\ IF x.completed = Never THEN now - x.created > TTL
                              ELSE now - x.completed > Linger

\* The table after _sweep_expired, which every look-up does first.
Swept == [t \in Tokens |-> IF Stale(slots[t]) THEN Free ELSE slots[t]]

InFlightIn(s) == {t \in Tokens : InFlight(s[t])}
OfClient(s, c) == {t \in InFlightIn(s) : s[t].client = c}

\* Variant: a transfer may start when a limit is reached already.
RoomForOneMore(s, c) ==
    /\ Cardinality(InFlightIn(s)) <= MaxTotal
    /\ Cardinality(OfClient(s, c)) <= MaxPerClient

RoomFor(s, c) ==
    /\ Cardinality(InFlightIn(s)) < MaxTotal
    /\ Cardinality(OfClient(s, c)) < MaxPerClient

\* Variant: every token the table has no unfinished transfer under.
NotInFlight(s) == Tokens \ InFlightIn(s)

FreeTokens(s) == {t \in Tokens : ~Busy(s[t])}

\* Variant: a retried request is not looked up.
NeverExisting(s, c, id) == {}

\* The unfinished transfer a retried request already has.
Existing(s, c, id) ==
    {t \in InFlightIn(s) : s[t].client = c /\ s[t].id = id}

New(c, id, b) ==
    [client |-> c, id |-> id, body |-> b, created |-> now, completed |-> Never]

Owns(c, t) == Busy(Swept[t]) /\ Swept[t].client = c

-----------------------------------------------------------------------------
(* What the handlers do to the store *)

\* A GET of more than one chunk whose transfer is still there.
GetAgain(c, id, t) ==
    /\ t \in Existing(Swept, c, id)
    /\ slots' = Swept
    /\ UNCHANGED <<now, sending>>

\* A new transfer, under the lowest token not taken.
GetStarts(c, id, b, t) ==
    /\ Existing(Swept, c, id) = {}
    /\ RoomFor(Swept, c)
    /\ t \in FreeTokens(Swept)
    /\ \A u \in FreeTokens(Swept) : t <= u
    /\ slots' = [Swept EXCEPT ![t] = New(c, id, b)]
    /\ UNCHANGED <<now, sending>>

\* NoTokenAvailable.
GetFull(c, id) ==
    /\ Existing(Swept, c, id) = {}
    /\ ~RoomFor(Swept, c) \/ FreeTokens(Swept) = {}
    /\ slots' = Swept
    /\ UNCHANGED <<now, sending>>

\* A CONTINUE that is refused.
ContinueUnknown(c, t) ==
    /\ ~Owns(c, t)
    /\ slots' = Swept
    /\ UNCHANGED <<now, sending>>

ContinueOutOfRange(c, t, n) ==
    /\ Owns(c, t)
    /\ n >= Sizes[Swept[t].body]
    /\ slots' = Swept
    /\ UNCHANGED <<now, sending>>

ContinueMiddle(c, t, n) ==
    /\ Owns(c, t)
    /\ n < Sizes[Swept[t].body] - 1
    /\ slots' = Swept
    /\ UNCHANGED <<now, sending>>

\* The handler suspends in the send, with the transfer it read at hand.
ContinueFinal(c, t, n) ==
    /\ Owns(c, t)
    /\ n = Sizes[Swept[t].body] - 1
    /\ Cardinality(sending) < MaxSending
    /\ slots' = Swept
    /\ sending' = sending \cup {[token |-> t, of |-> Swept[t], at |-> now]}
    /\ UNCHANGED now

\* TransferStore.finish: by token, whatever transfer has it now.
FinishSend(w) ==
    /\ sending' = sending \ {w}
    /\ slots' = [slots EXCEPT ![w.token] =
                   IF InFlight(@) THEN [@ EXCEPT !.completed = now] ELSE @]
    /\ UNCHANGED now

\* The send raises: the handler ends there and marks nothing.
SendRaises(w) ==
    /\ sending' = sending \ {w}
    /\ UNCHANGED <<now, slots>>

StoreTick ==
    /\ now < MaxTime
    /\ \A w \in sending : now < w.at + MaxSend
    /\ now' = now + 1
    /\ UNCHANGED <<slots, sending>>

StoreNext ==
    \/ \E c \in Clients, id \in Ids :
         \/ \E t \in Tokens : GetAgain(c, id, t)
         \/ \E b \in Bodies, t \in Tokens :
              Sizes[b] > 1 /\ GetStarts(c, id, b, t)
         \/ GetFull(c, id)
    \/ \E c \in Clients, t \in Tokens :
         \/ ContinueUnknown(c, t)
         \/ \E b \in Bodies : \E n \in 1 .. Sizes[b] :
              \/ ContinueOutOfRange(c, t, n)
              \/ ContinueMiddle(c, t, n)
              \/ ContinueFinal(c, t, n)
    \/ \E w \in sending : FinishSend(w) \/ SendRaises(w)
    \/ StoreTick

StoreSpec == StoreInit /\ [][StoreNext]_storeVars

-----------------------------------------------------------------------------
(* Properties *)

\* Every variable keeps its type.
StoreTypeOK ==
    /\ now \in Nat
    /\ slots \in [Tokens -> Transfer \cup {Free}]
    /\ sending \subseteq [token : Tokens, of : Transfer, at : Nat]

\* The caps of TransferStore hold at every instant, though start looks at them
\* only when a transfer begins and transfers end by expiry or by a late mark.
CapsHold ==
    /\ Cardinality(InFlightIn(slots)) <= MaxTotal
    /\ \A c \in Clients : Cardinality(OfClient(slots, c)) <= MaxPerClient

\* find_by_request: a request that is retried while its transfer is unfinished
\* never gets a second transfer.
OneTransferPerRequest ==
    \A s, t \in InFlightIn(slots) :
      (slots[s].client = slots[t].client /\ slots[s].id = slots[t].id) => s = t

\* A transfer that is not stale, a lingering one included, keeps its token: the
\* client that was told the token finds its own content under it.
KeepsItsToken ==
    [][\A t \in Tokens :
         (Busy(slots[t]) /\ ~Stale(slots[t])) =>
           /\ Busy(slots'[t])
           /\ slots'[t] = [slots[t] EXCEPT !.completed = slots'[t].completed]]_storeVars
=============================================================================
