-------------------------- MODULE PostUpload_proofs --------------------------
(***************************************************************************)
(* Theorems about PostUpload, for every set of posters and keys and every  *)
(* value of the timing constants that satisfies DedupeWindow.              *)
(***************************************************************************)
EXTENDS PostUpload, FiniteSetTheorems, TLAPS

LEMMA ChunkFacts ==
    /\ Last \in Nat
    /\ Last \in Chunk
    /\ 0 \in Chunk
    /\ \A n \in Chunk : n \in Nat /\ n <= Last /\ (n # Last => n + 1 \in Chunk)
    /\ \A n \in Nat : n <= Last => n \in Chunk
BY PostConstants DEF Last, Chunk

-----------------------------------------------------------------------------
(* Type correctness *)

\* A poster that holds a key may change its phase and its timer.
LEMMA CallUpdate ==
    ASSUME TypeOK, NEW p \in Posters, call[p].phase # "idle",
           NEW ph \in Phase, NEW t \in Nat,
           \/ call' = [call EXCEPT ![p].phase = ph]
           \/ call' = [call EXCEPT ![p].phase = ph, ![p].at = t]
    PROVE  CallsTyped'
<1>1. /\ call[p] \in Call
      /\ call[p].key \in Keys
  BY DEF TypeOK, CallsTyped
<1>2. /\ [call[p] EXCEPT !.phase = ph] \in Call
      /\ [call[p] EXCEPT !.phase = ph, !.at = t] \in Call
  BY <1>1 DEF Call
<1>3. PICK c \in Call : call' = [call EXCEPT ![p] = c] /\ c.key = call[p].key
  BY <1>1, <1>2 DEF TypeOK, CallsTyped, Call
<1>4. QED
  BY <1>1, <1>3 DEF TypeOK, CallsTyped

LEMMA BeginType ==
    ASSUME TypeOK, NEW p \in Posters, NEW k \in Keys,
           NEW r \in 0 .. MaxPostRestarts, Begin(p, k, r)
    PROVE  /\ drawn' \in [Keys -> Nat \cup {Never}]
           /\ owner' \in [Keys -> Posters \cup {NoOne}]
           /\ CallsTyped'
<1> DEFINE c == [phase |-> "send", key |-> k, n |-> 0, since |-> now,
                 at |-> now, retries |-> r, warned |-> FALSE]
<1>1. c \in Call
  BY ChunkFacts DEF TypeOK, Call, Phase
<1>2. call' = [call EXCEPT ![p] = c]
  BY DEF Begin
<1>3. CallsTyped'
  BY <1>1, <1>2 DEF TypeOK, CallsTyped
<1>4. QED
  BY <1>3 DEF TypeOK, Begin

LEMMA RetryType ==
    ASSUME TypeOK, NEW p \in Posters, call[p].phase # "idle", RetryOrGiveUp(p)
    PROVE  CallsTyped'
<1>1. CASE call' = [call EXCEPT ![p].phase = "failed"]
  BY <1>1, CallUpdate DEF TypeOK, Phase
<1>2. ASSUME NEW j \in MinJitter .. MaxJitter,
             call' = [call EXCEPT ![p].phase = "send", ![p].at = now + j]
      PROVE  CallsTyped'
  <2>1. now + j \in Nat
    BY PostConstants DEF TypeOK
  <2> HIDE DEF TypeOK
  <2>2. QED
    BY <1>2, <2>1, CallUpdate DEF Phase
<1>3. QED
  BY <1>1, <1>2 DEF RetryOrGiveUp

LEMMA AnswerType ==
    ASSUME TypeOK, NEW m \in reqs, NEW s \in Status, Answer(m, s)
    PROVE  /\ reqs' \subseteq Req
           /\ acks' \subseteq Ack
           /\ now' \in Nat
           /\ CallsTyped'
           /\ drawn' \in [Keys -> Nat \cup {Never}]
           /\ owner' \in [Keys -> Posters \cup {NoOne}]
           /\ posting' \in BOOLEAN
           /\ losses' \in Nat
<1>1. [key |-> m.key, n |-> m.n, status |-> s, sent |-> now] \in Ack
  BY DEF TypeOK, Req, Ack
<1>2. QED
  BY <1>1 DEF Answer, TypeOK, CallsTyped, keyVars

LEMMA AcceptType ==
    ASSUME TypeOK, NEW m \in reqs, NEW crc \in BOOLEAN, Accepts(m, crc)
    PROVE  /\ m.key \in Keys
           /\ HasAfter(m) \subseteq Chunk
           /\ BadAfter(m, crc) \subseteq Chunk
           /\ corrupted' \in Nat
<1>1. m.key \in Keys /\ m.n \in Chunk
  BY DEF TypeOK, Req
<1>2. have[m.key] \subseteq Chunk /\ bad[m.key] \subseteq Chunk
  BY <1>1 DEF TypeOK
<1>3. corrupted' \in Nat
  BY DEF Accepts, TypeOK
<1>4. QED
  BY <1>1, <1>2, <1>3 DEF HasAfter, BadAfter, Has, Bad

LEMMA KeepType ==
    ASSUME TypeOK, NEW m \in reqs, NEW crc \in BOOLEAN,
           Accepts(m, crc), Keep(m, crc)
    PROVE  /\ started' \in [Keys -> Nat \cup {Never}]
           /\ have' \in [Keys -> SUBSET Chunk]
           /\ bad' \in [Keys -> SUBSET Chunk]
           /\ markedAt' \in [Keys -> Nat \cup {Never}]
           /\ stored' \in [Keys -> Nat]
BY AcceptType DEF Keep, TypeOK

LEMMA AssembledType ==
    ASSUME TypeOK, NEW m \in reqs, NEW crc \in BOOLEAN, Assembled(m, crc)
    PROVE  /\ started' \in [Keys -> Nat \cup {Never}]
           /\ have' \in [Keys -> SUBSET Chunk]
           /\ bad' \in [Keys -> SUBSET Chunk]
           /\ corrupted' \in Nat
           /\ m.key \in Keys
BY AcceptType DEF Assembled, TypeOK

LEMMA HandleType ==
    ASSUME TypeOK, NEW m \in reqs, HandlePost(m)
    PROVE  TypeOK'
<1> USE DEF Status, Refusal
<1>1. CASE Deny(m)
  BY <1>1, AnswerType DEF Deny, TypeOK
<1>2. CASE AckCommitted(m)
  BY <1>2, AnswerType DEF AckCommitted, TypeOK
<1>3. CASE TooManyOpen(m)
  BY <1>3, AnswerType DEF TooManyOpen, TypeOK
<1>4. CASE UploadUnknown(m)
  BY <1>4, AnswerType DEF UploadUnknown, TypeOK
<1>5. ASSUME NEW crc \in BOOLEAN, AcceptPartial(m, crc) PROVE TypeOK'
  BY <1>5, AnswerType, KeepType, AcceptType DEF AcceptPartial, TypeOK
<1>6. ASSUME NEW crc \in BOOLEAN, ChecksumFails(m, crc) PROVE TypeOK'
  BY <1>6, AnswerType, KeepType, AcceptType DEF ChecksumFails, TypeOK
<1>7. ASSUME NEW crc \in BOOLEAN, Commit(m, crc) PROVE TypeOK'
  <2>1. /\ stored' \in [Keys -> Nat]
        /\ markedAt' \in [Keys -> Nat \cup {Never}]
    BY <1>7, AssembledType DEF Commit, TypeOK
  <2>2. QED
    BY <1>7, <2>1, AnswerType, AssembledType DEF Commit, TypeOK
<1>8. ASSUME NEW crc \in BOOLEAN, CommitRejected(m, crc) PROVE TypeOK'
  <2>1. PICK s \in {"INVALID_REQUEST", "NOT_FOUND"} : Answer(m, s)
    BY <1>8 DEF CommitRejected
  <2>2. QED
    BY <1>8, <2>1, AnswerType, AssembledType DEF CommitRejected, TypeOK
<1>9. QED
  BY <1>1, <1>2, <1>3, <1>4, <1>5, <1>6, <1>7, <1>8 DEF HandlePost

\* The clock, the calls, the store and the frames keep their types.
THEOREM TypeCorrect == Spec => []TypeOK
<1>1. Init => TypeOK
  BY ChunkFacts DEF Init, TypeOK, CallsTyped, Call, Phase, Never, MaxPostRestarts
<1>2. TypeOK /\ [Next]_vars => TypeOK'
  <2> SUFFICES ASSUME TypeOK, [Next]_vars PROVE TypeOK'
    OBVIOUS
  <2> USE DEF timeVars, linkVars, keyVars, serverVars
  <2>1. ASSUME NEW p \in Posters, StartPost(p) PROVE TypeOK'
    <3>1. PICK k \in Keys : Begin(p, k, 0)
      BY <2>1 DEF StartPost
    <3>2. 0 \in 0 .. MaxPostRestarts
      BY DEF MaxPostRestarts
    <3>3. QED
      BY <2>1, <3>1, <3>2, BeginType DEF StartPost, TypeOK
  <2>2. ASSUME NEW p \in Posters, Send(p) PROVE TypeOK'
    <3>1. call[p] \in Call /\ call[p].phase = "send" /\ call[p].key \in Keys
      BY <2>2 DEF Send, SendDue, TypeOK, CallsTyped
    <3>2. [key |-> call[p].key, n |-> call[p].n, sent |-> now] \in Req
      BY <3>1 DEF TypeOK, Call, Req
    <3>3. CallsTyped'
      BY <2>2, <3>1, CallUpdate DEF Send, TypeOK, Phase
    <3>4. QED
      BY <2>2, <3>2, <3>3 DEF Send, TypeOK
  <2>3. ASSUME NEW p \in Posters, SendRefused(p) PROVE TypeOK'
    BY <2>3, RetryType DEF SendRefused, SendDue, TypeOK
  <2>4. ASSUME NEW p \in Posters, Timeout(p) PROVE TypeOK'
    BY <2>4, RetryType DEF Timeout, WaitOver, TypeOK
  <2>5. ASSUME NEW p \in Posters, NEW a \in acks, AckAdvances(p, a)
        PROVE  TypeOK'
    <3>1. call[p] \in Call /\ call[p].key \in Keys /\ now \in Nat
      BY <2>5 DEF AckAdvances, Hears, TypeOK, CallsTyped
    <3> DEFINE h == call[p].warned \/ a.n # call[p].n
               c1 == [call[p] EXCEPT !.phase = "ok", !.warned = h]
               c2 == [call[p] EXCEPT !.phase = "send", !.n = call[p].n + 1,
                                     !.since = now, !.at = now, !.warned = h]
    <3>2. h \in BOOLEAN
      BY <3>1 DEF Call
    <3>3. call[p].n = Last => c1 \in Call /\ c1.key = call[p].key
      BY <3>1, <3>2 DEF Call, Phase
    <3>4. call[p].n # Last => c2 \in Call /\ c2.key = call[p].key
      BY <3>1, <3>2, ChunkFacts DEF Call, Phase
    <3>5. PICK c \in Call : call' = [call EXCEPT ![p] = c] /\ c.key = call[p].key
      <4>1. call' = [call EXCEPT ![p] = IF call[p].n = Last THEN c1 ELSE c2]
        BY <2>5 DEF AckAdvances, TypeOK, CallsTyped
      <4> HIDE DEF c1, c2
      <4>2. QED
        BY <3>3, <3>4, <4>1
    <3>6. CallsTyped'
      BY <3>1, <3>5 DEF TypeOK, CallsTyped
    <3>7. QED
      BY <2>5, <3>6 DEF AckAdvances, Hears, TypeOK
  <2>6. ASSUME NEW p \in Posters, NEW a \in acks, AckRestarts(p, a)
        PROVE  TypeOK'
    <3>1. PICK k \in Keys : Begin(p, k, call[p].retries + 1)
      BY <2>6 DEF AckRestarts
    <3>2. call[p].retries + 1 \in 0 .. MaxPostRestarts
      BY <2>6 DEF AckRestarts, TypeOK, CallsTyped, Call, MaxPostRestarts
    <3>3. QED
      BY <2>6, <3>1, <3>2, BeginType DEF AckRestarts, Hears, TypeOK
  <2>7. ASSUME NEW p \in Posters, NEW a \in acks, AckFails(p, a)
        PROVE  TypeOK'
    <3>1. CallsTyped'
      BY <2>7, CallUpdate DEF AckFails, Hears, TypeOK, Phase
    <3>2. QED
      BY <2>7, <3>1 DEF AckFails, Hears, TypeOK
  <2>8. ASSUME NEW m \in reqs, HandlePost(m) PROVE TypeOK'
    BY <2>8, HandleType
  <2>13. ASSUME NEW m \in reqs, NEW crc \in BOOLEAN, AppendRaises(m, crc)
         PROVE  TypeOK'
    BY <2>13, AssembledType DEF AppendRaises, TypeOK, CallsTyped
  <2>9. CASE Restart
    BY <2>9 DEF Restart, TypeOK, CallsTyped, Never, keyVars, linkVars
  <2>10. CASE Tick
    BY <2>10 DEF Tick, TypeOK, CallsTyped
  <2>11. CASE UNCHANGED vars
    BY <2>11 DEF vars, TypeOK, CallsTyped
  <2>12. QED
    BY <2>1, <2>2, <2>3, <2>4, <2>5, <2>6, <2>7, <2>8, <2>9, <2>10, <2>11, <2>13
       DEF Next, Client
<1>3. QED
  BY <1>1, <1>2, PTL DEF Spec

-----------------------------------------------------------------------------
(* The inductive invariant *)

storeVars == <<drawn, owner, started, have, markedAt, stored>>

LEMMA TimingFacts ==
    /\ UploadTTL \in Nat /\ RetryDeadline \in Nat
    /\ MaxJitter \in Nat /\ MaxDelay \in Nat
    /\ RetryDeadline + MaxJitter + MaxDelay <= UploadTTL
    /\ NoKey \notin Keys /\ NoOne \notin Posters
BY PostConstants, DedupeWindow

\* A key its poster moved on from, or lost, hears no chunk 0 any more.
LEMMA DeadHearsNoFirst ==
    ASSUME TypeOK, PostParts, NEW m \in reqs, Dead(m.key),
           owner[m.key] \notin Rejected
    PROVE  m.n # 0 /\ ~Live(m.key)
<1>1. /\ m \in Req /\ m.key \in Keys /\ m.sent \in Nat /\ now \in Nat
      /\ owner[m.key] \in Posters
      /\ drawn[m.key] \in Nat \cup {Never}
  BY DEF TypeOK, Req, PostParts, ReqInv
<1>2. drawn[m.key] + UploadTTL < now /\ ~Live(m.key)
  BY <1>1 DEF Dead
<1>3. SUFFICES ASSUME m.n = 0 PROVE FALSE
  BY <1>2
<1>4. m.sent <= LastSend(drawn[m.key]) /\ now <= m.sent + MaxDelay
  BY <1>3 DEF PostParts, ReqInv
<1>5. QED
  BY <1>1, <1>2, <1>4, TimingFacts DEF LastSend, Never

\* A poster that keeps its key, chunk and deadline only changes its timer; it
\* may put a copy of the chunk in hand on the air, and answers may vanish.
LEMMA QuietCall ==
    ASSUME TypeOK, CallsTyped', PostParts, NEW p \in Posters,
           call[p].phase \in {"send", "wait"},
           \A q \in Posters \ {p} : call'[q] = call[q],
           call'[p].key = call[p].key, call'[p].n = call[p].n,
           call'[p].since = call[p].since, call'[p].warned = call[p].warned,
           call'[p].phase \in {"send", "wait", "failed"},
           call'[p].phase = "send" =>
             now <= call'[p].at /\ call'[p].at <= LastSend(call[p].since),
           UNCHANGED <<now, storeVars>>,
           acks' \subseteq acks,
           \A m \in reqs' : \/ m \in reqs
                            \/ /\ m.key = call[p].key
                               /\ m.n = call[p].n
                               /\ m.sent = now
                               /\ now <= LastSend(call[p].since)
    PROVE  PostParts'
<1> USE DEF storeVars
<1>0. /\ call[p].key \in Keys
      /\ owner[call[p].key] = p
      /\ now \in Nat
      /\ \A q \in Posters : /\ call'[q].key = call[q].key
                            /\ call'[q].n = call[q].n
                            /\ call'[q].since = call[q].since
                            /\ call'[q].warned = call[q].warned
                            /\ call'[q].phase = "idle" <=> call[q].phase = "idle"
                            /\ call'[q].phase = "ok" => call[q].phase = "ok"
  BY DEF PostParts, ClientInv, TypeOK
<1>1. ClientInv'
  BY <1>0 DEF PostParts, ClientInv, LastSend
<1>2. FreshInv'
  BY <1>0 DEF PostParts, FreshInv
<1>3. ReqInv'
  <2> SUFFICES ASSUME NEW m \in reqs' PROVE
        /\ owner[m.key] \in Posters
        /\ m.sent <= now
        /\ now <= m.sent + MaxDelay
        /\ m.n = 0 => m.sent <= LastSend(drawn[m.key])
        /\ call[owner[m.key]].key = m.key =>
             /\ m.n <= call[owner[m.key]].n
             /\ m.sent <= LastSend(call[owner[m.key]].since)
    BY <1>0 DEF ReqInv, LastSend
  <2>1. CASE m \in reqs
    BY <2>1 DEF PostParts, ReqInv
  <2>2. CASE m \notin reqs
    <3>1. call[p].n \in Nat
      BY ChunkFacts DEF TypeOK, CallsTyped, Call
    <3>2. call[p].n = 0 => call[p].since = drawn[call[p].key]
      BY DEF PostParts, ClientInv
    <3>3. QED
      BY <2>2, <3>1, <3>2, <1>0, TimingFacts DEF LastSend
  <2>3. QED
    BY <2>1, <2>2
<1>4. UploadInv'
  BY <1>0 DEF PostParts, UploadInv
<1>5. MovedInv'
  BY <1>0 DEF PostParts, MovedInv, Dead, Live
<1>6. AckInv'
  BY <1>0 DEF PostParts, AckInv, Truthful, Dead, Live
<1>7. StoredInv'
  BY <1>0 DEF PostParts, StoredInv
<1>8. ProgressInv'
  BY <1>0 DEF PostParts, ProgressInv
<1>9. QED
  BY <1>1, <1>2, <1>3, <1>4, <1>5, <1>6, <1>7, <1>8 DEF PostParts

\* The next chunk, or success: what AckAdvances relies on is AckInv.
LEMMA AdvanceInv ==
    ASSUME TypeOK, CallsTyped', PostParts, losses = 0,
           NEW p \in Posters, NEW a \in acks, AckAdvances(p, a)
    PROVE  PostParts'
<1> USE DEF timeVars, keyVars, serverVars
<1>0. /\ call[p].phase = "wait" /\ call[p].key \in Keys /\ a.key = call[p].key
      /\ call[p].n \in Chunk /\ call[p].n \in Nat /\ Last \in Nat
      /\ call[p].n <= Last
      /\ owner[call[p].key] = p /\ now \in Nat
      /\ call[p].since \in Nat
      /\ a.status = "OK"
      /\ acks' \subseteq acks
      /\ UNCHANGED <<now, reqs, drawn, owner, started, have, markedAt, stored>>
  BY ChunkFacts DEF AckAdvances, Hears, PostParts, ClientInv, TypeOK, CallsTyped, Call
<1>1. /\ \A q \in Posters \ {p} : call'[q] = call[q]
      /\ call'[p].key = call[p].key
      /\ ~call'[p].warned => ~call[p].warned /\ a.n = call[p].n
      /\ call[p].n = Last => /\ call'[p].phase = "ok"
                             /\ call'[p].n = call[p].n
                             /\ call'[p].since = call[p].since
      /\ call[p].n # Last => /\ call'[p].phase = "send"
                             /\ call'[p].n = call[p].n + 1
                             /\ call'[p].since = now
                             /\ call'[p].at = now
  <2> DEFINE h == call[p].warned \/ a.n # call[p].n
             c1 == [call[p] EXCEPT !.phase = "ok", !.warned = h]
             c2 == [call[p] EXCEPT !.phase = "send", !.n = call[p].n + 1,
                                   !.since = now, !.at = now, !.warned = h]
  <2>1. call' = [call EXCEPT ![p] = IF call[p].n = Last THEN c1 ELSE c2]
    BY DEF AckAdvances
  <2>2. call \in [Posters -> Call] /\ call[p] \in Call
    BY DEF TypeOK, CallsTyped
  <2>3. /\ c1.key = call[p].key /\ c1.n = call[p].n /\ c1.phase = "ok"
        /\ c1.since = call[p].since /\ c1.warned = h
        /\ c2.key = call[p].key /\ c2.n = call[p].n + 1 /\ c2.phase = "send"
        /\ c2.since = now /\ c2.at = now /\ c2.warned = h
    BY <2>2 DEF Call
  <2> HIDE DEF c1, c2
  <2>4. /\ \A q \in Posters \ {p} : call'[q] = call[q]
        /\ call'[p] = IF call[p].n = Last THEN c1 ELSE c2
    BY <2>1, <2>2
  <2>5. QED
    BY <2>3, <2>4
<1>2. /\ call[p].since <= now /\ call[p].n <= call'[p].n
      /\ call[p].since <= call'[p].since /\ call'[p].since <= now
      /\ call'[p].since \in Nat /\ call'[p].n \in Nat
      /\ drawn[call[p].key] <= call[p].since
      /\ drawn[call[p].key] \in Nat \cup {Never}
  BY <1>0, <1>1 DEF PostParts, ClientInv, TypeOK
<1>3. Truthful(a)
  BY DEF PostParts, AckInv
<1>4. ClientInv'
  <2> SUFFICES ASSUME NEW q \in Posters
        PROVE (IF call[q].phase = "idle" THEN call[q].key = NoKey
               ELSE /\ call[q].key \in Keys
                    /\ owner[call[q].key] = q
                    /\ drawn[call[q].key] <= call[q].since
                    /\ call[q].since <= now
                    /\ call[q].n = 0 => call[q].since = drawn[call[q].key]
                    /\ call[q].phase = "send" =>
                         now <= call[q].at /\ call[q].at <= LastSend(call[q].since))'
    BY DEF ClientInv
  <2>1. CASE q # p
    BY <2>1, <1>0, <1>1 DEF PostParts, ClientInv, LastSend
  <2>2. CASE q = p
    BY <2>2, <1>0, <1>1, <1>2, TimingFacts DEF PostParts, ClientInv, LastSend, Never
  <2>3. QED
    BY <2>1, <2>2
<1>5. FreshInv'
  BY <1>0, <1>1 DEF PostParts, FreshInv
<1>6. ReqInv'
  <2> SUFFICES ASSUME NEW m \in reqs PROVE
        /\ owner[m.key] \in Posters
        /\ m.sent <= now
        /\ now <= m.sent + MaxDelay
        /\ m.n = 0 => m.sent <= LastSend(drawn[m.key])
        /\ call'[owner[m.key]].key = m.key =>
             /\ m.n <= call'[owner[m.key]].n
             /\ m.sent <= LastSend(call'[owner[m.key]].since)
    BY <1>0 DEF ReqInv, LastSend
  <2>1. m.n \in Nat /\ m.sent \in Nat
    BY ChunkFacts DEF TypeOK, Req
  <2>2. QED
    BY <1>0, <1>1, <1>2, <2>1, TimingFacts DEF PostParts, ReqInv, LastSend
<1>7. UploadInv'
  <2>1. \A k \in Keys : have[k] \subseteq Nat
    BY ChunkFacts DEF TypeOK
  <2>2. QED
    BY <1>0, <1>1, <1>2, <2>1 DEF PostParts, UploadInv
<1>8. MovedInv'
  BY <1>0, <1>1 DEF PostParts, MovedInv, Dead, Live
<1>9. AckInv'
  BY <1>0, <1>1 DEF PostParts, AckInv, Truthful, Dead, Live
<1>10. StoredInv'
  BY <1>0, <1>1 DEF PostParts, StoredInv
<1>11. ProgressInv'
  <2> SUFFICES ASSUME p \notin Rejected PROVE
        /\ call'[p].n > 0 =>
             started[call[p].key] # Never \/ stored[call[p].key] > 0
        /\ ~call'[p].warned =>
             \/ stored[call[p].key] > 0
             \/ /\ call'[p].phase # "ok"
                /\ 0 .. (call'[p].n - 1) \subseteq have[call[p].key]
    BY <1>0, <1>1 DEF PostParts, ProgressInv
  <2>1. started[call[p].key] # Never \/ stored[call[p].key] > 0
    BY <1>0, <1>3 DEF Truthful, PostParts, UploadInv
  <2>2. CASE ~call'[p].warned /\ call[p].n = Last
    BY <2>2, <1>0, <1>1, <1>3 DEF Truthful
  <2>3. CASE ~call'[p].warned /\ call[p].n # Last /\ ~stored[call[p].key] > 0
    <3>1. call[p].n \in have[call[p].key]
      BY <2>3, <1>0, <1>1, <1>3 DEF Truthful
    <3>2. 0 .. (call[p].n - 1) \subseteq have[call[p].key]
      BY <2>3, <1>0, <1>1 DEF PostParts, ProgressInv
    <3>3. 0 .. (call'[p].n - 1) \subseteq have[call[p].key]
      <4>1. call'[p].n = call[p].n + 1
        BY <2>3, <1>1
      <4>2. ASSUME NEW i \in 0 .. (call'[p].n - 1) PROVE i \in have[call[p].key]
        BY <3>1, <3>2, <4>1, <1>0
      <4>3. QED
        BY <4>2
    <3>4. call'[p].phase # "ok"
      BY <2>3, <1>1
    <3>5. QED
      BY <3>3, <3>4, <2>1
  <2>4. QED
    BY <2>1, <2>2, <2>3
<1>12. QED
  BY <1>4, <1>5, <1>6, <1>7, <1>8, <1>9, <1>10, <1>11 DEF PostParts

\* A fresh request id, at the start or because the old one is dead.
LEMMA BeginInv ==
    ASSUME TypeOK, CallsTyped', PostParts,
           NEW p \in Posters, NEW k \in Keys, NEW r \in 0 .. MaxPostRestarts,
           Begin(p, k, r),
           call[p].phase = "idle" \/ Dead(call[p].key),
           acks' \subseteq acks,
           UNCHANGED <<now, reqs, started, have, markedAt, stored>>
    PROVE  PostParts'
<1>0. /\ drawn[k] = Never /\ owner[k] = NoOne
      /\ started[k] = Never /\ stored[k] = 0 /\ markedAt[k] = Never
      /\ have[k] = {}
      /\ now \in Nat
  BY DEF Begin, PostParts, FreshInv, UploadInv, TypeOK, Never
<1>1. /\ \A q \in Posters \ {p} : call'[q] = call[q]
      /\ call'[p].phase = "send" /\ call'[p].key = k /\ call'[p].n = 0
      /\ call'[p].since = now /\ call'[p].at = now /\ call'[p].warned = FALSE
      /\ \A j \in Keys \ {k} : drawn'[j] = drawn[j] /\ owner'[j] = owner[j]
      /\ drawn'[k] = now /\ owner'[k] = p
  BY DEF Begin, TypeOK, CallsTyped
<1>2. \A q \in Posters : call[q].key # k
  BY <1>0, TimingFacts DEF PostParts, ClientInv
<1>3. ASSUME NEW m \in reqs PROVE m.key \in Keys /\ m.key # k
  BY <1>0, TimingFacts DEF PostParts, ReqInv, TypeOK, Req
<1>4. ASSUME NEW a \in acks PROVE a.key \in Keys /\ a.key # k
  BY <1>0, TimingFacts DEF PostParts, AckInv, Truthful, TypeOK, Ack
<1>5. ClientInv'
  BY <1>0, <1>1, <1>2, TimingFacts DEF PostParts, ClientInv, LastSend
<1>6. FreshInv'
  BY <1>0, <1>1, <1>2, TimingFacts DEF PostParts, FreshInv, Never
<1>7. ReqInv'
  <2> SUFFICES ASSUME NEW m \in reqs PROVE
        /\ owner'[m.key] \in Posters
        /\ m.sent <= now
        /\ now <= m.sent + MaxDelay
        /\ m.n = 0 => m.sent <= LastSend(drawn'[m.key])
        /\ call'[owner'[m.key]].key = m.key =>
             /\ m.n <= call'[owner'[m.key]].n
             /\ m.sent <= LastSend(call'[owner'[m.key]].since)
    BY DEF ReqInv, LastSend
  <2>1. drawn'[m.key] = drawn[m.key] /\ owner'[m.key] = owner[m.key] /\ m.key # k
    BY <1>1, <1>3
  <2>2. call'[owner[m.key]].key = m.key => owner[m.key] # p
    BY <1>1, <1>3
  <2>3. QED
    BY <2>1, <2>2, <1>1 DEF PostParts, ReqInv, LastSend
<1>8. UploadInv'
  BY <1>0, <1>1, <1>2 DEF PostParts, UploadInv, Never
<1>9. MovedInv'
  <2> SUFFICES ASSUME NEW j \in Keys, owner'[j] \in Posters,
                      call'[owner'[j]].key # j
               PROVE  Dead(j)'
    BY DEF MovedInv
  <2>1. j # k /\ owner'[j] = owner[j] /\ drawn'[j] = drawn[j]
    BY <1>1
  <2>2. Dead(j)
    <3>1. CASE call[owner[j]].key # j
      BY <3>1, <2>1 DEF PostParts, MovedInv
    <3>2. CASE call[owner[j]].key = j
      <4>1. owner[j] = p
        BY <3>2, <2>1, <1>1
      <4>2. call[p].phase # "idle"
        BY <4>1, <2>1, TimingFacts DEF PostParts, FreshInv
      <4>3. QED
        BY <4>1, <4>2, <3>2
    <3>3. QED
      BY <3>1, <3>2
  <2>3. QED
    BY <2>1, <2>2 DEF Dead, Live
<1>10. AckInv'
  <2> SUFFICES ASSUME NEW a \in acks PROVE Truthful(a)'
    BY DEF AckInv
  <2>1. drawn'[a.key] = drawn[a.key] /\ owner'[a.key] = owner[a.key] /\ a.key # k
    BY <1>1, <1>4
  <2>2. call'[owner[a.key]].key = a.key => owner[a.key] # p
    BY <1>1, <1>4
  <2>3. QED
    BY <2>1, <2>2, <1>1 DEF PostParts, AckInv, Truthful, Dead, Live
<1>11. StoredInv'
  <2> SUFFICES ASSUME NEW j \in Keys, stored[j] > 0 PROVE
        /\ stored[j] = 1
        /\ owner'[j] \in Posters \ Rejected
        /\ call'[owner'[j]].key = j
        /\ call'[owner'[j]].n = Last
        /\ call'[owner'[j]].since <= markedAt[j]
    BY DEF StoredInv
  <2>1. j # k /\ owner'[j] = owner[j]
    BY <1>0, <1>1
  <2>2. owner[j] # p
    BY <1>0, TimingFacts DEF PostParts, StoredInv, Dead, FreshInv
  <2>3. QED
    BY <2>1, <2>2, <1>1 DEF PostParts, StoredInv
<1>12. ProgressInv'
  BY <1>0, <1>1 DEF PostParts, ProgressInv
<1>13. QED
  BY <1>5, <1>6, <1>7, <1>8, <1>9, <1>10, <1>11, <1>12 DEF PostParts

-----------------------------------------------------------------------------
(* The server's answers *)

\* An answer that changes no upload needs only to be truthful.
LEMMA QuietAnswer ==
    ASSUME TypeOK, PostParts, NEW m \in reqs, NEW s \in Status, Answer(m, s),
           UNCHANGED <<started, have, markedAt, stored>>,
           Truthful([key |-> m.key, n |-> m.n, status |-> s, sent |-> now])
    PROVE  PostParts'
<1> USE DEF Answer, keyVars
<1>1. reqs' \subseteq reqs /\ UNCHANGED <<now, call, drawn, owner>>
  OBVIOUS
<1>2. ClientInv' /\ FreshInv' /\ UploadInv' /\ MovedInv' /\ StoredInv'
  BY <1>1 DEF PostParts, ClientInv, FreshInv, UploadInv, MovedInv, StoredInv,
              LastSend, Dead, Live
<1>3. ReqInv' /\ ProgressInv'
  BY <1>1 DEF PostParts, ReqInv, ProgressInv, LastSend
<1>4. AckInv'
  BY <1>1 DEF PostParts, AckInv, Truthful, Dead, Live
<1>5. QED
  BY <1>2, <1>3, <1>4 DEF PostParts

\* The frames of a stored post find its committed id.
LEMMA StoredIsRemembered ==
    ASSUME TypeOK, PostParts, NEW m \in reqs, stored[m.key] > 0
    PROVE  Remembered(m.key)
<1>1. /\ m.key \in Keys /\ m.sent \in Nat /\ now \in Nat
      /\ owner[m.key] \in Posters
      /\ call[owner[m.key]] \in Call /\ call[owner[m.key]].since \in Nat
      /\ markedAt[m.key] \in Nat \cup {Never}
  BY DEF TypeOK, CallsTyped, Call, Req, PostParts, ReqInv
<1>2. /\ call[owner[m.key]].key = m.key
      /\ call[owner[m.key]].since <= markedAt[m.key]
  BY <1>1 DEF PostParts, StoredInv
<1>3. /\ m.sent <= LastSend(call[owner[m.key]].since)
      /\ now <= m.sent + MaxDelay
  BY <1>2 DEF PostParts, ReqInv
<1>4. QED
  BY <1>1, <1>2, <1>3, TimingFacts DEF Remembered, LastSend, Never

LEMMA ReqFacts ==
    ASSUME TypeOK, PostParts, NEW m \in reqs
    PROVE  /\ m.key \in Keys /\ m.n \in Chunk /\ m.n \in Nat /\ m.n <= Last
           /\ m.sent \in Nat /\ now \in Nat
           /\ owner[m.key] \in Posters
           /\ stored[m.key] \in Nat
           /\ started[m.key] \in Nat \cup {Never}
           /\ drawn[m.key] \in Nat /\ drawn[m.key] <= now
           /\ have[m.key] \subseteq Chunk
           /\ call[owner[m.key]] \in Call
           /\ call[owner[m.key]].phase # "idle"
<1>1. /\ m \in Req /\ m.key \in Keys /\ m.n \in Chunk /\ m.sent \in Nat
      /\ owner[m.key] \in Posters
  BY DEF TypeOK, Req, PostParts, ReqInv
<1>2. /\ drawn[m.key] \in Nat \cup {Never} /\ drawn[m.key] # Never
      /\ call[owner[m.key]].phase # "idle"
  BY <1>1 DEF TypeOK, PostParts, FreshInv
<1>3. QED
  BY <1>1, <1>2, ChunkFacts DEF TypeOK, CallsTyped, PostParts, FreshInv

\* A chunk accepted for a post the board would take belongs to the key its
\* poster still uses, and takes nothing from the upload.
LEMMA AcceptFacts ==
    ASSUME TypeOK, PostParts, losses = 0, NEW m \in reqs,
           NEW crc \in BOOLEAN, Accepts(m, crc)
    PROVE  /\ stored[m.key] = 0
           /\ owner[m.key] \notin Rejected =>
                /\ ~Dead(m.key)
                /\ call[owner[m.key]].key = m.key
                /\ have[m.key] \subseteq HasAfter(m)
           /\ m.n \in HasAfter(m)
           /\ call[owner[m.key]].key = m.key =>
                \A i \in HasAfter(m) : i <= call[owner[m.key]].n
<1>1. stored[m.key] = 0
  BY StoredIsRemembered, ReqFacts DEF Accepts
<1>2. ASSUME owner[m.key] \notin Rejected PROVE ~Dead(m.key)
  BY <1>2, DeadHearsNoFirst DEF Accepts
<1>3. ASSUME owner[m.key] \notin Rejected PROVE call[owner[m.key]].key = m.key
  BY <1>2, <1>3, ReqFacts DEF PostParts, MovedInv
<1>4. ASSUME owner[m.key] \notin Rejected PROVE have[m.key] \subseteq HasAfter(m)
  <2>1. CASE Live(m.key)
    BY <2>1 DEF HasAfter, Has
  <2>2. CASE ~Live(m.key) /\ started[m.key] = Never
    BY <2>2, ReqFacts DEF PostParts, UploadInv
  <2>3. CASE ~Live(m.key) /\ started[m.key] # Never
    <3>1. drawn[m.key] + UploadTTL < now
      BY <2>3, ReqFacts, TimingFacts DEF Live, PostParts, UploadInv
    <3>2. Dead(m.key)
      BY <3>1, <2>3, <1>1 DEF Dead
    <3>3. QED
      BY <3>2, <1>2, <1>4
  <2>4. QED
    BY <2>1, <2>2, <2>3
<1>5. ASSUME call[owner[m.key]].key = m.key
      PROVE  \A i \in HasAfter(m) : i <= call[owner[m.key]].n
  BY <1>5, ReqFacts DEF PostParts, UploadInv, ReqInv, HasAfter, Has
<1>6. QED
  BY <1>1, <1>2, <1>3, <1>4, <1>5 DEF HasAfter

\* The key of a poster is nobody else's.
LEMMA KeyOwner ==
    ASSUME TypeOK, PostParts, NEW k \in Keys, NEW q \in Posters,
           call[q].phase # "idle", call[q].key = k
    PROVE  owner[k] = q
BY DEF PostParts, ClientInv

LEMMA KeepInv ==
    ASSUME TypeOK, TypeOK', PostParts, losses = 0, NEW m \in reqs,
           NEW crc \in BOOLEAN, Accepts(m, crc), Keep(m, crc),
           NEW s \in Status, Answer(m, s),
           s # "UNKNOWN_TOKEN",
           s = "OK" => HasAfter(m) # Chunk
    PROVE  PostParts'
<1> DEFINE k == m.key
           p == owner[m.key]
<1>0. /\ UNCHANGED <<now, call, drawn, owner, markedAt, stored>>
      /\ reqs' \subseteq reqs
      /\ acks' = acks \cup {[key |-> k, n |-> m.n, status |-> s, sent |-> now]}
  BY DEF Answer, keyVars, Keep
<1>1. /\ \A j \in Keys \ {k} : started'[j] = started[j] /\ have'[j] = have[j]
      /\ have'[k] = HasAfter(m)
      /\ started'[k] \in {started[k], now}
      /\ Live(k) => started'[k] = started[k]
      /\ ~Live(k) => started'[k] = now
  BY ReqFacts DEF Keep, TypeOK
<1>2. /\ started'[k] # Never /\ drawn[k] <= started'[k] /\ started'[k] <= now
  BY <1>1, ReqFacts DEF Live, PostParts, UploadInv, Never
<1>3. ClientInv' /\ FreshInv' /\ ReqInv'
  <2>1. ClientInv'
    BY <1>0 DEF PostParts, ClientInv, LastSend
  <2>2. FreshInv'
    BY <1>0, <1>1, ReqFacts, TimingFacts DEF PostParts, FreshInv
  <2>3. ReqInv'
    BY <1>0 DEF PostParts, ReqInv, LastSend
  <2>4. QED
    BY <2>1, <2>2, <2>3
<1>4. UploadInv'
  BY <1>0, <1>1, <1>2, AcceptFacts DEF PostParts, UploadInv
<1>5. ASSUME NEW j \in Keys, Dead(j) PROVE Dead(j)'
  <2>1. CASE j = k
    BY <2>1, <1>5, <1>0, AcceptFacts DEF Dead
  <2>2. CASE j # k
    BY <2>2, <1>5, <1>0, <1>1 DEF Dead, Live
  <2>3. QED
    BY <2>1, <2>2
<1>6. MovedInv'
  BY <1>0, <1>5 DEF PostParts, MovedInv
<1>7. ASSUME NEW a \in acks PROVE Truthful(a)'
  <2>1. Truthful(a) /\ a.key \in Keys
    BY DEF PostParts, AckInv, TypeOK, Ack
  <2>2. a.key = k /\ p \notin Rejected => have[k] \subseteq have'[k]
    BY <1>1, AcceptFacts
  <2>3. QED
    BY <2>1, <2>2, <1>0, <1>1, <1>5 DEF Truthful
<1>8. ASSUME s = "OK", p \notin Rejected, m.n = Last, ~call[p].warned
      PROVE  FALSE
  <2>1. /\ p \in Posters \ Rejected /\ call[p].phase # "idle"
        /\ call[p].key = k /\ stored[k] = 0 /\ have[k] \subseteq HasAfter(m)
    BY <1>8, ReqFacts, AcceptFacts
  <2>2. call[p].n = Last
    <3>1. call[p].n \in Nat /\ call[p].n <= Last
      BY ReqFacts, ChunkFacts DEF Call
    <3>2. m.n <= call[p].n
      BY <2>1 DEF PostParts, ReqInv
    <3>3. QED
      BY <1>8, <3>1, <3>2, ChunkFacts
  <2>3. 0 .. (Last - 1) \subseteq have[k]
    BY <1>8, <2>1, <2>2 DEF PostParts, ProgressInv
  <2>4. Last \in HasAfter(m)
    BY <1>8, AcceptFacts
  <2>5. Chunk \subseteq HasAfter(m)
    BY <2>1, <2>3, <2>4, ChunkFacts DEF Chunk
  <2>6. HasAfter(m) \subseteq Chunk
    BY AcceptType
  <2>7. QED
    BY <1>8, <2>5, <2>6
<1>9. AckInv'
  <2>1. Truthful([key |-> k, n |-> m.n, status |-> s, sent |-> now])'
    BY <1>0, <1>1, <1>8, ReqFacts, AcceptFacts DEF Truthful
  <2>2. QED
    BY <2>1, <1>0, <1>7 DEF AckInv
<1>10. StoredInv'
  BY <1>0 DEF PostParts, StoredInv
<1>11. ProgressInv'
  <2> SUFFICES ASSUME NEW q \in Posters \ Rejected, call[q].phase # "idle"
        PROVE /\ call[q].n > 0 =>
                   started'[call[q].key] # Never \/ stored[call[q].key] > 0
              /\ ~call[q].warned =>
                   \/ stored[call[q].key] > 0
                   \/ /\ call[q].phase # "ok"
                      /\ 0 .. (call[q].n - 1) \subseteq have'[call[q].key]
    BY <1>0 DEF ProgressInv
  <2>1. call[q].key \in Keys
    BY DEF TypeOK, CallsTyped
  <2>2. CASE call[q].key = k
    <3>1. q = p
      BY <2>2, KeyOwner, ReqFacts
    <3>2. have[k] \subseteq have'[k]
      BY <3>1, <1>1, AcceptFacts
    <3>3. QED
      BY <2>2, <3>2, <1>2 DEF PostParts, ProgressInv
  <2>3. CASE call[q].key # k
    BY <2>1, <2>3, <1>1 DEF PostParts, ProgressInv
  <2>4. QED
    BY <2>2, <2>3
<1>12. QED
  BY <1>3, <1>4, <1>6, <1>9, <1>10, <1>11 DEF PostParts

\* Closing an upload, stored or turned down.
LEMMA AssembledInv ==
    ASSUME TypeOK, TypeOK', PostParts, losses = 0, NEW m \in reqs,
           NEW crc \in BOOLEAN, Assembled(m, crc),
           NEW s \in Status, Answer(m, s), s # "UNKNOWN_TOKEN",
           s = "OK" => owner[m.key] \notin Rejected,
           \A j \in Keys \ {m.key} :
             stored'[j] = stored[j] /\ markedAt'[j] = markedAt[j],
           \/ /\ owner[m.key] \notin Rejected
              /\ stored'[m.key] = 1 /\ markedAt'[m.key] = now
           \/ /\ owner[m.key] \in Rejected
              /\ stored'[m.key] = 0 /\ markedAt'[m.key] = markedAt[m.key]
    PROVE  PostParts'
<1> DEFINE k == m.key
           p == owner[m.key]
<1>0. /\ UNCHANGED <<now, call, drawn, owner>>
      /\ reqs' \subseteq reqs
      /\ acks' = acks \cup {[key |-> k, n |-> m.n, status |-> s, sent |-> now]}
  BY DEF Answer, keyVars
<1>1. /\ \A j \in Keys \ {k} : started'[j] = started[j] /\ have'[j] = have[j]
      /\ have'[k] = {} /\ started'[k] = Never
  BY ReqFacts DEF Assembled, TypeOK
<1>2. stored[k] = 0 /\ (p \notin Rejected => ~Dead(k) /\ call[p].key = k)
  BY AcceptFacts DEF Assembled
<1>3. ASSUME p \notin Rejected PROVE call[p].n = Last
  <2>1. Last \in HasAfter(m)
    BY ChunkFacts DEF Assembled
  <2>2. Last <= call[p].n
    BY <2>1, <1>2, <1>3, AcceptFacts DEF Assembled
  <2>3. call[p].n \in Chunk
    BY ReqFacts DEF Call
  <2>4. call[p].n \in Nat /\ call[p].n <= Last /\ Last \in Nat
    BY <2>3, ChunkFacts
  <2>5. QED
    BY <2>2, <2>4
<1>4. ClientInv' /\ FreshInv' /\ ReqInv'
  <2>1. ClientInv'
    BY <1>0 DEF PostParts, ClientInv, LastSend
  <2>2. FreshInv'
    BY <1>0, <1>1, ReqFacts, TimingFacts DEF PostParts, FreshInv
  <2>3. ReqInv'
    BY <1>0 DEF PostParts, ReqInv, LastSend
  <2>4. QED
    BY <2>1, <2>2, <2>3
<1>5. UploadInv'
  <2>1. markedAt[k] = Never
    BY <1>2, ReqFacts DEF PostParts, UploadInv
  <2>2. QED
    BY <1>0, <1>1, <2>1, ReqFacts DEF PostParts, UploadInv, Never
<1>6. ASSUME NEW j \in Keys, Dead(j), j # k \/ p \in Rejected PROVE Dead(j)'
  <2>1. CASE j = k
    BY <2>1, <1>6, <1>0 DEF Dead
  <2>2. CASE j # k
    BY <2>2, <1>6, <1>0, <1>1 DEF Dead, Live
  <2>3. QED
    BY <2>1, <2>2
<1>7. MovedInv'
  BY <1>0, <1>2, <1>6 DEF PostParts, MovedInv
<1>8. ASSUME NEW a \in acks PROVE Truthful(a)'
  <2>1. Truthful(a) /\ a.key \in Keys
    BY DEF PostParts, AckInv, TypeOK, Ack
  <2>2. CASE a.key = k
    BY <2>1, <2>2, <1>0, <1>2, <1>6 DEF Truthful
  <2>3. CASE a.key # k
    BY <2>1, <2>3, <1>0, <1>1, <1>6 DEF Truthful
  <2>4. QED
    BY <2>2, <2>3
<1>9. AckInv'
  <2>1. Truthful([key |-> k, n |-> m.n, status |-> s, sent |-> now])'
    BY <1>0, ReqFacts DEF Truthful
  <2>2. QED
    BY <2>1, <1>0, <1>8 DEF AckInv
<1>10. StoredInv'
  <2>1. p \notin Rejected => call[p].since <= now
    BY <1>2, ReqFacts DEF PostParts, ClientInv
  <2>2. QED
    BY <1>0, <1>2, <1>3, <2>1, ReqFacts DEF PostParts, StoredInv
<1>11. ProgressInv'
  <2> SUFFICES ASSUME NEW q \in Posters \ Rejected, call[q].phase # "idle"
        PROVE /\ call[q].n > 0 =>
                   started'[call[q].key] # Never \/ stored'[call[q].key] > 0
              /\ ~call[q].warned =>
                   \/ stored'[call[q].key] > 0
                   \/ /\ call[q].phase # "ok"
                      /\ 0 .. (call[q].n - 1) \subseteq have'[call[q].key]
    BY <1>0 DEF ProgressInv
  <2>1. call[q].key \in Keys
    BY DEF TypeOK, CallsTyped
  <2>2. CASE call[q].key = k
    BY <2>2, KeyOwner, ReqFacts
  <2>3. CASE call[q].key # k
    BY <2>1, <2>3, <1>1 DEF PostParts, ProgressInv
  <2>4. QED
    BY <2>2, <2>3
<1>12. QED
  BY <1>4, <1>5, <1>7, <1>9, <1>10, <1>11 DEF PostParts

LEMMA HandleInv ==
    ASSUME TypeOK, TypeOK', PostParts, losses = 0,
           NEW m \in reqs, HandlePost(m)
    PROVE  PostParts'
<1> USE DEF Status, Refusal
<1>1. ASSUME NEW s \in Refusal, Answer(m, s),
             UNCHANGED <<started, have, markedAt, stored>>
      PROVE  PostParts'
  <2>1. Truthful([key |-> m.key, n |-> m.n, status |-> s, sent |-> now])
    BY ReqFacts DEF Truthful
  <2>2. QED
    BY <1>1, <2>1, QuietAnswer
<1>2. CASE Deny(m)
  BY <1>2, <1>1 DEF Deny
<1>3. CASE TooManyOpen(m)
  BY <1>3, <1>1 DEF TooManyOpen
<1>4. CASE AckCommitted(m)
  <2>1. stored[m.key] > 0
    BY <1>4, ReqFacts DEF AckCommitted, Remembered, PostParts, UploadInv
  <2>2. Truthful([key |-> m.key, n |-> m.n, status |-> "OK", sent |-> now])
    BY <2>1, ReqFacts DEF Truthful
  <2>3. QED
    BY <1>4, <2>2, QuietAnswer DEF AckCommitted
<1>5. CASE UploadUnknown(m)
  <2>1. stored[m.key] = 0
    BY <1>5, StoredIsRemembered, ReqFacts DEF UploadUnknown
  <2>2. Dead(m.key)
    <3>1. CASE call[owner[m.key]].key # m.key
      BY <3>1, ReqFacts DEF PostParts, MovedInv
    <3>2. CASE call[owner[m.key]].key = m.key /\ owner[m.key] \notin Rejected
      <4>1. call[owner[m.key]].n > 0
        <5>1. call[owner[m.key]].n \in Nat
          BY ReqFacts, ChunkFacts DEF Call
        <5>2. m.n <= call[owner[m.key]].n
          BY <3>2 DEF PostParts, ReqInv
        <5>3. QED
          BY <5>1, <5>2, <1>5, ReqFacts DEF UploadUnknown
      <4>2. started[m.key] # Never
        BY <4>1, <3>2, <2>1, ReqFacts DEF PostParts, ProgressInv
      <4>3. drawn[m.key] + UploadTTL < now
        BY <4>2, <1>5, ReqFacts, TimingFacts
           DEF UploadUnknown, Live, PostParts, UploadInv
      <4>4. QED
        BY <4>3, <2>1, <1>5 DEF Dead, UploadUnknown
    <3>3. CASE owner[m.key] \in Rejected
      BY <3>3, <2>1 DEF Dead
    <3>4. QED
      BY <3>1, <3>2, <3>3
  <2>3. Truthful([key |-> m.key, n |-> m.n, status |-> "UNKNOWN_TOKEN",
                  sent |-> now])
    BY <2>2, ReqFacts DEF Truthful
  <2>4. QED
    BY <1>5, <2>3, QuietAnswer DEF UploadUnknown
<1>6. ASSUME NEW crc \in BOOLEAN, AcceptPartial(m, crc) PROVE PostParts'
  BY <1>6, KeepInv DEF AcceptPartial
<1>7. ASSUME NEW crc \in BOOLEAN, ChecksumFails(m, crc) PROVE PostParts'
  BY <1>7, KeepInv DEF ChecksumFails
<1>8. ASSUME NEW crc \in BOOLEAN, Commit(m, crc) PROVE PostParts'
  <2>1. /\ \A j \in Keys \ {m.key} :
             stored'[j] = stored[j] /\ markedAt'[j] = markedAt[j]
        /\ stored'[m.key] = stored[m.key] + 1 /\ markedAt'[m.key] = now
    BY <1>8, ReqFacts DEF Commit, TypeOK
  <2>2. stored[m.key] = 0
    BY <1>8, AcceptFacts DEF Commit, Assembled
  <2>3. stored'[m.key] = 1
    BY <2>1, <2>2
  <2>4. QED
    BY <1>8, <2>1, <2>3, AssembledInv DEF Commit
<1>9. ASSUME NEW crc \in BOOLEAN, CommitRejected(m, crc) PROVE PostParts'
  <2>1. PICK s \in {"INVALID_REQUEST", "NOT_FOUND"} : Answer(m, s)
    BY <1>9 DEF CommitRejected
  <2>2. stored[m.key] = 0
    BY <1>9, AcceptFacts DEF CommitRejected, Assembled
  <2>3. QED
    BY <1>9, <2>1, <2>2, AssembledInv DEF CommitRejected
<1>10. QED
  BY <1>2, <1>3, <1>4, <1>5, <1>6, <1>7, <1>8, <1>9 DEF HandlePost

-----------------------------------------------------------------------------
(* Time *)

LEMMA TickInv ==
    ASSUME TypeOK, PostParts, Tick
    PROVE  PostParts'
<1> USE DEF keyVars, serverVars
<1>0. /\ now \in Nat /\ now' = now + 1
      /\ reqs' = {m \in reqs : now' <= m.sent + MaxDelay}
      /\ acks' \subseteq acks
      /\ UNCHANGED <<call, drawn, owner, started, have, markedAt, stored>>
      /\ \A k \in Keys : /\ drawn[k] \in Nat \cup {Never}
                         /\ started[k] \in Nat \cup {Never}
                         /\ markedAt[k] \in Nat \cup {Never}
      /\ \A q \in Posters : call[q] \in Call
      /\ reqs \subseteq Req
  BY DEF Tick, TypeOK, CallsTyped
<1>1. ASSUME NEW k \in Keys, Dead(k) PROVE Dead(k)'
  BY <1>0, <1>1, TimingFacts DEF Dead, Live, Never
<1>2. ClientInv'
  <2>1. \A q \in Posters : call[q].phase = "send" => now + 1 <= call[q].at
    BY <1>0 DEF Tick, SendDue, Call
  <2>2. QED
    BY <1>0, <2>1 DEF PostParts, ClientInv, LastSend, Call, Never
<1>3. FreshInv'
  BY <1>0 DEF PostParts, FreshInv, Never
<1>4. ReqInv'
  BY <1>0 DEF PostParts, ReqInv, LastSend, Req
<1>5. UploadInv'
  BY <1>0 DEF PostParts, UploadInv, Never
<1>6. MovedInv'
  BY <1>0, <1>1 DEF PostParts, MovedInv
<1>7. AckInv'
  <2> SUFFICES ASSUME NEW a \in acks PROVE Truthful(a)'
    BY <1>0 DEF AckInv
  <2>1. Truthful(a) /\ a.key \in Keys
    BY DEF PostParts, AckInv, TypeOK, Ack
  <2>2. QED
    BY <2>1, <1>0, <1>1 DEF Truthful
<1>8. StoredInv' /\ ProgressInv'
  BY <1>0 DEF PostParts, StoredInv, ProgressInv
<1>9. QED
  BY <1>2, <1>3, <1>4, <1>5, <1>6, <1>7, <1>8 DEF PostParts

-----------------------------------------------------------------------------
(* The theorems *)

LEMMA InitInv == Init => PostInv
<1> SUFFICES ASSUME Init PROVE PostParts
  BY DEF PostInv
<1>1. \A p \in Posters : call[p].phase = "idle" /\ call[p].key = NoKey
  BY DEF Init
<1>2. ClientInv /\ ProgressInv
  BY <1>1 DEF ClientInv, ProgressInv
<1>3. FreshInv /\ UploadInv /\ StoredInv /\ MovedInv
  BY TimingFacts DEF Init, FreshInv, UploadInv, StoredInv, MovedInv, Never
<1>4. ReqInv /\ AckInv
  BY DEF Init, ReqInv, AckInv
<1>5. QED
  BY <1>2, <1>3, <1>4 DEF PostParts

LEMMA LossesChange ==
    ASSUME [Next]_vars
    PROVE  \/ losses' = losses
           \/ losses' = losses + 1 /\ losses < MaxLosses
BY DEF Next, Client, StartPost, Send, SendRefused, Timeout, AckAdvances,
         AckRestarts, AckFails, HandlePost, Deny, AckCommitted, TooManyOpen,
         UploadUnknown, AcceptPartial, ChecksumFails, Commit, CommitRejected,
         AppendRaises, Restart, Answer, Tick, vars,
         timeVars, linkVars, keyVars, serverVars

LEMMA NextInv ==
    ASSUME TypeOK, TypeOK', PostInv, [Next]_vars
    PROVE  PostInv'
<1> USE DEF timeVars, linkVars, keyVars, serverVars
<1>1. CASE losses' = losses + 1
  BY <1>1 DEF PostInv, TypeOK
<1>2. CASE losses' = losses
  <2> SUFFICES ASSUME PostParts, losses = 0 PROVE PostParts'
    BY <1>2 DEF PostInv
  <2>0. CallsTyped' /\ now \in Nat
    BY DEF TypeOK
  <2>1. ASSUME NEW p \in Posters, StartPost(p) PROVE PostParts'
    <3>1. PICK k \in Keys : Begin(p, k, 0)
      BY <2>1 DEF StartPost
    <3>2. 0 \in 0 .. MaxPostRestarts
      BY DEF MaxPostRestarts
    <3>3. QED
      BY <2>0, <2>1, <3>1, <3>2, BeginInv DEF StartPost
  <2>2. ASSUME NEW p \in Posters, Send(p) PROVE PostParts'
    <3>1. /\ call[p] \in Call /\ call[p].phase = "send"
          /\ call[p].at <= LastSend(call[p].since) /\ now <= call[p].at
          /\ call[p].key \in Keys
      BY <2>2 DEF Send, SendDue, TypeOK, CallsTyped, PostParts, ClientInv
    <3>2. /\ \A q \in Posters \ {p} : call'[q] = call[q]
          /\ call'[p].key = call[p].key /\ call'[p].n = call[p].n
          /\ call'[p].since = call[p].since /\ call'[p].warned = call[p].warned
          /\ call'[p].phase = "wait"
      BY <2>2, <3>1 DEF Send, TypeOK, CallsTyped, Call
    <3>3. now <= LastSend(call[p].since)
      BY <2>0, <3>1, TimingFacts DEF LastSend, Call
    <3>4. \A m \in reqs' : \/ m \in reqs
                           \/ /\ m.key = call[p].key
                              /\ m.n = call[p].n
                              /\ m.sent = now
                              /\ now <= LastSend(call[p].since)
      BY <2>2, <3>3 DEF Send
    <3>5. UNCHANGED <<now, storeVars>> /\ acks' = acks
      BY <2>2 DEF Send, storeVars
    <3>6. QED
      BY <2>0, <3>1, <3>2, <3>4, <3>5, QuietCall
  <2>3. ASSUME NEW p \in Posters, call[p].phase \in {"send", "wait"},
               RetryOrGiveUp(p),
               UNCHANGED <<timeVars, linkVars, keyVars, serverVars>>
        PROVE  PostParts'
    <3>0. call[p] \in Call /\ call[p].since \in Nat
      BY DEF TypeOK, CallsTyped, Call
    <3>1. /\ \A q \in Posters \ {p} : call'[q] = call[q]
          /\ call'[p].key = call[p].key /\ call'[p].n = call[p].n
          /\ call'[p].since = call[p].since /\ call'[p].warned = call[p].warned
          /\ call'[p].phase \in {"send", "failed"}
      BY <2>3, <3>0 DEF RetryOrGiveUp, TypeOK, CallsTyped, Call
    <3>2. call'[p].phase = "send" =>
            now <= call'[p].at /\ call'[p].at <= LastSend(call[p].since)
      <4>1. CASE call' = [call EXCEPT ![p].phase = "failed"]
        BY <4>1, <3>0 DEF TypeOK, CallsTyped
      <4>2. ASSUME NEW j \in MinJitter .. MaxJitter,
                   now < call[p].since + RetryDeadline,
                   call' = [call EXCEPT ![p].phase = "send", ![p].at = now + j]
            PROVE  now <= call'[p].at /\ call'[p].at <= LastSend(call[p].since)
        <5>1. call'[p].at = now + j
          BY <4>2, <3>0 DEF TypeOK, CallsTyped, Call
        <5>2. j \in Nat /\ j <= MaxJitter
          BY PostConstants
        <5>3. QED
          BY <4>2, <5>1, <5>2, <3>0, <2>0, TimingFacts DEF LastSend
      <4>3. QED
        BY <2>3, <4>1, <4>2 DEF RetryOrGiveUp
    <3>3. QED
      BY <2>0, <2>3, <3>1, <3>2, QuietCall DEF storeVars
  <2>4. ASSUME NEW p \in Posters, SendRefused(p) PROVE PostParts'
    BY <2>3, <2>4 DEF SendRefused, SendDue
  <2>5. ASSUME NEW p \in Posters, Timeout(p) PROVE PostParts'
    BY <2>3, <2>5 DEF Timeout, WaitOver
  <2>6. ASSUME NEW p \in Posters, NEW a \in acks, AckAdvances(p, a)
        PROVE  PostParts'
    BY <2>0, <2>6, AdvanceInv
  <2>7. ASSUME NEW p \in Posters, NEW a \in acks, AckRestarts(p, a)
        PROVE  PostParts'
    <3>1. PICK k \in Keys : Begin(p, k, call[p].retries + 1)
      BY <2>7 DEF AckRestarts
    <3>2. call[p].retries + 1 \in 0 .. MaxPostRestarts
      BY <2>7 DEF AckRestarts, TypeOK, CallsTyped, Call, MaxPostRestarts
    <3>3. Dead(call[p].key)
      BY <2>7 DEF AckRestarts, Hears, PostParts, AckInv, Truthful
    <3>4. acks' \subseteq acks
      BY <2>7 DEF AckRestarts, Hears
    <3>5. QED
      BY <2>0, <2>7, <3>1, <3>2, <3>3, <3>4, BeginInv DEF AckRestarts
  <2>8. ASSUME NEW p \in Posters, NEW a \in acks, AckFails(p, a)
        PROVE  PostParts'
    <3>1. /\ \A q \in Posters \ {p} : call'[q] = call[q]
          /\ call'[p].key = call[p].key /\ call'[p].n = call[p].n
          /\ call'[p].since = call[p].since /\ call'[p].warned = call[p].warned
          /\ call'[p].phase = "failed" /\ call[p].phase = "wait"
          /\ acks' \subseteq acks
      BY <2>8 DEF AckFails, Hears, TypeOK, CallsTyped, Call
    <3>2. QED
      BY <2>0, <2>8, <3>1, QuietCall DEF AckFails, storeVars
  <2>9. ASSUME NEW m \in reqs, HandlePost(m) PROVE PostParts'
    BY <2>9, HandleInv
  <2>10. CASE Tick
    BY <2>10, TickInv
  <2>11. CASE UNCHANGED vars
    BY <2>11 DEF vars, PostParts, ClientInv, FreshInv, ReqInv, UploadInv,
         MovedInv, AckInv, Truthful, StoredInv, ProgressInv, Dead, Live, LastSend
  <2>12. QED
    <3>1. ~Restart /\ \A m \in reqs, crc \in BOOLEAN : ~AppendRaises(m, crc)
      BY <1>2 DEF Restart, AppendRaises, TypeOK
    <3>2. QED
      BY <3>1, <2>1, <2>2, <2>4, <2>5, <2>6, <2>7, <2>8, <2>9, <2>10, <2>11
         DEF Next, Client
<1>3. QED
  BY <1>1, <1>2, LossesChange

\* The bookkeeping that ties a poster's request in hand to the frames in the
\* air and to the server's two memories holds until the server drops uploads.
THEOREM Invariant == Spec => []PostInv
<1>1. Init => PostInv
  BY InitInv
<1>2. TypeOK /\ TypeOK' /\ PostInv /\ [Next]_vars => PostInv'
  BY NextInv
<1>3. QED
  BY <1>1, <1>2, TypeCorrect, PTL DEF Spec

\* Both together: the types of the client and the server, and what they know of
\* each other.
THEOREM InductiveHolds == Spec => []Inductive
BY TypeCorrect, Invariant, PTL DEF Inductive

\* Unless the server drops uploads a post is stored under one request id and
\* once.
THEOREM AtMostOnce == Spec => []PostedAtMostOnce
<1>1. TypeOK /\ PostInv => PostedAtMostOnce
  BY DEF PostInv, PostParts, StoredInv, PostedAtMostOnce, StoredKeys
<1>2. QED
  BY <1>1, Invariant, TypeCorrect, PTL

\* Unless the server drops uploads, acks that all named the right chunk mean
\* stored.
THEOREM CleanSuccess == Spec => []CleanSuccessIsStored
<1>1. TypeOK /\ PostInv => CleanSuccessIsStored
  <2> SUFFICES ASSUME TypeOK, PostInv, losses = 0,
                      NEW p \in Posters \ Rejected,
                      call[p].phase = "ok", ~call[p].warned
               PROVE  StoredKeys(p) # {}
    BY DEF CleanSuccessIsStored
  <2>1. call[p].key \in Keys /\ owner[call[p].key] = p
    BY DEF PostInv, PostParts, ClientInv
  <2>2. stored[call[p].key] > 0
    BY DEF PostInv, PostParts, ProgressInv
  <2>3. QED
    BY <2>1, <2>2 DEF StoredKeys
<1>2. QED
  BY <1>1, Invariant, TypeCorrect, PTL

-----------------------------------------------------------------------------
(* Refinement of PostOnce *)

Mapped == Once!vars

\* Without a new row and a change of owner the rows stay as they are.
LEMMA RowsSame ==
    ASSUME stored' = stored,
           \A k \in Keys : stored[k] > 0 => owner'[k] = owner[k],
           \A k \in Keys : owner'[k] # owner[k] => ~(stored[k] > 0),
           NEW p \in Posters
    PROVE  Rows(p)' = Rows(p)
<1>1. StoredKeys(p)' = StoredKeys(p)
  BY DEF StoredKeys
<1>2. QED
  BY <1>1 DEF Rows

LEMMA StoredRows ==
    ASSUME TypeOK, NEW p \in Posters, StoredKeys(p) # {}
    PROVE  Rows(p) # {}
<1>1. PICK k \in StoredKeys(p) : TRUE
  OBVIOUS
<1>2. 1 \in 1 .. stored[k]
  BY <1>1 DEF StoredKeys, TypeOK
<1>3. <<k, 1>> \in Rows(p)
  BY <1>1, <1>2 DEF Rows
<1>4. QED
  BY <1>3

\* A client step maps to a report of its poster, or to nothing.
LEMMA ClientMaps ==
    ASSUME TypeOK, TypeOK', PostParts, PostParts', losses = 0,
           NEW p \in Posters, stored' = stored,
           \A k \in Keys : owner'[k] # owner[k] => ~(stored[k] > 0),
           \A q \in Posters \ {p} : call'[q] = call[q],
           call[p].phase \notin {"ok", "failed"}
    PROVE  Once!Next \/ UNCHANGED Mapped
<1>1. \A q \in Posters : Rows(q)' = Rows(q)
  BY RowsSame
<1>2. \A q \in Posters \ {p} : Outcome(q)' = Outcome(q)
  BY DEF Outcome
<1>3. Outcome(p) = "pending"
  BY DEF Outcome
<1>4. Outcome(p)' \in {"pending", "failed", "unconfirmed", "confirmed"}
  BY DEF Outcome
<1> DEFINE board == [q \in Posters |-> Rows(q)]
           outcome == [q \in Posters |-> Outcome(q)]
<1>5. board' = board /\ outcome' = [outcome EXCEPT ![p] = Outcome(p)']
  BY <1>1, <1>2
<1>6. outcome[p] = "pending"
  BY <1>3
<1>7. CASE Outcome(p)' = "pending"
  BY <1>1, <1>2, <1>3, <1>7 DEF Mapped, Once!vars
<1>8. CASE Outcome(p)' \in {"failed", "unconfirmed"}
  <2>1. Once!Doubt(p)
    BY <1>5, <1>6, <1>8 DEF Once!Doubt
  <2>2. QED
    BY <2>1 DEF Once!Next
<1>9. CASE Outcome(p)' = "confirmed"
  <2>1. /\ p \notin Rejected
        /\ call'[p].phase = "ok" /\ ~call'[p].warned
    BY <1>9 DEF Outcome
  <2>2. call'[p].key \in Keys /\ owner'[call'[p].key] = p
    BY <2>1 DEF PostParts, ClientInv
  <2>3. stored'[call'[p].key] > 0
    BY <2>1 DEF PostParts, ProgressInv
  <2>4. StoredKeys(p)' # {}
    BY <2>2, <2>3 DEF StoredKeys
  <2>5. Rows(p) # {}
    <3>1. StoredKeys(p) # {}
      BY <2>2, <2>3 DEF StoredKeys
    <3>2. QED
      BY <3>1, StoredRows
  <2>6. Once!Confirm(p)
    BY <1>5, <1>6, <1>9, <2>5 DEF Once!Confirm
  <2>7. QED
    BY <2>6 DEF Once!Next
<1>10. QED
  BY <1>4, <1>7, <1>8, <1>9

\* A commit maps to Store of the poster that owns the key.
LEMMA CommitMaps ==
    ASSUME TypeOK, TypeOK', PostParts, PostParts', losses = 0,
           NEW m \in reqs, NEW crc \in BOOLEAN, Commit(m, crc)
    PROVE  Once!Next
<1> DEFINE k == m.key
<1>0. PICK p \in Posters : p = owner[m.key]
  BY ReqFacts
<1>1. /\ k \in Keys /\ owner[k] = p /\ stored[k] = 0 /\ p \notin Rejected
      /\ call[p].key = k
  BY <1>0, ReqFacts, AcceptFacts DEF Commit, Assembled
<1>2. /\ stored' = [stored EXCEPT ![k] = 1]
      /\ UNCHANGED <<owner, call>>
  BY <1>1 DEF Commit, Answer, keyVars, TypeOK
<1>3. \A q \in Posters \ {p} : StoredKeys(q)' = StoredKeys(q)
  BY <1>1, <1>2 DEF StoredKeys, TypeOK
<1>4. \A q \in Posters \ {p} : Rows(q)' = Rows(q)
  <2> SUFFICES ASSUME NEW q \in Posters \ {p} PROVE Rows(q)' = Rows(q)
    OBVIOUS
  <2>1. \A j \in StoredKeys(q) : stored'[j] = stored[j]
    BY <1>1, <1>2 DEF StoredKeys, TypeOK
  <2>2. QED
    BY <1>3, <2>1 DEF Rows
<1>5. StoredKeys(p) = {}
  BY <1>1 DEF StoredKeys, PostParts, StoredInv
<1>6. StoredKeys(p)' = {k}
  BY <1>1, <1>2, <1>5 DEF StoredKeys, TypeOK
<1>7. Rows(p) = {}
  BY <1>5 DEF Rows
<1>8. Rows(p)' = {<<k, 1>>}
  <2>1. stored'[k] = 1
    BY <1>1, <1>2 DEF TypeOK
  <2>2. {<<k, i>> : i \in 1 .. stored'[k]} = {<<k, 1>>}
    BY <2>1
  <2>3. QED
    BY <1>6, <2>2 DEF Rows
<1>9. \A q \in Posters : Outcome(q)' = Outcome(q)
  BY <1>2 DEF Outcome
<1>10. Once!Store(p)
  <2>1. <<k, 1>> \in Keys \X {1}
    BY <1>1
  <2>2. [q \in Posters |-> Rows(q)]' =
          [[q \in Posters |-> Rows(q)] EXCEPT ![p] = {<<k, 1>>}]
    <3>1. \A q \in Posters : Rows(q)' = IF q = p THEN {<<k, 1>>} ELSE Rows(q)
      <4>1. ASSUME NEW q \in Posters, q = p PROVE Rows(q)' = {<<k, 1>>}
        BY <4>1, <1>8
      <4>2. QED
        BY <4>1, <1>4
    <3> HIDE DEF k
    <3>2. QED
      BY <3>1
  <2>3. [q \in Posters |-> Outcome(q)]' = [q \in Posters |-> Outcome(q)]
    BY <1>9
  <2>4. QED
    BY <1>1, <1>7, <2>1, <2>2, <2>3 DEF Once!Store
<1>11. QED
  BY <1>1, <1>10 DEF Once!Next

LEMMA StepMaps ==
    ASSUME TypeOK, TypeOK', PostInv, PostInv', losses = 0, losses' = 0,
           [Next]_vars
    PROVE  Once!Next \/ UNCHANGED Mapped
<1> USE DEF timeVars, linkVars, keyVars, serverVars
<1>0. PostParts /\ PostParts'
  BY DEF PostInv
<1>1. ASSUME NEW p \in Posters, Client(p)
      PROVE  Once!Next \/ UNCHANGED Mapped
  <2>1. call[p].phase \notin {"ok", "failed"}
    BY <1>1 DEF Client, StartPost, Send, SendRefused, SendDue, Timeout,
         WaitOver, AckAdvances, AckRestarts, AckFails, Hears
  <2>2. stored' = stored
    BY <1>1 DEF Client, StartPost, Send, SendRefused, Timeout, AckAdvances,
         AckRestarts, AckFails
  <2>3. \A q \in Posters \ {p} : call'[q] = call[q]
    BY <1>1 DEF Client, StartPost, Send, SendRefused, Timeout, AckAdvances,
         AckRestarts, AckFails, RetryOrGiveUp, Begin, TypeOK, CallsTyped
  <2>4. ASSUME NEW k \in Keys, owner'[k] # owner[k] PROVE ~(stored[k] > 0)
    <3>1. drawn[k] = Never
      BY <1>1, <2>4 DEF Client, StartPost, Send, SendRefused, Timeout,
           AckAdvances, AckRestarts, AckFails, Begin, TypeOK
    <3>2. QED
      BY <3>1, <1>0, TimingFacts DEF PostParts, FreshInv
  <2>5. QED
    BY <1>0, <2>1, <2>2, <2>3, <2>4, ClientMaps
<1>2. ASSUME UNCHANGED <<stored, owner, call>>
      PROVE  UNCHANGED Mapped
  <2>1. \A p \in Posters : Rows(p)' = Rows(p) /\ Outcome(p)' = Outcome(p)
    BY <1>2, RowsSame DEF Outcome
  <2>2. QED
    BY <2>1 DEF Mapped, Once!vars
<1>3. ASSUME NEW m \in reqs, HandlePost(m)
      PROVE  Once!Next \/ UNCHANGED Mapped
  <2>1. ASSUME NEW crc \in BOOLEAN, Commit(m, crc) PROVE Once!Next
    BY <1>0, <2>1, CommitMaps
  <2>2. CASE \A crc \in BOOLEAN : ~Commit(m, crc)
    BY <1>2, <1>3, <2>2 DEF HandlePost, Deny, AckCommitted, TooManyOpen,
         UploadUnknown, AcceptPartial, ChecksumFails, CommitRejected, Keep,
         Answer
  <2>3. QED
    BY <2>1, <2>2
<1>4. CASE Restart \/ Tick \/ UNCHANGED vars
  BY <1>2, <1>4 DEF Restart, Tick, vars
<1>5. ASSUME NEW m \in reqs, NEW crc \in BOOLEAN, AppendRaises(m, crc)
      PROVE  FALSE
  BY <1>5 DEF AppendRaises
<1>6. QED
  BY <1>1, <1>3, <1>4, <1>5 DEF Next

NoLossYet == losses = 0

LEMMA InitMaps == Init => Once!Init
<1> SUFFICES ASSUME Init PROVE Once!Init
  OBVIOUS
<1>1. \A p \in Posters : Rows(p) = {}
  BY DEF Init, Rows, StoredKeys
<1>2. \A p \in Posters : Outcome(p) = "pending"
  BY DEF Init, Outcome
<1>3. QED
  BY <1>1, <1>2 DEF Once!Init

\* A server that never drops an upload gives posts the promise of PostOnce: at
\* most one row per post, and a confirmed success has its row.
THEOREM Refinement ==
    ASSUME MaxLosses = 0
    PROVE  Spec => ImplementsPostOnce
<1>1. Init => Once!Init
  BY InitMaps
<1>2. TypeOK /\ [Next]_vars /\ NoLossYet => NoLossYet'
  BY LossesChange DEF TypeOK, NoLossYet
<1>3. Init => NoLossYet
  BY DEF Init, NoLossYet
<1>4. Spec => []NoLossYet
  BY <1>2, <1>3, TypeCorrect, PTL DEF Spec
<1>5. /\ TypeOK /\ TypeOK' /\ PostInv /\ PostInv'
      /\ NoLossYet /\ NoLossYet' /\ [Next]_vars
      => [Once!Next]_(Once!vars)
  BY StepMaps DEF Mapped, NoLossYet
<1>6. QED
  BY <1>1, <1>4, <1>5, TypeCorrect, Invariant, PTL
     DEF Spec, ImplementsPostOnce, Once!Spec

-----------------------------------------------------------------------------
(* The limit of open uploads *)

LimitInv == IsFiniteSet(Open) /\ OpenWithinLimit

\* No step opens more than one upload, and one only where begin() has room.
LEMMA LimitStep ==
    ASSUME TypeOK, LimitInv, NEW k \in Keys, now' \in Nat, now' >= now,
           \A x \in Keys : x # k => started'[x] \in {started[x], Never},
           started'[k] \in {started[k], Never} \/ CanBegin(k)
    PROVE  LimitInv'
<1>1. ASSUME NEW x \in Keys, started'[x] \in {started[x], Never}, Live(x)'
      PROVE  x \in Open
  <2>1. started'[x] # Never /\ started'[x] = started[x]
    BY <1>1 DEF Live
  <2>2. now' - started[x] <= UploadTTL
    BY <1>1, <2>1 DEF Live
  <2>3. started[x] \in Nat /\ now \in Nat /\ UploadTTL \in Nat
    BY <2>1, PostConstants DEF TypeOK
  <2>4. now - started[x] <= UploadTTL
    BY <2>2, <2>3
  <2>5. QED
    BY <2>1, <2>4 DEF Live, Open
<1>2. Open' \subseteq Open \cup {k}
  BY <1>1 DEF Open
<1>3. ASSUME Open' \subseteq Open PROVE LimitInv'
  <2>1. IsFiniteSet(Open') /\ Cardinality(Open') <= Cardinality(Open)
    BY <1>3, FS_Subset DEF LimitInv
  <2>2. Cardinality(Open) \in Nat /\ Cardinality(Open') \in Nat
    BY <2>1, FS_CardinalityType DEF LimitInv
  <2>3. QED
    BY <2>1, <2>2, PostConstants DEF LimitInv, OpenWithinLimit
<1>4. CASE started'[k] \in {started[k], Never} \/ k \in Open
  BY <1>1, <1>2, <1>3, <1>4 DEF Open
<1>5. CASE Cardinality(Open) < MaxOpen /\ k \notin Open
  <2>1. /\ IsFiniteSet(Open \cup {k})
        /\ Cardinality(Open \cup {k}) = Cardinality(Open) + 1
    BY <1>5, FS_AddElement DEF LimitInv
  <2>2. IsFiniteSet(Open') /\ Cardinality(Open') <= Cardinality(Open) + 1
    BY <1>2, <2>1, FS_Subset
  <2>3. Cardinality(Open) \in Nat /\ Cardinality(Open') \in Nat
    BY <2>2, FS_CardinalityType DEF LimitInv
  <2>4. QED
    BY <1>5, <2>2, <2>3, PostConstants DEF LimitInv, OpenWithinLimit
<1>6. QED
  BY <1>4, <1>5 DEF CanBegin, Open

\* The uploads held open never exceed max_open: a chunk 0 that is sent again
\* needs no second place, and a restart of the server frees them all.
THEOREM LimitHolds == Spec => []OpenWithinLimit
<1>1. Init => LimitInv
  <2> SUFFICES ASSUME Init PROVE LimitInv
    OBVIOUS
  <2>1. Open = {}
    BY DEF Init, Open, Live
  <2>2. QED
    BY <2>1, FS_EmptySet, PostConstants DEF LimitInv, OpenWithinLimit
<1>2. TypeOK /\ TypeOK' /\ LimitInv /\ [Next]_vars => LimitInv'
  <2> SUFFICES ASSUME TypeOK, TypeOK', LimitInv, [Next]_vars PROVE LimitInv'
    OBVIOUS
  <2>1. ASSUME started' = started, now' = now PROVE LimitInv'
    BY <2>1 DEF LimitInv, OpenWithinLimit, Open, Live
  <2>2. ASSUME NEW p \in Posters, Client(p) PROVE LimitInv'
    BY <2>1, <2>2 DEF Client, StartPost, Send, SendRefused, Timeout, AckAdvances,
         AckRestarts, AckFails, timeVars, serverVars
  <2>3. ASSUME NEW m \in reqs, HandlePost(m) PROVE LimitInv'
    <3>1. m.key \in Keys /\ now' = now
      BY <2>3 DEF TypeOK, Req, HandlePost, Deny, AckCommitted, TooManyOpen,
           UploadUnknown, AcceptPartial, ChecksumFails, Commit, CommitRejected, Answer
    <3>2. ASSUME started' = started PROVE LimitInv'
      BY <3>1, <3>2, <2>1
    <3>3. ASSUME NEW crc \in BOOLEAN, Accepts(m, crc),
                 Keep(m, crc) \/ Assembled(m, crc)
          PROVE  LimitInv'
      <4>1. CanBegin(m.key)
        BY <3>3 DEF Accepts, CanBegin
      <4>2. \A x \in Keys : x # m.key => started'[x] = started[x]
        BY <3>1, <3>3 DEF Keep, Assembled, TypeOK
      <4>3. now' \in Nat /\ now' >= now
        BY <3>1 DEF TypeOK
      <4>4. QED
        BY <3>1, <4>1, <4>2, <4>3, LimitStep
    <3>4. QED
      BY <2>3, <3>2, <3>3 DEF HandlePost, Deny, AckCommitted, TooManyOpen,
           UploadUnknown, AcceptPartial, ChecksumFails, Commit, CommitRejected,
           Assembled
  <2>4. CASE Restart
    <3>1. Open' = {}
      BY <2>4 DEF Restart, Open, Live
    <3>2. QED
      BY <3>1, FS_EmptySet, PostConstants DEF LimitInv, OpenWithinLimit
  <2>5. CASE Tick
    <3>1. started' = started /\ now' \in Nat /\ now' >= now
      BY <2>5 DEF Tick, serverVars, TypeOK
    <3>2. CASE Keys = {}
      <4>1. Open' = {}
        BY <3>2 DEF Open
      <4>2. QED
        BY <4>1, FS_EmptySet, PostConstants DEF LimitInv, OpenWithinLimit
    <3>3. ASSUME NEW k \in Keys PROVE LimitInv'
      BY <3>1, <3>3, LimitStep
    <3>4. QED
      BY <3>2, <3>3
  <2>6. CASE UNCHANGED vars
    BY <2>1, <2>6 DEF vars
  <2>7. ASSUME NEW m \in reqs, NEW crc \in BOOLEAN, AppendRaises(m, crc)
        PROVE  LimitInv'
    <3>1. m.key \in Keys /\ now' = now /\ now \in Nat
      BY <2>7 DEF TypeOK, Req, AppendRaises
    <3>2. CanBegin(m.key)
      BY <2>7 DEF AppendRaises, Assembled, Accepts, CanBegin
    <3>3. \A x \in Keys : x # m.key => started'[x] = started[x]
      BY <2>7, <3>1 DEF AppendRaises, Assembled, TypeOK
    <3>4. QED
      BY <3>1, <3>2, <3>3, LimitStep
  <2>8. QED
    BY <2>2, <2>3, <2>4, <2>5, <2>6, <2>7 DEF Next
<1>3. LimitInv => OpenWithinLimit
  BY DEF LimitInv
<1>4. QED
  BY <1>1, <1>2, <1>3, TypeCorrect, PTL DEF Spec
=============================================================================
