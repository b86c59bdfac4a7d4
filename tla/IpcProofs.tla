------------------------------ MODULE IpcProofs ------------------------------
(***************************************************************************)
(* Proofs about an IPC connection, for any set of requests, any number of  *)
(* events and any capacities of the bus and of the socket.                 *)
(***************************************************************************)
EXTENDS Ipc, SequenceTheorems, WellFoundedInduction, TLAPS

\* What the socket or the client's queue holds for the client.
Frames == {Reply(r) : r \in Reqs} \cup {Event(n) : n \in 0 .. MaxEvents}

\* The waiters of a connection that is being declared dead: none of them will look
\* at its oneshot any more (the second check of `dead` in Client::request).
Settled == dead /\ \A r \in Range(pending) : call[r] # "waiting"

\* What the daemon has not answered yet, oldest first.
Ahead ==
  (IF current = None THEN <<>> ELSE <<current>>)
    \o up
    \o (IF lock = None THEN <<>> ELSE <<lock>>)

\* Until then the queue of waiters starts with the replies on their way, and goes
\* on with what the daemon has not answered for as long as it runs.
Aligned ==
  \/ Settled
  \/ \E rest \in Seq(Reqs) : /\ pending = Replies(down) \o rest
                             /\ Open => rest = Ahead

\* An answer is the answer to its request.
AnswerTo(r, value) == value \in {None, Failed} \/ (value = r /\ r \in handled)

\* What a call will return from its oneshot is meant for it.
SlotsAreSound ==
  \A r \in Reqs : (call[r] = "waiting" \/ ~dead) => AnswerTo(r, slot[r])

\* Where a request is fits with where its call is, and it is in one place.
CallsAreSound ==
  /\ \A r \in Reqs :
       /\ call[r] \in {"idle", "locking", "writing"} =>
            r \notin Range(up) /\ r # current /\ r \notin handled
       /\ call[r] = "writing" <=> lock = r
       /\ call[r] = "draining" => dead
       /\ result[r] = None <=> call[r] # "returned"
       /\ AnswerTo(r, result[r])
  /\ reader # "up" => dead
  /\ reader = "gone" => Settled

\* A request is handled once: it is on the wire or in the handler's hands at most
\* once, and not there any more when it has been handled.
HandledOnce ==
  /\ \A i, j \in DOMAIN up : up[i] = up[j] => i = j
  /\ \A i \in DOMAIN up : up[i] # current /\ up[i] \notin handled
  /\ current # None => current \notin handled
  /\ current # None <=> session = "busy"
  /\ \A i \in DOMAIN down : down[i].kind = "reply" => down[i].of \in handled

\* The inductive invariant.
IInv ==
  /\ TypeOK
  /\ CallsAreSound
  /\ HandledOnce
  /\ SlotsAreSound
  /\ Aligned

-----------------------------------------------------------------------------
(* The replies among the frames.                                           *)

\* A set of natural numbers that is not empty has a least element.
LEMMA LeastNatural ==
  ASSUME NEW S, S \subseteq Nat, S # {}
  PROVE  \E k \in S : \A j \in S : k <= j
<1>1. PICK x \in S : \A y \in S : ~ (<<y, x>> \in OpToRel(<, Nat))
  BY WFMin, NatLessThanWellFounded, Zenon
<1>2. \A y \in S : ~ (<<y, x>> \in OpToRel(<, Nat)) => x <= y
  BY DEF OpToRel
<1> QED BY <1>1, <1>2, Zenon

\* What Replies computes: the recursion goes over the frames from the first.
RepliesUpTo(s, f, n) ==
  IF n = 0 THEN <<>>
  ELSE IF s[n].kind = "reply" THEN Append(f[n - 1], s[n].of) ELSE f[n - 1]

\* f holds the replies of each of the first k prefixes of s.
Counts(s, f, k) == f = [n \in 0 .. k |-> RepliesUpTo(s, f, n)]

\* The recursion is defined on every sequence.
LEMMA RepliesDefined ==
  ASSUME NEW s \in Seq(Frames)
  PROVE  \E f : Counts(s, f, Len(s)) /\ Replies(s) = f[Len(s)]
<1> DEFINE Undefined == {k \in Nat : ~\E f : Counts(s, f, k)}
<1>1. Undefined = {}
  <2>1. SUFFICES ASSUME Undefined # {} PROVE FALSE
    OBVIOUS
  <2>2. PICK k \in Undefined : \A m \in Undefined : k <= m
    <3> HIDE DEF Undefined
    <3>1. Undefined \in SUBSET Nat
      BY DEF Undefined
    <3> QED BY <2>1, <3>1, LeastNatural
  <2>3. k \in Nat
    OBVIOUS
  <2>4. k # 0
    <3>1. Counts(s, [n \in 0 .. 0 |-> <<>>], 0)
      BY DEF Counts, RepliesUpTo
    <3> QED BY <2>2, <3>1
  <2>5. PICK f : Counts(s, f, k - 1)
    <3>1. k - 1 \in Nat /\ ~(k <= k - 1)
      BY <2>3, <2>4
    <3> QED BY <2>2, <3>1
  <2>6. \E g : Counts(s, g, k)
    <3> DEFINE g == [n \in 0 .. k |-> IF n = k THEN RepliesUpTo(s, f, k) ELSE f[n]]
    <3>1. ASSUME NEW n \in 0 .. k PROVE g[n] = RepliesUpTo(s, g, n)
      <4>1. CASE n = k
        <5>1. g[n] = RepliesUpTo(s, f, k) /\ k - 1 \in 0 .. k /\ g[k - 1] = f[k - 1]
          BY <2>3, <2>4, <4>1
        <5> HIDE DEF g
        <5> QED BY <4>1, <5>1 DEF RepliesUpTo
      <4>2. CASE n # k
        <5>1. n \in 0 .. k - 1 /\ g[n] = f[n]
          BY <2>3, <4>2
        <5>2. f[n] = RepliesUpTo(s, f, n)
          BY <2>5, <5>1 DEF Counts
        <5>3. n # 0 => n - 1 \in 0 .. k /\ n - 1 # k /\ g[n - 1] = f[n - 1]
          BY <2>3, <5>1
        <5> HIDE DEF g
        <5> QED BY <5>1, <5>2, <5>3 DEF RepliesUpTo
      <4> QED BY <4>1, <4>2
    <3>2. g = [n \in 0 .. k |-> g[n]]
      OBVIOUS
    <3> HIDE DEF g
    <3>3. Counts(s, g, k)
      BY <3>1, <3>2 DEF Counts
    <3> QED BY <3>3
  <2> QED BY <2>2, <2>6
<1>2. Len(s) \in Nat
  OBVIOUS
<1>3. \E f : Counts(s, f, Len(s))
  BY <1>1, <1>2
<1> QED BY <1>3, Zenon DEF Replies, Counts, RepliesUpTo

\* No frames, no replies.
LEMMA RepliesEmpty == Replies(<<>>) = <<>>
<1>1. PICK f : Counts(<<>>, f, Len(<<>>)) /\ Replies(<<>>) = f[Len(<<>>)]
  BY RepliesDefined, EmptySeq
<1> QED BY <1>1 DEF Counts, RepliesUpTo

\* One more frame adds its reply, if it is one.
LEMMA RepliesAppend ==
  ASSUME NEW s \in Seq(Frames), NEW frame \in Frames
  PROVE  Replies(Append(s, frame)) =
           IF frame.kind = "reply" THEN Append(Replies(s), frame.of) ELSE Replies(s)
<1> DEFINE t == Append(s, frame)
<1>1. /\ t \in Seq(Frames) /\ Len(t) = Len(s) + 1 /\ Len(s) \in Nat /\ t[Len(t)] = frame
      /\ \A n \in 1 .. Len(s) : t[n] = s[n]
  BY AppendProperties
<1> HIDE DEF t
<1>2. PICK f : Counts(s, f, Len(s)) /\ Replies(s) = f[Len(s)]
  BY RepliesDefined
<1>3. PICK g : Counts(t, g, Len(t)) /\ Replies(t) = g[Len(t)]
  BY <1>1, RepliesDefined
<1>4. \A n \in 0 .. Len(s) : f[n] = RepliesUpTo(s, f, n)
  BY <1>2 DEF Counts
<1>5. \A n \in 0 .. Len(t) : g[n] = RepliesUpTo(t, g, n)
  BY <1>3 DEF Counts
<1> DEFINE Differ == {n \in 0 .. Len(s) : f[n] # g[n]}
<1>6. Differ = {}
  <2>1. SUFFICES ASSUME Differ # {} PROVE FALSE
    OBVIOUS
  <2>2. PICK k \in Differ : \A m \in Differ : k <= m
    <3>1. Differ \subseteq Nat
      BY <1>1
    <3> HIDE DEF Differ
    <3> QED BY <2>1, <3>1, LeastNatural
  <2>3. k \in 0 .. Len(s) /\ k \in 0 .. Len(t) /\ f[k] # g[k]
    BY <1>1
  <2>4. k = 0 \/ (k - 1 \in 0 .. Len(s) /\ f[k - 1] = g[k - 1] /\ t[k] = s[k])
    <3>1. CASE k # 0
      <4>1. k - 1 \in 0 .. Len(s) /\ ~(k <= k - 1) /\ k \in 1 .. Len(s)
        BY <1>1, <2>3, <3>1
      <4> QED BY <1>1, <2>2, <4>1
    <3> QED BY <3>1
  <2> HIDE DEF Differ
  <2>5. f[k] = RepliesUpTo(s, f, k) /\ g[k] = RepliesUpTo(t, g, k)
    BY <1>4, <1>5, <2>3
  <2> QED BY <2>3, <2>4, <2>5 DEF RepliesUpTo
<1>7. f[Len(s)] = g[Len(s)]
  BY <1>1, <1>6
<1>8. g[Len(t)] = RepliesUpTo(t, g, Len(t))
  BY <1>1, <1>5
<1>9. Len(t) # 0 /\ Len(t) - 1 = Len(s)
  BY <1>1
<1> QED BY <1>1, <1>2, <1>3, <1>7, <1>8, <1>9 DEF RepliesUpTo, t

\* Frames name requests.
LEMMA FrameFields ==
  ASSUME NEW frame \in Frames
  PROVE  /\ frame.kind \in {"reply", "event"}
         /\ frame.kind = "reply" => frame.of \in Reqs
         /\ frame.kind = "event" => frame.n \in 0 .. MaxEvents
BY DEF Frames, Reply, Event

\* Appending after a concatenation.
LEMMA CatAppend ==
  ASSUME NEW S, NEW s \in Seq(S), NEW t \in Seq(S), NEW e \in S
  PROVE  s \o Append(t, e) = Append(s \o t, e)
<1>1. /\ Append(t, e) = t \o <<e>> /\ Append(s \o t, e) = (s \o t) \o <<e>>
      /\ <<e>> \in Seq(S)
  BY AppendIsConcat, ConcatProperties
<1> QED BY <1>1, ConcatAssociative

\* The replies of two runs of frames are those of the first and those of the second.
LEMMA RepliesConcat ==
  ASSUME NEW s \in Seq(Frames), NEW t \in Seq(Frames),
         Replies(s) \in Seq(Reqs)
  PROVE  /\ Replies(t) \in Seq(Reqs)
         /\ Replies(s \o t) = Replies(s) \o Replies(t)
<1> DEFINE P(n) == /\ Replies(SubSeq(t, 1, n)) \in Seq(Reqs)
                   /\ Replies(s \o SubSeq(t, 1, n)) = Replies(s) \o Replies(SubSeq(t, 1, n))
           Wrong == {n \in 0 .. Len(t) : ~P(n)}
<1>1. Len(t) \in Nat
  OBVIOUS
<1>2. P(0)
  <2>1. SubSeq(t, 1, 0) = <<>>
    BY SubSeqEmpty
  <2>2. s \o <<>> = s /\ Replies(s) \o <<>> = Replies(s) /\ <<>> \in Seq(Reqs)
    BY ConcatEmptySeq, EmptySeq
  <2> QED BY <2>1, <2>2, RepliesEmpty
<1>3. ASSUME NEW n \in 1 .. Len(t), P(n - 1) PROVE P(n)
  <2> DEFINE u == SubSeq(t, 1, n - 1)
  <2>1. u \in Seq(Frames) /\ t[n] \in Frames /\ SubSeq(t, 1, n) = Append(u, t[n])
    <3>1. u \in Seq(Frames)
      BY <1>1, SubSeqProperties
    <3>2. t[n] \in Frames
      BY <1>1, ElementOfSeq
    <3>3. SubSeq(t, 1, n) = Append(u, t[n])
      BY <1>1, SubSeqRecursiveSecond
    <3> QED BY <3>1, <3>2, <3>3, Zenon
  <2>2. Replies(u) \in Seq(Reqs) /\ Replies(s \o u) = Replies(s) \o Replies(u)
    BY <1>3
  <2> HIDE DEF u
  <2>3. s \o Append(u, t[n]) = Append(s \o u, t[n]) /\ s \o u \in Seq(Frames)
    BY <2>1, CatAppend, ConcatProperties
  <2>4. CASE t[n].kind = "reply"
    <3>1. /\ Replies(Append(u, t[n])) = Append(Replies(u), t[n].of)
          /\ Replies(Append(s \o u, t[n])) = Append(Replies(s \o u), t[n].of)
          /\ t[n].of \in Reqs
      BY <2>1, <2>3, <2>4, RepliesAppend, FrameFields
    <3>2. Append(Replies(u), t[n].of) \in Seq(Reqs)
      BY <2>2, <3>1, AppendProperties, Zenon
    <3>3. Replies(s) \o Append(Replies(u), t[n].of) = Append(Replies(s) \o Replies(u), t[n].of)
      <4>1. \A a, b \in Seq(Reqs), e \in Reqs : a \o Append(b, e) = Append(a \o b, e)
        BY CatAppend
      <4> QED BY <2>2, <3>1, <4>1, Zenon
    <3> QED BY <2>1, <2>2, <2>3, <3>1, <3>2, <3>3, Zenon
  <2>5. CASE t[n].kind # "reply"
    <3>1. /\ Replies(Append(u, t[n])) = Replies(u)
          /\ Replies(Append(s \o u, t[n])) = Replies(s \o u)
      BY <2>1, <2>3, <2>5, RepliesAppend
    <3> QED BY <2>1, <2>2, <2>3, <3>1, Zenon
  <2> QED BY <2>4, <2>5
<1> HIDE DEF P
<1>4. Wrong = {}
  <2>1. SUFFICES ASSUME Wrong # {} PROVE FALSE
    OBVIOUS
  <2>2. PICK k \in Wrong : \A m \in Wrong : k <= m
    <3>1. Wrong \subseteq Nat
      BY <1>1
    <3> HIDE DEF Wrong
    <3> QED BY <2>1, <3>1, LeastNatural
  <2>3. k \in 1 .. Len(t) /\ ~P(k)
    BY <1>1, <1>2
  <2>4. P(k - 1)
    BY <1>1, <2>2, <2>3
  <2> QED BY <1>3, <2>3, <2>4
<1>5. P(Len(t))
  BY <1>1, <1>4
<1>6. SubSeq(t, 1, Len(t)) = t
  BY SubSeqFull
<1> QED BY <1>5, <1>6 DEF P

\* Replies are for requests.
LEMMA RepliesType == ASSUME NEW s \in Seq(Frames) PROVE Replies(s) \in Seq(Reqs)
<1>1. <<>> \in Seq(Frames) /\ <<>> \in Seq(Reqs)
  BY EmptySeq
<1> QED BY <1>1, RepliesEmpty, RepliesConcat

\* The first frame's reply comes first.
LEMMA RepliesFirst ==
  ASSUME NEW s \in Seq(Frames), s # <<>>
  PROVE  Replies(s) = IF Head(s).kind = "reply" THEN <<Head(s).of>> \o Replies(Tail(s))
                                                ELSE Replies(Tail(s))
<1>1. /\ Head(s) \in Frames /\ Tail(s) \in Seq(Frames)
      /\ <<Head(s)>> = Append(<<>>, Head(s)) /\ <<Head(s)>> \in Seq(Frames)
      /\ <<>> \in Seq(Frames) /\ <<>> \in Seq(Reqs)
  BY HeadTailProperties, EmptySeq
<1>2. s = <<Head(s)>> \o Tail(s)
  <2>1. Len(s) \in 1 .. Len(s) /\ 1 \in 1 .. Len(s) /\ Head(s) = s[1]
    BY EmptySeq
  <2>2. SubSeq(s, 1, Len(s)) = <<s[1]>> \o SubSeq(s, 1 + 1, Len(s))
    BY <2>1, SubSeqRecursiveFirst
  <2> QED BY <2>1, <2>2, SubSeqFull, TailIsSubSeq
<1>3. Replies(<<Head(s)>>) = IF Head(s).kind = "reply" THEN <<Head(s).of>> ELSE <<>>
  <2>1. Append(<<>>, Head(s).of) = <<Head(s).of>>
    OBVIOUS
  <2> QED BY <1>1, <2>1, RepliesAppend, RepliesEmpty, Zenon
<1>4. Replies(s) = Replies(<<Head(s)>>) \o Replies(Tail(s))
  BY <1>1, <1>2, RepliesConcat, RepliesType, Zenon
<1>5. <<>> \o Replies(Tail(s)) = Replies(Tail(s))
  BY <1>1, RepliesType, ConcatEmptySeq
<1> QED BY <1>3, <1>4, <1>5, Zenon

\* What the socket had taken when the daemon stopped has the first replies.
LEMMA RepliesPrefix ==
  ASSUME NEW s \in Seq(Frames), NEW i \in 0 .. Len(s)
  PROVE  /\ SubSeq(s, 1, i) \in Seq(Frames)
         /\ \E more \in Seq(Reqs) : Replies(s) = Replies(SubSeq(s, 1, i)) \o more
<1>1. Len(s) \in Nat
  OBVIOUS
<1>2. \A k \in 1 .. Len(s) : s[k] \in Frames
  BY ElementOfSeq
<1>3. SubSeq(s, 1, i) \in Seq(Frames) /\ SubSeq(s, i + 1, Len(s)) \in Seq(Frames)
  BY <1>1, <1>2, SubSeqProperties
<1>4. s = SubSeq(s, 1, i) \o SubSeq(s, i + 1, Len(s))
  <2>1. 1 \in 1 .. Len(s) + 1 /\ i \in 1 - 1 .. Len(s) /\ Len(s) \in i .. Len(s)
    BY <1>1
  <2>2. SubSeq(s, 1, i) \o SubSeq(s, i + 1, Len(s)) = SubSeq(s, 1, Len(s))
    BY <2>1, ConcatAdjacentSubSeq, Zenon
  <2> QED BY <2>2, SubSeqFull, Zenon
<1>5. Replies(s) = Replies(SubSeq(s, 1, i)) \o Replies(SubSeq(s, i + 1, Len(s)))
  BY <1>3, <1>4, RepliesConcat, RepliesType, Zenon
<1> QED BY <1>3, <1>5, RepliesType, Zenon

-----------------------------------------------------------------------------
(* Types.                                                                  *)

\* A frame pushed to the client is queued, or lost if nobody reads it.
LEMMA PushType ==
  ASSUME TypeOK, NEW frame \in Frames, Push(frame)
  PROVE  down' \in Seq(Frames)
BY AppendProperties DEF TypeOK, Push, Frames

\* The queues hold what their types say.
LEMMA QueueTypes ==
  ASSUME TypeOK
  PROVE  /\ down \in Seq(Frames) /\ up \in Seq(Reqs) /\ pending \in Seq(Reqs)
         /\ bus \in Seq(1 .. MaxEvents) /\ seen \in Seq(0 .. MaxEvents)
         /\ published \in Nat /\ MaxEvents \in Nat
BY IpcAssumption DEF TypeOK, Frames

\* Draining the waiters leaves oneshots and an empty queue.
LEMMA DrainType ==
  ASSUME TypeOK, Drain
  PROVE  slot' \in [Reqs -> Reqs \cup {None, Failed}] /\ pending' \in Seq(Reqs)
BY EmptySeq DEF TypeOK, Drain

\* A request that goes on keeps the types.
LEMMA RequestType ==
  ASSUME TypeOK, NEW r \in Reqs, Request(r)
  PROVE  TypeOK'
<1> USE DEF calls, client, daemon, events
<1>1. CASE Begin(r)
  BY <1>1 DEF TypeOK, Begin, Return, Goto
<1>2. CASE Enqueue(r)
  BY <1>2, AppendProperties DEF TypeOK, Enqueue, Goto
<1>3. CASE Write(r)
  <2>1. up' \in Seq(Reqs)
    <3>1. up' = up \/ up' = Append(up, r)
      BY <1>3, Zenon DEF Write
    <3>2. up \in Seq(Reqs) /\ Append(up, r) \in Seq(Reqs)
      BY QueueTypes
    <3> QED BY <3>1, <3>2, Zenon
  <2> QED BY <1>3, <2>1 DEF TypeOK, Write, Goto
<1>4. CASE Recheck(r)
  BY <1>4 DEF TypeOK, Recheck, Return, Goto
<1>5. CASE Receive(r)
  BY <1>5 DEF TypeOK, Receive, Return, Goto
<1>6. CASE TimesOut(r)
  BY <1>6 DEF TypeOK, TimesOut, Goto
<1>7. CASE FailAll(r)
  <2>1. CASE call[r] = "failing"
    <3>1. UNCHANGED <<slot, result, lock, pending, reader, seen, up, daemon, down, events>>
      BY <1>7, <2>1 DEF FailAll
    <3>2. call' = [call EXCEPT ![r] = "draining"] /\ dead' \in BOOLEAN
      BY <1>7, <2>1 DEF FailAll, MarkDead, Goto
    <3> QED BY <3>1, <3>2 DEF TypeOK
  <2>2. CASE call[r] = "draining"
    <3>1. UNCHANGED <<lock, dead, reader, seen, up, daemon, down, events>>
      BY <1>7, <2>2 DEF FailAll
    <3>2. /\ call' = [call EXCEPT ![r] = "returned"]
          /\ result' = [result EXCEPT ![r] = Failed] /\ Drain
      BY <1>7, <2>2 DEF FailAll, Return, Goto
    <3>3. slot' \in [Reqs -> Reqs \cup {None, Failed}] /\ pending' \in Seq(Reqs)
      BY <3>2, DrainType
    <3> QED BY <3>1, <3>2, <3>3 DEF TypeOK
  <2> QED BY <1>7, <2>1, <2>2 DEF FailAll
<1> QED BY <1>1, <1>2, <1>3, <1>4, <1>5, <1>6, <1>7 DEF Request

\* So do the reader task, the session, the bus and its relay.
LEMMA OthersType ==
  ASSUME TypeOK, HandledOnce, Reader \/ Session \/ DaemonStops \/ Publish \/ Relay
  PROVE  TypeOK'
<1> USE DEF calls, client, daemon, events
<1>1. CASE ReadEvent
  BY <1>1, HeadTailProperties, QueueTypes, FrameFields, AppendProperties DEF TypeOK, ReadEvent, Frames
<1>2. CASE ReadReply
  BY <1>2, HeadTailProperties, QueueTypes, FrameFields DEF TypeOK, ReadReply, Frames
<1>3. CASE ReaderStops
  <2>1. dead' \in BOOLEAN /\ reader' = "draining"
    BY <1>3 DEF ReaderStops
  <2> QED BY <1>3, <2>1 DEF TypeOK, ReaderStops
<1>12. CASE ReaderDrains
  <2>1. slot' \in [Reqs -> Reqs \cup {None, Failed}] /\ pending' \in Seq(Reqs)
    BY <1>12, DrainType DEF ReaderDrains
  <2> QED BY <1>12, <2>1 DEF TypeOK, ReaderDrains
<1>4. CASE Register
  BY <1>4 DEF TypeOK, Register
<1>5. CASE Greet
  <2>1. Hello \in Frames
    BY IpcAssumption DEF Hello, Frames
  <2>2. down' \in Seq(Frames)
    BY <1>5, <2>1, PushType DEF Greet
  <2> QED BY <1>5, <2>2 DEF TypeOK, Greet, Frames
<1>6. CASE ReadRequest
  BY <1>6, HeadTailProperties DEF TypeOK, ReadRequest
<1>7. CASE Respond
  <2>1. current \in Reqs
    BY <1>7 DEF Respond, HandledOnce, TypeOK
  <2>2. Reply(current) \in Frames
    BY <2>1 DEF Frames
  <2>3. down' \in Seq(Frames)
    BY <1>7, <2>2, PushType, QueueTypes DEF Respond
  <2> QED BY <1>7, <2>1, <2>3 DEF TypeOK, Respond, Frames
<1>8. CASE Hangup
  BY <1>8 DEF TypeOK, Hangup
<1>9. CASE DaemonStops
  <2>1. down' \in Seq(Frames)
    BY <1>9, QueueTypes, RepliesPrefix DEF DaemonStops
  <2> QED BY <1>9, <2>1 DEF TypeOK, DaemonStops, Frames
<1>10. CASE Publish
  <2>1. published + 1 \in 1 .. MaxEvents
    BY <1>10, QueueTypes DEF Publish
  <2>2. bus' \in Seq(1 .. MaxEvents)
    <3>1. CASE Len(bus) < BusCapacity
      <4>1. bus' = Append(bus, published + 1)
        BY <1>10, <3>1, Zenon DEF Publish
      <4> QED BY <2>1, <4>1, QueueTypes, AppendProperties, Zenon
    <3>2. CASE ~(Len(bus) < BusCapacity)
      <4>1. Len(bus) > 0
        BY <3>2, QueueTypes, IpcAssumption
      <4>2. Tail(bus) \in Seq(1 .. MaxEvents)
        BY <4>1, QueueTypes
      <4>3. bus' = Append(Tail(bus), published + 1)
        BY <1>10, <3>2, Zenon DEF Publish
      <4> QED BY <2>1, <4>2, <4>3, AppendProperties, Zenon
    <3> QED BY <3>1, <3>2
  <2>3. lagged' \in BOOLEAN
    BY <1>10, Zenon DEF Publish, TypeOK
  <2> QED BY <1>10, <2>1, <2>2, <2>3 DEF TypeOK, Publish
<1>11. CASE Relay
  <2>1. Head(bus) \in 1 .. MaxEvents /\ Tail(bus) \in Seq(1 .. MaxEvents)
    BY <1>11, QueueTypes, HeadTailProperties DEF Relay
  <2>2. Event(Head(bus)) \in Frames
    BY <2>1 DEF Frames
  <2>3. down' \in Seq(Frames)
    BY <1>11, <2>2, PushType, QueueTypes DEF Relay, OldestEvent
  <2> QED BY <1>11, <2>1, <2>3 DEF TypeOK, Relay, Frames
<1> QED BY <1>1, <1>2, <1>3, <1>4, <1>5, <1>6, <1>7, <1>8, <1>9, <1>10, <1>11,
           <1>12 DEF Reader, Session

-----------------------------------------------------------------------------
(* Waiters and answers.                                                    *)

\* The elements of the queues.
LEMMA RangeFacts ==
  ASSUME NEW S, NEW s \in Seq(S)
  PROVE  /\ Range(<<>>) = {}
         /\ \A e \in S : Range(Append(s, e)) = Range(s) \cup {e}
         /\ s # <<>> => Head(s) \in Range(s) /\ Range(s) = {Head(s)} \cup Range(Tail(s))
         /\ Range(s) \subseteq S
<1>1. Range(<<>>) = {}
  BY DEF Range
<1>2. ASSUME NEW e \in S PROVE Range(Append(s, e)) = Range(s) \cup {e}
  <2>1. /\ Len(s) \in Nat /\ DOMAIN s = 1 .. Len(s)
        /\ DOMAIN Append(s, e) = 1 .. Len(s) + 1
        /\ Append(s, e)[Len(s) + 1] = e
        /\ \A i \in 1 .. Len(s) : Append(s, e)[i] = s[i]
    OBVIOUS
  <2>2. ASSUME NEW x \in Range(Append(s, e)) PROVE x \in Range(s) \cup {e}
    <3>1. PICK i \in 1 .. Len(s) + 1 : x = Append(s, e)[i]
      BY <2>1, <2>2 DEF Range
    <3>2. i \in 1 .. Len(s) \/ i = Len(s) + 1
      BY <2>1
    <3> QED BY <2>1, <3>1, <3>2, Zenon DEF Range
  <2>3. ASSUME NEW x \in Range(s) PROVE x \in Range(Append(s, e))
    <3>1. PICK i \in 1 .. Len(s) : x = s[i]
      BY <2>1, <2>3 DEF Range
    <3>2. i \in 1 .. Len(s) + 1
      BY <2>1
    <3> QED BY <2>1, <3>1, <3>2, Zenon DEF Range
  <2>4. e \in Range(Append(s, e))
    <3>1. Len(s) + 1 \in 1 .. Len(s) + 1
      BY <2>1
    <3> QED BY <2>1, <3>1, Zenon DEF Range
  <2> QED BY <2>2, <2>3, <2>4, Zenon
<1>3. ASSUME s # <<>> PROVE Head(s) \in Range(s) /\ Range(s) = {Head(s)} \cup Range(Tail(s))
  <2>1. /\ Len(s) \in Nat /\ Len(s) > 0 /\ DOMAIN s = 1 .. Len(s) /\ Head(s) = s[1]
        /\ DOMAIN Tail(s) = 1 .. Len(s) - 1
        /\ \A i \in 1 .. Len(s) - 1 : Tail(s)[i] = s[i + 1]
    BY <1>3
  <2>2. ASSUME NEW x \in Range(s) PROVE x = Head(s) \/ x \in Range(Tail(s))
    <3>1. PICK i \in 1 .. Len(s) : x = s[i]
      BY <2>1, <2>2 DEF Range
    <3>2. CASE i = 1
      BY <2>1, <3>1, <3>2
    <3>3. CASE i # 1
      <4>1. i - 1 \in 1 .. Len(s) - 1 /\ (i - 1) + 1 = i
        BY <2>1, <3>3
      <4> QED BY <2>1, <3>1, <4>1, Zenon DEF Range
    <3> QED BY <3>2, <3>3
  <2>3. ASSUME NEW x \in Range(Tail(s)) PROVE x \in Range(s)
    <3>1. PICK i \in 1 .. Len(s) - 1 : x = s[i + 1]
      BY <2>1, <2>3 DEF Range
    <3> QED BY <2>1, <3>1 DEF Range
  <2>4. Head(s) \in Range(s)
    BY <2>1 DEF Range
  <2> QED BY <2>2, <2>3, <2>4, Zenon
<1>4. Range(s) \subseteq S
  BY DEF Range
<1> QED BY <1>1, <1>2, <1>3, <1>4

\* No waiter looks at its oneshot any more: that stays so.
LEMMA SettledStays ==
  ASSUME TypeOK, Settled, [Next]_vars
  PROVE  Settled'
<1> USE DEF calls, client, daemon, events
<1>1. /\ Range(<<>>) = {}
      /\ \A r \in Reqs : Range(Append(pending, r)) = Range(pending) \cup {r}
      /\ pending # <<>> => Range(Tail(pending)) \subseteq Range(pending)
      /\ Range(pending) \subseteq Reqs
  BY QueueTypes, RangeFacts
<1>2. SUFFICES /\ dead'
               /\ \A x \in Range(pending') : x \in Range(pending) \/ call'[x] = "writing"
               /\ \A x \in Reqs : call'[x] = "waiting" => call[x] = "waiting"
  BY <1>1, Zenon DEF Settled
<1>3. dead
  BY DEF Settled
<1>4. CASE UNCHANGED vars
  BY <1>3, <1>4, Zenon DEF vars
<1>5. ASSUME NEW r \in Reqs, Request(r)
      PROVE  /\ dead'
             /\ \A x \in Range(pending') : x \in Range(pending) \/ call'[x] = "writing"
             /\ \A x \in Reqs : call'[x] = "waiting" => call[x] = "waiting"
  <2>1. PICK pc \in {"locking", "writing", "checking", "failing", "draining", "returned"} :
          call' = [call EXCEPT ![r] = pc] /\ (Enqueue(r) => pc = "writing")
    BY <1>3, <1>5 DEF Request, Begin, Enqueue, Write, Recheck, Receive, TimesOut, FailAll,
                      Return, Goto
  <2>2. \A x \in Reqs : call'[x] = IF x = r THEN pc ELSE call[x]
    BY <2>1 DEF TypeOK
  <2>3. dead'
    BY <1>3, <1>5 DEF Request, Begin, Enqueue, Write, Recheck, Receive, TimesOut, FailAll,
                      MarkDead
  <2>4. \/ pending' = pending \/ pending' = <<>>
        \/ Enqueue(r) /\ pending' = Append(pending, r)
    BY <1>5, Zenon DEF Request, Begin, Enqueue, Write, Recheck, Receive, TimesOut, FailAll,
                       Drain
  <2>5. \A x \in Range(pending') : x \in Range(pending) \/ call'[x] = "writing"
    <3>1. Enqueue(r) => call'[r] = "writing"
      BY <2>1, <2>2, Zenon
    <3>2. CASE pending' = pending \/ pending' = <<>>
      BY <1>1, <3>2, Zenon
    <3>3. CASE Enqueue(r) /\ pending' = Append(pending, r)
      <4>1. Range(pending') = Range(pending) \cup {r} /\ call'[r] = "writing"
        BY <1>1, <3>1, <3>3, Zenon
      <4> QED BY <4>1
    <3> QED BY <2>4, <3>2, <3>3, Zenon
  <2> QED BY <2>2, <2>3, <2>5
<1>6. CASE Reader
  <2>1. call' = call /\ dead'
    BY <1>3, <1>6, Zenon DEF Reader, ReadEvent, ReadReply, ReaderStops, ReaderDrains
  <2>2. pending' = pending \/ pending' = <<>> \/ (pending # <<>> /\ pending' = Tail(pending))
    BY <1>6, Zenon DEF Reader, ReadEvent, ReadReply, ReaderStops, ReaderDrains, Drain
  <2> QED BY <1>1, <2>1, <2>2, Zenon
<1>7. CASE Session \/ DaemonStops \/ Publish \/ Relay
  BY <1>3, <1>7, Zenon DEF Session, Register, Greet, ReadRequest, Respond, Hangup,
                           DaemonStops, Publish, Relay
<1> QED BY <1>4, <1>5, <1>6, <1>7, Zenon DEF Next

\* A call moves on, and nothing else of it changes.
LEMMA CallMoves ==
  ASSUME TypeOK, NEW r \in Reqs, NEW pc, Goto(r, pc)
  PROVE  \A x \in Reqs : call'[x] = IF x = r THEN pc ELSE call[x]
BY DEF TypeOK, Goto

\* A call returns.
LEMMA CallReturns ==
  ASSUME TypeOK, NEW r \in Reqs, NEW value, Return(r, value)
  PROVE  \A x \in Reqs : /\ call'[x] = IF x = r THEN "returned" ELSE call[x]
                         /\ result'[x] = IF x = r THEN value ELSE result[x]
BY DEF TypeOK, Return, Goto

\* What a step of a call has to keep of the calls, if it puts nothing on the wire.
LEMMA CallKept ==
  ASSUME IInv, Next, NEW r \in Reqs,
         UNCHANGED <<up, current, handled, session, reader>>,
         reader # "up" => dead', dead => dead',
         \A x \in Reqs \ {r} : /\ call'[x] = call[x] /\ result'[x] = result[x]
                               /\ lock' = x <=> lock = x,
         call'[r] \in {"locking", "writing"} => call[r] \in {"idle", "locking", "writing"},
         call'[r] # "idle",
         call'[r] = "writing" <=> lock' = r,
         call'[r] = "draining" => dead',
         result'[r] = None <=> call'[r] # "returned",
         AnswerTo(r, result'[r])
  PROVE  CallsAreSound'
<1>1. ASSUME NEW x \in Reqs
      PROVE  /\ call'[x] \in {"idle", "locking", "writing"} =>
                  x \notin Range(up)' /\ x # current' /\ x \notin handled'
             /\ call'[x] = "writing" <=> lock' = x
             /\ call'[x] = "draining" => dead'
             /\ result'[x] = None <=> call'[x] # "returned"
             /\ AnswerTo(x, result[x])'
  <2>1. /\ call[x] \in {"idle", "locking", "writing"} =>
             x \notin Range(up) /\ x # current /\ x \notin handled
        /\ call[x] = "writing" <=> lock = x
        /\ call[x] = "draining" => dead
        /\ result[x] = None <=> call[x] # "returned"
        /\ AnswerTo(x, result[x])
    BY Zenon DEF IInv, CallsAreSound
  <2>2. CASE x = r
    BY <2>1, <2>2 DEF AnswerTo, Range
  <2>3. CASE x # r
    BY <2>1, <2>3 DEF AnswerTo, Range
  <2> QED BY <2>2, <2>3
<1>2. reader' = "gone" => Settled'
  <2>1. TypeOK /\ (reader = "gone" => Settled)
    BY Zenon DEF IInv, CallsAreSound
  <2> QED BY <2>1, SettledStays, Zenon
<1>3. reader' # "up" => dead'
  OBVIOUS
<1> QED BY <1>1, <1>2, <1>3, Zenon DEF CallsAreSound

\* A oneshot that keeps its value, or is told that the connection is closed, is sound.
LEMMA SlotsKept ==
  ASSUME IInv, handled \subseteq handled',
         \A x \in Reqs : /\ slot'[x] = slot[x] \/ slot'[x] = Failed
                         /\ call'[x] = "waiting" \/ ~dead' => call[x] = "waiting" \/ ~dead
  PROVE  SlotsAreSound'
BY DEF IInv, SlotsAreSound, AnswerTo

\* A step of a call that leaves the wire alone.
LEMMA RequestCalls ==
  ASSUME IInv, NEW r \in Reqs,
         Begin(r) \/ Enqueue(r) \/ Recheck(r) \/ Receive(r) \/ TimesOut(r) \/ FailAll(r)
  PROVE  CallsAreSound' /\ HandledOnce' /\ SlotsAreSound'
<1> USE DEF calls, client, daemon, events
<1>1. TypeOK /\ Next
  BY Zenon DEF IInv, Next, Request
<1>2. /\ (reader # "up" => dead) /\ (call[r] = "draining" => dead) /\ Failed # None
      /\ call[r] = "writing" <=> lock = r
      /\ result[r] = None <=> call[r] # "returned"
      /\ call[r] = "waiting" \/ ~dead => AnswerTo(r, slot[r])
      /\ AnswerTo(r, result[r]) /\ AnswerTo(r, Failed) /\ None \notin Reqs
  BY IpcAssumption DEF IInv, CallsAreSound, SlotsAreSound, AnswerTo
<1>3. HandledOnce'
  <2>1. UNCHANGED <<up, current, handled, session, down>>
    BY Zenon DEF Begin, Enqueue, Recheck, Receive, TimesOut, FailAll
  <2> QED BY <2>1, Zenon DEF IInv, HandledOnce
<1>4. CASE Begin(r)
  <2>1. UNCHANGED <<slot, lock, pending, dead, reader, seen, up, current, handled, session>>
    BY <1>4, Zenon DEF Begin
  <2>2. /\ call[r] = "idle"
        /\ \/ Return(r, Failed) /\ dead
           \/ Goto(r, "locking") /\ result' = result
    BY <1>4 DEF Begin
  <2>3. CASE Return(r, Failed)
    <3>1. \A x \in Reqs : /\ call'[x] = IF x = r THEN "returned" ELSE call[x]
                          /\ result'[x] = IF x = r THEN Failed ELSE result[x]
      BY <1>1, <2>3, CallReturns
    <3>2. CallsAreSound'
      BY <1>1, <1>2, <2>1, <2>2, <3>1, CallKept
    <3>3. SlotsAreSound'
      BY <2>1, <2>2, <3>1, SlotsKept
    <3> QED BY <1>3, <3>2, <3>3
  <2>4. CASE Goto(r, "locking") /\ result' = result
    <3>1. \A x \in Reqs : call'[x] = IF x = r THEN "locking" ELSE call[x]
      BY <1>1, <2>4, CallMoves
    <3>2. CallsAreSound'
      BY <1>1, <1>2, <2>1, <2>2, <2>4, <3>1, CallKept
    <3>3. SlotsAreSound'
      BY <2>1, <2>2, <3>1, SlotsKept
    <3> QED BY <1>3, <3>2, <3>3
  <2> QED BY <2>2, <2>3, <2>4
<1>5. CASE Enqueue(r)
  <2>1. UNCHANGED <<slot, result, dead, reader, seen, up, current, handled, session>>
    BY <1>5, Zenon DEF Enqueue
  <2>2. call[r] = "locking" /\ lock = None /\ lock' = r /\ Goto(r, "writing") /\ r # None
    BY <1>2, <1>5, Zenon DEF Enqueue
  <2>3. \A x \in Reqs : call'[x] = IF x = r THEN "writing" ELSE call[x]
    BY <1>1, <2>2, CallMoves
  <2>4. CallsAreSound'
    BY <1>1, <1>2, <2>1, <2>2, <2>3, CallKept
  <2>5. SlotsAreSound'
    BY <2>1, <2>2, <2>3, SlotsKept
  <2> QED BY <1>3, <2>4, <2>5
<1>6. CASE Recheck(r)
  <2>1. UNCHANGED <<slot, lock, pending, dead, reader, seen, up, current, handled, session>>
    BY <1>6, Zenon DEF Recheck
  <2>2. /\ call[r] = "checking"
        /\ \/ Return(r, Failed) /\ dead
           \/ Goto(r, "waiting") /\ result' = result /\ ~dead
    BY <1>6 DEF Recheck
  <2>3. CASE Return(r, Failed)
    <3>1. \A x \in Reqs : /\ call'[x] = IF x = r THEN "returned" ELSE call[x]
                          /\ result'[x] = IF x = r THEN Failed ELSE result[x]
      BY <1>1, <2>3, CallReturns
    <3>2. CallsAreSound'
      BY <1>1, <1>2, <2>1, <2>2, <3>1, CallKept
    <3>3. SlotsAreSound'
      BY <2>1, <2>2, <3>1, SlotsKept
    <3> QED BY <1>3, <3>2, <3>3
  <2>4. CASE Goto(r, "waiting") /\ result' = result /\ ~dead
    <3>1. \A x \in Reqs : call'[x] = IF x = r THEN "waiting" ELSE call[x]
      BY <1>1, <2>4, CallMoves
    <3>2. CallsAreSound'
      BY <1>1, <1>2, <2>1, <2>2, <2>4, <3>1, CallKept
    <3>3. SlotsAreSound'
      BY <2>1, <2>4, <3>1, SlotsKept
    <3> QED BY <1>3, <3>2, <3>3
  <2> QED BY <2>2, <2>3, <2>4
<1>7. CASE Receive(r)
  <2>1. UNCHANGED <<slot, lock, pending, dead, reader, seen, up, current, handled, session>>
    BY <1>7, Zenon DEF Receive
  <2>2. call[r] = "waiting" /\ slot[r] # None /\ Return(r, slot[r])
    BY <1>7, Zenon DEF Receive
  <2>3. \A x \in Reqs : /\ call'[x] = IF x = r THEN "returned" ELSE call[x]
                        /\ result'[x] = IF x = r THEN slot[r] ELSE result[x]
    BY <1>1, <2>2, CallReturns
  <2>4. CallsAreSound'
    BY <1>1, <1>2, <2>1, <2>2, <2>3, CallKept
  <2>5. SlotsAreSound'
    BY <2>1, <2>2, <2>3, SlotsKept
  <2> QED BY <1>3, <2>4, <2>5
<1>8. CASE TimesOut(r)
  <2>1. UNCHANGED <<slot, result, lock, pending, dead, reader, seen, up, current, handled,
                    session>>
    BY <1>8, Zenon DEF TimesOut
  <2>2. call[r] = "waiting" /\ Goto(r, "failing")
    BY <1>8, Zenon DEF TimesOut
  <2>3. \A x \in Reqs : call'[x] = IF x = r THEN "failing" ELSE call[x]
    BY <1>1, <2>2, CallMoves
  <2>4. CallsAreSound'
    BY <1>1, <1>2, <2>1, <2>2, <2>3, CallKept
  <2>5. SlotsAreSound'
    BY <2>1, <2>2, <2>3, SlotsKept
  <2> QED BY <1>3, <2>4, <2>5
<1>9. CASE FailAll(r)
  <2>1. UNCHANGED <<lock, reader, seen, up, current, handled, session>>
    BY <1>9, Zenon DEF FailAll
  <2>2. CASE call[r] = "failing"
    <3>1. Goto(r, "draining") /\ dead' /\ UNCHANGED <<slot, result, pending>>
      BY <1>9, <2>2 DEF FailAll, MarkDead
    <3>2. \A x \in Reqs : call'[x] = IF x = r THEN "draining" ELSE call[x]
      BY <1>1, <3>1, CallMoves
    <3>3. CallsAreSound'
      BY <1>1, <1>2, <2>1, <2>2, <3>1, <3>2, CallKept
    <3>4. SlotsAreSound'
      BY <2>1, <2>2, <3>1, <3>2, SlotsKept
    <3> QED BY <1>3, <3>3, <3>4
  <2>3. CASE call[r] = "draining"
    <3>1. Return(r, Failed) /\ Drain /\ dead' = dead
      BY <1>9, <2>3 DEF FailAll
    <3>2. \A x \in Reqs : /\ call'[x] = IF x = r THEN "returned" ELSE call[x]
                          /\ result'[x] = IF x = r THEN Failed ELSE result[x]
      BY <1>1, <3>1, CallReturns
    <3>3. \A x \in Reqs : slot'[x] = slot[x] \/ slot'[x] = Failed
      BY <3>1 DEF Drain
    <3>4. CallsAreSound'
      BY <1>1, <1>2, <2>1, <2>3, <3>1, <3>2, CallKept
    <3>5. SlotsAreSound'
      BY <2>1, <2>3, <3>1, <3>2, <3>3, SlotsKept
    <3> QED BY <1>3, <3>4, <3>5
  <2> QED BY <1>9, <2>2, <2>3 DEF FailAll
<1> QED BY <1>4, <1>5, <1>6, <1>7, <1>8, <1>9

\* A request is written, or cannot be.
LEMMA WriteCalls ==
  ASSUME IInv, NEW r \in Reqs, Write(r)
  PROVE  CallsAreSound' /\ HandledOnce' /\ SlotsAreSound'
<1> USE DEF client, daemon, events
<1>1. TypeOK /\ Next /\ up \in Seq(Reqs) /\ None \notin Reqs
  BY IpcAssumption DEF IInv, TypeOK, Next, Request
<1>2. /\ call[r] = "writing" /\ lock = r /\ lock' = None
      /\ r \notin Range(up) /\ r # current /\ r \notin handled
      /\ UNCHANGED <<slot, result, pending, dead, reader, current, handled, session, down>>
  BY DEF Write, IInv, CallsAreSound
<1>3. SlotsAreSound'
  <2>1. PICK pc \in {"checking", "failing"} : Goto(r, pc)
    BY Zenon DEF Write
  <2>2. \A x \in Reqs : call'[x] = IF x = r THEN pc ELSE call[x]
    BY <1>1, <2>1, CallMoves
  <2> QED BY <1>2, <2>2, SlotsKept
<1>4. CASE up' = Append(up, r) /\ Goto(r, "checking")
  <2>1. \A x \in Reqs : call'[x] = IF x = r THEN "checking" ELSE call[x]
    BY <1>1, <1>4, CallMoves
  <2>2. Range(up') = Range(up) \cup {r}
    BY <1>1, <1>4, RangeFacts
  <2>3. CallsAreSound'
    <3>1. ASSUME NEW x \in Reqs
          PROVE  /\ call'[x] \in {"idle", "locking", "writing"} =>
                      x \notin Range(up') /\ x # current' /\ x \notin handled'
                 /\ call'[x] = "writing" <=> lock' = x
                 /\ call'[x] = "draining" => dead'
                 /\ result'[x] = None <=> call'[x] # "returned"
                 /\ AnswerTo(x, result[x])'
      <4>1. /\ call[x] \in {"idle", "locking", "writing"} =>
                 x \notin Range(up) /\ x # current /\ x \notin handled
            /\ call[x] = "writing" <=> lock = x
            /\ call[x] = "draining" => dead
            /\ result[x] = None <=> call[x] # "returned"
            /\ AnswerTo(x, result[x])
        BY Zenon DEF IInv, CallsAreSound
      <4> QED BY <1>1, <1>2, <2>1, <2>2, <4>1 DEF AnswerTo
    <3>2. reader' = "gone" => Settled'
      <4>1. reader = "gone" => Settled
        BY Zenon DEF IInv, CallsAreSound
      <4> QED BY <1>1, <1>2, <4>1, SettledStays, Zenon
    <3>3. reader' # "up" => dead'
      BY <1>2 DEF IInv, CallsAreSound
    <3> QED BY <3>1, <3>2, <3>3, Zenon DEF CallsAreSound
  <2>4. HandledOnce'
    <3>1. /\ Len(up) \in Nat /\ DOMAIN up = 1 .. Len(up) /\ DOMAIN up' = 1 .. Len(up) + 1
          /\ up'[Len(up) + 1] = r
          /\ \A i \in 1 .. Len(up) : up'[i] = up[i]
      BY <1>1, <1>4
    <3>2. /\ \A i, j \in 1 .. Len(up) : up[i] = up[j] => i = j
          /\ \A i \in 1 .. Len(up) : up[i] # current /\ up[i] \notin handled /\ up[i] # r
      BY <1>2, <3>1 DEF IInv, HandledOnce, Range
    <3>3. /\ \A i, j \in DOMAIN up' : up'[i] = up'[j] => i = j
          /\ \A i \in DOMAIN up' : up'[i] # current /\ up'[i] \notin handled
      BY <1>2, <3>1, <3>2
    <3> QED BY <1>2, <3>3 DEF IInv, HandledOnce
  <2> QED BY <1>3, <2>3, <2>4
<1>5. CASE up' = up /\ Goto(r, "failing")
  <2>1. \A x \in Reqs : call'[x] = IF x = r THEN "failing" ELSE call[x]
    BY <1>1, <1>5, CallMoves
  <2>2. result[r] = None /\ AnswerTo(r, result[r]) /\ (reader # "up" => dead)
    BY <1>2 DEF IInv, CallsAreSound
  <2>3. CallsAreSound'
    BY <1>1, <1>2, <1>5, <2>1, <2>2, CallKept
  <2>4. HandledOnce'
    BY <1>2, <1>5, Zenon DEF IInv, HandledOnce
  <2> QED BY <1>3, <2>3, <2>4
<1> QED BY <1>4, <1>5 DEF Write

\* A step that no call takes.
LEMMA CallsSame ==
  ASSUME IInv, Next, UNCHANGED <<call, result, lock, dead, reader>>, handled \subseteq handled',
         \A x \in Reqs : call[x] \in {"idle", "locking", "writing"} =>
           x \notin Range(up') /\ x # current' /\ x \notin handled'
  PROVE  CallsAreSound'
<1>1. ASSUME NEW x \in Reqs
      PROVE  /\ call'[x] = "writing" <=> lock' = x
             /\ call'[x] = "draining" => dead'
             /\ result'[x] = None <=> call'[x] # "returned"
             /\ AnswerTo(x, result[x])'
  BY DEF IInv, CallsAreSound, AnswerTo
<1>2. (reader' = "gone" => Settled') /\ (reader' # "up" => dead')
  <2>1. TypeOK /\ (reader = "gone" => Settled) /\ (reader # "up" => dead)
    BY Zenon DEF IInv, CallsAreSound
  <2> QED BY <2>1, SettledStays, Zenon
<1> QED BY <1>1, <1>2, Zenon DEF CallsAreSound

\* The head of what is owed.
LEMMA HeadOfCat ==
  ASSUME NEW S, NEW h \in S, NEW a \in Seq(S), NEW b \in Seq(S)
  PROVE  /\ (<<h>> \o a) \o b # <<>>
         /\ Head((<<h>> \o a) \o b) = h
         /\ Tail((<<h>> \o a) \o b) = a \o b
<1>1. <<h>> \in Seq(S) /\ a \o b \in Seq(S)
  BY ConcatProperties
<1>2. (<<h>> \o a) \o b = <<h>> \o (a \o b)
  BY <1>1, ConcatAssociative
<1>3. ASSUME NEW c \in Seq(S)
      PROVE  <<h>> \o c # <<>> /\ Head(<<h>> \o c) = h /\ Tail(<<h>> \o c) = c
  OBVIOUS
<1> QED BY <1>1, <1>2, <1>3, Zenon

\* Unless no waiter looks any more, the reply at hand is that of the oldest waiter.
LEMMA OldestIsAnswered ==
  ASSUME IInv, ReadReply, ~Settled
  PROVE  /\ Head(pending) = Head(down).of /\ Head(down).of \in handled
         /\ \E rest \in Seq(Reqs) : /\ Tail(pending) = Replies(Tail(down)) \o rest
                                    /\ Open => rest = Ahead
<1>1. /\ down \in Seq(Frames) /\ down # <<>> /\ Head(down).kind = "reply"
      /\ Tail(down) \in Seq(Frames) /\ Head(down) \in Frames
  BY QueueTypes, HeadTailProperties DEF IInv, ReadReply
<1>2. Head(down).of \in Reqs /\ Replies(Tail(down)) \in Seq(Reqs)
  BY <1>1, FrameFields, RepliesType
<1>3. PICK rest \in Seq(Reqs) : pending = Replies(down) \o rest /\ (Open => rest = Ahead)
  BY Zenon DEF IInv, Aligned
<1>4. pending = (<<Head(down).of>> \o Replies(Tail(down))) \o rest
  BY <1>1, <1>3, RepliesFirst, Zenon
<1>5. Head(pending) = Head(down).of /\ Tail(pending) = Replies(Tail(down)) \o rest
  <2>1. \A h \in Reqs, a, b \in Seq(Reqs) :
          Head((<<h>> \o a) \o b) = h /\ Tail((<<h>> \o a) \o b) = a \o b
    BY HeadOfCat
  <2> DEFINE h == Head(down).of
             a == Replies(Tail(down))
  <2>2. h \in Reqs /\ a \in Seq(Reqs) /\ pending = (<<h>> \o a) \o rest
    BY <1>2, <1>4
  <2> HIDE DEF h, a
  <2>3. Head(pending) = h /\ Tail(pending) = a \o rest
    BY <1>3, <2>1, <2>2
  <2> QED BY <2>3 DEF h, a
<1>6. Head(down).of \in handled
  <2>1. 1 \in DOMAIN down /\ Head(down) = down[1]
    BY <1>1
  <2> QED BY <1>1, <2>1, Zenon DEF IInv, HandledOnce
<1> QED BY <1>3, <1>5, <1>6, Zenon

\* The reader task.
LEMMA ReaderCalls ==
  ASSUME IInv, Reader
  PROVE  CallsAreSound' /\ HandledOnce' /\ SlotsAreSound'
<1> USE DEF calls, client, daemon, events
<1>1. TypeOK /\ Next /\ down \in Seq(Frames) /\ pending \in Seq(Reqs)
      /\ (reader # "up" => dead)
  BY QueueTypes DEF IInv, Next, CallsAreSound
<1>2. \A x \in Reqs : call[x] \in {"idle", "locking", "writing"} =>
        x \notin Range(up) /\ x # current /\ x \notin handled
  BY Zenon DEF IInv, CallsAreSound
<1>3. UNCHANGED <<call, result, lock, up, current, handled, session>>
  BY Zenon DEF Reader, ReadEvent, ReadReply, ReaderStops, ReaderDrains
<1>4. HandledOnce'
  <2>1. \A i \in DOMAIN down' : \E j \in DOMAIN down : down'[i] = down[j]
    <3>1. down' = down \/ (down # <<>> /\ down' = Tail(down))
      BY Zenon DEF Reader, ReadEvent, ReadReply, ReaderStops, ReaderDrains
    <3>2. ASSUME down # <<>>, NEW i \in DOMAIN Tail(down)
          PROVE  i + 1 \in DOMAIN down /\ Tail(down)[i] = down[i + 1]
      BY <1>1, <3>2
    <3> QED BY <3>1, <3>2, Zenon
  <2>2. \A i \in DOMAIN down' : down'[i].kind = "reply" => down'[i].of \in handled
    BY <2>1, Zenon DEF IInv, HandledOnce
  <2> QED BY <1>3, <2>2, Zenon DEF IInv, HandledOnce
<1>5. CASE ReadEvent
  <2>1. UNCHANGED <<slot, dead, reader>>
    BY <1>5, Zenon DEF ReadEvent
  <2>2. CallsAreSound'
    BY <1>1, <1>2, <1>3, <2>1, CallsSame, Zenon
  <2>3. SlotsAreSound'
    BY <1>3, <2>1, SlotsKept, Zenon
  <2> QED BY <1>4, <2>2, <2>3
<1>6. CASE ReadReply
  <2>1. /\ UNCHANGED <<dead, reader>> /\ pending # <<>>
        /\ slot' = [slot EXCEPT ![Head(pending)] = Head(down).of]
    BY <1>6, Zenon DEF ReadReply
  <2>2. CallsAreSound'
    BY <1>1, <1>2, <1>3, <2>1, CallsSame, Zenon
  <2>3. ASSUME NEW x \in Reqs, call'[x] = "waiting" \/ ~dead' PROVE AnswerTo(x, slot[x])'
    <3>1. CASE x = Head(pending)
      <4>1. slot'[x] = Head(down).of
        BY <1>1, <2>1, <3>1 DEF TypeOK
      <4>2. ~Settled
        <5>1. Head(pending) \in Range(pending)
          BY <1>1, <2>1, RangeFacts
        <5> QED BY <1>3, <2>1, <2>3, <3>1, <5>1, Zenon DEF Settled
      <4>3. Head(pending) = Head(down).of /\ Head(down).of \in handled
        BY <1>6, <4>2, OldestIsAnswered, Zenon
      <4> QED BY <1>3, <3>1, <4>1, <4>3, Zenon DEF AnswerTo
    <3>2. CASE x # Head(pending)
      <4>1. slot'[x] = slot[x]
        BY <1>1, <2>1, <3>2 DEF TypeOK
      <4> QED BY <1>3, <2>1, <2>3, <4>1 DEF IInv, SlotsAreSound, AnswerTo
    <3> QED BY <3>1, <3>2
  <2> QED BY <1>4, <2>2, <2>3 DEF SlotsAreSound
<1>7. CASE ReaderStops
  <2>1. UNCHANGED <<slot, pending>> /\ dead' /\ reader' = "draining"
    BY <1>7 DEF ReaderStops
  <2>2. CallsAreSound'
    <3>1. \A x \in Reqs : /\ call'[x] = "writing" <=> lock' = x
                          /\ result'[x] = None <=> call'[x] # "returned"
                          /\ AnswerTo(x, result[x])'
      BY <1>3 DEF IInv, CallsAreSound, AnswerTo
    <3> QED BY <1>2, <1>3, <2>1, <3>1 DEF CallsAreSound, Range
  <2>3. SlotsAreSound'
    BY <1>3, <2>1, SlotsKept
  <2> QED BY <1>4, <2>2, <2>3
<1>8. CASE ReaderDrains
  <2>1. dead' = dead /\ dead /\ reader' = "gone" /\ Drain
    BY <1>1, <1>8 DEF ReaderDrains
  <2>2. Settled'
    BY <2>1, RangeFacts DEF Settled, Drain, Range
  <2>3. CallsAreSound'
    <3>1. \A x \in Reqs : /\ call'[x] = "writing" <=> lock' = x
                          /\ result'[x] = None <=> call'[x] # "returned"
                          /\ AnswerTo(x, result[x])'
      BY <1>3 DEF IInv, CallsAreSound, AnswerTo
    <3> QED BY <1>2, <1>3, <2>1, <2>2, <3>1 DEF CallsAreSound, Range
  <2>4. \A x \in Reqs : slot'[x] = slot[x] \/ slot'[x] = Failed
    BY <2>1 DEF Drain
  <2>5. SlotsAreSound'
    BY <1>3, <2>1, <2>4, SlotsKept
  <2> QED BY <1>4, <2>3, <2>5
<1> QED BY <1>5, <1>6, <1>7, <1>8 DEF Reader

\* The session, the bus and its relay.
LEMMA DaemonCalls ==
  ASSUME IInv, Session \/ DaemonStops \/ Publish \/ Relay
  PROVE  CallsAreSound' /\ HandledOnce' /\ SlotsAreSound'
<1> USE DEF calls, client, daemon, events
<1>1. TypeOK /\ Next /\ down \in Seq(Frames) /\ up \in Seq(Reqs) /\ None \notin Reqs
  BY QueueTypes, IpcAssumption DEF IInv, Next
<1>2. \A x \in Reqs : call[x] \in {"idle", "locking", "writing"} =>
        x \notin Range(up) /\ x # current /\ x \notin handled
  BY Zenon DEF IInv, CallsAreSound
<1>3. UNCHANGED <<call, slot, result, lock, pending, dead, reader>>
  BY Zenon DEF Session, Register, Greet, ReadRequest, Respond, Hangup, DaemonStops,
               Publish, Relay
<1>4. SUFFICES /\ \A x \in Reqs : call[x] \in {"idle", "locking", "writing"} =>
                    x \notin Range(up') /\ x # current' /\ x \notin handled'
               /\ handled \subseteq handled' /\ HandledOnce'
  BY <1>1, <1>3, CallsSame, SlotsKept, Zenon
<1>5. /\ \A i, j \in DOMAIN up : up[i] = up[j] => i = j
      /\ \A i \in DOMAIN up : up[i] # current /\ up[i] \notin handled
      /\ current # None => current \notin handled
      /\ current # None <=> session = "busy"
      /\ \A i \in DOMAIN down : down[i].kind = "reply" => down[i].of \in handled
  BY Zenon DEF IInv, HandledOnce
<1>6. ASSUME NEW frame, Push(frame), frame.kind = "reply" => frame.of \in handled',
             handled \subseteq handled', frame \in Frames
      PROVE  \A i \in DOMAIN down' : down'[i].kind = "reply" => down'[i].of \in handled'
  <2>1. CASE down' = down
    BY <1>5, <1>6, <2>1, Zenon
  <2>2. CASE down' = Append(down, frame)
    <3>1. \A i \in DOMAIN down' : down'[i] = frame \/ (i \in DOMAIN down /\ down'[i] = down[i])
      BY <1>1, <2>2
    <3> QED BY <1>5, <1>6, <3>1, Zenon
  <2> QED BY <1>6, <2>1, <2>2, Zenon DEF Push
<1>7. CASE Register \/ Hangup \/ Publish
  <2>1. UNCHANGED <<up, current, handled, down>>
    BY <1>7, Zenon DEF Register, Hangup, Publish
  <2>2. session' # "busy" <=> session # "busy"
    BY <1>7 DEF Register, Hangup, Publish
  <2> QED BY <1>2, <1>5, <2>1, <2>2 DEF HandledOnce, Range
<1>8. CASE Greet
  <2>1. UNCHANGED <<up, current, handled>> /\ session = "greeting" /\ session' = "reading"
    BY <1>8, Zenon DEF Greet
  <2>2. \A i \in DOMAIN down' : down'[i].kind = "reply" => down'[i].of \in handled'
    <3>1. Push(Hello) /\ Hello.kind # "reply" /\ Hello \in Frames
      BY <1>8, IpcAssumption DEF Greet, Hello, Event, Frames
    <3> QED BY <1>6, <2>1, <3>1, Zenon
  <2> QED BY <1>2, <1>5, <2>1, <2>2 DEF HandledOnce, Range
<1>9. CASE ReadRequest
  <2>1. /\ session = "reading" /\ session' = "busy" /\ up # <<>>
        /\ current' = Head(up) /\ up' = Tail(up) /\ UNCHANGED <<handled, down>>
    BY <1>9, Zenon DEF ReadRequest
  <2>2. /\ Len(up) \in Nat /\ Len(up) > 0 /\ DOMAIN up = 1 .. Len(up) /\ Head(up) = up[1]
        /\ DOMAIN up' = 1 .. Len(up) - 1
        /\ \A i \in 1 .. Len(up) - 1 : up'[i] = up[i + 1]
    BY <1>1, <2>1
  <2>3. Head(up) \in Range(up) /\ Range(up') \subseteq Range(up) /\ Head(up) \in Reqs
    BY <1>1, <2>1, RangeFacts
  <2>4. /\ \A i, j \in DOMAIN up' : up'[i] = up'[j] => i = j
        /\ \A i \in DOMAIN up' : up'[i] # current' /\ up'[i] \notin handled
        /\ current' \notin handled
    BY <1>5, <2>1, <2>2
  <2>5. HandledOnce'
    BY <1>1, <1>5, <2>1, <2>3, <2>4 DEF HandledOnce
  <2> QED BY <1>2, <2>1, <2>3, <2>5, Zenon
<1>10. CASE Respond
  <2>1. /\ session = "busy" /\ handled' = handled \cup {current} /\ current' = None
        /\ up' = up /\ session' # "busy"
        /\ Push(Reply(current)) \/ down' = down
    BY <1>10 DEF Respond
  <2>2. current \in Reqs
    BY <1>1, <1>5, <2>1 DEF TypeOK
  <2>3. \A i \in DOMAIN down' : down'[i].kind = "reply" => down'[i].of \in handled'
    <3>1. CASE Push(Reply(current))
      <4>1. Reply(current) \in Frames /\ Reply(current).of = current /\ current \in handled'
        BY <2>1, <2>2 DEF Frames, Reply
      <4> QED BY <1>6, <2>1, <3>1, <4>1
    <3>2. CASE down' = down
      BY <1>5, <2>1, <3>2
    <3> QED BY <2>1, <3>1, <3>2
  <2>4. HandledOnce'
    BY <1>1, <1>5, <2>1, <2>3 DEF HandledOnce
  <2>5. \A x \in Reqs : call[x] \in {"idle", "locking", "writing"} =>
          x \notin Range(up') /\ x # current' /\ x \notin handled'
    BY <1>1, <1>2, <2>1
  <2> QED BY <2>1, <2>4, <2>5
<1>11. CASE DaemonStops
  <2>1. /\ session' = "closed" /\ current' = None /\ UNCHANGED <<up, handled>>
    BY <1>11, Zenon DEF DaemonStops
  <2>2. PICK k \in 0 .. Len(down) : down' = SubSeq(down, 1, k)
    BY <1>11, Zenon DEF DaemonStops
  <2>3. \A i \in DOMAIN down' : i \in DOMAIN down /\ down'[i] = down[i]
    BY <1>1, <2>2
  <2>4. HandledOnce'
    <3>1. \A i \in DOMAIN up : up[i] \in Reqs
      BY <1>1
    <3> QED BY <1>1, <1>5, <2>1, <2>3, <3>1 DEF HandledOnce
  <2>5. \A x \in Reqs : call[x] \in {"idle", "locking", "writing"} =>
          x \notin Range(up') /\ x # current' /\ x \notin handled'
    BY <1>1, <1>2, <2>1
  <2> QED BY <2>1, <2>4, <2>5
<1>12. CASE Relay
  <2>1. UNCHANGED <<up, current, handled, session>>
    BY <1>12, Zenon DEF Relay
  <2>2. \A i \in DOMAIN down' : down'[i].kind = "reply" => down'[i].of \in handled'
    <3>1. CASE down' = down
      BY <1>5, <2>1, <3>1
    <3>2. CASE Push(Event(OldestEvent(bus)))
      <4>1. Head(bus) \in 1 .. MaxEvents
        BY <1>1, <1>12, QueueTypes, HeadTailProperties DEF Relay
      <4>2. /\ Event(OldestEvent(bus)) \in Frames
            /\ Event(OldestEvent(bus)).kind # "reply"
        BY <4>1 DEF OldestEvent, Frames, Event
      <4> QED BY <1>6, <2>1, <3>2, <4>2, Zenon
    <3> QED BY <1>12, <3>1, <3>2 DEF Relay
  <2> QED BY <1>2, <1>5, <2>1, <2>2 DEF HandledOnce, Range
<1> QED BY <1>7, <1>8, <1>9, <1>10, <1>11, <1>12 DEF Session

-----------------------------------------------------------------------------
(* The queue of waiters and the wire.                                      *)

\* Concatenation of queues of requests is associative.
LEMMA CatAssociative ==
  \A a, b, c \in Seq(Reqs) : (a \o b) \o c = a \o (b \o c)
BY ConcatAssociative

\* What is used of sequences of requests.
LEMMA RequestSeqs ==
  /\ <<>> \in Seq(Reqs)
  /\ \A e \in Reqs : <<e>> \in Seq(Reqs)
  /\ \A a, b \in Seq(Reqs) : a \o b \in Seq(Reqs)
  /\ \A a \in Seq(Reqs) : a \o <<>> = a /\ <<>> \o a = a
  /\ \A a \in Seq(Reqs), e \in Reqs : Append(a, e) = a \o <<e>> /\ Append(a, e) \in Seq(Reqs)
  /\ \A a, b, c \in Seq(Reqs) : (a \o b) \o c = a \o (b \o c)
<1>1. /\ <<>> \in Seq(Reqs)
      /\ \A e \in Reqs : <<e>> \in Seq(Reqs)
      /\ \A a, b \in Seq(Reqs) : a \o b \in Seq(Reqs)
      /\ \A a \in Seq(Reqs), e \in Reqs : Append(a, e) \in Seq(Reqs)
  OBVIOUS
<1>2. \A a \in Seq(Reqs) : a \o <<>> = a /\ <<>> \o a = a
  BY ConcatEmptySeq, Zenon
<1>3. \A a \in Seq(Reqs), e \in Reqs : Append(a, e) = a \o <<e>>
  BY AppendIsConcat, Zenon
<1>4. \A a, b, c \in Seq(Reqs) : (a \o b) \o c = a \o (b \o c)
  BY CatAssociative, Zenon
<1> QED BY <1>1, <1>2, <1>3, <1>4, Zenon

\* At most one request is in somebody's hands.
InHand(r) == IF r = None THEN <<>> ELSE <<r>>

\* What is in hand is a sequence.
LEMMA InHandType ==
  ASSUME TypeOK
  PROVE  /\ InHand(current) \in Seq(Reqs) /\ InHand(lock) \in Seq(Reqs)
         /\ Ahead = (InHand(current) \o up) \o InHand(lock) /\ Ahead \in Seq(Reqs)
<1>1. InHand(current) \in Seq(Reqs) /\ InHand(lock) \in Seq(Reqs)
  BY RequestSeqs DEF InHand, TypeOK
<1>2. Ahead = (InHand(current) \o up) \o InHand(lock)
  BY Zenon DEF Ahead, InHand
<1> QED BY <1>1, <1>2, RequestSeqs, QueueTypes

\* A waiter is queued as the last one, under the write lock.
LEMMA EnqueueAligned ==
  ASSUME IInv, NEW r \in Reqs, Enqueue(r), TypeOK',
         NEW rest \in Seq(Reqs), pending = Replies(down) \o rest, Open => rest = Ahead
  PROVE  Aligned'
<1> USE DEF client, daemon, events
<1>1. /\ down \in Seq(Frames) /\ Replies(down) \in Seq(Reqs) /\ up \in Seq(Reqs) /\ TypeOK
  BY QueueTypes, RepliesType DEF IInv
<1>2. /\ UNCHANGED <<down, current, up, session>> /\ lock = None /\ lock' = r
      /\ pending' = Append(pending, r) /\ r # None
  BY IpcAssumption DEF Enqueue
<1>3. pending' = Replies(down) \o Append(rest, r)
  <2>1. \A a, b \in Seq(Reqs), e \in Reqs : a \o Append(b, e) = Append(a \o b, e)
    BY CatAppend
  <2> QED BY <1>1, <1>2, <2>1, Zenon
<1>4. Ahead' = Append(Ahead, r)
  <2>1. Ahead = InHand(current) \o up /\ Ahead' = (InHand(current) \o up) \o <<r>>
    <3>1. InHand(lock) = <<>> /\ InHand(lock') = <<r>> /\ InHand(current') = InHand(current)
      BY <1>2 DEF InHand
    <3>2. Ahead' = (InHand(current') \o up') \o InHand(lock')
      BY Zenon DEF Ahead, InHand
    <3>3. InHand(current) \in Seq(Reqs) /\ Ahead = (InHand(current) \o up) \o <<>>
      BY <1>1, <3>1, InHandType
    <3>4. InHand(current) \o up \in Seq(Reqs)
      BY <1>1, <3>3, RequestSeqs, Zenon
    <3>5. (InHand(current) \o up) \o <<>> = InHand(current) \o up
      BY <3>4, RequestSeqs, Zenon
    <3> QED BY <1>2, <3>1, <3>2, <3>3, <3>5, Zenon
  <2> QED BY <1>1, <2>1, InHandType, RequestSeqs, Zenon
<1>5. Append(rest, r) \in Seq(Reqs)
  BY RequestSeqs, Zenon
<1> QED BY <1>2, <1>3, <1>4, <1>5, Zenon DEF Aligned, Open

\* Writing a request moves it from the writer's hands to the wire.
LEMMA WriteAligned ==
  ASSUME IInv, NEW r \in Reqs, Write(r),
         NEW rest \in Seq(Reqs), pending = Replies(down) \o rest, Open => rest = Ahead
  PROVE  Aligned'
<1> USE DEF client, daemon, events
<1>1. up \in Seq(Reqs) /\ TypeOK
  BY QueueTypes DEF IInv
<1>2. /\ UNCHANGED <<down, current, pending, session>> /\ lock = r /\ lock' = None
      /\ r # None /\ (up' = Append(up, r) \/ ~Open)
  BY IpcAssumption DEF Write, IInv, CallsAreSound
<1>3. CASE ~Open
  BY <1>2, <1>3, Zenon DEF Aligned, Open
<1>4. CASE up' = Append(up, r)
  <2>1. Ahead' = Ahead
    <3>1. InHand(lock) = <<r>> /\ InHand(lock') = <<>> /\ InHand(current') = InHand(current)
      BY <1>2 DEF InHand
    <3>2. Ahead' = (InHand(current') \o up') \o InHand(lock')
      BY Zenon DEF Ahead, InHand
    <3>3. Ahead' = (InHand(current) \o (up \o <<r>>)) \o <<>>
      BY <1>1, <1>4, <3>1, <3>2, RequestSeqs, Zenon
    <3>4. /\ InHand(current) \in Seq(Reqs) /\ <<r>> \in Seq(Reqs)
          /\ Ahead = (InHand(current) \o up) \o <<r>>
      BY <1>1, <3>1, InHandType, RequestSeqs, Zenon
    <3>5. Ahead' = InHand(current) \o (up \o <<r>>)
      <4>1. up \o <<r>> \in Seq(Reqs)
        BY <1>1, <3>4, RequestSeqs, Zenon
      <4>2. InHand(current) \o (up \o <<r>>) \in Seq(Reqs)
        BY <3>4, <4>1, RequestSeqs, Zenon
      <4>3. (InHand(current) \o (up \o <<r>>)) \o <<>> = InHand(current) \o (up \o <<r>>)
        BY <4>2, RequestSeqs, Zenon
      <4> QED BY <3>3, <4>3, Zenon
    <3> QED BY <1>1, <3>4, <3>5, CatAssociative, Zenon
  <2> QED BY <1>2, <2>1, Zenon DEF Aligned, Open
<1> QED BY <1>2, <1>3, <1>4

\* The session takes a request from the wire into its hands.
LEMMA ReadRequestAligned ==
  ASSUME IInv, ReadRequest,
         NEW rest \in Seq(Reqs), pending = Replies(down) \o rest, Open => rest = Ahead
  PROVE  Aligned'
<1> USE DEF calls, client, daemon, events
<1>1. up \in Seq(Reqs) /\ TypeOK
  BY QueueTypes DEF IInv
<1>2. /\ UNCHANGED <<down, pending, lock>> /\ session = "reading" /\ session' = "busy"
      /\ current = None /\ current' = Head(up) /\ up' = Tail(up) /\ up # <<>>
  BY DEF ReadRequest, IInv, HandledOnce
<1>3. /\ up = <<Head(up)>> \o Tail(up) /\ Head(up) \in Reqs /\ Head(up) # None
      /\ <<Head(up)>> \in Seq(Reqs) /\ Tail(up) \in Seq(Reqs)
  <2>1. Head(up) \in Reqs /\ Tail(up) \in Seq(Reqs) /\ <<Head(up)>> \in Seq(Reqs)
    BY <1>1, <1>2, HeadTailProperties, RequestSeqs
  <2>2. Len(up) \in 1 .. Len(up) /\ 1 \in 1 .. Len(up) /\ Head(up) = up[1]
    BY <1>1, <1>2
  <2>3. SubSeq(up, 1, Len(up)) = <<up[1]>> \o SubSeq(up, 1 + 1, Len(up))
    BY <1>1, <2>2, SubSeqRecursiveFirst
  <2> QED BY <1>1, <1>2, <2>1, <2>2, <2>3, SubSeqFull, TailIsSubSeq, IpcAssumption
<1>4. Ahead' = Ahead
  <2>1. InHand(current) = <<>> /\ InHand(current') = <<Head(up)>> /\ InHand(lock') = InHand(lock)
    BY <1>2, <1>3 DEF InHand
  <2>2. Ahead' = (InHand(current') \o up') \o InHand(lock')
    BY Zenon DEF Ahead, InHand
  <2>3. Ahead = (<<>> \o up) \o InHand(lock)
    BY <1>1, <2>1, InHandType
  <2>4. <<>> \o up = up
    BY <1>1, RequestSeqs
  <2> QED BY <1>2, <1>3, <2>1, <2>2, <2>3, <2>4, Zenon
<1> QED BY <1>2, <1>4, Zenon DEF Aligned, Open

\* The reply of the request in the session's hands goes behind the others.
LEMMA RespondAligned ==
  ASSUME IInv, Respond, reader # "gone",
         NEW rest \in Seq(Reqs), pending = Replies(down) \o rest, Open => rest = Ahead
  PROVE  Aligned'
<1> USE DEF calls, client, daemon, events
<1>1. /\ down \in Seq(Frames) /\ Replies(down) \in Seq(Reqs) /\ up \in Seq(Reqs) /\ TypeOK
  BY QueueTypes, RepliesType DEF IInv
<1>2. /\ UNCHANGED <<pending, lock, up>> /\ session = "busy" /\ session' = "reading"
      /\ current # None /\ current \in Reqs /\ current' = None
      /\ down' = Append(down, Reply(current))
  BY <1>1 DEF Respond, Push, IInv, HandledOnce, TypeOK
<1>3. Replies(down') = Replies(down) \o <<current>> /\ <<current>> \in Seq(Reqs)
  <2>1. /\ Reply(current) \in Frames /\ Reply(current).kind = "reply"
        /\ Reply(current).of = current
    BY <1>2 DEF Frames, Reply
  <2>2. Replies(Append(down, Reply(current))) = Append(Replies(down), current)
    BY <1>1, <2>1, RepliesAppend
  <2> QED BY <1>1, <1>2, <2>2, RequestSeqs
<1> DEFINE more == up \o InHand(lock)
<1>4. InHand(lock) \in Seq(Reqs) /\ more \in Seq(Reqs)
  BY <1>1, InHandType, RequestSeqs, Zenon
<1>5. rest = <<current>> \o more
  <2>1. InHand(current) = <<current>>
    BY <1>2 DEF InHand
  <2>2. rest = (<<current>> \o up) \o InHand(lock)
    BY <1>1, <1>2, <2>1, InHandType DEF Open
  <2>3. (<<current>> \o up) \o InHand(lock) = <<current>> \o (up \o InHand(lock))
    BY <1>1, <1>3, <1>4, CatAssociative, Zenon
  <2> QED BY <2>2, <2>3
<1>6. Ahead' = more
  <2>1. InHand(current') = <<>> /\ InHand(lock') = InHand(lock)
    BY <1>2 DEF InHand
  <2>2. Ahead' = (InHand(current') \o up') \o InHand(lock')
    BY Zenon DEF Ahead, InHand
  <2>3. <<>> \o up = up
    BY <1>1, RequestSeqs
  <2> QED BY <1>2, <2>1, <2>2, <2>3, Zenon
<1> HIDE DEF more
<1>7. pending' = Replies(down') \o more
  <2>1. Replies(down) \in Seq(Reqs) /\ <<current>> \in Seq(Reqs) /\ more \in Seq(Reqs)
    BY <1>1, <1>3, <1>4, Zenon
  <2>2. (Replies(down) \o <<current>>) \o more = Replies(down) \o (<<current>> \o more)
    BY <2>1, CatAssociative, Zenon
  <2> QED BY <1>2, <1>3, <1>5, <2>2, Zenon
<1> QED BY <1>4, <1>6, <1>7, Zenon DEF Aligned

\* The daemon stops: what the socket had taken starts the queue.
LEMMA StopAligned ==
  ASSUME IInv, DaemonStops, NEW rest \in Seq(Reqs), pending = Replies(down) \o rest
  PROVE  Aligned'
<1> USE DEF calls, client, daemon, events
<1>1. PICK i \in 0 .. Len(down) : down' = SubSeq(down, 1, i)
  BY Zenon DEF DaemonStops
<1>2. pending' = pending /\ session' = "closed"
  BY Zenon DEF DaemonStops
<1>3. down \in Seq(Frames)
  BY QueueTypes DEF IInv
<1>4. PICK more \in Seq(Reqs) : Replies(down) = Replies(down') \o more
  BY <1>1, <1>3, RepliesPrefix
<1>5. Replies(down') \in Seq(Reqs)
  BY <1>1, <1>3, RepliesPrefix, RepliesType
<1>6. /\ pending' = Replies(down') \o (more \o rest)
      /\ more \o rest \in Seq(Reqs)
  <2>1. (Replies(down') \o more) \o rest = Replies(down') \o (more \o rest)
    BY <1>5, CatAssociative, Zenon
  <2>2. more \o rest \in Seq(Reqs)
    BY RequestSeqs, Zenon
  <2> QED BY <1>2, <1>4, <2>1, <2>2, Zenon
<1> QED BY <1>2, <1>6 DEF Aligned, Open

\* An event on its way does not disturb the replies.
LEMMA PushedEvent ==
  ASSUME TypeOK, NEW n \in 0 .. MaxEvents, Push(Event(n)) \/ down' = down
  PROVE  Replies(down') = Replies(down)
<1>1. Event(n) \in Frames /\ Event(n).kind # "reply"
  BY DEF Frames, Event
<1>2. down' = down \/ down' = Append(down, Event(n))
  BY Zenon DEF Push
<1> QED BY <1>1, <1>2, QueueTypes, RepliesAppend

\* Every step keeps the queue of waiters in the order of the wire until no waiter
\* looks any more.
LEMMA AlignedStep ==
  ASSUME IInv, [Next]_vars
  PROVE  Aligned'
<1> USE DEF calls, client, daemon, events
<1>1. TypeOK /\ TypeOK'
  <2>1. TypeOK /\ HandledOnce
    BY Zenon DEF IInv
  <2>2. CASE UNCHANGED vars
    BY <2>1, <2>2 DEF vars, TypeOK
  <2> QED BY <2>1, <2>2, RequestType, OthersType, Zenon DEF Next
<1>2. CASE Settled
  BY <1>1, <1>2, SettledStays, Zenon DEF Aligned
<1>3. CASE ~Settled
  <2>1. PICK rest \in Seq(Reqs) : pending = Replies(down) \o rest /\ (Open => rest = Ahead)
    BY <1>3, Zenon DEF IInv, Aligned
  <2>2. ASSUME UNCHANGED <<pending, current, up, lock>>, Replies(down') = Replies(down),
               Open' => Open
        PROVE  Aligned'
    <3>1. Ahead' = Ahead
      BY <2>2, Zenon DEF Ahead
    <3> QED BY <2>1, <2>2, <3>1, Zenon DEF Aligned
  <2>3. ASSUME Drain, dead' PROVE Aligned'
    <3>1. pending' = <<>>
      BY <2>3 DEF Drain
    <3>2. Range(pending') = {}
      BY <3>1 DEF Range
    <3> QED BY <2>3, <3>2, Zenon DEF Aligned, Settled
  <2>4. CASE UNCHANGED vars
    BY <2>2, <2>4, Zenon DEF vars, Open
  <2>5. ASSUME NEW r \in Reqs, Request(r) PROVE Aligned'
    <3>1. CASE Begin(r) \/ Recheck(r) \/ Receive(r) \/ TimesOut(r)
      BY <2>2, <3>1, Zenon DEF Begin, Recheck, Receive, TimesOut, Open
    <3>2. CASE Enqueue(r)
      BY <1>1, <2>1, <3>2, EnqueueAligned, Zenon
    <3>3. CASE Write(r)
      BY <2>1, <3>3, WriteAligned, Zenon
    <3>4. CASE FailAll(r)
      <4>1. CASE call[r] = "failing"
        <5>1. UNCHANGED <<pending, current, up, lock, down, session>>
          BY <3>4, <4>1 DEF FailAll
        <5> QED BY <2>2, <5>1, Zenon DEF Open
      <4>2. CASE call[r] = "draining"
        <5>1. Drain /\ dead' = dead
          BY <3>4, <4>2 DEF FailAll
        <5>2. dead
          BY <4>2, Zenon DEF IInv, CallsAreSound
        <5> QED BY <2>3, <5>1, <5>2, Zenon
      <4> QED BY <3>4, <4>1, <4>2, Zenon DEF FailAll
    <3> QED BY <2>5, <3>1, <3>2, <3>3, <3>4, Zenon DEF Request
  <2>6. CASE ReadEvent
    <3>1. Replies(down') = Replies(down)
      <4>1. down # <<>> /\ Head(down).kind = "event" /\ down' = Tail(down)
        BY <2>6, Zenon DEF ReadEvent
      <4> QED BY <1>1, <4>1, QueueTypes, RepliesFirst
    <3>2. UNCHANGED <<pending, current, up, lock, session>>
      BY <2>6, Zenon DEF ReadEvent
    <3> QED BY <2>2, <3>1, <3>2, Zenon DEF Open
  <2>7. CASE ReadReply
    <3>1. /\ UNCHANGED <<current, up, lock, session>>
          /\ pending' = Tail(pending) /\ down' = Tail(down)
      BY <2>7, Zenon DEF ReadReply
    <3>2. PICK more \in Seq(Reqs) : /\ Tail(pending) = Replies(Tail(down)) \o more
                                    /\ Open => more = Ahead
      BY <1>3, <2>7, OldestIsAnswered, Zenon
    <3>3. Ahead' = Ahead /\ (Open' => Open)
      BY <3>1, Zenon DEF Ahead, Open
    <3> QED BY <3>1, <3>2, <3>3, Zenon DEF Aligned
  <2>8. CASE ReaderStops
    BY <2>2, <2>8, Zenon DEF ReaderStops, Open
  <2>9. CASE ReaderDrains
    <3>1. Drain /\ dead' = dead /\ dead
      BY <2>9 DEF ReaderDrains, IInv, CallsAreSound
    <3> QED BY <2>3, <3>1, Zenon
  <2>10. CASE Register \/ Hangup \/ Publish
    <3>1. UNCHANGED <<pending, current, up, lock, down>>
      BY <2>10, Zenon DEF Register, Hangup, Publish
    <3>2. Open' => Open
      BY <2>10 DEF Register, Hangup, Publish, Open
    <3> QED BY <2>2, <3>1, <3>2, Zenon
  <2>11. CASE Greet
    <3>1. UNCHANGED <<pending, current, up, lock>> /\ Open
      BY <2>11 DEF Greet, Open
    <3>2. Push(Event(0)) /\ 0 \in 0 .. MaxEvents
      BY <2>11, IpcAssumption DEF Greet, Hello
    <3>3. Replies(down') = Replies(down)
      BY <1>1, <3>2, PushedEvent
    <3> QED BY <2>2, <3>1, <3>3, Zenon
  <2>12. CASE ReadRequest
    BY <2>1, <2>12, ReadRequestAligned, Zenon
  <2>13. CASE Respond
    <3>1. reader # "gone"
      BY <1>3, Zenon DEF IInv, CallsAreSound
    <3> QED BY <2>1, <2>13, <3>1, RespondAligned, Zenon
  <2>14. CASE DaemonStops
    BY <2>1, <2>14, StopAligned, Zenon
  <2>15. CASE Relay
    <3>1. UNCHANGED <<pending, current, up, lock, session>>
      BY <2>15, Zenon DEF Relay
    <3>2. Head(bus) \in 0 .. MaxEvents
      BY <1>1, <2>15, QueueTypes, HeadTailProperties DEF Relay
    <3>3. Push(Event(Head(bus))) \/ down' = down
      BY <2>15 DEF Relay, OldestEvent
    <3>4. Replies(down') = Replies(down)
      BY <1>1, <3>2, <3>3, PushedEvent
    <3> QED BY <2>2, <3>1, <3>4, Zenon DEF Open
  <2> QED BY <2>4, <2>5, <2>6, <2>7, <2>8, <2>9, <2>10, <2>11, <2>12, <2>13, <2>14, <2>15,
             Zenon DEF Next, Reader, Session
<1> QED BY <1>2, <1>3

-----------------------------------------------------------------------------
(* The theorems.                                                           *)

\* The start has nobody waiting and nothing on the wire.
LEMMA InitOk == Init => IInv
<1> SUFFICES ASSUME Init PROVE IInv
  OBVIOUS
<1> USE DEF Init
<1>1. TypeOK
  <2>1. /\ call \in [Reqs -> {"idle", "locking", "writing", "checking", "waiting",
                             "failing", "draining", "returned"}]
        /\ slot \in [Reqs -> Reqs \cup {None, Failed}]
        /\ result \in [Reqs -> Reqs \cup {None, Failed}]
    OBVIOUS
  <2>2. \A S : <<>> \in Seq(S)
    BY EmptySeq
  <2>3. published \in 0 .. MaxEvents
    BY IpcAssumption
  <2>4. dead \in BOOLEAN /\ lagged \in BOOLEAN
    OBVIOUS
  <2> QED BY <2>1, <2>2, <2>3, <2>4, Zenon DEF TypeOK
<1>2. CallsAreSound
  BY IpcAssumption, RangeFacts DEF CallsAreSound, AnswerTo, Range
<1>3. HandledOnce /\ SlotsAreSound
  BY DEF HandledOnce, SlotsAreSound, AnswerTo
<1>4. Aligned
  <2>1. Ahead = (<<>> \o <<>>) \o <<>>
    BY DEF Ahead
  <2>2. <<>> \in Seq(Reqs) /\ <<>> \o <<>> = <<>>
    BY RequestSeqs
  <2> QED BY <2>1, <2>2, RepliesEmpty, Zenon DEF Aligned
<1> QED BY <1>1, <1>2, <1>3, <1>4 DEF IInv

\* Every step keeps it.
LEMMA StepOk == IInv /\ [Next]_vars => IInv'
<1> SUFFICES ASSUME IInv, [Next]_vars PROVE IInv'
  OBVIOUS
<1>1. Aligned'
  BY AlignedStep
<1>2. TypeOK /\ HandledOnce
  BY Zenon DEF IInv
<1>3. CASE UNCHANGED vars
  <2>1. TypeOK' /\ HandledOnce' /\ SlotsAreSound'
    BY <1>2, <1>3 DEF IInv, vars, TypeOK, HandledOnce, SlotsAreSound, AnswerTo
  <2>2. CallsAreSound'
    BY <1>3 DEF IInv, vars, CallsAreSound, AnswerTo, Settled, Range
  <2> QED BY <1>1, <2>1, <2>2 DEF IInv
<1>4. ASSUME NEW r \in Reqs, Request(r) PROVE IInv'
  <2>1. TypeOK'
    BY <1>2, <1>4, RequestType
  <2>2. CallsAreSound' /\ HandledOnce' /\ SlotsAreSound'
    BY <1>4, RequestCalls, WriteCalls, Zenon DEF Request
  <2> QED BY <1>1, <2>1, <2>2, Zenon DEF IInv
<1>5. CASE Reader \/ Session \/ DaemonStops \/ Publish \/ Relay
  <2>1. TypeOK'
    BY <1>2, <1>5, OthersType
  <2>2. CallsAreSound' /\ HandledOnce' /\ SlotsAreSound'
    BY <1>5, ReaderCalls, DaemonCalls, Zenon
  <2> QED BY <1>1, <2>1, <2>2, Zenon DEF IInv
<1> QED BY <1>3, <1>4, <1>5, Zenon DEF Next

\* The inductive invariant holds.
LEMMA Invariance == Spec => []IInv
BY InitOk, StepOk, PTL DEF Spec

\* Every part of the connection has its type.
THEOREM TypeCorrect == Spec => []TypeOK
<1>1. IInv => TypeOK
  BY DEF IInv
<1> QED BY <1>1, Invariance, PTL

\* As long as the connection is alive the queue of waiters is the order in which
\* the daemon answers, whatever calls are made, fail or time out meanwhile.
THEOREM QueueFollowsWire == Spec => []QueueIsWireOrder
<1>1. IInv => QueueIsWireOrder
  <2> SUFFICES ASSUME IInv, ~dead, Open PROVE pending = Owed
    BY DEF QueueIsWireOrder
  <2>1. TypeOK /\ Replies(down) \in Seq(Reqs) /\ up \in Seq(Reqs)
    BY QueueTypes, RepliesType DEF IInv
  <2>2. pending = Replies(down) \o Ahead
    BY Zenon DEF IInv, Aligned, Settled
  <2>3. /\ Ahead = (InHand(current) \o up) \o InHand(lock)
        /\ InHand(current) \in Seq(Reqs) /\ InHand(lock) \in Seq(Reqs)
    BY <2>1, InHandType
  <2>4. Owed = ((Replies(down) \o InHand(current)) \o up) \o InHand(lock)
    BY Zenon DEF Owed, InHand
  <2>5. InHand(current) \o up \in Seq(Reqs)
    BY <2>1, <2>3, RequestSeqs, Zenon
  <2>6. Replies(down) \o ((InHand(current) \o up) \o InHand(lock))
          = (Replies(down) \o (InHand(current) \o up)) \o InHand(lock)
    <3> DEFINE a == Replies(down)
               b == InHand(current) \o up
               c == InHand(lock)
    <3>1. a \in Seq(Reqs) /\ b \in Seq(Reqs) /\ c \in Seq(Reqs)
      BY <2>1, <2>3, <2>5
    <3> HIDE DEF a, b, c
    <3>2. a \o (b \o c) = (a \o b) \o c
      BY <3>1, CatAssociative, Zenon
    <3> QED BY <3>2 DEF a, b, c
  <2>7. Replies(down) \o (InHand(current) \o up) = (Replies(down) \o InHand(current)) \o up
    BY <2>1, <2>3, CatAssociative, Zenon
  <2> QED BY <2>2, <2>3, <2>4, <2>6, <2>7, Zenon
<1> QED BY <1>1, Invariance, PTL

\* What the promise of RequestReply sees of the calls.
CallState == [r \in Reqs |-> IF result[r] # None THEN result[r]
                             ELSE IF call[r] = "idle" THEN "idle" ELSE "open"]

\* What a step of call r changes of what the promise sees.
LEMMA CallStateStep ==
  ASSUME NEW r \in Reqs, NEW value,
         \A x \in Reqs \ {r} : CallState'[x] = CallState[x], CallState'[r] = value
  PROVE  CallState' = [CallState EXCEPT ![r] = value]
BY DEF CallState

\* Every step of the connection is one of the promise, or none.
LEMMA PromiseStep ==
  ASSUME IInv, [Next]_vars
  PROVE  [Promise!Next]_(Promise!vars)
<1> USE DEF calls, client, daemon, events
<1>1. /\ TypeOK
      /\ \A x \in Reqs : result[x] = None <=> call[x] # "returned"
      /\ None # Failed /\ None \notin Reqs
      /\ "idle" # Failed /\ "open" # Failed /\ "idle" \notin Reqs /\ "open" \notin Reqs
  BY IpcAssumption DEF IInv, CallsAreSound
<1>2. \A x \in Reqs : CallState[x] = IF result[x] # None THEN result[x]
                                     ELSE IF call[x] = "idle" THEN "idle" ELSE "open"
  BY DEF CallState
<1>3. \A x \in Reqs : CallState'[x] = IF result'[x] # None THEN result'[x]
                                      ELSE IF call'[x] = "idle" THEN "idle" ELSE "open"
  BY DEF CallState
<1>4. ASSUME UNCHANGED <<call, result, handled>> PROVE UNCHANGED Promise!vars
  BY <1>4, Zenon DEF Promise!vars
<1>5. ASSUME NEW r \in Reqs, Return(r, Failed), call[r] # "returned", handled' = handled
      PROVE  Promise!Fail(r)
  <2>1. \A x \in Reqs : /\ call'[x] = IF x = r THEN "returned" ELSE call[x]
                        /\ result'[x] = IF x = r THEN Failed ELSE result[x]
    BY <1>1, <1>5, CallReturns
  <2>2. CallState[r] \in {"idle", "open"}
    BY <1>1, <1>2, <1>5
  <2>3. CallState' = [CallState EXCEPT ![r] = Failed]
    BY <1>1, <1>2, <1>3, <2>1, CallStateStep
  <2> QED BY <1>5, <2>2, <2>3 DEF Promise!Fail, CallState
<1>6. ASSUME NEW r \in Reqs, NEW pc \in {"writing", "checking", "waiting", "failing", "draining"},
             Goto(r, pc), call[r] \notin {"idle", "returned"}, UNCHANGED <<result, handled>>
      PROVE  UNCHANGED Promise!vars
  <2>1. \A x \in Reqs : call'[x] = IF x = r THEN pc ELSE call[x]
    BY <1>1, <1>6, CallMoves
  <2>2. \A x \in Reqs : CallState'[x] = CallState[x]
    BY <1>1, <1>2, <1>3, <1>6, <2>1
  <2>3. CallState' = CallState
    BY <2>2 DEF CallState
  <2> QED BY <1>6, <2>3 DEF Promise!vars, CallState
<1>7. ASSUME NEW r \in Reqs, Request(r) PROVE [Promise!Next]_(Promise!vars)
  <2>1. CASE Begin(r)
    <3>1. CASE dead
      BY <1>5, <1>7, <2>1, <3>1, Zenon DEF Begin, Promise!Next
    <3>2. CASE ~dead
      <4>1. call[r] = "idle" /\ Goto(r, "locking") /\ UNCHANGED <<result, handled>>
        BY <2>1, <3>2 DEF Begin
      <4>2. \A x \in Reqs : call'[x] = IF x = r THEN "locking" ELSE call[x]
        BY <1>1, <4>1, CallMoves
      <4>3. CallState[r] = "idle" /\ CallState' = [CallState EXCEPT ![r] = "open"]
        BY <1>1, <1>2, <1>3, <4>1, <4>2, CallStateStep
      <4>4. Promise!Issue(r)
        BY <4>1, <4>3 DEF Promise!Issue, CallState
      <4> QED BY <4>4, Zenon DEF Promise!Next
    <3> QED BY <3>1, <3>2
  <2>2. CASE Enqueue(r)
    BY <1>6, <2>2 DEF Enqueue
  <2>3. CASE Write(r)
    BY <1>6, <2>3 DEF Write
  <2>4. CASE Recheck(r)
    <3>1. CASE dead
      BY <1>5, <1>7, <2>4, <3>1 DEF Recheck, Promise!Next
    <3>2. CASE ~dead
      BY <1>6, <2>4, <3>2 DEF Recheck
    <3> QED BY <3>1, <3>2
  <2>5. CASE Receive(r)
    <3>1. call[r] = "waiting" /\ slot[r] # None /\ Return(r, slot[r]) /\ handled' = handled
      BY <2>5, Zenon DEF Receive
    <3>2. slot[r] = Failed \/ (slot[r] = r /\ r \in handled)
      BY <3>1 DEF IInv, SlotsAreSound, AnswerTo
    <3>3. CASE slot[r] = Failed
      BY <1>5, <3>1, <3>3 DEF Promise!Next
    <3>4. CASE slot[r] = r /\ r \in handled
      <4>1. \A x \in Reqs : /\ call'[x] = IF x = r THEN "returned" ELSE call[x]
                            /\ result'[x] = IF x = r THEN r ELSE result[x]
        BY <1>1, <3>1, <3>4, CallReturns
      <4>2. CallState[r] = "open" /\ CallState' = [CallState EXCEPT ![r] = r]
        BY <1>1, <1>2, <1>3, <3>1, <4>1, CallStateStep
      <4>3. Promise!Answer(r)
        BY <3>1, <3>4, <4>2 DEF Promise!Answer, CallState
      <4> QED BY <4>3, Zenon DEF Promise!Next
    <3> QED BY <3>2, <3>3, <3>4
  <2>6. CASE TimesOut(r)
    BY <1>6, <2>6 DEF TimesOut
  <2>7. CASE FailAll(r)
    <3>1. CASE call[r] = "failing"
      BY <1>6, <2>7, <3>1 DEF FailAll
    <3>2. CASE call[r] = "draining"
      BY <1>5, <2>7, <3>2 DEF FailAll, Promise!Next
    <3> QED BY <2>7, <3>1, <3>2 DEF FailAll
  <2> QED BY <1>7, <2>1, <2>2, <2>3, <2>4, <2>5, <2>6, <2>7, Zenon DEF Request
<1>8. CASE Respond
  <2>1. current \in Reqs /\ current \notin handled /\ call[current] # "idle"
    BY <1>1, <1>8 DEF Respond, IInv, HandledOnce, TypeOK, CallsAreSound
  <2>2. handled' = handled \cup {current} /\ UNCHANGED <<call, result>>
    BY <1>8, Zenon DEF Respond
  <2>3. CallState[current] # "idle" /\ CallState' = CallState
    <3>1. AnswerTo(current, result[current]) /\ "idle" # None
      BY <2>1, IpcAssumption DEF IInv, CallsAreSound
    <3>2. CallState' = CallState
      BY <2>2, Zenon DEF CallState
    <3> QED BY <1>1, <1>2, <2>1, <3>1, <3>2 DEF AnswerTo
  <2>4. Promise!Handle(current)
    BY <2>1, <2>2, <2>3 DEF Promise!Handle, CallState
  <2> QED BY <2>1, <2>4, Zenon DEF Promise!Next
<1>9. CASE UNCHANGED vars
  BY <1>4, <1>9, Zenon DEF vars
<1>10. CASE Reader \/ Register \/ Greet \/ ReadRequest \/ Hangup \/ DaemonStops \/ Publish \/ Relay
  BY <1>4, <1>10, Zenon DEF Reader, ReadEvent, ReadReply, ReaderStops, ReaderDrains, Register,
                            Greet, ReadRequest, Hangup, DaemonStops, Publish, Relay
<1> QED BY <1>7, <1>8, <1>9, <1>10, Zenon DEF Next, Session

\* The connection keeps its promise: the daemon handles a request at most once, and
\* a call returns once, with the answer to that request or with an error.
THEOREM KeepsPromise == Spec => ImplementsRequestReply
<1>1. Init => Promise!Init
  <2> SUFFICES ASSUME Init PROVE Promise!Init
    OBVIOUS
  <2>1. handled = {} /\ \A x \in Reqs : result[x] = None /\ call[x] = "idle"
    BY DEF Init
  <2> QED BY <2>1 DEF Promise!Init
<1>2. IInv /\ [Next]_vars => [Promise!Next]_(Promise!vars)
  BY PromiseStep
<1> QED BY <1>1, <1>2, Invariance, PTL DEF Spec, ImplementsRequestReply, Promise!Spec
=============================================================================
