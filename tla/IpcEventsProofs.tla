-------------------------- MODULE IpcEventsProofs --------------------------
(***************************************************************************)
(* Proofs about the events of an IPC connection (Ipc): on their whole way, *)
(* from the bus over the wire to the client, they stay in the order of     *)
(* their publication.                                                      *)
(***************************************************************************)
EXTENDS Ipc, SequenceTheorems, TLAPS

\* The frames on the wire to the client.
Frames == {Reply(r) : r \in Reqs \cup {None}} \cup {Event(n) : n \in 0 .. MaxEvents}

\* The types of what carries the events.
EventTypes ==
  /\ down \in Seq(Frames)
  /\ seen \in Seq(0 .. MaxEvents)
  /\ bus \in Seq(1 .. MaxEvents)
  /\ published \in 0 .. MaxEvents
  /\ session \in {"accepted", "greeting", "reading", "busy", "closed"}
  /\ current \in Reqs \cup {None} /\ up \in Seq(Reqs)

-----------------------------------------------------------------------------
(* The types.                                                              *)

\* A frame pushed to the client keeps the wire a sequence of frames.
LEMMA PushTypes ==
  ASSUME EventTypes, NEW frame \in Frames, Push(frame)
  PROVE  down' \in Seq(Frames)
BY DEF EventTypes, Push

\* A step of the connection keeps the types.
LEMMA TypesStep ==
  ASSUME EventTypes, [Next]_vars
  PROVE  EventTypes'
<1> USE DEF calls, client, daemon, events
<1>1. ASSUME NEW r \in Reqs, Request(r) PROVE EventTypes'
  <2>1. UNCHANGED <<seen, bus, published, down, session, current>>
    BY <1>1, Zenon DEF Request, Begin, Enqueue, Write, Recheck, Receive, TimesOut, FailAll
  <2>2. up' = up \/ up' = Append(up, r)
    BY <1>1, Zenon DEF Request, Begin, Enqueue, Write, Recheck, Receive, TimesOut, FailAll
  <2>3. up' \in Seq(Reqs)
    <3>1. up \in Seq(Reqs)
      BY DEF EventTypes
    <3>2. Append(up, r) \in Seq(Reqs)
      BY <3>1
    <3> QED BY <2>2, <3>1, <3>2, Zenon
  <2> QED BY <2>1, <2>3, Zenon DEF EventTypes
<1>2. CASE ReadEvent
  <2>1. /\ down # <<>> /\ Head(down).kind = "event" /\ down' = Tail(down)
        /\ seen' = Append(seen, Head(down).n)
        /\ UNCHANGED <<bus, published, session, current, up>>
    BY <1>2 DEF ReadEvent
  <2>2. Head(down) \in Frames /\ down' \in Seq(Frames)
    BY <2>1 DEF EventTypes
  <2>3. Head(down).n \in 0 .. MaxEvents
    BY <2>1, <2>2 DEF Frames, Reply, Event
  <2>4. seen' \in Seq(0 .. MaxEvents)
    BY <2>1, <2>3 DEF EventTypes
  <2> QED BY <2>1, <2>2, <2>4, Zenon DEF EventTypes
<1>3. CASE ReadReply
  <2>1. down # <<>> /\ down' = Tail(down) /\ UNCHANGED <<seen, bus, published, session, current, up>>
    BY <1>3 DEF ReadReply
  <2>2. down' \in Seq(Frames)
    BY <2>1 DEF EventTypes
  <2> QED BY <2>1, <2>2, Zenon DEF EventTypes
<1>4. CASE ReaderStops \/ ReaderDrains \/ Register \/ Hangup \/ UNCHANGED vars
  <2>1. UNCHANGED <<seen, bus, published, down, current, up>>
    BY <1>4, Zenon DEF ReaderStops, ReaderDrains, Register, Hangup, vars
  <2>2. session' \in {session, "greeting", "closed"}
    BY <1>4 DEF ReaderStops, ReaderDrains, Register, Hangup, vars
  <2> QED BY <2>1, <2>2 DEF EventTypes
<1>5. CASE Greet
  <2>1. Hello \in Frames
    BY IpcAssumption DEF Hello, Frames
  <2>2. /\ down' \in Seq(Frames) /\ session' = "reading"
        /\ UNCHANGED <<seen, bus, published, current, up>>
    BY <1>5, <2>1, PushTypes DEF Greet
  <2> QED BY <2>2 DEF EventTypes
<1>6. CASE ReadRequest
  <2>1. current' \in Reqs /\ up' \in Seq(Reqs)
    BY <1>6 DEF ReadRequest, EventTypes
  <2>2. session' = "busy" /\ UNCHANGED <<seen, bus, published, down>>
    BY <1>6 DEF ReadRequest
  <2> QED BY <2>1, <2>2 DEF EventTypes
<1>7. CASE Respond
  <2>1. Reply(current) \in Frames
    BY DEF EventTypes, Frames
  <2>2. down' \in Seq(Frames)
    BY <1>7, <2>1, PushTypes DEF Respond, EventTypes
  <2>3. /\ session' \in {"reading", "closed"} /\ current' = None
        /\ UNCHANGED <<seen, bus, published, up>>
    BY <1>7 DEF Respond
  <2> QED BY <2>2, <2>3 DEF EventTypes
<1>8. CASE DaemonStops
  <2>1. PICK c \in 0 .. Len(down) : down' = SubSeq(down, 1, c)
    BY <1>8 DEF DaemonStops
  <2>2. down' \in Seq(Frames)
    BY <2>1 DEF EventTypes
  <2>3. session' = "closed" /\ current' = None /\ UNCHANGED <<seen, bus, published, up>>
    BY <1>8 DEF DaemonStops
  <2> QED BY <2>2, <2>3 DEF EventTypes
<1>9. CASE Publish
  <2>1. /\ published < MaxEvents /\ published' = published + 1
        /\ bus' = Append(bus, published + 1) \/ (bus # <<>> /\ bus' = Append(Tail(bus), published + 1))
        /\ UNCHANGED <<down, seen, session, current, up>>
    BY <1>9, IpcAssumption DEF Publish, EventTypes
  <2>2. published' \in 1 .. MaxEvents
    BY <2>1, IpcAssumption DEF EventTypes
  <2>3. bus' \in Seq(1 .. MaxEvents)
    <3> DEFINE E == 1 .. MaxEvents
    <3>1. bus \in Seq(E) /\ published + 1 \in E
      BY <2>1, <2>2 DEF EventTypes
    <3> HIDE DEF E
    <3>2. bus # <<>> => Tail(bus) \in Seq(E)
      BY <3>1
    <3>3. \A q \in Seq(E) : Append(q, published + 1) \in Seq(E)
      BY <3>1
    <3>4. bus' \in Seq(E)
      BY <2>1, <3>1, <3>2, <3>3, Zenon
    <3> QED BY <3>4 DEF E
  <2> QED BY <2>1, <2>2, <2>3, IpcAssumption DEF EventTypes
<1>10. CASE Relay
  <2>1. bus # <<>> /\ bus' = Tail(bus) /\ UNCHANGED <<seen, published, session, current, up>>
    BY <1>10 DEF Relay
  <2>2. bus' \in Seq(1 .. MaxEvents) /\ Head(bus) \in 0 .. MaxEvents
    BY <2>1, IpcAssumption DEF EventTypes
  <2>3. Event(Head(bus)) \in Frames
    BY <2>2 DEF Frames
  <2>4. down' \in Seq(Frames)
    BY <1>10, <2>3, PushTypes DEF Relay, OldestEvent, EventTypes
  <2> QED BY <2>1, <2>2, <2>4, Zenon DEF EventTypes
<1> QED BY <1>1, <1>2, <1>3, <1>4, <1>5, <1>6, <1>7, <1>8, <1>9, <1>10, Zenon
         DEF Next, Reader, Session

\* They hold at first.
LEMMA InitialTypes ==
  ASSUME Init
  PROVE  EventTypes
BY IpcAssumption DEF Init, EventTypes

-----------------------------------------------------------------------------
(* The order.                                                              *)


\* The numbers of the bus's events; 0 is the Hello's.
Events == 1 .. MaxEvents

\* Event m has reached the client, or is on its way to it.
OnWay(m) == \E i \in DOMAIN down : down[i] = Event(m)
Arrived(m) == m \in Range(seen) \/ OnWay(m)

\* Events are in order where the client reads them and on the wire to it,
WireInOrder ==
  /\ \A i, j \in DOMAIN seen : (i < j /\ seen[i] > 0 /\ seen[j] > 0) => seen[i] < seen[j]
  /\ \A i, j \in DOMAIN down, m, n \in Events :
       (i < j /\ down[i] = Event(m) /\ down[j] = Event(n)) => m < n
  /\ \A i \in DOMAIN seen, n \in Events : OnWay(n) => seen[i] < n

\* on the bus, and the bus has only later ones.
BusInOrder ==
  /\ \A i, j \in DOMAIN bus : i < j => bus[i] < bus[j]
  /\ \A m \in Events, x \in Range(bus) : Arrived(m) => m < x
  /\ \A x \in Range(bus) : x <= published
  /\ \A m \in Events : Arrived(m) => m <= published
  /\ session = "accepted" => \A m \in Events : ~Arrived(m)

\* The relay still reaches the client.
Relaying == Open /\ reader # "gone"

\* And none is missing between two of them unless the relay lagged.
NoGaps ==
  ~lagged =>
    /\ \A x \in Range(bus) : \A n \in x .. published : n \in Range(bus)
    /\ Relaying =>
         \A m \in Events : \A n \in m .. published :
           Arrived(m) => Arrived(n) \/ n \in Range(bus)
    /\ \A m, k \in Events : \A n \in m .. k : Arrived(m) /\ Arrived(k) => Arrived(n)

EventInv == WireInOrder /\ BusInOrder /\ NoGaps

\* The order on the wire survives a change of the wire that keeps it.
LEMMA WireKept ==
  ASSUME WireInOrder, seen' = seen,
         \A m \in Events : OnWay(m)' => OnWay(m),
         \A i, j \in DOMAIN down', m, n \in Events :
           (i < j /\ down'[i] = Event(m) /\ down'[j] = Event(n)) =>
             \E k, l \in DOMAIN down : k < l /\ down[k] = Event(m) /\ down[l] = Event(n)
  PROVE  WireInOrder'
BY DEF WireInOrder

\* What holds of the bus survives a step that leaves it and what arrived alone.
LEMMA BusKept ==
  ASSUME BusInOrder, NoGaps, EventTypes, UNCHANGED <<bus, published, lagged>>,
         \A m \in Events : Arrived(m)' <=> Arrived(m),
         session' = "accepted" => session = "accepted", Relaying' => Relaying
  PROVE  BusInOrder' /\ NoGaps'
<1>1. BusInOrder'
  BY Zenon DEF BusInOrder
<1>2. \A m \in Events : /\ \A n \in m .. published : n \in Events
                       /\ \A k \in Events : \A n \in m .. k : n \in Events
  BY IpcAssumption DEF Events, EventTypes
<1>3. NoGaps'
  <2>1. CASE lagged
    BY <2>1 DEF NoGaps
  <2>2. CASE ~lagged
    <3>1. Range(bus)' = Range(bus) /\ published' = published
      BY Zenon
    <3>2. (\A x \in Range(bus) : \A n \in x .. published : n \in Range(bus))'
      BY <2>2, <3>1, Zenon DEF NoGaps
    <3>3. Relaying' => (\A m \in Events : \A n \in m .. published :
                          Arrived(m) => Arrived(n) \/ n \in Range(bus))'
      BY <1>2, <2>2, <3>1, Zenon DEF NoGaps
    <3>4. (\A m, k \in Events : \A n \in m .. k : Arrived(m) /\ Arrived(k) => Arrived(n))'
      BY <1>2, <2>2, Zenon DEF NoGaps
    <3> QED BY <3>2, <3>3, <3>4, Zenon DEF NoGaps
  <2> QED BY <2>1, <2>2
<1> QED BY <1>1, <1>3

\* A step that changes neither the events read nor the bus, and the wire not in its events.
LEMMA EventsKept ==
  ASSUME EventInv, EventTypes, UNCHANGED <<seen, bus, published, lagged>>,
         \A m \in Events : OnWay(m)' <=> OnWay(m),
         \A i, j \in DOMAIN down', m, n \in Events :
           (i < j /\ down'[i] = Event(m) /\ down'[j] = Event(n)) =>
             \E k, l \in DOMAIN down : k < l /\ down[k] = Event(m) /\ down[l] = Event(n),
         session' = "accepted" => session = "accepted", Relaying' => Relaying
  PROVE  EventInv'
<1>1. WireInOrder'
  BY WireKept, Zenon DEF EventInv
<1>2. \A m \in Events : Arrived(m)' <=> Arrived(m)
  BY Zenon DEF Arrived
<1>3. BusInOrder' /\ NoGaps'
  BY <1>2, BusKept, Zenon DEF EventInv
<1> QED BY <1>1, <1>3, Zenon DEF EventInv

\* The same wire has the same events on it.
LEMMA SameWire ==
  ASSUME EventInv, EventTypes, UNCHANGED <<seen, bus, published, lagged, down>>,
         session' = "accepted" => session = "accepted", Relaying' => Relaying
  PROVE  EventInv'
<1>1. \A m \in Events : OnWay(m)' <=> OnWay(m)
  BY Zenon DEF OnWay
<1>2. \A i, j \in DOMAIN down', m, n \in Events :
        (i < j /\ down'[i] = Event(m) /\ down'[j] = Event(n)) =>
          \E k, l \in DOMAIN down : k < l /\ down[k] = Event(m) /\ down[l] = Event(n)
  BY Zenon
<1> QED BY <1>1, <1>2, EventsKept, Zenon

\* Two events are the same when their numbers are.
LEMMA EventNumbers ==
  ASSUME NEW m, NEW n
  PROVE  /\ Event(m) = Event(n) <=> m = n
         /\ \A r : Reply(r) # Event(m)
         /\ Event(m).n = m /\ Event(m).kind = "event"
BY DEF Event, Reply

\* A frame that is no event of the bus joins the wire.
LEMMA OtherFrame ==
  ASSUME EventInv, EventTypes, NEW frame, Push(frame), \A m \in Events : frame # Event(m),
         UNCHANGED <<seen, bus, published, lagged>>,
         session' = "accepted" => session = "accepted", Relaying' => Relaying
  PROVE  EventInv'
<1>1. CASE reader = "gone"
  BY <1>1, SameWire DEF Push
<1>2. CASE reader # "gone"
  <2>1. down' = Append(down, frame)
    BY <1>2 DEF Push
  <2>2. /\ Len(down) \in Nat /\ DOMAIN down = 1 .. Len(down)
        /\ DOMAIN down' = 1 .. Len(down) + 1
        /\ \A i \in 1 .. Len(down) : down'[i] = down[i]
        /\ down'[Len(down) + 1] = frame
    BY <2>1 DEF EventTypes
  <2>3. \A i \in DOMAIN down', m \in Events : down'[i] = Event(m) => i \in DOMAIN down /\ down[i] = Event(m)
    BY <2>2
  <2>4. \A m \in Events : OnWay(m)' <=> OnWay(m)
    BY <2>2, <2>3 DEF OnWay
  <2>5. \A i, j \in DOMAIN down', m, n \in Events :
          (i < j /\ down'[i] = Event(m) /\ down'[j] = Event(n)) =>
            \E k, l \in DOMAIN down : k < l /\ down[k] = Event(m) /\ down[l] = Event(n)
    BY <2>3, Zenon
  <2> QED BY <2>4, <2>5, EventsKept, Zenon
<1> QED BY <1>1, <1>2

\* The events of a wire are numbers.
LEMMA SequenceFacts ==
  ASSUME EventTypes
  PROVE  /\ Len(seen) \in Nat /\ DOMAIN seen = 1 .. Len(seen)
         /\ Len(down) \in Nat /\ DOMAIN down = 1 .. Len(down)
         /\ Len(bus) \in Nat /\ DOMAIN bus = 1 .. Len(bus)
         /\ \A i \in DOMAIN seen : seen[i] \in 0 .. MaxEvents
         /\ \A i \in DOMAIN bus : bus[i] \in Events
         /\ published \in 0 .. MaxEvents /\ MaxEvents \in Nat
BY IpcAssumption DEF EventTypes, Events

\* A reply leaves the wire.
LEMMA ReplyRead ==
  ASSUME EventInv, EventTypes, ReadReply
  PROVE  EventInv'
<1>1. /\ down # <<>> /\ Head(down).kind = "reply" /\ down' = Tail(down)
      /\ UNCHANGED <<seen, bus, published, lagged, session, reader>>
  BY DEF ReadReply, daemon, events
<1>2. /\ DOMAIN down' = 1 .. Len(down) - 1 /\ Len(down) > 0 /\ down[1] = Head(down)
      /\ \A i \in DOMAIN down' : down'[i] = down[i + 1]
  BY <1>1 DEF EventTypes
<1>3. \A m \in Events : down[1] # Event(m)
  BY <1>1, <1>2, EventNumbers
<1>4. \A m \in Events : OnWay(m)' <=> OnWay(m)
  <2> SUFFICES ASSUME NEW m \in Events PROVE OnWay(m)' <=> OnWay(m)
    OBVIOUS
  <2>1. OnWay(m)' => OnWay(m)
    BY <1>2, SequenceFacts DEF OnWay
  <2>2. ASSUME OnWay(m) PROVE OnWay(m)'
    <3>1. PICK i \in DOMAIN down : down[i] = Event(m)
      BY <2>2 DEF OnWay
    <3>2. i - 1 \in DOMAIN down' /\ down'[i - 1] = Event(m)
      BY <1>2, <1>3, <3>1, SequenceFacts
    <3> QED BY <3>2, Zenon DEF OnWay
  <2> QED BY <2>1, <2>2
<1>5. \A i, j \in DOMAIN down', m, n \in Events :
        (i < j /\ down'[i] = Event(m) /\ down'[j] = Event(n)) =>
          \E k, l \in DOMAIN down : k < l /\ down[k] = Event(m) /\ down[l] = Event(n)
  <2> SUFFICES ASSUME NEW i \in DOMAIN down', NEW j \in DOMAIN down', NEW m \in Events, NEW n \in Events,
                      i < j, down'[i] = Event(m), down'[j] = Event(n)
               PROVE  \E k, l \in DOMAIN down : k < l /\ down[k] = Event(m) /\ down[l] = Event(n)
    OBVIOUS
  <2>1. /\ i + 1 \in DOMAIN down /\ j + 1 \in DOMAIN down /\ i + 1 < j + 1
        /\ down[i + 1] = Event(m) /\ down[j + 1] = Event(n)
    BY <1>2, SequenceFacts
  <2> QED BY <2>1, Zenon
<1>6. (session' = "accepted" => session = "accepted") /\ (Relaying' => Relaying)
  BY <1>1 DEF Relaying, Open
<1> QED BY <1>1, <1>4, <1>5, <1>6, EventsKept, Zenon

\* An event goes from the wire to the client.
LEMMA EventRead ==
  ASSUME EventInv, EventTypes, ReadEvent
  PROVE  EventInv'
<1> DEFINE h == Head(down).n
<1>1. /\ down # <<>> /\ Head(down).kind = "event" /\ down' = Tail(down)
      /\ seen' = Append(seen, h)
      /\ UNCHANGED <<bus, published, lagged, session, reader>>
  BY DEF ReadEvent, daemon, events
<1>2. /\ DOMAIN down' = 1 .. Len(down) - 1 /\ Len(down) > 0 /\ down[1] = Head(down)
      /\ \A i \in DOMAIN down' : down'[i] = down[i + 1]
  BY <1>1 DEF EventTypes
<1>3. down[1] = Event(h) /\ h \in 0 .. MaxEvents
  <2>1. down \in Seq(Frames)
    BY DEF EventTypes
  <2>2. down[1] \in Frames
    BY <1>2, <2>1
  <2> QED BY <1>1, <1>2, <2>2 DEF Frames, Reply, Event
<1> HIDE DEF h
<1>4. /\ DOMAIN seen' = 1 .. Len(seen) + 1 /\ seen'[Len(seen) + 1] = h
      /\ \A i \in DOMAIN seen : seen'[i] = seen[i]
  BY <1>1, <1>3 DEF EventTypes
<1>5. \A m \in Events : OnWay(m) <=> OnWay(m)' \/ m = h
  <2> SUFFICES ASSUME NEW m \in Events PROVE OnWay(m) <=> OnWay(m)' \/ m = h
    OBVIOUS
  <2>1. OnWay(m)' => OnWay(m)
    BY <1>2, SequenceFacts DEF OnWay
  <2>2. m = h => OnWay(m)
    BY <1>2, <1>3, SequenceFacts DEF OnWay
  <2>3. ASSUME OnWay(m), m # h PROVE OnWay(m)'
    <3>1. PICK i \in DOMAIN down : down[i] = Event(m)
      BY <2>3 DEF OnWay
    <3>2. i # 1
      BY <1>3, <2>3, <3>1, EventNumbers
    <3>3. i - 1 \in DOMAIN down' /\ down'[i - 1] = Event(m)
      BY <1>2, <3>1, <3>2, SequenceFacts
    <3> QED BY <3>3, Zenon DEF OnWay
  <2> QED BY <2>1, <2>2, <2>3
<1>6. \A m \in Events : m \in Range(seen)' <=> m \in Range(seen) \/ m = h
  BY <1>4, SequenceFacts DEF Range
<1>7. \A m \in Events : Arrived(m)' <=> Arrived(m)
  BY <1>5, <1>6, Zenon DEF Arrived
<1>8. (session' = "accepted" => session = "accepted") /\ (Relaying' => Relaying)
  BY <1>1 DEF Relaying, Open
<1>9. BusInOrder' /\ NoGaps'
  BY <1>1, <1>7, <1>8, BusKept, Zenon DEF EventInv
<1>10. \A i \in DOMAIN seen : h > 0 => seen[i] < h
  BY <1>3, <1>5, IpcAssumption DEF EventInv, WireInOrder, Events
<1>11. ASSUME NEW j \in DOMAIN down', NEW n \in Events, down'[j] = Event(n) PROVE h < n
  <2>1. CASE h = 0
    BY <2>1 DEF Events
  <2>2. CASE h # 0
    <3>1. 1 \in DOMAIN down /\ j + 1 \in DOMAIN down /\ 1 < j + 1 /\ down[j + 1] = Event(n) /\ h \in Events
      BY <1>2, <1>3, <1>11, <2>2, SequenceFacts DEF Events
    <3> QED BY <1>3, <3>1, Zenon DEF EventInv, WireInOrder
  <2> QED BY <2>1, <2>2
<1>12. WireInOrder'
  <2>1. ASSUME NEW i \in DOMAIN seen', NEW j \in DOMAIN seen', i < j, seen'[i] > 0, seen'[j] > 0
        PROVE  seen'[i] < seen'[j]
    <3>1. i \in DOMAIN seen /\ seen'[i] = seen[i]
      BY <1>4, <2>1, SequenceFacts
    <3>2. CASE j \in DOMAIN seen
      BY <1>4, <2>1, <3>1, <3>2 DEF EventInv, WireInOrder
    <3>3. CASE j \notin DOMAIN seen
      BY <1>4, <1>10, <2>1, <3>1, <3>3, SequenceFacts
    <3> QED BY <3>2, <3>3
  <2>2. ASSUME NEW i \in DOMAIN down', NEW j \in DOMAIN down', NEW m \in Events, NEW n \in Events,
               i < j, down'[i] = Event(m), down'[j] = Event(n)
        PROVE  m < n
    <3>1. /\ i + 1 \in DOMAIN down /\ j + 1 \in DOMAIN down /\ i + 1 < j + 1
          /\ down[i + 1] = Event(m) /\ down[j + 1] = Event(n)
      BY <1>2, <2>2, SequenceFacts
    <3> QED BY <3>1, Zenon DEF EventInv, WireInOrder
  <2>3. ASSUME NEW i \in DOMAIN seen', NEW n \in Events, OnWay(n)' PROVE seen'[i] < n
    <3>1. h < n
      BY <1>11, <2>3, Zenon DEF OnWay
    <3>2. CASE i \in DOMAIN seen
      BY <1>4, <1>5, <2>3, <3>2, Zenon DEF EventInv, WireInOrder
    <3>3. CASE i \notin DOMAIN seen
      BY <1>4, <3>1, <3>3, SequenceFacts
    <3> QED BY <3>2, <3>3
  <2> QED BY <2>1, <2>2, <2>3 DEF WireInOrder
<1> QED BY <1>9, <1>12, Zenon DEF EventInv

\* The daemon stops: the end of the wire is lost, and nothing is relayed any more.
LEMMA WireCut ==
  ASSUME EventInv, EventTypes, DaemonStops
  PROVE  EventInv'
<1>1. PICK c \in 0 .. Len(down) : down' = SubSeq(down, 1, c)
  BY DEF DaemonStops
<1>2. session' = "closed" /\ UNCHANGED <<seen, bus, published, lagged, reader>>
  BY DEF DaemonStops, client, events
<1>3. DOMAIN down' = 1 .. c /\ \A i \in 1 .. c : i \in DOMAIN down /\ down'[i] = down[i]
  BY <1>1, SequenceFacts DEF EventTypes
<1>4. \A m \in Events : OnWay(m)' => OnWay(m)
  BY <1>3, Zenon DEF OnWay
<1>5. WireInOrder'
  <2>1. \A i, j \in DOMAIN down', m, n \in Events :
          (i < j /\ down'[i] = Event(m) /\ down'[j] = Event(n)) =>
            \E k, l \in DOMAIN down : k < l /\ down[k] = Event(m) /\ down[l] = Event(n)
    BY <1>3, Zenon
  <2> QED BY <1>2, <1>4, <2>1, WireKept, Zenon DEF EventInv
<1>6. \A m \in Events : Arrived(m)' => Arrived(m)
  BY <1>2, <1>4, Zenon DEF Arrived
<1>7. BusInOrder'
  BY <1>2, <1>6, Zenon DEF EventInv, BusInOrder
<1>8. ASSUME NEW m \in Events, NEW k \in Events, NEW n \in m .. k, ~lagged, Arrived(m)', Arrived(k)'
      PROVE  Arrived(n)'
  <2>1. n \in Events /\ n <= k
    BY SequenceFacts DEF Events
  <2>2. Arrived(n)
    BY <1>6, <1>8, Zenon DEF EventInv, NoGaps
  <2>3. CASE n \in Range(seen)
    BY <1>2, <2>3, Zenon DEF Arrived
  <2>4. CASE n \notin Range(seen)
    <3>1. PICK j \in DOMAIN down : down[j] = Event(n)
      BY <2>2, <2>4 DEF Arrived, OnWay
    <3>2. OnWay(n)
      BY <3>1 DEF OnWay
    <3>3. k \notin Range(seen)
      BY <2>1, <3>2 DEF EventInv, WireInOrder, Range, Events
    <3>4. PICK i \in DOMAIN down' : down'[i] = Event(k)
      BY <1>2, <1>8, <3>3 DEF Arrived, OnWay
    <3>5. i \in DOMAIN down /\ down[i] = Event(k) /\ i \in 1 .. c
      BY <1>3, <3>4
    <3>6. ~(i < j)
      BY <2>1, <3>1, <3>5 DEF EventInv, WireInOrder, Events
    <3>7. j \in DOMAIN down' /\ down'[j] = Event(n)
      BY <1>3, <3>1, <3>5, <3>6, SequenceFacts
    <3> QED BY <3>7, Zenon DEF Arrived, OnWay
  <2> QED BY <2>3, <2>4
<1>9. ~Relaying'
  BY <1>2 DEF Relaying, Open
<1>10. NoGaps'
  <2>1. Range(bus)' = Range(bus) /\ published' = published /\ lagged' = lagged
    BY <1>2, Zenon
  <2> QED BY <1>8, <1>9, <2>1, Zenon DEF EventInv, NoGaps
<1> QED BY <1>5, <1>7, <1>10, Zenon DEF EventInv

\* An event joins the bus.
LEMMA EventPublished ==
  ASSUME EventInv, EventTypes, Publish
  PROVE  EventInv'
<1> DEFINE p == published + 1
<1>1. published < MaxEvents /\ published' = p /\ UNCHANGED <<seen, down, session, reader>>
  BY DEF Publish, client, daemon
<1>2. p \in Events /\ p > published
  BY <1>1, SequenceFacts DEF Events
<1>3. \A m \in Events : Arrived(m)' <=> Arrived(m)
  BY <1>1, Zenon DEF Arrived, OnWay
<1>4. WireInOrder'
  BY <1>1, Zenon DEF EventInv, WireInOrder, OnWay
<1>5. ASSUME NEW q \in Seq(Events), bus' = Append(q, p),
             \A i, j \in DOMAIN q : i < j => q[i] < q[j], Range(q) \subseteq Range(bus)
      PROVE  BusInOrder' /\ Range(bus)' = Range(q) \cup {p}
  <2>1. /\ DOMAIN q = 1 .. Len(q) /\ Len(q) \in Nat /\ DOMAIN bus' = 1 .. Len(q) + 1
        /\ bus'[Len(q) + 1] = p /\ \A i \in DOMAIN q : bus'[i] = q[i] /\ q[i] \in Range(q)
    BY <1>2, <1>5 DEF Range
  <2>2. Range(bus)' = Range(q) \cup {p}
    BY <2>1 DEF Range
  <2>3. \A x \in Range(q) : x <= published
    BY <1>5 DEF EventInv, BusInOrder
  <2>4. ASSUME NEW i \in DOMAIN bus', NEW j \in DOMAIN bus', i < j PROVE bus'[i] < bus'[j]
    <3>1. i \in DOMAIN q /\ bus'[i] = q[i] /\ q[i] <= published /\ q[i] \in Events
      BY <1>5, <2>1, <2>3, <2>4
    <3>2. CASE j \in DOMAIN q
      BY <1>5, <2>1, <2>4, <3>1, <3>2
    <3>3. CASE j \notin DOMAIN q
      BY <1>2, <2>1, <3>1, <3>3, SequenceFacts DEF Events
    <3> QED BY <3>2, <3>3
  <2>5. ASSUME NEW m \in Events, NEW x \in Range(bus)', Arrived(m)' PROVE m < x
    <3>1. Arrived(m) /\ m <= published
      BY <1>3, <2>5 DEF EventInv, BusInOrder
    <3>2. CASE x \in Range(q)
      BY <1>5, <3>1, <3>2 DEF EventInv, BusInOrder
    <3>3. CASE x = p
      BY <1>2, <3>1, <3>3, SequenceFacts DEF Events
    <3> QED BY <2>2, <2>5, <3>2, <3>3
  <2>6. \A x \in Range(bus)' : x <= published'
    <3>1. \A x \in Range(q) : x \in Events
      BY <2>1 DEF Range
    <3> QED BY <1>1, <1>2, <2>2, <2>3, <3>1, SequenceFacts DEF Events
  <2>7. \A m \in Events : Arrived(m)' => m <= published'
    <3>1. \A m \in Events : Arrived(m)' => m <= published
      BY <1>3 DEF EventInv, BusInOrder
    <3> QED BY <1>1, <3>1, SequenceFacts DEF Events
  <2>8. session' = "accepted" => \A m \in Events : ~Arrived(m)'
    BY <1>1, <1>3, Zenon DEF EventInv, BusInOrder
  <2>9. BusInOrder'
    BY <2>4, <2>5, <2>6, <2>7, <2>8, Zenon DEF BusInOrder
  <2> QED BY <2>2, <2>9
<1>6. CASE Len(bus) < BusCapacity
  <2>1. bus' = Append(bus, p) /\ lagged' = lagged
    BY <1>6 DEF Publish
  <2>2. BusInOrder' /\ Range(bus)' = Range(bus) \cup {p}
    <3>1. bus \in Seq(Events) /\ \A i, j \in DOMAIN bus : i < j => bus[i] < bus[j]
      BY DEF EventTypes, Events, EventInv, BusInOrder
    <3> HIDE DEF p
    <3> QED BY <1>5, <2>1, <3>1, Zenon
  <2>3. ASSUME ~lagged' PROVE
          /\ \A x \in Range(bus)' : \A n \in x .. published' : n \in Range(bus)'
          /\ Relaying' => \A m \in Events : \A n \in m .. published' :
                            Arrived(m)' => Arrived(n)' \/ n \in Range(bus)'
          /\ \A m, k \in Events : \A n \in m .. k : Arrived(m)' /\ Arrived(k)' => Arrived(n)'
    <3>1. ~lagged
      BY <2>1, <2>3
    <3>2. ASSUME NEW x \in Range(bus)', NEW n \in x .. published', n # p PROVE n \in Range(bus)
      <4>1. \A y \in Range(bus) : y \in Events
        BY SequenceFacts DEF Range
      <4>2. x \in Events
        BY <1>2, <2>2, <4>1
      <4>3. n <= published /\ x # p /\ n \in x .. published
        BY <1>1, <3>2, <4>2, SequenceFacts DEF Events
      <4> QED BY <2>2, <3>1, <4>3 DEF EventInv, NoGaps
    <3>3. ASSUME Relaying', NEW m \in Events, NEW n \in m .. published', Arrived(m)', n # p
          PROVE  Arrived(n)' \/ n \in Range(bus)
      <4>1. Relaying /\ Arrived(m)
        BY <1>1, <1>3, <3>3, Zenon DEF Relaying, Open
      <4>2. n \in m .. published /\ n \in Events
        BY <1>1, <3>3, SequenceFacts DEF Events
      <4> QED BY <1>3, <3>1, <4>1, <4>2, Zenon DEF EventInv, NoGaps
    <3>4. ASSUME NEW m \in Events, NEW k \in Events, NEW n \in m .. k, Arrived(m)', Arrived(k)'
          PROVE  Arrived(n)'
      <4>1. n \in Events
        BY SequenceFacts DEF Events
      <4> QED BY <1>3, <3>1, <3>4, <4>1, Zenon DEF EventInv, NoGaps
    <3> HIDE DEF p
    <3> QED BY <2>2, <3>2, <3>3, <3>4, Zenon
  <2>4. NoGaps'
    BY <2>3, Zenon DEF NoGaps
  <2> QED BY <1>4, <2>2, <2>4, Zenon DEF EventInv
<1>7. CASE ~(Len(bus) < BusCapacity)
  <2>1. bus' = Append(Tail(bus), p) /\ lagged'
    BY <1>7 DEF Publish
  <2>2. bus # <<>>
    BY <1>7, IpcAssumption DEF EventTypes
  <2>3. Tail(bus) \in Seq(Events) /\ Len(Tail(bus)) = Len(bus) - 1
        /\ \A i \in DOMAIN Tail(bus) : i + 1 \in DOMAIN bus /\ Tail(bus)[i] = bus[i + 1]
    BY <2>2 DEF EventTypes, Events
  <2>4. /\ \A i, j \in DOMAIN Tail(bus) : i < j => Tail(bus)[i] < Tail(bus)[j]
        /\ Range(Tail(bus)) \subseteq Range(bus)
    <3>1. \A i, j \in DOMAIN bus : i < j => bus[i] < bus[j]
      BY DEF EventInv, BusInOrder
    <3>2. DOMAIN Tail(bus) \subseteq Nat
      BY <2>3
    <3> QED BY <2>3, <3>1, <3>2 DEF Range
  <2>5. BusInOrder'
    <3> HIDE DEF p
    <3> QED BY <1>5, <2>1, <2>3, <2>4, Zenon
  <2>6. NoGaps'
    BY <2>1 DEF NoGaps
  <2> QED BY <1>4, <2>5, <2>6, Zenon DEF EventInv
<1> QED BY <1>6, <1>7

\* The relay moves the oldest event of the bus to the wire, or drops it.
LEMMA EventRelayed ==
  ASSUME EventInv, EventTypes, Relay
  PROVE  EventInv'
<1> DEFINE h == Head(bus)
<1>1. /\ Open /\ bus # <<>> /\ bus' = Tail(bus)
      /\ IF Registered THEN Push(Event(h)) ELSE UNCHANGED down
      /\ UNCHANGED <<seen, published, lagged, session, reader>>
  BY DEF Relay, OldestEvent, client, daemon
<1>2. /\ Len(bus) > 0 /\ DOMAIN bus' = 1 .. Len(bus) - 1 /\ bus[1] = h /\ h \in Events
      /\ \A i \in DOMAIN bus' : bus'[i] = bus[i + 1]
  <2>1. bus \in Seq(Events)
    BY DEF EventTypes, Events
  <2> QED BY <1>1, <2>1
<1> HIDE DEF h
<1>3. \A x \in Range(bus)' : h < x /\ x \in Range(bus) /\ x \in Events
  <2> SUFFICES ASSUME NEW i \in DOMAIN bus' PROVE h < bus'[i] /\ bus'[i] \in Range(bus) /\ bus'[i] \in Events
    BY DEF Range
  <2>1. 1 \in DOMAIN bus /\ i + 1 \in DOMAIN bus /\ 1 < i + 1
    BY <1>2, SequenceFacts
  <2>2. bus[1] < bus[i + 1]
    BY <2>1, Zenon DEF EventInv, BusInOrder
  <2> QED BY <1>2, <2>1, <2>2, SequenceFacts DEF Range
<1>4. h \in Range(bus) /\ \A x \in Range(bus) : x = h \/ x \in Range(bus)'
  <2>1. h \in Range(bus)
    BY <1>2, SequenceFacts DEF Range
  <2>2. ASSUME NEW i \in DOMAIN bus PROVE bus[i] = h \/ bus[i] \in Range(bus)'
    <3>1. CASE i = 1
      BY <1>2, <3>1
    <3>2. CASE i # 1
      <4>1. i - 1 \in DOMAIN bus' /\ bus'[i - 1] = bus[i]
        BY <1>2, <3>2, SequenceFacts
      <4> QED BY <4>1 DEF Range
    <3> QED BY <3>1, <3>2
  <2> QED BY <2>1, <2>2 DEF Range
<1>5. \A i, j \in DOMAIN bus' : i < j => bus'[i] < bus'[j]
  <2> SUFFICES ASSUME NEW i \in DOMAIN bus', NEW j \in DOMAIN bus', i < j PROVE bus'[i] < bus'[j]
    OBVIOUS
  <2>1. i + 1 \in DOMAIN bus /\ j + 1 \in DOMAIN bus /\ i + 1 < j + 1
    BY <1>2, SequenceFacts
  <2>2. bus[i + 1] < bus[j + 1]
    BY <2>1, Zenon DEF EventInv, BusInOrder
  <2> QED BY <1>2, <2>2
<1>6. h <= published /\ \A m \in Events : Arrived(m) => m < h
  BY <1>4, Zenon DEF EventInv, BusInOrder
<1>7. ~lagged => \A x \in Range(bus)' : \A n \in x .. published' : n \in Range(bus)'
  <2> SUFFICES ASSUME ~lagged, NEW x \in Range(bus)', NEW n \in x .. published PROVE n \in Range(bus)'
    BY <1>1, Zenon
  <2>1. n \in Range(bus)
    BY <1>3, Zenon DEF EventInv, NoGaps
  <2>2. n # h
    BY <1>2, <1>3, SequenceFacts DEF Events
  <2> QED BY <1>4, <2>1, <2>2
<1>8. \A x \in Range(bus)' : x <= published'
  BY <1>1, <1>3, Zenon DEF EventInv, BusInOrder
<1>9. CASE Registered /\ reader # "gone"
  <2>1. down' = Append(down, Event(h))
    BY <1>1, <1>9 DEF Push
  <2>2. /\ DOMAIN down' = 1 .. Len(down) + 1 /\ down'[Len(down) + 1] = Event(h)
        /\ \A i \in DOMAIN down : down'[i] = down[i]
    BY <2>1 DEF EventTypes
  <2>3. \A m \in Events : OnWay(m)' <=> OnWay(m) \/ m = h
    <3>1. \A m \in Events : Event(h) = Event(m) <=> m = h
      BY EventNumbers
    <3> QED BY <2>2, <3>1, SequenceFacts DEF OnWay
  <2>4. \A m \in Events : Arrived(m)' <=> Arrived(m) \/ m = h
    BY <1>1, <2>3, Zenon DEF Arrived
  <2>5. WireInOrder'
    <3>1. \A i, j \in DOMAIN seen' : (i < j /\ seen'[i] > 0 /\ seen'[j] > 0) => seen'[i] < seen'[j]
      BY <1>1, Zenon DEF EventInv, WireInOrder
    <3>2. ASSUME NEW i \in DOMAIN down', NEW j \in DOMAIN down', NEW m \in Events, NEW n \in Events,
                 i < j, down'[i] = Event(m), down'[j] = Event(n)
          PROVE  m < n
      <4>1. i \in DOMAIN down /\ down[i] = Event(m)
        BY <2>2, <3>2, SequenceFacts
      <4>2. CASE j \in DOMAIN down
        BY <2>2, <3>2, <4>1, <4>2, Zenon DEF EventInv, WireInOrder
      <4>3. CASE j \notin DOMAIN down
        <5>1. down'[j] = Event(h)
          BY <2>2, <4>3, SequenceFacts
        <5>2. n = h
          BY <3>2, <5>1, EventNumbers
        <5>3. Arrived(m)
          BY <4>1, Zenon DEF Arrived, OnWay
        <5> QED BY <1>6, <5>2, <5>3
      <4> QED BY <4>2, <4>3
    <3>3. ASSUME NEW i \in DOMAIN seen', NEW n \in Events, OnWay(n)' PROVE seen'[i] < n
      <4>1. i \in DOMAIN seen /\ seen'[i] = seen[i] /\ seen[i] \in 0 .. MaxEvents
        BY <1>1, SequenceFacts
      <4>2. CASE OnWay(n)
        BY <4>1, <4>2, Zenon DEF EventInv, WireInOrder
      <4>3. CASE n = h
        <5>1. seen[i] # 0 => seen[i] \in Events /\ Arrived(seen[i])
          BY <4>1, SequenceFacts DEF Events, Arrived, Range
        <5> QED BY <1>6, <4>1, <4>3, <5>1 DEF Events
      <4> QED BY <2>3, <3>3, <4>2, <4>3
    <3> QED BY <3>1, <3>2, <3>3, Zenon DEF WireInOrder
  <2>6. BusInOrder'
    <3>1. \A m \in Events, x \in Range(bus)' : Arrived(m)' => m < x
      BY <1>3, <2>4, Zenon DEF EventInv, BusInOrder
    <3>2. \A m \in Events : Arrived(m)' => m <= published'
      BY <1>1, <1>6, <2>4, Zenon DEF EventInv, BusInOrder
    <3>3. session' # "accepted"
      BY <1>1, <1>9 DEF Registered
    <3> QED BY <1>5, <1>8, <3>1, <3>2, <3>3, Zenon DEF BusInOrder
  <2>7. ASSUME ~lagged, NEW m \in Events, NEW n \in m .. published, Arrived(m)'
        PROVE  Arrived(n)' \/ n \in Range(bus)'
    <3>1. n \in Events
      BY SequenceFacts DEF Events
    <3>2. Arrived(n) \/ n \in Range(bus)
      <4>1. CASE Arrived(m)
        BY <1>1, <1>9, <2>7, <4>1, Zenon DEF EventInv, NoGaps, Relaying
      <4>2. CASE m = h
        BY <1>4, <2>7, <4>2, Zenon DEF EventInv, NoGaps
      <4> QED BY <2>4, <2>7, <4>1, <4>2
    <3> QED BY <1>4, <2>4, <3>1, <3>2, Zenon
  <2>8. ASSUME ~lagged, NEW m \in Events, NEW k \in Events, NEW n \in m .. k, Arrived(m)', Arrived(k)'
        PROVE  Arrived(n)'
    <3>1. n \in Events /\ m <= n /\ n <= k
      BY SequenceFacts DEF Events
    <3>2. CASE Arrived(m) /\ Arrived(k)
      BY <2>4, <2>8, <3>1, <3>2, Zenon DEF EventInv, NoGaps
    <3>3. CASE m = h
      <4>1. Arrived(k) => k < h
        BY <1>6
      <4>2. k = h /\ n = h
        BY <1>2, <2>4, <2>8, <3>1, <3>3, <4>1, SequenceFacts DEF Events
      <4> QED BY <2>4, <3>1, <4>2
    <3>4. CASE k = h
      <4>1. n \in m .. published'
        BY <1>1, <1>2, <1>6, <3>1, <3>4, SequenceFacts DEF Events
      <4>2. Arrived(n)' \/ n \in Range(bus)'
        BY <1>1, <2>7, <2>8, <4>1
      <4>3. n \notin Range(bus)'
        BY <1>2, <1>3, <3>1, <3>4, SequenceFacts DEF Events
      <4> QED BY <4>2, <4>3
    <3> QED BY <2>4, <2>8, <3>2, <3>3, <3>4
  <2>9. NoGaps'
    BY <1>1, <1>7, <2>7, <2>8, Zenon DEF NoGaps
  <2> QED BY <2>5, <2>6, <2>9, Zenon DEF EventInv
<1>10. CASE ~(Registered /\ reader # "gone")
  <2>1. down' = down
    BY <1>1, <1>10 DEF Push
  <2>2. \A m \in Events : Arrived(m)' <=> Arrived(m)
    BY <1>1, <2>1, Zenon DEF Arrived, OnWay
  <2>3. WireInOrder'
    BY <1>1, <2>1, Zenon DEF EventInv, WireInOrder, OnWay
  <2>4. BusInOrder'
    BY <1>1, <1>3, <1>5, <1>8, <2>2, Zenon DEF EventInv, BusInOrder
  <2>5. Relaying' => \A m \in Events : ~Arrived(m)'
    <3>1. Relaying' => session = "accepted"
      BY <1>1, <1>10 DEF Relaying, Open, Registered, EventTypes
    <3> QED BY <2>2, <3>1, Zenon DEF EventInv, BusInOrder
  <2>6. ASSUME ~lagged, NEW m \in Events, NEW k \in Events, NEW n \in m .. k, Arrived(m)', Arrived(k)'
        PROVE  Arrived(n)'
    <3>1. n \in Events
      BY SequenceFacts DEF Events
    <3> QED BY <2>2, <2>6, <3>1, Zenon DEF EventInv, NoGaps
  <2>7. NoGaps'
    BY <1>1, <1>7, <2>5, <2>6, Zenon DEF NoGaps
  <2> QED BY <2>3, <2>4, <2>7, Zenon DEF EventInv
<1> QED BY <1>9, <1>10

\* A step of the connection keeps the order of the events.
LEMMA EventStep ==
  ASSUME EventInv, EventTypes, [Next]_vars
  PROVE  EventInv'
<1> USE DEF calls, client, daemon, events
<1>1. ASSUME UNCHANGED <<seen, bus, published, lagged, down>>,
             session' = "accepted" => session = "accepted", Relaying' => Relaying
      PROVE  EventInv'
  BY <1>1, SameWire, Zenon
<1>2. ASSUME NEW r \in Reqs, Request(r) PROVE EventInv'
  <2>1. UNCHANGED <<seen, bus, published, lagged, down, session, reader>>
    BY <1>2, Zenon DEF Request, Begin, Enqueue, Write, Recheck, Receive, TimesOut, FailAll
  <2> QED BY <1>1, <2>1, Zenon DEF Relaying, Open
<1>3. CASE ReaderStops \/ ReaderDrains
  <2>1. UNCHANGED <<seen, bus, published, lagged, down, session>> /\ reader # "gone"
    BY <1>3 DEF ReaderStops, ReaderDrains
  <2> QED BY <1>1, <2>1, Zenon DEF Relaying, Open
<1>4. CASE Register \/ ReadRequest \/ Hangup
  <2>1. /\ UNCHANGED <<seen, bus, published, lagged, down, reader>>
        /\ session # "closed" /\ session' # "accepted"
    BY <1>4 DEF Register, ReadRequest, Hangup
  <2> QED BY <1>1, <2>1, Zenon DEF Relaying, Open
<1>5. CASE Greet
  <2>1. /\ UNCHANGED <<seen, bus, published, lagged, reader>> /\ Push(Event(0))
        /\ session # "closed" /\ session' # "accepted"
    BY <1>5 DEF Greet, Hello
  <2>2. \A m \in Events : Event(0) # Event(m)
    BY EventNumbers DEF Events
  <2>3. Relaying' => Relaying
    BY <2>1, Zenon DEF Relaying, Open
  <2> QED BY <2>1, <2>2, <2>3, OtherFrame, Zenon
<1>6. CASE Respond
  <2>1. /\ UNCHANGED <<seen, bus, published, lagged, reader>> /\ session = "busy"
        /\ session' # "accepted" /\ (Push(Reply(current)) \/ UNCHANGED down)
    BY <1>6 DEF Respond
  <2>2. \A m \in Events : Reply(current) # Event(m)
    BY EventNumbers, Zenon
  <2>3. Relaying' => Relaying
    BY <2>1 DEF Relaying, Open
  <2> QED BY <1>1, <2>1, <2>2, <2>3, OtherFrame, Zenon
<1>7. CASE UNCHANGED vars
  <2>1. UNCHANGED <<seen, bus, published, lagged, down, session, reader>>
    BY <1>7, Zenon DEF vars
  <2> QED BY <1>1, <2>1, Zenon DEF Relaying, Open
<1> QED BY <1>2, <1>3, <1>4, <1>5, <1>6, <1>7, ReplyRead, EventRead, WireCut, EventPublished, EventRelayed, Zenon
         DEF Next, Reader, Session

\* At first there are no events.
LEMMA InitialEvents ==
  ASSUME Init
  PROVE  EventInv
<1>1. seen = <<>> /\ down = <<>> /\ bus = <<>>
  BY DEF Init
<1>2. DOMAIN seen = {} /\ DOMAIN down = {} /\ DOMAIN bus = {}
  BY <1>1
<1>3. Range(seen) = {} /\ Range(bus) = {}
  BY <1>2 DEF Range
<1>4. \A m \in Events : ~Arrived(m)
  BY <1>2, <1>3, Zenon DEF Arrived, OnWay
<1> QED BY <1>2, <1>3, <1>4, Zenon DEF EventInv, WireInOrder, BusInOrder, NoGaps, OnWay

\* The order on the way of the events is the order in which the client reads them.
LEMMA ReadInOrder ==
  ASSUME EventInv, EventTypes
  PROVE  EventsInOrder
<1> SUFFICES ASSUME NEW i \in DOMAIN seen, NEW j \in DOMAIN seen, i < j, seen[i] > 0, seen[j] > 0
             PROVE  /\ seen[i] < seen[j]
                    /\ ~lagged => (seen[i] .. seen[j]) \subseteq Range(seen)
  BY DEF EventsInOrder
<1>1. seen[i] < seen[j]
  BY Zenon DEF EventInv, WireInOrder
<1>2. ASSUME ~lagged, NEW n \in seen[i] .. seen[j] PROVE n \in Range(seen)
  <2>1. /\ seen[i] \in Events /\ seen[j] \in Events /\ n \in Events /\ ~(seen[j] < n)
    BY SequenceFacts DEF Events
  <2>2. Arrived(seen[i]) /\ Arrived(seen[j])
    BY DEF Arrived, Range
  <2>3. Arrived(n)
    BY <1>2, <2>1, <2>2, Zenon DEF EventInv, NoGaps
  <2>4. ~OnWay(n)
    BY <2>1, Zenon DEF EventInv, WireInOrder
  <2> QED BY <2>3, <2>4 DEF Arrived
<1> QED BY <1>1, <1>2

\* A client reads the daemon's events in the order of their publication, and all of
\* those between the first and the last it reads unless the relay lagged.
THEOREM EventsStayInOrder == Spec => []EventsInOrder
<1>1. Init => EventTypes /\ EventInv
  BY InitialTypes, InitialEvents
<1>2. EventTypes /\ EventInv /\ [Next]_vars => EventTypes' /\ EventInv'
  BY TypesStep, EventStep
<1>3. EventTypes /\ EventInv => EventsInOrder
  BY ReadInOrder
<1> QED BY <1>1, <1>2, <1>3, PTL DEF Spec
=============================================================================
