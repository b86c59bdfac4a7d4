-------------------------------- MODULE Ipc ---------------------------------
(***************************************************************************)
(* One IPC connection between a user interface and the daemon: the Client  *)
(* with its concurrent callers and its reader task (ipc/client.rs), the    *)
(* daemon's session for it (handle_connection), and the relay that copies  *)
(* bus events to every client (dispatch_events, ipc/server.rs).            *)
(*                                                                         *)
(* Requests carry no identifier.  A reply belongs to the oldest entry of   *)
(* `pending`, so everything rests on that queue and the wire being in the  *)
(* same order, also while the connection is being declared dead.           *)
(*                                                                         *)
(* Each request of Reqs is made by one call.  A call's steps end where it  *)
(* waits or where it touches state that others touch: the `dead` flag, the *)
(* write lock, the `pending` queue.  The session's outbound queue and the  *)
(* socket behind it are one queue of frames: one task moves them, in order.*)
(***************************************************************************)
EXTENDS Naturals, Sequences, Functions

CONSTANTS
  Reqs,         \* the requests that are made
  None,
  Failed,       \* Error::Closed, a write error or the 10 s timeout
  MaxEvents,    \* bound: events published
  BusCapacity,  \* BUS_CAPACITY: events the relay may be behind
  WireCap       \* requests the socket takes while nobody reads it

ASSUME IpcAssumption ==
  /\ MaxEvents \in Nat
  /\ BusCapacity \in Nat \ {0}
  /\ WireCap \in Nat \ {0}
  /\ None # Failed /\ {None, Failed} \cap Reqs = {}
  /\ {"idle", "open"} \cap (Reqs \cup {None, Failed}) = {}

VARIABLES
  call,       \* where each call is
  slot,       \* what the call's oneshot holds
  result,     \* what the call returned
  lock,       \* the holder of Connection.write
  pending,    \* Connection.pending
  dead,       \* Connection.dead
  reader,     \* the reader task: "up", "draining", "gone"
  up,         \* requests on the wire
  session,    \* the daemon's session
  current,    \* the request its handler is working on
  handled,    \* the requests handled so far
  down,       \* frames on their way to the client
  bus,        \* events the relay has not taken yet
  published,  \* number of events published
  lagged,     \* the relay has skipped events
  seen        \* the Hello (0) and the events the client received

vars == <<call, slot, result, lock, pending, dead, reader, up, session, current,
          handled, down, bus, published, lagged, seen>>

calls  == <<call, slot, result>>
client == <<lock, pending, dead, reader, seen>>
daemon == <<session, current, handled>>
events == <<bus, published, lagged>>

-----------------------------------------------------------------------------

Reply(r) == [kind |-> "reply", of |-> r, n |-> 0]
Event(n) == [kind |-> "event", of |-> None, n |-> n]
Hello    == Event(0)

Open == session # "closed"

\* The sink stays registered for broadcasts until the session's tear-down.
Registered == session \in {"greeting", "reading", "busy"}

Init ==
  /\ call = [r \in Reqs |-> "idle"]
  /\ slot = [r \in Reqs |-> None]
  /\ result = [r \in Reqs |-> None]
  /\ lock = None /\ pending = <<>> /\ dead = FALSE /\ reader = "up" /\ seen = <<>>
  /\ up = <<>> /\ down = <<>>
  /\ session = "accepted" /\ current = None /\ handled = {}
  /\ bus = <<>> /\ published = 0 /\ lagged = FALSE

Goto(r, pc) == call' = [call EXCEPT ![r] = pc]

Return(r, value) ==
  /\ Goto(r, "returned")
  /\ result' = [result EXCEPT ![r] = value]

-----------------------------------------------------------------------------
(* Client::request.                                                        *)

\* The fail-fast check of `dead`.
Begin(r) ==
  /\ call[r] = "idle"
  /\ IF dead THEN Return(r, Failed)
             ELSE Goto(r, "locking") /\ UNCHANGED result
  /\ UNCHANGED <<slot, client, up, daemon, down, events>>

\* (mutant) the waiter is queued before the write lock is taken
EnqueueEarly(r) ==
  \/ /\ call[r] = "locking"
     /\ r \notin Range(pending)
     /\ pending' = Append(pending, r)
     /\ UNCHANGED <<calls, lock, dead, reader, seen, up, daemon, down, events>>
  \/ /\ call[r] = "locking"
     /\ r \in Range(pending)
     /\ lock = None
     /\ lock' = r
     /\ Goto(r, "writing")
     /\ UNCHANGED <<slot, result, pending, dead, reader, seen, up, daemon, down, events>>

\* The waiter is queued under the write lock.
Enqueue(r) ==
  /\ call[r] = "locking"
  /\ lock = None
  /\ lock' = r
  /\ pending' = Append(pending, r)
  /\ Goto(r, "writing")
  /\ UNCHANGED <<slot, result, dead, reader, seen, up, daemon, down, events>>

\* (mutant) the lock stays taken when the write fails
WriteKeepsLock(r) ==
  /\ call[r] = "writing"
  /\ \/ /\ Len(up) < WireCap
        /\ up' = Append(up, r)
        /\ Goto(r, "checking")
        /\ lock' = None
     \/ /\ ~Open
        /\ Goto(r, "failing")
        /\ UNCHANGED <<lock, up>>
  /\ UNCHANGED <<slot, result, pending, dead, reader, seen, daemon, down, events>>

\* The frame is written and the lock released.  The write waits while the
\* socket is full; it may fail once the daemon has gone.
Write(r) ==
  /\ call[r] = "writing"
  /\ \/ /\ Len(up) < WireCap
        /\ up' = Append(up, r)
        /\ Goto(r, "checking")
     \/ /\ ~Open
        /\ Goto(r, "failing")
        /\ UNCHANGED up
  /\ lock' = None
  /\ UNCHANGED <<slot, result, pending, dead, reader, seen, daemon, down, events>>

\* `dead` is looked at again: the reader's drain may have missed this waiter.
Recheck(r) ==
  /\ call[r] = "checking"
  /\ IF dead THEN Return(r, Failed)
             ELSE Goto(r, "waiting") /\ UNCHANGED result
  /\ UNCHANGED <<slot, client, up, daemon, down, events>>

\* The oneshot resolves.
Receive(r) ==
  /\ call[r] = "waiting"
  /\ slot[r] # None
  /\ Return(r, slot[r])
  /\ UNCHANGED <<slot, client, up, daemon, down, events>>

\* Ten seconds without a reply.
TimesOut(r) ==
  /\ call[r] = "waiting"
  /\ slot[r] = None
  /\ Goto(r, "failing")
  /\ UNCHANGED <<slot, result, client, up, daemon, down, events>>

\* Every queued waiter is told that the connection is closed.
Drain ==
  /\ slot' = [r \in Reqs |-> IF r \in Range(pending) THEN Failed ELSE slot[r]]
  /\ pending' = <<>>

\* (mutant) waiters are drained but the connection is not marked dead
MarkNothing == UNCHANGED dead

MarkDead == dead' = TRUE

\* fail_all_pending: the flag first, then the queue.
FailAll(r) ==
  \/ /\ call[r] = "failing"
     /\ MarkDead
     /\ Goto(r, "draining")
     /\ UNCHANGED <<slot, result, lock, pending, reader, seen, up, daemon, down, events>>
  \/ /\ call[r] = "draining"
     /\ Drain
     /\ Return(r, Failed)
     /\ UNCHANGED <<lock, dead, reader, seen, up, daemon, down, events>>

-----------------------------------------------------------------------------
(* reader_loop.                                                            *)

\* An event goes to the event channel.
ReadEvent ==
  /\ reader = "up" /\ down # <<>> /\ Head(down).kind = "event"
  /\ seen' = Append(seen, Head(down).n)
  /\ down' = Tail(down)
  /\ UNCHANGED <<calls, lock, pending, dead, reader, up, daemon, events>>

\* A reply goes to the oldest waiter.
ReadReply ==
  /\ reader = "up" /\ down # <<>> /\ Head(down).kind = "reply"
  /\ pending # <<>>
  /\ slot' = [slot EXCEPT ![Head(pending)] = Head(down).of]
  /\ pending' = Tail(pending)
  /\ down' = Tail(down)
  /\ UNCHANGED <<call, result, lock, dead, reader, seen, up, daemon, events>>

\* The loop ends: a reply nobody waits for, or the end of the stream.
ReaderStops ==
  /\ reader = "up"
  /\ \/ down # <<>> /\ Head(down).kind = "reply" /\ pending = <<>>
     \/ down = <<>> /\ ~Open
  /\ reader' = "draining"
  /\ dead' = TRUE
  /\ UNCHANGED <<calls, lock, pending, seen, up, daemon, down, events>>

ReaderDrains ==
  /\ reader = "draining"
  /\ Drain
  /\ reader' = "gone"
  /\ UNCHANGED <<call, result, lock, dead, seen, up, daemon, down, events>>

-----------------------------------------------------------------------------
(* The daemon: handle_connection and dispatch_events.                      *)

\* A frame for the client.  Nobody reads it once the client's reader is gone.
Push(frame) == down' = IF reader = "gone" THEN down ELSE Append(down, frame)

\* The sink is registered, then the Hello is queued: two steps, between which
\* the relay may run.
Register ==
  /\ session = "accepted"
  /\ session' = "greeting"
  /\ UNCHANGED <<calls, client, up, current, handled, down, events>>

Greet ==
  /\ session = "greeting"
  /\ session' = "reading"
  /\ Push(Hello)
  /\ UNCHANGED <<calls, client, up, current, handled, events>>

ReadRequest ==
  /\ session = "reading" /\ up # <<>>
  /\ session' = "busy"
  /\ current' = Head(up)
  /\ up' = Tail(up)
  /\ UNCHANGED <<calls, client, handled, down, events>>

\* The handler returns and the response is queued; the queue is closed when
\* the writer has failed because the client stopped reading.
Respond ==
  /\ session = "busy"
  /\ handled' = handled \cup {current}
  /\ current' = None
  /\ \/ session' = "reading" /\ Push(Reply(current))
     \/ reader = "gone" /\ session' = "closed" /\ UNCHANGED down
  /\ UNCHANGED <<calls, client, up, events>>

\* The client has dropped its handles: end of stream, tear-down.
Hangup ==
  /\ session = "reading" /\ up = <<>>
  /\ reader = "gone" /\ \A r \in Reqs : call[r] = "returned"
  /\ session' = "closed"
  /\ UNCHANGED <<calls, client, up, current, handled, down, events>>

\* The daemon stops at any point.  What its socket had already taken is
\* still delivered.
DaemonStops ==
  /\ Open
  /\ session' = "closed"
  /\ current' = None
  /\ \E i \in 0 .. Len(down) : down' = SubSeq(down, 1, i)
  /\ UNCHANGED <<calls, client, up, handled, events>>

\* Bus::publish: the oldest event is overwritten when the relay is a whole
\* buffer behind (RecvError::Lagged).
Publish ==
  /\ published < MaxEvents
  /\ published' = published + 1
  /\ IF Len(bus) < BusCapacity
       THEN bus' = Append(bus, published + 1) /\ UNCHANGED lagged
       ELSE bus' = Append(Tail(bus), published + 1) /\ lagged' = TRUE
  /\ UNCHANGED <<calls, client, up, daemon, down>>

\* (mutant) the newest event first
NewestEvent(q) == q[Len(q)]

OldestEvent(q) == Head(q)

Relay ==
  /\ Open /\ bus # <<>>
  /\ bus' = Tail(bus)
  /\ IF Registered THEN Push(Event(OldestEvent(bus))) ELSE UNCHANGED down
  /\ UNCHANGED <<calls, client, up, daemon, published, lagged>>

-----------------------------------------------------------------------------

Request(r) ==
  \/ Begin(r) \/ Enqueue(r) \/ Write(r) \/ Recheck(r)
  \/ Receive(r) \/ TimesOut(r) \/ FailAll(r)

Reader == ReadEvent \/ ReadReply \/ ReaderStops \/ ReaderDrains

Session == Register \/ Greet \/ ReadRequest \/ Respond \/ Hangup

Next ==
  \/ \E r \in Reqs : Request(r)
  \/ Reader
  \/ Session
  \/ DaemonStops
  \/ Publish
  \/ Relay

Spec == Init /\ [][Next]_vars

\* A call that has been made goes on, and so does the client's reader task.
InFlight(r) == call[r] # "idle" /\ Request(r)

FairClient == (\A r \in Reqs : WF_vars(InFlight(r))) /\ WF_vars(Reader)

\* Fairness of the client alone.  Nothing is assumed of the daemon, which may
\* stop reading, never answer, or go.
ClientSpec == Spec /\ FairClient

-----------------------------------------------------------------------------
(* Properties.                                                             *)

\* Every part of the client, the session and the relay has its type.
TypeOK ==
  /\ call \in [Reqs -> {"idle", "locking", "writing", "checking", "waiting",
                        "failing", "draining", "returned"}]
  /\ slot \in [Reqs -> Reqs \cup {None, Failed}]
  /\ result \in [Reqs -> Reqs \cup {None, Failed}]
  /\ lock \in Reqs \cup {None}
  /\ pending \in Seq(Reqs) /\ up \in Seq(Reqs)
  /\ dead \in BOOLEAN
  /\ reader \in {"up", "draining", "gone"}
  /\ session \in {"accepted", "greeting", "reading", "busy", "closed"}
  /\ current \in Reqs \cup {None}
  /\ handled \subseteq Reqs
  /\ down \in Seq({Reply(r) : r \in Reqs} \cup {Event(n) : n \in 0 .. MaxEvents})
  /\ bus \in Seq(1 .. MaxEvents)
  /\ seen \in Seq(0 .. MaxEvents)
  /\ published \in 0 .. MaxEvents
  /\ lagged \in BOOLEAN

\* The requests that the frames of s answer, in order.
Replies(s) ==
  LET upTo[n \in 0 .. Len(s)] ==
        IF n = 0 THEN <<>>
        ELSE IF s[n].kind = "reply" THEN Append(upTo[n - 1], s[n].of)
                                    ELSE upTo[n - 1]
  IN  upTo[Len(s)]

\* The requests whose replies are still to come, oldest first.
Owed ==
  Replies(down)
    \o (IF current = None THEN <<>> ELSE <<current>>)
    \o up
    \o (IF lock = None THEN <<>> ELSE <<lock>>)

\* While the connection is alive, the queue of waiters is the order in which
\* the daemon will answer (Connection: "Waiters queued in wire order").
QueueIsWireOrder == (~dead /\ Open) => pending = Owed

\* Events reach a client in the order they were published, each at most once,
\* and without a gap unless the relay lagged (dispatch_events).
EventsInOrder ==
  \A i, j \in DOMAIN seen : (i < j /\ seen[i] > 0 /\ seen[j] > 0) =>
    /\ seen[i] < seen[j]
    /\ ~lagged => (seen[i] .. seen[j]) \subseteq Range(seen)

\* The connection keeps the promise of RequestReply.
Promise ==
  INSTANCE RequestReply WITH
    state <- [r \in Reqs |-> IF result[r] # None THEN result[r]
                             ELSE IF call[r] = "idle" THEN "idle" ELSE "open"]

ImplementsRequestReply == Promise!Spec

\* The write lock is held by a call whose socket is full and that the daemon
\* does not read.
WriteIsStuck ==
  \E w \in Reqs : call[w] = "writing" /\ Len(up) = WireCap /\ Open

\* Whatever the daemon does, a call that was made returns (request: "Bounded
\* wait"), except that it may stay at or before its own write while a write is
\* stuck: write_frame, under the lock, has no timeout.  A call whose request was
\* written always returns.
RequestReturns ==
  \A r \in Reqs : call[r] # "idle" ~>
    call[r] = "returned" \/ (call[r] \in {"locking", "writing"} /\ WriteIsStuck)

-----------------------------------------------------------------------------
(* A statement of the source's comments that the code does not keep.       *)

\* request: "a wedged daemon must surface as an error instead of hanging
\* callers".
WedgedSurfaces == \A r \in Reqs : call[r] # "idle" ~> call[r] = "returned"
=============================================================================
