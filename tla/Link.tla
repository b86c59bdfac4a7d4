-------------------------------- MODULE Link --------------------------------
(***************************************************************************)
(* How two devices come to be connected: UDP announcements                 *)
(* (daemon/discovery.rs), the dial they cause (on_announce in device.rs),  *)
(* and the control handshake over the new TCP connection                   *)
(* (daemon/handshake.rs, daemon/tls.rs).                                   *)
(*                                                                         *)
(* Nodes are devices; the ones in Foreign are not handfast and say what    *)
(* they like.  Datagrams may be lost, repeated and late: `air` never loses *)
(* one, and nobody has to receive it.  A device may crash and come back,   *)
(* and may move to another address; its peers are not told.                *)
(*                                                                         *)
(* A connection has two ends, "d" for the TCP dialer and "a" for the       *)
(* acceptor, each at a stage of the handshake.                             *)
(***************************************************************************)
EXTENDS Integers, FiniteSets, Functions, Sequences

CONSTANTS
  None,
  Nodes, Foreign,
  Addresses,
  Conns,
  Worlds  \* where the devices are at first (None: nowhere), what has been
          \* announced before, and bounds: connections and handshakes at a time,
          \* crashes and broken connections, changes of address

VARIABLES
  world,    \* the one of Worlds this is
  address,  \* the address of each device
  air,      \* announcements sent
  conn,     \* TCP connections
  link,     \* DeviceState::outbound of each device the manager of a node has
  late,     \* history: reads that timed out, with the other end
  faults, moves

vars == <<world, address, air, conn, link, late, faults, moves>>

-----------------------------------------------------------------------------
Handfast == Nodes \ Foreign
Junk == [id |-> None, version |-> 0]

\* Packet::identity of a node; a handfast speaks version 8.
Identity(n) == [id |-> n, version |-> 8]

\* What a foreign device may say: also another version, or no identity at all.
Sayable(n) == {Junk} \cup {[id |-> i, version |-> v] : i \in Nodes, v \in {7, 8}}

Live == {c \in Conns : conn[c] # None}
Ends == {"d", "a"}
Other(e) == IF e = "d" THEN "a" ELSE "d"
NodeAt(c, e) == conn[c].node[e]
Stage(c, e) == conn[c].stage[e]
OpenStages == {"plain", "tls", "write", "read", "up", "foreign"}

\* Connections with a handshake going on; as many as the world allows.
SettingUp ==
  {c \in Live : \E e \in Ends : Stage(c, e) \in OpenStages \ {"up", "foreign"}}
Free == IF Cardinality(SettingUp) < world.dials /\ Cardinality(Live) < world.conns
        THEN {CHOOSE c \in Conns : c \notin Live} ELSE {}

\* (mutant) the secure identities are read first
ReadFirst == <<"tls", "read", "write", "up">>

\* The steps of both sides once the plaintext line has passed.
Order == <<"tls", "write", "read", "up">>

Following(stage) == Order[(CHOOSE i \in 1..3 : Order[i] = stage) + 1]

-----------------------------------------------------------------------------
(* Discovery. *)

\* announce, on each tick of run.
Announce(n) ==
  /\ address[n] # None
  /\ air' = air \cup {[id |-> n, addr |-> address[n]]}
  /\ UNCHANGED <<world, address, conn, link, late, faults, moves>>

\* entry_for_announcement: dial a device that is not connected.
Warranted(n, id) == link[n][id] = None

\* connect_control writes the plaintext identity as soon as it is connected.
NewConn(n, m, expected) ==
  [node |-> [d |-> n, a |-> m],
   stage |-> [d |-> IF n \in Foreign THEN "foreign" ELSE "tls",
              a |-> IF m \in Foreign THEN "foreign" ELSE "plain"],
   line |-> IF n \in Foreign THEN None ELSE Identity(n), expected |-> expected, said |-> [e \in Ends |-> None], dead |-> FALSE]

\* recv_one, then on_announce: own announcements are skipped, and the dial goes
\* to whoever has the announced address by now.
Receive(n, datagram) ==
  /\ n \in Handfast /\ datagram.id # n /\ Warranted(n, datagram.id)
  /\ \E c \in Free, m \in {x \in Nodes : address[x] = datagram.addr} :
       conn' = [conn EXCEPT ![c] = NewConn(n, m, datagram.id)]
  /\ UNCHANGED <<world, address, air, link, late, faults, moves>>

\* A foreign device dials a handfast.
ForeignDials(f, n) ==
  /\ f \in Foreign /\ n \in Handfast /\ address[f] # None /\ address[n] # None
  /\ \E c \in Free : conn' = [conn EXCEPT ![c] = NewConn(f, n, n)]
  /\ UNCHANGED <<world, address, air, link, late, faults, moves>>

-----------------------------------------------------------------------------
(* The handshake. *)

\* Nothing is left of a connection without an open end.  A task that waits for
\* a TLS handshake on a dead connection waits for ever, and nobody sees it.
Remaining(r) ==
  IF \A e \in Ends : r.stage[e] \notin OpenStages \/ (r.dead /\ r.stage[e] = "tls")
  THEN None ELSE r

At(c, e, stage) == Remaining([conn[c] EXCEPT !.stage[e] = stage])

Moves(c, e, stage) ==
  /\ conn' = [conn EXCEPT ![c] = At(c, e, stage)]
  /\ UNCHANGED <<world, address, air, faults, moves>>

\* The end waits for a line, and there is none.
Starved(c, e) ==
  \/ Stage(c, e) = "plain" /\ (conn[c].dead \/ conn[c].line = None)
  \/ Stage(c, e) = "read" /\ (conn[c].dead \/ conn[c].said[Other(e)] = None)

\* read_plaintext_identity: any other line than an identity is refused.
ReadLine(c) ==
  /\ Stage(c, "a") = "plain" /\ ~Starved(c, "a")
  /\ Moves(c, "a", IF conn[c].line = Junk THEN "closed" ELSE "tls")
  /\ UNCHANGED <<link, late>>

\* The TLS role of an end: the dialer is the server.
Role(e) == IF e = "d" THEN "server" ELSE "client"

\* The TLS handshake proper; a foreign end plays along or not.
Upgrade(c) ==
  /\ \A e \in Ends : Stage(c, e) \in {"tls", "foreign"}
  /\ Role("d") # Role("a") /\ conn[c].line # None /\ ~conn[c].dead
  /\ \E e \in Ends : Stage(c, e) = "tls"
  /\ conn' = [conn EXCEPT ![c].stage = [e \in Ends |-> IF @[e] = "tls" THEN Following("tls") ELSE @[e]]]
  /\ UNCHANGED <<world, address, air, link, late, faults, moves>>

\* exchange, first half.
WriteSecure(c, e) ==
  /\ Stage(c, e) = "write"
  /\ conn' = [conn EXCEPT ![c].said[e] = Identity(NodeAt(c, e)), ![c].stage[e] = Following("write")]
  /\ UNCHANGED <<world, address, air, link, late, faults, moves>>

\* (mutant) a device that has a connection keeps it
KeepFirst(n, id, c) == IF link[n][id] # None THEN link ELSE [link EXCEPT ![n][id] = c]

\* on_connected: the new connection takes the place of the device's old one.
Linked(n, id, c) == [link EXCEPT ![n][id] = c]

\* ConnClosed: the device is offline, whichever connection it has by now.
Unlinked(c, e) == [link EXCEPT ![NodeAt(c, e)][conn[c].said[Other(e)].id] = None]

\* (mutant) a dial is reported as the device that was announced
AsAnnounced(c, e, secure) == IF e = "d" THEN conn[c].expected ELSE secure.id

\* The device a finished handshake is reported for: the acceptor wants the
\* secure identity to be the plaintext one (cross_check), the dialer wants the
\* announced device.
Verified(c, e, secure) ==
  IF \/ secure = Junk
     \/ e = "a" /\ conn[c].line # secure
     \/ e = "d" /\ conn[c].expected # secure.id
  THEN None ELSE secure.id

\* exchange, second half, the checks, and on_connected.
ReadSecure(c, e) ==
  LET id == Verified(c, e, conn[c].said[Other(e)]) IN
  /\ Stage(c, e) = "read" /\ ~Starved(c, e)
  /\ Moves(c, e, IF id = None THEN "closed" ELSE Following("read"))
  /\ link' = IF id # None /\ Following("read") = "up"
             THEN Linked(NodeAt(c, e), id, c) ELSE link
  /\ UNCHANGED late

\* HANDSHAKE_TIMEOUT: ten seconds are enough for an end that can go on.  It is for
\* each byte of the plain line, of which there are at most MAX_PACKET_LEN, and for
\* the secure packet as a whole.  Time is not counted here: a line that comes byte
\* by byte is one that has not come yet.
TimesOut(c, e) ==
  /\ Starved(c, e)
  /\ conn[c].dead \/ Stage(c, Other(e)) = "foreign" \/ Starved(c, Other(e))
  /\ Moves(c, e, "closed")
  /\ late' = late \cup {[dead |-> conn[c].dead, other |-> Stage(c, Other(e))]}
  /\ UNCHANGED link

\* The other end has closed: a handshake fails, a reader reports ConnClosed.
Eof(c, e) ==
  /\ Stage(c, e) \in OpenStages \ {"foreign"} /\ Stage(c, Other(e)) = "closed" /\ ~conn[c].dead
  /\ Stage(c, e) \in {"plain", "read"} => Starved(c, e)
  /\ Moves(c, e, "closed")
  /\ link' = IF Stage(c, e) = "up" THEN Unlinked(c, e) ELSE link
  /\ UNCHANGED late

Handshake(c) ==
  \/ ReadLine(c)
  \/ \E e \in Ends : WriteSecure(c, e) \/ ReadSecure(c, e) \/ Eof(c, e)

-----------------------------------------------------------------------------
(* The world outside. *)

\* A foreign end writes, or hangs up.
ForeignActs(c, e) ==
  /\ Stage(c, e) = "foreign"
  /\ \/ /\ e = "d" /\ conn[c].line = None
        /\ \E x \in Sayable(NodeAt(c, e)) : conn' = [conn EXCEPT ![c].line = x]
     \/ /\ Stage(c, Other(e)) \in {"write", "read", "up"} /\ conn[c].said[e] = None
        /\ \E x \in Sayable(NodeAt(c, e)) : conn' = [conn EXCEPT ![c].said[e] = x]
     \/ conn' = [conn EXCEPT ![c] = At(c, e, "closed")]
  /\ UNCHANGED <<world, address, air, link, late, faults, moves>>

\* What is open at n falls silent, and nobody is told.
Silenced(n, stage) ==
  [c \in Conns |->
     IF c \notin Live \/ n \notin {NodeAt(c, e) : e \in Ends} THEN conn[c]
     ELSE Remaining([conn[c] EXCEPT !.dead = TRUE,
            !.stage = [e \in Ends |-> IF @[e] = "foreign" \/ NodeAt(c, e) = n THEN stage[@[e]] ELSE @[e]]])]

\* A device loses power and starts again with empty tables.
Crash(n) ==
  /\ n \in Handfast /\ address[n] # None /\ faults < world.faults /\ faults' = faults + 1
  /\ conn' = Silenced(n, [s \in OpenStages \cup {"gone", "closed"} |-> "gone"])
  /\ link' = [link EXCEPT ![n] = [i \in Nodes |-> None]]
  /\ UNCHANGED <<world, address, air, late, moves>>

\* A device takes a free address.
Move(n) ==
  /\ address[n] # None /\ moves < world.moves /\ moves' = moves + 1
  /\ \E x \in Addresses \ Range(address) : address' = [address EXCEPT ![n] = x]
  /\ conn' = Silenced(n, [s \in OpenStages \cup {"gone", "closed"} |-> IF s = "foreign" THEN "gone" ELSE s])
  /\ UNCHANGED <<world, air, link, late, faults>>

\* A connection breaks, or a write shows that it is dead.
Breaks(c, e) ==
  /\ Stage(c, e) = "up"
  /\ IF conn[c].dead THEN UNCHANGED faults ELSE faults < world.faults /\ faults' = faults + 1
  /\ conn' = [conn EXCEPT ![c] = At(c, e, "closed")]
  /\ link' = Unlinked(c, e)
  /\ UNCHANGED <<world, address, air, late, moves>>

Init ==
  /\ world \in Worlds /\ address = world.address
  /\ air = world.air /\ conn = [c \in Conns |-> None]
  /\ link = [n \in Nodes |-> [i \in Nodes |-> None]]
  /\ late = {} /\ faults = 0 /\ moves = 0

FromForeign ==
  \/ \E f \in Foreign, n \in Handfast : ForeignDials(f, n)
  \/ \E c \in Live, e \in Ends : ForeignActs(c, e)

Discovery == \E n \in Nodes : Announce(n) \/ \E datagram \in air : Receive(n, datagram)

Next ==
  \/ Discovery \/ FromForeign
  \/ \E c \in Live : Handshake(c) \/ Upgrade(c) \/ \E e \in Ends : TimesOut(c, e) \/ Breaks(c, e)
  \/ \E n \in Nodes : Crash(n) \/ Move(n)

\* Every task runs on, timers fire, TLS completes between two willing ends, and
\* of the announcements repeated for ever some arrive.
Fairness ==
  /\ \A n \in Nodes : WF_vars(Announce(n))
  /\ \A n, m \in Handfast : SF_vars(Receive(n, [id |-> m, addr |-> address[m]]))
  /\ \A c \in Conns :
       /\ WF_vars(c \in Live /\ Handshake(c))
       /\ WF_vars(c \in Live /\ Upgrade(c))
       /\ \A e \in Ends : WF_vars(c \in Live /\ TimesOut(c, e))

Spec == Init /\ [][Next]_vars /\ Fairness

-----------------------------------------------------------------------------
(* Properties. *)

\* A device's connection is one whose handshake is over, and between handfast
\* devices the manager's idea of who is at the other end is right, however old
\* the announcement and whoever has its address now.
LinkIsHonest ==
  \A n \in Handfast, i \in Nodes : link[n][i] # None =>
    /\ link[n][i] \in Live
    /\ \E e \in Ends :
         /\ NodeAt(link[n][i], e) = n /\ Stage(link[n][i], e) = "up"
         /\ NodeAt(link[n][i], Other(e)) \in Handfast => NodeAt(link[n][i], Other(e)) = i

\* "both sides write first, so the ordering can never deadlock"
\* (handshake.rs, lines 93-94): a read only times out on a dead connection or
\* on a foreign device.
NeverDeadlocks == \A x \in late : x.dead \/ x.other = "foreign"

\* No peer, however silent, holds a handshake at one of its reads: the line
\* comes, or the timer or the end of the stream ends the task.  A peer that drips
\* its plain line can make that MAX_PACKET_LEN times the timer.
ReadsEnd ==
  \A c \in Conns, e \in Ends :
    (c \in Live /\ Stage(c, e) \in {"plain", "read"})
      ~> (c \notin Live \/ Stage(c, e) \notin {"plain", "read"})

\* Two handfast devices that hear each other end up connected, whatever
\* crashes and breaks on the way, as long as neither changes its address: the
\* side that lost the connection dials, and the other accepts it in place of
\* the dead one.
Rejoin ==
  \A m, n \in Handfast : m # n =>
    <>[](\/ link[m][n] # None /\ ~conn[link[m][n]].dead
         \/ None \in {address[m], address[n]} \/ moves > 0)
=============================================================================
