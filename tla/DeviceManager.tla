---------------------------- MODULE DeviceManager ----------------------------
(***************************************************************************)
(* The device manager actor of the daemon (crates/daemon/src/device.rs):   *)
(* the table of known devices, their TLS control connections, the pairing  *)
(* state machine, and the trust rows it writes to the store.               *)
(*                                                                         *)
(* The manager is one task that handles the commands of its inbox one at a *)
(* time, so every handler is one action.  The inbox itself is not a        *)
(* variable: it merges independent producers (one reader task per          *)
(* connection, sleeping timers, dial tasks, IPC callers), each of which    *)
(* has at most one command outstanding, and any order in which the         *)
(* handlers below run is an order in which the commands can be enqueued.   *)
(*                                                                         *)
(* Time is counted down in ticks.  The peer at the other end of a          *)
(* connection is arbitrary: it may send any pair packet at any time.       *)
(***************************************************************************)
EXTENDS Integers, Sequences

CONSTANTS
  Devices,             \* device ids of peers
  Conns,               \* established control connections that may coexist
  Certs,               \* certificate fingerprints
  Callers,             \* IPC callers blocked in ManagerHandle::start_pairing
  None,                \* Option::None, for every optional field
  EmptyCert,           \* String::new() used as a fingerprint
  Orphan,              \* a oneshot sender whose receiver is gone
  OutCap,              \* capacity of a connection's outbound queue (64)
  PairingTimeout,      \* PAIRING_TIMEOUT, in ticks
  IncomingPairTimeout, \* INCOMING_PAIR_TIMEOUT, in ticks
  AutoAcceptReads,     \* what reading pairing.auto_accept may return
  MaxTimers,           \* bound: pairing timers outstanding per device
  MaxDials             \* bound: dial tasks in flight per device

\* What a reader task, a store row and a blocked caller hold.
ConnRecord == [dev : Devices, cert : Certs, writing : BOOLEAN]
Row == [paired : BOOLEAN, cert : Certs \cup {EmptyCert}]
Call == [dev : Devices, left : 0..PairingTimeout]

ASSUME SentinelAssumption ==
  /\ None \notin Devices \cup Conns \cup Certs \cup Callers
  /\ None \notin Int \cup ConnRecord \cup Row \cup Call
  /\ EmptyCert \notin Certs \cup {None}
  /\ Orphan \notin Callers \cup {None}

ASSUME BoundAssumption ==
  /\ OutCap \in Nat \ {0}
  /\ PairingTimeout \in Nat /\ IncomingPairTimeout \in Nat
  /\ MaxTimers \in Nat \ {0} /\ MaxDials \in Nat
  /\ AutoAcceptReads \in SUBSET BOOLEAN

VARIABLES
  known,     \* keys of Manager::devices
  conn,      \* reader task of each connection: None, or its peer and certificate
  outq,      \* outbound queue of each connection, drained by its writer task
  outbound,  \* DeviceState::outbound, as the connection it feeds
  live,      \* DeviceState::live_fingerprint
  pinned,    \* DeviceState::pinned_fingerprint
  pending,   \* DeviceState::pending_pair_reply, as the caller it answers
  parked,    \* Manager::incoming_pairs: ticks to the deadline, negative if past
  timers,    \* sleeping PairingTimeout tasks of a device, oldest first
  caller,    \* each IPC caller: None, or the device and the ticks it still waits
  dials,     \* dial tasks in flight
  disk,      \* rows of the store's devices table
  label,     \* last state label published for a device on the bus
  unsaved,   \* history: devices whose last upsert failed
  presented  \* history: certificates of the connections installed for a device

vars == <<known, conn, outq, outbound, live, pinned, pending, parked, timers,
          caller, dials, disk, label, unsaved, presented>>

-----------------------------------------------------------------------------
Packets == {"pair_true", "pair_false", "other"}
Labels == {"none", "found", "online", "offline", "paired", "unpaired", "declined"}

Open == {c \in Conns : conn[c] # None}

\* DeviceState::is_connected.
Connected(d) == outbound[d] # None

\* send_out fails when there is no connection, when its writer task has gone,
\* and when the bounded queue is full; the packet is dropped then.
CanSend(d) ==
  /\ Connected(d)
  /\ conn[outbound[d]].writing
  /\ Len(outq[outbound[d]]) < OutCap

SendOut(d, packet) ==
  outq' = IF CanSend(d) THEN [outq EXCEPT ![outbound[d]] = Append(@, packet)] ELSE outq

\* (mutant) "offline" is not published
PublishUnlessOffline(d, state) ==
  label' = IF state = "offline" THEN label ELSE [label EXCEPT ![d] = state]

Publish(d, state) == label' = [label EXCEPT ![d] = state]

\* (mutant) the waiter of a dropped sender is not woken
DropUnanswered(slot) == UNCHANGED caller

\* Completing or dropping the oneshot in a slot: the caller it belongs to, if
\* it still waits, returns from start_pairing.
Resolve(slot) == caller' = [k \in Callers |-> IF k = slot THEN None ELSE caller[k]]

-----------------------------------------------------------------------------
(* The trust rows.                                                         *)

\* The fingerprint persist_trust pins: the live one, else the one already
\* pinned, else the empty string.
TrustedFingerprint(d) ==
  IF live[d] # None THEN live[d]
  ELSE IF pinned[d] # None THEN pinned[d] ELSE EmptyCert

\* (mutant) an existing row is not updated
InsertOnly(d, row) ==
  /\ disk' = IF disk[d] = None THEN [disk EXCEPT ![d] = row] ELSE disk
  /\ unsaved' = unsaved \ {d}

\* upsert_device; an error is only logged, so the row keeps its old content.
Upsert(d, row) ==
  \/ /\ disk' = [disk EXCEPT ![d] = row]
     /\ unsaved' = unsaved \ {d}
  \/ /\ unsaved' = unsaved \cup {d}
     /\ UNCHANGED disk

\* persist_trust without its event; unknown devices are ignored.
PersistTrust(d, paired) ==
  LET fingerprint == IF paired THEN TrustedFingerprint(d) ELSE EmptyCert IN
  IF d \in known
  THEN /\ pinned' = [pinned EXCEPT ![d] = IF paired THEN fingerprint ELSE None]
       /\ Upsert(d, [paired |-> paired, cert |-> fingerprint])
  ELSE UNCHANGED <<pinned, disk, unsaved>>

-----------------------------------------------------------------------------
(* Discovery and connections.                                              *)

\* on_announce: enter the device in the table, and dial it unless connected.
OnAnnounce(d) ==
  /\ known' = known \cup {d}
  /\ label' = IF d \in known THEN label ELSE [label EXCEPT ![d] = "found"]
  /\ \/ /\ ~Connected(d)
        /\ dials[d] < MaxDials
        /\ dials' = [dials EXCEPT ![d] = @ + 1]
     \/ /\ Connected(d)
        /\ UNCHANGED dials
  /\ UNCHANGED <<conn, outq, outbound, live, pinned, pending, parked, timers,
                 caller, disk, unsaved, presented>>

\* The dial fails, or reaches a peer with another device id.
DialFails(d) ==
  /\ dials[d] > 0
  /\ dials' = [dials EXCEPT ![d] = @ - 1]
  /\ UNCHANGED <<known, conn, outq, outbound, live, pinned, pending, parked,
                 timers, caller, disk, label, unsaved, presented>>

\* A handshake ended, either that of a dial task or of an accepted socket.
HandshakeDone(d, dialled) ==
  IF dialled THEN dials[d] > 0 /\ dials' = [dials EXCEPT ![d] = @ - 1]
             ELSE UNCHANGED dials

\* (mutant) the pinned certificate is not compared
AnyCertAdmitted(d, cert) == TRUE

\* The pinning gate of on_connected.
PinAdmits(d, cert) == pinned[d] \in {None, cert}

\* on_connected past the gate: new reader and writer tasks, and the table entry
\* now points at the new connection.  An older connection's tasks keep running.
Install(d, cert, c) ==
  /\ conn[c] = None
  /\ conn' = [conn EXCEPT ![c] = [dev |-> d, cert |-> cert, writing |-> TRUE]]
  /\ outq' = [outq EXCEPT ![c] = <<>>]
  /\ outbound' = [outbound EXCEPT ![d] = c]
  /\ live' = [live EXCEPT ![d] = cert]
  /\ known' = known \cup {d}
  /\ Publish(d, IF d \in known THEN "online" ELSE "found")
  /\ presented' = [presented EXCEPT ![d] = @ \cup {cert}]
  /\ UNCHANGED <<pinned, pending, parked, timers, caller, disk, unsaved>>

OnConnected(d, cert, dialled) ==
  /\ HandshakeDone(d, dialled)
  /\ \/ /\ PinAdmits(d, cert)
        /\ \E c \in Conns : Install(d, cert, c)
     \/ /\ ~PinAdmits(d, cert)
        /\ UNCHANGED <<known, conn, outq, outbound, live, pinned, pending, parked,
                       timers, caller, disk, label, unsaved, presented>>

\* (mutant) the fingerprint of the link stays
ForgetQueueOnly(d) == outbound' = [outbound EXCEPT ![d] = None] /\ UNCHANGED live

Unlink(d) ==
  /\ outbound' = [outbound EXCEPT ![d] = None]
  /\ live' = [live EXCEPT ![d] = None]

\* (mutant) the parked request outlives the link
KeepParked(d) == UNCHANGED parked

Unpark(d) == parked' = [parked EXCEPT ![d] = None]

\* on_closed: the reader of connection c has ended.  The command names only the
\* device, so it clears whatever connection the table entry points at.
OnClosed(c) ==
  LET d == conn[c].dev IN
  /\ conn[c] # None
  /\ conn' = [conn EXCEPT ![c] = None]
  /\ outq' = [outq EXCEPT ![c] = <<>>]
  /\ Unpark(d)
  /\ Unlink(d)
  /\ pending' = [pending EXCEPT ![d] = None]
  /\ Resolve(pending[d])
  /\ Publish(d, "offline")
  /\ UNCHANGED <<known, pinned, timers, dials, disk, unsaved, presented>>

\* Writer task of a connection: put the head of the queue on the wire, or stop
\* at a write error, which closes the queue.
WriterSends(c) ==
  /\ conn[c] # None /\ outq[c] # <<>>
  /\ outq' = [outq EXCEPT ![c] = Tail(@)]
  /\ UNCHANGED <<known, conn, outbound, live, pinned, pending, parked, timers,
                 caller, dials, disk, label, unsaved, presented>>

WriterFails(c) ==
  /\ conn[c] # None /\ outq[c] # <<>>
  /\ outq' = [outq EXCEPT ![c] = <<>>]
  /\ conn' = [conn EXCEPT ![c].writing = FALSE]
  /\ UNCHANGED <<known, outbound, live, pinned, pending, parked, timers,
                 caller, dials, disk, label, unsaved, presented>>

-----------------------------------------------------------------------------
(* Pair packets (on_pair_packet), read from connection c.  The handler      *)
(* looks only at the device, never at which of its connections spoke.       *)

\* Case 1: any pair packet answers the pairing we initiated.
OnPairAnswer(c, wants) ==
  LET d == conn[c].dev IN
  /\ conn[c] # None /\ pending[d] # None
  /\ pending' = [pending EXCEPT ![d] = None]
  /\ Resolve(pending[d])
  /\ IF wants THEN PersistTrust(d, TRUE) /\ Publish(d, "paired")
              ELSE UNCHANGED <<pinned, disk, unsaved, label>>
  /\ UNCHANGED <<known, conn, outq, outbound, live, parked, timers, dials, presented>>

\* Case 2, auto-accept: trust is written before the answer is queued, and stays
\* written when the queue refuses the answer.
OnPairAutoAccept(c) ==
  LET d == conn[c].dev IN
  /\ conn[c] # None /\ pending[d] = None
  /\ TRUE \in AutoAcceptReads
  /\ Connected(d)
  /\ PersistTrust(d, TRUE) /\ Publish(d, "paired")
  /\ SendOut(d, "pair_true")
  /\ UNCHANGED <<known, conn, outbound, live, pending, parked, timers, caller,
                 dials, presented>>

\* Case 2, not connected: an immediate decline is attempted.
OnPairUnreachable(c) ==
  LET d == conn[c].dev IN
  /\ conn[c] # None /\ pending[d] = None
  /\ ~Connected(d)
  /\ SendOut(d, "pair_false")
  /\ UNCHANGED <<known, conn, outbound, live, pinned, pending, parked, timers,
                 caller, dials, disk, label, unsaved, presented>>

\* (mutant) one timer per device
StartFirstTimer(d) ==
  timers' = IF timers[d] = <<>>
            THEN [timers EXCEPT ![d] = <<IncomingPairTimeout>>] ELSE timers

\* (mutant) a parked request has no timer
NoTimer(d) == UNCHANGED timers

StartTimer(d) == timers' = [timers EXCEPT ![d] = Append(@, IncomingPairTimeout)]

\* Case 2, park for the user: (re)set the deadline and start one more timer.
OnPairPark(c) ==
  LET d == conn[c].dev IN
  /\ conn[c] # None /\ pending[d] = None
  /\ FALSE \in AutoAcceptReads
  /\ Connected(d)
  /\ Len(timers[d]) < MaxTimers
  /\ parked' = [parked EXCEPT ![d] = IncomingPairTimeout]
  /\ StartTimer(d)
  /\ UNCHANGED <<known, conn, outq, outbound, live, pinned, pending, caller,
                 dials, disk, label, unsaved, presented>>

\* Case 2, pair:false with nothing pending: the remote revoked pairing.
OnPairRevoke(c) ==
  LET d == conn[c].dev IN
  /\ conn[c] # None /\ pending[d] = None
  /\ Unpark(d)
  /\ PersistTrust(d, FALSE) /\ Publish(d, "unpaired")
  /\ UNCHANGED <<known, conn, outq, outbound, live, pending, timers, caller,
                 dials, presented>>

\* Any other packet runs the plugins, whose reply is dropped if it cannot be
\* queued (identity packets and shares reach no plugin and reply nothing).
OnPluginPacket(c) ==
  LET d == conn[c].dev IN
  /\ conn[c] # None
  /\ SendOut(d, "other")
  /\ UNCHANGED <<known, conn, outbound, live, pinned, pending, parked, timers,
                 caller, dials, disk, label, unsaved, presented>>

-----------------------------------------------------------------------------
(* Commands of IPC callers and of the pairing timers.                       *)

\* begin_pairing refuses unknown, offline and already paired devices with an
\* error to the caller, and changes nothing.
MayBegin(d) == d \in known /\ Connected(d) /\ pinned[d] = None

\* begin_pairing for caller k, of whose wait `left` ticks remain when the
\* command is handled.  The sender already in the slot is dropped, which fails
\* its caller; a request that cannot be queued fails caller k itself.
BeginPairing(k, d, left) ==
  /\ caller[k] = None /\ MayBegin(d)
  /\ pending' = [pending EXCEPT ![d] = IF CanSend(d) THEN k ELSE None]
  /\ SendOut(d, "pair_true")
  /\ caller' = [j \in Callers |->
                  IF j = pending[d] THEN None
                  ELSE IF j = k /\ CanSend(d) THEN [dev |-> d, left |-> left]
                  ELSE caller[j]]
  /\ UNCHANGED <<known, conn, outbound, live, pinned, parked, timers, dials,
                 disk, label, unsaved, presented>>

\* start_pairing's own timeout: the receiver goes away, the sender stays in the
\* device's slot.
CallerTimesOut(k) ==
  /\ caller[k] # None /\ caller[k].left = 0
  /\ caller' = [caller EXCEPT ![k] = None]
  /\ pending' = [d \in Devices |-> IF pending[d] = k THEN Orphan ELSE pending[d]]
  /\ UNCHANGED <<known, conn, outq, outbound, live, pinned, parked, timers,
                 dials, disk, label, unsaved, presented>>

\* unpair: tell the peer if possible, then drop trust.
Unpair(d) ==
  /\ SendOut(d, "pair_false")
  /\ PersistTrust(d, FALSE)
  /\ label' = IF d \in known THEN [label EXCEPT ![d] = "unpaired"] ELSE label
  /\ UNCHANGED <<known, conn, outbound, live, pending, parked, timers, caller,
                 dials, presented>>

\* The label an answer publishes follows the decision, not the table.  A decline
\* says "unpaired" also of a device that asked again and stays paired; that one
\* is kept apart as "declined".
AnswerLabel(d, accept) ==
  IF accept THEN "paired" ELSE IF pinned[d] = None THEN "unpaired" ELSE "declined"

\* answer_incoming_pairing before the deadline.  (With nothing parked it only
\* returns an error.)
AnswerIncoming(d, accept) ==
  /\ parked[d] # None /\ parked[d] >= 0
  /\ Unpark(d)
  /\ IF accept THEN PersistTrust(d, TRUE) ELSE UNCHANGED <<pinned, disk, unsaved>>
  /\ SendOut(d, IF accept THEN "pair_true" ELSE "pair_false")
  /\ Publish(d, AnswerLabel(d, accept))
  /\ UNCHANGED <<known, conn, outbound, live, pending, timers, caller, dials,
                 presented>>

\* answer_incoming_pairing after the deadline: the entry is already removed when
\* the error is returned.
AnswerExpired(d) ==
  /\ parked[d] # None /\ parked[d] < 0
  /\ Unpark(d)
  /\ UNCHANGED <<known, conn, outq, outbound, live, pinned, pending, timers,
                 caller, dials, disk, label, unsaved, presented>>

\* A timer task wakes and its PairingTimeout is handled: whatever request of
\* the device is parked now is declined.
PairingTimeoutFires(d) ==
  /\ timers[d] # <<>> /\ Head(timers[d]) = 0
  /\ timers' = [timers EXCEPT ![d] = Tail(@)]
  /\ Unpark(d)
  /\ IF parked[d] # None THEN SendOut(d, "pair_false") ELSE UNCHANGED outq
  /\ UNCHANGED <<known, conn, outbound, live, pinned, pending, caller, dials,
                 disk, label, unsaved, presented>>

-----------------------------------------------------------------------------
(* Time, and the process.                                                   *)

\* (mutant) a timer runs past its deadline
CountPastZero(n) == n - 1

CountDown(n) == IF n > 0 THEN n - 1 ELSE 0

Tick ==
  /\ parked' = [d \in Devices |-> IF parked[d] \in {None, -1} THEN parked[d]
                                  ELSE parked[d] - 1]
  /\ timers' = [d \in Devices |-> [i \in DOMAIN timers[d] |-> CountDown(timers[d][i])]]
  /\ caller' = [k \in Callers |-> IF caller[k] = None THEN None
                                  ELSE [caller[k] EXCEPT !.left = CountDown(@)]]
  /\ UNCHANGED <<known, conn, outq, outbound, live, pinned, pending, dials,
                 disk, label, unsaved, presented>>

\* The daemon stops or crashes and starts again: only the store survives, and
\* load_persisted rebuilds the table from it.
Restart ==
  /\ known' = {d \in Devices : disk[d] # None}
  /\ pinned' = [d \in Devices |-> IF disk[d] # None /\ disk[d].paired
                                  THEN disk[d].cert ELSE None]
  /\ conn' = [c \in Conns |-> None]
  /\ outq' = [c \in Conns |-> <<>>]
  /\ outbound' = [d \in Devices |-> None]
  /\ live' = [d \in Devices |-> None]
  /\ pending' = [d \in Devices |-> None]
  /\ parked' = [d \in Devices |-> None]
  /\ timers' = [d \in Devices |-> <<>>]
  /\ dials' = [d \in Devices |-> 0]
  /\ caller' = [k \in Callers |-> None]
  /\ label' = [d \in Devices |-> "none"]
  /\ unsaved' = {}
  /\ UNCHANGED <<disk, presented>>

Init ==
  /\ known = {}
  /\ conn = [c \in Conns |-> None]
  /\ outq = [c \in Conns |-> <<>>]
  /\ outbound = [d \in Devices |-> None]
  /\ live = [d \in Devices |-> None]
  /\ pinned = [d \in Devices |-> None]
  /\ pending = [d \in Devices |-> None]
  /\ parked = [d \in Devices |-> None]
  /\ timers = [d \in Devices |-> <<>>]
  /\ caller = [k \in Callers |-> None]
  /\ dials = [d \in Devices |-> 0]
  /\ disk = [d \in Devices |-> None]
  /\ label = [d \in Devices |-> "none"]
  /\ unsaved = {}
  /\ presented = [d \in Devices |-> {}]

\* The reader task of connection c hands a packet to the manager.
Receives(c, packet) ==
  \/ /\ packet = "pair_true"
     /\ \/ OnPairAnswer(c, TRUE)
        \/ OnPairAutoAccept(c)
        \/ OnPairUnreachable(c)
        \/ OnPairPark(c)
  \/ /\ packet = "pair_false"
     /\ OnPairAnswer(c, FALSE) \/ OnPairRevoke(c)
  \/ /\ packet = "other"
     /\ OnPluginPacket(c)

FromPeer(c) == OnClosed(c) \/ \E packet \in Packets : Receives(c, packet)

FromUser(d) ==
  \/ \E k \in Callers, left \in 0..PairingTimeout : BeginPairing(k, d, left)
  \/ Unpair(d)
  \/ \E accept \in BOOLEAN : AnswerIncoming(d, accept)
  \/ AnswerExpired(d)

FromNetwork(d) ==
  \/ OnAnnounce(d)
  \/ DialFails(d)
  \/ \E cert \in Certs, dialled \in BOOLEAN : OnConnected(d, cert, dialled)

Next ==
  \/ \E c \in Conns : FromPeer(c) \/ WriterSends(c) \/ WriterFails(c)
  \/ \E d \in Devices : FromUser(d) \/ FromNetwork(d) \/ PairingTimeoutFires(d)
  \/ \E k \in Callers : CallerTimesOut(k)
  \/ Tick
  \/ Restart

\* Timers wake, the manager gets to the command they send, and time passes.
\* Nothing is assumed of users, peers or the network.
Fairness ==
  /\ WF_vars(Tick)
  /\ \A d \in Devices : WF_vars(PairingTimeoutFires(d))
  /\ \A k \in Callers : WF_vars(CallerTimesOut(k))

Spec == Init /\ [][Next]_vars

-----------------------------------------------------------------------------
(* Properties.                                                              *)

\* Every variable has the type its Rust field has.
TypeOK ==
  /\ known \in SUBSET Devices
  /\ conn \in [Conns -> ConnRecord \cup {None}]
  /\ outq \in [Conns -> Seq(Packets)]
  /\ outbound \in [Devices -> Conns \cup {None}]
  /\ live \in [Devices -> Certs \cup {None}]
  /\ pinned \in [Devices -> Certs \cup {EmptyCert, None}]
  /\ pending \in [Devices -> Callers \cup {Orphan, None}]
  /\ parked \in [Devices -> (-1)..IncomingPairTimeout \cup {None}]
  /\ timers \in [Devices -> Seq(0..IncomingPairTimeout)]
  /\ caller \in [Callers -> Call \cup {None}]
  /\ dials \in [Devices -> 0..MaxDials]
  /\ disk \in [Devices -> Row \cup {None}]
  /\ label \in [Devices -> Labels]
  /\ unsaved \in SUBSET Devices
  /\ presented \in [Devices -> SUBSET Certs]

\* The table's outbound queue and fingerprint always belong to one and the same
\* open connection of that very device, whatever connections came and went.
LinkIsCoherent ==
  \A d \in Devices :
    /\ (outbound[d] = None) <=> (live[d] = None)
    /\ outbound[d] # None => /\ conn[outbound[d]] # None
                             /\ conn[outbound[d]].dev = d
                             /\ conn[outbound[d]].cert = live[d]

\* A pairing decision still owed, by the peer (pending_pair_reply) or by the
\* user (incoming_pairs), always has a connection it can travel on.
DecisionNeedsLink ==
  \A d \in Devices : pending[d] # None \/ parked[d] # None => Connected(d)

\* While a device is paired, the connection in use presents the certificate
\* that is pinned, across reconnects, re-pairings and restarts.
PinnedMatchesLive ==
  \A d \in Devices : pinned[d] # None /\ live[d] # None => live[d] = pinned[d]

\* Only a certificate that the device really presented is ever trusted, in
\* memory or on disk; in particular persist_trust never falls through to "".
PinnedWasPresented ==
  \A d \in Devices :
    /\ pinned[d] # None => pinned[d] \in presented[d]
    /\ disk[d] # None /\ disk[d].paired => disk[d].cert \in presented[d]

\* What is trusted was presented, and is what is in use (on_connected,
\* persist_trust, load_persisted).
TrustIsSound == PinnedMatchesLive /\ PinnedWasPresented

\* Unless the last upsert failed, a restart finds exactly the trust in memory.
DiskMatchesMemory ==
  \A d \in Devices \ unsaved :
    pinned[d] = IF disk[d] # None /\ disk[d].paired THEN disk[d].cert ELSE None

\* A caller blocked in start_pairing is the one its device will answer: no call
\* waits on a slot that another call, a close or an answer has emptied.
WaiterHasSlot ==
  \A k \in Callers :
    /\ caller[k] # None => pending[caller[k].dev] = k
    /\ \A d \in Devices : pending[d] = k => caller[k] # None /\ caller[k].dev = d

\* A parked request always has a timer that will decline it, no later than its
\* own deadline.
ParkedHasTimer ==
  \A d \in Devices : parked[d] # None =>
    /\ timers[d] # <<>>
    /\ timers[d][Len(timers[d])] = IF parked[d] < 0 THEN 0 ELSE parked[d]

\* What the bus last said of a device is true: "paired" only of a trusted
\* device, "unpaired" only of one that is not, "online" and "offline" as the
\* connection is.  There is one exception, the "unpaired" that answers a repeated
\* request of a paired device with no: the device is still trusted
\* (answer_incoming_pairing, persist_trust, on_connected, on_closed).
LabelIsTrue ==
  \A d \in Devices :
    /\ label[d] \in {"paired", "declined"} => pinned[d] # None
    /\ label[d] = "unpaired" => pinned[d] = None
    /\ label[d] = "online" => Connected(d)
    /\ label[d] = "offline" => ~Connected(d)

\* A parked request is decided: nobody's pairing request waits forever.
ParkedIsDecided == \A d \in Devices : parked[d] # None ~> parked[d] = None
\* Every start_pairing call returns, whatever the peer does.
CallReturns == \A k \in Callers : caller[k] # None ~> caller[k] = None

-----------------------------------------------------------------------------
(* A statement of the source's comments that the code does not keep.        *)

\* "Outbound queue of the live connection, if connected": a device with a
\* connection whose reader runs is connected.
OpenMeansConnected == \A c \in Open : Connected(conn[c].dev)
=============================================================================
