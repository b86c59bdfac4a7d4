------------------------------- MODULE MCPeers -------------------------------
(***************************************************************************)
(* What the daemon does with its peers, in three parts side by side; a     *)
(* behaviour is in one of them (`part`):                                   *)
(*   "plugins"  the plugins of a device and a peer that sends anything;    *)
(*   "link"     discovery and the handshake between devices;               *)
(*   "manager"  one manager and any peer, for what it must do in the end.  *)
(* The variables of the parts not taken keep their first value.            *)
(***************************************************************************)
EXTENDS Integers, Sequences, FiniteSets, TLC

CONSTANTS
  None, EmptyCert, Orphan,
  Players, Names, Notes, MaxPackets, MaxConnects,       \* of Plugins
  n1, n2, f, x1, x2, x3, x4, Conns,                     \* of Link
  Devices, Certs, Wires, Callers, PairingTimeout,       \* of DeviceManager
  IncomingPairTimeout, AutoAcceptReads, MaxTimers

VARIABLES
  part,
  state, connected, outbound, bus, listed, confirmed, received, connects,
  world, address, air, conn, link, late, faults, moves,
  known, wire, outq, queue, live, pinned, pending, parked, timers, caller, dials, disk,
  label, unsaved, presented

\* A charger and a full battery.
Supplies == <<None, [level |-> 80, charging |-> TRUE]>>

Heard(n, x) == [id |-> n, addr |-> x]
World(h, g, t, c, fs, ms) ==
  [address |-> h, air |-> g, conns |-> t, dials |-> c, faults |-> fs, moves |-> ms]

\* Two devices that know each other, with crashes; the same dialling each other
\* at once; a foreign device and one that was announced; and one that takes an
\* address announced for another.
Worlds ==
  { World(n1 :> x1 @@ n2 :> x2 @@ f :> None, {Heard(n1, x1), Heard(n2, x2)}, 4, 1, 2, 0),
    World(n1 :> x1 @@ n2 :> x2 @@ f :> None, {Heard(n1, x1), Heard(n2, x2)}, 3, 2, 0, 0),
    World(n1 :> x1 @@ n2 :> None @@ f :> x3, {Heard(f, x3)}, 1, 1, 1, 0),
    World(n1 :> x2 @@ n2 :> x3 @@ f :> None, {Heard(n2, x2)}, 1, 1, 0, 1) }

Nowhere == World(n1 :> None @@ n2 :> None @@ f :> None, {}, 0, 0, 0, 0)

P == INSTANCE Plugins WITH OutCap <- 1
L == INSTANCE Link WITH
  Nodes <- {n1, n2, f}, Foreign <- {f}, Addresses <- {x1, x2, x3, x4},
  Worlds <- Worlds \union {Nowhere}
D == INSTANCE DeviceManager WITH
  Conns <- Wires, OutCap <- 1, MaxDials <- 0, conn <- wire, outbound <- queue

pluginvars == <<state, connected, outbound, bus, listed, confirmed, received, connects>>
linkvars == <<world, address, air, conn, link, late, faults, moves>>
managervars == <<known, wire, outq, queue, live, pinned, pending, parked, timers, caller,
                 dials, disk, label, unsaved, presented>>
vars == <<part, pluginvars, linkvars, managervars>>

Init ==
  /\ part \in {"plugins", "link", "manager"}
  /\ P!Init /\ L!Init /\ D!Init
  /\ part = "link" <=> world # Nowhere

Next ==
  /\ UNCHANGED part
  /\ \/ part = "plugins" /\ P!Next /\ UNCHANGED <<linkvars, managervars>>
     \/ part = "link" /\ L!Next /\ UNCHANGED <<pluginvars, managervars>>
     \/ part = "manager" /\ D!Next /\ UNCHANGED <<pluginvars, linkvars>>

\* The fairness of Link (nothing of it is enabled Nowhere), and that of DeviceManager.
Spec ==
  /\ Init /\ [][Next]_vars
  /\ L!Fairness
  /\ WF_managervars(part = "manager" /\ D!Tick)
  /\ \A d \in Devices : WF_managervars(part = "manager" /\ D!PairingTimeoutFires(d))
  /\ \A k \in Callers : WF_managervars(part = "manager" /\ D!CallerTimesOut(k))

-----------------------------------------------------------------------------
(* Properties. *)

\* Whatever a peer sends, a confirmation to run a command names the command the
\* peer's last usable list gives for it, never one withdrawn or changed since, also
\* when the list came over an earlier connection or from a reader that outlived its
\* own (handle_sync and handle_request, run_commands.rs).
CommandIsListed == P!CommandIsListed

\* A device's connection is one whose handshake is over, and
\* between handfast devices the manager's idea of who is at the other end is
\* right, however old the announcement and whoever has its address now
\* (on_announce, cross_check).
LinkIsHonest == L!LinkIsHonest

\* "both sides write first, so the ordering can never deadlock" (handshake.rs,
\* lines 93-94): a read only times out on a dead connection or a foreign device.
NeverDeadlocks == L!NeverDeadlocks

\* Two handfast devices that hear each other end up connected, whatever crashes
\* and breaks on the way, as long as neither changes its address (on_announce,
\* on_connected, on_closed).
Rejoin == part = "link" => L!Rejoin

\* Nobody waits for ever, whatever the peer does: a handshake's read ends with the
\* line, the timer or the stream (read_plaintext_identity, exchange; for the plain
\* line the timer is started anew at every byte, up to MAX_PACKET_LEN of them), a
\* parked request is decided (PairingTimeout, handled by Manager::run), and every start_pairing call
\* returns (ManagerHandle).
NobodyWaitsForever == L!ReadsEnd /\ D!ParkedIsDecided /\ D!CallReturns
=============================================================================
