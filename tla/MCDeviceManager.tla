--------------------------- MODULE MCDeviceManager ---------------------------
(***************************************************************************)
(* Instances of DeviceManager for TLC. A behaviour has one manager with    *)
(* any peer, or (`pair`) the two daemons of TwoDaemons; the variables of   *)
(* the other keep their first value.                                       *)
(***************************************************************************)
EXTENDS DeviceManager, TLC

CONSTANTS a, b, wire, client, MaxUserSteps

VARIABLES
  pair,
  knownA, connA, outqA, outboundA, liveA, pinnedA, pendingA, parkedA, timersA, callerA,
  dialsA, diskA, labelA, unsavedA, presentedA, knownB, connB, outqB, outboundB, liveB,
  pinnedB, pendingB, parkedB, timersB, callerB, dialsB, diskB, labelB, unsavedB,
  presentedB, calm, steps

T == INSTANCE TwoDaemons WITH
  link <- wire, OutCap <- 2, Callers <- {client}

pairvars ==
  <<knownA, connA, outqA, outboundA, liveA, pinnedA, pendingA, parkedA, timersA, callerA,
    dialsA, diskA, labelA, unsavedA, presentedA, knownB, connB, outqB, outboundB, liveB,
    pinnedB, pendingB, parkedB, timersB, callerB, dialsB, diskB, labelB, unsavedB,
    presentedB, calm, steps>>

MCInit == pair \in BOOLEAN /\ Init /\ T!Init

MCNext ==
  /\ UNCHANGED pair
  /\ \/ ~pair /\ Next /\ UNCHANGED pairvars
     \/ pair /\ T!Next /\ UNCHANGED vars

MCSpec == MCInit /\ [][MCNext]_<<pair, vars, pairvars>>

\* If nothing was withdrawn, lost or repeated, two daemons at rest agree on
\* whether they are paired, whoever asked, in whatever order the requests crossed
\* and whichever timer fired (on_pair_packet, answer_incoming, begin_pairing).
Agreement == T!Agreement

Symmetry == Permutations(Conns) \cup Permutations(Certs) \cup Permutations(Callers)

=============================================================================
