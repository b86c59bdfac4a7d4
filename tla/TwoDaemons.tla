----------------------------- MODULE TwoDaemons -----------------------------
(***************************************************************************)
(* Two daemons, "A" and "B", each with the manager of DeviceManager, and   *)
(* the control connection between them: a packet that the writer of one    *)
(* puts on the wire is what the reader of the other hands to its manager.  *)
(* Nobody restarts.                                                        *)
(***************************************************************************)
EXTENDS Integers, Sequences

CONSTANTS
  None, EmptyCert, Orphan,
  a, b,          \* the device ids, which are also their certificates
  link,          \* the connection
  Callers, OutCap, PairingTimeout, IncomingPairTimeout, AutoAcceptReads, MaxTimers,
  MaxUserSteps   \* bound: what the two users do

VARIABLES
  knownA, connA, outqA, outboundA, liveA, pinnedA, pendingA, parkedA, timersA, callerA,
  dialsA, diskA, labelA, unsavedA, presentedA, knownB, connB, outqB, outboundB, liveB,
  pinnedB, pendingB, parkedB, timersB, callerB, dialsB, diskB, labelB, unsavedB,
  presentedB,
  calm,   \* no decision was withdrawn or lost, no request repeated
  steps   \* user steps so far

A == INSTANCE DeviceManager WITH
  Devices <- {b}, Conns <- {link}, Certs <- {b}, MaxDials <- 0, known <- knownA,
  conn <- connA, outq <- outqA, outbound <- outboundA, live <- liveA,
  pinned <- pinnedA, pending <- pendingA, parked <- parkedA, timers <- timersA,
  caller <- callerA, dials <- dialsA, disk <- diskA, label <- labelA,
  unsaved <- unsavedA, presented <- presentedA

B == INSTANCE DeviceManager WITH
  Devices <- {a}, Conns <- {link}, Certs <- {a}, MaxDials <- 0, known <- knownB,
  conn <- connB, outq <- outqB, outbound <- outboundB, live <- liveB,
  pinned <- pinnedB, pending <- pendingB, parked <- parkedB, timers <- timersB,
  caller <- callerB, dials <- dialsB, disk <- diskB, label <- labelB,
  unsaved <- unsavedB, presented <- presentedB

varsA == <<knownA, connA, outqA, outboundA, liveA, pinnedA, pendingA, parkedA,
           timersA, callerA, dialsA, diskA, labelA, unsavedA, presentedA>>
varsB == <<knownB, connB, outqB, outboundB, liveB, pinnedB, pendingB, parkedB,
           timersB, callerB, dialsB, diskB, labelB, unsavedB, presentedB>>
vars == <<varsA, varsB, calm, steps>>

-----------------------------------------------------------------------------
Up == connA[link] # None /\ connB[link] # None

\* The handshake has ended on both sides.
Connect ==
  /\ ~Up /\ A!OnConnected(b, b, FALSE) /\ B!OnConnected(a, a, FALSE)
  /\ UNCHANGED <<calm, steps>>

Close ==
  /\ Up /\ A!OnClosed(link) /\ B!OnClosed(link)
  /\ calm' = FALSE /\ UNCHANGED steps

\* (mutant) a packet may be written twice
AtoBRepeated ==
  /\ Up /\ outqA[link] # <<>>
  /\ A!WriterSends(link) \/ UNCHANGED varsA
  /\ B!Receives(link, Head(outqA[link]))
  /\ UNCHANGED <<calm, steps>>

AtoB ==
  /\ A!WriterSends(link) /\ B!Receives(link, Head(outqA[link]))
  /\ UNCHANGED <<calm, steps>>

BtoA ==
  /\ B!WriterSends(link) /\ A!Receives(link, Head(outqB[link]))
  /\ UNCHANGED <<calm, steps>>

\* What a user does is calm if it withdraws nothing, repeats no request, and
\* what it sends finds room.
UserA ==
  /\ steps < MaxUserSteps /\ steps' = steps + 1 /\ A!FromUser(b)
  /\ calm' = (calm /\ A!CanSend(b) /\ ~A!Unpair(b)
              /\ \A k \in Callers : callerA'[k] # callerA[k] => pendingA[b] = None)
  /\ UNCHANGED varsB

UserB ==
  /\ steps < MaxUserSteps /\ steps' = steps + 1 /\ B!FromUser(a)
  /\ calm' = (calm /\ B!CanSend(a) /\ ~B!Unpair(a)
              /\ \A k \in Callers : callerB'[k] # callerB[k] => pendingB[a] = None)
  /\ UNCHANGED varsA

TimerA ==
  /\ A!PairingTimeoutFires(b) \/ \E k \in Callers : A!CallerTimesOut(k)
  /\ calm' = (calm /\ A!CanSend(b)) /\ UNCHANGED <<varsB, steps>>

TimerB ==
  /\ B!PairingTimeoutFires(a) \/ \E k \in Callers : B!CallerTimesOut(k)
  /\ calm' = (calm /\ B!CanSend(a)) /\ UNCHANGED <<varsA, steps>>

Tick == A!Tick /\ B!Tick /\ UNCHANGED <<calm, steps>>

Init == A!Init /\ B!Init /\ calm = TRUE /\ steps = 0

Next == Connect \/ Close \/ AtoB \/ BtoA \/ UserA \/ UserB \/ TimerA \/ TimerB \/ Tick

Spec == Init /\ [][Next]_vars

-----------------------------------------------------------------------------
\* No decision is owed and no packet is on its way.
AtRest ==
  /\ Up /\ outqA[link] = <<>> /\ outqB[link] = <<>>
  /\ pendingA[b] = None /\ pendingB[a] = None /\ parkedA[b] = None /\ parkedB[a] = None

\* If nothing was withdrawn, lost or repeated, two daemons at rest agree on
\* whether they are paired, whoever asked, in whatever order the requests
\* crossed and whichever timer fired.
Agreement ==
  AtRest /\ calm => ((pinnedA[b] = None) <=> (pinnedB[a] = None))
=============================================================================
