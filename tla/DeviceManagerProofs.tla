------------------------- MODULE DeviceManagerProofs -------------------------
(***************************************************************************)
(* Proofs about the device manager, for any number of devices, connections *)
(* and callers, and any capacities and timeouts.                           *)
(***************************************************************************)
EXTENDS DeviceManager, TLAPS

\* Sending leaves the queues well typed.
LEMMA SendOutType ==
  ASSUME TypeOK, NEW d \in Devices, NEW packet \in Packets, SendOut(d, packet)
  PROVE  outq' \in [Conns -> Seq(Packets)]
<1>1. CASE CanSend(d)
  <2>1. outbound[d] \in Conns
    BY <1>1 DEF TypeOK, CanSend, Connected
  <2>2. Append(outq[outbound[d]], packet) \in Seq(Packets)
    BY <2>1 DEF TypeOK
  <2> QED BY <1>1, <2>1, <2>2 DEF SendOut, TypeOK
<1>2. CASE ~CanSend(d)
  BY <1>2 DEF SendOut, TypeOK
<1> QED BY <1>1, <1>2

\* Writing trust leaves the pins, the rows and the history well typed.
LEMMA PersistTrustType ==
  ASSUME TypeOK, NEW d \in Devices, NEW paired \in BOOLEAN, PersistTrust(d, paired)
  PROVE  /\ pinned' \in [Devices -> Certs \cup {EmptyCert, None}]
         /\ disk' \in [Devices -> Row \cup {None}]
         /\ unsaved' \in SUBSET Devices
<1>1. TrustedFingerprint(d) \in Certs \cup {EmptyCert}
  BY DEF TypeOK, TrustedFingerprint
<1>2. CASE d \in known
  <2> DEFINE row == [paired |-> paired,
                     cert |-> IF paired THEN TrustedFingerprint(d) ELSE EmptyCert]
  <2>1. row \in Row
    BY <1>1 DEF Row
  <2>2. Upsert(d, row) /\ pinned' = [pinned EXCEPT ![d] = IF paired THEN row.cert ELSE None]
    BY <1>2 DEF PersistTrust
  <2>3. row.cert \in Certs \cup {EmptyCert}
    BY <1>1
  <2> HIDE DEF row
  <2>4. pinned' \in [Devices -> Certs \cup {EmptyCert, None}]
    BY <2>2, <2>3 DEF TypeOK
  <2>5. disk' \in [Devices -> Row \cup {None}] /\ unsaved' \in SUBSET Devices
    BY <2>1, <2>2, ZenonT(60) DEF Upsert, TypeOK
  <2> QED BY <2>4, <2>5
<1>3. CASE d \notin known
  BY <1>3 DEF PersistTrust, TypeOK
<1> QED BY <1>2, <1>3

\* Completing a oneshot leaves the callers well typed.
LEMMA ResolveType ==
  ASSUME TypeOK, NEW slot, Resolve(slot)
  PROVE  caller' \in [Callers -> Call \cup {None}]
BY DEF TypeOK, Resolve

\* A tick keeps the timers sequences of countdowns.
LEMMA CountDownType ==
  ASSUME NEW T \in Nat, NEW s \in Seq(0..T)
  PROVE  [i \in DOMAIN s |-> CountDown(s[i])] \in Seq(0..T)
<1>1. DOMAIN s = 1..Len(s) /\ Len(s) \in Nat
  OBVIOUS
<1>2. \A i \in 1..Len(s) : CountDown(s[i]) \in 0..T
  BY DEF CountDown
<1> DEFINE f == [i \in 1..Len(s) |-> CountDown(s[i])]
<1>3. f \in [1..Len(s) -> 0..T]
  BY <1>2
<1>4. f \in Seq(0..T)
  <2> HIDE DEF f
  <2> QED BY <1>1, <1>3
<1> QED BY <1>1, <1>4

\* Every handler, task and timer preserves the types.
LEMMA TypeStep == TypeOK /\ [Next]_vars => TypeOK'
<1> SUFFICES ASSUME TypeOK, [Next]_vars PROVE TypeOK'
  OBVIOUS
<1>1. ASSUME NEW d \in Devices, OnAnnounce(d) PROVE TypeOK'
  <2>1. dials' \in [Devices -> 0..MaxDials]
    <3>1. dials[d] \in 0..MaxDials /\ MaxDials \in Nat
      BY BoundAssumption DEF TypeOK
    <3>2. dials[d] < MaxDials => dials[d] + 1 \in 0..MaxDials
      BY <3>1
    <3> QED BY <1>1, <3>2, Zenon DEF OnAnnounce, TypeOK
  <2>2. label' \in [Devices -> Labels] /\ known' \in SUBSET Devices
    BY <1>1 DEF OnAnnounce, TypeOK, Labels
  <2> QED BY <1>1, <2>1, <2>2 DEF OnAnnounce, TypeOK
<1>2. ASSUME NEW d \in Devices, DialFails(d) PROVE TypeOK'
  BY <1>2, BoundAssumption DEF DialFails, TypeOK
<1>3. ASSUME NEW d \in Devices, NEW cert \in Certs, NEW dialled \in BOOLEAN,
             OnConnected(d, cert, dialled)
      PROVE  TypeOK'
  <2>1. dials' \in [Devices -> 0..MaxDials]
    <3>1. dials[d] \in 0..MaxDials /\ MaxDials \in Nat
      BY BoundAssumption DEF TypeOK
    <3>2. dials[d] > 0 => dials[d] - 1 \in 0..MaxDials
      BY <3>1
    <3> QED BY <1>3, <3>2, Zenon DEF OnConnected, HandshakeDone, TypeOK
  <2>2. ASSUME NEW c \in Conns, Install(d, cert, c) PROVE TypeOK'
    <3>1. [dev |-> d, cert |-> cert, writing |-> TRUE] \in ConnRecord
      BY DEF ConnRecord
    <3>2. conn' \in [Conns -> ConnRecord \cup {None}]
      BY <2>2, <3>1 DEF Install, TypeOK
    <3>3. label' \in [Devices -> Labels]
      BY <2>2 DEF Install, Publish, TypeOK, Labels
    <3>4. outq' \in [Conns -> Seq(Packets)]
      BY <2>2 DEF Install, TypeOK
    <3> QED BY <2>1, <2>2, <3>2, <3>3, <3>4, Zenon DEF Install, TypeOK
  <2>3. CASE ~PinAdmits(d, cert)
    BY <1>3, <2>1, <2>3 DEF OnConnected, TypeOK
  <2> QED BY <1>3, <2>2, <2>3 DEF OnConnected
<1>4. ASSUME NEW c \in Conns, OnClosed(c) PROVE TypeOK'
  <2>1. conn[c].dev \in Devices
    BY <1>4 DEF OnClosed, Unpark, Unlink, TypeOK, ConnRecord
  <2>2. caller' \in [Callers -> Call \cup {None}]
    BY <1>4, ResolveType DEF OnClosed, Unpark, Unlink
  <2> QED BY <1>4, <2>1, <2>2 DEF OnClosed, Unpark, Unlink, Publish, TypeOK, Labels
<1>5. ASSUME NEW c \in Conns, WriterSends(c) PROVE TypeOK'
  BY <1>5 DEF WriterSends, TypeOK
<1>6. ASSUME NEW c \in Conns, WriterFails(c) PROVE TypeOK'
  <2>1. conn' \in [Conns -> ConnRecord \cup {None}]
    <3>1. conn[c] \in ConnRecord
      BY <1>6 DEF WriterFails, TypeOK
    <3>2. [conn[c] EXCEPT !.writing = FALSE] \in ConnRecord
      BY <3>1, Zenon DEF ConnRecord
    <3> QED BY <1>6, <3>2 DEF WriterFails, TypeOK
  <2> QED BY <1>6, <2>1 DEF WriterFails, TypeOK
<1>7. ASSUME NEW c \in Conns, NEW wants \in BOOLEAN, OnPairAnswer(c, wants)
      PROVE  TypeOK'
  <2>1. conn[c].dev \in Devices
    BY <1>7 DEF OnPairAnswer, TypeOK, ConnRecord
  <2>2. caller' \in [Callers -> Call \cup {None}]
    BY <1>7, ResolveType DEF OnPairAnswer
  <2>3. CASE wants
    BY <1>7, <2>1, <2>2, <2>3, PersistTrustType, Zenon DEF OnPairAnswer, Publish, TypeOK, Labels
  <2>4. CASE ~wants
    BY <1>7, <2>1, <2>2, <2>4, Zenon DEF OnPairAnswer, TypeOK
  <2> QED BY <2>3, <2>4
<1>8. ASSUME NEW c \in Conns, OnPairAutoAccept(c) PROVE TypeOK'
  <2>1. conn[c].dev \in Devices
    BY <1>8 DEF OnPairAutoAccept, TypeOK, ConnRecord
  <2>2. outq' \in [Conns -> Seq(Packets)]
    BY <1>8, <2>1, SendOutType DEF OnPairAutoAccept, Packets
  <2> QED
    BY <1>8, <2>1, <2>2, PersistTrustType, Zenon DEF OnPairAutoAccept, Publish, TypeOK, Labels
<1>9. ASSUME NEW c \in Conns, OnPairUnreachable(c) PROVE TypeOK'
  <2>1. conn[c].dev \in Devices
    BY <1>9 DEF OnPairUnreachable, TypeOK, ConnRecord
  <2> QED BY <1>9, <2>1, SendOutType DEF OnPairUnreachable, TypeOK, Packets
<1>10. ASSUME NEW c \in Conns, OnPairPark(c) PROVE TypeOK'
  <2>1. conn[c].dev \in Devices
    BY <1>10 DEF OnPairPark, StartTimer, TypeOK, ConnRecord
  <2> QED BY <1>10, <2>1, BoundAssumption DEF OnPairPark, StartTimer, TypeOK
<1>11. ASSUME NEW c \in Conns, OnPairRevoke(c) PROVE TypeOK'
  <2>1. conn[c].dev \in Devices
    BY <1>11 DEF OnPairRevoke, Unpark, TypeOK, ConnRecord
  <2> QED BY <1>11, <2>1, PersistTrustType, Zenon DEF OnPairRevoke, Unpark, Publish, TypeOK,
                                               Labels
<1>12. ASSUME NEW c \in Conns, OnPluginPacket(c) PROVE TypeOK'
  <2>1. conn[c].dev \in Devices
    BY <1>12 DEF OnPluginPacket, TypeOK, ConnRecord
  <2> QED BY <1>12, <2>1, SendOutType DEF OnPluginPacket, TypeOK, Packets
<1>13. ASSUME NEW d \in Devices, NEW k \in Callers, NEW left \in 0..PairingTimeout,
              BeginPairing(k, d, left)
       PROVE  TypeOK'
  <2>1. outq' \in [Conns -> Seq(Packets)]
    BY <1>13, SendOutType DEF BeginPairing, Packets
  <2> QED BY <1>13, <2>1 DEF BeginPairing, TypeOK, Call
<1>14. ASSUME NEW k \in Callers, CallerTimesOut(k) PROVE TypeOK'
  BY <1>14 DEF CallerTimesOut, TypeOK
<1>15. ASSUME NEW d \in Devices, Unpair(d) PROVE TypeOK'
  <2>1. outq' \in [Conns -> Seq(Packets)]
    BY <1>15, SendOutType DEF Unpair, Packets
  <2> QED BY <1>15, <2>1, PersistTrustType, Zenon DEF Unpair, TypeOK, Labels
<1>16. ASSUME NEW d \in Devices, NEW accept \in BOOLEAN, AnswerIncoming(d, accept)
       PROVE  TypeOK'
  <2>1. outq' \in [Conns -> Seq(Packets)]
    BY <1>16, SendOutType DEF AnswerIncoming, Unpark, Packets
  <2>2. CASE accept
    BY <1>16, <2>1, <2>2, PersistTrustType, Zenon
    DEF AnswerIncoming, AnswerLabel, Unpark, Publish, TypeOK, Labels
  <2>3. CASE ~accept
    BY <1>16, <2>1, <2>3, Zenon DEF AnswerIncoming, AnswerLabel, Unpark, Publish, TypeOK, Labels
  <2> QED BY <2>2, <2>3
<1>17. ASSUME NEW d \in Devices, AnswerExpired(d) PROVE TypeOK'
  BY <1>17 DEF AnswerExpired, Unpark, TypeOK
<1>18. ASSUME NEW d \in Devices, PairingTimeoutFires(d) PROVE TypeOK'
  <2>1. outq' \in [Conns -> Seq(Packets)]
    BY <1>18, SendOutType DEF PairingTimeoutFires, Unpark, Packets, TypeOK
  <2> QED BY <1>18, <2>1 DEF PairingTimeoutFires, Unpark, TypeOK
<1>19. CASE Tick
  <2>1. timers' \in [Devices -> Seq(0..IncomingPairTimeout)]
    BY <1>19, CountDownType, BoundAssumption DEF Tick, TypeOK
  <2>2. caller' \in [Callers -> Call \cup {None}]
    <3>1. ASSUME NEW k \in Callers, caller[k] # None
          PROVE  [caller[k] EXCEPT !.left = CountDown(@)] \in Call
      <4>1. caller[k] \in Call
        BY <3>1 DEF TypeOK
      <4>2. CountDown(caller[k].left) \in 0..PairingTimeout
        BY <4>1, BoundAssumption DEF Call, CountDown
      <4> QED BY <4>1, <4>2 DEF Call
    <3> QED BY <1>19, <3>1 DEF Tick
  <2>3. parked' \in [Devices -> (-1)..IncomingPairTimeout \cup {None}]
    BY <1>19, BoundAssumption DEF Tick, TypeOK
  <2> QED BY <1>19, <2>1, <2>2, <2>3 DEF Tick, TypeOK
<1>20. CASE Restart
  BY <1>20, BoundAssumption DEF Restart, TypeOK, Row, Labels
<1>21. CASE UNCHANGED vars
  BY <1>21 DEF vars, TypeOK
<1> QED
  BY <1>1, <1>2, <1>3, <1>4, <1>5, <1>6, <1>7, <1>8, <1>9, <1>10, <1>11, <1>12, <1>13, Zenon,
     <1>14, <1>15, <1>16, <1>17, <1>18, <1>19, <1>20, <1>21
  DEF Next, FromPeer, Receives, FromUser, FromNetwork

\* Every field of the manager keeps its type, in every reachable state.
THEOREM TypeCorrect == Spec => []TypeOK
<1>1. Init => TypeOK
  BY BoundAssumption DEF Init, TypeOK, Labels
<1> QED BY <1>1, TypeStep, PTL DEF Spec

-----------------------------------------------------------------------------
(* The table entry and its connection.                                     *)

\* The only actions that touch the connections or where the table points.
LEMMA LinkActions ==
  ASSUME [Next]_vars
  PROVE  \/ \E d \in Devices, cert \in Certs, c \in Conns :
              PinAdmits(d, cert) /\ Install(d, cert, c)
         \/ \E c \in Conns : OnClosed(c) \/ WriterFails(c)
         \/ Restart
         \/ UNCHANGED <<conn, outbound, live, presented>>
<1>1. ASSUME NEW c \in Conns, FromPeer(c)
      PROVE  OnClosed(c) \/ UNCHANGED <<conn, outbound, live, presented>>
  BY <1>1, Zenon DEF FromPeer, Receives, OnPairAnswer, OnPairAutoAccept, OnPairUnreachable,
              OnPairPark, OnPairRevoke, OnPluginPacket
<1>2. ASSUME NEW d \in Devices, FromUser(d) \/ PairingTimeoutFires(d)
      PROVE  UNCHANGED <<conn, outbound, live, presented>>
  BY <1>2, Zenon DEF FromUser, BeginPairing, Unpair, AnswerIncoming, AnswerExpired,
              PairingTimeoutFires
<1>3. ASSUME NEW d \in Devices, FromNetwork(d)
      PROVE  \/ \E cert \in Certs, c \in Conns : PinAdmits(d, cert) /\ Install(d, cert, c)
             \/ UNCHANGED <<conn, outbound, live, presented>>
  BY <1>3 DEF FromNetwork, OnAnnounce, DialFails, OnConnected
<1> QED BY <1>1, <1>2, <1>3, Zenon DEF Next, WriterSends, CallerTimesOut, Tick, vars

\* Every step keeps the table entry and its connection in agreement.
LEMMA LinkStep == TypeOK /\ LinkIsCoherent /\ [Next]_vars => LinkIsCoherent'
<1> SUFFICES ASSUME TypeOK, LinkIsCoherent, [Next]_vars PROVE LinkIsCoherent'
  OBVIOUS
<1> USE SentinelAssumption
<1>1. ASSUME NEW d \in Devices, NEW cert \in Certs, NEW c \in Conns, Install(d, cert, c)
      PROVE  LinkIsCoherent'
  <2> DEFINE r == [dev |-> d, cert |-> cert, writing |-> TRUE]
  <2>1. r \in ConnRecord /\ r.dev = d /\ r.cert = cert
    BY DEF ConnRecord
  <2>2. r # None
    BY <2>1, Zenon
  <2> HIDE DEF r
  <2>3. conn' = [conn EXCEPT ![c] = r] /\ conn[c] = None
    BY <1>1 DEF Install, r
  <2>4. outbound' = [outbound EXCEPT ![d] = c] /\ live' = [live EXCEPT ![d] = cert]
    BY <1>1 DEF Install
  <2> QED BY <2>1, <2>2, <2>3, <2>4 DEF LinkIsCoherent, TypeOK
<1>2. ASSUME NEW c \in Conns, OnClosed(c) PROVE LinkIsCoherent'
  BY <1>2 DEF OnClosed, Unpark, Unlink, LinkIsCoherent, TypeOK, ConnRecord
<1>3. ASSUME NEW c \in Conns, WriterFails(c) PROVE LinkIsCoherent'
  <2>1. conn[c] \in ConnRecord
    BY <1>3 DEF WriterFails, TypeOK
  <2> DEFINE r == [conn[c] EXCEPT !.writing = FALSE]
  <2>2. r \in ConnRecord /\ r.dev = conn[c].dev /\ r.cert = conn[c].cert
    BY <2>1, Zenon DEF ConnRecord
  <2>3. conn' = [conn EXCEPT ![c] = r]
    BY <1>3 DEF WriterFails
  <2> HIDE DEF r
  <2>4. UNCHANGED <<outbound, live>>
    BY <1>3 DEF WriterFails
  <2> QED BY <2>1, <2>2, <2>3, <2>4 DEF LinkIsCoherent, TypeOK
<1>4. CASE Restart
  BY <1>4 DEF Restart, LinkIsCoherent
<1>5. CASE UNCHANGED <<conn, outbound, live, presented>>
  BY <1>5 DEF LinkIsCoherent
<1> QED BY <1>1, <1>2, <1>3, <1>4, <1>5, LinkActions

\* The outbound queue and the fingerprint in the table always belong to one open
\* connection of that device (on_connected, on_closed).
THEOREM LinkCoherent == Spec => []LinkIsCoherent
<1>1. Init => LinkIsCoherent
  <2> SUFFICES ASSUME Init, NEW d \in Devices
               PROVE  outbound[d] = None /\ live[d] = None
    BY Zenon DEF LinkIsCoherent
  <2> QED BY DEF Init
<1> QED BY <1>1, LinkStep, TypeCorrect, PTL DEF Spec

-----------------------------------------------------------------------------
(* Pairing decisions and the connection they travel on.                    *)

\* Every step keeps a connection under each decision still owed.
LEMMA DecisionStep ==
  TypeOK /\ LinkIsCoherent /\ DecisionNeedsLink /\ [Next]_vars => DecisionNeedsLink'
<1> SUFFICES ASSUME TypeOK, LinkIsCoherent, DecisionNeedsLink, [Next]_vars
             PROVE  DecisionNeedsLink'
  OBVIOUS
<1> USE SentinelAssumption DEF DecisionNeedsLink, Connected
<1>1. ASSUME NEW d \in Devices, NEW cert \in Certs, NEW c \in Conns, Install(d, cert, c)
      PROVE  DecisionNeedsLink'
  BY <1>1, Zenon DEF Install, TypeOK
<1>2. ASSUME NEW c \in Conns, OnClosed(c) PROVE DecisionNeedsLink'
  <2>1. conn[c].dev \in Devices
    BY <1>2 DEF OnClosed, Unpark, Unlink, TypeOK, ConnRecord
  <2> QED BY <1>2, <2>1 DEF OnClosed, Unpark, Unlink, TypeOK
<1>3. ASSUME NEW c \in Conns, NEW wants \in BOOLEAN, OnPairAnswer(c, wants)
      PROVE  DecisionNeedsLink'
  BY <1>3, Zenon DEF OnPairAnswer, TypeOK
<1>4. ASSUME NEW c \in Conns, OnPairPark(c) PROVE DecisionNeedsLink'
  BY <1>4, ZenonT(60) DEF OnPairPark, StartTimer, TypeOK
<1>5. ASSUME NEW c \in Conns, OnPairRevoke(c) PROVE DecisionNeedsLink'
  BY <1>5, ZenonT(60) DEF OnPairRevoke, Unpark, TypeOK
<1>6. ASSUME NEW d \in Devices, NEW k \in Callers, NEW left \in 0..PairingTimeout,
             BeginPairing(k, d, left)
      PROVE  DecisionNeedsLink'
  BY <1>6 DEF BeginPairing, MayBegin, TypeOK
<1>7. ASSUME NEW k \in Callers, CallerTimesOut(k) PROVE DecisionNeedsLink'
  BY <1>7 DEF CallerTimesOut, TypeOK
<1>8. ASSUME NEW d \in Devices, NEW accept \in BOOLEAN, AnswerIncoming(d, accept)
      PROVE  DecisionNeedsLink'
  BY <1>8, Zenon DEF AnswerIncoming, Unpark, TypeOK
<1>9. ASSUME NEW d \in Devices, AnswerExpired(d) \/ PairingTimeoutFires(d)
      PROVE  DecisionNeedsLink'
  BY <1>9 DEF AnswerExpired, Unpark, PairingTimeoutFires, TypeOK
<1>10. CASE Tick
  <2>1. UNCHANGED <<pending, outbound>>
    BY <1>10 DEF Tick
  <2>2. \A d \in Devices : parked'[d] # None => parked[d] # None
    BY <1>10, Zenon DEF Tick
  <2> QED BY <2>1, <2>2
<1>11. CASE Restart
  BY <1>11 DEF Restart
<1>12. CASE UNCHANGED <<pending, parked, outbound>>
  BY <1>12
<1> QED
  BY <1>1, <1>2, <1>3, <1>4, <1>5, <1>6, <1>7, <1>8, <1>9, <1>10, <1>11, <1>12, Zenon
  DEF Next, FromPeer, Receives, FromUser, FromNetwork, OnAnnounce, DialFails,
      OnConnected, WriterSends, WriterFails, OnPairAutoAccept, OnPairUnreachable,
      OnPluginPacket, Unpair, vars

\* A decision still owed by the peer or by the user always has a connection it
\* can travel on (on_closed clears both slots with the connection).
THEOREM DecisionHasLink == Spec => []DecisionNeedsLink
<1>1. Init => DecisionNeedsLink
  BY Zenon DEF Init, DecisionNeedsLink
<1> QED BY <1>1, DecisionStep, TypeCorrect, LinkCoherent, PTL DEF Spec

-----------------------------------------------------------------------------
(* Trust: what is pinned, and what is on disk.                             *)

\* The ways a step can change the pins, the rows or the live fingerprints.  Trust
\* is only ever granted to a connected device.
LEMMA TrustActions ==
  ASSUME TypeOK, DecisionNeedsLink, [Next]_vars
  PROVE  \/ \E d \in Devices : /\ Connected(d) /\ PersistTrust(d, TRUE)
                               /\ UNCHANGED <<live, presented>>
         \/ \E d \in Devices : PersistTrust(d, FALSE) /\ UNCHANGED <<live, presented>>
         \/ \E d \in Devices, cert \in Certs, c \in Conns :
              PinAdmits(d, cert) /\ Install(d, cert, c)
         \/ \E c \in Conns : OnClosed(c)
         \/ Restart
         \/ UNCHANGED <<pinned, disk, unsaved, live, presented>>
<1>1. \A c \in Conns : conn[c] # None => conn[c].dev \in Devices
  BY DEF TypeOK, ConnRecord
<1>2. ASSUME NEW c \in Conns, NEW wants \in BOOLEAN, OnPairAnswer(c, wants)
      PROVE  \/ \E d \in Devices : /\ Connected(d) /\ PersistTrust(d, TRUE)
                                   /\ UNCHANGED <<live, presented>>
             \/ UNCHANGED <<pinned, disk, unsaved, live, presented>>
  BY <1>1, <1>2, Zenon DEF OnPairAnswer, DecisionNeedsLink
<1>3. ASSUME NEW d \in Devices, NEW accept \in BOOLEAN, AnswerIncoming(d, accept)
      PROVE  \/ Connected(d) /\ PersistTrust(d, TRUE) /\ UNCHANGED <<live, presented>>
             \/ UNCHANGED <<pinned, disk, unsaved, live, presented>>
  BY <1>3, Zenon DEF AnswerIncoming, Unpark, DecisionNeedsLink
<1>4. ASSUME NEW c \in Conns, OnPairAutoAccept(c)
      PROVE  \E d \in Devices : /\ Connected(d) /\ PersistTrust(d, TRUE)
                                /\ UNCHANGED <<live, presented>>
  BY <1>1, <1>4, Zenon DEF OnPairAutoAccept
<1>5. ASSUME NEW c \in Conns, OnPairRevoke(c)
      PROVE  \E d \in Devices : PersistTrust(d, FALSE) /\ UNCHANGED <<live, presented>>
  BY <1>1, <1>5, Zenon DEF OnPairRevoke, Unpark
<1> QED
  BY <1>2, <1>3, <1>4, <1>5, ZenonT(60)
  DEF Next, FromPeer, Receives, FromUser, FromNetwork, OnAnnounce, DialFails,
      OnConnected, WriterSends, WriterFails, OnPairUnreachable, OnPairPark, StartTimer,
      OnPluginPacket, BeginPairing, CallerTimesOut, Unpair, AnswerExpired, Unpark,
      PairingTimeoutFires, Tick, vars

\* What granting trust to a connected device does.
LEMMA GrantPinsLive ==
  ASSUME TypeOK, NEW d \in Devices, live[d] # None, PersistTrust(d, TRUE)
  PROVE  \/ UNCHANGED <<pinned, disk, unsaved>>
         \/ /\ pinned' = [pinned EXCEPT ![d] = live[d]]
            /\ \/ /\ disk' = [disk EXCEPT ![d] = [paired |-> TRUE, cert |-> live[d]]]
                  /\ unsaved' = unsaved \ {d}
               \/ UNCHANGED disk /\ unsaved' = unsaved \cup {d}
BY DEF PersistTrust, TrustedFingerprint, Upsert

\* What withdrawing trust does.
LEMMA RevokeUnpins ==
  ASSUME TypeOK, NEW d \in Devices, PersistTrust(d, FALSE)
  PROVE  \/ UNCHANGED <<pinned, disk, unsaved>>
         \/ /\ pinned' = [pinned EXCEPT ![d] = None]
            /\ \/ /\ disk' = [disk EXCEPT ![d] = [paired |-> FALSE, cert |-> EmptyCert]]
                  /\ unsaved' = unsaved \ {d}
               \/ UNCHANGED disk /\ unsaved' = unsaved \cup {d}
BY DEF PersistTrust, Upsert

\* PinnedMatchesLive and PinnedWasPresented are inductive together with the fact
\* that the live certificate was presented, which is what a grant pins.
TrustInv ==
  /\ PinnedMatchesLive
  /\ PinnedWasPresented
  /\ \A d \in Devices : live[d] # None => live[d] \in presented[d]

\* Every step preserves what is known of the trusted certificates.
LEMMA TrustStep ==
  TypeOK /\ LinkIsCoherent /\ DecisionNeedsLink /\ TrustInv /\ [Next]_vars => TrustInv'
<1> SUFFICES ASSUME TypeOK, LinkIsCoherent, DecisionNeedsLink, TrustInv, [Next]_vars
             PROVE  TrustInv'
  BY Zenon
<1> USE SentinelAssumption DEF TrustInv, PinnedMatchesLive, PinnedWasPresented
<1>1. ASSUME NEW d \in Devices, Connected(d), PersistTrust(d, TRUE),
             UNCHANGED <<live, presented>>
      PROVE  TrustInv'
  <2>1. live[d] # None
    BY <1>1 DEF Connected, LinkIsCoherent
  <2>2. CASE UNCHANGED <<pinned, disk, unsaved>>
    BY <1>1, <2>2, Zenon
  <2>3. CASE /\ pinned' = [pinned EXCEPT ![d] = live[d]]
             /\ \/ disk' = [disk EXCEPT ![d] = [paired |-> TRUE, cert |-> live[d]]]
                \/ UNCHANGED disk
    BY <1>1, <2>1, <2>3, SMTT(60) DEF TypeOK
  <2> QED BY <1>1, <2>1, <2>2, <2>3, GrantPinsLive, Zenon
<1>2. ASSUME NEW d \in Devices, PersistTrust(d, FALSE), UNCHANGED <<live, presented>>
      PROVE  TrustInv'
  <2>1. CASE UNCHANGED <<pinned, disk, unsaved>>
    BY <1>2, <2>1
  <2>2. CASE /\ pinned' = [pinned EXCEPT ![d] = None]
             /\ \/ disk' = [disk EXCEPT ![d] = [paired |-> FALSE, cert |-> EmptyCert]]
                \/ UNCHANGED disk
    BY <1>2, <2>2, SMTT(60) DEF TypeOK
  <2> QED BY <1>2, <2>1, <2>2, RevokeUnpins, Zenon
<1>3. ASSUME NEW d \in Devices, NEW cert \in Certs, NEW c \in Conns,
             PinAdmits(d, cert), Install(d, cert, c)
      PROVE  TrustInv'
  <2>1. /\ live' = [live EXCEPT ![d] = cert]
        /\ presented' = [presented EXCEPT ![d] = @ \cup {cert}]
        /\ UNCHANGED <<pinned, disk>>
        /\ pinned[d] \in {None, cert}
    BY <1>3, Zenon DEF PinAdmits, Install
  <2>2. live \in [Devices -> Certs \cup {None}] /\ presented \in [Devices -> SUBSET Certs]
    BY Zenon DEF TypeOK
  <2>3. /\ live'[d] = cert /\ presented'[d] = presented[d] \cup {cert}
        /\ \A e \in Devices \ {d} : live'[e] = live[e] /\ presented'[e] = presented[e]
    BY <2>1, <2>2
  <2>4. PinnedMatchesLive'
    BY <2>1, <2>3
  <2>5. PinnedWasPresented'
    BY <2>1, <2>3
  <2>6. \A e \in Devices : live'[e] # None => live'[e] \in presented'[e]
    BY <2>3
  <2> QED BY <2>4, <2>5, <2>6
<1>4. ASSUME NEW c \in Conns, OnClosed(c) PROVE TrustInv'
  BY <1>4, Zenon DEF OnClosed, Unpark, Unlink, TypeOK
<1>5. CASE Restart
  BY <1>5 DEF Restart, TypeOK
<1>6. CASE UNCHANGED <<pinned, disk, unsaved, live, presented>>
  BY <1>6
<1> QED BY <1>1, <1>2, <1>3, <1>4, <1>5, <1>6, TrustActions, Zenon

\* Only certificates the device presented are ever trusted, in memory or in the
\* store, and the connection in use presents the pinned one (on_connected,
\* persist_trust, load_persisted).
THEOREM TrustIsPresented == Spec => []TrustIsSound
<1>1. Init => TrustInv
  BY DEF Init, TrustInv, PinnedMatchesLive, PinnedWasPresented
<1>2. TrustInv => TrustIsSound
  BY Zenon DEF TrustInv, TrustIsSound
<1> QED
  BY <1>1, <1>2, TrustStep, TypeCorrect, LinkCoherent, DecisionHasLink, PTL DEF Spec

\* Every step writes through to the store what it changes in memory.
LEMMA DiskStep ==
  TypeOK /\ LinkIsCoherent /\ DecisionNeedsLink /\ DiskMatchesMemory /\ [Next]_vars
    => DiskMatchesMemory'
<1> SUFFICES ASSUME TypeOK, LinkIsCoherent, DecisionNeedsLink, DiskMatchesMemory,
                    [Next]_vars
             PROVE  DiskMatchesMemory'
  OBVIOUS
<1> USE SentinelAssumption DEF DiskMatchesMemory
<1>1. ASSUME NEW d \in Devices, Connected(d), PersistTrust(d, TRUE)
      PROVE  DiskMatchesMemory'
  <2>1. live[d] # None /\ live[d] \in Certs
    BY <1>1 DEF Connected, LinkIsCoherent, TypeOK
  <2> DEFINE row == [paired |-> TRUE, cert |-> live[d]]
  <2>2. row \in Row /\ row.paired /\ row.cert = live[d]
    BY <2>1 DEF Row
  <2>3. \/ UNCHANGED <<pinned, disk, unsaved>>
        \/ /\ pinned' = [pinned EXCEPT ![d] = live[d]]
           /\ \/ disk' = [disk EXCEPT ![d] = row] /\ unsaved' = unsaved \ {d}
              \/ UNCHANGED disk /\ unsaved' = unsaved \cup {d}
    BY <1>1, <2>1, GrantPinsLive, Zenon
  <2> HIDE DEF row
  <2> QED BY <2>2, <2>3 DEF TypeOK
<1>2. ASSUME NEW d \in Devices, PersistTrust(d, FALSE) PROVE DiskMatchesMemory'
  <2> DEFINE row == [paired |-> FALSE, cert |-> EmptyCert]
  <2>1. row \in Row /\ ~row.paired
    BY DEF Row
  <2>2. \/ UNCHANGED <<pinned, disk, unsaved>>
        \/ /\ pinned' = [pinned EXCEPT ![d] = None]
           /\ \/ disk' = [disk EXCEPT ![d] = row] /\ unsaved' = unsaved \ {d}
              \/ UNCHANGED disk /\ unsaved' = unsaved \cup {d}
    BY <1>2, RevokeUnpins, Zenon
  <2> HIDE DEF row
  <2> QED BY <2>1, <2>2 DEF TypeOK
<1>3. CASE UNCHANGED <<pinned, disk, unsaved>>
  BY <1>3
<1>4. CASE Restart
  BY <1>4 DEF Restart
<1> QED BY <1>1, <1>2, <1>3, <1>4, TrustActions, Zenon DEF Install, OnClosed, Unpark, Unlink

\* Unless the last upsert of a device failed, a restart of the daemon finds
\* exactly the trust that was in memory (persist_trust, load_persisted).
THEOREM TrustSurvivesRestart == Spec => []DiskMatchesMemory
<1>1. Init => DiskMatchesMemory
  BY ZenonT(60) DEF Init, DiskMatchesMemory
<1> QED BY <1>1, DiskStep, TypeCorrect, LinkCoherent, DecisionHasLink, PTL DEF Spec

-----------------------------------------------------------------------------
(* Callers and timers: nobody waits on something that cannot happen.       *)

\* Every step keeps the blocked callers and the reply slots paired up.
LEMMA WaiterStep == TypeOK /\ WaiterHasSlot /\ [Next]_vars => WaiterHasSlot'
<1> SUFFICES ASSUME TypeOK, WaiterHasSlot, [Next]_vars PROVE WaiterHasSlot'
  OBVIOUS
<1> USE SentinelAssumption DEF WaiterHasSlot
<1>0. \A k \in Callers : caller[k] # None => caller[k].dev \in Devices
  BY DEF TypeOK, Call
<1>1. ASSUME NEW d \in Devices, pending' = [pending EXCEPT ![d] = None],
             Resolve(pending[d])
      PROVE  WaiterHasSlot'
  BY <1>0, <1>1 DEF Resolve, TypeOK
<1>2. ASSUME NEW d \in Devices, NEW k \in Callers, NEW left \in 0..PairingTimeout,
             BeginPairing(k, d, left)
      PROVE  WaiterHasSlot'
  <2> DEFINE call == [dev |-> d, left |-> left]
  <2>1. call \in Call /\ call.dev = d
    BY Zenon DEF Call
  <2>2. /\ pending' = [pending EXCEPT ![d] = IF CanSend(d) THEN k ELSE None]
        /\ caller[k] = None
        /\ caller' = [j \in Callers |-> IF j = pending[d] THEN None
                                        ELSE IF j = k /\ CanSend(d) THEN call
                                        ELSE caller[j]]
    BY <1>2, Zenon DEF BeginPairing
  <2> HIDE DEF call
  <2> QED BY <1>0, <2>1, <2>2, SMTT(60) DEF TypeOK
<1>3. ASSUME NEW k \in Callers, CallerTimesOut(k) PROVE WaiterHasSlot'
  <2>1. /\ caller'[k] = None
        /\ \A j \in Callers \ {k} : caller'[j] = caller[j]
        /\ \A d \in Devices : pending'[d] = IF pending[d] = k THEN Orphan ELSE pending[d]
    BY <1>3 DEF CallerTimesOut, TypeOK
  <2>2. ASSUME NEW j \in Callers, caller'[j] # None PROVE pending'[caller'[j].dev] = j
    <3>1. j # k /\ caller'[j] = caller[j]
      BY <2>1, <2>2, Zenon
    <3>2. caller[j].dev \in Devices /\ pending[caller[j].dev] = j
      BY <1>0, <2>2, <3>1, Zenon
    <3> QED BY <2>1, <3>1, <3>2
  <2>3. ASSUME NEW j \in Callers, NEW d \in Devices, pending'[d] = j
        PROVE  caller'[j] # None /\ caller'[j].dev = d
    <3>1. j # Orphan
      BY Zenon DEF SentinelAssumption
    <3>2. j # k /\ pending[d] = j
      BY <2>1, <2>3, <3>1
    <3> QED BY <2>1, <3>2
  <2> QED BY <2>2, <2>3, Zenon
<1>4. CASE Tick
  <2>1. ASSUME NEW k \in Callers
        PROVE  /\ caller'[k] = None <=> caller[k] = None
               /\ caller[k] # None => caller'[k].dev = caller[k].dev
    <3>1. CASE caller[k] = None
      BY <1>4, <3>1 DEF Tick
    <3>2. CASE caller[k] # None
      <4>1. caller[k] \in Call /\ caller'[k] = [caller[k] EXCEPT !.left = CountDown(@)]
        BY <1>4, <3>2 DEF Tick, TypeOK
      <4>2. caller'[k] \in Call
        <5>1. CountDown(caller[k].left) \in 0..PairingTimeout
          BY <4>1, BoundAssumption DEF Call, CountDown
        <5> QED BY <4>1, <5>1 DEF Call
      <4> QED BY <3>2, <4>1, <4>2 DEF Call
    <3> QED BY <3>1, <3>2
  <2>2. UNCHANGED pending
    BY <1>4, Zenon DEF Tick
  <2>3. ASSUME NEW k \in Callers, caller'[k] # None PROVE pending'[caller'[k].dev] = k
    <3>1. caller[k] # None /\ caller'[k].dev = caller[k].dev
      BY <2>1, <2>3, Zenon
    <3>2. pending[caller[k].dev] = k
      BY <3>1, Zenon
    <3> QED BY <2>2, <3>1, <3>2, Zenon
  <2>4. ASSUME NEW k \in Callers, NEW d \in Devices, pending'[d] = k
        PROVE  caller'[k] # None /\ caller'[k].dev = d
    <3>1. caller[k] # None /\ caller[k].dev = d
      BY <2>2, <2>4, Zenon
    <3> QED BY <2>1, <3>1, Zenon
  <2> QED BY <2>3, <2>4, Zenon
<1>5. CASE Restart
  BY <1>5 DEF Restart
<1>6. CASE UNCHANGED <<pending, caller>>
  BY <1>6, Zenon
<1>7. \A c \in Conns : conn[c] # None => conn[c].dev \in Devices
  BY DEF TypeOK, ConnRecord
<1>8. ASSUME NEW c \in Conns, OnClosed(c) \/ \E wants \in BOOLEAN : OnPairAnswer(c, wants)
      PROVE  WaiterHasSlot'
  <2>1. /\ conn[c] # None
        /\ pending' = [pending EXCEPT ![conn[c].dev] = None]
        /\ Resolve(pending[conn[c].dev])
    BY <1>8, Zenon DEF OnClosed, Unpark, Unlink, OnPairAnswer
  <2> QED BY <1>1, <1>7, <2>1, Zenon
<1> QED
  BY <1>2, <1>3, <1>4, <1>5, <1>6, <1>8, ZenonT(60)
  DEF Next, FromPeer, Receives, FromUser, FromNetwork, OnAnnounce, DialFails,
      OnConnected, Install, WriterSends, WriterFails, OnPairAutoAccept,
      OnPairUnreachable, OnPairPark, StartTimer, OnPairRevoke, Unpark, OnPluginPacket,
      Unpair, AnswerIncoming, AnswerExpired, PairingTimeoutFires, vars

\* Every caller blocked in start_pairing is the one its device will answer, fail
\* or orphan (begin_pairing, on_pair_packet, on_closed).
THEOREM WaitersHaveSlots == Spec => []WaiterHasSlot
<1>1. Init => WaiterHasSlot
  BY SentinelAssumption DEF Init, WaiterHasSlot
<1> QED BY <1>1, WaiterStep, TypeCorrect, PTL DEF Spec

\* The last countdown of a sequence of timers after a tick.
LEMMA CountDownLast ==
  ASSUME NEW T \in Nat, NEW s \in Seq(0..T), s # <<>>,
         NEW t, t = [i \in DOMAIN s |-> CountDown(s[i])]
  PROVE  t # <<>> /\ t[Len(t)] = CountDown(s[Len(s)])
<1>1. Len(s) \in Nat /\ Len(s) # 0 /\ DOMAIN s = 1..Len(s)
  OBVIOUS
<1>2. t \in Seq(0..T)
  BY CountDownType
<1>3. DOMAIN t = 1..Len(s)
  BY <1>1
<1>4. Len(t) = Len(s)
  BY <1>1, <1>2, <1>3
<1> QED BY <1>1, <1>2, <1>4

\* Every step keeps the newest timer at the parked request's deadline.
LEMMA TimerStep == TypeOK /\ ParkedHasTimer /\ [Next]_vars => ParkedHasTimer'
<1> SUFFICES ASSUME TypeOK, ParkedHasTimer, [Next]_vars PROVE ParkedHasTimer'
  OBVIOUS
<1> USE SentinelAssumption DEF ParkedHasTimer
<1>1. ASSUME NEW d \in Devices, parked' = [parked EXCEPT ![d] = None],
             timers' = timers \/ timers' = [timers EXCEPT ![d] = Tail(@)]
      PROVE  ParkedHasTimer'
  BY <1>1, ZenonT(60) DEF TypeOK
<1>2. ASSUME NEW c \in Conns, OnPairPark(c) PROVE ParkedHasTimer'
  <2>1. conn[c].dev \in Devices
    BY <1>2, Zenon DEF OnPairPark, StartTimer, TypeOK, ConnRecord
  <2> DEFINE s == Append(timers[conn[c].dev], IncomingPairTimeout)
  <2>2. s # <<>> /\ s[Len(s)] = IncomingPairTimeout
    <3> DEFINE r == timers[conn[c].dev]
    <3>1. r \in Seq(0..IncomingPairTimeout)
      BY <2>1 DEF TypeOK
    <3> HIDE DEF r
    <3>2. Len(Append(r, IncomingPairTimeout)) = Len(r) + 1 /\ Len(r) \in Nat
      BY <3>1, BoundAssumption
    <3>3. Append(r, IncomingPairTimeout)[Len(r) + 1] = IncomingPairTimeout
      BY <3>1, <3>2
    <3>4. Append(r, IncomingPairTimeout) # <<>>
      BY <3>2
    <3> QED BY <3>2, <3>3, <3>4, Zenon DEF r
  <2>3. /\ parked' = [parked EXCEPT ![conn[c].dev] = IncomingPairTimeout]
        /\ timers' = [timers EXCEPT ![conn[c].dev] = s]
    BY <1>2 DEF OnPairPark, StartTimer
  <2> HIDE DEF s
  <2> QED BY <2>1, <2>2, <2>3, BoundAssumption DEF TypeOK
<1>3. CASE Tick
  <2> SUFFICES ASSUME NEW d \in Devices, parked'[d] # None
               PROVE  /\ timers'[d] # <<>>
                      /\ timers'[d][Len(timers'[d])]
                           = IF parked'[d] < 0 THEN 0 ELSE parked'[d]
    OBVIOUS
  <2>1. parked[d] # None /\ parked[d] \in (-1)..IncomingPairTimeout
    BY <1>3 DEF Tick, TypeOK
  <2>2. parked'[d] = IF parked[d] = -1 THEN -1 ELSE parked[d] - 1
    BY <1>3, <2>1 DEF Tick
  <2>3. timers'[d] # <<>> /\ timers'[d][Len(timers'[d])] = CountDown(timers[d][Len(timers[d])])
    <3>1. timers'[d] = [i \in DOMAIN timers[d] |-> CountDown(timers[d][i])]
      BY <1>3, Zenon DEF Tick
    <3>2. timers[d] # <<>> /\ timers[d] \in Seq(0..IncomingPairTimeout)
      BY <2>1 DEF TypeOK
    <3> QED BY <3>1, <3>2, CountDownLast, BoundAssumption
  <2>4. timers[d][Len(timers[d])] = IF parked[d] < 0 THEN 0 ELSE parked[d]
    BY <2>1, Zenon
  <2> QED BY <2>1, <2>2, <2>3, <2>4, BoundAssumption DEF CountDown
<1>4. CASE Restart
  BY <1>4 DEF Restart
<1>5. CASE UNCHANGED <<parked, timers>>
  BY <1>5, Zenon
<1>6. ASSUME NEW c \in Conns, OnClosed(c) \/ OnPairRevoke(c) PROVE ParkedHasTimer'
  <2>1. conn[c].dev \in Devices
    BY <1>6, Zenon DEF OnClosed, Unpark, Unlink, OnPairRevoke, TypeOK, ConnRecord
  <2> QED BY <1>1, <1>6, <2>1, Zenon DEF OnClosed, Unpark, Unlink, OnPairRevoke
<1>7. ASSUME NEW d \in Devices,
             \/ \E accept \in BOOLEAN : AnswerIncoming(d, accept)
             \/ AnswerExpired(d) \/ PairingTimeoutFires(d)
      PROVE  ParkedHasTimer'
  BY <1>1, <1>7, Zenon DEF AnswerIncoming, Unpark, AnswerExpired, PairingTimeoutFires
<1> QED
  BY <1>2, <1>3, <1>4, <1>5, <1>6, <1>7, ZenonT(60)
  DEF Next, FromPeer, Receives, FromUser, FromNetwork, OnAnnounce, DialFails,
      OnConnected, Install, WriterSends, WriterFails, OnPairAnswer, OnPairAutoAccept,
      OnPairUnreachable, OnPluginPacket, BeginPairing, CallerTimesOut, Unpair, vars

\* A parked pairing request always has a timer that will decline it, no later
\* than its deadline (on_pair_packet, the PairingTimeout arm of run).
THEOREM ParkedHaveTimers == Spec => []ParkedHasTimer
<1>1. Init => ParkedHasTimer
  BY DEF Init, ParkedHasTimer
<1> QED BY <1>1, TimerStep, TypeCorrect, PTL DEF Spec

-----------------------------------------------------------------------------
(* What the bus says.                                                      *)

\* A connection's device is in the table, so trust granted on it is recorded.
KnownLinks == \A c \in Conns : conn[c] # None => conn[c].dev \in known

\* Every step keeps the devices of open connections in the table.
LEMMA KnownStep == TypeOK /\ KnownLinks /\ [Next]_vars => KnownLinks'
<1> SUFFICES ASSUME TypeOK, KnownLinks, [Next]_vars PROVE KnownLinks'
  OBVIOUS
<1> USE SentinelAssumption DEF KnownLinks
<1>1. ASSUME NEW d \in Devices, NEW cert \in Certs, NEW c \in Conns, Install(d, cert, c)
      PROVE  KnownLinks'
  BY <1>1, Zenon DEF Install, TypeOK
<1>2. ASSUME NEW c \in Conns, OnClosed(c) PROVE KnownLinks'
  BY <1>2 DEF OnClosed, TypeOK
<1>3. ASSUME NEW c \in Conns, WriterFails(c) PROVE KnownLinks'
  <2>1. conn[c] \in ConnRecord
    BY <1>3 DEF WriterFails, TypeOK
  <2>2. [conn[c] EXCEPT !.writing = FALSE].dev = conn[c].dev
    BY <2>1, Zenon DEF ConnRecord
  <2> QED BY <1>3, <2>1, <2>2 DEF WriterFails, TypeOK
<1>4. CASE Restart
  BY <1>4 DEF Restart
<1>5. CASE UNCHANGED <<conn, outbound, live, presented>>
  <2>1. known \subseteq known' \/ Restart
    BY ZenonT(60) DEF Next, FromPeer, Receives, FromUser, FromNetwork, OnAnnounce, DialFails,
           OnConnected, Install, OnClosed, WriterSends, WriterFails, OnPairAnswer,
           OnPairAutoAccept, OnPairUnreachable, OnPairPark, OnPairRevoke,
           OnPluginPacket, BeginPairing, CallerTimesOut, Unpair, AnswerIncoming,
           AnswerExpired, PairingTimeoutFires, Tick, vars
  <2> QED BY <1>4, <1>5, <2>1
<1> QED BY <1>1, <1>2, <1>3, <1>4, <1>5, LinkActions

\* Trust recorded for a known device is visible as such.
LEMMA GrantIsVisible ==
  ASSUME TypeOK, NEW d \in Devices, d \in known, PersistTrust(d, TRUE)
  PROVE  pinned'[d] # None /\ \A e \in Devices \ {d} : pinned'[e] = pinned[e]
<1>1. TrustedFingerprint(d) # None
  BY SentinelAssumption DEF TrustedFingerprint
<1> QED BY <1>1, Zenon DEF PersistTrust, TypeOK

\* Every step keeps the published label true.
LEMMA LabelStep ==
  TypeOK /\ LinkIsCoherent /\ DecisionNeedsLink /\ KnownLinks /\ LabelIsTrue /\ [Next]_vars
    => LabelIsTrue'
<1> SUFFICES ASSUME TypeOK, LinkIsCoherent, DecisionNeedsLink, KnownLinks, LabelIsTrue,
                    [Next]_vars
             PROVE  LabelIsTrue'
  BY Zenon
<1> USE SentinelAssumption DEF LabelIsTrue, Connected
<1>1. \A c \in Conns : conn[c] # None => conn[c].dev \in Devices /\ conn[c].dev \in known
  BY Zenon DEF TypeOK, ConnRecord, KnownLinks
<1>2. ASSUME NEW d \in Devices, outbound[d] # None PROVE d \in known
  <2>1. outbound[d] \in Conns
    BY <1>2 DEF TypeOK
  <2>2. conn[outbound[d]] # None /\ conn[outbound[d]].dev = d
    BY <1>2, Zenon DEF LinkIsCoherent
  <2> QED BY <1>1, <2>1, <2>2, Zenon
<1>3. ASSUME NEW d \in Devices, d \in known, PersistTrust(d, TRUE), Publish(d, "paired"),
             UNCHANGED outbound
      PROVE  LabelIsTrue'
  BY <1>3, GrantIsVisible, Zenon DEF Publish, TypeOK
<1>4. ASSUME NEW d \in Devices, d \in known, PersistTrust(d, FALSE),
             label' = [label EXCEPT ![d] = "unpaired"], UNCHANGED outbound
      PROVE  LabelIsTrue'
  <2>1. pinned'[d] = None /\ \A e \in Devices \ {d} : pinned'[e] = pinned[e]
    BY <1>4 DEF PersistTrust, TypeOK
  <2> QED BY <1>4, <2>1, Zenon DEF TypeOK
<1>5. ASSUME NEW d \in Devices, OnAnnounce(d) PROVE LabelIsTrue'
  BY <1>5, Zenon DEF OnAnnounce, TypeOK
<1>6. ASSUME NEW d \in Devices, NEW cert \in Certs, NEW c \in Conns, Install(d, cert, c)
      PROVE  LabelIsTrue'
  BY <1>6, Zenon DEF Install, Publish, TypeOK
<1>7. ASSUME NEW c \in Conns, OnClosed(c) PROVE LabelIsTrue'
  BY <1>1, <1>7, Zenon DEF OnClosed, Unlink, Publish, TypeOK
<1>8. ASSUME NEW c \in Conns, NEW wants \in BOOLEAN, OnPairAnswer(c, wants)
      PROVE  LabelIsTrue'
  BY <1>1, <1>3, <1>8, Zenon DEF OnPairAnswer
<1>9. ASSUME NEW c \in Conns, OnPairAutoAccept(c) PROVE LabelIsTrue'
  BY <1>1, <1>3, <1>9, Zenon DEF OnPairAutoAccept
<1>10. ASSUME NEW c \in Conns, OnPairRevoke(c) PROVE LabelIsTrue'
  BY <1>1, <1>4, <1>10, Zenon DEF OnPairRevoke, Publish
<1>11. ASSUME NEW d \in Devices, Unpair(d) PROVE LabelIsTrue'
  <2>1. CASE d \in known
    BY <1>4, <1>11, <2>1, Zenon DEF Unpair
  <2>2. CASE d \notin known
    BY <1>11, <2>2, Zenon DEF Unpair, PersistTrust
  <2> QED BY <2>1, <2>2
<1>12. ASSUME NEW d \in Devices, NEW accept \in BOOLEAN, AnswerIncoming(d, accept)
       PROVE  LabelIsTrue'
  <2>1. d \in known
    BY <1>2, <1>12 DEF AnswerIncoming, DecisionNeedsLink
  <2>2. CASE accept
    BY <1>3, <1>12, <2>1, <2>2, Zenon DEF AnswerIncoming, AnswerLabel
  <2>3. CASE ~accept
    BY <1>12, <2>3, Zenon DEF AnswerIncoming, AnswerLabel, Publish, TypeOK
  <2> QED BY <2>2, <2>3
<1>13. CASE Restart
  BY <1>13 DEF Restart
<1>14. CASE UNCHANGED <<label, pinned, outbound>>
  BY <1>14
<1> QED
  BY <1>5, <1>6, <1>7, <1>8, <1>9, <1>10, <1>11, <1>12, <1>13, <1>14, Zenon
  DEF Next, FromPeer, Receives, FromUser, FromNetwork, DialFails, OnConnected,
      WriterSends, WriterFails, OnPairUnreachable, OnPairPark, OnPluginPacket,
      BeginPairing, CallerTimesOut, AnswerExpired, PairingTimeoutFires, Tick, vars

\* The last state label published for a device is true of the table: "paired"
\* only of a trusted device, "unpaired" only of one that is not, except when it
\* answers a repeated request of a paired device with no, "online" and "offline"
\* as the connection is.
THEOREM LabelsAreTrue == Spec => []LabelIsTrue
<1>1. Init => LabelIsTrue /\ KnownLinks
  BY DEF Init, LabelIsTrue, KnownLinks
<1> QED
  BY <1>1, KnownStep, LabelStep, TypeCorrect, LinkCoherent, DecisionHasLink, PTL DEF Spec

=============================================================================
