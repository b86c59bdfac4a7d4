----------------------------- MODULE HostProofs -----------------------------
(***************************************************************************)
(* Proofs about the daemon's process (Host): wherever its starts are cut   *)
(* short, and however often, all of them serve one device id and one       *)
(* certificate.                                                            *)
(***************************************************************************)
EXTENDS Host, FiniteSetTheorems, TLAPS

\* A certificate names its key and its device; a pair has or lacks each of its files.
Pairs == [cert : [key : Nat, cn : Nat] \cup {None}, key : Nat \cup {None}]

\* Where load_or_generate is writing a fresh pair, and where the files are in place.
Writing == {"cert", "certRename", "key", "keyRename"}
Placed  == {"spawn", "running", "cleanup"}

Types ==
  /\ pc \in {"off", "id", "load"} \cup Writing \cup Placed
  /\ id \in Nat \cup {None} /\ kv \in Nat \cup {None}
  /\ pair \in Pairs /\ disk \in Pairs
  /\ fresh \in Nat /\ wiped \in BOOLEAN

\* The key's file is written after the certificate's, so where there is a key there
\* is its certificate, which names the device of the store.
FilesMatch ==
  disk.key # None =>
    /\ disk.cert # None /\ disk.cert.key = disk.key
    /\ wiped \/ (kv # None /\ disk.cert.cn = kv)

\* What a start has done so far.
Progress ==
  /\ pc \in {"load"} \cup Writing \cup Placed => id = kv /\ id # None
  /\ pc \in Writing =>
       /\ disk.key = None
       /\ pair.cert # None /\ pair.key # None
       /\ pair.cert.key = pair.key /\ pair.cert.cn = id
  /\ pc \in {"key", "keyRename"} => disk.cert = pair.cert
  /\ pc \in Placed => pair = disk /\ disk.key # None

\* What was served is what is stored.
ServedIsStored ==
  \A s \in served : /\ s.pair = disk /\ disk.key # None
                    /\ wiped \/ (s.id = kv /\ kv # None)

\* The inductive invariant.
IInv == Types /\ FilesMatch /\ Progress /\ ServedIsStored

\* The identity that is stored is the only one.
LEMMA StoredIsOne ==
  ASSUME IInv
  PROVE  StableIdentity
<1>1. \A S, x : S \subseteq {x} => Cardinality(S) <= 1
  <2> TAKE S, x
  <2> HAVE S \subseteq {x}
  <2>1. S = {} \/ S = {x}
    OBVIOUS
  <2>2. Cardinality({}) = 0 /\ Cardinality({x}) = 1
    BY FS_EmptySet, FS_Singleton
  <2> QED BY <2>1, <2>2
<1>2. ~wiped => {s.id : s \in served} \subseteq {kv}
  BY DEF IInv, ServedIsStored
<1>3. {s.pair.cert : s \in served} \subseteq {disk.cert}
  BY DEF IInv, ServedIsStored
<1>4. PairMatches
  BY DEF IInv, ServedIsStored, FilesMatch, PairMatches
<1> QED BY <1>1, <1>2, <1>3, <1>4 DEF StableIdentity

\* At first nothing is stored or served.
LEMMA InitOk ==
  ASSUME Init
  PROVE  IInv
BY HostAssumption DEF Init, IInv, Types, FilesMatch, Progress, ServedIsStored, Pairs, Writing, Placed

\* A step that leaves the stores alone and ends the process, or takes it back to its start.
LEMMA ProcessGone ==
  ASSUME IInv, UNCHANGED <<kv, disk, fresh, served, wiped>>, NEW s, Gone(s)
  PROVE  IInv'
BY DEF IInv, Types, FilesMatch, Progress, ServedIsStored, Gone, Pairs, Writing, Placed

\* A step that touches none of what the identity is made of.
LEMMA Elsewhere ==
  ASSUME IInv, UNCHANGED <<pc, id, pair, kv, disk, fresh, served, wiped>>
  PROVE  IInv'
BY DEF IInv, Types, FilesMatch, Progress, ServedIsStored

\* Every step keeps the invariant.
LEMMA StepOk ==
  ASSUME IInv, [Next]_vars
  PROVE  IInv'
<1> USE HostAssumption
<1>1. CASE Start
  BY <1>1 DEF Start, IInv, Types, FilesMatch, Progress, ServedIsStored, Writing, Placed
<1>2. CASE EnsureDeviceId
  BY <1>2 DEF EnsureDeviceId, IInv, Types, FilesMatch, Progress, ServedIsStored, Writing, Placed
<1>3. CASE Load
  <2>1. UNCHANGED <<id, kv, disk, served, wiped>> /\ pc = "load"
    BY <1>3 DEF Load
  <2>2. FilesMatch' /\ ServedIsStored'
    BY <2>1 DEF IInv, FilesMatch, ServedIsStored
  <2>3. CASE disk.cert # None /\ disk.key # None
    BY <1>3, <2>1, <2>2, <2>3 DEF Load, IInv, Types, Progress, Writing, Placed
  <2>4. CASE ~(disk.cert # None /\ disk.key # None)
    <3>1. disk.key = None /\ fresh \in Nat /\ id \in Nat \cup {None} /\ id = kv /\ id # None
      BY <2>1, <2>4 DEF IInv, FilesMatch, Types, Progress
    <3>2. fresh' = fresh + 1 /\ pair' = GenerateSelfSigned(fresh', id) /\ pc' = "cert"
      BY <1>3, <2>4 DEF Load
    <3>3. /\ fresh' \in Nat /\ pair' \in Pairs /\ pair'.key = fresh' /\ pair'.cert # None
          /\ pair'.cert.key = fresh' /\ pair'.cert.cn = id
      <4>1. fresh' \in Nat
        BY <3>1, <3>2
      <4>2. [key |-> fresh', cn |-> id] # None
        BY <3>1, <4>1
      <4> QED BY <3>1, <3>2, <4>1, <4>2 DEF GenerateSelfSigned, Pairs
    <3>4. Types'
      BY <2>1, <3>2, <3>3 DEF IInv, Types, Writing
    <3>5. Progress'
      BY <2>1, <3>1, <3>2, <3>3 DEF Progress, Writing, Placed
    <3> QED BY <2>2, <3>4, <3>5 DEF IInv
  <2> QED BY <2>3, <2>4
<1>4. CASE WriteTemp
  BY <1>4 DEF WriteTemp, IInv, Types, FilesMatch, Progress, ServedIsStored, Writing, Placed
<1>5. CASE Rename
  BY <1>5 DEF Rename, Replaced, IInv, Types, FilesMatch, Progress, ServedIsStored,
              Pairs, Writing, Placed
<1>6. CASE Spawn
  BY <1>6 DEF Spawn, IInv, Types, FilesMatch, Progress, ServedIsStored, Writing, Placed
<1>7. CASE Unlink \/ Bind \/ UNCHANGED vars
  BY <1>7, Elsewhere DEF Unlink, Bind, vars
<1>8. CASE Terminate
  BY <1>8 DEF Terminate, IInv, Types, FilesMatch, Progress, ServedIsStored, Writing, Placed
<1>9. CASE CleanUp \/ Crash \/ Fail
  BY <1>9, ProcessGone DEF CleanUp, Crash, Fail
<1>10. CASE Wipe
  BY <1>10 DEF Wipe, IInv, Types, FilesMatch, Progress, ServedIsStored, Writing, Placed
<1> QED BY <1>1, <1>2, <1>3, <1>4, <1>5, <1>6, <1>7, <1>8, <1>9, <1>10 DEF Next

\* "Stable per-install device id; regenerated only if the store is wiped" (main.rs,
\* line 135), with one certificate, the one of its key, wherever a start is cut
\* short, for any number of starts, faults and wipes (ensure_device_id,
\* load_or_generate).
THEOREM IdentityIsStable == Spec => []StableIdentity
<1>1. Init => IInv
  BY InitOk
<1>2. IInv /\ [Next]_vars => IInv'
  BY StepOk
<1>3. IInv => StableIdentity
  BY StoredIsOne
<1> QED BY <1>1, <1>2, <1>3, PTL DEF Spec
=============================================================================
