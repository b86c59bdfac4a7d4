--------------------------- MODULE IncomingProofs ---------------------------
(***************************************************************************)
(* Proofs about receiving files, for any number of transfers and any names, *)
(* sizes, chunk size and number of numbered copies.                        *)
(***************************************************************************)
EXTENDS Incoming, WellFoundedInduction, TLAPS

\* Where a task is, what the registry says of it and what the engine holds for it
\* go together, and an identifier that has not been given out names nothing.
JobsAreSound ==
  \A id \in Ids :
    /\ id > seq => job[id].pc = "none" /\ reg[id] = "none"
    /\ job[id].pc = "done" => reg[id] \in Ended
    /\ job[id].pc \in {"loop", "read", "finish"} => id \in incoming
    /\ id \in incoming => job[id].pc \in {"loop", "read", "finish", "err"}
    /\ job[id].pc = "copy" => target = "uri"

\* A staging file is that of a transfer under way, or of a daemon before this one, or
\* could not be removed.
PartsAreOwned ==
  \A n \in Names : part[n] # NoFile =>
    LET o == part[n].owner
    IN  /\ o <= seq
        /\ reg[o] = "none" \/ (o \in incoming /\ job[o].name = n) \/ o \in unremoved

\* A file under a final name is the whole file of a transfer that has come that
\* far, even if it failed later and the file could not be removed, or is from a daemon
\* before this one.
FilesAreOwned ==
  \A p \in Paths : files[p] # NoFile =>
    LET o == files[p].owner
    IN  /\ o <= seq
        /\ \/ reg[o] = "none"
           \/ /\ \/ job[o].pc \in {"copy", "ok", "done"} /\ reg[o] # "failed"
                 \/ job[o].pc \in {"err", "done"} /\ o \in unremoved
              /\ p = <<job[o].name, job[o].at>>
              /\ job[o].size # Unknown => files[p].len = job[o].size

\* The inductive invariant.
IInv ==
  /\ TypeOK
  /\ JobsAreSound
  /\ OneVerdict
  /\ StagedBytes
  /\ PartsAreOwned
  /\ FilesAreOwned
  /\ AnnouncedIsThere

-----------------------------------------------------------------------------
(* The operators.                                                          *)

\* A set of naturals that is not empty has a least element.
LEMMA LeastNatural ==
  ASSUME NEW S, S \subseteq Nat, S # {}
  PROVE  \E k \in S : \A j \in S : k <= j
<1>1. PICK x \in S : \A y \in S : ~ (<<y, x>> \in OpToRel(<, Nat))
  BY WFMin, NatLessThanWellFounded, Zenon
<1>2. \A y \in S : ~ (<<y, x>> \in OpToRel(<, Nat)) => x <= y
  BY DEF OpToRel
<1> QED BY <1>1, <1>2, Zenon

\* free_destination returns a numbered copy, and a free one if there is one.
LEMMA FreeDestinationIsFree ==
  ASSUME NEW n \in Names
  PROVE  /\ FreeDestination(n) \in Copies
         /\ Untaken(n) # {} => FreeDestination(n) \in Untaken(n)
         /\ Untaken(n) = {} => FreeDestination(n) = 0
<1>1. 0 \in Copies
  BY IncomingAssumption DEF Copies
<1>2. Untaken(n) \subseteq Copies /\ Copies \subseteq Nat
  BY IncomingAssumption DEF Untaken, Copies
<1>3. CASE Untaken(n) # {}
  <2>1. \E k \in Untaken(n) : \A j \in Untaken(n) : k <= j
    BY <1>2, <1>3, LeastNatural, Zenon
  <2> QED BY <1>2, <1>3, <2>1, Zenon DEF FreeDestination
<1>4. CASE Untaken(n) = {}
  BY <1>1, <1>4 DEF FreeDestination
<1> QED BY <1>3, <1>4

\* A task that only moves on keeps the arguments it was spawned with.
LEMMA GotoFields ==
  ASSUME TypeOK, NEW id \in Ids, NEW pc \in Pcs, Goto(id, pc)
  PROVE  /\ job' \in [Ids -> Tasks]
         /\ \A i \in Ids : /\ job'[i].pc = IF i = id THEN pc ELSE job[i].pc
                           /\ job'[i].name = job[i].name
                           /\ job'[i].size = job[i].size
                           /\ job'[i].payload = job[i].payload
                           /\ job'[i].at = job[i].at
<1>1. \A t \in Tasks, x \in Pcs : /\ [t EXCEPT !.pc = x] \in Tasks
                                  /\ [t EXCEPT !.pc = x].pc = x
                                  /\ [t EXCEPT !.pc = x].name = t.name
                                  /\ [t EXCEPT !.pc = x].size = t.size
                                  /\ [t EXCEPT !.pc = x].payload = t.payload
                                  /\ [t EXCEPT !.pc = x].at = t.at
  BY DEF Tasks
<1>2. job \in [Ids -> Tasks]
  BY DEF TypeOK
<1>3. job' = [job EXCEPT ![id] = [job[id] EXCEPT !.pc = pc]]
  BY DEF Goto
<1> QED BY <1>1, <1>2, <1>3

\* A task that has finished its file also knows where it is.
FinishAs(id, pc, k) == job' = [job EXCEPT ![id].pc = pc, ![id].at = k]

\* It also keeps the arguments it was spawned with.
LEMMA FinishedFields ==
  ASSUME TypeOK, NEW id \in Ids, NEW pc \in Pcs, NEW k \in Copies,
         FinishAs(id, pc, k)
  PROVE  /\ job' \in [Ids -> Tasks]
         /\ \A i \in Ids : /\ job'[i].pc = IF i = id THEN pc ELSE job[i].pc
                           /\ job'[i].name = job[i].name
                           /\ job'[i].size = job[i].size
                           /\ job'[i].payload = job[i].payload
                           /\ job'[i].at = IF i = id THEN k ELSE job[i].at
<1> DEFINE t == [job[id] EXCEPT !.pc = pc, !.at = k]
<1>1. \A r \in Tasks : /\ [r EXCEPT !.pc = pc, !.at = k] \in Tasks
                       /\ [r EXCEPT !.pc = pc, !.at = k].pc = pc
                       /\ [r EXCEPT !.pc = pc, !.at = k].name = r.name
                       /\ [r EXCEPT !.pc = pc, !.at = k].size = r.size
                       /\ [r EXCEPT !.pc = pc, !.at = k].payload = r.payload
                       /\ [r EXCEPT !.pc = pc, !.at = k].at = k
  BY Zenon DEF Tasks
<1>2. job \in [Ids -> Tasks]
  BY DEF TypeOK
<1>3. job' = [job EXCEPT ![id] = t]
  BY Zenon DEF FinishAs
<1>4. /\ t \in Tasks /\ t.pc = pc /\ t.name = job[id].name /\ t.size = job[id].size
      /\ t.payload = job[id].payload /\ t.at = k
  BY <1>1, <1>2, Zenon
<1> HIDE DEF t
<1> QED BY <1>2, <1>3, <1>4

\* The identifier of the next transfer has not been given out.
LEMMA NewTransferIsNew ==
  ASSUME TypeOK, seq < MaxTransfers
  PROVE  NewTransfer \in Ids /\ NewTransfer > seq /\ NewTransfer \in 0..MaxTransfers
BY MaxTransfersAssumption DEF TypeOK, RegistryType, NewTransfer, Ids

\* A field of a task or of a file has the type its record gives it.
LEMMA FieldTypes ==
  ASSUME TypeOK
  PROVE  /\ \A id \in Ids : /\ job[id].pc \in Pcs
                            /\ job[id].name \in Names
                            /\ job[id].size \in Nat \cup {Unknown}
                            /\ job[id].at \in Copies
         /\ \A n \in Names : part[n] # NoFile =>
              /\ part[n] \in Contents /\ part[n].owner \in Ids /\ part[n].len \in Nat
         /\ \A p \in Paths : files[p] # NoFile =>
              /\ files[p] \in Contents /\ files[p].owner \in Ids /\ files[p].len \in Nat
         /\ \A p \in Paths : remote[p] # NoFile =>
              /\ remote[p] \in Contents /\ remote[p].owner \in Ids
<1>1. \A t \in Tasks : /\ t.pc \in Pcs /\ t.name \in Names
                       /\ t.size \in Nat \cup {Unknown} /\ t.at \in Copies
  BY IncomingAssumption, Zenon DEF Tasks
<1>2. \A f \in Contents : f.owner \in Ids /\ f.len \in Nat
  BY DEF Contents
<1> QED BY <1>1, <1>2 DEF TypeOK

\* write_chunk makes one file longer, by as much as is counted.
LEMMA AppendFields ==
  ASSUME TypeOK, NEW id \in Ids, NEW k \in Nat, Append(id, k),
         part[job[id].name] # NoFile
  PROVE  LET m == job[id].name
         IN  /\ part' \in [Names -> Contents \cup {NoFile}]
             /\ part'[m] # NoFile /\ part'[m].owner = part[m].owner
             /\ part'[m].len = Grown(id, part[m].len, k)
             /\ part'[m].len >= part[m].len
             /\ \A q \in Names : q # m => part'[q] = part[q]
<1> DEFINE m == job[id].name
           len == Grown(id, part[m].len, k)
           f == [part[m] EXCEPT !.len = len]
<1>1. m \in Names /\ part[m] \in Contents /\ part[m].len \in Nat
  BY FieldTypes
<1>2. len \in Nat /\ len >= part[m].len
  BY <1>1 DEF Grown
<1>3. part' = [part EXCEPT ![m] = f]
  BY Zenon DEF Append
<1>4. part \in [Names -> Contents \cup {NoFile}]
  BY DEF TypeOK
<1> HIDE DEF m, len
<1>5. f \in Contents /\ f.owner = part[m].owner /\ f.len = len
  BY <1>1, <1>2 DEF Contents
<1>6. f # NoFile
  BY <1>5, NoFileAssumption, Zenon
<1> HIDE DEF f
<1>7. /\ part' \in [Names -> Contents \cup {NoFile}] /\ part'[m] = f
      /\ \A q \in Names : q # m => part'[q] = part[q]
  BY <1>1, <1>3, <1>4, <1>5
<1> QED BY <1>2, <1>5, <1>6, <1>7, Zenon DEF m, len

-----------------------------------------------------------------------------
(* Types.                                                                  *)

\* Every step leaves every field well typed.
LEMMA TypeStep ==
  ASSUME IInv, [Next]_vars
  PROVE  TypeOK'
<1>1. TypeOK /\ JobsAreSound
  BY DEF IInv
<1>2. /\ NewTransfer \in Nat
      /\ \A id \in Ids : id \in Nat
  BY <1>1 DEF TypeOK, RegistryType, NewTransfer, Ids
<1>3. ASSUME NEW id \in Ids, NEW state \in Ended, Conclude(id, state)
      PROVE  RegistryType'
  BY <1>1, <1>3 DEF TypeOK, RegistryType, Conclude
<1>4. ASSUME NEW id \in Ids, Abort(id)
      PROVE  /\ incoming' \subseteq Ids
             /\ part' \in [Names -> Contents \cup {NoFile}]
             /\ unremoved' \subseteq Ids
  <2>1. incoming' \subseteq Ids /\ part' \in [Names -> Contents \cup {NoFile}]
    BY <1>1, <1>4, Zenon DEF TypeOK, Abort
  <2>2. unremoved' \subseteq Ids
    BY <1>1, <1>4, Zenon DEF TypeOK, Abort, RemovalFails
  <2> QED BY <2>1, <2>2
<1>5. ASSUME NEW n \in Names, NEW size \in Sizes \cup {Unknown}, NEW payload \in BOOLEAN,
             SpawnReceive(n, size, payload)
      PROVE  TypeOK'
  <2> DEFINE t == [pc |-> "open", name |-> n, size |-> size, payload |-> payload, at |-> 0]
  <2>1. NewTransfer \in Ids /\ NewTransfer \in 0..MaxTransfers
    BY <1>1, <1>5, NewTransferIsNew DEF SpawnReceive, Register
  <2>2. RegistryType'
    BY <1>1, <1>5, <2>1 DEF SpawnReceive, Register, TypeOK, RegistryType
  <2>3. t \in Tasks
    BY IncomingAssumption DEF Tasks, Pcs, Copies
  <2>4. job' = [job EXCEPT ![NewTransfer] = t]
    BY <1>5 DEF SpawnReceive
  <2> HIDE DEF t
  <2> QED BY <1>1, <1>5, <2>1, <2>2, <2>3, <2>4 DEF SpawnReceive, disk, TypeOK
<1>6. CASE DialFailed
  <2>1. NewTransfer \in Ids /\ NewTransfer \in 0..MaxTransfers
    BY <1>1, <1>6, NewTransferIsNew DEF DialFailed, RegisterEnded
  <2>2. RegistryType'
    BY <1>1, <1>6, <2>1 DEF DialFailed, RegisterEnded, TypeOK, RegistryType, Ended
  <2> QED BY <1>1, <1>6, <2>2 DEF DialFailed, disk, TypeOK
<1>7. ASSUME NEW id \in Ids, Cancel(id) PROVE TypeOK'
  BY <1>1, <1>7 DEF Cancel, CancelTransfer, disk, TypeOK, RegistryType
<1>8. ASSUME NEW id \in Ids, Open(id) PROVE TypeOK'
  <2>1. PICK pc \in Pcs : Goto(id, pc)
    BY <1>8 DEF Open, Pcs
  <2>2. job' \in [Ids -> Tasks]
    BY <1>1, <2>1, GotoFields
  <2>3. [owner |-> id, len |-> 0] \in Contents
    BY DEF Contents
  <2>4. /\ incoming' \subseteq Ids
        /\ received' \in [Ids -> Nat]
        /\ part' \in [Names -> Contents \cup {NoFile}]
    BY <1>1, <1>8, <2>3 DEF Open, StartReceive, TypeOK
  <2> QED BY <1>1, <1>8, <2>2, <2>4, Zenon DEF Open, TypeOK, registry, RegistryType
<1>9. ASSUME NEW id \in Ids, CheckCancel(id) PROVE TypeOK'
  <2>1. PICK pc \in Pcs : Goto(id, pc)
    BY <1>9 DEF CheckCancel, Pcs
  <2>2. job' \in [Ids -> Tasks]
    BY <1>1, <2>1, GotoFields
  <2>3. /\ incoming' \subseteq Ids
        /\ part' \in [Names -> Contents \cup {NoFile}]
        /\ unremoved' \subseteq Ids
    BY <1>1, <1>4, <1>9 DEF CheckCancel, TypeOK
  <2> QED BY <1>1, <1>9, <2>2, <2>3 DEF CheckCancel, TypeOK, registry, RegistryType
<1>10. ASSUME NEW id \in Ids, NEW n \in 1 .. Chunk, ReceiveChunk(id, n) PROVE TypeOK'
  <2>1. PICK pc \in Pcs : Goto(id, pc)
    BY <1>10 DEF ReceiveChunk, Pcs
  <2>2. job' \in [Ids -> Tasks]
    BY <1>1, <2>1, GotoFields
  <2>3. n \in Nat /\ received[id] \in Nat
    BY <1>1, IncomingAssumption DEF TypeOK
  <2>4. part[job[id].name] \in Contents
    <3>1. id \in incoming
      BY <1>1, <1>10 DEF ReceiveChunk, JobsAreSound
    <3>2. part[job[id].name] # NoFile
      BY <3>1 DEF IInv, StagedBytes
    <3> QED BY <1>1, <3>2, FieldTypes
  <2>5. ASSUME NEW k \in 0 .. n, Append(id, k)
        PROVE  part' \in [Names -> Contents \cup {NoFile}]
    <3>1. k \in Nat
      BY <2>3, <2>5
    <3>2. part[job[id].name] # NoFile
      BY <2>4, NoFileAssumption, Zenon
    <3> QED BY <1>1, <2>5, <3>1, <3>2, AppendFields, Zenon
  <2>6. received' \in [Ids -> Nat]
    BY <1>1, <1>10, <2>3 DEF ReceiveChunk, Grown, TypeOK
  <2>7. part' \in [Names -> Contents \cup {NoFile}]
    <3>1. n \in 0 .. n
      BY <2>3
    <3>2. part' = part \/ \E k \in 0 .. n : Append(id, k)
      BY <1>10, <3>1, Zenon DEF ReceiveChunk
    <3> QED BY <1>1, <2>5, <3>2, Zenon DEF TypeOK
  <2> QED BY <1>1, <1>10, <2>2, <2>6, <2>7 DEF ReceiveChunk, TypeOK, registry, RegistryType
<1>11. ASSUME NEW id \in Ids, ReadEof(id) PROVE TypeOK'
  <2>1. PICK pc \in Pcs : Goto(id, pc)
    BY <1>11 DEF ReadEof, Pcs
  <2>2. job' \in [Ids -> Tasks]
    BY <1>1, <2>1, GotoFields
  <2> QED BY <1>1, <1>11, <2>2, Zenon DEF ReadEof, disk, TypeOK, registry, RegistryType
<1>12. ASSUME NEW id \in Ids, ReadFails(id) PROVE TypeOK'
  <2>1. job' \in [Ids -> Tasks]
    BY <1>1, <1>12, GotoFields DEF ReadFails, Pcs
  <2> QED BY <1>1, <1>12, <2>1, Zenon DEF ReadFails, disk, TypeOK, registry, RegistryType
<1>13. ASSUME NEW id \in Ids, Finish(id) PROVE TypeOK'
  <2> DEFINE n == job[id].name
             k == FreeDestination(n)
  <2>1. n \in Names /\ k \in Copies /\ <<n, k>> \in Paths
    BY <1>1, FieldTypes, FreeDestinationIsFree DEF Paths
  <2>2. CASE /\ files' = [files EXCEPT ![<<n, k>>] = part[n]]
             /\ part' = [part EXCEPT ![n] = NoFile]
             /\ incoming' = incoming \ {id}
             /\ job' = [job EXCEPT ![id].pc = IF target = "uri" THEN "copy" ELSE "ok",
                                   ![id].at = k]
             /\ shared' = IF target = "uri" THEN shared
                          ELSE [shared EXCEPT ![id] = SharePath(n, k)]
    <3>1. (IF target = "uri" THEN "copy" ELSE "ok") \in Pcs
      BY DEF Pcs
    <3>2. job' \in [Ids -> Tasks]
      BY <1>1, <2>1, <2>2, <3>1, FinishedFields, Zenon DEF FinishAs
    <3>3. SharePath(n, k) \in Paths
      BY <2>1, IncomingAssumption DEF SharePath, Paths, Copies
    <3>4. part[n] \in Contents \cup {NoFile}
      BY <1>1, <2>1 DEF TypeOK
    <3> HIDE DEF n, k
    <3>5. files' \in [Paths -> Contents \cup {NoFile}]
      BY <1>1, <2>1, <2>2, <3>4 DEF TypeOK
    <3>6. /\ shared' \in [Ids -> Paths \cup {NoFile}]
          /\ part' \in [Names -> Contents \cup {NoFile}]
          /\ incoming' \subseteq Ids
      BY <1>1, <2>1, <2>2, <3>3 DEF TypeOK
    <3> QED BY <1>1, <1>13, <3>2, <3>5, <3>6 DEF Finish, TypeOK, registry, RegistryType
  <2>3. CASE Goto(id, "err") /\ UNCHANGED <<incoming, part, files, shared>>
    <3>1. job' \in [Ids -> Tasks]
      BY <1>1, <2>3, GotoFields DEF Pcs
    <3> QED BY <1>1, <1>13, <2>3, <3>1 DEF Finish, TypeOK, registry, RegistryType
  <2> QED BY <1>13, <2>2, <2>3, Zenon DEF Finish
<1>14. ASSUME NEW id \in Ids, CopyIntoUri(id) PROVE TypeOK'
  <2> DEFINE p == <<job[id].name, job[id].at>>
  <2>1. p \in Paths /\ files[p] \in Contents \cup {NoFile}
    BY <1>1, FieldTypes DEF Paths, TypeOK
  <2>2. PICK pc \in Pcs : Goto(id, pc)
    BY <1>14 DEF CopyIntoUri, Pcs
  <2>3. job' \in [Ids -> Tasks]
    BY <1>1, <2>2, GotoFields
  <2>4. SharePath(job[id].name, job[id].at) \in Paths
    BY <1>1, FieldTypes, IncomingAssumption DEF SharePath, Paths, Copies
  <2>5. /\ files' = [files EXCEPT ![p] = NoFile] \/ files' = files
        /\ unremoved' = unremoved \/ unremoved' = unremoved \cup {id}
        /\ remote' = [remote EXCEPT ![p] = files[p]] \/ remote' = remote
        /\ \/ shared' = [shared EXCEPT ![id] = SharePath(job[id].name, job[id].at)]
           \/ shared' = shared
    BY <1>14, Zenon DEF CopyIntoUri, DropStaged, RemovalFails
  <2> HIDE DEF p
  <2>6. /\ files' \in [Paths -> Contents \cup {NoFile}]
        /\ remote' \in [Paths -> Contents \cup {NoFile}]
        /\ shared' \in [Ids -> Paths \cup {NoFile}]
        /\ unremoved' \subseteq Ids
    BY <1>1, <2>1, <2>4, <2>5 DEF TypeOK
  <2> QED BY <1>1, <1>14, <2>3, <2>6 DEF CopyIntoUri, TypeOK, registry, RegistryType
<1>15. ASSUME NEW id \in Ids, Outcome(id) PROVE TypeOK'
  <2>1. job' \in [Ids -> Tasks]
    BY <1>1, <1>15, GotoFields DEF Outcome, Pcs
  <2>2. RegistryType'
    BY <1>3, <1>15 DEF Outcome, Ended
  <2>3. /\ incoming' \subseteq Ids
        /\ part' \in [Names -> Contents \cup {NoFile}]
        /\ unremoved' \subseteq Ids
    BY <1>1, <1>4, <1>15 DEF Outcome, TypeOK
  <2> QED BY <1>1, <1>15, <2>1, <2>2, <2>3, Zenon DEF Outcome, TypeOK
<1>16. CASE Restart
  <2>1. Idle \in Tasks
    <3>1. AnyName \in Names
      BY IncomingAssumption DEF AnyName
    <3> QED BY <3>1, IncomingAssumption DEF Idle, Tasks, Pcs, Copies
  <2> QED BY <1>1, <1>16, <2>1 DEF Restart, RegistryLost, disk, TypeOK, RegistryType
<1>17. CASE UNCHANGED vars
  BY <1>1, <1>17 DEF vars, registry, TypeOK, RegistryType
<1> QED
  BY <1>5, <1>6, <1>7, <1>8, <1>9, <1>10, <1>11, <1>12, <1>13, <1>14, <1>15, <1>16, <1>17
  DEF Next, Receive

-----------------------------------------------------------------------------
(* The steps, one lemma per action.                                        *)

\* What a step has to keep besides the types.
Sound ==
  /\ JobsAreSound
  /\ OneVerdict
  /\ StagedBytes
  /\ PartsAreOwned
  /\ FilesAreOwned
  /\ AnnouncedIsThere

\* A new transfer: its identifier names no file yet.
LEMMA SpawnReceiveStep ==
  ASSUME IInv, NEW n \in Names, NEW size \in Sizes \cup {Unknown}, NEW payload \in BOOLEAN,
         SpawnReceive(n, size, payload)
  PROVE  Sound'
<1> DEFINE new == NewTransfer
<1>1. new \in Ids /\ new > seq /\ seq \in Nat /\ \A id \in Ids : id \in Nat
  BY NewTransferIsNew DEF IInv, SpawnReceive, Register, TypeOK, RegistryType, Ids
<1>2. /\ seq' = new /\ reg' = [reg EXCEPT ![new] = "active"]
      /\ UNCHANGED <<cancel, ended, target, incoming, received, disk, shared>>
  BY DEF SpawnReceive, Register
<1>3. /\ job'[new].pc = "open"
      /\ \A id \in Ids : id # new => job'[id] = job[id] /\ reg'[id] = reg[id]
      /\ reg'[new] = "active"
  BY <1>1, <1>2, Zenon DEF SpawnReceive, IInv, TypeOK, RegistryType
<1>4. /\ job[new].pc = "none" /\ reg[new] = "none" /\ new \notin incoming
      /\ \A q \in Names : part[q] # NoFile => part[q].owner # new
      /\ \A p \in Paths : files[p] # NoFile => files[p].owner # new
  BY <1>1, FieldTypes DEF IInv, JobsAreSound, PartsAreOwned, FilesAreOwned
<1>5. seq' > seq
  BY <1>1, <1>2, Zenon
<1> HIDE DEF new
<1>6. JobsAreSound'
  BY <1>1, <1>2, <1>3, <1>4, <1>5 DEF IInv, JobsAreSound
<1>7. OneVerdict'
  BY <1>1, <1>2, <1>3, <1>4, Zenon DEF IInv, OneVerdict, Ended
<1>8. StagedBytes'
  BY <1>1, <1>2, <1>3, <1>4 DEF IInv, TypeOK, StagedBytes, disk
<1>9. PartsAreOwned'
  BY <1>1, <1>2, <1>3, <1>4, <1>5, FieldTypes DEF IInv, PartsAreOwned, disk
<1>10. FilesAreOwned'
  BY <1>1, <1>2, <1>3, <1>4, <1>5, FieldTypes DEF IInv, FilesAreOwned, disk
<1>11. AnnouncedIsThere'
  BY <1>2 DEF IInv, AnnouncedIsThere, Untaken, disk
<1> QED BY <1>6, <1>7, <1>8, <1>9, <1>10, <1>11, Zenon DEF Sound

\* A transfer that could not be dialled: listed as failed, and nothing else.
LEMMA DialFailedStep ==
  ASSUME IInv, DialFailed
  PROVE  Sound'
<1> DEFINE new == NewTransfer
<1>1. new \in Ids /\ new > seq /\ seq \in Nat /\ \A id \in Ids : id \in Nat
  BY NewTransferIsNew DEF IInv, DialFailed, RegisterEnded, TypeOK, RegistryType, Ids
<1>2. /\ seq' = new /\ reg' = [reg EXCEPT ![new] = "failed"]
      /\ ended' = [ended EXCEPT ![new] = @ + 1]
      /\ UNCHANGED <<cancel, target, job, incoming, received, disk, shared>>
  BY DEF DialFailed, RegisterEnded
<1>3. /\ \A id \in Ids : id # new => reg'[id] = reg[id] /\ ended'[id] = ended[id]
      /\ reg'[new] = "failed" /\ ended'[new] = ended[new] + 1
  BY <1>1, <1>2, Zenon DEF IInv, TypeOK, RegistryType
<1>4. /\ job[new].pc = "none" /\ reg[new] = "none" /\ new \notin incoming
      /\ \A q \in Names : part[q] # NoFile => part[q].owner # new
      /\ \A p \in Paths : files[p] # NoFile => files[p].owner # new
  BY <1>1, FieldTypes DEF IInv, JobsAreSound, PartsAreOwned, FilesAreOwned
<1>5. seq' > seq
  BY <1>1, <1>2
<1> HIDE DEF new
<1>6. JobsAreSound'
  BY <1>1, <1>2, <1>3, <1>4, <1>5 DEF IInv, JobsAreSound
<1>7. OneVerdict'
  BY <1>1, <1>2, <1>3, <1>4 DEF IInv, OneVerdict, Ended
<1>8. StagedBytes'
  BY <1>1, <1>2, Zenon DEF IInv, StagedBytes, disk
<1>9. PartsAreOwned'
  BY <1>1, <1>2, <1>3, <1>4, <1>5, FieldTypes DEF IInv, PartsAreOwned, disk
<1>10. FilesAreOwned'
  BY <1>1, <1>2, <1>3, <1>4, <1>5, FieldTypes DEF IInv, FilesAreOwned, disk
<1>11. AnnouncedIsThere'
  BY <1>2, Zenon DEF IInv, AnnouncedIsThere, Untaken, disk
<1> QED BY <1>6, <1>7, <1>8, <1>9, <1>10, <1>11 DEF Sound

\* What a step keeps of the tasks if one of them only moves on.
LEMMA MoveFields ==
  ASSUME IInv, NEW id \in Ids, NEW pc \in Pcs, Goto(id, pc)
  PROVE  \A i \in Ids : /\ job'[i].pc = IF i = id THEN pc ELSE job[i].pc
                        /\ job'[i].name = job[i].name
                        /\ job'[i].size = job[i].size
                        /\ job'[i].at = job[i].at
<1>1. TypeOK
  BY DEF IInv
<1> QED BY <1>1, GotoFields, Zenon

\* A staging file stays counted while neither its transfer nor the file changes.
LEMMA StagedKept ==
  ASSUME IInv, NEW i \in incoming, i \in Ids,
         job'[i].name = job[i].name, job'[i].pc = job[i].pc,
         received'[i] = received[i], part'[job[i].name] = part[job[i].name]
  PROVE  LET f == part'[job'[i].name]
         IN  /\ f # NoFile /\ f.owner = i /\ f.len >= received'[i]
             /\ job'[i].pc # "err" => f.len = received'[i]
<1>1. part'[job'[i].name] = part[job[i].name]
  BY Zenon
<1>2. LET f == part[job[i].name]
      IN  /\ f # NoFile /\ f.owner = i /\ f.len >= received[i]
          /\ job[i].pc # "err" => f.len = received[i]
  BY DEF IInv, StagedBytes
<1> QED BY <1>1, <1>2, Zenon

\* A finished file stays owned while neither its transfer nor the file changes.
LEMMA FileKept ==
  ASSUME IInv, NEW p \in Paths, files[p] # NoFile, files'[p] = files[p],
         LET o == files[p].owner
         IN  /\ o <= seq => o <= seq'
             /\ reg[o] = "none" => reg'[o] = "none"
             /\ reg'[o] = "failed" => reg[o] = "failed"
             /\ o \in unremoved => o \in unremoved'
             /\ job'[o].pc = job[o].pc
             /\ job'[o].name = job[o].name /\ job'[o].at = job[o].at
             /\ job'[o].size = job[o].size
  PROVE  LET o == files'[p].owner
         IN  /\ o <= seq'
             /\ \/ reg'[o] = "none"
                \/ /\ \/ job'[o].pc \in {"copy", "ok", "done"} /\ reg'[o] # "failed"
                      \/ job'[o].pc \in {"err", "done"} /\ o \in unremoved'
                   /\ p = <<job'[o].name, job'[o].at>>
                   /\ job'[o].size # Unknown => files'[p].len = job'[o].size
<1>1. LET o == files[p].owner
      IN  /\ o <= seq
          /\ \/ reg[o] = "none"
             \/ /\ \/ job[o].pc \in {"copy", "ok", "done"} /\ reg[o] # "failed"
                   \/ job[o].pc \in {"err", "done"} /\ o \in unremoved
                /\ p = <<job[o].name, job[o].at>>
                /\ job[o].size # Unknown => files[p].len = job[o].size
  BY DEF IInv, FilesAreOwned
<1> QED BY <1>1

\* The staging files of the transfers that stay are counted if the step leaves them.
LEMMA StagedStay ==
  ASSUME IInv,
         \A i \in incoming' : /\ i \in incoming
                              /\ job'[i].name = job[i].name /\ job'[i].pc = job[i].pc
                              /\ received'[i] = received[i]
                              /\ part'[job[i].name] = part[job[i].name]
  PROVE  StagedBytes'
<1>1. ASSUME NEW i \in incoming'
      PROVE  LET f == part'[job'[i].name]
             IN  /\ f # NoFile /\ f.owner = i /\ f.len >= received'[i]
                 /\ job'[i].pc # "err" => f.len = received'[i]
  <2>1. i \in Ids
    BY Zenon DEF IInv, TypeOK
  <2> QED BY <2>1, StagedKept, Zenon
<1> QED BY <1>1, Zenon DEF StagedBytes

\* A task that only moves on, between places at which the engine holds the same
\* for it, disturbs nothing.
LEMMA MoveOnStep ==
  ASSUME IInv, NEW id \in Ids, NEW pc \in {"loop", "read", "finish", "err"}, Goto(id, pc),
         job[id].pc \in {"open", "loop", "read", "finish"},
         id \in incoming \/ pc = "err",
         UNCHANGED <<registry, target, incoming, received, disk, shared>>
  PROVE  Sound'
<1>30. pc \in Pcs
  BY DEF Pcs
<1>1. \A i \in Ids : /\ job'[i].pc = IF i = id THEN pc ELSE job[i].pc
                     /\ job'[i].name = job[i].name
                     /\ job'[i].size = job[i].size
                     /\ job'[i].at = job[i].at
  BY <1>30, MoveFields, Zenon
<1>2. JobsAreSound'
  BY <1>1 DEF IInv, JobsAreSound, registry
<1>3. OneVerdict'
  BY <1>1, Zenon DEF IInv, OneVerdict, registry
<1>4. StagedBytes'
  BY <1>1 DEF IInv, TypeOK, StagedBytes, disk
<1>5. PartsAreOwned'
  BY <1>1, FieldTypes, Zenon DEF IInv, PartsAreOwned, disk, registry
<1>6. FilesAreOwned'
  <2>1. reg[id] = "active"
    BY DEF IInv, OneVerdict
  <2>2. \A p \in Paths : files[p] # NoFile => files[p].owner # id
    BY <2>1 DEF IInv, FilesAreOwned, disk
  <2>3. \A p \in Paths : files[p] # NoFile => files[p].owner \in Ids
    BY FieldTypes, Zenon DEF IInv
  <2>4. ASSUME NEW p \in Paths, files'[p] # NoFile
        PROVE  LET o == files'[p].owner
               IN  /\ o <= seq'
                   /\ \/ reg'[o] = "none"
                      \/ /\ \/ job'[o].pc \in {"copy", "ok", "done"} /\ reg'[o] # "failed"
                            \/ job'[o].pc \in {"err", "done"} /\ o \in unremoved'
                         /\ p = <<job'[o].name, job'[o].at>>
                         /\ job'[o].size # Unknown => files'[p].len = job'[o].size
    BY <1>1, <2>2, <2>3, <2>4, FileKept, Zenon DEF registry, disk
  <2> QED BY <2>4, Zenon DEF FilesAreOwned
<1>7. AnnouncedIsThere'
  BY Zenon DEF IInv, AnnouncedIsThere, Untaken, disk
<1> QED BY <1>2, <1>3, <1>4, <1>5, <1>6, <1>7, Zenon DEF Sound

\* A step that changes nothing of all this: cancelling only sets a flag.
LEMMA NothingMoves ==
  ASSUME IInv,
         UNCHANGED <<seq, reg, ended, target, job, incoming, received, disk, shared>>
  PROVE  Sound'
<1>1. JobsAreSound'
  BY Zenon DEF IInv, JobsAreSound
<1>2. OneVerdict'
  BY Zenon DEF IInv, OneVerdict
<1>3. StagedBytes'
  BY Zenon DEF IInv, StagedBytes, disk
<1>4. PartsAreOwned'
  BY Zenon DEF IInv, PartsAreOwned, disk
<1>5. FilesAreOwned'
  BY Zenon DEF IInv, FilesAreOwned, disk
<1>6. AnnouncedIsThere'
  BY Zenon DEF IInv, AnnouncedIsThere, Untaken, disk
<1> QED BY <1>1, <1>2, <1>3, <1>4, <1>5, <1>6 DEF Sound

\* start_receive: the staging file is created only where there is none.
LEMMA OpenStep ==
  ASSUME IInv, NEW id \in Ids, Open(id)
  PROVE  Sound'
<1> DEFINE n == job[id].name
<1>1. job[id].pc = "open" /\ n \in Names
  BY FieldTypes DEF Open, IInv
<1>2. CASE PartTaken(n)
  BY <1>1, <1>2, MoveOnStep DEF Open, disk
<1>3. CASE ~PartTaken(n)
  <2>1. part[n] = NoFile /\ StartReceive(id)
    BY <1>3 DEF Open, PartTaken
  <2>2. PICK pc \in {"loop", "finish"} : Goto(id, pc)
    BY <1>3 DEF Open
  <2>30. pc \in Pcs
    BY DEF Pcs
  <2>3. \A i \in Ids : /\ job'[i].pc = IF i = id THEN pc ELSE job[i].pc
                       /\ job'[i].name = job[i].name
                       /\ job'[i].size = job[i].size
                       /\ job'[i].at = job[i].at
    BY <2>2, <2>30, MoveFields, Zenon
  <2>4. /\ incoming' = incoming \cup {id}
        /\ UNCHANGED <<seq, reg, ended, target, files, shared, unremoved>>
    BY <2>1 DEF Open, StartReceive, registry
  <2>5. /\ received'[id] = 0
        /\ \A i \in Ids : i # id => received'[i] = received[i]
        /\ part'[n] # NoFile /\ part'[n].owner = id /\ part'[n].len = 0
        /\ \A q \in Names : q # n => part'[q] = part[q]
    <3>1. [owner |-> id, len |-> 0] \in Contents
      BY DEF Contents
    <3>2. [owner |-> id, len |-> 0] # NoFile
      BY <3>1, NoFileAssumption
    <3> QED BY <1>1, <2>1, <3>2 DEF StartReceive, IInv, TypeOK
  <2>6. reg[id] = "active" /\ id <= seq
    BY <1>1 DEF IInv, OneVerdict, JobsAreSound, TypeOK, RegistryType, Ids
  <2>7. \A i \in incoming : i \in Ids /\ i # id /\ job[i].name # n
    BY <1>1, <2>1 DEF IInv, TypeOK, JobsAreSound, StagedBytes
  <2> HIDE DEF n
  <2>8. JobsAreSound'
    BY <1>1, <2>3, <2>4, Zenon DEF IInv, JobsAreSound
  <2>9. OneVerdict'
    BY <1>1, <2>3, <2>4, Zenon DEF IInv, OneVerdict
  <2>10. StagedBytes'
    <3>1. SUFFICES ASSUME NEW i \in incoming'
                   PROVE  LET f == part'[job'[i].name]
                          IN  /\ f # NoFile /\ f.owner = i /\ f.len >= received'[i]
                              /\ job'[i].pc # "err" => f.len = received'[i]
      BY Zenon DEF StagedBytes
    <3>2. CASE i = id
      BY <2>3, <2>5, <3>2 DEF n
    <3>3. CASE i # id
      <4>1. i \in incoming /\ i \in Ids /\ job[i].name \in Names /\ job[i].name # n
        BY <2>4, <2>7, <3>3, FieldTypes DEF IInv
      <4> QED BY <2>3, <2>5, <3>3, <4>1 DEF IInv, StagedBytes
    <3> QED BY <3>2, <3>3
  <2>11. PartsAreOwned'
    <3>1. SUFFICES ASSUME NEW q \in Names, part'[q] # NoFile
                   PROVE  LET o == part'[q].owner
                          IN  /\ o <= seq'
                              /\ \/ reg'[o] = "none"
                                 \/ o \in incoming' /\ job'[o].name = q
                                 \/ o \in unremoved'
      BY Zenon DEF PartsAreOwned
    <3>2. CASE q = n
      BY <2>3, <2>4, <2>5, <2>6, <3>2, Zenon DEF n
    <3>3. CASE q # n
      <4>1. part'[q] = part[q] /\ part[q].owner \in Ids
        BY <2>5, <3>1, <3>3, FieldTypes, Zenon DEF IInv
      <4> QED BY <2>3, <2>4, <3>1, <4>1, Zenon DEF IInv, PartsAreOwned
    <3> QED BY <3>2, <3>3
  <2>12. FilesAreOwned'
    <3>1. \A p \in Paths : files[p] # NoFile => files[p].owner \in Ids /\ files[p].owner # id
      BY <1>1, <2>6, FieldTypes DEF IInv, FilesAreOwned
    <3>2. ASSUME NEW p \in Paths, files'[p] # NoFile
          PROVE  LET o == files'[p].owner
                 IN  /\ o <= seq'
                     /\ \/ reg'[o] = "none"
                        \/ /\ \/ job'[o].pc \in {"copy", "ok", "done"} /\ reg'[o] # "failed"
                              \/ job'[o].pc \in {"err", "done"} /\ o \in unremoved'
                           /\ p = <<job'[o].name, job'[o].at>>
                           /\ job'[o].size # Unknown => files'[p].len = job'[o].size
      BY <2>3, <2>4, <3>1, <3>2, FileKept, Zenon
    <3> QED BY <3>2, Zenon DEF FilesAreOwned
  <2>13. AnnouncedIsThere'
    BY <2>4 DEF IInv, AnnouncedIsThere, Untaken
  <2> QED BY <2>8, <2>9, <2>10, <2>11, <2>12, <2>13 DEF Sound
<1> QED BY <1>2, <1>3, Zenon

\* Two transfers being staged have different names.
LEMMA StagedNamesDiffer ==
  ASSUME IInv, NEW i \in incoming, NEW j \in incoming, i # j
  PROVE  job[i].name # job[j].name
BY DEF IInv, StagedBytes

\* abort removes the staging file of the transfer, if it can be removed, and that of
\* no other.
LEMMA AbortFields ==
  ASSUME IInv, NEW id \in Ids, Abort(id)
  PROVE  /\ incoming' = incoming \ {id}
         /\ unremoved \subseteq unremoved'
         /\ \A i \in incoming' : i \in Ids /\ part'[job[i].name] = part[job[i].name]
         /\ \A q \in Names : part'[q] # NoFile =>
              /\ part'[q] = part[q]
              /\ reg[part[q].owner] = "none" \/ part[q].owner # id \/ id \in unremoved'
<1>1. part \in [Names -> Contents \cup {NoFile}] /\ job[id].name \in Names
      /\ incoming \subseteq Ids
  BY FieldTypes DEF IInv, TypeOK
<1>2. \A i \in incoming : i # id /\ id \in incoming => job[i].name # job[id].name
  BY StagedNamesDiffer, Zenon
<1>3. \A q \in Names : part[q] # NoFile =>
        \/ reg[part[q].owner] = "none"
        \/ part[q].owner \in incoming /\ job[part[q].owner].name = q
        \/ part[q].owner \in unremoved
  BY Zenon DEF IInv, PartsAreOwned
<1>4. incoming' = incoming \ {id} /\ unremoved \subseteq unremoved'
  BY Zenon DEF Abort, RemovalFails
<1>5. CASE id \in incoming /\ part' = [part EXCEPT ![job[id].name] = NoFile]
  BY <1>1, <1>2, <1>3, <1>4, <1>5
<1>6. CASE part' = part /\ (id \in incoming => id \in unremoved')
  BY <1>1, <1>3, <1>4, <1>6
<1>7. CASE id \in incoming
  <2>1. CASE part' = [part EXCEPT ![job[id].name] = NoFile]
    BY <1>5, <1>7, <2>1, Zenon
  <2>2. CASE RemovalFails(id) /\ UNCHANGED part
    BY <1>6, <2>2, Zenon DEF RemovalFails
  <2> QED BY <1>7, <2>1, <2>2, Zenon DEF Abort
<1>8. CASE id \notin incoming
  BY <1>6, <1>8, Zenon DEF Abort
<1> QED BY <1>7, <1>8, Zenon

\* The head of the loop: a cancelled transfer is no longer staged.
LEMMA CheckCancelStep ==
  ASSUME IInv, NEW id \in Ids, CheckCancel(id)
  PROVE  Sound'
<1>1. job[id].pc = "loop" /\ id \in incoming
  BY DEF CheckCancel, IInv, JobsAreSound
<1>2. CASE id \notin cancel
  BY <1>1, <1>2, MoveOnStep DEF CheckCancel, disk
<1>3. CASE id \in cancel
  <2>1. /\ Abort(id) /\ Goto(id, "err")
        /\ UNCHANGED <<seq, reg, ended, target, received, files, shared>>
    BY <1>3, Zenon DEF CheckCancel, registry
  <2>30. "err" \in Pcs
    BY DEF Pcs
  <2>2. \A i \in Ids : /\ job'[i].pc = IF i = id THEN "err" ELSE job[i].pc
                       /\ job'[i].name = job[i].name
                       /\ job'[i].size = job[i].size
                       /\ job'[i].at = job[i].at
    BY <2>1, <2>30, MoveFields, Zenon
  <2>3. reg[id] = "active"
    BY <1>1, Zenon DEF IInv, OneVerdict
  <2>10. /\ incoming' = incoming \ {id} /\ unremoved \subseteq unremoved'
         /\ \A i \in incoming' : i \in Ids /\ part'[job[i].name] = part[job[i].name]
         /\ \A q \in Names : part'[q] # NoFile =>
              /\ part'[q] = part[q] /\ part[q].owner \in Ids
              /\ reg[part[q].owner] = "none" \/ part[q].owner # id \/ id \in unremoved'
    <3>1. TypeOK
      BY DEF IInv
    <3> QED BY <2>1, <3>1, AbortFields, FieldTypes, Zenon
  <2>4. JobsAreSound'
    <3>1. ASSUME NEW i \in Ids
          PROVE  /\ i > seq' => job'[i].pc = "none" /\ reg'[i] = "none"
                 /\ job'[i].pc = "done" => reg'[i] \in Ended
                 /\ job'[i].pc \in {"loop", "read", "finish"} => i \in incoming'
                 /\ i \in incoming' => job'[i].pc \in {"loop", "read", "finish", "err"}
                 /\ job'[i].pc = "copy" => target' = "uri"
      <4>1. /\ i > seq => job[i].pc = "none" /\ reg[i] = "none"
            /\ job[i].pc = "done" => reg[i] \in Ended
            /\ job[i].pc \in {"loop", "read", "finish"} => i \in incoming
            /\ i \in incoming => job[i].pc \in {"loop", "read", "finish", "err"}
            /\ job[i].pc = "copy" => target = "uri"
        BY Zenon DEF IInv, JobsAreSound
      <4> QED BY <1>1, <2>1, <2>2, <2>10, <4>1
    <3> QED BY <3>1, Zenon DEF JobsAreSound
  <2>5. OneVerdict'
    BY <1>1, <2>1, <2>2, Zenon DEF IInv, OneVerdict
  <2>6. StagedBytes'
    <3>1. \A i \in incoming' : i \in incoming /\ i \in Ids /\ i # id
      BY <2>10
    <3> QED BY <2>1, <2>2, <2>10, <3>1, StagedStay, Zenon
  <2>7. PartsAreOwned'
    <3>1. ASSUME NEW q \in Names, part'[q] # NoFile
          PROVE  LET o == part'[q].owner
                 IN  /\ o <= seq'
                     /\ reg'[o] = "none" \/ (o \in incoming' /\ job'[o].name = q) \/ o \in unremoved'
      <4>1. /\ part'[q] = part[q] /\ part[q].owner \in Ids /\ part[q] # NoFile
            /\ reg[part[q].owner] = "none" \/ part[q].owner # id \/ id \in unremoved'
        BY <2>10, <3>1, Zenon
      <4>2. LET o == part[q].owner
            IN  /\ o <= seq
                /\ reg[o] = "none" \/ (o \in incoming /\ job[o].name = q) \/ o \in unremoved
        BY <4>1 DEF IInv, PartsAreOwned
      <4> QED BY <2>1, <2>2, <2>10, <4>1, <4>2
    <3> QED BY <3>1, Zenon DEF PartsAreOwned
  <2>8. FilesAreOwned'
    <3>1. \A p \in Paths : files[p] # NoFile => files[p].owner \in Ids /\ files[p].owner # id
      BY <1>1, <2>3, FieldTypes DEF IInv, FilesAreOwned
    <3>2. ASSUME NEW p \in Paths, files'[p] # NoFile
          PROVE  LET o == files'[p].owner
                 IN  /\ o <= seq'
                     /\ \/ reg'[o] = "none"
                        \/ /\ \/ job'[o].pc \in {"copy", "ok", "done"} /\ reg'[o] # "failed"
                              \/ job'[o].pc \in {"err", "done"} /\ o \in unremoved'
                           /\ p = <<job'[o].name, job'[o].at>>
                           /\ job'[o].size # Unknown => files'[p].len = job'[o].size
      BY <2>1, <2>2, <2>10, <3>1, <3>2, FileKept, Zenon
    <3> QED BY <3>2, Zenon DEF FilesAreOwned
  <2>9. AnnouncedIsThere'
    BY <2>1, Zenon DEF IInv, AnnouncedIsThere, Untaken
  <2> QED BY <2>4, <2>5, <2>6, <2>7, <2>8, <2>9, Zenon DEF Sound
<1> QED BY <1>2, <1>3, Zenon

\* on_transfer_outcome: the verdict follows how the task ended.
LEMMA OutcomeStep ==
  ASSUME IInv, NEW id \in Ids, Outcome(id)
  PROVE  Sound'
<1> DEFINE verdict == IF job[id].pc = "ok" THEN "finished" ELSE "failed"
<1>1. /\ job[id].pc \in {"ok", "err"} /\ Goto(id, "done")
      /\ UNCHANGED <<seq, target, received, files, shared>>
      /\ reg' = [reg EXCEPT ![id] = verdict]
      /\ ended' = [ended EXCEPT ![id] = @ + 1]
  BY Zenon DEF Outcome, Conclude
<1>30. "done" \in Pcs
  BY DEF Pcs
<1>2. \A i \in Ids : /\ job'[i].pc = IF i = id THEN "done" ELSE job[i].pc
                     /\ job'[i].name = job[i].name
                     /\ job'[i].size = job[i].size
                     /\ job'[i].at = job[i].at
  BY <1>1, <1>30, MoveFields, Zenon
<1>3. \A i \in Ids : /\ reg'[i] = IF i = id THEN verdict ELSE reg[i]
                     /\ ended'[i] = IF i = id THEN ended[i] + 1 ELSE ended[i]
  BY <1>1, Zenon DEF IInv, TypeOK, RegistryType
<1>4. /\ reg[id] = "active" /\ id <= seq /\ ended[id] = 0 /\ verdict \in Ended
      /\ verdict # "none" /\ verdict # "active"
  BY <1>1 DEF IInv, OneVerdict, JobsAreSound, TypeOK, RegistryType, Ids, Ended
<1>5. /\ incoming' = incoming \ {id} /\ unremoved \subseteq unremoved'
      /\ \A i \in incoming' : i \in Ids /\ part'[job[i].name] = part[job[i].name]
      /\ \A q \in Names : part'[q] # NoFile =>
           /\ part'[q] = part[q] /\ part[q].owner \in Ids
           /\ reg[part[q].owner] = "none" \/ part[q].owner # id \/ id \in unremoved'
  <2>1. CASE Abort(id)
    BY <2>1, AbortFields, FieldTypes, Zenon DEF IInv
  <2>2. CASE job[id].pc = "ok" /\ UNCHANGED <<incoming, part, unremoved>>
    <3>1. id \notin incoming
      BY <2>2, Zenon DEF IInv, JobsAreSound
    <3> QED BY <2>2, <3>1, FieldTypes, Zenon DEF IInv, TypeOK, PartsAreOwned
  <2> QED BY <2>1, <2>2, Zenon DEF Outcome
<1>6. \A p \in Paths : files[p] # NoFile =>
        /\ files[p].owner \in Ids
        /\ files[p].owner = id => job[id].pc = "ok" \/ id \in unremoved
  BY <1>1, <1>4, FieldTypes, Zenon DEF IInv, FilesAreOwned
<1>7. job[id].pc = "ok" => verdict # "failed"
  OBVIOUS
<1> HIDE DEF verdict
<1>8. JobsAreSound'
  <2>1. ASSUME NEW i \in Ids
        PROVE  /\ i > seq' => job'[i].pc = "none" /\ reg'[i] = "none"
               /\ job'[i].pc = "done" => reg'[i] \in Ended
               /\ job'[i].pc \in {"loop", "read", "finish"} => i \in incoming'
               /\ i \in incoming' => job'[i].pc \in {"loop", "read", "finish", "err"}
               /\ job'[i].pc = "copy" => target' = "uri"
    <3>1. /\ i > seq => job[i].pc = "none" /\ reg[i] = "none"
          /\ job[i].pc = "done" => reg[i] \in Ended
          /\ job[i].pc \in {"loop", "read", "finish"} => i \in incoming
          /\ i \in incoming => job[i].pc \in {"loop", "read", "finish", "err"}
          /\ job[i].pc = "copy" => target = "uri"
      BY Zenon DEF IInv, JobsAreSound
    <3> QED BY <1>1, <1>2, <1>3, <1>4, <1>5, <3>1
  <2> QED BY <2>1, Zenon DEF JobsAreSound
<1>9. OneVerdict'
  <2>1. ASSUME NEW i \in Ids, i # id
        PROVE  /\ job'[i].pc = job[i].pc /\ reg'[i] = reg[i] /\ ended'[i] = ended[i]
    BY <1>2, <1>3, <2>1, Zenon
  <2>2. job'[id].pc = "done" /\ reg'[id] \in Ended /\ ended'[id] = 1 /\ reg'[id] # "active"
    BY <1>2, <1>3, <1>4, SMTT(20)
  <2> QED BY <2>1, <2>2, Zenon DEF IInv, OneVerdict
<1>10. StagedBytes'
  <2>1. \A i \in incoming' : i \in incoming /\ i \in Ids /\ i # id
    BY <1>5, Zenon
  <2> QED BY <1>1, <1>2, <1>5, <2>1, StagedStay, Zenon
<1>11. PartsAreOwned'
  <2>1. ASSUME NEW q \in Names, part'[q] # NoFile
        PROVE  LET o == part'[q].owner
               IN  /\ o <= seq'
                   /\ reg'[o] = "none" \/ (o \in incoming' /\ job'[o].name = q) \/ o \in unremoved'
    <3>1. /\ part'[q] = part[q] /\ part[q].owner \in Ids /\ part[q] # NoFile
          /\ part[q].owner # id \/ id \in unremoved'
      BY <1>4, <1>5, <2>1, Zenon
    <3>2. LET o == part[q].owner
          IN  /\ o <= seq
              /\ reg[o] = "none" \/ (o \in incoming /\ job[o].name = q) \/ o \in unremoved
      BY <3>1 DEF IInv, PartsAreOwned
    <3>3. CASE part[q].owner # id
      <4>1. /\ seq' = seq /\ reg'[part[q].owner] = reg[part[q].owner]
            /\ job'[part[q].owner].name = job[part[q].owner].name
            /\ part[q].owner \in incoming => part[q].owner \in incoming'
            /\ part[q].owner \in unremoved => part[q].owner \in unremoved'
        BY <1>1, <1>2, <1>3, <1>5, <3>1, <3>3, Zenon
      <4> QED BY <3>1, <3>2, <4>1, Zenon
    <3>4. CASE part[q].owner = id /\ id \in unremoved'
      BY <1>1, <3>1, <3>2, <3>4, Zenon
    <3> QED BY <3>1, <3>3, <3>4, Zenon
  <2> QED BY <2>1, Zenon DEF PartsAreOwned
<1>12. FilesAreOwned'
  <2>1. ASSUME NEW p \in Paths, files'[p] # NoFile
        PROVE  LET o == files'[p].owner
               IN  /\ o <= seq'
                   /\ \/ reg'[o] = "none"
                      \/ /\ \/ job'[o].pc \in {"copy", "ok", "done"} /\ reg'[o] # "failed"
                            \/ job'[o].pc \in {"err", "done"} /\ o \in unremoved'
                         /\ p = <<job'[o].name, job'[o].at>>
                         /\ job'[o].size # Unknown => files'[p].len = job'[o].size
    <3>1. /\ files'[p] = files[p] /\ files[p].owner \in Ids
          /\ files[p].owner = id => verdict # "failed" \/ id \in unremoved'
          /\ files[p].owner \in unremoved => files[p].owner \in unremoved'
      BY <1>1, <1>5, <1>6, <1>7, <2>1, Zenon
    <3>2. LET o == files[p].owner
          IN  /\ o <= seq
              /\ \/ reg[o] = "none"
                 \/ /\ \/ job[o].pc \in {"copy", "ok", "done"} /\ reg[o] # "failed"
                       \/ job[o].pc \in {"err", "done"} /\ o \in unremoved
                    /\ p = <<job[o].name, job[o].at>>
                    /\ job[o].size # Unknown => files[p].len = job[o].size
      BY <2>1, <3>1 DEF IInv, FilesAreOwned
    <3> QED BY <1>1, <1>2, <1>3, <1>4, <3>1, <3>2
  <2> QED BY <2>1, Zenon DEF FilesAreOwned
<1>13. AnnouncedIsThere'
  BY <1>1 DEF IInv, AnnouncedIsThere, Untaken
<1> QED BY <1>8, <1>9, <1>10, <1>11, <1>12, <1>13 DEF Sound

\* A chunk that reaches the file, or part of one before the write fails: the file
\* grows with what the engine counts, and never less.
LEMMA ReceiveChunkStep ==
  ASSUME IInv, NEW id \in Ids, NEW n \in 1 .. Chunk, ReceiveChunk(id, n)
  PROVE  Sound'
<1> DEFINE m == job[id].name
<1>1. job[id].pc = "read" /\ id \in incoming /\ m \in Names
  BY FieldTypes, Zenon DEF ReceiveChunk, IInv, JobsAreSound
<1>2. CASE Overflows(id, n)
  BY <1>1, <1>2, MoveOnStep, Zenon DEF ReceiveChunk, disk
<1>3. CASE ~Overflows(id, n)
  <2>1. PICK k \in 0 .. n : Append(id, k)
    <3>1. n \in 0 .. n
      BY IncomingAssumption
    <3> QED BY <1>3, <3>1, Zenon DEF ReceiveChunk
  <2>2. PICK pc \in {"loop", "finish", "err"} : Goto(id, pc)
    BY <1>3, Zenon DEF ReceiveChunk
  <2>30. pc \in Pcs
    BY DEF Pcs
  <2>3. \A i \in Ids : /\ job'[i].pc = IF i = id THEN pc ELSE job[i].pc
                       /\ job'[i].name = job[i].name
                       /\ job'[i].size = job[i].size
                       /\ job'[i].at = job[i].at
    BY <2>2, <2>30, MoveFields, Zenon
  <2>4. UNCHANGED <<seq, reg, ended, target, incoming, files, shared, unremoved>>
    BY Zenon DEF ReceiveChunk, registry
  <2>5. part[m] \in Contents /\ part[m].owner = id /\ part[m].len = received[id]
        /\ part[m].len \in Nat
    <3>1. part[m] # NoFile /\ part[m].owner = id /\ part[m].len = received[id]
      BY <1>1 DEF IInv, StagedBytes
    <3> QED BY <1>1, <3>1, FieldTypes, Zenon DEF IInv
  <2>6. TypeOK /\ k \in Nat /\ n \in Nat /\ part[m] # NoFile /\ received[id] \in Nat
    BY <2>5, IncomingAssumption, NoFileAssumption DEF IInv, TypeOK
  <2>7. /\ part'[m] # NoFile /\ part'[m].owner = id /\ part'[m].len >= received[id]
        /\ \A q \in Names : q # m => part'[q] = part[q]
    BY <2>1, <2>5, <2>6, AppendFields, Zenon
  <2>8. /\ \A i \in Ids : i # id => received'[i] = received[i]
        /\ \/ received'[id] = Grown(id, received[id], n) /\ Append(id, n)
           \/ received'[id] = received[id] /\ Goto(id, "err")
    BY <1>1, <1>3, Zenon DEF ReceiveChunk, IInv, TypeOK
  <2>9. /\ part'[m].len >= received'[id]
        /\ pc # "err" => part'[m].len = received'[id]
    <3>2. CASE received'[id] = Grown(id, received[id], n) /\ Append(id, n)
      <4>1. part'[m].len = Grown(id, received[id], n)
        BY <2>5, <2>6, <3>2, AppendFields, Zenon
      <4>2. Grown(id, received[id], n) \in Nat
        BY <2>6 DEF Grown
      <4> QED BY <3>2, <4>1, <4>2
    <3>3. CASE received'[id] = received[id] /\ Goto(id, "err")
      <4>1. job'[id].pc = "err"
        <5>1. "err" \in Pcs
          BY DEF Pcs
        <5> QED BY <3>3, <5>1, MoveFields, Zenon
      <4> QED BY <2>3, <2>7, <3>3, <4>1, Zenon
    <3> QED BY <2>8, <3>2, <3>3, Zenon
  <2>10. \A i \in incoming : i \in Ids /\ job[i].name \in Names /\ (i # id => job[i].name # m)
    BY <1>1, StagedNamesDiffer, FieldTypes, Zenon DEF IInv, TypeOK
  <2> HIDE DEF m
  <2>11. JobsAreSound'
    BY <1>1, <2>3, <2>4, Zenon DEF IInv, JobsAreSound
  <2>12. OneVerdict'
    BY <1>1, <2>3, <2>4, Zenon DEF IInv, OneVerdict
  <2>13. StagedBytes'
    <3>1. SUFFICES ASSUME NEW i \in incoming'
                   PROVE  LET f == part'[job'[i].name]
                          IN  /\ f # NoFile /\ f.owner = i /\ f.len >= received'[i]
                              /\ job'[i].pc # "err" => f.len = received'[i]
      BY Zenon DEF StagedBytes
    <3>2. CASE i = id
      BY <2>3, <2>7, <2>9, <3>2, Zenon DEF m
    <3>3. CASE i # id
      <4>1. i \in incoming /\ i \in Ids /\ part'[job[i].name] = part[job[i].name]
        BY <2>4, <2>7, <2>10, <3>3, Zenon
      <4> QED BY <2>3, <2>8, <3>3, <4>1, StagedKept, Zenon
    <3> QED BY <3>2, <3>3, Zenon
  <2>14. PartsAreOwned'
    <3>1. SUFFICES ASSUME NEW q \in Names, part'[q] # NoFile
                   PROVE  LET o == part'[q].owner
                          IN  /\ o <= seq'
                              /\ \/ reg'[o] = "none"
                                 \/ o \in incoming' /\ job'[o].name = q
                                 \/ o \in unremoved'
      BY Zenon DEF PartsAreOwned
    <3>2. CASE q = m
      BY <1>1, <2>3, <2>4, <2>5, <2>7, <3>2, NoFileAssumption, Zenon DEF m, IInv, PartsAreOwned
    <3>3. CASE q # m
      <4>1. part'[q] = part[q] /\ part[q].owner \in Ids
        BY <2>7, <3>1, <3>3, FieldTypes, Zenon DEF IInv
      <4> QED BY <2>3, <2>4, <3>1, <4>1, Zenon DEF IInv, PartsAreOwned
    <3> QED BY <3>2, <3>3, Zenon
  <2>15. FilesAreOwned'
    <3>1. reg[id] = "active"
      BY <1>1, Zenon DEF IInv, OneVerdict
    <3>2. \A p \in Paths : files[p] # NoFile => files[p].owner \in Ids /\ files[p].owner # id
      BY <1>1, <3>1, FieldTypes DEF IInv, FilesAreOwned
    <3> QED BY <2>3, <2>4, <3>2 DEF IInv, FilesAreOwned
  <2>16. AnnouncedIsThere'
    BY <2>4, Zenon DEF IInv, AnnouncedIsThere, Untaken
  <2> QED BY <2>11, <2>12, <2>13, <2>14, <2>15, <2>16 DEF Sound
<1> QED BY <1>2, <1>3, Zenon

\* The end of the stream and a failed read only move the task.
LEMMA ReadStep ==
  ASSUME IInv, NEW id \in Ids, ReadEof(id) \/ ReadFails(id)
  PROVE  Sound'
<1>1. job[id].pc = "read" /\ id \in incoming
  BY DEF ReadEof, ReadFails, IInv, JobsAreSound
<1>2. PICK pc \in {"loop", "read", "finish", "err"} : Goto(id, pc)
  BY Zenon DEF ReadEof, ReadFails
<1>3. UNCHANGED <<registry, target, incoming, received, disk, shared>>
  BY Zenon DEF ReadEof, ReadFails
<1> QED BY <1>1, <1>2, <1>3, MoveOnStep, Zenon

\* finish_receive: the staged bytes are all of the file, and the name they get is
\* one at which there was nothing, unless every number of it is taken.
LEMMA FinishStep ==
  ASSUME IInv, NEW id \in Ids, Finish(id)
  PROVE  Sound'
<1> DEFINE n == job[id].name
           k == FreeDestination(n)
           pc == IF target = "uri" THEN "copy" ELSE "ok"
<1>1. job[id].pc = "finish" /\ id \in incoming /\ n \in Names
  BY FieldTypes DEF Finish, IInv, JobsAreSound
<1>2. CASE Goto(id, "err") /\ UNCHANGED <<incoming, part, files, shared>>
  BY <1>1, <1>2, MoveOnStep DEF Finish, disk
<1>3. CASE /\ Complete(id)
           /\ files' = [files EXCEPT ![<<n, k>>] = part[n]]
           /\ part' = [part EXCEPT ![n] = NoFile]
           /\ incoming' = incoming \ {id}
           /\ job' = [job EXCEPT ![id].pc = pc, ![id].at = k]
           /\ shared' = IF target = "uri" THEN shared
                        ELSE [shared EXCEPT ![id] = SharePath(n, k)]
  <2>1. /\ UNCHANGED <<seq, reg, ended, target, received, unremoved>>
        /\ incoming' = incoming \ {id}
    BY <1>3, Zenon DEF Finish, registry
  <2>2. /\ k \in Copies /\ <<n, k>> \in Paths
        /\ files[<<n, k>>] # NoFile => Untaken(n) = {} /\ k = 0
    <3>1. k \in Copies /\ <<n, k>> \in Paths
      BY <1>1, FreeDestinationIsFree, Zenon DEF Paths
    <3>2. Untaken(n) # {} => files[<<n, k>>] = NoFile
      BY <1>1, FreeDestinationIsFree, Zenon DEF Untaken
    <3> QED BY <1>1, <3>1, <3>2, FreeDestinationIsFree, Zenon
  <2>3. pc \in Pcs /\ pc \in {"copy", "ok"} /\ (pc = "copy" => target = "uri")
    BY DEF Pcs
  <2>4. \A i \in Ids : /\ job'[i].pc = IF i = id THEN pc ELSE job[i].pc
                       /\ job'[i].name = job[i].name
                       /\ job'[i].size = job[i].size
                       /\ job'[i].at = IF i = id THEN k ELSE job[i].at
    <3>1. job' = [job EXCEPT ![id].pc = pc, ![id].at = k]
      BY <1>3
    <3> HIDE DEF n, k, pc
    <3>2. FinishAs(id, pc, k)
      BY <3>1 DEF FinishAs
    <3> QED BY <2>2, <2>3, <3>2, FinishedFields DEF IInv
  <2>5. /\ part[n] # NoFile /\ part[n].owner = id
        /\ job[id].size # Unknown => part[n].len = job[id].size
    BY <1>1, <1>3 DEF IInv, StagedBytes, Complete
  <2>6. reg[id] = "active" /\ id <= seq
    BY <1>1 DEF IInv, OneVerdict, JobsAreSound, TypeOK, RegistryType, Ids
  <2>7. /\ \A i \in incoming' : i \in Ids /\ i # id /\ i \in incoming /\ job[i].name \in Names
        /\ \A i \in incoming' : job[i].name # n
    BY <1>1, <1>3, StagedNamesDiffer, FieldTypes DEF IInv, TypeOK
  <2>8. shared'[id] = SharePath(n, k) \/ target = "uri"
    BY <1>3 DEF IInv, TypeOK
  <2>9. \A i \in Ids : i # id => shared'[i] = shared[i]
    BY <1>3 DEF IInv, TypeOK
  <2> HIDE DEF n, k, pc
  <2>10. /\ files'[<<n, k>>] = part[n]
         /\ \A p \in Paths : p # <<n, k>> => files'[p] = files[p]
    BY <1>3, <2>2 DEF IInv, TypeOK
  <2>11. \A q \in Names : part'[q] = IF q = n THEN NoFile ELSE part[q]
    BY <1>1, <1>3, Zenon DEF IInv, TypeOK
  <2>12. JobsAreSound'
    BY <1>1, <2>1, <2>3, <2>4, Zenon DEF IInv, JobsAreSound
  <2>13. OneVerdict'
    BY <1>1, <2>1, <2>3, <2>4, Zenon DEF IInv, OneVerdict
  <2>14. StagedBytes'
    <3>1. \A i \in incoming' : i \in incoming /\ i \in Ids /\ i # id /\ job[i].name # n
      BY <2>1, <2>7
    <3>2. \A i \in incoming' : part'[job[i].name] = part[job[i].name]
      BY <2>11, <3>1, FieldTypes DEF IInv
    <3> QED BY <2>1, <2>4, <3>1, <3>2, StagedStay, Zenon
  <2>15. PartsAreOwned'
    <3>1. SUFFICES ASSUME NEW q \in Names, part'[q] # NoFile
                   PROVE  LET o == part'[q].owner
                          IN  /\ o <= seq'
                              /\ \/ reg'[o] = "none"
                                 \/ o \in incoming' /\ job'[o].name = q
                                 \/ o \in unremoved'
      BY Zenon DEF PartsAreOwned
    <3>2. q # n /\ part'[q] = part[q] /\ part[q].owner \in Ids
      BY <2>11, <3>1, FieldTypes, Zenon DEF IInv
    <3>3. part[q].owner # id \/ reg[id] = "none" \/ id \in unremoved
      BY <3>1, <3>2 DEF IInv, PartsAreOwned, n
    <3> QED BY <2>1, <2>4, <2>6, <3>1, <3>2, <3>3 DEF IInv, PartsAreOwned
  <2>16. FilesAreOwned'
    <3>1. SUFFICES ASSUME NEW p \in Paths, files'[p] # NoFile
                   PROVE  LET o == files'[p].owner
                          IN  /\ o <= seq'
                              /\ \/ reg'[o] = "none"
                                 \/ /\ \/ /\ job'[o].pc \in {"copy", "ok", "done"}
                                          /\ reg'[o] # "failed"
                                       \/ job'[o].pc \in {"err", "done"} /\ o \in unremoved'
                                    /\ p = <<job'[o].name, job'[o].at>>
                                    /\ job'[o].size # Unknown => files'[p].len = job'[o].size
      BY Zenon DEF FilesAreOwned
    <3>2. CASE p = <<n, k>>
      <4>1. files'[p] = part[n] /\ job'[id].name = n
        BY <2>4, <2>10, <3>2, Zenon DEF n
      <4> QED BY <2>1, <2>3, <2>4, <2>5, <2>6, <3>2, <4>1
    <3>3. CASE p # <<n, k>>
      <4>1. files'[p] = files[p] /\ files[p].owner \in Ids
        BY <2>10, <3>1, <3>3, FieldTypes, Zenon DEF IInv
      <4>2. files[p].owner # id
        BY <1>1, <2>6, <3>1, <4>1, Zenon DEF IInv, FilesAreOwned
      <4> QED BY <2>1, <2>4, <3>1, <4>1, <4>2, FileKept, Zenon
    <3> QED BY <3>2, <3>3, Zenon
  <2>17. AnnouncedIsThere'
    <3>1. SUFFICES ASSUME NEW i \in Ids, target = "local", shared'[i] # NoFile
                   PROVE  /\ files'[shared'[i]] # NoFile
                          /\ \/ files'[shared'[i]].owner = i
                             \/ /\ shared'[i][2] = 0
                                /\ \A j \in Copies : files'[<<shared'[i][1], j>>] # NoFile
      BY <2>1, Zenon DEF AnnouncedIsThere, Untaken
    <3>2. ASSUME NEW q \in Names, Untaken(q) = {}
          PROVE  \A j \in Copies : files'[<<q, j>>] # NoFile
      <4>1. \A j \in Copies : <<q, j>> \in Paths /\ files[<<q, j>>] # NoFile
        BY <3>2, Zenon DEF Paths, Untaken
      <4> QED BY <2>5, <2>10, <4>1
    <3>3. CASE i = id
      <4>1. shared'[i] = <<n, k>>
        BY <2>8, <3>1, <3>3, Zenon DEF SharePath
      <4> QED BY <2>5, <2>10, <3>3, <4>1, Zenon
    <3>4. CASE i # id
      <4>1. shared'[i] = shared[i] /\ shared[i] \in Paths
        BY <2>9, <3>1, <3>4, Zenon DEF IInv, TypeOK
      <4>2. /\ files[shared[i]] # NoFile
            /\ \/ files[shared[i]].owner = i
               \/ shared[i][2] = 0 /\ Untaken(shared[i][1]) = {}
        BY <3>1, <4>1, Zenon DEF IInv, AnnouncedIsThere
      <4>3. shared[i][1] \in Names
        BY <4>1, Zenon DEF Paths
      <4>4. CASE shared[i] = <<n, k>>
        <5>1. Untaken(n) = {} /\ k = 0
          BY <2>2, <4>2, <4>4, Zenon
        <5>2. shared[i][1] = n /\ shared[i][2] = 0
          BY <4>4, <5>1
        <5> QED BY <1>1, <2>5, <2>10, <3>2, <4>1, <4>4, <5>1, <5>2, Zenon
      <4>5. CASE shared[i] # <<n, k>>
        BY <2>10, <3>2, <4>1, <4>2, <4>3, <4>5, Zenon
      <4> QED BY <4>4, <4>5, Zenon
    <3> QED BY <3>3, <3>4
  <2> QED BY <2>12, <2>13, <2>14, <2>15, <2>16, <2>17 DEF Sound
<1> QED BY <1>2, <1>3, Zenon DEF Finish

\* move_into_uri: the staged copy goes, if it can be removed, whatever becomes of the
\* copy.
LEMMA CopyIntoUriStep ==
  ASSUME IInv, NEW id \in Ids, CopyIntoUri(id)
  PROVE  Sound'
<1> DEFINE p == <<job[id].name, job[id].at>>
<1>1. job[id].pc = "copy" /\ target = "uri" /\ id \notin incoming /\ p \in Paths
  BY FieldTypes, Zenon DEF CopyIntoUri, IInv, JobsAreSound, Paths
<1>2. /\ UNCHANGED <<seq, reg, ended, target, incoming, received, part>>
      /\ unremoved \subseteq unremoved'
      /\ \/ files' = [files EXCEPT ![p] = NoFile]
         \/ files' = files /\ id \in unremoved'
  BY Zenon DEF CopyIntoUri, DropStaged, RemovalFails, registry
<1>3. PICK pc \in {"ok", "err"} : Goto(id, pc)
  BY Zenon DEF CopyIntoUri
<1>30. pc \in Pcs
  BY DEF Pcs
<1>4. \A i \in Ids : /\ job'[i].pc = IF i = id THEN pc ELSE job[i].pc
                     /\ job'[i].name = job[i].name
                     /\ job'[i].size = job[i].size
                     /\ job'[i].at = job[i].at
  BY <1>3, <1>30, MoveFields, Zenon
<1>5. reg[id] = "active"
  BY <1>1, Zenon DEF IInv, OneVerdict
<1>6. \A q \in Paths : files'[q] # NoFile =>
        /\ files'[q] = files[q] /\ files[q].owner \in Ids
        /\ files[q].owner # id \/ id \in unremoved'
  <2>1. CASE files' = [files EXCEPT ![p] = NoFile]
    <3>1. \A q \in Paths : files'[q] # NoFile => q # p /\ files'[q] = files[q]
      BY <1>1, <2>1, Zenon DEF IInv, TypeOK
    <3> QED BY <1>1, <1>5, <3>1, FieldTypes, Zenon DEF IInv, FilesAreOwned
  <2>2. CASE files' = files /\ id \in unremoved'
    BY <2>2, FieldTypes, Zenon DEF IInv
  <2> QED BY <1>2, <2>1, <2>2, Zenon
<1> HIDE DEF p
<1>7. JobsAreSound'
  BY <1>1, <1>2, <1>4, Zenon DEF IInv, JobsAreSound
<1>8. OneVerdict'
  BY <1>1, <1>2, <1>4, Zenon DEF IInv, OneVerdict
<1>9. StagedBytes'
  <2>1. \A i \in incoming' : i \in incoming /\ i \in Ids /\ i # id
    BY <1>1, <1>2, Zenon DEF IInv, TypeOK
  <2> QED BY <1>2, <1>4, <2>1, StagedStay, Zenon
<1>10. PartsAreOwned'
  BY <1>2, <1>4, FieldTypes DEF IInv, PartsAreOwned
<1>11. FilesAreOwned'
  <2>1. ASSUME NEW q \in Paths, files'[q] # NoFile
        PROVE  LET o == files'[q].owner
               IN  /\ o <= seq'
                   /\ \/ reg'[o] = "none"
                      \/ /\ \/ job'[o].pc \in {"copy", "ok", "done"} /\ reg'[o] # "failed"
                            \/ job'[o].pc \in {"err", "done"} /\ o \in unremoved'
                         /\ q = <<job'[o].name, job'[o].at>>
                         /\ job'[o].size # Unknown => files'[q].len = job'[o].size
    <3>1. files'[q] = files[q] /\ files[q] # NoFile /\ files[q].owner \in Ids
      BY <1>6, <2>1, Zenon
    <3>2. CASE files[q].owner = id
      <4>1. /\ id <= seq /\ q = <<job[id].name, job[id].at>>
            /\ job[id].size # Unknown => files[q].len = job[id].size
        BY <1>5, <3>1, <3>2, Zenon DEF IInv, FilesAreOwned
      <4>2. id \in unremoved' /\ job'[id].pc = pc /\ reg'[id] = "active"
        BY <1>2, <1>4, <1>5, <1>6, <2>1, <3>2, Zenon
      <4> QED BY <1>2, <1>4, <3>1, <3>2, <4>1, <4>2, Zenon
    <3>3. CASE files[q].owner # id
      BY <1>2, <1>4, <3>1, <3>3, FileKept, Zenon
    <3> QED BY <3>2, <3>3, Zenon
  <2> QED BY <2>1, Zenon DEF FilesAreOwned
<1>12. AnnouncedIsThere'
  BY <1>1, <1>2 DEF AnnouncedIsThere
<1> QED BY <1>7, <1>8, <1>9, <1>10, <1>11, <1>12, Zenon DEF Sound

\* A restart: what is on the disk is now from a daemon before this one.
LEMMA RestartStep ==
  ASSUME IInv, Restart
  PROVE  Sound'
<1>1. /\ incoming' = {} /\ UNCHANGED <<seq, target, part, files>>
      /\ \A id \in Ids : /\ job'[id].pc = "none" /\ reg'[id] = "none" /\ ended'[id] = 0
                         /\ shared'[id] = NoFile
  BY DEF Restart, RegistryLost, disk, Idle
<1>2. JobsAreSound'
  BY <1>1 DEF JobsAreSound
<1>3. OneVerdict'
  BY <1>1 DEF OneVerdict, Ended
<1>4. StagedBytes'
  BY <1>1, Zenon DEF StagedBytes
<1>5. PartsAreOwned'
  BY <1>1, FieldTypes, Zenon DEF IInv, PartsAreOwned
<1>6. FilesAreOwned'
  BY <1>1, FieldTypes, Zenon DEF IInv, FilesAreOwned
<1>7. AnnouncedIsThere'
  BY <1>1 DEF AnnouncedIsThere
<1> QED BY <1>2, <1>3, <1>4, <1>5, <1>6, <1>7 DEF Sound

-----------------------------------------------------------------------------
(* The invariant.                                                          *)

\* A daemon that has just started satisfies it.
LEMMA InitOk == Init => IInv
<1> SUFFICES ASSUME Init PROVE IInv
  OBVIOUS
<1>1. Idle \in Tasks /\ Idle.pc = "none"
  <2>1. AnyName \in Names
    BY IncomingAssumption, Zenon DEF AnyName
  <2> QED BY <2>1, IncomingAssumption DEF Idle, Tasks, Pcs, Copies
<1>2. TypeOK
  BY <1>1, MaxTransfersAssumption DEF Init, RegistryInit, TypeOK, RegistryType
<1>3. \A id \in Ids : job[id].pc = "none"
  BY <1>1, Zenon DEF Init
<1>4. JobsAreSound /\ OneVerdict
  BY <1>3, Zenon DEF Init, RegistryInit, JobsAreSound, OneVerdict, Ended
<1>5. StagedBytes /\ PartsAreOwned /\ FilesAreOwned /\ AnnouncedIsThere
  BY DEF Init, StagedBytes, PartsAreOwned, FilesAreOwned, AnnouncedIsThere
<1> QED BY <1>2, <1>4, <1>5 DEF IInv

\* Every step keeps it.
LEMMA StepOk == IInv /\ [Next]_vars => IInv'
<1> SUFFICES ASSUME IInv, [Next]_vars PROVE IInv'
  OBVIOUS
<1>1. TypeOK'
  BY TypeStep
<1>2. Sound'
  <2>1. CASE UNCHANGED vars \/ \E id \in Ids : Cancel(id)
    <3>1. UNCHANGED <<seq, reg, ended, target, job, incoming, received, disk, shared>>
      BY <2>1, Zenon DEF vars, registry, disk, Cancel, CancelTransfer
    <3> QED BY <3>1, NothingMoves
  <2>2. ASSUME NEW id \in Ids, Receive(id) PROVE Sound'
    BY <2>2, OpenStep, CheckCancelStep, ReceiveChunkStep, ReadStep, FinishStep,
       CopyIntoUriStep, OutcomeStep DEF Receive
  <2> QED BY <2>1, <2>2, SpawnReceiveStep, DialFailedStep, RestartStep, Zenon DEF Next
<1> QED BY <1>1, <1>2 DEF IInv, Sound

\* The inductive invariant holds of every behaviour of the receives.
LEMMA Invariance == Spec => []IInv
BY InitOk, StepOk, PTL DEF Spec

\* Every field of the registry, the tasks, the engine and the disk keeps its type.
THEOREM TypeCorrect == Spec => []TypeOK
<1>1. IInv => TypeOK
  BY DEF IInv
<1> QED BY <1>1, Invariance, PTL

\* The engine's table and the staging files agree: write_chunk counts what is in
\* the file, however many transfers write at once.
THEOREM StagedIsCounted == Spec => []StagedBytes
<1>1. IInv => StagedBytes
  BY DEF IInv
<1> QED BY <1>1, Invariance, PTL

\* Each transfer gets exactly one verdict, when the manager has handled the
\* outcome of its task, and is active until then.
THEOREM EachHasOneVerdict == Spec => []OneVerdict
<1>1. IInv => OneVerdict
  BY DEF IInv
<1> QED BY <1>1, Invariance, PTL

\* No failure, cancel or collision of names leaves a staging file: only a crash, or
\* a removal that the file system refuses (abort's remove_file, after the entry of
\* the transfer is gone).
THEOREM NoPartIsForgotten == Spec => []NoLeftoverPart
<1>1. IInv => NoLeftoverPart
  BY DEF IInv, PartsAreOwned, NoLeftoverPart
<1> QED BY <1>1, Invariance, PTL

\* A file under a final name is whole if the invariant holds.
LEMMA WholeFiles == IInv => FinishedIsWhole
<1> SUFFICES ASSUME IInv, NEW p \in Paths, files[p] # NoFile,
                    job[files[p].owner].pc # "none", job[files[p].owner].size # Unknown
             PROVE  files[p].len = job[files[p].owner].size
  BY DEF FinishedIsWhole
<1>1. files[p].owner \in Ids
  BY FieldTypes DEF IInv
<1>2. CASE reg[files[p].owner] # "none"
  BY <1>2 DEF IInv, FilesAreOwned
<1>3. CASE reg[files[p].owner] = "none"
  <2>1. job[files[p].owner].pc = "done"
    BY <1>1, <1>3, Zenon DEF IInv, OneVerdict
  <2> QED BY <1>1, <1>3, <2>1, Zenon DEF IInv, JobsAreSound, Ended
<1> QED BY <1>2, <1>3

\* A file under a final name has the length its peer announced.
THEOREM FinishedFilesAreWhole == Spec => []FinishedIsWhole
BY WholeFiles, Invariance, PTL

-----------------------------------------------------------------------------
(* What was delivered.                                                     *)

\* In a local directory a step takes away or replaces a finished file only if
\* every number of its name is taken.
LEMMA FilesStay ==
  ASSUME IInv, [Next]_vars, NEW p \in Paths, target = "local",
         files[p] # NoFile, files'[p] # files[p]
  PROVE  Untaken(p[1]) = {}
<1>1. PICK id \in Ids : Finish(id) \/ CopyIntoUri(id)
  BY Zenon DEF Next, vars, SpawnReceive, DialFailed, Cancel, Receive, Open, CheckCancel,
         ReceiveChunk, ReadEof, ReadFails, Outcome, Restart, disk
<1>2. ~CopyIntoUri(id)
  BY Zenon DEF CopyIntoUri, IInv, JobsAreSound
<1> DEFINE n == job[id].name
           k == FreeDestination(n)
<1>3. files' = [files EXCEPT ![<<n, k>>] = part[n]] \/ files' = files
  BY <1>1, <1>2, Zenon DEF Finish
<1>4. n \in Names
  BY FieldTypes, Zenon DEF IInv
<1>5. p = <<n, k>>
  BY <1>3, Zenon DEF IInv, TypeOK
<1>6. k \notin Untaken(n) /\ p[1] = n
  BY <1>5 DEF Untaken
<1> QED BY <1>4, <1>6, FreeDestinationIsFree, Zenon

\* What ShareReceived announced stays where it was announced, and no finished file
\* of a local directory is overwritten while a number of its name is free.
THEOREM DeliveredFilesStay == Spec => DeliveredStays
<1>1. IInv /\ [Next]_vars =>
        [/\ AnnouncedIsThere'
         /\ \A p \in Paths :
              (target = "local" /\ files[p] # NoFile /\ files'[p] # files[p])
                => Untaken(p[1]) = {}]_vars
  BY StepOk, FilesStay, Zenon DEF IInv
<1> QED BY <1>1, Invariance, PTL DEF Spec, DeliveredStays
=============================================================================
