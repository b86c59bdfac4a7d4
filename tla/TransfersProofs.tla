--------------------------- MODULE TransfersProofs ---------------------------
(***************************************************************************)
(* Proofs about the two directions of a transfer over one registry: what   *)
(* is proved of receives in IncomingProofs, and the sends of Outgoing.     *)
(***************************************************************************)
EXTENDS MCTransfers, IncomingProofs

\* Names do not run out of numbers while files wait to be copied into a URI.
Roomy == target = "uri" => \A n \in Names : Untaken(n) # {}

\* What a task copies into the URI is its own file, and what is there is from a
\* transfer that has not failed.
CopiesAreOwned ==
  /\ \A id \in Ids : job[id].pc = "copy" =>
       LET f == files[<<job[id].name, job[id].at>>]
       IN  f # NoFile /\ f.owner = id
  /\ \A p \in Paths : remote[p] # NoFile =>
       LET o == remote[p].owner
       IN  /\ o <= seq
           /\ reg[o] = "none" \/ (job[o].pc \in {"ok", "done"} /\ reg[o] # "failed")

\* A send in state pc has moved as many bytes as its place in stream_outgoing's loop
\* allows, as long as its source is the file that was measured.
SendIsSound(id) ==
  /\ job[id].pc \notin {"none", "done"} <=> reg[id] = "active"
  /\ id > seq => job[id].pc = "none" /\ reg[id] = "none"
  /\ job[id].pc = "none" => job[id].size = 0 /\ sent[id] = 0 /\ id \notin changed
  /\ job[id].pc \in {"accept", "tls"} => sent[id] = 0
  /\ id \notin changed =>
       /\ Out!Running(id) => len[id] = job[id].size
       /\ job[id].pc = "loop" => sent[id] <= job[id].size
       /\ job[id].pc = "write" => sent[id] + job[id].hand <= job[id].size
       /\ job[id].pc = "ok" \/ reg[id] = "finished" => sent[id] = job[id].size
  /\ ended[id] = IF reg[id] \in Ended THEN 1 ELSE 0

SendsAreSound == \A id \in Ids : SendIsSound(id)

\* The inductive invariant of the sends.
OutInv ==
  /\ Out!TypeOK
  /\ SendsAreSound
  /\ Out!TaskCleansUp
  /\ Out!FailedSendCleansUp

\* While files are sent nothing is received.
NothingReceived ==
  /\ incoming = {}
  /\ \A n \in Names : part[n] = NoFile
  /\ \A p \in Paths : files[p] = NoFile /\ remote[p] = NoFile
  /\ \A id \in Ids : shared[id] = NoFile

\* The inductive invariant.
MCInv ==
  \/ direction = "in" /\ IInv
  \/ direction = "out" /\ OutInv /\ NothingReceived

-----------------------------------------------------------------------------
(* Failed receives.                                                        *)

\* A step keeps each file waiting to be copied, as long as there are free numbers.
LEMMA CopiesStep ==
  ASSUME IInv, CopiesAreOwned, Roomy, [Next]_vars
  PROVE  CopiesAreOwned'
<1> DEFINE at(i) == <<job[i].name, job[i].at>>
<1>1. /\ \A i \in Ids : job[i].pc = "copy" => reg[i] = "active" /\ target = "uri"
      /\ \A i \in Ids : at(i) \in Paths
      /\ \A i \in Ids : i \in Nat
      /\ seq \in Nat
  BY FieldTypes DEF IInv, OneVerdict, JobsAreSound, Paths, Ids, TypeOK, RegistryType
<1>2. \A p \in Paths : remote[p] # NoFile => remote[p].owner \in Ids
  BY FieldTypes, Zenon DEF IInv
<1>3. CASE UNCHANGED vars
  BY <1>3, Zenon DEF CopiesAreOwned, vars, registry
<1>4. ASSUME NEW n \in Names, NEW size \in Sizes \cup {Unknown}, NEW payload \in BOOLEAN,
             SpawnReceive(n, size, payload)
      PROVE  CopiesAreOwned'
  <2>1. NewTransfer \in Ids /\ NewTransfer > seq
    BY <1>4, NewTransferIsNew, Zenon DEF IInv, SpawnReceive, Register
  <2>2. /\ seq' = NewTransfer /\ UNCHANGED <<files, remote>>
        /\ job'[NewTransfer].pc = "open"
        /\ \A i \in Ids : i # NewTransfer => job'[i] = job[i] /\ reg'[i] = reg[i]
    BY <1>4, <2>1, Zenon DEF SpawnReceive, Register, disk, IInv, TypeOK, RegistryType
  <2>3. \A o \in Ids : o <= seq => o <= seq' /\ o # NewTransfer
    BY <1>1, <2>1, <2>2
  <2> HIDE DEF at
  <2>4. ASSUME NEW p \in Paths, remote[p] # NoFile
        PROVE  LET o == remote[p].owner
               IN  /\ o <= seq'
                   /\ reg'[o] = "none" \/ (job'[o].pc \in {"ok", "done"} /\ reg'[o] # "failed")
    BY <1>2, <2>2, <2>3, <2>4, Zenon DEF CopiesAreOwned
  <2> QED BY <2>2, <2>4, Zenon DEF CopiesAreOwned
<1>5. CASE DialFailed
  <2>1. NewTransfer \in Ids /\ NewTransfer > seq
    BY <1>5, NewTransferIsNew, Zenon DEF IInv, DialFailed, RegisterEnded
  <2>2. /\ seq' = NewTransfer /\ UNCHANGED <<job, files, remote>>
        /\ \A i \in Ids : i # NewTransfer => reg'[i] = reg[i]
    BY <1>5, <2>1, Zenon DEF DialFailed, RegisterEnded, disk, IInv, TypeOK, RegistryType
  <2>3. \A o \in Ids : o <= seq => o <= seq' /\ o # NewTransfer
    BY <1>1, <2>1, <2>2
  <2> HIDE DEF at
  <2>4. ASSUME NEW p \in Paths, remote[p] # NoFile
        PROVE  LET o == remote[p].owner
               IN  /\ o <= seq'
                   /\ reg'[o] = "none" \/ (job'[o].pc \in {"ok", "done"} /\ reg'[o] # "failed")
    BY <1>2, <2>2, <2>3, <2>4, Zenon DEF CopiesAreOwned
  <2> QED BY <2>2, <2>4, Zenon DEF CopiesAreOwned
<1>6. ASSUME NEW id \in Ids, Cancel(id) PROVE CopiesAreOwned'
  BY <1>6, Zenon DEF CopiesAreOwned, Cancel, CancelTransfer, disk
<1>7. ASSUME NEW id \in Ids, NEW pc \in Pcs \ {"copy"}, Goto(id, pc),
             job[id].pc \in {"open", "loop", "read", "finish"},
             UNCHANGED <<seq, reg, files, remote>>
      PROVE  CopiesAreOwned'
  <2>1. \A i \in Ids : /\ job'[i].pc = IF i = id THEN pc ELSE job[i].pc
                       /\ job'[i].name = job[i].name
                       /\ job'[i].at = job[i].at
    BY <1>7, MoveFields, Zenon
  <2>2. reg[id] = "active"
    BY <1>7, Zenon DEF IInv, OneVerdict
  <2>3. \A p \in Paths : remote[p] # NoFile => remote[p].owner # id
    BY <1>7, <2>2 DEF CopiesAreOwned
  <2> QED BY <1>2, <1>7, <2>1, <2>3 DEF CopiesAreOwned
<1>8. ASSUME NEW id \in Ids, Open(id) \/ CheckCancel(id) \/ ReadEof(id) \/ ReadFails(id)
             \/ \E n \in 1 .. Chunk : ReceiveChunk(id, n)
      PROVE  CopiesAreOwned'
  <2>1. /\ job[id].pc \in {"open", "loop", "read", "finish"}
        /\ UNCHANGED <<seq, reg, files, remote>>
    BY <1>8, Zenon DEF Open, CheckCancel, ReadEof, ReadFails, ReceiveChunk, registry, disk
  <2>2. PICK pc \in Pcs \ {"copy"} : Goto(id, pc)
    BY <1>8, Zenon DEF Open, CheckCancel, ReadEof, ReadFails, ReceiveChunk, Pcs
  <2> QED BY <1>7, <2>1, <2>2, Zenon
<1>9. ASSUME NEW id \in Ids, Finish(id) PROVE CopiesAreOwned'
  <2> DEFINE n == job[id].name
             k == FreeDestination(n)
             pc == IF target = "uri" THEN "copy" ELSE "ok"
  <2>1. job[id].pc = "finish" /\ UNCHANGED <<seq, reg, target, remote>> /\ n \in Names
    BY <1>9, FieldTypes, Zenon DEF Finish, registry, IInv
  <2>2. CASE Goto(id, "err") /\ UNCHANGED files
    BY <1>7, <2>1, <2>2, Zenon DEF Pcs
  <2>3. CASE /\ files' = [files EXCEPT ![<<n, k>>] = part[n]]
             /\ job' = [job EXCEPT ![id].pc = pc, ![id].at = k]
    <3>1. k \in Copies /\ <<n, k>> \in Paths
      BY <2>1, FreeDestinationIsFree, Zenon DEF Paths
    <3>2. target = "uri" => files[<<n, k>>] = NoFile
      BY <2>1, FreeDestinationIsFree, Zenon DEF Roomy, Untaken
    <3>3. part[n] # NoFile /\ part[n].owner = id
      BY <2>1 DEF IInv, JobsAreSound, StagedBytes
    <3>4. pc \in Pcs /\ (pc = "copy" => target = "uri")
      BY DEF Pcs
    <3> HIDE DEF k, pc
    <3>5. FinishAs(id, pc, k)
      BY <2>3, Zenon DEF FinishAs
    <3>6. \A i \in Ids : /\ job'[i].pc = IF i = id THEN pc ELSE job[i].pc
                         /\ job'[i].name = job[i].name
                         /\ job'[i].at = IF i = id THEN k ELSE job[i].at
      BY <3>1, <3>4, <3>5, FinishedFields DEF IInv
    <3>7. /\ files'[<<n, k>>] = part[n]
          /\ \A p \in Paths : p # <<n, k>> => files'[p] = files[p]
      BY <2>3, <3>1, Zenon DEF IInv, TypeOK
    <3>8. \A i \in Ids : i # id /\ job[i].pc = "copy" => at(i) # <<n, k>>
      BY <1>1, <3>2, Zenon DEF CopiesAreOwned
    <3>9. reg[id] = "active"
      BY <2>1, Zenon DEF IInv, OneVerdict
    <3>10. \A p \in Paths : remote[p] # NoFile => remote[p].owner # id
      BY <2>1, <3>9, Zenon DEF CopiesAreOwned
    <3>11. ASSUME NEW i \in Ids, job'[i].pc = "copy"
           PROVE  LET f == files'[<<job'[i].name, job'[i].at>>]
                  IN  f # NoFile /\ f.owner = i
      BY <1>1, <3>3, <3>6, <3>7, <3>8, <3>11 DEF CopiesAreOwned
    <3> HIDE DEF n, at
    <3> QED BY <1>2, <2>1, <3>6, <3>10, <3>11, Zenon DEF CopiesAreOwned
  <2> QED BY <1>9, <2>2, <2>3, Zenon DEF Finish
<1>10. ASSUME NEW id \in Ids, CopyIntoUri(id) PROVE CopiesAreOwned'
  <2>1. /\ job[id].pc = "copy" /\ UNCHANGED <<seq, reg>>
        /\ files' = [files EXCEPT ![at(id)] = NoFile] \/ files' = files
        /\ \/ remote' = [remote EXCEPT ![at(id)] = files[at(id)]] /\ Goto(id, "ok")
           \/ remote' = remote /\ Goto(id, "err")
    BY <1>10, Zenon DEF CopyIntoUri, DropStaged, registry
  <2>2. PICK pc \in {"ok", "err"} : Goto(id, pc) /\ (remote' # remote => pc = "ok")
    BY <2>1, Zenon
  <2>3. \A i \in Ids : /\ job'[i].pc = IF i = id THEN pc ELSE job[i].pc
                       /\ job'[i].name = job[i].name
                       /\ job'[i].at = job[i].at
    BY <2>2, MoveFields DEF Pcs
  <2>4. reg[id] = "active" /\ files[at(id)] # NoFile /\ files[at(id)].owner = id
    BY <1>1, <2>1, Zenon DEF CopiesAreOwned
  <2>5. id <= seq
    BY <1>1, <2>4 DEF IInv, JobsAreSound
  <2>6. \A i \in Ids : i # id /\ job[i].pc = "copy" => at(i) # at(id)
    BY <2>4, Zenon DEF CopiesAreOwned
  <2>7. \A p \in Paths : p # at(id) => files'[p] = files[p]
    BY <1>1, <2>1, Zenon DEF IInv, TypeOK
  <2>8. \A p \in Paths : \/ remote'[p] = remote[p]
                         \/ remote'[p] = files[at(id)] /\ pc = "ok"
    BY <1>1, <2>1, <2>2, Zenon DEF IInv, TypeOK
  <2>9. \A p \in Paths : remote[p] # NoFile => remote[p].owner # id
    BY <2>1, <2>4, Zenon DEF CopiesAreOwned
  <2>10. ASSUME NEW i \in Ids, job'[i].pc = "copy"
         PROVE  LET f == files'[<<job'[i].name, job'[i].at>>]
                IN  f # NoFile /\ f.owner = i
    BY <1>1, <2>3, <2>6, <2>7, <2>10 DEF CopiesAreOwned
  <2> HIDE DEF at
  <2>11. ASSUME NEW p \in Paths, remote'[p] # NoFile
         PROVE  LET o == remote'[p].owner
                IN  /\ o <= seq'
                    /\ reg'[o] = "none" \/ (job'[o].pc \in {"ok", "done"} /\ reg'[o] # "failed")
    BY <1>2, <2>1, <2>3, <2>4, <2>5, <2>8, <2>9, <2>11 DEF CopiesAreOwned
  <2> QED BY <2>10, <2>11, Zenon DEF CopiesAreOwned
<1>11. ASSUME NEW id \in Ids, Outcome(id) PROVE CopiesAreOwned'
  <2>1. /\ Goto(id, "done") /\ UNCHANGED <<seq, files, remote>>
        /\ \/ job[id].pc = "ok" /\ reg' = [reg EXCEPT ![id] = "finished"]
           \/ job[id].pc = "err" /\ reg' = [reg EXCEPT ![id] = "failed"]
    BY <1>11, Zenon DEF Outcome, Conclude
  <2>2. \A i \in Ids : /\ job'[i].pc = IF i = id THEN "done" ELSE job[i].pc
                       /\ job'[i].name = job[i].name
                       /\ job'[i].at = job[i].at
    BY <2>1, MoveFields DEF Pcs
  <2>3. reg[id] = "active"
    BY <2>1, Zenon DEF IInv, OneVerdict
  <2>4. /\ \A i \in Ids : i # id => reg'[i] = reg[i]
        /\ job[id].pc = "ok" => reg'[id] = "finished"
    BY <2>1, Zenon DEF IInv, TypeOK, RegistryType
  <2>5. \A p \in Paths : remote[p] # NoFile /\ remote[p].owner = id => job[id].pc = "ok"
    BY <2>1, <2>3 DEF CopiesAreOwned
  <2> QED BY <1>2, <2>1, <2>2, <2>4, <2>5 DEF CopiesAreOwned
<1>12. CASE Restart
  BY <1>2, <1>12, Zenon DEF Restart, RegistryLost, disk, Idle, CopiesAreOwned
<1> QED BY <1>3, <1>4, <1>5, <1>6, <1>8, <1>9, <1>10, <1>11, <1>12, Zenon DEF Next, Receive

\* At the start no file waits to be copied.
LEMMA InitialCopies == Init => CopiesAreOwned
<1>1. Idle.pc = "none"
  BY Zenon DEF Idle
<1> QED BY <1>1, Zenon DEF Init, CopiesAreOwned

\* Where everything has its owner, a failed transfer has left nothing but what could
\* not be removed.
LEMMA LeavesNothing == IInv /\ CopiesAreOwned => NoLeftoverPart /\ FailedLeavesNothing
<1> SUFFICES ASSUME IInv, CopiesAreOwned PROVE NoLeftoverPart /\ FailedLeavesNothing
  OBVIOUS
<1>1. NoLeftoverPart
  BY Zenon DEF IInv, PartsAreOwned, NoLeftoverPart
<1>2. \A n \in Names : part[n] # NoFile =>
        reg[part[n].owner] # "failed" \/ part[n].owner \in unremoved
  <2>1. \A id \in incoming : reg[id] # "failed"
    BY DEF IInv, OneVerdict, JobsAreSound, TypeOK
  <2> QED BY <2>1 DEF IInv, PartsAreOwned
<1>3. \A p \in Paths : files[p] # NoFile =>
        reg[files[p].owner] # "failed" \/ files[p].owner \in unremoved
  BY DEF IInv, FilesAreOwned
<1>4. \A p \in Paths : remote[p] # NoFile => reg[remote[p].owner] # "failed"
  BY DEF CopiesAreOwned
<1> QED BY <1>1, <1>2, <1>3, <1>4 DEF FailedLeavesNothing

\* A transfer reported as failed leaves no file in the URI target, and no staging
\* file and no file under a final name but one that the file system refused to remove
\* (abort, move_into_uri), for as long as free_destination finds a free number for the
\* files waiting to be copied there.
THEOREM FailuresLeaveNothing == Spec /\ []Roomy => []FailedLeavesNothing
<1>1. IInv /\ CopiesAreOwned /\ Roomy /\ [Next]_vars => CopiesAreOwned'
  BY CopiesStep
<1>2. IInv /\ CopiesAreOwned => FailedLeavesNothing
  BY LeavesNothing
<1> QED BY <1>1, <1>2, InitialCopies, Invariance, PTL DEF Spec

-----------------------------------------------------------------------------
(* Sends.                                                                  *)

\* Outgoing and Incoming share the registry.
LEMMA OneRegistry ==
  /\ Out!Ids = Ids /\ Out!Ended = Ended /\ Out!NewTransfer = NewTransfer
  /\ Out!RegistryType <=> RegistryType
BY DEF Out!Ids, Ids, Out!Ended, Ended, Out!NewTransfer, NewTransfer,
       Out!RegistryType, RegistryType

\* A field of a send has the type its record gives it.
LEMMA SendTypes ==
  ASSUME Out!TypeOK
  PROVE  /\ \A id \in Ids : /\ job[id].pc \in Out!Pcs
                            /\ job[id].size \in Nat
                            /\ job[id].hand \in Nat
         /\ job \in [Ids -> Out!Tasks] /\ len \in [Ids -> 0 .. MaxLen]
         /\ sent \in [Ids -> Nat] /\ changed \subseteq Ids /\ temps \subseteq Ids
         /\ unremoved \subseteq Ids
         /\ RegistryType /\ seq \in Nat /\ \A id \in Ids : id \in Nat
<1>1. \A t \in Out!Tasks : t.pc \in Out!Pcs /\ t.size \in Nat /\ t.hand \in Nat
  BY SourcesAssumption, IncomingAssumption DEF Out!Tasks
<1>2. /\ job \in [Ids -> Out!Tasks] /\ len \in [Ids -> 0 .. MaxLen]
      /\ sent \in [Ids -> Nat] /\ changed \subseteq Ids /\ temps \subseteq Ids
      /\ unremoved \subseteq Ids /\ RegistryType
  BY OneRegistry DEF Out!TypeOK
<1>3. seq \in Nat /\ \A id \in Ids : id \in Nat
  BY <1>2, MaxTransfersAssumption DEF RegistryType, Ids
<1> QED BY <1>1, <1>2, <1>3

\* A send of which nothing changes stays sound while others are added.
LEMMA SendKept ==
  ASSUME NEW id \in Ids, SendIsSound(id), id > seq' => id > seq,
         job'[id].pc = job[id].pc, job'[id].size = job[id].size,
         job'[id].hand = job[id].hand, reg'[id] = reg[id], ended'[id] = ended[id],
         sent'[id] = sent[id], len'[id] = len[id], id \in changed' <=> id \in changed
  PROVE  SendIsSound(id)'
BY DEF SendIsSound, Out!Running

\* A task that moves on keeps what it was spawned with.
LEMMA SendMovesOn ==
  ASSUME Out!TypeOK, NEW id \in Ids, NEW pc \in Out!Pcs, Out!Goto(id, pc)
  PROVE  /\ job' \in [Ids -> Out!Tasks]
         /\ \A i \in Ids : /\ job'[i].pc = IF i = id THEN pc ELSE job[i].pc
                           /\ job'[i].size = job[i].size
                           /\ job'[i].hand = job[i].hand
<1>1. \A t \in Out!Tasks, x \in Out!Pcs : /\ [t EXCEPT !.pc = x] \in Out!Tasks
                                          /\ [t EXCEPT !.pc = x].pc = x
                                          /\ [t EXCEPT !.pc = x].size = t.size
                                          /\ [t EXCEPT !.pc = x].hand = t.hand
  BY DEF Out!Tasks
<1>2. job \in [Ids -> Out!Tasks]
  BY SendTypes
<1>3. job' = [job EXCEPT ![id] = [job[id] EXCEPT !.pc = pc]]
  BY DEF Out!Goto
<1> QED BY <1>1, <1>2, <1>3

\* A chunk has been read.
TakeInHand(id, n) == job' = [job EXCEPT ![id].pc = "write", ![id].hand = n]

\* A task that has read a chunk keeps what it was spawned with.
LEMMA SendReads ==
  ASSUME Out!TypeOK, NEW id \in Ids, NEW n \in 1 .. Chunk, TakeInHand(id, n)
  PROVE  /\ job' \in [Ids -> Out!Tasks]
         /\ \A i \in Ids : /\ job'[i].pc = IF i = id THEN "write" ELSE job[i].pc
                           /\ job'[i].size = job[i].size
                           /\ job'[i].hand = IF i = id THEN n ELSE job[i].hand
<1> DEFINE t == [job[id] EXCEPT !.pc = "write", !.hand = n]
<1>1. n \in 0 .. Chunk
  BY IncomingAssumption
<1>2. \A r \in Out!Tasks, x \in 0 .. Chunk :
        /\ [r EXCEPT !.pc = "write", !.hand = x] \in Out!Tasks
        /\ [r EXCEPT !.pc = "write", !.hand = x].pc = "write"
        /\ [r EXCEPT !.pc = "write", !.hand = x].size = r.size
        /\ [r EXCEPT !.pc = "write", !.hand = x].hand = x
  BY DEF Out!Tasks, Out!Pcs
<1>3. job \in [Ids -> Out!Tasks]
  BY SendTypes
<1>4. t \in Out!Tasks /\ t.pc = "write" /\ t.size = job[id].size /\ t.hand = n
  BY <1>1, <1>2, <1>3
<1>5. job' = [job EXCEPT ![id] = t]
  BY DEF TakeInHand
<1> HIDE DEF t
<1> QED BY <1>3, <1>4, <1>5

\* send_file, of an empty file or of another: the identifier is new.
LEMMA SendStarts ==
  ASSUME OutInv, NEW temp \in BOOLEAN,
         \/ Out!SendEmpty(temp)
         \/ \E size \in SourceSizes : Out!SendFile(size, temp)
  PROVE  OutInv'
<1>1. Out!TypeOK /\ SendsAreSound /\ Out!TaskCleansUp /\ Out!FailedSendCleansUp
  BY DEF OutInv
<1>0. PICK new \in Nat : new = NewTransfer
  BY <1>1, SendTypes DEF NewTransfer
<1>2. /\ seq < MaxTransfers /\ seq' = new /\ new = seq + 1
      /\ UNCHANGED <<cancel, changed, sent, orphans, unremoved>>
      /\ temps' = IF temp THEN temps \cup {new} ELSE temps
  BY <1>0, OneRegistry DEF Out!SendEmpty, Out!SendFile, Out!RegisterEnded, Out!Register,
                     Out!task, NewTransfer
<1>3. new \in Ids /\ new \in 0 .. MaxTransfers /\ new > seq /\ \A i \in Ids : i > seq' => i > seq
  BY <1>1, <1>2, SendTypes, MaxTransfersAssumption DEF RegistryType, Ids
<1>4. /\ job[new].pc = "none" /\ reg[new] = "none" /\ job[new].size = 0 /\ sent[new] = 0
      /\ new \notin changed /\ ended[new] = 0
  BY <1>1, <1>3 DEF SendsAreSound, SendIsSound, Ended
<1>5. /\ job \in [Ids -> Out!Tasks] /\ len \in [Ids -> 0 .. MaxLen] /\ RegistryType
      /\ sent \in [Ids -> Nat] /\ changed \subseteq Ids /\ temps \subseteq Ids
  BY <1>1, SendTypes
<1>6. \A i \in Ids \ {new} :
        /\ SendIsSound(i)
        /\ i \in temps' <=> i \in temps
  BY <1>1, <1>2 DEF SendsAreSound
<1>7. /\ unremoved' \subseteq Ids
      /\ orphans' \subseteq Out!Failures \cup {"unremoved"}
  BY <1>1, <1>2, SendTypes DEF Out!TypeOK
<1>8. Out!FailedSendCleansUp'
  BY <1>1, <1>2, Zenon DEF Out!FailedSendCleansUp
<1>9. CASE Out!SendEmpty(temp)
  <2>1. /\ reg' = [reg EXCEPT ![new] = "finished"]
        /\ ended' = [ended EXCEPT ![new] = @ + 1]
        /\ job' = job /\ len' = len
    BY <1>0, <1>9, OneRegistry DEF Out!SendEmpty, Out!RegisterEnded, Out!task
  <2>2. RegistryType'
    BY <1>2, <1>3, <1>5, <2>1 DEF RegistryType, Ended
  <2>3. Out!TypeOK'
    <3>1. temps' \subseteq Ids
      BY <1>2, <1>3, <1>5
    <3> QED BY <1>2, <1>5, <1>7, <2>1, <2>2, <3>1
            DEF Out!TypeOK, Out!RegistryType, RegistryType, Out!Ids, Ids, Out!Ended, Ended
  <2>4. /\ reg'[new] = "finished" /\ ended'[new] = 1
        /\ \A i \in Ids \ {new} : reg'[i] = reg[i] /\ ended'[i] = ended[i]
    BY <1>3, <1>4, <1>5, <2>1 DEF RegistryType
  <2>5. SendsAreSound'
    <3>1. SendIsSound(new)'
      <4>1. ~(new > seq')
        BY <1>2, <1>3, <1>5 DEF RegistryType
      <4> QED BY <1>2, <1>4, <2>1, <2>4, <4>1 DEF SendIsSound, Out!Running, Ended
    <3>2. \A i \in Ids \ {new} : SendIsSound(i)'
      BY <1>2, <1>3, <1>6, <2>1, <2>4, SendKept
    <3> QED BY <3>1, <3>2 DEF SendsAreSound
  <2>6. Out!TaskCleansUp'
    BY <1>1, <1>2, <1>4, <1>6, <2>1, <2>4, OneRegistry DEF Out!TaskCleansUp, Out!Running
  <2> QED BY <1>8, <2>3, <2>5, <2>6 DEF OutInv
<1>10. ASSUME NEW size \in SourceSizes, Out!SendFile(size, temp) PROVE OutInv'
  <2> DEFINE t == [pc |-> "accept", size |-> size, temp |-> temp, hand |-> 0]
  <2>1. /\ size > 0
        /\ reg' = [reg EXCEPT ![new] = "active"]
        /\ ended' = ended
        /\ job' = [job EXCEPT ![new] = t]
        /\ len' = [len EXCEPT ![new] = size]
    BY <1>0, <1>10, OneRegistry DEF Out!SendFile, Out!Register
  <2>2. t \in Out!Tasks /\ size \in 0 .. MaxLen
    BY SourcesAssumption, IncomingAssumption DEF Out!Tasks, Out!Pcs
  <2>3. t.pc = "accept" /\ t.size = size
    OBVIOUS
  <2> HIDE DEF t
  <2>4. /\ reg'[new] = "active" /\ job'[new] = t /\ len'[new] = size
        /\ \A i \in Ids \ {new} : reg'[i] = reg[i] /\ job'[i] = job[i] /\ len'[i] = len[i]
        /\ job' \in [Ids -> Out!Tasks] /\ len' \in [Ids -> 0 .. MaxLen]
    BY <1>3, <1>5, <2>1, <2>2 DEF RegistryType
  <2>5. RegistryType'
    BY <1>2, <1>3, <1>5, <2>1 DEF RegistryType, Ended
  <2>6. Out!TypeOK'
    <3>1. temps' \subseteq Ids
      BY <1>2, <1>3, <1>5
    <3> QED BY <1>2, <1>5, <1>7, <2>4, <2>5, <3>1
            DEF Out!TypeOK, Out!RegistryType, RegistryType, Out!Ids, Ids, Out!Ended, Ended
  <2>7. SendsAreSound'
    <3>1. SendIsSound(new)'
      <4>1. ~(new > seq')
        BY <1>2, <1>3, <1>5 DEF RegistryType
      <4> QED BY <1>2, <1>4, <2>1, <2>3, <2>4, <4>1 DEF SendIsSound, Out!Running, Ended
    <3>2. \A i \in Ids \ {new} : SendIsSound(i)'
      BY <1>2, <1>3, <1>6, <2>1, <2>4, SendKept
    <3> QED BY <3>1, <3>2 DEF SendsAreSound
  <2>8. Out!TaskCleansUp'
    <3>1. Out!Running(new)'
      BY <2>3, <2>4 DEF Out!Running
    <3>2. \A i \in temps' : i # new =>
            i \in temps /\ i \in Ids /\ job'[i] = job[i] /\ reg'[i] = reg[i]
      BY <1>2, <1>5, <2>4, Zenon
    <3>3. ASSUME NEW i \in temps', i # new
          PROVE  \/ Out!Running(i)' \/ i \in unremoved'
                 \/ reg'[i] = "finished" /\ job'[i].pc = "none"
      <4>1. i \in temps /\ job'[i] = job[i] /\ reg'[i] = reg[i] /\ unremoved' = unremoved
        BY <1>2, <3>2, <3>3, Zenon
      <4>2. Out!Running(i) \/ i \in unremoved \/ (reg[i] = "finished" /\ job[i].pc = "none")
        BY <1>1, <4>1, Zenon DEF Out!TaskCleansUp
      <4> QED BY <4>1, <4>2, Zenon DEF Out!Running
    <3> QED BY <3>1, <3>3, Zenon DEF Out!TaskCleansUp
  <2> QED BY <1>8, <2>6, <2>7, <2>8 DEF OutInv
<1> QED BY <1>9, <1>10

\* send_file fails: a number is used up, and its copy may be left.
LEMMA SendFailsStep ==
  ASSUME OutInv, NEW at \in Out!Failures, Out!SendFails(at)
  PROVE  OutInv'
<1>1. Out!TypeOK /\ SendsAreSound /\ Out!TaskCleansUp /\ Out!FailedSendCleansUp
  BY DEF OutInv
<1>2. /\ seq < MaxTransfers /\ seq' = seq + 1
      /\ UNCHANGED <<reg, cancel, ended, job, len, changed, sent, temps, unremoved>>
  BY OneRegistry DEF Out!SendFails, Out!task, NewTransfer
<1>3. /\ orphans' \subseteq orphans \cup {at, "unremoved"}
      /\ at \in orphans' => at \in orphans \/ ~Out!Swept(at)
  BY Zenon DEF Out!SendFails, Out!Swept, Out!Failures
<1>4. Out!TypeOK'
  <2>1. seq' \in 0 .. MaxTransfers
    BY <1>1, <1>2, SendTypes, MaxTransfersAssumption
  <2>2. orphans' \subseteq Out!Failures \cup {"unremoved"}
    BY <1>1, <1>3, Zenon DEF Out!TypeOK
  <2> QED BY <1>1, <1>2, <2>1, <2>2 DEF Out!TypeOK, Out!RegistryType
<1>5. SendsAreSound'
  <2>1. \A i \in Ids : i > seq' => i > seq
    BY <1>1, <1>2, SendTypes
  <2> QED BY <1>1, <1>2, <2>1, SendKept, Zenon DEF SendsAreSound
<1>6. Out!TaskCleansUp'
  BY <1>1, <1>2, Zenon DEF Out!TaskCleansUp, Out!Running
<1>7. Out!FailedSendCleansUp'
  BY <1>1, <1>3, Zenon DEF Out!FailedSendCleansUp, Out!Swept, Out!Failures
<1> QED BY <1>4, <1>5, <1>6, <1>7 DEF OutInv

\* A step of one task touches no other transfer.
LEMMA OneTaskMoves ==
  ASSUME OutInv, NEW id \in Ids,
         RegistryType', seq' = seq, len' = len, changed' = changed,
         job' \in [Ids -> Out!Tasks], sent' \in [Ids -> Nat], temps' \subseteq temps,
         \A i \in Ids \ {id} :
           /\ job'[i].pc = job[i].pc /\ job'[i].size = job[i].size /\ job'[i].hand = job[i].hand
           /\ reg'[i] = reg[i] /\ ended'[i] = ended[i] /\ sent'[i] = sent[i],
         SendIsSound(id)',
         orphans' = orphans, unremoved \subseteq unremoved', unremoved' \subseteq Ids,
         job'[id].pc # "none",
         job'[id].pc \in {"ok", "err", "done"} => id \notin temps' \/ id \in unremoved'
  PROVE  OutInv'
<1>1. Out!TypeOK /\ SendsAreSound /\ Out!TaskCleansUp /\ Out!FailedSendCleansUp
  BY DEF OutInv
<1>2. Out!TypeOK'
  BY <1>1 DEF Out!TypeOK, Out!RegistryType, RegistryType, Out!Ids, Ids, Out!Ended, Ended
<1>3. SendsAreSound'
  <2>1. \A i \in Ids \ {id} : SendIsSound(i)'
    BY <1>1, SendKept DEF SendsAreSound
  <2> QED BY <2>1 DEF SendsAreSound
<1>4. Out!TaskCleansUp'
  <2>1. ASSUME NEW i \in temps'
        PROVE  \/ Out!Running(i)' \/ i \in unremoved'
               \/ reg'[i] = "finished" /\ job'[i].pc = "none"
    <3>1. i \in temps /\ i \in Ids
      BY <1>1, SendTypes, Zenon
    <3>2. CASE i = id
      <4>1. job'[id].pc \in Out!Pcs
        BY DEF Out!Tasks
      <4> QED BY <1>1, <3>1, <3>2, <4>1 DEF Out!TaskCleansUp, Out!Running, Out!Pcs
    <3>3. CASE i # id
      BY <1>1, <3>1, <3>3, Zenon DEF Out!TaskCleansUp, Out!Running
    <3> QED BY <3>2, <3>3
  <2> QED BY <2>1, Zenon DEF Out!TaskCleansUp
<1>5. Out!FailedSendCleansUp'
  BY <1>1, Zenon DEF Out!FailedSendCleansUp
<1> QED BY <1>2, <1>3, <1>4, <1>5 DEF OutInv

\* A task that leaves stream_outgoing removes its temporary file, if it can be
\* removed, and no other.
LEMMA LeaveFields ==
  ASSUME Out!TypeOK, NEW id \in Ids, NEW pc \in {"ok", "err"}, Out!Leave(id, pc)
  PROVE  /\ Out!Goto(id, pc) /\ orphans' = orphans /\ temps' \subseteq temps
         /\ unremoved \subseteq unremoved' /\ unremoved' \subseteq Ids
         /\ id \notin temps' \/ id \in unremoved'
<1>1. unremoved \subseteq Ids
  BY SendTypes
<1> QED BY <1>1, Zenon DEF Out!Leave

\* A task that leaves stream_outgoing, or goes on in it, without a chunk written.
LEMMA SendMovesOnStep ==
  ASSUME OutInv, NEW id \in Ids, NEW pc \in {"tls", "loop", "ok", "err"}, Out!Goto(id, pc),
         Out!Running(id),
         orphans' = orphans, temps' \subseteq temps,
         unremoved \subseteq unremoved', unremoved' \subseteq Ids,
         pc \in {"ok", "err"} => id \notin temps' \/ id \in unremoved',
         pc = "tls" => job[id].pc = "accept",
         pc = "loop" => job[id].pc = "tls",
         pc = "ok" => job[id].pc = "loop" /\ sent[id] >= len[id],
         UNCHANGED <<registry, len, changed, sent>>
  PROVE  OutInv'
<1>1. Out!TypeOK /\ SendIsSound(id)
  BY DEF OutInv, SendsAreSound
<1>2. pc \in Out!Pcs
  BY DEF Out!Pcs
<1>3. /\ job' \in [Ids -> Out!Tasks]
      /\ \A i \in Ids : /\ job'[i].pc = IF i = id THEN pc ELSE job[i].pc
                        /\ job'[i].size = job[i].size
                        /\ job'[i].hand = job[i].hand
  BY <1>1, <1>2, SendMovesOn
<1>4. /\ RegistryType' /\ sent' \in [Ids -> Nat] /\ sent[id] \in Nat /\ job[id].size \in Nat
      /\ seq' = seq /\ reg' = reg /\ ended' = ended
  BY <1>1, SendTypes DEF registry, RegistryType
<1>5. reg[id] = "active"
  BY <1>1 DEF SendIsSound, Out!Running
<1>6. pc = "ok" /\ id \notin changed => sent[id] = job[id].size
  BY <1>1, <1>4 DEF SendIsSound, Out!Running
<1>7. SendIsSound(id)'
  BY <1>1, <1>3, <1>4, <1>5, <1>6 DEF SendIsSound, Out!Running
<1>8. /\ job'[id].pc # "none"
      /\ job'[id].pc \in {"ok", "err", "done"} => id \notin temps' \/ id \in unremoved'
  BY <1>3
<1> QED BY <1>3, <1>4, <1>7, <1>8, OneTaskMoves

\* The receiver dials or does not, the handshake ends or fails, the file cannot be
\* read any more.
LEMMA SendWaitsStep ==
  ASSUME OutInv, NEW id \in Ids,
         \/ Out!Dialled(id) \/ Out!AcceptTimesOut(id) \/ Out!Handshaken(id)
         \/ Out!Disconnected(id) \/ Out!ReadFails(id)
  PROVE  OutInv'
<1>1. UNCHANGED <<registry, len, changed, sent>> /\ Out!Running(id)
  BY DEF Out!Dialled, Out!AcceptTimesOut, Out!Handshaken, Out!Disconnected, Out!ReadFails,
         Out!registry, registry, Out!Running
<1>0. Out!TypeOK /\ unremoved \subseteq Ids
  BY SendTypes DEF OutInv
<1>2. CASE Out!Dialled(id)
  BY <1>0, <1>1, <1>2, SendMovesOnStep DEF Out!Dialled, Out!copies
<1>3. CASE Out!Handshaken(id)
  BY <1>0, <1>1, <1>3, SendMovesOnStep DEF Out!Handshaken, Out!copies
<1>4. CASE Out!AcceptTimesOut(id) \/ Out!Disconnected(id) \/ Out!ReadFails(id)
  <2>1. Out!Leave(id, "err")
    BY <1>4, Zenon DEF Out!AcceptTimesOut, Out!Disconnected, Out!ReadFails
  <2> QED BY <1>0, <1>1, <2>1, LeaveFields, SendMovesOnStep
<1> QED BY <1>2, <1>3, <1>4

\* The read of the loop: cancelled, at the end of the file, or a chunk in hand.
LEMMA ReadSourceStep ==
  ASSUME OutInv, NEW id \in Ids, Out!ReadSource(id)
  PROVE  OutInv'
<1>1. UNCHANGED <<registry, len, changed, sent>> /\ Out!Running(id) /\ job[id].pc = "loop"
  BY DEF Out!ReadSource, Out!registry, registry, Out!Running
<1>0. Out!TypeOK /\ unremoved \subseteq Ids
  BY SendTypes DEF OutInv
<1>2. CASE Out!Leave(id, "err")
  BY <1>0, <1>1, <1>2, LeaveFields, SendMovesOnStep
<1>3. CASE sent[id] >= len[id] /\ Out!Leave(id, "ok")
  BY <1>0, <1>1, <1>3, LeaveFields, SendMovesOnStep
<1>4. ASSUME NEW n \in 1 .. Chunk, sent[id] + n <= len[id],
             UNCHANGED <<temps, orphans, unremoved>>,
             job' = [job EXCEPT ![id].pc = "write", ![id].hand = n]
      PROVE  OutInv'
  <2>1. Out!TypeOK /\ SendIsSound(id)
    BY DEF OutInv, SendsAreSound
  <2>2. /\ job' \in [Ids -> Out!Tasks]
        /\ \A i \in Ids : /\ job'[i].pc = IF i = id THEN "write" ELSE job[i].pc
                          /\ job'[i].size = job[i].size
                          /\ job'[i].hand = IF i = id THEN n ELSE job[i].hand
    BY <1>4, <2>1, SendReads DEF TakeInHand
  <2>3. /\ RegistryType' /\ sent' \in [Ids -> Nat] /\ sent[id] \in Nat /\ job[id].size \in Nat
        /\ seq' = seq /\ reg' = reg /\ ended' = ended
    BY <1>1, <2>1, SendTypes DEF registry, RegistryType
  <2>4. reg[id] = "active"
    BY <1>1, <2>1 DEF SendIsSound
  <2>5. SendIsSound(id)'
    BY <1>1, <1>4, <2>1, <2>2, <2>3, <2>4 DEF SendIsSound, Out!Running
  <2> QED BY <1>0, <1>1, <1>4, <2>2, <2>3, <2>5, OneTaskMoves
<1> QED BY <1>2, <1>3, <1>4 DEF Out!ReadSource, Out!copies

\* A chunk written: the send is over when the announced number of bytes is.
LEMMA WrittenStep ==
  ASSUME OutInv, NEW id \in Ids, Out!Written(id)
  PROVE  OutInv'
<1> DEFINE moved == sent[id] + job[id].hand
<1>1. Out!TypeOK /\ SendIsSound(id) /\ job[id].pc = "write"
  BY DEF OutInv, SendsAreSound, Out!Written
<1>2. /\ UNCHANGED <<seq, reg, cancel, ended, len, changed>>
      /\ sent' = [sent EXCEPT ![id] = moved]
  BY DEF Out!Written, Out!registry
<1>3. PICK pc \in {"ok", "loop"} :
        /\ Out!Goto(id, pc)
        /\ pc = "ok" <=> moved >= job[id].size
        /\ orphans' = orphans /\ temps' \subseteq temps
        /\ unremoved \subseteq unremoved' /\ unremoved' \subseteq Ids
        /\ pc = "ok" => id \notin temps' \/ id \in unremoved'
  <2>1. unremoved \subseteq Ids
    BY <1>1, SendTypes
  <2>2. CASE moved >= job[id].size /\ Out!Leave(id, "ok")
    BY <1>1, <2>2, LeaveFields
  <2>3. CASE ~(moved >= job[id].size) /\ Out!Goto(id, "loop")
             /\ UNCHANGED <<temps, orphans, unremoved>>
    BY <2>1, <2>3
  <2> QED BY <2>2, <2>3 DEF Out!Written, Out!AllSent, Out!copies
<1>4. /\ job' \in [Ids -> Out!Tasks]
      /\ \A i \in Ids : /\ job'[i].pc = IF i = id THEN pc ELSE job[i].pc
                        /\ job'[i].size = job[i].size
                        /\ job'[i].hand = job[i].hand
  BY <1>1, <1>3, SendMovesOn DEF Out!Pcs
<1>5. /\ RegistryType' /\ sent[id] \in Nat /\ job[id].size \in Nat /\ job[id].hand \in Nat
      /\ sent \in [Ids -> Nat]
  BY <1>1, <1>2, SendTypes DEF RegistryType
<1>6. reg[id] = "active"
  BY <1>1 DEF SendIsSound
<1>7. id \notin changed => moved <= job[id].size
  BY <1>1 DEF SendIsSound
<1>8. moved \in Nat
  BY <1>5
<1> HIDE DEF moved
<1>9. /\ sent' \in [Ids -> Nat] /\ sent'[id] = moved
      /\ \A i \in Ids \ {id} : sent'[i] = sent[i]
  BY <1>2, <1>5, <1>8
<1>10. pc = "ok" /\ id \notin changed => moved = job[id].size
  BY <1>3, <1>5, <1>7, <1>8
<1>11. SendIsSound(id)'
  BY <1>1, <1>2, <1>3, <1>4, <1>6, <1>7, <1>9, <1>10 DEF SendIsSound, Out!Running
<1>12. /\ job'[id].pc # "none"
       /\ job'[id].pc \in {"ok", "err", "done"} => id \notin temps' \/ id \in unremoved'
  BY <1>3, <1>4
<1> QED BY <1>2, <1>3, <1>4, <1>5, <1>9, <1>11, <1>12, OneTaskMoves

\* on_transfer_outcome of a send.
LEMMA SendOutcomeStep ==
  ASSUME OutInv, NEW id \in Ids, Out!Outcome(id)
  PROVE  OutInv'
<1>1. Out!TypeOK /\ SendIsSound(id) /\ Out!TaskCleansUp
  BY DEF OutInv, SendsAreSound
<1>2. PICK verdict \in Ended :
        /\ reg' = [reg EXCEPT ![id] = verdict]
        /\ job[id].pc \in {"ok", "err"}
        /\ verdict = "finished" => job[id].pc = "ok"
  BY DEF Out!Outcome, Out!Conclude, Ended
<1>3. /\ Out!Goto(id, "done")
      /\ UNCHANGED <<seq, cancel, len, changed, sent, temps, orphans, unremoved>>
      /\ ended' = [ended EXCEPT ![id] = @ + 1]
  BY DEF Out!Outcome, Out!Conclude, Out!copies
<1>4. /\ job' \in [Ids -> Out!Tasks]
      /\ \A i \in Ids : /\ job'[i].pc = IF i = id THEN "done" ELSE job[i].pc
                        /\ job'[i].size = job[i].size
                        /\ job'[i].hand = job[i].hand
  BY <1>1, <1>3, SendMovesOn DEF Out!Pcs
<1>5. RegistryType /\ sent \in [Ids -> Nat] /\ sent[id] \in Nat /\ unremoved \subseteq Ids
  BY <1>1, SendTypes
<1>6. RegistryType'
  BY <1>2, <1>3, <1>5 DEF RegistryType
<1>7. /\ reg'[id] = verdict /\ ended'[id] = ended[id] + 1
      /\ \A i \in Ids \ {id} : reg'[i] = reg[i] /\ ended'[i] = ended[i]
  BY <1>2, <1>3, <1>5 DEF RegistryType
<1>8. /\ reg[id] = "active" /\ ended[id] = 0 /\ ~(id > seq)
      /\ id \notin temps \/ id \in unremoved
  BY <1>1, <1>2, OneRegistry DEF SendIsSound, Out!TaskCleansUp, Out!Running, Ended
<1>9. SendIsSound(id)'
  <2>1. /\ job'[id].pc = "done" /\ job'[id].size = job[id].size
        /\ seq' = seq /\ changed' = changed /\ sent' = sent
    BY <1>3, <1>4, Zenon
  <2>2. /\ reg'[id] \in {"finished", "failed"} /\ ended'[id] = 1
        /\ reg'[id] = "finished" => job[id].pc = "ok"
    BY <1>2, <1>7, <1>8 DEF Ended
  <2>3. job[id].pc = "ok" /\ id \notin changed => sent[id] = job[id].size
    BY <1>1, Zenon DEF SendIsSound
  <2> QED BY <1>8, <2>1, <2>2, <2>3 DEF SendIsSound, Out!Running, Ended
<1> QED BY <1>3, <1>4, <1>5, <1>6, <1>7, <1>8, <1>9, OneTaskMoves

\* Cancelling sets a flag, and the owner of a source may rewrite it.
LEMMA SendDisturbedStep ==
  ASSUME OutInv, NEW id \in Ids,
         Out!Cancel(id) \/ \E l \in 0 .. MaxLen : Out!SourceChanges(id, l)
  PROVE  OutInv'
<1>1. Out!TypeOK /\ SendsAreSound /\ Out!TaskCleansUp /\ Out!FailedSendCleansUp
  BY DEF OutInv
<1>2. CASE Out!Cancel(id)
  <2>1. /\ UNCHANGED <<seq, reg, ended, job, len, changed, sent, temps, orphans, unremoved>>
        /\ cancel' = cancel \cup {id}
    BY <1>2 DEF Out!Cancel, Out!CancelTransfer, Out!task, Out!copies
  <2>2. Out!TypeOK'
    BY <1>1, <2>1, OneRegistry DEF Out!TypeOK, Out!RegistryType
  <2>3. SendsAreSound' /\ Out!TaskCleansUp'
    BY <1>1, <2>1 DEF SendsAreSound, SendIsSound, Out!Running, Out!TaskCleansUp
  <2>4. Out!FailedSendCleansUp'
    BY <1>1, <2>1, Zenon DEF Out!FailedSendCleansUp
  <2> QED BY <2>2, <2>3, <2>4 DEF OutInv
<1>3. ASSUME NEW l \in 0 .. MaxLen, Out!SourceChanges(id, l) PROVE OutInv'
  <2>1. /\ UNCHANGED <<seq, reg, cancel, ended, job, sent, temps, orphans, unremoved>>
        /\ Out!Running(id)
        /\ len' = [len EXCEPT ![id] = l] /\ changed' = changed \cup {id}
    BY <1>3 DEF Out!SourceChanges, Out!registry, Out!copies
  <2>2. /\ len' \in [Ids -> 0 .. MaxLen] /\ changed' \subseteq Ids
        /\ \A i \in Ids \ {id} : len'[i] = len[i] /\ (i \in changed' <=> i \in changed)
        /\ id \in changed'
    BY <1>1, <2>1, SendTypes
  <2>3. Out!TypeOK'
    BY <1>1, <2>1, <2>2, OneRegistry DEF Out!TypeOK, Out!RegistryType
  <2>4. SendIsSound(id)'
    BY <1>1, <2>1, <2>2 DEF SendsAreSound, SendIsSound, Out!Running
  <2>5. \A i \in Ids \ {id} : SendIsSound(i)'
    BY <1>1, <2>1, <2>2, SendKept DEF SendsAreSound
  <2>6. SendsAreSound' /\ Out!TaskCleansUp'
    BY <1>1, <2>1, <2>4, <2>5 DEF SendsAreSound, Out!TaskCleansUp, Out!Running
  <2>7. Out!FailedSendCleansUp'
    BY <1>1, <2>1, Zenon DEF Out!FailedSendCleansUp
  <2> QED BY <2>3, <2>6, <2>7 DEF OutInv
<1> QED BY <1>2, <1>3

\* Every step of a send keeps the invariant of the sends.
LEMMA OutStep == OutInv /\ Out!Next => OutInv'
<1> SUFFICES ASSUME OutInv, Out!Next PROVE OutInv'
  OBVIOUS
<1>1. ASSUME NEW id \in Ids, Out!Local(id) \/ Out!ReadFails(id) \/ Out!Peer(id) PROVE OutInv'
  BY <1>1, SendWaitsStep, ReadSourceStep, WrittenStep, SendOutcomeStep
  DEF Out!Local, Out!Peer
<1> QED BY <1>1, SendFailsStep, SendStarts, SendDisturbedStep, OneRegistry DEF Out!Next

-----------------------------------------------------------------------------
(* Both directions.                                                        *)

\* A daemon that has just started satisfies the invariant in either direction.
LEMMA MCInitOk == MCInit => MCInv
<1>1. ASSUME MCInit, direction = "out", Out!Init,
             incoming = {}, part = [n \in Names |-> NoFile], files = [p \in Paths |-> NoFile],
             remote = files, shared = [id \in Ids |-> NoFile]
      PROVE  OutInv /\ NothingReceived
  <2>1. NothingReceived
    BY <1>1 DEF NothingReceived
  <2>2. Out!Idle \in Out!Tasks /\ Out!Idle.pc = "none" /\ Out!Idle.size = 0
    BY SourcesAssumption, IncomingAssumption DEF Out!Idle, Out!Tasks, Out!Pcs
  <2>3. Out!TypeOK
    BY <1>1, <2>2, MaxTransfersAssumption, SourcesAssumption
    DEF Out!Init, Out!RegistryInit, Out!TypeOK, Out!RegistryType
  <2>4. SendsAreSound /\ Out!TaskCleansUp /\ Out!FailedSendCleansUp
    BY <1>1, <2>2, OneRegistry
    DEF Out!Init, Out!RegistryInit, SendsAreSound, SendIsSound, Out!Running, Out!TaskCleansUp,
        Out!FailedSendCleansUp, Ended
  <2> QED BY <2>1, <2>3, <2>4 DEF OutInv
<1> QED BY <1>1, InitOk DEF MCInit, MCInv

\* Every step of either direction keeps it.
LEMMA MCStepOk == MCInv /\ [MCNext]_mcvars => MCInv'
<1> SUFFICES ASSUME MCInv, [MCNext]_mcvars PROVE MCInv'
  OBVIOUS
<1>1. CASE UNCHANGED mcvars
  <2>1. UNCHANGED <<vars, direction, len, changed, sent, temps, orphans>>
    BY <1>1 DEF mcvars, sending
  <2>2. CASE direction = "in"
    BY <2>1, <2>2, StepOk DEF MCInv
  <2>3. CASE direction = "out"
    BY <2>1, <2>3
    DEF MCInv, vars, registry, OutInv, Out!TypeOK, Out!RegistryType, SendsAreSound, SendIsSound,
        Out!Running, Out!TaskCleansUp, Out!FailedSendCleansUp, NothingReceived
  <2> QED BY <2>2, <2>3 DEF MCInv
<1>2. CASE MCNext /\ direction = "in"
  BY <1>2, StepOk DEF MCNext, MCInv
<1>3. CASE MCNext /\ direction = "out"
  <2>1. direction' = "out" /\ Out!Next /\ UNCHANGED receiving
    BY <1>3 DEF MCNext
  <2>2. NothingReceived'
    BY <1>3, <2>1 DEF MCInv, NothingReceived, receiving
  <2> QED BY <1>3, <2>1, <2>2, OutStep DEF MCInv
<1> QED BY <1>1, <1>2, <1>3 DEF MCInv

\* The inductive invariant holds of every behaviour of either direction.
LEMMA MCInvariance == MCInit /\ [][MCNext]_mcvars => []MCInv
BY MCInitOk, MCStepOk, PTL

\* What is finished is whole, in both directions: a received file has the announced
\* length, and a send reported finished has moved the announced number of bytes
\* unless its source was changed meanwhile.
THEOREM FinishedIsAll == MCSpec => []FinishedMeansAll
<1>1. MCInv => FinishedMeansAll
  <2>1. ASSUME direction = "in", IInv PROVE FinishedMeansAll
    BY <2>1, WholeFiles DEF FinishedMeansAll
  <2>2. ASSUME direction = "out", OutInv, NothingReceived PROVE FinishedMeansAll
    BY <2>2, OneRegistry DEF FinishedMeansAll, FinishedIsWhole, NothingReceived, OutInv,
                SendsAreSound, SendIsSound, Out!SentAnnounced
  <2> QED BY <2>1, <2>2 DEF MCInv
<1>2. MCSpec => MCInit /\ [][MCNext]_mcvars
  BY PTL DEF MCSpec
<1> QED BY <1>1, <1>2, MCInvariance, PTL

\* The registry says of each transfer of either direction what its task says, and
\* the bus has carried one verdict for each that has ended.
THEOREM OneVerdictEachWay == MCSpec => []OneVerdict
<1>1. MCInv => OneVerdict
  BY DEF MCInv, IInv, OutInv, SendsAreSound, SendIsSound, OneVerdict
<1>2. MCSpec => MCInit /\ [][MCNext]_mcvars
  BY PTL DEF MCSpec
<1> QED BY <1>1, <1>2, MCInvariance, PTL

\* What a transfer leaves on the disk is accounted for, in either direction, as long
\* as a name has a free number when a file is received into a URI: nothing stays of a
\* failed receive but what a crash or a refused removal left, and no temporary copy of
\* a send but one that could not be removed, that is empty, or whose call broke off.
THEOREM NothingIsLeftBehind == MCSpec /\ []Roomy => []NothingLeftBehind
<1> DEFINE Inv == direction = "in" => CopiesAreOwned
<1>1. MCInit => Inv
  <2>1. Init => CopiesAreOwned
    BY InitialCopies
  <2> QED BY <2>1 DEF MCInit
<1>2. MCInv /\ Inv /\ Roomy /\ [MCNext]_mcvars => Inv'
  <2> SUFFICES ASSUME MCInv, CopiesAreOwned, Roomy, [MCNext]_mcvars, direction = "in"
               PROVE  CopiesAreOwned'
    BY DEF MCNext, mcvars
  <2>1. [Next]_vars
    BY DEF MCNext, mcvars
  <2> QED BY <2>1, CopiesStep DEF MCInv
<1>3. MCInv /\ Inv => NothingLeftBehind
  <2>1. ASSUME direction = "in", IInv, CopiesAreOwned PROVE NothingLeftBehind
    BY <2>1, LeavesNothing DEF NothingLeftBehind
  <2>2. ASSUME direction = "out", OutInv, NothingReceived PROVE NothingLeftBehind
    BY <2>2 DEF NothingLeftBehind, NoLeftoverPart, FailedLeavesNothing, NothingReceived, OutInv
  <2> QED BY <2>1, <2>2 DEF MCInv
<1>4. MCSpec => MCInit /\ [][MCNext]_mcvars
  BY PTL DEF MCSpec
<1> QED BY <1>1, <1>2, <1>3, <1>4, MCInvariance, PTL
=============================================================================
