------------------------------ MODULE Incoming ------------------------------
(***************************************************************************)
(* Receiving files: the share handlers of the device manager (device.rs),  *)
(* one receive_stream task per transfer, and the TransferEngine they share *)
(* (transfer.rs) with the save directory it writes.                        *)
(*                                                                         *)
(* A task is a record of its program counter and of the arguments it was   *)
(* spawned with.  Its steps end where it waits: for the engine's lock, for *)
(* the payload connection, for the copy into a URI, or for the manager to  *)
(* take its TransferOutcome.  The engine is behind one mutex, so each of   *)
(* its methods is one step.                                                *)
(*                                                                         *)
(* File contents are reduced to who wrote them and how many bytes there    *)
(* are.  A name stands for a sanitized file name; <<n, k>> is the final    *)
(* path of its k-th numbered copy (k = 0 is the plain name).  The lengths  *)
(* of a stream of unknown size stop growing at MaxBytes, the stream itself *)
(* may go on.                                                              *)
(***************************************************************************)
EXTENDS TransferRegistry, FiniteSets

CONSTANTS
  Names,          \* sanitized file names
  Sizes,          \* the sizes peers announce
  Unknown,        \* UNKNOWN_SIZE, announced as a negative payloadSize
  NoFile,         \* a path at which there is nothing
  Chunk,          \* CHUNK_SIZE
  MaxBytes,       \* bound: bytes counted of a stream of unknown size
  MaxCopies,      \* MAX_NAME_COLLISIONS
  SaveTargets,    \* the kinds of save directory configured: "local", "uri"
  Faults          \* what may go wrong: "write", "rename", "copy", "remove", "crash"

ASSUME IncomingAssumption ==
  /\ Names # {}
  /\ Sizes \subseteq Nat
  /\ Unknown \notin Nat
  /\ Chunk \in Nat \ {0}
  /\ MaxBytes \in Nat
  /\ MaxCopies \in Nat \ {0}
  /\ SaveTargets \subseteq {"local", "uri"}
  /\ Faults \subseteq {"write", "rename", "copy", "remove", "crash"}

VARIABLES
  target,     \* Manager.save_target, read from the settings when the daemon starts
  job,        \* the receive_stream task of each transfer
  incoming,   \* TransferEngine.incoming: the transfers being staged
  received,   \* IncomingTransfer.received
  part,       \* the .handfast-part file of each name
  files,      \* the finished files of the save directory
  remote,     \* the files copied into the URI save target
  shared,     \* the path ShareReceived announced for each transfer
  unremoved   \* (history) the transfers a file of which could not be removed

vars == <<registry, target, job, incoming, received, part, files, remote, shared,
          unremoved>>

-----------------------------------------------------------------------------

Copies == 0 .. MaxCopies - 1
Paths  == Names \X Copies

\* The contents of a file: the transfer it came from and its length.
Contents == [owner : Ids, len : Nat]

ASSUME NoFileAssumption == NoFile \notin Contents \cup Paths

\* Task states.  "ok" and "err": the task has ended and its TransferOutcome is
\* in the manager's queue; "done": the manager has handled it.
Pcs == {"none", "open", "loop", "read", "finish", "copy", "ok", "err", "done"}

Tasks == [pc : Pcs, name : Names, size : Sizes \cup {Unknown},
          payload : BOOLEAN, at : Copies]

AnyName == CHOOSE n \in Names : TRUE

Idle == [pc |-> "none", name |-> AnyName, size |-> Unknown,
         payload |-> FALSE, at |-> 0]

Goto(id, pc) == job' = [job EXCEPT ![id].pc = pc]

disk == <<part, files, remote, unremoved>>

Init ==
  /\ RegistryInit
  /\ target \in SaveTargets
  /\ job = [id \in Ids |-> Idle]
  /\ incoming = {}
  /\ received = [id \in Ids |-> 0]
  /\ part = [n \in Names |-> NoFile]
  /\ files = [p \in Paths |-> NoFile]
  /\ remote = [p \in Paths |-> NoFile]
  /\ shared = [id \in Ids |-> NoFile]
  /\ unremoved = {}

-----------------------------------------------------------------------------
(* The manager's handlers.                                                 *)

\* spawn_receive: with a payload connection (on_share_payload), or without
\* one when the header carries no port (on_packet).
SpawnReceive(n, size, payload) ==
  /\ Register(NewTransfer)
  /\ job' = [job EXCEPT ![NewTransfer] =
               [pc |-> "open", name |-> n, size |-> size,
                payload |-> payload, at |-> 0]]
  /\ UNCHANGED <<target, incoming, received, disk, shared>>

\* on_share_payload when the data connection could not be dialled: the
\* transfer is listed, and has already failed.
DialFailed ==
  /\ RegisterEnded(NewTransfer, "failed")
  /\ UNCHANGED <<target, job, incoming, received, disk, shared>>

Cancel(id) ==
  /\ CancelTransfer(id)
  /\ UNCHANGED <<target, job, incoming, received, disk, shared>>

-----------------------------------------------------------------------------
(* The engine.  `job[id].name` and `.size` are the meta it keeps.          *)

\* (mutant) the staging file is opened, not created exclusively
PartShared(n) == FALSE

\* The staging file exists, so exclusive creation fails.
PartTaken(n) == part[n] # NoFile

\* start_receive.
StartReceive(id) ==
  /\ incoming' = incoming \cup {id}
  /\ received' = [received EXCEPT ![id] = 0]
  /\ part' = [part EXCEPT ![job[id].name] = [owner |-> id, len |-> 0]]

\* (mutant) only the entry is removed
ForgetOnly(id) ==
  /\ incoming' = incoming \ {id}
  /\ UNCHANGED <<part, unremoved>>

\* remove_file fails, and its result is ignored.
RemovalFails(id) ==
  /\ "remove" \in Faults
  /\ unremoved' = unremoved \cup {id}

\* abort: first the entry is removed, then its staging file.  Both callers
\* ignore an error: there is no entry, or the file cannot be removed.
Abort(id) ==
  /\ incoming' = incoming \ {id}
  /\ \/ /\ part' = IF id \in incoming
                    THEN [part EXCEPT ![job[id].name] = NoFile]
                    ELSE part
        /\ UNCHANGED unremoved
     \/ /\ id \in incoming
        /\ RemovalFails(id)
        /\ UNCHANGED part

\* write_chunk refuses to go past the declared size.
Overflows(id, n) ==
  job[id].size # Unknown /\ received[id] + n > job[id].size

\* A length of id's stream after k more bytes, as far as it is counted.
Grown(id, len, k) ==
  IF job[id].size = Unknown /\ len + k > MaxBytes THEN len ELSE len + k

\* write_chunk: k bytes reach the staging file, fewer than were read when the
\* write fails.
Append(id, k) ==
  part' = [part EXCEPT ![job[id].name].len = Grown(id, @, k)]

\* (mutant) the number of bytes is not checked
AnyLength(id) == TRUE

\* finish_receive's check of the number of bytes.
Complete(id) == job[id].size = Unknown \/ received[id] = job[id].size

Untaken(n) == {k \in Copies : files[<<n, k>>] = NoFile}

\* (mutant) the plain name always
PlainName(n) == 0

\* free_destination: the first free numbered copy; the plain name again when
\* every number is taken.
FreeDestination(n) ==
  IF Untaken(n) = {}
    THEN 0
    ELSE CHOOSE k \in Untaken(n) : \A j \in Untaken(n) : k <= j

\* The path ShareReceived announces: of a URI target it is built from the
\* name in the header.
SharePath(n, k) == IF target = "uri" THEN <<n, 0>> ELSE <<n, k>>

-----------------------------------------------------------------------------
(* receive_stream.                                                         *)

Open(id) ==
  /\ job[id].pc = "open"
  /\ IF PartTaken(job[id].name)
       THEN /\ Goto(id, "err")
            /\ UNCHANGED <<incoming, received, part>>
       ELSE /\ StartReceive(id)
            /\ Goto(id, IF job[id].payload THEN "loop" ELSE "finish")
  /\ UNCHANGED <<registry, target, files, remote, shared, unremoved>>

\* The head of the loop: the only place the cancel flag is looked at.
CheckCancel(id) ==
  /\ job[id].pc = "loop"
  /\ IF id \in cancel
       THEN /\ Abort(id)
            /\ Goto(id, "err")
       ELSE /\ Goto(id, IF received[id] = job[id].size THEN "finish" ELSE "read")
            /\ UNCHANGED <<incoming, part, unremoved>>
  /\ UNCHANGED <<registry, target, received, files, remote, shared>>

\* How many bytes one read returns: exactly what is wanted of a known size,
\* any number when the size is unknown.
ReadSizes(id) ==
  IF job[id].size = Unknown
    THEN 1 .. Chunk
    ELSE LET left == job[id].size - received[id]
         IN  {IF left < Chunk THEN left ELSE Chunk}

\* A read that succeeds, and the write_chunk after it.
ReceiveChunk(id, n) ==
  /\ job[id].pc = "read"
  /\ n \in ReadSizes(id)
  /\ IF Overflows(id, n)
       THEN /\ Goto(id, "err")
            /\ UNCHANGED <<received, part>>
       ELSE \/ /\ received' = [received EXCEPT ![id] = Grown(id, @, n)]
               /\ Append(id, n)
               /\ Goto(id, IF received[id] + n = job[id].size THEN "finish" ELSE "loop")
            \/ /\ "write" \in Faults
               /\ \E k \in 0 .. n : Append(id, k)
               /\ Goto(id, "err")
               /\ UNCHANGED received
  /\ UNCHANGED <<registry, target, incoming, files, remote, shared, unremoved>>

\* End of the stream: the end of the file when its size is unknown, an error
\* otherwise.
ReadEof(id) ==
  /\ job[id].pc = "read"
  /\ Goto(id, IF job[id].size = Unknown THEN "finish" ELSE "err")
  /\ UNCHANGED <<registry, target, incoming, received, disk, shared>>

\* PAYLOAD_READ_TIMEOUT, or an error of the connection.
ReadFails(id) ==
  /\ job[id].pc = "read"
  /\ Goto(id, "err")
  /\ UNCHANGED <<registry, target, incoming, received, disk, shared>>

\* finish_receive, then, for a local target, ShareReceived and the outcome.
Finish(id) ==
  /\ job[id].pc = "finish"
  /\ LET n == job[id].name
         k == FreeDestination(n)
     IN  \/ /\ Complete(id)
            /\ files' = [files EXCEPT ![<<n, k>>] = part[n]]
            /\ part' = [part EXCEPT ![n] = NoFile]
            /\ incoming' = incoming \ {id}
            /\ job' = [job EXCEPT ![id].pc = IF target = "uri" THEN "copy" ELSE "ok",
                                  ![id].at = k]
            /\ shared' = IF target = "uri"
                           THEN shared
                           ELSE [shared EXCEPT ![id] = SharePath(n, k)]
         \/ /\ Complete(id) => "rename" \in Faults
            /\ Goto(id, "err")
            /\ UNCHANGED <<incoming, part, files, shared>>
  /\ UNCHANGED <<registry, target, received, remote, unremoved>>

\* The staged file is removed whether or not it could be copied, and a failure
\* to remove it is ignored.
DropStaged(id, p) ==
  \/ files' = [files EXCEPT ![p] = NoFile] /\ UNCHANGED unremoved
  \/ files[p] # NoFile /\ RemovalFails(id) /\ UNCHANGED files

\* move_into_uri (the copying tool replaces a file of the same name).
CopyIntoUri(id) ==
  /\ job[id].pc = "copy"
  /\ LET n == job[id].name
         p == <<n, job[id].at>>
     IN  /\ DropStaged(id, p)
         /\ \/ /\ files[p] # NoFile
               /\ remote' = [remote EXCEPT ![p] = files[p]]
               /\ shared' = [shared EXCEPT ![id] = SharePath(n, job[id].at)]
               /\ Goto(id, "ok")
            \/ /\ files[p] = NoFile \/ "copy" \in Faults
               /\ Goto(id, "err")
               /\ UNCHANGED <<remote, shared>>
  /\ UNCHANGED <<registry, target, incoming, received, part>>

\* (mutant) a task that fails reports nothing
OnlySuccess(id) ==
  /\ job[id].pc = "ok"
  /\ Conclude(id, "finished")
  /\ Goto(id, "done")
  /\ UNCHANGED <<target, incoming, received, disk, shared>>

\* on_transfer_outcome: a failed transfer's staging file is swept.
Outcome(id) ==
  /\ \/ /\ job[id].pc = "ok"
        /\ Conclude(id, "finished")
        /\ UNCHANGED <<incoming, part, unremoved>>
     \/ /\ job[id].pc = "err"
        /\ Abort(id)
        /\ Conclude(id, "failed")
  /\ Goto(id, "done")
  /\ UNCHANGED <<target, received, files, remote, shared>>

\* The daemon dies and starts again: tasks, registry and engine are memory,
\* and nothing looks for the files that were being staged.
Restart ==
  /\ "crash" \in Faults
  /\ RegistryLost
  /\ job' = [id \in Ids |-> Idle]
  /\ incoming' = {}
  /\ received' = [id \in Ids |-> 0]
  /\ shared' = [id \in Ids |-> NoFile]
  /\ UNCHANGED <<target, disk>>

-----------------------------------------------------------------------------

\* One transfer's task, up to the manager's handling of its outcome.
Receive(id) ==
  \/ Open(id)
  \/ CheckCancel(id)
  \/ \E n \in 1 .. Chunk : ReceiveChunk(id, n)
  \/ ReadEof(id)
  \/ ReadFails(id)
  \/ Finish(id)
  \/ CopyIntoUri(id)
  \/ Outcome(id)

Next ==
  \/ \E n \in Names, size \in Sizes \cup {Unknown}, payload \in BOOLEAN :
       SpawnReceive(n, size, payload)
  \/ DialFailed
  \/ \E id \in Ids : Cancel(id)
  \/ \E id \in Ids : Receive(id)
  \/ Restart

Spec == Init /\ [][Next]_vars

\* A task is never stuck: every read has a timeout, the file operations
\* return, and the manager takes what its queue holds.
FairSpec == Spec /\ \A id \in Ids : WF_vars(Receive(id))

-----------------------------------------------------------------------------
(* Properties.                                                             *)

\* Every field of the registry, the engine and the disk has its type.
TypeOK ==
  /\ RegistryType
  /\ target \in SaveTargets
  /\ job \in [Ids -> Tasks]
  /\ incoming \subseteq Ids
  /\ received \in [Ids -> Nat]
  /\ part \in [Names -> Contents \cup {NoFile}]
  /\ files \in [Paths -> Contents \cup {NoFile}]
  /\ remote \in [Paths -> Contents \cup {NoFile}]
  /\ shared \in [Ids -> Paths \cup {NoFile}]
  /\ unremoved \subseteq Ids

\* The engine's table and the staging files agree (IncomingTransfer): a
\* staged transfer owns the part file of its name, which holds exactly the
\* bytes it has received, and at least those once a write has failed.
StagedBytes ==
  \A id \in incoming :
    LET f == part[job[id].name]
    IN  /\ f # NoFile
        /\ f.owner = id
        /\ f.len >= received[id]
        /\ job[id].pc # "err" => f.len = received[id]

\* A part file that no transfer will finish or sweep (on_transfer_outcome's
\* abort, start_receive's exclusive creation) is one that a crash left behind
\* or that the disk refused to remove: failed writes and renames, cancels,
\* timeouts and collisions leave none.
NoLeftoverPart ==
  \A n \in Names : part[n] # NoFile =>
    \/ \E id \in incoming : job[id].name = n
    \/ reg[part[n].owner] = "none"
    \/ part[n].owner \in unremoved

\* A file under a final name is whole: it has the length its transfer
\* announced (finish_receive), however the transfers were interleaved,
\* cancelled or failed.
FinishedIsWhole ==
  \A p \in Paths :
    LET f == files[p]
    IN  (f # NoFile /\ job[f.owner].pc # "none" /\ job[f.owner].size # Unknown)
          => f.len = job[f.owner].size

\* What the registry and the bus say of a transfer is where its task is: it
\* is active until the manager has handled the outcome, and then exactly one
\* terminal event has been published for it.
OneVerdict ==
  \A id \in Ids :
    /\ reg[id] = "active" <=> job[id].pc \notin {"none", "done"}
    /\ ended[id] = IF reg[id] \in Ended THEN 1 ELSE 0

\* A transfer reported as failed leaves nothing behind: no staging file and no
\* file under a final name unless the disk refused to remove it, and no file in
\* the URI target.  Into a URI this needs a free number for each file waiting
\* to be copied (MAX_NAME_COLLISIONS is 10,000): otherwise a second file takes
\* the plain name under the copy tool.
FailedLeavesNothing ==
  \A id \in Ids : reg[id] = "failed" =>
    /\ id \notin unremoved => /\ \A n \in Names : part[n] # NoFile => part[n].owner # id
                             /\ \A p \in Paths : files[p] # NoFile => files[p].owner # id
    /\ \A p \in Paths : remote[p] # NoFile => remote[p].owner # id

\* In a local directory the path ShareReceived announces (bus.rs: "Local path
\* or URL of the received share.") is where that transfer's bytes are, from
\* then on; only a plain name is ever reused, and only when every number of it
\* is taken (free_destination's last line).
AnnouncedIsThere ==
  \A id \in Ids : (target = "local" /\ shared[id] # NoFile) =>
    /\ files[shared[id]] # NoFile
    /\ \/ files[shared[id]].owner = id
       \/ shared[id][2] = 0 /\ Untaken(shared[id][1]) = {}

\* What was delivered stays where it was announced, and finish_receive keeps its
\* word that "completed downloads are never overwritten", neither by another
\* transfer of that name nor by one after a restart, as long as a number is free.
DeliveredStays ==
  [][/\ AnnouncedIsThere'
     /\ \A p \in Paths :
          (target = "local" /\ files[p] # NoFile /\ files'[p] # files[p])
            => Untaken(p[1]) = {}]_vars

\* A receive of a known size ends whatever its sender does, and so does every
\* receive the user cancels: each read has its timeout and the flag is looked at
\* before each (receive_stream).  A stream of unknown size that nobody cancels
\* lasts as long as its sender goes on.
ReceiveEnds ==
  \A id \in Ids :
    (reg[id] = "active" /\ (job[id].size # Unknown \/ id \in cancel)) ~> reg[id] # "active"
=============================================================================
