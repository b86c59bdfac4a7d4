------------------------------ MODULE Outgoing ------------------------------
(***************************************************************************)
(* Sending files: the device manager's send_file handler, the temporary    *)
(* file a GVFS or KIO source is copied into (backends.rs), the payload     *)
(* listener (payload.rs) and one stream_outgoing task per transfer.        *)
(*                                                                         *)
(* send_file runs inside the manager's actor, so the whole call is one     *)
(* step.  A task's steps end where it waits: for the receiver to dial, for *)
(* the TLS handshake, for the file, for the receiver to take the bytes.    *)
(* A file is reduced to its length, which its owner may change while it is *)
(* being sent unless it is a temporary copy.                               *)
(***************************************************************************)
EXTENDS TransferRegistry

CONSTANTS
  Sizes,      \* lengths of the files the user sends, up to MaxLen
  Chunk,      \* PAYLOAD_CHUNK_SIZE, at least 1
  MaxLen,     \* bound: the length a file may grow to
  Faults      \* what may go wrong; of it only "remove" matters here

VARIABLES
  job,        \* the stream_outgoing task of each transfer
  len,        \* the source file's length now
  changed,    \* the transfers whose source changed after it was measured
  sent,       \* stream_outgoing's `done`: bytes the receiver has taken
  temps,      \* the transfers whose temporary source file exists
  orphans,    \* where calls that failed left theirs
  unremoved   \* (history) the transfers a file of which could not be removed

vars == <<registry, job, len, changed, sent, temps, orphans, unremoved>>

task == <<job, len, changed, sent>>
copies == <<temps, orphans, unremoved>>

-----------------------------------------------------------------------------

\* "ok" and "err": the task has ended and its TransferOutcome is queued.
Pcs == {"none", "accept", "tls", "loop", "write", "ok", "err", "done"}

\* `hand` is the number of bytes read from the file and not yet written.
Tasks == [pc : Pcs, size : 0 .. MaxLen, temp : BOOLEAN, hand : 0 .. Chunk]

Idle == [pc |-> "none", size |-> 0, temp |-> FALSE, hand |-> 0]

Running(id) == job[id].pc \in {"accept", "tls", "loop", "write"}

Goto(id, pc) == job' = [job EXCEPT ![id].pc = pc]

Init ==
  /\ RegistryInit
  /\ job = [id \in Ids |-> Idle]
  /\ len = [id \in Ids |-> 0]
  /\ changed = {}
  /\ sent = [id \in Ids |-> 0]
  /\ temps = {} /\ orphans = {} /\ unremoved = {}

-----------------------------------------------------------------------------
(* send_file.  `temp`: the source is a URI and has been materialized.      *)

\* Where a call can fail once it has begun to copy a URI: the copy, its
\* measuring, the look at the device, the header of an empty file, the
\* listener, the header of any other.
Failures == {"copy", "measure", "device", "empty", "bind", "queue"}

\* The failures after which the copy is removed; the others are returned as
\* they are, by `?`.
Swept(at) == at \in {"measure", "device", "queue"}

\* A call that fails registers nothing; that it uses up a number bounds the
\* calls.  It leaves its copy when nobody removes it, or the removal fails.
SendFails(at) ==
  /\ seq < MaxTransfers
  /\ seq' = NewTransfer
  /\ \/ orphans' = IF Swept(at) THEN orphans ELSE orphans \cup {at}
     \/ /\ Swept(at) /\ "remove" \in Faults
        /\ orphans' = orphans \cup {"unremoved"}
  /\ UNCHANGED <<reg, cancel, ended, task, temps, unremoved>>

\* An empty file is a bare header, and is finished as soon as it is queued.
\* Its copy stays.
SendEmpty(temp) ==
  /\ 0 \in Sizes
  /\ RegisterEnded(NewTransfer, "finished")
  /\ temps' = IF temp THEN temps \cup {NewTransfer} ELSE temps
  /\ UNCHANGED <<task, orphans, unremoved>>

\* Anything else: a listener is bound, the header queued, a task spawned.
SendFile(size, temp) ==
  /\ size > 0
  /\ Register(NewTransfer)
  /\ job' = [job EXCEPT ![NewTransfer] =
               [pc |-> "accept", size |-> size, temp |-> temp, hand |-> 0]]
  /\ len' = [len EXCEPT ![NewTransfer] = size]
  /\ temps' = IF temp THEN temps \cup {NewTransfer} ELSE temps
  /\ UNCHANGED <<changed, sent, orphans, unremoved>>

Cancel(id) ==
  /\ CancelTransfer(id)
  /\ UNCHANGED <<task, copies>>

\* The owner of a local file rewrites it.
SourceChanges(id, l) ==
  /\ Running(id)
  /\ ~job[id].temp
  /\ l # len[id]
  /\ len' = [len EXCEPT ![id] = l]
  /\ changed' = changed \cup {id}
  /\ UNCHANGED <<registry, job, sent, copies>>

-----------------------------------------------------------------------------
(* stream_outgoing.  Every way out of it tries to remove the temporary     *)
(* file.                                                                   *)

\* The end of the task, with the result it reports, which a failure to remove
\* the file does not change.
Leave(id, result) ==
  /\ Goto(id, result)
  /\ \/ temps' = temps \ {id} /\ UNCHANGED unremoved
     \/ /\ id \in temps /\ "remove" \in Faults
        /\ unremoved' = unremoved \cup {id}
        /\ UNCHANGED temps
  /\ UNCHANGED orphans

\* The receiver dials within PAYLOAD_ACCEPT_TIMEOUT.
Dialled(id) ==
  /\ job[id].pc = "accept"
  /\ Goto(id, "tls")
  /\ UNCHANGED <<registry, len, changed, sent, copies>>

AcceptTimesOut(id) ==
  /\ job[id].pc = "accept"
  /\ Leave(id, "err")
  /\ UNCHANGED <<registry, len, changed, sent>>

\* The TLS handshake completes.  It has no timeout.
Handshaken(id) ==
  /\ job[id].pc = "tls"
  /\ Goto(id, "loop")
  /\ UNCHANGED <<registry, len, changed, sent, copies>>

\* The receiver goes away: the handshake or the write in hand fails.
Disconnected(id) ==
  /\ job[id].pc \in {"tls", "write"}
  /\ Leave(id, "err")
  /\ UNCHANGED <<registry, len, changed, sent>>

\* The loop's cancel check and the read after it.  A file that ends early
\* ends the transfer, and the read is not limited to what was announced.
ReadSource(id) ==
  /\ job[id].pc = "loop"
  /\ \/ /\ id \in cancel
        /\ Leave(id, "err")
     \/ /\ id \notin cancel
        /\ sent[id] >= len[id]
        /\ Leave(id, "ok")
     \/ /\ id \notin cancel
        /\ \E n \in 1 .. Chunk :
             /\ sent[id] + n <= len[id]
             /\ job' = [job EXCEPT ![id].pc = "write", ![id].hand = n]
        /\ UNCHANGED copies
  /\ UNCHANGED <<registry, len, changed, sent>>

\* The file cannot be opened or read any more.
ReadFails(id) ==
  /\ job[id].pc = "loop"
  /\ Leave(id, "err")
  /\ UNCHANGED <<registry, len, changed, sent>>

\* The announced number of bytes has been written.
AllSent(id, done) == done >= job[id].size

\* The receiver takes the chunk in hand.  The write has no timeout.
Written(id) ==
  /\ job[id].pc = "write"
  /\ LET done == sent[id] + job[id].hand
     IN  /\ sent' = [sent EXCEPT ![id] = done]
         /\ IF AllSent(id, done)
              THEN Leave(id, "ok")
              ELSE Goto(id, "loop") /\ UNCHANGED copies
  /\ UNCHANGED <<registry, len, changed>>

\* on_transfer_outcome; the engine's abort knows nothing of an outgoing
\* transfer and is ignored.
Outcome(id) ==
  /\ \/ job[id].pc = "ok" /\ Conclude(id, "finished")
     \/ job[id].pc = "err" /\ Conclude(id, "failed")
  /\ Goto(id, "done")
  /\ UNCHANGED <<len, changed, sent, copies>>

-----------------------------------------------------------------------------

\* What the daemon does by itself, and what it needs the receiver for.
Local(id) == AcceptTimesOut(id) \/ ReadSource(id) \/ Outcome(id)
Peer(id) == Dialled(id) \/ Handshaken(id) \/ Written(id) \/ Disconnected(id)

Next ==
  \/ \E at \in Failures : SendFails(at)
  \/ \E temp \in BOOLEAN : SendEmpty(temp)
  \/ \E size \in Sizes, temp \in BOOLEAN : SendFile(size, temp)
  \/ \E id \in Ids : Cancel(id)
  \/ \E id \in Ids, l \in 0 .. MaxLen : SourceChanges(id, l)
  \/ \E id \in Ids : Local(id) \/ ReadFails(id) \/ Peer(id)

Spec == Init /\ [][Next]_vars

\* The daemon's own steps happen.  Nothing is assumed of the receiver.
FairSpec == Spec /\ \A id \in Ids : WF_vars(Local(id))

-----------------------------------------------------------------------------
(* Properties.                                                             *)

\* Every field of the registry and of the sends has its type.
TypeOK ==
  /\ RegistryType
  /\ job \in [Ids -> Tasks]
  /\ len \in [Ids -> 0 .. MaxLen]
  /\ changed \subseteq Ids
  /\ sent \in [Ids -> Nat]
  /\ temps \subseteq Ids
  /\ orphans \subseteq Failures \cup {"unremoved"}
  /\ unremoved \subseteq Ids

\* A transfer reported finished has moved the announced number of bytes, as
\* long as nobody touched its source (stream_outgoing's loop).
SentAnnounced ==
  \A id \in Ids :
    (reg[id] = "finished" /\ id \notin changed) => sent[id] = job[id].size

\* A temporary file is that of a running task, which will remove it, or could
\* not be removed, or was empty (stream_outgoing, send_file).
TaskCleansUp ==
  \A id \in temps :
    Running(id) \/ id \in unremoved \/ (reg[id] = "finished" /\ job[id].pc = "none")

\* A call that fails leaves its temporary file only if it could not be removed,
\* the copy into it broke off, the file was empty or no port could be bound
\* (send_file, materialize_uri).
FailedSendCleansUp == orphans \subseteq {"unremoved", "copy", "empty", "bind"}

\* payload.rs: "a peer that never fetches the payload cannot pin a file
\* handle forever".
SendEnds == \A id \in Ids : Running(id) ~> ~Running(id)

\* A send ends, or from some time on waits for its receiver to complete the
\* handshake or to take a chunk: all other waiting is bounded (stream_outgoing,
\* PayloadListener::accept).
SendEndsOrWaits ==
  \A id \in Ids :
    \/ <>[](job[id].pc \in {"tls", "write"})
    \/ reg[id] = "active" ~> reg[id] # "active"
=============================================================================
