-------------------------- MODULE TransferRegistry --------------------------
(***************************************************************************)
(* The device manager's transfer registry: what `hfctl transfers` and the  *)
(* TransferAdded / TransferFinished / TransferFailed events report.        *)
(* Incoming and Outgoing extend this module with the tasks that move the   *)
(* bytes.  An entry is created by the manager and ended by the manager:    *)
(* the tasks only read the cancel flag and send one TransferOutcome.       *)
(*                                                                         *)
(* The identifier counter starts over with every daemon.  Here it does     *)
(* not, so that an identifier also names the transfer a file left on disk  *)
(* came from.                                                              *)
(***************************************************************************)
EXTENDS Naturals

CONSTANT
  MaxTransfers    \* bound: transfers registered in one behaviour

ASSUME MaxTransfersAssumption == MaxTransfers \in Nat

VARIABLES
  seq,      \* next_transfer_seq
  reg,      \* TransferRecord.state of each transfer, "none" before it exists
  cancel,   \* the transfers whose cancel flag is set
  ended     \* how many terminal events the bus has carried for each transfer

registry == <<seq, reg, cancel, ended>>

Ids == 1 .. MaxTransfers

Ended == {"finished", "failed"}

RegistryType ==
  /\ seq \in 0 .. MaxTransfers
  /\ reg \in [Ids -> {"none", "active"} \cup Ended]
  /\ cancel \subseteq Ids
  /\ ended \in [Ids -> Nat]

RegistryInit ==
  /\ seq = 0
  /\ reg = [id \in Ids |-> "none"]
  /\ cancel = {}
  /\ ended = [id \in Ids |-> 0]

\* new_transfer_id: the transfer the next registration creates.
NewTransfer == seq + 1

\* register_transfer: the entry is active and TransferAdded is published.
Register(id) ==
  /\ seq < MaxTransfers
  /\ seq' = id
  /\ reg' = [reg EXCEPT ![id] = "active"]
  /\ UNCHANGED <<cancel, ended>>

\* A registration that the same handler ends at once: an empty file sent, or
\* a payload connection that could not be dialled.
RegisterEnded(id, state) ==
  /\ seq < MaxTransfers
  /\ seq' = id
  /\ reg' = [reg EXCEPT ![id] = state]
  /\ ended' = [ended EXCEPT ![id] = @ + 1]
  /\ UNCHANGED cancel

\* (mutant) cancelling ends the entry at once
CancelNow(id) ==
  /\ reg[id] = "active"
  /\ cancel' = cancel \cup {id}
  /\ reg' = [reg EXCEPT ![id] = "failed"]
  /\ ended' = [ended EXCEPT ![id] = @ + 1]
  /\ UNCHANGED seq

\* cancel_transfer: only an active transfer can be cancelled, and all that
\* happens is that its flag is set.
CancelTransfer(id) ==
  /\ reg[id] = "active"
  /\ cancel' = cancel \cup {id}
  /\ UNCHANGED <<seq, reg, ended>>

\* The registry's part of on_transfer_outcome.
Conclude(id, state) ==
  /\ reg' = [reg EXCEPT ![id] = state]
  /\ ended' = [ended EXCEPT ![id] = @ + 1]
  /\ UNCHANGED <<seq, cancel>>

\* The registry is memory: a daemon that starts again has an empty one.
RegistryLost ==
  /\ reg' = [id \in Ids |-> "none"]
  /\ cancel' = {}
  /\ ended' = [id \in Ids |-> 0]
  /\ UNCHANGED seq
=============================================================================
