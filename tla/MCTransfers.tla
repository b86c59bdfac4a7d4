----------------------------- MODULE MCTransfers -----------------------------
(***************************************************************************)
(* The two directions of a transfer, checked side by side: a behaviour is  *)
(* one of receives or one of sends (`direction`), over the same registry.  *)
(* The variables of the direction that is not taken keep their first       *)
(* value.                                                                  *)
(***************************************************************************)
EXTENDS Incoming

CONSTANTS
  SourceSizes,  \* Sizes of Outgoing
  MaxLen

ASSUME SourcesAssumption == MaxLen \in Nat /\ SourceSizes \subseteq 0 .. MaxLen

VARIABLES direction, len, changed, sent, temps, orphans

Out == INSTANCE Outgoing WITH Sizes <- SourceSizes

sending == <<len, changed, sent, temps, orphans>>
receiving == <<target, incoming, received, part, files, remote, shared>>
outvars == <<registry, job, sending, unremoved>>
mcvars == <<vars, direction, sending>>

MCInit ==
  \/ /\ direction = "in" /\ Init
     /\ len = <<>> /\ changed = {} /\ sent = <<>> /\ temps = {} /\ orphans = {}
  \/ /\ direction = "out" /\ Out!Init
     /\ target = "local" /\ incoming = {} /\ received = <<>>
     /\ part = [n \in Names |-> NoFile] /\ files = [p \in Paths |-> NoFile]
     /\ remote = files /\ shared = [id \in Ids |-> NoFile]

MCNext ==
  /\ UNCHANGED direction
  /\ \/ direction = "in" /\ Next /\ UNCHANGED sending
     \/ direction = "out" /\ Out!Next /\ UNCHANGED receiving

\* The fairness of Incoming's FairSpec and of Outgoing's: nothing is assumed of
\* the peer.
MCSpec ==
  /\ MCInit /\ [][MCNext]_mcvars
  /\ \A id \in Ids :
       /\ WF_vars(direction = "in" /\ Receive(id))
       /\ WF_outvars(direction = "out" /\ Out!Local(id))

\* What stays on disk of a transfer is accounted for.  Of a receive that failed
\* or was cancelled no staging file and no file under a final name stays, unless
\* the daemon died or the disk refused to remove it (on_transfer_outcome's abort,
\* finish_receive, move_into_uri).  A send's temporary file stays only if it could
\* not be removed, if it was empty, or if the call broke off while it was made or
\* for want of a port (stream_outgoing, send_file).
NothingLeftBehind ==
  /\ NoLeftoverPart
  /\ FailedLeavesNothing
  /\ direction = "out" => Out!TaskCleansUp /\ Out!FailedSendCleansUp

\* Every transfer ends as far as the daemon can see to it: a receive of a known
\* size and any receive that is cancelled, whatever the sender does, and a send
\* unless it waits for ever for its receiver (receive_stream, stream_outgoing).
TransferEnds ==
  /\ direction = "in" => ReceiveEnds
  /\ direction = "out" => Out!SendEndsOrWaits

\* What is finished is whole: a file under a final name has the announced length
\* (finish_receive), and a send reported finished has moved the announced number of
\* bytes, as long as nobody touched its source (stream_outgoing's loop).
FinishedMeansAll ==
  /\ FinishedIsWhole
  /\ direction = "out" => Out!SentAnnounced
=============================================================================
