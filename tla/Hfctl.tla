------------------------------- MODULE Hfctl --------------------------------
(***************************************************************************)
(* One run of a one-shot `hfctl` command (tui/main.rs, tui/cmd.rs) against *)
(* the daemon's request handler (handle_request of daemon/main.rs): what   *)
(* the command says it did and the status it exits with, and what the      *)
(* daemon did.                                                             *)
(*                                                                         *)
(* A request is handled at some moment after it was sent, be it after      *)
(* hfctl has given up on it.  In the meantime devices come and go, other   *)
(* clients and the peers change the daemon's state, and the daemon may     *)
(* stop.                                                                   *)
(***************************************************************************)
EXTENDS Integers, Sequences, SequencesExt

CONSTANTS
  None,
  Ids,          \* device ids
  Paths,        \* the file arguments of a send, a sequence
  Window,       \* the listen window of `hfctl logs`, in ticks
  MaxRecords,   \* bound: log records that arrive
  MaxChanges    \* bound: changes by others

VARIABLES
  up,           \* the daemon runs and its socket is there
  known,        \* the rows of snapshot(), in its order
  online,       \* devices with a connection
  paired,       \* devices with a pinned certificate
  parked,       \* devices whose pairing request waits for an answer
  pc,           \* of hfctl: "off", "connect", "send", "asked", "prompt", "listen", "done"
  cmd,          \* the command line
  target,       \* the device of a send
  seen,         \* the rows shown by pick_device
  choice,       \* the number the user typed
  nth,          \* the file of a send that is next
  request,      \* a request is with the daemon, unanswered
  reply,        \* to the last request, until it is read
  did,          \* what the daemon did for this hfctl, in order
  said,         \* what hfctl printed as done, in order
  status,       \* exit status
  clock, records,   \* of `hfctl logs`
  changes

world == <<up, known, online, paired, parked, changes>>
listening == <<clock, records>>
vars == <<world, pc, cmd, target, seen, choice, nth, request, reply, did, said, status, listening>>

-----------------------------------------------------------------------------
\* Commands that pass their reply through expect_ok and then claim success.
Claiming == {"pair", "unpair", "accept", "decline", "clipboard", "plugin", "dismiss"}
\* The two of them that nothing comes of: PluginSetEnabled stores a key that no code
\* reads, and the handler of NotificationDismiss does nothing.
Hollow == {"plugin", "dismiss"}
\* Commands that print the reply they get, whatever it is.
Echoing == {"cancel", "unwired"}
\* Commands that print a list or a summary.
Asking == {"status", "list"}

Commands ==
  [kind : Claiming \cup Echoing \cup Asking \cup {"logs"}, dev : Ids]
  \cup [kind : {"send"}, dev : Ids \cup {None}, pick : BOOLEAN]

Init ==
  /\ up \in BOOLEAN
  /\ \E s \in SUBSET Ids : known \in SetToSeqs(s) /\ online \in SUBSET s
  /\ paired = {} /\ parked \in SUBSET online
  /\ pc = "off" /\ cmd = None /\ target = None /\ seen = <<>> /\ choice = None
  /\ nth = 1
  /\ request = FALSE /\ reply = None /\ did = <<>> /\ said = <<>> /\ status = None
  /\ clock = 0 /\ records = 0 /\ changes = 0

\* ExitCode::FAILURE with the error on stderr, ExitCode::from(2), or SUCCESS.
Exit(code) == pc' = "done" /\ status' = code

-----------------------------------------------------------------------------
(* hfctl. *)

\* Cli::try_parse: --pick and --device exclude each other (and a path is required).
Parse ==
  /\ pc = "off"
  /\ \E c \in Commands :
       /\ cmd' = c
       /\ IF c.kind = "send" /\ c.pick /\ c.dev # None
          THEN Exit(2)
          ELSE pc' = "connect" /\ UNCHANGED status
  /\ UNCHANGED <<world, target, seen, choice, nth, request, reply, did, said, listening>>

\* cmd::connect, and the dispatch on the command; the target of a send.
Connect ==
  /\ pc = "connect"
  /\ IF ~up \/ (cmd.kind = "send" /\ cmd.dev = None /\ ~cmd.pick)
     THEN Exit(1) /\ UNCHANGED target
     ELSE /\ pc' = IF cmd.kind = "logs" THEN "listen" ELSE "send"
          /\ target' = cmd.dev
          /\ UNCHANGED status
  /\ UNCHANGED <<world, cmd, seen, choice, nth, request, reply, did, said, listening>>

Picking == cmd.kind = "send" /\ target = None

\* Client::request.  There is one request at a time, which the socket's buffer has
\* room for, so its write does not wait.
SendRequest ==
  /\ pc = "send"
  /\ pc' = "asked" /\ request' = TRUE
  /\ UNCHANGED <<world, cmd, target, seen, choice, nth, reply, did, said, status, listening>>

\* expect_ok
ExpectOk(r) == r.ok

\* What hfctl asks for, and then claims: one file of a send, or the command.
Job == IF cmd.kind = "send" THEN <<target, Paths[nth]>> ELSE <<cmd.kind, cmd.dev>>

\* (mutant) The loop over the files goes on after the error of one.
SkipFailed(ok) == TRUE

\* `?` in the loop of print_send.
KeepsGoing(ok) == ok

\* The reply is read by a command that sends one request, or by print_send.
ReadReply ==
  /\ pc = "asked" /\ reply # None /\ ~Picking
  /\ reply' = None
  /\ said' = IF ExpectOk(reply) /\ cmd.kind \in Claiming \cup {"send"}
             THEN Append(said, Job) ELSE said
  /\ \/ /\ cmd.kind \in Echoing
        /\ Exit(0) /\ UNCHANGED nth
     \/ /\ cmd.kind \in Claiming \cup Asking
        /\ Exit(IF ExpectOk(reply) THEN 0 ELSE 1) /\ UNCHANGED nth
     \/ /\ cmd.kind = "send"
        /\ IF ~KeepsGoing(ExpectOk(reply)) THEN Exit(1) /\ UNCHANGED nth
           ELSE IF nth = Len(Paths) THEN Exit(0) /\ UNCHANGED nth
           ELSE pc' = "send" /\ nth' = nth + 1 /\ UNCHANGED status
  /\ UNCHANGED <<world, cmd, target, seen, choice, request, did, listening>>

\* entries.get(choice.wrapping_sub(1)): rows are numbered from 1, 0 wraps around.
Row(n) == n

\* pick_device with its list: none, a single one, or a prompt.
ReadDevices ==
  /\ pc = "asked" /\ reply # None /\ Picking
  /\ reply' = None
  /\ seen' = reply.rows
  /\ IF ~reply.ok \/ reply.rows = <<>> THEN Exit(1) /\ UNCHANGED target
     ELSE IF Len(reply.rows) = 1
     THEN target' = reply.rows[1] /\ pc' = "send" /\ UNCHANGED status
     ELSE pc' = "prompt" /\ UNCHANGED <<target, status>>
  /\ UNCHANGED <<world, cmd, choice, nth, request, did, said, listening>>

\* The user types a number, or something else (None).
Answer ==
  \E n \in (0..Len(seen) + 1) \cup {None} :
    /\ pc = "prompt"
    /\ choice' = n
    /\ IF n = None \/ Row(n) \notin DOMAIN seen THEN Exit(1) /\ UNCHANGED target
       ELSE target' = seen[Row(n)] /\ pc' = "send" /\ UNCHANGED status
    /\ UNCHANGED <<world, cmd, seen, nth, request, reply, did, said, listening>>

\* The client's reader sees the connection end, or the reply has not come within the
\* 10 s of Client::request, also if it is under way.
NoReply == ~up \/ pc = "asked"

Fails ==
  /\ pc \in {"send", "asked"}
  /\ NoReply
  /\ Exit(1)
  /\ UNCHANGED <<world, cmd, target, seen, choice, nth, request, reply, did, said, listening>>

\* timeout(remaining, recv()): an event leaves the deadline where it is.
SameDeadline == clock

\* print_logs: an event arrives, a log record or another one.
TakeEvent ==
  \E record \in BOOLEAN :
    /\ pc = "listen" /\ up /\ clock < Window
    /\ record => records < MaxRecords
    /\ records' = IF record THEN records + 1 ELSE records
    /\ clock' = SameDeadline
    /\ UNCHANGED <<world, pc, cmd, target, seen, choice, nth, request, reply, did, said, status>>

TimePasses ==
  /\ pc = "listen" /\ clock < Window
  /\ clock' = clock + 1
  /\ UNCHANGED <<world, pc, cmd, target, seen, choice, nth, request, reply, did, said, status, records>>

\* The window is over or the stream has ended: the last records are printed.
PrintLogs ==
  /\ pc = "listen" /\ (clock = Window \/ ~up)
  /\ Exit(0)
  /\ UNCHANGED <<world, cmd, target, seen, choice, nth, request, reply, did, said, clock, records>>

Client == Connect \/ SendRequest \/ ReadReply \/ ReadDevices \/ Fails \/ PrintLogs
-----------------------------------------------------------------------------
(* The daemon. *)

\* The manager's answer to a start_pairing is the peer's decision; its failures,
\* and those of the store, of the clipboard and of a file, are an Err.
MayFail == Picking = FALSE /\ cmd.kind \notin Asking \cup {"unpair", "dismiss"}

MayWork ==
  CASE Picking -> TRUE
    [] cmd.kind = "pair" -> cmd.dev \in online \ paired
    [] cmd.kind \in {"accept", "decline"} -> cmd.dev \in parked
    [] cmd.kind = "send" /\ ~Picking -> target \in online
    [] cmd.kind = "unwired" -> FALSE
    [] OTHER -> TRUE

\* What an Ok leaves in the manager.
Effect ==
  /\ paired' \in CASE cmd.kind = "pair" -> {paired, paired \cup {cmd.dev}}
                   [] cmd.kind = "accept" -> {paired \cup {cmd.dev}}
                   [] cmd.kind = "unpair" -> {paired \ {cmd.dev}}
                   [] OTHER -> {paired}
  /\ parked' = IF cmd.kind \in {"accept", "decline"} THEN parked \ {cmd.dev} ELSE parked
  /\ did' = IF cmd.kind \in Claiming \ Hollow \/ (cmd.kind = "send" /\ ~Picking)
            THEN Append(did, Job) ELSE did

\* handle_request, and the ManagerHandle's call behind it.
HandleRequest ==
  /\ request /\ up
  /\ request' = FALSE
  /\ \/ /\ MayWork /\ Effect
        /\ reply' = [ok |-> TRUE, rows |-> IF Picking THEN known ELSE <<>>]
     \/ /\ MayFail
        /\ reply' = [ok |-> FALSE, rows |-> <<>>]
        /\ UNCHANGED <<paired, parked, did>>
  /\ UNCHANGED <<up, known, online, changes, pc, cmd, target, seen, choice, nth, said, status,
                 listening>>

\* Devices appear, are renamed, connect, leave and ask to be paired; the daemon stops.
Others ==
  /\ changes < MaxChanges /\ pc \notin {"off", "done"}
  /\ changes' = changes + 1
  /\ \/ /\ \E s \in SUBSET Ids : Range(known) \subseteq s /\ known' \in SetToSeqs(s)
        /\ UNCHANGED <<up, online, paired, parked>>
     \/ /\ \E d \in Range(known) :
             \/ online' = online \cup {d} /\ UNCHANGED parked
             \/ online' = online \ {d} /\ parked' = parked \ {d}
             \/ d \in online /\ parked' = parked \cup {d} /\ UNCHANGED online
        /\ UNCHANGED <<up, known, paired>>
     \/ up' = FALSE /\ UNCHANGED <<known, online, paired, parked>>
  /\ UNCHANGED <<pc, cmd, target, seen, choice, nth, request, reply, did, said, status, listening>>

Next == Parse \/ Client \/ Answer \/ TakeEvent \/ TimePasses \/ HandleRequest \/ Others

\* A command once started goes on, and time passes; nothing is assumed of the
\* daemon.
Fairness == WF_vars(Client) /\ WF_vars(TimePasses)

Spec == Init /\ [][Next]_vars /\ Fairness

-----------------------------------------------------------------------------
(* Properties. *)

Performed(jobs) == SelectSeq(jobs, LAMBDA job : job[1] \notin Hollow)

\* What hfctl has printed as done the daemon did, in that order, and at most one
\* thing was done and not reported (its reply was lost or came too late); and status
\* 0 of a command that claims something means that all it was asked for was done
\* (expect_ok, print_send).  The exceptions are "enabled on", "disabled on" and
\* "dismissed", which hfctl prints although the daemon does nothing of the kind.
ClaimIsTrue ==
  /\ IsPrefix(Performed(said), did) /\ Len(did) <= Len(Performed(said)) + 1
  /\ status = 0 /\ cmd.kind \in Claiming \ Hollow => did = <<<<cmd.kind, cmd.dev>>>>
  /\ status = 0 /\ cmd.kind = "send" =>
       did = [i \in DOMAIN Paths |-> <<target, Paths[i]>>]

\* `send --pick` sends to the device whose row the user chose, or to the only one
\* there was, however the daemon's list has changed since it was shown
\* (pick_device).
PickedAsShown ==
  pc # "off" /\ cmd.kind = "send" /\ cmd.dev = None /\ did # <<>> =>
    \A i \in DOMAIN did :
      IF Len(seen) = 1 THEN did[i][1] = seen[1]
      ELSE choice \in DOMAIN seen /\ did[i][1] = seen[choice]

\* A command ends, or waits for its user: neither a daemon that stops, that never
\* answers (Client::request) or that never stops sending events (print_logs) holds it.
CommandEnds == pc \notin {"off", "prompt", "done"} ~> pc \in {"prompt", "done"}
=============================================================================
