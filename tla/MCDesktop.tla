----------------------------- MODULE MCDesktop ------------------------------
(***************************************************************************)
(* What surrounds the protocol on one desktop, for model checking: the     *)
(* daemon's process and its supervised tasks, the streams it reads, its    *)
(* desktop listeners and clipboard, and the hfctl commands.  They share no *)
(* state, so a behaviour is one of a single part, and the other parts stay *)
(* as they are.                                                            *)
(***************************************************************************)
EXTENDS Host, Sequences

CONSTANTS
  Prefix, MaxLen, MaxSent,
  MaxBatteryChanges, ReadFaults,
  Bins, Shown, MaxOps,
  Texts, MaxCopies, ClipFaults,
  Ids, Window, MaxRecords, MaxChanges,
  Calls, Names

VARIABLES
  part,
  codec, wire, eof, buf, line, reading, got, sent,
  mpc, sysfs, last, device, dirty, half, shown, missed, posted, mchanges, mfaults,
  scope, files, uca, cut, outcome, ops,
  text, version, cpc, cache, base, event, heard, open, cmissed, copies, cfaults,
  up, known, online, paired, parked, upc, cmd, target, seen, choice, nth, request, reply, did,
  said, status, clock, records, changes,
  shutdown, table, restarts, call, stopper, batch, doomed

framingvars == <<codec, wire, eof, buf, line, reading, got, sent>>
monitorvars == <<mpc, sysfs, last, device, dirty, half, shown, missed, posted, mchanges,
                 mfaults>>
menuvars == <<scope, files, uca, cut, outcome, ops>>
clipvars == <<text, version, cpc, cache, base, event, heard, open, cmissed, copies, cfaults>>
hfctlvars == <<up, known, online, paired, parked, upc, cmd, target, seen, choice, nth,
               request, reply, did, said, status, clock, records, changes>>
supervisorvars == <<shutdown, table, restarts, call, stopper, batch, doomed>>
MCvars == <<part, vars, framingvars, monitorvars, menuvars, clipvars, hfctlvars,
            supervisorvars>>

-----------------------------------------------------------------------------
\* No battery, a level over 100, an average that rounds down, a status that is
\* missing, a supply that is no battery and one without a number.
Bat(c, s) == [bat |-> TRUE, capacity |-> c, status |-> s]
Supplies ==
  {None, <<>>,
   <<Bat(50, "charging"), Bat(101, "charging")>>,
   <<Bat(51, "full"), Bat(50, "")>>,
   <<[bat |-> FALSE, capacity |-> None, status |-> ""], Bat(None, "full"), Bat(50, "full")>>}

\* Percentages on both sides of the rounding, and a state without a label.
Displays ==
  {[pct |-> 504, state |-> 1], [pct |-> 505, state |-> 2], [pct |-> 505, state |-> 9]}

Paths == <<"p", "q">>

\* The two selections are never compared, so what one of them holds at first may
\* be taken to be always the same text.
FirstText == CHOOSE t \in Texts : TRUE

F == INSTANCE Framing WITH status <- reading
M == INSTANCE Monitors WITH pc <- mpc, changes <- mchanges, faults <- mfaults,
       Devices <- Displays, MaxChanges <- MaxBatteryChanges, MaxFaults <- ReadFaults
X == INSTANCE FileManager WITH Devices <- Shown
C == INSTANCE Clipboard WITH pc <- cpc, missed <- cmissed, faults <- cfaults,
       MaxFaults <- ClipFaults
U == INSTANCE Hfctl WITH pc <- upc
S == INSTANCE Supervisor WITH OneShot <- {}, BaseBackoff <- 1, MaxBackoff <- 1,
       MaxFailures <- 0, MaxRestarts <- 0

MCInit ==
  /\ part \in {"host", "framing", "monitors", "menus", "clipboard", "hfctl", "supervisor"}
  /\ Init /\ (part # "host" => socket = None)
  /\ F!Init /\ (part # "framing" => codec = "ipc")
  /\ M!Init /\ (part # "monitors" => mpc.sysfs = "start" /\ sysfs = None)
  /\ X!Init /\ (part # "menus" => scope = "system")
  /\ C!Init
  /\ \A s \in DOMAIN text : text[s] \in {None, FirstText}
  /\ part # "clipboard" => version = 0 /\ \A s \in DOMAIN text : text[s] = None
  /\ U!Init /\ (part # "hfctl" => ~up /\ known = <<>>)
  /\ S!Init

\* The supervisor treats a panic as it treats an error (Crashed), so that here it
\* is enough if children fail.
NobodyPanics == \A g \in Calls : call[g].child # "panicked"

MCNext ==
  /\ UNCHANGED part
  /\ \/ /\ part = "host" /\ Next
        /\ UNCHANGED <<framingvars, monitorvars, menuvars, clipvars, hfctlvars, supervisorvars>>
     \/ /\ part = "framing" /\ F!Next
        /\ UNCHANGED <<vars, monitorvars, menuvars, clipvars, hfctlvars, supervisorvars>>
     \/ /\ part = "monitors" /\ M!Next
        /\ UNCHANGED <<vars, framingvars, menuvars, clipvars, hfctlvars, supervisorvars>>
     \/ /\ part = "menus" /\ X!Next
        /\ UNCHANGED <<vars, framingvars, monitorvars, clipvars, hfctlvars, supervisorvars>>
     \/ /\ part = "clipboard" /\ C!Next
        /\ UNCHANGED <<vars, framingvars, monitorvars, menuvars, hfctlvars, supervisorvars>>
     \/ /\ part = "hfctl" /\ U!Next
        /\ UNCHANGED <<vars, framingvars, monitorvars, menuvars, clipvars, supervisorvars>>
     \/ /\ part = "supervisor" /\ S!Next /\ NobodyPanics'
        /\ UNCHANGED <<vars, framingvars, monitorvars, menuvars, clipvars, hfctlvars>>

\* The fairness of each part; none of it asks for a step of a part in its
\* initial state.
MCSpec ==
  /\ MCInit /\ [][MCNext]_MCvars
  /\ Fairness /\ M!Fairness /\ C!Fairness /\ U!Fairness /\ S!Fairness

-----------------------------------------------------------------------------
(* Properties; StableIdentity is in Host. *)

\* A daemon comes to listen on its socket, whatever the process before it left at
\* the path (Server::bind), and its crashed tasks run again, unless superseded or
\* shut down (watch_loop).
ComesBack == StartsServing /\ S!CrashIsRestarted

\* However a stream cuts and joins what was written, every byte of it belongs to a
\* frame that was returned, in order, or is still there for the next read, and a
\* reader stops for size only at a message over the limit (FrameReader, read_frame,
\* Packet::read_from, read_plaintext_identity).
FramesAreWhole == F!Lossless /\ F!OnlyOversizeRefused

\* When no event is due, what the listeners last reported is how things are:
\* the device's level, although a reading of UPower may mix two states of it
\* (run_upower_battery), and the selections, unless they are as the watcher found
\* them at its start, cleared, or not to be read the last time (Watcher::run,
\* emit_changes).
WatchersAreCurrent == M!QuietIsCurrent /\ C!WatcherIsCurrent

\* Once the batteries stay as they are the poller reports their level
\* (battery_monitor).
BatteryIsReported == M!BatteryIsReported

\* What hfctl says is so: what it prints as done the daemon did, and status 0 means
\* all of it (expect_ok, print_send), but for two commands that nothing comes of;
\* `send --pick` sends to the device whose row the user chose (pick_device); and a
\* file manager command that reports success has done what it is for, after any
\* others and any failures (install, update, remove).
ReportIsTrue == U!ClaimIsTrue /\ U!PickedAsShown /\ X!OutcomeIsTrue

\* No command adds, removes or reorders what in uca.xml is the user's, but for one
\* whose write is interrupted, which does not report success and may lose the end
\* of it (thunar_merge, strip_action_block).
UserActionsKept == X!UserActionsKept

\* What should end ends: shutdown_all returns, whatever the children do; a clipboard
\* watcher whose receiver is dropped ends, with or without another change, provided
\* that the programs it reads from answer (consumers_gone); a command ends or waits
\* for its user, whatever the daemon does (print_logs, Client::request).
StopsWhenTold == S!ShutdownTerminates /\ C!DropEndsWatcher /\ U!CommandEnds
=============================================================================
