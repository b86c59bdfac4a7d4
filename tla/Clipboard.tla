----------------------------- MODULE Clipboard ------------------------------
(***************************************************************************)
(* The clipboard of the desktop (wayland/clipboard.rs): get and set, and   *)
(* the thread that forwards every new text of the two selections.          *)
(* Other programs copy at any moment, also between an event and the read   *)
(* it causes, and a read may fail.                                         *)
(***************************************************************************)
EXTENDS Integers, Sequences

CONSTANTS
  None,
  Texts,
  MaxCopies,   \* bound: changes of the selections
  MaxFaults    \* bound: reads that fail, connections that end

VARIABLES
  text,        \* the selections of the compositor, None without text
  version,     \* of its zwlr_data_control_manager_v1; 0: not advertised
  pc,          \* of the watcher thread
  cache,       \* Core: last_regular, last_primary
  event,       \* selection events the compositor has sent
  base,        \* history: what the baseline read
  heard,       \* the last text of each selection the receiver was sent
  open,        \* the receiver has not been dropped
  missed,      \* history: selections whose last read failed
  copies, faults

vars == <<text, version, pc, cache, base, event, heard, open, missed, copies, faults>>

-----------------------------------------------------------------------------
Slots == {"regular", "primary"}
Running == {"baseRegular", "basePrimary", "attach", "loop", "regular", "primary"}

Init ==
  /\ text \in [Slots -> Texts \cup {None}]
  /\ version \in 0..2
  /\ pc = "off"
  /\ cache = [s \in Slots |-> None]
  /\ base = [s \in Slots |-> None]
  /\ heard = [s \in Slots |-> None]
  /\ event = FALSE /\ open = TRUE /\ missed = {}
  /\ copies = 0 /\ faults = 0

\* watch_text, spawn_watcher and Watcher::start: the environment, the connection, a
\* manager and a seat, or an error.
WatchText ==
  /\ pc = "off"
  /\ \/ version > 0 /\ pc' = "baseRegular"
     \/ pc' = "failed"
  /\ UNCHANGED <<text, version, cache, base, event, heard, open, missed, copies, faults>>

\* read_clipboard fails.
ReadFails(s) ==
  /\ faults < MaxFaults
  /\ faults' = faults + 1
  /\ missed' = missed \cup {s}

ReadWorks(s) == missed' = missed \ {s} /\ UNCHANGED faults

\* The baseline of Watcher::run, one selection after the other.
Baseline(s) ==
  /\ pc = IF s = "regular" THEN "baseRegular" ELSE "basePrimary"
  /\ pc' = IF s = "regular" THEN "basePrimary" ELSE "attach"
  /\ \/ /\ ReadWorks(s)
        /\ cache' = [cache EXCEPT ![s] = text[s]]
        /\ base' = [base EXCEPT ![s] = text[s]]
     \/ ReadFails(s) /\ UNCHANGED <<cache, base>>
  /\ UNCHANGED <<text, version, event, heard, open, copies>>

\* attach_devices: a new device is told the selections there are.
AttachDevices ==
  /\ pc = "attach"
  /\ pc' = "loop"
  /\ event' = TRUE
  /\ UNCHANGED <<text, version, cache, base, heard, open, missed, copies, faults>>

\* consumers_gone
ConsumersGone == ~open

\* Once round the loop of run: roundtrip takes in the events (the device's handler
\* sets dirty), and flush_changes clears dirty and reads both selections.
Roundtrip ==
  /\ pc = "loop"
  /\ \/ ConsumersGone /\ pc' = "ended" /\ UNCHANGED <<event, faults>>
     \/ ~ConsumersGone /\ event /\ pc' = "regular" /\ event' = FALSE /\ UNCHANGED faults
     \/ faults < MaxFaults /\ faults' = faults + 1 /\ pc' = "ended" /\ UNCHANGED event
  /\ UNCHANGED <<text, version, cache, base, heard, open, missed, copies>>

\* emit_changes for one selection.
Emit(s) ==
  /\ pc = s
  /\ pc' = IF s = "regular" THEN "primary" ELSE "loop"
  /\ \/ /\ ReadWorks(s)
        /\ cache' = [cache EXCEPT ![s] = text[s]]
        /\ heard' = IF open /\ text[s] \notin {None, cache[s]}
                    THEN [heard EXCEPT ![s] = text[s]] ELSE heard
     \/ ReadFails(s) /\ UNCHANGED <<cache, heard>>
  /\ UNCHANGED <<text, version, base, event, open, copies>>

\* (mutant) Events of the primary selection are ignored.
RegularOnly(s) == s = "regular"

\* The handler of ZwlrDataControlDeviceV1 takes both events; the manager's version
\* 2 has the second one.
Notified(s) == s = "regular" \/ version = 2

\* Another program, or set_text, replaces a selection.
Copy(s) ==
  \E t \in Texts \cup {None} :
    /\ copies < MaxCopies /\ t # text[s]
    /\ copies' = copies + 1
    /\ text' = [text EXCEPT ![s] = t]
    /\ event' = (event \/ (pc \in {"loop", "regular", "primary"} /\ Notified(s)))
    /\ UNCHANGED <<version, pc, cache, base, heard, open, missed, faults>>

DropReceiver ==
  /\ open /\ pc \in Running
  /\ open' = FALSE
  /\ UNCHANGED <<text, version, pc, cache, base, event, heard, missed, copies, faults>>

Watcher == Roundtrip \/ AttachDevices \/ \E s \in Slots : Baseline(s) \/ Emit(s)

Next == WatchText \/ Watcher \/ DropReceiver \/ \E s \in Slots : Copy(s)

\* The thread runs.
Fairness == WF_vars(Watcher)

Spec == Init /\ [][Next]_vars /\ Fairness

-----------------------------------------------------------------------------
(* Properties. *)

\* When no event is due, the last text of a selection that the receiver was sent is
\* the selection's, whatever was copied while the watcher took its baseline,
\* attached or read (Watcher::run, emit_changes).  Never sent are: the text the
\* baseline found, as long as nothing else was copied; that a selection was cleared
\* ("absent selections clear their cache silently"); what a failing read missed;
\* and the primary selection of a compositor without its event.
WatcherIsCurrent ==
  open /\ pc = "loop" /\ ~event =>
    \A s \in Slots \ missed :
      s = "regular" \/ version = 2 =>
        \/ text[s] \in {None, heard[s]}
        \/ heard[s] = None /\ text[s] = base[s]

\* "the watcher thread observes closure at its next loop iteration and tears down
\* its connection" (lines 57-59), with or without another change.
DropEndsWatcher == ~open ~> pc = "ended"
=============================================================================
