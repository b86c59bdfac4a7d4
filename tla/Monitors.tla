------------------------------ MODULE Monitors ------------------------------
(***************************************************************************)
(* The desktop listeners of the daemon (daemon/dbus.rs): the sysfs battery *)
(* poller, the UPower watcher and the notification listener.  What they    *)
(* watch changes while they read it, may fail to be read, and may go away. *)
(* They share nothing, so a behaviour has one of them.                     *)
(***************************************************************************)
EXTENDS Integers, Sequences, SequencesExt

CONSTANTS
  None,
  Supplies,    \* readings of all batteries, each a sequence; None: unreadable
  Devices,     \* UPower's percentage (in tenths) and state
  MaxChanges,  \* bound: changes of the batteries
  MaxFaults    \* bound: reads of UPower that fail

VARIABLES
  pc,          \* of each listener; "parked" for good
  sysfs,       \* /sys/class/power_supply
  last,        \* the level the poller reported last
  device,      \* the DisplayDevice as the proxy has it
  dirty,       \* properties whose change streams have something to say
  half,        \* the percentage read, while the state is being read
  shown,       \* the level the watcher reported last
  missed,      \* history: its last reading failed
  posted,      \* the notification signal republished last
  changes, faults

vars == <<pc, sysfs, last, device, dirty, half, shown, missed, posted, changes, faults>>

-----------------------------------------------------------------------------
Clamp(n) == IF n < 0 THEN 0 ELSE IF n > 100 THEN 100 ELSE n

\* summarize_levels: the average and the distinct states, in order.
States(levels) ==
  FoldLeft(LAMBDA s, b : IF Contains(s, b.status) THEN s ELSE Append(s, b.status),
           <<>>, levels)
SummarizeLevels(levels) ==
  [pct |-> Clamp(FoldSeq(LAMBDA b, n : b.capacity + n, 0, levels) \div Len(levels)),
   states |-> States(levels)]

\* read_sysfs_levels: what is not a battery or has no number is skipped, and a
\* battery without a status is "unknown".
ReadSysfsLevels ==
  LET known == SelectSeq(sysfs, LAMBDA s : s.bat /\ s.capacity # None) IN
    [i \in DOMAIN known |->
      [capacity |-> known[i].capacity,
       status |-> IF known[i].status = "" THEN "unknown" ELSE known[i].status]]

HasLevels == sysfs # None /\ ReadSysfsLevels # <<>>

\* read_upower_snapshot: a rounded percentage, and one label for every state
\* without a name of its own.
Snapshot(p, s) == [pct |-> Clamp((p + 5) \div 10), state |-> IF s \in 1..6 THEN s ELSE 0]

Listeners == {"sysfs", "upower", "notifications"}

Init ==
  /\ \E l \in Listeners :
       /\ pc = [k \in Listeners |-> IF k = l THEN "start" ELSE "absent"]
       /\ sysfs \in IF l = "sysfs" THEN Supplies ELSE {None}
       /\ device \in IF l = "upower" THEN Devices ELSE {None}
  /\ last = None /\ shown = None /\ half = None /\ posted = None
  /\ dirty = {} /\ missed = FALSE
  /\ changes = 0 /\ faults = 0

Go(l, p) == pc' = [pc EXCEPT ![l] = p]

\* park_forever: one warning, and nothing more.
Park(l) == Go(l, "parked")

-----------------------------------------------------------------------------
(* battery_monitor. *)

StartPolling ==
  /\ pc.sysfs = "start"
  /\ IF HasLevels
     THEN last' = SummarizeLevels(ReadSysfsLevels) /\ Go("sysfs", "polling")
     ELSE Park("sysfs") /\ UNCHANGED last
  /\ UNCHANGED <<sysfs, device, dirty, half, shown, missed, posted, changes, faults>>

\* (mutant) A change of the states alone is not news.
PercentDiffers(new, old) == new.pct # old.pct

\* Some(&snapshot) != last.as_ref()
Differs(new, old) == new # old

\* Once per SYSFS_POLL_INTERVAL; an unreadable or empty sysfs changes nothing.
Poll ==
  /\ pc.sysfs = "polling" /\ HasLevels
  /\ Differs(SummarizeLevels(ReadSysfsLevels), last)
  /\ last' = SummarizeLevels(ReadSysfsLevels)
  /\ UNCHANGED <<pc, sysfs, device, dirty, half, shown, missed, posted, changes, faults>>

BatteryChanges ==
  \E s \in Supplies :
    /\ pc.sysfs # "absent" /\ s # sysfs /\ changes < MaxChanges
    /\ sysfs' = s /\ changes' = changes + 1
    /\ UNCHANGED <<pc, last, device, dirty, half, shown, missed, posted, faults>>

-----------------------------------------------------------------------------
(* upower_battery. *)

\* The connection and the proxy, without which it parks.
ConnectUpower ==
  /\ pc.upower = "start"
  /\ Go("upower", "first") \/ Park("upower")
  /\ UNCHANGED <<sysfs, last, device, dirty, half, shown, missed, posted, changes, faults>>

\* read_upower_snapshot: two reads, between which the device may change.
ReadPercentage ==
  /\ pc.upower \in {"first", "again"}
  /\ half = None
  /\ half' = device.pct
  /\ UNCHANGED <<pc, sysfs, last, device, dirty, shown, missed, posted, changes, faults>>

\* The properties with a change stream.
Watched == {"pct", "state"}

\* The end of a reading, and for the first one the two subscriptions: a stream
\* starts with the value the proxy has.
AfterReading ==
  /\ Go("upower", "watch")
  /\ half' = None
  /\ dirty' = IF pc.upower = "first" /\ ~missed' THEN Watched ELSE dirty

ReadState ==
  /\ pc.upower \in {"first", "again"}
  /\ half # None
  /\ shown' = Snapshot(half, device.state)
  /\ missed' = FALSE
  /\ AfterReading
  /\ UNCHANGED <<sysfs, last, device, posted, changes, faults>>

\* Either read fails: the previous level is kept.
ReadFails ==
  /\ pc.upower \in {"first", "again"}
  /\ faults < MaxFaults
  /\ faults' = faults + 1
  /\ missed' = TRUE
  /\ AfterReading
  /\ UNCHANGED <<sysfs, last, device, shown, posted, changes>>

\* The select: a stream has news, which is then read afresh.
Changed ==
  \E p \in dirty :
    /\ pc.upower = "watch"
    /\ dirty' = dirty \ {p}
    /\ Go("upower", "again")
    /\ UNCHANGED <<sysfs, last, device, half, shown, missed, posted, changes, faults>>

\* PropertiesChanged reaches the proxy: each stream keeps the latest only.
DeviceChanges ==
  \E d \in Devices :
    /\ pc.upower # "absent" /\ d # device /\ changes < MaxChanges
    /\ changes' = changes + 1
    /\ device' = d
    /\ dirty' = IF pc.upower \in {"watch", "again"}
                THEN dirty \cup {p \in Watched : d[p] # device[p]} ELSE dirty
    /\ UNCHANGED <<pc, sysfs, last, half, shown, missed, posted, faults>>

-----------------------------------------------------------------------------
(* notifications_listener, and the end of a bus. *)

ConnectNotifications ==
  /\ pc.notifications = "start"
  /\ Go("notifications", "watch") \/ Park("notifications")
  /\ UNCHANGED <<sysfs, last, device, dirty, half, shown, missed, posted, changes, faults>>

\* publish_notification_signal: the number in the body, or else the member.
PublishNotificationSignal ==
  \E member \in {"ActionInvoked", "NotificationClosed", "Other"} :
    /\ pc.notifications = "watch"
    /\ posted' = [title |-> member, id |-> IF member = "Other" THEN member ELSE "number"]
    /\ UNCHANGED <<pc, sysfs, last, device, dirty, half, shown, missed, changes, faults>>

\* A stream that ends parks its listener.
StreamEnds ==
  \E l \in {"upower", "notifications"} :
    /\ pc[l] = "watch"
    /\ Park(l)
    /\ UNCHANGED <<sysfs, last, device, dirty, half, shown, missed, posted, changes, faults>>

Next ==
  \/ StartPolling \/ Poll \/ BatteryChanges
  \/ ConnectUpower \/ ReadPercentage \/ ReadState \/ ReadFails \/ Changed \/ DeviceChanges
  \/ ConnectNotifications \/ PublishNotificationSignal \/ StreamEnds

\* The poller's timer goes on.
Fairness == WF_vars(Poll)

Spec == Init /\ [][Next]_vars /\ Fairness

-----------------------------------------------------------------------------
(* Properties. *)

\* When UPower has nothing more to say the level reported is the device's,
\* although the percentage and the state are read one after the other and a
\* reading may mix two states of the device (run_upower_battery), unless the last
\* reading failed.
QuietIsCurrent ==
  pc.upower = "watch" /\ dirty = {} /\ ~missed =>
    shown = Snapshot(device.pct, device.state)

\* Once the batteries stay as they are, the poller's next reports give their
\* level, whatever was unreadable in between (battery_monitor).
BatteryIsReported ==
  pc.sysfs = "polling" /\ changes = MaxChanges ~>
    (HasLevels => last = SummarizeLevels(ReadSysfsLevels))
=============================================================================
