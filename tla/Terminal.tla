------------------------------ MODULE Terminal ------------------------------
(***************************************************************************)
(* The interactive terminal interface: the reducers of tui/state.rs, the   *)
(* event loop and its background requests (tui/app.rs), what a frame shows *)
(* (tui/view.rs), and the daemon's answers to the requests it makes        *)
(* (handle_request, daemon/main.rs).                                       *)
(*                                                                         *)
(* `ui` is the State struct.  apply_event, apply_outcome and handle_key    *)
(* are the operators ApplyEvent, ApplyOutcome and Press on it.  Rows keep  *)
(* what the properties tell apart: a device its id and badge, a plugin its *)
(* flag and the device it was fetched for, a transfer its counters.        *)
(***************************************************************************)
EXTENDS Naturals, Sequences, FiniteSets, Functions

CONSTANTS
  Devices, Transfers, Notes,
  KnownDevices,     \* the devices the daemon knows at the start
  None,
  NotificationCap,  \* NOTIFICATION_CAP
  LogCap,           \* LOG_CAP
  MaxEvents,        \* bound: events the daemon publishes
  MaxKeys,          \* bound: keys pressed
  MaxTasks          \* bound: background requests under way

ASSUME TerminalAssumption ==
  /\ NotificationCap \in Nat \ {0} /\ LogCap \in Nat \ {0}
  /\ MaxEvents \in Nat /\ MaxKeys \in Nat /\ MaxTasks \in Nat \ {0}
  /\ KnownDevices \subseteq Devices /\ None \notin Devices \cup Notes

VARIABLES
  pc,        \* where `run` is: "setup", "select", "exited"
  tty,       \* the terminal: "cooked", "raw", "alternate"
  ui,        \* State
  screen,    \* what the last frame shows
  server,    \* server_events: "open", "closed" by the daemon, "none"
  feed,      \* the events published but not yet applied
  tasks,     \* the background requests, by slot
  outcomes,  \* the channel of Outcomes
  known,     \* the daemon's table: "absent", "found" or "paired"
  subject,   \* the notification the user asked to answer
  replies,   \* the answers given: what was asked for, what it names
  published, pressed

vars == <<pc, tty, ui, screen, server, feed, tasks, outcomes, known, subject, replies,
          published, pressed>>

-----------------------------------------------------------------------------
(* State: the lists, their cursors and the two modes. *)

Tabs == <<"devices", "transfers", "notifications", "logs", "help">>
NextTab(t) == Tabs[CHOOSE i \in 1..5 : Tabs[((i + 3) % 5) + 1] = t]
PreviousTab(t) == Tabs[CHOOSE i \in 1..5 : Tabs[(i % 5) + 1] = t]

NewState ==
  [tab |-> "devices", help |-> FALSE, quit |-> FALSE, dirty |-> TRUE,
   shutdown |-> FALSE, daemon |-> FALSE, flash |-> None, clipboard |-> FALSE,
   devices |-> <<>>, device_cursor |-> 0,
   detail |-> None, plugins |-> <<>>, plugin_cursor |-> 0,
   transfers |-> [t \in {} |-> None], transfer_cursor |-> 0,
   notifications |-> <<>>, notification_cursor |-> 0,
   reply |-> None, draft |-> <<>>, logs |-> 0]

At(seq, cursor) == IF cursor < Len(seq) THEN seq[cursor + 1] ELSE None
ClampAt(cursor, len) == IF cursor < len THEN cursor ELSE IF len = 0 THEN 0 ELSE len - 1

ClampCursors(s) ==
  [s EXCEPT !.device_cursor = ClampAt(@, Len(s.devices)),
            !.plugin_cursor = ClampAt(@, Len(s.plugins)),
            !.transfer_cursor = ClampAt(@, Cardinality(DOMAIN s.transfers)),
            !.notification_cursor = ClampAt(@, Len(s.notifications))]

SetFlash(s, f) == [s EXCEPT !.flash = f, !.dirty = TRUE]
CloseDetail(s) == [s EXCEPT !.detail = None, !.plugins = <<>>, !.plugin_cursor = 0]
CancelReply(s) == [s EXCEPT !.reply = None, !.draft = <<>>]

\* push_log and push_notification drop the oldest beyond the cap.
Newest(seq, n) == SubSeq(seq, IF Len(seq) > n THEN Len(seq) - n + 1 ELSE 1, Len(seq))

\* The first row of that id is replaced.
Upsert(rows, row) ==
  LET IsFirst(i) == rows[i].id = row.id /\ \A j \in 1 .. i - 1 : rows[j].id # row.id
  IN IF \E i \in DOMAIN rows : IsFirst(i)
     THEN [i \in DOMAIN rows |-> IF IsFirst(i) THEN row ELSE rows[i]]
     ELSE Append(rows, row)

\* DeviceEntry::from_found and apply_state.
FromFound(d) == [id |-> d, paired |-> FALSE]
ApplyState(row, label) == [row EXCEPT !.paired = label = "paired"]

\* mark_finished fills the bar only if a size was ever reported.
MarkFinished(entry) == IF entry.total > 0 THEN [entry EXCEPT !.done = entry.total] ELSE entry

-----------------------------------------------------------------------------
(* State::apply_event. *)

Labels == {"paired", "unpaired", "online", "offline"}
Progresses == [done : 0..1, total : 0..1]

Events ==
  [kind : {"Hello", "ClipboardUpdated", "LogRecord", "DaemonShutdown", "TransferFailed"}]
  \cup [kind : {"DeviceFound", "DeviceLost"}, id : Devices]
  \cup [kind : {"DeviceStateChanged"}, id : Devices, label : Labels]
  \cup [kind : {"TransferAdded", "TransferFinished"}, id : Transfers]
  \cup [kind : {"TransferProgress"}, id : Transfers, at : Progresses]
  \cup [kind : {"NotificationReceived"}, id : Notes]

\* Insert or overwrite one entry of the transfer map.
PutTransfer(s, t, entry) ==
  [s EXCEPT !.transfers = [x \in DOMAIN @ \cup {t} |-> IF x = t THEN entry ELSE @[x]]]

Reduce(s, e) ==
  CASE e.kind = "Hello" -> [s EXCEPT !.daemon = TRUE]
    [] e.kind = "DeviceFound" -> [s EXCEPT !.devices = Upsert(@, FromFound(e.id))]
    [] e.kind = "DeviceLost" ->
         LET t == [s EXCEPT !.devices = SelectSeq(@, LAMBDA r : r.id # e.id)]
         IN IF s.detail = e.id THEN CloseDetail(t) ELSE t
    [] e.kind = "DeviceStateChanged" ->
         [s EXCEPT !.devices = [i \in DOMAIN @ |->
            IF @[i].id = e.id THEN ApplyState(@[i], e.label) ELSE @[i]]]
    [] e.kind = "TransferAdded" -> PutTransfer(s, e.id, [done |-> 0, total |-> 1])
    [] e.kind = "TransferProgress" -> PutTransfer(s, e.id, e.at)
    [] e.kind = "TransferFinished" ->
         IF e.id \in DOMAIN s.transfers
         THEN PutTransfer(s, e.id, MarkFinished(s.transfers[e.id])) ELSE s
    [] e.kind = "NotificationReceived" ->
         [s EXCEPT !.notifications = Newest(Append(@, e.id), NotificationCap)]
    [] e.kind = "ClipboardUpdated" -> [s EXCEPT !.clipboard = TRUE]
    [] e.kind = "LogRecord" -> [s EXCEPT !.logs = IF @ < LogCap THEN @ + 1 ELSE LogCap]
    [] e.kind = "DaemonShutdown" -> [s EXCEPT !.shutdown = TRUE, !.flash = "shutting down"]
    [] OTHER -> s

\* (mutant) a notification marks nothing for redrawing
ApplyEventQuietly(s, e) ==
  [ClampCursors(Reduce(s, e)) EXCEPT !.dirty = e.kind # "NotificationReceived" \/ s.dirty]

ApplyEvent(s, e) == [ClampCursors(Reduce(s, e)) EXCEPT !.dirty = TRUE]

-----------------------------------------------------------------------------
(* State::apply_outcome. *)

Flash(f)             == [kind |-> "Flash", text |-> f]
DeviceRows(rows)     == [kind |-> "Devices", rows |-> rows]
NoteRows(rows)       == [kind |-> "Notifications", rows |-> rows]
PluginRows(d, rows)  == [kind |-> "Plugins", device |-> d, rows |-> rows]

\* (mutant) rows are shown whichever device they are of
AnyPanel(s, d) == s.detail # None

IsPanelOf(s, d) == s.detail = d

ApplyOutcome(s, o) ==
  LET t == CASE o.kind = "Flash" -> [s EXCEPT !.flash = o.text]
             [] o.kind = "Devices" -> [s EXCEPT !.devices = o.rows]
             [] o.kind = "Notifications" ->
                  [s EXCEPT !.notifications = Newest(o.rows, NotificationCap)]
             [] o.kind = "Plugins" ->
                  IF IsPanelOf(s, o.device) THEN [s EXCEPT !.plugins = o.rows] ELSE s
  IN [ClampCursors(t) EXCEPT !.dirty = TRUE]

-----------------------------------------------------------------------------
(* State::handle_key: the state after a key press, and the Action it asks  *)
(* the loop for.  Keys that type a character into a reply are "Space" and  *)
(* the ones below that are letters; "ignored" stands for a key that is not *)
(* a press, another Ctrl chord or an unbound key.                          *)

Letters == {"q", "?", "p", "u", "r", "x"}
Keys == Letters \cup {"ignored", "Ctrl-C", "Tab", "BackTab", "Down", "Up", "Home", "End",
                      "Enter", "Esc", "Space", "Backspace"}

Only(s)    == [state |-> s, action |-> None]
Dirty(s)   == [s EXCEPT !.dirty = TRUE]
Do(s, job) == [state |-> s, action |-> job]

Job(kind, d) == [kind |-> kind, device |-> d, row |-> 0, enabled |-> FALSE]

SelectedDevice(s) == IF s.devices = <<>> THEN None ELSE s.devices[s.device_cursor + 1].id
SelectedNote(s)   == At(s.notifications, s.notification_cursor)

\* The list that has the focus, its cursor, and its length.
Focus(s) ==
  CASE s.tab = "devices" /\ s.detail # None -> "plugin_cursor"
    [] s.tab = "devices" /\ s.detail = None -> "device_cursor"
    [] s.tab = "transfers" -> "transfer_cursor"
    [] s.tab = "notifications" -> "notification_cursor"
    [] OTHER -> None

FocusedLen(s) ==
  CASE Focus(s) = "plugin_cursor" -> Len(s.plugins)
    [] Focus(s) = "device_cursor" -> Len(s.devices)
    [] Focus(s) = "transfer_cursor" -> Cardinality(DOMAIN s.transfers)
    [] Focus(s) = "notification_cursor" -> Len(s.notifications)
    [] OTHER -> 0

Step(cursor, down, len) ==
  IF down THEN (IF cursor < len - 1 THEN cursor + 1 ELSE len - 1)
          ELSE (IF cursor = 0 THEN 0 ELSE cursor - 1)

MoveTo(s, cursor) ==
  IF FocusedLen(s) = 0 THEN s ELSE Dirty([s EXCEPT ![Focus(s)] = cursor])

ToggleDetail(s) ==
  IF s.tab # "devices" THEN Only(s)
  ELSE IF s.detail # None THEN Only(Dirty(CloseDetail(s)))
  ELSE IF SelectedDevice(s) = None THEN Only(s)
  ELSE Do(Dirty([CloseDetail(s) EXCEPT !.detail = SelectedDevice(s)]),
          Job("load", SelectedDevice(s)))

OpenReply(s) ==
  IF s.tab = "notifications" /\ s.notifications # <<>>
  THEN Dirty([s EXCEPT !.reply = SelectedNote(s), !.draft = <<>>]) ELSE s

ReplyTarget(s) == s.reply

\* Enter sends a draft that is more than blanks, and closes the modal anyway.
SubmitReply(s) ==
  LET t == Dirty(CancelReply(s))
  IN IF "x" \in Range(s.draft) THEN Do(t, Job("reply", ReplyTarget(s))) ELSE Only(t)

HandleReplyKey(s, k) ==
  CASE k = "Enter" -> SubmitReply(s)
    [] k = "Esc" -> Only(Dirty(CancelReply(s)))
    [] k = "Backspace" ->
         Only(Dirty([s EXCEPT !.draft = IF @ = <<>> THEN @ ELSE SubSeq(@, 1, Len(@) - 1)]))
    [] k = "Space" -> Only(Dirty([s EXCEPT !.draft = Append(@, " ")]))
    [] k \in Letters -> Only(Dirty([s EXCEPT !.draft = Append(@, "x")]))
    [] OTHER -> Only(s)

HandleKey(s, k) ==
  CASE k = "q" -> Do(s, Job("quit", None))
    [] k = "?" -> Only(Dirty([s EXCEPT !.help = ~@]))
    [] k = "Tab" -> Only(Dirty(ClampCursors([s EXCEPT !.tab = NextTab(@)])))
    [] k = "BackTab" -> Only(Dirty(ClampCursors([s EXCEPT !.tab = PreviousTab(@)])))
    [] k \in {"Down", "Up"} /\ Focus(s) # None ->
         Only(MoveTo(s, Step(s[Focus(s)], k = "Down", FocusedLen(s))))
    [] k \in {"Home", "End"} /\ Focus(s) # None ->
         Only(MoveTo(s, IF k = "End" THEN FocusedLen(s) - 1 ELSE 0))
    [] k = "Enter" -> ToggleDetail(s)
    [] k = "Esc" ->
         Only(IF s.help THEN Dirty([s EXCEPT !.help = FALSE])
              ELSE IF s.detail # None THEN Dirty(CloseDetail(s)) ELSE s)
    [] k \in {"p", "u"} /\ s.tab = "devices" /\ s.devices # <<>> ->
         Do(s, Job(IF k = "p" THEN "pair" ELSE "unpair", SelectedDevice(s)))
    [] k = "r" -> Only(OpenReply(s))
    [] k = "Space" /\ s.tab = "devices" /\ s.detail # None /\ s.plugins # <<>> ->
         LET row == s.plugin_cursor + 1
         IN Do(s, [kind |-> "toggle", device |-> s.detail, row |-> row,
                   enabled |-> ~s.plugins[row].enabled])
    [] OTHER -> Only(s)

Press(s, k) ==
  CASE k = "Ctrl-C" -> Do(s, Job("quit", None))
    [] k = "ignored" -> Only(s)
    [] k \notin {"Ctrl-C", "ignored"} /\ s.reply # None -> HandleReplyKey(s, k)
    [] OTHER -> HandleKey(s, k)

-----------------------------------------------------------------------------
(* view::draw: what one frame shows of the state. *)

Percent(entry) ==
  IF entry.total = 0 THEN 0
  ELSE ((IF entry.done < entry.total THEN entry.done ELSE entry.total) * 100) \div entry.total

Header(s) == <<s.daemon, s.shutdown>>

PluginsPanel(s) == IF s.detail = None THEN None ELSE <<s.detail, s.plugins, s.plugin_cursor>>
DevicesBody(s) ==
  IF s.devices = <<>> THEN <<>> ELSE <<s.devices, s.device_cursor, PluginsPanel(s)>>
TransfersBody(s) ==
  <<[t \in DOMAIN s.transfers |-> Percent(s.transfers[t])], s.transfer_cursor>>
NotificationsBody(s) == <<s.notifications, s.notification_cursor>>
LogsBody(s) == <<s.logs>>

\* reply_subject: the row the draft answers, if it is still buffered.
ReplySubject(s) == IF s.reply \in Range(s.notifications) THEN s.reply ELSE None
ReplyModal(s) == IF s.reply = None THEN None ELSE <<ReplySubject(s), s.draft>>

Footer(s) == <<s.flash, s.clipboard>>

View(s) ==
  [header |-> Header(s), tab |-> s.tab,
   body |-> CASE s.tab = "devices" -> DevicesBody(s)
              [] s.tab = "transfers" -> TransfersBody(s)
              [] s.tab = "notifications" -> NotificationsBody(s)
              [] s.tab = "logs" -> LogsBody(s)
              [] s.tab = "help" -> <<>>,
   help |-> s.help, modal |-> ReplyModal(s), footer |-> Footer(s)]

-----------------------------------------------------------------------------
(* Background requests.  A task works through its legs, one request each,  *)
(* and sends the Outcome it has of each to the loop.                       *)

Nothing == [kind |-> "nothing"]

Task(job, legs) == [job |-> job, legs |-> legs]
Bootstrap == Task(Job("bootstrap", None), <<"devices", "notifications">>)

LegsOf(kind) ==
  CASE kind \in {"pair", "unpair"} -> <<kind, "refresh">>
    [] kind = "load" -> <<"plugins">>
    [] kind = "toggle" -> <<"set", "resync">>

FreeSlots == {i \in 1..MaxTasks : tasks[i] = None}
Spawn(task) == tasks' = [tasks EXCEPT ![CHOOSE i \in FreeSlots : TRUE] = task]

\* perform: what an Action does to the state at once.
Performed(s, job) ==
  CASE job.kind = "quit" -> [s EXCEPT !.quit = TRUE]
    [] job.kind \in {"pair", "unpair"} -> SetFlash(s, "pairing")
    [] job.kind = "toggle" ->
         SetFlash([s EXCEPT !.plugins[job.row].enabled = job.enabled], "toggling")
    [] OTHER -> s

\* handle_request: DeviceList, NotificationList and PluginList.  The plugin
\* rows say what a plugin is and its default, not whether it is enabled.
ListDevices ==
  LET listed == {d \in Devices : known[d] # "absent"}
      ids == CHOOSE q \in [1 .. Cardinality(listed) -> listed] : IsInjective(q)
  IN [i \in DOMAIN ids |-> [id |-> ids[i], paired |-> known[ids[i]] = "paired"]]
ListNotifications == <<>>
ListPlugins == <<[default_enabled |-> TRUE]>>

\* A missing flag is taken for FALSE.
ParsePlugins(d, rows) ==
  [i \in DOMAIN rows |->
     [of |-> d, enabled |-> "enabled" \in DOMAIN rows[i] /\ rows[i].enabled]]

\* What the task sends when a request fails.
FailedOutcome(leg) == IF leg \in {"refresh", "resync"} THEN Nothing ELSE Flash("failed")

Label(d, l) == [kind |-> "DeviceStateChanged", id |-> d, label |-> l]

\* Task i sends what it got of its leg and goes on to the next.
Sent(i, got) ==
  /\ outcomes' = IF got = Nothing THEN outcomes ELSE Append(outcomes, got)
  /\ tasks' = [tasks EXCEPT ![i] = IF Len(@.legs) = 1 THEN None ELSE [@ EXCEPT !.legs = Tail(@)]]

Handle(i) ==
  LET leg == Head(tasks[i].legs)
      d == tasks[i].job.device
  IN \/ /\ leg \in {"devices", "refresh"}
        /\ Sent(i, DeviceRows(ListDevices)) /\ UNCHANGED <<known, feed>>
     \/ /\ leg = "notifications"
        /\ Sent(i, NoteRows(ListNotifications)) /\ UNCHANGED <<known, feed>>
     \/ /\ leg \in {"plugins", "resync"}
        /\ Sent(i, PluginRows(d, ParsePlugins(d, ListPlugins))) /\ UNCHANGED <<known, feed>>
     \/ /\ leg = "set"
        /\ Sent(i, Nothing) /\ UNCHANGED <<known, feed>>
     \/ /\ leg = "pair" /\ known[d] = "found"  \* the peer accepts ...
        /\ Sent(i, Flash("requested"))
        /\ known' = [known EXCEPT ![d] = "paired"]
        /\ feed' = Append(feed, Label(d, "paired"))
     \/ /\ leg = "pair"                        \* ... or declines
        /\ Sent(i, Flash("requested")) /\ UNCHANGED <<known, feed>>
     \/ /\ leg = "unpair"
        /\ Sent(i, Flash("unpaired"))
        /\ known' = [known EXCEPT ![d] = IF @ = "absent" THEN @ ELSE "found"]
        /\ feed' = IF known[d] = "absent" THEN feed ELSE Append(feed, Label(d, "unpaired"))

\* One request of task i: answered by the daemon, or failed (an error
\* response, the 10 s timeout, a dead connection).
Request(i) ==
  /\ pc = "select" /\ tasks[i] # None
  /\ \/ server = "open" /\ Handle(i)
     \/ Sent(i, FailedOutcome(Head(tasks[i].legs))) /\ UNCHANGED <<known, feed>>
  /\ UNCHANGED <<pc, tty, ui, screen, server, subject, replies, published, pressed>>

-----------------------------------------------------------------------------
(* app::run.  One iteration of the loop is a step: the branch the select   *)
(* takes and then the top of the next round, which leaves or draws.  No    *)
(* other task reads `ui`.                                                  *)

Init ==
  /\ pc = "setup" /\ tty = "cooked"
  /\ ui = NewState /\ screen = None
  /\ server = "open" /\ feed = <<>>
  /\ tasks = [i \in 1..MaxTasks |-> None] /\ outcomes = <<>>
  /\ known = [d \in Devices |-> IF d \in KnownDevices THEN "found" ELSE "absent"]
  /\ subject = None /\ replies = {}
  /\ published = 0 /\ pressed = 0

\* TerminalGuard::drop, and the end of the process.
Leave == pc' = "exited" /\ tty' = "cooked" /\ ui' = NewState /\ screen' = None

Draw(s) == pc' = "select" /\ ui' = [s EXCEPT !.dirty = FALSE] /\ screen' = View(s)

\* The top of the loop in state s; drawing may fail.
Top(s) ==
  \/ s.quit /\ Leave
  \/ ~s.quit /\ s.dirty /\ Draw(s) /\ UNCHANGED tty
  \/ ~s.quit /\ s.dirty /\ Leave
  \/ ~s.quit /\ ~s.dirty /\ ui' = s /\ UNCHANGED <<pc, tty, screen>>

\* setup_terminal: raw mode, then the alternate screen; either may fail, and
\* the guard that restores the terminal does not exist before both are done.
Setup ==
  /\ pc = "setup"
  /\ \/ tty' = "alternate" /\ Draw(ui) /\ Spawn(Bootstrap)
     \/ pc' = "exited" /\ tty' \in {"cooked", "raw", "alternate"} /\ UNCHANGED <<ui, screen, tasks>>
  /\ UNCHANGED <<server, feed, outcomes, known, subject, replies, published, pressed>>

\* The branches of the biased select: an event before an outcome before
\* input.  What the daemon has published may still be under way to the client,
\* so an outcome or a key may come before it.
OnServerEvent ==
  /\ pc = "select"
  /\ \/ feed # <<>> /\ Top(ApplyEvent(ui, Head(feed))) /\ feed' = Tail(feed) /\ UNCHANGED server
     \/ feed = <<>> /\ server = "closed" /\ Top(SetFlash(ui, "disconnected")) /\ server' = "none" /\ UNCHANGED feed
  /\ UNCHANGED <<tasks, outcomes, known, subject, replies, published, pressed>>

OnOutcome ==
  /\ pc = "select" /\ outcomes # <<>>
  /\ Top(ApplyOutcome(ui, Head(outcomes))) /\ outcomes' = Tail(outcomes)
  /\ UNCHANGED <<server, feed, tasks, known, subject, replies, published, pressed>>

\* handle_terminal_event for a key, and the Action it leads to.
OnKey(k) ==
  LET pressing == Press(ui, k)
      job == pressing.action
      replying == job # None /\ job.kind = "reply"
  IN /\ pc = "select" /\ outcomes = <<>>
     /\ pressed < MaxKeys /\ pressed' = pressed + 1
     /\ Top(IF job = None THEN pressing.state ELSE Performed(pressing.state, job))
     /\ IF job # None /\ job.kind \in {"pair", "unpair", "load", "toggle"}
        THEN FreeSlots # {} /\ Spawn(Task(job, LegsOf(job.kind))) ELSE UNCHANGED tasks
     /\ outcomes' = IF replying THEN Append(outcomes, Flash("phase 3")) ELSE outcomes
     /\ replies' = IF replying THEN replies \cup {<<subject, job.device>>} ELSE replies
     /\ subject' = IF ui.reply = None THEN pressing.state.reply ELSE subject
     /\ UNCHANGED <<server, feed, known, published>>

\* A resize, an input error, or the tick, which only flushes what is dirty.
OnOther ==
  /\ pc = "select" /\ outcomes = <<>>
  /\ \/ pressed < MaxKeys /\ pressed' = pressed + 1
        /\ \E s \in {Dirty(ui), SetFlash(ui, "input error")} : Top(s)
     \/ Top(ui) /\ UNCHANGED pressed
  /\ UNCHANGED <<server, feed, tasks, outcomes, known, subject, replies, published>>

\* The daemon's side: what it publishes, and its end.  DeviceFound goes with
\* a new row of its table.  Nothing publishes DeviceLost yet; it stands for
\* what bus.rs says of it, a device that disappeared.
Publish(e) ==
  /\ pc = "select" /\ server = "open"
  /\ published < MaxEvents /\ published' = published + 1
  /\ e.kind = "DeviceFound" => known[e.id] = "absent"
  /\ e.kind \in {"DeviceLost", "DeviceStateChanged"} => known[e.id] # "absent"
  /\ known' = CASE e.kind = "DeviceFound" -> [known EXCEPT ![e.id] = "found"]
                [] e.kind = "DeviceLost" -> [known EXCEPT ![e.id] = "absent"]
                [] e.kind = "DeviceStateChanged" /\ e.label = "paired" ->
                     [known EXCEPT ![e.id] = "paired"]
                [] e.kind = "DeviceStateChanged" /\ e.label = "unpaired" ->
                     [known EXCEPT ![e.id] = "found"]
                [] OTHER -> known
  /\ feed' = Append(feed, e)
  /\ UNCHANGED <<pc, tty, ui, screen, server, tasks, outcomes, subject, replies, pressed>>

DaemonGone ==
  /\ pc = "select" /\ server = "open" /\ server' = "closed"
  /\ UNCHANGED <<pc, tty, ui, screen, feed, tasks, outcomes, known, subject, replies,
                 published, pressed>>

Loop == Setup \/ OnServerEvent \/ OnOutcome

Next ==
  \/ Loop
  \/ \E k \in Keys : OnKey(k)
  \/ OnOther
  \/ \E i \in 1..MaxTasks : Request(i)
  \/ \E e \in Events : Publish(e)
  \/ DaemonGone

Spec == Init /\ [][Next]_vars

\* The loop keeps polling, and a spawned task is scheduled; its requests end
\* because Client::request gives up after 10 s.
FairSpec ==
  /\ Spec
  /\ WF_vars(OnServerEvent \/ OnOutcome)
  /\ \A i \in 1..MaxTasks : WF_vars(Request(i))

-----------------------------------------------------------------------------
(* Properties. *)

\* No device is listed twice, whether it came by a list or by an event, and the
\* ring buffers stay within their caps.
ListsAreSound ==
  /\ IsInjective([i \in DOMAIN ui.devices |-> ui.devices[i].id])
  /\ Len(ui.notifications) <= NotificationCap
  /\ ui.logs <= LogCap

\* Whenever the loop waits, the screen shows the current state: no reducer
\* changes what a frame shows without setting `dirty` (app.rs, lines 86-95:
\* nothing but that flag makes the loop draw).
ScreenIsCurrent == pc = "select" => screen = View(ui)

\* Every cursor is on a row of its list, or 0 if the list is empty, however
\* lists shrink or are replaced while another tab is shown (clamp_cursors).
CursorsInRange ==
  /\ ui.device_cursor < Len(ui.devices) \/ ui.device_cursor = 0
  /\ ui.plugin_cursor < Len(ui.plugins) \/ ui.plugin_cursor = 0
  /\ ui.transfer_cursor < Cardinality(DOMAIN ui.transfers) \/ ui.transfer_cursor = 0
  /\ ui.notification_cursor < Len(ui.notifications) \/ ui.notification_cursor = 0

\* The panel never shows rows fetched for another device: the answer to a
\* request made before the panel was closed and opened elsewhere is dropped.
PanelOfDetail == \A i \in DOMAIN ui.plugins : ui.plugins[i].of = ui.detail

\* A reply names the notification that was selected when the modal opened,
\* whatever arrives or is evicted while the user types (state.rs, line 177).
ReplyToSelected == \A r \in replies : r[1] = r[2]

\* After "pairing ..." the footer reports what became of it: the request
\* ends, and its outcome is applied.
PairIsReported == (ui.flash = "pairing") ~> (ui.flash # "pairing" \/ pc = "exited")
=============================================================================
