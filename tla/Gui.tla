-------------------------------- MODULE Gui --------------------------------
(***************************************************************************)
(* The graphical interface: the reducer of gui/app.rs over the state of    *)
(* gui/model.rs, the clicks gui/view.rs offers, and the IPC driver thread  *)
(* of gui/bridge.rs, with the daemon it connects to.                       *)
(*                                                                         *)
(* The reducer and the driver share two unbounded channels: `inbox` to the *)
(* reducer, `commands` to the driver.  The driver works on one connection  *)
(* at a time and awaits each request, while events pile up in `buffered`.  *)
(***************************************************************************)
EXTENDS Naturals, FiniteSets, Functions, SequencesExt

CONSTANTS
  Devices, Plugins, Transfers, Notes,
  None,
  NotifCap,    \* NOTIF_CAP
  MaxEvents,   \* bound: events the daemon publishes
  MaxClicks,   \* bound: clicks
  MaxFaults     \* bound: times the daemon stops or answers too late

VARIABLES
  app,       \* HandfastApp
  inbox,     \* Messages of the driver on their way to `update`
  commands,  \* BridgeIn commands on their way to the driver
  driver,    \* "start", "connect", "devices", "notifications", "session", "backoff"
  link,      \* the connection: "none", "up", "dead"
  owed,      \* the request it gave up on after 10 s, whose answer is still to come
  buffered,  \* events the daemon sent on it that the driver has not taken
  loaded,    \* this connection has given a device list
  daemon,    \* "up", "down"
  known,     \* its table: "absent", "found" or "paired"
  published, clicked, faults

vars == <<app, inbox, commands, driver, link, owed, buffered, loaded, daemon, known,
          published, clicked, faults>>

outage == <<owed, faults>>

-----------------------------------------------------------------------------
(* HandfastApp.  `selected` is a position, 0 for none.  A card keeps its   *)
(* id, badge and label; a plugin row also the device it was fetched for.   *)

NewApp ==
  [conn |-> "disconnected", tab |-> "devices", devices |-> <<>>, selected |-> 0,
   selected_id |-> None, plugins |-> <<>>, transfers |-> [t \in {} |-> None],
   notifications |-> <<>>, banner |-> FALSE, bridge |-> FALSE,
   pair_target |-> None, unpair_target |-> None,
   clipboard_draft |-> FALSE, clipboard_status |-> None, file_path_draft |-> FALSE,
   daemon_version |-> FALSE, settings_open |-> FALSE, plugin_toggles |-> [k \in {} |-> FALSE]]

SetBanner(a) == [a EXCEPT !.banner = TRUE]

Position(a, id) == SelectInSeq(a.devices, LAMBDA card : card.id = id)
SelectedDevice(a) == IF a.selected \in DOMAIN a.devices THEN a.devices[a.selected].id ELSE None

\* device_mut: the card of a device, and what it is set to if there is one.
Card(a, id) == a.devices[Position(a, id)]
SetCard(a, id, card) ==
  IF Position(a, id) = 0 THEN a ELSE [a EXCEPT !.devices[Position(a, id)] = card]

SyncSelection(a) == [a EXCEPT !.selected = Position(a, a.selected_id)]

FromFound(id) == [id |-> id, paired |-> FALSE, state |-> "found"]
ApplyState(card, label) == [card EXCEPT !.state = label, !.paired = label = "paired"]

\* A row that is known keeps a size it has learned.
UpdateRow(row, at) ==
  [done |-> at.done, total |-> IF at.total > 0 \/ row.total = 0 THEN at.total ELSE row.total]

PutTransfer(a, id, row) ==
  [a EXCEPT !.transfers = [x \in DOMAIN @ \cup {id} |-> IF x = id THEN row ELSE @[x]]]

RecordToggle(a, d, p, enabled) ==
  [a EXCEPT !.plugin_toggles =
     [k \in DOMAIN @ \cup {<<d, p>>} |-> IF k = <<d, p>> THEN enabled ELSE @[k]]]

\* apply_persisted_toggles.
Overlaid(rows, d, toggles) ==
  [i \in DOMAIN rows |->
     IF <<d, rows[i].name>> \in DOMAIN toggles
     THEN [rows[i] EXCEPT !.enabled = toggles[<<d, rows[i].name>>]] ELSE rows[i]]

-----------------------------------------------------------------------------
(* handle_event. *)

Labels == {"paired", "unpaired", "online", "offline"}
Progresses == [done : {1}, total : {0, 2}]

Events ==
  [kind : {"Hello", "DaemonShutdown", "LogRecord"}]
  \cup [kind : {"DeviceFound", "DeviceLost"}, id : Devices]
  \cup [kind : {"DeviceStateChanged"}, id : Devices, label : Labels]
  \cup [kind : {"TransferAdded", "TransferFinished", "TransferFailed"}, id : Transfers]
  \cup [kind : {"TransferProgress"}, id : Transfers, at : Progresses]
  \cup [kind : {"NotificationReceived"}, id : Notes]

Lost(a, id) ==
  LET gone == [a EXCEPT !.devices = SelectSeq(@, LAMBDA card : card.id # id)]
      deselected == IF a.selected_id # id THEN gone
                    ELSE [gone EXCEPT !.selected_id = None, !.plugins = <<>>]
  IN [SyncSelection(deselected) EXCEPT
        !.pair_target = IF @ = id THEN None ELSE @,
        !.unpair_target = IF @ = id THEN None ELSE @]

PushNotification(a, n) ==
  [a EXCEPT !.notifications = SubSeq(<<n>> \o @, 1, IF Len(@) < NotifCap THEN Len(@) + 1 ELSE NotifCap)]

HandleEvent(a, e) ==
  CASE e.kind = "Hello" -> [a EXCEPT !.daemon_version = TRUE]
    [] e.kind = "DeviceFound" ->
         IF Position(a, e.id) # 0 THEN a
         ELSE [a EXCEPT !.devices = Append(@, FromFound(e.id))]
    [] e.kind = "DeviceLost" -> Lost(a, e.id)
    [] e.kind = "DeviceStateChanged" ->
         SetCard(a, e.id, ApplyState(Card(a, e.id), e.label))
    [] e.kind = "TransferAdded" -> PutTransfer(a, e.id, [done |-> 0, total |-> 2])
    [] e.kind = "TransferProgress" ->
         PutTransfer(a, e.id, UpdateRow(IF e.id \in DOMAIN a.transfers THEN a.transfers[e.id]
                                        ELSE [done |-> 0, total |-> 0], e.at))
    [] e.kind = "TransferFinished" /\ e.id \in DOMAIN a.transfers ->
         PutTransfer(a, e.id, LET row == a.transfers[e.id]
                              IN IF row.total > 0 THEN [row EXCEPT !.done = row.total] ELSE row)
    [] e.kind = "TransferFailed" -> [a EXCEPT !.transfers = Restrict(@, DOMAIN @ \ {e.id})]
    [] e.kind = "NotificationReceived" -> PushNotification(a, e.id)
    [] e.kind = "DaemonShutdown" -> SetBanner(a)
    [] OTHER -> a

-----------------------------------------------------------------------------
(* HandfastApp::update, for the messages of the driver. *)

Msg(kind)        == [kind |-> kind]
Status(conn)     == [kind |-> "IpcStatus", conn |-> conn]
Loaded(kind, rs) == [kind |-> kind, rows |-> rs]
Ack(kind, ok)    == [kind |-> kind, ok |-> ok]
EventMsg(e)      == [kind |-> "Event", event |-> e]

FinishPairing(a, ok, unpair) ==
  LET target == IF unpair THEN a.unpair_target ELSE a.pair_target
      taken == IF unpair THEN [a EXCEPT !.unpair_target = None] ELSE [a EXCEPT !.pair_target = None]
      card == Card(taken, target)
      acknowledged == [card EXCEPT !.paired = ~unpair,
                                   !.state = IF unpair THEN "found" ELSE "paired"]
      reverted == [card EXCEPT !.state = IF unpair /\ @ = "unpairing" THEN "paired"
                                         ELSE IF ~unpair /\ @ = "pairing" THEN "found" ELSE @]
  IN IF ok THEN SetCard(taken, target, acknowledged)
           ELSE SetBanner(SetCard(taken, target, reverted))

Received(a, m) ==
  CASE m.kind = "IpcStatus" ->
         [a EXCEPT !.conn = m.conn, !.banner = @ /\ m.conn # "connected"]
    [] m.kind = "BridgeReady" -> [a EXCEPT !.bridge = TRUE]
    [] m.kind \in {"ConnectionLost", "LoadFailed"} -> SetBanner(a)
    [] m.kind = "DevicesLoaded" ->
         [a EXCEPT !.devices = m.rows, !.selected = 0, !.selected_id = None, !.plugins = <<>>]
    [] m.kind = "PluginsLoaded" ->
         [a EXCEPT !.plugins = IF SelectedDevice(a) = None THEN m.rows
                               ELSE Overlaid(m.rows, SelectedDevice(a), a.plugin_toggles)]
    [] m.kind = "NotificationsLoaded" -> [a EXCEPT !.notifications = m.rows]
    [] m.kind = "Paired" -> FinishPairing(a, m.ok, FALSE)
    [] m.kind = "Unpaired" -> FinishPairing(a, m.ok, TRUE)
    [] m.kind \in {"FileQueued", "Dismissed", "PluginSet"} -> IF m.ok THEN a ELSE SetBanner(a)
    [] m.kind = "ClipboardSet" ->
         [a EXCEPT !.clipboard_status = IF m.ok THEN "copied" ELSE "error"]
    [] m.kind = "Event" -> HandleEvent(a, m.event)

-----------------------------------------------------------------------------
(* view.rs: what can be clicked or typed. *)

Tabs == {"devices", "transfers", "notifications", "logs"}

Click(kind)       == [kind |-> kind]
ClickOn(kind, id) == [kind |-> kind, id |-> id]

Sidebar(a) ==
  {[kind |-> "TabSelected", tab |-> t] : t \in Tabs \ {a.tab}}
  \cup {Click("SettingsPressed")}
  \cup (IF a.conn = "connected" THEN {Click("RefreshPressed")} ELSE {})

\* Enter in the field sends whatever the button would allow.
ClipboardPanel(a) ==
  {Click("SendPressed")} \cup {[kind |-> "ClipboardChanged", filled |-> f] : f \in BOOLEAN}

DeviceRow(a, i) ==
  LET card == a.devices[i]
  IN {[kind |-> "DeviceSelected", index |-> i]}
     \cup (IF card.state \in {"pairing", "unpairing"} THEN {}
           ELSE {ClickOn(IF card.paired THEN "UnpairPressed" ELSE "PairPressed", card.id)})

DetailPanel(a) ==
  {[kind |-> "TogglePlugin", plugin |-> row.name, enabled |-> ~row.enabled] :
     row \in ToSet(a.plugins)}
  \cup {Click("QueueFilePressed")}
  \cup {[kind |-> "PathChanged", filled |-> f] : f \in BOOLEAN}

DevicesPane(a) ==
  UNION {DeviceRow(a, i) : i \in DOMAIN a.devices}
  \cup (IF SelectedDevice(a) = None THEN {} ELSE DetailPanel(a))

NotificationsPane(a) == {ClickOn("DismissPressed", n) : n \in ToSet(a.notifications)}

\* The rows of the selected device, and the remembered toggles of every other.
SettingsEntries(a, d) ==
  LET rows == IF SelectedDevice(a) = d THEN ToSet(a.plugins) ELSE {}
      remembered == {p \in Plugins : <<d, p>> \in DOMAIN a.plugin_toggles}
  IN {<<p, a.plugin_toggles[<<d, p>>]>> : p \in remembered}
     \cup {<<row.name, row.enabled>> : row \in {r \in rows : r.name \notin remembered}}

SettingsPanel(a) ==
  UNION {{[kind |-> "ToggleSavedPlugin", id |-> card.id, plugin |-> entry[1],
           enabled |-> ~entry[2]] : entry \in SettingsEntries(a, card.id)}
         : card \in ToSet(a.devices)}

Offered(a) ==
  (IF a.banner THEN {Click("BannerClosed")} ELSE {})
  \cup Sidebar(a) \cup ClipboardPanel(a)
  \cup (IF a.settings_open THEN SettingsPanel(a) ELSE {})
  \cup (IF a.tab = "devices" THEN DevicesPane(a) ELSE {})
  \cup (IF a.tab = "notifications" THEN NotificationsPane(a) ELSE {})

-----------------------------------------------------------------------------
(* HandfastApp::update, for clicks: the command a click leads to, and the  *)
(* state after it.  dispatch fails until the driver has announced itself.  *)

Command(kind, id)          == [kind |-> kind, id |-> id]
SetPlugin(id, p, enabled)  == [kind |-> "SetPlugin", id |-> id, plugin |-> p, enabled |-> enabled]

Dispatched(a, m) ==
  CASE m.kind = "DeviceSelected" -> Command("ListPlugins", a.devices[m.index].id)
    [] m.kind = "PairPressed" -> Command("Pair", m.id)
    [] m.kind = "UnpairPressed" -> Command("Unpair", m.id)
    [] m.kind = "TogglePlugin" -> SetPlugin(SelectedDevice(a), m.plugin, m.enabled)
    [] m.kind = "ToggleSavedPlugin" -> SetPlugin(m.id, m.plugin, m.enabled)
    [] m.kind = "QueueFilePressed" /\ a.file_path_draft -> Command("SendFile", SelectedDevice(a))
    [] m.kind = "DismissPressed" -> Command("DismissNotification", m.id)
    [] m.kind = "SendPressed" /\ a.clipboard_draft -> Command("ClipboardSet", None)
    [] m.kind = "RefreshPressed" -> Command("RefreshDevices", None)
    [] OTHER -> None

Clicked(a, m) ==
  CASE m.kind = "TabSelected" -> [a EXCEPT !.tab = m.tab]
    [] m.kind = "BannerClosed" -> [a EXCEPT !.banner = FALSE]
    [] m.kind = "SettingsPressed" -> [a EXCEPT !.settings_open = ~@]
    [] m.kind = "ClipboardChanged" -> [a EXCEPT !.clipboard_draft = m.filled]
    [] m.kind = "PathChanged" -> [a EXCEPT !.file_path_draft = m.filled]
    [] m.kind = "DeviceSelected" ->
         [a EXCEPT !.selected_id = a.devices[m.index].id, !.selected = m.index, !.plugins = <<>>]
    [] m.kind = "PairPressed" ->
         [SetCard(a, m.id, [Card(a, m.id) EXCEPT !.state = "pairing"])
            EXCEPT !.pair_target = m.id]
    [] m.kind = "UnpairPressed" ->
         [SetCard(a, m.id, [Card(a, m.id) EXCEPT !.state = "unpairing"])
            EXCEPT !.unpair_target = m.id]
    [] m.kind = "TogglePlugin" ->
         [RecordToggle(a, SelectedDevice(a), m.plugin, m.enabled) EXCEPT
            !.plugins = [i \in DOMAIN @ |->
              IF @[i].name = m.plugin THEN [@[i] EXCEPT !.enabled = m.enabled] ELSE @[i]]]
    [] m.kind = "ToggleSavedPlugin" -> RecordToggle(a, m.id, m.plugin, m.enabled)
    [] m.kind = "QueueFilePressed" -> IF a.file_path_draft THEN a ELSE SetBanner(a)
    [] m.kind = "DismissPressed" ->
         [a EXCEPT !.notifications = SelectSeq(@, LAMBDA n : n # m.id)]
    [] m.kind = "SendPressed" ->
         [a EXCEPT !.clipboard_status = IF a.clipboard_draft THEN "sending" ELSE "nothing to send"]
    [] OTHER -> a

NotConnected(a, m) ==
  CASE m.kind = "DismissPressed" -> a
    [] m.kind = "SendPressed" -> [a EXCEPT !.clipboard_status = "not connected"]
    [] OTHER -> SetBanner(a)

-----------------------------------------------------------------------------
(* The daemon's answers (handle_request). *)

ListDevices ==
  LET ids == SetToSeq({d \in Devices : known[d] # "absent"})
  IN [i \in DOMAIN ids |->
        [id |-> ids[i], paired |-> known[ids[i]] = "paired", state |-> "found"]]

\* parse_plugins: the daemon's rows have no flag, which reads as FALSE.
ListPlugins(d) ==
  LET names == SetToSeq(Plugins)
  IN [i \in DOMAIN names |-> [of |-> d, name |-> names[i], enabled |-> FALSE]]

Label(d, l) == [kind |-> "DeviceStateChanged", id |-> d, label |-> l]

\* What a request changes.  Pair is answered Ok whether the peer accepts or
\* declines.
Handled(c) ==
  \/ c.kind # "Unpair" /\ UNCHANGED <<known, buffered>>
  \/ /\ c.kind = "Pair" /\ known[c.id] = "found"
     /\ known' = [known EXCEPT ![c.id] = "paired"]
     /\ buffered' = Append(buffered, Label(c.id, "paired"))
  \/ /\ c.kind = "Unpair" /\ known[c.id] # "absent"
     /\ known' = [known EXCEPT ![c.id] = "found"]
     /\ buffered' = Append(buffered, Label(c.id, "unpaired"))

\* A request answered with an error may have been carried out.
Failed(c) == UNCHANGED <<known, buffered>> \/ Handled(c)

-----------------------------------------------------------------------------
(* The driver thread. *)

Init ==
  /\ app = NewApp
  /\ inbox = <<>> /\ commands = <<>>
  /\ driver = "start" /\ link = "none" /\ owed = None /\ buffered = <<>> /\ loaded = FALSE
  /\ daemon \in {"up", "down"}
  /\ known \in [Devices -> {"absent", "paired"}]
  /\ published = 0 /\ clicked = 0 /\ faults = 0

Notify(messages) == inbox' = inbox \o messages

\* Client::request: after a timeout the connection is marked dead, and every later
\* request on it fails at once.  The events of the daemon still arrive.
Usable == link = "up" /\ owed = None

GivesUpOn(c) ==
  /\ Usable /\ faults < MaxFaults
  /\ owed' = c /\ faults' = faults + 1 /\ UNCHANGED link

DriverOnly == UNCHANGED <<app, daemon, known, published, clicked>>

\* drive.
Drive ==
  /\ driver = "start" /\ driver' = "connect"
  /\ Notify(<<Msg("BridgeReady")>>)
  /\ UNCHANGED <<commands, link, outage, buffered, loaded>> /\ DriverOnly

\* One turn of run_sessions.  The daemon queues its Hello first.
Connect ==
  /\ driver = "connect"
  /\ \/ /\ daemon = "up" /\ driver' = "devices"
        /\ link' = "up" /\ buffered' = <<Msg("Hello")>> /\ loaded' = FALSE
        /\ Notify(<<Status("connecting"), Status("connected")>>)
     \/ /\ daemon = "down" /\ driver' = "backoff"
        /\ Notify(<<Status("connecting"), Status("disconnected"), Msg("ConnectionLost")>>)
        /\ UNCHANGED <<link, buffered, loaded>>
  /\ UNCHANGED <<commands, outage>> /\ DriverOnly

\* load_snapshot.
LoadDevices ==
  /\ driver = "devices" /\ driver' = "notifications"
  /\ \/ /\ Usable /\ Notify(<<Loaded("DevicesLoaded", ListDevices)>>)
        /\ loaded' = TRUE /\ UNCHANGED <<link, outage>>
     \/ /\ Notify(<<Msg("LoadFailed")>>) /\ UNCHANGED loaded
        /\ UNCHANGED <<link, outage>> \/ GivesUpOn(Command("RefreshDevices", None))
  /\ UNCHANGED <<commands, buffered>> /\ DriverOnly

\* (mutant) the events that came before the receiver was claimed are lost
TakeLate(events) == <<>>

TakeEventReceiver(events) == events

LoadNotifications ==
  /\ driver = "notifications" /\ driver' = "session"
  /\ \/ Usable /\ Notify(<<Loaded("NotificationsLoaded", <<>>)>>) /\ UNCHANGED <<link, outage>>
     \/ /\ Notify(<<Msg("LoadFailed")>>)
        /\ UNCHANGED <<link, outage>> \/ GivesUpOn(Command("RefreshDevices", None))
  /\ buffered' = TakeEventReceiver(buffered)
  /\ UNCHANGED <<commands, loaded>> /\ DriverOnly

OnEvent ==
  /\ driver = "session" /\ buffered # <<>>
  /\ Notify(<<EventMsg(Head(buffered))>>) /\ buffered' = Tail(buffered)
  /\ UNCHANGED <<commands, driver, link, outage, loaded>> /\ DriverOnly

\* (mutant) the driver gives up when a connection is lost
GiveUp == "stopped"

AfterSession == "backoff"

OnConnectionLost ==
  /\ driver = "session" /\ buffered = <<>> /\ link = "dead"
  /\ Notify(<<Status("disconnected")>>)
  /\ driver' = AfterSession /\ link' = "none"
  /\ UNCHANGED <<commands, outage, buffered, loaded>> /\ DriverOnly

\* perform: the messages that report on a command, by whether its request
\* succeeded.  SetPlugin asks for the rows afterwards.
Reports(c, ok) ==
  CASE c.kind = "RefreshDevices" ->
         {<<IF ok THEN Loaded("DevicesLoaded", ListDevices) ELSE Msg("LoadFailed")>>}
    [] c.kind = "ListPlugins" ->
         {<<IF ok THEN Loaded("PluginsLoaded", ListPlugins(c.id)) ELSE Msg("LoadFailed")>>}
    [] c.kind = "SetPlugin" ->
         {<<Ack("PluginSet", ok)>>}
         \cup (IF Usable THEN {<<Ack("PluginSet", ok), Loaded("PluginsLoaded", ListPlugins(c.id))>>}
               ELSE {})
    [] c.kind = "Pair" -> {<<Ack("Paired", ok)>>}
    [] c.kind = "Unpair" -> {<<Ack("Unpaired", ok)>>}
    [] c.kind = "SendFile" -> {<<Ack("FileQueued", ok)>>}
    [] c.kind = "DismissNotification" -> {<<Ack("Dismissed", ok)>>}
    [] c.kind = "ClipboardSet" -> {<<Ack("ClipboardSet", ok)>>}

\* The three ways a request ends: with the daemon's answer (the follow-up of
\* SetPlugin may still time out), after 10 s, or at once on a connection that is
\* no longer usable.
Answered(c) ==
  /\ Usable
  /\ \E ok \in BOOLEAN :
       /\ IF ok THEN Handled(c) ELSE Failed(c)
       /\ loaded' = (loaded \/ (ok /\ c.kind = "RefreshDevices"))
       /\ \/ \E messages \in Reports(c, ok) : Notify(messages) /\ UNCHANGED <<link, outage>>
          \/ c.kind = "SetPlugin" /\ Notify(<<Ack("PluginSet", ok)>>) /\ GivesUpOn(c)

Refused(c) ==
  /\ GivesUpOn(c) \/ (~Usable /\ UNCHANGED <<link, outage>>)
  /\ \E messages \in Reports(c, FALSE) : Len(messages) = 1 /\ Notify(messages)
  /\ UNCHANGED <<known, buffered, loaded>>

\* The select prefers events, but one may still be under way.
Perform ==
  /\ driver = "session" /\ commands # <<>> /\ commands' = Tail(commands)
  /\ Answered(Head(commands)) \/ Refused(Head(commands))
  /\ UNCHANGED <<driver, app, daemon, published, clicked>>

\* In the 5 s of RECONNECT_DELAY the interface takes what was sent to it.
Backoff ==
  /\ driver = "backoff" /\ inbox = <<>> /\ driver' = "connect"
  /\ UNCHANGED <<inbox, commands, link, outage, buffered, loaded>> /\ DriverOnly

Driver ==
  Drive \/ Connect \/ LoadDevices \/ LoadNotifications \/ OnEvent \/ OnConnectionLost
  \/ Perform \/ Backoff

-----------------------------------------------------------------------------
(* The user interface thread, and the daemon. *)

Update ==
  /\ inbox # <<>> /\ inbox' = Tail(inbox)
  /\ app' = Received(app, Head(inbox))
  /\ UNCHANGED <<commands, driver, link, owed, buffered, loaded, daemon, known, published,
                 clicked, faults>>

OnClick(m) ==
  LET c == Dispatched(app, m)
  IN /\ clicked < MaxClicks /\ clicked' = clicked + 1
     /\ m \in Offered(app)
     /\ app' = IF c # None /\ ~app.bridge THEN NotConnected(Clicked(app, m), m)
               ELSE Clicked(app, m)
     /\ commands' = IF c # None /\ app.bridge THEN Append(commands, c) ELSE commands
     /\ UNCHANGED <<inbox, driver, link, owed, buffered, loaded, daemon, known, published,
                    faults>>

\* Nothing publishes DeviceLost yet; it stands for what bus.rs says of it.
Publish(e) ==
  /\ daemon = "up" /\ published < MaxEvents /\ published' = published + 1
  /\ e.kind # "Hello"
  /\ e.kind = "DeviceFound" => known[e.id] = "absent"
  /\ e.kind \in {"DeviceLost", "DeviceStateChanged"} => known[e.id] # "absent"
  /\ e.kind = "DeviceStateChanged" => e.label \in {"online", "offline"}
  /\ known' = CASE e.kind = "DeviceFound" -> [known EXCEPT ![e.id] = "found"]
                [] e.kind = "DeviceLost" -> [known EXCEPT ![e.id] = "absent"]
                [] OTHER -> known
  /\ buffered' = IF link = "up" THEN Append(buffered, e) ELSE buffered
  /\ UNCHANGED <<app, inbox, commands, driver, link, owed, loaded, daemon, clicked, faults>>

\* The answer comes after all.  Nobody waits for it, so the client's reader ends,
\* and with it the stream of events.
LateAnswer ==
  /\ owed # None /\ owed' = None
  /\ Failed(owed)
  /\ link' = "dead"
  /\ UNCHANGED <<app, inbox, commands, driver, loaded, daemon, published, clicked, faults>>

\* What it has not stored is forgotten: devices that are not paired.
DaemonStops ==
  /\ daemon = "up" /\ faults < MaxFaults /\ faults' = faults + 1
  /\ daemon' = "down"
  /\ link' = IF link = "up" THEN "dead" ELSE link
  /\ owed' = None
  /\ known' = [d \in Devices |-> IF known[d] = "paired" THEN "paired" ELSE "absent"]
  /\ UNCHANGED <<app, inbox, commands, driver, buffered, loaded, published, clicked>>

DaemonStarts ==
  /\ daemon = "down" /\ daemon' = "up"
  /\ UNCHANGED <<app, inbox, commands, driver, link, owed, buffered, loaded, known, published,
                 clicked, faults>>

Next ==
  \/ Driver
  \/ Update
  \/ \E m \in Offered(app) : OnClick(m)
  \/ \E e \in Events : Publish(e)
  \/ LateAnswer \/ DaemonStops \/ DaemonStarts

Spec == Init /\ [][Next]_vars /\ WF_vars(Driver) /\ WF_vars(Update)

-----------------------------------------------------------------------------
(* Properties. *)

\* No device has two cards, whether it came by the snapshot or by an event, and
\* the notifications stay within their cap.
ListsAreSound ==
  /\ IsInjective([i \in DOMAIN app.devices |-> app.devices[i].id])
  /\ Len(app.notifications) <= NotifCap

\* The index of the selected device is the position of the stable id,
\* however the list changes under it (app.rs, line 118: "kept in sync with
\* `selected_id`"): no button acts on a device that is not shown as selected.
SelectionInSync == app.selected = Position(app, app.selected_id)

Settled ==
  /\ daemon = "up" /\ driver = "session" /\ link = "up" /\ loaded
  /\ inbox = <<>> /\ commands = <<>> /\ buffered = <<>>

\* Once everything sent has arrived, the cards are the daemon's table: taking
\* the events after the snapshot, and refreshing between events, lose nothing
\* (bridge.rs, lines 163-165).
CardsAreTable ==
  Settled => {card.id : card \in ToSet(app.devices)} = {d \in Devices : known[d] # "absent"}

\* If the daemon stays up and from some point on answers in time, the interface
\* ends up on a connection that works and says so: whatever was lost, the driver
\* comes back (bridge.rs, lines 20-22).  A connection spent on a request that timed
\* out is left only when the late answer arrives.
Reconnects ==
  <>[](daemon = "up" /\ owed = None)
    => <>[](driver = "session" /\ link = "up" /\ app.conn = "connected")
=============================================================================
