------------------------------ MODULE Plugins ------------------------------
(***************************************************************************)
(* The plugins of one device (the crate plugins/) and the actor that runs  *)
(* them: dispatch by declared packet types, the replies, and the events    *)
(* for the interfaces (on_packet, daemon/device.rs).  The other end is a   *)
(* peer that sends any packet it likes.                                    *)
(*                                                                         *)
(* A packet is a record of its type, without the "kdeconnect." prefix, and *)
(* of the fields the handlers read; None is a missing or ill-typed field.  *)
(* `state` has one field for each plugin that keeps something.             *)
(***************************************************************************)
EXTENDS Integers, FiniteSets, Functions, SequencesExt

CONSTANTS
  None,
  Players,     \* names of media players
  Names,       \* names of run-commands
  Notes,       \* notification ids
  Supplies,    \* the levels read from the power supplies, in order; None: no level
  OutCap,      \* bound: the outbound queue (64 in the code)
  MaxPackets,  \* bound: packets the peer sends
  MaxConnects  \* bound: connections

VARIABLES
  state,      \* the plugin instances of DeviceState
  connected,  \* the device has an outbound queue
  outbound,   \* replies waiting for the writer
  bus,        \* kinds of the events published
  listed,     \* the last usable command list of the peer
  confirmed,  \* confirmations made: the pair, the list at the time
  received, connects

vars == <<state, connected, outbound, bus, listed, confirmed, received, connects>>

-----------------------------------------------------------------------------
(* PluginMeta and the registry. *)

\* The plugins that do more than ignore what they get, in the registry's order.
Registry ==
  <<"battery", "findmyphone", "mpris", "notifications", "pause_music", "ping",
    "run_commands", "share", "system_volume", "telephony">>

Incoming ==
  [battery |-> {"battery"}, findmyphone |-> {"findmyphone.request"},
   mpris |-> {"mpris", "mpris.request"}, notifications |-> {"notification", "notification.request"},
   pause_music |-> {"telephony"}, ping |-> {"ping"},
   run_commands |-> {"runcommand", "runcommand.request"}, share |-> {"share.request"},
   system_volume |-> {"systemvolume", "systemvolume.request"}, telephony |-> {"telephony"}]

\* PluginFactory::create, for each factory.
Created ==
  [battery |-> None, ringing |-> FALSE, last_known_player |-> None, id_map |-> {},
   known_players |-> {}, pinged |-> FALSE, commands |-> [n \in {} |-> None],
   pending_shares |-> <<>>, volume |-> None, last_event |-> None]

Done(s)           == [state |-> s, replies |-> <<>>]
Replying(s, pkt)  == [state |-> s, replies |-> <<pkt>>]

-----------------------------------------------------------------------------
(* The handlers. *)

Clamp(n) == IF n > 100 THEN 100 ELSE IF n < 0 THEN 0 ELSE n

\* The first supply that read_supply can make a level of, those called BAT* first.
ReadLocalBattery(supplies) ==
  LET read == SelectSeq(supplies, LAMBDA r : r # None)
  IN IF read = <<>> THEN None ELSE Head(read)

FallbackState == [level |-> 50, charging |-> FALSE]

BuildReport(battery) ==
  [type |-> "battery", level |-> Clamp(battery.level), charging |-> battery.charging]

\* A level that is not a natural number is ignored.
RecordRemote(s, pkt) ==
  IF pkt.level = None THEN s
  ELSE [s EXCEPT !.battery = [level |-> Clamp(pkt.level), charging |-> pkt.charging]]

\* battery.request is not in `incoming`: dispatch never comes to the first case.
HandleBattery(s, pkt) ==
  CASE pkt.type = "battery.request" ->
         LET local == ReadLocalBattery(Supplies)
         IN Replying(s, BuildReport(IF local = None THEN FallbackState ELSE local))
    [] pkt.type = "battery" -> Done(RecordRemote(s, pkt))
    [] OTHER -> Done(s)

HandleFindMyPhone(s, pkt) ==
  IF pkt.type # "findmyphone.request" \/ pkt.action \notin {"start", "stop"} THEN Done(s)
  ELSE Replying([s EXCEPT !.ringing = pkt.action = "start"], pkt)

MprisActions == {"Play", "Pause", "PlayPause", "Stop", "Next", "Previous"}

HandleMpris(s, pkt) ==
  IF pkt.type # "mpris.request" THEN Done(s)
  ELSE LET resolved == IF pkt.player = "auto" THEN s.last_known_player ELSE pkt.player
       IN IF pkt.player = None \/ pkt.action \notin MprisActions \/ resolved = None THEN Done(s)
          ELSE Replying([s EXCEPT !.last_known_player = resolved],
                        [type |-> "mpris.request", player |-> resolved, action |-> pkt.action])

\* An id of None is the empty string; `blank` when title and text are.
HandleNotifications(s, pkt) ==
  CASE pkt.type = "notification" /\ ~pkt.blank ->
         Replying(IF pkt.id = None THEN s ELSE [s EXCEPT !.id_map = @ \cup {pkt.id}], pkt)
    [] pkt.type = "notification.request" /\ pkt.action = "dismiss" /\ pkt.key # None ->
         Done([s EXCEPT !.id_map = @ \ {pkt.key}])
    [] OTHER -> Done(s)

\* Learns players from "mpris", which pause_music does not declare.
HandlePauseMusic(s, pkt) ==
  IF pkt.type # "mpris" THEN Done(s)
  ELSE Done([s EXCEPT !.known_players = @ \cup pkt.players])

HandlePing(s, pkt) ==
  IF pkt.type # "ping" THEN Done(s) ELSE Replying([s EXCEPT !.pinged = TRUE], pkt)

\* A list is a sequence of entries; an entry of None is malformed.  Later
\* entries win.
Table(list) ==
  LET usable == SelectSeq(list, LAMBDA entry : entry # None)
  IN [n \in {entry.name : entry \in ToSet(usable)} |->
        usable[SelectLastInSeq(usable, LAMBDA entry : entry.name = n)].command]

IsUsable(list) == list # None /\ (list = <<>> \/ DOMAIN Table(list) # {})

\* (mutant) a sync adds to the table
MergeSync(s, pkt) ==
  IF ~IsUsable(pkt.list) THEN s
  ELSE [s EXCEPT !.commands = [n \in DOMAIN @ \cup DOMAIN Table(pkt.list) |->
          IF n \in DOMAIN Table(pkt.list) THEN Table(pkt.list)[n] ELSE @[n]]]

HandleSync(s, pkt) == IF IsUsable(pkt.list) THEN [s EXCEPT !.commands = Table(pkt.list)] ELSE s

HandleRunCommands(s, pkt) ==
  CASE pkt.type = "runcommand" -> Done(HandleSync(s, pkt))
    [] pkt.type = "runcommand.request" /\ pkt.name \in DOMAIN s.commands ->
         Replying(s, [type |-> "runcommand.request", name |-> pkt.name,
                      command |-> s.commands[pkt.name]])
    [] OTHER -> Done(s)

\* The first of url, text and file (name and size) that is there.
Classify(pkt) ==
  CASE "url" \in pkt.fields -> "url"
    [] "url" \notin pkt.fields /\ "text" \in pkt.fields -> "text"
    [] pkt.fields \cap {"url", "text"} = {} /\ {"filename", "fileSize"} \subseteq pkt.fields -> "file"
    [] OTHER -> None

HandleShare(s, pkt) ==
  IF pkt.type # "share.request" \/ Classify(pkt) = None THEN Done(s)
  ELSE Done([s EXCEPT !.pending_shares = Append(@, Classify(pkt))])

HandleSystemVolume(s, pkt) ==
  IF pkt.type # "systemvolume" \/ pkt.volume = None THEN Done(s)
  ELSE Done([s EXCEPT !.volume = Clamp(pkt.volume)])

\* pause_music_on_ring is off: nothing is suggested.
HandleTelephony(s, pkt) ==
  IF pkt.type # "telephony" \/ pkt.event = None THEN Done(s)
  ELSE Done([s EXCEPT !.last_event = pkt.event])

Handle(plugin, s, pkt) ==
  CASE plugin = "battery" -> HandleBattery(s, pkt)
    [] plugin = "findmyphone" -> HandleFindMyPhone(s, pkt)
    [] plugin = "mpris" -> HandleMpris(s, pkt)
    [] plugin = "notifications" -> HandleNotifications(s, pkt)
    [] plugin = "pause_music" -> HandlePauseMusic(s, pkt)
    [] plugin = "ping" -> HandlePing(s, pkt)
    [] plugin = "run_commands" -> HandleRunCommands(s, pkt)
    [] plugin = "share" -> HandleShare(s, pkt)
    [] plugin = "system_volume" -> HandleSystemVolume(s, pkt)
    [] plugin = "telephony" -> HandleTelephony(s, pkt)

-----------------------------------------------------------------------------
(* What a peer may send: every type a handler looks at, with the bodies it *)
(* tells apart.                                                            *)

Entries == {None} \cup {[name |-> n, command |-> c] : n \in Names, c \in {1, 2}}
Lists == {None, <<>>} \cup {<<e>> : e \in Entries}
         \cup {<<[name |-> n, command |-> 1], [name |-> n, command |-> 2]>> : n \in Names}

Packets ==
  [type : {"ping", "battery.request", "sftp", "unknown"}]
  \cup [type : {"battery"}, level : {None, 50, 150}, charging : {FALSE}]
  \cup [type : {"clipboard"}, content : BOOLEAN]
  \cup [type : {"findmyphone.request"}, action : {"start", "stop", None}]
  \cup [type : {"mpris.request"}, player : Players \cup {"auto", None}, action : {"Play", None}]
  \cup [type : {"mpris"}, players : {Players}]
  \cup [type : {"notification"}, id : Notes \cup {None}, blank : BOOLEAN]
  \cup [type : {"notification.request"}, action : {"dismiss", "reply"}, key : Notes \cup {None}]
  \cup [type : {"runcommand"}, list : Lists]
  \cup [type : {"runcommand.request"}, name : Names \cup {None}]
  \cup [type : {"share.request"}, fields : {{}, {"url", "text"}, {"text"}, {"fileSize"}}]
  \cup [type : {"systemvolume"}, volume : {None, -1, 101}]
  \cup [type : {"telephony"}, event : {"ringing", None}]

-----------------------------------------------------------------------------
(* on_packet, for the packets that go to the plugins. *)

Init ==
  /\ state = Created /\ connected = FALSE /\ outbound = <<>> /\ bus = {}
  /\ listed = [n \in {} |-> None] /\ confirmed = {}
  /\ received = 0 /\ connects = 0

Handles(plugin, pkt) == pkt.type \in Incoming[plugin]

\* dispatch_to_plugins; each reply keeps the plugin it is of.
Dispatch(s, pkt) ==
  FoldLeft(LAMBDA acc, plugin :
             IF ~Handles(plugin, pkt) THEN acc
             ELSE LET r == Handle(plugin, acc.state, pkt)
                  IN [state |-> r.state,
                      replies |-> acc.replies \o
                        [i \in DOMAIN r.replies |-> [of |-> plugin, packet |-> r.replies[i]]]],
           Done(s), Registry)

\* emit_side_events.
SideEvents(pkt) ==
  CASE pkt.type = "notification" -> {"NotificationReceived"}
    [] pkt.type = "clipboard" /\ pkt.content -> {"ClipboardUpdated"}
    [] OTHER -> {}

\* send_out: without a queue the replies are dropped, and try_send drops what
\* does not fit.
Queued(queue, packets) ==
  IF ~connected THEN queue
  ELSE IF Len(queue) + Len(packets) <= OutCap THEN queue \o packets
  ELSE queue \o SubSeq(packets, 1, OutCap - Len(queue))

Confirmations(replies) ==
  {r.packet : r \in {x \in ToSet(replies) : x.of = "run_commands"}}

\* A packet of the device's reader, or of one whose connection was closed or
\* replaced since: it is dispatched all the same.
OnPacket(pkt) ==
  LET result == Dispatch(state, pkt)
  IN /\ connects > 0 /\ received < MaxPackets /\ received' = received + 1
     /\ state' = result.state
     /\ bus' = bus \cup SideEvents(pkt)
     /\ outbound' = Queued(outbound, result.replies)
     /\ listed' = IF pkt.type = "runcommand" /\ IsUsable(pkt.list) THEN Table(pkt.list) ELSE listed
     /\ confirmed' = confirmed \cup {<<c, listed>> : c \in Confirmations(result.replies)}
     /\ UNCHANGED <<connected, connects>>

\* The writer task puts the head of the queue on the wire.
WriterSends ==
  /\ outbound # <<>> /\ outbound' = Tail(outbound)
  /\ UNCHANGED <<state, connected, bus, listed, confirmed, received, connects>>

\* on_connected replaces the queue of a device that is known already; its
\* plugins go on with the state they have.
OnConnected ==
  /\ connects < MaxConnects /\ connects' = connects + 1
  /\ connected' = TRUE /\ outbound' = <<>>
  /\ UNCHANGED <<state, bus, listed, confirmed, received>>

OnClosed ==
  /\ connected /\ connected' = FALSE /\ outbound' = <<>>
  /\ UNCHANGED <<state, bus, listed, confirmed, received, connects>>

Next == (\E pkt \in Packets : OnPacket(pkt)) \/ WriterSends \/ OnConnected \/ OnClosed

Spec == Init /\ [][Next]_vars

-----------------------------------------------------------------------------
(* Properties. *)

\* A confirmation to run a command names the command the peer's last usable
\* list gives for it: a withdrawn or changed command is never confirmed, across
\* connections and packets of an old reader (RunCommandsPlugin::handle).
CommandIsListed ==
  \A c \in confirmed : c[1].name \in DOMAIN c[2] /\ c[1].command = c[2][c[1].name]
=============================================================================
