---------------------------- MODULE MCFrontEnds -----------------------------
(***************************************************************************)
(* The two interactive clients with small constants.  A behaviour is one   *)
(* client and keeps to one theme: a part of the keys or clicks and of the  *)
(* events, with a number of each that lets the theme's cases happen.       *)
(* Every key, every click and every event is in some theme.                *)
(***************************************************************************)
EXTENDS Terminal

CONSTANTS d1, Plugins, MaxClicks, MaxFaults, MaxGuiEvents

VARIABLES client, theme, app, inbox, commands, driver, link, owed, buffered, loaded, daemon,
          table, sent, clicked, faults

G == INSTANCE Gui WITH NotifCap <- NotificationCap, MaxEvents <- MaxGuiEvents,
                       known <- table, published <- sent

gui == <<app, inbox, commands, driver, link, owed, buffered, loaded, daemon, table, sent,
         clicked, faults>>
mcvars == <<vars, gui, client, theme>>

OfKinds(events, kinds) == {e \in events : e.kind \in kinds}

TerminalTheme(keys, presses, kinds, events, gone) ==
  [keys |-> keys, presses |-> presses,
   events |-> OfKinds(Events, kinds), published |-> events, gone |-> gone]

TerminalThemes ==
  <<TerminalTheme({"Enter", "Space", "p", "u"}, 3, {}, 0, FALSE),
    TerminalTheme({"Down", "End", "Enter", "Esc"}, 4, {"DeviceFound", "DeviceLost"}, 2, FALSE),
    TerminalTheme({"p", "q"}, 1, {"DeviceStateChanged", "DaemonShutdown"}, 1, TRUE),
    TerminalTheme({"Tab", "r", "x", "Enter"}, 5, {"NotificationReceived"}, 2, FALSE),
    TerminalTheme(Keys, 2, {"Hello", "ClipboardUpdated", "LogRecord"}, 1, FALSE),
    TerminalTheme({"Tab", "Down"}, 2,
                  {"TransferAdded", "TransferProgress", "TransferFinished", "TransferFailed"}, 2,
                  FALSE)>>

GuiTheme(clicks, count, kinds, events, stops, paired) ==
  [clicks |-> clicks, clicked |-> count,
   events |-> OfKinds(G!Events, kinds), published |-> events, faults |-> stops,
   paired |-> paired]

GuiThemes ==
  <<GuiTheme({"DeviceSelected", "RefreshPressed"}, 1, {"DeviceFound", "DeviceLost"}, 2, 0,
             Devices),
    GuiTheme({"RefreshPressed", "PairPressed", "BannerClosed"}, 1,
             {"DeviceFound", "DaemonShutdown"}, 1, 1, {}),
    GuiTheme({"PairPressed", "UnpairPressed"}, 2, {"DeviceFound", "DeviceStateChanged"}, 1, 0,
             {d1}),
    GuiTheme({"DeviceSelected", "TogglePlugin", "SettingsPressed", "ToggleSavedPlugin"}, 4,
             {}, 0, 0, Devices),
    GuiTheme({"TabSelected", "DismissPressed"}, 2, {"NotificationReceived"}, 2, 0, {}),
    GuiTheme({"TabSelected"}, 1,
             {"TransferAdded", "TransferProgress", "TransferFinished", "TransferFailed"}, 2, 0,
             {}),
    GuiTheme({"DeviceSelected", "PathChanged", "QueueFilePressed", "ClipboardChanged",
              "SendPressed"}, 3, {"LogRecord"}, 1, 0, {d1})>>

InGui == client = "gui"

\* The gui's daemon knows the paired devices of the theme.
Paired == IF InGui THEN GuiThemes[theme].paired ELSE {}

MCInit ==
  /\ client \in {"terminal", "gui"}
  /\ theme \in DOMAIN (IF InGui THEN GuiThemes ELSE TerminalThemes)
  /\ Init
  /\ G!Init
  /\ table = [d \in Devices |-> IF d \in Paired THEN "paired" ELSE "absent"]
  /\ daemon = "up" \/ (InGui /\ GuiThemes[theme].faults > 0)

TerminalNext ==
  LET t == TerminalThemes[theme]
  IN \/ Loop
     \/ pressed < t.presses /\ \E k \in t.keys : OnKey(k)
     \/ t.keys = Keys /\ pressed < t.presses /\ OnOther
     \/ \E i \in 1..MaxTasks : Request(i)
     \/ published < t.published /\ \E e \in t.events : Publish(e)
     \/ t.gone /\ DaemonGone

GuiNext ==
  LET t == GuiThemes[theme]
  IN \/ G!Driver
     \/ G!Update
     \/ clicked < t.clicked
        /\ \E m \in OfKinds(G!Offered(app), t.clicks) : G!OnClick(m)
     \/ sent < t.published /\ \E e \in t.events : G!Publish(e)
     \/ faults < t.faults /\ G!DaemonStops
     \/ G!LateAnswer
     \/ G!DaemonStarts

MCNext ==
  /\ UNCHANGED <<client, theme>>
  /\ \/ ~InGui /\ TerminalNext /\ UNCHANGED gui
     \/ InGui /\ GuiNext /\ UNCHANGED vars

\* The terminal of the third theme, where the user pairs and the daemon may go,
\* takes its steps.
TerminalRuns == ~InGui /\ theme = 3

MCSpec ==
  /\ MCInit /\ [][MCNext]_mcvars
  /\ WF_vars(TerminalRuns /\ (OnServerEvent \/ OnOutcome))
  /\ \A i \in 1..MaxTasks : WF_vars(TerminalRuns /\ Request(i))
  /\ WF_gui(InGui /\ G!Driver)
  /\ WF_gui(InGui /\ G!Update)

-----------------------------------------------------------------------------
(* Properties; those of the terminal are Terminal's own.                   *)

\* What a key or a click acts on is what is shown: no device is listed twice, every
\* cursor of the terminal is on a row (clamp_cursors), its panel shows the open device's rows, its reply
\* goes to the notification the modal was opened on, and the gui's selected index
\* is that of the selected id (sync_selection), however the lists change meanwhile.
ShownIsTarget ==
  /\ ListsAreSound /\ CursorsInRange /\ PanelOfDetail /\ ReplyToSelected
  /\ G!ListsAreSound /\ G!SelectionInSync

\* Gui: once everything sent has arrived, the cards are the daemon's table
\* (load_snapshot, then the buffered events).
CardsAreTable == InGui => G!CardsAreTable

\* Neither client stays in between: if the daemon stays up the gui ends up
\* connected to it and says so (run_sessions), and after "pairing ..." the
\* terminal's footer reports what became of it, or the terminal has left (App::run).
ClientsSettle ==
  /\ InGui => G!Reconnects
  /\ TerminalRuns => PairIsReported
=============================================================================
