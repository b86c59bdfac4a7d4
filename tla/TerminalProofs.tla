--------------------------- MODULE TerminalProofs ---------------------------
(***************************************************************************)
(* Proofs about the terminal client (Terminal): what the screen shows is   *)
(* the state, the plugin panel shows rows of the device it is open for,    *)
(* and a reply goes to the notification it was begun for.                  *)
(***************************************************************************)
EXTENDS Terminal, TLAPS

\* The fields of the State struct; a state is a record of these.
Fields == {"tab", "help", "quit", "dirty", "shutdown", "daemon", "flash", "clipboard", "devices",
           "device_cursor", "detail", "plugins", "plugin_cursor", "transfers", "transfer_cursor",
           "notifications", "notification_cursor", "reply", "draft", "logs"}
IsState(s) == s = [f \in Fields |-> s[f]]

\* The panel of t is that of s, or has no rows.
SamePanel(s, t) == t.plugins = <<>> \/ (t.plugins = s.plugins /\ t.detail = s.detail)

\* What a reducer must do: t is drawn, or is what was drawn before.
Redraws(s, t) == IsState(t) /\ SamePanel(s, t) /\ (t.dirty = TRUE \/ t = s)

\* What a reducer of events or answers does: it draws, and leaves the reply alone.
Informs(s, t) == IsState(t) /\ SamePanel(s, t) /\ t.reply = s.reply

\* The rows of the panel were fetched for its device.
PanelIsOwn(s) == \A i \in DOMAIN s.plugins : "of" \in DOMAIN s.plugins[i] /\ s.plugins[i].of = s.detail

-----------------------------------------------------------------------------
(* The reducers.                                                           *)

\* One field of the state changes.
LEMMA FieldState ==
  ASSUME NEW s, IsState(s), NEW f \in Fields, NEW v
  PROVE  /\ IsState([s EXCEPT ![f] = v])
         /\ \A g \in Fields \ {f} : [s EXCEPT ![f] = v][g] = s[g]
         /\ [s EXCEPT ![f] = v][f] = v
BY DEF IsState

\* A field that is not the panel's changes.
LEMMA OtherField ==
  ASSUME NEW s, IsState(s), NEW f \in Fields \ {"plugins", "detail"}, NEW v
  PROVE  /\ IsState([s EXCEPT ![f] = v]) /\ SamePanel(s, [s EXCEPT ![f] = v])
         /\ f # "reply" => Informs(s, [s EXCEPT ![f] = v])
<1> DEFINE t == [s EXCEPT ![f] = v]
<1>1. IsState(t) /\ \A g \in Fields \ {f} : t[g] = s[g]
  BY FieldState
<1> HIDE DEF t
<1>2. t.plugins = s.plugins /\ t.detail = s.detail /\ (f # "reply" => t.reply = s.reply)
  BY <1>1 DEF Fields
<1>3. IsState(t) /\ SamePanel(s, t) /\ (f # "reply" => Informs(s, t))
  BY <1>1, <1>2 DEF SamePanel, Informs
<1> QED BY <1>3 DEF t

\* clamp_cursors touches cursors only.
LEMMA ClampState ==
  ASSUME NEW s, IsState(s)
  PROVE  Informs(s, ClampCursors(s))
<1> DEFINE t == ClampCursors(s)
<1>1. IsState(t) /\ t.plugins = s.plugins /\ t.detail = s.detail /\ t.reply = s.reply
  BY DEF IsState, ClampCursors, Fields
<1> HIDE DEF t
<1>2. Informs(s, t)
  BY <1>1 DEF Informs, SamePanel
<1> QED BY <1>2 DEF t

\* Closing the panel empties it.
LEMMA CloseState ==
  ASSUME NEW s, IsState(s)
  PROVE  Informs(s, CloseDetail(s)) /\ CloseDetail(s).plugins = <<>>
<1> DEFINE t == CloseDetail(s)
<1>1. IsState(t) /\ t.plugins = <<>> /\ t.reply = s.reply
  BY DEF IsState, CloseDetail, Fields
<1> HIDE DEF t
<1>2. Informs(s, t)
  BY <1>1 DEF Informs, SamePanel
<1> QED BY <1>1, <1>2 DEF t

\* Two steps that only inform are one.
LEMMA InformsTwice ==
  ASSUME NEW s, NEW t, NEW u, Informs(s, t), Informs(t, u)
  PROVE  Informs(s, u)
BY Zenon DEF Informs, SamePanel

\* Marking the state for redrawing.
LEMMA DirtyState ==
  ASSUME NEW s, IsState(s)
  PROVE  Informs(s, Dirty(s)) /\ Dirty(s).dirty = TRUE
<1>1. Informs(s, Dirty(s))
  BY OtherField DEF Dirty, Fields
<1>2. Dirty(s).dirty = TRUE
  BY FieldState DEF Dirty, Fields
<1> QED BY <1>1, <1>2

\* A reducer that ends by marking its state redraws it.
LEMMA Drawn ==
  ASSUME NEW s, NEW t, IsState(t), SamePanel(s, t)
  PROVE  Redraws(s, Dirty(t)) /\ Dirty(t).reply = t.reply
BY DirtyState, Zenon DEF Redraws, Informs, SamePanel

\* set_flash draws.
LEMMA FlashState ==
  ASSUME NEW s, IsState(s), NEW f
  PROVE  Informs(s, SetFlash(s, f)) /\ SetFlash(s, f).dirty = TRUE
<1> DEFINE t == SetFlash(s, f)
<1>1. /\ IsState(t) /\ t.plugins = s.plugins /\ t.detail = s.detail /\ t.reply = s.reply
      /\ t.dirty = TRUE
  BY DEF IsState, SetFlash, Fields
<1> HIDE DEF t
<1>2. Informs(s, t)
  BY <1>1 DEF Informs, SamePanel
<1> QED BY <1>1, <1>2 DEF t

\* What was drawn does not depend on the flag that asks for it.
LEMMA ViewDirty ==
  ASSUME NEW s, IsState(s), NEW b PROVE View([s EXCEPT !.dirty = b]) = View(s)
<1> DEFINE t == [s EXCEPT !.dirty = b]
<1>1. \A f \in Fields \ {"dirty"} : t[f] = s[f]
  BY DEF IsState
<1> HIDE DEF t
<1>2. /\ t.tab = s.tab /\ t.help = s.help /\ t.shutdown = s.shutdown /\ t.daemon = s.daemon
      /\ t.flash = s.flash /\ t.clipboard = s.clipboard /\ t.devices = s.devices
      /\ t.device_cursor = s.device_cursor /\ t.detail = s.detail /\ t.plugins = s.plugins
      /\ t.plugin_cursor = s.plugin_cursor /\ t.transfers = s.transfers
      /\ t.transfer_cursor = s.transfer_cursor /\ t.notifications = s.notifications
      /\ t.notification_cursor = s.notification_cursor /\ t.reply = s.reply
      /\ t.draft = s.draft /\ t.logs = s.logs
  BY <1>1 DEF Fields
<1>3. View(t) = View(s)
  BY <1>2, Zenon DEF View, Header, DevicesBody, PluginsPanel, TransfersBody, NotificationsBody, LogsBody,
     ReplyModal, ReplySubject, Footer
<1> QED BY <1>3 DEF t

-----------------------------------------------------------------------------
(* Keys.                                                                   *)

\* A key in the reply modal changes the draft, or closes the modal, and what it asks
\* the loop to send answers the modal's notification.
LEMMA ReplyKey ==
  ASSUME NEW s, IsState(s), NEW k \in Keys
  PROVE  /\ Redraws(s, HandleReplyKey(s, k).state)
         /\ HandleReplyKey(s, k).state.reply \in {s.reply, None}
         /\ HandleReplyKey(s, k).action \in {None, Job("reply", s.reply)}
<1> DEFINE h == HandleReplyKey(s, k)
<1>1. \A v : LET t == [s EXCEPT !.draft = v] IN IsState(t) /\ SamePanel(s, t) /\ t.reply = s.reply
  BY OtherField DEF Informs, Fields
<1>2. IsState(CancelReply(s)) /\ SamePanel(s, CancelReply(s)) /\ CancelReply(s).reply = None
  BY DEF IsState, CancelReply, Fields, SamePanel
<1>3. CASE k \in {"Enter", "Esc"}
  <2>1. h.state = Dirty(CancelReply(s)) /\ h.action \in {None, Job("reply", s.reply)}
    <3>1. CASE k = "Enter"
      <4>1. h = SubmitReply(s)
        BY <3>1 DEF HandleReplyKey, Letters
      <4> QED BY <4>1 DEF SubmitReply, Do, Only, ReplyTarget
    <3>2. CASE k = "Esc"
      BY <3>2 DEF HandleReplyKey, Only, Letters
    <3> QED BY <1>3, <3>1, <3>2
  <2> HIDE DEF h
  <2>2. Redraws(s, h.state) /\ h.state.reply = None
    BY <1>2, <2>1, Drawn
  <2> QED BY <2>1, <2>2 DEF h
<1>4. CASE k \in {"Backspace", "Space"} \cup Letters
  <2>1. PICK v : h = Only(Dirty([s EXCEPT !.draft = v]))
    BY <1>4 DEF HandleReplyKey, Letters
  <2>2. h.state = Dirty([s EXCEPT !.draft = v]) /\ h.action = None
    BY <2>1 DEF Only
  <2> HIDE DEF h
  <2> DEFINE t == [s EXCEPT !.draft = v]
  <2>3. IsState(t) /\ SamePanel(s, t) /\ t.reply = s.reply
    BY <1>1
  <2> HIDE DEF t
  <2>4. Redraws(s, h.state) /\ h.state.reply = s.reply
    <3>1. h.state = Dirty(t)
      BY <2>2 DEF t
    <3> QED BY <2>3, <3>1, Drawn
  <2> QED BY <2>2, <2>4 DEF h
<1>5. CASE k \notin Letters \cup {"Enter", "Esc", "Backspace", "Space"}
  <2>1. h.state = s /\ h.action = None
    BY <1>5 DEF HandleReplyKey, Only
  <2> HIDE DEF h
  <2>2. Redraws(s, h.state) /\ h.state.reply = s.reply
    BY <2>1 DEF Redraws, SamePanel
  <2> QED BY <2>1, <2>2 DEF h
<1> QED BY <1>3, <1>4, <1>5

\* Any other key redraws what it changes, and sends no reply.
LEMMA OtherKey ==
  ASSUME NEW s, IsState(s), NEW k \in Keys
  PROVE  /\ Redraws(s, HandleKey(s, k).state)
         /\ HandleKey(s, k).action = None \/ HandleKey(s, k).action.kind # "reply"
<1> DEFINE h == HandleKey(s, k)
<1>1. Redraws(s, s)
  BY DEF Redraws, SamePanel
<1>2. IsState(CloseDetail(s)) /\ SamePanel(s, CloseDetail(s)) /\ CloseDetail(s).plugins = <<>>
  BY CloseState DEF Informs
<1>3. \A v : LET t == [s EXCEPT !.help = v] IN IsState(t) /\ SamePanel(s, t)
  BY OtherField DEF Fields
<1>4. CASE k \in {"q", "p", "u", "Space", "ignored", "Ctrl-C", "x", "Backspace"}
  <2>1. h.state = s /\ (h.action = None \/ h.action.kind # "reply")
    BY <1>4 DEF HandleKey, Only, Do, Job
  <2> QED BY <1>1, <2>1
<1>5. CASE k = "?"
  <2>1. h.state = Dirty([s EXCEPT !.help = ~@]) /\ h.action = None
    BY <1>5 DEF HandleKey, Only
  <2> HIDE DEF h
  <2>2. Redraws(s, h.state)
    BY <1>3, <2>1, Drawn
  <2> QED BY <2>1, <2>2 DEF h
<1>6. CASE k \in {"Tab", "BackTab"}
  <2> DEFINE t == IF k = "Tab" THEN [s EXCEPT !.tab = NextTab(@)] ELSE [s EXCEPT !.tab = PreviousTab(@)]
  <2>1. h.state = Dirty(ClampCursors(t)) /\ h.action = None
    BY <1>6 DEF HandleKey, Only
  <2>2. Informs(s, t)
    BY OtherField DEF Fields
  <2> HIDE DEF t, h
  <2>3. Informs(s, ClampCursors(t))
    BY <2>2, ClampState, InformsTwice DEF Informs
  <2>4. Redraws(s, h.state)
    BY <2>1, <2>3, Drawn DEF Informs
  <2> QED BY <2>1, <2>4 DEF h
<1>7. CASE k \in {"Down", "Up", "Home", "End"}
  <2>1. CASE Focus(s) = None
    <3>1. h.state = s /\ h.action = None
      BY <1>7, <2>1 DEF HandleKey, Only
    <3> QED BY <1>1, <3>1
  <2>2. CASE Focus(s) # None
    <3>1. \E c : h.state = MoveTo(s, c) /\ h.action = None
      <4>1. CASE k \in {"Down", "Up"}
        BY <2>2, <4>1 DEF HandleKey, Only
      <4>2. CASE k \in {"Home", "End"}
        BY <2>2, <4>2 DEF HandleKey, Only
      <4> QED BY <1>7, <4>1, <4>2
    <3>2. PICK c : h.state = MoveTo(s, c) /\ h.action = None
      BY <3>1
    <3> HIDE DEF h
    <3>3. Focus(s) \in Fields \ {"plugins", "detail"}
      BY <2>2 DEF Focus, Fields
    <3>4. IsState([s EXCEPT ![Focus(s)] = c]) /\ SamePanel(s, [s EXCEPT ![Focus(s)] = c])
      BY <3>3, OtherField
    <3>5. MoveTo(s, c) = s \/ MoveTo(s, c) = Dirty([s EXCEPT ![Focus(s)] = c])
      BY DEF MoveTo
    <3>6. Redraws(s, h.state)
      BY <1>1, <3>2, <3>4, <3>5, Drawn
    <3> QED BY <3>2, <3>6 DEF h
  <2> QED BY <2>1, <2>2
<1>8. CASE k = "Enter"
  <2>1. h = ToggleDetail(s)
    BY <1>8 DEF HandleKey
  <2>2. h.action = None \/ h.action.kind # "reply"
    BY <2>1 DEF ToggleDetail, Only, Do, Job
  <2>3. \/ h.state = s
        \/ h.state = Dirty(CloseDetail(s))
        \/ h.state = Dirty([CloseDetail(s) EXCEPT !.detail = SelectedDevice(s)])
    BY <2>1 DEF ToggleDetail, Only, Do
  <2> HIDE DEF h
  <2> DEFINE t == [CloseDetail(s) EXCEPT !.detail = SelectedDevice(s)]
  <2>4. IsState(t) /\ t.plugins = <<>>
    <3> DEFINE c == CloseDetail(s)
    <3>1. IsState(c) /\ c.plugins = <<>>
      BY <1>2
    <3> HIDE DEF c
    <3>2. \A v : IsState([c EXCEPT !.detail = v]) /\ [c EXCEPT !.detail = v].plugins = <<>>
      BY <3>1, FieldState DEF Fields
    <3> QED BY <3>2 DEF c
  <2>5. SamePanel(s, t)
    BY <2>4 DEF SamePanel
  <2> HIDE DEF t
  <2>6. Redraws(s, Dirty(CloseDetail(s))) /\ Redraws(s, Dirty(t))
    BY <1>2, <2>4, <2>5, Drawn
  <2>7. Redraws(s, h.state)
    BY <1>1, <2>3, <2>6 DEF t
  <2> QED BY <2>2, <2>7 DEF h
<1>9. CASE k = "Esc"
  <2>1. /\ h.action = None
        /\ \/ h.state = s
           \/ h.state = Dirty([s EXCEPT !.help = FALSE])
           \/ h.state = Dirty(CloseDetail(s))
    BY <1>9 DEF HandleKey, Only
  <2> HIDE DEF h
  <2>2. Redraws(s, h.state)
    BY <1>1, <1>2, <1>3, <2>1, Drawn
  <2> QED BY <2>1, <2>2 DEF h
<1>10. CASE k = "r"
  <2> DEFINE t == [s EXCEPT !.reply = SelectedNote(s), !.draft = <<>>]
  <2>1. h.state = OpenReply(s) /\ h.action = None
    BY <1>10 DEF HandleKey, Only
  <2> HIDE DEF h
  <2>2. OpenReply(s) = s \/ OpenReply(s) = Dirty(t)
    BY DEF OpenReply
  <2>3. IsState(t) /\ t.plugins = s.plugins /\ t.detail = s.detail
    BY DEF IsState, Fields
  <2> HIDE DEF t
  <2>4. Redraws(s, h.state)
    BY <1>1, <2>1, <2>2, <2>3, Drawn DEF SamePanel
  <2> QED BY <2>1, <2>4 DEF h
<1> QED BY <1>4, <1>5, <1>6, <1>7, <1>8, <1>9, <1>10 DEF Keys, Letters

\* handle_key: it redraws what it changes; while a reply is being written the modal
\* stays on its notification until it is closed; and a reply is only sent from it.
LEMMA AnyKey ==
  ASSUME NEW s, IsState(s), NEW k \in Keys
  PROVE  /\ Redraws(s, Press(s, k).state)
         /\ s.reply # None => Press(s, k).state.reply \in {s.reply, None}
         /\ \/ Press(s, k).action = None
            \/ Press(s, k).action.kind # "reply"
            \/ s.reply # None /\ Press(s, k).action = Job("reply", s.reply)
<1>1. CASE k \in {"Ctrl-C", "ignored"}
  <2>1. Press(s, k).state = s /\ (Press(s, k).action = None \/ Press(s, k).action.kind = "quit")
    BY <1>1 DEF Press, Do, Only, Job
  <2> QED BY <2>1 DEF Redraws, SamePanel
<1>2. CASE k \notin {"Ctrl-C", "ignored"} /\ s.reply # None
  <2>1. Press(s, k) = HandleReplyKey(s, k)
    BY <1>2 DEF Press
  <2> QED BY <1>2, <2>1, ReplyKey
<1>3. CASE k \notin {"Ctrl-C", "ignored"} /\ s.reply = None
  <2>1. Press(s, k) = HandleKey(s, k)
    BY <1>3 DEF Press
  <2> QED BY <1>3, <2>1, OtherKey
<1> QED BY <1>1, <1>2, <1>3

-----------------------------------------------------------------------------
(* Actions, events and outcomes.                                           *)

\* A step that keeps or empties the panel keeps it the device's own.
LEMMA OwnPanel ==
  ASSUME NEW s, NEW t, SamePanel(s, t), PanelIsOwn(s)
  PROVE  PanelIsOwn(t)
<1>1. CASE t.plugins = <<>>
  BY <1>1 DEF PanelIsOwn
<1>2. CASE t.plugins = s.plugins /\ t.detail = s.detail
  BY <1>2 DEF PanelIsOwn
<1> QED BY <1>1, <1>2 DEF SamePanel

\* perform draws, quits or changes nothing; toggling a plugin flips the flag of a row
\* that stays a row of the same device.
LEMMA PerformedState ==
  ASSUME NEW s, IsState(s), PanelIsOwn(s), NEW job
  PROVE  LET p == Performed(s, job)
         IN IsState(p) /\ PanelIsOwn(p) /\ p.reply = s.reply /\ (p.quit = TRUE \/ p.dirty = TRUE \/ p = s)
<1> DEFINE p == Performed(s, job)
           Good == IsState(p) /\ PanelIsOwn(p) /\ p.reply = s.reply /\ (p.quit = TRUE \/ p.dirty = TRUE \/ p = s)
<1> SUFFICES Good
  BY DEF Good
<1>1. ASSUME NEW t, IsState(t), PanelIsOwn(t), t.reply = s.reply, NEW f, p = SetFlash(t, f) PROVE Good
  <2> HIDE DEF p
  <2>1. Informs(t, p) /\ p.dirty = TRUE
    BY <1>1, FlashState
  <2>2. PanelIsOwn(p)
    BY <1>1, <2>1, OwnPanel DEF Informs
  <2> QED BY <1>1, <2>1, <2>2 DEF Informs
<1>2. CASE job.kind = "quit"
  <2>1. p = [s EXCEPT !.quit = TRUE]
    BY <1>2 DEF Performed
  <2> HIDE DEF p
  <2>2. Informs(s, p) /\ p.quit = TRUE
    <3>1. Informs(s, p)
      BY <2>1, OtherField DEF Fields
    <3>2. p.quit = TRUE
      BY <2>1, FieldState DEF Fields
    <3> QED BY <3>1, <3>2
  <2>3. PanelIsOwn(p)
    BY <2>2, OwnPanel DEF Informs
  <2> QED BY <2>2, <2>3 DEF Informs
<1>3. CASE job.kind \in {"pair", "unpair"}
  <2>1. p = SetFlash(s, "pairing")
    BY <1>3 DEF Performed
  <2> HIDE DEF p
  <2> QED BY <1>1, <2>1
<1>4. CASE job.kind = "toggle"
  <2> DEFINE t == [s EXCEPT !.plugins[job.row].enabled = job.enabled]
  <2>1. p = SetFlash(t, "toggling")
    BY <1>4 DEF Performed
  <2>2. IsState(t) /\ t.detail = s.detail /\ t.reply = s.reply
    BY DEF IsState, Fields
  <2>3. t.plugins = [s.plugins EXCEPT ![job.row] = [@ EXCEPT !.enabled = job.enabled]]
    BY DEF IsState, Fields
  <2> HIDE DEF t, p
  <2>4. PanelIsOwn(t)
    BY <2>2, <2>3 DEF PanelIsOwn
  <2> QED BY <1>1, <2>1, <2>2, <2>4
<1>5. CASE job.kind \notin {"quit", "pair", "unpair", "toggle"}
  <2>1. p = s
    BY <1>5 DEF Performed
  <2> HIDE DEF p
  <2> QED BY <2>1
<1> QED BY <1>2, <1>3, <1>4, <1>5

\* apply_event's match: no event touches the panel's rows, except to empty it.
LEMMA ReduceState ==
  ASSUME NEW s, IsState(s), NEW e
  PROVE  Informs(s, Reduce(s, e))
<1>1. \A f \in Fields \ {"plugins", "detail", "reply"} : \A v : Informs(s, [s EXCEPT ![f] = v])
  BY OtherField
<1>2. Informs(s, s)
  BY DEF Informs, SamePanel
<1>3. \A t, x : Informs(s, PutTransfer(s, t, x))
  BY <1>1 DEF PutTransfer, Fields
<1>4. CASE e.kind = "Hello"
  <2>1. Reduce(s, e) = [s EXCEPT !.daemon = TRUE]
    BY <1>4 DEF Reduce
  <2> QED BY <1>1, <2>1 DEF Fields
<1>5. CASE e.kind = "DeviceFound"
  <2>1. Reduce(s, e) = [s EXCEPT !.devices = Upsert(s.devices, FromFound(e.id))]
    BY <1>5 DEF Reduce
  <2> QED BY <1>1, <2>1 DEF Fields
<1>6. CASE e.kind = "DeviceLost"
  <2> DEFINE t == [s EXCEPT !.devices = SelectSeq(@, LAMBDA r : r.id # e.id)]
  <2>1. Reduce(s, e) = IF s.detail = e.id THEN CloseDetail(t) ELSE t
    BY <1>6 DEF Reduce
  <2>2. Informs(s, t)
    BY <1>1 DEF Fields
  <2> HIDE DEF t
  <2>3. Informs(s, CloseDetail(t))
    BY <2>2, CloseState, InformsTwice DEF Informs
  <2> QED BY <2>1, <2>2, <2>3
<1>7. CASE e.kind = "DeviceStateChanged"
  <2>1. PICK v : Reduce(s, e) = [s EXCEPT !.devices = v]
    BY <1>7 DEF Reduce
  <2> QED BY <1>1, <2>1 DEF Fields
<1>8. CASE e.kind \in {"TransferAdded", "TransferProgress", "TransferFinished"}
  <2>1. Reduce(s, e) = s \/ \E t, x : Reduce(s, e) = PutTransfer(s, t, x)
    BY <1>8 DEF Reduce
  <2> QED BY <1>2, <1>3, <2>1
<1>9. CASE e.kind = "NotificationReceived"
  <2>1. PICK v : Reduce(s, e) = [s EXCEPT !.notifications = v]
    BY <1>9 DEF Reduce
  <2> QED BY <1>1, <2>1 DEF Fields
<1>10. CASE e.kind = "ClipboardUpdated"
  <2>1. Reduce(s, e) = [s EXCEPT !.clipboard = TRUE]
    BY <1>10 DEF Reduce
  <2> QED BY <1>1, <2>1 DEF Fields
<1>11. CASE e.kind = "LogRecord"
  <2>1. PICK v : Reduce(s, e) = [s EXCEPT !.logs = v]
    BY <1>11 DEF Reduce
  <2> QED BY <1>1, <2>1 DEF Fields
<1>12. CASE e.kind = "DaemonShutdown"
  <2> DEFINE t == [s EXCEPT !.shutdown = TRUE, !.flash = "shutting down"]
  <2>1. Reduce(s, e) = t
    BY <1>12 DEF Reduce
  <2>2. IsState(t) /\ t.plugins = s.plugins /\ t.detail = s.detail /\ t.reply = s.reply
    BY DEF IsState, Fields
  <2> HIDE DEF t
  <2> QED BY <2>1, <2>2 DEF Informs, SamePanel
<1>13. CASE e.kind \notin {"Hello", "DeviceFound", "DeviceLost", "DeviceStateChanged", "TransferAdded",
                           "TransferProgress", "TransferFinished", "NotificationReceived",
                           "ClipboardUpdated", "LogRecord", "DaemonShutdown"}
  <2>1. Reduce(s, e) = s
    BY <1>13 DEF Reduce
  <2> QED BY <1>2, <2>1
<1> QED BY <1>4, <1>5, <1>6, <1>7, <1>8, <1>9, <1>10, <1>11, <1>12, <1>13

\* Clamping the cursors and marking the state, as both reducers end.
LEMMA Finished ==
  ASSUME NEW s, IsState(s)
  PROVE  LET t == [ClampCursors(s) EXCEPT !.dirty = TRUE] IN Informs(s, t) /\ t.dirty = TRUE
<1>1. Informs(s, ClampCursors(s))
  BY ClampState
<1>2. Informs(ClampCursors(s), Dirty(ClampCursors(s))) /\ Dirty(ClampCursors(s)).dirty = TRUE
  BY <1>1, DirtyState DEF Informs
<1>3. Informs(s, Dirty(ClampCursors(s)))
  BY <1>1, <1>2, InformsTwice
<1> QED BY <1>2, <1>3 DEF Dirty

\* apply_event draws and touches neither the panel's rows nor the reply.
LEMMA EventState ==
  ASSUME NEW s, IsState(s), NEW e
  PROVE  Informs(s, ApplyEvent(s, e)) /\ ApplyEvent(s, e).dirty = TRUE
<1> DEFINE r == Reduce(s, e)
<1>1. Informs(s, r)
  BY ReduceState
<1>2. ApplyEvent(s, e) = [ClampCursors(r) EXCEPT !.dirty = TRUE]
  BY DEF ApplyEvent
<1> HIDE DEF r
<1>3. Informs(r, ApplyEvent(s, e)) /\ ApplyEvent(s, e).dirty = TRUE
  BY <1>1, <1>2, Finished DEF Informs
<1> QED BY <1>1, <1>3, InformsTwice

-----------------------------------------------------------------------------
(* The loop.                                                               *)

\* The rows an answer carries were fetched for the device it names.
Belongs(o) == \A i \in DOMAIN o.rows : "of" \in DOMAIN o.rows[i] /\ o.rows[i].of = o.device

\* What waits in the channel: outcomes that apply_outcome knows.
Known(o) == o.kind \in {"Flash", "Devices", "Notifications"} \/ (o.kind = "Plugins" /\ Belongs(o))
OutcomesKnown == \E S : outcomes \in Seq(S) /\ \A o \in S : Known(o)

\* apply_outcome draws; it fills the panel only with the rows of the panel's device.
LEMMA OutcomeState ==
  ASSUME NEW s, IsState(s), PanelIsOwn(s), NEW o, Known(o)
  PROVE  LET t == ApplyOutcome(s, o) IN IsState(t) /\ PanelIsOwn(t) /\ t.reply = s.reply /\ t.dirty = TRUE
<1> DEFINE a == ApplyOutcome(s, o)
<1>1. \A f \in Fields \ {"plugins", "detail", "reply"} : \A v : Informs(s, [s EXCEPT ![f] = v])
  BY OtherField
<1>2. \E t : /\ IsState(t) /\ PanelIsOwn(t) /\ t.reply = s.reply
             /\ a = [ClampCursors(t) EXCEPT !.dirty = TRUE]
  <2>1. ASSUME NEW t, Informs(s, t) PROVE IsState(t) /\ PanelIsOwn(t) /\ t.reply = s.reply
    BY <2>1, OwnPanel DEF Informs
  <2>2. CASE o.kind = "Flash"
    <3>1. a = [ClampCursors([s EXCEPT !.flash = o.text]) EXCEPT !.dirty = TRUE]
      BY <2>2 DEF ApplyOutcome
    <3>2. Informs(s, [s EXCEPT !.flash = o.text])
      BY <1>1 DEF Fields
    <3> QED BY <2>1, <3>1, <3>2
  <2>3. CASE o.kind = "Devices"
    <3>1. a = [ClampCursors([s EXCEPT !.devices = o.rows]) EXCEPT !.dirty = TRUE]
      BY <2>3 DEF ApplyOutcome
    <3>2. Informs(s, [s EXCEPT !.devices = o.rows])
      BY <1>1 DEF Fields
    <3> QED BY <2>1, <3>1, <3>2
  <2>4. CASE o.kind = "Notifications"
    <3> DEFINE v == Newest(o.rows, NotificationCap)
    <3>1. a = [ClampCursors([s EXCEPT !.notifications = v]) EXCEPT !.dirty = TRUE]
      BY <2>4 DEF ApplyOutcome
    <3>2. Informs(s, [s EXCEPT !.notifications = v])
      BY <1>1 DEF Fields
    <3> QED BY <2>1, <3>1, <3>2
  <2>5. CASE o.kind = "Plugins" /\ ~IsPanelOf(s, o.device)
    <3>1. a = [ClampCursors(s) EXCEPT !.dirty = TRUE]
      BY <2>5 DEF ApplyOutcome
    <3> QED BY <3>1
  <2>6. CASE o.kind = "Plugins" /\ IsPanelOf(s, o.device)
    <3> DEFINE t == [s EXCEPT !.plugins = o.rows]
    <3>1. a = [ClampCursors(t) EXCEPT !.dirty = TRUE]
      BY <2>6 DEF ApplyOutcome
    <3>2. IsState(t) /\ t.plugins = o.rows /\ t.detail = s.detail /\ t.reply = s.reply
      BY FieldState DEF Fields
    <3> HIDE DEF t
    <3>3. Belongs(o) /\ s.detail = o.device
      BY <2>6 DEF Known, IsPanelOf
    <3>4. PanelIsOwn(t)
      BY <3>2, <3>3 DEF PanelIsOwn, Belongs
    <3> HIDE DEF a
    <3> QED BY <3>1, <3>2, <3>4
  <2> QED BY <2>2, <2>3, <2>4, <2>5, <2>6 DEF Known
<1> HIDE DEF a
<1>3. PICK t : /\ IsState(t) /\ PanelIsOwn(t) /\ t.reply = s.reply
               /\ a = [ClampCursors(t) EXCEPT !.dirty = TRUE]
  BY <1>2
<1>4. Informs(t, a) /\ a.dirty = TRUE
  BY <1>3, Finished
<1>5. PanelIsOwn(a)
  BY <1>3, <1>4, OwnPanel DEF Informs
<1>6. IsState(a) /\ PanelIsOwn(a) /\ a.reply = s.reply /\ a.dirty = TRUE
  BY <1>3, <1>4, <1>5 DEF Informs
<1> QED BY <1>6 DEF a

\* The modal is open on the notification the user asked to answer.
ReplyIsSubject == ui.reply # None => subject = ui.reply

\* The inductive invariant.
TerminalInv ==
  /\ IsState(ui) /\ OutcomesKnown
  /\ ScreenIsCurrent /\ PanelIsOwn(ui)
  /\ ReplyIsSubject /\ ReplyToSelected

\* The state a client starts with, and is left with.
LEMMA NewIsState == IsState(NewState) /\ PanelIsOwn(NewState) /\ NewState.reply = None
<1>1. IsState(NewState)
  BY DEF IsState, NewState, Fields
<1>2. PanelIsOwn(NewState) /\ NewState.reply = None
  BY DEF PanelIsOwn, NewState
<1> QED BY <1>1, <1>2

\* A frame leaves a state that it shows.
LEMMA Shown ==
  ASSUME NEW s, IsState(s), PanelIsOwn(s), Draw(s)
  PROVE  /\ IsState(ui)' /\ ScreenIsCurrent' /\ PanelIsOwn(ui)'
         /\ ui'.reply = s.reply
<1>1. ui' = [s EXCEPT !.dirty = FALSE] /\ screen' = View(s)
  BY DEF Draw
<1>2. Informs(s, ui')
  BY <1>1, OtherField DEF Fields
<1>3. View(ui') = View(s)
  BY <1>1, ViewDirty
<1>4. PanelIsOwn(ui')
  BY <1>2, OwnPanel DEF Informs
<1> QED BY <1>1, <1>2, <1>3, <1>4 DEF ScreenIsCurrent, Informs

\* The top of the loop draws, leaves, or had nothing to draw.
LEMMA TopShows ==
  ASSUME TerminalInv, pc = "select", NEW s, IsState(s), PanelIsOwn(s),
         s.reply # None => subject' = s.reply,
         s.dirty = TRUE \/ s.quit = TRUE \/ s = ui, Top(s)
  PROVE  IsState(ui)' /\ ScreenIsCurrent' /\ PanelIsOwn(ui)' /\ ReplyIsSubject'
<1>1. CASE Leave
  BY <1>1, NewIsState DEF Leave, ScreenIsCurrent, ReplyIsSubject
<1>2. CASE Draw(s)
  BY <1>2, Shown DEF ReplyIsSubject
<1>3. CASE ~s.quit /\ ~s.dirty /\ ui' = s /\ UNCHANGED <<pc, tty, screen>>
  <2>1. s = ui
    BY <1>3
  <2> QED BY <1>3, <2>1 DEF TerminalInv, ScreenIsCurrent, ReplyIsSubject
<1> QED BY <1>1, <1>2, <1>3 DEF Top

\* An outcome joins the channel.
LEMMA OutcomeSent ==
  ASSUME OutcomesKnown, NEW o, Known(o), outcomes' = Append(outcomes, o)
  PROVE  OutcomesKnown'
<1>1. PICK S : outcomes \in Seq(S) /\ \A x \in S : Known(x)
  BY DEF OutcomesKnown
<1> DEFINE T == S \cup {o}
<1>2. outcomes' \in Seq(T)
  <2>1. outcomes \in Seq(T) /\ o \in T
    BY <1>1
  <2> HIDE DEF T
  <2> QED BY <2>1
<1>3. \A x \in T : Known(x)
  BY <1>1
<1> QED BY <1>2, <1>3, Zenon DEF OutcomesKnown

\* An outcome leaves the channel.
LEMMA OutcomeTaken ==
  ASSUME OutcomesKnown, outcomes # <<>>
  PROVE  Known(Head(outcomes)) /\ (outcomes' = Tail(outcomes) => OutcomesKnown')
<1>1. PICK S : outcomes \in Seq(S) /\ \A x \in S : Known(x)
  BY DEF OutcomesKnown
<1>2. Head(outcomes) \in S /\ Tail(outcomes) \in Seq(S)
  BY <1>1
<1>3. outcomes' = Tail(outcomes) => OutcomesKnown'
  BY <1>1, <1>2, Zenon DEF OutcomesKnown
<1> QED BY <1>1, <1>2, <1>3

\* What a background request sends; the rows of load_plugins carry its device.
LEMMA RequestSends ==
  ASSUME NEW i, Request(i)
  PROVE  outcomes' = outcomes \/ \E o : Known(o) /\ outcomes' = Append(outcomes, o)
<1>1. \A d, rows : Known(PluginRows(d, ParsePlugins(d, rows)))
  BY DEF Known, Belongs, PluginRows, ParsePlugins
<1>2. \A rows : Known(DeviceRows(rows)) /\ Known(NoteRows(rows)) /\ Known(Flash(rows))
  BY DEF Known, DeviceRows, NoteRows, Flash
<1>3. PICK got : Sent(i, got) /\ (got = Nothing \/ Known(got))
  <2>1. CASE Handle(i)
    BY <1>1, <1>2, <2>1, Zenon DEF Handle
  <2>2. CASE Sent(i, FailedOutcome(Head(tasks[i].legs)))
    BY <1>2, <2>2 DEF FailedOutcome
  <2> QED BY <2>1, <2>2 DEF Request
<1> QED BY <1>3 DEF Sent

\* The invariant is inductive.
LEMMA TerminalStep ==
  ASSUME TerminalInv, [Next]_vars
  PROVE  TerminalInv'
<1>1. ASSUME UNCHANGED outcomes PROVE OutcomesKnown'
  BY <1>1 DEF TerminalInv, OutcomesKnown
<1>2. ASSUME UNCHANGED replies PROVE ReplyToSelected'
  BY <1>2 DEF TerminalInv, ReplyToSelected
<1>3. ASSUME UNCHANGED <<pc, ui, screen, subject>>
      PROVE  IsState(ui)' /\ ScreenIsCurrent' /\ PanelIsOwn(ui)' /\ ReplyIsSubject'
  BY <1>3 DEF TerminalInv, ScreenIsCurrent, ReplyIsSubject
<1>4. ASSUME pc = "select", UNCHANGED subject, NEW s, IsState(s), PanelIsOwn(s), s.reply = ui.reply,
             s.dirty = TRUE \/ s = ui, Top(s)
      PROVE  IsState(ui)' /\ ScreenIsCurrent' /\ PanelIsOwn(ui)' /\ ReplyIsSubject'
  <2>1. s.reply # None => subject' = s.reply
    BY <1>4 DEF TerminalInv, ReplyIsSubject
  <2> QED BY <1>4, <2>1, TopShows
<1>5. \A f : LET s == SetFlash(ui, f)
             IN IsState(s) /\ PanelIsOwn(s) /\ s.reply = ui.reply /\ s.dirty = TRUE
  BY FlashState, OwnPanel DEF TerminalInv, Informs
<1>6. CASE Setup
  <2>1. UNCHANGED <<outcomes, replies, subject>> /\ pc = "setup"
    BY <1>6 DEF Setup
  <2>2. CASE Draw(ui)
    BY <1>1, <1>2, <2>1, <2>2, Shown DEF TerminalInv, ReplyIsSubject
  <2>3. CASE pc' = "exited" /\ UNCHANGED <<ui, screen>>
    BY <1>1, <1>2, <2>1, <2>3 DEF TerminalInv, ScreenIsCurrent, ReplyIsSubject
  <2> QED BY <1>6, <2>2, <2>3 DEF Setup
<1>7. CASE OnServerEvent
  <2>1. \A e : LET s == ApplyEvent(ui, e)
               IN IsState(s) /\ PanelIsOwn(s) /\ s.reply = ui.reply /\ s.dirty = TRUE
    BY EventState, OwnPanel DEF TerminalInv, Informs
  <2>2. PICK s : IsState(s) /\ PanelIsOwn(s) /\ s.reply = ui.reply /\ s.dirty = TRUE /\ Top(s)
    BY <1>5, <1>7, <2>1, Zenon DEF OnServerEvent
  <2>3. pc = "select" /\ UNCHANGED <<outcomes, subject, replies>>
    BY <1>7 DEF OnServerEvent
  <2> QED BY <1>1, <1>2, <1>4, <2>2, <2>3 DEF TerminalInv
<1>8. CASE OnOutcome
  <2> DEFINE s == ApplyOutcome(ui, Head(outcomes))
  <2>1. /\ pc = "select" /\ outcomes # <<>> /\ outcomes' = Tail(outcomes) /\ Top(s)
        /\ UNCHANGED <<subject, replies>>
    BY <1>8 DEF OnOutcome
  <2>2. Known(Head(outcomes)) /\ OutcomesKnown'
    BY <2>1, OutcomeTaken DEF TerminalInv
  <2>3. IsState(s) /\ PanelIsOwn(s) /\ s.reply = ui.reply /\ s.dirty = TRUE
    BY <2>2, OutcomeState DEF TerminalInv
  <2> HIDE DEF s
  <2> QED BY <1>2, <1>4, <2>1, <2>2, <2>3 DEF TerminalInv
<1>9. ASSUME NEW k \in Keys, OnKey(k) PROVE TerminalInv'
  <2> DEFINE t == Press(ui, k).state
             job == Press(ui, k).action
             replying == job # None /\ job.kind = "reply"
             p == IF job = None THEN t ELSE Performed(t, job)
  <2>1. /\ pc = "select" /\ Top(p)
        /\ outcomes' = IF replying THEN Append(outcomes, Flash("phase 3")) ELSE outcomes
        /\ replies' = IF replying THEN replies \cup {<<subject, job.device>>} ELSE replies
        /\ subject' = IF ui.reply = None THEN t.reply ELSE subject
    BY <1>9 DEF OnKey
  <2>2. /\ Redraws(ui, t)
        /\ ui.reply # None => t.reply \in {ui.reply, None}
        /\ replying => ui.reply # None /\ job = Job("reply", ui.reply)
    BY <1>9, AnyKey DEF TerminalInv
  <2> HIDE DEF t, job
  <2>3. IsState(t) /\ PanelIsOwn(t) /\ (t.dirty = TRUE \/ t = ui)
    BY <2>2, OwnPanel DEF TerminalInv, Redraws
  <2>4. /\ IsState(p) /\ PanelIsOwn(p) /\ p.reply = t.reply
        /\ p.dirty = TRUE \/ p.quit = TRUE \/ p = ui
    BY <2>3, PerformedState
  <2>5. ui.reply # None => subject = ui.reply
    BY <2>1 DEF TerminalInv, ReplyIsSubject
  <2>6. p.reply # None => subject' = p.reply
    <3>1. t.reply # None => subject' = t.reply
      BY <2>1, <2>2, <2>5
    <3> QED BY <2>4, <3>1
  <2>7. OutcomesKnown'
    <3>1. Known(Flash("phase 3"))
      BY DEF Flash, Known
    <3> QED BY <1>1, <2>1, <3>1, OutcomeSent DEF TerminalInv
  <2>8. ReplyToSelected'
    <3>1. CASE replying
      <4>1. job.device = subject
        BY <2>2, <2>5, <3>1 DEF Job
      <4>2. replies' = replies \cup {<<subject, subject>>}
        BY <2>1, <3>1, <4>1
      <4>3. \A r \in replies : r[1] = r[2]
        BY DEF TerminalInv, ReplyToSelected
      <4>4. \A r \in replies' : r[1] = r[2]
        BY <4>2, <4>3
      <4> QED BY <4>4, Zenon DEF ReplyToSelected
    <3>2. CASE ~replying
      BY <1>2, <2>1, <3>2
    <3> QED BY <3>1, <3>2
  <2> HIDE DEF p
  <2>9. IsState(ui)' /\ ScreenIsCurrent' /\ PanelIsOwn(ui)' /\ ReplyIsSubject'
    BY <2>1, <2>4, <2>6, TopShows
  <2> QED BY <2>7, <2>8, <2>9 DEF TerminalInv
<1>10. CASE OnOther
  <2>1. pc = "select" /\ UNCHANGED <<outcomes, subject, replies>>
    BY <1>10 DEF OnOther
  <2>2. PICK s \in {ui, Dirty(ui), SetFlash(ui, "input error")} : Top(s)
    BY <1>10 DEF OnOther
  <2>3. IsState(s) /\ PanelIsOwn(s) /\ s.reply = ui.reply /\ (s.dirty = TRUE \/ s = ui)
    <3>1. IsState(Dirty(ui)) /\ PanelIsOwn(Dirty(ui)) /\ Dirty(ui).reply = ui.reply /\ Dirty(ui).dirty = TRUE
      BY DirtyState, OwnPanel DEF TerminalInv, Informs
    <3> QED BY <1>5, <2>2, <3>1 DEF TerminalInv
  <2> QED BY <1>1, <1>2, <1>4, <2>1, <2>2, <2>3 DEF TerminalInv
<1>11. ASSUME NEW i \in 1 .. MaxTasks, Request(i) PROVE TerminalInv'
  <2>1. OutcomesKnown'
    BY <1>1, <1>11, RequestSends, OutcomeSent DEF TerminalInv
  <2> QED BY <1>2, <1>3, <1>11, <2>1 DEF Request, TerminalInv
<1>12. CASE DaemonGone \/ (\E e \in Events : Publish(e)) \/ UNCHANGED vars
  BY <1>1, <1>2, <1>3, <1>12 DEF DaemonGone, Publish, vars, TerminalInv
<1> QED BY <1>6, <1>7, <1>8, <1>9, <1>10, <1>11, <1>12 DEF Next, Loop

\* The invariant holds of every state of the terminal client.
LEMMA TerminalInvariance == Spec => []TerminalInv
<1>1. Init => TerminalInv
  <2> SUFFICES ASSUME Init PROVE TerminalInv
    OBVIOUS
  <2>1. IsState(ui) /\ PanelIsOwn(ui)
    BY NewIsState DEF Init
  <2>2. OutcomesKnown
    <3>1. outcomes \in Seq({})
      BY DEF Init
    <3> QED BY <3>1 DEF OutcomesKnown
  <2>3. ScreenIsCurrent /\ ReplyIsSubject /\ ReplyToSelected
    BY NewIsState DEF Init, ScreenIsCurrent, ReplyIsSubject, ReplyToSelected
  <2> QED BY <2>1, <2>2, <2>3 DEF TerminalInv
<1>2. TerminalInv /\ [Next]_vars => TerminalInv'
  BY TerminalStep
<1> QED BY <1>1, <1>2, PTL DEF Spec

\* Whenever the loop waits, the screen shows the current state: no reducer of
\* tui/state.rs changes what a frame shows without setting `dirty`.
THEOREM ScreenStaysCurrent == Spec => []ScreenIsCurrent
<1>1. TerminalInv => ScreenIsCurrent
  BY DEF TerminalInv
<1> QED BY <1>1, TerminalInvariance, PTL

\* The plugin panel shows rows of the device it is open for: apply_outcome drops the
\* answer to a request made for another one, however many are under way.
THEOREM PanelStaysOwn == Spec => []PanelOfDetail
<1>1. TerminalInv => PanelOfDetail
  BY DEF TerminalInv, PanelIsOwn, PanelOfDetail
<1> QED BY <1>1, TerminalInvariance, PTL

\* A reply goes to the notification that was selected when the modal was opened,
\* whatever arrives, is evicted or moves the cursor while the user types.
THEOREM RepliesReachTheirNote == Spec => []ReplyToSelected
<1>1. TerminalInv => ReplyToSelected
  BY DEF TerminalInv
<1> QED BY <1>1, TerminalInvariance, PTL
=============================================================================
