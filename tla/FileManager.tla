---------------------------- MODULE FileManager -----------------------------
(***************************************************************************)
(* `hfctl filemanager install|update|remove` (tui/filemanager.rs): the     *)
(* menu files of six file managers, for the user or for the system.  One   *)
(* of them, Thunar's uca.xml, is the user's own and is edited in place.    *)
(*                                                                         *)
(* A file of ours is what it was generated from: the path of hfctl, and    *)
(* for Dolphin the devices.  uca.xml is a sequence of "user" actions, our  *)
(* own, text that happens to hold our marker, and the closing tag.         *)
(***************************************************************************)
EXTENDS Integers, Sequences, SequencesExt, FiniteSets

CONSTANTS
  None,
  Bins,       \* where hfctl may be run from
  Devices,
  MaxOps      \* bound: commands and edits

VARIABLES
  scope,      \* with or without --system; the two share no file
  files,      \* the content for each target, None where there is no file
  uca,        \* the user's ~/.config/Thunar/uca.xml
  cut,        \* history: a write of uca.xml was interrupted, and Thunar has not
              \* written it since
  outcome,    \* the last command: what it was, the binary, its success
  ops

vars == <<scope, files, uca, cut, outcome, ops>>

-----------------------------------------------------------------------------
GObject == <<"nautilus", "nemo", "caja">>
Targets == {"nautilus", "nemo", "caja", "dolphin", "pcmanfm"}

\* python_extension asks for the devices when its menu is opened ...
PythonExtension(bin) == [bin |-> bin, devices |-> {}]

\* ... dolphin_servicemenu has an action for each, and one that picks, and
\* pcmanfm_action only the latter.
DolphinServicemenu(bin, devices) == [bin |-> bin, devices |-> devices]
PcmanfmAction(bin) == [bin |-> bin, devices |-> {}]

Generate(t, bin, devices) ==
  CASE t = "dolphin" -> DolphinServicemenu(bin, devices)
    [] t = "pcmanfm" -> PcmanfmAction(bin)
    [] OTHER -> PythonExtension(bin)

Ours(b) == [kind |-> "ours", bin |-> b]
User == [kind |-> "user"]
Mention == [kind |-> "mention"]
EndTag == [kind |-> "end"]
IsOurs(x) == x.kind = "ours"
IsUsers(x) == x.kind \in {"user", "mention"}

\* (mutant) From the first action of the file to the end of the marked one.
StripFromFirst(xml) ==
  LET p == SelectInSeq(xml, IsOurs) IN
    IF p = 0 THEN xml ELSE SubSeq(xml, p + 1, Len(xml))

\* strip_action_block: the first block with our unique id, if there is one.
StripActionBlock(xml) ==
  LET p == SelectInSeq(xml, IsOurs) IN IF p = 0 THEN xml ELSE RemoveAt(xml, p)

\* content.contains(MARKER)
AlreadyInstalled(xml) == \E i \in DOMAIN xml : xml[i].kind \in {"ours", "mention"}

\* content.replace("</actions>", block + "</actions>"); there is at most one.
InsertBlock(xml, b) ==
  LET p == SelectInSeq(xml, LAMBDA x : x = EndTag) IN InsertAt(xml, p, Ours(b))

\* thunar_merge(false, false), None when it refuses.
ThunarMerge(b) ==
  CASE uca = None -> <<Ours(b), EndTag>>
    [] uca # None /\ AlreadyInstalled(uca) -> uca
    [] uca # None /\ ~AlreadyInstalled(uca) /\ Contains(uca, EndTag) -> InsertBlock(uca, b)
    [] OTHER -> None

Init ==
  /\ scope \in {"user", "system"}
  /\ files = [t \in Targets |-> None]
  /\ uca \in IF scope = "system" THEN {None} ELSE
      {None, <<>>, <<EndTag>>, <<User, EndTag>>, <<User, Mention, EndTag>>}
  /\ cut = FALSE
  /\ outcome = None
  /\ ops = 0

-----------------------------------------------------------------------------
\* std::fs::write empties the file and writes it in place: if it fails or hfctl is
\* killed meanwhile, some beginning of the new content is what there is.
Torn == [bin |-> None, devices |-> {}]
Beginnings(xml) == {SubSeq(xml, 1, k) : k \in 0..Len(xml) - 1}

\* The steps of a command up to the k-th, and the one it then stops at, if any.
Done(steps, k) == Range(SubSeq(steps, 1, k))
StopsAt(steps, k) == IF k < Len(steps) THEN steps[k + 1] ELSE None

\* write_file_if_changed for every target in ts.
Written(ts, b, devices) ==
  [t \in Targets |-> IF t \in ts THEN Generate(t, b, devices) ELSE files[t]]

\* The step a command stops at fails before it writes, or in the middle of it.
WriteFiles(steps, k, b, devices) ==
  LET next == StopsAt(steps, k) IN
    \/ files' = Written(Done(steps, k), b, devices)
    \/ /\ next \in Targets /\ files[next] # Generate(next, b, devices)
       /\ files' = [Written(Done(steps, k), b, devices) EXCEPT ![next] = Torn]

\* std::fs::write of uca.xml, if it is to change, and one that is interrupted.
Rewrite(xml) == uca' = xml /\ UNCHANGED cut
RewriteStops(xml) == xml # uca /\ uca' \in Beginnings(xml) /\ cut' = TRUE

Ends(op, b, ok) ==
  /\ ops < MaxOps
  /\ ops' = ops + 1
  /\ outcome' = [op |-> op, bin |-> b, ok |-> ok]
  /\ UNCHANGED scope

\* install: stops at the first target that fails; Thunar is skipped for the system.
InstallSteps ==
  GObject \o <<"dolphin">> \o (IF scope = "user" THEN <<"thunar">> ELSE <<>>) \o <<"pcmanfm">>

Install(b) ==
  \E k \in 0..Len(InstallSteps) :
    /\ WriteFiles(InstallSteps, k, b, {})
    /\ \/ "thunar" \notin Done(InstallSteps, k) /\ Rewrite(uca)
       \/ "thunar" \in Done(InstallSteps, k) /\ ThunarMerge(b) # None /\ Rewrite(ThunarMerge(b))
       \/ /\ "thunar" = StopsAt(InstallSteps, k)
          /\ ThunarMerge(b) # None /\ RewriteStops(ThunarMerge(b))
    /\ Ends("install", b, k = Len(InstallSteps))

\* update: the daemon's list (or an error before anything is written), then Dolphin,
\* then the extensions.
UpdateSteps == <<"dolphin">> \o GObject

Update(b) ==
  \E devices \in SUBSET Devices, k \in 0..Len(UpdateSteps) :
    /\ WriteFiles(UpdateSteps, k, b, devices)
    /\ Ends("update", b, k = Len(UpdateSteps))
    /\ UNCHANGED <<uca, cut>>

\* remove: every file, then our action in uca.xml.  An error of remove_file is
\* ignored (it hits all of /usr/share without the rights, or one of the files); one
\* of thunar_merge is not.
RemoveMenus ==
  LET stripped == IF scope = "user" /\ uca # None THEN StripActionBlock(uca) ELSE uca
  IN \E stays \in {{}, Targets} \cup {{t} : t \in Targets} :
       /\ files' = [t \in Targets |-> IF t \in stays THEN files[t] ELSE None]
       /\ \/ Rewrite(stripped) /\ Ends("remove", None, TRUE)
          \/ scope = "user" /\ uca # None /\ Rewrite(uca) /\ Ends("remove", None, FALSE)
          \/ RewriteStops(stripped) /\ Ends("remove", None, FALSE)

\* The user adds an action of their own with Thunar, which writes a whole file.
UserEdits ==
  /\ ops < MaxOps
  /\ ops' = ops + 1
  /\ scope = "user"
  /\ uca' = <<User>> \o SelectSeq(IF uca = None THEN <<>> ELSE uca, LAMBDA x : x # EndTag)
            \o <<EndTag>>
  /\ cut' = FALSE
  /\ outcome' = None
  /\ UNCHANGED <<scope, files>>

Command == RemoveMenus \/ \E b \in Bins : Install(b) \/ Update(b)

Next == Command \/ UserEdits

Spec == Init /\ [][Next]_vars

-----------------------------------------------------------------------------
(* Properties. *)

\* A command that reports success has done what it is for, after any others and
\* any failures: the menus are there and run this hfctl (Thunar's may run an older
\* one), or our action is gone from uca.xml (install, update, remove).  Two
\* exceptions of install are exact: it takes text of the user that holds the marker,
\* or what an interrupted write left of our action, for an installed one.  Of the
\* files that remove is to delete, its success says nothing.
OutcomeIsTrue ==
  outcome # None /\ outcome.ok =>
    CASE outcome.op = "install" ->
           /\ \A t \in Targets : files[t] = Generate(t, outcome.bin, {})
           /\ scope = "user" =>
                \/ Contains(uca, Mention)
                \/ (\E i \in DOMAIN uca : IsOurs(uca[i])) /\ (Contains(uca, EndTag) \/ cut)
      [] outcome.op = "update" ->
           \A t \in Targets \ {"pcmanfm"} : files[t].bin = outcome.bin
      [] outcome.op = "remove" ->
           scope = "user" /\ uca # None => \A i \in DOMAIN uca : ~IsOurs(uca[i])

\* "while preserving the user's existing actions" (thunar_merge, lines 356-357): no
\* command adds, removes or reorders what in uca.xml is the user's, except that one
\* whose write is interrupted, and which therefore does not report success, may
\* lose the later ones of them.
UserActionsKept ==
  [][outcome' # None /\ uca # None =>
       LET before == SelectSeq(uca, IsUsers)
           after  == SelectSeq(uca', IsUsers)
       IN after = before \/ (cut' /\ ~outcome'.ok /\ IsStrictPrefix(after, before))]_vars
=============================================================================
