---------------------------- MODULE RequestReply ----------------------------
(***************************************************************************)
(* What an IPC connection promises its callers, whatever happens to it:    *)
(* the daemon handles a request at most once and in no way after it was    *)
(* never sent; a call returns once, either with the daemon's answer to     *)
(* that very request or with an error.  An error says nothing about        *)
(* whether the request was, or will still be, handled.                     *)
(***************************************************************************)
CONSTANTS Reqs, Failed

VARIABLES
  handled,    \* the requests the daemon has handled
  state       \* of each call: "idle", "open", the request answered, Failed

vars == <<handled, state>>

Init ==
  /\ handled = {}
  /\ state = [r \in Reqs |-> "idle"]

Issue(r) ==
  /\ state[r] = "idle"
  /\ state' = [state EXCEPT ![r] = "open"]
  /\ UNCHANGED handled

Handle(r) ==
  /\ state[r] # "idle"
  /\ r \notin handled
  /\ handled' = handled \cup {r}
  /\ UNCHANGED state

Answer(r) ==
  /\ state[r] = "open"
  /\ r \in handled
  /\ state' = [state EXCEPT ![r] = r]
  /\ UNCHANGED handled

Fail(r) ==
  /\ state[r] \in {"idle", "open"}
  /\ state' = [state EXCEPT ![r] = Failed]
  /\ UNCHANGED handled

Next == \E r \in Reqs : Issue(r) \/ Handle(r) \/ Answer(r) \/ Fail(r)

Spec == Init /\ [][Next]_vars
=============================================================================
