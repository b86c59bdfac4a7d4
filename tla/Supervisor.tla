------------------------------ MODULE Supervisor ------------------------------
(***************************************************************************)
(* The supervision tree (crates/core/src/supervise.rs) with the tasks      *)
(* main.rs puts under it.  A spawn call starts a watcher task, which runs  *)
(* the factory's child, waits for it and restarts it after a backoff.      *)
(* Spawn calls, watchers, children and shutdown_all run on different       *)
(* threads; each shared access (the shutdown flag, the table of entries,   *)
(* the slot that holds a child's JoinHandle) is a step.                    *)
(*                                                                         *)
(* One spawn call makes one generation, one watcher and one child at a     *)
(* time, so all three are one record.  An aborted task ends at its next    *)
(* await; dropping a JoinHandle lets its task run on.                      *)
(***************************************************************************)
EXTENDS Integers

CONSTANTS
  Calls,        \* calls of Supervisor::spawn
  Names,        \* task names
  OneShot,      \* names whose factory hands over its state only once ("devices"
                \* and "announcement-bridge" in main.rs)
  None,
  BaseBackoff,  \* BASE_BACKOFF
  MaxBackoff,   \* MAX_BACKOFF
  MaxFailures,  \* where consecutive_failures saturates (u32::MAX)
  MaxRestarts   \* bound: where counting the restarts of a name stops

ASSUME SupervisorAssumption ==
  /\ None \notin Calls \cup Names
  /\ OneShot \subseteq Names
  /\ BaseBackoff \in Nat /\ MaxBackoff \in Nat /\ BaseBackoff <= MaxBackoff
  /\ MaxFailures \in Nat /\ MaxRestarts \in Nat

VARIABLES
  shutdown,  \* Inner::shutdown
  table,     \* Inner::children: the call whose entry a name has
  restarts,  \* Inner::restarts
  call,      \* a spawn call, its watcher and its child
  stopper,   \* where shutdown_all is
  batch,     \* entries it has drained and not yet awaited
  doomed     \* calls whose child it has taken from the slot

vars == <<shutdown, table, restarts, call, stopper, batch, doomed>>
globals == <<shutdown, table, restarts, stopper, batch, doomed>>

Ended == {"ok", "failed", "panicked", "cancelled"}

CallRecord ==
  [spawn : {"idle", "checked", "watching", "superseding", "returned"},
   name : Names \cup {None},
   previous : Calls \cup {None},  \* the entry this call replaced
   watcher : {"none", "ready", "starting", "parked", "awaiting", "judging",
              "asleep", "ended"},
   slot : BOOLEAN,                \* latest_child holds the child's handle
   child : Ended \cup {"none", "running"},
   hollow : BOOLEAN,              \* the child got nothing out of its cell
   failures : 0..MaxFailures,     \* consecutive_failures
   delay : Nat,                   \* the delay it last slept for
   stopWatcher : BOOLEAN,         \* watcher.abort() was called
   stopChild : BOOLEAN]           \* child.abort() was called

Watching(g) == call[g].watcher \notin {"none", "ended"}

-----------------------------------------------------------------------------
(* Supervisor::spawn.                                                       *)

SpawnCall(g, n) ==
  /\ call[g].spawn = "idle"
  /\ call' = [call EXCEPT ![g].spawn = IF shutdown THEN "returned" ELSE "checked",
                          ![g].name = n]
  /\ UNCHANGED globals

SpawnWatcher(g) ==
  /\ call[g].spawn = "checked"
  /\ call' = [call EXCEPT ![g].spawn = "watching", ![g].watcher = "ready"]
  /\ UNCHANGED globals

InsertEntry(g) ==
  LET old == table[call[g].name] IN
  /\ call[g].spawn = "watching"
  /\ table' = [table EXCEPT ![call[g].name] = g]
  /\ call' = [call EXCEPT ![g].previous = old,
                          ![g].spawn = IF old = None THEN "returned" ELSE "superseding"]
  /\ UNCHANGED <<shutdown, restarts, stopper, batch, doomed>>

\* (mutant) only the child is stopped
ChildStopped(r) == [r EXCEPT !.stopChild = @ \/ r.slot, !.slot = FALSE]

\* What a superseded entry can still be told to stop: its watcher, and its
\* child if the handle happens to be in the slot.
Stopped(r) ==
  [r EXCEPT !.stopWatcher = TRUE, !.stopChild = @ \/ r.slot, !.slot = FALSE]

Supersede(g) ==
  /\ call[g].spawn = "superseding"
  /\ call' = [call EXCEPT ![call[g].previous] = Stopped(@), ![g].spawn = "returned"]
  /\ UNCHANGED globals

-----------------------------------------------------------------------------
(* watch_loop.                                                              *)

\* The loop head reads the flag; the child is started in a later step.
CheckShutdown(g) ==
  /\ call[g].watcher = "ready"
  /\ call' = [call EXCEPT ![g].watcher = IF shutdown THEN "ended" ELSE "starting"]
  /\ UNCHANGED globals

\* lock_cell(..).take() finds nothing: the closure of a spawn call owns its cell,
\* and the first child the call started has emptied it.
CellIsEmpty(g) == call[g].name \in OneShot /\ call[g].child # "none"

\* The factory runs inside the watcher, and the child's handle is parked.
StartChild(g) ==
  /\ call[g].watcher = "starting"
  /\ call' = [call EXCEPT ![g].watcher = "parked", ![g].child = "running",
                          ![g].slot = TRUE, ![g].stopChild = FALSE,
                          ![g].hollow = CellIsEmpty(g)]
  /\ UNCHANGED globals

\* (mutant) the handle stays in the slot
BorrowHandle(r) == r

TakeHandle(r) == [r EXCEPT !.slot = FALSE]

\* The watcher takes the handle back out of the slot to await it.
RetakeChild(g) ==
  /\ call[g].watcher = "parked"
  /\ call' = [call EXCEPT ![g] = [TakeHandle(@) EXCEPT !.watcher =
                                    IF call[g].slot THEN "awaiting" ELSE "ended"]]
  /\ UNCHANGED globals

\* Which outcomes of a child lead to a restart.
Crashed(outcome) == outcome \in {"failed", "panicked"}

ChildJoined(g) ==
  /\ call[g].watcher = "awaiting" /\ call[g].child \in Ended
  /\ call' = [call EXCEPT ![g].watcher = IF Crashed(call[g].child) THEN "judging"
                                         ELSE "ended"]
  /\ UNCHANGED globals

Least(a, b) == IF a < b THEN a ELSE b
Doubled(n) == BaseBackoff * 2 ^ Least(IF n = 0 THEN 0 ELSE n - 1, 20)
\* (mutant) no cap
UncappedDelay(n) == Doubled(n)

\* backoff_delay: attempts 0 and 1 wait the base delay, then it doubles.
BackoffDelay(n) == Least(Doubled(n), MaxBackoff)

\* consecutive_failures after a crash of a child that ran healthily or not.
NextFailures(n, healthy) == IF healthy THEN 0 ELSE Least(n + 1, MaxFailures)

\* After a crash: give up once shut down, else count, and sleep.
Backoff(g, healthy) ==
  LET n == NextFailures(call[g].failures, healthy) IN
  /\ call[g].watcher = "judging" /\ ~shutdown
  /\ restarts' = [restarts EXCEPT ![call[g].name] = Least(@ + 1, MaxRestarts)]
  /\ call' = [call EXCEPT ![g].watcher = "asleep", ![g].failures = n,
                          ![g].delay = BackoffDelay(n)]
  /\ UNCHANGED <<shutdown, table, stopper, batch, doomed>>

GiveUp(g) ==
  /\ call[g].watcher = "judging" /\ shutdown
  /\ call' = [call EXCEPT ![g].watcher = "ended"]
  /\ UNCHANGED globals

WakeUp(g) == [call EXCEPT ![g].watcher = "ready"]

\* The sleep is over.
Retry(g) ==
  /\ call[g].watcher = "asleep"
  /\ call' = WakeUp(g)
  /\ UNCHANGED globals

\* Cancellation lands where the watcher awaits or has not been polled yet.  The
\* child's handle, if the watcher holds it, is dropped with it.
WatcherCancelled(g) ==
  /\ call[g].stopWatcher /\ call[g].watcher \in {"ready", "awaiting", "asleep"}
  /\ call' = [call EXCEPT ![g].watcher = "ended"]
  /\ UNCHANGED globals

\* A child ends by itself, or is cancelled; an empty cell ends it cleanly.
ChildEnds(g, outcome) ==
  /\ call[g].child = "running"
  /\ call[g].hollow => outcome \in {"ok", "cancelled"}
  /\ outcome = "cancelled" => call[g].stopChild
  /\ call' = [call EXCEPT ![g].child = outcome]
  /\ UNCHANGED globals

-----------------------------------------------------------------------------
(* Supervisor::shutdown_all.                                                *)

StopFlag ==
  /\ stopper \in {"idle", "done"}
  /\ stopper' = "flagged"
  /\ shutdown' = TRUE
  /\ UNCHANGED <<table, restarts, call, batch, doomed>>

StopDrain ==
  /\ stopper = "flagged"
  /\ stopper' = "draining"
  /\ batch' = {g \in Calls : \E n \in Names : table[n] = g}
  /\ doomed' = {}
  /\ table' = [n \in Names |-> None]
  /\ UNCHANGED <<shutdown, restarts, call>>

\* (mutant) the watcher is not aborted
NoAbort(r) == r

AbortWatcher(r) == [r EXCEPT !.stopWatcher = TRUE]

StopWatchers ==
  /\ stopper = "draining"
  /\ stopper' = "awaiting"
  /\ call' = [g \in Calls |-> IF g \in batch THEN AbortWatcher(call[g]) ELSE call[g]]
  /\ UNCHANGED <<shutdown, table, restarts, batch, doomed>>

\* (mutant) the handle of the watcher is dropped instead of awaited
CollectAtOnce(g) == TRUE

\* entry.watcher.await has returned.
WatcherIsDead(g) == call[g].watcher = "ended"

\* The for loop awaits a watcher, then empties the slot it left behind.
StopCollect(g) ==
  /\ stopper = "awaiting" /\ g \in batch
  /\ WatcherIsDead(g)
  /\ batch' = batch \ {g}
  /\ doomed' = IF call[g].slot THEN doomed \cup {g} ELSE doomed
  /\ call' = [call EXCEPT ![g] = TakeHandle(@)]
  /\ UNCHANGED <<shutdown, table, restarts, stopper>>

StopChildren ==
  /\ stopper = "awaiting" /\ batch = {}
  /\ stopper' = "joining"
  /\ call' = [g \in Calls |-> IF g \in doomed THEN [call[g] EXCEPT !.stopChild = TRUE]
                              ELSE call[g]]
  /\ UNCHANGED <<shutdown, table, restarts, batch, doomed>>

StopJoined ==
  /\ stopper = "joining"
  /\ \A g \in doomed : call[g].child \in Ended
  /\ stopper' = "done"
  /\ UNCHANGED <<shutdown, table, restarts, call, batch, doomed>>

-----------------------------------------------------------------------------
Init ==
  /\ shutdown = FALSE
  /\ table = [n \in Names |-> None]
  /\ restarts = [n \in Names |-> 0]
  /\ call = [g \in Calls |->
               [spawn |-> "idle", name |-> None, previous |-> None, watcher |-> "none",
                slot |-> FALSE, child |-> "none", hollow |-> FALSE, failures |-> 0,
                delay |-> 0, stopWatcher |-> FALSE, stopChild |-> FALSE]]
  /\ stopper = "idle"
  /\ batch = {}
  /\ doomed = {}

Spawn(g) == SpawnWatcher(g) \/ InsertEntry(g) \/ Supersede(g)

Watch(g) ==
  \/ CheckShutdown(g)
  \/ StartChild(g)
  \/ RetakeChild(g)
  \/ ChildJoined(g)
  \/ GiveUp(g)
  \/ \E healthy \in BOOLEAN : Backoff(g, healthy)
  \/ Retry(g)

Stop ==
  \/ StopDrain
  \/ StopWatchers
  \/ \E g \in Calls : StopCollect(g)
  \/ StopChildren
  \/ StopJoined

Next ==
  \/ \E g \in Calls :
       \/ \E n \in Names : SpawnCall(g, n)
       \/ Spawn(g)
       \/ Watch(g)
       \/ WatcherCancelled(g)
       \/ \E outcome \in Ended : ChildEnds(g, outcome)
  \/ StopFlag
  \/ Stop

\* The runtime polls every woken task, cancels an aborted one at its next await,
\* and a one-shot child with an empty cell returns at once.  Whether and how
\* other children end is up to them.
Fairness ==
  /\ \A g \in Calls :
       /\ WF_vars(Spawn(g))
       /\ WF_vars(Watch(g))
       /\ WF_vars(WatcherCancelled(g))
       /\ WF_vars(call[g].hollow /\ ChildEnds(g, "ok"))
       /\ WF_vars(ChildEnds(g, "cancelled"))
  /\ WF_vars(Stop)

Spec == Init /\ [][Next]_vars
FairSpec == Spec /\ Fairness

-----------------------------------------------------------------------------
(* Properties.                                                              *)

\* Every shared field and every task's place has its type.
TypeOK ==
  /\ shutdown \in BOOLEAN
  /\ table \in [Names -> Calls \cup {None}]
  /\ restarts \in [Names -> 0..MaxRestarts]
  /\ call \in [Calls -> CallRecord]
  /\ stopper \in {"idle", "flagged", "draining", "awaiting", "joining", "done"}
  /\ batch \in SUBSET Calls
  /\ doomed \in SUBSET Calls

\* No watcher runs on unseen: it is in the table, or the call that made it has
\* yet to enter it, or whoever took it out of the table has told it to stop or
\* is about to.
NoStrayWatcher ==
  \A g \in Calls : Watching(g) /\ ~call[g].stopWatcher =>
    \/ call[g].spawn = "watching"
    \/ table[call[g].name] = g
    \/ \E h \in Calls : call[h].spawn = "superseding" /\ call[h].previous = g
    \/ stopper = "draining" /\ g \in batch

\* "Awaiting the dead watcher guarantees no further child writes": a handle is
\* in the slot only while its watcher is between parking and retaking it.
HandleIsTransient == \A g \in Calls : call[g].slot => call[g].watcher = "parked"

\* "waiting for both to finish": when shutdown_all has returned, the only watchers
\* still at work are those it cannot have awaited: one whose spawn passed the
\* check of the flag first and entered its entry after the drain (or has yet to),
\* and one that a later spawn had superseded, which is aborted but never awaited.
ShutdownAwaitsWatchers ==
  stopper = "done" =>
    \A g \in Calls : Watching(g) =>
      \/ call[g].spawn = "watching"
      \/ table[call[g].name] = g
      \/ \E h \in Calls : call[h].previous = g

\* A watcher sleeps neither less than the base delay nor more than the cap.
DelayInRange ==
  \A g \in Calls :
    call[g].watcher = "asleep" => call[g].delay \in BaseBackoff..MaxBackoff

\* The restart policy of watch_loop: a task that returned Ok is never started
\* again, and what crashed is, after a delay between the base and the cap,
\* however many crashes there were.
RestartPolicy ==
  [][/\ DelayInRange'
     /\ \A g \in Calls : call[g].child = "ok" => call'[g].child = "ok"]_vars

\* shutdown_all returns, whatever the children do.
ShutdownTerminates == stopper = "flagged" ~> stopper = "done"

\* A crashed task runs again, unless it is superseded or everything shuts down.
CrashIsRestarted ==
  \A g \in Calls : Crashed(call[g].child) ~>
    call[g].child = "running" \/ call[g].stopWatcher \/ shutdown

-----------------------------------------------------------------------------
(* Statements of the source's comments and docs that the code does not keep. *)

\* "Abort every supervised task and its watcher, waiting for both to finish."
ShutdownStopsChildren ==
  stopper = "done" =>
    \A g \in Calls : call[g].spawn = "returned" /\ call[g].child = "running"
                      => table[call[g].name] = g

\* "Panics raised inside [`Plugin::handle`] are caught by the daemon supervisor,
\* which tears down the plugin instance and recreates it from its factory with
\* exponential backoff": plugins run inside the task "devices", whose factory
\* takes the manager out of a one-shot cell.  After a panic it works again.
PanicIsSurvived ==
  \A g \in Calls : call[g].child = "panicked" ~>
    (call[g].child = "running" /\ ~call[g].hollow) \/ shutdown
=============================================================================
