-------------------------- MODULE SupervisorProofs --------------------------
(***************************************************************************)
(* Proofs about the supervision tree, for any number of spawn calls, names *)
(* and one-shot names, and any backoff constants.                          *)
(***************************************************************************)
EXTENDS Supervisor, TLAPS

\* What a call, its watcher and its child know of each other.  A call gets its
\* name before it has a watcher, and its watcher before it has a child; and a watcher
\* that is about to start a child has none, or one that crashed.
CallsAreSound ==
  \A g \in Calls :
    /\ call[g].spawn # "idle" => call[g].name \in Names
    /\ call[g].spawn \in {"idle", "checked"} => call[g].watcher = "none"
    /\ call[g].watcher = "none" => call[g].child = "none"
    /\ call[g].watcher \in {"ready", "starting"} =>
         call[g].child \in {"none", "failed", "panicked"}
    /\ call[g].watcher \in {"judging", "asleep"} => Crashed(call[g].child)
    /\ call[g].spawn = "superseding" => call[g].previous \in Calls

\* An entry of the table belongs to a call of that name that has entered it.
TableIsSound ==
  \A n \in Names : table[n] # None =>
    /\ call[table[n]].name = n
    /\ call[table[n]].spawn \in {"superseding", "returned"}

\* Whose turn it is to see a watcher end: that of the call that made it, of whoever
\* has the table, of the call that replaced its entry, or of shutdown_all, which
\* has nothing left to await before it drains and once it has collected.
WatchersAccounted ==
  /\ stopper \in {"idle", "flagged", "joining", "done"} => batch = {}
  /\ \A g \in Calls :
       call[g].spawn \in {"idle", "checked", "watching"} => call[g].previous = None
  /\ \A g \in Calls : Watching(g) =>
       \/ call[g].spawn = "watching"
       \/ table[call[g].name] = g
       \/ \E h \in Calls : call[h].previous = g
       \/ g \in batch

\* The inductive invariant.
IInv ==
  /\ TypeOK
  /\ CallsAreSound
  /\ TableIsSound
  /\ HandleIsTransient
  /\ WatchersAccounted
  /\ NoStrayWatcher
  /\ DelayInRange

-----------------------------------------------------------------------------
(* The backoff.                                                            *)

\* A power of two that backoff_delay shifts by is a positive number.
LEMMA PowerOfTwo == \A k \in 0..20 : 2 ^ k \in Nat /\ 2 ^ k >= 1
<1> SUFFICES ASSUME NEW k \in 0..20 PROVE 2 ^ k \in Nat /\ 2 ^ k >= 1
  OBVIOUS
<1>1. CASE k = 0
  BY <1>1
<1>2. CASE k = 1
  BY <1>2
<1>3. CASE k = 2
  BY <1>3
<1>4. CASE k = 3
  BY <1>4
<1>5. CASE k = 4
  BY <1>5
<1>6. CASE k = 5
  BY <1>6
<1>7. CASE k = 6
  BY <1>7
<1>8. CASE k = 7
  BY <1>8
<1>9. CASE k = 8
  BY <1>9
<1>10. CASE k = 9
  BY <1>10
<1>11. CASE k = 10
  BY <1>11
<1>12. CASE k = 11
  BY <1>12
<1>13. CASE k = 12
  BY <1>13
<1>14. CASE k = 13
  BY <1>14
<1>15. CASE k = 14
  BY <1>15
<1>16. CASE k = 15
  BY <1>16
<1>17. CASE k = 16
  BY <1>17
<1>18. CASE k = 17
  BY <1>18
<1>19. CASE k = 18
  BY <1>19
<1>20. CASE k = 19
  BY <1>20
<1>21. CASE k = 20
  BY <1>21
<1> QED BY <1>1, <1>2, <1>3, <1>4, <1>5, <1>6, <1>7, <1>8, <1>9, <1>10, <1>11,
           <1>12, <1>13, <1>14, <1>15, <1>16, <1>17, <1>18, <1>19, <1>20, <1>21

\* backoff_delay stays between the base delay and the cap, for every attempt.
LEMMA BackoffDelayInRange ==
  ASSUME NEW n \in Nat
  PROVE  BackoffDelay(n) \in BaseBackoff..MaxBackoff
<1> DEFINE shift == Least(IF n = 0 THEN 0 ELSE n - 1, 20)
           power == 2 ^ shift
<1>1. shift \in 0..20
  BY DEF Least
<1>2. power \in Nat /\ power >= 1
  BY <1>1, PowerOfTwo
<1>3. BackoffDelay(n) = Least(BaseBackoff * power, MaxBackoff)
  BY DEF BackoffDelay, Doubled
<1>4. BaseBackoff \in Nat /\ MaxBackoff \in Nat /\ BaseBackoff <= MaxBackoff
  BY SupervisorAssumption
<1> HIDE DEF shift, power
<1>5. BaseBackoff * power \in Nat /\ BaseBackoff * power >= BaseBackoff
  BY <1>2, <1>4
<1> QED BY <1>3, <1>4, <1>5 DEF Least

-----------------------------------------------------------------------------
(* Types.                                                                  *)

\* Changing one call's record to one of the right type.
LEMMA UpdateType ==
  ASSUME TypeOK, NEW g \in Calls, NEW r \in CallRecord,
         call' = [call EXCEPT ![g] = r]
  PROVE  call' \in [Calls -> CallRecord]
BY DEF TypeOK

\* What the operators on a call's record return is such a record.
LEMMA RecordType ==
  ASSUME NEW r \in CallRecord
  PROVE  /\ Stopped(r) \in CallRecord
         /\ TakeHandle(r) \in CallRecord
         /\ AbortWatcher(r) \in CallRecord
<1>1. Stopped(r) \in CallRecord
  BY DEF Stopped, CallRecord
<1>2. TakeHandle(r) \in CallRecord
  BY DEF TakeHandle, CallRecord
<1>3. AbortWatcher(r) \in CallRecord
  BY DEF AbortWatcher, CallRecord
<1> QED BY <1>1, <1>2, <1>3

\* Every step leaves every field well typed.
LEMMA TypeStep ==
  TypeOK /\ CallsAreSound /\ [Next]_vars => TypeOK'
<1> SUFFICES ASSUME TypeOK, CallsAreSound, [Next]_vars PROVE TypeOK'
  OBVIOUS
<1> USE SupervisorAssumption DEF globals
<1>0. ASSUME NEW g \in Calls PROVE call[g] \in CallRecord
  BY DEF TypeOK
<1>1. ASSUME NEW g \in Calls, NEW n \in Names, SpawnCall(g, n) PROVE TypeOK'
  <2> DEFINE r == [call[g] EXCEPT !.spawn = IF shutdown THEN "returned" ELSE "checked",
                                  !.name = n]
  <2>1. r \in CallRecord
    <3>1. \A rec \in CallRecord, b \in {"returned", "checked"} :
            [rec EXCEPT !.spawn = b, !.name = n] \in CallRecord
      BY DEF CallRecord
    <3> QED BY <1>0, <3>1
  <2>2. call' = [call EXCEPT ![g] = r]
    BY <1>1, Zenon DEF SpawnCall
  <2> HIDE DEF r
  <2> QED BY <1>1, <2>1, <2>2, UpdateType DEF SpawnCall, TypeOK
<1>2. ASSUME NEW g \in Calls, SpawnWatcher(g) PROVE TypeOK'
  <2> DEFINE r == [call[g] EXCEPT !.spawn = "watching", !.watcher = "ready"]
  <2>1. r \in CallRecord
    <3>1. \A rec \in CallRecord, b \in {"watching"}, w \in {"ready"} :
            [rec EXCEPT !.spawn = b, !.watcher = w] \in CallRecord
      BY DEF CallRecord
    <3> QED BY <1>0, <3>1
  <2>2. call' = [call EXCEPT ![g] = r]
    BY <1>2, Zenon DEF SpawnWatcher
  <2> HIDE DEF r
  <2> QED BY <1>2, <2>1, <2>2, UpdateType DEF SpawnWatcher, TypeOK
<1>3. ASSUME NEW g \in Calls, InsertEntry(g) PROVE TypeOK'
  <2> DEFINE old == table[call[g].name]
             r == [call[g] EXCEPT !.previous = old,
                     !.spawn = IF old = None THEN "returned" ELSE "superseding"]
  <2>1. call[g].name \in Names
    BY <1>3 DEF InsertEntry, CallsAreSound
  <2>2. old \in Calls \cup {None}
    BY <2>1 DEF TypeOK
  <2>3. r \in CallRecord
    <3> HIDE DEF old
    <3>1. \A rec \in CallRecord, c \in Calls \cup {None}, b \in {"returned", "superseding"} :
            [rec EXCEPT !.previous = c, !.spawn = b] \in CallRecord
      BY DEF CallRecord
    <3> QED BY <1>0, <2>2, <3>1
  <2>4. call' = [call EXCEPT ![g] = r]
    BY <1>3, Zenon DEF InsertEntry
  <2> HIDE DEF r
  <2> QED BY <1>3, <2>1, <2>3, <2>4, UpdateType DEF InsertEntry, TypeOK
<1>4. ASSUME NEW g \in Calls, Supersede(g) PROVE TypeOK'
  <2> DEFINE p == call[g].previous
             mid == [call EXCEPT ![p] = Stopped(call[p])]
             r == [mid[g] EXCEPT !.spawn = "returned"]
  <2>1. p \in Calls
    BY <1>4 DEF Supersede, CallsAreSound
  <2>2. Stopped(call[p]) \in CallRecord
    BY <1>0, <2>1, RecordType
  <2>3. mid \in [Calls -> CallRecord]
    BY <2>2 DEF TypeOK
  <2>4. r \in CallRecord
    <3> HIDE DEF mid
    <3> QED BY <2>3 DEF CallRecord
  <2>5. call' = [mid EXCEPT ![g] = r]
    BY <1>4, Zenon DEF Supersede
  <2> HIDE DEF mid, r
  <2>6. call' \in [Calls -> CallRecord]
    BY <2>3, <2>4, <2>5
  <2> QED BY <1>4, <2>6 DEF Supersede, TypeOK
<1>5. ASSUME NEW g \in Calls, CheckShutdown(g) PROVE TypeOK'
  BY <1>5 DEF CheckShutdown, CallRecord, TypeOK
<1>6. ASSUME NEW g \in Calls, StartChild(g) PROVE TypeOK'
  <2> DEFINE empty == CellIsEmpty(g)
             r == [call[g] EXCEPT !.watcher = "parked", !.child = "running",
                     !.slot = TRUE, !.stopChild = FALSE, !.hollow = empty]
  <2>1. empty \in BOOLEAN
    BY DEF CellIsEmpty
  <2>2. r \in CallRecord
    <3> HIDE DEF empty
    <3>1. \A rec \in CallRecord, b \in BOOLEAN :
            [rec EXCEPT !.watcher = "parked", !.child = "running", !.slot = TRUE,
                        !.stopChild = FALSE, !.hollow = b] \in CallRecord
      BY DEF CallRecord
    <3> QED BY <1>0, <2>1, <3>1
  <2>3. call' = [call EXCEPT ![g] = r]
    BY <1>6, Zenon DEF StartChild
  <2> HIDE DEF r
  <2> QED BY <1>6, <2>2, <2>3, UpdateType DEF StartChild, TypeOK
<1>7. ASSUME NEW g \in Calls, RetakeChild(g) PROVE TypeOK'
  <2> DEFINE r == [TakeHandle(call[g]) EXCEPT !.watcher =
                     IF call[g].slot THEN "awaiting" ELSE "ended"]
  <2>1. r \in CallRecord
    <3>1. TakeHandle(call[g]) \in CallRecord
      BY <1>0, RecordType
    <3>2. \A rec \in CallRecord, w \in {"awaiting", "ended"} :
            [rec EXCEPT !.watcher = w] \in CallRecord
      BY DEF CallRecord
    <3> QED BY <3>1, <3>2
  <2>2. call' = [call EXCEPT ![g] = r]
    BY <1>7, Zenon DEF RetakeChild
  <2> HIDE DEF r
  <2> QED BY <1>7, <2>1, <2>2, UpdateType DEF RetakeChild, TypeOK
<1>8. ASSUME NEW g \in Calls, ChildJoined(g) PROVE TypeOK'
  BY <1>8 DEF ChildJoined, CallRecord, TypeOK
<1>9. ASSUME NEW g \in Calls, NEW healthy \in BOOLEAN, Backoff(g, healthy)
      PROVE  TypeOK'
  <2> DEFINE n == NextFailures(call[g].failures, healthy)
             delay == BackoffDelay(n)
             r == [call[g] EXCEPT !.watcher = "asleep", !.failures = n, !.delay = delay]
  <2>1. n \in 0..MaxFailures
    BY <1>0 DEF NextFailures, Least, CallRecord
  <2>2. delay \in Nat
    BY <2>1, BackoffDelayInRange
  <2>3. r \in CallRecord
    <3> HIDE DEF n, delay
    <3>1. \A rec \in CallRecord, f \in 0..MaxFailures, d \in Nat :
            [rec EXCEPT !.watcher = "asleep", !.failures = f, !.delay = d] \in CallRecord
      BY DEF CallRecord
    <3> QED BY <1>0, <2>1, <2>2, <3>1
  <2>4. call' = [call EXCEPT ![g] = r]
    BY <1>9, Zenon DEF Backoff
  <2>5. call[g].name \in Names
    BY <1>9 DEF Backoff, CallsAreSound
  <2>6. restarts' \in [Names -> 0..MaxRestarts]
    <3>1. restarts[call[g].name] \in 0..MaxRestarts
      BY <2>5 DEF TypeOK
    <3>2. Least(restarts[call[g].name] + 1, MaxRestarts) \in 0..MaxRestarts
      BY <3>1 DEF Least
    <3> QED BY <1>9, <3>2 DEF Backoff, TypeOK
  <2> HIDE DEF r
  <2> QED BY <1>9, <2>3, <2>4, <2>6, UpdateType DEF Backoff, TypeOK
<1>10. ASSUME NEW g \in Calls, GiveUp(g) PROVE TypeOK'
  BY <1>10 DEF GiveUp, CallRecord, TypeOK
<1>11. ASSUME NEW g \in Calls, Retry(g) PROVE TypeOK'
  BY <1>11 DEF Retry, WakeUp, CallRecord, TypeOK
<1>12. ASSUME NEW g \in Calls, WatcherCancelled(g) PROVE TypeOK'
  BY <1>12 DEF WatcherCancelled, CallRecord, TypeOK
<1>13. ASSUME NEW g \in Calls, NEW outcome \in Ended, ChildEnds(g, outcome)
       PROVE  TypeOK'
  BY <1>13 DEF ChildEnds, CallRecord, TypeOK
<1>14. CASE StopFlag
  BY <1>14 DEF StopFlag, TypeOK
<1>15. CASE StopDrain
  BY <1>15 DEF StopDrain, TypeOK
<1>16. CASE StopWatchers
  <2>1. ASSUME NEW g \in Calls PROVE AbortWatcher(call[g]) \in CallRecord
    BY <1>0, RecordType
  <2> QED BY <1>0, <1>16, <2>1 DEF StopWatchers, TypeOK
<1>17. ASSUME NEW g \in Calls, StopCollect(g) PROVE TypeOK'
  <2>1. TakeHandle(call[g]) \in CallRecord
    BY <1>0, RecordType
  <2> QED BY <1>17, <2>1 DEF StopCollect, TypeOK
<1>18. CASE StopChildren
  <2>1. ASSUME NEW g \in Calls
        PROVE  [call[g] EXCEPT !.stopChild = TRUE] \in CallRecord
    BY <1>0 DEF CallRecord
  <2> QED BY <1>0, <1>18, <2>1 DEF StopChildren, TypeOK
<1>19. CASE StopJoined
  BY <1>19 DEF StopJoined, TypeOK
<1>20. CASE UNCHANGED vars
  BY <1>20 DEF vars, TypeOK
<1> HIDE DEF globals
<1> QED
  BY <1>1, <1>2, <1>3, <1>4, <1>5, <1>6, <1>7, <1>8, <1>9, <1>10, <1>11, <1>12,
     <1>13, <1>14, <1>15, <1>16, <1>17, <1>18, <1>19, <1>20
  DEF Next, Spawn, Watch, Stop

-----------------------------------------------------------------------------
(* Calls, their watchers and their children.                               *)

\* What superseding changes: the superseding call has returned, the superseded
\* watcher has been told to stop and its slot is empty, and that is all.
LEMMA SupersedeFields ==
  ASSUME TypeOK, CallsAreSound, NEW g \in Calls, Supersede(g), NEW h \in Calls
  PROVE  /\ call[g].previous \in Calls
         /\ call'[h].name = call[h].name
         /\ call'[h].previous = call[h].previous
         /\ call'[h].watcher = call[h].watcher
         /\ call'[h].child = call[h].child
         /\ call'[h].hollow = call[h].hollow
         /\ call'[h].delay = call[h].delay
         /\ call'[h].spawn = IF h = g THEN "returned" ELSE call[h].spawn
         /\ call'[h].slot => call[h].slot
         /\ call[h].stopWatcher \/ h = call[g].previous => call'[h].stopWatcher
<1> DEFINE p == call[g].previous
           mid == [call EXCEPT ![p] = Stopped(call[p])]
<1>1. p \in Calls
  BY DEF Supersede, CallsAreSound
<1>2. call[h] \in CallRecord /\ call[p] \in CallRecord
  BY <1>1 DEF TypeOK
<1>3. call' = [mid EXCEPT ![g] = [mid[g] EXCEPT !.spawn = "returned"]]
  BY Zenon DEF Supersede
<1>4. /\ mid[h] = IF h = p THEN Stopped(call[p]) ELSE call[h]
      /\ DOMAIN mid = Calls
  BY DEF TypeOK
<1>5. /\ mid[h] \in CallRecord
      /\ mid[h].name = call[h].name
      /\ mid[h].previous = call[h].previous
      /\ mid[h].watcher = call[h].watcher
      /\ mid[h].child = call[h].child
      /\ mid[h].hollow = call[h].hollow
      /\ mid[h].delay = call[h].delay
      /\ mid[h].spawn = call[h].spawn
      /\ mid[h].slot => call[h].slot
      /\ call[h].stopWatcher \/ h = p => mid[h].stopWatcher
  <2> HIDE DEF mid, p
  <2>1. CASE h = p
    <3>1. mid[h] = Stopped(call[h])
      BY <1>4, <2>1
    <3> QED BY <1>2, <3>1, <2>1 DEF Stopped, CallRecord
  <2>2. CASE h # p
    BY <1>2, <1>4, <2>2
  <2> QED BY <2>1, <2>2
<1>6. call'[h] = IF h = g THEN [mid[h] EXCEPT !.spawn = "returned"] ELSE mid[h]
  BY <1>3, <1>4
<1> HIDE DEF mid
<1> QED BY <1>1, <1>5, <1>6 DEF CallRecord

\* Every step keeps what a call, its watcher and its child know of each other.
LEMMA CallsStep ==
  TypeOK /\ CallsAreSound /\ TableIsSound /\ [Next]_vars => CallsAreSound'
<1> SUFFICES ASSUME TypeOK, CallsAreSound, TableIsSound, [Next]_vars
             PROVE CallsAreSound'
  OBVIOUS
<1>4. ASSUME NEW g \in Calls, Supersede(g) PROVE CallsAreSound'
  <2>2. ASSUME NEW h \in Calls
        PROVE  /\ call'[h].name = call[h].name
               /\ call'[h].previous = call[h].previous
               /\ call'[h].watcher = call[h].watcher
               /\ call'[h].child = call[h].child
               /\ call'[h].hollow = call[h].hollow
               /\ call'[h].spawn = IF h = g THEN "returned" ELSE call[h].spawn
    BY <1>4, SupersedeFields
  <2>3. call[g].spawn = "superseding"
    BY <1>4 DEF Supersede
  <2> QED BY <2>2, <2>3 DEF CallsAreSound, Crashed
<1> USE DEF globals, TypeOK, CallsAreSound, Crashed
<1>1. ASSUME NEW g \in Calls, NEW n \in Names, SpawnCall(g, n)
      PROVE  CallsAreSound'
  BY <1>1 DEF SpawnCall
<1>2. ASSUME NEW g \in Calls, SpawnWatcher(g) PROVE CallsAreSound'
  BY <1>2 DEF SpawnWatcher
<1>3. ASSUME NEW g \in Calls, InsertEntry(g) PROVE CallsAreSound'
  BY <1>3 DEF InsertEntry
<1>5. ASSUME NEW g \in Calls, CheckShutdown(g) PROVE CallsAreSound'
  BY <1>5 DEF CheckShutdown
<1>6. ASSUME NEW g \in Calls, StartChild(g) PROVE CallsAreSound'
  BY <1>6 DEF StartChild
<1>7. ASSUME NEW g \in Calls, RetakeChild(g) PROVE CallsAreSound'
  BY <1>7 DEF RetakeChild, TakeHandle
<1>8. ASSUME NEW g \in Calls, ChildJoined(g) PROVE CallsAreSound'
  BY <1>8 DEF ChildJoined
<1>9. ASSUME NEW g \in Calls, NEW healthy \in BOOLEAN, Backoff(g, healthy)
      PROVE  CallsAreSound'
  BY <1>9 DEF Backoff
<1>10. ASSUME NEW g \in Calls, GiveUp(g) PROVE CallsAreSound'
  BY <1>10 DEF GiveUp
<1>11. ASSUME NEW g \in Calls, Retry(g) PROVE CallsAreSound'
  BY <1>11 DEF Retry, WakeUp
<1>12. ASSUME NEW g \in Calls, WatcherCancelled(g) PROVE CallsAreSound'
  BY <1>12 DEF WatcherCancelled
<1>13. ASSUME NEW g \in Calls, NEW outcome \in Ended, ChildEnds(g, outcome)
      PROVE  CallsAreSound'
  BY <1>13 DEF ChildEnds
<1>14. CASE StopFlag
  BY <1>14 DEF StopFlag
<1>15. CASE StopDrain
  BY <1>15 DEF StopDrain
<1>16. CASE StopWatchers
  BY <1>16 DEF StopWatchers, AbortWatcher
<1>17. ASSUME NEW g \in Calls, StopCollect(g) PROVE CallsAreSound'
  BY <1>17 DEF StopCollect, TakeHandle
<1>18. CASE StopChildren
  BY <1>18 DEF StopChildren
<1>19. CASE StopJoined
  BY <1>19 DEF StopJoined
<1>20. CASE UNCHANGED vars
  BY <1>20 DEF vars
<1> HIDE DEF globals, TypeOK, CallsAreSound, Crashed
<1> QED
  BY <1>1, <1>2, <1>3, <1>4, <1>5, <1>6, <1>7, <1>8, <1>9, <1>10, <1>11, <1>12,
     <1>13, <1>14, <1>15, <1>16, <1>17, <1>18, <1>19, <1>20
  DEF Next, Spawn, Watch, Stop


\* Every step keeps the table's entries those of calls of their name.
LEMMA TableStep ==
  TypeOK /\ CallsAreSound /\ TableIsSound /\ [Next]_vars => TableIsSound'
<1> SUFFICES ASSUME TypeOK, CallsAreSound, TableIsSound, [Next]_vars
             PROVE TableIsSound'
  OBVIOUS
<1>4. ASSUME NEW g \in Calls, Supersede(g) PROVE TableIsSound'
  <2>1. table' = table /\ \A n \in Names : table[n] # None => table[n] \in Calls
    BY <1>4 DEF Supersede, globals, TypeOK
  <2>2. ASSUME NEW h \in Calls
        PROVE  /\ call'[h].name = call[h].name
               /\ call'[h].spawn \in {call[h].spawn, "returned"}
    BY <1>4, SupersedeFields
  <2> QED BY <2>1, <2>2 DEF TableIsSound
<1> USE DEF globals, TypeOK, TableIsSound, CallsAreSound
<1>1. ASSUME NEW g \in Calls, NEW n \in Names, SpawnCall(g, n)
      PROVE  TableIsSound'
  BY <1>1 DEF SpawnCall
<1>2. ASSUME NEW g \in Calls, SpawnWatcher(g) PROVE TableIsSound'
  BY <1>2 DEF SpawnWatcher
<1>3. ASSUME NEW g \in Calls, InsertEntry(g) PROVE TableIsSound'
  BY <1>3 DEF InsertEntry
<1>5. ASSUME NEW g \in Calls, CheckShutdown(g) PROVE TableIsSound'
  BY <1>5 DEF CheckShutdown
<1>6. ASSUME NEW g \in Calls, StartChild(g) PROVE TableIsSound'
  BY <1>6 DEF StartChild
<1>7. ASSUME NEW g \in Calls, RetakeChild(g) PROVE TableIsSound'
  BY <1>7 DEF RetakeChild, TakeHandle
<1>8. ASSUME NEW g \in Calls, ChildJoined(g) PROVE TableIsSound'
  BY <1>8 DEF ChildJoined
<1>9. ASSUME NEW g \in Calls, NEW healthy \in BOOLEAN, Backoff(g, healthy)
      PROVE  TableIsSound'
  BY <1>9 DEF Backoff
<1>10. ASSUME NEW g \in Calls, GiveUp(g) PROVE TableIsSound'
  BY <1>10 DEF GiveUp
<1>11. ASSUME NEW g \in Calls, Retry(g) PROVE TableIsSound'
  BY <1>11 DEF Retry, WakeUp
<1>12. ASSUME NEW g \in Calls, WatcherCancelled(g) PROVE TableIsSound'
  BY <1>12 DEF WatcherCancelled
<1>13. ASSUME NEW g \in Calls, NEW outcome \in Ended, ChildEnds(g, outcome)
      PROVE  TableIsSound'
  BY <1>13 DEF ChildEnds
<1>14. CASE StopFlag
  BY <1>14 DEF StopFlag
<1>15. CASE StopDrain
  BY <1>15 DEF StopDrain
<1>16. CASE StopWatchers
  BY <1>16 DEF StopWatchers, AbortWatcher
<1>17. ASSUME NEW g \in Calls, StopCollect(g) PROVE TableIsSound'
  BY <1>17 DEF StopCollect, TakeHandle
<1>18. CASE StopChildren
  BY <1>18 DEF StopChildren
<1>19. CASE StopJoined
  BY <1>19 DEF StopJoined
<1>20. CASE UNCHANGED vars
  BY <1>20 DEF vars
<1> HIDE DEF globals, TypeOK, TableIsSound, CallsAreSound
<1> QED
  BY <1>1, <1>2, <1>3, <1>4, <1>5, <1>6, <1>7, <1>8, <1>9, <1>10, <1>11, <1>12,
     <1>13, <1>14, <1>15, <1>16, <1>17, <1>18, <1>19, <1>20
  DEF Next, Spawn, Watch, Stop


\* Every step keeps handles in the slot only while their watcher parks them.
LEMMA HandleStep ==
  TypeOK /\ CallsAreSound /\ HandleIsTransient /\ [Next]_vars => HandleIsTransient'
<1> SUFFICES ASSUME TypeOK, CallsAreSound, HandleIsTransient, [Next]_vars
             PROVE HandleIsTransient'
  OBVIOUS
<1>4. ASSUME NEW g \in Calls, Supersede(g) PROVE HandleIsTransient'
  BY <1>4, SupersedeFields DEF HandleIsTransient
<1> USE DEF globals, TypeOK, HandleIsTransient
<1>1. ASSUME NEW g \in Calls, NEW n \in Names, SpawnCall(g, n)
      PROVE  HandleIsTransient'
  BY <1>1 DEF SpawnCall
<1>2. ASSUME NEW g \in Calls, SpawnWatcher(g) PROVE HandleIsTransient'
  BY <1>2 DEF SpawnWatcher, CallsAreSound
<1>3. ASSUME NEW g \in Calls, InsertEntry(g) PROVE HandleIsTransient'
  BY <1>3 DEF InsertEntry
<1>5. ASSUME NEW g \in Calls, CheckShutdown(g) PROVE HandleIsTransient'
  BY <1>5 DEF CheckShutdown
<1>6. ASSUME NEW g \in Calls, StartChild(g) PROVE HandleIsTransient'
  BY <1>6 DEF StartChild
<1>7. ASSUME NEW g \in Calls, RetakeChild(g) PROVE HandleIsTransient'
  BY <1>7 DEF RetakeChild, TakeHandle
<1>8. ASSUME NEW g \in Calls, ChildJoined(g) PROVE HandleIsTransient'
  BY <1>8 DEF ChildJoined
<1>9. ASSUME NEW g \in Calls, NEW healthy \in BOOLEAN, Backoff(g, healthy)
      PROVE  HandleIsTransient'
  BY <1>9 DEF Backoff
<1>10. ASSUME NEW g \in Calls, GiveUp(g) PROVE HandleIsTransient'
  BY <1>10 DEF GiveUp
<1>11. ASSUME NEW g \in Calls, Retry(g) PROVE HandleIsTransient'
  BY <1>11 DEF Retry, WakeUp
<1>12. ASSUME NEW g \in Calls, WatcherCancelled(g) PROVE HandleIsTransient'
  BY <1>12 DEF WatcherCancelled
<1>13. ASSUME NEW g \in Calls, NEW outcome \in Ended, ChildEnds(g, outcome)
      PROVE  HandleIsTransient'
  BY <1>13 DEF ChildEnds
<1>14. CASE StopFlag
  BY <1>14 DEF StopFlag
<1>15. CASE StopDrain
  BY <1>15 DEF StopDrain
<1>16. CASE StopWatchers
  BY <1>16 DEF StopWatchers, AbortWatcher
<1>17. ASSUME NEW g \in Calls, StopCollect(g) PROVE HandleIsTransient'
  BY <1>17 DEF StopCollect, TakeHandle
<1>18. CASE StopChildren
  BY <1>18 DEF StopChildren
<1>19. CASE StopJoined
  BY <1>19 DEF StopJoined
<1>20. CASE UNCHANGED vars
  BY <1>20 DEF vars
<1> HIDE DEF globals, TypeOK, HandleIsTransient
<1> QED
  BY <1>1, <1>2, <1>3, <1>4, <1>5, <1>6, <1>7, <1>8, <1>9, <1>10, <1>11, <1>12,
     <1>13, <1>14, <1>15, <1>16, <1>17, <1>18, <1>19, <1>20
  DEF Next, Spawn, Watch, Stop


\* Every step leaves every watcher with somebody whose turn it is to see it end.
LEMMA AccountedStep ==
  TypeOK /\ CallsAreSound /\ WatchersAccounted /\ [Next]_vars => WatchersAccounted'
<1> SUFFICES ASSUME TypeOK, CallsAreSound, WatchersAccounted, [Next]_vars
             PROVE WatchersAccounted'
  OBVIOUS
<1>4. ASSUME NEW g \in Calls, Supersede(g) PROVE WatchersAccounted'
  <2>1. /\ table' = table /\ stopper' = stopper /\ batch' = batch
        /\ call[g].spawn = "superseding"
    BY <1>4 DEF Supersede, globals
  <2>2. ASSUME NEW h \in Calls
        PROVE  /\ call'[h].name = call[h].name
               /\ call'[h].previous = call[h].previous
               /\ call'[h].watcher = call[h].watcher
               /\ call'[h].spawn = IF h = g THEN "returned" ELSE call[h].spawn
    BY <1>4, SupersedeFields
  <2> QED BY <2>1, <2>2 DEF WatchersAccounted, Watching
<1> USE DEF globals, TypeOK, WatchersAccounted, Watching
<1>1. ASSUME NEW g \in Calls, NEW n \in Names, SpawnCall(g, n)
      PROVE  WatchersAccounted'
  BY <1>1 DEF SpawnCall, CallsAreSound
<1>2. ASSUME NEW g \in Calls, SpawnWatcher(g) PROVE WatchersAccounted'
  BY <1>2 DEF SpawnWatcher, CallsAreSound
<1>3. ASSUME NEW g \in Calls, InsertEntry(g) PROVE WatchersAccounted'
  <2> DEFINE old == table[call[g].name]
  <2>1. /\ call[g].spawn = "watching" /\ call[g].name \in Names
        /\ call[g].previous = None
    BY <1>3 DEF InsertEntry, CallsAreSound
  <2>2. /\ table' = [table EXCEPT ![call[g].name] = g]
        /\ stopper' = stopper /\ batch' = batch
        /\ \A h \in Calls : h # g => call'[h] = call[h]
    BY <1>3 DEF InsertEntry
  <2>3. /\ call'[g].name = call[g].name
        /\ call'[g].previous = old
        /\ call'[g].spawn \in {"returned", "superseding"}
    BY <1>3 DEF InsertEntry, CallRecord
  <2>4. ASSUME NEW h \in Calls, Watching(h)', table'[call'[h].name] # h,
               call'[h].spawn # "watching", h \notin batch'
        PROVE  \E w \in Calls : call'[w].previous = h
    <3>1. h # g
      BY <2>1, <2>2, <2>3, <2>4
    <3>2. call'[h] = call[h] /\ Watching(h)
      BY <2>2, <2>4, <3>1
    <3>3. CASE table[call[h].name] = h
      <4>1. call[h].name \in Names
        BY <3>2 DEF CallsAreSound
      <4>2. old = h
        BY <2>2, <2>4, <3>2, <3>3, <4>1
      <4> QED BY <2>3, <4>2
    <3>4. CASE \E w \in Calls : call[w].previous = h
      BY <2>1, <2>2, <3>4, SupervisorAssumption
    <3> QED BY <2>2, <2>4, <3>2, <3>3, <3>4
  <2> QED BY <2>2, <2>3, <2>4
<1>5. ASSUME NEW g \in Calls, CheckShutdown(g) PROVE WatchersAccounted'
  BY <1>5 DEF CheckShutdown
<1>6. ASSUME NEW g \in Calls, StartChild(g) PROVE WatchersAccounted'
  BY <1>6 DEF StartChild
<1>7. ASSUME NEW g \in Calls, RetakeChild(g) PROVE WatchersAccounted'
  BY <1>7 DEF RetakeChild, TakeHandle
<1>8. ASSUME NEW g \in Calls, ChildJoined(g) PROVE WatchersAccounted'
  BY <1>8 DEF ChildJoined
<1>9. ASSUME NEW g \in Calls, NEW healthy \in BOOLEAN, Backoff(g, healthy)
      PROVE  WatchersAccounted'
  BY <1>9 DEF Backoff
<1>10. ASSUME NEW g \in Calls, GiveUp(g) PROVE WatchersAccounted'
  BY <1>10 DEF GiveUp
<1>11. ASSUME NEW g \in Calls, Retry(g) PROVE WatchersAccounted'
  BY <1>11 DEF Retry, WakeUp
<1>12. ASSUME NEW g \in Calls, WatcherCancelled(g) PROVE WatchersAccounted'
  BY <1>12 DEF WatcherCancelled
<1>13. ASSUME NEW g \in Calls, NEW outcome \in Ended, ChildEnds(g, outcome)
      PROVE  WatchersAccounted'
  BY <1>13 DEF ChildEnds
<1>14. CASE StopFlag
  BY <1>14 DEF StopFlag
<1>15. CASE StopDrain
  BY <1>15 DEF StopDrain, CallsAreSound
<1>16. CASE StopWatchers
  BY <1>16 DEF StopWatchers, AbortWatcher
<1>17. ASSUME NEW g \in Calls, StopCollect(g) PROVE WatchersAccounted'
  BY <1>17 DEF StopCollect, WatcherIsDead, TakeHandle
<1>18. CASE StopChildren
  BY <1>18 DEF StopChildren
<1>19. CASE StopJoined
  BY <1>19 DEF StopJoined
<1>20. CASE UNCHANGED vars
  BY <1>20 DEF vars
<1> HIDE DEF globals, TypeOK, WatchersAccounted, Watching
<1> QED
  BY <1>1, <1>2, <1>3, <1>4, <1>5, <1>6, <1>7, <1>8, <1>9, <1>10, <1>11, <1>12,
     <1>13, <1>14, <1>15, <1>16, <1>17, <1>18, <1>19, <1>20
  DEF Next, Spawn, Watch, Stop


\* Every step leaves every watcher with somebody who knows of it.
LEMMA StrayStep ==
  TypeOK /\ CallsAreSound /\ TableIsSound /\ NoStrayWatcher /\ [Next]_vars
    => NoStrayWatcher'
<1> SUFFICES ASSUME TypeOK, CallsAreSound, TableIsSound, NoStrayWatcher, [Next]_vars
             PROVE NoStrayWatcher'
  OBVIOUS
<1>4. ASSUME NEW g \in Calls, Supersede(g) PROVE NoStrayWatcher'
  <2>1. /\ table' = table /\ stopper' = stopper /\ batch' = batch
        /\ call[g].spawn = "superseding"
    BY <1>4 DEF Supersede, globals
  <2>2. ASSUME NEW h \in Calls
        PROVE  /\ call'[h].name = call[h].name
               /\ call'[h].previous = call[h].previous
               /\ call'[h].watcher = call[h].watcher
               /\ call'[h].spawn = IF h = g THEN "returned" ELSE call[h].spawn
               /\ call[h].stopWatcher \/ h = call[g].previous => call'[h].stopWatcher
    BY <1>4, SupersedeFields
  <2> QED BY <2>1, <2>2 DEF NoStrayWatcher, Watching
<1> USE DEF globals, TypeOK, NoStrayWatcher, Watching
<1>1. ASSUME NEW g \in Calls, NEW n \in Names, SpawnCall(g, n)
      PROVE  NoStrayWatcher'
  BY <1>1 DEF SpawnCall, CallsAreSound
<1>2. ASSUME NEW g \in Calls, SpawnWatcher(g) PROVE NoStrayWatcher'
  BY <1>2 DEF SpawnWatcher
<1>3. ASSUME NEW g \in Calls, InsertEntry(g) PROVE NoStrayWatcher'
  <2> DEFINE old == table[call[g].name]
  <2>1. call[g].spawn = "watching" /\ call[g].name \in Names
    BY <1>3 DEF InsertEntry, CallsAreSound
  <2>2. /\ table' = [table EXCEPT ![call[g].name] = g]
        /\ stopper' = stopper /\ batch' = batch
        /\ \A h \in Calls : h # g => call'[h] = call[h]
    BY <1>3 DEF InsertEntry
  <2>3. /\ call'[g].name = call[g].name
        /\ call'[g].previous = old
        /\ old # None => call'[g].spawn = "superseding"
    BY <1>3 DEF InsertEntry, CallRecord
  <2>4. SUFFICES ASSUME NEW h \in Calls, Watching(h)', ~call'[h].stopWatcher,
                        call'[h].spawn # "watching", table'[call'[h].name] # h,
                        ~(stopper' = "draining" /\ h \in batch')
                 PROVE  \E w \in Calls : /\ call'[w].spawn = "superseding"
                                         /\ call'[w].previous = h
    OBVIOUS
  <2>5. h # g
    BY <2>1, <2>2, <2>3, <2>4
  <2>6. call'[h] = call[h] /\ Watching(h)
    BY <2>2, <2>4, <2>5
  <2>7. CASE table[call[h].name] = h
    <3>1. call[h].name \in Names
      BY <2>6 DEF CallsAreSound
    <3>2. call[h].name = call[g].name /\ old = h
      BY <2>2, <2>4, <2>6, <2>7, <3>1
    <3> QED BY <2>3, <3>2, SupervisorAssumption
  <2>8. CASE \E w \in Calls : call[w].spawn = "superseding" /\ call[w].previous = h
    BY <2>1, <2>2, <2>8
  <2> QED BY <2>2, <2>4, <2>6, <2>7, <2>8
<1>5. ASSUME NEW g \in Calls, CheckShutdown(g) PROVE NoStrayWatcher'
  BY <1>5 DEF CheckShutdown
<1>6. ASSUME NEW g \in Calls, StartChild(g) PROVE NoStrayWatcher'
  BY <1>6 DEF StartChild
<1>7. ASSUME NEW g \in Calls, RetakeChild(g) PROVE NoStrayWatcher'
  BY <1>7 DEF RetakeChild, TakeHandle
<1>8. ASSUME NEW g \in Calls, ChildJoined(g) PROVE NoStrayWatcher'
  BY <1>8 DEF ChildJoined
<1>9. ASSUME NEW g \in Calls, NEW healthy \in BOOLEAN, Backoff(g, healthy)
      PROVE  NoStrayWatcher'
  BY <1>9 DEF Backoff
<1>10. ASSUME NEW g \in Calls, GiveUp(g) PROVE NoStrayWatcher'
  BY <1>10 DEF GiveUp
<1>11. ASSUME NEW g \in Calls, Retry(g) PROVE NoStrayWatcher'
  BY <1>11 DEF Retry, WakeUp
<1>12. ASSUME NEW g \in Calls, WatcherCancelled(g) PROVE NoStrayWatcher'
  BY <1>12 DEF WatcherCancelled
<1>13. ASSUME NEW g \in Calls, NEW outcome \in Ended, ChildEnds(g, outcome)
      PROVE  NoStrayWatcher'
  BY <1>13 DEF ChildEnds
<1>14. CASE StopFlag
  BY <1>14 DEF StopFlag
<1>15. CASE StopDrain
  BY <1>15 DEF StopDrain, CallsAreSound
<1>16. CASE StopWatchers
  BY <1>16 DEF StopWatchers, AbortWatcher
<1>17. ASSUME NEW g \in Calls, StopCollect(g) PROVE NoStrayWatcher'
  BY <1>17 DEF StopCollect, TakeHandle
<1>18. CASE StopChildren
  BY <1>18 DEF StopChildren
<1>19. CASE StopJoined
  BY <1>19 DEF StopJoined
<1>20. CASE UNCHANGED vars
  BY <1>20 DEF vars
<1> HIDE DEF globals, TypeOK, NoStrayWatcher, Watching
<1> QED
  BY <1>1, <1>2, <1>3, <1>4, <1>5, <1>6, <1>7, <1>8, <1>9, <1>10, <1>11, <1>12,
     <1>13, <1>14, <1>15, <1>16, <1>17, <1>18, <1>19, <1>20
  DEF Next, Spawn, Watch, Stop


\* Every step leaves the sleeping watchers' delays in range.
LEMMA DelayStep ==
  TypeOK /\ CallsAreSound /\ DelayInRange /\ [Next]_vars => DelayInRange'
<1> SUFFICES ASSUME TypeOK, CallsAreSound, DelayInRange, [Next]_vars
             PROVE DelayInRange'
  OBVIOUS
<1>4. ASSUME NEW g \in Calls, Supersede(g) PROVE DelayInRange'
  BY <1>4, SupersedeFields DEF DelayInRange
<1> USE DEF globals, TypeOK, DelayInRange
<1>1. ASSUME NEW g \in Calls, NEW n \in Names, SpawnCall(g, n)
      PROVE  DelayInRange'
  BY <1>1 DEF SpawnCall
<1>2. ASSUME NEW g \in Calls, SpawnWatcher(g) PROVE DelayInRange'
  BY <1>2 DEF SpawnWatcher
<1>3. ASSUME NEW g \in Calls, InsertEntry(g) PROVE DelayInRange'
  BY <1>3 DEF InsertEntry
<1>5. ASSUME NEW g \in Calls, CheckShutdown(g) PROVE DelayInRange'
  BY <1>5 DEF CheckShutdown
<1>6. ASSUME NEW g \in Calls, StartChild(g) PROVE DelayInRange'
  BY <1>6 DEF StartChild
<1>7. ASSUME NEW g \in Calls, RetakeChild(g) PROVE DelayInRange'
  BY <1>7 DEF RetakeChild, TakeHandle
<1>8. ASSUME NEW g \in Calls, ChildJoined(g) PROVE DelayInRange'
  BY <1>8 DEF ChildJoined
<1>9. ASSUME NEW g \in Calls, NEW healthy \in BOOLEAN, Backoff(g, healthy)
      PROVE  DelayInRange'
  <2> DEFINE n == NextFailures(call[g].failures, healthy)
             delay == BackoffDelay(n)
  <2>1. call[g] \in CallRecord
    OBVIOUS
  <2>2. n \in Nat
    BY <2>1, SupervisorAssumption DEF NextFailures, Least, CallRecord
  <2>3. delay \in BaseBackoff..MaxBackoff
    BY <2>2, BackoffDelayInRange
  <2>4. call' = [call EXCEPT ![g].watcher = "asleep", ![g].failures = n,
                             ![g].delay = delay]
    BY <1>9 DEF Backoff
  <2> HIDE DEF n, delay
  <2> QED BY <2>3, <2>4 DEF CallRecord
<1>10. ASSUME NEW g \in Calls, GiveUp(g) PROVE DelayInRange'
  BY <1>10 DEF GiveUp
<1>11. ASSUME NEW g \in Calls, Retry(g) PROVE DelayInRange'
  BY <1>11 DEF Retry, WakeUp
<1>12. ASSUME NEW g \in Calls, WatcherCancelled(g) PROVE DelayInRange'
  BY <1>12 DEF WatcherCancelled
<1>13. ASSUME NEW g \in Calls, NEW outcome \in Ended, ChildEnds(g, outcome)
      PROVE  DelayInRange'
  BY <1>13 DEF ChildEnds
<1>14. CASE StopFlag
  BY <1>14 DEF StopFlag
<1>15. CASE StopDrain
  BY <1>15 DEF StopDrain
<1>16. CASE StopWatchers
  BY <1>16 DEF StopWatchers, AbortWatcher
<1>17. ASSUME NEW g \in Calls, StopCollect(g) PROVE DelayInRange'
  BY <1>17 DEF StopCollect, TakeHandle
<1>18. CASE StopChildren
  BY <1>18 DEF StopChildren
<1>19. CASE StopJoined
  BY <1>19 DEF StopJoined
<1>20. CASE UNCHANGED vars
  BY <1>20 DEF vars
<1> HIDE DEF globals, TypeOK, DelayInRange
<1> QED
  BY <1>1, <1>2, <1>3, <1>4, <1>5, <1>6, <1>7, <1>8, <1>9, <1>10, <1>11, <1>12,
     <1>13, <1>14, <1>15, <1>16, <1>17, <1>18, <1>19, <1>20
  DEF Next, Spawn, Watch, Stop

-----------------------------------------------------------------------------
(* A child that returned Ok.                                               *)

\* No step starts a child in the place of one that returned Ok.
LEMMA OkStep ==
  ASSUME TypeOK, CallsAreSound, [Next]_vars, NEW h \in Calls, call[h].child = "ok"
  PROVE  call'[h].child = "ok"
<1>4. ASSUME NEW g \in Calls, Supersede(g) PROVE call'[h].child = "ok"
  BY <1>4, SupersedeFields
<1> USE DEF globals, TypeOK
<1>1. ASSUME NEW g \in Calls, NEW n \in Names, SpawnCall(g, n)
      PROVE  call'[h].child = "ok"
  BY <1>1 DEF SpawnCall
<1>2. ASSUME NEW g \in Calls, SpawnWatcher(g)
      PROVE  call'[h].child = "ok"
  BY <1>2 DEF SpawnWatcher
<1>3. ASSUME NEW g \in Calls, InsertEntry(g)
      PROVE  call'[h].child = "ok"
  BY <1>3 DEF InsertEntry
<1>5. ASSUME NEW g \in Calls, CheckShutdown(g)
      PROVE  call'[h].child = "ok"
  BY <1>5 DEF CheckShutdown
<1>6. ASSUME NEW g \in Calls, StartChild(g)
      PROVE  call'[h].child = "ok"
  BY <1>6 DEF StartChild, CallsAreSound
<1>7. ASSUME NEW g \in Calls, RetakeChild(g)
      PROVE  call'[h].child = "ok"
  BY <1>7 DEF RetakeChild, TakeHandle
<1>8. ASSUME NEW g \in Calls, ChildJoined(g)
      PROVE  call'[h].child = "ok"
  BY <1>8 DEF ChildJoined
<1>9. ASSUME NEW g \in Calls, NEW healthy \in BOOLEAN, Backoff(g, healthy)
      PROVE  call'[h].child = "ok"
  BY <1>9 DEF Backoff
<1>10. ASSUME NEW g \in Calls, GiveUp(g)
      PROVE  call'[h].child = "ok"
  BY <1>10 DEF GiveUp
<1>11. ASSUME NEW g \in Calls, Retry(g)
      PROVE  call'[h].child = "ok"
  BY <1>11 DEF Retry, WakeUp
<1>12. ASSUME NEW g \in Calls, WatcherCancelled(g)
      PROVE  call'[h].child = "ok"
  BY <1>12 DEF WatcherCancelled
<1>13. ASSUME NEW g \in Calls, NEW outcome \in Ended, ChildEnds(g, outcome)
      PROVE  call'[h].child = "ok"
  BY <1>13 DEF ChildEnds
<1>14. CASE StopFlag
  BY <1>14 DEF StopFlag
<1>15. CASE StopDrain
  BY <1>15 DEF StopDrain
<1>16. CASE StopWatchers
  BY <1>16 DEF StopWatchers, AbortWatcher
<1>17. ASSUME NEW g \in Calls, StopCollect(g)
      PROVE  call'[h].child = "ok"
  BY <1>17 DEF StopCollect, TakeHandle
<1>18. CASE StopChildren
  BY <1>18 DEF StopChildren
<1>19. CASE StopJoined
  BY <1>19 DEF StopJoined
<1>20. CASE UNCHANGED vars
  BY <1>20 DEF vars
<1> HIDE DEF globals, TypeOK
<1> QED
  BY <1>1, <1>2, <1>3, <1>4, <1>5, <1>6, <1>7, <1>8, <1>9, <1>10, <1>11, <1>12,
     <1>13, <1>14, <1>15, <1>16, <1>17, <1>18, <1>19, <1>20
  DEF Next, Spawn, Watch, Stop

-----------------------------------------------------------------------------
(* The theorems.                                                           *)

\* The invariant holds of every state: initially nothing is spawned, and each
\* conjunct is kept by every step from the ones before it.
LEMMA Invariance == Spec => []IInv
<1>1. Init => IInv
  <2> SUFFICES ASSUME Init PROVE IInv
    OBVIOUS
  <2>1. TypeOK
    <3> DEFINE r == [spawn |-> "idle", name |-> None, previous |-> None,
                     watcher |-> "none", slot |-> FALSE, child |-> "none",
                     hollow |-> FALSE, failures |-> 0, delay |-> 0,
                     stopWatcher |-> FALSE, stopChild |-> FALSE]
    <3>1. 0 \in 0..MaxFailures /\ 0 \in 0..MaxRestarts
      BY SupervisorAssumption
    <3>2. r \in CallRecord
      BY <3>1 DEF CallRecord
    <3>3. call = [g \in Calls |-> r]
      BY DEF Init
    <3> HIDE DEF r
    <3> QED BY <3>1, <3>2, <3>3 DEF Init, TypeOK
  <2>2. CallsAreSound /\ TableIsSound
    BY DEF Init, CallsAreSound, TableIsSound
  <2>3. HandleIsTransient /\ WatchersAccounted /\ NoStrayWatcher /\ DelayInRange
    BY DEF Init, HandleIsTransient, WatchersAccounted, NoStrayWatcher, Watching,
           DelayInRange
  <2> QED BY <2>1, <2>2, <2>3 DEF IInv
<1>2. IInv /\ [Next]_vars => IInv'
  BY TypeStep, CallsStep, TableStep, HandleStep, AccountedStep, StrayStep, DelayStep
  DEF IInv
<1> QED BY <1>1, <1>2, PTL DEF Spec

\* Every shared field and every task's place always has its type.
THEOREM TypeCorrect == Spec => []TypeOK
<1>1. IInv => TypeOK
  BY DEF IInv
<1> QED BY <1>1, Invariance, PTL

\* No watcher is ever lost sight of: spawn, a superseding spawn and shutdown_all
\* between them leave nobody running whom nobody will stop.
THEOREM NoWatcherIsLost == Spec => []NoStrayWatcher
<1>1. IInv => NoStrayWatcher
  BY DEF IInv
<1> QED BY <1>1, Invariance, PTL

\* latest_child holds a handle only between watch_loop's parking and retaking it,
\* so a watcher that has ended has left nothing there.
THEOREM HandlesAreTransient == Spec => []HandleIsTransient
<1>1. IInv => HandleIsTransient
  BY DEF IInv
<1> QED BY <1>1, Invariance, PTL

\* When shutdown_all has returned, every watcher it could know of has ended: one
\* still at work was entered after the drain, or had been superseded before.
THEOREM WatchersAreAwaited == Spec => []ShutdownAwaitsWatchers
<1>1. IInv => ShutdownAwaitsWatchers
  BY DEF IInv, WatchersAccounted, ShutdownAwaitsWatchers
<1> QED BY <1>1, Invariance, PTL

\* watch_loop's restart policy, for any base delay up to any cap and any number
\* of failures: the delay stays in range and Ok is final.
THEOREM RestartsFollowPolicy == Spec => RestartPolicy
<1> DEFINE Policy == /\ DelayInRange'
                     /\ \A g \in Calls : call[g].child = "ok" => call'[g].child = "ok"
<1>1. IInv /\ IInv' /\ [Next]_vars => [Policy]_vars
  BY OkStep DEF IInv
<1>2. Spec => [][Policy]_vars
  BY <1>1, Invariance, PTL DEF Spec
<1> QED BY <1>2 DEF RestartPolicy
=============================================================================
