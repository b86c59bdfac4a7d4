-------------------------------- MODULE Host --------------------------------
(***************************************************************************)
(* The life of the daemon process: what it keeps on disk between two       *)
(* starts (the device id in the store, the certificate and its key in the  *)
(* config directory) and the socket it serves its clients on               *)
(* (daemon/main.rs, protocol/tls.rs, core/store.rs, ipc/server.rs).        *)
(*                                                                         *)
(* The process may be killed between any two steps and started again, a    *)
(* step of the start may fail, and the user may wipe the store.  There is  *)
(* one process at a time: nothing in the code keeps a second one out.      *)
(***************************************************************************)
EXTENDS Integers, FiniteSets

CONSTANTS
  None,
  MaxFresh,   \* bound: identities and key pairs ever generated
  MaxFaults   \* bound: crashes, failing steps and wipes

\* Ids and keys are numbers; no number and no certificate means none.
ASSUME HostAssumption ==
  /\ None \notin Nat /\ None \notin [key : Nat, cn : Nat]
  /\ MaxFresh \in Nat /\ MaxFaults \in Nat

VARIABLES
  pc,       \* where run() is: "off" when there is no process
  id,       \* device_id of the process
  pair,     \* its CertPair
  ipc,      \* its ipc-server child: "none", "unlink", "bind", "serving"
  kv,       \* the device_id of the store
  disk,     \* id_cert.der and id_key.der
  tmp,      \* a temporary file of persist_atomic exists
  socket,   \* the socket file: None, "live" or "stale"
  fresh, faults,
  served,   \* history: the identities the process has run with
  wiped     \* history: the store has been wiped

vars == <<pc, id, pair, ipc, kv, disk, tmp, socket, fresh, faults, served, wiped>>

-----------------------------------------------------------------------------
\* A certificate names its key (by the number it was made under) and its subject;
\* generate_self_signed.
GenerateSelfSigned(n, i) == [cert |-> [key |-> n, cn |-> i], key |-> n]

Startup == {"id", "load", "cert", "certRename", "key", "keyRename", "spawn"}

Init ==
  /\ pc = "off" /\ ipc = "none" /\ id = None
  /\ pair = [cert |-> None, key |-> None]
  /\ kv = None /\ disk = pair /\ tmp = FALSE
  /\ socket \in {None, "stale"}
  /\ fresh = 0 /\ faults = 0 /\ served = {} /\ wiped = FALSE

\* main, and run up to Store::open: directories and tables that are already
\* there are left as they are.
Start ==
  /\ pc = "off"
  /\ pc' = "id"
  /\ UNCHANGED <<id, pair, ipc, kv, disk, tmp, socket, fresh, faults, served, wiped>>

\* ensure_device_id: kv_get, or else a fresh id and kv_set, which is one commit.
EnsureDeviceId ==
  /\ pc = "id"
  /\ IF kv # None
     THEN id' = kv /\ UNCHANGED <<kv, fresh>>
     ELSE /\ fresh < MaxFresh
          /\ fresh' = fresh + 1
          /\ id' = fresh'
          /\ kv' = fresh'
  /\ pc' = "load"
  /\ UNCHANGED <<pair, ipc, disk, tmp, socket, faults, served, wiped>>

\* CertPair::load_or_generate: both files, or a fresh pair for both.
Load ==
  /\ pc = "load"
  /\ IF disk.cert # None /\ disk.key # None
     THEN pair' = disk /\ pc' = "spawn" /\ UNCHANGED fresh
     ELSE /\ fresh < MaxFresh
          /\ fresh' = fresh + 1
          /\ pair' = GenerateSelfSigned(fresh', id)
          /\ pc' = "cert"
  /\ UNCHANGED <<id, ipc, kv, disk, tmp, socket, faults, served, wiped>>

\* write_private_then_rename up to the rename: a file of a name of its own.
WriteTemp ==
  /\ pc \in {"cert", "key"}
  /\ tmp' = TRUE
  /\ pc' = IF pc = "cert" THEN "certRename" ELSE "keyRename"
  /\ UNCHANGED <<id, pair, ipc, kv, disk, socket, fresh, faults, served, wiped>>

\* (mutant) A file that is there already is kept.
OnlyMissing(f) == IF disk[f] = None THEN [disk EXCEPT ![f] = pair[f]] ELSE disk

\* fs::rename over the target.
Replaced(f) == [disk EXCEPT ![f] = pair[f]]

\* The rename of the certificate, then of the key, which ends load_or_generate.
Rename ==
  /\ tmp' = FALSE
  /\ \/ pc = "certRename" /\ disk' = Replaced("cert") /\ pc' = "key"
     \/ pc = "keyRename" /\ disk' = Replaced("key") /\ pc' = "spawn"
  /\ UNCHANGED <<id, pair, ipc, kv, socket, fresh, faults, served, wiped>>

\* The rest of run, up to wait_for_shutdown: the identity is announced and served,
\* and the ipc-server child is started.
Spawn ==
  /\ pc = "spawn"
  /\ pc' = "running"
  /\ ipc' = "unlink"
  /\ served' = served \cup {[id |-> id, pair |-> pair]}
  /\ UNCHANGED <<id, pair, kv, disk, tmp, socket, fresh, faults, wiped>>

\* (mutant) A socket file that is there is left to its owner.
KeepSocket == socket

\* Server::bind removes whatever is at the path ...
Unlinked == None

Unlink ==
  /\ ipc = "unlink"
  /\ socket' = Unlinked
  /\ ipc' = "bind"
  /\ UNCHANGED <<pc, id, pair, kv, disk, tmp, fresh, faults, served, wiped>>

\* ... and binds there, which fails if the path is taken or for reasons of its own;
\* the supervisor then starts the child again.
Bind ==
  /\ ipc = "bind"
  /\ \/ /\ socket = None
        /\ socket' = "live" /\ ipc' = "serving"
        /\ UNCHANGED faults
     \/ /\ socket # None
        /\ ipc' = "unlink"
        /\ UNCHANGED <<socket, faults>>
     \/ /\ faults < MaxFaults
        /\ faults' = faults + 1
        /\ ipc' = "unlink"
        /\ UNCHANGED socket
  /\ UNCHANGED <<pc, id, pair, kv, disk, tmp, fresh, served, wiped>>

\* wait_for_shutdown returns on SIGTERM or SIGINT; DaemonShutdown, shutdown_all.
Terminate ==
  /\ pc = "running"
  /\ pc' = "cleanup"
  /\ UNCHANGED <<id, pair, ipc, kv, disk, tmp, socket, fresh, faults, served, wiped>>

\* The process is gone; a socket it listened on is now a stale file.
Gone(s) ==
  /\ pc' = "off" /\ ipc' = "none" /\ id' = None
  /\ pair' = [cert |-> None, key |-> None]
  /\ socket' = IF s = "live" THEN "stale" ELSE s

\* cleanup_socket and the end of main.  shutdown_all does not wait for the child,
\* which may bind after the file is removed.
CleanUp ==
  /\ pc = "cleanup"
  /\ \/ Gone(None)
     \/ ipc = "bind" /\ Gone("live")
  /\ UNCHANGED <<kv, disk, tmp, fresh, faults, served, wiped>>

\* The process is killed; a temporary file stays behind.
Crash ==
  /\ pc # "off"
  /\ faults < MaxFaults
  /\ faults' = faults + 1
  /\ Gone(socket)
  /\ UNCHANGED <<kv, disk, tmp, fresh, served, wiped>>

\* A step of the start returns an error, and main with it; persist_atomic removes
\* its temporary file.
Fail ==
  /\ pc \in Startup
  /\ faults < MaxFaults
  /\ faults' = faults + 1
  /\ Gone(socket)
  /\ tmp' = (tmp /\ pc \notin {"certRename", "keyRename"})
  /\ UNCHANGED <<kv, disk, fresh, served, wiped>>

\* The user deletes state.db3 while no daemon runs.
Wipe ==
  /\ pc = "off" /\ kv # None
  /\ faults < MaxFaults
  /\ faults' = faults + 1
  /\ kv' = None /\ wiped' = TRUE
  /\ UNCHANGED <<pc, id, pair, ipc, disk, tmp, socket, fresh, served>>

Next ==
  \/ Start \/ EnsureDeviceId \/ Load \/ WriteTemp \/ Rename \/ Spawn
  \/ Unlink \/ Bind
  \/ Terminate \/ CleanUp \/ Crash \/ Fail \/ Wipe

\* The tasks of a process that is not killed go on.
Fairness == WF_vars(Unlink) /\ WF_vars(Bind)

Spec == Init /\ [][Next]_vars /\ Fairness

-----------------------------------------------------------------------------
(* Properties. *)

\* The certificate a process serves is the one of its key, and names the device
\* unless the store was wiped.
PairMatches ==
  \A s \in served :
    /\ s.pair.cert.key = s.pair.key
    /\ wiped \/ s.pair.cert.cn = s.id

\* "Stable per-install device id; regenerated only if the store is wiped"
\* (main.rs, line 135): wherever a start is cut short, also between the two files
\* of load_or_generate (lines 87-88 of protocol/tls.rs), all processes run with one
\* device id, and with one certificate even over a wipe, which is the one of the key.
StableIdentity ==
  /\ wiped \/ Cardinality({s.id : s \in served}) <= 1
  /\ Cardinality({s.pair.cert : s \in served}) <= 1
  /\ PairMatches

\* A running daemon comes to listen on its socket, whatever the process before it
\* left at the path (Server::bind).
StartsServing == pc = "running" ~> (pc # "running" \/ socket = "live")
=============================================================================
