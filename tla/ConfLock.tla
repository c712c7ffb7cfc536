------------------------------ MODULE ConfLock ------------------------------
(***************************************************************************)
(* The single-instance interlock of src/server-conf.c.  A daemon process   *)
(* (process_server_conf_file()) probes the configuration file for a lock   *)
(* that would block a write lock and exits "in use" if there is one;       *)
(* otherwise it takes a read lock, held until it exits.  A -k process      *)
(* (kill_daemon()) makes the same probe and sends SIGTERM to the pid it    *)
(* returns.                                                                *)
(*                                                                         *)
(* is_write_lock_blocked() and get_read_lock() are in util.c, not in the   *)
(* repository: they are fcntl(F_GETLK, F_WRLCK), which returns the pid of  *)
(* some other process holding a lock on the file, and fcntl(F_SETLK,       *)
(* F_RDLCK), which no read lock blocks (spec.md 4.2, 4.6).  The kernel     *)
(* drops a process's locks when it exits.  The steps between the probe and *)
(* the lock (or the kill) are separate system calls.                      *)
(***************************************************************************)
EXTENDS Naturals, FiniteSets

CONSTANTS
  Daemons,   \* processes started as daemons on one configuration
  Killers    \* processes started with -k on it

VARIABLES
  dpc,       \* dpc[d]: "probe", "lock", "running" or "exited"
  locks,     \* processes holding a read lock on the configuration file
  kpc,       \* kpc[k]: "probe", "kill", "inactive", "terminated" or "failed"
  target,    \* target[k]: the pid the probe of k returned
  overlap    \* history: pairs of daemons each of which passed its probe
             \* while the other was between its probe and its lock

vars == <<dpc, locks, kpc, target, overlap>>

Init ==
  /\ dpc = [d \in Daemons |-> "probe"]
  /\ locks = {}
  /\ kpc = [k \in Killers |-> "probe"]
  /\ target = [k \in Killers |-> k]
  /\ overlap = {}

(* is_write_lock_blocked(fd): a lock held by another process.             *)
Blockers(p) == locks \ {p}

(* A daemon's probe: exit "in use by pid" if anyone holds a lock.          *)
DaemonProbe(d) ==
  /\ dpc[d] = "probe"
  /\ dpc' = [dpc EXCEPT ![d] = IF Blockers(d) # {} THEN "exited" ELSE "lock"]
  /\ overlap' = IF Blockers(d) # {} THEN overlap
                ELSE overlap \cup {{d, e} : e \in {x \in Daemons : dpc[x] = "lock"}}
  /\ UNCHANGED <<locks, kpc, target>>

(* A plausible slip: the daemon runs without taking its read lock.        *)
DaemonLockSkipped(d) ==
  /\ dpc[d] = "lock"
  /\ dpc' = [dpc EXCEPT ![d] = "running"]
  /\ UNCHANGED <<locks, kpc, target, overlap>>

(* get_read_lock(fd): read locks never conflict, so it succeeds; the      *)
(* daemon then parses its configuration and runs.                          *)
DaemonLock(d) ==
  /\ dpc[d] = "lock"
  /\ locks' = locks \cup {d}
  /\ dpc' = [dpc EXCEPT ![d] = "running"]
  /\ UNCHANGED <<kpc, target, overlap>>

(* A daemon ends, on SIGTERM (default action) or by itself; the kernel    *)
(* releases its lock.                                                       *)
DaemonExit(d) ==
  /\ dpc[d] = "running"
  /\ dpc' = [dpc EXCEPT ![d] = "exited"]
  /\ locks' = locks \ {d}
  /\ UNCHANGED <<kpc, target, overlap>>

(* kill_daemon(): the probe; "not active" when nothing blocks.             *)
KillProbe(k) ==
  /\ kpc[k] = "probe"
  /\ IF Blockers(k) = {}
     THEN kpc' = [kpc EXCEPT ![k] = "inactive"] /\ UNCHANGED target
     ELSE \E p \in Blockers(k) :
            /\ target' = [target EXCEPT ![k] = p]
            /\ kpc' = [kpc EXCEPT ![k] = "kill"]
  /\ UNCHANGED <<dpc, locks, overlap>>

(* kill(pid, SIGTERM): a pid whose process has exited and been reaped     *)
(* gives ESRCH and err_msg() exits with an error; an exited process not   *)
(* yet reaped accepts the signal.                                          *)
KillSend(k) ==
  LET p == target[k] IN
  /\ kpc[k] = "kill"
  /\ \/ dpc[p] = "exited" /\ kpc' = [kpc EXCEPT ![k] = "failed"]
     \/ kpc' = [kpc EXCEPT ![k] = "terminated"]
  /\ UNCHANGED <<dpc, locks, target, overlap>>

Next ==
  \/ \E d \in Daemons : DaemonProbe(d) \/ DaemonLock(d) \/ DaemonExit(d)
  \/ \E k \in Killers : KillProbe(k) \/ KillSend(k)

Spec == Init /\ [][Next]_vars

-----------------------------------------------------------------------------
TypeOK ==
  /\ dpc \in [Daemons -> {"probe", "lock", "running", "exited"}]
  /\ locks \subseteq Daemons
  /\ kpc \in [Killers -> {"probe", "kill", "inactive", "terminated", "failed"}]
  /\ target \in [Killers -> Daemons \cup Killers]
  /\ overlap \subseteq SUBSET Daemons

(* spec.md 4.2 and 6: the configuration file is the single-instance lock; *)
(* at most one daemon runs on a configuration.                             *)
SingleInstance == Cardinality({d \in Daemons : dpc[d] = "running"}) <= 1

(* The probe-then-lock of process_server_conf_file() has one hole only:   *)
(* two daemons run together only when each passed its probe while the    *)
(* other was between its probe and its get_read_lock().  A daemon that    *)
(* probes once another holds its lock, in any order of starts, exits and  *)
(* -k probes, is refused; so the lock must be held for the whole run and  *)
(* released only on exit.                                                 *)
OnlyOverlappingProbesCoexist ==
  \A d, e \in Daemons :
    d # e /\ dpc[d] = "running" /\ dpc[e] = "running" => {d, e} \in overlap

====
