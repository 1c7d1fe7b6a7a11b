------------------------- MODULE LifecycleProperties -------------------------
(***************************************************************************)
(* What is expected of DaemonLifecycle.                                    *)
(***************************************************************************)
EXTENDS DaemonLifecycle

\* Checkpoint, vacuum and reset never touch the Store while a Daemon has it
\* open (docs/11: they "require the verified Daemon to be stopped"; lifecycle.ts
\* withStoppedDaemonLock: "a positively verified stopped Daemon").
MaintenanceExclusive ==
  \A m \in Managers, d \in Daemons : ~(At(m, "maintaining") /\ StoreOpen(d))

\* A Daemon that serves can be found: by the registry, or by its identity in the
\* Daemon lock, so that no later status calls it stopped.
Discoverable ==
  \A d \in Daemons :
    Is(d, "serving") => registry = d \/ (daemonLock # None /\ daemonLock.identity = d)

\* Stop, restart and upgrade terminate the Daemon that was verified and never a
\* process that has its PID since (docs/04: "stop signals only the verified
\* process", "without killing unrelated reused PIDs").
SignalsVerified == [][\A d \in Daemons : d \in signalled' \ signalled => Alive(d)]_vars

\* Whichever step of it fails, a command or a Daemon that ends other than by a kill
\* leaves no lock file of its own (acquireRelease in lifecycle.ts), so that nobody
\* has to wait for a lock's owner to be judged gone but where one was killed.
LeavesLock(p) ==
  (startupLock # None /\ startupLock.owner = p) \/ (daemonLock # None /\ daemonLock.owner = p)

LocksReturned ==
  [][\A p \in Managers \cup Daemons :
        Running(p) /\ ~Running(p)' /\ UNCHANGED crashes => ~LeavesLock(p)']_vars


-----------------------------------------------------------------------------
(* Strengthenings that make the properties inductive (LifecycleProofs).     *)

\* A manager that acts on a Daemon has found one; one that is about to signal
\* has seen its health, and the PID is still that Daemon's.
FoundInv ==
  \A m \in Managers :
    /\ step[m] \in {"verify", "adopt", "signal", "wait_stopped"} => found[m] \in Daemons
    /\ At(m, "signal") => found[m] \notin reused

\* Only the PID of a dead Daemon is used again, and the dead stay dead.
ReusedInv == \A d \in reused : daemon[d] = "dead"

\* A manager between taking and giving back the startup lock.
Holding(m) ==
  ~(step[m] \in {"begin", "open_startup", "judge_startup", "unlink_startup", "done", "killed"}
    \/ goal[m] = "stop")

\* A lock names the process that took it, from then until it gives it back or is
\* killed; and a stop comes to no startup lock.
LocksInv ==
  /\ \A m \in Managers : goal[m] = "stop" => step[m] \notin {"open_startup", "judge_startup", "unlink_startup"}
  /\ startupLock # None => Holding(startupLock.owner) \/ At(startupLock.owner, "killed")
  /\ \A m \in Managers :
       daemonLock # None /\ daemonLock.owner = m => step[m] \in {"maintaining", "release_lock", "killed"}
  /\ \A d \in Daemons : daemonLock # None /\ daemonLock.owner = d => daemon[d] \notin {"none", "spawned"}

=============================================================================
