--------------------------- MODULE DaemonLifecycle ---------------------------
(***************************************************************************)
(* Belfry's command-line processes and Daemon processes, which coordinate  *)
(* through three files of the state directory: lifecycle.ts.  A step is    *)
(* one file-system call, signal or health request; any number of steps of  *)
(* other processes fall between two of one.                                *)
(*                                                                         *)
(* A file is known by its path: unlink removes whatever file is there.     *)
(* The age of a lock file matters only as "older than the stale limit".    *)
(* The creation of the startup lock and the write of its owner's PID are   *)
(* one step.  The PID of a dead Daemon may come to belong to an unrelated  *)
(* process, though not between a health request and the signal after it.   *)
(***************************************************************************)
EXTENDS Naturals, FiniteSets

CONSTANTS
  Managers,    \* bound: command-line processes
  Daemons,     \* bound: Daemon processes ever started
  Scenarios,   \* which commands are given
  MaxCrashes,  \* bound: processes killed
  MaxOverruns, \* bound: locks that outlive the stale limit while their owner runs
  None

\* "maintain" is checkpoint, vacuum or reset of the Store.
Commands == {"start", "stop", "restart", "maintain"}

\* What each process runs, those with another serviceVersion, and the Daemons
\* started by `daemon serve` rather than by a manager.
AllScenarios ==
  [command : [Managers -> Commands], upgraders : SUBSET Managers, foreground : SUBSET Daemons]

ASSUME LifecycleAssumption ==
  /\ None \notin Managers \cup Daemons
  /\ Managers \cap Daemons = {}
  /\ Scenarios \subseteq AllScenarios
  /\ MaxCrashes \in Nat /\ MaxOverruns \in Nat

VARIABLES
  scenario,    \* the commands of this behaviour
  startupLock, \* the startup lock file, or None
  daemonLock,  \* the Daemon lock file, or None
  registry,    \* the Daemon recorded in the registry file, or None
  step,        \* per manager: what it does next
  goal,        \* per manager: "start", "await" (the spawned Daemon), "stop" or "maintain"
  found,       \* per manager: the Daemon its last status found recorded, or None
  daemon,      \* per Daemon: its progress
  signalled,   \* the Daemons SIGTERM was sent to
  reused,      \* the dead Daemons whose PID an unrelated process has
  upgraded,    \* the Daemons with the other serviceVersion
  crashes, overruns

files    == <<startupLock, daemonLock, registry>>
managers == <<step, goal, found>>
daemons  == <<daemon, signalled, reused, upgraded>>
bounds   == <<crashes, overruns>>
vars == <<scenario, files, managers, daemons, bounds>>

Steps ==
  {"begin", "open_startup", "judge_startup", "unlink_startup",
   "read_registry", "read_lock", "verify", "adopt",
   "signal", "wait_stopped", "remove_registry", "remove_lock",
   "clean_registry", "judge_lock", "unlink_lock", "spawn",
   "take_lock", "maintaining", "release_lock", "release_startup", "done", "killed"}

\* A started Daemon boots (lock taken, Store being opened), listens, registers,
\* serves, and on SIGTERM removes its registry, closes the server and the Store
\* and releases the lock.
DaemonStates ==
  {"none", "spawned", "booting", "listening", "registered", "serving",
   "unregistering", "unlinking_registry", "closing", "releasing", "dead"}

StartupLocks == [owner : Managers, aged : BOOLEAN]
DaemonLocks  == [owner : Managers \cup Daemons, identity : Daemons \cup {None}, aged : BOOLEAN]

ASSUME NoLockAssumption == None \notin StartupLocks \cup DaemonLocks

TypeOK ==
  /\ scenario \in Scenarios
  /\ startupLock \in StartupLocks \cup {None}
  /\ daemonLock \in DaemonLocks \cup {None}
  /\ registry \in Daemons \cup {None}
  /\ step \in [Managers -> Steps]
  /\ goal \in [Managers -> {"start", "await", "stop", "maintain"}]
  /\ found \in [Managers -> Daemons \cup {None}]
  /\ daemon \in [Daemons -> DaemonStates]
  /\ signalled \subseteq Daemons
  /\ reused \subseteq Daemons
  /\ upgraded \subseteq Daemons
  /\ crashes \in Nat /\ overruns \in Nat

Alive(d)     == daemon[d] \notin {"none", "dead"}
PidExists(d) == Alive(d) \/ d \in reused
Listening(d) == daemon[d] \in {"listening", "registered", "serving", "unregistering", "unlinking_registry"}
StoreOpen(d) == daemon[d] = "booting" \/ Listening(d) \/ daemon[d] = "closing"
Running(p)   == IF p \in Daemons THEN Alive(p) ELSE step[p] \notin {"begin", "done", "killed"}

NewLock(p) == [owner |-> p, identity |-> None, aged |-> FALSE]

Command(m)    == scenario.command[m]
IsUpgrader(m) == m \in scenario.upgraders
Spawnable(d)  == d \notin scenario.foreground

FirstGoal(m) == IF Command(m) = "restart" THEN "stop" ELSE Command(m)

\* Nothing was started, a Daemon is serving, or one was killed while serving.
Init ==
  /\ scenario \in Scenarios
  /\ startupLock = None
  /\ \/ /\ daemon = [d \in Daemons |-> "none"]
        /\ registry = None /\ daemonLock = None
     \/ \E d \in Daemons, state \in {"serving", "dead"} :
          /\ Spawnable(d)
          /\ daemon = [e \in Daemons |-> IF e = d THEN state ELSE "none"]
          /\ registry = d
          /\ daemonLock = [owner |-> d, identity |-> d, aged |-> TRUE]
  /\ step = [m \in Managers |-> "begin"]
  /\ goal = [m \in Managers |-> FirstGoal(m)]
  /\ found = [m \in Managers |-> None]
  /\ signalled = {}
  /\ reused = {}
  /\ upgraded = {}
  /\ crashes = 0 /\ overruns = 0

-----------------------------------------------------------------------------
(* Helpers of the managers' steps.                                          *)

At(m, where) == step[m] = where

Goto(m, where) == step' = [step EXCEPT ![m] = where]

\* Mutant: a Daemon that does not stop in time ends the command at once.
LeaveAtOnce(m) == Goto(m, "done")


\* The end of a command: the startup lock is given back by those that took it.
Leave(m) == Goto(m, IF goal[m] = "stop" THEN "done" ELSE "release_startup")

\* lockIsStale of the startup lock: gone, its owner gone, or too old.
StartupStale ==
  startupLock = None \/ ~Running(startupLock.owner) \/ startupLock.aged

\* lockIsStale of the Daemon lock: the PID and identity are in it once the
\* Daemon serves; an empty one, as maintenance leaves it, is judged by its age.
DaemonLockStale ==
  \/ daemonLock = None
  \/ IF daemonLock.identity = None THEN daemonLock.aged ELSE ~PidExists(daemonLock.identity)

SameVersion(m, d) == IsUpgrader(m) = (d \in upgraded)

-----------------------------------------------------------------------------
(* acquireStartupLock.                                                      *)

Begin(m) ==
  /\ At(m, "begin")
  /\ Goto(m, IF goal[m] = "stop" THEN "read_registry" ELSE "open_startup")
  /\ UNCHANGED <<scenario, files, goal, found, daemons, bounds>>

OpenStartupLock(m) ==
  /\ At(m, "open_startup")
  /\ IF startupLock = None
     THEN /\ startupLock' = [owner |-> m, aged |-> FALSE]
          /\ Goto(m, "read_registry")
     ELSE /\ Goto(m, "judge_startup")
          /\ UNCHANGED startupLock
  /\ UNCHANGED <<scenario, daemonLock, registry, goal, found, daemons, bounds>>

JudgeStartupLock(m) ==
  /\ At(m, "judge_startup")
  /\ Goto(m, IF StartupStale THEN "unlink_startup" ELSE "open_startup")
  /\ UNCHANGED <<scenario, files, goal, found, daemons, bounds>>

UnlinkStartupLock(m) ==
  /\ At(m, "unlink_startup")
  /\ startupLock' = None
  /\ Goto(m, "open_startup")
  /\ UNCHANGED <<scenario, daemonLock, registry, goal, found, daemons, bounds>>

\* The lock was not acquired within startupTimeoutMs.
GiveUp(m) ==
  /\ At(m, "open_startup")
  /\ Goto(m, "done")
  /\ UNCHANGED <<scenario, files, goal, found, daemons, bounds>>

-----------------------------------------------------------------------------
(* status, and what each command makes of it.                               *)

ReadRegistry(m) ==
  /\ At(m, "read_registry")
  /\ found' = [found EXCEPT ![m] = registry]
  /\ Goto(m, IF registry = None THEN "read_lock" ELSE "verify")
  /\ UNCHANGED <<scenario, files, goal, daemons, bounds>>

\* "stopped": neither file names a Daemon.
FoundStopped(m) ==
  CASE goal[m] = "start"    -> Goto(m, "clean_registry") /\ UNCHANGED goal
    [] goal[m] = "maintain" -> Goto(m, "take_lock") /\ UNCHANGED goal
    [] goal[m] = "await"    -> Goto(m, "read_registry") /\ UNCHANGED goal
    [] goal[m] = "stop"     ->
         IF Command(m) = "restart"
         THEN Goto(m, "open_startup") /\ goal' = [goal EXCEPT ![m] = "start"]
         ELSE Goto(m, "done") /\ UNCHANGED goal

\* "stale": the files cannot be read, or name a process that has exited.
FoundStale(m, readable) ==
  IF goal[m] = "maintain"
  THEN Goto(m, IF readable THEN "clean_registry" ELSE "release_startup") /\ UNCHANGED goal
  ELSE FoundStopped(m)

\* Mutant: whoever holds the lock file is taken for the Daemon.
ReadLockOwner(m) ==
  /\ At(m, "read_lock")
  /\ IF daemonLock = None
     THEN FoundStopped(m) /\ UNCHANGED found
     ELSE found' = [found EXCEPT ![m] = daemonLock.owner] /\ Goto(m, "verify") /\ UNCHANGED goal
  /\ UNCHANGED <<scenario, files, daemons, bounds>>


ReadLock(m) ==
  /\ At(m, "read_lock")
  /\ IF daemonLock = None
     THEN FoundStopped(m) /\ UNCHANGED found
     ELSE IF daemonLock.identity = None
          THEN FoundStale(m, FALSE) /\ UNCHANGED found
          ELSE /\ found' = [found EXCEPT ![m] = daemonLock.identity]
               /\ Goto(m, "verify")
               /\ UNCHANGED goal
  /\ UNCHANGED <<scenario, files, daemons, bounds>>

VerifyExited(m) ==
  /\ At(m, "verify")
  /\ ~PidExists(found[m])
  /\ FoundStale(m, TRUE)
  /\ UNCHANGED <<scenario, files, found, daemons, bounds>>

\* Mutant: the existence of the PID is taken for the Daemon's health.
VerifyRunningByPid(m) ==
  /\ At(m, "verify")
  /\ PidExists(found[m])
  /\ Goto(m, CASE goal[m] = "start"    -> IF SameVersion(m, found[m]) THEN "adopt" ELSE "signal"
               [] goal[m] = "await"    -> IF SameVersion(m, found[m]) THEN "release_startup"
                                                                     ELSE "read_registry"
               [] goal[m] = "maintain" -> "release_startup"
               [] goal[m] = "stop"     -> "signal")
  /\ UNCHANGED <<scenario, files, goal, found, daemons, bounds>>

\* "running": the health of the endpoint shows the recorded identity.
VerifyRunning(m) ==
  /\ At(m, "verify")
  /\ Listening(found[m])
  /\ Goto(m, CASE goal[m] = "start"    -> IF SameVersion(m, found[m]) THEN "adopt" ELSE "signal"
               [] goal[m] = "await"    -> IF SameVersion(m, found[m]) THEN "release_startup"
                                                                     ELSE "read_registry"
               [] goal[m] = "maintain" -> "release_startup"
               [] goal[m] = "stop"     -> "signal")
  /\ UNCHANGED <<scenario, files, goal, found, daemons, bounds>>

\* "unhealthy": the process exists and no health within 750 ms matched.
VerifyUnhealthy(m) ==
  /\ At(m, "verify")
  /\ PidExists(found[m])
  /\ IF goal[m] \in {"stop", "await"}
     THEN FoundStopped(m)
     ELSE Goto(m, "release_startup") /\ UNCHANGED goal
  /\ UNCHANGED <<scenario, files, found, daemons, bounds>>

\* waitForRunning gives up after startupTimeoutMs.
AwaitTimeout(m) ==
  /\ At(m, "read_registry") /\ goal[m] = "await"
  /\ Goto(m, "release_startup")
  /\ UNCHANGED <<scenario, files, goal, found, daemons, bounds>>

\* writeRegistry of the adopted Daemon.
Adopt(m) ==
  /\ At(m, "adopt")
  /\ registry' = found[m]
  /\ Goto(m, "release_startup")
  /\ UNCHANGED <<scenario, startupLock, daemonLock, goal, found, daemons, bounds>>

-----------------------------------------------------------------------------
(* terminateDaemon.                                                         *)

Signal(m) ==
  /\ At(m, "signal")
  /\ IF PidExists(found[m])
     THEN signalled' = signalled \cup {found[m]} /\ Goto(m, "wait_stopped")
     ELSE Leave(m) /\ UNCHANGED signalled
  /\ UNCHANGED <<scenario, files, goal, found, daemon, reused, upgraded, bounds>>

WaitStopped(m) ==
  /\ At(m, "wait_stopped")
  /\ \/ ~PidExists(found[m]) /\ Goto(m, "remove_registry")
     \/ PidExists(found[m]) /\ Leave(m)  \* shutdownTimeoutMs
  /\ UNCHANGED <<scenario, files, goal, found, daemons, bounds>>

RemoveRegistry(m) ==
  /\ At(m, "remove_registry")
  /\ registry' = None
  /\ Goto(m, "remove_lock")
  /\ UNCHANGED <<scenario, startupLock, daemonLock, goal, found, daemons, bounds>>

RemoveLock(m) ==
  /\ At(m, "remove_lock")
  /\ daemonLock' = None
  /\ IF goal[m] = "stop"
     THEN FoundStopped(m)
     ELSE Goto(m, "clean_registry") /\ UNCHANGED goal
  /\ UNCHANGED <<scenario, startupLock, registry, found, daemons, bounds>>

-----------------------------------------------------------------------------
(* cleanupStaleFiles, then the Daemon is spawned or its lock taken.         *)

AfterCleanup(m) == IF goal[m] = "maintain" THEN "take_lock" ELSE "spawn"

CleanRegistry(m) ==
  /\ At(m, "clean_registry")
  /\ registry' = None
  /\ Goto(m, "judge_lock")
  /\ UNCHANGED <<scenario, startupLock, daemonLock, goal, found, daemons, bounds>>

JudgeLock(m) ==
  /\ At(m, "judge_lock")
  /\ Goto(m, IF DaemonLockStale THEN "unlink_lock" ELSE AfterCleanup(m))
  /\ UNCHANGED <<scenario, files, goal, found, daemons, bounds>>

UnlinkLock(m) ==
  /\ At(m, "unlink_lock")
  /\ daemonLock' = None
  /\ Goto(m, AfterCleanup(m))
  /\ UNCHANGED <<scenario, startupLock, registry, goal, found, daemons, bounds>>

SpawnDaemon(m) ==
  /\ At(m, "spawn")
  /\ \/ \E d \in Daemons :
          /\ Spawnable(d) /\ daemon[d] = "none"
          /\ daemon' = [daemon EXCEPT ![d] = "spawned"]
          /\ upgraded' = IF IsUpgrader(m) THEN upgraded \cup {d} ELSE upgraded
          /\ goal' = [goal EXCEPT ![m] = "await"]
          /\ Goto(m, "read_registry")
     \/ Goto(m, "release_startup") /\ UNCHANGED <<daemon, upgraded, goal>>  \* spawn_failed
  /\ UNCHANGED <<scenario, files, found, signalled, reused, bounds>>

\* Mutant: the Daemon lock is opened without "wx".
TakeLockShared(m) ==
  /\ At(m, "take_lock")
  /\ daemonLock' = NewLock(m)
  /\ Goto(m, "maintaining")
  /\ UNCHANGED <<scenario, startupLock, registry, goal, found, daemons, bounds>>


TakeLock(m) ==
  /\ At(m, "take_lock")
  /\ IF daemonLock = None
     THEN daemonLock' = NewLock(m) /\ Goto(m, "maintaining")
     ELSE Goto(m, "release_startup") /\ UNCHANGED daemonLock
  /\ UNCHANGED <<scenario, startupLock, registry, goal, found, daemons, bounds>>

Maintained(m) ==
  /\ At(m, "maintaining")
  /\ Goto(m, "release_lock")
  /\ UNCHANGED <<scenario, files, goal, found, daemons, bounds>>

ReleaseLock(m) ==
  /\ At(m, "release_lock")
  /\ daemonLock' = None
  /\ Goto(m, "release_startup")
  /\ UNCHANGED <<scenario, startupLock, registry, goal, found, daemons, bounds>>

ReleaseStartupLock(m) ==
  /\ At(m, "release_startup")
  /\ startupLock' = None
  /\ Goto(m, "done")
  /\ UNCHANGED <<scenario, daemonLock, registry, goal, found, daemons, bounds>>

-----------------------------------------------------------------------------
(* serve.                                                                   *)

Is(d, state) == daemon[d] = state

Becomes(d, state) == daemon' = [daemon EXCEPT ![d] = state]

ServeByHand(d) ==
  /\ ~Spawnable(d) /\ Is(d, "none")
  /\ Becomes(d, "spawned")
  /\ UNCHANGED <<scenario, files, managers, signalled, reused, upgraded, bounds>>

AcquireDaemonLock(d) ==
  /\ Is(d, "spawned")
  /\ IF daemonLock = None
     THEN daemonLock' = NewLock(d) /\ Becomes(d, "booting")
     ELSE Becomes(d, "dead") /\ UNCHANGED daemonLock
  /\ UNCHANGED <<scenario, startupLock, registry, managers, signalled, reused, upgraded, bounds>>

\* The Store is open; the port is taken or the Daemon gives up.
Bind(d) ==
  /\ Is(d, "booting")
  /\ Becomes(d, IF \E e \in Daemons : Listening(e) THEN "releasing" ELSE "listening")
  /\ UNCHANGED <<scenario, files, managers, signalled, reused, upgraded, bounds>>

Register(d) ==
  /\ Is(d, "listening") /\ d \notin signalled
  /\ registry' = d
  /\ Becomes(d, "registered")
  /\ UNCHANGED <<scenario, startupLock, daemonLock, managers, signalled, reused, upgraded, bounds>>

\* Mutant: the lock is left empty.
RecordNothing(d) ==
  /\ Is(d, "registered") /\ d \notin signalled
  /\ Becomes(d, "serving")
  /\ UNCHANGED <<scenario, files, managers, signalled, reused, upgraded, bounds>>

\* The identity goes into the lock through the open handle, which may no longer
\* be the file at the path.
RecordIdentity(d) ==
  /\ Is(d, "registered") /\ d \notin signalled
  /\ daemonLock' = IF daemonLock # None /\ daemonLock.owner = d
                   THEN [daemonLock EXCEPT !.identity = d]
                   ELSE daemonLock
  /\ Becomes(d, "serving")
  /\ UNCHANGED <<scenario, startupLock, registry, managers, signalled, reused, upgraded, bounds>>

\* SIGTERM interrupts serve: the finalizers it has reached run in reverse.
Interrupted(d) ==
  /\ d \in signalled
  /\ \/ Is(d, "serving") /\ Becomes(d, "unregistering")
     \/ daemon[d] \in {"listening", "registered"} /\ Becomes(d, "closing")
  /\ UNCHANGED <<scenario, files, managers, signalled, reused, upgraded, bounds>>

\* removeRegistryIfOwned
Unregister(d) ==
  /\ Is(d, "unregistering")
  /\ Becomes(d, IF registry = d THEN "unlinking_registry" ELSE "closing")
  /\ UNCHANGED <<scenario, files, managers, signalled, reused, upgraded, bounds>>

UnlinkRegistry(d) ==
  /\ Is(d, "unlinking_registry")
  /\ registry' = None
  /\ Becomes(d, "closing")
  /\ UNCHANGED <<scenario, startupLock, daemonLock, managers, signalled, reused, upgraded, bounds>>

\* The listener and the Store are closed after the drain.
CloseServer(d) ==
  /\ Is(d, "closing")
  /\ Becomes(d, "releasing")
  /\ UNCHANGED <<scenario, files, managers, signalled, reused, upgraded, bounds>>

ReleaseDaemonLock(d) ==
  /\ Is(d, "releasing")
  /\ daemonLock' = None
  /\ Becomes(d, "dead")
  /\ UNCHANGED <<scenario, startupLock, registry, managers, signalled, reused, upgraded, bounds>>

-----------------------------------------------------------------------------
(* What happens to processes and files from outside.                        *)

KillDaemon(d) ==
  /\ crashes < MaxCrashes
  /\ Alive(d)
  /\ Becomes(d, "dead")
  /\ crashes' = crashes + 1
  /\ UNCHANGED <<scenario, files, managers, signalled, reused, upgraded, overruns>>

KillManager(m) ==
  /\ crashes < MaxCrashes
  /\ Running(m)
  /\ Goto(m, "killed")
  /\ crashes' = crashes + 1
  /\ UNCHANGED <<scenario, files, goal, found, daemons, overruns>>

PidReused(d) ==
  /\ daemon[d] = "dead" /\ d \notin reused
  /\ \A m \in Managers : ~(At(m, "signal") /\ found[m] = d)
  /\ reused' = reused \cup {d}
  /\ UNCHANGED <<scenario, files, managers, daemon, signalled, upgraded, bounds>>

\* A lock passes the stale limit, max(startupTimeoutMs, 5000): always possible
\* when its owner is gone, counted as an overrun while it runs.
Ages(lock) ==
  /\ lock # None /\ ~lock.aged
  /\ IF Running(lock.owner)
     THEN overruns < MaxOverruns /\ overruns' = overruns + 1
     ELSE UNCHANGED overruns

StartupLockAges ==
  /\ Ages(startupLock)
  /\ startupLock' = [startupLock EXCEPT !.aged = TRUE]
  /\ UNCHANGED <<scenario, daemonLock, registry, managers, daemons, crashes>>

DaemonLockAges ==
  /\ Ages(daemonLock)
  /\ daemonLock' = [daemonLock EXCEPT !.aged = TRUE]
  /\ UNCHANGED <<scenario, startupLock, registry, managers, daemons, crashes>>

-----------------------------------------------------------------------------
ManagerStep(m) ==
  \/ Begin(m) \/ OpenStartupLock(m) \/ JudgeStartupLock(m) \/ UnlinkStartupLock(m) \/ GiveUp(m)
  \/ ReadRegistry(m) \/ ReadLock(m) \/ VerifyExited(m) \/ VerifyRunning(m) \/ VerifyUnhealthy(m)
  \/ AwaitTimeout(m) \/ Adopt(m)
  \/ Signal(m) \/ WaitStopped(m) \/ RemoveRegistry(m) \/ RemoveLock(m)
  \/ CleanRegistry(m) \/ JudgeLock(m) \/ UnlinkLock(m) \/ SpawnDaemon(m)
  \/ TakeLock(m) \/ Maintained(m) \/ ReleaseLock(m) \/ ReleaseStartupLock(m)

DaemonStep(d) ==
  \/ ServeByHand(d) \/ AcquireDaemonLock(d) \/ Bind(d) \/ Register(d) \/ RecordIdentity(d)
  \/ Interrupted(d) \/ Unregister(d) \/ UnlinkRegistry(d) \/ CloseServer(d) \/ ReleaseDaemonLock(d)

Next ==
  \/ \E m \in Managers : ManagerStep(m) \/ KillManager(m)
  \/ \E d \in Daemons : DaemonStep(d) \/ KillDaemon(d) \/ PidReused(d)
  \/ StartupLockAges \/ DaemonLockAges

Spec == Init /\ [][Next]_vars

=============================================================================
