--------------------------- MODULE LifecycleProofs ---------------------------
(***************************************************************************)
(* Theorems about DaemonLifecycle, for every set of managers and Daemons,  *)
(* every scenario and every number of kills and overruns.                  *)
(***************************************************************************)
EXTENDS LifecycleProperties, TLAPS

LifecycleInv == TypeOK /\ FoundInv /\ ReusedInv

\* The locks that are written.
LEMMA StartupLockType ==
  /\ \A m \in Managers, aged \in BOOLEAN : [owner |-> m, aged |-> aged] \in StartupLocks
  /\ \A lock \in StartupLocks : [lock EXCEPT !.aged = TRUE] \in StartupLocks
BY DEF StartupLocks

LEMMA DaemonLockType ==
  /\ \A p \in Managers \cup Daemons : NewLock(p) \in DaemonLocks
  /\ \A d \in Daemons : [owner |-> d, identity |-> d, aged |-> TRUE] \in DaemonLocks
  /\ \A lock \in DaemonLocks : [lock EXCEPT !.aged = TRUE] \in DaemonLocks
  /\ \A lock \in DaemonLocks, d \in Daemons : [lock EXCEPT !.identity = d] \in DaemonLocks
BY DEF DaemonLocks, NewLock

LEMMA GotoType ==
  ASSUME TypeOK, NEW m \in Managers, NEW where \in Steps, Goto(m, where)
  PROVE  step' \in [Managers -> Steps]
BY DEF TypeOK, Goto

\* What a step of a manager leaves to prove: the types of what it assigns, and
\* that it moves on with a Daemon found where one is needed.
LEMMA ManagerMoves ==
  ASSUME LifecycleInv, NEW m \in Managers, NEW where \in Steps, Goto(m, where),
         UNCHANGED <<daemon, reused>>,
         \A n \in Managers : n # m => found'[n] = found[n],
         where \in {"verify", "adopt", "signal", "wait_stopped"} => found'[m] \in Daemons,
         where = "signal" => found'[m] \notin reused
  PROVE  FoundInv' /\ ReusedInv'
BY DEF LifecycleInv, TypeOK, FoundInv, ReusedInv, Goto, At

\* What a command makes of "stopped" and "stale" never needs a Daemon.
LEMMA StoppedMoves ==
  ASSUME TypeOK, NEW m \in Managers, FoundStopped(m)
  PROVE  /\ \E where \in Steps \ {"verify", "adopt", "signal", "wait_stopped"} : Goto(m, where)
         /\ goal' \in [Managers -> {"start", "await", "stop", "maintain"}]
<1>1. goal[m] \in {"start", "await", "stop", "maintain"}
  BY DEF TypeOK
<1>2. CASE goal[m] = "start"
  BY <1>2 DEF FoundStopped, TypeOK, Steps
<1>3. CASE goal[m] = "maintain"
  BY <1>3 DEF FoundStopped, TypeOK, Steps
<1>4. CASE goal[m] = "await"
  BY <1>4 DEF FoundStopped, TypeOK, Steps
<1>5. CASE goal[m] = "stop"
  BY <1>5 DEF FoundStopped, TypeOK, Steps
<1> QED
  BY <1>1, <1>2, <1>3, <1>4, <1>5

LEMMA StaleMoves ==
  ASSUME TypeOK, NEW m \in Managers, NEW readable \in BOOLEAN, FoundStale(m, readable)
  PROVE  /\ \E where \in Steps \ {"verify", "adopt", "signal", "wait_stopped"} : Goto(m, where)
         /\ goal' \in [Managers -> {"start", "await", "stop", "maintain"}]
<1>1. CASE goal[m] = "maintain"
  BY <1>1 DEF FoundStale, TypeOK, Steps
<1>2. CASE goal[m] # "maintain"
  BY <1>2, StoppedMoves DEF FoundStale
<1> QED
  BY <1>1, <1>2

\* A verified Daemon's PID is its own.
LEMMA VerifiedMoves ==
  ASSUME LifecycleInv, NEW m \in Managers, VerifyRunning(m)
  PROVE  LifecycleInv'
<1> USE DEF LifecycleInv
<1>1. PICK where \in {"adopt", "signal", "release_startup", "read_registry"} : Goto(m, where)
  <2>1. goal[m] \in {"start", "await", "stop", "maintain"}
    BY DEF TypeOK
  <2>2. CASE goal[m] = "start"
    BY <2>2 DEF VerifyRunning
  <2>3. CASE goal[m] = "await"
    BY <2>3 DEF VerifyRunning
  <2>4. CASE goal[m] = "maintain"
    BY <2>4 DEF VerifyRunning
  <2>5. CASE goal[m] = "stop"
    BY <2>5 DEF VerifyRunning
  <2> QED
    BY <2>1, <2>2, <2>3, <2>4, <2>5
<1>2. UNCHANGED <<scenario, files, goal, found, daemons, bounds>>
  BY DEF VerifyRunning
<1>3. found[m] \in Daemons /\ found[m] \notin reused
  BY DEF VerifyRunning, FoundInv, ReusedInv, At, Listening
<1>4. where \in Steps
  BY DEF Steps
<1>5. FoundInv' /\ ReusedInv'
  BY <1>1, <1>2, <1>3, <1>4, ManagerMoves DEF daemons
<1>6. TypeOK'
  BY <1>1, <1>2, <1>4, GotoType DEF TypeOK, files, daemons, bounds
<1> QED
  BY <1>5, <1>6

LEMMA ManagerKeeps ==
  ASSUME LifecycleInv, NEW m \in Managers, ManagerStep(m) \/ KillManager(m)
  PROVE  LifecycleInv'
<1> USE DEF LifecycleInv, files, daemons, bounds
<1>1. CASE Begin(m) \/ JudgeStartupLock(m) \/ GiveUp(m) \/ AwaitTimeout(m) \/ Maintained(m)
  <2>1. PICK where \in {"read_registry", "open_startup", "unlink_startup", "done", "release_startup", "release_lock"} :
          Goto(m, where)
    BY <1>1 DEF Begin, JudgeStartupLock, GiveUp, AwaitTimeout, Maintained
  <2>2. UNCHANGED <<scenario, files, goal, found, daemons, bounds>>
    BY <1>1 DEF Begin, JudgeStartupLock, GiveUp, AwaitTimeout, Maintained
  <2>3. where \in Steps
    BY DEF Steps
  <2>4. FoundInv' /\ ReusedInv'
    BY <2>1, <2>2, <2>3, ManagerMoves
  <2>5. TypeOK'
    BY <2>1, <2>2, <2>3, GotoType DEF TypeOK
  <2> QED
    BY <2>4, <2>5
<1>2. CASE OpenStartupLock(m) \/ UnlinkStartupLock(m) \/ ReleaseStartupLock(m)
  <2>1. PICK where \in {"read_registry", "judge_startup", "open_startup", "done"} : Goto(m, where)
    BY <1>2 DEF OpenStartupLock, UnlinkStartupLock, ReleaseStartupLock
  <2>2. /\ startupLock' \in {startupLock, None, [owner |-> m, aged |-> FALSE]}
        /\ UNCHANGED <<scenario, daemonLock, registry, goal, found, daemons, bounds>>
    BY <1>2 DEF OpenStartupLock, UnlinkStartupLock, ReleaseStartupLock
  <2>3. where \in Steps
    BY DEF Steps
  <2>4. FoundInv' /\ ReusedInv'
    BY <2>1, <2>2, <2>3, ManagerMoves
  <2>5. startupLock' \in StartupLocks \cup {None}
    BY <2>2, StartupLockType DEF TypeOK
  <2>6. TypeOK'
    BY <2>1, <2>2, <2>3, <2>5, GotoType DEF TypeOK
  <2> QED
    BY <2>4, <2>6
<1>3. CASE ReadRegistry(m)
  <2>1. PICK where \in {"read_lock", "verify"} : Goto(m, where) /\ (where = "verify" => registry # None)
    BY <1>3 DEF ReadRegistry
  <2>2. /\ found' = [found EXCEPT ![m] = registry]
        /\ UNCHANGED <<scenario, files, goal, daemons, bounds>>
    BY <1>3 DEF ReadRegistry
  <2>3. where \in Steps
    BY DEF Steps
  <2>4. FoundInv' /\ ReusedInv'
    BY <2>1, <2>2, <2>3, ManagerMoves DEF TypeOK
  <2>5. TypeOK'
    BY <2>1, <2>2, <2>3, GotoType DEF TypeOK
  <2> QED
    BY <2>4, <2>5
<1>4. CASE ReadLock(m)
  <2>1. UNCHANGED <<scenario, files, daemons, bounds>>
    BY <1>4 DEF ReadLock
  <2>2. CASE daemonLock = None
    <3>1. FoundStopped(m) /\ UNCHANGED found
      BY <1>4, <2>2 DEF ReadLock
    <3>2. PICK where \in Steps \ {"verify", "adopt", "signal", "wait_stopped"} : Goto(m, where)
      BY <3>1, StoppedMoves
    <3>3. FoundInv' /\ ReusedInv'
      BY <2>1, <3>1, <3>2, ManagerMoves
    <3>4. TypeOK'
      BY <2>1, <3>1, <3>2, StoppedMoves, GotoType DEF TypeOK
    <3> QED
      BY <3>3, <3>4
  <2>3. CASE daemonLock # None /\ daemonLock.identity = None
    <3>1. FoundStale(m, FALSE) /\ UNCHANGED found
      BY <1>4, <2>3 DEF ReadLock
    <3>2. PICK where \in Steps \ {"verify", "adopt", "signal", "wait_stopped"} : Goto(m, where)
      BY <3>1, StaleMoves
    <3>3. FoundInv' /\ ReusedInv'
      BY <2>1, <3>1, <3>2, ManagerMoves
    <3>4. TypeOK'
      BY <2>1, <3>1, <3>2, StaleMoves, GotoType DEF TypeOK
    <3> QED
      BY <3>3, <3>4
  <2>4. CASE daemonLock # None /\ daemonLock.identity # None
    <3>1. /\ found' = [found EXCEPT ![m] = daemonLock.identity] /\ Goto(m, "verify") /\ UNCHANGED goal
          /\ daemonLock.identity \in Daemons /\ "verify" \in Steps
      BY <1>4, <2>4 DEF ReadLock, TypeOK, DaemonLocks, Steps
    <3>2. FoundInv' /\ ReusedInv'
      BY <2>1, <3>1, ManagerMoves DEF TypeOK
    <3>3. TypeOK'
      BY <2>1, <3>1, GotoType DEF TypeOK
    <3> QED
      BY <3>2, <3>3
  <2> QED
    BY <2>2, <2>3, <2>4
<1>5. CASE VerifyExited(m) \/ VerifyUnhealthy(m)
  <2>1. UNCHANGED <<scenario, files, found, daemons, bounds>>
    BY <1>5 DEF VerifyExited, VerifyUnhealthy
  <2>2. /\ \E where \in Steps \ {"verify", "adopt", "signal", "wait_stopped"} : Goto(m, where)
        /\ goal' \in [Managers -> {"start", "await", "stop", "maintain"}]
    <3>1. CASE VerifyExited(m)
      BY <3>1, StaleMoves DEF VerifyExited
    <3>2. CASE VerifyUnhealthy(m) /\ goal[m] \in {"stop", "await"}
      BY <3>2, StoppedMoves DEF VerifyUnhealthy
    <3>3. CASE VerifyUnhealthy(m) /\ goal[m] \notin {"stop", "await"}
      BY <3>3 DEF VerifyUnhealthy, TypeOK, Steps
    <3> QED
      BY <1>5, <3>1, <3>2, <3>3
  <2>3. FoundInv' /\ ReusedInv'
    BY <2>1, <2>2, ManagerMoves
  <2>4. TypeOK'
    BY <2>1, <2>2, GotoType DEF TypeOK
  <2> QED
    BY <2>3, <2>4
<1>6. CASE VerifyRunning(m)
  BY <1>6, VerifiedMoves
<1>7. CASE Signal(m) \/ WaitStopped(m)
  <2>1. PICK where \in Steps : /\ Goto(m, where)
                               /\ where \in {"wait_stopped", "done", "release_startup", "remove_registry"}
    BY <1>7 DEF Signal, WaitStopped, Leave, Steps
  <2>2. found[m] \in Daemons
    BY <1>7 DEF Signal, WaitStopped, FoundInv, At
  <2>3. /\ signalled' = signalled \/ signalled' = signalled \cup {found[m]}
        /\ UNCHANGED <<scenario, files, goal, found, daemon, reused, upgraded, bounds>>
    BY <1>7 DEF Signal, WaitStopped
  <2>4. FoundInv' /\ ReusedInv'
    BY <2>1, <2>2, <2>3, ManagerMoves
  <2>5. TypeOK'
    BY <2>1, <2>2, <2>3, GotoType DEF TypeOK
  <2> QED
    BY <2>4, <2>5
<1>8. CASE Adopt(m) \/ RemoveRegistry(m) \/ CleanRegistry(m) \/ JudgeLock(m) \/ UnlinkLock(m)
             \/ TakeLock(m) \/ ReleaseLock(m)
  <2>1. PICK where \in {"release_startup", "remove_lock", "judge_lock", "unlink_lock", "take_lock", "spawn",
                        "maintaining"} : Goto(m, where)
    BY <1>8 DEF Adopt, RemoveRegistry, CleanRegistry, JudgeLock, UnlinkLock, TakeLock, ReleaseLock, AfterCleanup
  <2>2. /\ registry' \in {registry, None, found[m]}
        /\ daemonLock' \in {daemonLock, None, NewLock(m)}
        /\ UNCHANGED <<scenario, startupLock, goal, found, daemons, bounds>>
    BY <1>8 DEF Adopt, RemoveRegistry, CleanRegistry, JudgeLock, UnlinkLock, TakeLock, ReleaseLock
  <2>3. where \in Steps
    BY DEF Steps
  <2>4. FoundInv' /\ ReusedInv'
    BY <2>1, <2>2, <2>3, ManagerMoves
  <2>5. registry' \in Daemons \cup {None} /\ daemonLock' \in DaemonLocks \cup {None}
    BY <2>2, DaemonLockType DEF TypeOK
  <2>6. TypeOK'
    BY <2>1, <2>2, <2>3, <2>5, GotoType DEF TypeOK
  <2> QED
    BY <2>4, <2>6
<1>9. CASE RemoveLock(m)
  <2>1. daemonLock' = None /\ UNCHANGED <<scenario, startupLock, registry, found, daemons, bounds>>
    BY <1>9 DEF RemoveLock
  <2>2. /\ \E where \in Steps \ {"verify", "adopt", "signal", "wait_stopped"} : Goto(m, where)
        /\ goal' \in [Managers -> {"start", "await", "stop", "maintain"}]
    <3>1. CASE goal[m] = "stop"
      BY <1>9, <3>1, StoppedMoves DEF RemoveLock
    <3>2. CASE goal[m] # "stop"
      BY <1>9, <3>2 DEF RemoveLock, TypeOK, Steps
    <3> QED
      BY <3>1, <3>2
  <2>3. FoundInv' /\ ReusedInv'
    BY <2>1, <2>2, ManagerMoves
  <2>4. TypeOK'
    BY <2>1, <2>2, GotoType DEF TypeOK
  <2> QED
    BY <2>3, <2>4
<1>10. CASE SpawnDaemon(m)
  <2>1. CASE Goto(m, "release_startup") /\ UNCHANGED <<daemon, upgraded, goal>>
    <3>1. UNCHANGED <<scenario, files, found, signalled, reused, bounds>> /\ "release_startup" \in Steps
      BY <1>10 DEF SpawnDaemon, Steps
    <3>2. FoundInv' /\ ReusedInv'
      BY <2>1, <3>1, ManagerMoves
    <3> QED
      BY <2>1, <3>1, <3>2, GotoType DEF TypeOK
  <2>2. ASSUME NEW d \in Daemons, daemon[d] = "none", daemon' = [daemon EXCEPT ![d] = "spawned"],
               upgraded' = IF IsUpgrader(m) THEN upgraded \cup {d} ELSE upgraded,
               goal' = [goal EXCEPT ![m] = "await"], Goto(m, "read_registry")
        PROVE  LifecycleInv'
    <3>1. UNCHANGED <<scenario, files, found, signalled, reused, bounds>> /\ "read_registry" \in Steps
      BY <1>10 DEF SpawnDaemon, Steps
    <3>2. FoundInv'
      BY <2>2, <3>1 DEF FoundInv, At, Goto, TypeOK
    <3>3. ReusedInv'
      BY <2>2, <3>1 DEF ReusedInv, TypeOK
    <3>4. daemon' \in [Daemons -> DaemonStates]
      BY <2>2 DEF TypeOK, DaemonStates
    <3> QED
      BY <2>2, <3>1, <3>2, <3>3, <3>4, GotoType DEF TypeOK
  <2> QED
    BY <1>10, <2>1, <2>2 DEF SpawnDaemon
<1>11. CASE KillManager(m)
  <2>1. Goto(m, "killed") /\ "killed" \in Steps /\ crashes' = crashes + 1
        /\ UNCHANGED <<scenario, files, goal, found, daemons, overruns>>
    BY <1>11 DEF KillManager, Steps
  <2>2. FoundInv' /\ ReusedInv'
    BY <2>1, ManagerMoves
  <2> QED
    BY <2>1, <2>2, GotoType DEF TypeOK
<1> QED
  BY <1>1, <1>2, <1>3, <1>4, <1>5, <1>6, <1>7, <1>8, <1>9, <1>10, <1>11 DEF ManagerStep

\* A step of a Daemon, or of the world, never brings a dead one back.
LEMMA DaemonKeeps ==
  ASSUME LifecycleInv, NEW d \in Daemons, DaemonStep(d) \/ KillDaemon(d)
  PROVE  LifecycleInv'
<1> USE DEF LifecycleInv, files, managers, bounds
<1>1. daemon[d] # "dead" /\ \E state \in DaemonStates : Becomes(d, state)
  BY DEF DaemonStep, ServeByHand, AcquireDaemonLock, Bind, Register, RecordIdentity, Interrupted,
         Unregister, UnlinkRegistry, CloseServer, ReleaseDaemonLock, KillDaemon, Is, Alive, DaemonStates
<1>2. /\ registry' \in {registry, None, d}
      /\ \/ daemonLock' \in {daemonLock, None, NewLock(d)}
         \/ daemonLock # None /\ daemonLock' = [daemonLock EXCEPT !.identity = d]
      /\ crashes' \in {crashes, crashes + 1}
      /\ UNCHANGED <<scenario, startupLock, managers, signalled, reused, upgraded, overruns>>
  BY DEF DaemonStep, ServeByHand, AcquireDaemonLock, Bind, Register, RecordIdentity, Interrupted,
         Unregister, UnlinkRegistry, CloseServer, ReleaseDaemonLock, KillDaemon
<1>3. daemon' \in [Daemons -> DaemonStates] /\ ReusedInv' /\ FoundInv'
  BY <1>1, <1>2 DEF TypeOK, Becomes, ReusedInv, FoundInv, At
<1>4. daemonLock' \in DaemonLocks \cup {None}
  BY <1>2, DaemonLockType DEF TypeOK
<1>5. registry' \in Daemons \cup {None} /\ crashes' \in Nat
  BY <1>2 DEF TypeOK
<1> QED
  BY <1>2, <1>3, <1>4, <1>5 DEF TypeOK

LEMMA WorldKeeps ==
  ASSUME LifecycleInv, (\E d \in Daemons : PidReused(d)) \/ StartupLockAges \/ DaemonLockAges
  PROVE  LifecycleInv'
<1> USE DEF LifecycleInv, files, managers, daemons, bounds
<1>1. ASSUME NEW d \in Daemons, PidReused(d)  PROVE LifecycleInv'
  BY <1>1 DEF PidReused, TypeOK, FoundInv, ReusedInv, At
<1>2. CASE StartupLockAges
  <2>1. startupLock' \in StartupLocks \cup {None} /\ overruns' \in Nat
    BY <1>2, StartupLockType DEF StartupLockAges, Ages, TypeOK
  <2> QED
    BY <1>2, <2>1 DEF StartupLockAges, TypeOK, FoundInv, ReusedInv, At
<1>3. CASE DaemonLockAges
  <2>1. daemonLock' \in DaemonLocks \cup {None} /\ overruns' \in Nat
    BY <1>3, DaemonLockType DEF DaemonLockAges, Ages, TypeOK
  <2> QED
    BY <1>3, <2>1 DEF DaemonLockAges, TypeOK, FoundInv, ReusedInv, At
<1> QED
  BY <1>1, <1>2, <1>3

LEMMA LifecycleInvariant == Spec => []LifecycleInv
<1>1. Init => LifecycleInv
  <2> SUFFICES ASSUME Init  PROVE LifecycleInv
    OBVIOUS
  <2>1. goal \in [Managers -> {"start", "await", "stop", "maintain"}]
    <3>1. \A m \in Managers : scenario.command[m] \in Commands
      BY LifecycleAssumption DEF Init, AllScenarios
    <3> QED
      BY <3>1 DEF Init, FirstGoal, Command, Commands
  <2>2. daemon \in [Daemons -> DaemonStates] /\ registry \in Daemons \cup {None}
    BY DEF Init, DaemonStates
  <2>3. daemonLock \in DaemonLocks \cup {None}
    BY DaemonLockType DEF Init
  <2>4. step \in [Managers -> Steps]
    BY DEF Init, Steps
  <2> QED
    BY <2>1, <2>2, <2>3, <2>4 DEF Init, LifecycleInv, TypeOK, FoundInv, ReusedInv, At
<1>2. LifecycleInv /\ [Next]_vars => LifecycleInv'
  <2> SUFFICES ASSUME LifecycleInv, [Next]_vars  PROVE LifecycleInv'
    OBVIOUS
  <2>1. CASE UNCHANGED vars
    BY <2>1 DEF vars, files, managers, daemons, bounds, LifecycleInv, TypeOK, FoundInv, ReusedInv, At
  <2>2. CASE Next
    BY <2>2, ManagerKeeps, DaemonKeeps, WorldKeeps DEF Next
  <2> QED
    BY <2>1, <2>2
<1> QED
  BY <1>1, <1>2, PTL DEF Spec

\* Every variable keeps its type.
THEOREM TypeCorrect == Spec => []TypeOK
BY LifecycleInvariant, PTL DEF LifecycleInv

\* SIGTERM goes to the verified Daemon and never to a process that has its PID
\* since, whatever the commands and the kills.
THEOREM SignalsCorrect == Spec => SignalsVerified
<1>1. LifecycleInv /\ [Next]_vars => \A d \in Daemons : d \in signalled' \ signalled => Alive(d)
  <2> SUFFICES ASSUME LifecycleInv, [Next]_vars, NEW d \in Daemons, d \in signalled' \ signalled
               PROVE  Alive(d)
    OBVIOUS
  <2> USE DEF files, managers, daemons, bounds
  <2>1. ASSUME NEW m \in Managers, Signal(m)  PROVE Alive(d)
    BY <2>1 DEF Signal, LifecycleInv, FoundInv, PidExists
  <2>2. ASSUME NEW m \in Managers, ManagerStep(m), ~Signal(m)  PROVE UNCHANGED signalled
    BY <2>2 DEF ManagerStep, Begin, OpenStartupLock, JudgeStartupLock, UnlinkStartupLock, GiveUp,
       ReadRegistry, ReadLock, VerifyExited, VerifyRunning, VerifyUnhealthy, AwaitTimeout, Adopt,
       WaitStopped, RemoveRegistry, RemoveLock, CleanRegistry, JudgeLock, UnlinkLock, SpawnDaemon,
       TakeLock, Maintained, ReleaseLock, ReleaseStartupLock
  <2>3. ASSUME NEW e \in Daemons, DaemonStep(e) \/ KillDaemon(e) \/ PidReused(e)  PROVE UNCHANGED signalled
    BY <2>3 DEF DaemonStep, ServeByHand, AcquireDaemonLock, Bind, Register, RecordIdentity, Interrupted,
       Unregister, UnlinkRegistry, CloseServer, ReleaseDaemonLock, KillDaemon, PidReused
  <2>4. ASSUME \/ \E m \in Managers : KillManager(m)
               \/ StartupLockAges \/ DaemonLockAges \/ UNCHANGED vars
        PROVE  UNCHANGED signalled
    BY <2>4 DEF KillManager, StartupLockAges, DaemonLockAges, vars
  <2> QED
    BY <2>1, <2>2, <2>3, <2>4 DEF Next
<1> QED
  BY <1>1, LifecycleInvariant, PTL DEF Spec, SignalsVerified

-----------------------------------------------------------------------------
(* The locks and the processes that took them.                             *)

\* What a manager's step leaves alone of the other managers.
OthersStay(m) == \A n \in Managers : n # m => step'[n] = step[n] /\ goal'[n] = goal[n]

\* A stop comes to no startup lock.
StopOpensNone(m) == goal[m] = "stop" => step[m] \notin {"open_startup", "judge_startup", "unlink_startup"}

\* A step of m that keeps the startup lock it holds.
Keeps(m) ==
  /\ OthersStay(m)
  /\ step'[m] # "killed" /\ step[m] # "killed"
  /\ Holding(m) => Holding(m)'
  /\ StopOpensNone(m)'

\* What a command makes of "stopped" and "stale" keeps the startup lock of those
\* that hold it.
LEMMA StoppedHolds ==
  ASSUME TypeOK, NEW m \in Managers, FoundStopped(m), step[m] # "killed"
  PROVE  Keeps(m)
<1> USE DEF Keeps, StopOpensNone, OthersStay, Holding, FoundStopped, Goto, TypeOK
<1>1. goal[m] \in {"start", "await", "stop", "maintain"}
  OBVIOUS
<1>2. CASE goal[m] = "start"
  BY <1>2
<1>3. CASE goal[m] = "maintain"
  BY <1>3
<1>4. CASE goal[m] = "await"
  BY <1>4
<1>5. CASE goal[m] = "stop"
  BY <1>5
<1> QED
  BY <1>1, <1>2, <1>3, <1>4, <1>5

LEMMA StaleHolds ==
  ASSUME TypeOK, NEW m \in Managers, NEW readable \in BOOLEAN, FoundStale(m, readable), step[m] # "killed"
  PROVE  Keeps(m)
<1>1. CASE goal[m] = "maintain"
  BY <1>1 DEF FoundStale, Keeps, StopOpensNone, OthersStay, Holding, Goto, TypeOK
<1>2. CASE goal[m] # "maintain"
  BY <1>2, StoppedHolds DEF FoundStale
<1> QED
  BY <1>1, <1>2

\* The steps that leave both locks alone.
LEMMA IdleManagerKeeps ==
  ASSUME TypeOK, NEW m \in Managers, StopOpensNone(m),
         \/ Begin(m) \/ JudgeStartupLock(m) \/ GiveUp(m) \/ ReadRegistry(m) \/ ReadLock(m)
         \/ VerifyExited(m) \/ VerifyRunning(m) \/ VerifyUnhealthy(m) \/ AwaitTimeout(m) \/ Adopt(m)
         \/ Signal(m) \/ WaitStopped(m) \/ RemoveRegistry(m) \/ CleanRegistry(m) \/ JudgeLock(m)
         \/ SpawnDaemon(m)
  PROVE  /\ Keeps(m)
         /\ step[m] \notin {"maintaining", "release_lock"}
         /\ UNCHANGED <<startupLock, daemonLock, crashes>>
<1> USE DEF files, bounds, At
<1>1. CASE Begin(m) \/ JudgeStartupLock(m) \/ GiveUp(m) \/ AwaitTimeout(m) \/ Adopt(m) \/ ReadRegistry(m)
  BY <1>1 DEF Begin, JudgeStartupLock, GiveUp, AwaitTimeout, Adopt, ReadRegistry, Keeps, StopOpensNone, OthersStay, Holding,
              Goto, TypeOK
<1>2. CASE ReadLock(m)
  <2>1. UNCHANGED <<startupLock, daemonLock, crashes>> /\ step[m] = "read_lock"
    BY <1>2 DEF ReadLock
  <2>2. CASE FoundStopped(m)
    BY <2>1, <2>2, StoppedHolds
  <2>3. CASE FoundStale(m, FALSE)
    BY <2>1, <2>3, StaleHolds
  <2>4. CASE Goto(m, "verify") /\ UNCHANGED goal
    BY <2>1, <2>4 DEF Keeps, StopOpensNone, OthersStay, Holding, Goto, TypeOK
  <2> QED
    BY <1>2, <2>2, <2>3, <2>4, <2>1 DEF ReadLock
<1>3. CASE VerifyExited(m) \/ VerifyUnhealthy(m)
  <2>1. UNCHANGED <<startupLock, daemonLock, crashes>> /\ step[m] = "verify"
    BY <1>3 DEF VerifyExited, VerifyUnhealthy
  <2>2. CASE FoundStopped(m)
    BY <2>1, <2>2, StoppedHolds
  <2>3. CASE FoundStale(m, TRUE)
    BY <2>1, <2>3, StaleHolds
  <2>4. CASE Goto(m, "release_startup") /\ UNCHANGED goal
    BY <2>1, <2>4 DEF Keeps, StopOpensNone, OthersStay, Holding, Goto, TypeOK
  <2> QED
    BY <1>3, <2>1, <2>2, <2>3, <2>4 DEF VerifyExited, VerifyUnhealthy
<1>4. CASE VerifyRunning(m)
  <2>1. \E where \in {"adopt", "signal", "release_startup", "read_registry"} : Goto(m, where)
    <3>1. goal[m] \in {"start", "await", "stop", "maintain"}
      BY DEF TypeOK
    <3>2. CASE goal[m] = "start"
      BY <1>4, <3>2 DEF VerifyRunning
    <3>3. CASE goal[m] = "await"
      BY <1>4, <3>3 DEF VerifyRunning
    <3>4. CASE goal[m] \in {"maintain", "stop"}
      BY <1>4, <3>4 DEF VerifyRunning
    <3> QED
      BY <3>1, <3>2, <3>3, <3>4
  <2>2. UNCHANGED <<startupLock, daemonLock, crashes, goal>> /\ step[m] = "verify"
    BY <1>4 DEF VerifyRunning
  <2> QED
    BY <2>1, <2>2 DEF Keeps, StopOpensNone, OthersStay, Holding, Goto, TypeOK
<1>5. CASE Signal(m) \/ WaitStopped(m)
  <2>1. UNCHANGED <<startupLock, daemonLock, crashes, goal>> /\ step[m] \in {"signal", "wait_stopped"}
    BY <1>5 DEF Signal, WaitStopped
  <2>2. CASE Goto(m, "wait_stopped") \/ Goto(m, "remove_registry")
    BY <2>1, <2>2 DEF Keeps, StopOpensNone, OthersStay, Holding, Goto, TypeOK
  <2>3. CASE Leave(m)
    BY <2>1, <2>3 DEF Leave, Keeps, StopOpensNone, OthersStay, Holding, Goto, TypeOK
  <2> QED
    BY <1>5, <2>2, <2>3 DEF Signal, WaitStopped
<1>6. CASE RemoveRegistry(m) \/ CleanRegistry(m) \/ JudgeLock(m)
  BY <1>6 DEF RemoveRegistry, CleanRegistry, JudgeLock, AfterCleanup, Keeps, StopOpensNone, OthersStay, Holding, Goto, TypeOK
<1>7. CASE SpawnDaemon(m)
  BY <1>7 DEF SpawnDaemon, Keeps, StopOpensNone, OthersStay, Holding, Goto, TypeOK
<1> QED
  BY <1>1, <1>2, <1>3, <1>4, <1>5, <1>6, <1>7

\* The steps that take a lock, unlink one or give one back.
LEMMA LockingManagerKeeps ==
  ASSUME TypeOK, NEW m \in Managers, StopOpensNone(m),
         \/ OpenStartupLock(m) \/ UnlinkStartupLock(m) \/ RemoveLock(m) \/ UnlinkLock(m)
         \/ TakeLock(m) \/ Maintained(m) \/ ReleaseLock(m) \/ ReleaseStartupLock(m)
  PROVE  /\ OthersStay(m) /\ StopOpensNone(m)'
         /\ step'[m] # "killed" /\ step[m] # "killed"
         /\ \/ startupLock' = None
            \/ UNCHANGED startupLock /\ (Holding(m) => Holding(m)')
            \/ startupLock' = [owner |-> m, aged |-> FALSE] /\ Holding(m)'
         /\ \/ daemonLock' = None
            \/ UNCHANGED daemonLock /\ step[m] # "release_lock" /\ (At(m, "maintaining") => step'[m] = "release_lock")
            \/ daemonLock' = NewLock(m) /\ step'[m] = "maintaining"
         /\ UNCHANGED <<daemon, crashes>>
<1> USE DEF files, bounds, daemons, At
<1>1. CASE RemoveLock(m)
  <2>1. daemonLock' = None /\ UNCHANGED <<startupLock, daemon, crashes>> /\ step[m] = "remove_lock"
    BY <1>1 DEF RemoveLock
  <2>2. Keeps(m)
    <3>1. CASE goal[m] = "stop"
      BY <1>1, <2>1, <3>1, StoppedHolds DEF RemoveLock
    <3>2. CASE goal[m] # "stop"
      BY <1>1, <2>1, <3>2 DEF RemoveLock, Keeps, StopOpensNone, OthersStay, Holding, Goto, TypeOK
    <3> QED
      BY <3>1, <3>2
  <2> QED
    BY <2>1, <2>2 DEF Keeps
<1>2. CASE ReleaseStartupLock(m) \/ UnlinkStartupLock(m) \/ OpenStartupLock(m)
  BY <1>2 DEF ReleaseStartupLock, UnlinkStartupLock, OpenStartupLock, StopOpensNone, OthersStay, Holding, Goto, TypeOK
<1>3. CASE UnlinkLock(m) \/ TakeLock(m) \/ Maintained(m) \/ ReleaseLock(m)
  BY <1>3 DEF UnlinkLock, AfterCleanup, TakeLock, Maintained, ReleaseLock, StopOpensNone, OthersStay, Holding, Goto, TypeOK
<1> QED
  BY <1>1, <1>2, <1>3

LEMMA ManagerLocks ==
  ASSUME TypeOK, LocksInv, NEW m \in Managers, ManagerStep(m) \/ KillManager(m)
  PROVE  /\ LocksInv'
         /\ \A n \in Managers : Running(n) /\ step'[n] = "killed" => crashes' # crashes
<1> USE DEF OthersStay
<1>1. StopOpensNone(m) /\ m \notin Daemons
  BY LifecycleAssumption DEF LocksInv, StopOpensNone
<1>2. /\ OthersStay(m) /\ StopOpensNone(m)'
      /\ Running(m) /\ step'[m] = "killed" => crashes' # crashes
      /\ \/ startupLock' = None
         \/ UNCHANGED startupLock /\ (Holding(m) => Holding(m)' \/ step'[m] = "killed")
                                  /\ (At(m, "killed") => step'[m] = "killed")
         \/ startupLock' = [owner |-> m, aged |-> FALSE] /\ Holding(m)'
      /\ \/ daemonLock' = None
         \/ /\ UNCHANGED daemonLock
            /\ step[m] \in {"maintaining", "release_lock"} => step'[m] \in {"release_lock", "killed"}
            /\ At(m, "killed") => step'[m] = "killed"
         \/ daemonLock' = NewLock(m) /\ step'[m] = "maintaining"
  <2>1. CASE KillManager(m)
    BY <1>1, <2>1 DEF KillManager, Running, StopOpensNone, Goto, At, TypeOK, files
  <2>2. CASE \/ Begin(m) \/ JudgeStartupLock(m) \/ GiveUp(m) \/ ReadRegistry(m) \/ ReadLock(m)
             \/ VerifyExited(m) \/ VerifyRunning(m) \/ VerifyUnhealthy(m) \/ AwaitTimeout(m) \/ Adopt(m)
             \/ Signal(m) \/ WaitStopped(m) \/ RemoveRegistry(m) \/ CleanRegistry(m) \/ JudgeLock(m)
             \/ SpawnDaemon(m)
    BY <1>1, <2>2, IdleManagerKeeps DEF Keeps, At
  <2>3. CASE \/ OpenStartupLock(m) \/ UnlinkStartupLock(m) \/ RemoveLock(m) \/ UnlinkLock(m)
             \/ TakeLock(m) \/ Maintained(m) \/ ReleaseLock(m) \/ ReleaseStartupLock(m)
    BY <1>1, <2>3, LockingManagerKeeps DEF At
  <2> QED
    BY <2>1, <2>2, <2>3 DEF ManagerStep
<1>3. \A n \in Managers : n # m => (Holding(n) => Holding(n)')
  BY <1>2 DEF Holding
<1>4. \A n \in Managers : Running(n) /\ step'[n] = "killed" => crashes' # crashes
  BY <1>2, LifecycleAssumption DEF Running
<1>5. \A n \in Managers : StopOpensNone(n)'
  BY <1>2 DEF LocksInv, StopOpensNone
<1>6. startupLock' # None => (Holding(startupLock.owner) \/ At(startupLock.owner, "killed"))'
  <2>1. startupLock # None => startupLock.owner \in Managers
    BY DEF TypeOK, StartupLocks
  <2> QED
    BY <1>2, <1>3, <2>1 DEF LocksInv, At
<1>7. \A n \in Managers : (daemonLock # None /\ daemonLock.owner = n)' =>
                             step'[n] \in {"maintaining", "release_lock", "killed"}
  BY <1>2 DEF LocksInv, NewLock, At
<1>8. \A d \in Daemons : (daemonLock # None /\ daemonLock.owner = d)' => daemon'[d] \notin {"none", "spawned"}
  <2>1. SUFFICES ASSUME NEW d \in Daemons, (daemonLock # None /\ daemonLock.owner = d)'
                 PROVE  daemon'[d] \notin {"none", "spawned"}
    OBVIOUS
  <2>2. UNCHANGED daemonLock
    BY <1>1, <1>2, <2>1 DEF NewLock
  <2>3. daemon[d] \notin {"none", "spawned"}
    BY <2>1, <2>2 DEF LocksInv
  <2>4. CASE SpawnDaemon(m)
    BY <2>3, <2>4 DEF SpawnDaemon, TypeOK
  <2>5. CASE ~SpawnDaemon(m)
    <3>1. UNCHANGED daemon
      BY <2>5 DEF ManagerStep, Begin, OpenStartupLock, JudgeStartupLock, UnlinkStartupLock, GiveUp,
         ReadRegistry, ReadLock, VerifyExited, VerifyRunning, VerifyUnhealthy, AwaitTimeout, Adopt,
         Signal, WaitStopped, RemoveRegistry, RemoveLock, CleanRegistry, JudgeLock, UnlinkLock,
         TakeLock, Maintained, ReleaseLock, ReleaseStartupLock, KillManager, daemons
    <3> QED
      BY <2>3, <3>1
  <2> QED
    BY <2>4, <2>5
<1> QED
  BY <1>4, <1>5, <1>6, <1>7, <1>8 DEF LocksInv, StopOpensNone

\* A Daemon that ends has given its lock back, has found another's, or is killed.
LEMMA DaemonLocksKept ==
  ASSUME TypeOK, LocksInv, NEW d \in Daemons, DaemonStep(d) \/ KillDaemon(d)
  PROVE  /\ LocksInv'
         /\ \A e \in Daemons : Alive(e) /\ daemon'[e] = "dead" /\ (daemonLock # None /\ daemonLock.owner = e)'
              => crashes' # crashes
<1> USE DEF managers, files, bounds
<1>1. d \notin Managers
  BY LifecycleAssumption
<1>2. /\ UNCHANGED <<startupLock, managers>>
      /\ \A e \in Daemons : e # d => daemon'[e] = daemon[e]
  BY DEF DaemonStep, ServeByHand, AcquireDaemonLock, Bind, Register, RecordIdentity, Interrupted,
         Unregister, UnlinkRegistry, CloseServer, ReleaseDaemonLock, KillDaemon, Becomes, TypeOK
<1>3. /\ \/ daemonLock' = None
         \/ daemonLock' = NewLock(d)
         \/ daemonLock # None /\ daemonLock' # None /\ daemonLock'.owner = daemonLock.owner
      /\ (daemonLock # None /\ daemonLock.owner = d)' =>
           /\ daemon'[d] \notin {"none", "spawned"}
           /\ Alive(d) /\ daemon'[d] = "dead" => crashes' # crashes
  <2> USE DEF Is, Becomes, Alive
  <2>1. CASE AcquireDaemonLock(d)
    BY <2>1, NoLockAssumption, DaemonLockType DEF AcquireDaemonLock, LocksInv, TypeOK, NewLock
  <2>2. CASE RecordIdentity(d)
    <3>1. daemonLock # None => [daemonLock EXCEPT !.identity = d] \in DaemonLocks
                               /\ [daemonLock EXCEPT !.identity = d].owner = daemonLock.owner
      BY DaemonLockType DEF TypeOK, DaemonLocks
    <3>2. daemon'[d] = "serving"
      BY <2>2 DEF RecordIdentity, TypeOK
    <3> QED
      BY <2>2, <3>1, <3>2, NoLockAssumption DEF RecordIdentity, TypeOK
  <2>3. CASE ReleaseDaemonLock(d)
    BY <2>3 DEF ReleaseDaemonLock
  <2>4. CASE KillDaemon(d)
    BY <2>4 DEF KillDaemon, LocksInv, TypeOK
  <2>5. CASE ServeByHand(d)
    BY <2>5 DEF ServeByHand, LocksInv, TypeOK
  <2>6. CASE Bind(d) \/ Register(d) \/ Interrupted(d) \/ Unregister(d) \/ UnlinkRegistry(d) \/ CloseServer(d)
    BY <2>6 DEF Bind, Register, Interrupted, Unregister, UnlinkRegistry, CloseServer, TypeOK
  <2> QED
    BY <2>1, <2>2, <2>3, <2>4, <2>5, <2>6 DEF DaemonStep
<1>4. LocksInv'
  BY <1>1, <1>2, <1>3 DEF LocksInv, Holding, At, NewLock
<1> QED
  BY <1>1, <1>2, <1>3, <1>4 DEF NewLock, Alive

LEMMA WorldLocksKept ==
  ASSUME TypeOK, LocksInv, (\E d \in Daemons : PidReused(d)) \/ StartupLockAges \/ DaemonLockAges
  PROVE  LocksInv' /\ UNCHANGED <<step, daemon>>
<1> USE DEF files, managers, daemons, bounds
<1>1. CASE \E d \in Daemons : PidReused(d)
  BY <1>1 DEF PidReused, LocksInv, Holding, At
<1>2. CASE StartupLockAges
  <2>1. startupLock # None /\ startupLock' = [startupLock EXCEPT !.aged = TRUE]
        /\ UNCHANGED <<daemonLock, managers, daemon>>
    BY <1>2 DEF StartupLockAges, Ages
  <2>2. startupLock'.owner = startupLock.owner
    BY <2>1 DEF TypeOK, StartupLocks
  <2> QED
    BY <2>1, <2>2 DEF LocksInv, Holding, At
<1>3. CASE DaemonLockAges
  <2>1. daemonLock # None /\ daemonLock' = [daemonLock EXCEPT !.aged = TRUE]
        /\ UNCHANGED <<startupLock, managers, daemon>>
    BY <1>3 DEF DaemonLockAges, Ages
  <2>2. daemonLock'.owner = daemonLock.owner
    BY <2>1 DEF TypeOK, DaemonLocks
  <2> QED
    BY <2>1, <2>2 DEF LocksInv, Holding, At
<1> QED
  BY <1>1, <1>2, <1>3

LEMMA LocksInvariant == Spec => []LocksInv
<1>1. Init => LocksInv
  BY LifecycleAssumption DEF Init, LocksInv
<1>2. TypeOK /\ LocksInv /\ [Next]_vars => LocksInv'
  <2> SUFFICES ASSUME TypeOK, LocksInv, [Next]_vars  PROVE LocksInv'
    OBVIOUS
  <2>1. CASE UNCHANGED vars
    BY <2>1 DEF vars, files, managers, daemons, LocksInv, Holding, At
  <2>2. CASE Next
    BY <2>2, ManagerLocks, DaemonLocksKept, WorldLocksKept DEF Next
  <2> QED
    BY <2>1, <2>2
<1> QED
  BY <1>1, <1>2, TypeCorrect, PTL DEF Spec

\* Whatever the commands, their number, the steps that fail and the locks that
\* outlive the stale limit, the locks that are left are those of killed processes.
THEOREM LocksReturnedCorrect == Spec => LocksReturned
<1>1. ASSUME TypeOK, TypeOK', LocksInv, LocksInv', [Next]_vars, NEW p \in Managers \cup Daemons,
             Running(p), ~Running(p)', UNCHANGED crashes, LeavesLock(p)'
      PROVE  FALSE
  <2>1. CASE p \in Managers
    <3>1. p \notin Daemons
      BY <2>1, LifecycleAssumption
    <3>2. step'[p] = "killed"
      BY <1>1, <2>1, <3>1 DEF Running, LeavesLock, LocksInv, Holding, At
    <3>3. step[p] # "killed"
      BY <1>1, <3>1 DEF Running
    <3>4. CASE UNCHANGED vars
      BY <3>2, <3>3, <3>4 DEF vars, managers
    <3>5. ASSUME NEW m \in Managers, ManagerStep(m) \/ KillManager(m)  PROVE FALSE
      BY <1>1, <2>1, <3>2, <3>5, ManagerLocks
    <3>6. ASSUME NEW d \in Daemons, DaemonStep(d) \/ KillDaemon(d)  PROVE FALSE
      <4>1. UNCHANGED managers
        BY <3>6 DEF DaemonStep, ServeByHand, AcquireDaemonLock, Bind, Register, RecordIdentity, Interrupted,
           Unregister, UnlinkRegistry, CloseServer, ReleaseDaemonLock, KillDaemon
      <4> QED
        BY <3>2, <3>3, <4>1 DEF managers
    <3>7. CASE (\E d \in Daemons : PidReused(d)) \/ StartupLockAges \/ DaemonLockAges
      BY <1>1, <3>2, <3>3, <3>7, WorldLocksKept
    <3> QED
      BY <1>1, <3>4, <3>5, <3>6, <3>7 DEF Next
  <2>2. CASE p \in Daemons
    <3>1. Alive(p) /\ ~Alive(p)'
      BY <1>1, <2>2 DEF Running
    <3>2. startupLock' # None => startupLock'.owner \in Managers
      BY <1>1 DEF TypeOK, StartupLocks
    <3>3. (daemonLock # None /\ daemonLock.owner = p)' /\ daemon'[p] = "dead"
      BY <1>1, <2>2, <3>1, <3>2, LifecycleAssumption DEF LeavesLock, LocksInv, Alive
    <3>4. CASE UNCHANGED vars
      BY <3>1, <3>3, <3>4 DEF vars, daemons, Alive
    <3>5. ASSUME NEW d \in Daemons, DaemonStep(d) \/ KillDaemon(d)  PROVE FALSE
      BY <1>1, <2>2, <3>1, <3>3, <3>5, DaemonLocksKept
    <3>6. ASSUME NEW m \in Managers, ManagerStep(m) \/ KillManager(m)  PROVE FALSE
      <4>1. daemon'[p] = daemon[p] \/ daemon'[p] = "spawned"
        <5>1. CASE SpawnDaemon(m)
          BY <5>1, <2>2, <1>1 DEF SpawnDaemon, TypeOK
        <5>2. CASE ~SpawnDaemon(m)
          BY <3>6, <5>2 DEF ManagerStep, Begin, OpenStartupLock, JudgeStartupLock, UnlinkStartupLock, GiveUp,
             ReadRegistry, ReadLock, VerifyExited, VerifyRunning, VerifyUnhealthy, AwaitTimeout, Adopt,
             Signal, WaitStopped, RemoveRegistry, RemoveLock, CleanRegistry, JudgeLock, UnlinkLock,
             TakeLock, Maintained, ReleaseLock, ReleaseStartupLock, KillManager, daemons
        <5> QED
          BY <5>1, <5>2
      <4> QED
        BY <3>1, <3>3, <4>1 DEF Alive
    <3>7. CASE (\E d \in Daemons : PidReused(d)) \/ StartupLockAges \/ DaemonLockAges
      BY <1>1, <3>1, <3>3, <3>7, WorldLocksKept DEF Alive
    <3> QED
      BY <1>1, <3>4, <3>5, <3>6, <3>7 DEF Next
  <2> QED
    BY <2>1, <2>2
<1>2. TypeOK /\ TypeOK' /\ LocksInv /\ LocksInv' /\ [Next]_vars =>
        \A p \in Managers \cup Daemons : Running(p) /\ ~Running(p)' /\ UNCHANGED crashes => ~LeavesLock(p)'
  BY <1>1
<1> QED
  BY <1>2, TypeCorrect, LocksInvariant, PTL DEF Spec, LocksReturned

=============================================================================
