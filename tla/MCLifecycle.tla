----------------------------- MODULE MCLifecycle -----------------------------
(***************************************************************************)
(* Small instances of the Daemon's lifecycle for TLC: the commands that    *)
(* run at the same time.                                                   *)
(***************************************************************************)
EXTENDS LifecycleProperties, TLC

CONSTANTS m1, m2, m3, d1, d2

Scenario(command, upgraders, foreground) ==
  [command |-> command, upgraders |-> upgraders, foreground |-> foreground]

\* Two commands, one of which may be of another version, or `daemon serve`
\* beside maintenance.  A stop or restart beside a start, and `daemon serve`
\* beside a start, race: the runs of the other scenarios and README.md.
Mixes == [{m1, m2} -> Commands]

Stops(command) == {m \in {m1, m2} : command[m] \in {"stop", "restart"}}

Starts(command) == {m \in {m1, m2} : command[m] \in {"start", "restart"}}

StopRaces(command) == \E m \in Stops(command), n \in Starts(command) : m # n

Orderly ==
  {Scenario(c, u, {}) : c \in {c \in Mixes : ~StopRaces(c)}, u \in {{}, {m1}}}
    \cup {Scenario(c, {}, {d2}) : c \in {c \in Mixes : Stops(c) = {} /\ Starts(c) = {}}}

\* A stop beside a start, and maintenance.
StopBesideStart ==
  {Scenario((m1 :> "stop") @@ (m2 :> "start") @@ (m3 :> "maintain"), {}, {})}

=============================================================================
