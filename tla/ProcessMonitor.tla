--------------------------- MODULE ProcessMonitor ---------------------------
(***************************************************************************)
(* The process that keeps one dev server alive inside a sandbox container: *)
(* ProcessMonitor (container/process-monitor.ts) as ProcessRunner and the  *)
(* `start` command of container/cli-tools.ts drive it.                     *)
(*                                                                         *)
(* One JavaScript thread runs start(), stop(), the restart timer, the      *)
(* health check and the listeners of the child.  A step of the model is    *)
(* what runs between two awaits.  The dev servers that are spawned, one    *)
(* after the other, are the numbers 1 .. MaxSpawns.                        *)
(***************************************************************************)
EXTENDS Integers, FiniteSets

CONSTANTS
  MaxSpawns,     \* bound: dev servers spawned in a behaviour
  MaxRestarts,   \* options.maxRestarts
  Checks         \* bound: health checks that may overlap

ASSUME MonitorAssumption ==
  MaxSpawns \in Nat \ {0} /\ MaxRestarts \in Nat /\ IsFiniteSet(Checks)

VARIABLES
  monState,      \* ProcessMonitor.state
  child,         \* this.childProcess: number of the last spawn, 0 before it
  procs,         \* dev server -> unborn, alive, killed (SIGKILL sent) or exited
  longRun,       \* dev server -> it ran longer than STABILITY_THRESHOLD_MS
  restartCount,
  restartTimer,  \* this.restartTimer is set
  starter,       \* none, callback (the timer callback logs) or starting (start() logs)
  healthTimer,   \* this.healthCheckTimer is set
  probes,        \* health check -> idle, probing, logging or killing
  portBound,     \* this.portBindConfirmed
  portFailures,  \* this.portFailureCount
  healthRestart, \* this.healthRestartInProgress
  runner,        \* the CLI: booting, active, stopping, cleaning, leaving, exited
  stopAt         \* await of the stop() in progress: none, logging, cancelling, killing

monVars == <<monState, child, procs, longRun, restartCount, restartTimer, starter,
             healthTimer, probes, portBound, portFailures, healthRestart, runner, stopAt>>

Spawns == 1 .. MaxSpawns
PortFailureThreshold == 2
Outcomes == {"clean", "inactive", "failed", "signal"}

MonTypeOK ==
  /\ monState \in {"stopped", "starting", "running", "stopping", "crashed"}
  /\ child \in 0 .. MaxSpawns
  /\ procs \in [Spawns -> {"unborn", "alive", "killed", "exited"}]
  /\ longRun \in [Spawns -> BOOLEAN]
  /\ restartCount \in 0 .. MaxRestarts
  /\ restartTimer \in BOOLEAN
  /\ starter \in {"none", "callback", "starting"}
  /\ healthTimer \in BOOLEAN
  /\ probes \in [Checks -> {"idle", "probing", "logging", "killing"}]
  /\ portBound \in BOOLEAN
  /\ portFailures \in 0 .. PortFailureThreshold
  /\ healthRestart \in BOOLEAN
  /\ runner \in {"booting", "active", "stopping", "cleaning", "leaving", "exited"}
  /\ stopAt \in {"none", "logging", "cancelling", "killing"}

MonInit ==
  /\ monState = "stopped" /\ child = 0
  /\ procs = [p \in Spawns |-> "unborn"] /\ longRun = [p \in Spawns |-> FALSE]
  /\ restartCount = 0 /\ restartTimer = FALSE /\ starter = "none"
  /\ healthTimer = FALSE /\ probes = [h \in Checks |-> "idle"]
  /\ portBound = FALSE /\ portFailures = 0 /\ healthRestart = FALSE
  /\ runner = "booting" /\ stopAt = "none"

healthVars == <<healthTimer, probes, portBound, portFailures, healthRestart>>

\* The listeners of a child that has not exited are still attached.
Lives(p) == procs[p] \in {"alive", "killed"}
ChildLives == child # 0 /\ Lives(child)

---------------------------------------------------------------------------
(* start() *)

EnterStart_FromStopped ==
  IF monState = "stopped"
  THEN monState' = "starting" /\ starter' = "starting"
  ELSE monState' = monState /\ starter' = "none"

\* Up to the first await of start(); refused in a state of transition.
EnterStart ==
  IF monState \in {"stopped", "crashed"}
  THEN monState' = "starting" /\ starter' = "starting"
  ELSE monState' = monState /\ starter' = "none"

Boot ==
  /\ runner = "booting" /\ starter = "none"
  /\ EnterStart
  /\ UNCHANGED <<child, procs, longRun, restartCount, restartTimer, runner, stopAt>>
  /\ UNCHANGED healthVars

\* A start that succeeds resets the counter.
Spawn_ResetsCount ==
  /\ starter = "starting" /\ runner # "exited" /\ child < MaxSpawns
  /\ child' = child + 1
  /\ procs' = [procs EXCEPT ![child + 1] = "alive"]
  /\ restartCount' = 0
  /\ monState' = "running" /\ starter' = "none"
  /\ healthTimer' = TRUE /\ portBound' = FALSE /\ portFailures' = 0 /\ healthRestart' = FALSE
  /\ runner' = IF runner = "booting" THEN "active" ELSE runner
  /\ UNCHANGED <<longRun, restartTimer, probes, stopAt>>

\* After the log: the counters of the previous run are reset, the dev server
\* is spawned, its listeners are attached and the health timer is set again.
Spawn ==
  /\ starter = "starting" /\ runner # "exited" /\ child < MaxSpawns
  /\ child' = child + 1
  /\ procs' = [procs EXCEPT ![child + 1] = "alive"]
  /\ restartCount' = IF child # 0 /\ longRun[child] THEN 0 ELSE restartCount
  /\ monState' = "running" /\ starter' = "none"
  /\ healthTimer' = TRUE /\ portBound' = FALSE /\ portFailures' = 0 /\ healthRestart' = FALSE
  /\ runner' = IF runner = "booting" THEN "active" ELSE runner
  /\ UNCHANGED <<longRun, restartTimer, probes, stopAt>>

\* No pid: start() fails.  The CLI exits when it was the first start, and may
\* exit at a later one: nobody listens to the 'error' of such a child.
SpawnFails ==
  /\ starter = "starting" /\ runner # "exited"
  /\ monState' = "stopped" /\ starter' = "none"
  /\ portBound' = FALSE /\ portFailures' = 0 /\ healthRestart' = FALSE
  /\ restartCount' = IF child # 0 /\ longRun[child] THEN 0 ELSE restartCount
  /\ \/ runner' = "exited"
     \/ runner # "booting" /\ runner' = runner
  /\ UNCHANGED <<child, procs, longRun, restartTimer, healthTimer, probes, stopAt>>

---------------------------------------------------------------------------
(* The listeners of the child *)

ShouldRestart_Unbounded(outcome) == outcome # "clean"

\* shouldRestartAfterExit in the running state.
ShouldRestart(outcome) == restartCount < MaxRestarts /\ outcome # "clean"

ExitWhileRunning_CleanIgnored(outcome) ==
  IF ShouldRestart(outcome)
  THEN monState' = "crashed" /\ restartTimer' = TRUE /\ restartCount' = restartCount + 1
  ELSE /\ monState' = IF outcome \in {"failed", "signal"} THEN "crashed" ELSE monState
       /\ UNCHANGED <<restartTimer, restartCount>>

\* What the 'exit' listener does when the monitor was running: one state
\* change, and a restart timer with the crash.
ExitWhileRunning(outcome) ==
  IF ShouldRestart(outcome)
  THEN monState' = "crashed" /\ restartTimer' = TRUE /\ restartCount' = restartCount + 1
  ELSE /\ monState' = IF outcome \in {"failed", "signal"} THEN "crashed" ELSE "stopped"
       /\ UNCHANGED <<restartTimer, restartCount>>

\* runner.stop() stops, cleans up and leaves.
AfterStop == IF runner = "stopping" THEN "cleaning" ELSE "leaving"

\* The kill that waits for this exit returns: stop() goes on, a check ends.
KillReturns ==
  /\ stopAt' = IF stopAt = "killing" THEN "none" ELSE stopAt
  /\ runner' = IF stopAt = "killing" THEN AfterStop ELSE runner
  /\ probes' = [h \in Checks |-> IF probes[h] = "killing" THEN "idle" ELSE probes[h]]

\* A process dies only after the container: the CLI may be gone before it.
ChildExits(p, outcome, long) ==
  /\ Lives(p)
  /\ procs' = [procs EXCEPT ![p] = "exited"]
  /\ longRun' = [longRun EXCEPT ![p] = long]
  /\ IF runner = "exited"
     THEN UNCHANGED <<monState, restartTimer, restartCount, stopAt, runner, probes>>
     ELSE /\ IF monState = "running" THEN ExitWhileRunning(outcome)
             ELSE monState' = "stopped" /\ UNCHANGED <<restartTimer, restartCount>>
          /\ KillReturns
  /\ UNCHANGED <<child, starter, healthTimer, portBound, portFailures, healthRestart>>

ChildError_Restarts(p) ==
  /\ Lives(p) /\ runner # "exited" /\ monState \in {"running", "starting"}
  /\ monState' = "crashed" /\ restartTimer' = TRUE
  /\ UNCHANGED <<child, procs, longRun, restartCount, starter, runner, stopAt>>
  /\ UNCHANGED healthVars

\* The 'error' listener: crashed, and no restart is scheduled.
ChildError(p) ==
  /\ Lives(p) /\ runner # "exited" /\ monState \in {"running", "starting"}
  /\ monState' = "crashed"
  /\ UNCHANGED <<child, procs, longRun, restartCount, restartTimer, starter, runner, stopAt>>
  /\ UNCHANGED healthVars

---------------------------------------------------------------------------
(* The restart timer *)

TimerFires ==
  /\ restartTimer /\ runner # "exited"
  /\ restartTimer' = FALSE
  /\ starter' = IF monState \in {"stopped", "stopping"} THEN starter ELSE "callback"
  /\ UNCHANGED <<monState, child, procs, longRun, restartCount, runner, stopAt>>
  /\ UNCHANGED healthVars

CallbackStarts ==
  /\ starter = "callback" /\ runner # "exited"
  /\ EnterStart
  /\ UNCHANGED <<child, procs, longRun, restartCount, restartTimer, runner, stopAt>>
  /\ UNCHANGED healthVars

---------------------------------------------------------------------------
(* Shutdown: runner.stop() = monitor.stop(), monitor.cleanup() (which stops
   again), process.exit. *)

Signal ==
  /\ runner = "active"
  /\ runner' = "stopping"
  /\ UNCHANGED <<monState, child, procs, longRun, restartCount, restartTimer, starter, stopAt>>
  /\ UNCHANGED healthVars

\* stop() up to its first await; cleanup() has cleared both timers before it.
EnterStop ==
  /\ runner \in {"stopping", "cleaning"} /\ stopAt = "none"
  /\ restartTimer' = (restartTimer /\ runner = "stopping")
  /\ healthTimer' = (healthTimer /\ runner = "stopping")
  /\ IF monState \in {"stopped", "starting"}
     THEN runner' = AfterStop /\ stopAt' = stopAt
     ELSE runner' = runner /\ stopAt' = "logging"
  /\ UNCHANGED <<monState, child, procs, longRun, restartCount, starter,
                 probes, portBound, portFailures, healthRestart>>

\* Clear the health timer and kill the child; without one stop() returns.
\* (The health check's own kill may be waiting for the same exit.)
KillOrReturn ==
  /\ healthTimer' = FALSE
  /\ IF ChildLives
     THEN monState' = "stopping" /\ stopAt' = "killing" /\ runner' = runner
     ELSE monState' = "stopped" /\ stopAt' = "none" /\ runner' = AfterStop

\* stop() after its first log: state, then the restart timer is cancelled.
StopLogged ==
  /\ stopAt = "logging" /\ runner # "exited"
  /\ restartTimer' = FALSE
  /\ IF restartTimer
     THEN monState' = "stopping" /\ stopAt' = "cancelling" /\ UNCHANGED <<runner, healthTimer>>
     ELSE KillOrReturn
  /\ UNCHANGED <<child, procs, longRun, restartCount, starter,
                 probes, portBound, portFailures, healthRestart>>

\* "Cancelled pending restart" was logged.
StopCancelled ==
  /\ stopAt = "cancelling" /\ runner # "exited"
  /\ healthTimer' = FALSE
  /\ IF ChildLives
     THEN stopAt' = "killing" /\ UNCHANGED <<monState, runner>>
     ELSE /\ monState' = IF monState = "stopping" THEN "stopped" ELSE monState
          /\ stopAt' = "none" /\ runner' = AfterStop
  /\ UNCHANGED <<child, procs, longRun, restartCount, restartTimer, starter,
                 probes, portBound, portFailures, healthRestart>>

StopKillTimeout_Waits == FALSE

\* The kill timeout of stop(): SIGKILL, and stop() returns without the exit.
StopKillTimeout ==
  /\ stopAt = "killing" /\ runner # "exited"
  /\ procs' = IF ChildLives THEN [procs EXCEPT ![child] = "killed"] ELSE procs
  /\ monState' = IF monState = "stopping" THEN "stopped" ELSE monState
  /\ stopAt' = "none" /\ runner' = AfterStop
  /\ UNCHANGED <<child, longRun, restartCount, restartTimer, starter>>
  /\ UNCHANGED healthVars

\* process.exit(0)
Leave ==
  /\ runner = "leaving"
  /\ runner' = "exited"
  /\ UNCHANGED <<monState, child, procs, longRun, restartCount, restartTimer, starter, stopAt>>
  /\ UNCHANGED healthVars

---------------------------------------------------------------------------
(* The health check *)

HealthTick(h) ==
  /\ healthTimer /\ monState = "running" /\ runner # "exited" /\ probes[h] = "idle"
  /\ probes' = [probes EXCEPT ![h] = "probing"]
  /\ UNCHANGED <<monState, child, procs, longRun, restartCount, restartTimer, starter,
                 healthTimer, portBound, portFailures, healthRestart, runner, stopAt>>

ProbeAnswers(h) ==
  /\ probes[h] = "probing" /\ runner # "exited"
  /\ probes' = [probes EXCEPT ![h] = "idle"]
  /\ portBound' = TRUE /\ portFailures' = 0 /\ healthRestart' = FALSE
  /\ UNCHANGED <<monState, child, procs, longRun, restartCount, restartTimer, starter,
                 healthTimer, runner, stopAt>>

\* `late`: the grace period of the start was over when the check began.
ProbeFails(h, late) ==
  /\ probes[h] = "probing" /\ runner # "exited"
  /\ LET counted  == portBound \/ late
         failures == IF ~counted \/ portFailures = PortFailureThreshold
                     THEN portFailures ELSE portFailures + 1
         restart  == /\ counted /\ failures = PortFailureThreshold
                     /\ ~healthRestart /\ monState = "running"
     IN  /\ portFailures' = failures
         /\ probes' = [probes EXCEPT ![h] = IF restart THEN "logging" ELSE "idle"]
  /\ UNCHANGED <<monState, child, procs, longRun, restartCount, restartTimer, starter,
                 healthTimer, portBound, healthRestart, runner, stopAt>>

\* The health-triggered kill: of the child there is now, whatever the state.
HealthKill(h) ==
  /\ probes[h] = "logging" /\ runner # "exited"
  /\ healthRestart' = TRUE
  /\ probes' = [probes EXCEPT ![h] = IF ChildLives THEN "killing" ELSE "idle"]
  /\ UNCHANGED <<monState, child, procs, longRun, restartCount, restartTimer, starter,
                 healthTimer, portBound, portFailures, runner, stopAt>>

HealthKillTimeout(h) ==
  /\ probes[h] = "killing" /\ runner # "exited"
  /\ probes' = [probes EXCEPT ![h] = "idle"]
  /\ procs' = IF ChildLives THEN [procs EXCEPT ![child] = "killed"] ELSE procs
  /\ UNCHANGED <<monState, child, longRun, restartCount, restartTimer, starter,
                 healthTimer, portBound, portFailures, healthRestart, runner, stopAt>>

---------------------------------------------------------------------------
MonNext ==
  \/ Boot \/ Spawn \/ SpawnFails
  \/ \E p \in Spawns, o \in Outcomes, long \in BOOLEAN : ChildExits(p, o, long)
  \/ \E p \in Spawns : ChildError(p)
  \/ TimerFires \/ CallbackStarts
  \/ Signal \/ EnterStop \/ StopLogged \/ StopCancelled \/ StopKillTimeout \/ Leave
  \/ \E h \in Checks : \/ HealthTick(h) \/ ProbeAnswers(h) \/ HealthKill(h)
                       \/ HealthKillTimeout(h)
  \/ \E h \in Checks, late \in BOOLEAN : ProbeFails(h, late)

MonSpec == MonInit /\ [][MonNext]_monVars

\* The event loop of the CLI: timers fire, log writes end, a spawn answers.
\* Nothing is assumed of the dev server, which may ignore SIGTERM for ever.
MonFairness ==
  /\ WF_monVars(Spawn \/ SpawnFails)
  /\ WF_monVars(TimerFires) /\ WF_monVars(CallbackStarts)
  /\ WF_monVars(EnterStop) /\ WF_monVars(StopLogged) /\ WF_monVars(StopCancelled)
  /\ WF_monVars(StopKillTimeout) /\ WF_monVars(Leave)

---------------------------------------------------------------------------
(* Properties *)

\* Two dev servers of one monitor never run at the same time (they would
\* fight for the port), whatever the order of exits, errors, restart timers,
\* health checks and stops; one that was sent SIGKILL does not count.
OneLiveChild == \A p, q \in Spawns : procs[p] = "alive" /\ procs[q] = "alive" => p = q

\* A monitor in the running state has a child whose exit it will hear of: it
\* cannot believe for ever in a dev server that is gone.
RunningHasChild == monState = "running" /\ runner # "exited" => ChildLives

\* A dev server that keeps crashing is restarted at most maxRestarts times:
\* only a run longer than five minutes starts the count again.
RestartBudget ==
  \A i, j \in Spawns :
    (/\ i <= j /\ j <= child
     /\ \A k \in i .. j - 1 : ~longRun[k]) => j - i <= MaxRestarts

\* A scheduled restart is answered: the monitor runs again, or is stopped.
RestartIsAnswered ==
  restartTimer ~> (monState \in {"running", "stopped"} \/ runner # "active")

\* The CLI exits after a signal, even if the dev server ignores SIGTERM.
ShutdownCompletes == runner = "stopping" ~> runner = "exited"

\* "5 minutes of stable run resets counter" (process-monitor.ts): a dev server
\* that crashes after a long run is restarted, whatever happened before it.
StableRunIsRestarted ==
  [][(/\ monState = "running" /\ monState' = "crashed"
      /\ Lives(child) /\ procs'[child] = "exited" /\ longRun'[child]) => restartTimer']_monVars
=============================================================================
