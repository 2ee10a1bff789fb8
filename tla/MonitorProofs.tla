--------------------------- MODULE MonitorProofs ---------------------------
(***************************************************************************)
(* OneLiveChild, RunningHasChild and RestartBudget hold for any number of  *)
(* dev servers, restarts and overlapping health checks.  None is inductive *)
(* alone.  What carries them is that a start is under way only when every  *)
(* earlier child has exited (StartsAlone), so that no listener is left     *)
(* that could act on a later child, and that at most one start is (OneStart *)
(* excludes a timer beside it).  CountBound relates restartCount to the    *)
(* streak of short runs that ends with the current child.  StateIsOwned    *)
(* and ShutdownGoesOn say that no start, restart or stop is left half done.*)
(***************************************************************************)
EXTENDS ProcessMonitor, TLAPS

NoneLives == \A p \in Spawns : ~Lives(p)

\* A start is scheduled or under way.
Pending == restartTimer \/ starter # "none"

\* Only the listeners of the last child may still be called.
OnlyLastLives == \A p \in Spawns : Lives(p) => p = child

StartsAlone == Pending \/ runner = "booting" => NoneLives /\ monState # "running"

OneStart ==
  /\ starter # "none" \/ runner = "booting" => ~restartTimer
  /\ runner = "booting" => child = 0

\* The dev servers from i to the one before the current child ran shortly.
Streak(i) == \A k \in i .. child - 1 : ~longRun[k]

\* Each restart of a streak was counted, the one under way included.
CountBound ==
  \A i \in 1 .. child : Streak(i) =>
    /\ monState = "running" => child - i <= restartCount
    /\ Pending => child - i + 1 <= restartCount

MonInv ==
  /\ OnlyLastLives /\ StartsAlone /\ OneStart /\ CountBound
  /\ RunningHasChild /\ RestartBudget

---------------------------------------------------------------------------
(* Types *)

\* What stop() and the exit listener write is of its type.
LEMMA MonHelpers ==
  /\ AfterStop \in {"cleaning", "leaving"}
  /\ KillOrReturn => /\ monState' \in {"stopping", "stopped"} /\ healthTimer' = FALSE
                     /\ stopAt' \in {"killing", "none"} /\ runner' \in {runner, AfterStop}
  /\ EnterStart => \/ monState' = monState /\ starter' = "none"
                   \/ /\ monState \in {"stopped", "crashed"}
                      /\ monState' = "starting" /\ starter' = "starting"
  BY DEF AfterStop, KillOrReturn, EnterStart

\* The restart of a crash is counted within maxRestarts.
LEMMA ExitEffect ==
  ASSUME MonTypeOK, NEW o \in Outcomes, ExitWhileRunning(o)
  PROVE  /\ monState' \in {"stopped", "crashed"}
         /\ \/ restartTimer' = restartTimer /\ restartCount' = restartCount
            \/ restartTimer' = TRUE /\ restartCount' = restartCount + 1
         /\ restartCount' \in 0 .. MaxRestarts
  BY MonitorAssumption DEF MonTypeOK, ExitWhileRunning, ShouldRestart

\* Every step keeps the variables in their types.
LEMMA MonTypeStep == MonTypeOK /\ [MonNext]_monVars => MonTypeOK'
<1> SUFFICES ASSUME MonTypeOK, [MonNext]_monVars PROVE MonTypeOK'
  OBVIOUS
<1> USE DEF MonTypeOK, healthVars
<1>a. child = 0 \/ child \in Spawns
  BY DEF Spawns
<1>b. 0 \in 0 .. MaxRestarts /\ 0 \in 0 .. PortFailureThreshold
  BY MonitorAssumption DEF PortFailureThreshold
<1>1. CASE Boot
  BY <1>1, MonHelpers DEF Boot
<1>2. CASE Spawn
  <2>1. child' \in 0 .. MaxSpawns /\ child + 1 \in Spawns
    BY <1>2, MonitorAssumption DEF Spawn, Spawns
  <2>2. procs' \in [Spawns -> {"unborn", "alive", "killed", "exited"}]
    BY <1>2, <2>1 DEF Spawn
  <2> QED
    BY <1>2, <1>b, <2>1, <2>2 DEF Spawn
<1>3. CASE SpawnFails
  BY <1>3, <1>b DEF SpawnFails
<1>4. ASSUME NEW p \in Spawns, NEW o \in Outcomes, NEW long \in BOOLEAN, ChildExits(p, o, long)
      PROVE  MonTypeOK'
  <2>1. /\ monState' \in {"stopped", "starting", "running", "stopping", "crashed"}
        /\ restartTimer' \in BOOLEAN /\ restartCount' \in 0 .. MaxRestarts
    BY <1>4, ExitEffect DEF ChildExits
  <2>2. /\ procs' \in [Spawns -> {"unborn", "alive", "killed", "exited"}]
        /\ longRun' \in [Spawns -> BOOLEAN]
    BY <1>4 DEF ChildExits
  <2>3. /\ probes' \in [Checks -> {"idle", "probing", "logging", "killing"}]
        /\ runner' \in {"booting", "active", "stopping", "cleaning", "leaving", "exited"}
        /\ stopAt' \in {"none", "logging", "cancelling", "killing"}
    BY <1>4, MonHelpers DEF ChildExits, KillReturns
  <2> QED
    BY <1>4, <2>1, <2>2, <2>3 DEF ChildExits
<1>5. ASSUME NEW p \in Spawns, ChildError(p) PROVE MonTypeOK'
  BY <1>5 DEF ChildError
<1>6. CASE TimerFires
  BY <1>6 DEF TimerFires
<1>7. CASE CallbackStarts
  BY <1>7, MonHelpers DEF CallbackStarts
<1>8. CASE Signal
  BY <1>8 DEF Signal
<1>9. CASE EnterStop
  BY <1>9, MonHelpers DEF EnterStop
<1>10. CASE StopLogged
  BY <1>10, MonHelpers DEF StopLogged
<1>11. CASE StopCancelled
  BY <1>11, MonHelpers DEF StopCancelled
<1>12. CASE StopKillTimeout
  <2>1. procs' \in [Spawns -> {"unborn", "alive", "killed", "exited"}]
    BY <1>12, <1>a DEF StopKillTimeout, ChildLives
  <2> QED
    BY <1>12, <2>1, MonHelpers DEF StopKillTimeout
<1>13. CASE Leave
  BY <1>13 DEF Leave
<1>14. ASSUME NEW h \in Checks, HealthTick(h) PROVE MonTypeOK'
  BY <1>14 DEF HealthTick
<1>15. ASSUME NEW h \in Checks, ProbeAnswers(h) PROVE MonTypeOK'
  BY <1>15, <1>b DEF ProbeAnswers
<1>16. ASSUME NEW h \in Checks, NEW late \in BOOLEAN, ProbeFails(h, late) PROVE MonTypeOK'
  <2>1. portFailures' \in 0 .. PortFailureThreshold
    BY <1>16 DEF ProbeFails, PortFailureThreshold
  <2>2. probes' \in [Checks -> {"idle", "probing", "logging", "killing"}]
    BY <1>16 DEF ProbeFails
  <2> QED
    BY <1>16, <2>1, <2>2 DEF ProbeFails
<1>17. ASSUME NEW h \in Checks, HealthKill(h) PROVE MonTypeOK'
  BY <1>17 DEF HealthKill
<1>18. ASSUME NEW h \in Checks, HealthKillTimeout(h) PROVE MonTypeOK'
  <2>1. procs' \in [Spawns -> {"unborn", "alive", "killed", "exited"}]
    BY <1>18, <1>a DEF HealthKillTimeout, ChildLives
  <2> QED
    BY <1>18, <2>1 DEF HealthKillTimeout
<1>19. CASE UNCHANGED monVars
  BY <1>19 DEF monVars
<1> QED
  BY <1>1, <1>2, <1>3, <1>4, <1>5, <1>6, <1>7, <1>8, <1>9, <1>10, <1>11, <1>12, <1>13, <1>14,
     <1>15, <1>16, <1>17, <1>18, <1>19 DEF MonNext

---------------------------------------------------------------------------
(* The inductive invariant *)

\* What most steps do: no listener comes or goes, the counters stay, and
\* nothing is set running, scheduled or started.
Quiet ==
  /\ UNCHANGED <<child, longRun, restartCount>>
  /\ \A p \in Spawns : Lives(p)' <=> Lives(p)
  /\ monState' = "running" => monState = "running"
  /\ Pending' => Pending
  /\ restartTimer' => restartTimer /\ (starter' # "none" => starter # "none")
  /\ runner' = "booting" => runner = "booting"
  /\ runner = "exited" => runner' = "exited"

\* Such a step keeps the invariant.
LEMMA QuietKeeps == MonTypeOK /\ MonInv /\ Quiet => MonInv'
<1> SUFFICES ASSUME MonTypeOK, MonInv, Quiet PROVE MonInv'
  OBVIOUS
<1>1. OnlyLastLives'
  BY DEF MonInv, OnlyLastLives, Quiet, Spawns
<1>2. StartsAlone'
  BY DEF MonInv, StartsAlone, NoneLives, Quiet, Spawns
<1>3. OneStart'
  BY DEF MonInv, OneStart, Quiet
<1>4. CountBound'
  BY DEF MonInv, CountBound, Streak, Quiet
<1>5. RunningHasChild'
  BY MonitorAssumption DEF MonInv, RunningHasChild, ChildLives, Quiet, Spawns, MonTypeOK
<1>6. RestartBudget'
  BY DEF MonInv, RestartBudget, Quiet, Spawns
<1> QED
  BY <1>1, <1>2, <1>3, <1>4, <1>5, <1>6 DEF MonInv

\* SIGKILL of the current child leaves its listeners.
LEMMA KillKeepsLives ==
  ASSUME MonTypeOK,
         procs' = IF ChildLives THEN [procs EXCEPT ![child] = "killed"] ELSE procs
  PROVE  \A p \in Spawns : Lives(p)' <=> Lives(p)
  BY DEF MonTypeOK, ChildLives, Lives

\* Every step but a boot, a spawn, a spawn that fails and an exit is quiet.
LEMMA MostAreQuiet ==
  ASSUME MonTypeOK, [MonNext]_monVars
  PROVE  \/ Quiet \/ Boot \/ Spawn \/ SpawnFails
         \/ \E p \in Spawns, o \in Outcomes, long \in BOOLEAN : ChildExits(p, o, long)
<1> USE DEF Quiet, Pending, healthVars, Lives
<1>1. ASSUME NEW p \in Spawns, ChildError(p) PROVE Quiet
  BY <1>1 DEF ChildError
<1>2. CASE TimerFires
  BY <1>2 DEF TimerFires
<1>3. CASE CallbackStarts
  BY <1>3, MonHelpers DEF CallbackStarts
<1>4. CASE Signal
  BY <1>4 DEF Signal
<1>5. CASE EnterStop
  BY <1>5, MonHelpers DEF EnterStop
<1>6. CASE StopLogged
  BY <1>6, MonHelpers DEF StopLogged
<1>7. CASE StopCancelled
  BY <1>7, MonHelpers DEF StopCancelled
<1>8. CASE StopKillTimeout
  <2>1. \A p \in Spawns : Lives(p)' <=> Lives(p)
    BY <1>8, KillKeepsLives DEF StopKillTimeout
  <2> QED
    BY <1>8, <2>1, MonHelpers DEF StopKillTimeout
<1>9. CASE Leave
  BY <1>9 DEF Leave
<1>10. ASSUME NEW h \in Checks, HealthTick(h) PROVE Quiet
  BY <1>10 DEF HealthTick
<1>11. ASSUME NEW h \in Checks, ProbeAnswers(h) PROVE Quiet
  BY <1>11 DEF ProbeAnswers
<1>12. ASSUME NEW h \in Checks, NEW late \in BOOLEAN, ProbeFails(h, late) PROVE Quiet
  BY <1>12 DEF ProbeFails
<1>13. ASSUME NEW h \in Checks, HealthKill(h) PROVE Quiet
  BY <1>13 DEF HealthKill
<1>14. ASSUME NEW h \in Checks, HealthKillTimeout(h) PROVE Quiet
  <2>1. \A p \in Spawns : Lives(p)' <=> Lives(p)
    BY <1>14, KillKeepsLives DEF HealthKillTimeout
  <2> QED
    BY <1>14, <2>1 DEF HealthKillTimeout
<1>15. CASE UNCHANGED monVars
  BY <1>15 DEF monVars
<1> HIDE DEF Quiet
<1> QED
  BY <1>1, <1>2, <1>3, <1>4, <1>5, <1>6, <1>7, <1>8, <1>9, <1>10, <1>11, <1>12, <1>13, <1>14,
     <1>15 DEF MonNext

\* The first start: nothing ran before it.
LEMMA BootKeeps == MonTypeOK /\ MonInv /\ Boot => MonInv'
<1> SUFFICES ASSUME MonTypeOK, MonInv, Boot PROVE MonInv'
  OBVIOUS
<1>1. /\ UNCHANGED <<child, procs, longRun, restartCount, restartTimer, runner>>
      /\ monState' # "running" /\ NoneLives /\ child = 0 /\ ~restartTimer
  BY MonHelpers DEF Boot, MonInv, StartsAlone, OneStart, EnterStart
<1>2. OnlyLastLives' /\ StartsAlone' /\ OneStart' /\ RunningHasChild'
  BY <1>1 DEF OnlyLastLives, StartsAlone, OneStart, RunningHasChild, NoneLives, Lives, Spawns
<1>3. CountBound' /\ RestartBudget'
  BY <1>1 DEF MonInv, CountBound, Streak, RestartBudget, Spawns
<1> QED
  BY <1>2, <1>3 DEF MonInv

\* A start that fails leaves nothing scheduled, so its count need not be right.
LEMMA SpawnFailsKeeps == MonTypeOK /\ MonInv /\ SpawnFails => MonInv'
<1> SUFFICES ASSUME MonTypeOK, MonInv, SpawnFails PROVE MonInv'
  OBVIOUS
<1>1. /\ UNCHANGED <<child, procs, longRun, restartTimer>>
      /\ monState' = "stopped" /\ ~Pending' /\ runner' # "booting"
  BY DEF SpawnFails, Pending, MonInv, OneStart
<1>2. OnlyLastLives' /\ StartsAlone' /\ OneStart' /\ RunningHasChild'
  BY <1>1 DEF MonInv, OnlyLastLives, StartsAlone, OneStart, RunningHasChild, Pending, Lives, Spawns
<1>3. CountBound' /\ RestartBudget'
  BY <1>1 DEF MonInv, CountBound, RestartBudget, Spawns
<1> QED
  BY <1>2, <1>3 DEF MonInv

\* A spawn finds no earlier child alive, and a count that covers its streak.
LEMMA SpawnKeeps == MonTypeOK /\ MonInv /\ Spawn => MonInv'
<1> SUFFICES ASSUME MonTypeOK, MonInv, Spawn PROVE MonInv'
  OBVIOUS
<1>1. /\ child' = child + 1 /\ child \in Nat /\ child + 1 \in Spawns /\ child \in 0 .. MaxSpawns
      /\ procs' = [procs EXCEPT ![child + 1] = "alive"] /\ longRun' = longRun
      /\ restartCount' = IF child # 0 /\ longRun[child] THEN 0 ELSE restartCount
      /\ ~Pending' /\ runner' # "booting"
      /\ NoneLives /\ Pending
  BY MonitorAssumption
  DEF Spawn, MonTypeOK, MonInv, StartsAlone, OneStart, Pending, Spawns
<1>2. \A p \in Spawns : Lives(p)' <=> p = child'
  BY <1>1 DEF MonTypeOK, NoneLives, Lives
<1>3. OnlyLastLives' /\ StartsAlone' /\ OneStart'
  BY <1>1, <1>2 DEF OnlyLastLives, StartsAlone, OneStart, Pending, Spawns
<1>4. RunningHasChild'
  BY <1>1, <1>2 DEF RunningHasChild, ChildLives
<1>5. restartCount \in Nat /\ restartCount <= MaxRestarts /\ restartCount' \in Nat
      /\ restartCount' <= MaxRestarts /\ MaxRestarts \in Nat
  BY <1>1, MonitorAssumption DEF MonTypeOK
<1>6. ASSUME NEW i \in 1 .. child', Streak(i)' PROVE child' - i <= restartCount'
  <2>1. CASE i = child'
    BY <2>1, <1>1, <1>5
  <2>2. CASE i # child'
    <3>1. i \in 1 .. child /\ child \in i .. child' - 1 /\ i .. child - 1 \subseteq i .. child' - 1
      BY <2>2, <1>1
    <3>2. ~longRun[child] /\ Streak(i)
      BY <1>6, <1>1, <3>1 DEF Streak
    <3>3. child - i + 1 <= restartCount
      BY <1>1, <3>1, <3>2 DEF MonInv, CountBound
    <3> QED
      BY <1>1, <1>5, <3>1, <3>2, <3>3
  <2> QED
    BY <2>1, <2>2
<1>7. CountBound'
  BY <1>1, <1>6 DEF CountBound
<1>8. ASSUME NEW i \in Spawns, NEW j \in Spawns, i <= j, j <= child',
             \A k \in i .. j - 1 : ~longRun'[k]
      PROVE  j - i <= MaxRestarts
  <2>1. CASE j <= child
    BY <1>1, <1>8, <2>1 DEF MonInv, RestartBudget
  <2>2. CASE ~(j <= child)
    <3>1. j = child' /\ i \in 1 .. child'
      BY <1>1, <1>8, <2>2 DEF Spawns
    <3>2. Streak(i)'
      BY <1>8, <3>1 DEF Streak
    <3>3. child' - i <= restartCount'
      BY <1>6, <3>1, <3>2
    <3> QED
      BY <1>1, <1>5, <3>1, <3>3
  <2> QED
    BY <2>1, <2>2
<1>9. RestartBudget'
  BY <1>8 DEF RestartBudget, Spawns
<1> QED
  BY <1>3, <1>4, <1>7, <1>9 DEF MonInv

\* The exit of the last child, the only one whose listeners are left.
LEMMA ChildExitsKeeps ==
  ASSUME MonTypeOK, MonInv, NEW p \in Spawns, NEW o \in Outcomes, NEW long \in BOOLEAN,
         ChildExits(p, o, long)
  PROVE  MonInv'
<1>1. /\ p = child /\ child' = child /\ starter' = starter
      /\ ~Pending /\ starter = "none" /\ runner # "booting"
  BY DEF ChildExits, MonInv, OnlyLastLives, StartsAlone, NoneLives, Pending
<1>2. \A q \in Spawns : ~Lives(q)'
  BY <1>1 DEF ChildExits, MonInv, OnlyLastLives, MonTypeOK, Lives
<1>3. \A q \in Spawns : q # child => longRun'[q] = longRun[q]
  BY <1>1 DEF ChildExits, MonTypeOK
<1>4. runner' # "booting"
  BY <1>1, MonHelpers DEF ChildExits, KillReturns
<1>5. \/ /\ runner = "exited" /\ runner' = "exited" /\ monState' = monState
         /\ ~restartTimer' /\ restartCount' = restartCount
      \/ monState' # "running" /\ ~restartTimer' /\ restartCount' = restartCount
      \/ /\ monState = "running" /\ monState' # "running"
         /\ restartTimer' /\ restartCount' = restartCount + 1
  BY <1>1, ExitEffect DEF ChildExits, Pending, ExitWhileRunning
<1>6. OnlyLastLives' /\ OneStart'
  BY <1>1, <1>2, <1>4 DEF OnlyLastLives, OneStart, Spawns
<1>7. StartsAlone'
  BY <1>1, <1>2, <1>4, <1>5 DEF StartsAlone, NoneLives, Pending, Spawns
<1>8. RunningHasChild'
  BY <1>5 DEF RunningHasChild
<1>9. child \in Spawns /\ restartCount \in Nat
  BY <1>1, MonitorAssumption DEF MonTypeOK
<1>10. ASSUME NEW i \in 1 .. child, Streak(i)' PROVE Streak(i)
  <2> SUFFICES ASSUME NEW k \in i .. child - 1 PROVE ~longRun[k]
    BY DEF Streak
  <2>1. k \in Spawns /\ k # child
    BY <1>9, MonitorAssumption DEF Spawns
  <2> QED
    BY <1>1, <1>3, <1>10, <2>1 DEF Streak
<1>11. ASSUME NEW i \in 1 .. child', Streak(i)'
       PROVE  /\ monState' = "running" => child' - i <= restartCount'
              /\ Pending' => child' - i + 1 <= restartCount'
  <2>1. monState = "running" => child - i <= restartCount
    BY <1>1, <1>10, <1>11 DEF MonInv, CountBound
  <2> QED
    BY <1>1, <1>5, <1>9, <2>1 DEF Pending, Spawns
<1>12. CountBound'
  BY <1>11 DEF CountBound
<1>13. ASSUME NEW i \in Spawns, NEW j \in Spawns, i <= j, j <= child',
              \A k \in i .. j - 1 : ~longRun'[k]
       PROVE  j - i <= MaxRestarts
  <2>1. \A k \in i .. j - 1 : k \in Spawns /\ k # child
    BY <1>1, <1>9, <1>13, MonitorAssumption DEF Spawns
  <2>2. \A k \in i .. j - 1 : ~longRun[k]
    BY <1>3, <1>13, <2>1
  <2> QED
    BY <1>1, <1>13, <2>2 DEF MonInv, RestartBudget
<1>14. RestartBudget'
  BY <1>13 DEF RestartBudget, Spawns
<1> QED
  BY <1>6, <1>7, <1>8, <1>12, <1>14 DEF MonInv

\* Every step keeps the inductive invariant.
LEMMA MonStep == MonTypeOK /\ MonInv /\ [MonNext]_monVars => MonInv'
  BY MostAreQuiet, QuietKeeps, BootKeeps, SpawnKeeps, SpawnFailsKeeps, ChildExitsKeeps

---------------------------------------------------------------------------
(* The theorems *)

\* The monitor starts with no dev server.
LEMMA MonStarts == MonInit => MonTypeOK /\ MonInv
<1> SUFFICES ASSUME MonInit PROVE MonTypeOK /\ MonInv
  OBVIOUS
<1>1. MonTypeOK
  <2>1. 0 \in 0 .. MaxSpawns /\ 0 \in 0 .. MaxRestarts /\ 0 \in 0 .. PortFailureThreshold
    BY MonitorAssumption DEF PortFailureThreshold
  <2> QED
    BY <2>1 DEF MonInit, MonTypeOK
<1>2. OnlyLastLives /\ StartsAlone /\ OneStart /\ RunningHasChild
  BY DEF MonInit, OnlyLastLives, StartsAlone, NoneLives, OneStart, RunningHasChild, Lives
<1>3. CountBound /\ RestartBudget
  BY DEF MonInit, CountBound, RestartBudget, Spawns
<1> QED
  BY <1>1, <1>2, <1>3 DEF MonInv

\* The variables of ProcessMonitor keep their types, restartCount <= maxRestarts
\* included, and its inductive invariant holds.
THEOREM MonTypeCorrect == MonSpec => [](MonTypeOK /\ MonInv)
  BY MonStarts, MonTypeStep, MonStep, PTL DEF MonSpec

\* Two dev servers of a monitor never run at the same time, whatever the order
\* of exits, errors, restart timers, health checks, kills and stops.
THEOREM OneDevServer == MonSpec => []OneLiveChild
<1>1. MonInv => OneLiveChild
  BY DEF MonInv, OnlyLastLives, OneLiveChild, Lives
<1> QED
  BY <1>1, MonTypeCorrect, PTL

\* A running monitor has a child whose exit it will hear of.
THEOREM RunningIsHeard == MonSpec => []RunningHasChild
<1>1. MonInv => RunningHasChild
  BY DEF MonInv
<1> QED
  BY <1>1, MonTypeCorrect, PTL

\* Between two long runs a dev server is restarted at most maxRestarts times.
THEOREM RestartsBounded == MonSpec => []RestartBudget
<1>1. MonInv => RestartBudget
  BY DEF MonInv
<1> QED
  BY <1>1, MonTypeCorrect, PTL

---------------------------------------------------------------------------
(* Nothing is left half done *)

\* stop() runs only in a shutdown, and a state in which start() is refused has
\* a start or a stop under way that will leave it.
StopUnderWay == stopAt # "none" => runner \in {"stopping", "cleaning", "exited"}
StateIsOwned ==
  runner # "exited" => /\ monState = "starting" => starter = "starting"
                       /\ monState = "stopping" => stopAt \in {"cancelling", "killing"}

\* A shutdown stops twice, leaves and never turns back.
ShutdownGoesOn ==
  /\ runner = "stopping" => runner' \in {"stopping", "cleaning", "exited"}
  /\ runner = "cleaning" => runner' \in {"cleaning", "leaving", "exited"}
  /\ runner = "leaving" => runner' \in {"leaving", "exited"}
  /\ runner = "exited" => runner' = "exited"

\* What a step does to the two.
HalfDone == StopUnderWay /\ StateIsOwned

\* Where stop() stands, seen from its end.
LEMMA AfterStopGoesOn ==
  ASSUME StopUnderWay, stopAt # "none", runner # "exited"
  PROVE  /\ runner = "stopping" => AfterStop = "cleaning"
         /\ runner = "cleaning" => AfterStop = "leaving"
         /\ runner \in {"stopping", "cleaning"}
  BY DEF StopUnderWay, AfterStop

\* Every step that leaves a start or a stop leaves the state it had set.
LEMMA HalfDoneStep ==
  MonTypeOK /\ MonInv /\ HalfDone /\ [MonNext]_monVars => HalfDone' /\ ShutdownGoesOn
<1> SUFFICES ASSUME MonTypeOK, MonInv, HalfDone, [MonNext]_monVars
             PROVE  HalfDone' /\ ShutdownGoesOn
  OBVIOUS
<1>a. StopUnderWay /\ StateIsOwned
  BY DEF HalfDone
<1>b. MonTypeOK
  OBVIOUS
<1> USE DEF HalfDone, StopUnderWay, StateIsOwned, ShutdownGoesOn
<1>1. CASE Boot
  BY <1>1 DEF Boot, EnterStart
<1>2. CASE Spawn
  BY <1>2, <1>b DEF Spawn, MonTypeOK
<1>3. CASE SpawnFails
  BY <1>3 DEF SpawnFails
<1>4. ASSUME NEW p \in Spawns, NEW o \in Outcomes, NEW long \in BOOLEAN, ChildExits(p, o, long)
      PROVE  HalfDone' /\ ShutdownGoesOn
  <2>1. CASE runner = "exited"
    BY <1>4, <2>1 DEF ChildExits
  <2>2. CASE runner # "exited"
    <3>1. monState' \in {"stopped", "crashed"}
      BY <1>4, <2>2, ExitEffect DEF ChildExits
    <3>2. KillReturns
      BY <1>4, <2>2 DEF ChildExits
    <3>3. CASE stopAt = "killing"
      <4>1. stopAt' = "none" /\ runner' = AfterStop
        BY <3>2, <3>3 DEF KillReturns
      <4> QED
        BY <2>2, <3>1, <3>3, <4>1, <1>a, AfterStopGoesOn
    <3>4. CASE stopAt # "killing"
      BY <2>2, <3>1, <3>2, <3>4 DEF KillReturns
    <3> QED
      BY <3>3, <3>4
  <2> QED
    BY <2>1, <2>2
<1>5. ASSUME NEW p \in Spawns, ChildError(p) PROVE HalfDone' /\ ShutdownGoesOn
  BY <1>5 DEF ChildError
<1>6. CASE TimerFires
  <2>1. monState = "starting" => ~restartTimer
    BY <1>6 DEF TimerFires, MonInv, OneStart
  <2> QED
    BY <1>6, <2>1 DEF TimerFires
<1>7. CASE CallbackStarts
  BY <1>7 DEF CallbackStarts, EnterStart
<1>8. CASE Signal
  BY <1>8 DEF Signal
<1>9. CASE EnterStop
  BY <1>9 DEF EnterStop, AfterStop
<1>10. CASE StopLogged
  <2>1. CASE restartTimer
    BY <1>10, <2>1 DEF StopLogged
  <2>2. CASE ~restartTimer
    BY <1>10, <2>2, <1>a, AfterStopGoesOn DEF StopLogged, KillOrReturn
  <2> QED
    BY <2>1, <2>2
<1>11. CASE StopCancelled
  BY <1>11, <1>a, AfterStopGoesOn DEF StopCancelled
<1>12. CASE StopKillTimeout
  BY <1>12, <1>a, AfterStopGoesOn DEF StopKillTimeout
<1>13. CASE Leave
  BY <1>13 DEF Leave
<1>14. CASE UNCHANGED <<monState, starter, runner, stopAt>>
  BY <1>14
<1> QED
  BY <1>1, <1>2, <1>3, <1>4, <1>5, <1>6, <1>7, <1>8, <1>9, <1>10, <1>11, <1>12, <1>13, <1>14
  DEF MonNext, monVars, HealthTick, ProbeAnswers, ProbeFails, HealthKill, HealthKillTimeout

\* Nothing runs at the start.
LEMMA NothingHalfDone == MonInit => HalfDone
  BY DEF MonInit, HalfDone, StopUnderWay, StateIsOwned

\* The monitor is never stuck in a state of transition, in which it would
\* refuse every start: "starting" has a start that will spawn or fail,
\* "stopping" a stop that will see the exit or kill.  (The safety part of
\* RestartIsAnswered and ShutdownCompletes.)
THEOREM TransitionsEnd == MonSpec => []StateIsOwned
<1> QED
  BY MonTypeCorrect, NothingHalfDone, HalfDoneStep, PTL DEF MonSpec, HalfDone

\* A shutdown goes on to the exit of the CLI, whatever exits, restart timers
\* and kills come in between: each stop() ends once, and no start revives it.
THEOREM ShutdownIsFinal == MonSpec => [][ShutdownGoesOn]_monVars
<1> QED
  BY MonTypeCorrect, NothingHalfDone, HalfDoneStep, PTL DEF MonSpec
=============================================================================
