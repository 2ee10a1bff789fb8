----------------------------- MODULE DeepDebug -----------------------------
(***************************************************************************)
(* The debug sessions of a phasic agent: executeDeepDebug and the fields   *)
(* deepDebugPromise and deepDebugConversationId of behaviors/base.ts, and  *)
(* the tools deep_debug, wait_for_debug and wait_for_generation, which the *)
(* turns of the conversation call.  Turns are not serialised.              *)
(*                                                                         *)
(* The calls of a turn that no resource separates start together, and the  *)
(* model is asked again when all have answered.  A session is awaited by   *)
(* the deep_debug call that started it, so a session is named by its turn. *)
(* A step runs to the next wait for the network: the continuations of a    *)
(* settled promise are part of the step that settles it.                   *)
(***************************************************************************)
EXTENDS Naturals

CONSTANTS
  DebugTurns,    \* turns of the conversation that may overlap
  NoTurn,
  MaxBatches     \* bound: batches of tool calls in a turn

ASSUME DebugAssumption == NoTurn \notin DebugTurns /\ MaxBatches \in Nat

VARIABLES
  deepDebug,     \* deepDebugPromise: the session it belongs to
  shown,         \* deepDebugConversationId: the turn it names
  transcript,    \* lastDeepDebugTranscript is set
  generation,    \* generationPromise: none, of a running build or rejected
  asking         \* turn -> the calls it waits for

debugVars == <<deepDebug, shown, transcript, generation, asking>>

OptionalTurn == DebugTurns \cup {NoTurn}

\* debugging: its deep_debug runs; waits: the session wait_for_debug awaits;
\* waitsBuild: wait_for_generation awaits a build; called: callCount > 0.
Asking == [active : BOOLEAN, called : BOOLEAN, debugging : BOOLEAN, waits : OptionalTurn,
           waitsBuild : BOOLEAN, batches : 0 .. MaxBatches]
Fresh(active) == [active |-> active, called |-> FALSE, debugging |-> FALSE, waits |-> NoTurn,
                  waitsBuild |-> FALSE, batches |-> 0]
NotAsking == Fresh(FALSE)

DebugTypeOK ==
  /\ deepDebug \in OptionalTurn /\ shown \in OptionalTurn
  /\ transcript \in BOOLEAN /\ generation \in {"none", "running", "rejected"}
  /\ asking \in [DebugTurns -> Asking]

DebugInit ==
  /\ deepDebug = NoTurn /\ shown = NoTurn
  /\ transcript = FALSE /\ generation = "none"
  /\ asking = [t \in DebugTurns |-> NotAsking]

---------------------------------------------------------------------------
(* Turns and their tools *)

Answered(t) ==
  ~asking[t].debugging /\ asking[t].waits = NoTurn /\ ~asking[t].waitsBuild

\* A turn gets tools of its own, whose callCount is 0.
OpenTurn(t) ==
  /\ ~asking[t].active /\ Answered(t)
  /\ asking' = [asking EXCEPT ![t] = Fresh(TRUE)]
  /\ UNCHANGED <<deepDebug, shown, transcript, generation>>

\* The guards of deep_debug: once a turn, and neither a build nor a session.
MayDebug(t) == ~asking[t].called /\ generation = "none" /\ deepDebug = NoTurn

\* The session wait_for_debug finds, before or after a deep_debug of its batch.
Found(t, debug, waitsFirst) ==
  IF debug /\ MayDebug(t) /\ ~waitsFirst THEN t ELSE deepDebug

\* The turn when its calls have started.
Calling(t, debug, waitDebug, waitBuild, waitsFirst) ==
  [asking[t] EXCEPT
     !.called = @ \/ debug,
     !.debugging = debug /\ MayDebug(t),
     !.waits = IF waitDebug THEN Found(t, debug, waitsFirst) ELSE NoTurn,
     !.waitsBuild = waitBuild /\ generation = "running",
     !.batches = @ + 1]

\* A batch: the calls it makes, and whether wait_for_debug comes first.  The
\* call of deep_debug is rendered, and so names the turn, before its guards.
CallTools(t) ==
  /\ asking[t].active /\ Answered(t) /\ asking[t].batches < MaxBatches
  /\ \E debug, waitDebug, waitBuild, waitsFirst \in BOOLEAN :
       /\ debug \/ waitDebug \/ waitBuild
       /\ shown' = IF debug THEN t ELSE shown
       /\ deepDebug' = IF debug /\ MayDebug(t) THEN t ELSE deepDebug
       /\ asking' = [asking EXCEPT ![t] = Calling(t, debug, waitDebug, waitBuild, waitsFirst)]
  /\ UNCHANGED <<transcript, generation>>

CloseTurn(t) ==
  /\ asking[t].active /\ Answered(t)
  /\ asking' = [asking EXCEPT ![t] = NotAsking]
  /\ UNCHANGED <<deepDebug, shown, transcript, generation>>

\* A call of the batch aborts or has no definition: the turn fails or asks
\* again, as a turn of its own here, and leaves the other calls running.
LeaveBatch(t) ==
  /\ asking[t].active /\ ~Answered(t)
  /\ asking' = [asking EXCEPT ![t].active = FALSE]
  /\ UNCHANGED <<deepDebug, shown, transcript, generation>>

---------------------------------------------------------------------------
(* Sessions and builds *)

Resumed_Caller(t) == [asking EXCEPT ![t].debugging = FALSE]

\* The finally of the session clears both fields; whoever awaits the promise
\* goes on, and a waiter clears deepDebugPromise once more.
Resumed(t) ==
  [u \in DebugTurns |->
     [asking[u] EXCEPT !.debugging = @ /\ u # t, !.waits = IF @ = t THEN NoTurn ELSE @]]

EndDebug_KeepsFailed(t) ==
  /\ asking[t].debugging
  /\ \/ transcript' = TRUE /\ deepDebug' = NoTurn /\ shown' = NoTurn
     \/ UNCHANGED <<transcript, deepDebug, shown>>
  /\ asking' = Resumed(t)
  /\ UNCHANGED generation

\* A session that succeeds stores its transcript; an error is an answer too.
EndDebug(t) ==
  /\ asking[t].debugging
  /\ transcript' \in {transcript, TRUE}
  /\ deepDebug' = NoTurn /\ shown' = NoTurn
  /\ asking' = Resumed(t)
  /\ UNCHANGED generation

\* generateAllFiles looks at builds only: one may start during a session.
StartBuild ==
  /\ generation = "none" /\ generation' = "running"
  /\ UNCHANGED <<deepDebug, shown, transcript, asking>>

\* buildWrapper clears the promise when the build ends.  If the template cannot
\* be loaded the rejected promise stays, which waitForGeneration takes for an end.
EndBuild ==
  /\ generation = "running" /\ generation' \in {"none", "rejected"}
  /\ asking' = [t \in DebugTurns |-> [asking[t] EXCEPT !.waitsBuild = FALSE]]
  /\ UNCHANGED <<deepDebug, shown, transcript>>

\* The object is evicted: only the transcript is stored.
Evict ==
  /\ deepDebug' = NoTurn /\ shown' = NoTurn /\ generation' = "none"
  /\ asking' = [t \in DebugTurns |-> NotAsking]
  /\ UNCHANGED transcript

---------------------------------------------------------------------------
DebugNext ==
  \/ StartBuild \/ EndBuild \/ Evict
  \/ \E t \in DebugTurns :
       \/ OpenTurn(t) \/ CallTools(t) \/ CloseTurn(t) \/ LeaveBatch(t) \/ EndDebug(t)

\* A session and a build are bounded loops of model calls (ToolLoop, Generation).
DebugFairness ==
  /\ WF_debugVars(EndBuild)
  /\ \A t \in DebugTurns : WF_debugVars(EndDebug(t))

DebugSpec == DebugInit /\ [][DebugNext]_debugVars /\ DebugFairness

---------------------------------------------------------------------------
(* Properties *)

\* isDeepDebugging is true of the session that runs, and of no other: neither
\* the end of another session nor a waiter clears the promise of a running
\* one, so there is never a second session, and no end leaves it set, which
\* would refuse every later deep_debug.
DebugKnown == \A t \in DebugTurns : asking[t].debugging <=> deepDebug = t

\* The tool calls of a turn are answered: one that waits for a session, its own
\* or another turn's, or for a build goes on, whatever starts meanwhile.
WaitEnds(t) == ~Answered(t) ~> Answered(t)
=============================================================================
