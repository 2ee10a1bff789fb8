---------------------------- MODULE AgenticBuild ----------------------------
(***************************************************************************)
(* The builds of the agentic behaviour (core/behaviors/agentic.ts under    *)
(* the wrapper of base.ts): a build makes attempts until the MVP is marked *)
(* complete and no request is queued; user messages are only queued.       *)
(*                                                                         *)
(* generationPromise is what every guard against a second build reads.     *)
(* executeGeneration clears it at the end of each attempt, so the attempts *)
(* after the first run without it.                                         *)
(***************************************************************************)
EXTENDS Naturals, FiniteSets

CONSTANTS
  Builds,        \* bound: builds that run at the same time
  MaxQueue       \* bound: requests queued at once, and messages being handled

ASSUME AgenticBuildAssumption == MaxQueue \in Nat

VARIABLES
  builder,       \* build -> idle, template, loop, attempt or ending
  promised,      \* generationPromise is set
  queue,         \* number of pendingUserInputs
  arriving,      \* messages queued whose handler has yet to look for a build
  complete,      \* mvpGenerated
  waived         \* a request of the queue is a question, or was there when a build failed

agenticVars == <<builder, promised, queue, arriving, complete, waived>>

AgenticTypeOK ==
  /\ builder \in [Builds -> {"idle", "template", "loop", "attempt", "ending"}]
  /\ promised \in BOOLEAN /\ complete \in BOOLEAN /\ waived \in BOOLEAN
  /\ queue \in 0 .. MaxQueue /\ arriving \in 0 .. MaxQueue

---------------------------------------------------------------------------
AgenticInit ==
  /\ builder = [b \in Builds |-> "idle"]
  /\ promised = FALSE /\ queue = 0 /\ arriving = 0 /\ waived = FALSE
  /\ complete \in BOOLEAN

Move(b, pc) == builder' = [builder EXCEPT ![b] = pc]

\* generateAllFiles: nothing to do, a build is known to run, or one starts.
GenerateAll ==
  IF promised \/ (complete /\ queue = 0)
  THEN UNCHANGED <<builder, promised>>
  ELSE /\ \E b \in Builds : builder[b] = "idle" /\ Move(b, "template")
       /\ promised' = TRUE

\* GENERATE_ALL and RESUME_GENERATION.
AskForBuild ==
  /\ GenerateAll
  /\ UNCHANGED <<queue, arriving, complete, waived>>

\* handleUserInput up to the end of queueUserRequest; a question ('ask')
\* returns here and starts no build.
QueueRequest(question) ==
  /\ queue < MaxQueue /\ arriving < MaxQueue
  /\ queue' = queue + 1
  /\ arriving' = IF question THEN arriving ELSE arriving + 1
  /\ waived' = (waived \/ question)
  /\ UNCHANGED <<builder, promised, complete>>

\* The rest of handleUserInput: without a build, one is started.
HandleRequest ==
  /\ arriving > 0 /\ arriving' = arriving - 1
  /\ GenerateAll
  /\ UNCHANGED <<queue, complete, waived>>

\* buildWrapper: ensureTemplateDetails, which is outside the try block.
TemplateReady(b) ==
  /\ builder[b] = "template" /\ Move(b, "loop")
  /\ UNCHANGED <<promised, queue, arriving, complete, waived>>

TemplateFails(b) ==
  /\ builder[b] = "template" /\ Move(b, "idle")
  /\ waived' = TRUE
  /\ UNCHANGED <<promised, queue, arriving, complete>>

BuildLoop_OnceComplete(b) ==
  /\ builder[b] = "loop"
  /\ IF complete THEN Move(b, "ending") /\ UNCHANGED <<queue, waived>>
     ELSE Move(b, "attempt") /\ queue' = 0 /\ waived' = FALSE
  /\ UNCHANGED <<promised, arriving, complete>>

\* build: the loop's condition; an attempt takes the requests of the queue
\* into the conversation before it awaits anything.
BuildLoop(b) ==
  /\ builder[b] = "loop"
  /\ IF complete /\ queue = 0 THEN Move(b, "ending") /\ UNCHANGED <<queue, waived>>
     ELSE Move(b, "attempt") /\ queue' = 0 /\ waived' = FALSE
  /\ UNCHANGED <<promised, arriving, complete>>

\* mark_generation_complete
MarkComplete(b) ==
  /\ builder[b] = "attempt" /\ ~complete
  /\ complete' = TRUE
  /\ UNCHANGED <<builder, promised, queue, arriving, waived>>

\* The model stops calling tools, a completion signal ends the attempt, or a
\* queued request aborts it after a tool.
AttemptEnds(b) ==
  /\ builder[b] = "attempt" /\ Move(b, "loop")
  /\ promised' = FALSE
  /\ UNCHANGED <<queue, arriving, complete, waived>>

\* An error or the user's stop: rethrown to the wrapper.
AttemptFails(b) ==
  /\ builder[b] = "attempt" /\ Move(b, "ending")
  /\ promised' = FALSE /\ waived' = (waived \/ queue > 0)
  /\ UNCHANGED <<queue, arriving, complete>>

\* The finally block of buildWrapper.
BuildEnds(b) ==
  /\ builder[b] = "ending" /\ Move(b, "idle")
  /\ promised' = FALSE
  /\ UNCHANGED <<queue, arriving, complete, waived>>

---------------------------------------------------------------------------
AgenticNext ==
  \/ AskForBuild \/ HandleRequest
  \/ \E question \in BOOLEAN : QueueRequest(question)
  \/ \E b \in Builds :
       \/ TemplateReady(b) \/ TemplateFails(b) \/ BuildLoop(b) \/ MarkComplete(b)
       \/ AttemptEnds(b) \/ AttemptFails(b) \/ BuildEnds(b)

AgenticSpec == AgenticInit /\ [][AgenticNext]_agenticVars

\* Handlers and builds go on; an attempt ends (ToolLoop!TurnEnds), if only
\* because a queued request aborts it.
AgenticFairness ==
  /\ WF_agenticVars(HandleRequest)
  /\ \A b \in Builds :
       /\ WF_agenticVars(TemplateReady(b) \/ BuildLoop(b) \/ BuildEnds(b))
       /\ WF_agenticVars(AttemptEnds(b) \/ AttemptFails(b))

---------------------------------------------------------------------------
(* Properties *)

\* A request that is queued while a build runs, between two builds, or in the
\* instant a build ends, is taken into an attempt, unless one of the queue was
\* a question or waited when a build failed: the loop and the message handler
\* leave no gap between them.
QueueServed == queue > 0 ~> queue = 0 \/ waived

\* "Check if generation is already active to avoid duplicate processes"
\* (websocket.ts), the guard of generateAllFiles: one build at a time.
OneAgenticBuild == Cardinality({b \in Builds : builder[b] # "idle"}) <= 1
=============================================================================
