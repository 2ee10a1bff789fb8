----------------------------- MODULE Generation -----------------------------
(***************************************************************************)
(* The phasic code generator of one agent: the build (buildWrapper and the *)
(* state machine of PhasicCodingBehavior), the WebSocket commands that     *)
(* start, stop and resume it, and the conversation turns that queue        *)
(* requests for it while it runs.                                          *)
(*                                                                         *)
(* An action is the code from one await to the next.  The state of the     *)
(* Durable Object survives Restart; the promise of the build, the phase    *)
(* and the requests it holds, its abort controller and the template cache  *)
(* do not.  A model call keeps the signal of the controller it was given:  *)
(* "current" while that is currentAbortController, "aborted" once it was   *)
(* cancelled, "cleared" when the field was overwritten without an abort.   *)
(* state.currentPhase is left out: it is read only when the machine enters *)
(* PHASE_IMPLEMENTING without a phase, which it never does.                *)
(***************************************************************************)
EXTENDS Integers, Sequences, FiniteSets

CONSTANTS
  Builds,        \* slots for builds: one running, others closing
  Turns,         \* slots for conversation turns
  Requests,      \* change requests the user may make
  Names,         \* phase names the model may choose
  InitialName,   \* blueprint.initialPhase.name
  MaxPhases,     \* MAX_PHASES: phasesCounter of a new agent
  Cloned,        \* values of phasesCounter that cloneAgent may copy
  Recharge,      \* what queueUserRequest recharges phasesCounter to
  None           \* JavaScript's null

ASSUME NameAssumption   == InitialName \in Names
ASSUME BudgetAssumption == MaxPhases \in Nat \ {0} /\ Recharge \in Nat \ {0, 1} /\ Cloned \subseteq Int
ASSUME NoneAssumption   == None \notin Builds

VARIABLES
  phases,      \* state.generatedPhases, each with the requests it answers
  pending,     \* state.pendingUserInputs
  mvp,         \* state.mvpGenerated
  reviewed,    \* state.reviewingInitiated
  counter,     \* state.phasesCounter
  wanted,      \* state.shouldBeGenerating
  generation,  \* generationPromise: the build it belongs to
  build,       \* buildWrapper and the machine, one record per slot
  turn,        \* handleUserInput, one record per slot
  template,    \* templateDetailsCache is filled
  asked,       \* requests queued so far
  lost,        \* requests taken from the queue that reached no phase
  finals,      \* executions of the final phase planning
  budget       \* phasesCounter the agent started with

durable == <<phases, pending, mvp, reviewed, counter, wanted>>
memory  == <<generation, build, turn, template>>
history == <<asked, lost, finals, budget>>
vars    == <<durable, memory, history>>

-----------------------------------------------------------------------------
(* Records.                                                                *)

Planning == {"planIssues", "planning"}               \* PHASE_GENERATING, or its final form
Coding   == {"codeIssues", "coding", "deploying"}    \* PHASE_IMPLEMENTING
Running  == {"template", "review"} \cup Planning \cup Coding
Signals  == {"none", "current", "aborted", "cleared"}

PhaseType == [name : Names, last : BOOLEAN, asks : SUBSET Requests, completed : BOOLEAN]
BuildType == [pc : Running \cup {"free", "closing", "rejected"}, final : BOOLEAN, phase : Nat,
              ctx : SUBSET Requests, signal : Signals,
              origin : {"none", "generate", "resume", "message"}, stop : {"no", "heard", "missed"}]
TurnType  == [pc : {"idle", "preparing", "talking"}, ask : BOOLEAN, signal : Signals]

Fresh(pc, origin) == [pc |-> pc, final |-> FALSE, phase |-> 0, ctx |-> {}, signal |-> "none",
                      origin |-> origin, stop |-> "no"]
FreeBuild == Fresh("free", "none")
IdleTurn  == [pc |-> "idle", ask |-> FALSE, signal |-> "none"]

TypeOK ==
  /\ phases \in Seq(PhaseType)
  /\ pending \subseteq asked /\ asked \subseteq Requests /\ lost \subseteq asked
  /\ mvp \in BOOLEAN /\ reviewed \in BOOLEAN /\ wanted \in BOOLEAN /\ template \in BOOLEAN
  /\ counter \in Int /\ budget \in Int /\ finals \in Nat
  /\ generation \in Builds \cup {None}
  /\ build \in [Builds -> BuildType]
  /\ turn \in [Turns -> TurnType]
  /\ \A b \in Builds : build[b].phase \in 0..Len(phases) /\ build[b].ctx \subseteq asked
  /\ \A b \in Builds : build[b].pc \in Coding <=> build[b].phase # 0

-----------------------------------------------------------------------------
(* The state machine of one build.                                         *)

Incomplete == {i \in DOMAIN phases : ~phases[i].completed}

(* generateAllFiles has something to do.                                   *)
HasWork == ~mvp \/ pending # {}

(* Mutant: a build is started without looking at generationPromise.        *)
StartBuild_Unchecked(b, origin) ==
  /\ HasWork
  /\ build[b].pc = "free"
  /\ generation' = b
  /\ build' = [build EXCEPT ![b] = Fresh("template", origin)]

(* generateAllFiles and buildWrapper up to the first await.                *)
StartBuild(b, origin) ==
  /\ generation = None /\ HasWork
  /\ build[b].pc = "free"
  /\ generation' = b
  /\ build' = [build EXCEPT ![b] = Fresh("template", origin)]

(* Build b in a stage that holds neither a phase nor requests.             *)
Stage(b, pc) == [build[b] EXCEPT !.pc = pc, !.phase = 0, !.ctx = {}, !.signal = "none"]

(* Build b with a phase to implement, in executePhaseImplementation.       *)
Implementing(b, i) == [build[b] EXCEPT !.pc = "codeIssues", !.phase = i, !.signal = "none"]

(* Build b out of the machine: only who started it still matters.          *)
Ended(b, pc) == Fresh(pc, build[b].origin)

(* The machine is IDLE or has thrown: buildWrapper's finally block, up to  *)
(* updateApp.  Clearing the abort controller takes it from any             *)
(* conversation turn that shares it.                                       *)
Finish(b) ==
  /\ build' = [build EXCEPT ![b] = Ended(b, "closing")]
  /\ generation' = None
  /\ turn' = [t \in Turns |->
                IF turn[t].signal = "current" THEN [turn[t] EXCEPT !.signal = "cleared"] ELSE turn[t]]
  /\ UNCHANGED reviewed

(* executeReviewCycle.                                                     *)
Review(b) ==
  IF reviewed THEN Finish(b)
  ELSE /\ reviewed' = TRUE
       /\ build' = [build EXCEPT ![b] = Stage(b, "review")]
       /\ UNCHANGED <<generation, turn>>

(* executeFinalizing: setMVPGenerated answers TRUE when it has just set    *)
(* the flag, and then there is no final phase.                             *)
Finalize(b) ==
  IF ~mvp THEN mvp' = TRUE /\ Review(b) /\ UNCHANGED finals
  ELSE /\ build' = [build EXCEPT ![b] = [Stage(b, "planIssues") EXCEPT !.final = TRUE]]
       /\ finals' = finals + 1
       /\ UNCHANGED <<mvp, reviewed, generation, turn>>

(* Mutant: only the first phase of that name is marked.                    *)
Completed_First(ps, name) ==
  [i \in DOMAIN ps |->
     IF ps[i].name = name /\ \A j \in 1..(i - 1) : ps[j].name # name
     THEN [ps[i] EXCEPT !.completed = TRUE] ELSE ps[i]]

(* markPhaseComplete finds its phase by name.                              *)
Completed(ps, name) ==
  [i \in DOMAIN ps |-> IF ps[i].name = name THEN [ps[i] EXCEPT !.completed = TRUE] ELSE ps[i]]

RechargeTo(n) == counter' = IF counter <= n THEN n ELSE counter

-----------------------------------------------------------------------------
(* A new agent, or a clone: cloneAgent copies the state of an agent without *)
(* its phases, its queue and its flags, but with what is left of its phase  *)
(* counter, after onStart has found no template to load.                    *)
Init ==
  /\ phases = << >> /\ pending = {} /\ mvp = FALSE /\ reviewed = FALSE
  /\ \/ counter = MaxPhases /\ template = TRUE
     \/ counter \in Cloned /\ template = FALSE
  /\ budget = counter /\ wanted = FALSE
  /\ generation = None
  /\ build = [b \in Builds |-> FreeBuild]
  /\ turn = [t \in Turns |-> IdleTurn]
  /\ asked = {} /\ lost = {} /\ finals = 0

-----------------------------------------------------------------------------
(* Steps of a build.                                                       *)

(* launchStateMachine: the last incomplete phase, or the next plan, or the *)
(* first phase of the blueprint.                                           *)
TemplateReady(b) ==
  /\ build[b].pc = "template"
  /\ template' = TRUE
  /\ \/ /\ Incomplete # {}
        /\ \E i \in Incomplete : /\ \A j \in Incomplete : j <= i
                                 /\ build' = [build EXCEPT ![b] = Implementing(b, i)]
        /\ UNCHANGED phases
     \/ /\ Incomplete = {} /\ phases # << >>
        /\ build' = [build EXCEPT ![b] = Stage(b, "planIssues")]
        /\ UNCHANGED phases
     \/ /\ phases = << >>
        /\ phases' = <<[name |-> InitialName, last |-> FALSE, asks |-> {}, completed |-> FALSE]>>
        /\ build' = [build EXCEPT ![b] = Implementing(b, 1)]
  /\ UNCHANGED <<pending, mvp, reviewed, counter, wanted, generation, turn, history>>

(* ensureTemplateDetails throws outside buildWrapper's try block.          *)
TemplateFails(b) ==
  /\ build[b].pc = "template"
  /\ ~template
  /\ build' = [build EXCEPT ![b] = Ended(b, "rejected")]
  /\ UNCHANGED <<durable, generation, turn, template, history>>

(* executePhaseGeneration: the issues are there, the queue is drained.     *)
PlanIssuesArrive(b) ==
  /\ build[b].pc = "planIssues"
  /\ build' = [build EXCEPT ![b] = [build[b] EXCEPT !.pc = "planning", !.ctx = pending,
                                                   !.signal = "current"]]
  /\ pending' = {}
  /\ UNCHANGED <<phases, mvp, reviewed, counter, wanted, generation, turn, template, history>>

(* Mutants: the phase is implemented but not recorded; the queue is reset  *)
(* when the plan is there instead of when it was read.                     *)
PlanArrives_Unrecorded(b, name, last) ==
  /\ build[b].pc = "planning" /\ build[b].signal # "aborted"
  /\ build' = [build EXCEPT ![b] = Implementing(b, Len(phases) + 1)]
  /\ UNCHANGED <<durable, generation, turn, template, history>>

PlanArrives_ResetsQueue(b, name, last) ==
  /\ build[b].pc = "planning" /\ build[b].signal # "aborted"
  /\ phases' = Append(phases, [name |-> name, last |-> last, asks |-> build[b].ctx,
                               completed |-> FALSE])
  /\ build' = [build EXCEPT ![b] = Implementing(b, Len(phases) + 1)]
  /\ pending' = {}
  /\ UNCHANGED <<mvp, reviewed, counter, wanted, generation, turn, template, history>>

(* generateNextPhase answers a phase.                                      *)
PlanArrives(b, name, last) ==
  /\ build[b].pc = "planning" /\ build[b].signal # "aborted"
  /\ phases' = Append(phases, [name |-> name, last |-> last, asks |-> build[b].ctx,
                               completed |-> FALSE])
  /\ build' = [build EXCEPT ![b] = Implementing(b, Len(phases) + 1)]
  /\ UNCHANGED <<pending, mvp, reviewed, counter, wanted, generation, turn, template, history>>

(* Mutant: an empty plan is asked for again.                               *)
PlanEmpty_Repeats(b) ==
  /\ build[b].pc = "planning" /\ build[b].signal # "aborted"
  /\ build' = [build EXCEPT ![b] = Stage(b, "planIssues")]
  /\ lost' = lost \cup build[b].ctx
  /\ UNCHANGED <<durable, generation, turn, template, asked, finals, budget>>

(* generateNextPhase answers a phase without files.                        *)
PlanEmpty(b) ==
  /\ build[b].pc = "planning" /\ build[b].signal # "aborted"
  /\ IF build[b].final THEN Review(b) /\ UNCHANGED <<mvp, finals>> ELSE Finalize(b)
  /\ lost' = lost \cup build[b].ctx
  /\ UNCHANGED <<phases, pending, counter, wanted, template, asked, budget>>

(* Mutant: a failed plan is taken for an empty one.                        *)
PlanFails_AsEmpty(b, rateLimit) ==
  /\ build[b].pc \in Planning
  /\ rateLimit => build[b].pc = "planning" /\ build[b].signal # "aborted"
  /\ IF build[b].final THEN Review(b) /\ UNCHANGED <<mvp, finals>> ELSE Finalize(b)
  /\ lost' = lost \cup build[b].ctx
  /\ UNCHANGED <<phases, pending, counter, wanted, template, asked, budget>>

(* Planning throws: an aborted or failed call ends the build, except that  *)
(* the final planning goes on to the review; a rate limit always ends it.  *)
PlanFails(b, rateLimit) ==
  /\ build[b].pc \in Planning
  /\ rateLimit => build[b].pc = "planning" /\ build[b].signal # "aborted"
  /\ IF build[b].final /\ ~rateLimit THEN Review(b) ELSE Finish(b)
  /\ lost' = lost \cup build[b].ctx
  /\ UNCHANGED <<phases, pending, mvp, counter, wanted, template, asked, finals, budget>>

(* executePhaseImplementation: the issues are there, the model is called.  *)
CodeIssuesArrive(b) ==
  /\ build[b].pc = "codeIssues"
  /\ build' = [build EXCEPT ![b] = [build[b] EXCEPT !.pc = "coding", !.signal = "current"]]
  /\ UNCHANGED <<durable, generation, turn, template, history>>

(* implementPhase has its files; saving, commands and deployment follow.   *)
CodeArrives(b) ==
  /\ build[b].pc = "coding" /\ build[b].signal # "aborted"
  /\ build' = [build EXCEPT ![b] = [build[b] EXCEPT !.pc = "deploying", !.signal = "none"]]
  /\ UNCHANGED <<durable, generation, turn, template, history>>

(* Implementing throws; the phase stays incomplete.                        *)
CodeFails(b, rateLimit) ==
  /\ build[b].pc \in Coding
  /\ rateLimit => build[b].pc = "coding" /\ build[b].signal # "aborted"
  /\ IF build[b].final /\ ~rateLimit THEN Review(b) ELSE Finish(b)
  /\ UNCHANGED <<phases, pending, mvp, counter, wanted, template, history>>

(* Mutant: the budget runs out one phase late.                             *)
PhaseDeployed_OffByOne(b) ==
  /\ build[b].pc = "deploying"
  /\ phases' = Completed(phases, phases[build[b].phase].name)
  /\ counter' = counter - 1
  /\ IF build[b].final THEN Review(b) /\ UNCHANGED <<mvp, finals>>
     ELSE IF (phases[build[b].phase].last \/ counter' < 0) /\ pending = {} THEN Finalize(b)
     ELSE /\ build' = [build EXCEPT ![b] = Stage(b, "planIssues")]
          /\ UNCHANGED <<mvp, reviewed, generation, turn, finals>>
  /\ UNCHANGED <<pending, wanted, template, asked, lost, budget>>

(* The phase is deployed: it is marked complete and the machine moves on.  *)
PhaseDeployed(b) ==
  /\ build[b].pc = "deploying"
  /\ phases' = Completed(phases, phases[build[b].phase].name)
  /\ counter' = counter - 1
  /\ IF build[b].final THEN Review(b) /\ UNCHANGED <<mvp, finals>>
     ELSE IF (phases[build[b].phase].last \/ counter' <= 0) /\ pending = {} THEN Finalize(b)
     ELSE /\ build' = [build EXCEPT ![b] = Stage(b, "planIssues")]
          /\ UNCHANGED <<mvp, reviewed, generation, turn, finals>>
  /\ UNCHANGED <<pending, wanted, template, asked, lost, budget>>

(* The review has its issues, or failed to get them.                       *)
ReviewReturns(b) ==
  /\ build[b].pc = "review"
  /\ Finish(b)
  /\ UNCHANGED <<phases, pending, mvp, counter, wanted, template, history>>

(* updateApp settles and generateAllFiles returns; only GENERATE_ALL has a *)
(* finally handler.                                                        *)
BuildReturns(b) ==
  /\ build[b].pc = "closing"
  /\ build' = [build EXCEPT ![b] = FreeBuild]
  /\ wanted' = IF build[b].origin = "generate" /\ generation = None THEN FALSE ELSE wanted
  /\ UNCHANGED <<phases, pending, mvp, reviewed, counter, generation, turn, template, history>>

-----------------------------------------------------------------------------
(* WebSocket commands.                                                     *)

(* GENERATE_ALL: start a build; with one in progress only the flag is set; *)
(* with nothing to do the handler's finally clears it again.               *)
GenerateAll(b) ==
  /\ StartBuild(b, "generate")
  /\ wanted' = TRUE
  /\ UNCHANGED <<phases, pending, mvp, reviewed, counter, turn, template, history>>

GenerateAllIdle ==
  /\ generation # None \/ ~HasWork
  /\ wanted' = (generation # None)
  /\ UNCHANGED <<phases, pending, mvp, reviewed, counter, memory, history>>

(* RESUME_GENERATION.                                                      *)
Resume(b) ==
  /\ StartBuild(b, "resume")
  /\ wanted' = TRUE
  /\ UNCHANGED <<phases, pending, mvp, reviewed, counter, turn, template, history>>

ResumeIdle ==
  /\ generation # None \/ ~HasWork
  /\ wanted' = TRUE
  /\ UNCHANGED <<phases, pending, mvp, reviewed, counter, memory, history>>

(* STOP_GENERATION: cancelCurrentInference reaches the calls that hold the *)
(* current controller, a build between two calls does not notice.          *)
Aborted(s) == IF s = "current" THEN "aborted" ELSE s

Stop ==
  /\ wanted' = FALSE
  /\ build' = [b \in Builds |->
       [build[b] EXCEPT !.signal = Aborted(@),
                        !.stop = IF build[b].signal = "current" THEN "heard"
                                 ELSE IF build[b].pc \in Running /\ @ = "no" THEN "missed" ELSE @]]
  /\ turn' = [t \in Turns |-> [turn[t] EXCEPT !.signal = Aborted(@)]]
  /\ UNCHANGED <<phases, pending, mvp, reviewed, counter, generation, template, history>>

-----------------------------------------------------------------------------
(* Conversation turns: handleUserInput of the agent and of the behavior.   *)

Say(t, ask) ==
  /\ turn[t].pc = "idle"
  /\ turn' = [turn EXCEPT ![t] = [pc |-> "preparing", ask |-> ask, signal |-> "none"]]
  /\ UNCHANGED <<durable, generation, build, template, history>>

(* Template, runtime errors and updates are there; the model is called.    *)
TurnPrepared(t) ==
  /\ turn[t].pc = "preparing"
  /\ turn' = [turn EXCEPT ![t].pc = "talking", ![t].signal = "current"]
  /\ template' = TRUE
  /\ UNCHANGED <<durable, generation, build, history>>

(* The model calls the queue_request tool.                                 *)
QueueRequest(t, r) ==
  /\ turn[t].pc = "talking" /\ turn[t].signal # "aborted"
  /\ r \notin asked
  /\ RechargeTo(Recharge)
  /\ pending' = pending \cup {r}
  /\ asked' = asked \cup {r}
  /\ UNCHANGED <<phases, mvp, reviewed, wanted, memory, lost, finals, budget>>

(* Mutant: a turn that ends clears the abort controller it shares.         *)
TurnEnds_ClearsController(t, b) ==
  /\ turn[t].pc = "talking" /\ generation # None
  /\ turn' = [turn EXCEPT ![t] = IdleTurn]
  /\ build' = [x \in Builds |->
                 IF build[x].signal = "current" THEN [build[x] EXCEPT !.signal = "cleared"] ELSE build[x]]
  /\ UNCHANGED <<durable, generation, template, history>>

(* The turn ends, by an answer or by an abort.  Unless the user only asked *)
(* it starts a build when none is in progress.                             *)
TurnEnds(t, b) ==
  /\ turn[t].pc = "talking"
  /\ turn' = [turn EXCEPT ![t] = IdleTurn]
  /\ \/ ~turn[t].ask /\ StartBuild(b, "message")
     \/ /\ turn[t].ask \/ generation # None \/ ~HasWork
        /\ UNCHANGED <<generation, build>>
  /\ UNCHANGED <<durable, template, history>>

(* The turn throws: no build is started.                                   *)
TurnFails(t) ==
  /\ turn[t].pc # "idle"
  /\ turn' = [turn EXCEPT ![t] = IdleTurn]
  /\ UNCHANGED <<durable, generation, build, template, history>>

-----------------------------------------------------------------------------
(* The Durable Object is evicted and started again; onStart loads the      *)
(* template.                                                               *)
Restart ==
  /\ generation' = None
  /\ build' = [b \in Builds |-> FreeBuild]
  /\ turn' = [t \in Turns |-> IdleTurn]
  /\ template' = TRUE
  /\ lost' = lost \cup UNION {build[b].ctx : b \in {x \in Builds : build[x].pc = "planning"}}
  /\ UNCHANGED <<durable, asked, finals, budget>>

-----------------------------------------------------------------------------
BuildStep(b) ==
  \/ TemplateReady(b) \/ TemplateFails(b)
  \/ PlanIssuesArrive(b) \/ PlanEmpty(b)
  \/ \E name \in Names, last \in BOOLEAN : PlanArrives(b, name, last)
  \/ \E rateLimit \in BOOLEAN : PlanFails(b, rateLimit) \/ CodeFails(b, rateLimit)
  \/ CodeIssuesArrive(b) \/ CodeArrives(b) \/ PhaseDeployed(b)
  \/ ReviewReturns(b) \/ BuildReturns(b)

Next ==
  \/ \E b \in Builds : BuildStep(b) \/ GenerateAll(b) \/ Resume(b)
  \/ GenerateAllIdle \/ ResumeIdle \/ Stop
  \/ \E t \in Turns : TurnPrepared(t) \/ TurnFails(t)
  \/ \E t \in Turns, ask \in BOOLEAN : Say(t, ask)
  \/ \E t \in Turns, r \in Requests : QueueRequest(t, r)
  \/ \E t \in Turns, b \in Builds : TurnEnds(t, b)
  \/ Restart

Spec == Init /\ [][Next]_vars

(* Awaited calls settle; no user, failure or restart is obliged to happen. *)
FairSpec == Spec /\ \A b \in Builds : WF_vars(BuildStep(b))

-----------------------------------------------------------------------------
(* Properties.                                                             *)

(* generationPromise is the promise of the one build that has not reached  *)
(* its finally block: two builds never run side by side.                   *)
OneBuild == \A b \in Builds : generation = b <=> build[b].pc \in Running \cup {"rejected"}

(* At most the last phase is incomplete; it is the one a running build     *)
(* implements, and nothing is planned before it is complete.               *)
OnePhaseInProgress ==
  /\ Incomplete \subseteq {Len(phases)}
  /\ \A b \in Builds : build[b].pc \in Coding => Incomplete = {build[b].phase}
  /\ \A b \in Builds : build[b].pc \in Planning \cup {"review"} /\ ~build[b].final => Incomplete = {}

(* The phase counter bounds the agent: at most one phase is implemented    *)
(* after it has run out, the final one, or the first one of a clone whose  *)
(* counter had run out before.                                             *)
PhaseBudget == counter >= (IF budget <= 0 THEN budget - 1 ELSE -1)

(* While a build awaits the model, its controller is the current one or    *)
(* was aborted: STOP_GENERATION always reaches the call.                   *)
BuildCancellable ==
  \A b \in Builds : build[b].pc \in {"planning", "coding"} => build[b].signal \in {"current", "aborted"}

(* A build whose model call was aborted does not call the model again.     *)
NoCallAfterAbort == \A b \in Builds : build[b].stop = "heard" => build[b].signal # "current"

(* The status of a request, read off the state of the agent.               *)
Held == UNION {build[b].ctx : b \in {x \in Builds : build[x].pc = "planning"}}
InPhase(r, done) == \E i \in DOMAIN phases : r \in phases[i].asks /\ phases[i].completed = done

StatusOf(r) ==
  IF r \in lost THEN "dropped"
  ELSE IF r \in pending THEN "queued"
  ELSE IF r \in Held THEN "taken"
  ELSE IF InPhase(r, FALSE) THEN "planned"
  ELSE IF InPhase(r, TRUE) THEN "done"
  ELSE "unasked"

Lifecycle == INSTANCE RequestLifecycle WITH status <- [r \in Requests |-> StatusOf(r)]

(* The generator implements RequestLifecycle: across builds, stops and     *)
(* restarts no request vanishes or is served twice.                        *)
KeepsLifecycle == Lifecycle!Spec

(* A build ends: its promise settles, or the agent is restarted.           *)
BuildEnds == \A b \in Builds : build[b].pc \in Running ~> build[b].pc \notin Running

-----------------------------------------------------------------------------
(* What the comments and the documentation say and the code does not do.   *)

(* "final review and cleanup (runs only once)": the final phase is planned *)
(* at most once in the life of an agent.                                   *)
FinalPhaseOnce == finals <= 1

(* "| ANY | IDLE | User stops generation |": a build that was running when *)
(* the user stopped does not call the model again.                         *)
StopEndsBuild == \A b \in Builds : build[b].stop # "no" => build[b].signal # "current"

=============================================================================
