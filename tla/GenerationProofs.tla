-------------------------- MODULE GenerationProofs --------------------------
(***************************************************************************)
(* Theorems about Generation, for any number of builds, conversation       *)
(* turns, requests and phase names, and any phase budget.                  *)
(***************************************************************************)
EXTENDS Generation, SequenceTheorems, TLAPS

-----------------------------------------------------------------------------
(* The inductive invariant.                                                *)

(* A build holds the signal of a controller exactly while it awaits the    *)
(* model; one that was aborted has only the review before it.              *)
Signalled ==
  \A b \in Builds :
    /\ build[b].signal # "none" <=> build[b].pc \in {"planning", "coding"}
    /\ build[b].signal # "cleared"
    /\ build[b].stop = "heard" => build[b].signal = "aborted" \/ build[b].pc = "review"

(* OnePhaseInProgress, and what it needs of the final planning: whatever   *)
(* is planned, the phases before it are complete.                          *)
InOrder ==
  /\ Incomplete \subseteq {Len(phases)}
  /\ \A b \in Builds : build[b].pc \in Coding => Incomplete = {build[b].phase}
  /\ \A b \in Builds : build[b].pc \in Planning => Incomplete = {}
  /\ \A b \in Builds : build[b].pc = "review" /\ ~build[b].final => Incomplete = {}
  /\ \A b \in Builds : build[b].pc = "template" => ~build[b].final
  /\ \A b \in Builds : build[b].final => mvp

(* The least value of phasesCounter.                                       *)
Floor == IF budget <= 0 THEN budget - 1 ELSE -1

(* What is left of the budget: two phases for a queued request that finds  *)
(* a phase ahead of it, one for a phase that is not the final one.         *)
Planned == \E b \in Builds : build[b].pc = "planning"

Budgeted ==
  /\ counter >= Floor
  /\ pending # {} => counter >= 1
  /\ pending # {} /\ (Incomplete # {} \/ phases = << >> \/ Planned) => counter >= 2
  /\ ~mvp => counter >= Floor + 1
  /\ Incomplete # {} => counter >= Floor + 1
  /\ \A b \in Builds : build[b].pc \in Planning \cup Coding /\ build[b].final => counter >= Floor + 1
  /\ \A b \in Builds : build[b].pc \in Planning \cup Coding /\ ~build[b].final /\ mvp
                         => counter >= Floor + 2
  /\ \A b \in Builds : build[b].pc = "template" /\ mvp => pending # {}

IInv == TypeOK /\ OneBuild /\ Signalled /\ InOrder /\ Budgeted

-----------------------------------------------------------------------------
(* What the helpers of the model build.                                    *)

(* A fresh record is typed and holds nothing.                              *)
LEMMA FreshTyped ==
  ASSUME NEW pc \in Running \cup {"free", "closing", "rejected"},
         NEW o \in {"none", "generate", "resume", "message"}
  PROVE  /\ Fresh(pc, o) \in BuildType
         /\ Fresh(pc, o).pc = pc /\ ~Fresh(pc, o).final /\ Fresh(pc, o).phase = 0
         /\ Fresh(pc, o).ctx = {} /\ Fresh(pc, o).signal = "none" /\ Fresh(pc, o).stop = "no"
BY DEF Fresh, BuildType, Signals

(* A build between two phases keeps its final flag and how it was stopped. *)
LEMMA StageTyped ==
  ASSUME TypeOK, NEW b \in Builds, NEW pc \in Running
  PROVE  /\ Stage(b, pc) \in BuildType
         /\ Stage(b, pc).pc = pc /\ Stage(b, pc).final = build[b].final
         /\ Stage(b, pc).phase = 0 /\ Stage(b, pc).ctx = {}
         /\ Stage(b, pc).signal = "none" /\ Stage(b, pc).stop = build[b].stop
<1>1. build[b] \in BuildType
  BY DEF TypeOK
<1> QED
  BY <1>1 DEF Stage, BuildType, Signals

(* The final planning is a stage with the final flag.                      *)
LEMMA FinalTyped ==
  ASSUME TypeOK, NEW b \in Builds
  PROVE  LET r == [Stage(b, "planIssues") EXCEPT !.final = TRUE] IN
         /\ r \in BuildType
         /\ r.pc = "planIssues" /\ r.final /\ r.phase = 0 /\ r.ctx = {}
         /\ r.signal = "none" /\ r.stop = build[b].stop
<1>1. /\ Stage(b, "planIssues") \in BuildType
      /\ Stage(b, "planIssues").pc = "planIssues" /\ Stage(b, "planIssues").phase = 0
      /\ Stage(b, "planIssues").ctx = {} /\ Stage(b, "planIssues").signal = "none"
      /\ Stage(b, "planIssues").stop = build[b].stop
  BY StageTyped DEF Running, Planning
<1> QED
  BY <1>1 DEF BuildType

(* A build that implements phase i.                                        *)
LEMMA ImplementingTyped ==
  ASSUME TypeOK, NEW b \in Builds, NEW i \in Nat
  PROVE  /\ Implementing(b, i) \in BuildType
         /\ Implementing(b, i).pc = "codeIssues" /\ Implementing(b, i).phase = i
         /\ Implementing(b, i).final = build[b].final /\ Implementing(b, i).ctx = build[b].ctx
         /\ Implementing(b, i).signal = "none" /\ Implementing(b, i).stop = build[b].stop
<1>1. build[b] \in BuildType
  BY DEF TypeOK
<1> QED
  BY <1>1 DEF Implementing, BuildType, Signals, Running, Coding

(* markPhaseComplete changes the completion of phases and nothing else.    *)
LEMMA CompletedTyped ==
  ASSUME phases \in Seq(PhaseType), NEW n \in Names
  PROVE  /\ Completed(phases, n) \in Seq(PhaseType)
         /\ Len(Completed(phases, n)) = Len(phases)
         /\ DOMAIN Completed(phases, n) = DOMAIN phases
         /\ \A i \in DOMAIN phases :
              Completed(phases, n)[i].completed = (phases[i].completed \/ phases[i].name = n)
<1>1. Len(phases) \in Nat /\ DOMAIN phases = 1..Len(phases)
      /\ \A i \in DOMAIN phases : phases[i] \in PhaseType
  BY LenProperties
<1> DEFINE e(i) == IF phases[i].name = n THEN [phases[i] EXCEPT !.completed = TRUE] ELSE phases[i]
<1>2. Completed(phases, n) = [i \in 1..Len(phases) |-> e(i)]
  BY <1>1 DEF Completed
<1>3. \A i \in DOMAIN phases : e(i) \in PhaseType
                               /\ e(i).completed = (phases[i].completed \/ phases[i].name = n)
  BY <1>1 DEF PhaseType
<1> HIDE DEF e
<1>4. Completed(phases, n) \in [1..Len(phases) -> PhaseType]
  BY <1>1, <1>2, <1>3
<1>5. Completed(phases, n) \in Seq(PhaseType)
  BY <1>1, <1>4, SeqDef
<1> QED
  BY <1>1, <1>2, <1>3, <1>5, LenProperties

(* A new phase is the last one, and it is incomplete.                      *)
LEMMA AppendTyped ==
  ASSUME phases \in Seq(PhaseType), NEW p \in PhaseType
  PROVE  /\ Append(phases, p) \in Seq(PhaseType)
         /\ Len(Append(phases, p)) = Len(phases) + 1 /\ Len(phases) \in Nat
         /\ DOMAIN Append(phases, p) = 1..(Len(phases) + 1) /\ DOMAIN phases = 1..Len(phases)
         /\ \A i \in DOMAIN phases : Append(phases, p)[i] = phases[i]
         /\ Append(phases, p)[Len(phases) + 1] = p
BY LenProperties DEF PhaseType

(* Build b is out of its phases: it reviews, or buildWrapper has reached   *)
(* its finally block.                                                      *)
LeavesAs(b, r) ==
  /\ build' = [build EXCEPT ![b] = r]
  /\ r.phase = 0 /\ r.ctx = {} /\ r.signal = "none"
  /\ \/ /\ r.pc = "closing" /\ r.stop = "no" /\ ~r.final
        /\ generation' = None
     \/ /\ r.pc = "review" /\ r.stop = build[b].stop /\ r.final = build[b].final
        /\ generation' = generation

Leaves(b) ==
  /\ turn' \in [Turns -> TurnType] /\ reviewed' \in BOOLEAN
  /\ \E r \in BuildType : LeavesAs(b, r)

(* buildWrapper's finally block ends the build.                            *)
LEMMA FinishLeaves ==
  ASSUME TypeOK, NEW b \in Builds, Finish(b)
  PROVE  Leaves(b)
<1>1. build[b] \in BuildType /\ turn \in [Turns -> TurnType] /\ reviewed \in BOOLEAN
  BY DEF TypeOK
<1>2. build[b].origin \in {"none", "generate", "resume", "message"}
  BY <1>1 DEF BuildType
<1>3. /\ Ended(b, "closing") \in BuildType
      /\ Ended(b, "closing").pc = "closing" /\ ~Ended(b, "closing").final
      /\ Ended(b, "closing").phase = 0 /\ Ended(b, "closing").ctx = {}
      /\ Ended(b, "closing").signal = "none" /\ Ended(b, "closing").stop = "no"
  BY <1>2, FreshTyped DEF Ended
<1>4. build' = [build EXCEPT ![b] = Ended(b, "closing")] /\ generation' = None
  BY DEF Finish
<1>5. LeavesAs(b, Ended(b, "closing"))
  BY <1>3, <1>4 DEF LeavesAs
<1>6. turn' \in [Turns -> TurnType]
  <2>1. \A t \in Turns : [turn[t] EXCEPT !.signal = "cleared"] \in TurnType /\ turn[t] \in TurnType
    BY <1>1 DEF TurnType, Signals
  <2> QED
    BY <2>1 DEF Finish
<1> QED
  BY <1>1, <1>3, <1>5, <1>6 DEF Leaves, Finish

(* executeReviewCycle reviews once and then ends the build.                *)
LEMMA ReviewLeaves ==
  ASSUME TypeOK, NEW b \in Builds, Review(b)
  PROVE  Leaves(b)
<1>1. CASE reviewed
  BY <1>1, FinishLeaves DEF Review
<1>2. CASE ~reviewed
  <2>1. /\ Stage(b, "review") \in BuildType
        /\ Stage(b, "review").pc = "review" /\ Stage(b, "review").final = build[b].final
        /\ Stage(b, "review").phase = 0 /\ Stage(b, "review").ctx = {}
        /\ Stage(b, "review").signal = "none" /\ Stage(b, "review").stop = build[b].stop
    BY StageTyped DEF Running
  <2>2. /\ build' = [build EXCEPT ![b] = Stage(b, "review")]
        /\ generation' = generation /\ turn' = turn /\ reviewed' = TRUE
    BY <1>2 DEF Review
  <2>3. LeavesAs(b, Stage(b, "review"))
    BY <2>1, <2>2 DEF LeavesAs
  <2> QED
    BY <2>1, <2>2, <2>3 DEF Leaves, TypeOK
<1> QED
  BY <1>1, <1>2

(* Build b plans the final phase.                                          *)
FinalAs(b, r) ==
  /\ build' = [build EXCEPT ![b] = r]
  /\ r.pc = "planIssues" /\ r.final /\ r.phase = 0 /\ r.ctx = {} /\ r.signal = "none"
  /\ r.stop = build[b].stop

(* executeFinalizing leaves the phases, or plans the final one.            *)
LEMMA FinalizeStep ==
  ASSUME TypeOK, NEW b \in Builds, Finalize(b)
  PROVE  \/ ~mvp /\ mvp' = TRUE /\ finals' = finals /\ Leaves(b)
         \/ /\ mvp /\ mvp' = mvp /\ finals' = finals + 1
            /\ reviewed' = reviewed /\ generation' = generation /\ turn' = turn
            /\ \E r \in BuildType : FinalAs(b, r)
<1>1. CASE ~mvp
  BY <1>1, ReviewLeaves DEF Finalize
<1>2. CASE mvp
  <2> DEFINE r == [Stage(b, "planIssues") EXCEPT !.final = TRUE]
  <2>1. /\ r \in BuildType
        /\ r.pc = "planIssues" /\ r.final /\ r.phase = 0 /\ r.ctx = {}
        /\ r.signal = "none" /\ r.stop = build[b].stop
    BY FinalTyped
  <2>2. /\ build' = [build EXCEPT ![b] = r] /\ finals' = finals + 1
        /\ UNCHANGED <<mvp, reviewed, generation, turn>>
    BY <1>2 DEF Finalize
  <2> HIDE DEF r
  <2>3. FinalAs(b, r)
    BY <2>1, <2>2 DEF FinalAs
  <2> QED
    BY <1>2, <2>1, <2>2, <2>3
<1> QED
  BY <1>1, <1>2 DEF TypeOK

(* The part of TypeOK about builds.                                        *)
BuildsOK ==
  /\ build \in [Builds -> BuildType]
  /\ \A x \in Builds : build[x].phase \in 0..Len(phases) /\ build[x].ctx \subseteq asked
  /\ \A x \in Builds : build[x].pc \in Coding <=> build[x].phase # 0

(* The record of build b is replaced by r, a typed one.                    *)
Updates(b, r) ==
  /\ build' = [build EXCEPT ![b] = r]
  /\ r \in BuildType
  /\ phases' \in Seq(PhaseType) /\ Len(phases) <= Len(phases') /\ asked \subseteq asked'
  /\ r.phase \in 0..Len(phases') /\ r.ctx \subseteq asked'
  /\ r.pc \in Coding <=> r.phase # 0

(* A step that replaces the record of one build keeps builds typed.        *)
LEMMA UpdateTyped ==
  ASSUME TypeOK, NEW b \in Builds, NEW r, Updates(b, r)
  PROVE  BuildsOK'
<1>1. /\ build \in [Builds -> BuildType]
      /\ \A x \in Builds : build[x].phase \in 0..Len(phases) /\ build[x].ctx \subseteq asked
      /\ \A x \in Builds : build[x].pc \in Coding <=> build[x].phase # 0
  BY DEF TypeOK
<1>2. Len(phases) \in Nat /\ Len(phases') \in Nat
  BY LenProperties DEF TypeOK, Updates
<1>3. \A x \in Builds : build'[x] = IF x = b THEN r ELSE build[x]
  BY <1>1 DEF Updates
<1>4. build' \in [Builds -> BuildType]
  BY <1>1 DEF Updates
<1>5. 0..Len(phases) \subseteq 0..Len(phases')
  BY <1>2 DEF Updates
<1> QED
  BY <1>1, <1>3, <1>4, <1>5 DEF BuildsOK, Updates

(* A build that leaves its phases keeps the state typed.                   *)
LEMMA LeavesTyped ==
  ASSUME TypeOK, NEW b \in Builds, Leaves(b),
         phases' \in Seq(PhaseType), Len(phases) = Len(phases'), asked' = asked
  PROVE  /\ BuildsOK'
         /\ generation' \in Builds \cup {None}
         /\ turn' \in [Turns -> TurnType] /\ reviewed' \in BOOLEAN
<1>1. PICK r \in BuildType : LeavesAs(b, r)
  BY DEF Leaves
<1>2. /\ build' = [build EXCEPT ![b] = r] /\ r.phase = 0 /\ r.ctx = {} /\ r.pc \notin Coding
      /\ generation' \in {None, generation}
  BY <1>1 DEF LeavesAs, Coding
<1>3. Len(phases) \in Nat
  BY LenProperties DEF TypeOK
<1>4. BuildsOK'
  <2>1. Updates(b, r)
    BY <1>2, <1>3 DEF Updates
  <2> QED
    BY <2>1, UpdateTyped
<1> QED
  BY <1>2, <1>4 DEF Leaves, TypeOK

(* A build that is started is typed.                                       *)
LEMMA StartTyped ==
  ASSUME TypeOK, NEW b \in Builds, NEW o \in {"generate", "resume", "message"}, StartBuild(b, o),
         phases' = phases, asked' = asked
  PROVE  /\ build' = [build EXCEPT ![b] = Fresh("template", o)] /\ Fresh("template", o) \in BuildType
         /\ BuildsOK'
         /\ generation' \in Builds \cup {None}
<1>1. /\ build' = [build EXCEPT ![b] = Fresh("template", o)] /\ generation' = b
      /\ Fresh("template", o) \in BuildType /\ Fresh("template", o).phase = 0
      /\ Fresh("template", o).ctx = {} /\ Fresh("template", o).pc \notin Coding
  BY FreshTyped DEF StartBuild, Running, Coding
<1>2. phases \in Seq(PhaseType) /\ Len(phases) \in Nat
  BY LenProperties DEF TypeOK
<1>3. BuildsOK'
  <2>1. Updates(b, Fresh("template", o))
    BY <1>1, <1>2 DEF Updates
  <2> QED
    BY <2>1, UpdateTyped
<1> QED
  BY <1>1, <1>3

-----------------------------------------------------------------------------
(* Type correctness.                                                       *)

(* The initial states are typed.                                           *)
LEMMA InitTyped == Init => TypeOK
<1> SUFFICES ASSUME Init PROVE TypeOK
  OBVIOUS
<1>1. phases \in Seq(PhaseType) /\ Len(phases) = 0 /\ 0..Len(phases) = {0}
  BY EmptySeq DEF Init
<1>2. FreeBuild \in BuildType /\ FreeBuild.phase = 0 /\ FreeBuild.ctx = {} /\ FreeBuild.pc = "free"
  BY FreshTyped DEF FreeBuild
<1>3. IdleTurn \in TurnType
  BY DEF IdleTurn, TurnType, Signals
<1>4. counter \in Int
  <2>1. MaxPhases \in Int /\ Cloned \subseteq Int
    BY BudgetAssumption
  <2> QED
    BY <2>1 DEF Init
<1>5. /\ build \in [Builds -> BuildType] /\ turn \in [Turns -> TurnType]
      /\ \A b \in Builds : build[b] = FreeBuild
  BY <1>2, <1>3 DEF Init
<1> QED
  BY <1>1, <1>2, <1>4, <1>5 DEF Init, TypeOK, Coding

(* One step: a case for each action.                                       *)
LEMMA NextTyped == TypeOK /\ [Next]_vars => TypeOK'
<1> SUFFICES ASSUME TypeOK, [Next]_vars PROVE TypeOK'
  OBVIOUS
<1> USE DEF durable, memory, history
<1>0. /\ phases \in Seq(PhaseType) /\ Len(phases) \in Nat /\ DOMAIN phases = 1..Len(phases)
      /\ \A b \in Builds : build[b] \in BuildType
  BY LenProperties DEF TypeOK
<1>1. ASSUME NEW b \in Builds, TemplateReady(b) PROVE TypeOK'
  <2>1. UNCHANGED <<pending, mvp, reviewed, counter, wanted, generation, turn, history>> /\ template' = TRUE
    BY <1>1 DEF TemplateReady
  <2>2. CASE phases' = phases /\ \E i \in DOMAIN phases : build' = [build EXCEPT ![b] = Implementing(b, i)]
    <3>1. PICK i \in 1..Len(phases) : build' = [build EXCEPT ![b] = Implementing(b, i)]
      BY <1>0, <2>2
    <3>2. /\ Implementing(b, i) \in BuildType
          /\ Implementing(b, i).pc = "codeIssues" /\ Implementing(b, i).phase = i
          /\ Implementing(b, i).ctx = build[b].ctx
      BY <1>0, ImplementingTyped
    <3>3. Implementing(b, i).pc \in Coding /\ i # 0 /\ i \in 0..Len(phases)
          /\ build[b].ctx \subseteq asked
      BY <1>0, <3>2 DEF Coding, TypeOK
    <3>4. BuildsOK'
      <4>1. /\ phases' = phases /\ asked' = asked
            /\ Implementing(b, i).pc \in Coding /\ Implementing(b, i).phase # 0
            /\ Implementing(b, i).phase \in 0..Len(phases)
            /\ Implementing(b, i).ctx \subseteq asked
        BY <2>1, <2>2, <3>2, <3>3
      <4>2. Updates(b, Implementing(b, i))
        BY <1>0, <3>1, <3>2, <4>1 DEF Updates
      <4> QED
        BY <4>2, UpdateTyped
    <3> QED
      BY <2>1, <2>2, <3>4 DEF TypeOK, BuildsOK
  <2>3. CASE phases' = phases /\ build' = [build EXCEPT ![b] = Stage(b, "planIssues")]
    <3>1. /\ Stage(b, "planIssues") \in BuildType /\ Stage(b, "planIssues").pc \notin Coding
          /\ Stage(b, "planIssues").phase = 0 /\ Stage(b, "planIssues").ctx = {}
      BY StageTyped DEF Running, Planning, Coding
    <3>2. BuildsOK'
      <4>1. Updates(b, Stage(b, "planIssues"))
        BY <1>0, <2>1, <2>3, <3>1 DEF Updates
      <4> QED
        BY <4>1, UpdateTyped
    <3> QED
      BY <2>1, <2>3, <3>2 DEF TypeOK, BuildsOK
  <2>4. CASE /\ phases = << >>
             /\ phases' = <<[name |-> InitialName, last |-> FALSE, asks |-> {}, completed |-> FALSE]>>
             /\ build' = [build EXCEPT ![b] = Implementing(b, 1)]
    <3>1. [name |-> InitialName, last |-> FALSE, asks |-> {}, completed |-> FALSE] \in PhaseType
      BY NameAssumption DEF PhaseType
    <3>2. phases' \in Seq(PhaseType) /\ Len(phases') = 1 /\ Len(phases) = 0
      BY <2>4, <3>1
    <3>3. /\ Implementing(b, 1) \in BuildType
          /\ Implementing(b, 1).pc = "codeIssues" /\ Implementing(b, 1).phase = 1
          /\ Implementing(b, 1).ctx = build[b].ctx
      BY ImplementingTyped
    <3>4. Implementing(b, 1).pc \in Coding /\ 1 \in 0..Len(phases') /\ build[b].ctx \subseteq asked
      BY <3>2, <3>3 DEF Coding, TypeOK
    <3>5. BuildsOK'
      <4>1. Updates(b, Implementing(b, 1))
        BY <2>1, <2>4, <3>2, <3>3, <3>4 DEF Updates
      <4> QED
        BY <4>1, UpdateTyped
    <3> QED
      BY <2>1, <3>2, <3>5 DEF TypeOK, BuildsOK
  <2> QED
    BY <1>1, <2>2, <2>3, <2>4 DEF TemplateReady, Incomplete
<1>2. ASSUME NEW b \in Builds, TemplateFails(b) PROVE TypeOK'
  <2>1. build[b].origin \in {"none", "generate", "resume", "message"}
    BY <1>0 DEF BuildType
  <2>2. /\ Ended(b, "rejected") \in BuildType /\ Ended(b, "rejected").pc \notin Coding
        /\ Ended(b, "rejected").phase = 0 /\ Ended(b, "rejected").ctx = {}
    BY <2>1, FreshTyped DEF Ended, Coding
  <2>3. /\ build' = [build EXCEPT ![b] = Ended(b, "rejected")]
        /\ UNCHANGED <<durable, generation, turn, template, history>>
    BY <1>2 DEF TemplateFails
  <2>4. BuildsOK'
    <3>1. Updates(b, Ended(b, "rejected"))
      BY <1>0, <2>2, <2>3 DEF Updates
    <3> QED
      BY <3>1, UpdateTyped
  <2> QED
    BY <2>3, <2>4 DEF TypeOK, BuildsOK
<1>3. ASSUME NEW b \in Builds, PlanIssuesArrive(b) PROVE TypeOK'
  <2> DEFINE r == [build[b] EXCEPT !.pc = "planning", !.ctx = pending, !.signal = "current"]
  <2>1. build[b].phase = 0 /\ pending \subseteq Requests /\ pending \subseteq asked
    BY <1>3 DEF PlanIssuesArrive, TypeOK, Coding
  <2>2. r \in BuildType /\ r.pc \notin Coding /\ r.phase = 0 /\ r.ctx = pending
    BY <1>0, <2>1 DEF BuildType, Running, Planning, Signals, Coding
  <2>3. /\ build' = [build EXCEPT ![b] = r] /\ pending' = {}
        /\ UNCHANGED <<phases, mvp, reviewed, counter, wanted, generation, turn, template, history>>
    BY <1>3 DEF PlanIssuesArrive
  <2> HIDE DEF r
  <2>4. BuildsOK'
    <3>1. Updates(b, r)
      BY <1>0, <2>1, <2>2, <2>3 DEF Updates
    <3> QED
      BY <3>1, UpdateTyped
  <2> QED
    BY <2>3, <2>4 DEF TypeOK, BuildsOK
<1>4. ASSUME NEW b \in Builds, PlanEmpty(b) PROVE TypeOK'
  <2>1. /\ lost' = lost \cup build[b].ctx
        /\ UNCHANGED <<phases, pending, counter, wanted, template, asked, budget>>
    BY <1>4 DEF PlanEmpty
  <2>2. lost' \subseteq asked
    BY <2>1 DEF TypeOK
  <2>3. CASE Leaves(b) /\ mvp' \in BOOLEAN /\ finals' \in Nat
    BY <1>0, <2>1, <2>2, <2>3, LeavesTyped DEF TypeOK, BuildsOK
  <2>4. CASE /\ mvp' = mvp /\ finals' = finals + 1
             /\ reviewed' = reviewed /\ generation' = generation /\ turn' = turn
             /\ \E r \in BuildType : FinalAs(b, r)
    <3>1. PICK r \in BuildType : FinalAs(b, r)
      BY <2>4
    <3>2. build' = [build EXCEPT ![b] = r] /\ r.pc \notin Coding /\ r.phase = 0 /\ r.ctx = {}
      BY <3>1 DEF FinalAs, Coding
    <3>3. BuildsOK'
      <4>1. Updates(b, r)
        BY <1>0, <2>1, <3>2 DEF Updates
      <4> QED
        BY <4>1, UpdateTyped
    <3> QED
      BY <2>1, <2>2, <2>4, <3>3 DEF TypeOK, BuildsOK
  <2> QED
    BY <1>4, <2>3, <2>4, FinalizeStep, ReviewLeaves DEF PlanEmpty, TypeOK
<1>5. ASSUME NEW b \in Builds, NEW name \in Names, NEW last \in BOOLEAN, PlanArrives(b, name, last)
      PROVE  TypeOK'
  <2> DEFINE p == [name |-> name, last |-> last, asks |-> build[b].ctx, completed |-> FALSE]
  <2>1. build[b].ctx \subseteq asked /\ asked \subseteq Requests
    BY DEF TypeOK
  <2>2. p \in PhaseType
    BY <2>1 DEF PhaseType
  <2>3. /\ phases' = Append(phases, p)
        /\ build' = [build EXCEPT ![b] = Implementing(b, Len(phases) + 1)]
        /\ UNCHANGED <<pending, mvp, reviewed, counter, wanted, generation, turn, template, history>>
    BY <1>5 DEF PlanArrives
  <2> HIDE DEF p
  <2>4. phases' \in Seq(PhaseType) /\ Len(phases') = Len(phases) + 1
    BY <1>0, <2>2, <2>3, AppendTyped
  <2>5. /\ Implementing(b, Len(phases) + 1) \in BuildType
        /\ Implementing(b, Len(phases) + 1).pc = "codeIssues"
        /\ Implementing(b, Len(phases) + 1).phase = Len(phases) + 1
        /\ Implementing(b, Len(phases) + 1).ctx = build[b].ctx
    BY <1>0, ImplementingTyped
  <2>6. /\ Implementing(b, Len(phases) + 1).pc \in Coding
        /\ Len(phases) + 1 # 0 /\ Len(phases) + 1 \in 0..Len(phases') /\ Len(phases) <= Len(phases')
    BY <1>0, <2>4, <2>5 DEF Coding
  <2>7. BuildsOK'
    <3>1. Updates(b, Implementing(b, Len(phases) + 1))
      BY <2>1, <2>3, <2>4, <2>5, <2>6 DEF Updates
    <3> QED
      BY <3>1, UpdateTyped
  <2> QED
    BY <2>3, <2>4, <2>7 DEF TypeOK, BuildsOK
<1>6. ASSUME NEW b \in Builds, NEW rl \in BOOLEAN, PlanFails(b, rl) PROVE TypeOK'
  <2>1. /\ lost' = lost \cup build[b].ctx
        /\ UNCHANGED <<phases, pending, mvp, counter, wanted, template, asked, finals, budget>>
    BY <1>6 DEF PlanFails
  <2>2. lost' \subseteq asked
    BY <2>1 DEF TypeOK
  <2>3. Leaves(b)
    BY <1>6, FinishLeaves, ReviewLeaves DEF PlanFails
  <2> QED
    BY <1>0, <2>1, <2>2, <2>3, LeavesTyped DEF TypeOK, BuildsOK
<1>7. ASSUME NEW b \in Builds, NEW rl \in BOOLEAN, CodeFails(b, rl) PROVE TypeOK'
  <2>1. UNCHANGED <<phases, pending, mvp, counter, wanted, template, history>>
    BY <1>7 DEF CodeFails
  <2>2. Leaves(b)
    BY <1>7, FinishLeaves, ReviewLeaves DEF CodeFails
  <2> QED
    BY <1>0, <2>1, <2>2, LeavesTyped DEF TypeOK, BuildsOK
<1>8. ASSUME NEW b \in Builds, CodeIssuesArrive(b) \/ CodeArrives(b) PROVE TypeOK'
  <2>1. PICK pc \in {"coding", "deploying"}, sig \in {"current", "none"} :
          build' = [build EXCEPT ![b] = [build[b] EXCEPT !.pc = pc, !.signal = sig]]
    BY <1>8 DEF CodeIssuesArrive, CodeArrives
  <2>2. UNCHANGED <<durable, generation, turn, template, history>> /\ build[b].pc \in Coding
    BY <1>8 DEF CodeIssuesArrive, CodeArrives, Coding
  <2> DEFINE r == [build[b] EXCEPT !.pc = pc, !.signal = sig]
  <2>3. build[b].phase # 0 /\ build[b].phase \in 0..Len(phases) /\ build[b].ctx \subseteq asked
    BY <2>2 DEF TypeOK
  <2>4. r \in BuildType /\ r.pc \in Coding /\ r.phase = build[b].phase /\ r.ctx = build[b].ctx
    BY <1>0 DEF BuildType, Running, Coding, Signals
  <2>6. build' = [build EXCEPT ![b] = r]
    BY <2>1
  <2> HIDE DEF r
  <2>5. BuildsOK'
    <3>1. Updates(b, r)
      BY <1>0, <2>2, <2>3, <2>4, <2>6 DEF Updates
    <3> QED
      BY <3>1, UpdateTyped
  <2> QED
    BY <2>2, <2>5 DEF TypeOK, BuildsOK
<1>9. ASSUME NEW b \in Builds, PhaseDeployed(b) PROVE TypeOK'
  <2>1. /\ phases' = Completed(phases, phases[build[b].phase].name) /\ counter' = counter - 1
        /\ UNCHANGED <<pending, wanted, template, asked, lost, budget>>
        /\ build[b].pc \in Coding
    BY <1>9 DEF PhaseDeployed, Coding
  <2>2. build[b].phase \in DOMAIN phases
    BY <1>0, <2>1 DEF TypeOK
  <2>3. phases[build[b].phase].name \in Names
    <3>1. phases[build[b].phase] \in PhaseType
      BY <1>0, <2>2
    <3> QED
      BY <3>1 DEF PhaseType
  <2>4. phases' \in Seq(PhaseType) /\ Len(phases') = Len(phases) /\ counter' \in Int
    BY <1>0, <2>1, <2>3, CompletedTyped DEF TypeOK
  <2>5. CASE Leaves(b) /\ mvp' \in BOOLEAN /\ finals' \in Nat
    BY <1>0, <2>1, <2>4, <2>5, LeavesTyped DEF TypeOK, BuildsOK
  <2>6. CASE /\ mvp' \in BOOLEAN /\ finals' \in Nat
             /\ reviewed' = reviewed /\ generation' = generation /\ turn' = turn
             /\ \E r \in BuildType : /\ build' = [build EXCEPT ![b] = r]
                                     /\ r.pc = "planIssues" /\ r.phase = 0 /\ r.ctx = {}
    <3>1. PICK r \in BuildType : /\ build' = [build EXCEPT ![b] = r]
                                 /\ r.pc = "planIssues" /\ r.phase = 0 /\ r.ctx = {}
      BY <2>6
    <3>2. r.pc \notin Coding
      BY <3>1 DEF Coding
    <3>3. BuildsOK'
      <4>1. Updates(b, r)
        BY <1>0, <2>1, <2>4, <3>1, <3>2 DEF Updates
      <4> QED
        BY <4>1, UpdateTyped
    <3> QED
      BY <2>1, <2>4, <2>6, <3>3 DEF TypeOK, BuildsOK
  <2>7. CASE build[b].final
    <3>1. Leaves(b) /\ mvp' = mvp /\ finals' = finals
      BY <1>9, <2>7, ReviewLeaves DEF PhaseDeployed
    <3> QED
      BY <2>5, <3>1 DEF TypeOK
  <2>8. CASE ~build[b].final /\ Finalize(b)
    <3>1. \/ Leaves(b) /\ mvp' \in BOOLEAN /\ finals' \in Nat
          \/ /\ mvp' \in BOOLEAN /\ finals' \in Nat
             /\ reviewed' = reviewed /\ generation' = generation /\ turn' = turn
             /\ \E r \in BuildType : FinalAs(b, r)
      <4>1. mvp \in BOOLEAN /\ finals \in Nat
        BY DEF TypeOK
      <4>2. \/ ~mvp /\ mvp' = TRUE /\ finals' = finals /\ Leaves(b)
            \/ /\ mvp /\ mvp' = mvp /\ finals' = finals + 1
               /\ reviewed' = reviewed /\ generation' = generation /\ turn' = turn
               /\ \E r \in BuildType : FinalAs(b, r)
        BY <2>8, FinalizeStep
      <4>3. finals + 1 \in Nat
        BY <4>1
      <4> QED
        BY <4>1, <4>2, <4>3
    <3> QED
      BY <2>5, <2>6, <3>1 DEF FinalAs
  <2>9. CASE /\ build' = [build EXCEPT ![b] = Stage(b, "planIssues")]
             /\ UNCHANGED <<mvp, reviewed, generation, turn, finals>>
    <3>1. /\ Stage(b, "planIssues") \in BuildType /\ Stage(b, "planIssues").pc = "planIssues"
          /\ Stage(b, "planIssues").phase = 0 /\ Stage(b, "planIssues").ctx = {}
      BY StageTyped DEF Running, Planning
    <3> QED
      BY <2>6, <2>9, <3>1 DEF TypeOK
  <2> QED
    BY <1>9, <2>7, <2>8, <2>9 DEF PhaseDeployed
<1>10. ASSUME NEW b \in Builds, ReviewReturns(b) PROVE TypeOK'
  <2>1. Leaves(b) /\ UNCHANGED <<phases, pending, mvp, counter, wanted, template, history>>
    BY <1>10, FinishLeaves DEF ReviewReturns
  <2> QED
    BY <1>0, <2>1, LeavesTyped DEF TypeOK, BuildsOK
<1>11. ASSUME NEW b \in Builds, BuildReturns(b) PROVE TypeOK'
  <2>1. /\ build' = [build EXCEPT ![b] = FreeBuild] /\ wanted' \in BOOLEAN
        /\ UNCHANGED <<phases, pending, mvp, reviewed, counter, generation, turn, template, history>>
    BY <1>11 DEF BuildReturns, TypeOK
  <2>2. FreeBuild \in BuildType /\ FreeBuild.phase = 0 /\ FreeBuild.ctx = {} /\ FreeBuild.pc \notin Coding
    BY FreshTyped DEF FreeBuild, Coding
  <2>3. BuildsOK'
    <3>1. Updates(b, FreeBuild)
      BY <1>0, <2>1, <2>2 DEF Updates
    <3> QED
      BY <3>1, UpdateTyped
  <2> QED
    BY <2>1, <2>3 DEF TypeOK, BuildsOK
<1>12. ASSUME NEW b \in Builds, GenerateAll(b) \/ Resume(b) PROVE TypeOK'
  <2>1. PICK o \in {"generate", "resume", "message"} : StartBuild(b, o)
    BY <1>12 DEF GenerateAll, Resume
  <2>2. wanted' = TRUE /\ UNCHANGED <<phases, pending, mvp, reviewed, counter, turn, template, history>>
    BY <1>12 DEF GenerateAll, Resume
  <2> QED
    BY <2>1, <2>2, StartTyped DEF TypeOK, BuildsOK
<1>13. ASSUME GenerateAllIdle \/ ResumeIdle PROVE TypeOK'
  <2>1. wanted' \in BOOLEAN /\ UNCHANGED <<phases, pending, mvp, reviewed, counter, memory, history>>
    BY <1>13 DEF GenerateAllIdle, ResumeIdle
  <2> QED
    BY <2>1 DEF TypeOK
<1>14. ASSUME Stop PROVE TypeOK'
  <2>1. /\ wanted' = FALSE
        /\ UNCHANGED <<phases, pending, mvp, reviewed, counter, generation, template, history>>
    BY <1>14 DEF Stop
  <2> DEFINE s(b) == IF build[b].signal = "current" THEN "heard"
                     ELSE IF build[b].pc \in Running /\ build[b].stop = "no" THEN "missed"
                     ELSE build[b].stop
             r(b) == [build[b] EXCEPT !.signal = Aborted(build[b].signal), !.stop = s(b)]
             u(t) == [turn[t] EXCEPT !.signal = Aborted(turn[t].signal)]
  <2>2. build' = [b \in Builds |-> r(b)] /\ turn' = [t \in Turns |-> u(t)]
    BY <1>14 DEF Stop
  <2>3. ASSUME NEW b \in Builds
        PROVE  r(b) \in BuildType /\ r(b).pc = build[b].pc /\ r(b).phase = build[b].phase
               /\ r(b).ctx = build[b].ctx
    <3>1. s(b) \in {"no", "heard", "missed"} /\ Aborted(build[b].signal) \in Signals
      BY <1>0 DEF BuildType, Aborted, Signals
    <3> HIDE DEF s
    <3> QED
      BY <1>0, <3>1 DEF BuildType
  <2>4. ASSUME NEW t \in Turns PROVE u(t) \in TurnType
    <3>1. turn[t] \in TurnType
      BY DEF TypeOK
    <3> QED
      BY <3>1 DEF TurnType, Aborted, Signals
  <2> HIDE DEF r, u, s
  <2>5. build' \in [Builds -> BuildType] /\ turn' \in [Turns -> TurnType]
    BY <2>2, <2>3, <2>4
  <2>6. \A b \in Builds : build'[b].pc = build[b].pc /\ build'[b].phase = build[b].phase
                          /\ build'[b].ctx = build[b].ctx
    BY <2>2, <2>3
  <2> QED
    BY <2>1, <2>5, <2>6 DEF TypeOK
<1>15. ASSUME NEW t \in Turns, NEW r \in Requests, QueueRequest(t, r) PROVE TypeOK'
  <2>1. /\ counter' = (IF counter <= Recharge THEN Recharge ELSE counter)
        /\ pending' = pending \cup {r} /\ asked' = asked \cup {r}
        /\ UNCHANGED <<phases, mvp, reviewed, wanted, memory, lost, finals, budget>>
    BY <1>15 DEF QueueRequest, RechargeTo
  <2>2. counter' \in Int
    BY <2>1, BudgetAssumption DEF TypeOK
  <2> QED
    BY <2>1, <2>2 DEF TypeOK
<1>16. ASSUME NEW t \in Turns, NEW ask \in BOOLEAN,
              Say(t, ask) \/ TurnPrepared(t) \/ TurnFails(t) PROVE TypeOK'
  <2>1. turn[t] \in TurnType /\ template \in BOOLEAN
    BY DEF TypeOK
  <2>2. turn' \in [Turns -> TurnType]
    <3>1. \A y \in TurnType : [turn EXCEPT ![t] = y] \in [Turns -> TurnType]
      BY DEF TypeOK
    <3>2. CASE Say(t, ask)
      <4>1. [pc |-> "preparing", ask |-> ask, signal |-> "none"] \in TurnType
        BY DEF TurnType, Signals
      <4> QED
        BY <3>1, <3>2, <4>1 DEF Say
    <3>3. CASE TurnPrepared(t)
      <4>1. [turn[t] EXCEPT !.pc = "talking", !.signal = "current"] \in TurnType
        BY <2>1 DEF TurnType, Signals
      <4>2. turn' = [turn EXCEPT ![t] = [turn[t] EXCEPT !.pc = "talking", !.signal = "current"]]
        BY <3>3 DEF TurnPrepared, TypeOK
      <4> QED
        BY <3>1, <4>1, <4>2
    <3>4. CASE TurnFails(t)
      <4>1. IdleTurn \in TurnType
        BY DEF IdleTurn, TurnType, Signals
      <4> QED
        BY <3>1, <3>4, <4>1 DEF TurnFails
    <3> QED
      BY <1>16, <3>2, <3>3, <3>4
  <2>3. UNCHANGED <<durable, generation, build, history>> /\ template' \in BOOLEAN
    BY <1>16, <2>1 DEF Say, TurnPrepared, TurnFails
  <2> QED
    BY <2>2, <2>3 DEF TypeOK
<1>17. ASSUME NEW t \in Turns, NEW b \in Builds, TurnEnds(t, b) PROVE TypeOK'
  <2>1. turn' = [turn EXCEPT ![t] = IdleTurn] /\ UNCHANGED <<durable, template, history>>
    BY <1>17 DEF TurnEnds
  <2>2. IdleTurn \in TurnType
    BY DEF IdleTurn, TurnType, Signals
  <2>3. turn' \in [Turns -> TurnType]
    BY <2>1, <2>2 DEF TypeOK
  <2>4. CASE StartBuild(b, "message")
    BY <2>1, <2>3, <2>4, StartTyped DEF TypeOK, BuildsOK
  <2>5. CASE UNCHANGED <<generation, build>>
    BY <2>1, <2>3, <2>5 DEF TypeOK
  <2> QED
    BY <1>17, <2>4, <2>5 DEF TurnEnds
<1>18. ASSUME Restart PROVE TypeOK'
  <2>1. /\ generation' = None /\ build' = [b \in Builds |-> FreeBuild]
        /\ turn' = [t \in Turns |-> IdleTurn] /\ template' = TRUE
        /\ UNCHANGED <<durable, asked, finals, budget>>
    BY <1>18 DEF Restart
  <2>2. lost' \subseteq asked
    BY <1>18 DEF Restart, TypeOK
  <2>3. FreeBuild \in BuildType /\ FreeBuild.phase = 0 /\ FreeBuild.ctx = {} /\ FreeBuild.pc \notin Coding
    BY FreshTyped DEF FreeBuild, Coding
  <2>4. IdleTurn \in TurnType
    BY DEF IdleTurn, TurnType, Signals
  <2>5. BuildsOK'
    BY <1>0, <2>1, <2>3 DEF BuildsOK
  <2>6. turn' \in [Turns -> TurnType]
    BY <2>1, <2>4
  <2> QED
    BY <2>1, <2>2, <2>5, <2>6 DEF TypeOK, BuildsOK
<1>19. CASE UNCHANGED vars
  BY <1>19 DEF vars, TypeOK
<1> QED
  BY <1>1, <1>2, <1>3, <1>4, <1>5, <1>6, <1>7, <1>8, <1>9, <1>10, <1>11, <1>12, <1>13,
     <1>14, <1>15, <1>16, <1>17, <1>18, <1>19 DEF Next, BuildStep

(* TypeOK holds in every reachable state of the generator: in particular   *)
(* every request in the queue or in a build was asked for, and a build     *)
(* holds a phase exactly while it implements one.                          *)
THEOREM TypeCorrect == Spec => []TypeOK
BY InitTyped, NextTyped, PTL DEF Spec

-----------------------------------------------------------------------------
(* What a step does to the fields the invariant reads.                     *)

Moves(b, pc, final, phase, signal, stop) ==
  \A x \in Builds :
    /\ build'[x].pc = IF x = b THEN pc ELSE build[x].pc
    /\ build'[x].final = IF x = b THEN final ELSE build[x].final
    /\ build'[x].phase = IF x = b THEN phase ELSE build[x].phase
    /\ build'[x].signal = IF x = b THEN signal ELSE build[x].signal
    /\ build'[x].stop = IF x = b THEN stop ELSE build[x].stop

(* A new record for one build, field by field.                             *)
LEMMA RecordMoves ==
  ASSUME TypeOK, NEW b \in Builds, NEW r, build' = [build EXCEPT ![b] = r]
  PROVE  Moves(b, r.pc, r.final, r.phase, r.signal, r.stop)
<1>1. \A x \in Builds : build'[x] = IF x = b THEN r ELSE build[x]
  BY DEF TypeOK
<1> QED
  BY <1>1 DEF Moves

(* A build on its way to the next phase, field by field.                   *)
LEMMA StageMoves ==
  ASSUME TypeOK, NEW b \in Builds, NEW pc \in Running, build' = [build EXCEPT ![b] = Stage(b, pc)]
  PROVE  Moves(b, pc, build[b].final, 0, "none", build[b].stop)
<1>1. /\ Stage(b, pc).pc = pc /\ Stage(b, pc).final = build[b].final
      /\ Stage(b, pc).phase = 0 /\ Stage(b, pc).signal = "none"
      /\ Stage(b, pc).stop = build[b].stop
  BY StageTyped
<1>2. Moves(b, Stage(b, pc).pc, Stage(b, pc).final, Stage(b, pc).phase, Stage(b, pc).signal,
            Stage(b, pc).stop)
  BY RecordMoves
<1> QED
  BY <1>1, <1>2

(* A build that implements phase i, field by field.                        *)
LEMMA ImplementingMoves ==
  ASSUME TypeOK, NEW b \in Builds, NEW i \in Nat, build' = [build EXCEPT ![b] = Implementing(b, i)]
  PROVE  Moves(b, "codeIssues", build[b].final, i, "none", build[b].stop)
<1>1. /\ Implementing(b, i).pc = "codeIssues" /\ Implementing(b, i).final = build[b].final
      /\ Implementing(b, i).phase = i /\ Implementing(b, i).signal = "none"
      /\ Implementing(b, i).stop = build[b].stop
  BY ImplementingTyped
<1>2. Moves(b, Implementing(b, i).pc, Implementing(b, i).final, Implementing(b, i).phase,
            Implementing(b, i).signal, Implementing(b, i).stop)
  BY RecordMoves
<1> QED
  BY <1>1, <1>2

(* The two ways out of the phases, field by field.                         *)
LEMMA LeavesMoves ==
  ASSUME TypeOK, NEW b \in Builds, Leaves(b)
  PROVE  \/ generation' = None /\ Moves(b, "closing", FALSE, 0, "none", "no")
         \/ /\ generation' = generation
            /\ Moves(b, "review", build[b].final, 0, "none", build[b].stop)
<1>1. PICK r \in BuildType : LeavesAs(b, r)
  BY DEF Leaves
<1>2. Moves(b, r.pc, r.final, r.phase, r.signal, r.stop)
  BY <1>1, RecordMoves DEF LeavesAs
<1>3. r.final \in BOOLEAN
  BY DEF BuildType
<1> QED
  BY <1>1, <1>2, <1>3 DEF LeavesAs

(* The final planning of executeFinalizing, field by field.                *)
LEMMA FinalMoves ==
  ASSUME TypeOK, NEW b \in Builds, \E r \in BuildType : FinalAs(b, r)
  PROVE  Moves(b, "planIssues", TRUE, 0, "none", build[b].stop)
<1>1. PICK r \in BuildType : FinalAs(b, r)
  OBVIOUS
<1>2. Moves(b, r.pc, r.final, r.phase, r.signal, r.stop)
  BY <1>1, RecordMoves DEF FinalAs
<1>3. r.final = TRUE
  BY <1>1 DEF FinalAs, BuildType
<1> QED
  BY <1>1, <1>2, <1>3 DEF FinalAs

-----------------------------------------------------------------------------
(* Steps that keep parts of the invariant, whatever the action.            *)

(* A build that stays in the machine keeps generationPromise.              *)
LEMMA StaysOneBuild ==
  ASSUME OneBuild, NEW b \in Builds, NEW pc \in Running \cup {"rejected"},
         NEW f, NEW ph, NEW sig, NEW st, Moves(b, pc, f, ph, sig, st),
         build[b].pc \in Running, generation' = generation
  PROVE  OneBuild'
BY DEF OneBuild, Moves

(* A build that leaves the machine gives it up.                            *)
LEMMA LeavesOneBuild ==
  ASSUME TypeOK, OneBuild, NEW b \in Builds, Leaves(b), build[b].pc \in Running
  PROVE  OneBuild'
<1>1. CASE generation' = None /\ Moves(b, "closing", FALSE, 0, "none", "no")
  <2>1. "closing" \notin Running \cup {"rejected"}
    BY DEF Running, Planning, Coding
  <2>2. generation = b
    BY DEF OneBuild
  <2> QED
    BY <1>1, <2>1, <2>2, NoneAssumption DEF OneBuild, Moves
<1>2. CASE generation' = generation /\ Moves(b, "review", build[b].final, 0, "none", build[b].stop)
  <2>1. "review" \in Running
    BY DEF Running
  <2> QED
    BY <1>2, <2>1, StaysOneBuild
<1> QED
  BY <1>1, <1>2, LeavesMoves

(* A build that was not aborted may go on with or without a signal.        *)
LEMMA MovesSignalled ==
  ASSUME Signalled, NEW b \in Builds, NEW pc, NEW f, NEW ph, NEW sig \in {"none", "current"},
         Moves(b, pc, f, ph, sig, build[b].stop),
         build[b].signal # "aborted", build[b].pc # "review",
         sig = "current" <=> pc \in {"planning", "coding"}
  PROVE  Signalled'
BY DEF Signalled, Moves

(* A build that leaves its phases has no signal.                           *)
LEMMA LeavesSignalled ==
  ASSUME TypeOK, Signalled, NEW b \in Builds, Leaves(b)
  PROVE  Signalled'
<1>1. CASE generation' = None /\ Moves(b, "closing", FALSE, 0, "none", "no")
  BY <1>1 DEF Signalled, Moves
<1>2. CASE generation' = generation /\ Moves(b, "review", build[b].final, 0, "none", build[b].stop)
  BY <1>2 DEF Signalled, Moves
<1> QED
  BY <1>1, <1>2, LeavesMoves

(* A build that leaves its phases without touching them leaves them in     *)
(* order, provided a review without a final phase finds them complete.     *)
LEMMA LeavesInOrder ==
  ASSUME TypeOK, InOrder, NEW b \in Builds, Leaves(b), phases' = phases, mvp => mvp',
         build[b].final \/ Incomplete = {} \/ generation' = None, generation # None
  PROVE  InOrder'
<1>1. Incomplete' = Incomplete
  BY DEF Incomplete
<1>2. CASE generation' = None /\ Moves(b, "closing", FALSE, 0, "none", "no")
  BY <1>1, <1>2 DEF InOrder, Moves, Coding, Planning
<1>3. CASE generation' = generation /\ Moves(b, "review", build[b].final, 0, "none", build[b].stop)
  BY <1>1, <1>3 DEF InOrder, Moves, Coding, Planning
<1> QED
  BY <1>2, <1>3, LeavesMoves

(* A build that leaves its phases without touching them spends nothing.    *)
LEMMA LeavesBudgeted ==
  ASSUME TypeOK, OneBuild, Budgeted, NEW b \in Builds, Leaves(b), build[b].pc \in Running,
         mvp => mvp', UNCHANGED <<phases, pending, counter, budget>>
  PROVE  Budgeted'
<1>1. Incomplete' = Incomplete /\ Floor' = Floor /\ Floor \in Int
      /\ phases' = phases /\ pending' = pending /\ counter' = counter /\ counter \in Int
  BY DEF Incomplete, Floor, TypeOK
<1>2. \E pc \in {"closing", "review"} : \A x \in Builds :
        /\ build'[x].pc = IF x = b THEN pc ELSE build[x].pc
        /\ x # b => build'[x].final = build[x].final
  BY LeavesMoves DEF Moves
<1>3. \A x \in Builds : build'[x].pc \notin Planning \cup Coding \cup {"template"} /\ ~Planned'
  BY <1>2 DEF OneBuild, Running, Planning, Coding, Planned
<1> QED
  BY <1>1, <1>3 DEF Budgeted, TypeOK

-----------------------------------------------------------------------------
(* Every step keeps the invariant.                                         *)

Parts == OneBuild /\ Signalled /\ InOrder /\ Budgeted

(* The facts about numbers and stages the cases below share.               *)
LEMMA Basics ==
  ASSUME IInv
  PROVE  /\ counter \in Int /\ budget \in Int /\ Floor \in Int /\ Floor <= -1
         /\ mvp \in BOOLEAN /\ phases \in Seq(PhaseType)
         /\ Len(phases) \in Nat /\ DOMAIN phases = 1..Len(phases)
         /\ Incomplete \subseteq DOMAIN phases
         /\ \A b \in Builds : build[b] \in BuildType
<1>1. counter \in Int /\ budget \in Int /\ mvp \in BOOLEAN /\ phases \in Seq(PhaseType)
      /\ \A b \in Builds : build[b] \in BuildType
  BY DEF IInv, TypeOK
<1>2. Floor \in Int /\ Floor <= -1
  BY <1>1 DEF Floor
<1> QED
  BY <1>1, <1>2, LenProperties DEF Incomplete

(* While b is in the machine no other build is.                            *)
LEMMA Alone ==
  ASSUME OneBuild, NEW b \in Builds, build[b].pc \in Running
  PROVE  /\ generation = b
         /\ \A x \in Builds : x # b => build[x].pc \notin Running
BY DEF OneBuild

(* executePhaseImplementation is entered.                                  *)
LEMMA TemplateReadyKeeps ==
  ASSUME IInv, NEW b \in Builds, TemplateReady(b)
  PROVE  Parts'
<1>0. /\ TypeOK /\ OneBuild /\ Signalled /\ InOrder /\ Budgeted /\ build[b].pc = "template"
      /\ UNCHANGED <<pending, mvp, counter, generation, budget>>
      /\ build[b].pc \in Running /\ build[b].signal = "none" /\ build[b].final = FALSE
      /\ mvp => pending # {}
  BY Basics DEF IInv, TemplateReady, Running, Signalled, InOrder, Budgeted, BuildType, history
<1>1. /\ generation = b
      /\ \A x \in Builds : x # b => build[x].pc \notin Running
  BY <1>0, Alone
<1>2. Floor' = Floor
  BY <1>0 DEF Floor
<1>3. CASE phases' = phases /\ \E i \in Incomplete : build' = [build EXCEPT ![b] = Implementing(b, i)]
  <2>1. PICK i \in Incomplete : build' = [build EXCEPT ![b] = Implementing(b, i)]
    BY <1>3
  <2>2. i \in Nat /\ Incomplete = {i} /\ Incomplete' = {i}
    BY <1>0, <1>3, Basics DEF InOrder, Incomplete
  <2>3. Moves(b, "codeIssues", build[b].final, i, "none", build[b].stop)
    BY <1>0, <2>1, <2>2, ImplementingMoves
  <2>4. OneBuild'
    BY <1>0, <2>3, StaysOneBuild DEF Running, Coding
  <2>5. Signalled'
    BY <1>0, <2>3, MovesSignalled
  <2>6. InOrder'
    BY <1>0, <1>1, <1>3, <2>2, <2>3 DEF InOrder, Moves, Running, Planning, Coding
  <2>7. ~Planned' /\ \A x \in Builds : build'[x].pc \in Planning \cup Coding \cup {"template"} => x = b
    BY <1>1, <2>3 DEF Moves, Running, Planning, Coding, Planned
  <2>8. Budgeted'
    BY <1>0, <1>2, <1>3, <2>2, <2>3, <2>7, Basics DEF Budgeted, Moves
  <2> QED
    BY <2>4, <2>5, <2>6, <2>8 DEF Parts
<1>4. CASE phases' = phases /\ Incomplete = {} /\ build' = [build EXCEPT ![b] = Stage(b, "planIssues")]
  <2>1. Moves(b, "planIssues", build[b].final, 0, "none", build[b].stop)
    BY <1>0, <1>4, StageMoves DEF Running, Planning
  <2>2. Incomplete' = {}
    BY <1>4 DEF Incomplete
  <2>4. OneBuild'
    BY <1>0, <2>1, StaysOneBuild DEF Running, Planning
  <2>5. Signalled'
    BY <1>0, <2>1, MovesSignalled
  <2>6. InOrder'
    BY <1>0, <1>1, <2>1, <2>2 DEF InOrder, Moves, Running, Planning, Coding
  <2>7. ~Planned' /\ \A x \in Builds : build'[x].pc \in Planning \cup Coding \cup {"template"} => x = b
    BY <1>1, <2>1 DEF Moves, Running, Planning, Coding, Planned
  <2>8. Budgeted'
    BY <1>0, <1>2, <1>4, <2>1, <2>2, <2>7, Basics DEF Budgeted, Moves
  <2> QED
    BY <2>4, <2>5, <2>6, <2>8 DEF Parts
<1>5. CASE /\ phases = << >>
           /\ phases' = <<[name |-> InitialName, last |-> FALSE, asks |-> {}, completed |-> FALSE]>>
           /\ build' = [build EXCEPT ![b] = Implementing(b, 1)]
  <2>1. Moves(b, "codeIssues", build[b].final, 1, "none", build[b].stop)
    BY <1>0, <1>5, ImplementingMoves
  <2>2. /\ Incomplete' = {1} /\ Len(phases') = 1 /\ phases' # << >>
    BY <1>5 DEF Incomplete
  <2>4. OneBuild'
    BY <1>0, <2>1, StaysOneBuild DEF Running, Coding
  <2>5. Signalled'
    BY <1>0, <2>1, MovesSignalled
  <2>6. InOrder'
    BY <1>0, <1>1, <2>1, <2>2 DEF InOrder, Moves, Running, Planning, Coding
  <2>7. ~Planned' /\ \A x \in Builds : build'[x].pc \in Planning \cup Coding \cup {"template"} => x = b
    BY <1>1, <2>1 DEF Moves, Running, Planning, Coding, Planned
  <2>8. Budgeted'
    BY <1>0, <1>2, <1>5, <2>1, <2>2, <2>7, Basics DEF Budgeted, Moves
  <2> QED
    BY <2>4, <2>5, <2>6, <2>8 DEF Parts
<1> QED
  BY <1>3, <1>4, <1>5 DEF TemplateReady

(* The plan is asked for, with the requests that were waiting.             *)
LEMMA PlanIssuesArriveKeeps ==
  ASSUME IInv, NEW b \in Builds, PlanIssuesArrive(b)
  PROVE  Parts'
<1>0. /\ TypeOK /\ OneBuild /\ Signalled /\ InOrder /\ Budgeted /\ build[b].pc = "planIssues"
      /\ UNCHANGED <<phases, mvp, counter, generation, budget>> /\ pending' = {}
      /\ build[b].pc \in Running /\ build[b].signal = "none"
  BY DEF IInv, PlanIssuesArrive, Running, Planning, Signalled, history
<1>1. /\ generation = b
      /\ \A x \in Builds : x # b => build[x].pc \notin Running
  BY <1>0, Alone
<1>2. Floor' = Floor /\ Incomplete' = Incomplete
  BY <1>0 DEF Floor, Incomplete
<1> DEFINE r == [build[b] EXCEPT !.pc = "planning", !.ctx = pending, !.signal = "current"]
<1>3. /\ r.pc = "planning" /\ r.final = build[b].final /\ r.phase = build[b].phase
      /\ r.signal = "current" /\ r.stop = build[b].stop
  BY Basics DEF BuildType
<1>4. build' = [build EXCEPT ![b] = r]
  BY DEF PlanIssuesArrive
<1> HIDE DEF r
<1>5. Moves(b, "planning", build[b].final, build[b].phase, "current", build[b].stop)
  BY <1>0, <1>3, <1>4, RecordMoves
<1>6. OneBuild'
  BY <1>0, <1>5, StaysOneBuild DEF Running, Planning
<1>7. Signalled'
  BY <1>0, <1>5, MovesSignalled
<1>8. InOrder'
  BY <1>0, <1>1, <1>2, <1>5 DEF InOrder, Moves, Running, Planning, Coding
<1>9. \A x \in Builds : build'[x].pc \in Planning \cup Coding \cup {"template"}
        => x = b /\ build[x].pc \in Planning /\ build'[x].pc # "template"
  BY <1>0, <1>1, <1>5 DEF Moves, Running, Planning, Coding
<1>10. Budgeted'
  BY <1>0, <1>2, <1>5, <1>9, Basics DEF Budgeted, Moves
<1> QED
  BY <1>6, <1>7, <1>8, <1>10 DEF Parts

(* The plan is a phase: it joins the list, the only incomplete one.        *)
LEMMA PlanArrivesKeeps ==
  ASSUME IInv, NEW b \in Builds, NEW name \in Names, NEW last \in BOOLEAN, PlanArrives(b, name, last)
  PROVE  Parts'
<1>0. /\ TypeOK /\ OneBuild /\ Signalled /\ InOrder /\ Budgeted /\ build[b].pc = "planning"
      /\ UNCHANGED <<pending, mvp, counter, generation, budget>>
      /\ build[b].pc \in Running /\ build[b].signal # "aborted"
  BY DEF IInv, PlanArrives, Running, Planning, history
<1>1. /\ generation = b
      /\ \A x \in Builds : x # b => build[x].pc \notin Running
  BY <1>0, Alone
<1>2. Floor' = Floor
  BY <1>0 DEF Floor
<1> DEFINE p == [name |-> name, last |-> last, asks |-> build[b].ctx, completed |-> FALSE]
           n == Len(phases) + 1
<1>3. p \in PhaseType /\ p.completed = FALSE
  BY <1>0 DEF TypeOK, PhaseType
<1>4. phases' = Append(phases, p) /\ build' = [build EXCEPT ![b] = Implementing(b, n)]
  BY DEF PlanArrives
<1> HIDE DEF p
<1>5. /\ phases' \in Seq(PhaseType) /\ Len(phases') = n /\ n \in Nat
      /\ DOMAIN phases' = 1..n /\ DOMAIN phases = 1..(n - 1)
      /\ \A i \in DOMAIN phases : phases'[i] = phases[i]
      /\ phases'[n] = p
  BY <1>3, <1>4, AppendTyped, Basics
<1>6. Incomplete = {}
  BY <1>0 DEF InOrder, Planning
<1>7. Incomplete' = {n}
  <2>1. \A i \in DOMAIN phases : phases[i].completed
    BY <1>6 DEF Incomplete
  <2>2. Incomplete' = {i \in 1..n : ~phases'[i].completed}
    BY <1>5 DEF Incomplete
  <2>3. \A i \in 1..n : i = n \/ i \in DOMAIN phases
    BY <1>5
  <2>4. n \in 1..n
    BY <1>5, Basics
  <2> QED
    BY <1>3, <1>5, <2>1, <2>2, <2>3, <2>4
<1> HIDE DEF n
<1>8. Moves(b, "codeIssues", build[b].final, n, "none", build[b].stop)
  BY <1>0, <1>4, <1>5, ImplementingMoves
<1>9. OneBuild'
  BY <1>0, <1>8, StaysOneBuild DEF Running, Coding
<1>10. Signalled'
  BY <1>0, <1>8, MovesSignalled
<1>11. InOrder'
  BY <1>0, <1>1, <1>5, <1>7, <1>8 DEF InOrder, Moves, Running, Planning, Coding
<1>12. /\ ~Planned' /\ Planned
       /\ \A x \in Builds : build'[x].pc \in Planning \cup Coding \cup {"template"}
            => x = b /\ build'[x].pc # "template"
       /\ build[b].pc \in Planning
  BY <1>0, <1>1, <1>8 DEF Moves, Running, Planning, Coding, Planned
<1>13. Budgeted'
  <2>1. /\ counter >= Floor + 1 /\ (mvp /\ ~build[b].final => counter >= Floor + 2)
        /\ pending # {} => counter >= 2
    <3>1. build[b].final \in BOOLEAN
      BY Basics DEF BuildType
    <3> QED
      BY <1>0, <1>12, <3>1, Basics DEF Budgeted
  <2> QED
    BY <1>0, <1>2, <1>8, <1>12, <2>1, Basics DEF Budgeted, Moves
<1> QED
  BY <1>9, <1>10, <1>11, <1>13 DEF Parts

(* A build that leaves its phases, the phases and the queue untouched.     *)
LEMMA LeavesKeeps ==
  ASSUME IInv, NEW b \in Builds, Leaves(b), build[b].pc \in Running, mvp => mvp',
         UNCHANGED <<phases, pending, counter, budget>>,
         build[b].final \/ Incomplete = {} \/ generation' = None
  PROVE  Parts'
<1>1. TypeOK /\ OneBuild /\ Signalled /\ InOrder /\ Budgeted
  BY DEF IInv
<1>2. generation = b /\ generation # None
  BY <1>1, Alone, NoneAssumption
<1> QED
  BY <1>1, <1>2, LeavesOneBuild, LeavesSignalled, LeavesInOrder, LeavesBudgeted DEF Parts

(* The empty plan ends the phases; the final one is planned after it once  *)
(* the MVP is there.                                                       *)
LEMMA PlanEmptyKeeps ==
  ASSUME IInv, NEW b \in Builds, PlanEmpty(b)
  PROVE  Parts'
<1>0. /\ TypeOK /\ OneBuild /\ Signalled /\ InOrder /\ Budgeted /\ build[b].pc = "planning"
      /\ UNCHANGED <<phases, pending, counter, budget>>
      /\ build[b].pc \in Running /\ build[b].pc \in Planning /\ build[b].signal # "aborted"
  BY DEF IInv, PlanEmpty, Running, Planning
<1>1. Incomplete = {}
  BY <1>0 DEF InOrder
<1>2. CASE Leaves(b) /\ (mvp => mvp')
  BY <1>0, <1>1, <1>2, LeavesKeeps
<1>3. CASE /\ ~build[b].final /\ mvp /\ mvp' = mvp /\ generation' = generation
           /\ \E r \in BuildType : FinalAs(b, r)
  <2>1. Moves(b, "planIssues", TRUE, 0, "none", build[b].stop)
    BY <1>0, <1>3, FinalMoves
  <2>2. Floor' = Floor /\ Incomplete' = {}
    BY <1>0, <1>1 DEF Floor, Incomplete
  <2>3. \A x \in Builds : x # b => build[x].pc \notin Running
    BY <1>0, Alone
  <2>4. OneBuild'
    BY <1>0, <1>3, <2>1, StaysOneBuild DEF Running, Planning
  <2>5. Signalled'
    BY <1>0, <2>1, MovesSignalled
  <2>6. InOrder'
    BY <1>0, <1>3, <2>1, <2>2, <2>3 DEF InOrder, Moves, Running, Planning, Coding
  <2>7. ~Planned' /\ \A x \in Builds : build'[x].pc \in Planning \cup Coding \cup {"template"}
                                         => x = b /\ build'[x].pc # "template" /\ build'[x].final
    BY <2>1, <2>3 DEF Moves, Running, Planning, Coding, Planned
  <2>8. counter >= Floor + 2
    BY <1>0, <1>3 DEF Budgeted
  <2>9. Budgeted'
    BY <1>0, <1>3, <2>2, <2>7, <2>8, Basics DEF Budgeted
  <2> QED
    BY <2>4, <2>5, <2>6, <2>9 DEF Parts
<1>4. CASE build[b].final
  BY <1>0, <1>2, <1>4, ReviewLeaves DEF PlanEmpty
<1>5. CASE ~build[b].final /\ Finalize(b)
  <2>1. \/ ~mvp /\ mvp' = TRUE /\ finals' = finals /\ Leaves(b)
        \/ /\ mvp /\ mvp' = mvp /\ finals' = finals + 1
           /\ reviewed' = reviewed /\ generation' = generation /\ turn' = turn
           /\ \E r \in BuildType : FinalAs(b, r)
    BY <1>0, <1>5, FinalizeStep
  <2> QED
    BY <1>2, <1>3, <1>5, <2>1
<1> QED
  BY <1>4, <1>5 DEF PlanEmpty

(* A failed plan, a failed implementation and the end of the review leave. *)
LEMMA FailuresKeep ==
  ASSUME IInv, NEW b \in Builds, NEW rl \in BOOLEAN,
         PlanFails(b, rl) \/ CodeFails(b, rl) \/ ReviewReturns(b)
  PROVE  Parts'
<1>1. TypeOK /\ build[b].pc \in Running /\ UNCHANGED <<phases, pending, mvp, counter, budget>>
  BY DEF IInv, PlanFails, CodeFails, ReviewReturns, Running, history
<1>2. Leaves(b) /\ (build[b].final \/ generation' = None)
  BY <1>1, FinishLeaves, ReviewLeaves DEF PlanFails, CodeFails, ReviewReturns, Finish
<1> QED
  BY <1>1, <1>2, LeavesKeeps

(* The model is called for the code, and answers.                          *)
LEMMA CodeKeeps ==
  ASSUME IInv, NEW b \in Builds, CodeIssuesArrive(b) \/ CodeArrives(b)
  PROVE  Parts'
<1>0. /\ TypeOK /\ OneBuild /\ Signalled /\ InOrder /\ Budgeted /\ build[b].pc \in Coding
      /\ UNCHANGED <<phases, pending, mvp, counter, generation, budget>>
      /\ build[b].pc \in Running /\ build[b].pc # "review" /\ build[b].signal # "aborted"
  BY DEF IInv, CodeIssuesArrive, CodeArrives, Running, Coding, Signalled, durable, history
<1>1. PICK pc \in {"coding", "deploying"}, sig \in {"current", "none"} :
        /\ build' = [build EXCEPT ![b] = [build[b] EXCEPT !.pc = pc, !.signal = sig]]
        /\ sig = "current" <=> pc \in {"planning", "coding"}
  BY DEF CodeIssuesArrive, CodeArrives
<1> DEFINE r == [build[b] EXCEPT !.pc = pc, !.signal = sig]
<1>2. /\ r.pc = pc /\ r.final = build[b].final /\ r.phase = build[b].phase
      /\ r.signal = sig /\ r.stop = build[b].stop
  BY Basics DEF BuildType
<1>3. build' = [build EXCEPT ![b] = r]
  BY <1>1
<1> HIDE DEF r
<1>4. Moves(b, r.pc, r.final, r.phase, r.signal, r.stop)
  BY <1>0, <1>3, RecordMoves
<1>5. Moves(b, pc, build[b].final, build[b].phase, sig, build[b].stop)
  BY <1>2, <1>4
<1>6. Floor' = Floor /\ Incomplete' = Incomplete
  BY <1>0 DEF Floor, Incomplete
<1>7. \A x \in Builds : x # b => build[x].pc \notin Running
  BY <1>0, Alone
<1>8. OneBuild'
  BY <1>0, <1>5, StaysOneBuild DEF Running, Coding
<1>9. Signalled'
  BY <1>0, <1>1, <1>5, MovesSignalled
<1>10. InOrder'
  BY <1>0, <1>5, <1>6, <1>7 DEF InOrder, Moves, Running, Planning, Coding
<1>11. ~Planned' /\ \A x \in Builds : build'[x].pc \in Planning \cup Coding \cup {"template"}
                      => x = b /\ build'[x].pc # "template" /\ build'[x].final = build[x].final
  BY <1>5, <1>7 DEF Moves, Running, Planning, Coding, Planned
<1>12. Budgeted'
  BY <1>0, <1>6, <1>11, Basics DEF Budgeted
<1> QED
  BY <1>8, <1>9, <1>10, <1>12 DEF Parts

(* The phase is marked complete and one is taken off the counter: the step *)
(* the budget is about.                                                    *)
LEMMA PhaseDeployedKeeps ==
  ASSUME IInv, NEW b \in Builds, PhaseDeployed(b)
  PROVE  Parts'
<1>0. /\ TypeOK /\ OneBuild /\ Signalled /\ InOrder /\ Budgeted /\ build[b].pc = "deploying"
      /\ UNCHANGED <<pending, budget>> /\ counter' = counter - 1
      /\ build[b].pc \in Running /\ build[b].pc \in Coding /\ build[b].signal = "none"
      /\ phases' = Completed(phases, phases[build[b].phase].name)
      /\ build[b].phase \in 1..Len(phases)
  BY Basics DEF IInv, PhaseDeployed, Running, Coding, Signalled, TypeOK
<1>1. /\ generation = b
      /\ \A x \in Builds : x # b => build[x].pc \notin Running
  BY <1>0, Alone
<1>2. Incomplete = {build[b].phase}
  BY <1>0 DEF InOrder
<1>3. Incomplete' = {} /\ phases' # << >>
  <2>1. phases[build[b].phase].name \in Names
    <3>1. phases[build[b].phase] \in PhaseType
      BY <1>0, Basics
    <3> QED
      BY <3>1 DEF PhaseType
  <2>2. /\ Len(phases') = Len(phases) /\ DOMAIN phases' = DOMAIN phases
        /\ \A i \in DOMAIN phases : phases'[i].completed
             = (phases[i].completed \/ phases[i].name = phases[build[b].phase].name)
    BY <1>0, <2>1, Basics, CompletedTyped
  <2>3. \A i \in DOMAIN phases : i = build[b].phase \/ phases[i].completed
    BY <1>2 DEF Incomplete
  <2>4. \A i \in DOMAIN phases' : phases'[i].completed
    BY <2>2, <2>3
  <2> QED
    BY <1>0, <2>2, <2>4, Basics, EmptySeq DEF Incomplete
<1>4. /\ Floor' = Floor /\ counter' >= Floor
      /\ pending # {} => counter' >= 1
      /\ mvp /\ ~build[b].final => counter' >= Floor + 1
  BY <1>0, <1>2, Basics DEF Floor, Budgeted
<1>5. CASE Leaves(b) /\ mvp'
  <2>1. \/ generation' = None /\ Moves(b, "closing", FALSE, 0, "none", "no")
        \/ generation' = generation /\ Moves(b, "review", build[b].final, 0, "none", build[b].stop)
    BY <1>0, <1>5, LeavesMoves
  <2>2. \A x \in Builds : build'[x].pc \notin Planning \cup Coding \cup {"template"} /\ ~Planned'
    BY <1>1, <2>1 DEF Moves, Running, Planning, Coding, Planned
  <2>3. OneBuild' /\ Signalled'
    BY <1>0, <1>5, LeavesOneBuild, LeavesSignalled
  <2>4. InOrder'
    BY <1>3, <1>5, <2>2 DEF InOrder
  <2>5. Budgeted'
    BY <1>3, <1>4, <1>5, <1>0, <2>2 DEF Budgeted
  <2> QED
    BY <2>3, <2>4, <2>5 DEF Parts
<1>6. ASSUME NEW f \in BOOLEAN, Moves(b, "planIssues", f, 0, "none", build[b].stop),
             generation' = generation, f => mvp, mvp' = mvp,
             IF f THEN mvp /\ ~build[b].final ELSE counter' > 0 \/ pending # {}
      PROVE  Parts'
  <2>1. OneBuild'
    BY <1>0, <1>6, StaysOneBuild DEF Running, Planning
  <2>2. Signalled'
    BY <1>0, <1>6, MovesSignalled
  <2>3. \A x \in Builds : build'[x].pc \in Planning \cup Coding \cup {"template", "review"}
          => x = b /\ build'[x].pc = "planIssues" /\ build'[x].final = f
    BY <1>1, <1>6 DEF Moves, Running, Planning, Coding
  <2>4. ~Planned'
    BY <2>3 DEF Planned, Planning
  <2>5. \A x \in Builds : build'[x].final => mvp'
    BY <1>0, <1>6 DEF Moves, InOrder
  <2>6. InOrder'
    BY <1>3, <2>3, <2>5 DEF InOrder, Planning, Coding
  <2>7. counter' \in Int /\ Floor \in Int /\ Floor <= -1
    BY <1>0, Basics
  <2>8. counter' >= Floor + 1 /\ (~f => counter' >= Floor + 2)
    BY <1>4, <1>6, <1>0, <2>7
  <2>9. Budgeted'
    BY <1>0, <1>3, <1>4, <2>3, <2>4, <2>8 DEF Budgeted
  <2> QED
    BY <2>1, <2>2, <2>6, <2>9 DEF Parts
<1>7. CASE build[b].final
  <2>1. Leaves(b) /\ mvp' = mvp
    BY <1>0, <1>7, ReviewLeaves DEF PhaseDeployed
  <2>2. mvp
    BY <1>0, <1>7 DEF InOrder
  <2> QED
    BY <1>5, <2>1, <2>2
<1>8. CASE ~build[b].final /\ Finalize(b)
  <2>1. \/ ~mvp /\ mvp' = TRUE /\ finals' = finals /\ Leaves(b)
        \/ /\ mvp /\ mvp' = mvp /\ finals' = finals + 1
           /\ reviewed' = reviewed /\ generation' = generation /\ turn' = turn
           /\ \E r \in BuildType : FinalAs(b, r)
    BY <1>0, <1>8, FinalizeStep
  <2>2. CASE Leaves(b) /\ mvp'
    BY <1>5, <2>2
  <2>3. CASE mvp /\ mvp' = mvp /\ generation' = generation /\ \E r \in BuildType : FinalAs(b, r)
    <3>1. Moves(b, "planIssues", TRUE, 0, "none", build[b].stop)
      BY <1>0, <2>3, FinalMoves
    <3> QED
      BY <1>6, <1>8, <2>3, <3>1
  <2> QED
    BY <2>1, <2>2, <2>3
<1>9. CASE /\ ~build[b].final /\ (counter' > 0 \/ pending # {})
           /\ build' = [build EXCEPT ![b] = Stage(b, "planIssues")]
           /\ UNCHANGED <<mvp, generation>>
  <2>1. Moves(b, "planIssues", build[b].final, 0, "none", build[b].stop)
    BY <1>0, <1>9, StageMoves DEF Running, Planning
  <2>2. build[b].final = FALSE
    BY <1>9, Basics DEF BuildType
  <2>3. Moves(b, "planIssues", FALSE, 0, "none", build[b].stop)
    BY <2>1, <2>2
  <2> QED
    BY <1>6, <1>9, <2>3
<1>10. counter' > 0 \/ counter' <= 0
  BY <1>0, Basics
<1> QED
  BY <1>7, <1>8, <1>9, <1>10 DEF PhaseDeployed

(* A build is started: generateAllFiles found it has work.                 *)
LEMMA StartKeeps ==
  ASSUME IInv, NEW b \in Builds, NEW o \in {"generate", "resume", "message"}, StartBuild(b, o),
         UNCHANGED <<phases, pending, mvp, counter, budget>>
  PROVE  Parts'
<1>0. /\ TypeOK /\ OneBuild /\ Signalled /\ InOrder /\ Budgeted
      /\ generation = None /\ generation' = b /\ (mvp => pending # {})
      /\ build' = [build EXCEPT ![b] = Fresh("template", o)]
  BY DEF IInv, StartBuild, HasWork
<1>1. /\ Fresh("template", o).pc = "template" /\ Fresh("template", o).final = FALSE
      /\ Fresh("template", o).phase = 0 /\ Fresh("template", o).signal = "none"
      /\ Fresh("template", o).stop = "no"
  BY DEF Fresh
<1>2. Moves(b, Fresh("template", o).pc, Fresh("template", o).final, Fresh("template", o).phase,
            Fresh("template", o).signal, Fresh("template", o).stop)
  BY <1>0, RecordMoves
<1>3. Moves(b, "template", FALSE, 0, "none", "no")
  BY <1>1, <1>2
<1>4. Floor' = Floor /\ Incomplete' = Incomplete
  BY DEF Floor, Incomplete
<1>5. \A x \in Builds : build[x].pc \notin Running \cup {"rejected"}
  BY <1>0, NoneAssumption DEF OneBuild
<1>6. OneBuild'
  <2>1. generation' = b
    BY <1>0
  <2>2. \A x \in Builds : build'[x].pc \in Running \cup {"rejected"} <=> x = b
    BY <1>3, <1>5 DEF Moves, Running
  <2> QED
    BY <2>1, <2>2 DEF OneBuild
<1>7. Signalled'
  <2> SUFFICES ASSUME NEW x \in Builds
               PROVE  /\ build'[x].signal # "none" <=> build'[x].pc \in {"planning", "coding"}
                      /\ build'[x].signal # "cleared"
                      /\ build'[x].stop = "heard" => build'[x].signal = "aborted" \/ build'[x].pc = "review"
    BY DEF Signalled
  <2>1. CASE x = b
    BY <1>3, <2>1 DEF Moves
  <2>2. CASE x # b
    <3>1. build'[x].signal = build[x].signal /\ build'[x].pc = build[x].pc /\ build'[x].stop = build[x].stop
      BY <1>3, <2>2 DEF Moves
    <3> QED
      BY <1>0, <3>1 DEF Signalled
  <2> QED
    BY <2>1, <2>2
<1>8. ~Planned' /\ \A x \in Builds : build'[x].pc \notin Planning \cup Coding \cup {"review"}
  BY <1>3, <1>5 DEF Moves, Running, Planning, Coding, Planned
<1>9. InOrder'
  <2>1. phases' = phases /\ mvp' = mvp /\ InOrder
    BY <1>0
  <2>2. \A x \in Builds : x # b => build'[x].final = build[x].final /\ build'[x].pc # "template"
    BY <1>3, <1>5 DEF Moves, Running
  <2>3. build'[b].final = FALSE
    BY <1>3 DEF Moves
  <2> QED
    BY <1>4, <1>8, <2>1, <2>2, <2>3 DEF InOrder
<1>10. Budgeted'
  BY <1>0, <1>4, <1>8 DEF Budgeted
<1> QED
  BY <1>6, <1>7, <1>9, <1>10 DEF Parts

(* A build out of the machine is closed or rejected.                       *)
LEMMA EndsKeep ==
  ASSUME IInv, NEW b \in Builds, TemplateFails(b) \/ BuildReturns(b)
  PROVE  Parts'
<1>0. /\ TypeOK /\ OneBuild /\ Signalled /\ InOrder /\ Budgeted
      /\ UNCHANGED <<phases, pending, mvp, counter, generation, budget>>
  BY DEF IInv, TemplateFails, BuildReturns, durable, history
<1>1. PICK pc \in {"free", "rejected"}, o \in {"none", "generate", "resume", "message"} :
        /\ build' = [build EXCEPT ![b] = Fresh(pc, o)]
        /\ pc = "rejected" => build[b].pc = "template"
        /\ pc = "free" => build[b].pc = "closing"
  BY Basics DEF TemplateFails, BuildReturns, Ended, FreeBuild, BuildType
<1>2. /\ Fresh(pc, o).pc = pc /\ Fresh(pc, o).final = FALSE
      /\ Fresh(pc, o).phase = 0 /\ Fresh(pc, o).signal = "none" /\ Fresh(pc, o).stop = "no"
  BY DEF Fresh
<1>3. Moves(b, Fresh(pc, o).pc, Fresh(pc, o).final, Fresh(pc, o).phase,
            Fresh(pc, o).signal, Fresh(pc, o).stop)
  BY <1>0, <1>1, RecordMoves
<1>4. Moves(b, pc, FALSE, 0, "none", "no")
  BY <1>2, <1>3
<1>5. Floor' = Floor /\ Incomplete' = Incomplete
  BY <1>0 DEF Floor, Incomplete
<1>6. OneBuild'
  <2>1. generation' = generation
    BY <1>0
  <2>2. "closing" \notin Running \cup {"rejected"} /\ "free" \notin Running \cup {"rejected"}
        /\ "template" \in Running
    BY DEF Running, Planning, Coding
  <2>3. \A x \in Builds : build'[x].pc \in Running \cup {"rejected"}
                          <=> build[x].pc \in Running \cup {"rejected"}
    <3>1. \A x \in Builds : x # b => build'[x].pc = build[x].pc
      BY <1>4 DEF Moves
    <3>2. build'[b].pc = pc
      BY <1>4 DEF Moves
    <3>3. build'[b].pc \in Running \cup {"rejected"} <=> build[b].pc \in Running \cup {"rejected"}
      BY <1>1, <2>2, <3>2
    <3> QED
      BY <3>1, <3>3
  <2> QED
    BY <1>0, <2>1, <2>3 DEF OneBuild
<1>7. Signalled'
  BY <1>0, <1>4 DEF Signalled, Moves
<1>8. InOrder'
  BY <1>0, <1>4, <1>5 DEF InOrder, Moves, Planning, Coding
<1>9. /\ Planned' => Planned
      /\ \A x \in Builds : build'[x].pc \in Planning \cup Coding \cup {"template"}
           => x # b /\ build'[x].pc = build[x].pc /\ build'[x].final = build[x].final
  BY <1>4 DEF Moves, Planning, Coding, Planned
<1>10. Budgeted'
  BY <1>0, <1>5, <1>9 DEF Budgeted
<1> QED
  BY <1>6, <1>7, <1>8, <1>10 DEF Parts

(* A stop aborts calls and nothing else.                                   *)
LEMMA StopKeeps ==
  ASSUME IInv, Stop
  PROVE  Parts'
<1>0. /\ TypeOK /\ OneBuild /\ Signalled /\ InOrder /\ Budgeted
      /\ UNCHANGED <<phases, pending, mvp, counter, generation, budget>>
  BY DEF IInv, Stop, history
<1>1. \A b \in Builds :
        /\ build'[b].pc = build[b].pc /\ build'[b].final = build[b].final
        /\ build'[b].phase = build[b].phase /\ build'[b].signal = Aborted(build[b].signal)
        /\ build'[b].stop = "heard"
             => build[b].signal = "current" \/ build[b].stop = "heard"
  BY Basics DEF Stop, BuildType
<1>2. Floor' = Floor /\ Incomplete' = Incomplete /\ (Planned' <=> Planned)
  BY <1>0, <1>1 DEF Floor, Incomplete, Planned
<1>3. OneBuild'
  BY <1>0, <1>1 DEF OneBuild
<1>4. Signalled'
  BY <1>0, <1>1 DEF Signalled, Aborted
<1>5. InOrder'
  BY <1>0, <1>1, <1>2 DEF InOrder
<1>6. Budgeted'
  BY <1>0, <1>1, <1>2 DEF Budgeted
<1> QED
  BY <1>3, <1>4, <1>5, <1>6 DEF Parts

(* A queued request recharges the counter to two or more.                  *)
LEMMA QueueKeeps ==
  ASSUME IInv, NEW t \in Turns, NEW r \in Requests, QueueRequest(t, r)
  PROVE  Parts'
<1>0. /\ TypeOK /\ OneBuild /\ Signalled /\ InOrder /\ Budgeted
      /\ UNCHANGED <<phases, mvp, generation, build, budget>> /\ pending' # {}
  BY DEF IInv, QueueRequest, memory
<1>1. counter' >= counter /\ counter' >= 2 /\ counter' \in Int
  <2>1. counter' = (IF counter <= Recharge THEN Recharge ELSE counter)
    BY DEF QueueRequest, RechargeTo
  <2>2. Recharge \in Nat /\ Recharge >= 2
    BY BudgetAssumption
  <2> QED
    BY <2>1, <2>2, Basics
<1>2. Floor' = Floor /\ Incomplete' = Incomplete /\ (Planned' <=> Planned)
  BY <1>0 DEF Floor, Incomplete, Planned
<1>3. OneBuild' /\ Signalled'
  BY <1>0 DEF OneBuild, Signalled
<1>4. InOrder'
  BY <1>0, <1>2 DEF InOrder
<1>5. Budgeted'
  BY <1>0, <1>1, <1>2, Basics DEF Budgeted
<1> QED
  BY <1>3, <1>4, <1>5 DEF Parts

(* Steps that touch nothing the invariant reads.                           *)
LEMMA OthersKeep ==
  ASSUME IInv, UNCHANGED <<phases, pending, mvp, counter, generation, build, budget>>
  PROVE  Parts'
<1>1. Floor' = Floor /\ Incomplete' = Incomplete /\ (Planned' <=> Planned)
  BY DEF Floor, Incomplete, Planned
<1>2. OneBuild' /\ Signalled'
  BY DEF IInv, OneBuild, Signalled
<1>3. InOrder'
  BY <1>1 DEF IInv, InOrder
<1>4. Budgeted'
  BY <1>1 DEF IInv, Budgeted
<1> QED
  BY <1>2, <1>3, <1>4 DEF Parts

(* After a restart no build is left; the phases and the counter are.       *)
LEMMA RestartKeeps ==
  ASSUME IInv, Restart
  PROVE  Parts'
<1>0. /\ InOrder /\ Budgeted /\ generation' = None
      /\ build' = [b \in Builds |-> FreeBuild]
      /\ UNCHANGED <<phases, pending, mvp, counter, budget>>
  BY DEF IInv, Restart, durable
<1>1. \A b \in Builds : /\ build'[b].pc = "free" /\ build'[b].final = FALSE
                        /\ build'[b].signal = "none" /\ build'[b].stop = "no"
  BY <1>0 DEF FreeBuild, Fresh
<1>2. Floor' = Floor /\ Incomplete' = Incomplete /\ ~Planned'
  BY <1>0, <1>1 DEF Floor, Incomplete, Planned
<1>3. OneBuild' /\ Signalled'
  BY <1>0, <1>1, NoneAssumption DEF OneBuild, Signalled, Running, Planning, Coding
<1>4. InOrder'
  BY <1>0, <1>1, <1>2 DEF InOrder, Planning, Coding
<1>5. Budgeted'
  BY <1>0, <1>1, <1>2 DEF Budgeted, Planning, Coding
<1> QED
  BY <1>3, <1>4, <1>5 DEF Parts

(* One step keeps the whole invariant.                                     *)
LEMMA NextKeeps == IInv /\ [Next]_vars => IInv'
<1> SUFFICES ASSUME IInv, [Next]_vars PROVE IInv'
  OBVIOUS
<1>1. TypeOK'
  BY NextTyped DEF IInv
<1>2. Parts'
  <2>1. ASSUME NEW b \in Builds, BuildStep(b) PROVE Parts'
    BY <2>1, TemplateReadyKeeps, EndsKeep, PlanIssuesArriveKeeps, PlanEmptyKeeps, PlanArrivesKeeps,
       FailuresKeep, CodeKeeps, PhaseDeployedKeeps DEF BuildStep
  <2>2. ASSUME NEW b \in Builds, NEW o \in {"generate", "resume", "message"}, StartBuild(b, o),
               UNCHANGED <<phases, pending, mvp, counter, budget>>
        PROVE  Parts'
    BY <2>2, StartKeeps
  <2>3. ASSUME NEW b \in Builds, GenerateAll(b) \/ Resume(b) PROVE Parts'
    BY <2>2, <2>3 DEF GenerateAll, Resume, history
  <2>4. ASSUME NEW t \in Turns, NEW b \in Builds, TurnEnds(t, b) PROVE Parts'
    <3>1. UNCHANGED <<phases, pending, mvp, counter, budget>>
      BY <2>4 DEF TurnEnds, durable, history
    <3> QED
      BY <2>2, <2>4, <3>1, OthersKeep DEF TurnEnds
  <2>5. CASE GenerateAllIdle \/ ResumeIdle
    BY <2>5, OthersKeep DEF GenerateAllIdle, ResumeIdle, memory, history
  <2>6. ASSUME NEW t \in Turns, NEW ask \in BOOLEAN, Say(t, ask) \/ TurnPrepared(t) \/ TurnFails(t)
        PROVE  Parts'
    BY <2>6, OthersKeep DEF Say, TurnPrepared, TurnFails, durable, history
  <2>7. CASE UNCHANGED vars
    BY <2>7, OthersKeep DEF vars, durable, memory, history
  <2> QED
    BY <2>1, <2>3, <2>4, <2>5, <2>6, <2>7, StopKeeps, QueueKeeps, RestartKeeps DEF Next
<1> QED
  BY <1>1, <1>2 DEF IInv, Parts

(* It holds in the initial states.                                         *)
LEMMA InitKeeps == Init => IInv
<1> SUFFICES ASSUME Init PROVE IInv
  OBVIOUS
<1>1. TypeOK
  BY InitTyped
<1>2. /\ \A b \in Builds : /\ build[b].pc = "free" /\ build[b].final = FALSE
                           /\ build[b].signal = "none" /\ build[b].stop = "no"
      /\ phases = << >> /\ pending = {} /\ mvp = FALSE /\ budget = counter /\ generation = None
  BY DEF Init, FreeBuild, Fresh
<1>3. OneBuild /\ Signalled
  BY <1>2, NoneAssumption DEF OneBuild, Signalled, Running, Planning, Coding
<1>4. Incomplete = {}
  BY <1>2 DEF Incomplete
<1>5. InOrder
  BY <1>2, <1>4 DEF InOrder, Planning, Coding
<1>6. counter \in Int /\ Floor \in Int /\ counter >= Floor + 1
  BY <1>1, <1>2 DEF Floor, TypeOK
<1>7. Budgeted
  BY <1>2, <1>4, <1>6 DEF Budgeted, Planning, Coding
<1> QED
  BY <1>1, <1>3, <1>5, <1>7 DEF IInv

(* IInv is the inductive invariant of the generator.                       *)
LEMMA Invariance == Spec => []IInv
BY InitKeeps, NextKeeps, PTL DEF Spec

-----------------------------------------------------------------------------
(* The safety properties.                                                  *)

(* Two builds of one agent never run side by side, whatever commands,      *)
(* messages, stops, failures and restarts come between.                    *)
THEOREM OneBuildAtATime == Spec => []OneBuild
<1>1. IInv => OneBuild
  BY DEF IInv
<1> QED
  BY <1>1, Invariance, PTL

(* A phase is planned only when those before it are complete, and the      *)
(* phase a build implements is the one incomplete phase of the agent.      *)
THEOREM PhasesInOrder == Spec => []OnePhaseInProgress
<1>1. IInv => OnePhaseInProgress
  BY DEF IInv, InOrder, OnePhaseInProgress
<1> QED
  BY <1>1, Invariance, PTL

(* phasesCounter stops the planning in time, whatever requests recharge it *)
(* and whatever is left of it in a cloned agent.                           *)
THEOREM BudgetHolds == Spec => []PhaseBudget
<1>1. IInv => PhaseBudget
  BY DEF IInv, Budgeted, Floor, PhaseBudget
<1> QED
  BY <1>1, Invariance, PTL

(* The build's own model call always holds the controller that             *)
(* STOP_GENERATION aborts.                                                 *)
THEOREM StopReachesTheCall == Spec => []BuildCancellable
<1>1. IInv => BuildCancellable
  <2> SUFFICES ASSUME IInv, NEW b \in Builds, build[b].pc \in {"planning", "coding"}
               PROVE  build[b].signal \in {"current", "aborted"}
    BY DEF BuildCancellable
  <2>1. build[b].signal \in Signals /\ build[b].signal # "none" /\ build[b].signal # "cleared"
    BY Basics DEF IInv, Signalled, BuildType
  <2> QED
    BY <2>1 DEF Signals
<1> QED
  BY <1>1, Invariance, PTL

(* A build that heard the stop makes no further call.                      *)
THEOREM NoFurtherCall == Spec => []NoCallAfterAbort
<1>1. IInv => NoCallAfterAbort
  BY DEF IInv, Signalled, NoCallAfterAbort
<1> QED
  BY <1>1, Invariance, PTL

-----------------------------------------------------------------------------
(* The refinement of RequestLifecycle.                                     *)

(* A request is in one place: the queue, the plan that is being made, one  *)
(* phase, or among the dropped ones.                                       *)
Placed ==
  /\ \A i \in DOMAIN phases : phases[i].asks \subseteq asked
  /\ pending \cap lost = {} /\ Held \cap (pending \cup lost) = {}
  /\ \A i \in DOMAIN phases : phases[i].asks \cap (pending \cup lost \cup Held) = {}
  /\ \A i, j \in DOMAIN phases : i # j => phases[i].asks \cap phases[j].asks = {}

(* What a step may do to the requests: nothing; ask for one; drain the     *)
(* queue into a plan; record the plan as a phase; mark the one incomplete  *)
(* phase complete; drop the requests of a plan.                            *)
Same == UNCHANGED <<phases, pending, lost, asked>> /\ Held' = Held

Asks(r) ==
  /\ r \notin asked /\ asked' = asked \cup {r} /\ pending' = pending \cup {r}
  /\ UNCHANGED <<phases, lost>> /\ Held' = Held

Takes ==
  /\ Incomplete = {} /\ Held = {} /\ Held' = pending /\ pending' = {}
  /\ UNCHANGED <<phases, lost, asked>>

Plans ==
  /\ Incomplete = {} /\ Held' = {}
  /\ \E p \in PhaseType : phases' = Append(phases, p) /\ p.asks = Held /\ ~p.completed
  /\ UNCHANGED <<pending, lost, asked>>

Implements ==
  /\ Held = {} /\ Held' = {} /\ Incomplete' = {}
  /\ DOMAIN phases' = DOMAIN phases
  /\ \A i \in DOMAIN phases : /\ phases'[i].asks = phases[i].asks
                              /\ phases[i].completed => phases'[i].completed
                              /\ phases'[i].completed \in BOOLEAN
  /\ UNCHANGED <<pending, lost, asked>>

Drops == lost' = lost \cup Held /\ Held' = {} /\ UNCHANGED <<phases, pending, asked>>

Effect == Same \/ Takes \/ Plans \/ Implements \/ Drops \/ \E r \in Requests : Asks(r)

(* A build about to plan holds no requests yet.                            *)
NoneYet == \A b \in Builds : build[b].pc = "planIssues" => build[b].ctx = {}

(* Who holds requests.                                                     *)
LEMMA HeldBy ==
  /\ \A r : r \in Held <=> \E b \in Builds : build[b].pc = "planning" /\ r \in build[b].ctx
  /\ \A r : r \in Held' <=> \E b \in Builds : build'[b].pc = "planning" /\ r \in build'[b].ctx
BY DEF Held

(* The one build in the machine holds what the plan was asked for.         *)
LEMMA HeldAlone ==
  ASSUME OneBuild, NEW b \in Builds, build[b].pc \in Running
  PROVE  Held = IF build[b].pc = "planning" THEN build[b].ctx ELSE {}
<1>1. \A x \in Builds : build[x].pc = "planning" => x = b
  BY Alone DEF Running, Planning
<1> QED
  BY <1>1, HeldBy

(* The build in the machine gets a new record: what is held afterwards.    *)
LEMMA HeldNext ==
  ASSUME TypeOK, OneBuild, NoneYet, NEW b \in Builds, build[b].pc \in Running,
         NEW r, build' = [build EXCEPT ![b] = r], r.pc = "planIssues" => r.ctx = {}
  PROVE  /\ Held' = IF r.pc = "planning" THEN r.ctx ELSE {}
         /\ NoneYet'
<1>1. \A x \in Builds : build'[x] = IF x = b THEN r ELSE build[x]
  BY DEF TypeOK
<1>2. \A x \in Builds : x # b => build[x].pc \notin Running
  BY Alone
<1>3. \A x \in Builds : build'[x].pc = "planning" => x = b
  BY <1>1, <1>2 DEF Running, Planning
<1>4. \A q : q \in Held' <=> r.pc = "planning" /\ q \in r.ctx
  BY <1>1, <1>3, HeldBy
<1>5. NoneYet'
  BY <1>1 DEF NoneYet
<1>6. Held' = IF r.pc = "planning" THEN r.ctx ELSE {}
  BY <1>4
<1> QED
  BY <1>5, <1>6

(* Steps that take no build into or out of a plan.                         *)
LEMMA HeldSame ==
  ASSUME NoneYet,
         \A x \in Builds : \/ build'[x].pc = build[x].pc /\ build'[x].ctx = build[x].ctx
                           \/ /\ build'[x].pc \notin {"planIssues", "planning"}
                              /\ build[x].pc # "planning"
  PROVE  Held' = Held /\ NoneYet'
<1>1. \A x \in Builds : build'[x].pc = "planning" <=> build[x].pc = "planning"
  OBVIOUS
<1>2. \A x \in Builds : build[x].pc = "planning" => build'[x].ctx = build[x].ctx
  OBVIOUS
<1>3. Held' = Held
  BY <1>1, <1>2, HeldBy
<1> QED
  BY <1>3 DEF NoneYet

(* A build that leaves its phases holds nothing any more.                  *)
LEMMA LeavesHeld ==
  ASSUME TypeOK, OneBuild, NoneYet, NEW b \in Builds, build[b].pc \in Running, Leaves(b)
  PROVE  Held' = {} /\ NoneYet'
<1>1. PICK r \in BuildType : LeavesAs(b, r)
  BY DEF Leaves
<1>2. build' = [build EXCEPT ![b] = r] /\ r.pc # "planning" /\ r.pc # "planIssues"
  BY <1>1 DEF LeavesAs
<1> QED
  BY <1>2, HeldNext

(* So does one that goes on to the final planning.                         *)
LEMMA FinalHeld ==
  ASSUME TypeOK, OneBuild, NoneYet, NEW b \in Builds, build[b].pc \in Running,
         \E r \in BuildType : FinalAs(b, r)
  PROVE  Held' = {} /\ NoneYet'
<1>1. PICK r \in BuildType : FinalAs(b, r)
  OBVIOUS
<1>2. build' = [build EXCEPT ![b] = r] /\ r.pc = "planIssues" /\ r.ctx = {}
  BY <1>1 DEF FinalAs
<1> QED
  BY <1>2, HeldNext

(* markPhaseComplete keeps the requests a phase answers.                   *)
LEMMA CompletedAsks ==
  ASSUME phases \in Seq(PhaseType), NEW n
  PROVE  \A i \in DOMAIN phases : Completed(phases, n)[i].asks = phases[i].asks
<1>1. \A i \in DOMAIN phases : phases[i] \in PhaseType
  BY LenProperties
<1> DEFINE e(i) == IF phases[i].name = n THEN [phases[i] EXCEPT !.completed = TRUE] ELSE phases[i]
<1>2. \A i \in DOMAIN phases : e(i).asks = phases[i].asks
  BY <1>1 DEF PhaseType
<1>3. \A i \in DOMAIN phases : Completed(phases, n)[i] = e(i)
  BY DEF Completed
<1> QED
  BY <1>2, <1>3

(* Each action of a build, as an effect on the requests.                   *)
LEMMA PlanningEffects ==
  ASSUME IInv, NoneYet, NEW b \in Builds,
         \/ PlanIssuesArrive(b) \/ PlanEmpty(b)
         \/ \E name \in Names, last \in BOOLEAN : PlanArrives(b, name, last)
         \/ \E rateLimit \in BOOLEAN : PlanFails(b, rateLimit)
  PROVE  Effect /\ NoneYet'
<1>0. /\ TypeOK /\ OneBuild /\ InOrder /\ build[b].pc \in Planning /\ build[b].pc \in Running
      /\ Incomplete = {}
      /\ build[b] \in BuildType
  BY Basics DEF IInv, InOrder, PlanIssuesArrive, PlanEmpty, PlanArrives, PlanFails, Planning, Running
<1>1. Held = build[b].ctx
  BY <1>0, HeldAlone DEF NoneYet, Planning
<1>2. CASE PlanIssuesArrive(b)
  <2> DEFINE r == [build[b] EXCEPT !.pc = "planning", !.ctx = pending, !.signal = "current"]
  <2>1. r.pc = "planning" /\ r.ctx = pending
    BY <1>0 DEF BuildType
  <2>2. /\ build' = [build EXCEPT ![b] = r] /\ pending' = {} /\ build[b].pc = "planIssues"
        /\ UNCHANGED <<phases, lost, asked>>
    BY <1>2 DEF PlanIssuesArrive, history
  <2> HIDE DEF r
  <2>3. Held' = pending /\ NoneYet'
    BY <1>0, <2>1, <2>2, HeldNext
  <2>4. Takes
    BY <1>0, <1>1, <2>2, <2>3 DEF Takes, NoneYet
  <2> QED
    BY <2>3, <2>4 DEF Effect
<1>3. ASSUME NEW name \in Names, NEW last \in BOOLEAN, PlanArrives(b, name, last)
      PROVE  Effect /\ NoneYet'
  <2> DEFINE p == [name |-> name, last |-> last, asks |-> build[b].ctx, completed |-> FALSE]
  <2>1. p \in PhaseType /\ p.asks = Held /\ p.completed = FALSE
    BY <1>0, <1>1 DEF PhaseType, BuildType
  <2>2. /\ phases' = Append(phases, p) /\ build' = [build EXCEPT ![b] = Implementing(b, Len(phases) + 1)]
        /\ UNCHANGED <<pending, lost, asked>>
    BY <1>3 DEF PlanArrives, history
  <2> HIDE DEF p
  <2>3. Implementing(b, Len(phases) + 1).pc = "codeIssues"
    BY <1>0, ImplementingTyped, Basics
  <2>4. Held' = {} /\ NoneYet'
    BY <1>0, <2>2, <2>3, HeldNext
  <2>5. Plans
    BY <1>0, <2>1, <2>2, <2>4 DEF Plans
  <2> QED
    BY <2>4, <2>5 DEF Effect
<1>4. ASSUME lost' = lost \cup build[b].ctx, UNCHANGED <<phases, pending, asked>>,
             Leaves(b) \/ \E r \in BuildType : FinalAs(b, r)
      PROVE  Effect /\ NoneYet'
  <2>1. Held' = {} /\ NoneYet'
    BY <1>0, <1>4, LeavesHeld, FinalHeld
  <2> QED
    BY <1>1, <1>4, <2>1 DEF Effect, Drops
<1>5. CASE PlanEmpty(b)
  <2>1. lost' = lost \cup build[b].ctx /\ UNCHANGED <<phases, pending, asked>>
    BY <1>5 DEF PlanEmpty
  <2>2. Review(b) \/ Finalize(b)
    BY <1>5 DEF PlanEmpty
  <2> QED
    BY <1>0, <1>4, <2>1, <2>2, ReviewLeaves, FinalizeStep
<1>6. ASSUME NEW rateLimit \in BOOLEAN, PlanFails(b, rateLimit) PROVE Effect /\ NoneYet'
  <2>1. lost' = lost \cup build[b].ctx /\ UNCHANGED <<phases, pending, asked>>
    BY <1>6 DEF PlanFails
  <2>2. Review(b) \/ Finish(b)
    BY <1>6 DEF PlanFails
  <2> QED
    BY <1>0, <1>4, <2>1, <2>2, ReviewLeaves, FinishLeaves
<1> QED
  BY <1>2, <1>3, <1>5, <1>6

(* A build is readied, or implements its phase.                            *)
LEMMA CodingEffects ==
  ASSUME IInv, IInv', NoneYet, NEW b \in Builds,
         \/ TemplateReady(b) \/ CodeIssuesArrive(b) \/ CodeArrives(b) \/ PhaseDeployed(b)
         \/ ReviewReturns(b) \/ \E rateLimit \in BOOLEAN : CodeFails(b, rateLimit)
  PROVE  Effect /\ NoneYet'
<1>0. /\ TypeOK /\ OneBuild /\ InOrder
      /\ build[b].pc \in {"template", "review"} \cup Coding /\ build[b].pc \in Running
      /\ build[b] \in BuildType /\ UNCHANGED <<pending, lost, asked>>
      /\ phases \in Seq(PhaseType) /\ DOMAIN phases = 1..Len(phases) /\ Len(phases) \in Nat
  BY Basics DEF IInv, TemplateReady, CodeIssuesArrive, CodeArrives, PhaseDeployed, ReviewReturns,
     CodeFails, Coding, Running, durable, history
<1>1. Held = {}
  BY <1>0, HeldAlone DEF Coding
<1>2. CASE Leaves(b) /\ phases' = phases
  BY <1>0, <1>1, <1>2, LeavesHeld DEF Effect, Same
<1>3. ASSUME NEW r, build' = [build EXCEPT ![b] = r], phases' = phases, r.pc # "planning",
             r.pc = "planIssues" => r.ctx = {}
      PROVE  Effect /\ NoneYet'
  <2>1. Held' = {} /\ NoneYet'
    BY <1>0, <1>3, HeldNext
  <2> QED
    BY <1>0, <1>1, <1>3, <2>1 DEF Effect, Same
<1>4. CASE TemplateReady(b)
  <2>1. \A i \in Nat : Implementing(b, i).pc = "codeIssues"
    BY <1>0, ImplementingTyped
  <2>2. CASE phases' = phases /\ \E i \in Incomplete : build' = [build EXCEPT ![b] = Implementing(b, i)]
    <3>1. PICK i \in Incomplete : build' = [build EXCEPT ![b] = Implementing(b, i)]
      BY <2>2
    <3>2. Implementing(b, i).pc = "codeIssues"
      BY <1>0, <2>1 DEF Incomplete
    <3> QED
      BY <1>3, <2>2, <3>1, <3>2
  <2>3. CASE phases' = phases /\ build' = [build EXCEPT ![b] = Stage(b, "planIssues")]
    <3>1. Stage(b, "planIssues").pc = "planIssues" /\ Stage(b, "planIssues").ctx = {}
      BY <1>0, StageTyped DEF Running, Planning
    <3> QED
      BY <1>3, <2>3, <3>1
  <2>4. CASE /\ phases = << >>
             /\ phases' = <<[name |-> InitialName, last |-> FALSE, asks |-> {}, completed |-> FALSE]>>
             /\ build' = [build EXCEPT ![b] = Implementing(b, 1)]
    <3> DEFINE p == [name |-> InitialName, last |-> FALSE, asks |-> {}, completed |-> FALSE]
    <3>1. p \in PhaseType /\ p.asks = {} /\ p.completed = FALSE
      BY NameAssumption DEF PhaseType
    <3>2. phases = << >> /\ phases' = <<p>>
      BY <2>4
    <3> HIDE DEF p
    <3>3. phases' = Append(phases, p) /\ Incomplete = {}
      BY <3>2 DEF Incomplete
    <3>4. Implementing(b, 1).pc = "codeIssues" /\ build' = [build EXCEPT ![b] = Implementing(b, 1)]
      BY <2>1, <2>4
    <3>5. Held' = {} /\ NoneYet'
      BY <1>0, <3>4, HeldNext
    <3>6. Plans
      BY <1>0, <1>1, <3>1, <3>3, <3>5 DEF Plans
    <3> QED
      BY <3>5, <3>6 DEF Effect
  <2> QED
    BY <1>4, <2>2, <2>3, <2>4 DEF TemplateReady
<1>5. CASE CodeIssuesArrive(b)
  <2> DEFINE r == [build[b] EXCEPT !.pc = "coding", !.signal = "current"]
  <2>1. r.pc = "coding" /\ build' = [build EXCEPT ![b] = r] /\ phases' = phases
    BY <1>0, <1>5 DEF CodeIssuesArrive, BuildType, durable
  <2> HIDE DEF r
  <2> QED
    BY <1>3, <2>1
<1>6. CASE CodeArrives(b)
  <2> DEFINE r == [build[b] EXCEPT !.pc = "deploying", !.signal = "none"]
  <2>1. r.pc = "deploying" /\ build' = [build EXCEPT ![b] = r] /\ phases' = phases
    BY <1>0, <1>6 DEF CodeArrives, BuildType, durable
  <2> HIDE DEF r
  <2> QED
    BY <1>3, <2>1
<1>7. CASE PhaseDeployed(b)
  <2>1. /\ phases' = Completed(phases, phases[build[b].phase].name)
        /\ build[b].phase \in DOMAIN phases /\ Incomplete = {build[b].phase}
    BY <1>0, <1>7 DEF PhaseDeployed, InOrder, Incomplete, Coding
  <2>2. phases[build[b].phase].name \in Names
    <3>1. phases[build[b].phase] \in PhaseType
      BY <1>0, <2>1
    <3> QED
      BY <3>1 DEF PhaseType
  <2>3. /\ DOMAIN phases' = DOMAIN phases
        /\ \A i \in DOMAIN phases :
             phases'[i].completed = (phases[i].completed \/ phases[i].name = phases[build[b].phase].name)
    BY <1>0, <2>1, <2>2, CompletedTyped
  <2>4. \A i \in DOMAIN phases : phases'[i].asks = phases[i].asks
    BY <1>0, <2>1, CompletedAsks
  <2>5. \A i \in DOMAIN phases : i # build[b].phase => phases[i].completed
    BY <2>1 DEF Incomplete
  <2>6. Incomplete' = {}
    BY <2>1, <2>3, <2>5 DEF Incomplete
  <2>7. Held' = {} /\ NoneYet'
    <3>1. Review(b) \/ Finalize(b) \/ build' = [build EXCEPT ![b] = Stage(b, "planIssues")]
      BY <1>7 DEF PhaseDeployed
    <3>2. Stage(b, "planIssues").pc = "planIssues" /\ Stage(b, "planIssues").ctx = {}
      BY <1>0, StageTyped DEF Running, Planning
    <3>3. ASSUME Leaves(b) PROVE Held' = {} /\ NoneYet'
      BY <1>0, <3>3, LeavesHeld
    <3>4. ASSUME \E r \in BuildType : FinalAs(b, r) PROVE Held' = {} /\ NoneYet'
      BY <1>0, <3>4, FinalHeld
    <3>5. ASSUME build' = [build EXCEPT ![b] = Stage(b, "planIssues")] PROVE Held' = {} /\ NoneYet'
      BY <1>0, <3>2, <3>5, HeldNext
    <3> QED
      BY <1>0, <3>1, <3>3, <3>4, <3>5, ReviewLeaves, FinalizeStep
  <2>8. Implements
    BY <1>0, <1>1, <2>3, <2>4, <2>6, <2>7 DEF Implements
  <2> QED
    BY <2>7, <2>8 DEF Effect
<1>8. CASE ReviewReturns(b)
  BY <1>0, <1>2, <1>8, FinishLeaves DEF ReviewReturns
<1>9. ASSUME NEW rateLimit \in BOOLEAN, CodeFails(b, rateLimit) PROVE Effect /\ NoneYet'
  <2>1. (Review(b) \/ Finish(b)) /\ phases' = phases
    BY <1>9 DEF CodeFails
  <2> QED
    BY <1>0, <1>2, <2>1, ReviewLeaves, FinishLeaves
<1> QED
  BY <1>4, <1>5, <1>6, <1>7, <1>8, <1>9

(* The other steps: only the queue_request tool and a restart do anything. *)
LEMMA OtherEffects ==
  ASSUME IInv, NoneYet,
         \/ \E b \in Builds : TemplateFails(b) \/ BuildReturns(b)
         \/ \E b \in Builds : GenerateAll(b) \/ Resume(b)
         \/ GenerateAllIdle \/ ResumeIdle \/ Stop
         \/ \E t \in Turns : TurnPrepared(t) \/ TurnFails(t)
         \/ \E t \in Turns, ask \in BOOLEAN : Say(t, ask)
         \/ \E t \in Turns, r \in Requests : QueueRequest(t, r)
         \/ \E t \in Turns, b \in Builds : TurnEnds(t, b)
         \/ Restart \/ UNCHANGED vars
  PROVE  Effect /\ NoneYet'
<1> USE DEF durable, memory, history
<1>0. /\ \A b \in Builds : build[b] \in BuildType
      /\ build \in [Builds -> BuildType]
  BY DEF IInv, TypeOK
<1>1. ASSUME UNCHANGED <<phases, pending, lost, asked>>,
             \A x \in Builds : \/ build'[x].pc = build[x].pc /\ build'[x].ctx = build[x].ctx
                               \/ /\ build'[x].pc \notin {"planIssues", "planning"}
                                  /\ build[x].pc # "planning"
      PROVE  Effect /\ NoneYet'
  BY <1>1, HeldSame DEF Effect, Same
<1>2. ASSUME NEW b \in Builds, NEW r, build' = [build EXCEPT ![b] = r],
             UNCHANGED <<phases, pending, lost, asked>>,
             build[b].pc # "planning", r.pc \notin {"planIssues", "planning"}
      PROVE  Effect /\ NoneYet'
  <2>1. \A x \in Builds : build'[x] = IF x = b THEN r ELSE build[x]
    BY <1>0, <1>2
  <2> QED
    BY <1>1, <1>2, <2>1
<1>3. ASSUME NEW b \in Builds, TemplateFails(b) \/ BuildReturns(b) PROVE Effect /\ NoneYet'
  <2>1. \E r : /\ build' = [build EXCEPT ![b] = r]
               /\ build[b].pc # "planning" /\ r.pc \notin {"planIssues", "planning"}
    <3>1. Ended(b, "rejected").pc = "rejected" /\ FreeBuild.pc = "free"
      BY DEF Ended, FreeBuild, Fresh
    <3> QED
      BY <1>3, <3>1 DEF TemplateFails, BuildReturns
  <2>2. UNCHANGED <<phases, pending, lost, asked>>
    BY <1>3 DEF TemplateFails, BuildReturns
  <2> QED
    BY <1>2, <2>1, <2>2
<1>4. ASSUME NEW b \in Builds, NEW o, StartBuild(b, o), UNCHANGED <<phases, pending, lost, asked>>
      PROVE  Effect /\ NoneYet'
  <2>1. build' = [build EXCEPT ![b] = Fresh("template", o)] /\ build[b].pc = "free"
    BY <1>4 DEF StartBuild
  <2>2. Fresh("template", o).pc = "template"
    BY DEF Fresh
  <2> QED
    BY <1>2, <1>4, <2>1, <2>2
<1>5. ASSUME NEW b \in Builds, GenerateAll(b) \/ Resume(b) PROVE Effect /\ NoneYet'
  BY <1>4, <1>5 DEF GenerateAll, Resume
<1>6. CASE UNCHANGED <<phases, pending, lost, asked, build>>
  BY <1>1, <1>6
<1>7. CASE GenerateAllIdle \/ ResumeIdle \/ UNCHANGED vars
  BY <1>6, <1>7 DEF GenerateAllIdle, ResumeIdle, vars
<1>8. ASSUME NEW t \in Turns,
             \/ TurnPrepared(t) \/ TurnFails(t) \/ \E ask \in BOOLEAN : Say(t, ask)
             \/ \E b \in Builds : TurnEnds(t, b)
      PROVE  Effect /\ NoneYet'
  BY <1>4, <1>6, <1>8 DEF TurnPrepared, TurnFails, Say, TurnEnds
<1>9. CASE Stop
  <2>1. \A x \in Builds : build'[x].pc = build[x].pc /\ build'[x].ctx = build[x].ctx
    BY <1>0, <1>9 DEF Stop, BuildType
  <2>2. UNCHANGED <<phases, pending, lost, asked>>
    BY <1>9 DEF Stop
  <2> QED
    BY <1>1, <2>1, <2>2
<1>10. ASSUME NEW t \in Turns, NEW r \in Requests, QueueRequest(t, r) PROVE Effect /\ NoneYet'
  <2>1. /\ r \notin asked /\ asked' = asked \cup {r} /\ pending' = pending \cup {r}
        /\ UNCHANGED <<phases, lost, build>>
    BY <1>10 DEF QueueRequest
  <2>2. Held' = Held /\ NoneYet'
    BY <2>1 DEF Held, NoneYet
  <2> QED
    BY <2>1, <2>2 DEF Effect, Asks
<1>11. CASE Restart
  <2>1. /\ lost' = lost \cup Held /\ UNCHANGED <<phases, pending, asked>>
        /\ build' = [b \in Builds |-> FreeBuild]
    BY <1>11 DEF Restart, Held
  <2>2. \A b \in Builds : build'[b].pc = "free"
    BY <2>1 DEF FreeBuild, Fresh
  <2>3. Held' = {} /\ NoneYet'
    BY <2>2, HeldBy DEF NoneYet
  <2> QED
    BY <2>1, <2>3 DEF Effect, Drops
<1> QED
  BY <1>3, <1>5, <1>7, <1>8, <1>9, <1>10, <1>11

(* Every step has one of the effects.                                      *)
LEMMA StepEffect ==
  ASSUME IInv, NoneYet, [Next]_vars
  PROVE  Effect /\ NoneYet'
<1>1. IInv'
  BY NextKeeps
<1>2. ASSUME NEW b \in Builds, BuildStep(b) PROVE Effect /\ NoneYet'
  BY <1>1, <1>2, PlanningEffects, CodingEffects, OtherEffects DEF BuildStep
<1> QED
  BY <1>2, OtherEffects DEF Next

(* No step puts a request in two places.                                   *)
LEMMA EffectPlaced ==
  ASSUME IInv, Placed, Effect, NoneYet'
  PROVE  Placed'
<1>0. /\ phases \in Seq(PhaseType) /\ DOMAIN phases = 1..Len(phases) /\ Len(phases) \in Nat
      /\ pending \subseteq asked /\ lost \subseteq asked /\ Held \subseteq asked
  BY Basics, HeldBy DEF IInv, TypeOK
<1>1. CASE Same
  BY <1>1 DEF Same, Placed, NoneYet
<1>2. CASE Takes
  BY <1>2 DEF Takes, Placed, NoneYet
<1>3. CASE Drops
  BY <1>3 DEF Drops, Placed, NoneYet
<1>4. CASE Implements
  BY <1>4 DEF Implements, Placed, NoneYet
<1>5. ASSUME NEW r \in Requests, Asks(r) PROVE Placed'
  BY <1>0, <1>5 DEF Asks, Placed, NoneYet
<1>6. CASE Plans
  <2>1. PICK p \in PhaseType : phases' = Append(phases, p) /\ p.asks = Held
    BY <1>6 DEF Plans
  <2>2. /\ DOMAIN phases' = 1..(Len(phases) + 1)
        /\ \A i \in DOMAIN phases : phases'[i] = phases[i]
        /\ phases'[Len(phases) + 1].asks = Held
    BY <1>0, <2>1, AppendTyped
  <2>3. \A i \in DOMAIN phases' : i = Len(phases) + 1 \/ i \in DOMAIN phases
    BY <1>0, <2>2
  <2>4. Held' = {} /\ UNCHANGED <<pending, lost, asked>>
    BY <1>6 DEF Plans
  <2>5. \A i \in DOMAIN phases' :
          phases'[i].asks \subseteq asked /\ phases'[i].asks \cap (pending \cup lost) = {}
    BY <1>0, <2>2, <2>3 DEF Placed
  <2>6. \A i, j \in DOMAIN phases' : i # j => phases'[i].asks \cap phases'[j].asks = {}
    BY <2>2, <2>3 DEF Placed
  <2> QED
    BY <2>4, <2>5, <2>6 DEF Placed, NoneYet
<1> QED
  BY <1>1, <1>2, <1>3, <1>4, <1>5, <1>6 DEF Effect

(* Nothing is asked for, held or planned at first.                         *)
LEMMA InitPlaced == Init => Placed /\ NoneYet /\ Lifecycle!Init
<1> SUFFICES ASSUME Init PROVE Placed /\ NoneYet /\ Lifecycle!Init
  OBVIOUS
<1>1. /\ phases = << >> /\ DOMAIN phases = {} /\ pending = {} /\ lost = {} /\ asked = {}
      /\ \A b \in Builds : build[b].pc = "free"
  BY DEF Init, FreeBuild, Fresh
<1>2. Held = {}
  BY <1>1, HeldBy
<1>3. Placed /\ NoneYet
  BY <1>1, <1>2 DEF Placed, NoneYet
<1>4. \A r \in Requests : StatusOf(r) = "unasked"
  BY <1>1, <1>2 DEF StatusOf, InPhase
<1> QED
  BY <1>3, <1>4 DEF Lifecycle!Init

(* Each effect is a step of RequestLifecycle, or leaves every status.      *)
LEMMA EffectRefines ==
  ASSUME IInv, Placed, Effect
  PROVE  [Lifecycle!Next]_[r \in Requests |-> StatusOf(r)]
<1>0. /\ phases \in Seq(PhaseType) /\ DOMAIN phases = 1..Len(phases) /\ Len(phases) \in Nat
      /\ pending \subseteq asked /\ lost \subseteq asked /\ Held \subseteq asked
      /\ \A i \in DOMAIN phases : phases[i].completed \in BOOLEAN
  <2>1. /\ phases \in Seq(PhaseType) /\ DOMAIN phases = 1..Len(phases) /\ Len(phases) \in Nat
        /\ pending \subseteq asked /\ lost \subseteq asked /\ Held \subseteq asked
    BY Basics, HeldBy DEF IInv, TypeOK
  <2>2. \A i \in DOMAIN phases : phases[i] \in PhaseType
    BY <2>1
  <2> QED
    BY <2>1, <2>2 DEF PhaseType
<1>1. ASSUME NEW s, NEW t,
             \A r \in Requests : StatusOf(r)' = IF StatusOf(r) = s THEN t ELSE StatusOf(r)
      PROVE  Lifecycle!Move(s, t)
  BY <1>1 DEF Lifecycle!Move
<1>3. CASE Same
  <2>1. \A r \in Requests : StatusOf(r)' = StatusOf(r)
    BY <1>3 DEF Same, StatusOf, InPhase
  <2> QED
    BY <2>1
<1>4. CASE Takes
  <2>1. \A r \in Requests : StatusOf(r) # "taken" /\ StatusOf(r) # "planned"
    BY <1>0, <1>4 DEF Takes, StatusOf, InPhase, Incomplete
  <2>2. \A r \in Requests : StatusOf(r)' = IF StatusOf(r) = "queued" THEN "taken" ELSE StatusOf(r)
    BY <1>4 DEF Takes, StatusOf, InPhase
  <2>3. Lifecycle!Take
    BY <1>1, <2>1, <2>2 DEF Lifecycle!Take, Lifecycle!With
  <2> QED
    BY <2>3 DEF Lifecycle!Next
<1>5. CASE Plans
  <2>1. PICK p \in PhaseType : phases' = Append(phases, p) /\ p.asks = Held /\ p.completed = FALSE
    BY <1>5 DEF Plans, PhaseType
  <2>2. /\ DOMAIN phases' = 1..(Len(phases) + 1)
        /\ \A i \in DOMAIN phases : phases'[i] = phases[i]
        /\ phases'[Len(phases) + 1] = p
    BY <1>0, <2>1, AppendTyped
  <2>3. /\ \A r : InPhase(r, FALSE)' <=> InPhase(r, FALSE) \/ r \in Held
        /\ \A r : InPhase(r, TRUE)' <=> InPhase(r, TRUE)
    BY <1>0, <2>1, <2>2 DEF InPhase
  <2>4. \A r : ~InPhase(r, FALSE)
    BY <1>0, <1>5 DEF Plans, InPhase, Incomplete
  <2>5. \A r \in Requests : StatusOf(r) # "planned"
    BY <2>4 DEF StatusOf
  <2>6. \A r \in Requests : StatusOf(r)' = IF StatusOf(r) = "taken" THEN "planned" ELSE StatusOf(r)
    BY <1>5, <2>3, <2>4 DEF Plans, StatusOf
  <2>7. Lifecycle!Plan
    BY <1>1, <2>5, <2>6 DEF Lifecycle!Plan, Lifecycle!With
  <2> QED
    BY <2>7 DEF Lifecycle!Next
<1>6. CASE Implements
  <2>1. \A r : InPhase(r, TRUE)' <=> InPhase(r, TRUE) \/ InPhase(r, FALSE)
    BY <1>0, <1>6 DEF Implements, InPhase, Incomplete
  <2>2. \A r : ~InPhase(r, FALSE)'
    BY <1>0, <1>6 DEF Implements, InPhase, Incomplete
  <2>3. \A r \in Requests : StatusOf(r)' = IF StatusOf(r) = "planned" THEN "done" ELSE StatusOf(r)
    BY <1>6, <2>1, <2>2 DEF Implements, StatusOf
  <2>4. Lifecycle!Implement
    BY <1>1, <2>3 DEF Lifecycle!Implement
  <2> QED
    BY <2>4 DEF Lifecycle!Next
<1>7. CASE Drops
  <2>1. \A r \in Requests : StatusOf(r)' = IF StatusOf(r) = "taken" THEN "dropped" ELSE StatusOf(r)
    BY <1>7 DEF Drops, StatusOf, InPhase, Placed
  <2>2. Lifecycle!Drop
    BY <1>1, <2>1 DEF Lifecycle!Drop
  <2> QED
    BY <2>2 DEF Lifecycle!Next
<1>8. ASSUME NEW q \in Requests, Asks(q) PROVE Lifecycle!Next
  <2>1. StatusOf(q) = "unasked" /\ StatusOf(q)' = "queued"
    BY <1>0, <1>8 DEF Asks, StatusOf, InPhase, Placed
  <2>2. \A r \in Requests : r # q => StatusOf(r)' = StatusOf(r)
    BY <1>8 DEF Asks, StatusOf, InPhase
  <2>3. Lifecycle!Ask(q)
    BY <2>1, <2>2 DEF Lifecycle!Ask
  <2> QED
    BY <2>3 DEF Lifecycle!Next
<1> QED
  BY <1>3, <1>4, <1>5, <1>6, <1>7, <1>8 DEF Effect

(* The requests stay in one place.                                         *)
LEMMA PlacedAlways == Spec => [](IInv /\ Placed /\ NoneYet)
<1>1. Init => IInv /\ Placed /\ NoneYet
  BY InitKeeps, InitPlaced
<1>2. IInv /\ Placed /\ NoneYet /\ [Next]_vars => (IInv /\ Placed /\ NoneYet)'
  BY NextKeeps, StepEffect, EffectPlaced
<1> QED
  BY <1>1, <1>2, PTL DEF Spec

(* A request waits, is being planned, belongs to one phase or was dropped: *)
(* never two of these, so it is served at most once.                       *)
THEOREM ServedOnce == Spec => []Placed
BY PlacedAlways, PTL

(* The generator implements RequestLifecycle, for any number of requests,  *)
(* builds and turns and through any restarts: no request vanishes from the *)
(* queue, and those of one plan are served or dropped together.            *)
THEOREM RequestsAreKept == Spec => KeepsLifecycle
<1>1. Init => Lifecycle!Init
  BY InitPlaced
<1>2. IInv /\ Placed /\ NoneYet /\ [Next]_vars
        => [Lifecycle!Next]_[r \in Requests |-> StatusOf(r)]
  BY StepEffect, EffectRefines
<1> QED
  BY <1>1, <1>2, PlacedAlways, PTL DEF Spec, KeepsLifecycle, Lifecycle!Spec

=============================================================================
