---------------------------- MODULE AgentProofs ----------------------------
(***************************************************************************)
(* Theorems about an agent's turns and builds: ToolLoop, DeepDebug and     *)
(* AgenticBuild, for any tools, declarations, batch size, depth, number of *)
(* attempts, turns, batches, builds and requests; and about the parts of   *)
(* the agent together.                                                     *)
(*                                                                         *)
(* BatchOrder is inductive with the type of the calls: a group starts only *)
(* calls whose earlier conflicts are done, and a call that is done stays   *)
(* so until the next reply.  AnsweredContext rests on TurnContext: an      *)
(* unanswered entry is written only with the end of the turn, and a full   *)
(* context is never added to.  DebugKnown is inductive with the type       *)
(* invariant: a batch that starts a session found no other and its turn    *)
(* had no call running; the end of a session leaves none, since the        *)
(* promise it clears was its own.  WaitsOnRunning adds whom a turn awaits. *)
(***************************************************************************)
EXTENDS MCAgent, StorageProofs, WellFoundedInduction, TLAPS

----------------------------------------------------------------------------
(* The turn and its tools                                                  *)

\* While the turn goes on its context is answered, and has room for the
\* results of the reply that is being made or run.
TurnContext ==
  /\ at # "ended" => \A k \in DOMAIN context : context[k].answered = context[k].asked
  /\ at \in {"model", "tools"} => Len(context) < MaxDepth

Entry == [asked : Nat, answered : Nat]

---------------------------------------------------------------------------
(* Replies and contexts *)

\* A reply of the model is a batch of names.
LEMMA ReplyIsBatch == Replies \subseteq Batches
<1> SUFFICES ASSUME NEW n \in 0 .. MaxCalls, NEW b \in [1 .. n -> Names] PROVE b \in Batches
  BY DEF Replies
<1>1. n \in Nat /\ n <= MaxCalls
  BY ToolLoopAssumption
<1> QED
  BY <1>1 DEF Batches

\* The calls of a batch are slots.
LEMMA CallsAreSlots == LoopTypeOK => DOMAIN batch \subseteq Slots
  BY ToolLoopAssumption DEF LoopTypeOK, Batches, Slots

\* A context that is answered stays so with an answered entry at its end.
LEMMA AppendAnswered ==
  ASSUME NEW c \in Seq(Entry), NEW e \in Entry,
         \A k \in DOMAIN c : c[k].answered = c[k].asked, e.answered = e.asked
  PROVE  \A k \in DOMAIN Append(c, e) : Append(c, e)[k].answered = Append(c, e)[k].asked
  OBVIOUS

\* The retry of an attempt leaves an empty context and a legal attempt, and
\* ends the turn or waits.
LEMMA RetryEffect ==
  ASSUME LoopTypeOK, Retry
  PROVE  /\ context' = <<>> /\ attempt' \in 0 .. RetryLimit - 1
         /\ \/ at' = "ended" /\ outcome' = "failed"
            \/ at' = "backoff" /\ outcome' = outcome
  BY ToolLoopAssumption DEF LoopTypeOK, Retry, End

---------------------------------------------------------------------------
(* The type invariant *)

\* Every step keeps the variables in their types, given the depth bound of TurnContext.
LEMMA LoopTypeStep == LoopTypeOK /\ TurnContext /\ [LoopNext]_loopVars => LoopTypeOK'
<1> SUFFICES ASSUME LoopTypeOK, TurnContext, [LoopNext]_loopVars PROVE LoopTypeOK'
  OBVIOUS
<1>a. Len(batch) \in Nat /\ <<>> \in Seq(Entry) /\ Len(<<>>) <= MaxDepth
  BY ToolLoopAssumption DEF LoopTypeOK, Batches
<1>b. ASSUME at = "tools", NEW n \in Nat,
             context' = Append(context, [asked |-> Len(batch), answered |-> n])
      PROVE  context' \in Seq(Entry) /\ Len(context') <= MaxDepth
  <2>1. context \in Seq(Entry) /\ Len(context) < MaxDepth
    BY <1>b DEF LoopTypeOK, TurnContext, Entry
  <2> QED
    BY <1>a, <1>b, <2>1, ToolLoopAssumption DEF Entry
<1>1. CASE ExecuteInference
  BY <1>1 DEF ExecuteInference, LoopTypeOK
<1>2. CASE Request
  BY <1>2 DEF Request, End, LoopTypeOK
<1>3. CASE Limited
  BY <1>3 DEF Limited, End, LoopTypeOK
<1>4. CASE CallFails
  BY <1>4, <1>a, RetryEffect DEF CallFails, LoopTypeOK, Entry
<1>5. CASE CallCancelled
  BY <1>5 DEF CallCancelled, End, LoopTypeOK
<1>6. CASE TextRepeats
  BY <1>6, <1>a, RetryEffect DEF TextRepeats, LoopTypeOK, Entry
<1>7. CASE BackoffEnds
  BY <1>7 DEF BackoffEnds, LoopTypeOK
<1>8. ASSUME NEW b \in Replies, Reply(b) PROVE LoopTypeOK'
  BY <1>8, ReplyIsBatch DEF Reply, End, LoopTypeOK
<1>9. CASE UserCancels
  BY <1>9 DEF UserCancels, LoopTypeOK
<1>10. CASE StartGroup
  BY <1>10 DEF StartGroup, End, LoopTypeOK
<1>11. CASE BatchDone
  <2>1. context' \in Seq(Entry) /\ Len(context') <= MaxDepth
    BY <1>11, <1>a, <1>b DEF BatchDone
  <2> QED
    BY <1>11, <2>1 DEF BatchDone, End, LoopTypeOK, Entry
<1>12. ASSUME NEW i \in Slots, ToolEnds(i) PROVE LoopTypeOK'
  BY <1>12 DEF ToolEnds, LoopTypeOK
<1>13. ASSUME NEW i \in Slots, ToolAborts(i) PROVE LoopTypeOK'
  <2>1. context' \in Seq(Entry) /\ Len(context') <= MaxDepth
    BY <1>13, <1>b DEF ToolAborts, LoopTypeOK, Entry
  <2> QED
    BY <1>13, <2>1 DEF ToolAborts, End, LoopTypeOK, Entry
<1>14. CASE UNCHANGED loopVars
  BY <1>14 DEF loopVars, LoopTypeOK, Batches, Names
<1> QED
  BY <1>1, <1>2, <1>3, <1>4, <1>5, <1>6, <1>7, <1>8, <1>9, <1>10, <1>11, <1>12, <1>13, <1>14
  DEF LoopNext

---------------------------------------------------------------------------
(* The context of the turn *)

\* Every step keeps the context answered while the turn goes on.
LEMMA TurnContextStep == LoopTypeOK /\ TurnContext /\ [LoopNext]_loopVars => TurnContext'
<1> SUFFICES ASSUME LoopTypeOK, TurnContext, [LoopNext]_loopVars PROVE TurnContext'
  OBVIOUS
<1>1. CASE ExecuteInference
  BY <1>1 DEF ExecuteInference, TurnContext
<1>2. CASE Request
  <2>1. Len(context) \in Nat /\ MaxDepth \in Nat
    BY ToolLoopAssumption DEF LoopTypeOK
  <2> QED
    BY <1>2, <2>1 DEF Request, End, TurnContext
<1>3. CASE Limited
  BY <1>3 DEF Limited, End, TurnContext
<1>4. CASE CallFails
  BY <1>4, RetryEffect DEF CallFails, TurnContext
<1>5. CASE CallCancelled
  BY <1>5 DEF CallCancelled, End, TurnContext
<1>6. CASE TextRepeats
  BY <1>6, RetryEffect DEF TextRepeats, TurnContext
<1>7. CASE BackoffEnds
  BY <1>7 DEF BackoffEnds, TurnContext
<1>8. ASSUME NEW b \in Replies, Reply(b) PROVE TurnContext'
  BY <1>8 DEF Reply, End, TurnContext
<1>9. CASE UserCancels
  BY <1>9 DEF UserCancels, TurnContext
<1>10. CASE StartGroup
  BY <1>10 DEF StartGroup, End, TurnContext
<1>11. CASE BatchDone
  <2> DEFINE e == [asked |-> Len(batch), answered |-> Len(batch)]
  <2>1. context \in Seq(Entry) /\ e \in Entry /\ e.answered = e.asked
    BY DEF LoopTypeOK, Batches, Entry
  <2>2. /\ \A k \in DOMAIN context : context[k].answered = context[k].asked
        /\ context' = Append(context, e)
        /\ at' \in {"ended", "request"}
    BY <1>11 DEF BatchDone, End, TurnContext
  <2> HIDE DEF e
  <2>3. \A k \in DOMAIN context' : context'[k].answered = context'[k].asked
    BY <2>1, <2>2, AppendAnswered
  <2> QED
    BY <2>2, <2>3 DEF TurnContext
<1>12. ASSUME NEW i \in Slots, ToolEnds(i) PROVE TurnContext'
  BY <1>12 DEF ToolEnds, TurnContext
<1>13. ASSUME NEW i \in Slots, ToolAborts(i) PROVE TurnContext'
  BY <1>13 DEF ToolAborts, End, TurnContext
<1>14. CASE UNCHANGED loopVars
  BY <1>14 DEF loopVars, TurnContext
<1> QED
  BY <1>1, <1>2, <1>3, <1>4, <1>5, <1>6, <1>7, <1>8, <1>9, <1>10, <1>11, <1>12, <1>13, <1>14
  DEF LoopNext

---------------------------------------------------------------------------
(* The order of a batch *)

\* Steps that touch neither the batch nor its calls keep their order.
LEMMA OrderFrame ==
  ASSUME BatchOrder, UNCHANGED <<batch, call>> PROVE BatchOrder'
  BY DEF BatchOrder, Conflicting, Defined, Names

\* A call that ends was running: what waited for it may start, and what it
\* waited for is done.
LEMMA OrderEnds ==
  ASSUME LoopTypeOK, BatchOrder, NEW i \in Running, batch' = batch,
         call' = [call EXCEPT ![i] = "done"]
  PROVE  BatchOrder'
<1> SUFFICES ASSUME NEW k \in DOMAIN batch, NEW j \in DOMAIN batch, j < k,
                    Conflicting(k, j), call'[k] # "waiting"
             PROVE  call'[j] = "done"
  BY DEF BatchOrder, Conflicting, Defined
<1>1. call \in [Slots -> {"waiting", "running", "done"}] /\ k \in Slots /\ j \in Slots
  BY CallsAreSlots DEF LoopTypeOK
<1>2. call[k] # "waiting"
  BY <1>1 DEF Running
<1> QED
  BY <1>1, <1>2 DEF BatchOrder

\* Every step keeps the order of conflicting calls.
LEMMA OrderStep == LoopTypeOK /\ BatchOrder /\ [LoopNext]_loopVars => BatchOrder'
<1> SUFFICES ASSUME LoopTypeOK, BatchOrder, [LoopNext]_loopVars PROVE BatchOrder'
  OBVIOUS
<1>1. CASE UNCHANGED <<batch, call>>
  BY <1>1, OrderFrame
<1>2. ASSUME NEW b \in Replies, Reply(b) PROVE BatchOrder'
  <2>1. \A i \in DOMAIN batch' : call'[i] = "waiting"
    BY <1>2, ReplyIsBatch, ToolLoopAssumption DEF Reply, Batches, Slots
  <2> QED
    BY <2>1 DEF BatchOrder
<1>3. CASE StartGroup
  <2> SUFFICES ASSUME NEW i \in DOMAIN batch, NEW j \in DOMAIN batch, j < i,
                      Conflicting(i, j), call'[i] # "waiting"
               PROVE  call'[j] = "done"
    BY <1>3 DEF StartGroup, BatchOrder, Conflicting, Defined
  <2>1. i \in Slots /\ j \in Slots /\ j \in 1 .. i - 1
    BY CallsAreSlots, ToolLoopAssumption DEF Slots
  <2>2. call'[i] = IF i \in Group /\ Defined(i) THEN "running" ELSE call[i]
    BY <1>3, <2>1 DEF StartGroup
  <2>3. call'[j] = IF j \in Group /\ Defined(j) THEN "running" ELSE call[j]
    BY <1>3, <2>1 DEF StartGroup
  <2>4. call[j] = "done"
    BY <2>1, <2>2 DEF Group, BatchOrder
  <2>5. j \notin Group
    BY <2>4 DEF Group, Waiting
  <2> QED
    BY <2>3, <2>4, <2>5
<1>4. ASSUME NEW i \in Slots, ToolEnds(i) PROVE BatchOrder'
  BY <1>4, OrderEnds DEF ToolEnds
<1>5. ASSUME NEW i \in Slots, ToolAborts(i) PROVE BatchOrder'
  BY <1>5, OrderEnds DEF ToolAborts
<1> QED
  BY <1>1, <1>2, <1>3, <1>4, <1>5
  DEF LoopNext, ExecuteInference, Request, Limited, CallFails, CallCancelled, TextRepeats,
      BackoffEnds, UserCancels, BatchDone, loopVars

---------------------------------------------------------------------------
(* Resources and groups *)

\* The merged declaration of two arguments conflicts with whatever one of them
\* conflicts with: no order is lost because a tool takes several arguments.  The
\* hypothesis is the comment of mergeResources, `they should be the same for same
\* tool': of two sandbox operations the last one wins.
THEOREM MergeKeepsConflicts ==
  ASSUME NEW r \in ResourceType, NEW q \in ResourceType, NEW s \in ResourceType,
         r.sandbox # "none" /\ q.sandbox # "none" => r.sandbox = q.sandbox,
         Conflict(r, s) \/ Conflict(q, s)
  PROVE  Conflict(MergeResources(r, q), s)
<1> DEFINE m == MergeResources(r, q)
<1>1. /\ m.mode = IF q.mode = "none" THEN r.mode
                  ELSE IF q.mode = "write" \/ r.mode = "none" THEN q.mode ELSE r.mode
      /\ m.sandbox = IF q.sandbox = "none" THEN r.sandbox ELSE q.sandbox
      /\ m.blueprint = (r.blueprint \/ q.blueprint) /\ m.commit = (r.commit \/ q.commit)
  BY DEF MergeResources
<1>2. m.paths = IF q.mode = "none" THEN r.paths
                ELSE IF r.mode = "none" THEN q.paths
                ELSE IF r.paths = {} \/ q.paths = {} THEN {} ELSE r.paths \cup q.paths
  BY DEF MergeResources
<1> HIDE DEF m
<1>3. \A x \in {r, q, s} : x.mode \in {"none", "read", "write"}
  BY DEF ResourceType
<1>4. CASE Conflict(r, s)
  <2>1. r.mode # "none" /\ PathsOverlap(r.paths, s.paths) => PathsOverlap(m.paths, s.paths)
    BY <1>2 DEF PathsOverlap
  <2> QED
    BY <1>1, <1>3, <1>4, <2>1 DEF Conflict, m
<1>5. CASE Conflict(q, s)
  <2>1. q.mode # "none" /\ PathsOverlap(q.paths, s.paths) => PathsOverlap(m.paths, s.paths)
    BY <1>2 DEF PathsOverlap
  <2> QED
    BY <1>1, <1>3, <1>5, <2>1 DEF Conflict, m
<1> QED
  BY <1>4, <1>5

\* A set of numbers that is not empty has a smallest one.
LEMMA SmallestOf ==
  ASSUME NEW S \in SUBSET Nat, S # {}
  PROVE  \E n \in S : \A m \in S : n <= m
<1> DEFINE R == {ss \in Nat \X Nat : ss[1] < ss[2]}
<1>1. IsWellFoundedOn(R, Nat)
  BY NatLessThanWellFounded DEF OpToRel
<1> HIDE DEF R
<1>2. PICK n \in S : \A m \in S : <<m, n>> \notin R
  BY <1>1, WFMin
<1>3. ASSUME NEW m \in S PROVE n <= m
  <2>1. m \in Nat /\ n \in Nat /\ ~(<<m, n>> \in Nat \X Nat /\ m < n)
    BY <1>2 DEF R
  <2> QED
    BY <2>1
<1> QED
  BY <1>3

\* Calls that wait while none runs include one that may start, the first of
\* them: the plan never leaves a batch with everybody waiting for somebody.
LEMMA GroupNotEmpty == LoopTypeOK /\ Running = {} /\ Waiting # {} => Group # {}
<1> SUFFICES ASSUME LoopTypeOK, Running = {}, Waiting # {} PROVE Group # {}
  OBVIOUS
<1>1. Waiting \subseteq DOMAIN batch /\ DOMAIN batch = 1 .. Len(batch) /\ Len(batch) \in Nat
  BY DEF Waiting, LoopTypeOK, Batches
<1>2. PICK i \in Waiting : \A j \in Waiting : i <= j
  BY <1>1, SmallestOf
<1>3. ASSUME NEW j \in 1 .. i - 1 PROVE call[j] = "done"
  <2>1. j \in DOMAIN batch /\ j \notin Waiting
    BY <1>1, <1>2
  <2> QED
    BY <2>1, CallsAreSlots DEF Running, Waiting, LoopTypeOK
<1> QED
  BY <1>2, <1>3 DEF Group

---------------------------------------------------------------------------
(* The theorems *)

\* The first state has an empty context and an empty batch.
LEMMA LoopStarts == LoopInit => LoopTypeOK /\ TurnContext /\ BatchOrder
<1> SUFFICES ASSUME LoopInit PROVE LoopTypeOK /\ TurnContext /\ BatchOrder
  OBVIOUS
<1>1. batch \in Batches /\ context \in Seq(Entry) /\ Len(context) <= MaxDepth
  BY ToolLoopAssumption DEF LoopInit, Batches
<1>2. attempt \in 0 .. RetryLimit - 1 /\ call \in [Slots -> {"waiting", "running", "done"}]
  BY ToolLoopAssumption DEF LoopInit
<1>3. LoopTypeOK
  BY <1>1, <1>2 DEF LoopInit, LoopTypeOK, Entry
<1> QED
  BY <1>3 DEF LoopInit, TurnContext, BatchOrder

\* The variables of ToolLoop keep their types: the attempts stay below
\* retryLimit and the context within the depth, over retries and recursion.
THEOREM LoopTypeCorrect == LoopSpec => [](LoopTypeOK /\ TurnContext)
  BY LoopStarts, LoopTypeStep, TurnContextStep, PTL DEF LoopSpec

\* Tool calls in conflict run one after the other in the order of the reply,
\* whatever tools declare, however large the reply and however the turn ends.
THEOREM CallsInOrder == LoopSpec => []BatchOrder
  BY LoopStarts, LoopTypeCorrect, OrderStep, PTL DEF LoopSpec

\* The model is never asked with a call in the context that has no result,
\* over any number of retries, tool rounds, aborts and made-up names.
THEOREM ContextAnswered == LoopSpec => []AnsweredContext
<1>1. TurnContext => AnsweredContext
  BY DEF TurnContext, AnsweredContext
<1> QED
  BY <1>1, LoopTypeCorrect, PTL

\* A batch is never stuck: as long as calls wait, one runs or the next group has
\* a call, whatever the conflicts between them.
THEOREM BatchNeverStuck == LoopSpec => [](Waiting # {} /\ Running = {} => Group # {})
  BY LoopTypeCorrect, GroupNotEmpty, PTL

----------------------------------------------------------------------------
(* Debug sessions and builds                                               *)

\* A turn that waits for nothing is an Asking record.
LEMMA FreshType ==
  ASSUME NEW active \in BOOLEAN
  PROVE  Fresh(active) \in Asking /\ ~Fresh(active).debugging
  BY DebugAssumption DEF Fresh, Asking, OptionalTurn

\* So is a slot without a turn.
LEMMA NotAskingType == NotAsking \in Asking /\ ~NotAsking.debugging
  BY FreshType DEF NotAsking

\* The calls of a batch leave an Asking record, in which the session it started runs.
LEMMA CallingType ==
  ASSUME NEW t \in DebugTurns, DebugTypeOK, asking[t].batches < MaxBatches,
         NEW debug \in BOOLEAN, NEW waitDebug \in BOOLEAN, NEW waitBuild \in BOOLEAN,
         NEW waitsFirst \in BOOLEAN
  PROVE  /\ Calling(t, debug, waitDebug, waitBuild, waitsFirst) \in Asking
         /\ Calling(t, debug, waitDebug, waitBuild, waitsFirst).debugging
              = (debug /\ MayDebug(t))
<1>1. asking[t] \in Asking /\ deepDebug \in OptionalTurn
  BY DEF DebugTypeOK
<1>2. /\ asking[t].called \in BOOLEAN /\ asking[t].active \in BOOLEAN
      /\ asking[t].batches + 1 \in 0 .. MaxBatches
  BY <1>1, DebugAssumption DEF Asking
<1>3. Found(t, debug, waitsFirst) \in OptionalTurn /\ NoTurn \in OptionalTurn
  BY <1>1 DEF Found, OptionalTurn
<1>4. MayDebug(t) \in BOOLEAN
  BY DEF MayDebug
<1> HIDE DEF Found, MayDebug, OptionalTurn
<1> QED
  BY <1>1, <1>2, <1>3, <1>4 DEF Calling, Asking

\* The continuations of a settled promise leave well-typed turns, and end the
\* session of t only.
LEMMA ResumedType ==
  ASSUME NEW t \in DebugTurns, DebugTypeOK
  PROVE  /\ Resumed(t) \in [DebugTurns -> Asking]
         /\ \A u \in DebugTurns :
              Resumed(t)[u].debugging = (asking[u].debugging /\ u # t)
<1> DEFINE r(u) == [asking[u] EXCEPT !.debugging = @ /\ u # t,
                                      !.waits = IF @ = t THEN NoTurn ELSE @]
<1>1. ASSUME NEW u \in DebugTurns
      PROVE  r(u) \in Asking /\ r(u).debugging = (asking[u].debugging /\ u # t)
  <2>1. asking[u] \in Asking
    BY DebugTypeOK DEF DebugTypeOK
  <2> QED
    BY <2>1 DEF Asking, OptionalTurn
<1>2. Resumed(t) = [u \in DebugTurns |-> r(u)]
  BY DEF Resumed
<1> HIDE DEF r
<1> QED
  BY <1>1, <1>2

\* Every step keeps the variables in their types.
LEMMA DebugTypeStep == DebugTypeOK /\ [DebugNext]_debugVars => DebugTypeOK'
<1> SUFFICES ASSUME DebugTypeOK, [DebugNext]_debugVars PROVE DebugTypeOK'
  OBVIOUS
<1> USE DEF DebugTypeOK
<1>1. CASE StartBuild
  BY <1>1 DEF StartBuild
<1>2. CASE EndBuild
  <2>1. ASSUME NEW t \in DebugTurns
        PROVE  [asking[t] EXCEPT !.waitsBuild = FALSE] \in Asking
    <3>1. asking[t] \in Asking
      OBVIOUS
    <3> QED
      BY <3>1 DEF Asking
  <2> QED
    BY <1>2, <2>1 DEF EndBuild
<1>3. CASE Evict
  BY <1>3, NotAskingType DEF Evict, OptionalTurn
<1>4. ASSUME NEW t \in DebugTurns, OpenTurn(t) PROVE DebugTypeOK'
  BY <1>4, FreshType DEF OpenTurn
<1>5. ASSUME NEW t \in DebugTurns, CallTools(t) PROVE DebugTypeOK'
  <2>1. PICK debug \in BOOLEAN, waitDebug \in BOOLEAN, waitBuild \in BOOLEAN,
             waitsFirst \in BOOLEAN :
          /\ shown' = IF debug THEN t ELSE shown
          /\ deepDebug' = IF debug /\ MayDebug(t) THEN t ELSE deepDebug
          /\ asking' = [asking EXCEPT ![t] = Calling(t, debug, waitDebug, waitBuild, waitsFirst)]
    BY <1>5 DEF CallTools
  <2>2. asking[t].batches < MaxBatches /\ UNCHANGED <<transcript, generation>>
    BY <1>5 DEF CallTools
  <2>3. Calling(t, debug, waitDebug, waitBuild, waitsFirst) \in Asking
    BY <2>2, CallingType
  <2> QED
    BY <2>1, <2>2, <2>3 DEF OptionalTurn
<1>6. ASSUME NEW t \in DebugTurns, CloseTurn(t) PROVE DebugTypeOK'
  BY <1>6, NotAskingType DEF CloseTurn
<1>7. ASSUME NEW t \in DebugTurns, LeaveBatch(t) PROVE DebugTypeOK'
  <2>1. [asking[t] EXCEPT !.active = FALSE] \in Asking
    <3>1. asking[t] \in Asking
      OBVIOUS
    <3> QED
      BY <3>1 DEF Asking
  <2> QED
    BY <1>7, <2>1 DEF LeaveBatch
<1>8. ASSUME NEW t \in DebugTurns, EndDebug(t) PROVE DebugTypeOK'
  BY <1>8, ResumedType DEF EndDebug, OptionalTurn
<1>9. CASE UNCHANGED debugVars
  BY <1>9 DEF debugVars
<1> QED
  BY <1>1, <1>2, <1>3, <1>4, <1>5, <1>6, <1>7, <1>8, <1>9 DEF DebugNext

\* Every step keeps deepDebugPromise that of the running session.
LEMMA DebugKnownStep ==
  DebugTypeOK /\ DebugKnown /\ [DebugNext]_debugVars => DebugKnown'
<1> SUFFICES ASSUME DebugTypeOK, DebugKnown, [DebugNext]_debugVars, NEW u \in DebugTurns
             PROVE  (asking[u].debugging <=> deepDebug = u)'
  BY DEF DebugKnown
<1>a. asking \in [DebugTurns -> Asking] /\ (asking[u].debugging <=> deepDebug = u)
  BY DEF DebugTypeOK, DebugKnown
<1>b. ~NotAsking.debugging /\ ~Fresh(TRUE).debugging /\ u # NoTurn
  BY DebugAssumption, NotAskingType, FreshType
<1>1. CASE StartBuild
  BY <1>1, <1>a DEF StartBuild
<1>2. CASE EndBuild
  <2>1. asking'[u] = [asking[u] EXCEPT !.waitsBuild = FALSE]
    BY <1>2 DEF EndBuild
  <2>2. asking'[u].debugging = asking[u].debugging
    BY <2>1, <1>a DEF Asking
  <2> QED
    BY <1>2, <1>a, <2>2 DEF EndBuild
<1>3. CASE Evict
  BY <1>3, <1>b DEF Evict
<1>4. ASSUME NEW t \in DebugTurns, OpenTurn(t) PROVE (asking[u].debugging <=> deepDebug = u)'
  BY <1>4, <1>a, <1>b DEF OpenTurn, Answered
<1>5. ASSUME NEW t \in DebugTurns, CallTools(t) PROVE (asking[u].debugging <=> deepDebug = u)'
  <2>1. PICK debug \in BOOLEAN, waitDebug \in BOOLEAN, waitBuild \in BOOLEAN,
             waitsFirst \in BOOLEAN :
          /\ deepDebug' = IF debug /\ MayDebug(t) THEN t ELSE deepDebug
          /\ asking' = [asking EXCEPT ![t] = Calling(t, debug, waitDebug, waitBuild, waitsFirst)]
    BY <1>5 DEF CallTools
  <2>2. ~asking[t].debugging /\ deepDebug # t /\ asking[t].batches < MaxBatches
    BY <1>5 DEF CallTools, Answered, DebugKnown
  <2>3. MayDebug(t) => deepDebug = NoTurn
    BY DEF MayDebug
  <2>4. Calling(t, debug, waitDebug, waitBuild, waitsFirst).debugging = (debug /\ MayDebug(t))
    BY <2>2, CallingType
  <2>5. asking'[u].debugging = IF u = t THEN debug /\ MayDebug(t) ELSE asking[u].debugging
    BY <2>1, <2>4, <1>a
  <2> QED
    BY <2>1, <2>2, <2>3, <2>5, <1>a, <1>b
<1>6. ASSUME NEW t \in DebugTurns, CloseTurn(t) PROVE (asking[u].debugging <=> deepDebug = u)'
  BY <1>6, <1>a, <1>b DEF CloseTurn, Answered
<1>7. ASSUME NEW t \in DebugTurns, LeaveBatch(t) PROVE (asking[u].debugging <=> deepDebug = u)'
  <2>1. asking'[u].debugging = asking[u].debugging
    BY <1>7, <1>a DEF LeaveBatch, Asking
  <2> QED
    BY <1>7, <1>a, <2>1 DEF LeaveBatch
<1>8. ASSUME NEW t \in DebugTurns, EndDebug(t) PROVE (asking[u].debugging <=> deepDebug = u)'
  <2>1. asking'[u].debugging = (asking[u].debugging /\ u # t) /\ deepDebug' = NoTurn
    BY <1>8, ResumedType DEF EndDebug
  <2>2. deepDebug = t
    BY <1>8 DEF EndDebug, DebugKnown
  <2> QED
    BY <2>1, <2>2, <1>a, <1>b
<1>9. CASE UNCHANGED debugVars
  BY <1>9, <1>a DEF debugVars
<1> QED
  BY <1>1, <1>2, <1>3, <1>4, <1>5, <1>6, <1>7, <1>8, <1>9 DEF DebugNext

\* The variables of DeepDebug keep their types.
THEOREM DebugTypeCorrect == DebugSpec => []DebugTypeOK
<1>1. DebugInit => DebugTypeOK
  BY NotAskingType DEF DebugInit, DebugTypeOK, OptionalTurn
<1> QED
  BY <1>1, DebugTypeStep, PTL DEF DebugSpec

\* deepDebugPromise is set exactly while a session runs, and is that session's:
\* however turns, waiters, builds and evictions overlap, a second session never
\* starts and deep_debug is never refused for a session that is over.
THEOREM DebugKnownHolds == DebugSpec => []DebugKnown
<1>1. DebugInit => DebugKnown
  BY DebugAssumption, NotAskingType DEF DebugInit, DebugKnown
<1> QED
  BY <1>1, DebugTypeCorrect, DebugKnownStep, PTL DEF DebugSpec

\* What wait_for_debug awaits is the session that runs, and what
\* wait_for_generation awaits is a build that runs.
WaitsAreFor(t) ==
  /\ asking[t].waits # NoTurn => asking[t].waits = deepDebug
  /\ asking[t].waitsBuild => generation = "running"
WaitsOnRunning == \A t \in DebugTurns : WaitsAreFor(t)

\* A turn without calls waits for nobody.
LEMMA NobodyAsked ==
  ASSUME NEW active \in BOOLEAN
  PROVE  Fresh(active).waits = NoTurn /\ ~Fresh(active).waitsBuild
  BY DEF Fresh

\* What a batch waits for.
LEMMA CallingWaits ==
  ASSUME NEW t \in DebugTurns, asking[t] \in Asking,
         NEW debug \in BOOLEAN, NEW waitDebug \in BOOLEAN, NEW waitBuild \in BOOLEAN,
         NEW waitsFirst \in BOOLEAN
  PROVE  LET c == Calling(t, debug, waitDebug, waitBuild, waitsFirst) IN
         /\ c.waits \in {NoTurn, Found(t, debug, waitsFirst)}
         /\ c.waitsBuild = (waitBuild /\ generation = "running")
<1> HIDE DEF Found, MayDebug
<1> QED
  BY DEF Calling, Asking

\* Whoever waited for the session of t goes on, the others wait as before.
LEMMA ResumedWaits ==
  ASSUME NEW t \in DebugTurns, NEW u \in DebugTurns, asking[u] \in Asking
  PROVE  /\ Resumed(t)[u].waits = IF asking[u].waits = t THEN NoTurn ELSE asking[u].waits
         /\ Resumed(t)[u].waitsBuild = asking[u].waitsBuild
<1>1. Resumed(t)[u] = [asking[u] EXCEPT !.debugging = @ /\ u # t,
                                        !.waits = IF @ = t THEN NoTurn ELSE @]
  BY DEF Resumed
<1> QED
  BY <1>1 DEF Asking

\* Every step keeps the waits on what runs.
LEMMA WaitsStep ==
  DebugTypeOK /\ DebugKnown /\ WaitsOnRunning /\ [DebugNext]_debugVars => WaitsOnRunning'
<1> SUFFICES ASSUME DebugTypeOK, DebugKnown, WaitsOnRunning, [DebugNext]_debugVars,
                    NEW u \in DebugTurns
             PROVE  WaitsAreFor(u)'
  BY DEF WaitsOnRunning
<1>a. asking \in [DebugTurns -> Asking] /\ asking[u] \in Asking /\ WaitsAreFor(u)
  BY DEF DebugTypeOK, WaitsOnRunning
<1>1. CASE StartBuild
  BY <1>1, <1>a DEF StartBuild, WaitsAreFor
<1>2. CASE EndBuild
  <2>1. asking'[u] = [asking[u] EXCEPT !.waitsBuild = FALSE] /\ deepDebug' = deepDebug
    BY <1>2 DEF EndBuild
  <2>2. asking'[u].waits = asking[u].waits /\ ~asking'[u].waitsBuild
    BY <2>1, <1>a DEF Asking
  <2> QED
    BY <2>1, <2>2, <1>a DEF WaitsAreFor
<1>3. CASE Evict
  BY <1>3, NobodyAsked DEF Evict, NotAsking, WaitsAreFor
<1>4. ASSUME NEW t \in DebugTurns, OpenTurn(t) PROVE WaitsAreFor(u)'
  BY <1>4, <1>a, NobodyAsked DEF OpenTurn, WaitsAreFor
<1>5. ASSUME NEW t \in DebugTurns, CallTools(t) PROVE WaitsAreFor(u)'
  <2>1. PICK debug \in BOOLEAN, waitDebug \in BOOLEAN, waitBuild \in BOOLEAN,
             waitsFirst \in BOOLEAN :
          /\ deepDebug' = IF debug /\ MayDebug(t) THEN t ELSE deepDebug
          /\ asking' = [asking EXCEPT ![t] = Calling(t, debug, waitDebug, waitBuild, waitsFirst)]
    BY <1>5 DEF CallTools
  <2>2. generation' = generation
    BY <1>5 DEF CallTools
  <2>3. deepDebug' = deepDebug \/ (deepDebug = NoTurn /\ deepDebug' = t)
    BY <2>1 DEF MayDebug
  <2>4. Found(t, debug, waitsFirst) \in {NoTurn, deepDebug'}
    BY <2>1 DEF Found, MayDebug
  <2>5. CASE u = t
    <3>1. asking[t] \in Asking
      BY <1>a
    <3>2. asking'[u] = Calling(t, debug, waitDebug, waitBuild, waitsFirst)
      BY <2>1, <2>5, <1>a
    <3>3. /\ asking'[u].waits \in {NoTurn, Found(t, debug, waitsFirst)}
          /\ asking'[u].waitsBuild = (waitBuild /\ generation = "running")
      BY <3>1, <3>2, CallingWaits
    <3>4. asking'[u].waits \in {NoTurn, deepDebug'}
      BY <3>3, <2>4
    <3> QED
      BY <3>3, <3>4, <2>2 DEF WaitsAreFor
  <2>6. CASE u # t
    <3>1. asking'[u] = asking[u]
      BY <2>1, <2>6, <1>a
    <3> QED
      BY <3>1, <2>2, <2>3, <1>a DEF WaitsAreFor
  <2> QED
    BY <2>5, <2>6
<1>6. ASSUME NEW t \in DebugTurns, CloseTurn(t) PROVE WaitsAreFor(u)'
  BY <1>6, <1>a, NobodyAsked DEF CloseTurn, NotAsking, WaitsAreFor
<1>7. ASSUME NEW t \in DebugTurns, LeaveBatch(t) PROVE WaitsAreFor(u)'
  <2>1. asking'[u].waits = asking[u].waits /\ asking'[u].waitsBuild = asking[u].waitsBuild
    BY <1>7, <1>a DEF LeaveBatch, Asking
  <2> QED
    BY <1>7, <1>a, <2>1 DEF LeaveBatch, WaitsAreFor
<1>8. ASSUME NEW t \in DebugTurns, EndDebug(t) PROVE WaitsAreFor(u)'
  <2>1. /\ asking'[u].waits = IF asking[u].waits = t THEN NoTurn ELSE asking[u].waits
        /\ asking'[u].waitsBuild = asking[u].waitsBuild
        /\ generation' = generation
    BY <1>8, <1>a, ResumedWaits DEF EndDebug
  <2>2. deepDebug = t
    BY <1>8 DEF EndDebug, DebugKnown
  <2> QED
    BY <2>1, <2>2, <1>a DEF WaitsAreFor
<1>9. CASE UNCHANGED debugVars
  BY <1>9, <1>a DEF debugVars, WaitsAreFor
<1> QED
  BY <1>1, <1>2, <1>3, <1>4, <1>5, <1>6, <1>7, <1>8, <1>9 DEF DebugNext

\* A turn never waits for what is over: the session it awaits is the one that
\* runs, and the build it awaits runs, so that the end of either wakes it.
\* (The safety part of WaitsEnd.)
THEOREM WaitersAwaitRunning == DebugSpec => [](WaitsOnRunning /\ DebugKnown)
<1>1. DebugInit => WaitsOnRunning
  BY NobodyAsked DEF DebugInit, NotAsking, WaitsOnRunning, WaitsAreFor
<1> QED
  BY <1>1, DebugTypeCorrect, DebugKnownHolds, WaitsStep, PTL DEF DebugSpec

---------------------------------------------------------------------------
(* The builds of the agentic behaviour *)

\* A build that has yet to look at the queue.
Attentive(b) == builder[b] \in {"template", "loop", "attempt"}

\* While generationPromise is set such a build runs; and once there is nothing
\* left to do, one that will clear the promise, unless a build failed.
PromiseKept ==
  promised /\ ~waived =>
    /\ \E b \in Builds : Attentive(b)
    /\ complete /\ queue = 0 => \E b \in Builds : builder[b] = "attempt"

\* A request of the queue has a build or a message handler that will look at it.
NoGap == queue > 0 /\ ~waived => arriving > 0 \/ \E b \in Builds : Attentive(b)

AgenticInv == AgenticTypeOK /\ PromiseKept /\ NoGap

\* A build is started, or nothing is changed.
LEMMA GenerateEffect ==
  ASSUME AgenticTypeOK, GenerateAll
  PROVE  \/ UNCHANGED <<builder, promised>> /\ (promised \/ (complete /\ queue = 0))
         \/ /\ ~(complete /\ queue = 0) /\ promised'
            /\ \E b \in Builds : /\ builder[b] = "idle"
                                 /\ builder' = [builder EXCEPT ![b] = "template"]
  BY DEF GenerateAll, Move

\* One build moves, the others stay.
LEMMA MoveEffect ==
  ASSUME AgenticTypeOK, NEW b \in Builds, NEW pc, Move(b, pc)
  PROVE  /\ builder'[b] = pc /\ \A c \in Builds \ {b} : builder'[c] = builder[c]
         /\ pc \in {"idle", "template", "loop", "attempt", "ending"} =>
              builder' \in [Builds -> {"idle", "template", "loop", "attempt", "ending"}]
  BY DEF Move, AgenticTypeOK

\* At first nothing is queued.
LEMMA AgenticStarts == AgenticInit => AgenticInv
<1> SUFFICES ASSUME AgenticInit PROVE AgenticInv
  OBVIOUS
<1>1. 0 \in 0 .. MaxQueue /\ ~(0 > 0)
  BY AgenticBuildAssumption
<1>2. AgenticTypeOK
  BY <1>1 DEF AgenticInit, AgenticTypeOK
<1> QED
  BY <1>1, <1>2 DEF AgenticInit, AgenticInv, PromiseKept, NoGap

\* Starting a build keeps the invariant: a promised build looks at the queue.
LEMMA StartKeeps ==
  ASSUME AgenticInv, AskForBuild \/ HandleRequest
  PROVE  AgenticInv'
<1>1. /\ AgenticTypeOK /\ UNCHANGED <<queue, complete, waived>>
      /\ arriving' \in 0 .. MaxQueue /\ queue \in 0 .. MaxQueue
      /\ AskForBuild => arriving' = arriving
      /\ GenerateAll
  BY AgenticBuildAssumption DEF AgenticInv, AgenticTypeOK, AskForBuild, HandleRequest
<1>2. CASE UNCHANGED <<builder, promised>> /\ (promised \/ (complete /\ queue = 0))
  <2>1. AgenticTypeOK' /\ PromiseKept'
    BY <1>1, <1>2 DEF AgenticInv, AgenticTypeOK, PromiseKept, Attentive
  <2>2. NoGap'
    BY <1>1, <1>2 DEF AgenticInv, NoGap, PromiseKept, Attentive
  <2> QED
    BY <2>1, <2>2 DEF AgenticInv
<1>3. ASSUME ~(complete /\ queue = 0), promised', NEW b \in Builds,
             builder' = [builder EXCEPT ![b] = "template"]
      PROVE  AgenticInv'
  <2>1. builder'[b] = "template" /\ AgenticTypeOK'
    BY <1>1, <1>3 DEF AgenticTypeOK
  <2>2. Attentive(b)'
    BY <2>1 DEF Attentive
  <2> QED
    BY <1>1, <1>3, <2>1, <2>2 DEF AgenticInv, PromiseKept, NoGap
<1> QED
  BY <1>1, <1>2, <1>3, GenerateEffect

\* The steps of one build keep it: it leaves with an empty queue, with its
\* promise cleared, or with a failure.
LEMMA BuildKeeps ==
  ASSUME AgenticInv, NEW b \in Builds,
         \/ TemplateReady(b) \/ TemplateFails(b) \/ BuildLoop(b) \/ MarkComplete(b)
         \/ AttemptEnds(b) \/ AttemptFails(b) \/ BuildEnds(b)
  PROVE  AgenticInv'
<1>1. AgenticTypeOK /\ PromiseKept /\ NoGap
  BY DEF AgenticInv
<1>2. CASE TemplateReady(b)
  <2>1. builder'[b] = "loop" /\ \A c \in Builds \ {b} : builder'[c] = builder[c]
    BY <1>1, <1>2, MoveEffect DEF TemplateReady
  <2>2. AgenticTypeOK'
    BY <1>1, <1>2, MoveEffect DEF TemplateReady, AgenticTypeOK
  <2>3. Attentive(b)' /\ builder[b] = "template"
        /\ \A c \in Builds : builder[c] = "attempt" => builder'[c] = "attempt"
    BY <1>2, <2>1 DEF Attentive, TemplateReady
  <2> QED
    BY <1>1, <1>2, <2>2, <2>3 DEF AgenticInv, PromiseKept, NoGap, TemplateReady
<1>3. CASE TemplateFails(b)
  <2>1. AgenticTypeOK' /\ waived'
    BY <1>1, <1>3, MoveEffect DEF TemplateFails, AgenticTypeOK
  <2> QED
    BY <2>1 DEF AgenticInv, PromiseKept, NoGap
<1>4. CASE BuildLoop(b)
  <2>1. CASE complete /\ queue = 0
    <3>1. /\ Move(b, "ending") /\ UNCHANGED <<queue, waived, promised, arriving, complete>>
          /\ builder[b] = "loop"
      BY <1>4, <2>1 DEF BuildLoop
    <3>2. AgenticTypeOK' /\ \A c \in Builds \ {b} : builder'[c] = builder[c]
      BY <1>1, <3>1, MoveEffect DEF AgenticTypeOK
    <3>3. promised /\ ~waived => \E c \in Builds \ {b} : builder'[c] = "attempt"
      BY <1>1, <2>1, <3>1, <3>2 DEF PromiseKept
    <3>4. queue' = 0
      BY <2>1, <3>1
    <3> QED
      BY <3>1, <3>2, <3>3, <3>4 DEF AgenticInv, PromiseKept, NoGap, Attentive
  <2>2. CASE ~(complete /\ queue = 0)
    <3>1. /\ Move(b, "attempt") /\ queue' = 0 /\ waived' = FALSE
          /\ UNCHANGED <<promised, arriving, complete>>
      BY <1>4, <2>2 DEF BuildLoop
    <3>2. 0 \in 0 .. MaxQueue
      BY AgenticBuildAssumption
    <3>3. AgenticTypeOK' /\ builder'[b] = "attempt"
      BY <1>1, <3>1, <3>2, MoveEffect DEF AgenticTypeOK
    <3> QED
      BY <3>1, <3>3 DEF AgenticInv, PromiseKept, NoGap, Attentive
  <2> QED
    BY <2>1, <2>2
<1>5. CASE MarkComplete(b)
  <2>1. AgenticTypeOK' /\ builder'[b] = "attempt"
    BY <1>1, <1>5 DEF MarkComplete, AgenticTypeOK
  <2> QED
    BY <1>1, <1>5, <2>1 DEF MarkComplete, AgenticInv, PromiseKept, NoGap, Attentive
<1>6. CASE AttemptEnds(b)
  <2>1. AgenticTypeOK' /\ builder'[b] = "loop" /\ ~promised'
    BY <1>1, <1>6, MoveEffect DEF AttemptEnds, AgenticTypeOK
  <2> QED
    BY <2>1 DEF AgenticInv, PromiseKept, NoGap, Attentive
<1>7. CASE AttemptFails(b)
  <2>1. AgenticTypeOK' /\ ~promised' /\ (queue' > 0 => waived')
    BY <1>1, <1>7, MoveEffect DEF AttemptFails, AgenticTypeOK
  <2> QED
    BY <2>1 DEF AgenticInv, PromiseKept, NoGap
<1>8. CASE BuildEnds(b)
  <2>1. /\ AgenticTypeOK' /\ ~promised' /\ UNCHANGED <<queue, arriving, waived>>
        /\ builder[b] = "ending" /\ \A c \in Builds \ {b} : builder'[c] = builder[c]
    BY <1>1, <1>8, MoveEffect DEF BuildEnds, AgenticTypeOK
  <2> QED
    BY <1>1, <2>1 DEF AgenticInv, PromiseKept, NoGap, Attentive
<1> QED
  BY <1>2, <1>3, <1>4, <1>5, <1>6, <1>7, <1>8

\* Every step of the builds and of the messages keeps the invariant.
LEMMA AgenticStep == AgenticInv /\ [AgenticNext]_agenticVars => AgenticInv'
<1> SUFFICES ASSUME AgenticInv, [AgenticNext]_agenticVars PROVE AgenticInv'
  OBVIOUS
<1>1. ASSUME NEW question \in BOOLEAN, QueueRequest(question) PROVE AgenticInv'
  <2>1. /\ AgenticTypeOK' /\ UNCHANGED <<builder, promised, complete>>
        /\ queue' > 0 /\ (waived' <=> waived \/ question)
        /\ arriving' = IF question THEN arriving ELSE arriving + 1
        /\ arriving \in Nat
    BY <1>1, AgenticBuildAssumption DEF QueueRequest, AgenticInv, AgenticTypeOK
  <2>2. PromiseKept'
    BY <2>1 DEF AgenticInv, PromiseKept, Attentive
  <2>3. NoGap'
    BY <2>1 DEF NoGap
  <2> QED
    BY <2>1, <2>2, <2>3 DEF AgenticInv
<1>2. CASE UNCHANGED agenticVars
  BY <1>2 DEF agenticVars, AgenticInv, AgenticTypeOK, PromiseKept, NoGap, Attentive
<1> QED
  BY <1>1, <1>2, StartKeeps, BuildKeeps DEF AgenticNext

\* The variables of AgenticBuild keep their types.
THEOREM AgenticTypeCorrect == AgenticSpec => []AgenticTypeOK
<1>1. AgenticInv => AgenticTypeOK
  BY DEF AgenticInv
<1> QED
  BY <1>1, AgenticStarts, AgenticStep, PTL DEF AgenticSpec

\* No request waits unattended: if one is queued, and none of the queue was a
\* question or waited when a build failed, a message handler or a build has
\* still to look at the queue, whoever sets and clears generationPromise.
THEOREM NoRequestForgotten == AgenticSpec => []NoGap
<1>1. AgenticInv => NoGap
  BY DEF AgenticInv
<1> QED
  BY <1>1, AgenticStarts, AgenticStep, PTL DEF AgenticSpec

----------------------------------------------------------------------------
(* The parts of the agent together                                         *)

\* Each part moves as it would alone: the instance that TLC explores with one
\* part moving at a time has only their behaviours.
THEOREM PartsRunAlone ==
  AgentSpec => LoopSpec /\ AgenticSpec /\ ConvSpec /\ FilesSpec /\ DebugSpec
<1>1. AgentInit => LoopInit /\ AgenticInit /\ ConvInit /\ FilesInit /\ DebugInit
  BY DEF AgentInit
<1>2. [AgentNext]_agentVars =>
        /\ [LoopNext]_loopVars /\ [AgenticNext]_agenticVars /\ [ConvNext]_convVars
        /\ [FilesNext]_filesVars /\ [DebugNext]_debugVars
  BY DEF AgentNext, agentVars
<1> QED
  BY <1>1, <1>2, PTL
  DEF AgentSpec, LoopSpec, AgenticSpec, ConvSpec, FilesSpec, DebugSpec

\* All the parts of the agent keep their types.
THEOREM AgentTypeCorrect == AgentSpec => []AgentTypeOK
<1>1. /\ LoopTypeOK /\ AgenticTypeOK /\ ConvTypeOK /\ FilesTypeOK /\ DebugTypeOK
      => AgentTypeOK
  BY DEF AgentTypeOK
<1> QED
  BY <1>1, PartsRunAlone, LoopTypeCorrect, AgenticTypeCorrect, ConvTypeCorrect,
     FilesTypeCorrect, DebugTypeCorrect, PTL
=============================================================================
