------------------------------ MODULE ToolLoop ------------------------------
(***************************************************************************)
(* One model turn with tools: executeInference (inferutils/infer.ts)       *)
(* retries infer (inferutils/core.ts), which asks the model, runs the      *)
(* tools of its reply (inferutils/toolExecution.ts) and asks again with    *)
(* their results; operations/common.ts gives it a controller of its own.   *)
(*                                                                         *)
(* The calls of a reply are numbered in its order.  They run in groups: a  *)
(* call waits for the earlier calls whose resources conflict with its own, *)
(* and a group starts when the one before it is done.                      *)
(***************************************************************************)
EXTENDS Naturals, Sequences, FiniteSets

CONSTANTS
  Tools,         \* the tools given to the model
  NoTool,        \* a tool name the model made up
  ToolPaths,     \* files that tools name
  Resources,     \* tool -> what it declares to touch, merged over its arguments
  Completing,    \* tools that signal completion
  MaxCalls,      \* bound: tool calls of a reply
  MaxDepth,      \* getMaxToolCallingDepth
  RetryLimit     \* retryLimit

\* A tool touches no file, some files, or, naming none, all of them.
ResourceType ==
  [mode : {"none", "read", "write"}, paths : SUBSET ToolPaths,
   sandbox : {"none", "read", "exec", "analysis", "deploy"},
   blueprint : BOOLEAN, commit : BOOLEAN]

ASSUME ToolLoopAssumption ==
  /\ NoTool \notin Tools /\ Resources \in [Tools -> ResourceType] /\ Completing \subseteq Tools
  /\ MaxCalls \in Nat /\ MaxDepth \in Nat /\ RetryLimit \in Nat \ {0}

VARIABLES
  at,            \* of the turn: idle, request, model, tools, backoff or ended
  attempt,       \* of executeInference
  batch,         \* names of the tools the last reply calls
  call,          \* call of the batch -> waiting, running or done
  context,       \* toolCallContext: per reply, the calls asked and answered
  aborted,       \* the signal given to the model's client
  userStop,      \* the user cancelled
  outcome        \* none, text, failed (null), limited or cancelled (thrown)

loopVars == <<at, attempt, batch, call, context, aborted, userStop, outcome>>

Names == Tools \cup {NoTool}
Slots == 1 .. MaxCalls
Batches == {b \in Seq(Names) : Len(b) <= MaxCalls}
Replies == UNION {[1 .. n -> Names] : n \in 0 .. MaxCalls}

LoopTypeOK ==
  /\ at \in {"idle", "request", "model", "tools", "backoff", "ended"}
  /\ attempt \in 0 .. RetryLimit - 1
  /\ batch \in Batches
  /\ call \in [Slots -> {"waiting", "running", "done"}]
  /\ context \in Seq([asked : Nat, answered : Nat]) /\ Len(context) <= MaxDepth
  /\ aborted \in BOOLEAN /\ userStop \in BOOLEAN
  /\ outcome \in {"none", "text", "failed", "limited", "cancelled"}

---------------------------------------------------------------------------
(* Resources *)

PathsOverlap(p, q) == p = {} \/ q = {} \/ p \cap q # {}

Exclusive == {"exec", "analysis", "deploy"}

\* hasResourceConflict
Conflict(r, s) ==
  \/ /\ r.mode # "none" /\ s.mode # "none"
     /\ r.mode = "write" \/ s.mode = "write"
     /\ PathsOverlap(r.paths, s.paths)
  \/ /\ r.sandbox # "none" /\ s.sandbox # "none"
     /\ r.sandbox \in Exclusive \/ s.sandbox \in Exclusive
  \/ r.blueprint /\ s.blueprint
  \/ r.commit /\ s.mode = "write"
  \/ s.commit /\ r.mode = "write"

\* mergeResources: the declarations of two arguments of one tool.
MergeResources(r, s) ==
  [mode      |-> IF s.mode = "none" THEN r.mode
                 ELSE IF s.mode = "write" \/ r.mode = "none" THEN s.mode ELSE r.mode,
   paths     |-> IF s.mode = "none" THEN r.paths
                 ELSE IF r.mode = "none" THEN s.paths
                 ELSE IF r.paths = {} \/ s.paths = {} THEN {} ELSE r.paths \cup s.paths,
   sandbox   |-> IF s.sandbox = "none" THEN r.sandbox ELSE s.sandbox,
   blueprint |-> r.blueprint \/ s.blueprint,
   commit    |-> r.commit \/ s.commit]

Defined(i) == i \in DOMAIN batch /\ batch[i] \in Tools

\* Calls i and j of the batch conflict; a call without a definition has no
\* resources and never does.
Conflicting(i, j) ==
  Defined(i) /\ Defined(j) /\ Conflict(Resources[batch[i]], Resources[batch[j]])

Running == {i \in DOMAIN batch : call[i] = "running"}
Waiting == {i \in DOMAIN batch : call[i] = "waiting"}

Group_NoOrder == Waiting

\* The next group of the plan: every call whose earlier conflicts are done.
Group == {i \in Waiting : \A j \in 1 .. i - 1 : Conflicting(i, j) => call[j] = "done"}

---------------------------------------------------------------------------
LoopInit ==
  /\ at = "idle" /\ attempt = 0 /\ outcome = "none"
  /\ batch = <<>> /\ call = [i \in Slots |-> "waiting"]
  /\ context = <<>>
  /\ aborted = FALSE /\ userStop = FALSE

\* executeInference, of runToolInference or of a turn of the conversation.
ExecuteInference ==
  /\ at = "idle" /\ at' = "request"
  /\ UNCHANGED <<attempt, batch, call, context, aborted, userStop, outcome>>

End(result) == at' = "ended" /\ outcome' = result

Retry_Forever ==
  at' = "backoff" /\ context' = <<>> /\ UNCHANGED <<attempt, outcome>>

Retry_OneMore ==
  /\ context' = <<>>
  /\ IF attempt = RetryLimit
     THEN End("failed") /\ UNCHANGED attempt
     ELSE at' = "backoff" /\ attempt' = attempt + 1 /\ UNCHANGED outcome

\* The catch block of executeInference: the next attempt calls infer without a
\* tool context, and after the last one the result is null.
Retry ==
  /\ context' = <<>>
  /\ IF attempt = RetryLimit - 1
     THEN End("failed") /\ UNCHANGED attempt
     ELSE at' = "backoff" /\ attempt' = attempt + 1 /\ UNCHANGED outcome

BackoffEnds ==
  /\ at = "backoff" /\ at' = "request"
  /\ UNCHANGED <<attempt, batch, call, context, aborted, userStop, outcome>>

\* infer up to the client's request: the depth, then the signal, which the
\* client reports as '**User cancelled inference**'; that is not retried.
Request ==
  /\ at = "request"
  /\ IF Len(context) >= MaxDepth THEN End("text")
     ELSE IF aborted THEN End("cancelled")
     ELSE at' = "model" /\ UNCHANGED outcome
  /\ UNCHANGED <<attempt, batch, call, context, aborted, userStop>>

\* The rate limit of model calls, or the message limit, is exceeded: thrown.
Limited ==
  /\ at = "request"
  /\ End("limited")
  /\ UNCHANGED <<attempt, batch, call, context, aborted, userStop>>

\* A reply; a stream that an abort cuts ends like one.
Reply(b) ==
  /\ at = "model"
  /\ batch' = b /\ call' = [i \in Slots |-> "waiting"]
  /\ IF b = <<>> THEN End("text") ELSE at' = "tools" /\ UNCHANGED outcome
  /\ UNCHANGED <<attempt, context, aborted, userStop>>

CallFails ==
  /\ at = "model"
  /\ Retry
  /\ UNCHANGED <<batch, call, aborted, userStop>>

CallCancelled ==
  /\ at = "model" /\ aborted
  /\ End("cancelled")
  /\ UNCHANGED <<attempt, batch, call, context, aborted, userStop>>

\* The stream repeats itself: the operation aborts its own controller and
\* throws, to have the call retried.
TextRepeats ==
  /\ at = "model" /\ ~aborted
  /\ aborted' = TRUE
  /\ Retry
  /\ UNCHANGED <<batch, call, userStop>>

UserCancels ==
  /\ at \notin {"idle", "ended"} /\ ~userStop
  /\ userStop' = TRUE /\ aborted' = TRUE
  /\ UNCHANGED <<at, attempt, batch, call, context, outcome>>

---------------------------------------------------------------------------
(* The tools of a reply *)

\* The next group starts.  A name without a definition rejects the group at
\* once: no result is kept, the turn ends, the calls it started go on.
StartGroup ==
  /\ at = "tools" /\ Running = {} /\ Waiting # {}
  /\ call' = [i \in Slots |-> IF i \in Group /\ Defined(i) THEN "running" ELSE call[i]]
  /\ IF \A i \in Group : Defined(i) THEN UNCHANGED <<at, outcome>> ELSE End("text")
  /\ UNCHANGED <<attempt, batch, context, aborted, userStop>>

\* A tool returns, or fails, which is a result too.
ToolEnds(i) ==
  /\ i \in Running
  /\ call' = [call EXCEPT ![i] = "done"]
  /\ UNCHANGED <<at, attempt, batch, context, aborted, userStop, outcome>>

ToolAborts_GoesOn(i) ==
  /\ at = "tools" /\ i \in Running
  /\ call' = [call EXCEPT ![i] = "done"]
  /\ at' = "request" /\ UNCHANGED outcome
  /\ context' = Append(context, [asked |-> Len(batch), answered |-> 0])
  /\ UNCHANGED <<attempt, batch, aborted, userStop>>

\* A tool throws an AbortError: the results of the batch are dropped and the
\* turn ends while the other calls of the group go on.  The AbortError
\* of core.ts (a queued user message) keeps the reply, its calls unanswered.
ToolAborts(i) ==
  /\ at = "tools" /\ i \in Running
  /\ call' = [call EXCEPT ![i] = "done"]
  /\ End("text")
  /\ \/ UNCHANGED context
     \/ context' = Append(context, [asked |-> Len(batch), answered |-> 0])
  /\ UNCHANGED <<attempt, batch, aborted, userStop>>

\* Every call is done: a completion tool ends the turn, and so do calls that
\* all returned undefined; otherwise the model is asked again.
BatchDone ==
  /\ at = "tools" /\ Running = {} /\ Waiting = {}
  /\ context' = Append(context, [asked |-> Len(batch), answered |-> Len(batch)])
  /\ \/ End("text")
     \/ /\ \A i \in DOMAIN batch : batch[i] \notin Completing
        /\ at' = "request" /\ UNCHANGED outcome
  /\ UNCHANGED <<attempt, batch, call, aborted, userStop>>

---------------------------------------------------------------------------
LoopNext ==
  \/ ExecuteInference \/ Request \/ Limited \/ CallFails \/ CallCancelled \/ TextRepeats \/ BackoffEnds
  \/ \E b \in Replies : Reply(b)
  \/ UserCancels \/ StartGroup \/ BatchDone
  \/ \E i \in Slots : ToolEnds(i) \/ ToolAborts(i)

LoopSpec == LoopInit /\ [][LoopNext]_loopVars

\* Timers fire, the client answers or fails (it has a timeout of its own), a
\* tool ends.
LoopFairness ==
  /\ WF_loopVars(Request \/ BackoffEnds \/ StartGroup \/ BatchDone)
  /\ WF_loopVars(CallFails \/ \E b \in Replies : Reply(b))
  /\ \A i \in Slots : WF_loopVars(ToolEnds(i))

---------------------------------------------------------------------------
(* Properties *)

\* Tool calls in conflict (two writes of a file, a commit and a write, two
\* commands in the sandbox ...) run one after the other in the order of the
\* reply, whatever is parallel besides, and also when the turn ends early.
BatchOrder ==
  \A i, j \in DOMAIN batch :
    j < i /\ Conflicting(i, j) /\ call[i] # "waiting" => call[j] = "done"

\* The model is never asked with a tool call in the context that has no
\* result (its API rejects such a request), over retries, aborts and made-up
\* tool names.
AnsweredContext ==
  at \in {"request", "model"} =>
    \A k \in DOMAIN context : context[k].answered = context[k].asked

\* A turn ends if its tools do: neither the retries nor the recursion over
\* tool results goes on for ever.
TurnEnds == at = "model" ~> at = "ended"
=============================================================================
