----------------------------- MODULE Deployment -----------------------------
(***************************************************************************)
(* DeploymentManager: how one agent (a Durable Object) keeps a preview     *)
(* running in a sandbox.                                                   *)
(*                                                                         *)
(* deployToSandbox is single-flight: the first caller starts a retry loop  *)
(* and owns its promise, later callers join the promise.  Every attempt of *)
(* the loop races a 60 s timer, every caller a 5 min timer, and neither    *)
(* timer stops what it was racing: an attempt that lost its race, or a     *)
(* loop whose owner gave up, keeps running and keeps writing agent state.  *)
(*                                                                         *)
(* JavaScript runs one continuation at a time, so an action is the code    *)
(* from one await to the next.  sessionId and instanceId live in Durable   *)
(* Object storage; every other variable of the agent is lost by Restart.   *)
(***************************************************************************)
EXTENDS Naturals, Sequences, FiniteSets

CONSTANTS
  Callers,       \* agent code paths that call deployToSandbox
  Loops,         \* slots for retry loops (running or abandoned)
  Attempts,      \* slots for deploy() calls (awaited or abandoned)
  Files,         \* names of generated files
  Requests,      \* argument records of deployToSandbox
  Pool,          \* containers that sessions are hashed to (MAX_SANDBOX_INSTANCES)
  ResetEvery,    \* maxAttemptsBeforeSessionReset
  UsesAiProxy,   \* the template needs a proxy token before createInstance
  HasSetup,      \* commandsHistory holds a valid command
  MaxDisturb,    \* bound: faults and forced redeploys in a behaviour
  MaxChecks,     \* bound: health checks awaiting an answer at once
  Monitor,       \* the health check, as the owner of a loop
  None           \* JavaScript's null

RequestType(S) == [files : SUBSET S, redeploy : BOOLEAN]

ASSUME PoolAssumption    == Pool \in Nat \ {0}
ASSUME ResetAssumption   == ResetEvery \in Nat \ {0}
ASSUME DisturbAssumption == MaxDisturb \in Nat
ASSUME RequestAssumption == Requests \subseteq RequestType(Files)
ASSUME FlagAssumption    == UsesAiProxy \in BOOLEAN /\ HasSetup \in BOOLEAN
ASSUME NamesAssumption   == /\ Monitor \notin Callers
                            /\ None \notin Callers \cup Loops \cup {Monitor}

NoInstance == 0   \* sandboxInstanceId is undefined
NoClient   == 0   \* cachedSandboxClient is null; sessions are numbered from 1

VARIABLES
  sessionId,    \* state.sessionId
  instanceId,   \* state.sandboxInstanceId: an index of sandbox
  generated,    \* files in state.generatedFilesMap
  client,       \* session of cachedSandboxClient
  promise,      \* currentDeploymentPromise: the loop it belongs to
  loop,         \* executeDeploymentWithRetry, one record per slot
  att,          \* deploy(), one record per slot
  call,         \* what each caller is awaiting
  interval,     \* instance polled by healthCheckInterval
  checks,       \* health checks awaiting getInstanceStatus
  sandbox,      \* instances ever created, with session, liveness and files
  dropped,      \* files whose individual write failed inside writeFiles
  leaked,       \* an attempt or a loop has outlived its timer
  disturb       \* disturbances left

durable == <<sessionId, instanceId, generated>>
memory  == <<client, promise, loop, att, call, interval, checks>>
history == <<dropped, leaked>>
vars    == <<durable, memory, sandbox, history, disturb>>

-----------------------------------------------------------------------------
(* Records.                                                                *)

DefaultRequest == [files |-> {}, redeploy |-> FALSE]   \* deployToSandbox()

IdleLoop == [pc |-> "idle", n |-> 0, req |-> DefaultRequest, owner |-> None, inst |-> NoInstance]
FreeAtt  == [pc |-> "free", loop |-> None, client |-> NoClient, inst |-> NoInstance,
             redeployed |-> FALSE, req |-> DefaultRequest, files |-> {}]
Waiting(st, l) == [st |-> st, loop |-> l, inst |-> NoInstance, client |-> NoClient]
IdleCall == Waiting("idle", None)

LoopType == [pc : {"idle", "deploying", "setup", "backoff", "done"}, n : Nat,
             req : RequestType(Files), owner : Callers \cup {Monitor, None}, inst : Nat]
AttType  == [pc : {"free", "status", "token", "create", "write", "return"},
             loop : Loops \cup {None}, client : Nat, inst : Nat, redeployed : BOOLEAN,
             req : RequestType(Files), files : SUBSET Files]
CallType == [st : {"idle", "own", "join", "publish"}, loop : Loops \cup {None},
             inst : Nat, client : Nat]
NamesInstance(r) == r.pc \in {"status", "write", "return"} => r.inst # NoInstance
InstanceType == [session : Nat, up : BOOLEAN, files : SUBSET Files]

(* Type invariant.  The current instance, every attempt's instance and the *)
(* polled instance are instances the sandbox service has really created.   *)
TypeOK ==
  /\ sessionId \in Nat \ {0}
  /\ sandbox \in Seq(InstanceType)
  /\ instanceId \in 0..Len(sandbox)
  /\ generated \subseteq Files
  /\ client \in Nat
  /\ promise \in Loops \cup {None}
  /\ loop \in [Loops -> LoopType]
  /\ att \in [Attempts -> AttType]
  /\ call \in [Callers -> CallType]
  /\ interval \in 0..Len(sandbox)
  /\ checks \subseteq [inst : 1..Len(sandbox), client : Nat]
  /\ dropped \subseteq Files
  /\ leaked \in BOOLEAN
  /\ disturb \in 0..MaxDisturb
  /\ \A a \in Attempts : att[a].inst \in 0..Len(sandbox) /\ NamesInstance(att[a])
  /\ \A l \in Loops : loop[l].inst \in 0..Len(sandbox)
  /\ \A c \in Callers : call[c].inst \in 0..Len(sandbox)

-----------------------------------------------------------------------------
(* The sandbox service (external).                                         *)

Container(s) == s % Pool

(* getInstanceMetadata finds instance i only in the container the client's *)
(* session is hashed to.                                                   *)
Reachable(c, i) == Container(c) = Container(sandbox[i].session)

Healthy(c, i) == Reachable(c, i) /\ sandbox[i].up

(* A fault uses up one unit of the disturbance bound.                      *)
Disturb == disturb > 0 /\ disturb' = disturb - 1

(* The client getClient() returns when the session is s and the cached     *)
(* client is c.                                                            *)
ClientOf(s, c) == IF c = NoClient THEN s ELSE c

-----------------------------------------------------------------------------
(* One attempt: deploy(), ensureInstance(), createNewInstance().           *)

(* createNewInstance up to its first await.                                *)
CreateCall(a, c) ==
  IF UsesAiProxy THEN [a EXCEPT !.pc = "token", !.client = NoClient, !.inst = NoInstance]
  ELSE [a EXCEPT !.pc = "create", !.client = c, !.inst = NoInstance, !.files = generated]

(* ensureInstance up to its first await, called by loop l whose arguments  *)
(* are req, in slot a: a redeploy first resets the session.                *)
BeginAttempt(a, l, req) ==
  LET s == IF req.redeploy THEN sessionId + 1 ELSE sessionId
      i == IF req.redeploy THEN NoInstance ELSE instanceId
      c == ClientOf(s, IF req.redeploy THEN NoClient ELSE client)
      new == [pc |-> "status", loop |-> l, client |-> c, inst |-> i,
              redeployed |-> FALSE, req |-> req, files |-> {}]
  IN /\ att[a].pc = "free"
     /\ sessionId' = s
     /\ instanceId' = i
     /\ client' = c
     /\ att' = [att EXCEPT ![a] = IF i # NoInstance THEN new ELSE CreateCall(new, c)]

(* Mutant: an instance that was already running gets no files.             *)
FilesToDeploy_NewInstanceOnly(req, redeployed) == IF redeployed THEN generated ELSE {}

(* getFilesToDeploy.                                                       *)
FilesToDeploy(req, redeployed) ==
  IF req.files = {} \/ redeployed THEN generated ELSE req.files

(* The attempt after ensureInstance has returned instance i: it writes     *)
(* through whatever client getClient() gives it now.  "return" stands for  *)
(* the rest of deploy(): clearing the logs, whose failure is swallowed,    *)
(* and resolving the promise.                                              *)
AfterEnsure(a, i, redeployed) ==
  LET fs == FilesToDeploy(att[a].req, redeployed) IN
  [att[a] EXCEPT !.pc = IF fs # {} THEN "write" ELSE "return",
                 !.inst = i, !.redeployed = redeployed, !.files = fs,
                 !.client = IF fs # {} THEN ClientOf(sessionId, client) ELSE NoClient]

(* The cached client after a step that left an attempt as r: getClient()   *)
(* has run if the attempt is now in a sandbox call.                        *)
ClientAfter(r) == IF r.client # NoClient THEN ClientOf(sessionId, client) ELSE client

(* Some loop is still awaiting attempt a; an abandoned one answers nobody. *)
Awaited(a) == att[a].loop # None

-----------------------------------------------------------------------------
(* The retry loop.                                                         *)

(* Mutants: a session reset that forgets the cached client, and a catch    *)
(* block that forgets the instance.                                        *)
Catch_KeepsClient(l, sessionError) ==
  LET resets == (IF sessionError THEN 1 ELSE 0)
              + (IF loop[l].n % ResetEvery = 0 THEN 1 ELSE 0)
  IN /\ sessionId' = sessionId + resets
     /\ instanceId' = NoInstance
     /\ loop' = [loop EXCEPT ![l].pc = "backoff"]
     /\ UNCHANGED client

Catch_KeepsInstance(l, sessionError) ==
  LET resets == (IF sessionError THEN 1 ELSE 0)
              + (IF loop[l].n % ResetEvery = 0 THEN 1 ELSE 0)
  IN /\ sessionId' = sessionId + resets
     /\ client' = IF resets > 0 THEN NoClient ELSE client
     /\ loop' = [loop EXCEPT ![l].pc = "backoff"]
     /\ UNCHANGED instanceId

(* The catch block: sessionError is one of the three messages that reset   *)
(* the session; every ResetEvery-th failure resets it too.                 *)
Catch(l, sessionError) ==
  LET resets == (IF sessionError THEN 1 ELSE 0)
              + (IF loop[l].n % ResetEvery = 0 THEN 1 ELSE 0)
  IN /\ sessionId' = sessionId + resets
     /\ client' = IF resets > 0 THEN NoClient ELSE client
     /\ instanceId' = NoInstance
     /\ loop' = [loop EXCEPT ![l].pc = "backoff"]

(* The code after the awaited attempt delivered instance i.                *)
Deliver(l, i, redeployed) ==
  LET start == redeployed \/ interval = NoInstance IN
  /\ interval' = IF start THEN i ELSE interval
  /\ client' = IF start THEN ClientOf(sessionId, client) ELSE client
  /\ loop' = [loop EXCEPT ![l].pc = IF start /\ HasSetup THEN "setup" ELSE "done",
                          ![l].inst = i]

(* deployToSandbox: join the current promise, or start a loop and run its  *)
(* first attempt up to the first await.                                    *)
StartLoop(l, a, owner, req) ==
  /\ promise = None
  /\ loop[l].pc = "idle"
  /\ \A c \in Callers : call[c].loop # l
  /\ promise' = l
  /\ loop' = [loop EXCEPT ![l] = [pc |-> "deploying", n |-> 1, req |-> req,
                                  owner |-> owner, inst |-> NoInstance]]
  /\ BeginAttempt(a, l, req)


-----------------------------------------------------------------------------
(* Init: a new agent; the constructor has drawn the first session.         *)
Init ==
  /\ sessionId = 1 /\ instanceId = NoInstance /\ generated = {}
  /\ client = NoClient /\ promise = None /\ interval = NoInstance /\ checks = {}
  /\ loop = [l \in Loops |-> IdleLoop]
  /\ att = [a \in Attempts |-> FreeAtt]
  /\ call = [c \in Callers |-> IdleCall]
  /\ sandbox = << >>
  /\ dropped = {} /\ leaked = FALSE
  /\ disturb = MaxDisturb

-----------------------------------------------------------------------------
(* Calls of deployToSandbox.                                               *)

(* A caller deploys with arguments req whose files are already recorded.   *)
CallOwn(c, l, a, req) ==
  /\ call[c].st = "idle"
  /\ req.files \subseteq generated
  /\ IF req.redeploy THEN Disturb ELSE UNCHANGED disturb
  /\ StartLoop(l, a, c, req)
  /\ call' = [call EXCEPT ![c] = Waiting("own", l)]
  /\ UNCHANGED <<generated, interval, checks, sandbox, dropped, leaked>>

(* A caller finds a deployment in progress; its files are not passed on.   *)
CallJoin(c) ==
  /\ call[c].st = "idle"
  /\ promise # None
  /\ call' = [call EXCEPT ![c] = Waiting("join", promise)]
  /\ UNCHANGED <<durable, client, promise, loop, att, interval, checks, sandbox, history, disturb>>

(* Mutant: the promise is cleared when any loop returns.                   *)
LoopReturns_ClearsAlways(l) ==
  /\ loop[l].pc = "done"
  /\ loop' = [loop EXCEPT ![l] = IdleLoop]
  /\ promise' = None
  /\ call' = IF loop[l].owner \in Callers
             THEN [call EXCEPT ![loop[l].owner] = IdleCall] ELSE call
  /\ UNCHANGED <<durable, client, att, interval, checks, sandbox, dropped, leaked, disturb>>

(* The promise resolves and its owner's finally block clears the field.    *)
LoopReturns(l) ==
  /\ loop[l].pc = "done"
  /\ loop' = [loop EXCEPT ![l] = IdleLoop]
  /\ promise' = IF loop[l].owner # None THEN None ELSE promise
  /\ call' = IF loop[l].owner \in Callers
             THEN [call EXCEPT ![loop[l].owner] = IdleCall] ELSE call
  /\ UNCHANGED <<durable, client, att, interval, checks, sandbox, dropped, leaked, disturb>>

(* The 5 min timer can only be due after the first attempt's 60 s.         *)
MasterDue(l) == loop[l].n > 1 \/ loop[l].pc = "setup"

(* MASTER_DEPLOYMENT_TIMEOUT_MS of the owner: it returns null and clears   *)
(* the promise; the loop goes on.                                          *)
OwnerTimeout(l) ==
  /\ loop[l].owner # None
  /\ loop[l].pc # "done"
  /\ MasterDue(l)
  /\ loop' = [loop EXCEPT ![l].owner = None]
  /\ call' = IF loop[l].owner \in Callers
             THEN [call EXCEPT ![loop[l].owner] = IdleCall] ELSE call
  /\ promise' = None
  /\ leaked' = TRUE
  /\ UNCHANGED <<durable, client, att, interval, checks, sandbox, dropped, disturb>>

(* Mutant: a joiner has no timer and is answered by the owner, which does  *)
(* not do so when its own timer is due.                                    *)
JoinReturns_ByOwner(c) ==
  /\ call[c].st = "join"
  /\ loop[call[c].loop].pc = "done" /\ loop[call[c].loop].owner # None
  /\ call' = [call EXCEPT ![c] = IdleCall]
  /\ UNCHANGED <<durable, client, promise, loop, att, interval, checks, sandbox, history, disturb>>

(* A joiner's promise resolves, or its own 5 min timer is due.             *)
JoinReturns(c) ==
  /\ call[c].st = "join"
  /\ loop[call[c].loop].pc \in {"done", "idle"} \/ MasterDue(call[c].loop)
  /\ call' = [call EXCEPT ![c] = IdleCall]
  /\ UNCHANGED <<durable, client, promise, loop, att, interval, checks, sandbox, history, disturb>>

-----------------------------------------------------------------------------
(* Answers of the sandbox to an attempt.                                   *)

(* getInstanceStatus answers; unless the instance is healthy, or the call  *)
(* fails, which looks the same, the attempt creates a new instance.        *)
StatusReturns(a, fault) ==
  /\ att[a].pc = "status"
  /\ IF fault THEN Disturb ELSE UNCHANGED disturb
  /\ att' = [att EXCEPT ![a] =
               IF Healthy(att[a].client, att[a].inst) /\ ~fault
               THEN AfterEnsure(a, att[a].inst, FALSE)
               ELSE CreateCall(att[a], ClientOf(sessionId, client))]
  /\ client' = ClientAfter(att'[a])
  /\ UNCHANGED <<durable, promise, loop, call, interval, checks, sandbox, history>>

(* generateAppProxyToken resolves; getAllFiles and getClient run after it. *)
TokenReturns(a) ==
  /\ att[a].pc = "token"
  /\ client' = ClientOf(sessionId, client)
  /\ att' = [att EXCEPT ![a] = [att[a] EXCEPT !.pc = "create", !.files = generated,
                                             !.client = ClientOf(sessionId, client)]]
  /\ UNCHANGED <<durable, promise, loop, call, interval, checks, sandbox, history, disturb>>

(* Mutant: an id is stored for an instance that was never created.         *)
CreateReturns_Unacknowledged(a) ==
  /\ att[a].pc = "create"
  /\ instanceId' = Len(sandbox) + 1
  /\ att' = [att EXCEPT ![a] = AfterEnsure(a, Len(sandbox) + 1, TRUE)]
  /\ client' = ClientAfter(att'[a])
  /\ UNCHANGED <<sessionId, generated, promise, loop, call, interval, checks, sandbox, history, disturb>>

(* createInstance succeeds: the new id is stored whoever is still waiting. *)
CreateReturns(a) ==
  /\ att[a].pc = "create"
  /\ sandbox' = Append(sandbox, [session |-> att[a].client, up |-> TRUE,
                                 files |-> att[a].files])
  /\ instanceId' = Len(sandbox) + 1
  /\ att' = [att EXCEPT ![a] = AfterEnsure(a, Len(sandbox) + 1, TRUE)]
  /\ client' = ClientAfter(att'[a])
  /\ UNCHANGED <<sessionId, generated, promise, loop, call, interval, checks, history, disturb>>

(* writeFiles answers success as a whole, but lost may be missing: deploy  *)
(* does not read the per-file results.                                     *)
WriteReturns(a, lost) ==
  /\ att[a].pc = "write"
  /\ Reachable(att[a].client, att[a].inst)
  /\ IF lost # {} THEN Disturb ELSE UNCHANGED disturb
  /\ sandbox' = [sandbox EXCEPT ![att[a].inst].files = @ \cup (att[a].files \ lost)]
  /\ dropped' = dropped \cup lost
  /\ att' = [att EXCEPT ![a].pc = "return", ![a].client = NoClient, ![a].files = {}]
  /\ UNCHANGED <<durable, client, promise, loop, call, interval, checks, leaked>>

(* deploy() returns.  The loop starts the health check and the setup       *)
(* commands, or is done; an abandoned attempt's result is dropped.         *)
AttemptReturns(a) ==
  /\ att[a].pc = "return"
  /\ att' = [att EXCEPT ![a] = FreeAtt]
  /\ IF Awaited(a)
     THEN Deliver(att[a].loop, att[a].inst, att[a].redeployed)
     ELSE UNCHANGED <<interval, client, loop>>
  /\ UNCHANGED <<durable, promise, call, checks, sandbox, history, disturb>>

(* createInstance or writeFiles fails: a fault, or an instance out of the  *)
(* client's reach.                                                         *)
AttemptFails(a, sessionError) ==
  /\ \/ att[a].pc \in {"create", "write"} /\ Disturb
     \/ /\ att[a].pc = "write" /\ ~sessionError /\ UNCHANGED disturb
        /\ ~Reachable(att[a].client, att[a].inst)
  /\ att' = [att EXCEPT ![a] = FreeAtt]
  /\ IF Awaited(a)
     THEN Catch(att[a].loop, sessionError)
     ELSE UNCHANGED <<sessionId, instanceId, client, loop>>
  /\ UNCHANGED <<generated, promise, call, interval, checks, sandbox, history>>

-----------------------------------------------------------------------------
(* Steps of the retry loop.                                                *)

(* Mutant: the late answer of a timed-out attempt still reaches the loop.  *)
AttemptTimeout_StillAwaited(l, a) ==
  /\ att[a].loop = l
  /\ Disturb
  /\ Catch(l, FALSE)
  /\ leaked' = TRUE
  /\ UNCHANGED <<generated, promise, att, call, interval, checks, sandbox, dropped>>

(* PER_ATTEMPT_TIMEOUT_MS: the loop stops waiting; the attempt goes on.    *)
AttemptTimeout(l, a) ==
  /\ att[a].loop = l
  /\ Disturb
  /\ att' = [att EXCEPT ![a].loop = None]
  /\ Catch(l, FALSE)
  /\ leaked' = TRUE
  /\ UNCHANGED <<generated, promise, call, interval, checks, sandbox, dropped>>

(* executeSetupCommands and its callback return.                           *)
SetupReturns(l) ==
  /\ loop[l].pc = "setup"
  /\ loop' = [loop EXCEPT ![l].pc = "done"]
  /\ UNCHANGED <<durable, client, promise, att, call, interval, checks, sandbox, history, disturb>>

(* executeSetupCommands times out or throws.                               *)
SetupFails(l, sessionError) ==
  /\ loop[l].pc = "setup"
  /\ Disturb
  /\ Catch(l, sessionError)
  /\ UNCHANGED <<generated, promise, att, call, interval, checks, sandbox, history>>

(* Mutant: a loop nobody waits for neither retries nor returns.            *)
Retry_OwnedOnly(l, a) ==
  /\ loop[l].pc = "backoff" /\ loop[l].owner # None
  /\ BeginAttempt(a, l, loop[l].req)
  /\ loop' = [loop EXCEPT ![l].pc = "deploying", ![l].n = @ + 1]
  /\ UNCHANGED <<generated, promise, call, interval, checks, sandbox, dropped, leaked, disturb>>

(* The backoff ends and the next attempt begins, with the same arguments.  *)
Retry(l, a) ==
  /\ loop[l].pc = "backoff"
  /\ BeginAttempt(a, l, loop[l].req)
  /\ loop' = [loop EXCEPT ![l].pc = "deploying", ![l].n = @ + 1]
  /\ UNCHANGED <<generated, promise, call, interval, checks, sandbox, dropped, leaked, disturb>>

-----------------------------------------------------------------------------
(* The health check, and deployToCloudflare, which redeploys an expired    *)
(* preview.                                                                *)

(* An interval tick asks for the status through the client of the moment.  *)
HealthTick ==
  /\ interval # NoInstance
  /\ Cardinality(checks) < MaxChecks
  /\ client' = ClientOf(sessionId, client)
  /\ checks' = checks \cup {[inst |-> interval, client |-> client']}
  /\ UNCHANGED <<durable, promise, loop, att, call, interval, sandbox, history, disturb>>

(* The instance is healthy, or the call itself throws.                     *)
CheckPasses(k) ==
  /\ k \in checks
  /\ checks' = checks \ {k}
  /\ UNCHANGED <<durable, client, promise, loop, att, call, interval, sandbox, history, disturb>>

(* The instance looks unhealthy: the interval is cleared and the check     *)
(* deploys, or waits for the deployment in progress.                       *)
CheckFails(k, l, a, fault) ==
  /\ k \in checks
  /\ ~Healthy(k.client, k.inst) \/ fault
  /\ IF fault THEN Disturb ELSE UNCHANGED disturb
  /\ checks' = checks \ {k}
  /\ interval' = NoInstance
  /\ \/ StartLoop(l, a, Monitor, DefaultRequest)
     \/ promise # None /\ UNCHANGED <<sessionId, instanceId, client, promise, loop, att>>
  /\ UNCHANGED <<generated, call, sandbox, dropped, leaked>>

(* deployToCloudflare with its prerequisites met.                          *)
Publish(c) ==
  /\ call[c].st = "idle"
  /\ generated # {} /\ instanceId # NoInstance
  /\ client' = ClientOf(sessionId, client)
  /\ call' = [call EXCEPT ![c] = [st |-> "publish", loop |-> None,
                                  inst |-> instanceId, client |-> client']]
  /\ UNCHANGED <<durable, promise, loop, att, interval, checks, sandbox, history, disturb>>

(* deployToCloudflareWorkers succeeds, or fails with some other error.     *)
PublishReturns(c) ==
  /\ call[c].st = "publish"
  /\ call' = [call EXCEPT ![c] = IdleCall]
  /\ UNCHANGED <<durable, client, promise, loop, att, interval, checks, sandbox, history, disturb>>

(* The preview has expired: deployToSandbox() without awaiting it.         *)
PublishExpired(c, l, a) ==
  /\ call[c].st = "publish"
  /\ ~Healthy(call[c].client, call[c].inst)
  /\ \/ /\ StartLoop(l, a, c, DefaultRequest)
        /\ call' = [call EXCEPT ![c] = Waiting("own", l)]
     \/ /\ promise # None
        /\ call' = [call EXCEPT ![c] = Waiting("join", promise)]
        /\ UNCHANGED <<sessionId, instanceId, client, promise, loop, att>>
  /\ UNCHANGED <<generated, interval, checks, sandbox, dropped, leaked, disturb>>

-----------------------------------------------------------------------------
(* The environment.                                                        *)

(* The agent records a generated file.                                     *)
SaveFile(f) ==
  /\ f \notin generated
  /\ generated' = generated \cup {f}
  /\ UNCHANGED <<sessionId, instanceId, memory, sandbox, history, disturb>>

(* The dev server or the container of an instance dies.                    *)
InstanceDies(i) ==
  /\ sandbox[i].up
  /\ Disturb
  /\ sandbox' = [sandbox EXCEPT ![i].up = FALSE]
  /\ UNCHANGED <<durable, memory, history>>

(* The Durable Object is evicted and started again.                        *)
Restart ==
  /\ Disturb
  /\ client' = NoClient /\ promise' = None /\ interval' = NoInstance /\ checks' = {}
  /\ loop' = [l \in Loops |-> IdleLoop]
  /\ att' = [a \in Attempts |-> FreeAtt]
  /\ call' = [c \in Callers |-> IdleCall]
  /\ UNCHANGED <<durable, sandbox, dropped, leaked>>

-----------------------------------------------------------------------------
AttemptStep(a) ==
  \/ \E fault \in BOOLEAN : StatusReturns(a, fault)
  \/ TokenReturns(a)
  \/ CreateReturns(a)
  \/ \E lost \in SUBSET att[a].files : WriteReturns(a, lost)
  \/ AttemptReturns(a)
  \/ \E e \in BOOLEAN : AttemptFails(a, e)

LoopStep(l) ==
  \/ SetupReturns(l)
  \/ \E e \in BOOLEAN : SetupFails(l, e)
  \/ \E a \in Attempts : Retry(l, a)
  \/ LoopReturns(l)

Next ==
  \/ \E c \in Callers, l \in Loops, a \in Attempts, req \in Requests : CallOwn(c, l, a, req)
  \/ \E c \in Callers : CallJoin(c) \/ JoinReturns(c) \/ Publish(c) \/ PublishReturns(c)
  \/ \E c \in Callers, l \in Loops, a \in Attempts : PublishExpired(c, l, a)
  \/ \E l \in Loops : LoopStep(l) \/ OwnerTimeout(l)
  \/ \E l \in Loops, a \in Attempts : AttemptTimeout(l, a)
  \/ \E a \in Attempts : AttemptStep(a)
  \/ HealthTick
  \/ \E k \in checks : CheckPasses(k)
  \/ \E k \in checks, l \in Loops, a \in Attempts, fault \in BOOLEAN : CheckFails(k, l, a, fault)
  \/ \E f \in Files : SaveFile(f)
  \/ \E i \in DOMAIN sandbox : InstanceDies(i)
  \/ Restart

Spec == Init /\ [][Next]_vars

(* The sandbox settles every call, timers fire and promise continuations   *)
(* run; nobody is obliged to call, and no fault is obliged to happen.      *)
Fairness ==
  /\ \A a \in Attempts : WF_vars(AttemptStep(a))
  /\ \A l \in Loops : WF_vars(LoopStep(l))
  /\ \A c \in Callers : WF_vars(JoinReturns(c))

FairSpec == Spec /\ Fairness

-----------------------------------------------------------------------------
(* Properties.                                                             *)

(* Single flight: a loop has an owner exactly while its promise is the one *)
(* in currentDeploymentPromise, so no owner's finally block clears the     *)
(* promise of a deployment it did not start.                               *)
OwnerHoldsPromise == \A l \in Loops : loop[l].owner # None <=> promise = l

(* The cached client is null or tied to the current session.               *)
ClientMatchesSession == client \in {NoClient, sessionId}

(* Until an attempt or a loop outlives its timer, the stored instance was  *)
(* created in the current session, so its container can be reached.        *)
InstanceInSession ==
  ~leaked /\ instanceId # NoInstance => sandbox[instanceId].session = sessionId

(* A loop awaits a deploy() exactly while it is deploying, and never two:  *)
(* an abandoned attempt is awaited by nobody, so its late failure cannot   *)
(* make the loop retry twice.                                              *)
OneAwaitedAttempt ==
  /\ \A a \in Attempts : Awaited(a) => loop[att[a].loop].pc = "deploying"
  /\ \A a, b \in Attempts : Awaited(a) /\ att[a].loop = att[b].loop => a = b
  /\ \A l \in Loops : loop[l].pc = "deploying" => \E a \in Attempts : att[a].loop = l

(* A deployment that reports success names an instance that got the files  *)
(* its owner asked for, save those whose individual write failed.          *)
SuccessDeliversFiles ==
  \A l \in Loops :
    loop[l].pc = "done" => loop[l].req.files \subseteq sandbox[loop[l].inst].files \cup dropped

(* Once faults stop, every retry loop stops, owned or not.                 *)
LoopsTerminate == \A l \in Loops : loop[l].pc # "idle" ~> loop[l].pc = "idle"

(* A caller that shares a deployment in progress is answered.              *)
JoinersReturn == \A c \in Callers : call[c].st = "join" ~> call[c].st # "join"

-----------------------------------------------------------------------------
(* What the comments of DeploymentManager.ts say and its code does not do. *)

(* "Retries indefinitely until success or master timeout": no loop goes on *)
(* once the caller that owned it has timed out.                            *)
NoLoopOutlivesOwner == \A l \in Loops : loop[l].pc # "idle" => loop[l].owner # None

(* "Success! Start health check and return": when the setup commands of a  *)
(* deployment are done, an instance is being polled.                       *)
MonitoredAfterDeploy ==
  [][\A l \in Loops : loop[l].pc = "setup" /\ loop'[l].pc = "done"
                      => interval # NoInstance]_vars

=============================================================================
