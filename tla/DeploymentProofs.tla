-------------------------- MODULE DeploymentProofs --------------------------
(***************************************************************************)
(* Theorems about Deployment, for any number of callers, loops, attempts,  *)
(* files, containers and faults.                                           *)
(***************************************************************************)
EXTENDS Deployment, SequenceTheorems, TLAPS

(* Appending to, and updating, the list of instances keeps its type.       *)
LEMMA SandboxAppend ==
  ASSUME sandbox \in Seq(InstanceType), NEW e \in InstanceType
  PROVE  /\ Append(sandbox, e) \in Seq(InstanceType)
         /\ Len(Append(sandbox, e)) = Len(sandbox) + 1
         /\ \A i \in 1..Len(sandbox) : Append(sandbox, e)[i] = sandbox[i]
         /\ Append(sandbox, e)[Len(sandbox) + 1] = e
BY DEF InstanceType

(* Replacing one instance of sandbox by another keeps the type and length. *)
LEMMA SandboxUpdate ==
  ASSUME sandbox \in Seq(InstanceType), NEW i \in 1..Len(sandbox), NEW e \in InstanceType
  PROVE  /\ [sandbox EXCEPT ![i] = e] \in Seq(InstanceType)
         /\ Len([sandbox EXCEPT ![i] = e]) = Len(sandbox)
         /\ \A j \in 1..Len(sandbox) :
              [sandbox EXCEPT ![i] = e][j] = IF j = i THEN e ELSE sandbox[j]
BY ExceptSeq

(* The records the actions build are typed.                                *)
LEMMA CreateCallTyped ==
  ASSUME TypeOK, NEW r \in AttType, NEW c \in Nat
  PROVE  /\ CreateCall(r, c) \in AttType
         /\ CreateCall(r, c).inst = NoInstance
         /\ CreateCall(r, c).loop = r.loop
         /\ CreateCall(r, c).pc \in {"token", "create"}
         /\ CreateCall(r, c).pc = "create" => CreateCall(r, c).client = c
         /\ CreateCall(r, c).client \in {c, NoClient}
         /\ NamesInstance(CreateCall(r, c))
BY DEF TypeOK, CreateCall, AttType, NoInstance, NoClient, NamesInstance

(* An attempt begun by ensureInstance leaves typed state behind.           *)
LEMMA BeginTyped ==
  ASSUME TypeOK, NEW a \in Attempts, NEW l \in Loops, NEW req \in RequestType(Files),
         BeginAttempt(a, l, req)
  PROVE  /\ sessionId' \in Nat \ {0} /\ client' \in Nat
         /\ instanceId' \in 0..Len(sandbox)
         /\ att' \in [Attempts -> AttType]
         /\ \A b \in Attempts : att'[b].inst \in 0..Len(sandbox) /\ NamesInstance(att'[b])
<1> DEFINE s == IF req.redeploy THEN sessionId + 1 ELSE sessionId
           i == IF req.redeploy THEN NoInstance ELSE instanceId
           c == ClientOf(s, IF req.redeploy THEN NoClient ELSE client)
           new == [pc |-> "status", loop |-> l, client |-> c, inst |-> i,
                   redeployed |-> FALSE, req |-> req, files |-> {}]
           r == IF i # NoInstance THEN new ELSE CreateCall(new, c)
<1>1. /\ sessionId' = s /\ instanceId' = i /\ client' = c
      /\ att' = [att EXCEPT ![a] = r]
  BY DEF BeginAttempt
<1>2. s \in Nat \ {0} /\ i \in 0..Len(sandbox) /\ c \in Nat
  BY LenProperties DEF TypeOK, NoInstance, NoClient, ClientOf
<1>3. new \in AttType
  <2> i \in Nat
    BY <1>2, LenProperties DEF TypeOK
  <2> HIDE DEF s, i, c
  <2> QED
    BY <1>2 DEF AttType
<1>4. r \in AttType /\ r.inst \in 0..Len(sandbox) /\ NamesInstance(r)
  <2>1. CASE i # NoInstance
    BY <1>2, <1>3, <2>1 DEF AttType, NamesInstance
  <2>2. CASE i = NoInstance
    <3>1. r = CreateCall(new, c)
      BY <2>2
    <3>2. 0 \in 0..Len(sandbox)
      BY LenProperties DEF TypeOK
    <3> HIDE DEF s, i, c, new, r
    <3> QED
      BY <1>2, <1>3, <3>1, <3>2, CreateCallTyped DEF NoInstance, NamesInstance
  <2> QED
    BY <2>1, <2>2
<1> QED
  <2> HIDE DEF s, i, c, new, r
  <2> QED
    BY <1>1, <1>2, <1>4 DEF TypeOK

(* The catch block of the retry loop leaves typed state behind.            *)
LEMMA CatchTyped ==
  ASSUME TypeOK, NEW l \in Loops, NEW e \in BOOLEAN, Catch(l, e)
  PROVE  /\ sessionId' \in Nat \ {0} /\ client' \in Nat
         /\ instanceId' \in 0..Len(sandbox)
         /\ loop' \in [Loops -> LoopType]
         /\ \A m \in Loops : loop'[m].inst \in 0..Len(sandbox)
<1> DEFINE resets == (IF e THEN 1 ELSE 0) + (IF loop[l].n % ResetEvery = 0 THEN 1 ELSE 0)
<1>1. resets \in Nat
  OBVIOUS
<1>2. /\ sessionId' = sessionId + resets
      /\ client' = IF resets > 0 THEN NoClient ELSE client
      /\ instanceId' = NoInstance
      /\ loop' = [loop EXCEPT ![l].pc = "backoff"]
  BY DEF Catch
<1> HIDE DEF resets
<1>3. loop \in [Loops -> LoopType] /\ \A m \in Loops : loop[m].inst \in 0..Len(sandbox)
  BY DEF TypeOK
<1>4. loop' \in [Loops -> LoopType] /\ \A m \in Loops : loop'[m].inst = loop[m].inst
  BY <1>2, <1>3 DEF LoopType
<1>5. Len(sandbox) \in Nat /\ sessionId \in Nat \ {0} /\ client \in Nat
  BY LenProperties DEF TypeOK
<1> QED
  BY <1>1, <1>2, <1>3, <1>4, <1>5 DEF NoInstance, NoClient

(* The attempt after ensureInstance returned is a typed attempt.           *)
LEMMA AfterEnsureTyped ==
  ASSUME TypeOK, NEW a \in Attempts, NEW i \in Nat \ {0}, NEW d \in BOOLEAN
  PROVE  /\ AfterEnsure(a, i, d) \in AttType
         /\ AfterEnsure(a, i, d).inst = i
         /\ AfterEnsure(a, i, d).loop = att[a].loop
         /\ AfterEnsure(a, i, d).pc \in {"write", "return"}
         /\ NamesInstance(AfterEnsure(a, i, d))
<1> DEFINE fs == FilesToDeploy(att[a].req, d)
           c == IF fs # {} THEN ClientOf(sessionId, client) ELSE NoClient
           q == IF fs # {} THEN "write" ELSE "return"
<1>1. att[a] \in AttType /\ generated \subseteq Files /\ client \in Nat /\ sessionId \in Nat
  BY DEF TypeOK
<1>2. fs \in SUBSET Files
  BY <1>1 DEF FilesToDeploy, AttType, RequestType
<1>3. c \in Nat
  BY <1>1 DEF ClientOf, NoClient
<1>4. AfterEnsure(a, i, d) = [att[a] EXCEPT !.pc = q, !.inst = i, !.redeployed = d,
                                          !.files = fs, !.client = c]
  BY DEF AfterEnsure
<1>5. q \in {"write", "return"}
  OBVIOUS
<1> HIDE DEF fs, c, q
<1>6. /\ AfterEnsure(a, i, d) \in AttType
      /\ AfterEnsure(a, i, d).inst = i
      /\ AfterEnsure(a, i, d).loop = att[a].loop
      /\ AfterEnsure(a, i, d).pc = q
  BY <1>1, <1>2, <1>3, <1>4, <1>5 DEF AttType
<1> QED
  BY <1>5, <1>6 DEF NamesInstance, NoInstance

(* The code after a delivered attempt leaves typed state behind.           *)
LEMMA DeliverTyped ==
  ASSUME TypeOK, NEW l \in Loops, NEW i \in 0..Len(sandbox), NEW d \in BOOLEAN, Deliver(l, i, d)
  PROVE  /\ interval' \in 0..Len(sandbox)
         /\ client' \in Nat
         /\ loop' \in [Loops -> LoopType]
         /\ \A m \in Loops : loop'[m].inst \in 0..Len(sandbox)
<1>1. /\ interval \in 0..Len(sandbox) /\ client \in Nat /\ sessionId \in Nat
      /\ loop \in [Loops -> LoopType] /\ \A m \in Loops : loop[m].inst \in 0..Len(sandbox)
  BY DEF TypeOK
<1>2. Len(sandbox) \in Nat
  BY LenProperties DEF TypeOK
<1> DEFINE start == d \/ interval = NoInstance
           q == IF start /\ HasSetup THEN "setup" ELSE "done"
<1>3. /\ interval' = IF start THEN i ELSE interval
      /\ client' = IF start THEN ClientOf(sessionId, client) ELSE client
      /\ loop' = [loop EXCEPT ![l].pc = q, ![l].inst = i]
  BY DEF Deliver
<1>4. q \in {"setup", "done"} /\ i \in Nat
  BY <1>2
<1>5. client' \in Nat
  BY <1>1, <1>3 DEF ClientOf
<1> HIDE DEF q, start
<1>6. /\ loop' \in [Loops -> LoopType]
      /\ \A m \in Loops : loop'[m].inst = IF m = l THEN i ELSE loop[m].inst
  BY <1>1, <1>3, <1>4 DEF LoopType
<1> QED
  BY <1>1, <1>3, <1>5, <1>6

(* deployToSandbox, when it starts a loop, leaves typed state behind.      *)
LEMMA StartTyped ==
  ASSUME TypeOK, NEW l \in Loops, NEW a \in Attempts, NEW o \in Callers \cup {Monitor},
         NEW req \in RequestType(Files), StartLoop(l, a, o, req)
  PROVE  /\ promise' \in Loops
         /\ loop' \in [Loops -> LoopType]
         /\ \A m \in Loops : loop'[m].inst \in 0..Len(sandbox)
         /\ sessionId' \in Nat \ {0} /\ client' \in Nat
         /\ instanceId' \in 0..Len(sandbox)
         /\ att' \in [Attempts -> AttType]
         /\ \A b \in Attempts : att'[b].inst \in 0..Len(sandbox) /\ NamesInstance(att'[b])
<1>1. BeginAttempt(a, l, req)
  BY DEF StartLoop
<1>2. /\ promise' = l
      /\ loop' = [loop EXCEPT ![l] = [pc |-> "deploying", n |-> 1, req |-> req,
                                      owner |-> o, inst |-> NoInstance]]
  BY DEF StartLoop
<1>3. /\ loop \in [Loops -> LoopType] /\ \A m \in Loops : loop[m].inst \in 0..Len(sandbox)
      /\ Len(sandbox) \in Nat
  BY LenProperties DEF TypeOK
<1>4. [pc |-> "deploying", n |-> 1, req |-> req, owner |-> o, inst |-> NoInstance] \in LoopType
  BY DEF LoopType, NoInstance
<1> QED
  BY <1>1, <1>2, <1>3, <1>4, BeginTyped DEF NoInstance

(* What a caller waits for is a typed record.                              *)
LEMMA WaitingTyped ==
  ASSUME NEW st \in {"idle", "own", "join"}, NEW l \in Loops \cup {None}
  PROVE  Waiting(st, l) \in CallType /\ Waiting(st, l).inst = 0
BY DEF Waiting, CallType, NoInstance, NoClient

(* Facts about lengths and slots used by every step of TypeNext.           *)
LEMMA Basics ==
  ASSUME TypeOK
  PROVE  /\ Len(sandbox) \in Nat
         /\ \A l \in Loops : loop[l] \in LoopType /\ loop[l].inst \in 0..Len(sandbox)
         /\ \A a \in Attempts : /\ att[a] \in AttType /\ att[a].inst \in 0..Len(sandbox)
                               /\ NamesInstance(att[a])
         /\ \A c \in Callers : call[c] \in CallType /\ call[c].inst \in 0..Len(sandbox)
         /\ IdleLoop \in LoopType /\ FreeAtt \in AttType /\ IdleCall \in CallType
         /\ IdleLoop.inst = 0 /\ FreeAtt.inst = 0 /\ IdleCall.inst = 0
         /\ NamesInstance(FreeAtt)
         /\ DefaultRequest \in RequestType(Files)
<1>1. Len(sandbox) \in Nat
  BY LenProperties DEF TypeOK
<1>2. /\ loop \in [Loops -> LoopType] /\ \A l \in Loops : loop[l].inst \in 0..Len(sandbox)
      /\ att \in [Attempts -> AttType]
      /\ \A a \in Attempts : att[a].inst \in 0..Len(sandbox) /\ NamesInstance(att[a])
      /\ call \in [Callers -> CallType] /\ \A c \in Callers : call[c].inst \in 0..Len(sandbox)
  BY DEF TypeOK
<1>3. DefaultRequest \in RequestType(Files)
  BY DEF DefaultRequest, RequestType
<1>4. IdleLoop \in LoopType /\ IdleLoop.inst = 0
  BY <1>3 DEF IdleLoop, LoopType, NoInstance
<1>5. FreeAtt \in AttType /\ FreeAtt.inst = 0 /\ NamesInstance(FreeAtt)
  BY <1>3 DEF FreeAtt, AttType, NoInstance, NoClient, NamesInstance
<1>6. IdleCall \in CallType /\ IdleCall.inst = 0
  BY WaitingTyped DEF IdleCall, NoInstance
<1> QED
  BY <1>1, <1>2, <1>3, <1>4, <1>5, <1>6

(* The type invariant is inductive: one step per action.                   *)
LEMMA TypeInit == Init => TypeOK
<1> SUFFICES ASSUME Init PROVE TypeOK
  OBVIOUS
<1>1. << >> \in Seq(InstanceType) /\ Len(<< >>) = 0
  BY EmptySeq
<1>2. DefaultRequest \in RequestType(Files)
  BY DEF DefaultRequest, RequestType
<1>3. IdleLoop \in LoopType /\ IdleLoop.inst = 0
  BY <1>2 DEF IdleLoop, LoopType, NoInstance
<1>4. FreeAtt \in AttType /\ FreeAtt.inst = 0 /\ NamesInstance(FreeAtt)
  BY <1>2 DEF FreeAtt, AttType, NoInstance, NoClient, NamesInstance
<1>5. IdleCall \in CallType /\ IdleCall.inst = 0
  BY WaitingTyped DEF IdleCall, NoInstance
<1>6. sandbox \in Seq(InstanceType) /\ Len(sandbox) = 0 /\ 0..Len(sandbox) = {0}
  BY <1>1 DEF Init
<1>7. /\ loop \in [Loops -> LoopType] /\ att \in [Attempts -> AttType]
      /\ call \in [Callers -> CallType]
  BY <1>3, <1>4, <1>5 DEF Init
<1>8. /\ \A a \in Attempts : att[a].inst = 0 /\ NamesInstance(att[a])
      /\ \A l \in Loops : loop[l].inst = 0
      /\ \A c \in Callers : call[c].inst = 0
  BY <1>3, <1>4, <1>5 DEF Init
<1>9. /\ instanceId \in 0..Len(sandbox) /\ interval \in 0..Len(sandbox)
      /\ disturb \in 0..MaxDisturb
  BY <1>6, DisturbAssumption DEF Init, NoInstance
<1>10. /\ \A a \in Attempts : att[a].inst \in 0..Len(sandbox) /\ NamesInstance(att[a])
       /\ \A l \in Loops : loop[l].inst \in 0..Len(sandbox)
       /\ \A c \in Callers : call[c].inst \in 0..Len(sandbox)
  BY <1>6, <1>8
<1>11. /\ sessionId \in Nat \ {0} /\ client \in Nat /\ generated = {} /\ checks = {}
       /\ dropped = {} /\ leaked = FALSE /\ promise = None
  BY DEF Init, NoClient
<1> QED
  BY <1>6, <1>7, <1>9, <1>10, <1>11 DEF TypeOK

(* Every action keeps the type invariant.                                  *)
LEMMA TypeNext == TypeOK /\ [Next]_vars => TypeOK'
<1> SUFFICES ASSUME TypeOK, [Next]_vars PROVE TypeOK'
  OBVIOUS
<1> USE DEF durable, memory, history
<1>0. CASE UNCHANGED vars
  BY <1>0 DEF vars, TypeOK
<1>1. ASSUME NEW c \in Callers, NEW l \in Loops, NEW a \in Attempts, NEW req \in Requests,
             CallOwn(c, l, a, req)
      PROVE  TypeOK'
  <2>1. req \in RequestType(Files)
    BY RequestAssumption
  <2>2. StartLoop(l, a, c, req)
    BY <1>1 DEF CallOwn
  <2>3. disturb' \in 0..MaxDisturb
    BY <1>1, DisturbAssumption DEF CallOwn, TypeOK, Disturb
  <2>4. call' \in [Callers -> CallType] /\ \A d \in Callers : call'[d].inst \in 0..Len(sandbox)
    BY <1>1, Basics, WaitingTyped DEF CallOwn, TypeOK
  <2>5. UNCHANGED <<generated, interval, checks, sandbox, dropped, leaked>>
    BY <1>1 DEF CallOwn
  <2> QED
    BY <2>1, <2>2, <2>3, <2>4, <2>5, StartTyped DEF TypeOK
<1>2. ASSUME NEW c \in Callers, CallJoin(c) PROVE TypeOK'
  <2>1. promise \in Loops /\ Waiting("join", promise) \in CallType
        /\ Waiting("join", promise).inst = 0
    BY <1>2, WaitingTyped DEF CallJoin, TypeOK
  <2> QED
    BY <1>2, <2>1, Basics DEF CallJoin, TypeOK
<1>3. ASSUME NEW c \in Callers, JoinReturns(c) PROVE TypeOK'
  BY <1>3, Basics DEF JoinReturns, TypeOK
<1>4. ASSUME NEW c \in Callers, Publish(c) PROVE TypeOK'
  BY <1>4, Basics DEF Publish, TypeOK, CallType, ClientOf
<1>5. ASSUME NEW c \in Callers, PublishReturns(c) PROVE TypeOK'
  BY <1>5, Basics DEF PublishReturns, TypeOK
<1>6. ASSUME NEW c \in Callers, NEW l \in Loops, NEW a \in Attempts, PublishExpired(c, l, a)
      PROVE  TypeOK'
  <2>1. UNCHANGED <<generated, interval, checks, sandbox, dropped, leaked, disturb>>
    BY <1>6 DEF PublishExpired
  <2>2. CASE /\ StartLoop(l, a, c, DefaultRequest)
             /\ call' = [call EXCEPT ![c] = Waiting("own", l)]
    <3>1. call' \in [Callers -> CallType] /\ \A d \in Callers : call'[d].inst \in 0..Len(sandbox)
      BY <2>2, Basics, WaitingTyped DEF TypeOK
    <3> QED
      BY <2>1, <2>2, <3>1, Basics, StartTyped DEF TypeOK
  <2>3. CASE /\ promise # None
             /\ call' = [call EXCEPT ![c] = Waiting("join", promise)]
             /\ UNCHANGED <<sessionId, instanceId, client, promise, loop, att>>
    <3>1. promise \in Loops /\ Waiting("join", promise) \in CallType
          /\ Waiting("join", promise).inst = 0
      BY <2>3, WaitingTyped DEF TypeOK
    <3> QED
      BY <2>1, <2>3, <3>1, Basics DEF TypeOK
  <2> QED
    BY <1>6, <2>2, <2>3 DEF PublishExpired
<1>7. ASSUME NEW l \in Loops, LoopReturns(l) PROVE TypeOK'
  BY <1>7, Basics DEF LoopReturns, TypeOK
<1>8. ASSUME NEW l \in Loops, OwnerTimeout(l) PROVE TypeOK'
  <2>1. /\ loop' \in [Loops -> LoopType]
        /\ \A m \in Loops : loop'[m].inst \in 0..Len(sandbox)
    BY <1>8, Basics DEF OwnerTimeout, TypeOK, LoopType
  <2>2. call' \in [Callers -> CallType] /\ \A d \in Callers : call'[d].inst \in 0..Len(sandbox)
    BY <1>8, Basics DEF OwnerTimeout, TypeOK
  <2> QED
    BY <1>8, <2>1, <2>2 DEF OwnerTimeout, TypeOK
<1>9. ASSUME NEW l \in Loops, SetupReturns(l) PROVE TypeOK'
  BY <1>9, Basics DEF SetupReturns, TypeOK, LoopType
<1>10. ASSUME NEW l \in Loops, NEW e \in BOOLEAN, SetupFails(l, e) PROVE TypeOK'
  <2>1. disturb' \in 0..MaxDisturb
    BY <1>10, DisturbAssumption DEF SetupFails, TypeOK, Disturb
  <2> QED
    BY <1>10, <2>1, CatchTyped DEF SetupFails, TypeOK
<1>11. ASSUME NEW l \in Loops, NEW a \in Attempts, Retry(l, a) PROVE TypeOK'
  <2>1. /\ loop' \in [Loops -> LoopType]
        /\ \A m \in Loops : loop'[m].inst \in 0..Len(sandbox)
    <3>1. loop' = [loop EXCEPT ![l].pc = "deploying", ![l].n = @ + 1]
      BY <1>11 DEF Retry
    <3>2. loop \in [Loops -> LoopType]
      BY DEF TypeOK
    <3>3. loop' \in [Loops -> LoopType] /\ \A m \in Loops : loop'[m].inst = loop[m].inst
      BY <3>1, <3>2 DEF LoopType
    <3> QED
      BY <3>3, Basics
  <2>2. loop[l].req \in RequestType(Files)
    BY Basics DEF LoopType
  <2>3. BeginAttempt(a, l, loop[l].req)
        /\ UNCHANGED <<generated, promise, call, interval, checks, sandbox, dropped, leaked, disturb>>
    BY <1>11 DEF Retry
  <2> QED
    BY <2>1, <2>2, <2>3, BeginTyped DEF TypeOK
<1>12. ASSUME NEW l \in Loops, NEW a \in Attempts, AttemptTimeout(l, a) PROVE TypeOK'
  <2>1. disturb' \in 0..MaxDisturb
    BY <1>12, DisturbAssumption DEF AttemptTimeout, TypeOK, Disturb
  <2>2. att' \in [Attempts -> AttType] /\ \A b \in Attempts : att'[b].inst \in 0..Len(sandbox) /\ NamesInstance(att'[b])
    BY <1>12, Basics DEF AttemptTimeout, TypeOK, AttType, NamesInstance
  <2>3. Catch(l, FALSE) /\ leaked' = TRUE
        /\ UNCHANGED <<generated, promise, call, interval, checks, sandbox, dropped>>
    BY <1>12 DEF AttemptTimeout
  <2> QED
    BY <2>1, <2>2, <2>3, CatchTyped DEF TypeOK
<1>13. ASSUME NEW a \in Attempts, NEW f \in BOOLEAN, StatusReturns(a, f) PROVE TypeOK'
  <2> DEFINE r == IF Healthy(att[a].client, att[a].inst) /\ ~f
                  THEN AfterEnsure(a, att[a].inst, FALSE)
                  ELSE CreateCall(att[a], ClientOf(sessionId, client))
  <2>1. att' = [att EXCEPT ![a] = r] /\ client' = ClientAfter(att'[a])
    BY <1>13 DEF StatusReturns
  <2>2. att[a].inst \in 1..Len(sandbox)
    BY <1>13, Basics DEF StatusReturns, NamesInstance, NoInstance
  <2>3. ClientOf(sessionId, client) \in Nat /\ client' \in Nat
    BY <2>1 DEF ClientOf, ClientAfter, TypeOK
  <2>4. /\ 0 \in 0..Len(sandbox) /\ att[a].inst \in 0..Len(sandbox)
        /\ att[a].inst \in Nat \ {0} /\ att[a] \in AttType
    BY <2>2, Basics
  <2>7. r \in AttType /\ r.inst \in 0..Len(sandbox) /\ NamesInstance(r)
    <3>1. CASE Healthy(att[a].client, att[a].inst) /\ ~f
      <4>1. r = AfterEnsure(a, att[a].inst, FALSE)
        BY <3>1
      <4> HIDE DEF r
      <4> QED
        BY <2>4, <4>1, AfterEnsureTyped
    <3>2. CASE ~(Healthy(att[a].client, att[a].inst) /\ ~f)
      <4>1. r = CreateCall(att[a], ClientOf(sessionId, client))
        BY <3>2
      <4> HIDE DEF r
      <4> QED
        BY <2>3, <2>4, <4>1, CreateCallTyped DEF NoInstance
    <3> QED
      BY <3>1, <3>2
  <2>8. disturb' \in 0..MaxDisturb
    BY <1>13, DisturbAssumption DEF StatusReturns, TypeOK, Disturb
  <2> HIDE DEF r
  <2> QED
    BY <1>13, <2>1, <2>3, <2>7, <2>8 DEF StatusReturns, TypeOK
<1>14. ASSUME NEW a \in Attempts, TokenReturns(a) PROVE TypeOK'
  <2>1. ClientOf(sessionId, client) \in Nat /\ generated \subseteq Files
    BY DEF ClientOf, TypeOK
  <2>2. /\ att' = [att EXCEPT ![a] = [att[a] EXCEPT !.pc = "create", !.files = generated,
                                                  !.client = ClientOf(sessionId, client)]]
        /\ client' = ClientOf(sessionId, client)
        /\ UNCHANGED <<durable, promise, loop, call, interval, checks, sandbox, history, disturb>>
    BY <1>14 DEF TokenReturns
  <2>3. att \in [Attempts -> AttType]
    BY DEF TypeOK
  <2> DEFINE r == [att[a] EXCEPT !.pc = "create", !.files = generated,
                                !.client = ClientOf(sessionId, client)]
  <2>4. r \in AttType /\ r.inst = att[a].inst /\ r.pc = "create"
    <3>1. att[a] \in AttType
      BY <2>3
    <3> DEFINE c == ClientOf(sessionId, client)
    <3> HIDE DEF c
    <3>2. c \in Nat
      BY <2>1 DEF c
    <3>3. LET q == [att[a] EXCEPT !.pc = "create", !.files = generated, !.client = c]
          IN  q \in AttType /\ q.inst = att[a].inst /\ q.pc = "create"
      BY <2>1, <3>1, <3>2 DEF AttType
    <3> QED
      BY <3>3 DEF c
  <2>7. att' = [att EXCEPT ![a] = r]
    BY <2>2
  <2> HIDE DEF r
  <2>5. \A b \in Attempts : att'[b].inst \in 0..Len(sandbox) /\ NamesInstance(att'[b])
    BY <2>7, <2>4, Basics DEF TypeOK, NamesInstance
  <2>6. att' \in [Attempts -> AttType]
    BY <2>7, <2>3, <2>4
  <2> QED
    BY <2>1, <2>2, <2>5, <2>6 DEF TypeOK
<1>15. ASSUME NEW a \in Attempts, CreateReturns(a) PROVE TypeOK'
  <2> DEFINE e == [session |-> att[a].client, up |-> TRUE, files |-> att[a].files]
             n == Len(sandbox) + 1
             r == AfterEnsure(a, n, TRUE)
  <2>1. e \in InstanceType
    BY Basics DEF AttType, InstanceType
  <2>2. /\ sandbox' = Append(sandbox, e) /\ instanceId' = n
        /\ att' = [att EXCEPT ![a] = r] /\ client' = ClientAfter(att'[a])
        /\ UNCHANGED <<sessionId, generated, promise, loop, call, interval, checks, history, disturb>>
    BY <1>15 DEF CreateReturns
  <2>3. sandbox \in Seq(InstanceType) /\ Len(sandbox) \in Nat
    BY Basics DEF TypeOK
  <2>4. n \in Nat \ {0}
    BY <2>3
  <2>5. r \in AttType /\ r.inst = n /\ NamesInstance(r)
    BY <2>4, AfterEnsureTyped
  <2> HIDE DEF e, r
  <2>6. sandbox' \in Seq(InstanceType) /\ Len(sandbox') = n
    BY <2>1, <2>2, <2>3, SandboxAppend
  <2>7. 0..Len(sandbox) \subseteq 0..n /\ 1..Len(sandbox) \subseteq 1..n /\ n \in 0..n
    BY <2>3
  <2>8. client' \in Nat
    BY <2>2 DEF ClientOf, ClientAfter, TypeOK
  <2>9. /\ att' \in [Attempts -> AttType]
        /\ \A b \in Attempts : att'[b].inst \in 0..n /\ NamesInstance(att'[b])
    BY <2>2, <2>5, <2>7, Basics DEF TypeOK
  <2>10. checks' \subseteq [inst : 1..n, client : Nat]
    BY <2>2, <2>7 DEF TypeOK
  <2> HIDE DEF n
  <2> QED
    BY <2>2, <2>6, <2>7, <2>8, <2>9, <2>10, Basics DEF TypeOK
<1>16. ASSUME NEW a \in Attempts, NEW lost \in SUBSET att[a].files, WriteReturns(a, lost)
       PROVE  TypeOK'
  <2> DEFINE i == att[a].inst
             e == [sandbox[i] EXCEPT !.files = @ \cup (att[a].files \ lost)]
  <2>1. i \in 1..Len(sandbox) /\ att[a] \in AttType
    BY <1>16, Basics DEF WriteReturns, NamesInstance, NoInstance
  <2>2. sandbox \in Seq(InstanceType) /\ sandbox[i] \in InstanceType
    BY <2>1, ElementOfSeq DEF TypeOK
  <2>3. att[a].files \subseteq Files
    BY <2>1 DEF AttType
  <2>4. e \in InstanceType
    BY <2>2, <2>3 DEF InstanceType
  <2>5. sandbox' = [sandbox EXCEPT ![i] = e]
    BY <1>16 DEF WriteReturns
  <2> HIDE DEF i, e
  <2>6. sandbox' \in Seq(InstanceType) /\ Len(sandbox') = Len(sandbox)
    BY <2>1, <2>2, <2>4, <2>5, SandboxUpdate
  <2>7. disturb' \in 0..MaxDisturb
    BY <1>16, DisturbAssumption DEF WriteReturns, TypeOK, Disturb
  <2>8. /\ att' \in [Attempts -> AttType]
        /\ \A b \in Attempts : att'[b].inst \in 0..Len(sandbox) /\ NamesInstance(att'[b])
    <3> DEFINE r == [att[a] EXCEPT !.pc = "return", !.client = NoClient, !.files = {}]
    <3>1. r \in AttType /\ r.inst = att[a].inst /\ r.pc = "return"
      BY <2>1 DEF AttType, NoClient
    <3>2. att' = [att EXCEPT ![a] = r]
      BY <1>16 DEF WriteReturns
    <3>3. NamesInstance(r)
      BY <2>1, <3>1 DEF NamesInstance, i, NoInstance
    <3>4. r.inst \in 0..Len(sandbox)
      BY <3>1, Basics
    <3>5. att \in [Attempts -> AttType]
          /\ \A b \in Attempts : att[b].inst \in 0..Len(sandbox) /\ NamesInstance(att[b])
      BY DEF TypeOK
    <3> HIDE DEF r
    <3> QED
      BY <3>1, <3>2, <3>3, <3>4, <3>5
  <2>9. dropped' \subseteq Files
    BY <1>16, <2>3 DEF WriteReturns, TypeOK
  <2> QED
    BY <1>16, <2>6, <2>7, <2>8, <2>9 DEF WriteReturns, TypeOK
<1>17. ASSUME NEW a \in Attempts, AttemptReturns(a) PROVE TypeOK'
  <2>1. /\ att' = [att EXCEPT ![a] = FreeAtt]
        /\ UNCHANGED <<durable, promise, call, checks, sandbox, history, disturb>>
    BY <1>17 DEF AttemptReturns
  <2>2. /\ att' \in [Attempts -> AttType]
        /\ \A b \in Attempts : att'[b].inst \in 0..Len(sandbox) /\ NamesInstance(att'[b])
    BY <2>1, Basics DEF TypeOK
  <2>3. CASE Awaited(a)
    <3>1. /\ att[a].loop \in Loops /\ att[a].inst \in 0..Len(sandbox)
          /\ att[a].redeployed \in BOOLEAN
      BY <2>3, Basics DEF Awaited, AttType
    <3>2. Deliver(att[a].loop, att[a].inst, att[a].redeployed)
      BY <1>17, <2>3 DEF AttemptReturns
    <3> QED
      BY <2>1, <2>2, <3>1, <3>2, DeliverTyped DEF TypeOK
  <2>4. CASE ~Awaited(a)
    BY <1>17, <2>1, <2>2, <2>4 DEF AttemptReturns, TypeOK
  <2> QED
    BY <2>3, <2>4
<1>18. ASSUME NEW a \in Attempts, NEW e \in BOOLEAN, AttemptFails(a, e) PROVE TypeOK'
  <2>1. /\ att' = [att EXCEPT ![a] = FreeAtt]
        /\ UNCHANGED <<generated, promise, call, interval, checks, sandbox, history>>
    BY <1>18 DEF AttemptFails
  <2>2. /\ att' \in [Attempts -> AttType]
        /\ \A b \in Attempts : att'[b].inst \in 0..Len(sandbox) /\ NamesInstance(att'[b])
    BY <2>1, Basics DEF TypeOK
  <2>3. disturb' \in 0..MaxDisturb
    BY <1>18, DisturbAssumption DEF AttemptFails, TypeOK, Disturb
  <2>4. CASE Awaited(a)
    <3>1. att[a].loop \in Loops
      BY <2>4, Basics DEF Awaited, AttType
    <3>2. Catch(att[a].loop, e)
      BY <1>18, <2>4 DEF AttemptFails
    <3> QED
      BY <2>1, <2>2, <2>3, <3>1, <3>2, CatchTyped DEF TypeOK
  <2>5. CASE ~Awaited(a)
    BY <1>18, <2>1, <2>2, <2>3, <2>5 DEF AttemptFails, TypeOK
  <2> QED
    BY <2>4, <2>5
<1>19. ASSUME HealthTick PROVE TypeOK'
  <2>1. client' \in Nat /\ checks' = checks \cup {[inst |-> interval, client |-> client']}
    BY <1>19 DEF HealthTick, ClientOf, TypeOK
  <2>2. interval \in 1..Len(sandbox)
    BY <1>19, Basics DEF HealthTick, TypeOK, NoInstance
  <2>3. checks' \subseteq [inst : 1..Len(sandbox), client : Nat]
    BY <2>1, <2>2 DEF TypeOK
  <2> QED
    BY <1>19, <2>1, <2>3 DEF HealthTick, TypeOK
<1>20. ASSUME NEW k \in checks, CheckPasses(k) PROVE TypeOK'
  BY <1>20 DEF CheckPasses, TypeOK
<1>21. ASSUME NEW k \in checks, NEW l \in Loops, NEW a \in Attempts, NEW f \in BOOLEAN,
              CheckFails(k, l, a, f)
       PROVE  TypeOK'
  <2>1. /\ checks' = checks \ {k} /\ interval' = NoInstance
        /\ UNCHANGED <<generated, call, sandbox, dropped, leaked>>
    BY <1>21 DEF CheckFails
  <2>2. disturb' \in 0..MaxDisturb
    BY <1>21, DisturbAssumption DEF CheckFails, TypeOK, Disturb
  <2>3. interval' \in 0..Len(sandbox)
    BY <2>1, Basics DEF NoInstance
  <2>4. CASE StartLoop(l, a, Monitor, DefaultRequest)
    BY <2>1, <2>2, <2>3, <2>4, Basics, StartTyped DEF TypeOK
  <2>5. CASE promise # None /\ UNCHANGED <<sessionId, instanceId, client, promise, loop, att>>
    BY <2>1, <2>2, <2>3, <2>5 DEF TypeOK
  <2> QED
    BY <1>21, <2>4, <2>5 DEF CheckFails
<1>22. ASSUME NEW f \in Files, SaveFile(f) PROVE TypeOK'
  BY <1>22 DEF SaveFile, TypeOK
<1>23. ASSUME NEW i \in DOMAIN sandbox, InstanceDies(i) PROVE TypeOK'
  <2> DEFINE e == [sandbox[i] EXCEPT !.up = FALSE]
  <2>1. sandbox \in Seq(InstanceType) /\ i \in 1..Len(sandbox)
    BY LenProperties DEF TypeOK
  <2>2. e \in InstanceType
    <3>1. sandbox[i] \in InstanceType
      BY <2>1, ElementOfSeq
    <3> QED
      BY <3>1 DEF InstanceType
  <2>3. sandbox' = [sandbox EXCEPT ![i] = e]
    BY <1>23 DEF InstanceDies
  <2> HIDE DEF e
  <2>4. sandbox' \in Seq(InstanceType) /\ Len(sandbox') = Len(sandbox)
    BY <2>1, <2>2, <2>3, SandboxUpdate
  <2>5. disturb' \in 0..MaxDisturb
    BY <1>23, DisturbAssumption DEF InstanceDies, TypeOK, Disturb
  <2> QED
    BY <1>23, <2>4, <2>5 DEF InstanceDies, TypeOK
<1>24. ASSUME Restart PROVE TypeOK'
  <2>1. disturb' \in 0..MaxDisturb
    BY <1>24, DisturbAssumption DEF Restart, TypeOK, Disturb
  <2>2. /\ loop' = [l \in Loops |-> IdleLoop] /\ att' = [a \in Attempts |-> FreeAtt]
        /\ call' = [c \in Callers |-> IdleCall]
        /\ client' = NoClient /\ promise' = None /\ interval' = NoInstance /\ checks' = {}
        /\ UNCHANGED <<durable, sandbox, dropped, leaked>>
    BY <1>24 DEF Restart
  <2>3. /\ loop' \in [Loops -> LoopType] /\ att' \in [Attempts -> AttType]
        /\ call' \in [Callers -> CallType]
    BY <2>2, Basics
  <2>4. 0 \in 0..Len(sandbox)
    BY Basics
  <2>5. /\ \A a \in Attempts : att'[a].inst \in 0..Len(sandbox) /\ NamesInstance(att'[a])
        /\ \A l \in Loops : loop'[l].inst \in 0..Len(sandbox)
        /\ \A c \in Callers : call'[c].inst \in 0..Len(sandbox)
    BY <2>2, <2>4, Basics
  <2> QED
    BY <2>1, <2>2, <2>3, <2>4, <2>5 DEF TypeOK, NoClient, NoInstance
<1> QED
  BY <1>0, <1>1, <1>2, <1>3, <1>4, <1>5, <1>6, <1>7, <1>8, <1>9, <1>10, <1>11, <1>12, <1>13,
     <1>14, <1>15, <1>16, <1>17, <1>18, <1>19, <1>20, <1>21, <1>22, <1>23, <1>24
  DEF Next, LoopStep, AttemptStep

(* Every value of the agent's state keeps its type, and every instance     *)
(* number anything holds names an instance that has been created.          *)
THEOREM TypeCorrect == Spec => []TypeOK
BY TypeInit, TypeNext, PTL DEF Spec

-----------------------------------------------------------------------------
(* The inductive invariant.  While no timer has left anything behind, the  *)
(* promise, the loop that is running and the attempt in flight are one     *)
(* chain, so a session can only be reset when nobody else holds a client   *)
(* of the old one.                                                         *)
FreeSlots == \A a \in Attempts : att[a].pc = "free" => ~Awaited(a)

OneChain ==
  ~leaked => /\ \A l \in Loops : loop[l].pc # "idle" => loop[l].owner # None
             /\ \A a \in Attempts : att[a].pc # "free" => Awaited(a)
             /\ \A a \in Attempts : att[a].pc = "create" => att[a].client = sessionId

IInv == /\ TypeOK /\ OwnerHoldsPromise /\ ClientMatchesSession /\ OneAwaitedAttempt
        /\ FreeSlots /\ OneChain /\ InstanceInSession

(* Without leaks, an attempt in flight is that of the loop whose promise   *)
(* is stored, and that loop is deploying.                                  *)
LEMMA ChainOfAttempt ==
  ASSUME IInv, ~leaked, NEW a \in Attempts, att[a].pc # "free"
  PROVE  promise \in Loops /\ att[a].loop = promise /\ loop[promise].pc = "deploying"
<1>1. Awaited(a) /\ att[a].loop \in Loops
  BY Basics DEF IInv, OneChain, Awaited, AttType
<1>2. loop[att[a].loop].pc = "deploying"
  BY <1>1 DEF IInv, OneAwaitedAttempt
<1>3. loop[att[a].loop].owner # None
  BY <1>1, <1>2 DEF IInv, OneChain
<1> QED
  BY <1>1, <1>2, <1>3 DEF IInv, OwnerHoldsPromise

(* What an attempt begun by loop l in slot a leaves behind.                *)
LEMMA BeginEffect ==
  ASSUME TypeOK, ClientMatchesSession, NEW a \in Attempts, NEW l \in Loops,
         NEW req \in RequestType(Files), BeginAttempt(a, l, req)
  PROVE  /\ att[a].pc = "free" /\ client' = sessionId'
         /\ (instanceId' = instanceId /\ sessionId' = sessionId) \/ instanceId' = NoInstance
         /\ att'[a].loop = l /\ att'[a].pc \in {"status", "token", "create"}
         /\ att'[a].pc = "create" => att'[a].client = sessionId'
         /\ \A b \in Attempts \ {a} : att'[b] = att[b]
<1> DEFINE s == IF req.redeploy THEN sessionId + 1 ELSE sessionId
           i == IF req.redeploy THEN NoInstance ELSE instanceId
           c == ClientOf(s, IF req.redeploy THEN NoClient ELSE client)
           new == [pc |-> "status", loop |-> l, client |-> c, inst |-> i,
                   redeployed |-> FALSE, req |-> req, files |-> {}]
           r == IF i # NoInstance THEN new ELSE CreateCall(new, c)
<1>1. /\ sessionId' = s /\ instanceId' = i /\ client' = c /\ att[a].pc = "free"
      /\ att' = [att EXCEPT ![a] = r]
  BY DEF BeginAttempt
<1>2. s \in Nat \ {0} /\ c = s /\ i \in Nat
  BY LenProperties DEF TypeOK, ClientMatchesSession, ClientOf, NoInstance, NoClient
<1>3. (i = instanceId /\ s = sessionId) \/ i = NoInstance
  OBVIOUS
<1>4. new \in AttType /\ new.loop = l /\ new.pc = "status"
  <2> HIDE DEF s, i, c
  <2> QED
    BY <1>2 DEF AttType
<1>5. r.loop = l /\ r.pc \in {"status", "token", "create"} /\ (r.pc = "create" => r.client = c)
  <2> HIDE DEF s, i, c, new
  <2>1. CreateCall(new, c).loop = l /\ CreateCall(new, c).pc \in {"token", "create"}
        /\ (CreateCall(new, c).pc = "create" => CreateCall(new, c).client = c)
    BY <1>2, <1>4, CreateCallTyped
  <2> QED
    BY <1>4, <2>1
<1> HIDE DEF s, i, c, new, r
<1>6. att \in [Attempts -> AttType]
  BY DEF TypeOK
<1> QED
  BY <1>1, <1>2, <1>3, <1>5, <1>6

(* A loop that was not deploying awaits the attempt it has begun.          *)
LEMMA BeginAwaited ==
  ASSUME IInv, NEW l \in Loops, NEW a \in Attempts, att[a].pc = "free", att'[a].loop = l,
         loop[l].pc # "deploying", loop'[l].pc = "deploying",
         \A b \in Attempts \ {a} : att'[b] = att[b],
         \A m \in Loops \ {l} : loop'[m] = loop[m]
  PROVE  OneAwaitedAttempt'
<1>1. None \notin Loops /\ att[a].loop = None
  BY NamesAssumption DEF IInv, FreeSlots, Awaited
<1>2. \A b \in Attempts : Awaited(b) => att[b].loop \in Loops \ {l}
  <2> TAKE b \in Attempts
  <2>1. att[b].loop \in Loops \cup {None}
    BY Basics DEF IInv, AttType
  <2> QED
    BY <2>1 DEF IInv, OneAwaitedAttempt, Awaited
<1>3. ASSUME NEW b \in Attempts, att'[b].loop # None PROVE loop'[att'[b].loop].pc = "deploying"
  BY <1>2, <1>3 DEF IInv, OneAwaitedAttempt, Awaited
<1>4. ASSUME NEW b \in Attempts, NEW d \in Attempts, att'[b].loop # None,
             att'[b].loop = att'[d].loop
      PROVE  b = d
  <2>1. CASE b = a \/ d = a
    BY <1>1, <1>2, <1>4, <2>1 DEF Awaited
  <2>2. CASE b # a /\ d # a
    BY <1>4, <2>2 DEF IInv, OneAwaitedAttempt, Awaited
  <2> QED
    BY <2>1, <2>2
<1>5. ASSUME NEW m \in Loops, loop'[m].pc = "deploying" PROVE \E b \in Attempts : att'[b].loop = m
  <2>1. CASE m = l
    BY <2>1
  <2>2. CASE m # l
    <3>1. PICK b \in Attempts : att[b].loop = m
      BY <1>5, <2>2 DEF IInv, OneAwaitedAttempt
    <3> QED
      BY <1>1, <3>1
  <2> QED
    BY <2>1, <2>2
<1> QED
  BY <1>3, <1>4, <1>5 DEF OneAwaitedAttempt, Awaited

(* Starting a loop keeps the invariant.                                    *)
LEMMA StartKeeps ==
  ASSUME IInv, NEW l \in Loops, NEW a \in Attempts, NEW o \in Callers \cup {Monitor},
         NEW req \in RequestType(Files), StartLoop(l, a, o, req), UNCHANGED <<sandbox, leaked>>
  PROVE  /\ OwnerHoldsPromise' /\ ClientMatchesSession' /\ OneAwaitedAttempt'
         /\ FreeSlots' /\ OneChain' /\ InstanceInSession'
<1>1. /\ promise = None /\ promise' = l /\ loop[l].pc = "idle"
      /\ loop' = [loop EXCEPT ![l] = [pc |-> "deploying", n |-> 1, req |-> req,
                                      owner |-> o, inst |-> NoInstance]]
      /\ BeginAttempt(a, l, req)
  BY DEF StartLoop
<1>2. TypeOK /\ o # None /\ None \notin Loops
  BY NamesAssumption DEF IInv
<1>3. /\ loop'[l].pc = "deploying" /\ loop'[l].owner = o
      /\ \A m \in Loops \ {l} : loop'[m] = loop[m]
  BY <1>1, <1>2 DEF TypeOK
<1>4. \A m \in Loops : loop[m].owner = None
  BY <1>1, <1>2 DEF IInv, OwnerHoldsPromise
<1>5. OwnerHoldsPromise'
  BY <1>1, <1>2, <1>3, <1>4 DEF OwnerHoldsPromise
<1>6. /\ att[a].pc = "free" /\ client' = sessionId'
      /\ (instanceId' = instanceId /\ sessionId' = sessionId) \/ instanceId' = NoInstance
      /\ att'[a].loop = l /\ att'[a].pc \in {"status", "token", "create"}
      /\ att'[a].pc = "create" => att'[a].client = sessionId'
      /\ \A b \in Attempts \ {a} : att'[b] = att[b]
  BY <1>1, BeginEffect DEF IInv
<1>7. ~leaked => \A b \in Attempts : att[b].pc = "free"
  BY <1>4, ChainOfAttempt, <1>1, <1>2
<1>9. OneAwaitedAttempt'
  BY <1>1, <1>3, <1>6, BeginAwaited
<1>10. ClientMatchesSession' /\ FreeSlots'
  BY <1>6 DEF IInv, ClientMatchesSession, FreeSlots, Awaited
<1>11. OneChain'
  BY <1>1, <1>2, <1>3, <1>6, <1>7, <1>4 DEF IInv, OneChain, Awaited
<1>12. InstanceInSession'
  BY <1>6 DEF IInv, InstanceInSession
<1> QED
  BY <1>5, <1>9, <1>10, <1>11, <1>12

(* A failure caught by loop l, once the attempt it awaited is gone, keeps  *)
(* the invariant: without leaks nobody else is in flight.                  *)
LEMMA CatchKeeps ==
  ASSUME IInv, NEW l \in Loops, NEW e \in BOOLEAN, Catch(l, e), loop[l].pc # "idle",
         UNCHANGED <<promise, sandbox>>,
         \A b \in Attempts : att'[b] = att[b] \/ att'[b].loop = None,
         \A b \in Attempts : att'[b].loop # l,
         \A b \in Attempts : att[b].loop \notin {l, None} => att'[b] = att[b],
         \A b \in Attempts : att'[b].pc = "free" => att'[b].loop = None,
         leaked' = TRUE \/ (leaked' = leaked /\ \A b \in Attempts : att'[b] = att[b] \/ att'[b].pc = "free")
  PROVE  /\ OwnerHoldsPromise' /\ ClientMatchesSession' /\ OneAwaitedAttempt'
         /\ FreeSlots' /\ OneChain' /\ InstanceInSession'
<1>1. /\ sessionId' = sessionId \/ client' = NoClient
      /\ client' \in {client, NoClient} /\ instanceId' = NoInstance
      /\ loop' = [loop EXCEPT ![l].pc = "backoff"]
  <2> DEFINE resets == (IF e THEN 1 ELSE 0) + (IF loop[l].n % ResetEvery = 0 THEN 1 ELSE 0)
  <2>1. resets \in Nat
    OBVIOUS
  <2>2. /\ sessionId' = sessionId + resets /\ instanceId' = NoInstance
        /\ client' = IF resets > 0 THEN NoClient ELSE client
        /\ loop' = [loop EXCEPT ![l].pc = "backoff"]
    BY DEF Catch
  <2> HIDE DEF resets
  <2> QED
    BY <2>1, <2>2 DEF IInv, TypeOK
<1>2. /\ loop'[l].pc = "backoff" /\ \A m \in Loops : loop'[m].owner = loop[m].owner
      /\ \A m \in Loops \ {l} : loop'[m] = loop[m]
  BY <1>1 DEF IInv, TypeOK, LoopType
<1>3. OwnerHoldsPromise' /\ ClientMatchesSession' /\ FreeSlots' /\ InstanceInSession'
  BY <1>1, <1>2 DEF IInv, OwnerHoldsPromise, ClientMatchesSession, FreeSlots, Awaited, InstanceInSession
<1>4. OneAwaitedAttempt'
  <2>1. ASSUME NEW b \in Attempts, att'[b].loop # None PROVE loop'[att'[b].loop].pc = "deploying"
    <3>1. att[b].loop \in Loops /\ att[b].loop = att'[b].loop /\ att[b].loop # l
      BY <2>1, Basics DEF IInv, AttType
    <3> QED
      BY <1>2, <2>1, <3>1 DEF IInv, OneAwaitedAttempt, Awaited
  <2>2. ASSUME NEW b \in Attempts, NEW d \in Attempts, att'[b].loop # None,
               att'[b].loop = att'[d].loop
        PROVE  b = d
    BY <2>2 DEF IInv, OneAwaitedAttempt, Awaited
  <2>3. ASSUME NEW m \in Loops, loop'[m].pc = "deploying" PROVE \E b \in Attempts : att'[b].loop = m
    <3>1. PICK b \in Attempts : att[b].loop = m
      BY <1>2, <2>3 DEF IInv, OneAwaitedAttempt
    <3>2. m \notin {l, None}
      BY <1>2, <2>3, NamesAssumption
    <3> QED
      BY <3>1, <3>2
  <2> QED
    BY <2>1, <2>2, <2>3 DEF OneAwaitedAttempt, Awaited
<1>5. ASSUME ~leaked' PROVE \A b \in Attempts : att'[b].pc = "free"
  <2>1. ~leaked /\ \A b \in Attempts : att'[b] = att[b] \/ att'[b].pc = "free"
    BY <1>5 DEF IInv, TypeOK
  <2>2. promise = l
    BY <2>1 DEF IInv, OneChain, OwnerHoldsPromise
  <2>3. ASSUME NEW b \in Attempts, att'[b].pc # "free" PROVE FALSE
    BY <2>1, <2>2, <2>3, ChainOfAttempt
  <2> QED
    BY <2>3
<1>6. OneChain'
  BY <1>2, <1>5 DEF IInv, OneChain, TypeOK
<1> QED
  BY <1>3, <1>4, <1>6

(* A new agent satisfies the inductive invariant.                          *)
LEMMA IInvInit == Init => IInv
<1> SUFFICES ASSUME Init PROVE IInv
  OBVIOUS
<1>1. TypeOK
  BY TypeInit
<1>2. /\ \A l \in Loops : loop[l].pc = "idle" /\ loop[l].owner = None
      /\ \A a \in Attempts : att[a].pc = "free" /\ att[a].loop = None
      /\ promise = None /\ client = NoClient /\ instanceId = NoInstance
  BY DEF Init, IdleLoop, FreeAtt
<1> QED
  BY <1>1, <1>2, NamesAssumption
  DEF IInv, OwnerHoldsPromise, ClientMatchesSession, OneAwaitedAttempt, FreeSlots, OneChain,
      InstanceInSession, Awaited

(* The parts of IInv beside TypeOK.                                        *)
Chain == /\ OwnerHoldsPromise /\ ClientMatchesSession /\ OneAwaitedAttempt
         /\ FreeSlots /\ OneChain /\ InstanceInSession

(* An action that changes no loop, attempt, promise, session or instance   *)
(* keeps the chain.                                                        *)
LEMMA ChainStutter ==
  ASSUME IInv, UNCHANGED <<sessionId, instanceId, promise, loop, att, sandbox, leaked>>,
         client' \in {client, sessionId}
  PROVE  Chain'
BY DEF IInv, Chain, OwnerHoldsPromise, ClientMatchesSession, OneAwaitedAttempt, FreeSlots, OneChain,
       InstanceInSession, Awaited

(* So does one that only moves an attempt on, without ending it.           *)
LEMMA ChainAttempt ==
  ASSUME IInv, UNCHANGED <<sessionId, promise, loop, leaked>>, client' \in {client, sessionId},
         NEW a \in Attempts, att[a].pc # "free", att'[a].pc # "free", att'[a].loop = att[a].loop,
         \A b \in Attempts \ {a} : att'[b] = att[b],
         att'[a].pc = "create" => att'[a].client = sessionId,
         InstanceInSession'
  PROVE  Chain'
<1>1. \A b \in Attempts : att'[b].loop = att[b].loop
  OBVIOUS
<1>2. OneAwaitedAttempt'
  BY <1>1 DEF IInv, OneAwaitedAttempt, Awaited
<1>3. FreeSlots' /\ OneChain'
  BY <1>1 DEF IInv, FreeSlots, OneChain, Awaited
<1> QED
  BY <1>2, <1>3 DEF IInv, Chain, OwnerHoldsPromise, ClientMatchesSession

(* Created instances never change the session they belong to.              *)
LEMMA SessionsKept ==
  ASSUME IInv, UNCHANGED <<sessionId, instanceId, leaked>>,
         \A j \in 1..Len(sandbox) : sandbox'[j].session = sandbox[j].session
  PROVE  InstanceInSession'
<1>1. instanceId # NoInstance => instanceId \in 1..Len(sandbox)
  BY Basics DEF IInv, TypeOK, NoInstance
<1> QED
  BY <1>1 DEF IInv, InstanceInSession

(* Every action keeps the inductive invariant: one step per action.        *)
LEMMA IInvNext == IInv /\ [Next]_vars => IInv'
<1> SUFFICES ASSUME IInv, [Next]_vars PROVE Chain'
  BY TypeNext DEF IInv, Chain
<1> USE DEF durable, memory, history
<1>0. CASE UNCHANGED vars
  BY <1>0, ChainStutter DEF vars
<1>1. ASSUME NEW c \in Callers, NEW l \in Loops, NEW a \in Attempts, NEW req \in Requests,
             CallOwn(c, l, a, req)
      PROVE  Chain'
  <2>1. req \in RequestType(Files) /\ StartLoop(l, a, c, req) /\ UNCHANGED <<sandbox, leaked>>
    BY <1>1, RequestAssumption DEF CallOwn
  <2> QED
    BY <2>1, StartKeeps DEF Chain
<1>2. ASSUME NEW c \in Callers, CallJoin(c) PROVE Chain'
  BY <1>2, ChainStutter DEF CallJoin
<1>3. ASSUME NEW c \in Callers, JoinReturns(c) PROVE Chain'
  BY <1>3, ChainStutter DEF JoinReturns
<1>4. ASSUME NEW c \in Callers, Publish(c) PROVE Chain'
  BY <1>4, ChainStutter DEF Publish, ClientOf
<1>5. ASSUME NEW c \in Callers, PublishReturns(c) PROVE Chain'
  BY <1>5, ChainStutter DEF PublishReturns
<1>6. ASSUME NEW c \in Callers, NEW l \in Loops, NEW a \in Attempts, PublishExpired(c, l, a)
      PROVE  Chain'
  <2>1. CASE StartLoop(l, a, c, DefaultRequest)
    BY <1>6, <2>1, Basics, StartKeeps DEF PublishExpired, Chain, IInv
  <2>2. CASE UNCHANGED <<sessionId, instanceId, client, promise, loop, att>>
    BY <1>6, <2>2, ChainStutter DEF PublishExpired
  <2> QED
    BY <1>6, <2>1, <2>2 DEF PublishExpired
<1>7. ASSUME NEW l \in Loops, LoopReturns(l) PROVE Chain'
  <2>1. /\ loop[l].pc = "done" /\ loop' = [loop EXCEPT ![l] = IdleLoop]
        /\ promise' = IF loop[l].owner # None THEN None ELSE promise
        /\ UNCHANGED <<sessionId, instanceId, client, att, sandbox, leaked>>
    BY <1>7 DEF LoopReturns
  <2>2. /\ loop'[l].pc = "idle" /\ loop'[l].owner = None
        /\ \A m \in Loops \ {l} : loop'[m] = loop[m]
    BY <2>1 DEF IInv, TypeOK, IdleLoop
  <2>3. OwnerHoldsPromise'
    BY <2>1, <2>2, NamesAssumption DEF IInv, OwnerHoldsPromise
  <2>4. OneAwaitedAttempt'
    BY <2>1, <2>2 DEF IInv, OneAwaitedAttempt, Awaited
  <2> QED
    BY <2>1, <2>2, <2>3, <2>4
    DEF IInv, Chain, ClientMatchesSession, FreeSlots, OneChain, InstanceInSession, Awaited
<1>8. ASSUME NEW l \in Loops, OwnerTimeout(l) PROVE Chain'
  <2>1. /\ loop' = [loop EXCEPT ![l].owner = None] /\ loop[l].owner # None
        /\ promise' = None /\ leaked' = TRUE
        /\ UNCHANGED <<sessionId, instanceId, client, att, sandbox>>
    BY <1>8 DEF OwnerTimeout
  <2>2. /\ loop'[l].owner = None /\ \A m \in Loops : loop'[m].pc = loop[m].pc
        /\ \A m \in Loops \ {l} : loop'[m] = loop[m]
    BY <2>1 DEF IInv, TypeOK, LoopType
  <2>3. OwnerHoldsPromise'
    BY <2>1, <2>2, NamesAssumption DEF IInv, OwnerHoldsPromise
  <2>4. OneAwaitedAttempt'
    <3>1. \A b \in Attempts : Awaited(b) => att[b].loop \in Loops
      BY Basics DEF IInv, AttType, Awaited
    <3> QED
      BY <2>1, <2>2, <3>1 DEF IInv, OneAwaitedAttempt, Awaited
  <2> QED
    BY <2>1, <2>3, <2>4
    DEF IInv, Chain, ClientMatchesSession, FreeSlots, OneChain, InstanceInSession, Awaited
<1>9. ASSUME NEW l \in Loops, SetupReturns(l) PROVE Chain'
  <2>1. /\ loop' = [loop EXCEPT ![l].pc = "done"] /\ loop[l].pc = "setup"
        /\ UNCHANGED <<sessionId, instanceId, client, promise, att, sandbox, leaked>>
    BY <1>9 DEF SetupReturns
  <2>2. /\ loop'[l].pc = "done" /\ \A m \in Loops : loop'[m].owner = loop[m].owner
        /\ \A m \in Loops \ {l} : loop'[m] = loop[m]
    BY <2>1 DEF IInv, TypeOK, LoopType
  <2>3. OneAwaitedAttempt'
    <3>1. \A b \in Attempts : Awaited(b) => att[b].loop \in Loops
      BY Basics DEF IInv, AttType, Awaited
    <3> QED
      BY <2>1, <2>2, <3>1 DEF IInv, OneAwaitedAttempt, Awaited
  <2> QED
    BY <2>1, <2>2, <2>3
    DEF IInv, Chain, OwnerHoldsPromise, ClientMatchesSession, FreeSlots, OneChain,
        InstanceInSession, Awaited
<1>10. ASSUME NEW l \in Loops, NEW e \in BOOLEAN, SetupFails(l, e) PROVE Chain'
  <2>1. /\ Catch(l, e) /\ loop[l].pc = "setup" /\ UNCHANGED <<att, promise, sandbox, leaked>>
    BY <1>10 DEF SetupFails
  <2>2. \A b \in Attempts : att[b].loop # l
    BY <2>1, NamesAssumption DEF IInv, OneAwaitedAttempt, Awaited
  <2>3. \A b \in Attempts : att'[b].pc = "free" => att'[b].loop = None
    BY <2>1 DEF IInv, FreeSlots, Awaited
  <2> QED
    BY <2>1, <2>2, <2>3, CatchKeeps DEF Chain
<1>11. ASSUME NEW l \in Loops, NEW a \in Attempts, Retry(l, a) PROVE Chain'
  <2>1. /\ loop[l].pc = "backoff" /\ BeginAttempt(a, l, loop[l].req)
        /\ loop' = [loop EXCEPT ![l].pc = "deploying", ![l].n = @ + 1]
        /\ UNCHANGED <<promise, sandbox, leaked>>
    BY <1>11 DEF Retry
  <2>2. /\ loop'[l].pc = "deploying" /\ \A m \in Loops : loop'[m].owner = loop[m].owner
        /\ \A m \in Loops \ {l} : loop'[m] = loop[m]
    BY <2>1 DEF IInv, TypeOK, LoopType
  <2>3. loop[l].req \in RequestType(Files)
    BY Basics DEF IInv, LoopType
  <2>4. /\ att[a].pc = "free" /\ client' = sessionId'
        /\ (instanceId' = instanceId /\ sessionId' = sessionId) \/ instanceId' = NoInstance
        /\ att'[a].loop = l /\ att'[a].pc \in {"status", "token", "create"}
        /\ att'[a].pc = "create" => att'[a].client = sessionId'
        /\ \A b \in Attempts \ {a} : att'[b] = att[b]
    BY <2>1, <2>3, BeginEffect DEF IInv
  <2>5. OneAwaitedAttempt'
    BY <2>1, <2>2, <2>4, BeginAwaited
  <2>6. ASSUME ~leaked PROVE \A b \in Attempts : att[b].pc = "free"
    <3>1. promise = l
      BY <2>1, <2>6 DEF IInv, OneChain, OwnerHoldsPromise
    <3> QED
      BY <2>1, <2>6, <3>1, ChainOfAttempt
  <2>7. ASSUME ~leaked PROVE /\ \A m \in Loops : loop'[m].pc # "idle" => loop'[m].owner # None
                             /\ \A b \in Attempts : att'[b].pc # "free" => b = a
    <3>1. loop[l].owner # None
      BY <2>1, <2>7 DEF IInv, OneChain
    <3> QED
      BY <2>2, <2>4, <2>6, <2>7, <3>1 DEF IInv, OneChain
  <2>8. OneChain'
    BY <2>1, <2>4, <2>7, NamesAssumption DEF OneChain, Awaited
  <2>9. OwnerHoldsPromise' /\ ClientMatchesSession'
    BY <2>1, <2>2, <2>4 DEF IInv, OwnerHoldsPromise, ClientMatchesSession
  <2>10. FreeSlots' /\ InstanceInSession'
    BY <2>1, <2>4 DEF IInv, FreeSlots, InstanceInSession, Awaited
  <2> QED
    BY <2>5, <2>8, <2>9, <2>10 DEF Chain
<1>12. ASSUME NEW l \in Loops, NEW a \in Attempts, AttemptTimeout(l, a) PROVE Chain'
  <2>1. /\ att[a].loop = l /\ att' = [att EXCEPT ![a].loop = None] /\ Catch(l, FALSE)
        /\ leaked' = TRUE /\ UNCHANGED <<promise, sandbox>>
    BY <1>12 DEF AttemptTimeout
  <2>2. att'[a].loop = None /\ att'[a].pc = att[a].pc /\ \A b \in Attempts \ {a} : att'[b] = att[b]
    BY <2>1 DEF IInv, TypeOK, AttType
  <2>3. /\ loop[l].pc = "deploying"
        /\ \A b \in Attempts \ {a} : att[b].loop # l
    BY <2>1, NamesAssumption DEF IInv, OneAwaitedAttempt, Awaited
  <2>4. \A b \in Attempts : att'[b].loop # l
    BY <2>2, <2>3, NamesAssumption
  <2>5. \A b \in Attempts : att'[b].pc = "free" => att'[b].loop = None
    BY <2>2 DEF IInv, FreeSlots, Awaited
  <2>6. \A b \in Attempts : att'[b] = att[b] \/ att'[b].loop = None
    BY <2>2
  <2>7. \A b \in Attempts : att[b].loop \notin {l, None} => att'[b] = att[b]
    BY <2>1, <2>2
  <2> QED
    BY <2>1, <2>3, <2>4, <2>5, <2>6, <2>7, CatchKeeps DEF Chain
<1>13. ASSUME NEW a \in Attempts, NEW f \in BOOLEAN, StatusReturns(a, f) PROVE Chain'
  <2> DEFINE c == ClientOf(sessionId, client)
             r == IF Healthy(att[a].client, att[a].inst) /\ ~f
                  THEN AfterEnsure(a, att[a].inst, FALSE) ELSE CreateCall(att[a], c)
  <2>1. /\ att' = [att EXCEPT ![a] = r] /\ client' = ClientAfter(att'[a]) /\ att[a].pc = "status"
        /\ UNCHANGED <<sessionId, instanceId, promise, loop, sandbox, leaked>>
    BY <1>13 DEF StatusReturns
  <2>2. att[a] \in AttType /\ att[a].inst \in Nat \ {0}
    BY <2>1, Basics DEF IInv, NamesInstance, NoInstance
  <2>3. c = sessionId /\ c \in Nat /\ client' \in {client, sessionId}
    BY <2>1 DEF ClientOf, ClientAfter, IInv, TypeOK, ClientMatchesSession
  <2>4. r.loop = att[a].loop /\ r.pc # "free" /\ (r.pc = "create" => r.client = c)
    <3> HIDE DEF c
    <3>1. CASE Healthy(att[a].client, att[a].inst) /\ ~f
      <4>1. r = AfterEnsure(a, att[a].inst, FALSE)
        BY <3>1
      <4> HIDE DEF r
      <4> QED
        BY <2>2, <4>1, AfterEnsureTyped DEF IInv
    <3>2. CASE ~(Healthy(att[a].client, att[a].inst) /\ ~f)
      <4>1. r = CreateCall(att[a], c)
        BY <3>2
      <4> HIDE DEF r
      <4> QED
        BY <2>2, <2>3, <4>1, CreateCallTyped DEF IInv
    <3> QED
      BY <3>1, <3>2
  <2> HIDE DEF c, r
  <2>5. att'[a] = r /\ \A b \in Attempts \ {a} : att'[b] = att[b]
    BY <2>1 DEF IInv, TypeOK
  <2>6. InstanceInSession'
    BY <2>1 DEF IInv, InstanceInSession
  <2> QED
    BY <2>1, <2>3, <2>4, <2>5, <2>6, ChainAttempt
<1>14. ASSUME NEW a \in Attempts, TokenReturns(a) PROVE Chain'
  <2> DEFINE c == ClientOf(sessionId, client)
             r == [att[a] EXCEPT !.pc = "create", !.files = generated, !.client = c]
  <2>1. /\ att' = [att EXCEPT ![a] = r] /\ client' = c /\ att[a].pc = "token"
        /\ UNCHANGED <<sessionId, instanceId, promise, loop, sandbox, leaked>>
    BY <1>14 DEF TokenReturns
  <2>2. att[a] \in AttType /\ c = sessionId
    BY Basics DEF IInv, ClientOf, ClientMatchesSession
  <2>3. r.loop = att[a].loop /\ r.pc = "create" /\ r.client = c
    <3> HIDE DEF c
    <3> QED
      BY <2>2 DEF AttType
  <2> HIDE DEF c, r
  <2>4. att'[a] = r /\ \A b \in Attempts \ {a} : att'[b] = att[b]
    BY <2>1 DEF IInv, TypeOK
  <2>5. InstanceInSession'
    BY <2>1 DEF IInv, InstanceInSession
  <2> QED
    BY <2>1, <2>2, <2>3, <2>4, <2>5, ChainAttempt
<1>15. ASSUME NEW a \in Attempts, CreateReturns(a) PROVE Chain'
  <2> DEFINE e == [session |-> att[a].client, up |-> TRUE, files |-> att[a].files]
             n == Len(sandbox) + 1
             r == AfterEnsure(a, n, TRUE)
  <2>1. /\ sandbox' = Append(sandbox, e) /\ instanceId' = n /\ att[a].pc = "create"
        /\ att' = [att EXCEPT ![a] = r] /\ client' = ClientAfter(att'[a])
        /\ UNCHANGED <<sessionId, promise, loop, leaked>>
    BY <1>15 DEF CreateReturns
  <2>2. e \in InstanceType /\ e.session = att[a].client
    BY Basics DEF IInv, AttType, InstanceType
  <2>3. sandbox \in Seq(InstanceType) /\ n \in Nat \ {0}
    BY Basics DEF IInv, TypeOK
  <2>4. r.loop = att[a].loop /\ r.pc \in {"write", "return"}
    BY <2>3, AfterEnsureTyped DEF IInv
  <2>5. client' \in {client, sessionId}
    BY <2>1 DEF ClientAfter, ClientOf, IInv, ClientMatchesSession
  <2> HIDE DEF e, r
  <2>6. sandbox'[n] = e
    BY <2>1, <2>2, <2>3, SandboxAppend
  <2>7. InstanceInSession'
    BY <2>1, <2>2, <2>6 DEF IInv, InstanceInSession, OneChain
  <2>8. att'[a] = r /\ \A b \in Attempts \ {a} : att'[b] = att[b]
    BY <2>1 DEF IInv, TypeOK
  <2> QED
    BY <2>1, <2>4, <2>5, <2>7, <2>8, ChainAttempt
<1>16. ASSUME NEW a \in Attempts, NEW lost \in SUBSET att[a].files, WriteReturns(a, lost)
       PROVE  Chain'
  <2> DEFINE i == att[a].inst
             e == [sandbox[i] EXCEPT !.files = @ \cup (att[a].files \ lost)]
  <2>1. /\ att' = [att EXCEPT ![a].pc = "return", ![a].client = NoClient, ![a].files = {}]
        /\ sandbox' = [sandbox EXCEPT ![i] = e] /\ att[a].pc = "write"
        /\ UNCHANGED <<sessionId, instanceId, client, promise, loop, leaked>>
    BY <1>16 DEF WriteReturns
  <2>2. i \in 1..Len(sandbox) /\ att[a] \in AttType
    BY <2>1, Basics DEF IInv, NamesInstance, NoInstance
  <2>3. sandbox \in Seq(InstanceType) /\ sandbox[i] \in InstanceType
    BY <2>2, ElementOfSeq DEF IInv, TypeOK
  <2>4. att[a].files \subseteq Files
    BY <2>2 DEF AttType
  <2>5. e \in InstanceType /\ e.session = sandbox[i].session
    BY <2>3, <2>4 DEF InstanceType
  <2>6. att'[a].pc = "return" /\ att'[a].loop = att[a].loop
        /\ \A b \in Attempts \ {a} : att'[b] = att[b]
    BY <2>1 DEF IInv, TypeOK, AttType
  <2> HIDE DEF i, e
  <2>7. \A j \in 1..Len(sandbox) : sandbox'[j].session = sandbox[j].session
    BY <2>1, <2>2, <2>3, <2>5, SandboxUpdate
  <2>8. InstanceInSession'
    BY <2>1, <2>7, SessionsKept
  <2> QED
    BY <2>1, <2>6, <2>8, ChainAttempt
<1>17. ASSUME NEW a \in Attempts, AttemptReturns(a) PROVE Chain'
  <2>1. /\ att' = [att EXCEPT ![a] = FreeAtt] /\ att[a].pc = "return"
        /\ UNCHANGED <<sessionId, instanceId, promise, sandbox, leaked>>
    BY <1>17 DEF AttemptReturns
  <2>2. /\ att'[a].pc = "free" /\ att'[a].loop = None
        /\ \A b \in Attempts \ {a} : att'[b] = att[b]
    BY <2>1 DEF IInv, TypeOK, FreeAtt
  <2>3. CASE Awaited(a)
    <3> DEFINE l == att[a].loop
               q == IF (att[a].redeployed \/ interval = NoInstance) /\ HasSetup THEN "setup" ELSE "done"
    <3>1. Deliver(l, att[a].inst, att[a].redeployed)
      BY <1>17, <2>3 DEF AttemptReturns
    <3>2. l \in Loops /\ loop[l].pc = "deploying"
      BY <2>3, Basics DEF Awaited, IInv, OneAwaitedAttempt, AttType
    <3>3. /\ loop' = [loop EXCEPT ![l].pc = q, ![l].inst = att[a].inst]
          /\ client' \in {client, sessionId} /\ q \in {"setup", "done"}
      BY <3>1 DEF Deliver, ClientOf
    <3>4. \A b \in Attempts \ {a} : att[b].loop # l
      BY <2>3 DEF IInv, OneAwaitedAttempt, Awaited
    <3> HIDE DEF l, q
    <3>5. /\ loop'[l].pc = q /\ \A m \in Loops : loop'[m].owner = loop[m].owner
          /\ \A m \in Loops \ {l} : loop'[m] = loop[m]
      BY <3>2, <3>3 DEF IInv, TypeOK, LoopType
    <3>6. OneAwaitedAttempt'
      <4>1. ASSUME NEW b \in Attempts, att'[b].loop # None PROVE loop'[att'[b].loop].pc = "deploying"
        <5>1. att[b].loop \in Loops /\ att[b].loop # l /\ att'[b] = att[b]
          BY <2>2, <3>4, <4>1, Basics DEF IInv, AttType
        <5> QED
          BY <3>5, <4>1, <5>1 DEF IInv, OneAwaitedAttempt, Awaited
      <4>2. ASSUME NEW b \in Attempts, NEW d \in Attempts, att'[b].loop # None,
                   att'[b].loop = att'[d].loop
            PROVE  b = d
        BY <2>2, <4>2 DEF IInv, OneAwaitedAttempt, Awaited
      <4>3. ASSUME NEW m \in Loops, loop'[m].pc = "deploying"
            PROVE  \E b \in Attempts : att'[b].loop = m
        <5>1. m # l /\ loop[m].pc = "deploying"
          BY <3>3, <3>5, <4>3
        <5>2. PICK b \in Attempts : att[b].loop = m
          BY <5>1 DEF IInv, OneAwaitedAttempt
        <5> QED
          BY <2>2, <5>1, <5>2 DEF l
      <4> QED
        BY <4>1, <4>2, <4>3 DEF OneAwaitedAttempt, Awaited
    <3>7. OneChain'
      BY <2>1, <2>2, <3>2, <3>5 DEF IInv, OneChain, Awaited
    <3> QED
      BY <2>1, <2>2, <3>3, <3>5, <3>6, <3>7
      DEF IInv, Chain, OwnerHoldsPromise, ClientMatchesSession, FreeSlots, InstanceInSession, Awaited
  <2>4. CASE ~Awaited(a)
    <3>1. UNCHANGED <<client, loop>> /\ att[a].loop = None
      BY <1>17, <2>4 DEF AttemptReturns, Awaited
    <3>2. \A b \in Attempts : att'[b].loop = att[b].loop
      BY <2>2, <3>1
    <3>3. OneAwaitedAttempt'
      BY <3>1, <3>2 DEF IInv, OneAwaitedAttempt, Awaited
    <3>4. FreeSlots' /\ OneChain'
      BY <2>1, <2>2, <3>1, <3>2 DEF IInv, FreeSlots, OneChain, Awaited
    <3> QED
      BY <2>1, <3>1, <3>3, <3>4
      DEF IInv, Chain, OwnerHoldsPromise, ClientMatchesSession, InstanceInSession
  <2> QED
    BY <2>3, <2>4
<1>18. ASSUME NEW a \in Attempts, NEW e \in BOOLEAN, AttemptFails(a, e) PROVE Chain'
  <2>1. /\ att' = [att EXCEPT ![a] = FreeAtt] /\ att[a].pc # "free"
        /\ UNCHANGED <<promise, sandbox, leaked>>
    BY <1>18 DEF AttemptFails
  <2>2. /\ att'[a].pc = "free" /\ att'[a].loop = None
        /\ \A b \in Attempts \ {a} : att'[b] = att[b]
    BY <2>1 DEF IInv, TypeOK, FreeAtt
  <2>3. CASE Awaited(a)
    <3> DEFINE l == att[a].loop
    <3>1. Catch(l, e)
      BY <1>18, <2>3 DEF AttemptFails
    <3>2. l \in Loops /\ l # None /\ loop[l].pc = "deploying"
      BY <2>3, Basics DEF Awaited, IInv, OneAwaitedAttempt, AttType
    <3>3. \A b \in Attempts \ {a} : att[b].loop # l
      BY <2>3 DEF IInv, OneAwaitedAttempt, Awaited
    <3>4. \A b \in Attempts : att'[b].loop # l
      BY <2>2, <3>2, <3>3
    <3>5. \A b \in Attempts : att'[b].pc = "free" => att'[b].loop = None
      BY <2>2 DEF IInv, FreeSlots, Awaited
    <3>6. \A b \in Attempts : /\ att'[b] = att[b] \/ att'[b].pc = "free"
                              /\ att'[b] = att[b] \/ att'[b].loop = None
      BY <2>2
    <3>7. \A b \in Attempts : att[b].loop \notin {l, None} => att'[b] = att[b]
      BY <2>2
    <3> HIDE DEF l
    <3> QED
      BY <2>1, <3>1, <3>2, <3>4, <3>5, <3>6, <3>7, CatchKeeps DEF Chain
  <2>4. CASE ~Awaited(a)
    <3>1. UNCHANGED <<sessionId, instanceId, client, loop>> /\ att[a].loop = None
      BY <1>18, <2>4 DEF AttemptFails, Awaited
    <3>2. \A b \in Attempts : att'[b].loop = att[b].loop
      BY <2>2, <3>1
    <3>3. OneAwaitedAttempt'
      BY <3>1, <3>2 DEF IInv, OneAwaitedAttempt, Awaited
    <3>4. FreeSlots' /\ OneChain'
      BY <2>1, <2>2, <3>1, <3>2 DEF IInv, FreeSlots, OneChain, Awaited
    <3> QED
      BY <2>1, <3>1, <3>3, <3>4
      DEF IInv, Chain, OwnerHoldsPromise, ClientMatchesSession, InstanceInSession
  <2> QED
    BY <2>3, <2>4
<1>19. ASSUME HealthTick PROVE Chain'
  BY <1>19, ChainStutter DEF HealthTick, ClientOf
<1>20. ASSUME NEW k \in checks, CheckPasses(k) PROVE Chain'
  BY <1>20, ChainStutter DEF CheckPasses
<1>21. ASSUME NEW k \in checks, NEW l \in Loops, NEW a \in Attempts, NEW f \in BOOLEAN,
              CheckFails(k, l, a, f)
       PROVE  Chain'
  <2>1. CASE StartLoop(l, a, Monitor, DefaultRequest)
    BY <1>21, <2>1, Basics, StartKeeps DEF CheckFails, Chain, IInv
  <2>2. CASE UNCHANGED <<sessionId, instanceId, client, promise, loop, att>>
    BY <1>21, <2>2, ChainStutter DEF CheckFails
  <2> QED
    BY <1>21, <2>1, <2>2 DEF CheckFails
<1>22. ASSUME NEW f \in Files, SaveFile(f) PROVE Chain'
  BY <1>22, ChainStutter DEF SaveFile
<1>23. ASSUME NEW i \in DOMAIN sandbox, InstanceDies(i) PROVE Chain'
  <2> DEFINE e == [sandbox[i] EXCEPT !.up = FALSE]
  <2>1. sandbox \in Seq(InstanceType) /\ i \in 1..Len(sandbox)
    BY LenProperties DEF IInv, TypeOK
  <2>2. sandbox[i] \in InstanceType
    BY <2>1, ElementOfSeq
  <2>3. e \in InstanceType /\ e.session = sandbox[i].session
    BY <2>2 DEF InstanceType
  <2>4. /\ sandbox' = [sandbox EXCEPT ![i] = e]
        /\ UNCHANGED <<sessionId, instanceId, client, promise, loop, att, leaked>>
    BY <1>23 DEF InstanceDies
  <2> HIDE DEF e
  <2>5. \A j \in 1..Len(sandbox) : sandbox'[j].session = sandbox[j].session
    BY <2>1, <2>3, <2>4, SandboxUpdate
  <2>6. InstanceInSession'
    BY <2>4, <2>5, SessionsKept
  <2> QED
    BY <2>4, <2>6 DEF IInv, Chain, OwnerHoldsPromise, ClientMatchesSession, OneAwaitedAttempt,
                      FreeSlots, OneChain, Awaited
<1>24. ASSUME Restart PROVE Chain'
  <2>1. /\ \A l \in Loops : loop'[l].pc = "idle" /\ loop'[l].owner = None
        /\ \A a \in Attempts : att'[a].pc = "free" /\ att'[a].loop = None
        /\ promise' = None /\ client' = NoClient
        /\ UNCHANGED <<sessionId, instanceId, sandbox, leaked>>
    BY <1>24 DEF Restart, IdleLoop, FreeAtt
  <2> QED
    BY <2>1, NamesAssumption
    DEF IInv, Chain, OwnerHoldsPromise, ClientMatchesSession, OneAwaitedAttempt, FreeSlots,
        OneChain, InstanceInSession, Awaited
<1> QED
  BY <1>0, <1>1, <1>2, <1>3, <1>4, <1>5, <1>6, <1>7, <1>8, <1>9, <1>10, <1>11, <1>12, <1>13,
     <1>14, <1>15, <1>16, <1>17, <1>18, <1>19, <1>20, <1>21, <1>22, <1>23, <1>24
  DEF Next, LoopStep, AttemptStep

-----------------------------------------------------------------------------
(* Every reachable state satisfies the inductive invariant.                *)
THEOREM Invariance == Spec => []IInv
BY IInvInit, IInvNext, PTL DEF Spec

(* A promise is cleared only by the caller that started its deployment,    *)
(* and as long as it is stored that caller is still waiting.               *)
THEOREM SingleFlight == Spec => []OwnerHoldsPromise
BY Invariance, PTL DEF IInv

(* getClient never returns a client of a session that has been reset.      *)
THEOREM ClientIsCurrent == Spec => []ClientMatchesSession
BY Invariance, PTL DEF IInv

(* A loop waits for exactly one deploy() while it is deploying, and for    *)
(* none otherwise, whatever timed out before.                              *)
THEOREM AwaitsOneAttempt == Spec => []OneAwaitedAttempt
BY Invariance, PTL DEF IInv

(* Unless an attempt or a loop has outlived its timer, the agent's stored  *)
(* instance was created in the session its client is bound to.             *)
THEOREM InstanceIsCurrent == Spec => []InstanceInSession
BY Invariance, PTL DEF IInv

-----------------------------------------------------------------------------
(* What a deployment delivers.  The files of a request were recorded when  *)
(* it was made, the attempt a loop awaits works for the loop's request,    *)
(* and what an attempt writes contains the files of its request.           *)
Has(i, fs) == i \in 1..Len(sandbox) /\ fs \subseteq sandbox[i].files \cup dropped

GoodAtt(r) ==
  /\ r.req.files \subseteq generated
  /\ r.loop # None => r.req = loop[r.loop].req
  /\ r.pc = "write" => r.req.files \subseteq r.files
  /\ r.pc = "return" => Has(r.inst, r.req.files)

GoodLoop(k) ==
  /\ k.req.files \subseteq generated
  /\ k.pc \in {"setup", "done"} => Has(k.inst, k.req.files)

Delivering == (\A a \in Attempts : GoodAtt(att[a])) /\ (\A l \in Loops : GoodLoop(loop[l]))

(* Instances keep their files, and what was recorded stays recorded.       *)
Grows ==
  /\ \A i \in 1..Len(sandbox) :
       i \in 1..Len(sandbox') /\ sandbox[i].files \subseteq sandbox'[i].files
  /\ dropped \subseteq dropped' /\ generated \subseteq generated'

(* It is enough to look at the slots that change.                          *)
LEMMA OthersDeliver ==
  ASSUME Delivering, Grows,
         \A b \in Attempts :
           \/ /\ att'[b] = att[b]
              /\ att[b].loop # None => loop'[att[b].loop].req = loop[att[b].loop].req
           \/ GoodAtt(att[b])',
         \A m \in Loops : loop'[m] = loop[m] \/ GoodLoop(loop[m])'
  PROVE  Delivering'
<1>1. ASSUME NEW b \in Attempts PROVE GoodAtt(att[b])'
  <2>1. CASE /\ att'[b] = att[b]
             /\ att[b].loop # None => loop'[att[b].loop].req = loop[att[b].loop].req
    <3>1. GoodAtt(att[b])
      BY DEF Delivering
    <3>2. att[b].pc = "return" => Has(att[b].inst, att[b].req.files)'
      <4>1. ASSUME att[b].pc = "return"
            PROVE  /\ att[b].inst \in 1..Len(sandbox')
                   /\ att[b].req.files \subseteq sandbox'[att[b].inst].files \cup dropped'
        BY <3>1, <4>1 DEF GoodAtt, Has, Grows
      <4> QED
        BY <2>1, <4>1 DEF Has
    <3> QED
      BY <2>1, <3>1, <3>2 DEF GoodAtt, Grows
  <2> QED
    BY <2>1
<1>2. ASSUME NEW m \in Loops PROVE GoodLoop(loop[m])'
  <2>1. CASE loop'[m] = loop[m]
    <3>1. GoodLoop(loop[m])
      BY DEF Delivering
    <3> QED
      BY <2>1, <3>1 DEF GoodLoop, Has, Grows
  <2> QED
    BY <2>1
<1> QED
  BY <1>1, <1>2 DEF Delivering

(* A new attempt works for the request it was begun with.                  *)
LEMMA BeginRequest ==
  ASSUME TypeOK, NEW a \in Attempts, NEW l \in Loops, NEW req \in RequestType(Files),
         BeginAttempt(a, l, req)
  PROVE  /\ att'[a].req = req /\ att'[a].loop = l /\ att'[a].pc \in {"status", "token", "create"}
         /\ \A b \in Attempts \ {a} : att'[b] = att[b]
<1> DEFINE s == IF req.redeploy THEN sessionId + 1 ELSE sessionId
           i == IF req.redeploy THEN NoInstance ELSE instanceId
           c == ClientOf(s, IF req.redeploy THEN NoClient ELSE client)
           new == [pc |-> "status", loop |-> l, client |-> c, inst |-> i,
                   redeployed |-> FALSE, req |-> req, files |-> {}]
           r == IF i # NoInstance THEN new ELSE CreateCall(new, c)
<1>1. att' = [att EXCEPT ![a] = r]
  BY DEF BeginAttempt
<1>2. new.req = req /\ new.loop = l /\ new.pc = "status"
  OBVIOUS
<1>3. /\ CreateCall(new, c).req = req /\ CreateCall(new, c).loop = l
      /\ CreateCall(new, c).pc \in {"token", "create"}
  <2> HIDE DEF s, i, c
  <2> QED
    BY DEF CreateCall
<1>4. r.req = req /\ r.loop = l /\ r.pc \in {"status", "token", "create"}
  <2> HIDE DEF s, i, c, new
  <2> QED
    BY <1>2, <1>3
<1> HIDE DEF s, i, c, new, r
<1>5. att \in [Attempts -> AttType]
  BY DEF TypeOK
<1> QED
  BY <1>1, <1>4, <1>5

(* An attempt that has its instance writes all that was asked for.         *)
LEMMA AfterEnsureDelivers ==
  ASSUME TypeOK, NEW a \in Attempts, NEW i \in Nat \ {0}, NEW d \in BOOLEAN,
         att[a].req.files \subseteq generated
  PROVE  /\ AfterEnsure(a, i, d).req = att[a].req /\ AfterEnsure(a, i, d).loop = att[a].loop
         /\ AfterEnsure(a, i, d).inst = i /\ AfterEnsure(a, i, d).pc \in {"write", "return"}
         /\ AfterEnsure(a, i, d).pc = "write" => att[a].req.files \subseteq AfterEnsure(a, i, d).files
         /\ AfterEnsure(a, i, d).pc = "return" => att[a].req.files = {}
<1> DEFINE fs == FilesToDeploy(att[a].req, d)
           c == IF fs # {} THEN ClientOf(sessionId, client) ELSE NoClient
           q == IF fs # {} THEN "write" ELSE "return"
<1>1. att[a] \in AttType
  BY DEF TypeOK
<1>2. att[a].req.files \subseteq fs
  BY DEF FilesToDeploy
<1>3. AfterEnsure(a, i, d) = [att[a] EXCEPT !.pc = q, !.inst = i, !.redeployed = d,
                                          !.files = fs, !.client = c]
  BY DEF AfterEnsure
<1>4. q \in {"write", "return"} /\ (q = "return" => att[a].req.files = {})
  BY <1>2
<1> HIDE DEF fs, c, q
<1> QED
  BY <1>1, <1>2, <1>3, <1>4 DEF AttType

(* Instances and files that do not change grow.                            *)
LEMMA SameGrows ==
  ASSUME UNCHANGED <<sandbox, dropped>>, generated \subseteq generated'
  PROVE  Grows
BY DEF Grows

(* A loop is started: no attempt works for it yet.                         *)
LEMMA StartDelivers ==
  ASSUME IInv, Delivering, NEW l \in Loops, NEW a \in Attempts, NEW o \in Callers \cup {Monitor},
         NEW req \in RequestType(Files), StartLoop(l, a, o, req), req.files \subseteq generated,
         UNCHANGED <<generated, sandbox, dropped>>
  PROVE  Delivering'
<1>1. /\ loop[l].pc = "idle" /\ BeginAttempt(a, l, req)
      /\ loop' = [loop EXCEPT ![l] = [pc |-> "deploying", n |-> 1, req |-> req,
                                      owner |-> o, inst |-> NoInstance]]
  BY DEF StartLoop
<1>2. /\ loop'[l].pc = "deploying" /\ loop'[l].req = req
      /\ \A m \in Loops : m # l => loop'[m] = loop[m]
  BY <1>1 DEF IInv, TypeOK
<1>3. /\ att'[a].req = req /\ att'[a].loop = l /\ att'[a].pc \in {"status", "token", "create"}
      /\ \A b \in Attempts \ {a} : att'[b] = att[b]
  BY <1>1, BeginRequest DEF IInv
<1>4. \A b \in Attempts : att[b].loop # None => att[b].loop \in Loops /\ att[b].loop # l
  <2> TAKE b \in Attempts
  <2>1. att[b].loop \in Loops \cup {None}
    BY Basics DEF IInv, AttType
  <2> QED
    BY <1>1, <2>1 DEF IInv, OneAwaitedAttempt, Awaited
<1>5. GoodAtt(att[a])'
  BY <1>2, <1>3 DEF GoodAtt
<1>6. GoodLoop(loop[l])'
  BY <1>2 DEF GoodLoop
<1> QED
  BY <1>2, <1>3, <1>4, <1>5, <1>6, OthersDeliver, SameGrows

(* A loop backs off, and at most lets go of attempts.                      *)
LEMMA CatchDelivers ==
  ASSUME IInv, Delivering, NEW l \in Loops, NEW e \in BOOLEAN, Catch(l, e),
         \A b \in Attempts : \/ att'[b] = att[b] \/ att'[b] = FreeAtt
                             \/ att'[b] = [att[b] EXCEPT !.loop = None],
         UNCHANGED <<generated, sandbox, dropped>>
  PROVE  Delivering'
<1>1. loop' = [loop EXCEPT ![l].pc = "backoff"]
  BY DEF Catch
<1>2. /\ \A m \in Loops : loop'[m].req = loop[m].req /\ (m # l => loop'[m] = loop[m])
      /\ loop'[l].pc = "backoff"
  BY <1>1 DEF IInv, TypeOK, LoopType
<1>3. GoodLoop(loop[l])'
  BY <1>2 DEF GoodLoop, Delivering
<1>4. ASSUME NEW b \in Attempts, att'[b] = FreeAtt PROVE GoodAtt(att[b])'
  BY <1>4 DEF GoodAtt, FreeAtt, DefaultRequest
<1>5. ASSUME NEW b \in Attempts, att'[b] = [att[b] EXCEPT !.loop = None] PROVE GoodAtt(att[b])'
  <2>1. /\ att'[b].req = att[b].req /\ att'[b].pc = att[b].pc /\ att'[b].inst = att[b].inst
        /\ att'[b].files = att[b].files /\ att'[b].loop = None
    BY <1>5, Basics DEF IInv, AttType
  <2> QED
    BY <2>1 DEF Delivering, GoodAtt, Has
<1>6. \A b \in Attempts : att[b].loop # None => att[b].loop \in Loops
  BY Basics DEF IInv, AttType
<1> QED
  BY <1>2, <1>3, <1>4, <1>5, <1>6, OthersDeliver, SameGrows

(* A loop moves on with its request and its instance, and no attempt does. *)
LEMMA LoopDelivers ==
  ASSUME IInv, Delivering, NEW l \in Loops, UNCHANGED <<att, generated, sandbox, dropped>>,
         \A m \in Loops \ {l} : loop'[m] = loop[m],
         GoodLoop(loop[l])', loop'[l].req = loop[l].req \/ loop[l].pc # "deploying"
  PROVE  Delivering'
<1>1. ASSUME NEW b \in Attempts, att[b].loop # None PROVE loop'[att[b].loop].req = loop[att[b].loop].req
  <2>1. att[b].loop \in Loops /\ loop[att[b].loop].pc = "deploying"
    BY <1>1, Basics DEF IInv, AttType, OneAwaitedAttempt, Awaited
  <2> QED
    BY <2>1
<1> QED
  BY <1>1, OthersDeliver, SameGrows

(* One attempt moves on, the loops stand still.                            *)
LEMMA AttemptDelivers ==
  ASSUME Delivering, Grows, NEW a \in Attempts, loop' = loop,
         \A b \in Attempts \ {a} : att'[b] = att[b],
         GoodAtt(att[a])'
  PROVE  Delivering'
BY OthersDeliver

(* The answers an attempt gets.                                            *)
LEMMA AnswersDeliver ==
  ASSUME IInv, Delivering, NEW a \in Attempts,
         \/ \E fault \in BOOLEAN : StatusReturns(a, fault)
         \/ TokenReturns(a) \/ CreateReturns(a)
         \/ \E lost \in SUBSET att[a].files : WriteReturns(a, lost)
  PROVE  Delivering'
<1> USE DEF durable, memory, history
<1>0. /\ TypeOK /\ att[a] \in AttType /\ GoodAtt(att[a]) /\ att \in [Attempts -> AttType]
      /\ loop' = loop /\ generated' = generated /\ client \in Nat /\ sessionId \in Nat
      /\ Len(sandbox) \in Nat /\ att[a].inst \in 0..Len(sandbox)
  BY Basics DEF IInv, TypeOK, Delivering, StatusReturns, TokenReturns, CreateReturns, WriteReturns
<1>1. ASSUME Grows, \A b \in Attempts \ {a} : att'[b] = att[b],
             att'[a].req = att[a].req, att'[a].loop = att[a].loop,
             att'[a].pc = "write" => att[a].req.files \subseteq att'[a].files,
             att'[a].pc = "return" => Has(att[a].inst, att[a].req.files)'
      PROVE  Delivering'
  <2>1. GoodAtt(att[a])'
    BY <1>0, <1>1 DEF GoodAtt, Has
  <2> QED
    BY <1>0, <1>1, <2>1, AttemptDelivers
<1>2. ASSUME NEW i \in Nat \ {0}, NEW d \in BOOLEAN, i \in 1..Len(sandbox'), Grows,
             att' = [att EXCEPT ![a] = AfterEnsure(a, i, d)]
      PROVE  Delivering'
  <2> DEFINE r == AfterEnsure(a, i, d)
  <2>1. /\ r.req = att[a].req /\ r.loop = att[a].loop /\ r.inst = i
        /\ r.pc = "write" => att[a].req.files \subseteq r.files
        /\ r.pc = "return" => att[a].req.files = {}
    BY <1>0, AfterEnsureDelivers DEF GoodAtt
  <2>2. att' = [att EXCEPT ![a] = r]
    BY <1>2
  <2> HIDE DEF r
  <2>3. att'[a] = r /\ \A b \in Attempts \ {a} : att'[b] = att[b]
    BY <1>0, <2>2
  <2>4. att'[a].pc = "return" => Has(att[a].inst, att[a].req.files)'
    <3>1. att'[a].pc = "return" => att'[a].req.files = {} /\ att'[a].req = att[a].req
      BY <2>1, <2>3
    <3> QED
      BY <1>2, <2>1, <2>3, <3>1 DEF Has
  <2>5. /\ att'[a].req = att[a].req /\ att'[a].loop = att[a].loop
        /\ att'[a].pc = "write" => att[a].req.files \subseteq att'[a].files
    BY <2>1, <2>3
  <2>6. Grows
    BY <1>2
  <2>7. \A b \in Attempts \ {a} : att'[b] = att[b]
    BY <2>3
  <2> QED
    BY <1>1, <2>4, <2>5, <2>6, <2>7
<1>3. ASSUME NEW fault \in BOOLEAN, StatusReturns(a, fault) PROVE Delivering'
  <2>1. Grows
    BY <1>3, SameGrows DEF StatusReturns
  <2>2. att[a].inst \in 1..Len(sandbox) /\ sandbox' = sandbox
    BY <1>0, <1>3, Basics DEF StatusReturns, NamesInstance, NoInstance
  <2>3. CASE att' = [att EXCEPT ![a] = AfterEnsure(a, att[a].inst, FALSE)]
    <3>1. PICK i \in Nat \ {0} : i = att[a].inst /\ i \in 1..Len(sandbox')
      BY <1>0, <2>2
    <3>2. att' = [att EXCEPT ![a] = AfterEnsure(a, i, FALSE)]
      BY <2>3, <3>1
    <3> QED
      BY <1>2, <2>1, <3>1, <3>2
  <2>4. CASE att' = [att EXCEPT ![a] = CreateCall(att[a], ClientOf(sessionId, client))]
    <3> DEFINE c == ClientOf(sessionId, client)
               r == CreateCall(att[a], c)
    <3>1. r.req = att[a].req /\ r.loop = att[a].loop /\ r.pc \in {"token", "create"}
      <4> HIDE DEF c
      <4> QED
        BY <1>0 DEF CreateCall, AttType
    <3>2. att' = [att EXCEPT ![a] = r]
      BY <2>4
    <3> HIDE DEF r
    <3>3. att'[a] = r /\ \A b \in Attempts \ {a} : att'[b] = att[b]
      BY <1>0, <3>2
    <3> QED
      BY <1>1, <2>1, <3>1, <3>3
  <2> QED
    BY <1>3, <2>3, <2>4 DEF StatusReturns
<1>4. CASE TokenReturns(a)
  <2> DEFINE c == ClientOf(sessionId, client)
             r == [att[a] EXCEPT !.pc = "create", !.files = generated, !.client = c]
  <2>1. r.req = att[a].req /\ r.loop = att[a].loop /\ r.pc = "create"
    <3> HIDE DEF c
    <3> QED
      BY <1>0 DEF AttType
  <2>2. att' = [att EXCEPT ![a] = r] /\ Grows
    BY <1>4, SameGrows DEF TokenReturns
  <2> HIDE DEF r
  <2>3. att'[a] = r /\ \A b \in Attempts \ {a} : att'[b] = att[b]
    BY <1>0, <2>2
  <2> QED
    BY <1>1, <2>1, <2>2, <2>3
<1>5. CASE CreateReturns(a)
  <2> DEFINE e == [session |-> att[a].client, up |-> TRUE, files |-> att[a].files]
  <2>1. e \in InstanceType
    BY <1>0 DEF AttType, InstanceType
  <2>2. /\ sandbox' = Append(sandbox, e) /\ UNCHANGED <<dropped, generated>>
        /\ att' = [att EXCEPT ![a] = AfterEnsure(a, Len(sandbox) + 1, TRUE)]
    BY <1>5 DEF CreateReturns
  <2> HIDE DEF e
  <2>3. /\ Len(sandbox') = Len(sandbox) + 1
        /\ \A i \in 1..Len(sandbox) : sandbox'[i] = sandbox[i]
    BY <1>0, <2>1, <2>2, SandboxAppend DEF TypeOK
  <2>4. Grows
    BY <1>0, <2>2, <2>3 DEF Grows
  <2>5. PICK i \in Nat \ {0} : i = Len(sandbox) + 1 /\ i \in 1..Len(sandbox')
    BY <1>0, <2>3
  <2>6. att' = [att EXCEPT ![a] = AfterEnsure(a, i, TRUE)]
    BY <2>2, <2>5
  <2> QED
    BY <1>2, <2>4, <2>5, <2>6
<1>6. ASSUME NEW lost \in SUBSET att[a].files, WriteReturns(a, lost) PROVE Delivering'
  <2> DEFINE i == att[a].inst
             e == [sandbox[i] EXCEPT !.files = @ \cup (att[a].files \ lost)]
             r == [att[a] EXCEPT !.pc = "return", !.client = NoClient, !.files = {}]
  <2>1. i \in 1..Len(sandbox) /\ att[a].pc = "write"
    BY <1>0, <1>6, Basics DEF WriteReturns, NamesInstance, NoInstance
  <2>2. sandbox \in Seq(InstanceType) /\ sandbox[i] \in InstanceType
    BY <1>0, <2>1, ElementOfSeq DEF TypeOK
  <2>3. e \in InstanceType /\ e.files = sandbox[i].files \cup (att[a].files \ lost)
    BY <1>0, <2>2 DEF InstanceType, AttType
  <2>4. /\ sandbox' = [sandbox EXCEPT ![i] = e] /\ dropped' = dropped \cup lost
        /\ att' = [att EXCEPT ![a] = r]
    BY <1>6 DEF WriteReturns
  <2>5. r.req = att[a].req /\ r.loop = att[a].loop /\ r.inst = i /\ r.pc = "return"
    BY <1>0 DEF AttType, NoClient
  <2> HIDE DEF e, r
  <2>6. /\ Len(sandbox') = Len(sandbox)
        /\ \A j \in 1..Len(sandbox) : sandbox'[j] = IF j = i THEN e ELSE sandbox[j]
    BY <2>1, <2>2, <2>3, <2>4, SandboxUpdate
  <2>7. Grows
    BY <1>0, <2>3, <2>4, <2>6 DEF Grows
  <2>8. att'[a] = r /\ \A b \in Attempts \ {a} : att'[b] = att[b]
    BY <1>0, <2>4
  <2>9. Has(att[a].inst, att[a].req.files)'
    <3>1. att[a].req.files \subseteq sandbox'[i].files \cup dropped'
      BY <1>0, <2>1, <2>3, <2>4, <2>6 DEF GoodAtt
    <3>2. att'[a].inst = i /\ i \in 1..Len(sandbox') /\ att'[a].req = att[a].req
      BY <2>1, <2>5, <2>6, <2>8
    <3> HIDE DEF i
    <3> QED
      BY <3>1, <3>2 DEF Has
  <2> QED
    BY <1>1, <2>5, <2>7, <2>8, <2>9
<1> QED
  BY <1>3, <1>4, <1>5, <1>6

(* What deploy() delivers to its loop, what a failure and a timer take.    *)
LEMMA EndingsDeliver ==
  ASSUME IInv, Delivering, NEW a \in Attempts,
         \/ AttemptReturns(a) \/ \E e \in BOOLEAN : AttemptFails(a, e)
         \/ \E l \in Loops : AttemptTimeout(l, a)
  PROVE  Delivering'
<1> USE DEF durable, memory, history
<1>0. /\ att \in [Attempts -> AttType] /\ loop \in [Loops -> LoopType]
      /\ GoodAtt(att[a]) /\ UNCHANGED <<generated, sandbox, dropped>>
      /\ \A b \in Attempts : att[b].loop # None => att[b].loop \in Loops
      /\ Grows
  <2>1. UNCHANGED <<generated, sandbox, dropped>>
    BY DEF AttemptReturns, AttemptFails, AttemptTimeout
  <2> QED
    BY <2>1, Basics, SameGrows DEF IInv, TypeOK, Delivering, AttType
<1>1. ASSUME att' = [att EXCEPT ![a] = FreeAtt]
      PROVE  /\ att'[a] = FreeAtt /\ \A b \in Attempts \ {a} : att'[b] = att[b]
             /\ GoodAtt(att[a])'
  BY <1>0, <1>1 DEF GoodAtt, FreeAtt, DefaultRequest
<1>2. CASE AttemptReturns(a)
  <2>1. att[a].pc = "return" /\ att' = [att EXCEPT ![a] = FreeAtt]
    BY <1>2 DEF AttemptReturns
  <2>2. CASE ~Awaited(a)
    <3>1. loop' = loop
      BY <1>2, <2>2 DEF AttemptReturns
    <3> QED
      BY <1>0, <1>1, <2>1, <3>1, AttemptDelivers
  <2>3. CASE Awaited(a)
    <3>0. PICK l \in Loops : l = att[a].loop
      BY <1>0, <2>3 DEF Awaited
    <3>1. l \in Loops /\ Deliver(l, att[a].inst, att[a].redeployed)
      BY <1>2, <2>3, <3>0 DEF AttemptReturns
    <3>2. att[a].req = loop[l].req /\ Has(att[a].inst, att[a].req.files)
      BY <1>0, <2>1, <2>3, <3>0 DEF GoodAtt, Awaited
    <3>3. /\ \A m \in Loops : loop'[m].req = loop[m].req /\ (m # l => loop'[m] = loop[m])
          /\ loop'[l].inst = att[a].inst
      BY <1>0, <3>1 DEF Deliver, LoopType
    <3>4. /\ att[a].inst \in 1..Len(sandbox) /\ loop[l].req.files \subseteq generated
          /\ loop[l].req.files \subseteq sandbox[att[a].inst].files \cup dropped
      BY <3>1, <3>2 DEF GoodLoop, Delivering, Has
    <3>5. GoodLoop(loop[l])'
      BY <1>0, <3>1, <3>3, <3>4 DEF GoodLoop, Has
    <3>6. \A b \in Attempts : att[b].loop # None => loop'[att[b].loop].req = loop[att[b].loop].req
      BY <1>0, <3>3
    <3>7. \A m \in Loops : loop'[m] = loop[m] \/ GoodLoop(loop[m])'
      BY <3>3, <3>5
    <3> QED
      BY <1>0, <1>1, <2>1, <3>6, <3>7, OthersDeliver
  <2> QED
    BY <2>2, <2>3
<1>3. ASSUME NEW e \in BOOLEAN, AttemptFails(a, e) PROVE Delivering'
  <2>1. att' = [att EXCEPT ![a] = FreeAtt]
    BY <1>3 DEF AttemptFails
  <2>2. CASE ~Awaited(a)
    <3>1. loop' = loop
      BY <1>3, <2>2 DEF AttemptFails
    <3> QED
      BY <1>0, <1>1, <2>1, <3>1, AttemptDelivers
  <2>3. CASE Awaited(a)
    <3>1. att[a].loop \in Loops /\ Catch(att[a].loop, e)
      BY <1>0, <1>3, <2>3 DEF Awaited, AttemptFails
    <3>2. \A b \in Attempts : att'[b] = att[b] \/ att'[b] = FreeAtt
      BY <1>1, <2>1
    <3> QED
      BY <1>0, <3>1, <3>2, CatchDelivers
  <2> QED
    BY <2>2, <2>3
<1>4. ASSUME NEW l \in Loops, AttemptTimeout(l, a) PROVE Delivering'
  <2>1. att' = [att EXCEPT ![a] = [att[a] EXCEPT !.loop = None]] /\ Catch(l, FALSE)
    BY <1>4 DEF AttemptTimeout
  <2>2. \A b \in Attempts : att'[b] = att[b] \/ att'[b] = [att[b] EXCEPT !.loop = None]
    BY <1>0, <2>1
  <2> QED
    BY <1>0, <2>1, <2>2, CatchDelivers
<1> QED
  BY <1>2, <1>3, <1>4

(* No step breaks a promise of delivery.                                   *)
LEMMA NextDelivers ==
  ASSUME IInv, Delivering, [Next]_vars
  PROVE  Delivering'
<1> USE DEF durable, memory, history
<1>0. /\ TypeOK /\ loop \in [Loops -> LoopType]
      /\ \A l \in Loops : GoodLoop(loop[l])
      /\ DefaultRequest \in RequestType(Files) /\ DefaultRequest.files = {}
  BY DEF IInv, TypeOK, Delivering, DefaultRequest, RequestType
<1>1. CASE UNCHANGED <<att, loop, sandbox, dropped>> /\ generated \subseteq generated'
  BY <1>1, OthersDeliver, SameGrows
<1>2. ASSUME NEW c \in Callers, CallJoin(c) \/ JoinReturns(c) \/ Publish(c) \/ PublishReturns(c)
      PROVE  Delivering'
  BY <1>1, <1>2 DEF CallJoin, JoinReturns, Publish, PublishReturns
<1>3. CASE HealthTick \/ UNCHANGED vars \/ \E k \in checks : CheckPasses(k)
  BY <1>1, <1>3 DEF HealthTick, CheckPasses, vars
<1>4. ASSUME NEW f \in Files, SaveFile(f) PROVE Delivering'
  BY <1>1, <1>4 DEF SaveFile
<1>5. ASSUME NEW c \in Callers, NEW l \in Loops, NEW a \in Attempts, NEW req \in Requests,
             CallOwn(c, l, a, req)
      PROVE  Delivering'
  <2>1. req \in RequestType(Files)
    BY RequestAssumption
  <2> QED
    BY <1>5, <2>1, StartDelivers DEF CallOwn
<1>6. ASSUME NEW c \in Callers, NEW l \in Loops, NEW a \in Attempts, PublishExpired(c, l, a)
      PROVE  Delivering'
  <2>1. UNCHANGED <<generated, sandbox, dropped>>
    BY <1>6 DEF PublishExpired
  <2>2. StartLoop(l, a, c, DefaultRequest) \/ UNCHANGED <<loop, att>>
    BY <1>6 DEF PublishExpired
  <2> QED
    BY <1>0, <1>1, <2>1, <2>2, StartDelivers
<1>7. ASSUME NEW k \in checks, NEW l \in Loops, NEW a \in Attempts, NEW fault \in BOOLEAN,
             CheckFails(k, l, a, fault)
      PROVE  Delivering'
  <2>1. UNCHANGED <<generated, sandbox, dropped>>
    BY <1>7 DEF CheckFails
  <2>2. StartLoop(l, a, Monitor, DefaultRequest) \/ UNCHANGED <<loop, att>>
    BY <1>7 DEF CheckFails
  <2> QED
    BY <1>0, <1>1, <2>1, <2>2, StartDelivers
<1>8. ASSUME NEW l \in Loops, SetupReturns(l) \/ OwnerTimeout(l) PROVE Delivering'
  <2>1. /\ \A m \in Loops \ {l} : loop'[m] = loop[m]
        /\ loop'[l].req = loop[l].req /\ loop'[l].inst = loop[l].inst
        /\ loop'[l].pc \in {"setup", "done"} => loop[l].pc \in {"setup", "done"}
    BY <1>0, <1>8 DEF SetupReturns, OwnerTimeout, LoopType
  <2>2. UNCHANGED <<att, generated, sandbox, dropped>>
    BY <1>8 DEF SetupReturns, OwnerTimeout
  <2>3. GoodLoop(loop[l])'
    BY <1>0, <2>1, <2>2 DEF GoodLoop, Has
  <2> QED
    BY <2>1, <2>2, <2>3, LoopDelivers
<1>9. ASSUME NEW l \in Loops, LoopReturns(l) PROVE Delivering'
  <2>1. /\ \A m \in Loops \ {l} : loop'[m] = loop[m]
        /\ loop'[l] = IdleLoop /\ loop[l].pc = "done"
    BY <1>0, <1>9 DEF LoopReturns
  <2>2. UNCHANGED <<att, generated, sandbox, dropped>>
    BY <1>9 DEF LoopReturns
  <2>3. GoodLoop(loop[l])'
    BY <2>1 DEF GoodLoop, IdleLoop, DefaultRequest
  <2> QED
    BY <2>1, <2>2, <2>3, LoopDelivers
<1>10. ASSUME NEW l \in Loops, NEW e \in BOOLEAN, SetupFails(l, e) PROVE Delivering'
  BY <1>10, CatchDelivers DEF SetupFails
<1>11. ASSUME NEW l \in Loops, NEW a \in Attempts, Retry(l, a) PROVE Delivering'
  <2>1. /\ loop[l].req \in RequestType(Files) /\ BeginAttempt(a, l, loop[l].req)
        /\ UNCHANGED <<generated, sandbox, dropped>>
    BY <1>0, <1>11 DEF Retry, LoopType
  <2>2. /\ \A m \in Loops : loop'[m].req = loop[m].req /\ (m # l => loop'[m] = loop[m])
        /\ loop'[l].pc = "deploying"
    BY <1>0, <1>11 DEF Retry, LoopType
  <2>3. /\ att'[a].req = loop[l].req /\ att'[a].loop = l
        /\ att'[a].pc \in {"status", "token", "create"}
        /\ \A b \in Attempts \ {a} : att'[b] = att[b]
    BY <1>0, <2>1, BeginRequest
  <2>4. GoodLoop(loop[l])'
    BY <1>0, <2>1, <2>2 DEF GoodLoop
  <2>5. GoodAtt(att[a])'
    BY <1>0, <2>1, <2>2, <2>3 DEF GoodAtt, GoodLoop
  <2>6. \A b \in Attempts : att[b].loop # None => loop'[att[b].loop].req = loop[att[b].loop].req
    BY <1>0, <2>2, Basics DEF AttType
  <2> QED
    BY <2>1, <2>2, <2>3, <2>4, <2>5, <2>6, OthersDeliver, SameGrows
<1>12. ASSUME NEW i \in DOMAIN sandbox, InstanceDies(i) PROVE Delivering'
  <2> DEFINE e == [sandbox[i] EXCEPT !.up = FALSE]
  <2>1. i \in 1..Len(sandbox) /\ sandbox \in Seq(InstanceType) /\ sandbox[i] \in InstanceType
    BY <1>0, LenProperties DEF TypeOK
  <2>2. e \in InstanceType /\ e.files = sandbox[i].files
    BY <2>1 DEF InstanceType
  <2>3. sandbox' = [sandbox EXCEPT ![i] = e] /\ UNCHANGED <<att, loop, generated, dropped>>
    BY <1>12 DEF InstanceDies
  <2> HIDE DEF e
  <2>4. /\ Len(sandbox') = Len(sandbox)
        /\ \A j \in 1..Len(sandbox) : sandbox'[j] = IF j = i THEN e ELSE sandbox[j]
    BY <2>1, <2>2, <2>3, SandboxUpdate
  <2>5. Grows
    BY <2>2, <2>3, <2>4 DEF Grows
  <2> QED
    BY <2>3, <2>5, OthersDeliver
<1>13. CASE Restart
  <2>1. /\ \A l \in Loops : loop'[l] = IdleLoop
        /\ \A a \in Attempts : att'[a] = FreeAtt
        /\ UNCHANGED <<generated, sandbox, dropped>>
    BY <1>13 DEF Restart
  <2>2. \A l \in Loops : GoodLoop(loop[l])'
    BY <2>1 DEF GoodLoop, IdleLoop, DefaultRequest
  <2>3. \A a \in Attempts : GoodAtt(att[a])'
    BY <2>1 DEF GoodAtt, FreeAtt, DefaultRequest
  <2> QED
    BY <2>2, <2>3 DEF Delivering
<1>14. ASSUME NEW a \in Attempts, AttemptStep(a) PROVE Delivering'
  BY <1>14, AnswersDeliver, EndingsDeliver DEF AttemptStep
<1>15. ASSUME NEW l \in Loops, LoopStep(l) PROVE Delivering'
  BY <1>8, <1>9, <1>10, <1>11, <1>15 DEF LoopStep
<1>16. ASSUME NEW l \in Loops, NEW a \in Attempts, AttemptTimeout(l, a) PROVE Delivering'
  BY <1>16, EndingsDeliver
<1> QED
  BY <1>2, <1>3, <1>4, <1>5, <1>6, <1>7, <1>8, <1>12, <1>13, <1>14, <1>15, <1>16 DEF Next

(* Nothing is promised in a new agent.                                     *)
LEMMA InitDelivers == Init => Delivering
<1> SUFFICES ASSUME Init PROVE Delivering
  OBVIOUS
<1>1. /\ \A l \in Loops : loop[l] = IdleLoop
      /\ \A a \in Attempts : att[a] = FreeAtt
  BY DEF Init
<1>2. IdleLoop.req.files = {} /\ IdleLoop.pc = "idle"
  BY DEF IdleLoop, DefaultRequest
<1>3. FreeAtt.req.files = {} /\ FreeAtt.pc = "free" /\ FreeAtt.loop = None
  BY DEF FreeAtt, DefaultRequest
<1> QED
  BY <1>1, <1>2, <1>3 DEF Delivering, GoodLoop, GoodAtt

(* A deployment that succeeds has put the files its caller asked for into  *)
(* the instance it names, save those whose own write failed: through any   *)
(* retries, timers, late answers, resets of the session and restarts.      *)
THEOREM SuccessMeansDelivered == Spec => []SuccessDeliversFiles
<1>1. IInv /\ Delivering /\ [Next]_vars => (IInv /\ Delivering)'
  BY IInvNext, NextDelivers
<1>2. Delivering => SuccessDeliversFiles
  BY DEF Delivering, GoodLoop, Has, SuccessDeliversFiles
<1> QED
  BY <1>1, <1>2, IInvInit, InitDelivers, PTL DEF Spec


---------------------------------------------------------------------------
(* Whoever awaits a deployment is known to it.                             *)

(* A caller awaits a loop of its own exactly while that loop has it as its *)
(* owner: no loop answers a caller that left, and none is awaited that no  *)
(* longer knows whom to answer.                                            *)
OwnerAwaits(c, l) == loop[l].owner = c <=> call[c].st = "own" /\ call[c].loop = l
CallersKnown == \A c \in Callers, l \in Loops : OwnerAwaits(c, l)

(* Steps that move no owner and no awaiting caller.                        *)
SameOwners == \A l \in Loops : loop'[l].owner = loop[l].owner
SameAwaits == \A c \in Callers : /\ call[c].st = "own" <=> call'[c].st = "own"
                                 /\ call[c].st = "own" => call'[c].loop = call[c].loop

(* Such a step keeps what callers and loops know of each other.            *)
LEMMA KnownKept ==
  ASSUME CallersKnown, SameOwners, SameAwaits
  PROVE  CallersKnown'
  BY DEF CallersKnown, OwnerAwaits, SameOwners, SameAwaits

(* A failed attempt, a failed setup, a retry and a delivery move only the  *)
(* loop's progress.                                                        *)
LEMMA LoopMoves ==
  ASSUME TypeOK, NEW l \in Loops, NEW e \in BOOLEAN, NEW i, NEW r
  PROVE  /\ Catch(l, e) => SameOwners
         /\ Deliver(l, i, r) => SameOwners
         /\ loop' = loop => SameOwners
<1>1. loop \in [Loops -> LoopType]
  BY DEF TypeOK
<1>2. ASSUME NEW p, NEW j,
             \/ loop' = [loop EXCEPT ![l].pc = p]
             \/ loop' = [loop EXCEPT ![l].pc = p, ![l].n = j]
             \/ loop' = [loop EXCEPT ![l].pc = p, ![l].inst = j]
      PROVE  SameOwners
  BY <1>1, <1>2 DEF SameOwners, LoopType
<1>3. Catch(l, e) => loop' = [loop EXCEPT ![l].pc = "backoff"]
  BY DEF Catch
<1>4. ASSUME Deliver(l, i, r) PROVE SameOwners
  BY <1>2, <1>4 DEF Deliver
<1> QED
  BY <1>2, <1>3, <1>4 DEF SameOwners

(* Whoever starts a loop takes a slot that nobody awaits.                  *)
LEMMA StartKnown ==
  ASSUME TypeOK, CallersKnown, NEW l \in Loops, NEW a \in Attempts, NEW o, NEW req,
         StartLoop(l, a, o, req)
  PROVE  /\ loop'[l].owner = o
         /\ \A k \in Loops : k # l => loop'[k].owner = loop[k].owner
         /\ \A c \in Callers : call[c].loop # l
<1>1. loop \in [Loops -> LoopType]
  BY DEF TypeOK
<1> QED
  BY <1>1 DEF StartLoop

(* A caller that deploys or redeploys is known to the loop it starts.      *)
LEMMA OwnKnown ==
  ASSUME TypeOK, CallersKnown, NEW c \in Callers, NEW l \in Loops, NEW a \in Attempts, NEW req,
         call[c].st # "own", StartLoop(l, a, c, req),
         call' = [call EXCEPT ![c] = Waiting("own", l)]
  PROVE  CallersKnown'
<1>1. call \in [Callers -> CallType]
  BY DEF TypeOK
<1>2. /\ call'[c].st = "own" /\ call'[c].loop = l
      /\ \A d \in Callers : d # c => call'[d] = call[d]
  BY <1>1 DEF Waiting
<1> SUFFICES ASSUME NEW d \in Callers, NEW k \in Loops PROVE OwnerAwaits(d, k)'
  BY DEF CallersKnown
<1>3. OwnerAwaits(d, k)
  BY DEF CallersKnown
<1> QED
  BY <1>2, <1>3, StartKnown DEF OwnerAwaits

(* The end of a loop, or of its owner's patience, answers that owner.      *)
LEMMA AnsweredKnown ==
  ASSUME TypeOK, CallersKnown, NEW l \in Loops, loop'[l].owner = None,
         \A k \in Loops : k # l => loop'[k].owner = loop[k].owner,
         call' = IF loop[l].owner \in Callers
                 THEN [call EXCEPT ![loop[l].owner] = IdleCall] ELSE call
  PROVE  CallersKnown'
<1>1. call \in [Callers -> CallType] /\ \A c \in Callers : c # None
  BY NamesAssumption DEF TypeOK
<1>2. IdleCall.st = "idle"
  BY DEF IdleCall, Waiting
<1> SUFFICES ASSUME NEW d \in Callers, NEW k \in Loops PROVE OwnerAwaits(d, k)'
  BY DEF CallersKnown
<1>3. OwnerAwaits(d, k) /\ OwnerAwaits(d, l)
  BY DEF CallersKnown
<1>4. CASE loop[l].owner = d
  <2>1. call'[d].st = "idle"
    BY <1>1, <1>2, <1>4
  <2>2. k # l => loop[k].owner # d
    BY <1>3, <1>4 DEF OwnerAwaits
  <2> QED
    BY <1>1, <2>1, <2>2 DEF OwnerAwaits
<1>5. CASE loop[l].owner # d
  <2>1. call'[d] = call[d]
    BY <1>1, <1>5
  <2> QED
    BY <1>1, <1>3, <1>5, <2>1 DEF OwnerAwaits
<1> QED
  BY <1>4, <1>5

(* Every step keeps loops and callers in step.                             *)
LEMMA KnownStep == TypeOK /\ CallersKnown /\ [Next]_vars => CallersKnown'
<1> SUFFICES ASSUME TypeOK, CallersKnown, [Next]_vars PROVE CallersKnown'
  OBVIOUS
<1>a. loop \in [Loops -> LoopType] /\ call \in [Callers -> CallType]
  BY DEF TypeOK
<1>b. \A a \in Attempts : att[a].loop \in Loops \cup {None}
  BY DEF TypeOK, AttType
<1>c. call' = call => SameAwaits
  BY DEF SameAwaits
<1>d. loop' = loop => SameOwners
  BY DEF SameOwners
<1>e. IdleCall.st = "idle" /\ \A l : Waiting("join", l).st = "join"
  BY DEF IdleCall, Waiting
<1>f. ASSUME NEW c \in Callers, NEW r, call[c].st # "own", r.st # "own",
             call' = [call EXCEPT ![c] = r]
      PROVE  SameAwaits
  BY <1>a, <1>f DEF SameAwaits
<1>1. ASSUME NEW c \in Callers, NEW l \in Loops, NEW a \in Attempts, NEW req \in Requests,
             CallOwn(c, l, a, req)
      PROVE  CallersKnown'
  BY <1>1, OwnKnown DEF CallOwn
<1>2. ASSUME NEW c \in Callers, CallJoin(c) \/ JoinReturns(c) \/ Publish(c) \/ PublishReturns(c)
      PROVE  CallersKnown'
  <2>1. loop' = loop /\ call[c].st # "own"
    BY <1>2 DEF CallJoin, JoinReturns, Publish, PublishReturns
  <2>2. \E r : r.st # "own" /\ call' = [call EXCEPT ![c] = r]
    BY <1>2, <1>e DEF CallJoin, JoinReturns, Publish, PublishReturns
  <2> QED
    BY <2>1, <2>2, <1>d, <1>f, KnownKept
<1>3. ASSUME NEW c \in Callers, NEW l \in Loops, NEW a \in Attempts, PublishExpired(c, l, a)
      PROVE  CallersKnown'
  <2>1. CASE StartLoop(l, a, c, DefaultRequest) /\ call' = [call EXCEPT ![c] = Waiting("own", l)]
    BY <1>3, <2>1, OwnKnown DEF PublishExpired
  <2>2. CASE call' = [call EXCEPT ![c] = Waiting("join", promise)] /\ loop' = loop
    BY <1>3, <2>2, <1>d, <1>e, <1>f, KnownKept DEF PublishExpired
  <2> QED
    BY <1>3, <2>1, <2>2 DEF PublishExpired
<1>4. ASSUME NEW l \in Loops, LoopReturns(l) PROVE CallersKnown'
  BY <1>4, <1>a, AnsweredKnown DEF LoopReturns, IdleLoop
<1>5. ASSUME NEW l \in Loops, OwnerTimeout(l) PROVE CallersKnown'
  BY <1>5, <1>a, AnsweredKnown DEF OwnerTimeout, LoopType
<1>6. ASSUME NEW l \in Loops,
             \/ SetupReturns(l)
             \/ \E e \in BOOLEAN : SetupFails(l, e)
             \/ \E a \in Attempts : Retry(l, a)
      PROVE  CallersKnown'
  <2>1. call' = call
    BY <1>6 DEF SetupReturns, SetupFails, Retry
  <2>2. SetupReturns(l) => SameOwners
    BY <1>a DEF SetupReturns, SameOwners, LoopType
  <2>3. ASSUME NEW e \in BOOLEAN, SetupFails(l, e) PROVE SameOwners
    BY <2>3, LoopMoves DEF SetupFails
  <2>4. ASSUME NEW a \in Attempts, Retry(l, a) PROVE SameOwners
    BY <2>4, <1>a DEF Retry, SameOwners, LoopType
  <2>5. SameOwners
    BY <1>6, <2>2, <2>3, <2>4
  <2> QED
    BY <2>1, <2>5, <1>c, KnownKept
<1>7. ASSUME NEW l \in Loops, NEW a \in Attempts, AttemptTimeout(l, a) PROVE CallersKnown'
  BY <1>7, <1>c, LoopMoves, KnownKept DEF AttemptTimeout
<1>8. ASSUME NEW a \in Attempts, AttemptStep(a) PROVE CallersKnown'
  <2>1. call' = call
    BY <1>8 DEF AttemptStep, StatusReturns, TokenReturns, CreateReturns, WriteReturns,
                AttemptReturns, AttemptFails
  <2>2. CASE AttemptReturns(a)
    BY <2>1, <2>2, <1>b, <1>c, <1>d, LoopMoves, KnownKept DEF AttemptReturns, Awaited
  <2>3. ASSUME NEW e \in BOOLEAN, AttemptFails(a, e) PROVE CallersKnown'
    BY <2>1, <2>3, <1>b, <1>c, <1>d, LoopMoves, KnownKept DEF AttemptFails, Awaited
  <2>4. CASE loop' = loop
    BY <2>1, <2>4, <1>c, <1>d, KnownKept
  <2> QED
    BY <1>8, <2>2, <2>3, <2>4
    DEF AttemptStep, StatusReturns, TokenReturns, CreateReturns, WriteReturns
<1>9. ASSUME NEW k \in checks, NEW l \in Loops, NEW a \in Attempts, NEW fault \in BOOLEAN,
             CheckFails(k, l, a, fault)
      PROVE  CallersKnown'
  <2>1. call' = call
    BY <1>9 DEF CheckFails
  <2>2. CASE StartLoop(l, a, Monitor, DefaultRequest)
    BY <2>1, <2>2, StartKnown, NamesAssumption DEF CallersKnown, OwnerAwaits
  <2>3. CASE loop' = loop
    BY <2>1, <2>3, <1>c, <1>d, KnownKept
  <2> QED
    BY <1>9, <2>2, <2>3 DEF CheckFails
<1>10. CASE Restart
  <2>1. \A l \in Loops : loop'[l].owner = None
    BY <1>10 DEF Restart, IdleLoop
  <2>2. \A c \in Callers : call'[c].st = "idle" /\ c # None
    BY <1>10, <1>e, NamesAssumption DEF Restart
  <2> QED
    BY <2>1, <2>2 DEF CallersKnown, OwnerAwaits
<1>11. CASE UNCHANGED <<loop, call>>
  BY <1>11, <1>c, <1>d, KnownKept
<1>12. HealthTick \/ (\E k \in checks : CheckPasses(k)) \/ (\E f \in Files : SaveFile(f))
       \/ (\E i \in DOMAIN sandbox : InstanceDies(i)) \/ UNCHANGED vars => UNCHANGED <<loop, call>>
  BY DEF HealthTick, CheckPasses, SaveFile, InstanceDies, vars, memory
<1>13. ASSUME NEW l \in Loops, LoopStep(l) PROVE CallersKnown'
  BY <1>13, <1>4, <1>6 DEF LoopStep
<1> QED
  BY <1>1, <1>2, <1>3, <1>5, <1>7, <1>8, <1>9, <1>10, <1>11, <1>12, <1>13 DEF Next

(* A caller that awaits its deployment is the owner of the loop it awaits, *)
(* and an owner that is a caller awaits: over timeouts, retries, joins and *)
(* expired previews every answer finds the one that waits for it.          *)
THEOREM CallersAreKnown == Spec => []CallersKnown
<1>1. Init => CallersKnown
  BY NamesAssumption DEF Init, IdleLoop, IdleCall, Waiting, CallersKnown, OwnerAwaits
<1> QED
  BY <1>1, TypeCorrect, KnownStep, PTL DEF Spec
=============================================================================
