---------------------------- MODULE VaultProofs ----------------------------
(***************************************************************************)
(* SessionHasSocket and WaitersHavePrompt hold for any number of tabs,     *)
(* unlocks, requests and messages in flight.  SessionHasSocket is          *)
(* inductive with the types.  WaitersHavePrompt needs HasClient: a request *)
(* that is under way keeps the client it was given, so that settling the   *)
(* prompt of one client cannot touch what a request of another awaits.     *)
(***************************************************************************)
EXTENDS Vault, TLAPS

GetType ==
  [at : {"idle", "asking", "refused", "waiting", "retrying", "answered"},
   of : Gets \cup {NoGet}, awaits : Gets \cup {NoGet}]

SockStates == {"unused", "opened", "ready", "known", "closing", "closed"}
Messages == {"unlocked", "locked", "closed"}

\* A request that is under way has the client it started with.
HasClient ==
  \A g \in Gets : get[g].at \in {"asking", "refused", "waiting"} => get[g].of \in Gets

VaultInv == HasClient /\ WaitersHavePrompt /\ SessionHasSocket

---------------------------------------------------------------------------
(* The types of the parts of a step *)

\* A request that is new, answered, or has just started.
LEMMA GetRecords ==
  /\ NewGet \in GetType /\ NewGet.at = "idle"
  /\ Answered \in GetType /\ Answered.at = "answered"
  /\ \A c \in Gets \cup {NoGet} :
       LET r == [NewGet EXCEPT !.at = "asking", !.of = c]
       IN  r \in GetType /\ r.at = "asking" /\ r.of = c
<1>1. NewGet \in GetType /\ NewGet.at = "idle"
  BY DEF NewGet, GetType
<1> HIDE DEF NewGet
<1> QED
  BY <1>1 DEF Answered, GetType

\* A tab posts messages that the agent knows.
LEMMA PostType ==
  ASSUME VaultTypeOK, NEW t \in Tabs, NEW msgs \in Seq(Messages), Post(t, msgs)
  PROVE  mail' \in [Tabs -> Seq(Messages)]
  BY DEF VaultTypeOK, Post, Messages

\* What settling a prompt leaves of each request.
LEMMA SettleEffect ==
  ASSUME VaultTypeOK, NEW c \in Gets, NEW retry \in BOOLEAN, Settle(c, retry)
  PROVE  /\ prompt' \in [Gets -> Gets \cup {NoGet}]
         /\ \A d \in Gets : d # c => prompt'[d] = prompt[d]
         /\ get' \in [Gets -> GetType]
         /\ \A g \in Gets :
              \/ /\ get[g].at = "waiting" /\ get[g].awaits = prompt[c]
                 /\ get'[g].at \in {"retrying", "answered"}
              \/ /\ ~(get[g].at = "waiting" /\ get[g].awaits = prompt[c])
                 /\ get'[g] = get[g]
<1> DEFINE woken(g) == [get[g] EXCEPT !.at = "retrying", !.awaits = NoGet]
<1>1. ASSUME NEW g \in Gets PROVE get[g] \in GetType /\ woken(g) \in GetType /\ woken(g).at = "retrying"
  <2>1. get[g] \in GetType
    BY DEF VaultTypeOK, GetType
  <2> QED
    BY <2>1 DEF GetType
<1>2. \A g \in Gets :
        get'[g] = IF get[g].at = "waiting" /\ get[g].awaits = prompt[c]
                  THEN IF retry THEN woken(g) ELSE Answered
                  ELSE get[g]
  BY DEF Settle
<1>3. DOMAIN get' = Gets /\ get' = [g \in Gets |-> get'[g]]
  BY DEF Settle
<1> HIDE DEF woken
<1>4. prompt' \in [Gets -> Gets \cup {NoGet}] /\ \A d \in Gets : d # c => prompt'[d] = prompt[d]
  BY DEF Settle, VaultTypeOK
<1>5. \A g \in Gets : get'[g] \in GetType
  BY <1>1, <1>2, GetRecords
<1>6. get' \in [Gets -> GetType]
  BY <1>3, <1>5
<1>7. ASSUME NEW g \in Gets
      PROVE  \/ /\ get[g].at = "waiting" /\ get[g].awaits = prompt[c]
                /\ get'[g].at \in {"retrying", "answered"}
             \/ /\ ~(get[g].at = "waiting" /\ get[g].awaits = prompt[c])
                /\ get'[g] = get[g]
  BY <1>1, <1>2, GetRecords
<1> QED
  BY <1>4, <1>6, <1>7

\* A waiter whose prompt settles waits no longer; the others await another
\* client's prompt, which stays.
LEMMA SettleKeeps ==
  ASSUME VaultTypeOK, HasClient, WaitersHavePrompt,
         NEW c \in Gets, NEW retry \in BOOLEAN, Settle(c, retry)
  PROVE  HasClient' /\ WaitersHavePrompt'
<1>1. HasClient'
  BY SettleEffect DEF HasClient
<1>2. ASSUME NEW g \in Gets, get'[g].at = "waiting"
      PROVE  prompt'[get'[g].of] # NoGet /\ prompt'[get'[g].of] = get'[g].awaits
  <2>1. get'[g] = get[g] /\ get[g].at = "waiting" /\ get[g].awaits # prompt[c]
    BY <1>2, SettleEffect
  <2>2. /\ get[g].of \in Gets /\ prompt[get[g].of] # NoGet
        /\ prompt[get[g].of] = get[g].awaits
    BY <2>1 DEF HasClient, WaitersHavePrompt
  <2> QED
    BY <2>1, <2>2, SettleEffect
<1> QED
  BY <1>1, <1>2 DEF WaitersHavePrompt

\* The message of a tab settles the prompt of the agent's client, if it has one.
LEMMA NotifyIsSettle ==
  ASSUME VaultTypeOK, NotifyUnlocked \/ NotifyLocked
  PROVE  /\ client' \in {client, NoGet}
         /\ \/ UNCHANGED <<prompt, get>>
            \/ client \in Gets /\ \E retry \in BOOLEAN : Settle(client, retry)
  BY DEF VaultTypeOK, NotifyUnlocked, NotifyLocked

---------------------------------------------------------------------------
(* The type invariant *)

\* Every step keeps the variables in their types, given HasClient.
LEMMA VaultTypeStep == VaultTypeOK /\ HasClient /\ [VaultNext]_vaultVars => VaultTypeOK'
<1> SUFFICES ASSUME VaultTypeOK, HasClient, [VaultNext]_vaultVars PROVE VaultTypeOK'
  OBVIOUS
<1>a. /\ session \in {"none", "open", "stale"} /\ sock \in [Socks -> SockStates]
      /\ tab \in [Tabs -> {"locked", "unlocking", "unlocked"}]
      /\ mail \in [Tabs -> Seq(Messages)]
      /\ client \in Gets \cup {NoGet} /\ prompt \in [Gets -> Gets \cup {NoGet}]
      /\ get \in [Gets -> GetType]
  BY DEF VaultTypeOK, SockStates, Messages, GetType
<1> DEFINE typed ==
      /\ session' \in {"none", "open", "stale"} /\ sock' \in [Socks -> SockStates]
      /\ tab' \in [Tabs -> {"locked", "unlocking", "unlocked"}]
      /\ mail' \in [Tabs -> Seq(Messages)]
      /\ client' \in Gets \cup {NoGet} /\ prompt' \in [Gets -> Gets \cup {NoGet}]
      /\ get' \in [Gets -> GetType]
<1> SUFFICES typed
  BY DEF VaultTypeOK, SockStates, Messages, GetType
<1> USE DEF vaultStore, vaultAgent
<1>b. ASSUME NEW s \in Socks, NEW to \in SockStates
      PROVE  [sock EXCEPT ![s] = to] \in [Socks -> SockStates]
  BY <1>a
<1>c. "opened" \in SockStates /\ "ready" \in SockStates /\ "known" \in SockStates
      /\ "closing" \in SockStates /\ "closed" \in SockStates
  BY DEF SockStates
<1>d. <<"unlocked">> \in Seq(Messages) /\ <<"locked">> \in Seq(Messages)
      /\ <<"closed">> \in Seq(Messages) /\ <<"closed", "locked">> \in Seq(Messages)
      /\ <<"closed", "unlocked">> \in Seq(Messages)
  BY DEF Messages
<1>1. ASSUME NEW t \in Tabs, NEW u \in Unlocks, OpenSession(t, u) PROVE typed
  BY <1>1, <1>a, <1>b, <1>c DEF OpenSession, Socks
<1>2. ASSUME NEW t \in Tabs, NEW u \in Unlocks, SessionReady(t, u) PROVE typed
  <2>1. mail' \in [Tabs -> Seq(Messages)]
    BY <1>2, <1>a, <1>d, PostType DEF SessionReady
  <2>2. sock' \in [Socks -> SockStates]
    BY <1>2, <1>b, <1>c DEF SessionReady, Socks
  <2> QED
    BY <1>2, <1>a, <2>1, <2>2 DEF SessionReady
<1>3. ASSUME NEW t \in Tabs, NEW u \in Unlocks, Lock(t, u) PROVE typed
  <2>1. mail' \in [Tabs -> Seq(Messages)]
    BY <1>3, <1>d, PostType DEF Lock
  <2>2. sock' \in [Socks -> SockStates]
    BY <1>3, <1>b, <1>c DEF Lock, Socks
  <2> QED
    BY <1>3, <1>a, <2>1, <2>2 DEF Lock
<1>4. ASSUME NEW t \in Tabs, UnlockTimeout(t) PROVE typed
  BY <1>4, <1>a DEF UnlockTimeout
<1>5. ASSUME NEW t \in Tabs, Reload(t) PROVE typed
  <2>1. mail' \in [Tabs -> Seq(Messages)]
    BY <1>5, <1>d, PostType DEF Reload
  <2>2. sock' \in [Socks -> SockStates]
    BY <1>5, <1>a, <1>c DEF Reload
  <2> QED
    BY <1>5, <1>a, <2>1, <2>2 DEF Reload
<1>6. ASSUME NEW t \in Tabs, ChatReconnects(t) PROVE typed
  <2>1. mail' \in [Tabs -> Seq(Messages)]
    BY <1>6, <1>d, PostType DEF ChatReconnects
  <2> QED
    BY <1>6, <1>a, <2>1 DEF ChatReconnects
<1>7. ASSUME NEW t \in Tabs, ReceiveMail(t) PROVE typed
  <2>1. mail' \in [Tabs -> Seq(Messages)]
    BY <1>7, <1>a DEF ReceiveMail
  <2>2. client' \in {client, NoGet} /\ prompt' \in [Gets -> Gets \cup {NoGet}]
        /\ get' \in [Gets -> GetType]
    BY <1>7, <1>a, NotifyIsSettle, SettleEffect DEF ReceiveMail
  <2> QED
    BY <1>7, <1>a, <2>1, <2>2 DEF ReceiveMail
<1>8. ASSUME NEW s \in Socks, InitArrives(s) \/ CloseArrives(s) \/ Touch(s) PROVE typed
  BY <1>8, <1>a, <1>b, <1>c DEF InitArrives, CloseArrives, Touch
<1>9. CASE SessionIdles \/ ClearStale \/ SessionLost
  BY <1>9, <1>a DEF SessionIdles, ClearStale, SessionLost
<1>10. ASSUME NEW g \in Gets, StartGet(g) PROVE typed
  BY <1>10, <1>a, GetRecords DEF StartGet
<1>11. ASSUME NEW g \in Gets, RequestSecret(g) PROVE typed
  <2>1. [get[g] EXCEPT !.at = "refused"] \in GetType
    <3>1. get[g] \in GetType
      BY <1>a
    <3> QED
      BY <3>1 DEF GetType
  <2>2. get' \in [Gets -> GetType]
    BY <1>11, <1>a, <2>1, GetRecords DEF RequestSecret
  <2> QED
    BY <1>11, <1>a, <2>2 DEF RequestSecret
<1>12. ASSUME NEW g \in Gets, RequestUnlock(g) PROVE typed
  <2> DEFINE p == IF prompt[get[g].of] = NoGet THEN g ELSE prompt[get[g].of]
  <2>1. get[g] \in GetType /\ get[g].of \in Gets
    BY <1>12, <1>a DEF RequestUnlock, HasClient
  <2>a. p \in Gets \cup {NoGet}
    BY <2>1, <1>a
  <2>2. [get[g] EXCEPT !.at = "waiting", !.awaits = p] \in GetType
    BY <2>1, <2>a DEF GetType
  <2>3. get' = [get EXCEPT ![g] = [get[g] EXCEPT !.at = "waiting", !.awaits = p]]
        /\ prompt' = [prompt EXCEPT ![get[g].of] = p]
    BY <1>12, <1>a DEF RequestUnlock
  <2> HIDE DEF p
  <2>4. get' \in [Gets -> GetType] /\ prompt' \in [Gets -> Gets \cup {NoGet}]
    BY <1>a, <2>1, <2>a, <2>2, <2>3
  <2> QED
    BY <1>12, <1>a, <2>4 DEF RequestUnlock
<1>13. ASSUME NEW g \in Gets, PromptTimeout(g) PROVE typed
  BY <1>13, <1>a, SettleEffect DEF PromptTimeout
<1>14. ASSUME NEW g \in Gets, RetrySecret(g) PROVE typed
  BY <1>14, <1>a, GetRecords DEF RetrySecret
<1>15. CASE AgentRestarts
  BY <1>15, <1>a, GetRecords DEF AgentRestarts
<1>16. CASE UNCHANGED vaultVars
  BY <1>16, <1>a DEF vaultVars
<1> QED
  BY <1>1, <1>2, <1>3, <1>4, <1>5, <1>6, <1>7, <1>8, <1>9, <1>10, <1>11, <1>12, <1>13, <1>14,
     <1>15, <1>16 DEF VaultNext

---------------------------------------------------------------------------
(* Waiters and prompts *)

\* Every step keeps the client and the prompt of the requests under way.
LEMMA WaitersStep ==
  VaultTypeOK /\ HasClient /\ WaitersHavePrompt /\ [VaultNext]_vaultVars
    => HasClient' /\ WaitersHavePrompt'
<1> SUFFICES ASSUME VaultTypeOK, HasClient, WaitersHavePrompt, [VaultNext]_vaultVars
             PROVE  HasClient' /\ WaitersHavePrompt'
  OBVIOUS
<1>a. client \in Gets \cup {NoGet} /\ prompt \in [Gets -> Gets \cup {NoGet}]
      /\ get \in [Gets -> GetType]
  BY DEF VaultTypeOK, GetType
<1>1. CASE UNCHANGED vaultAgent
  BY <1>1 DEF vaultAgent, HasClient, WaitersHavePrompt
<1>2. ASSUME NEW t \in Tabs, ReceiveMail(t) PROVE HasClient' /\ WaitersHavePrompt'
  <2>1. \/ UNCHANGED <<prompt, get>>
        \/ client \in Gets /\ \E retry \in BOOLEAN : Settle(client, retry)
    BY <1>2, NotifyIsSettle DEF ReceiveMail
  <2>2. CASE UNCHANGED <<prompt, get>>
    BY <2>2 DEF HasClient, WaitersHavePrompt
  <2> QED
    BY <2>1, <2>2, SettleKeeps
<1>3. ASSUME NEW g \in Gets, StartGet(g) PROVE HasClient' /\ WaitersHavePrompt'
  <2>1. client' \in Gets /\ prompt' = prompt
        /\ get' = [get EXCEPT ![g] = [NewGet EXCEPT !.at = "asking", !.of = client']]
    BY <1>3, <1>a DEF StartGet
  <2>2. get'[g].at = "asking" /\ get'[g].of = client' /\ \A h \in Gets : h # g => get'[h] = get[h]
    BY <1>a, <2>1, GetRecords
  <2> QED
    BY <2>1, <2>2 DEF HasClient, WaitersHavePrompt
<1>4. ASSUME NEW g \in Gets, RequestSecret(g) PROVE HasClient' /\ WaitersHavePrompt'
  <2> DEFINE r == [get[g] EXCEPT !.at = "refused"]
  <2>1. get[g] \in GetType /\ get[g].at = "asking" /\ prompt' = prompt
        /\ \/ get' = [get EXCEPT ![g] = r]
           \/ get' = [get EXCEPT ![g] = Answered]
    BY <1>4, <1>a DEF RequestSecret
  <2>2. r.at = "refused" /\ r.of = get[g].of
    BY <2>1 DEF GetType
  <2> HIDE DEF r
  <2>3. /\ \/ get'[g].at = "answered"
           \/ get'[g].at = "refused" /\ get'[g].of = get[g].of
        /\ \A h \in Gets : h # g => get'[h] = get[h]
    BY <1>a, <2>1, <2>2, GetRecords
  <2> QED
    BY <2>1, <2>3 DEF HasClient, WaitersHavePrompt
<1>5. ASSUME NEW g \in Gets, RequestUnlock(g) PROVE HasClient' /\ WaitersHavePrompt'
  <2> DEFINE c == get[g].of
             p == IF prompt[c] = NoGet THEN g ELSE prompt[c]
             r == [get[g] EXCEPT !.at = "waiting", !.awaits = p]
  <2>1. get[g] \in GetType /\ c \in Gets /\ p # NoGet /\ (prompt[c] # NoGet => p = prompt[c])
    BY <1>5, <1>a, VaultAssumption DEF RequestUnlock, HasClient
  <2>2. get' = [get EXCEPT ![g] = r] /\ prompt' = [prompt EXCEPT ![c] = p]
    BY <1>5, <1>a DEF RequestUnlock
  <2>3. r.at = "waiting" /\ r.awaits = p /\ r.of = c
    BY <2>1 DEF GetType
  <2> HIDE DEF r, p, c
  <2>4. /\ get'[g] = r /\ \A h \in Gets : h # g => get'[h] = get[h]
        /\ prompt'[c] = p /\ \A d \in Gets : d # c => prompt'[d] = prompt[d]
    BY <1>a, <2>1, <2>2
  <2>5. HasClient'
    BY <2>1, <2>3, <2>4 DEF HasClient
  <2>6. ASSUME NEW h \in Gets, get'[h].at = "waiting"
        PROVE  prompt'[get'[h].of] # NoGet /\ prompt'[get'[h].of] = get'[h].awaits
    <3>1. CASE h = g
      BY <2>1, <2>3, <2>4, <3>1
    <3>2. CASE h # g
      <4>1. /\ get'[h] = get[h] /\ get[h].of \in Gets
            /\ prompt[get[h].of] # NoGet /\ prompt[get[h].of] = get[h].awaits
        BY <2>4, <2>6, <3>2 DEF HasClient, WaitersHavePrompt
      <4> QED
        BY <2>1, <2>4, <4>1
    <3> QED
      BY <3>1, <3>2
  <2> QED
    BY <2>5, <2>6 DEF WaitersHavePrompt
<1>6. ASSUME NEW g \in Gets, PromptTimeout(g) PROVE HasClient' /\ WaitersHavePrompt'
  BY <1>6, SettleKeeps DEF PromptTimeout
<1>7. ASSUME NEW g \in Gets, RetrySecret(g) PROVE HasClient' /\ WaitersHavePrompt'
  <2>1. get'[g].at = "answered" /\ \A h \in Gets : h # g => get'[h] = get[h]
    BY <1>7, <1>a, GetRecords DEF RetrySecret
  <2> QED
    BY <1>7, <2>1 DEF RetrySecret, HasClient, WaitersHavePrompt
<1>8. CASE AgentRestarts
  <2>1. \A g \in Gets : get'[g].at \in {"idle", "answered"}
    BY <1>8, GetRecords DEF AgentRestarts
  <2> QED
    BY <2>1 DEF HasClient, WaitersHavePrompt
<1> QED
  BY <1>1, <1>2, <1>3, <1>4, <1>5, <1>6, <1>7, <1>8
  DEF VaultNext, OpenSession, SessionReady, Lock, UnlockTimeout, Reload, ChatReconnects,
      InitArrives, CloseArrives, Touch, SessionIdles, ClearStale, SessionLost, vaultVars,
      vaultAgent

---------------------------------------------------------------------------
(* Sessions and sockets *)

Holding == {"ready", "known", "closing"}

\* A step that opens no session, and after which every socket that held one
\* still does, keeps SessionHasSocket.
LEMMA SocketsKept ==
  ASSUME SessionHasSocket, session' # "none" => session # "none",
         \A s \in Socks : sock[s] \in Holding => sock'[s] \in Holding
  PROVE  SessionHasSocket'
  BY DEF SessionHasSocket, Holding, Socks

\* Every step keeps it: a socket that closes takes the session with it.
LEMMA SocketsStep ==
  VaultTypeOK /\ SessionHasSocket /\ [VaultNext]_vaultVars => SessionHasSocket'
<1> SUFFICES ASSUME VaultTypeOK, SessionHasSocket, [VaultNext]_vaultVars
             PROVE  SessionHasSocket'
  OBVIOUS
<1>a. sock \in [Socks -> SockStates]
  BY DEF VaultTypeOK, SockStates
<1> USE DEF vaultStore
<1>1. ASSUME NEW t \in Tabs, NEW u \in Unlocks,
             OpenSession(t, u) \/ SessionReady(t, u) \/ Lock(t, u)
      PROVE  SessionHasSocket'
  <2>1. session' = session /\ \A s \in Socks : sock[s] \in Holding => sock'[s] \in Holding
    BY <1>1, <1>a DEF OpenSession, SessionReady, Lock, Holding, Socks
  <2> QED
    BY <2>1, SocketsKept
<1>2. ASSUME NEW t \in Tabs, Reload(t) PROVE SessionHasSocket'
  BY <1>2, SocketsKept DEF Reload, Holding
<1>3. ASSUME NEW s \in Socks, InitArrives(s) PROVE SessionHasSocket'
  <2>1. sock'[s] = "ready"
    BY <1>3, <1>a DEF InitArrives
  <2> QED
    BY <2>1 DEF SessionHasSocket, Socks
<1>4. ASSUME NEW s \in Socks, CloseArrives(s) PROVE SessionHasSocket'
  BY <1>4 DEF CloseArrives, SessionHasSocket
<1>5. CASE sock' = sock /\ (session' # "none" => session # "none")
  BY <1>5, SocketsKept
<1> QED
  BY <1>1, <1>2, <1>3, <1>4, <1>5
  DEF VaultNext, UnlockTimeout, ChatReconnects, ReceiveMail, Touch, SessionIdles, ClearStale,
      SessionLost, StartGet, RequestSecret, RequestUnlock, PromptTimeout, RetrySecret,
      AgentRestarts, vaultVars

---------------------------------------------------------------------------
(* The theorems *)

\* At first no socket is open and no request was made.
LEMMA VaultStarts == VaultInit => VaultTypeOK /\ VaultInv
<1> SUFFICES ASSUME VaultInit PROVE VaultTypeOK /\ VaultInv
  OBVIOUS
<1>1. VaultTypeOK
  <2>1. get \in [Gets -> GetType]
    BY GetRecords DEF VaultInit
  <2>2. <<>> \in Seq({"unlocked", "locked", "closed"})
    OBVIOUS
  <2> QED
    BY <2>1, <2>2 DEF VaultInit, VaultTypeOK, GetType
<1>2. \A g \in Gets : get[g].at = "idle"
  BY GetRecords DEF VaultInit
<1> QED
  BY <1>1, <1>2 DEF VaultInit, VaultInv, HasClient, WaitersHavePrompt, SessionHasSocket

\* The variables of Vault keep their types, and a request that is under way
\* keeps its client.
THEOREM VaultTypeCorrect == VaultSpec => [](VaultTypeOK /\ HasClient /\ WaitersHavePrompt)
  BY VaultStarts, VaultTypeStep, WaitersStep, PTL DEF VaultSpec, VaultInv

\* A request that waits for an unlock awaits the prompt that an unlock, a lock
\* or the timer will settle, for any number of requests, clients and restarts.
THEOREM WaitersAreHeard == VaultSpec => []WaitersHavePrompt
  BY VaultTypeCorrect, PTL

\* The vault is open only while some tab holds a vault socket that was not seen
\* to close, in whatever order the sockets of any number of tabs open and close.
THEOREM SessionIsHeld == VaultSpec => []SessionHasSocket
  BY VaultStarts, VaultTypeCorrect, SocketsStep, PTL DEF VaultSpec, VaultInv
=============================================================================
