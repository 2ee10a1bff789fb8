------------------------------- MODULE Vault -------------------------------
(***************************************************************************)
(* Secrets of a user while an agent runs: the vault of the user            *)
(* (UserSecretsStore.ts), the agent's client of it (SecretsClient.ts and   *)
(* codingAgent.ts) and the browser tabs that unlock it (vault-context.tsx, *)
(* chat.tsx).                                                              *)
(*                                                                         *)
(* The vault is open while it holds a session in memory.  A tab opens one  *)
(* with a vault socket of its own and tells the agent over its chat        *)
(* socket.  An agent that finds the vault locked shows a prompt, shared by *)
(* the requests of one SecretsClient, and waits.  A client, and a prompt,  *)
(* is named after the request that made it.                                *)
(***************************************************************************)
EXTENDS Sequences, FiniteSets, Naturals

CONSTANTS
  Tabs,          \* browser tabs of the user
  Unlocks,       \* bound: vault sockets a tab opens
  Gets,          \* bound: requests for a secret by the agent
  MaxMail,       \* bound: messages of a tab on their way to the agent
  NoGet          \* no client, no prompt

ASSUME VaultAssumption == NoGet \notin Gets /\ MaxMail \in Nat

VARIABLES
  session,       \* the vault's session: none, open, or stale (idle over 30 minutes)
  sock,          \* tab, unlock -> unused, opened, ready, known (to the tab), closing, closed
  tab,           \* what a tab shows: locked, unlocking or unlocked
  mail,          \* tab -> messages and closes of its chat socket, in order
  client,        \* secretsClient of the agent: the request that made it, or NoGet
  prompt,        \* client -> its unlockPromise: the request that made it, or NoGet
  get            \* request -> its progress, its client and the prompt it awaits

vaultVars == <<session, sock, tab, mail, client, prompt, get>>
vaultStore == <<session, sock>>
vaultAgent == <<client, prompt, get>>

Socks == Tabs \X Unlocks
NewGet == [at |-> "idle", of |-> NoGet, awaits |-> NoGet]
\* Answered with the secret, or with null.
Answered == [NewGet EXCEPT !.at = "answered"]

VaultTypeOK ==
  /\ session \in {"none", "open", "stale"}
  /\ sock \in [Socks -> {"unused", "opened", "ready", "known", "closing", "closed"}]
  /\ tab \in [Tabs -> {"locked", "unlocking", "unlocked"}]
  /\ mail \in [Tabs -> Seq({"unlocked", "locked", "closed"})]
  /\ client \in Gets \cup {NoGet}
  /\ prompt \in [Gets -> Gets \cup {NoGet}]
  /\ get \in [Gets -> [at : {"idle", "asking", "refused", "waiting", "retrying", "answered"},
                       of : Gets \cup {NoGet}, awaits : Gets \cup {NoGet}]]

VaultInit ==
  /\ session = "none" /\ sock = [s \in Socks |-> "unused"]
  /\ tab = [t \in Tabs |-> "locked"] /\ mail = [t \in Tabs |-> <<>>]
  /\ client = NoGet /\ prompt = [g \in Gets |-> NoGet] /\ get = [g \in Gets |-> NewGet]

Post(t, msgs) ==
  /\ Len(mail[t]) + Len(msgs) <= MaxMail
  /\ mail' = [mail EXCEPT ![t] = @ \o msgs]

---------------------------------------------------------------------------
(* A browser tab *)

\* The user gives the password: a vault socket is opened, which sends
\* vault_session_init.
OpenSession(t, u) ==
  /\ tab[t] = "locked" /\ sock[<<t, u>>] = "unused"
  /\ tab' = [tab EXCEPT ![t] = "unlocking"]
  /\ sock' = [sock EXCEPT ![<<t, u>>] = "opened"]
  /\ UNCHANGED <<session, mail>> /\ UNCHANGED vaultAgent

\* vault_session_ready: the tab tells the agent, unless it gave up waiting.
SessionReady(t, u) ==
  /\ sock[<<t, u>>] = "ready"
  /\ sock' = [sock EXCEPT ![<<t, u>>] = "known"]
  /\ IF tab[t] = "unlocking"
     THEN tab' = [tab EXCEPT ![t] = "unlocked"] /\ Post(t, <<"unlocked">>)
     ELSE UNCHANGED <<tab, mail>>
  /\ UNCHANGED session /\ UNCHANGED vaultAgent

\* Ten seconds without an answer: the unlock fails, its socket stays.
UnlockTimeout(t) ==
  /\ tab[t] = "unlocking"
  /\ tab' = [tab EXCEPT ![t] = "locked"]
  /\ UNCHANGED <<mail>> /\ UNCHANGED vaultStore /\ UNCHANGED vaultAgent

\* lockVault(): the session's socket says vault_session_close and closes.
Lock(t, u) ==
  /\ tab[t] = "unlocked" /\ sock[<<t, u>>] = "known"
  /\ tab' = [tab EXCEPT ![t] = "locked"]
  /\ sock' = [sock EXCEPT ![<<t, u>>] = "closing"]
  /\ Post(t, <<"locked">>)
  /\ UNCHANGED session /\ UNCHANGED vaultAgent

\* The page is closed and loaded again: every socket closes, the key is gone,
\* and the new chat socket reports a locked vault.
Reload(t) ==
  /\ tab' = [tab EXCEPT ![t] = "locked"]
  /\ sock' = [s \in Socks |-> IF s[1] = t /\ sock[s] \in {"opened", "ready", "known"}
                              THEN "closing" ELSE sock[s]]
  /\ Post(t, <<"closed", "locked">>)
  /\ UNCHANGED session /\ UNCHANGED vaultAgent

\* The chat socket drops and reconnects; the vault socket is another one.
ChatReconnects(t) ==
  /\ Post(t, IF tab[t] = "unlocked" THEN <<"closed", "unlocked">>
             ELSE IF tab[t] = "locked" THEN <<"closed", "locked">> ELSE <<"closed">>)
  /\ UNCHANGED <<tab>> /\ UNCHANGED vaultStore /\ UNCHANGED vaultAgent

---------------------------------------------------------------------------
(* The vault *)

\* handleSessionInit
InitArrives(s) ==
  /\ sock[s] = "opened"
  /\ sock' = [sock EXCEPT ![s] = "ready"]
  /\ session' = "open"
  /\ UNCHANGED <<tab, mail>> /\ UNCHANGED vaultAgent

CloseArrives_KeepsSession(s) ==
  /\ sock[s] = "closing"
  /\ sock' = [sock EXCEPT ![s] = "closed"]
  /\ UNCHANGED <<session, tab, mail>> /\ UNCHANGED vaultAgent

\* handleSessionClose, webSocketClose, webSocketError: whichever socket it
\* was, the session of the vault is gone.
CloseArrives(s) ==
  /\ sock[s] = "closing"
  /\ sock' = [sock EXCEPT ![s] = "closed"]
  /\ session' = "none"
  /\ UNCHANGED <<tab, mail>> /\ UNCHANGED vaultAgent

\* A tab reads or writes a secret: an idle session is refreshed or cleared.
Touch(s) ==
  /\ sock[s] = "known" /\ session = "stale"
  /\ session' = "none"
  /\ UNCHANGED <<sock, tab, mail>> /\ UNCHANGED vaultAgent

SessionIdles ==
  /\ session = "open" /\ session' = "stale"
  /\ UNCHANGED <<sock, tab, mail>> /\ UNCHANGED vaultAgent

\* The hourly alarm, and isVaultUnlocked.
ClearStale ==
  /\ session = "stale" /\ session' = "none"
  /\ UNCHANGED <<sock, tab, mail>> /\ UNCHANGED vaultAgent

\* The vault leaves memory while its sockets hibernate; or lockVault by RPC.
SessionLost ==
  /\ session # "none" /\ session' = "none"
  /\ UNCHANGED <<sock, tab, mail>> /\ UNCHANGED vaultAgent

---------------------------------------------------------------------------
(* The agent *)

\* getDecryptedSecret up to the RPC.
StartGet(g) ==
  /\ get[g].at = "idle"
  /\ client' = IF client = NoGet THEN g ELSE client
  /\ get' = [get EXCEPT ![g] = [NewGet EXCEPT !.at = "asking", !.of = client']]
  /\ UNCHANGED <<prompt, tab, mail>> /\ UNCHANGED vaultStore

\* requestSecret: only a vault without a session answers 'vault_locked'; a
\* session that has expired is cleared on the way.
RequestSecret(g) ==
  /\ get[g].at = "asking"
  /\ get' = IF session = "none" THEN [get EXCEPT ![g].at = "refused"]
            ELSE [get EXCEPT ![g] = Answered]
  /\ session' = IF session = "stale" THEN "none" ELSE session
  /\ UNCHANGED <<sock, tab, mail, client, prompt>>

RequestUnlock_Anew(g) ==
  /\ get[g].at = "refused"
  /\ prompt' = [prompt EXCEPT ![get[g].of] = g]
  /\ get' = [get EXCEPT ![g].at = "waiting", ![g].awaits = g]
  /\ UNCHANGED <<client, tab, mail>> /\ UNCHANGED vaultStore

\* The answer 'vault_locked' is back: share the client's prompt or show one.
RequestUnlock(g) ==
  /\ get[g].at = "refused"
  /\ LET c == get[g].of
         p == IF prompt[c] = NoGet THEN g ELSE prompt[c]
     IN  /\ prompt' = [prompt EXCEPT ![c] = p]
         /\ get' = [get EXCEPT ![g].at = "waiting", ![g].awaits = p]
  /\ UNCHANGED <<client, tab, mail>> /\ UNCHANGED vaultStore

\* A prompt of client c is settled: its waiters try again, or get null.
Settle(c, retry) ==
  /\ prompt' = [prompt EXCEPT ![c] = NoGet]
  /\ get' = [g \in Gets |->
               IF get[g].at = "waiting" /\ get[g].awaits = prompt[c]
               THEN IF retry THEN [get[g] EXCEPT !.at = "retrying", !.awaits = NoGet] ELSE Answered
               ELSE get[g]]

NotifyUnlocked ==
  /\ IF client = NoGet THEN UNCHANGED <<prompt, get>> ELSE Settle(client, TRUE)
  /\ UNCHANGED client

\* handleVaultLocked: the prompt is rejected and the client dropped.
NotifyLocked ==
  /\ IF client = NoGet THEN UNCHANGED <<prompt, get>> ELSE Settle(client, FALSE)
  /\ client' = NoGet

ReceiveMail(t) ==
  /\ mail[t] # <<>>
  /\ mail' = [mail EXCEPT ![t] = Tail(@)]
  /\ IF Head(mail[t]) = "unlocked" THEN NotifyUnlocked ELSE NotifyLocked
  /\ UNCHANGED tab /\ UNCHANGED vaultStore

PromptTimeout_Never(c) == FALSE

\* UNLOCK_TIMEOUT_MS; the timer lives as long as its prompt.
PromptTimeout(c) ==
  /\ prompt[c] # NoGet
  /\ Settle(c, FALSE)
  /\ UNCHANGED <<client, tab, mail>> /\ UNCHANGED vaultStore

\* The second requestSecret; a refusal is null this time.
RetrySecret(g) ==
  /\ get[g].at = "retrying"
  /\ get' = [get EXCEPT ![g] = Answered]
  /\ session' = IF session = "stale" THEN "none" ELSE session
  /\ UNCHANGED <<sock, tab, mail, client, prompt>>

\* The agent's Durable Object restarts: its requests die with it.
AgentRestarts ==
  /\ client # NoGet
  /\ client' = NoGet /\ prompt' = [c \in Gets |-> NoGet]
  /\ get' = [g \in Gets |-> IF get[g].at = "idle" THEN get[g] ELSE Answered]
  /\ UNCHANGED <<tab, mail>> /\ UNCHANGED vaultStore

---------------------------------------------------------------------------
VaultNext ==
  \/ \E t \in Tabs, u \in Unlocks : OpenSession(t, u) \/ SessionReady(t, u) \/ Lock(t, u)
  \/ \E t \in Tabs : UnlockTimeout(t) \/ Reload(t) \/ ChatReconnects(t) \/ ReceiveMail(t)
  \/ \E s \in Socks : InitArrives(s) \/ CloseArrives(s) \/ Touch(s)
  \/ SessionIdles \/ ClearStale \/ SessionLost
  \/ \E g \in Gets : \/ StartGet(g) \/ RequestSecret(g) \/ RequestUnlock(g)
                     \/ PromptTimeout(g) \/ RetrySecret(g)
  \/ AgentRestarts

VaultSpec == VaultInit /\ [][VaultNext]_vaultVars

\* The agent's calls return and its prompt timer fires.  No user has to act.
VaultFairness ==
  \A g \in Gets : /\ WF_vaultVars(RequestSecret(g) \/ RequestUnlock(g) \/ RetrySecret(g))
                  /\ WF_vaultVars(PromptTimeout(g))

---------------------------------------------------------------------------
(* Properties *)

\* The vault is open only while a tab holds a vault socket that was not seen
\* to close: closing the last tab locks it, in whatever order the sockets of
\* several tabs opened, timed out and closed.
SessionHasSocket ==
  session # "none" => \E s \in Socks : sock[s] \in {"ready", "known", "closing"}

\* A request that waits for an unlock awaits the prompt its client holds now,
\* the one that an unlock, a lock or the timer will settle: no prompt is
\* replaced or dropped with requests still waiting for it.
WaitersHavePrompt ==
  \A g \in Gets : get[g].at = "waiting" =>
    prompt[get[g].of] # NoGet /\ prompt[get[g].of] = get[g].awaits

\* A request for a secret is answered even if nobody unlocks the vault.
GetsEnd == \A g \in Gets : get[g].at = "asking" ~> get[g].at = "answered"
=============================================================================
