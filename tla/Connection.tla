----------------------------- MODULE Connection -----------------------------
(***************************************************************************)
(* The connection of an SDK client to its agent: createAgentConnection of  *)
(* sdk/src/ws.ts, and the one-time tickets that let it in                  *)
(* (wsTicketManager.ts in the agent's Durable Object).                     *)
(*                                                                         *)
(* The sockets a connection dials are numbered; socket k carries ticket k, *)
(* which getUrl() obtained for it.  Messages are the numbers 1, 2, ... in  *)
(* the order the caller sends them.                                        *)
(***************************************************************************)
EXTENDS Naturals, Sequences, FiniteSets

CONSTANTS
  MaxSockets,    \* bound: sockets dialled
  MaxSends,      \* bound: messages sent
  MaxRetries,    \* retryCfg.maxRetries
  MaxPending     \* maxPendingSends

ASSUME ConnectionAssumption ==
  /\ MaxSockets \in Nat /\ MaxSends \in Nat
  /\ MaxRetries \in Nat /\ MaxPending \in Nat \ {0}

VARIABLES
  closedByUser, isOpen,
  attempts,      \* reconnectAttempts
  timers,        \* reconnect timers that will fire; reconnectTimer is the newest
  fetching,      \* calls of connectNow that await getUrl()
  ws,            \* the current socket, 0 for none
  link,          \* socket -> unused, dialing, open, dropped (its close event is due) or closed
  tickets,       \* tickets the agent holds in memory
  pending,       \* pendingSends
  sends,         \* messages sent so far
  received       \* what the agent received

connVars == <<closedByUser, isOpen, attempts, timers, fetching, ws, link, tickets,
              pending, sends, received>>

Sockets == 1 .. MaxSockets

ConnTypeOK ==
  /\ closedByUser \in BOOLEAN /\ isOpen \in BOOLEAN
  /\ attempts \in 0 .. MaxRetries
  /\ timers \in Nat /\ fetching \in Nat
  /\ ws \in 0 .. MaxSockets
  /\ link \in [Sockets -> {"unused", "dialing", "open", "dropped", "closed"}]
  /\ tickets \subseteq Sockets
  /\ pending \in Seq(1 .. MaxSends) /\ Len(pending) <= MaxPending
  /\ sends \in 0 .. MaxSends
  /\ received \in Seq(1 .. MaxSends)

\* createAgentConnection ends with `void connectNow()`.
ConnInit ==
  /\ closedByUser = FALSE /\ isOpen = FALSE
  /\ attempts = 0 /\ timers = 0 /\ fetching = 1 /\ ws = 0
  /\ link = [k \in Sockets |-> "unused"] /\ tickets = {}
  /\ pending = <<>> /\ sends = 0 /\ received = <<>>

---------------------------------------------------------------------------
ScheduleReconnect_Again(calls) ==
  IF closedByUser \/ attempts >= MaxRetries THEN UNCHANGED <<timers, attempts>>
  ELSE timers' = timers + calls /\ attempts' = attempts + 1

\* scheduleReconnect, called `calls` times by one event: the first call sets the
\* timer, the others see it.
ScheduleReconnect(calls) ==
  IF closedByUser \/ attempts >= MaxRetries \/ timers > 0
  THEN UNCHANGED <<timers, attempts>>
  ELSE timers' = timers + 1 /\ attempts' = attempts + 1

ReconnectFires_KeepsTimer ==
  /\ timers > 0
  /\ timers' = timers
  /\ fetching < MaxSockets
  /\ fetching' = IF closedByUser THEN fetching ELSE fetching + 1
  /\ UNCHANGED <<closedByUser, isOpen, attempts, ws, link, tickets, pending, sends, received>>

\* The reconnect timer calls connectNow, which asks for a url.
ReconnectFires ==
  /\ timers > 0
  /\ timers' = timers - 1
  /\ fetching' = IF closedByUser THEN fetching ELSE fetching + 1
  /\ UNCHANGED <<closedByUser, isOpen, attempts, ws, link, tickets, pending, sends, received>>

\* getUrl() has stored a fresh ticket in the agent; the socket is dialled even
\* if close() was called meanwhile.
UrlArrives ==
  /\ fetching > 0
  /\ fetching' = fetching - 1
  /\ \E k \in Sockets :
       /\ link[k] = "unused" /\ \A j \in 1 .. k - 1 : link[j] # "unused"
       /\ ws' = k
       /\ link' = [link EXCEPT ![k] = "dialing"]
       /\ tickets' = tickets \cup {k}
  /\ UNCHANGED <<closedByUser, isOpen, attempts, timers, pending, sends, received>>

UrlFails ==
  /\ fetching > 0
  /\ fetching' = fetching - 1
  /\ ScheduleReconnect(1)
  /\ UNCHANGED <<closedByUser, isOpen, ws, link, tickets, pending, sends, received>>

---------------------------------------------------------------------------
(* The agent *)

Opened_KeepsQueue(k) ==
  /\ link' = [link EXCEPT ![k] = "open"]
  /\ isOpen' = TRUE /\ attempts' = 0
  /\ received' = received \o pending /\ UNCHANGED pending

\* onOpen: the retries start again and what was queued is sent first.
Opened(k) ==
  /\ link' = [link EXCEPT ![k] = "open"]
  /\ isOpen' = TRUE /\ attempts' = 0
  /\ received' = received \o pending /\ pending' = <<>>

\* consumeWsTicket finds the ticket, deletes it and lets the socket in.
Accept(k) ==
  /\ link[k] = "dialing" /\ k \in tickets
  /\ tickets' = tickets \ {k}
  /\ Opened(k)
  /\ UNCHANGED <<closedByUser, timers, fetching, ws, sends>>

\* No such ticket, or it has expired, or the network: 'error', then 'close'.
Refuse(k) ==
  /\ link[k] = "dialing"
  /\ link' = [link EXCEPT ![k] = "closed"]
  /\ tickets' = tickets \ {k}
  /\ isOpen' = FALSE
  /\ ScheduleReconnect(2)
  /\ UNCHANGED <<closedByUser, fetching, ws, pending, sends, received>>

\* The connection breaks; the client will hear of it.
Drop(k) ==
  /\ link[k] = "open"
  /\ link' = [link EXCEPT ![k] = "dropped"]
  /\ UNCHANGED <<closedByUser, isOpen, attempts, timers, fetching, ws, tickets,
                 pending, sends, received>>

CloseEvent_StaysOpen(k) ==
  /\ link[k] = "dropped"
  /\ link' = [link EXCEPT ![k] = "closed"]
  /\ ScheduleReconnect(1)
  /\ UNCHANGED <<closedByUser, isOpen, fetching, ws, tickets, pending, sends, received>>

\* onClose
CloseEvent(k) ==
  /\ link[k] = "dropped"
  /\ link' = [link EXCEPT ![k] = "closed"]
  /\ isOpen' = FALSE
  /\ ScheduleReconnect(1)
  /\ UNCHANGED <<closedByUser, fetching, ws, tickets, pending, sends, received>>

\* The agent restarts: its tickets are lost and its sockets break.
AgentLost ==
  /\ tickets # {}
  /\ tickets' = {}
  /\ link' = [k \in Sockets |-> IF link[k] = "open" THEN "dropped" ELSE link[k]]
  /\ UNCHANGED <<closedByUser, isOpen, attempts, timers, fetching, ws, pending, sends, received>>

---------------------------------------------------------------------------
(* The caller *)

\* send(): at once on an open connection (lost if the socket broke unheard),
\* queued otherwise; a full queue drops its oldest message.
Send ==
  /\ sends < MaxSends
  /\ sends' = sends + 1
  /\ IF isOpen /\ ws # 0
     THEN /\ received' = IF link[ws] = "open" THEN Append(received, sends') ELSE received
          /\ UNCHANGED pending
     ELSE /\ pending' = LET q == Append(pending, sends')
                        IN IF Len(q) > MaxPending THEN Tail(q) ELSE q
          /\ UNCHANGED received
  /\ UNCHANGED <<closedByUser, isOpen, attempts, timers, fetching, ws, link, tickets>>

\* close(): what connectNow awaits is not cancelled.
UserCloses ==
  /\ ~closedByUser
  /\ closedByUser' = TRUE /\ isOpen' = FALSE /\ pending' = <<>> /\ timers' = 0 /\ ws' = 0
  /\ link' = IF ws # 0 /\ link[ws] \in {"dialing", "open"}
             THEN [link EXCEPT ![ws] = "dropped"] ELSE link
  /\ UNCHANGED <<attempts, fetching, tickets, sends, received>>

---------------------------------------------------------------------------
ConnNext ==
  \/ ReconnectFires \/ UrlArrives \/ UrlFails \/ AgentLost \/ Send \/ UserCloses
  \/ \E k \in Sockets : Accept(k) \/ Refuse(k) \/ Drop(k) \/ CloseEvent(k)

ConnSpec == ConnInit /\ [][ConnNext]_connVars

\* Timers fire, a dial is answered one way or the other, a broken socket is
\* noticed.  A request for a url ends too; nothing is assumed of the very first
\* one, which is made before there is a connection to keep.
ConnFairness ==
  /\ WF_connVars(ReconnectFires) /\ WF_connVars(ws # 0 /\ (UrlArrives \/ UrlFails))
  /\ \A k \in Sockets : WF_connVars(Accept(k) \/ Refuse(k)) /\ WF_connVars(CloseEvent(k))

---------------------------------------------------------------------------
(* Properties *)

\* A connection never has two live sockets (each message of the agent would be
\* handled twice), whatever the order of failures, timers and url requests.
OneSocket ==
  \A j, k \in Sockets : link[j] \in {"dialing", "open"} /\ link[k] \in {"dialing", "open"} => j = k

\* While the connection is thought open, the current socket is open or its
\* close event is on the way: what is sent is not swallowed for good.
OpenIsTrue == isOpen => ws # 0 /\ link[ws] \in {"open", "dropped"}

\* The agent receives the messages in the order they were sent, each at most
\* once, over reconnects, the queue and its overflow.
InOrder == \A i, j \in 1 .. Len(received) : i < j => received[i] < received[j]

\* A connection that has dialled and is not open opens, runs out of retries or
\* is closed: a lost socket, an expired ticket or an agent that restarted and
\* forgot its tickets is dialled again.
Reconnects == (ws # 0 /\ ~isOpen) ~> (isOpen \/ closedByUser \/ attempts = MaxRetries)
=============================================================================
