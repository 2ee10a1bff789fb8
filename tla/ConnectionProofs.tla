-------------------------- MODULE ConnectionProofs --------------------------
(***************************************************************************)
(* OneSocket, OpenIsTrue and InOrder hold for any number of sockets,       *)
(* messages, retries and places in the queue.  The first two rest on       *)
(* OneAttempt: a timer, a request for a url and a socket whose close is    *)
(* not heard exclude each other, which scheduleReconnect keeps by setting  *)
(* no second timer.  InOrder rests on MessagesInOrder, which extends it to *)
(* the queue.  KeepsTrying says that a connection that is down has another *)
(* try under way until the retries are used up.                            *)
(***************************************************************************)
EXTENDS Connection, SequenceTheorems, TLAPS

Active(k) == link[k] \in {"dialing", "open", "dropped"}

\* At most one attempt to connect is under way or has succeeded.
OneAttempt ==
  /\ timers + fetching <= 1
  /\ \A k \in Sockets : Active(k) => timers = 0 /\ fetching = 0
  /\ \A j, k \in Sockets : Active(j) /\ Active(k) => j = k

\* A socket that may open, or is open, is the current one.
LiveIsCurrent == \A k \in Sockets : link[k] \in {"dialing", "open"} => ws = k

Ordered(s) == \A i, j \in 1 .. Len(s) : i < j => s[i] < s[j]

\* What was received was sent before what is queued, in the order of sending.
MessagesInOrder ==
  /\ Ordered(received) /\ Ordered(pending)
  /\ \A i \in 1 .. Len(received), j \in 1 .. Len(pending) : received[i] < pending[j]
  /\ \A i \in 1 .. Len(received) : received[i] <= sends
  /\ \A i \in 1 .. Len(pending) : pending[i] <= sends
  /\ isOpen => pending = <<>>

ConnInv == OneAttempt /\ LiveIsCurrent /\ OpenIsTrue /\ MessagesInOrder

---------------------------------------------------------------------------
(* Sequences of messages *)

\* A later message at the end keeps the order.
LEMMA AppendOrdered ==
  ASSUME NEW s \in Seq(Nat), NEW m \in Nat, Ordered(s), \A i \in 1 .. Len(s) : s[i] < m
  PROVE  /\ Append(s, m) \in Seq(Nat) /\ Len(Append(s, m)) = Len(s) + 1
         /\ Ordered(Append(s, m)) /\ \A i \in 1 .. Len(Append(s, m)) : Append(s, m)[i] <= m
  BY DEF Ordered

\* The oldest message is dropped: the others keep their order.
LEMMA TailOrdered ==
  ASSUME NEW s \in Seq(Nat), s # <<>>, Ordered(s)
  PROVE  /\ Tail(s) \in Seq(Nat) /\ Len(Tail(s)) = Len(s) - 1 /\ Ordered(Tail(s))
         /\ \A i \in 1 .. Len(Tail(s)) : i + 1 \in 1 .. Len(s) /\ Tail(s)[i] = s[i + 1]
  BY DEF Ordered

\* The queue is sent after what was received.
LEMMA ConcatOrdered ==
  ASSUME NEW s \in Seq(Nat), NEW q \in Seq(Nat), Ordered(s), Ordered(q),
         \A i \in 1 .. Len(s), j \in 1 .. Len(q) : s[i] < q[j]
  PROVE  /\ Len(s \o q) = Len(s) + Len(q) /\ Ordered(s \o q)
         /\ \A i \in 1 .. Len(s \o q) : (s \o q)[i] = IF i <= Len(s) THEN s[i] ELSE q[i - Len(s)]
<1>1. Len(s \o q) = Len(s) + Len(q) /\ Len(s) \in Nat /\ Len(q) \in Nat
  OBVIOUS
<1>2. \A i \in 1 .. Len(s \o q) : (s \o q)[i] = IF i <= Len(s) THEN s[i] ELSE q[i - Len(s)]
  BY <1>1
<1>3. Ordered(s \o q)
  <2> SUFFICES ASSUME NEW i \in 1 .. Len(s \o q), NEW j \in 1 .. Len(s \o q), i < j
               PROVE  (s \o q)[i] < (s \o q)[j]
    BY DEF Ordered
  <2>1. CASE j <= Len(s)
    BY <1>1, <1>2, <2>1 DEF Ordered
  <2>2. CASE i <= Len(s) /\ ~(j <= Len(s))
    <3>1. j - Len(s) \in 1 .. Len(q) /\ i \in 1 .. Len(s)
      BY <1>1, <2>2
    <3> QED
      BY <1>2, <2>2, <3>1
  <2>3. CASE ~(i <= Len(s))
    <3>1. i - Len(s) \in 1 .. Len(q) /\ j - Len(s) \in 1 .. Len(q) /\ i - Len(s) < j - Len(s)
          /\ ~(j <= Len(s))
      BY <1>1, <2>3
    <3> QED
      BY <1>2, <2>3, <3>1 DEF Ordered
  <2> QED
    BY <2>1, <2>2, <2>3
<1> QED
  BY <1>1, <1>2, <1>3

---------------------------------------------------------------------------
(* Types *)

\* scheduleReconnect sets at most one timer, and none beside another.
LEMMA ScheduleEffect ==
  ASSUME ConnTypeOK, NEW calls \in Nat, ScheduleReconnect(calls)
  PROVE  /\ timers' \in Nat /\ attempts' \in 0 .. MaxRetries
         /\ timers' = timers \/ (timers = 0 /\ timers' = 1)
  BY ConnectionAssumption DEF ConnTypeOK, ScheduleReconnect

\* Messages are natural numbers.
LEMMA MessagesAreNumbers ==
  ASSUME NEW s \in Seq(1 .. MaxSends)
  PROVE  /\ s \in Seq(Nat)
         /\ \A m \in 1 .. MaxSends : Append(s, m) \in Seq(1 .. MaxSends)
         /\ s # <<>> => Tail(s) \in Seq(1 .. MaxSends)
<1>1. s \in [1 .. Len(s) -> 1 .. MaxSends] /\ Len(s) \in Nat
  BY LenProperties
<1>2. s \in Seq(Nat)
  BY <1>1
<1> QED
  BY <1>2

\* A message that is sent is a new number, and the queue stays in its bound.
LEMMA SendEffect ==
  ASSUME ConnTypeOK, OpenIsTrue, MessagesInOrder, Send
  PROVE  /\ sends' = sends + 1 /\ sends' \in 1 .. MaxSends
         /\ received' \in Seq(1 .. MaxSends) /\ pending' \in Seq(1 .. MaxSends)
         /\ Len(pending') <= MaxPending
         /\ MessagesInOrder'
<1>1. /\ sends \in Nat /\ sends' = sends + 1 /\ sends' \in 1 .. MaxSends /\ sends' \in Nat
      /\ MaxPending \in Nat \ {0} /\ isOpen' = isOpen
  BY ConnectionAssumption DEF ConnTypeOK, Send
<1>2. /\ received \in Seq(1 .. MaxSends) /\ pending \in Seq(1 .. MaxSends)
      /\ received \in Seq(Nat) /\ pending \in Seq(Nat) /\ Len(pending) <= MaxPending
  BY MessagesAreNumbers DEF ConnTypeOK
<1>3. CASE isOpen /\ ws # 0
  <2>1. pending' = <<>> /\ pending' = pending
        /\ (received' = received \/ received' = Append(received, sends'))
    BY <1>3 DEF Send, MessagesInOrder
  <2>2. /\ Ordered(received') /\ received' \in Seq(1 .. MaxSends)
        /\ \A i \in 1 .. Len(received') : received'[i] <= sends'
    <3>1. CASE received' = received
      BY <1>1, <1>2, <3>1 DEF MessagesInOrder
    <3>2. CASE received' = Append(received, sends')
      <4>1. \A i \in 1 .. Len(received) : received[i] < sends'
        BY <1>1, <1>2 DEF MessagesInOrder
      <4>2. Ordered(received)
        BY DEF MessagesInOrder
      <4>3. received' \in Seq(1 .. MaxSends)
        BY <1>1, <1>2, <3>2, MessagesAreNumbers
      <4> QED
        BY <1>1, <1>2, <3>2, <4>1, <4>2, <4>3, AppendOrdered
    <3> QED
      BY <2>1, <3>1, <3>2
  <2>3. MessagesInOrder'
    BY <1>1, <2>1, <2>2 DEF MessagesInOrder, Ordered
  <2> QED
    BY <1>1, <1>2, <2>1, <2>2, <2>3
<1>4. CASE ~(isOpen /\ ws # 0)
  <2> DEFINE q == Append(pending, sends')
  <2>1. received' = received /\ pending' = IF Len(q) > MaxPending THEN Tail(q) ELSE q
    BY <1>4 DEF Send
  <2>2. \A i \in 1 .. Len(pending) : pending[i] < sends'
    BY <1>1, <1>2 DEF MessagesInOrder
  <2>a. Ordered(pending)
    BY DEF MessagesInOrder
  <2>3. /\ q \in Seq(1 .. MaxSends) /\ q \in Seq(Nat) /\ q # <<>> /\ Len(q) = Len(pending) + 1
        /\ Ordered(q) /\ \A i \in 1 .. Len(q) : q[i] <= sends'
    <3>1. q \in Seq(1 .. MaxSends)
      BY <1>1, <1>2, MessagesAreNumbers
    <3>2. /\ q \in Seq(Nat) /\ Len(q) = Len(pending) + 1
          /\ Ordered(q) /\ \A i \in 1 .. Len(q) : q[i] <= sends'
      BY <1>1, <1>2, <2>2, <2>a, AppendOrdered
    <3>3. q # <<>>
      BY <1>2
    <3> QED
      BY <3>1, <3>2, <3>3
  <2>4. \A i \in 1 .. Len(received), j \in 1 .. Len(q) : received[i] < q[j]
    BY <1>1, <1>2 DEF MessagesInOrder
  <2> HIDE DEF q
  <2>5. /\ pending' \in Seq(1 .. MaxSends) /\ Len(pending') <= MaxPending /\ Ordered(pending')
        /\ \A i \in 1 .. Len(pending') : pending'[i] <= sends'
        /\ \A i \in 1 .. Len(received), j \in 1 .. Len(pending') : received[i] < pending'[j]
    <3>1. CASE Len(q) > MaxPending
      BY <1>1, <1>2, <2>1, <2>3, <2>4, <3>1, TailOrdered, MessagesAreNumbers
    <3>2. CASE ~(Len(q) > MaxPending)
      BY <1>1, <1>2, <2>1, <2>3, <2>4, <3>2
    <3> QED
      BY <3>1, <3>2
  <2>6. \A i \in 1 .. Len(received) : received[i] <= sends'
    BY <1>1, <1>2 DEF MessagesInOrder
  <2>7. ~isOpen' /\ Ordered(received')
    BY <1>1, <1>4, <2>1 DEF OpenIsTrue, MessagesInOrder
  <2> QED
    BY <1>1, <1>2, <2>1, <2>5, <2>6, <2>7 DEF MessagesInOrder, Ordered
<1> QED
  BY <1>3, <1>4

\* What is queued when a connection opens is received after the rest, in order.
LEMMA OpenedEffect ==
  ASSUME ConnTypeOK, MessagesInOrder, NEW k \in Sockets, Opened(k), sends' = sends
  PROVE  received' \in Seq(1 .. MaxSends) /\ pending' = <<>> /\ MessagesInOrder'
<1>1. /\ received \in Seq(1 .. MaxSends) /\ pending \in Seq(1 .. MaxSends)
      /\ received \in Seq(Nat) /\ pending \in Seq(Nat) /\ sends \in Nat
  BY MessagesAreNumbers, ConnectionAssumption DEF ConnTypeOK
<1>2. received' = received \o pending /\ pending' = <<>>
  BY DEF Opened
<1>3. received' \in Seq(1 .. MaxSends)
  BY <1>1, <1>2
<1>4. /\ Len(received') = Len(received) + Len(pending) /\ Ordered(received')
      /\ \A i \in 1 .. Len(received') :
           received'[i] = IF i <= Len(received) THEN received[i] ELSE pending[i - Len(received)]
  BY <1>1, <1>2, ConcatOrdered DEF MessagesInOrder
<1>5. ASSUME NEW i \in 1 .. Len(received') PROVE received'[i] <= sends'
  <2>1. CASE i <= Len(received)
    BY <1>1, <1>4, <2>1 DEF MessagesInOrder
  <2>2. CASE ~(i <= Len(received))
    <3>1. i - Len(received) \in 1 .. Len(pending)
      BY <1>1, <1>4, <2>2
    <3> QED
      BY <1>4, <2>2, <3>1 DEF MessagesInOrder
  <2> QED
    BY <2>1, <2>2
<1> QED
  BY <1>2, <1>3, <1>4, <1>5 DEF MessagesInOrder, Ordered

\* Every step keeps the variables in their types.
LEMMA ConnTypeStep ==
  ConnTypeOK /\ OpenIsTrue /\ MessagesInOrder /\ [ConnNext]_connVars => ConnTypeOK'
<1> SUFFICES ASSUME ConnTypeOK, OpenIsTrue, MessagesInOrder, [ConnNext]_connVars
             PROVE  ConnTypeOK'
  OBVIOUS
<1>a. /\ 0 \in 0 .. MaxRetries /\ 0 \in 0 .. MaxSockets /\ MaxPending \in Nat
      /\ \A k \in Sockets : k \in 0 .. MaxSockets
      /\ \A n \in 1 .. MaxSends : n \in 0 .. MaxSends
  BY ConnectionAssumption DEF Sockets
<1>b. <<>> \in Seq(1 .. MaxSends) /\ Len(<<>>) <= MaxPending
  BY <1>a
<1>1. CASE ReconnectFires
  BY <1>1 DEF ReconnectFires, ConnTypeOK
<1>2. CASE UrlArrives
  BY <1>2, <1>a DEF UrlArrives, ConnTypeOK
<1>3. CASE UrlFails
  BY <1>3, ScheduleEffect DEF UrlFails, ConnTypeOK
<1>4. CASE AgentLost
  BY <1>4 DEF AgentLost, ConnTypeOK
<1>5. CASE Send
  BY <1>5, <1>a, SendEffect DEF Send, ConnTypeOK
<1>6. CASE UserCloses
  BY <1>6, <1>a, <1>b DEF UserCloses, ConnTypeOK, Sockets
<1>7. ASSUME NEW k \in Sockets, Accept(k) PROVE ConnTypeOK'
  <2>1. received' \in Seq(1 .. MaxSends) /\ pending' = <<>>
    BY <1>7, OpenedEffect DEF Accept
  <2> QED
    BY <1>7, <1>a, <1>b, <2>1 DEF Accept, Opened, ConnTypeOK
<1>8. ASSUME NEW k \in Sockets, Refuse(k) PROVE ConnTypeOK'
  BY <1>8, ScheduleEffect DEF Refuse, ConnTypeOK
<1>9. ASSUME NEW k \in Sockets, Drop(k) PROVE ConnTypeOK'
  BY <1>9 DEF Drop, ConnTypeOK
<1>10. ASSUME NEW k \in Sockets, CloseEvent(k) PROVE ConnTypeOK'
  BY <1>10, ScheduleEffect DEF CloseEvent, ConnTypeOK
<1>11. CASE UNCHANGED connVars
  BY <1>11 DEF connVars, ConnTypeOK
<1> QED
  BY <1>1, <1>2, <1>3, <1>4, <1>5, <1>6, <1>7, <1>8, <1>9, <1>10, <1>11 DEF ConnNext

---------------------------------------------------------------------------
(* One attempt, one socket *)

SocketInv == OneAttempt /\ LiveIsCurrent /\ OpenIsTrue

\* A socket closes: nothing else was active, so a timer may be set.
LEMMA CloseKeeps ==
  ASSUME ConnTypeOK, SocketInv, NEW k \in Sockets, Active(k),
         link' = [link EXCEPT ![k] = "closed"], NEW calls \in Nat, ScheduleReconnect(calls),
         isOpen' = FALSE, fetching' = fetching, ws' = ws
  PROVE  SocketInv'
<1>1. /\ \A j \in Sockets : ~Active(j)'
      /\ \A j \in Sockets : link'[j] \notin {"dialing", "open"}
  BY DEF SocketInv, OneAttempt, Active, ConnTypeOK
<1>2. timers = 0 /\ fetching = 0 /\ (timers' = 0 \/ timers' = 1)
  BY ScheduleEffect DEF SocketInv, OneAttempt
<1> QED
  BY <1>1, <1>2 DEF SocketInv, OneAttempt, LiveIsCurrent, OpenIsTrue

\* A socket that opens or breaks is the one that was active, and stays active.
LEMMA ActiveKeeps ==
  ASSUME ConnTypeOK, SocketInv, link' \in [Sockets -> {"unused", "dialing", "open", "dropped", "closed"}],
         \A k \in Sockets : Active(k)' <=> Active(k),
         \A k \in Sockets : link'[k] \in {"dialing", "open"} => link[k] \in {"dialing", "open"},
         \A k \in Sockets : link[k] = "dropped" => link'[k] = "dropped",
         UNCHANGED <<timers, fetching, ws>>,
         isOpen' => ws # 0 /\ link'[ws] \in {"open", "dropped"}
  PROVE  SocketInv'
<1>1. OneAttempt'
  BY DEF SocketInv, OneAttempt, Sockets
<1>2. LiveIsCurrent'
  BY DEF SocketInv, LiveIsCurrent, Sockets
<1> QED
  BY <1>1, <1>2 DEF SocketInv, OpenIsTrue

\* Every step keeps at most one attempt, and the current socket current.
LEMMA SocketStep == ConnTypeOK /\ SocketInv /\ [ConnNext]_connVars => SocketInv'
<1> SUFFICES ASSUME ConnTypeOK, SocketInv, [ConnNext]_connVars PROVE SocketInv'
  OBVIOUS
<1>a. timers \in Nat /\ fetching \in Nat /\ ws \in 0 .. MaxSockets /\ MaxSockets \in Nat
      /\ link \in [Sockets -> {"unused", "dialing", "open", "dropped", "closed"}]
  BY ConnectionAssumption DEF ConnTypeOK
<1>b. ws # 0 => ws \in Sockets
  BY <1>a DEF Sockets
<1>c. timers > 0 \/ fetching > 0 => ~isOpen /\ \A k \in Sockets : ~Active(k)
  BY <1>a, <1>b DEF SocketInv, OneAttempt, OpenIsTrue, Active
<1>1. CASE ReconnectFires
  <2>1. timers' + fetching' <= 1
    BY <1>1, <1>a DEF ReconnectFires, SocketInv, OneAttempt
  <2> QED
    BY <1>1, <1>a, <1>c, <2>1
    DEF ReconnectFires, SocketInv, OneAttempt, LiveIsCurrent, OpenIsTrue, Active, Sockets
<1>2. CASE UrlArrives
  <2>1. PICK k \in Sockets : link[k] = "unused" /\ ws' = k /\ link' = [link EXCEPT ![k] = "dialing"]
    BY <1>2 DEF UrlArrives
  <2>2. timers' = 0 /\ fetching' = 0 /\ ~isOpen'
    BY <1>2, <1>a, <1>c DEF UrlArrives, SocketInv, OneAttempt
  <2>3. \A j \in Sockets : Active(j)' => j = k
    BY <1>2, <1>a, <1>c, <2>1 DEF UrlArrives, Active
  <2>4. \A j \in Sockets : link'[j] \in {"dialing", "open"} => j = k
    BY <2>3 DEF Active
  <2> QED
    BY <2>1, <2>2, <2>3, <2>4 DEF SocketInv, OneAttempt, LiveIsCurrent, OpenIsTrue, Sockets
<1>3. CASE UrlFails
  <2>1. timers' + fetching' <= 1
    BY <1>3, <1>a, ScheduleEffect DEF UrlFails, SocketInv, OneAttempt
  <2> QED
    BY <1>3, <1>a, <1>c, <2>1
    DEF UrlFails, SocketInv, OneAttempt, LiveIsCurrent, OpenIsTrue, Active, Sockets
<1>4. CASE AgentLost
  <2>1. \A k \in Sockets : link'[k] = IF link[k] = "open" THEN "dropped" ELSE link[k]
    BY <1>4 DEF AgentLost
  <2> QED
    BY <1>4, <1>a, <1>b, <2>1, ActiveKeeps DEF AgentLost, Active, SocketInv, OpenIsTrue
<1>5. CASE Send
  BY <1>5 DEF Send, SocketInv, OneAttempt, LiveIsCurrent, OpenIsTrue, Active, Sockets
<1>6. CASE UserCloses
  <2>1. \A k \in Sockets : Active(k)' <=> Active(k)
    BY <1>6, <1>a, <1>b DEF UserCloses, Active
  <2>2. \A k \in Sockets : link'[k] \notin {"dialing", "open"}
    BY <1>6, <1>a, <1>b DEF UserCloses, SocketInv, LiveIsCurrent
  <2>3. timers' = 0 /\ fetching' = fetching /\ ~isOpen'
    BY <1>6 DEF UserCloses
  <2> QED
    BY <1>a, <2>1, <2>2, <2>3 DEF SocketInv, OneAttempt, LiveIsCurrent, OpenIsTrue, Sockets
<1>7. ASSUME NEW k \in Sockets, Accept(k) PROVE SocketInv'
  <2>1. link[k] = "dialing" /\ link' = [link EXCEPT ![k] = "open"] /\ ws = k /\ k # 0
        /\ UNCHANGED <<timers, fetching, ws>>
    BY <1>7 DEF Accept, Opened, SocketInv, LiveIsCurrent, Sockets
  <2> QED
    BY <1>a, <2>1, ActiveKeeps DEF Active
<1>8. ASSUME NEW k \in Sockets, Refuse(k) PROVE SocketInv'
  BY <1>8, CloseKeeps DEF Refuse, Active
<1>9. ASSUME NEW k \in Sockets, Drop(k) PROVE SocketInv'
  <2>1. link[k] = "open" /\ link' = [link EXCEPT ![k] = "dropped"]
        /\ UNCHANGED <<timers, fetching, ws, isOpen>>
    BY <1>9 DEF Drop
  <2> QED
    BY <1>a, <1>b, <2>1, ActiveKeeps DEF Active, SocketInv, OpenIsTrue
<1>10. ASSUME NEW k \in Sockets, CloseEvent(k) PROVE SocketInv'
  BY <1>10, CloseKeeps DEF CloseEvent, Active
<1>11. CASE UNCHANGED connVars
  BY <1>11 DEF connVars, SocketInv, OneAttempt, LiveIsCurrent, OpenIsTrue, Active, Sockets
<1> QED
  BY <1>1, <1>2, <1>3, <1>4, <1>5, <1>6, <1>7, <1>8, <1>9, <1>10, <1>11 DEF ConnNext

---------------------------------------------------------------------------
(* The order of messages *)

\* Every step keeps what was received, and is queued, in the order of sending.
LEMMA OrderStep ==
  ConnTypeOK /\ OpenIsTrue /\ MessagesInOrder /\ [ConnNext]_connVars => MessagesInOrder'
<1> SUFFICES ASSUME ConnTypeOK, OpenIsTrue, MessagesInOrder, [ConnNext]_connVars
             PROVE  MessagesInOrder'
  OBVIOUS
<1>1. CASE UNCHANGED <<received, pending, sends>> /\ (isOpen' => isOpen)
  BY <1>1 DEF MessagesInOrder, Ordered
<1>2. CASE Send
  BY <1>2, SendEffect
<1>3. CASE UserCloses
  BY <1>3 DEF UserCloses, MessagesInOrder, Ordered
<1>4. ASSUME NEW k \in Sockets, Accept(k) PROVE MessagesInOrder'
  BY <1>4, OpenedEffect DEF Accept
<1> QED
  BY <1>1, <1>2, <1>3, <1>4
  DEF ConnNext, ReconnectFires, UrlArrives, UrlFails, AgentLost, Refuse, Drop, CloseEvent, connVars

---------------------------------------------------------------------------
(* The theorems *)

\* The connection starts with its first request for a url.
LEMMA ConnStarts == ConnInit => ConnTypeOK /\ ConnInv
<1> SUFFICES ASSUME ConnInit PROVE ConnTypeOK /\ ConnInv
  OBVIOUS
<1>1. ConnTypeOK
  <2>1. 0 \in 0 .. MaxRetries /\ 0 \in 0 .. MaxSockets /\ 0 \in 0 .. MaxSends
    BY ConnectionAssumption
  <2>2. <<>> \in Seq(1 .. MaxSends) /\ Len(<<>>) <= MaxPending
    BY ConnectionAssumption
  <2> QED
    BY <2>1, <2>2 DEF ConnInit, ConnTypeOK
<1>2. \A k \in Sockets : link[k] = "unused"
  BY DEF ConnInit
<1>3. OneAttempt /\ LiveIsCurrent /\ OpenIsTrue
  BY <1>2 DEF ConnInit, OneAttempt, LiveIsCurrent, OpenIsTrue, Active
<1>4. MessagesInOrder
  BY DEF ConnInit, MessagesInOrder, Ordered
<1> QED
  BY <1>1, <1>3, <1>4 DEF ConnInv

\* The variables of Connection keep their types (the queue its bound, the
\* retries theirs) and its inductive invariant holds.
THEOREM ConnTypeCorrect == ConnSpec => [](ConnTypeOK /\ ConnInv)
<1>1. ConnTypeOK /\ ConnInv /\ [ConnNext]_connVars => ConnTypeOK' /\ ConnInv'
  BY ConnTypeStep, SocketStep, OrderStep DEF ConnInv, SocketInv
<1> QED
  BY <1>1, ConnStarts, PTL DEF ConnSpec

\* A connection never has two live sockets, whatever the order of failures,
\* timers, requests for a url and restarts of the agent.
THEOREM NeverTwoSockets == ConnSpec => []OneSocket
<1>1. ConnInv => OneSocket
  BY DEF ConnInv, LiveIsCurrent, OneSocket
<1> QED
  BY <1>1, ConnTypeCorrect, PTL

\* What is sent on a connection thought open reaches a socket that is open, or
\* whose close will be heard.
THEOREM OpenMeansSocket == ConnSpec => []OpenIsTrue
<1>1. ConnInv => OpenIsTrue
  BY DEF ConnInv
<1> QED
  BY <1>1, ConnTypeCorrect, PTL

\* The agent receives each message at most once and in the order of sending,
\* over any number of reconnects and overflows of the queue.
THEOREM ReceivedInOrder == ConnSpec => []InOrder
<1>1. ConnInv => InOrder
  BY DEF ConnInv, MessagesInOrder, Ordered, InOrder
<1> QED
  BY <1>1, ConnTypeCorrect, PTL

---------------------------------------------------------------------------
(* A lost connection is dialled again *)

\* Something is under way that ends in an open connection or in another try:
\* the timer, a request for a url, a dial, or a close event.
KeepsTrying ==
  ~closedByUser => \/ timers + fetching >= 1
                   \/ \E k \in Sockets : Active(k)
                   \/ attempts = MaxRetries

\* Whoever asks for a reconnect leaves a timer, unless the retries are used up.
LEMMA ScheduleTries ==
  ASSUME ConnTypeOK, NEW calls \in Nat, ScheduleReconnect(calls), fetching' \in Nat,
         closedByUser' = closedByUser
  PROVE  KeepsTrying'
<1>1. timers \in Nat /\ attempts \in 0 .. MaxRetries /\ MaxRetries \in Nat
  BY ConnectionAssumption DEF ConnTypeOK
<1>2. ~closedByUser => timers' >= 1 \/ attempts' = MaxRetries
  BY <1>1 DEF ScheduleReconnect
<1>3. timers' \in Nat /\ fetching' \in Nat
  BY ScheduleEffect
<1>a. \A m, n \in Nat : m >= 1 => m + n >= 1
  OBVIOUS
<1>4. timers' >= 1 => timers' + fetching' >= 1
  BY <1>3, <1>a
<1> QED
  BY <1>2, <1>4 DEF KeepsTrying

\* Every step that ends one try starts the next.
LEMMA TryStep == ConnTypeOK /\ KeepsTrying /\ [ConnNext]_connVars => KeepsTrying'
<1> SUFFICES ASSUME ConnTypeOK, KeepsTrying, [ConnNext]_connVars PROVE KeepsTrying'
  OBVIOUS
<1>a. /\ timers \in Nat /\ fetching \in Nat /\ ws \in 0 .. MaxSockets
      /\ link \in [Sockets -> {"unused", "dialing", "open", "dropped", "closed"}]
  BY DEF ConnTypeOK
<1>1. CASE ReconnectFires
  <2>1. timers' + fetching' = timers + fetching \/ closedByUser'
    BY <1>1, <1>a DEF ReconnectFires
  <2> QED
    BY <1>1, <2>1 DEF ReconnectFires, KeepsTrying, Active
<1>2. CASE UrlArrives
  <2>1. PICK k \in Sockets : link' = [link EXCEPT ![k] = "dialing"]
    BY <1>2 DEF UrlArrives
  <2>2. Active(k)'
    BY <1>a, <2>1 DEF Active
  <2> QED
    BY <2>2 DEF KeepsTrying
<1>3. CASE UrlFails
  BY <1>3, <1>a, ScheduleTries DEF UrlFails
<1>4. CASE UNCHANGED <<closedByUser, timers, fetching, attempts>>
           /\ \A k \in Sockets : Active(k) => Active(k)'
  BY <1>4 DEF KeepsTrying
<1>5. ASSUME NEW k \in Sockets, Accept(k) PROVE KeepsTrying'
  <2>1. Active(k)'
    BY <1>5, <1>a DEF Accept, Opened, Active
  <2> QED
    BY <2>1 DEF KeepsTrying
<1>6. ASSUME NEW k \in Sockets, Refuse(k) PROVE KeepsTrying'
  BY <1>6, <1>a, ScheduleTries DEF Refuse
<1>7. ASSUME NEW k \in Sockets, CloseEvent(k) PROVE KeepsTrying'
  BY <1>7, <1>a, ScheduleTries DEF CloseEvent
<1>8. ASSUME NEW k \in Sockets, Drop(k) PROVE KeepsTrying'
  BY <1>8, <1>4, <1>a DEF Drop, Active
<1>9. CASE AgentLost
  BY <1>9, <1>4, <1>a DEF AgentLost, Active
<1>10. CASE UserCloses
  BY <1>10 DEF UserCloses, KeepsTrying
<1>11. CASE Send \/ UNCHANGED connVars
  BY <1>11, <1>4 DEF Send, connVars, Active
<1> QED
  BY <1>1, <1>2, <1>3, <1>5, <1>6, <1>7, <1>8, <1>9, <1>10, <1>11 DEF ConnNext

\* A connection the user has not closed is never left alone: while it is not
\* open a timer, a request for a url, a dial or a close event is under way, or
\* the retries are used up.  (The safety part of Reconnects.)
THEOREM NeverLeftAlone == ConnSpec => []KeepsTrying
<1>1. ConnInit => KeepsTrying
  BY DEF ConnInit, KeepsTrying
<1> QED
  BY <1>1, ConnTypeCorrect, TryStep, PTL DEF ConnSpec
=============================================================================
