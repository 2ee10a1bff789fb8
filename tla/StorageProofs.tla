---------------------------- MODULE StorageProofs ----------------------------
(***************************************************************************)
(* Theorems about what an agent stores: Conversation and Files, for any    *)
(* number of writers, messages, paths, saves and rebuilds.                 *)
(***************************************************************************)
EXTENDS Conversation, Files, SequenceTheorems, FiniteSetTheorems,
        NaturalsInduction, WellFoundedInduction, TLAPS

-----------------------------------------------------------------------------
(* The conversation.                                                       *)

(* What a writer has read is a view as well, whatever was stored since.    *)
Views ==
  /\ HistoryView
  /\ \A w \in Writers :
       writer[w].pc # "idle" => RunningIsView(writer[w].full, writer[w].running)

(* A view, element by element: n messages of f are in the summary of r.    *)
CoveredTo(f, n) == UNION {f[k].of : k \in 1..n}
ViewAt(f, r, n) ==
  /\ n \in 1..Len(f) /\ Len(r) = Len(f) - n + 1
  /\ r[1] = [role |-> "summary", of |-> CoveredTo(f, n)]
  /\ \A k \in 2..Len(r) : r[k] = f[n + k - 1]

(* Entries of a history cover made messages.                               *)
LEMMA CoverType ==
  ASSUME NEW f \in Histories, NEW n \in 0..Len(f)
  PROVE  /\ CoveredTo(f, n) \in SUBSET (1 .. MaxMessages)
         /\ [role |-> "summary", of |-> CoveredTo(f, n)] \in Entries
<1>1. \A k \in 1..n : f[k] \in Entries
  BY LenProperties, ElementOfSeq DEF Histories
<1>2. \A k \in 1..n : f[k].of \in SUBSET (1 .. MaxMessages)
  BY <1>1 DEF Entries
<1>3. CoveredTo(f, n) \in SUBSET (1 .. MaxMessages)
  BY <1>2 DEF CoveredTo
<1> QED
  BY <1>3 DEF Entries

(* A prefix, a suffix and what a prefix covers.                            *)
LEMMA Cuts ==
  ASSUME NEW f \in Histories, NEW n \in 1..Len(f)
  PROVE  /\ Covered(SubSeq(f, 1, n)) = CoveredTo(f, n)
         /\ SubSeq(f, n + 1, Len(f)) \in Histories
         /\ Len(SubSeq(f, n + 1, Len(f))) = Len(f) - n
         /\ \A k \in 1..(Len(f) - n) : SubSeq(f, n + 1, Len(f))[k] = f[n + k]
<1>1. Len(f) \in Nat /\ n \in Nat /\ \A k \in 1..Len(f) : f[k] \in Entries
  BY LenProperties, ElementOfSeq DEF Histories
<1>2. /\ SubSeq(f, 1, n) \in Seq(Entries) /\ Len(SubSeq(f, 1, n)) = n
      /\ \A k \in 1..n : SubSeq(f, 1, n)[k] = f[k]
  BY <1>1, SubSeqProperties
<1>3. DOMAIN SubSeq(f, 1, n) = 1..n
  BY <1>2, LenProperties
<1>4. Covered(SubSeq(f, 1, n)) = CoveredTo(f, n)
  BY <1>2, <1>3 DEF Covered, CoveredTo
<1>5. CASE n = Len(f)
  <2>1. SubSeq(f, n + 1, Len(f)) = <<>>
    BY <1>1, <1>5, SubSeqEmpty
  <2> QED
    BY <1>1, <1>4, <1>5, <2>1, EmptySeq DEF Histories
<1>6. CASE n < Len(f)
  <2>1. \A k \in (n + 1)..Len(f) : f[k] \in Entries
    BY <1>1
  <2>2. /\ SubSeq(f, n + 1, Len(f)) \in Seq(Entries)
        /\ Len(SubSeq(f, n + 1, Len(f))) = Len(f) - (n + 1) + 1
        /\ \A k \in 1..(Len(f) - (n + 1) + 1) :
             SubSeq(f, n + 1, Len(f))[k] = f[n + 1 + k - 1]
    BY <1>1, <1>6, <2>1, SubSeqProperties
  <2> QED
    BY <1>1, <1>4, <1>6, <2>2 DEF Histories
<1> QED
  BY <1>1, <1>5, <1>6

(* A summary and the rest of a history.                                    *)
LEMMA Summed ==
  ASSUME NEW f \in Histories, NEW n \in 1..Len(f), NEW c \in SUBSET (1 .. MaxMessages)
  PROVE  LET e == [role |-> "summary", of |-> c]
             r == <<e>> \o SubSeq(f, n + 1, Len(f))
         IN /\ r \in Histories /\ Len(r) = Len(f) - n + 1
            /\ r[1] = e /\ \A k \in 2..Len(r) : r[k] = f[n + k - 1]
<1> DEFINE e == [role |-> "summary", of |-> c]
           t == SubSeq(f, n + 1, Len(f))
<1>1. e \in Entries
  BY DEF Entries
<1>2. /\ Len(f) \in Nat /\ t \in Seq(Entries) /\ Len(t) = Len(f) - n
      /\ \A k \in 1..(Len(f) - n) : t[k] = f[n + k]
  BY Cuts, LenProperties DEF Histories
<1> HIDE DEF e, t
<1>3. <<e>> \in Seq(Entries) /\ Len(<<e>>) = 1 /\ <<e>>[1] = e
  BY <1>1
<1>4. /\ <<e>> \o t \in Seq(Entries) /\ Len(<<e>> \o t) = 1 + Len(t)
      /\ \A k \in 1..(1 + Len(t)) :
           (<<e>> \o t)[k] = IF k <= 1 THEN <<e>>[k] ELSE t[k - 1]
  BY <1>2, <1>3, ConcatProperties
<1>5. \A k \in 2..(1 + Len(t)) : t[k - 1] = f[n + k - 1]
  BY <1>2
<1> QED
  BY <1>2, <1>3, <1>4, <1>5 DEF e, t, Histories

(* The two forms of a view.                                                *)
LEMMA ViewForms ==
  ASSUME NEW f \in Histories, NEW r \in Histories, NEW n \in DOMAIN f
  PROVE  r = <<[role |-> "summary", of |-> Covered(SubSeq(f, 1, n))]>>
               \o SubSeq(f, n + 1, Len(f))
         <=> ViewAt(f, r, n)
<1> DEFINE c == CoveredTo(f, n)
           s == <<[role |-> "summary", of |-> c]>> \o SubSeq(f, n + 1, Len(f))
<1>1. n \in 1..Len(f) /\ n \in 0..Len(f) /\ Len(f) \in Nat
  BY LenProperties DEF Histories
<1>2. Covered(SubSeq(f, 1, n)) = c
  BY <1>1, Cuts
<1>3. c \in SUBSET (1 .. MaxMessages)
  BY <1>1, CoverType
<1>4. /\ s \in Histories /\ Len(s) = Len(f) - n + 1
      /\ s[1] = [role |-> "summary", of |-> c] /\ \A k \in 2..Len(s) : s[k] = f[n + k - 1]
  <2> HIDE DEF c
  <2> QED
    BY <1>1, <1>3, Summed
<1>5. ViewAt(f, r, n) => r = s
  <2> SUFFICES ASSUME ViewAt(f, r, n) PROVE r = s
    OBVIOUS
  <2> HIDE DEF s, c
  <2>1. /\ Len(r) = Len(f) - n + 1 /\ r[1] = [role |-> "summary", of |-> c]
        /\ \A k \in 2..Len(r) : r[k] = f[n + k - 1]
    BY DEF ViewAt, c
  <2>2. ASSUME NEW k \in 1..Len(r) PROVE r[k] = s[k]
    <3>1. CASE k = 1
      BY <1>4, <2>1, <3>1
    <3>2. CASE k # 1
      <4>1. k \in 2..Len(r) /\ Len(r) = Len(s)
        BY <1>1, <1>4, <2>1, <3>2
      <4> QED
        BY <1>4, <2>1, <4>1
    <3> QED
      BY <3>1, <3>2
  <2> QED
    BY <1>4, <2>1, <2>2, SeqEqual DEF Histories
<1>6. r = s => ViewAt(f, r, n)
  <2> HIDE DEF s
  <2> QED
    BY <1>1, <1>4 DEF ViewAt, c
<1> QED
  BY <1>2, <1>5, <1>6

(* RunningIsView, element by element.                                      *)
LEMMA ViewElements ==
  ASSUME NEW f \in Histories, NEW r \in Histories
  PROVE  RunningIsView(f, r) <=> (r = f \/ \E n \in 1..Len(f) : ViewAt(f, r, n))
<1>1. DOMAIN f = 1..Len(f)
  BY LenProperties DEF Histories
<1> QED
  BY <1>1, ViewForms DEF RunningIsView

(* Messages appended to both keep the view.                                *)
LEMMA AppendKeepsView ==
  ASSUME NEW f \in Histories, NEW r \in Histories, NEW new \in Histories,
         RunningIsView(f, r)
  PROVE  /\ f \o new \in Histories /\ r \o new \in Histories
         /\ RunningIsView(f \o new, r \o new)
<1>1. /\ Len(f) \in Nat /\ Len(r) \in Nat /\ Len(new) \in Nat
  BY LenProperties DEF Histories
<1>2. /\ f \o new \in Histories /\ Len(f \o new) = Len(f) + Len(new)
      /\ \A k \in 1..(Len(f) + Len(new)) :
           (f \o new)[k] = IF k <= Len(f) THEN f[k] ELSE new[k - Len(f)]
  BY ConcatProperties DEF Histories
<1>3. /\ r \o new \in Histories /\ Len(r \o new) = Len(r) + Len(new)
      /\ \A k \in 1..(Len(r) + Len(new)) :
           (r \o new)[k] = IF k <= Len(r) THEN r[k] ELSE new[k - Len(r)]
  BY ConcatProperties DEF Histories
<1>4. ASSUME NEW n \in 1..Len(f), ViewAt(f, r, n)
      PROVE  ViewAt(f \o new, r \o new, n)
  <2> DEFINE F == f \o new
             R == r \o new
  <2>1. \A k \in 1..n : F[k] = f[k]
    BY <1>1, <1>2
  <2>2. CoveredTo(F, n) = CoveredTo(f, n)
    BY <2>1 DEF CoveredTo
  <2>3. /\ Len(r) = Len(f) - n + 1 /\ r[1] = [role |-> "summary", of |-> CoveredTo(f, n)]
        /\ \A k \in 2..Len(r) : r[k] = f[n + k - 1]
    BY <1>4 DEF ViewAt
  <2>4. /\ n \in 1..Len(F) /\ Len(R) = Len(F) - n + 1 /\ R[1] = r[1]
    BY <1>1, <1>2, <1>3, <2>3
  <2>5. ASSUME NEW k \in 2..Len(R) PROVE R[k] = F[n + k - 1]
    <3>1. CASE k <= Len(r)
      <4>1. R[k] = r[k] /\ r[k] = f[n + k - 1]
        BY <1>1, <1>3, <2>3, <2>5, <3>1
      <4>2. n + k - 1 \in 1..Len(f)
        BY <1>1, <2>3, <2>5, <3>1
      <4>3. F[n + k - 1] = f[n + k - 1]
        BY <1>1, <1>2, <4>2
      <4> QED
        BY <4>1, <4>3
    <3>2. CASE k > Len(r)
      <4>1. k \in 1..(Len(r) + Len(new)) /\ R[k] = new[k - Len(r)]
        BY <1>1, <1>3, <2>5, <3>2
      <4>2. /\ n + k - 1 \in 1..(Len(f) + Len(new)) /\ n + k - 1 > Len(f)
            /\ (n + k - 1) - Len(f) = k - Len(r)
        BY <1>1, <2>3, <2>5, <3>2, <4>1
      <4> HIDE DEF R, F
      <4>3. F[n + k - 1] = new[(n + k - 1) - Len(f)]
        BY <1>1, <1>2, <4>2 DEF F
      <4>4. new[(n + k - 1) - Len(f)] = new[k - Len(r)]
        BY <4>2
      <4> QED
        BY <4>1, <4>3, <4>4
    <3> HIDE DEF F
    <3> QED
      BY <1>1, <1>3, <2>5, <3>1, <3>2
  <2> QED
    BY <2>2, <2>3, <2>4, <2>5 DEF ViewAt
<1>5. 1..Len(f) \subseteq 1..Len(f \o new)
  BY <1>1, <1>2
<1> QED
  BY <1>2, <1>3, <1>4, <1>5, ViewElements

(* A set of positions that is not empty has a last one.                    *)
LEMMA LastOf ==
  ASSUME NEW L \in Nat, NEW S \in SUBSET (1..L), S # {}
  PROVE  \E k \in S : \A j \in S : j <= k
<1> DEFINE R == {ss \in Nat \X Nat : ss[1] < ss[2]}
           T == {L - k : k \in S}
<1>1. IsWellFoundedOn(R, Nat)
  BY NatLessThanWellFounded DEF OpToRel
<1>2. T \subseteq Nat /\ T # {}
  <2>1. PICK k \in S : TRUE
    OBVIOUS
  <2>2. L - k \in T
    OBVIOUS
  <2>3. \A j \in S : L - j \in Nat
    OBVIOUS
  <2> QED
    BY <2>2, <2>3
<1> HIDE DEF R, T
<1>3. PICK t \in T : \A u \in T : <<u, t>> \notin R
  BY <1>1, <1>2, WFMin
<1>4. ASSUME NEW u \in T PROVE t <= u
  <2>1. u \in Nat /\ t \in Nat /\ ~(<<u, t>> \in Nat \X Nat /\ u < t)
    BY <1>2, <1>3 DEF R
  <2> QED
    BY <2>1
<1>5. PICK k \in S : t = L - k
  BY DEF T
<1>6. ASSUME NEW j \in S PROVE j <= k
  <2>1. L - j \in T
    BY DEF T
  <2>2. t <= L - j
    BY <1>4, <2>1
  <2> QED
    BY <1>5, <2>2
<1> QED
  BY <1>6

(* Where a history is cut: within it.                                      *)
LEMMA BoundaryRange ==
  ASSUME NEW h \in Histories
  PROVE  Boundary(h) \in 0..Len(h)
<1> DEFINE users == {k \in DOMAIN h : h[k].role = "user" /\ k + Preserve <= Len(h) + 1}
<1>1. Len(h) \in Nat /\ users \subseteq 1..Len(h)
  BY LenProperties DEF Histories
<1> DEFINE best == CHOOSE k \in users : \A j \in users : j <= k
<1>2. CASE users = {} \/ Len(h) <= Preserve
  BY <1>1, <1>2 DEF Boundary
<1>3. CASE users # {} /\ ~(Len(h) <= Preserve)
  <2> HIDE DEF users
  <2>1. \E k \in users : \A j \in users : j <= k
    BY <1>1, <1>3, LastOf
  <2>2. best \in users
    BY <2>1
  <2>3. Boundary(h) = best - 1
    BY <1>3 DEF Boundary, users
  <2> HIDE DEF best
  <2> QED
    BY <1>1, <2>2, <2>3
<1> QED
  BY <1>2, <1>3

(* Compacting the running history keeps the view: the summary of a summary *)
(* and of what follows it is a summary of both.                            *)
LEMMA CompactedKeepsView ==
  ASSUME NEW f \in Histories, NEW r \in Histories, RunningIsView(f, r)
  PROVE  Compacted(r) \in Histories /\ RunningIsView(f, Compacted(r))
<1>1. Len(f) \in Nat /\ Len(r) \in Nat
  BY LenProperties DEF Histories
<1> DEFINE m == Boundary(r)
           c == CoveredTo(r, m)
           s == <<[role |-> "summary", of |-> c]>> \o SubSeq(r, m + 1, Len(r))
<1>2. m \in 0..Len(r)
  BY BoundaryRange
<1>3. CASE m = 0
  <2>1. Compacted(r) = r
    BY <1>3 DEF Compacted
  <2> QED
    BY <2>1
<1>4. CASE m # 0
  <2>1. m \in 1..Len(r)
    BY <1>1, <1>2, <1>4
  <2>2. Covered(SubSeq(r, 1, m)) = c
    BY <2>1, Cuts
  <2>3. Compacted(r) = s
    BY <1>4, <2>2 DEF Compacted
  <2> HIDE DEF m
  <2>4. c \in SUBSET (1 .. MaxMessages)
    BY <1>2, CoverType
  <2>5. /\ s \in Histories /\ Len(s) = Len(r) - m + 1
        /\ s[1] = [role |-> "summary", of |-> c] /\ \A k \in 2..Len(s) : s[k] = r[m + k - 1]
    <3> HIDE DEF c
    <3> QED
      BY <2>1, <2>4, Summed
  <2> HIDE DEF s
  <2>6. CASE r = f
    <3>1. ViewAt(f, s, m)
      BY <2>1, <2>5, <2>6 DEF ViewAt
    <3> QED
      BY <2>1, <2>3, <2>5, <2>6, <3>1, ViewElements
  <2>7. ASSUME NEW n \in 1..Len(f), ViewAt(f, r, n) PROVE RunningIsView(f, s)
    <3>1. /\ Len(r) = Len(f) - n + 1 /\ r[1] = [role |-> "summary", of |-> CoveredTo(f, n)]
          /\ \A k \in 2..Len(r) : r[k] = f[n + k - 1]
      BY <2>7 DEF ViewAt
    <3> DEFINE q == n + m - 1
    <3>2. q \in 1..Len(f) /\ Len(s) = Len(f) - q + 1
      BY <1>1, <2>1, <2>5, <3>1
    <3>3. c = CoveredTo(f, q)
      <4>1. ASSUME NEW k \in 1..m PROVE r[k].of \subseteq CoveredTo(f, q)
        <5>1. CASE k = 1
          <6>1. r[k].of = CoveredTo(f, n)
            BY <3>1, <5>1
          <6>2. 1..n \subseteq 1..q
            BY <1>1, <2>1
          <6> HIDE DEF q
          <6> QED
            BY <6>1, <6>2 DEF CoveredTo
        <5>2. CASE k # 1
          <6>1. k \in 2..Len(r) /\ n + k - 1 \in 1..q
            BY <1>1, <2>1, <5>2
          <6>2. r[k] = f[n + k - 1]
            BY <3>1, <6>1
          <6> HIDE DEF q
          <6> QED
            BY <6>1, <6>2 DEF CoveredTo
        <5> QED
          BY <5>1, <5>2
      <4>2. ASSUME NEW k \in 1..q PROVE f[k].of \subseteq c
        <5>1. CASE k <= n
          <6>1. k \in 1..n /\ 1 \in 1..m
            BY <1>1, <2>1, <5>1
          <6>2. f[k].of \subseteq CoveredTo(f, n) /\ r[1].of = CoveredTo(f, n)
            BY <3>1, <6>1 DEF CoveredTo
          <6> QED
            BY <6>1, <6>2 DEF CoveredTo
        <5>2. CASE k > n
          <6>1. k - n + 1 \in 2..Len(r) /\ k - n + 1 \in 1..m /\ n + (k - n + 1) - 1 = k
            BY <1>1, <2>1, <3>1, <5>2
          <6>2. r[k - n + 1] = f[k]
            BY <3>1, <6>1
          <6> QED
            BY <6>1, <6>2 DEF CoveredTo
        <5> QED
          BY <1>1, <5>1, <5>2
      <4>3. c \subseteq CoveredTo(f, q)
        <5> HIDE DEF q
        <5> QED
          BY <4>1 DEF CoveredTo
      <4>4. CoveredTo(f, q) \subseteq c
        <5> HIDE DEF c
        <5> QED
          BY <4>2 DEF CoveredTo
      <4> QED
        BY <4>3, <4>4
    <3>4. ASSUME NEW k \in 2..Len(s) PROVE s[k] = f[q + k - 1]
      <4>1. m + k - 1 \in 2..Len(r) /\ n + (m + k - 1) - 1 = q + k - 1
        BY <1>1, <2>1, <2>5, <3>4
      <4>2. s[k] = r[m + k - 1]
        BY <2>5, <3>4
      <4>3. r[m + k - 1] = f[n + (m + k - 1) - 1]
        BY <3>1, <4>1
      <4> QED
        BY <4>1, <4>2, <4>3
    <3>5. ViewAt(f, s, q)
      <4> HIDE DEF q, c
      <4> QED
        BY <2>5, <3>2, <3>3, <3>4 DEF ViewAt
    <3> QED
      BY <2>5, <3>2, <3>5, ViewElements
  <2> QED
    BY <2>3, <2>5, <2>6, <2>7, ViewElements
<1> QED
  BY <1>3, <1>4

-----------------------------------------------------------------------------
(* The type of the conversation, and that it stays a view.                 *)
IHistory == ConvTypeOK /\ Views

(* Nothing has been said.                                                  *)
LEMMA HistoryStarts == ConvInit => IHistory
<1> SUFFICES ASSUME ConvInit PROVE IHistory
  OBVIOUS
<1>1. <<>> \in Histories /\ MaxMessages \in Nat
  BY ConversationAssumption DEF Histories
<1>2. ConvTypeOK
  BY <1>1 DEF ConvInit, ConvTypeOK, Idle
<1> QED
  BY <1>2 DEF ConvInit, IHistory, Views, HistoryView, RunningIsView, RunningRead, Idle

(* A message is a history of one.                                          *)
LEMMA MessageType ==
  ASSUME NEW role \in {"user", "assistant", "tool"}, NEW id \in 1..MaxMessages
  PROVE  Message(role, id) \in Entries /\ <<Message(role, id)>> \in Histories
<1>1. Message(role, id) \in Entries
  BY DEF Message, Entries
<1> HIDE DEF Message
<1> QED
  BY <1>1 DEF Histories

(* What is read is a history.                                              *)
LEMMA ReadType == ConvTypeOK => RunningRead \in Histories
BY DEF ConvTypeOK, RunningRead

(* Storing a history and a view of it.                                     *)
LEMMA StoresView ==
  ASSUME NEW f \in Histories, NEW r \in Histories, RunningIsView(f, r), Store(f, r)
  PROVE  full' \in Histories /\ running' \in Histories /\ HistoryView'
<1>1. CASE r = <<>>
  BY <1>1 DEF Store, HistoryView, RunningRead, RunningIsView
<1>2. CASE r # <<>>
  <2>1. RunningRead' = r /\ full' = f
    BY <1>2 DEF Store, RunningRead
  <2> QED
    BY <2>1 DEF Store, HistoryView, RunningIsView
<1> QED
  BY <1>1, <1>2

(* A message of its own id at the end of both.                             *)
LEMMA AddKeeps ==
  ASSUME IHistory, NEW role \in {"user", "assistant", "tool"}, Add(role),
         UNCHANGED <<behaviour, writer>>
  PROVE  IHistory'
<1> DEFINE e == Message(role, made + 1)
<1>1. /\ ConvTypeOK /\ Views /\ HistoryView /\ made + 1 \in 1..MaxMessages
      /\ made' = made + 1 /\ made' \in 0..MaxMessages
  BY ConversationAssumption DEF IHistory, Views, Add, ConvTypeOK
<1>2. e \in Entries /\ <<e>> \in Histories
  BY <1>1, MessageType
<1> HIDE DEF e
<1>3. full \in Histories /\ RunningRead \in Histories /\ RunningIsView(full, RunningRead)
  BY <1>1, ReadType DEF ConvTypeOK, HistoryView
<1>4. Append(full, e) = full \o <<e>> /\ Append(RunningRead, e) = RunningRead \o <<e>>
  BY <1>2, <1>3, AppendIsConcat DEF Histories
<1>5. Store(full \o <<e>>, RunningRead \o <<e>>)
  BY <1>4 DEF Add, e
<1>6. /\ full \o <<e>> \in Histories /\ RunningRead \o <<e>> \in Histories
      /\ RunningIsView(full \o <<e>>, RunningRead \o <<e>>)
  BY <1>2, <1>3, AppendKeepsView
<1>7. full' \in Histories /\ running' \in Histories /\ HistoryView'
  BY <1>5, <1>6, StoresView
<1> QED
  BY <1>1, <1>7 DEF IHistory, Views, ConvTypeOK

(* What a writer has read stays a view while others write.                 *)
LEMMA ReadsKeep ==
  ASSUME IHistory, NEW w \in Writers, NEW pc \in {"turn", "compaction"}, Read(w, pc),
         UNCHANGED <<behaviour, full, running, made>>
  PROVE  IHistory'
<1> DEFINE r == [pc |-> pc, full |-> full, running |-> RunningRead]
<1>1. /\ ConvTypeOK /\ Views /\ RunningRead \in Histories /\ full \in Histories
      /\ RunningRead' = RunningRead
  BY ReadType DEF IHistory, RunningRead, ConvTypeOK
<1>2. r \in [pc : {"idle", "turn", "compaction"}, full : Histories, running : Histories]
  BY <1>1
<1>3. RunningIsView(r.full, r.running)
  BY <1>1 DEF Views, HistoryView
<1>4. writer' = [writer EXCEPT ![w] = r]
  BY DEF Read
<1> HIDE DEF r
<1>5. ConvTypeOK'
  BY <1>1, <1>2, <1>4 DEF ConvTypeOK
<1>6. HistoryView'
  BY <1>1 DEF Views, HistoryView, RunningIsView
<1>7. ASSUME NEW x \in Writers, writer'[x].pc # "idle"
      PROVE  RunningIsView(writer[x].full, writer[x].running)'
  <2>1. writer'[x] = IF x = w THEN r ELSE writer[x]
    BY <1>1, <1>4 DEF ConvTypeOK
  <2>2. CASE x = w
    BY <1>3, <2>1, <2>2 DEF RunningIsView
  <2>3. CASE x # w
    BY <1>1, <1>7, <2>1, <2>3 DEF Views, RunningIsView
  <2> QED
    BY <2>2, <2>3
<1> QED
  BY <1>5, <1>6, <1>7 DEF IHistory, Views

(* A writer that is done, whatever it stored.                              *)
LEMMA DoneKeeps ==
  ASSUME IHistory, NEW w \in Writers, writer' = [writer EXCEPT ![w] = Idle],
         behaviour' = behaviour, made' \in 0..MaxMessages,
         full' \in Histories, running' \in Histories, HistoryView'
  PROVE  IHistory'
<1>1. Idle \in [pc : {"idle", "turn", "compaction"}, full : Histories, running : Histories]
      /\ Idle.pc = "idle"
  BY DEF Idle, Histories
<1> HIDE DEF Idle
<1>2. ConvTypeOK'
  BY <1>1 DEF IHistory, ConvTypeOK
<1>3. ASSUME NEW x \in Writers, writer'[x].pc # "idle"
      PROVE  RunningIsView(writer[x].full, writer[x].running)'
  <2>1. writer'[x] = IF x = w THEN Idle ELSE writer[x]
    BY DEF IHistory, ConvTypeOK
  <2> QED
    BY <1>1, <1>3, <2>1 DEF IHistory, Views, RunningIsView
<1> QED
  BY <1>2, <1>3 DEF IHistory, Views

(* The end of a turn: what it read, compacted or not, and its messages.    *)
LEMMA TurnKeeps ==
  ASSUME IHistory, NEW w \in Writers, EndTurn(w)
  PROVE  IHistory'
<1> DEFINE f == writer[w].full
           r == writer[w].running
<1>1. f \in Histories /\ r \in Histories /\ RunningIsView(f, r) /\ made \in Nat
      /\ behaviour' = behaviour /\ writer' = [writer EXCEPT ![w] = Idle]
  BY ConversationAssumption DEF IHistory, Views, ConvTypeOK, EndTurn
<1> HIDE DEF f, r
<1>2. PICK roles \in TurnRoles :
        /\ made' = made + Len(roles) /\ made' <= MaxMessages
        /\ \E x \in Compactions(r) :
             Store(f \o [k \in DOMAIN roles |-> Message(roles[k], made + k)],
                   x \o [k \in DOMAIN roles |-> Message(roles[k], made + k)])
  BY DEF EndTurn, f, r
<1> DEFINE new == [k \in DOMAIN roles |-> Message(roles[k], made + k)]
<1>3. /\ Len(roles) \in Nat /\ DOMAIN roles = 1..Len(roles)
      /\ \A k \in 1..Len(roles) : roles[k] \in {"user", "assistant", "tool"}
  BY DEF TurnRoles
<1>4. new \in Histories
  <2>1. \A k \in 1..Len(roles) : made + k \in 1..MaxMessages
    BY ConversationAssumption, <1>1, <1>2, <1>3
  <2>2. \A k \in 1..Len(roles) : Message(roles[k], made + k) \in Entries
    BY <1>3, <2>1, MessageType
  <2>3. new \in [1..Len(roles) -> Entries]
    BY <1>3, <2>2
  <2> QED
    BY <1>3, <2>3, SeqDef DEF Histories
<1> HIDE DEF new
<1>5. PICK x \in Compactions(r) : Store(f \o new, x \o new)
  BY <1>2 DEF new
<1>6. x \in Histories /\ RunningIsView(f, x)
  BY <1>1, <1>5, CompactedKeepsView DEF Compactions
<1>7. /\ f \o new \in Histories /\ x \o new \in Histories
      /\ RunningIsView(f \o new, x \o new)
  BY <1>1, <1>4, <1>6, AppendKeepsView
<1>8. full' \in Histories /\ running' \in Histories /\ HistoryView'
  BY <1>5, <1>7, StoresView
<1>9. made' \in 0..MaxMessages
  BY ConversationAssumption, <1>1, <1>2, <1>3
<1> QED
  BY <1>1, <1>8, <1>9, DoneKeeps

(* The end of a compaction: both tables as they were read.                 *)
LEMMA CompactionKeeps ==
  ASSUME IHistory, NEW w \in Writers, EndCompaction(w)
  PROVE  IHistory'
<1> DEFINE f == writer[w].full
           r == writer[w].running
<1>1. f \in Histories /\ r \in Histories /\ RunningIsView(f, r) /\ made \in 0..MaxMessages
      /\ behaviour' = behaviour /\ made' = made /\ writer' = [writer EXCEPT ![w] = Idle]
      /\ full \in Histories /\ running \in Histories /\ HistoryView
  BY DEF IHistory, Views, ConvTypeOK, EndCompaction
<1> HIDE DEF f, r
<1>2. UNCHANGED <<full, running>> \/ Store(f, Compacted(r))
  BY DEF EndCompaction, f, r
<1>3. Compacted(r) \in Histories /\ RunningIsView(f, Compacted(r))
  BY <1>1, CompactedKeepsView
<1>4. full' \in Histories /\ running' \in Histories /\ HistoryView'
  <2>1. CASE UNCHANGED <<full, running>>
    BY <1>1, <2>1 DEF HistoryView, RunningRead, RunningIsView
  <2>2. CASE Store(f, Compacted(r))
    BY <1>1, <1>3, <2>2, StoresView
  <2> QED
    BY <1>2, <2>1, <2>2
<1> QED
  BY <1>1, <1>4, DoneKeeps

(* Every step of the conversation keeps the invariant.                     *)
LEMMA HistoryNext == IHistory /\ [ConvNext]_convVars => IHistory'
<1> SUFFICES ASSUME IHistory, [ConvNext]_convVars PROVE IHistory'
  OBVIOUS
<1>1. CASE ClearConversation
  <2>1. <<>> \in Histories /\ RunningIsView(<<>>, <<>>)
    BY DEF Histories, RunningIsView
  <2>2. full' \in Histories /\ running' \in Histories /\ HistoryView'
    BY <1>1, <2>1, StoresView DEF ClearConversation
  <2> QED
    BY <1>1, <2>2 DEF ClearConversation, IHistory, Views, ConvTypeOK, RunningIsView
<1>2. CASE OfferReview
  BY <1>2, AddKeeps DEF OfferReview
<1>3. ASSUME NEW role \in {"user", "assistant", "tool"}, BuildAdds(role) PROVE IHistory'
  BY <1>3, AddKeeps DEF BuildAdds
<1>4. ASSUME NEW w \in Writers, StartTurn(w) PROVE IHistory'
  BY <1>4, ReadsKeep DEF StartTurn
<1>5. ASSUME NEW w \in Writers, TurnFails(w) PROVE IHistory'
  <2>1. full' \in Histories /\ running' \in Histories /\ HistoryView'
    BY <1>5 DEF TurnFails, IHistory, Views, ConvTypeOK, HistoryView, RunningRead, RunningIsView
  <2>2. made' \in 0..MaxMessages
    BY <1>5 DEF TurnFails, IHistory, ConvTypeOK
  <2> QED
    BY <1>5, <2>1, <2>2, DoneKeeps DEF TurnFails
<1>6. ASSUME NEW w \in Writers, StartCompaction(w) PROVE IHistory'
  BY <1>6, ReadsKeep DEF StartCompaction
<1>7. CASE UNCHANGED convVars
  BY <1>7 DEF convVars, IHistory, Views, ConvTypeOK, HistoryView, RunningRead, RunningIsView
<1> QED
  BY <1>1, <1>2, <1>3, <1>4, <1>5, <1>6, <1>7, TurnKeeps, CompactionKeeps DEF ConvNext

(* The conversation keeps its type.                                        *)
THEOREM ConvTypeCorrect == ConvSpec => []ConvTypeOK
<1>1. IHistory => ConvTypeOK
  BY DEF IHistory
<1> QED
  BY <1>1, HistoryStarts, HistoryNext, PTL DEF ConvSpec

(* The history a model is given is the one the user sees, its older part   *)
(* replaced by a summary of exactly those messages.                        *)
THEOREM HistoryIsView == ConvSpec => []HistoryView
<1>1. IHistory => HistoryView
  BY DEF IHistory, Views
<1> QED
  BY <1>1, HistoryStarts, HistoryNext, PTL DEF ConvSpec

-----------------------------------------------------------------------------
(* The files.                                                              *)

(* No rebuild of the map is in flight.                                     *)
Quiet == \A k \in Syncs : sync[k].pc = "idle"

(* What holds of a path that is not in doubt: at rest, the index and HEAD  *)
(* agree, and the map with them unless a rebuild is in flight; a call that *)
(* is saving it is the only one, commits, and will put the version of the  *)
(* map into the index.                                                     *)
Sure(p) ==
  /\ p \notin InFlight => index[p] = head[p] /\ (Quiet => map[p] = head[p])
  /\ \A s \in saves : p \in Present(s.files) =>
       /\ s.commits
       /\ \A t \in saves : p \in Present(t.files) => t = s
       /\ Quiet => map[p] = s.files[p] /\ (p \notin s.todo => index[p] = s.files[p])

SavesBounded ==
  /\ saves \subseteq Calls /\ IsFiniteSet(saves) /\ Cardinality(saves) <= MaxSaves
  /\ \A s \in saves : s.todo \subseteq Present(s.files)

IFiles ==
  /\ FilesTypeOK /\ SavesBounded
  /\ \A p \in Paths \ doubt : Sure(p)

(* Paths that come to rest are sure; the others have to be looked at.      *)
LEMMA SettledIsSure ==
  ASSUME NEW new \in SUBSET Paths, doubt \subseteq Paths, Doubt(new),
         \A p \in Paths \ (doubt \cup new) : Sure(p)'
  PROVE  doubt' \subseteq Paths /\ \A p \in Paths \ doubt' : Sure(p)'
<1>1. doubt' \subseteq Paths
  BY DEF Doubt
<1>2. ASSUME NEW p \in Paths, p \in Settled' PROVE Sure(p)'
  <2>1. p \notin InFlight' /\ map'[p] = head'[p] /\ index'[p] = head'[p]
    BY <1>2 DEF Settled
  <2>2. \A s \in saves' : p \notin Present(s.files)
    BY <2>1 DEF InFlight
  <2> QED
    BY <2>1, <2>2 DEF Sure
<1>3. ASSUME NEW p \in Paths \ doubt' PROVE Sure(p)'
  <2>1. p \in Settled' \/ p \notin doubt \cup new
    BY DEF Doubt
  <2> QED
    BY <1>2, <2>1
<1> QED
  BY <1>1, <1>3

(* One call more is in flight.                                             *)
LEMMA OneMore ==
  ASSUME SavesBounded, Cardinality(saves) < MaxSaves, NEW s \in Calls,
         s.todo \subseteq Present(s.files), saves' = saves \cup {s}
  PROVE  SavesBounded'
<1>1. IsFiniteSet(saves) /\ Cardinality(saves) \in Nat /\ MaxSaves \in Nat
  BY FS_CardinalityType, FilesAssumption DEF SavesBounded
<1>2. /\ IsFiniteSet(saves')
      /\ Cardinality(saves') = Cardinality(saves) \/ Cardinality(saves') = Cardinality(saves) + 1
  BY <1>1, FS_AddElement
<1>3. Cardinality(saves') <= MaxSaves
  BY <1>1, <1>2
<1> QED
  BY <1>2, <1>3 DEF SavesBounded, Present

(* One call less.                                                          *)
LEMMA OneLess ==
  ASSUME SavesBounded, NEW s \in saves, saves' = saves \ {s}
  PROVE  SavesBounded'
<1>1. IsFiniteSet(saves) /\ Cardinality(saves) \in Nat /\ MaxSaves \in Nat
  BY FS_CardinalityType, FilesAssumption DEF SavesBounded
<1>2. IsFiniteSet(saves') /\ Cardinality(saves') = Cardinality(saves) - 1
  BY <1>1, FS_RemoveElement
<1>3. Cardinality(saves') <= MaxSaves
  BY <1>1, <1>2 DEF SavesBounded
<1> QED
  BY <1>2, <1>3 DEF SavesBounded, Present

(* One call goes on as another.                                            *)
LEMMA OneReplaced ==
  ASSUME SavesBounded, NEW s \in saves, NEW t \in Calls,
         t.todo \subseteq Present(t.files), saves' = (saves \ {s}) \cup {t}
  PROVE  SavesBounded'
<1>1. IsFiniteSet(saves) /\ Cardinality(saves) \in Nat /\ MaxSaves \in Nat
  BY FS_CardinalityType, FilesAssumption DEF SavesBounded
<1>2. IsFiniteSet(saves \ {s}) /\ Cardinality(saves \ {s}) = Cardinality(saves) - 1
  BY <1>1, FS_RemoveElement
<1>3. /\ IsFiniteSet(saves')
      /\ \/ Cardinality(saves') = Cardinality(saves \ {s})
         \/ Cardinality(saves') = Cardinality(saves \ {s}) + 1
  BY <1>2, FS_AddElement
<1>4. Cardinality(saves') <= MaxSaves
  BY <1>1, <1>2, <1>3 DEF SavesBounded
<1> QED
  BY <1>3, <1>4 DEF SavesBounded, Present

(* Nothing has been saved.                                                 *)
LEMMA FilesStart == FilesInit => IFiles
<1> SUFFICES ASSUME FilesInit PROVE IFiles
  OBVIOUS
<1>1. Empty \in Trees /\ version \in Versions
  BY FilesAssumption DEF FilesInit, Empty, Trees, Versions
<1>2. IsFiniteSet(saves) /\ Cardinality(saves) = 0
  BY FS_EmptySet DEF FilesInit
<1>3. NoSync \in [pc : {"idle", "asked", "read"}, tree : Trees] /\ NoSync.pc = "idle"
  BY <1>1 DEF NoSync
<1>4. FilesTypeOK
  BY <1>1, <1>2, <1>3, FilesAssumption DEF FilesInit, FilesTypeOK
<1>5. SavesBounded
  BY <1>2, FilesAssumption DEF FilesInit, SavesBounded
<1> QED
  BY <1>4, <1>5 DEF FilesInit, IFiles, Sure

(* A step that leaves the calls and the git repository alone, and the map  *)
(* at the paths that do not come in doubt.                                 *)
LEMMA MapMoves ==
  ASSUME IFiles, NEW new \in SUBSET Paths, Doubt(new),
         UNCHANGED <<index, head, trees, saves, sync>>,
         map' \in Trees, version' \in Versions,
         \A p \in Paths \ new : map'[p] = map[p]
  PROVE  IFiles'
<1>1. FilesTypeOK /\ SavesBounded /\ InFlight' = InFlight /\ Quiet' = Quiet
  BY DEF IFiles, InFlight, Quiet, Present
<1>2. ASSUME NEW p \in Paths \ (doubt \cup new) PROVE Sure(p)'
  <2>1. Sure(p) /\ map'[p] = map[p]
    BY DEF IFiles
  <2> QED
    BY <1>1, <2>1 DEF Sure, Present
<1>3. doubt' \subseteq Paths /\ \A p \in Paths \ doubt' : Sure(p)'
  BY <1>1, <1>2, SettledIsSure DEF FilesTypeOK
<1>4. SavesBounded'
  BY <1>1 DEF SavesBounded, Present
<1> QED
  BY <1>1, <1>3, <1>4 DEF IFiles, FilesTypeOK

(* A new call, for paths no other call is saving unless they are in doubt. *)
LEMMA CallStarts ==
  ASSUME IFiles, NEW files \in Trees, NEW commits \in BOOLEAN,
         NEW new \in SUBSET Paths, Doubt(new),
         saves' = saves \cup {Call(files, commits)}, Cardinality(saves) < MaxSaves,
         UNCHANGED <<index, head, trees, sync>>, map' \in Trees, version' \in Versions,
         \A p \in Paths \ Present(files) : map'[p] = map[p],
         \A p \in Present(files) : map'[p] = files[p],
         \A p \in Present(files) \ new : commits /\ p \notin InFlight
  PROVE  IFiles'
<1> DEFINE s == Call(files, commits)
<1>1. FilesTypeOK /\ SavesBounded /\ Quiet' = Quiet
  BY DEF IFiles, Quiet
<1>2. /\ s \in Calls /\ s.files = files /\ s.todo = Present(files) /\ s.commits = commits
      /\ Present(files) \subseteq Paths
  BY DEF Call, Calls, Present
<1>3. saves' = saves \cup {s}
  OBVIOUS
<1> HIDE DEF s
<1>4. SavesBounded'
  BY <1>1, <1>2, <1>3, OneMore
<1>5. ASSUME NEW p \in Paths \ (doubt \cup new) PROVE Sure(p)'
  <2>1. Sure(p)
    BY DEF IFiles
  <2>2. CASE p \in Present(files)
    <3>1. commits /\ p \notin InFlight /\ map'[p] = files[p]
      BY <1>5, <2>2
    <3>2. \A t \in saves : p \notin Present(t.files)
      BY <3>1 DEF InFlight
    <3>3. \A t \in saves' : p \in Present(t.files) => t = s
      BY <1>3, <3>2
    <3>4. p \in InFlight' /\ s \in saves'
      BY <1>2, <1>3, <2>2 DEF InFlight, Present
    <3> QED
      BY <1>2, <2>2, <3>1, <3>3, <3>4 DEF Sure, Present
  <2>3. CASE p \notin Present(files)
    <3>1. map'[p] = map[p] /\ p \notin Present(s.files)
      BY <1>2, <2>3
    <3>2. p \in InFlight' <=> p \in InFlight
      BY <1>3, <3>1 DEF InFlight, Present
    <3> QED
      BY <1>1, <1>3, <2>1, <3>1, <3>2 DEF Sure, Present
  <2> QED
    BY <2>2, <2>3
<1>6. doubt' \subseteq Paths /\ \A p \in Paths \ doubt' : Sure(p)'
  BY <1>1, <1>5, SettledIsSure DEF FilesTypeOK
<1> QED
  BY <1>1, <1>4, <1>6 DEF IFiles, FilesTypeOK, SavesBounded

(* A call ends, by a commit or an error; HEAD moves to the index or stays. *)
LEMMA CallEnds ==
  ASSUME IFiles, NEW s \in saves, saves' = saves \ {s},
         UNCHANGED <<map, index, sync, version>>, head' \in Trees, trees' \subseteq Trees,
         NEW new \in SUBSET Paths, Doubt(new),
         \A p \in Paths \ new : head'[p] = index[p] \/ head'[p] = head[p],
         \A p \in Present(s.files) \ new : head'[p] = index[p] /\ p \notin s.todo
  PROVE  IFiles'
<1>1. FilesTypeOK /\ SavesBounded /\ Quiet' = Quiet
  BY DEF IFiles, Quiet
<1>2. SavesBounded'
  BY <1>1, OneLess
<1>3. ASSUME NEW p \in Paths \ (doubt \cup new) PROVE Sure(p)'
  <2>1. Sure(p)
    BY DEF IFiles
  <2>2. CASE p \in Present(s.files)
    <3>1. \A t \in saves : p \in Present(t.files) => t = s
      BY <2>1, <2>2 DEF Sure
    <3>2. \A t \in saves' : p \notin Present(t.files)
      BY <3>1
    <3>3. head'[p] = index[p] /\ (Quiet => map[p] = index[p])
      BY <1>3, <2>1, <2>2 DEF Sure
    <3> QED
      BY <1>1, <3>2, <3>3 DEF Sure, Present
  <2>3. CASE p \notin Present(s.files)
    <3>1. p \in InFlight' <=> p \in InFlight
      BY <2>3 DEF InFlight, Present
    <3>2. p \notin InFlight => head'[p] = head[p]
      BY <1>3, <2>1 DEF Sure
    <3> QED
      BY <1>1, <2>1, <3>1, <3>2 DEF Sure, Present
  <2> QED
    BY <2>2, <2>3
<1>4. doubt' \subseteq Paths /\ \A p \in Paths \ doubt' : Sure(p)'
  BY <1>1, <1>3, SettledIsSure DEF FilesTypeOK
<1> QED
  BY <1>1, <1>2, <1>4 DEF IFiles, FilesTypeOK, SavesBounded

(* Trees, and those that differ from another at some paths.                *)
LEMMA WithType ==
  ASSUME NEW tree \in Trees, NEW files \in SUBSET Paths, NEW v \in Versions
  PROVE  /\ With(tree, files, v) \in Trees
         /\ \A p \in Paths : With(tree, files, v)[p] = IF p \in files THEN v ELSE tree[p]
BY DEF With, Trees

(* A path of a call is staged.                                             *)
LEMMA StageKeeps ==
  ASSUME IFiles, NEW s \in saves, NEW p \in Paths, Stage(s, p)
  PROVE  IFiles'
<1> DEFINE t == [s EXCEPT !.todo = @ \ {p}]
<1>1. /\ FilesTypeOK /\ SavesBounded /\ Quiet' = Quiet /\ s \in Calls
      /\ p \in s.todo /\ s.todo \subseteq Present(s.files)
      /\ index' = [index EXCEPT ![p] = s.files[p]]
      /\ UNCHANGED <<map, head, trees, sync, version>> /\ Doubt({})
  BY DEF IFiles, Quiet, Stage, SavesBounded
<1>2. /\ t \in Calls /\ t.files = s.files /\ t.commits = s.commits /\ t.todo = s.todo \ {p}
  BY <1>1 DEF Calls
<1>3. saves' = (saves \ {s}) \cup IF s.todo = {p} /\ ~s.commits THEN {} ELSE {t}
  BY DEF Stage
<1> HIDE DEF t
<1>4. SavesBounded'
  <2>1. CASE s.todo = {p} /\ ~s.commits
    <3>1. saves' = saves \ {s}
      BY <1>3, <2>1
    <3> QED
      BY <1>1, <3>1, OneLess
  <2>2. CASE ~(s.todo = {p} /\ ~s.commits)
    <3>1. saves' = (saves \ {s}) \cup {t}
      BY <1>3, <2>2
    <3>2. t.todo \subseteq Present(t.files)
      BY <1>1, <1>2
    <3> QED
      BY <1>1, <1>2, <3>1, <3>2, OneReplaced
  <2> QED
    BY <2>1, <2>2
<1>5. index' \in Trees /\ \A q \in Paths \ {p} : index'[q] = index[q]
  BY <1>1 DEF FilesTypeOK, Trees, Calls
<1>6. index'[p] = s.files[p]
  BY <1>1 DEF FilesTypeOK, Trees
<1>7. ASSUME NEW q \in Paths \ (doubt \cup {}) PROVE Sure(q)'
  <2>1. Sure(q)
    BY DEF IFiles
  <2>2. CASE q \in Present(s.files)
    <3>1. s.commits /\ \A u \in saves : q \in Present(u.files) => u = s
      BY <2>1, <2>2 DEF Sure
    <3>2. saves' = (saves \ {s}) \cup {t} /\ t \in saves'
      BY <1>3, <3>1
    <3>3. \A u \in saves' : q \in Present(u.files) => u = t
      BY <3>1, <3>2
    <3>4. q \in InFlight' /\ t.commits
      BY <1>2, <2>2, <3>1, <3>2 DEF InFlight, Present
    <3>5. Quiet => map[q] = t.files[q] /\ (q \notin t.todo => index'[q] = t.files[q])
      <4>1. Quiet => map[q] = s.files[q] /\ (q \notin s.todo => index[q] = s.files[q])
        BY <2>1, <2>2 DEF Sure
      <4>2. CASE q = p
        BY <1>2, <1>6, <4>1, <4>2
      <4>3. CASE q # p
        BY <1>2, <1>5, <4>1, <4>3
      <4> QED
        BY <4>2, <4>3
    <3> QED
      BY <1>1, <3>3, <3>4, <3>5 DEF Sure, Present
  <2>3. CASE q \notin Present(s.files)
    <3>1. q \notin Present(t.files) /\ q # p
      BY <1>1, <1>2, <2>3
    <3>2. q \in InFlight' <=> q \in InFlight
      BY <1>3, <2>3, <3>1 DEF InFlight, Present
    <3>3. index'[q] = index[q]
      BY <1>5, <3>1
    <3>4. \A u \in saves' : q \in Present(u.files) => u \in saves
      BY <1>3, <3>1
    <3> QED
      BY <1>1, <2>1, <3>2, <3>3, <3>4 DEF Sure, Present
  <2> QED
    BY <2>2, <2>3
<1>8. doubt' \subseteq Paths /\ \A q \in Paths \ doubt' : Sure(q)'
  BY <1>1, <1>7, SettledIsSure DEF FilesTypeOK
<1> QED
  BY <1>1, <1>4, <1>5, <1>8 DEF IFiles, FilesTypeOK, SavesBounded

(* The git tool commits the index, or moves HEAD and the index to a tree   *)
(* while the map waits for its rebuild.                                    *)
LEMMA GitKeeps ==
  ASSUME IFiles,
         \/ GitCommit
         \/ \E k \in Syncs : \E tree \in trees : GitReset(tree, k)
  PROVE  IFiles'
<1>1. FilesTypeOK /\ SavesBounded
  BY DEF IFiles
<1>2. /\ UNCHANGED <<map, saves, version>> /\ Doubt({}) /\ InFlight' = InFlight
      /\ head' \in Trees /\ index' \in Trees /\ trees' \subseteq Trees
      /\ sync' \in [Syncs -> [pc : {"idle", "asked", "read"}, tree : Trees]]
  BY <1>1 DEF GitCommit, GitReset, CommitIndex, FilesTypeOK, InFlight, Present
<1>3. SavesBounded'
  BY <1>1, <1>2 DEF SavesBounded, Present
<1>4. head' = index'
  BY DEF GitCommit, GitReset, CommitIndex
<1>5. ~Quiet' \/ (Quiet' = Quiet /\ index' = index)
  <2>1. CASE GitCommit
    BY <2>1 DEF GitCommit, Quiet
  <2>2. ASSUME NEW k \in Syncs, NEW tree \in trees, GitReset(tree, k) PROVE ~Quiet'
    <3>1. sync'[k].pc = "asked"
      BY <1>1, <2>2 DEF GitReset, FilesTypeOK
    <3> QED
      BY <3>1 DEF Quiet
  <2> QED
    BY <2>1, <2>2
<1>6. ASSUME NEW q \in Paths \ (doubt \cup {}) PROVE Sure(q)'
  <2>1. Sure(q)
    BY DEF IFiles
  <2> QED
    BY <1>2, <1>4, <1>5, <2>1 DEF Sure, Present
<1>7. doubt' \subseteq Paths /\ \A q \in Paths \ doubt' : Sure(q)'
  BY <1>1, <1>2, <1>6, SettledIsSure DEF FilesTypeOK
<1> QED
  BY <1>1, <1>2, <1>3, <1>7 DEF IFiles, FilesTypeOK, SavesBounded

(* A rebuild reads HEAD, or nothing at all.                                *)
LEMMA ReadKeeps ==
  ASSUME IFiles, NEW k \in Syncs, SyncReads(k)
  PROVE  IFiles'
<1>1. FilesTypeOK /\ SavesBounded
  BY DEF IFiles
<1>2. Empty \in Trees
  BY FilesAssumption DEF Empty, Trees, Versions
<1>3. /\ UNCHANGED <<map, index, head, trees, saves, version>> /\ Doubt({})
      /\ InFlight' = InFlight
  BY DEF SyncReads, InFlight, Present
<1>4. sync' \in [Syncs -> [pc : {"idle", "asked", "read"}, tree : Trees]]
  BY <1>1, <1>2 DEF SyncReads, FilesTypeOK
<1>5. ~Quiet /\ ~Quiet'
  <2>1. sync[k].pc = "asked" /\ sync'[k].pc = "read"
    BY <1>1 DEF SyncReads, FilesTypeOK
  <2> QED
    BY <2>1 DEF Quiet
<1>6. ASSUME NEW q \in Paths \ (doubt \cup {}) PROVE Sure(q)'
  <2>1. Sure(q)
    BY DEF IFiles
  <2> QED
    BY <1>3, <1>5, <2>1 DEF Sure, Present
<1>7. doubt' \subseteq Paths /\ \A q \in Paths \ doubt' : Sure(q)'
  BY <1>1, <1>3, <1>6, SettledIsSure DEF FilesTypeOK
<1>8. SavesBounded'
  BY <1>1, <1>3 DEF SavesBounded, Present
<1> QED
  BY <1>1, <1>3, <1>4, <1>7, <1>8 DEF IFiles, FilesTypeOK, SavesBounded

(* The map is replaced: what it now differs in is in doubt.                *)
LEMMA ApplyKeeps ==
  ASSUME IFiles, NEW k \in Syncs, SyncApplies(k)
  PROVE  IFiles'
<1> DEFINE tree == sync[k].tree
           new == {p \in Paths : tree[p] # head[p]} \cup InFlight
<1>1. FilesTypeOK /\ SavesBounded /\ tree \in Trees
  BY DEF IFiles, FilesTypeOK
<1>2. InFlight \subseteq Paths /\ new \subseteq Paths
  BY DEF InFlight, Present
<1>3. /\ UNCHANGED <<index, head, trees, saves, version>> /\ map' = tree /\ Doubt(new)
      /\ sync' = [sync EXCEPT ![k] = NoSync] /\ InFlight' = InFlight
  BY DEF SyncApplies, InFlight, Present
<1>4. Empty \in Trees
  BY FilesAssumption DEF Empty, Trees, Versions
<1>5. sync' \in [Syncs -> [pc : {"idle", "asked", "read"}, tree : Trees]]
  BY <1>1, <1>3, <1>4 DEF FilesTypeOK, NoSync
<1> HIDE DEF tree
<1>6. ASSUME NEW q \in Paths \ (doubt \cup new) PROVE Sure(q)'
  <2>1. Sure(q) /\ q \notin InFlight' /\ map'[q] = head[q]
    BY <1>3 DEF IFiles
  <2>2. \A s \in saves' : q \notin Present(s.files)
    BY <2>1 DEF InFlight
  <2> QED
    BY <1>3, <2>1, <2>2 DEF Sure
<1> HIDE DEF new
<1>7. doubt' \subseteq Paths /\ \A q \in Paths \ doubt' : Sure(q)'
  BY <1>1, <1>2, <1>3, <1>6, SettledIsSure DEF FilesTypeOK
<1>8. SavesBounded'
  BY <1>1, <1>3 DEF SavesBounded, Present
<1> QED
  BY <1>1, <1>3, <1>5, <1>7, <1>8 DEF IFiles, FilesTypeOK, SavesBounded

(* Every step keeps the invariant.                                         *)
LEMMA FilesKeep == IFiles /\ [FilesNext]_filesVars => IFiles'
<1> SUFFICES ASSUME IFiles, [FilesNext]_filesVars PROVE IFiles'
  OBVIOUS
<1>1. /\ FilesTypeOK /\ SavesBounded /\ InFlight \subseteq Paths /\ map \in Trees
      /\ index \in Trees /\ head \in Trees /\ trees \subseteq Trees /\ 0 \in Versions
  BY FilesAssumption DEF IFiles, FilesTypeOK, InFlight, Present, Versions
<1>2. version < MaxVersion => version + 1 \in Versions \ {0}
  BY <1>1, FilesAssumption DEF FilesTypeOK, Versions
<1>3. ASSUME NEW p \in Paths, RecordFileChanges(p) PROVE IFiles'
  <2>1. /\ version' \in Versions /\ Doubt({p}) /\ map' = With(map, {p}, version')
        /\ UNCHANGED <<index, head, trees, saves, sync>>
    BY <1>2, <1>3 DEF RecordFileChanges
  <2>2. map' \in Trees /\ \A q \in Paths \ {p} : map'[q] = map[q]
    BY <1>1, <2>1, WithType
  <2> QED
    BY <2>1, <2>2, MapMoves
<1>4. ASSUME NEW files \in SUBSET Paths, DeleteFiles(files) PROVE IFiles'
  <2>1. /\ version' \in Versions /\ Doubt(files) /\ map' = With(map, files, 0)
        /\ UNCHANGED <<index, head, trees, saves, sync>>
    BY <1>1, <1>4 DEF DeleteFiles, FilesTypeOK
  <2>2. map' \in Trees /\ \A q \in Paths \ files : map'[q] = map[q]
    BY <1>1, <2>1, WithType
  <2> QED
    BY <2>1, <2>2, MapMoves
<1>5. ASSUME NEW files \in SUBSET Paths, NEW commits \in BOOLEAN,
             SaveGeneratedFiles(files, commits)
      PROVE  IFiles'
  <2> DEFINE tree == With(Empty, files, version')
             new == IF commits THEN files \cap InFlight ELSE files
  <2>1. /\ version' \in Versions \ {0} /\ map' = With(map, files, version')
        /\ saves' = saves \cup {Call(tree, commits)} /\ Cardinality(saves) < MaxSaves
        /\ UNCHANGED <<index, head, trees, sync>> /\ Doubt(new)
    BY <1>2, <1>5 DEF SaveGeneratedFiles
  <2>2. Empty \in Trees /\ \A p \in Paths : Empty[p] = 0
    BY <1>1 DEF Empty, Trees
  <2>3. tree \in Trees /\ \A p \in Paths : tree[p] = IF p \in files THEN version' ELSE 0
    BY <2>1, <2>2, WithType
  <2>4. map' \in Trees /\ \A p \in Paths : map'[p] = IF p \in files THEN version' ELSE map[p]
    <3>1. version' \in Versions /\ map \in Trees /\ map' = With(map, files, version')
      BY <1>1, <2>1
    <3> QED
      BY <3>1, WithType
  <2> HIDE DEF tree
  <2>5. Present(tree) = files
    BY <2>1, <2>3 DEF Present
  <2>6. new \subseteq Paths /\ \A p \in files \ new : commits /\ p \notin InFlight
    OBVIOUS
  <2> HIDE DEF new
  <2>7. /\ \A p \in Paths \ Present(tree) : map'[p] = map[p]
        /\ \A p \in Present(tree) : map'[p] = tree[p]
    BY <2>3, <2>4, <2>5
  <2> QED
    BY <2>1, <2>3, <2>4, <2>5, <2>6, <2>7, CallStarts
<1>6. CASE SaveAll
  <2> DEFINE new == Present(map) \cap InFlight
  <2>1. /\ saves' = saves \cup {Call(map, TRUE)} /\ Cardinality(saves) < MaxSaves
        /\ UNCHANGED <<map, index, head, trees, sync, version>> /\ Doubt(new)
    BY <1>6 DEF SaveAll
  <2>2. /\ map' \in Trees /\ version' \in Versions
        /\ \A p \in Paths \ Present(map) : map'[p] = map[p]
        /\ \A p \in Present(map) : map'[p] = map[p]
    BY <1>1, <2>1 DEF FilesTypeOK
  <2>3. new \subseteq Paths /\ \A p \in Present(map) \ new : TRUE /\ p \notin InFlight
    BY DEF Present
  <2> HIDE DEF new
  <2> QED
    BY <1>1, <2>1, <2>2, <2>3, CallStarts
<1>7. ASSUME NEW s \in saves, Commit(s) PROVE IFiles'
  <2>1. /\ saves' = saves \ {s} /\ UNCHANGED <<map, index, sync, version>> /\ Doubt({})
        /\ head' = index /\ trees' = trees \cup {index} /\ s.todo = {}
    BY <1>7 DEF Commit, CommitIndex
  <2>2. /\ head' \in Trees /\ trees' \subseteq Trees
        /\ \A p \in Paths \ {} : head'[p] = index[p] \/ head'[p] = head[p]
        /\ \A p \in Present(s.files) \ {} : head'[p] = index[p] /\ p \notin s.todo
    BY <1>1, <2>1
  <2> QED
    BY <2>1, <2>2, CallEnds
<1>8. ASSUME NEW s \in saves, SaveFails(s) PROVE IFiles'
  <2> DEFINE new == Present(s.files)
  <2>1. /\ saves' = saves \ {s} /\ UNCHANGED <<map, index, head, trees, sync, version>>
        /\ Doubt(new)
    BY <1>8 DEF SaveFails
  <2>2. /\ head' \in Trees /\ trees' \subseteq Trees /\ new \subseteq Paths
        /\ \A p \in Paths \ new : head'[p] = index[p] \/ head'[p] = head[p]
        /\ \A p \in Present(s.files) \ new : head'[p] = index[p] /\ p \notin s.todo
    BY <1>1, <2>1 DEF Present
  <2> HIDE DEF new
  <2> QED
    BY <2>1, <2>2, CallEnds
<1>9. CASE UNCHANGED filesVars
  <2>1. IFiles' = IFiles
    BY <1>9 DEF filesVars, IFiles, FilesTypeOK, SavesBounded, Sure, Quiet, InFlight, Present
  <2> QED
    BY <2>1
<1> QED
  BY <1>3, <1>4, <1>5, <1>6, <1>7, <1>8, <1>9, StageKeeps, GitKeeps, ReadKeeps, ApplyKeeps
  DEF FilesNext

(* The files keep their types, and no more calls are in flight than the    *)
(* bound of the model allows.                                              *)
THEOREM FilesTypeCorrect == FilesSpec => []FilesTypeOK
<1>1. IFiles => FilesTypeOK
  BY DEF IFiles
<1> QED
  BY <1>1, FilesStart, FilesKeep, PTL DEF FilesSpec

(* What is deployed from the map is what git exports, once nothing is in   *)
(* flight, for every file whose last change was committed undisturbed.     *)
THEOREM DeployedIsExported == FilesSpec => []MapMatchesHead
<1>1. IFiles => MapMatchesHead
  <2> SUFFICES ASSUME IFiles, saves = {}, Quiet, NEW p \in Paths \ doubt PROVE map[p] = head[p]
    BY DEF MapMatchesHead, Quiet
  <2>1. Sure(p) /\ p \notin InFlight
    BY DEF IFiles, InFlight
  <2> QED
    BY <2>1 DEF Sure
<1> QED
  BY <1>1, FilesStart, FilesKeep, PTL DEF FilesSpec

=============================================================================
