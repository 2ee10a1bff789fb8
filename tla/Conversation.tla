---------------------------- MODULE Conversation ----------------------------
(***************************************************************************)
(* The conversation of an agent (core/codingAgent.ts) and its writers: the *)
(* turns of the phasic behaviour (UserConversationProcessor), the messages *)
(* a build of the agentic behaviour adds while it runs tools, and the      *)
(* compaction of the running history by a model (conversationCompactifier).*)
(*                                                                         *)
(* Two tables hold it: all messages, and the running history a model is    *)
(* given, whose older part a summary stands for.  A turn and a compaction  *)
(* read both, wait for the model, and write both.                          *)
(***************************************************************************)
EXTENDS Naturals, Sequences

CONSTANTS
  Writers,       \* handlers of user messages, and tools that check for a compaction
  CompactAt,     \* length from which shouldCompactify may ask for a compaction
  Preserve,      \* PRESERVE_RECENT_MESSAGES
  MaxMessages    \* bound: messages ever made

ASSUME ConversationAssumption ==
  /\ CompactAt \in Nat \ {0} /\ Preserve \in Nat \ {0} /\ MaxMessages \in Nat

VARIABLES
  behaviour,     \* phasic or agentic
  full,          \* full_conversations
  running,       \* compact_conversations
  writer,        \* writer -> what it does and what it has read
  made           \* messages made so far: their conversation ids

convVars == <<behaviour, full, running, writer, made>>

\* A message, or a summary of the messages with the given ids.
Entries == [role : {"user", "assistant", "tool", "summary"}, of : SUBSET (1 .. MaxMessages)]
Histories == Seq(Entries)
Idle == [pc |-> "idle", full |-> <<>>, running |-> <<>>]

ConvTypeOK ==
  /\ behaviour \in {"phasic", "agentic"}
  /\ full \in Histories /\ running \in Histories
  /\ writer \in [Writers -> [pc : {"idle", "turn", "compaction"}, full : Histories,
                             running : Histories]]
  /\ made \in 0 .. MaxMessages

---------------------------------------------------------------------------
(* Histories *)

Message(role, id) == [role |-> role, of |-> {id}]
Covered(history) == UNION {history[k].of : k \in DOMAIN history}

\* getConversationState: an empty running history reads as the full one.
RunningRead == IF running = <<>> THEN full ELSE running

\* findTurnBoundary: just before the last user message that leaves at least
\* Preserve messages; 0 if there is none.
Boundary(history) ==
  LET users == {k \in DOMAIN history : history[k].role = "user" /\ k + Preserve <= Len(history) + 1}
  IN IF Len(history) <= Preserve \/ users = {} THEN 0
     ELSE (CHOOSE k \in users : \A j \in users : j <= k) - 1

Compacted(history) ==
  LET n == Boundary(history)
  IN IF n = 0 THEN history
     ELSE <<[role |-> "summary", of |-> Covered(SubSeq(history, 1, n))]>>
          \o SubSeq(history, n + 1, Len(history))

\* compactifyContext: by turns or by tokens, which only the size bounds here.
Compactions(history) ==
  IF Len(history) < CompactAt THEN {history} ELSE {history, Compacted(history)}

---------------------------------------------------------------------------
ConvInit ==
  /\ behaviour \in {"phasic", "agentic"}
  /\ full = <<>> /\ running = <<>> /\ made = 0
  /\ writer = [w \in Writers |-> Idle]

\* setConversationState
Store(f, r) == full' = f /\ running' = r

\* addConversationMessage, of a message with an id of its own.
Add(role) ==
  /\ made < MaxMessages /\ made' = made + 1
  /\ Store(Append(full, Message(role, made + 1)), Append(RunningRead, Message(role, made + 1)))

ClearConversation ==
  /\ full # <<>>
  /\ Store(<<>>, <<>>)
  /\ UNCHANGED <<behaviour, writer, made>>

Read(w, pc) == writer' = [writer EXCEPT ![w] = [pc |-> pc, full |-> full, running |-> RunningRead]]

\* handleUserInput of the phasic behaviour reads the conversation before the
\* uploads and the model.
StartTurn(w) ==
  /\ behaviour = "phasic" /\ writer[w].pc = "idle"
  /\ Read(w, "turn")
  /\ UNCHANGED <<behaviour, full, running, made>>

\* What a turn adds: the user's message, the assistant's, and between them
\* those of its tool calls, if any.
TurnRoles == {<<"user", "assistant">>, <<"user", "assistant", "tool", "assistant">>}

\* The turn writes what it read, compacted, and its own messages; an error is
\* answered with a fallback message, and nothing is compacted then.
EndTurn(w) ==
  /\ writer[w].pc = "turn"
  /\ \E roles \in TurnRoles :
       LET new == [k \in DOMAIN roles |-> Message(roles[k], made + k)]
       IN /\ made' = made + Len(roles) /\ made' <= MaxMessages
          /\ \E r \in Compactions(writer[w].running) : Store(writer[w].full \o new, r \o new)
  /\ writer' = [writer EXCEPT ![w] = Idle]
  /\ UNCHANGED behaviour

\* A rate limit or a security error is rethrown: nothing is written.
TurnFails(w) ==
  /\ writer[w].pc = "turn"
  /\ writer' = [writer EXCEPT ![w] = Idle]
  /\ UNCHANGED <<behaviour, full, running, made>>

\* executeReviewCycle asks whether to fix the issues it found.
OfferReview ==
  /\ behaviour = "phasic"
  /\ Add("assistant")
  /\ UNCHANGED <<behaviour, writer>>

\* A build adds its requests, and the messages of its model and tools.
BuildAdds(role) ==
  /\ behaviour = "agentic"
  /\ Add(role)
  /\ UNCHANGED <<behaviour, writer>>

\* Every COMPACTIFY_CHECK_INTERVAL messages, and at the end of an attempt;
\* another tool of the group may add messages meanwhile.
StartCompaction(w) ==
  /\ behaviour = "agentic" /\ writer[w].pc = "idle"
  /\ Len(RunningRead) >= CompactAt
  /\ Read(w, "compaction")
  /\ UNCHANGED <<behaviour, full, running, made>>

EndCompaction_FreshFull(w) ==
  /\ writer[w].pc = "compaction"
  /\ LET compact == Compacted(writer[w].running)
     IN IF Len(compact) = Len(writer[w].running) THEN UNCHANGED <<full, running>>
        ELSE Store(full, compact)
  /\ writer' = [writer EXCEPT ![w] = Idle]
  /\ UNCHANGED <<behaviour, made>>

\* Both tables are written as they were read, and only if the length changed.
EndCompaction(w) ==
  /\ writer[w].pc = "compaction"
  /\ LET compact == Compacted(writer[w].running)
     IN IF Len(compact) = Len(writer[w].running) THEN UNCHANGED <<full, running>>
        ELSE Store(writer[w].full, compact)
  /\ writer' = [writer EXCEPT ![w] = Idle]
  /\ UNCHANGED <<behaviour, made>>

---------------------------------------------------------------------------
ConvNext ==
  \/ ClearConversation \/ OfferReview
  \/ \E role \in {"user", "assistant", "tool"} : BuildAdds(role)
  \/ \E w \in Writers :
       \/ StartTurn(w) \/ EndTurn(w) \/ TurnFails(w)
       \/ StartCompaction(w) \/ EndCompaction(w)

ConvSpec == ConvInit /\ [][ConvNext]_convVars

---------------------------------------------------------------------------
(* Properties *)

\* The running history is the full one, its older part replaced by a summary:
\* what a model is given and what the user sees never diverge, although turns,
\* compactions, added messages and clears overlap and overwrite each other.
RunningIsView(f, r) ==
  \/ r = f
  \/ \E n \in DOMAIN f :
       r = <<[role |-> "summary", of |-> Covered(SubSeq(f, 1, n))]>> \o SubSeq(f, n + 1, Len(f))

HistoryView == RunningIsView(full, RunningRead)
=============================================================================
