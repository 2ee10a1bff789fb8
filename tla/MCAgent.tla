------------------------------ MODULE MCAgent ------------------------------
(***************************************************************************)
(* Small instances of the parts of an agent that generation and deployment *)
(* rest on.  As in MCServices, they share no variable and `focus' is the   *)
(* one that moves.                                                         *)
(***************************************************************************)
EXTENDS ToolLoop, AgenticBuild, Conversation, Files, DeepDebug

CONSTANTS read, write, commit, done, f, b1, b2, w1, w2, p1, p2, k1, t1, t2

VARIABLE focus

\* A reader and a writer of a file, the git tool and a completion signal.
MCTools == {read, write, commit, done}
MCFile == {f}
Touches == [mode |-> "none", paths |-> {}, sandbox |-> "none", blueprint |-> FALSE,
            commit |-> FALSE]
MCResources ==
  [t \in MCTools |->
    CASE t = read -> [Touches EXCEPT !.mode = "read", !.paths = MCFile]
      [] t = write -> [Touches EXCEPT !.mode = "write", !.paths = MCFile, !.sandbox = "deploy"]
      [] t = commit -> [Touches EXCEPT !.commit = TRUE]
      [] t = done -> Touches]
MCCompleting == {done}
MCBuilds == {b1, b2}
MCWriters == {w1, w2}
MCPaths == {p1, p2}
MCSyncs == {k1}
MCDebugTurns == {t1, t2}

agentVars == <<focus, loopVars, agenticVars, convVars, filesVars, debugVars>>

AgentTypeOK == LoopTypeOK /\ AgenticTypeOK /\ ConvTypeOK /\ FilesTypeOK /\ DebugTypeOK

AgentInit ==
  /\ focus \in {"loop", "builds", "conversation", "files", "debug"}
  /\ LoopInit /\ AgenticInit /\ ConvInit /\ FilesInit /\ DebugInit
  \* One initial state of a component that does not move.
  /\ complete \/ focus = "builds"
  /\ behaviour = "phasic" \/ focus = "conversation"

AgentNext ==
  /\ UNCHANGED focus
  /\ \/ focus = "loop" /\ LoopNext /\ UNCHANGED <<agenticVars, convVars, filesVars, debugVars>>
     \/ focus = "builds" /\ AgenticNext /\ UNCHANGED <<loopVars, convVars, filesVars, debugVars>>
     \/ focus = "conversation" /\ ConvNext /\ UNCHANGED <<loopVars, agenticVars, filesVars, debugVars>>
     \/ focus = "files" /\ FilesNext /\ UNCHANGED <<loopVars, agenticVars, convVars, debugVars>>
     \/ focus = "debug" /\ DebugNext /\ UNCHANGED <<loopVars, agenticVars, convVars, filesVars>>

AgentSpec ==
  /\ AgentInit /\ [][AgentNext]_agentVars
  /\ LoopFairness /\ AgenticFairness /\ DebugFairness

\* A turn that waits for a debug session or a build goes on (WaitEnds), stated
\* of one turn: the turns are interchangeable.
WaitsEnd == WaitEnds(t1)
=============================================================================
