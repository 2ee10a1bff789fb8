------------------------------- MODULE Files -------------------------------
(***************************************************************************)
(* The files of an agent (implementations/FileManager.ts over git/git.ts): *)
(* generatedFilesMap, which deployments and prompts read, and the git      *)
(* repository, which exports and clones read.  Saving records a file in    *)
(* the map at once and stages and commits it later, file by file; a reset  *)
(* moves HEAD and has the map rebuilt from it, which nobody awaits.        *)
(***************************************************************************)
EXTENDS Naturals, FiniteSets

CONSTANTS
  Paths,
  MaxSaves,      \* bound: saveGeneratedFiles calls in flight
  Syncs,         \* bound: syncGeneratedFilesMapFromGit calls in flight
  MaxVersion,    \* bound: versions ever recorded
  MaxTrees       \* bound: different trees ever committed

ASSUME FilesAssumption == MaxSaves \in Nat /\ MaxVersion \in Nat /\ MaxTrees \in Nat

VARIABLES
  map,           \* path -> version in generatedFilesMap; 0 if absent
  index,         \* path -> version staged (and in the working tree)
  head,          \* path -> version in HEAD
  trees,         \* the trees of all commits
  saves,         \* calls in flight: their files, those yet to stage, whether they commit
  sync,          \* call -> asked or read, with the tree it read
  version,       \* versions recorded so far
  doubt          \* paths whose last change is not known to be in map and HEAD

filesVars == <<map, index, head, trees, saves, sync, version, doubt>>

Versions == 0 .. MaxVersion
Trees == [Paths -> Versions]
Empty == [p \in Paths |-> 0]
Calls == [files : Trees, todo : SUBSET Paths, commits : BOOLEAN]
NoSync == [pc |-> "idle", tree |-> Empty]

FilesTypeOK ==
  /\ map \in Trees /\ index \in Trees /\ head \in Trees /\ trees \subseteq Trees
  /\ saves \subseteq Calls /\ Cardinality(saves) <= MaxSaves
  /\ sync \in [Syncs -> [pc : {"idle", "asked", "read"}, tree : Trees]]
  /\ version \in Versions /\ doubt \subseteq Paths

---------------------------------------------------------------------------
Present(tree) == {p \in Paths : tree[p] # 0}
InFlight == UNION {Present(s.files) : s \in saves}

\* Paths at rest: map, index and HEAD agree and no call will touch them.
Settled == {p \in Paths \ InFlight : map[p] = head[p] /\ index[p] = head[p]}

\* The paths in `new' come in doubt; those that settle leave it.
Doubt(new) == doubt' = (doubt \cup new) \ Settled'

FilesInit ==
  /\ map = Empty /\ index = Empty /\ head = Empty /\ trees = {Empty}
  /\ saves = {} /\ sync = [k \in Syncs |-> NoSync]
  /\ version = 0 /\ doubt = {}

With(tree, files, v) == [p \in Paths |-> IF p \in files THEN v ELSE tree[p]]

\* recordFileChanges: synchronous, nothing reaches git; a file at a time.
RecordFileChanges(p) ==
  /\ version < MaxVersion /\ version' = version + 1
  /\ map' = With(map, {p}, version')
  /\ UNCHANGED <<index, head, trees, saves, sync>>
  /\ Doubt({p})

Call(files, commits) == [files |-> files, todo |-> Present(files), commits |-> commits]

\* saveGeneratedFiles: records; then stages the files, and commits if it has a
\* message.  A path another call is still saving may be staged in any order.
SaveGeneratedFiles(files, commits) ==
  /\ Cardinality(saves) < MaxSaves
  /\ version < MaxVersion /\ version' = version + 1
  /\ map' = With(map, files, version')
  /\ saves' = saves \cup {Call(With(Empty, files, version'), commits)}
  /\ UNCHANGED <<index, head, trees, sync>>
  /\ Doubt(IF commits THEN files \cap InFlight ELSE files)

\* saveGeneratedFiles of no file: all that is in the map is committed.
SaveAll ==
  /\ Cardinality(saves) < MaxSaves /\ Present(map) # {}
  /\ saves' = saves \cup {Call(map, TRUE)}
  /\ UNCHANGED <<map, index, head, trees, sync, version>>
  /\ Doubt(Present(map) \cap InFlight)

\* stage: one file written and added.
Stage(s, p) ==
  /\ p \in s.todo
  /\ index' = [index EXCEPT ![p] = s.files[p]]
  /\ saves' = (saves \ {s}) \cup
       IF s.todo = {p} /\ ~s.commits THEN {} ELSE {[s EXCEPT !.todo = @ \ {p}]}
  /\ UNCHANGED <<map, head, trees, sync, version>>
  /\ Doubt({})

\* commit: the whole index.
CommitIndex ==
  /\ index \in trees \/ Cardinality(trees) < MaxTrees
  /\ head' = index /\ trees' = trees \cup {index}

Commit(s) ==
  /\ s.commits /\ s.todo = {}
  /\ CommitIndex
  /\ saves' = saves \ {s}
  /\ UNCHANGED <<map, index, sync, version>>
  /\ Doubt({})

\* An error of git is logged; the caller cannot tell.
SaveFails(s) ==
  /\ saves' = saves \ {s}
  /\ UNCHANGED <<map, index, head, trees, sync, version>>
  /\ Doubt(Present(s.files))

\* deleteFiles takes them from the map (and the sandbox), not from git.
DeleteFiles(files) ==
  /\ files \subseteq Present(map)
  /\ map' = With(map, files, 0)
  /\ UNCHANGED <<index, head, trees, saves, sync, version>>
  /\ Doubt(files)

\* The git tool's commit: what is staged, if anything is.
GitCommit ==
  /\ index # head
  /\ CommitIndex
  /\ UNCHANGED <<map, index, saves, sync, version>>
  /\ Doubt({})

\* The git tool's reset --hard, and the callback it does not wait for.
GitReset(tree, k) ==
  /\ sync[k].pc = "idle"
  /\ head' = tree /\ index' = tree
  /\ sync' = [sync EXCEPT ![k].pc = "asked"]
  /\ UNCHANGED <<map, trees, saves, version>>
  /\ Doubt({})

\* getAllFilesFromHead: a commit is immutable, so its tree is what HEAD was when
\* it was resolved; an error reads as no files at all.
SyncReads(k) ==
  /\ sync[k].pc = "asked"
  /\ \E tree \in {head, Empty} : sync' = [sync EXCEPT ![k] = [pc |-> "read", tree |-> tree]]
  /\ UNCHANGED <<map, index, head, trees, saves, version>>
  /\ Doubt({})

SyncApplies_Merges(k) ==
  /\ sync[k].pc = "read"
  /\ map' = [p \in Paths |-> IF sync[k].tree[p] # 0 THEN sync[k].tree[p] ELSE map[p]]
  /\ sync' = [sync EXCEPT ![k] = NoSync]
  /\ UNCHANGED <<index, head, trees, saves, version>>
  /\ Doubt({p \in Paths : sync[k].tree[p] # head[p]} \cup InFlight)

\* The map is replaced by what was read, whatever happened since: HEAD may have
\* moved, and calls in flight have recorded files that no commit holds yet.
SyncApplies(k) ==
  /\ sync[k].pc = "read"
  /\ map' = sync[k].tree
  /\ sync' = [sync EXCEPT ![k] = NoSync]
  /\ UNCHANGED <<index, head, trees, saves, version>>
  /\ Doubt({p \in Paths : sync[k].tree[p] # head[p]} \cup InFlight)

---------------------------------------------------------------------------
FilesNext ==
  \/ GitCommit
  \/ \E p \in Paths : RecordFileChanges(p)
  \/ \E files \in SUBSET Paths \ {{}} :
       \/ DeleteFiles(files)
       \/ \E commits \in BOOLEAN : SaveGeneratedFiles(files, commits)
  \/ SaveAll
  \/ \E s \in saves :
       \/ Commit(s) \/ SaveFails(s)
       \/ \E p \in Paths : Stage(s, p)
  \/ \E k \in Syncs :
       \/ SyncReads(k) \/ SyncApplies(k)
       \/ \E tree \in trees : GitReset(tree, k)

FilesSpec == FilesInit /\ [][FilesNext]_filesVars

---------------------------------------------------------------------------
(* Properties *)

\* Once no save and no rebuild is in flight, the map and HEAD hold the same
\* version of a file (what is deployed is what is exported), unless its last
\* commit failed, it was only staged, recorded or deleted, or two of these
\* calls on it overlapped.
MapMatchesHead ==
  saves = {} /\ (\A k \in Syncs : sync[k].pc = "idle") =>
    \A p \in Paths \ doubt : map[p] = head[p]
=============================================================================
