---------------------------- MODULE SummaryTree ----------------------------
(***************************************************************************)
(* Rows of mem_tree_buffers, mem_tree_summaries and mem_tree_trees, and    *)
(* the transactions on them that source trees and topic trees share        *)
(* (memory/tree/tree_source/store.rs and bucket_seal.rs).  The frontier of *)
(* a tree at a level is a set of items: leaves are chunks, everything      *)
(* above is a summary.  Texts, embeddings, labels, time ranges and the     *)
(* order within a buffer are left out.                                     *)
(***************************************************************************)
EXTENDS Integers, FiniteSets, FiniteSetsExt

CONSTANTS
  Chunks,       \* chunk ids
  SummaryIds,   \* ids that new_summary_id may draw
  SourceTrees,  \* trees of kind source
  TopicTrees,   \* trees of kind topic
  MaxLevel,     \* bound: buffers above this level are not sealed
  Fanout,       \* SUMMARY_FANOUT
  TokenBudget,  \* INPUT_TOKEN_BUDGET
  Tokens,       \* token_count of each item
  NULL          \* SQL NULL

Items == Chunks \cup SummaryIds
Trees == SourceTrees \cup TopicTrees
Levels == 0..MaxLevel

\* A row of mem_tree_summaries; topics are the topic trees of the entities
\* indexed for it.
Summary == [tree : Trees, level : Nat, children : SUBSET Items,
            topics : SUBSET TopicTrees]

ASSUME SummaryTreeAssumption ==
  /\ Chunks \cap SummaryIds = {}
  /\ SourceTrees \cap TopicTrees = {}
  /\ NULL \notin Items /\ NULL \notin Summary
  /\ MaxLevel \in Nat
  /\ Fanout \in Nat \ {0}
  /\ TokenBudget \in Nat
  /\ Tokens \in [Items -> Nat]

-----------------------------------------------------------------------------
(* bucket_seal.rs: the seal gate and the inputs of the summariser.         *)

ShouldSeal(level, items) ==
  /\ items # {}
  /\ \/ Cardinality(items) >= Fanout
     \/ level = 0 /\ MapThenSumSet(LAMBDA i : Tokens[i], items) >= TokenBudget

\* Level 0 is looked up among the chunks, every other level among the
\* summaries; an id that is not found is skipped.
Hydrated(level, items) ==
  IF level = 0 THEN items \cap Chunks ELSE items \cap SummaryIds

-----------------------------------------------------------------------------
(* Transactions, each as the value of one table after it.                  *)

\* Push of an item that is not there yet.
Pushed(buffer, tree, item) == [buffer EXCEPT ![tree][0] = @ \cup {item}]

\* Mutants: the commit of a seal that forgets to clear the buffer, and one
\* that forgets the parent's.
BuffersAfterSeal_NoClear(buffer, tree, level, id) ==
  [buffer EXCEPT ![tree][level + 1] = @ \cup {id}]

BuffersAfterSeal_NoParent(buffer, tree, level, id) == [buffer EXCEPT ![tree][level] = {}]

\* The commit of a seal: the sealed level is cleared whatever it holds by
\* now, and the new summary joins the level above.
LevelsAfterSeal(levels, level, id) ==
  [levels EXCEPT ![level] = {}, ![level + 1] = @ \cup {id}]

BuffersAfterSeal(buffer, tree, level, id) ==
  [buffer EXCEPT ![tree] = LevelsAfterSeal(@, level, id)]

\* Mutant: a backlink that overwrites.
Backlinked_Overwrites(parent, level, children, id) ==
  [i \in Items |-> IF i \in Hydrated(level, children) THEN id ELSE parent[i]]

\* Backlinks of the children whose parent is still NULL.
Backlinked(parent, level, children, id) ==
  [i \in Items |-> IF i \in Hydrated(level, children) /\ parent[i] = NULL
                     THEN id ELSE parent[i]]

\* Mutant: the sealed level is compared, not the level of the summary.
Climbed_OneBelow(top, tree, level, id) ==
  IF level - 1 > top[tree].level
    THEN [top EXCEPT ![tree] = [root |-> id, level |-> level]]
    ELSE top

\* root_id and max_level move only when the tree climbs.
Climbed(top, tree, level, id) ==
  IF level > top[tree].level
    THEN [top EXCEPT ![tree] = [root |-> id, level |-> level]]
    ELSE top
=============================================================================
