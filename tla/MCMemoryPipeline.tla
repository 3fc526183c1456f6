-------------------------- MODULE MCMemoryPipeline --------------------------
(* Instances of MemoryPipeline for TLC. *)
EXTENDS MemoryPipeline, TLC

CONSTANTS c1, c2, c3, s1, s2, s3, s4, src, topic, w1, w2

OneSource == [c \in Chunks |-> src]
NoMentions == [c \in Chunks |-> {}]
AllMention == [c \in Chunks |-> TopicTrees]

\* c3 alone fills the token budget of 4, two others do not.
TokenWeights == [i \in Items |-> IF i = c3 THEN 4 ELSE 1]

Symmetry == Permutations(SummaryIds) \cup Permutations(Workers)
=============================================================================
