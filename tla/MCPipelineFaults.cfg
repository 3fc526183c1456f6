\* Two workers interleaving at every await, one chunk that fills the budget, a topic tree
\* that everything is routed to, one fault of any kind.
\* The pipeline comes to rest once every chunk is placed.
CONSTANTS
  c1 = c1
  c2 = c2
  c3 = c3
  s1 = s1
  s2 = s2
  s3 = s3
  s4 = s4
  src = src
  topic = topic
  w1 = w1
  w2 = w2
  NULL = NULL
  Chunks = {c3}
  SummaryIds = {s1, s2, s3, s4}
  SourceTrees = {src}
  TopicTrees = {topic}
  MaxLevel = 1
  Fanout = 2
  TokenBudget = 4
  Tokens <- TokenWeights
  SourceOf <- OneSource
  Mentions <- AllMention
  Workers = {w1, w2}
  LocalLlm = FALSE
  MaxAttempts = 2
  FaultKinds = {"error", "late_error", "busy", "crash"}
  MaxFaults = 1
  MaxFlushes = 0
SPECIFICATION Spec
SYMMETRY Symmetry
INVARIANTS
  TreeInv
  SealedOnce
  NothingLost
  GateArmed
PROPERTIES
  ImplementsRollup
  BacklinksFinal
CHECK_DEADLOCK FALSE
