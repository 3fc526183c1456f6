\* Two workers, one permit for the local model, two chunks, a forced flush and a failing
\* handler.
\* The pipeline comes to rest once every chunk is placed.
CONSTANTS
  c1 = c1
  c2 = c2
  c3 = c3
  s1 = s1
  s2 = s2
  s3 = s3
  s4 = s4
  src = src
  topic = topic
  w1 = w1
  w2 = w2
  NULL = NULL
  Chunks = {c1, c3}
  SummaryIds = {s1, s2, s3}
  SourceTrees = {src}
  TopicTrees = {}
  MaxLevel = 1
  Fanout = 2
  TokenBudget = 4
  Tokens <- TokenWeights
  SourceOf <- OneSource
  Mentions <- NoMentions
  Workers = {w1, w2}
  LocalLlm = TRUE
  MaxAttempts = 2
  FaultKinds = {"error"}
  MaxFaults = 1
  MaxFlushes = 1
SPECIFICATION FairSpec
PROPERTIES
  PipelineFlows
CHECK_DEADLOCK FALSE
