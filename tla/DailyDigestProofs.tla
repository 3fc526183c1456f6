------------------------- MODULE DailyDigestProofs -------------------------
(***************************************************************************)
(* Theorems about DailyDigest, for any days, ids, thresholds, number of    *)
(* workers and fault bounds.  A day has one job row and so one worker at a *)
(* time, and a worker folds a day only while the day has no daily.         *)
(***************************************************************************)
EXTENDS DailyDigest, FiniteSetTheorems, TLAPS

\* What a worker holds: a running row from the claim to the settlement, an
\* inserted daily before the append, a level below the top before a rollup.
WorkInv ==
  \A w \in Workers :
    /\ at[w] # "idle" <=> day[w] # NULL
    /\ day[w] # NULL => job[day[w]].status = "running"
    /\ at[w] = "append" => made[w] \in Ids
    /\ at[w] = "roll" => level[w] \in Levels

\* A day has one row, which has one worker at most.
OneWorkerPerDay ==
  \A v, w \in Workers : day[v] # NULL /\ day[v] = day[w] => v = w

TypeInv == TypeOK /\ WorkInv /\ OneWorkerPerDay

-----------------------------------------------------------------------------
(* Type correctness.                                                       *)

LEMMA LevelBound ==
  /\ TopLevel \in Nat
  /\ \A l \in Levels : l \in 0..TopLevel /\ l + 1 \in 0..TopLevel
<1>1. TopLevel \in Nat
  BY DailyDigestAssumption, FS_CardinalityType DEF TopLevel
<1> HIDE DEF TopLevel, Levels
<1> QED
  BY <1>1, DailyDigestAssumption

\* An unused id is an id.
LEMMA NewIdUnused == Unused # {} => NewId \in Ids /\ summary[NewId] = NULL
BY DEF Unused, NewId

LEMMA TypeInit == Init => TypeInv
<1> USE DailyDigestAssumption, LevelBound
<1> HIDE DEF TopLevel, Levels
<1>1. Init => TypeOK
  <2> SUFFICES ASSUME Init PROVE TypeOK
    OBVIOUS
  <2>1. 0 \in 0..TopLevel
    OBVIOUS
  <2>2. buffer \in [0..TopLevel -> SUBSET Ids] /\ level \in [Workers -> 0..TopLevel]
    BY <2>1 DEF Init
  <2>3. job \in [Days -> JobRow]
    BY DEF Init, JobRow
  <2>4. top \in [root : Ids \cup {NULL}, level : 0..TopLevel]
    BY <2>1 DEF Init
  <2> QED
    BY <2>2, <2>3, <2>4 DEF Init, TypeOK
<1>2. Init => WorkInv
  BY DEF Init, WorkInv
<1>3. Init => OneWorkerPerDay
  BY DEF Init, OneWorkerPerDay
<1> QED
  BY <1>1, <1>2, <1>3 DEF TypeInv

\* A day is claimed from a ready row, and a day some worker has is running.
LEMMA OneWorkerStep == TypeInv /\ [Next]_vars => OneWorkerPerDay'
<1> SUFFICES ASSUME TypeOK, WorkInv, OneWorkerPerDay, [Next]_vars PROVE OneWorkerPerDay'
  BY DEF TypeInv
<1>1. ASSUME NEW w \in Workers, Claim(w) PROVE OneWorkerPerDay'
  <2>1. PICK d \in Days : job[d].status = "ready" /\ day' = [day EXCEPT ![w] = d]
    BY <1>1 DEF Claim
  <2>2. \A v \in Workers : day[v] # d
    BY <2>1, DailyDigestAssumption DEF WorkInv
  <2> QED
    BY <2>1, <2>2 DEF TypeOK, OneWorkerPerDay
<1>2. ASSUME NEW w \in Workers, Poll(w) PROVE OneWorkerPerDay'
  BY <1>2 DEF Poll, TypeOK, OneWorkerPerDay
<1>3. CASE CrashAndRestart
  BY <1>3 DEF CrashAndRestart, OneWorkerPerDay
<1>4. CASE UNCHANGED day
  BY <1>4 DEF OneWorkerPerDay
<1> QED
  BY <1>1, <1>2, <1>3, <1>4
  DEF Next, vars, work, SourceSeals, Trigger, DigestStep, DigestStarts, CommitDaily, AppendDaily,
      CascadeReads, RollupCommits, DigestFails, Settle, SettleBusy

LEMMA TypeStep == TypeInv /\ [Next]_vars => TypeInv'
<1> SUFFICES ASSUME TypeOK, WorkInv, OneWorkerPerDay, [Next]_vars PROVE TypeOK' /\ WorkInv'
  BY OneWorkerStep DEF TypeInv
<1> USE DailyDigestAssumption, LevelBound
<1>1. CASE SourceSeals
  BY <1>1 DEF SourceSeals, TypeOK, WorkInv, tree, work
<1>2. ASSUME NEW d \in Days, Trigger(d) PROVE TypeOK' /\ WorkInv'
  <2>1. job' \in [Days -> JobRow]
    BY <1>2 DEF Trigger, TypeOK, JobRow
  <2> QED
    BY <1>2, <2>1 DEF Trigger, TypeOK, WorkInv, tree, work
<1>3. ASSUME NEW w \in Workers, Claim(w) PROVE TypeOK' /\ WorkInv'
  <2>1. PICK d \in Days : /\ job[d].status = "ready"
                          /\ job' = [job EXCEPT ![d].status = "running", ![d].attempts = @ + 1]
                          /\ day' = [day EXCEPT ![w] = d]
    BY <1>3 DEF Claim
  <2>2. job' \in [Days -> JobRow] /\ job'[d].status = "running"
        /\ \A e \in Days \ {d} : job'[e] = job[e]
    <3>1. job[d] \in JobRow /\ job[d].attempts \in Nat
      BY DEF TypeOK, JobRow
    <3>2. PICK row : row = [job[d] EXCEPT !.status = "running"]
      OBVIOUS
    <3>3. row = [status |-> "running", attempts |-> job[d].attempts]
      BY <3>1, <3>2 DEF JobRow
    <3>5. [row EXCEPT !.attempts = @ + 1] = [status |-> "running", attempts |-> job[d].attempts + 1]
      BY <3>3
    <3>6. [job EXCEPT ![d].status = "running"] = [job EXCEPT ![d] = row]
      BY <3>2
    <3>7. job' = [job EXCEPT ![d] = [status |-> "running", attempts |-> job[d].attempts + 1]]
      BY <2>1, <3>5, <3>6 DEF TypeOK
    <3>4. [status |-> "running", attempts |-> job[d].attempts + 1] \in JobRow
      BY <3>1 DEF JobRow
    <3> QED
      BY <3>4, <3>7 DEF TypeOK
  <2>3. TypeOK'
    BY <1>3, <2>1, <2>2 DEF Claim, TypeOK, tree
  <2>4. WorkInv'
    BY <1>3, <2>1, <2>2 DEF Claim, WorkInv, TypeOK
  <2> QED
    BY <2>3, <2>4
<1>4. ASSUME NEW w \in Workers, DigestStarts(w) PROVE TypeOK' /\ WorkInv'
  BY <1>4 DEF DigestStarts, TypeOK, WorkInv, tree, work
<1>5. ASSUME NEW w \in Workers, CommitDaily(w) PROVE TypeOK' /\ WorkInv'
  <2>1. NewId \in Ids
    BY <1>5, NewIdUnused DEF CommitDaily
  <2>2. [level |-> 0, day |-> day[w], children |-> {}] \in Summary
    BY DEF Summary, TypeOK
  <2> QED
    BY <1>5, <2>1, <2>2 DEF CommitDaily, TypeOK, WorkInv
<1>6. ASSUME NEW w \in Workers, AppendDaily(w) PROVE TypeOK' /\ WorkInv'
  <2>1. made[w] \in Ids
    BY <1>6 DEF AppendDaily, WorkInv
  <2>2. buffer' \in [0..TopLevel -> SUBSET Ids]
    BY <1>6, <2>1 DEF AppendDaily, TypeOK
  <2>3. caught' \subseteq Ids
    BY <1>6, <2>1 DEF AppendDaily, CaughtWith, TypeOK
  <2>4. TypeOK'
    <3>1. level' \in [Workers -> 0..TopLevel]
      BY <1>6 DEF AppendDaily, TypeOK
    <3> QED
      BY <1>6, <2>2, <2>3, <3>1 DEF AppendDaily, TypeOK
  <2>5. WorkInv'
    BY <1>6 DEF AppendDaily, TypeOK, WorkInv
  <2> QED
    BY <2>4, <2>5
<1>7. ASSUME NEW w \in Workers, CascadeReads(w) PROVE TypeOK' /\ WorkInv'
  <2>1. buffer[level[w]] \subseteq Ids
    BY DEF TypeOK
  <2>2. seen' \in [Workers -> SUBSET Ids]
    BY <1>7, <2>1 DEF CascadeReads, TypeOK
  <2>5. caught' \subseteq Ids
    BY <1>7, <2>1 DEF CascadeReads, CaughtWith, TypeOK
  <2>3. TypeOK'
    BY <1>7, <2>2, <2>5 DEF CascadeReads, TypeOK, tree
  <2>4. WorkInv'
    BY <1>7 DEF CascadeReads, DueForRollup, TypeOK, WorkInv
  <2> QED
    BY <2>3, <2>4
<1>8. ASSUME NEW w \in Workers, RollupCommits(w) PROVE TypeOK' /\ WorkInv'
  <2>1. NewId \in Ids /\ level[w] \in Levels /\ at[w] = "roll"
    BY <1>8, NewIdUnused DEF RollupCommits, WorkInv
  <2>2. level[w] \in 0..TopLevel /\ level[w] + 1 \in 0..TopLevel
    BY <2>1
  <2>3. [level |-> level[w] + 1, day |-> NULL, children |-> seen[w]] \in Summary
    BY <2>2 DEF Summary, TypeOK
  <2>4. /\ summary' \in [Ids -> Summary \cup {NULL}]
        /\ parent' \in [Ids -> Ids \cup {NULL}]
    BY <1>8, <2>1, <2>3 DEF RollupCommits, TypeOK
  <2>5. buffer' \in [0..TopLevel -> SUBSET Ids]
    <3>1. buffer' = Rolled(level[w], NewId) /\ buffer \in [0..TopLevel -> SUBSET Ids]
      BY <1>8 DEF RollupCommits, TypeOK
    <3> QED
      BY <2>1, <2>2, <3>1 DEF Rolled
  <2>6. top' \in [root : Ids \cup {NULL}, level : 0..TopLevel]
    BY <1>8, <2>1, <2>2 DEF RollupCommits, TypeOK
  <2>9. caught' \subseteq Ids
    BY <1>8, <2>1 DEF RollupCommits, CaughtWith, TypeOK
  <2>7. TypeOK'
    BY <1>8, <2>2, <2>4, <2>5, <2>6, <2>9 DEF RollupCommits, TypeOK
  <2>8. WorkInv'
    BY <1>8 DEF RollupCommits, TypeOK, WorkInv
  <2> QED
    BY <2>7, <2>8
<1>9. ASSUME NEW w \in Workers, DigestFails(w) PROVE TypeOK' /\ WorkInv'
  BY <1>9 DEF DigestFails, Fault, TypeOK, WorkInv, tree, work
<1>10. ASSUME NEW w \in Workers, Settle(w) PROVE TypeOK' /\ WorkInv'
  <2>1. day[w] \in Days /\ job[day[w]].status = "running"
    BY <1>10 DEF Settle, TypeOK, WorkInv
  <2>2. job' \in [Days -> JobRow]
    BY <1>10, <2>1 DEF Settle, SettledStatus, TypeOK, JobRow
  <2>3. \A d \in Days \ {day[w]} : job'[d] = job[d]
    BY <1>10, <2>1 DEF Settle, TypeOK
  <2>4. TypeOK'
    BY <1>10, <2>2 DEF Settle, Poll, TypeOK, tree
  <2>5. WorkInv'
    BY <1>10, <2>1, <2>3 DEF OneWorkerPerDay, Settle, Poll, TypeOK, WorkInv
  <2> QED
    BY <2>4, <2>5
<1>11. ASSUME NEW w \in Workers, SettleBusy(w) PROVE TypeOK' /\ WorkInv'
  BY <1>11 DEF SettleBusy, Poll, Fault, TypeOK, WorkInv, tree
<1>12. CASE CrashAndRestart
  <2>1. PICK stale \in SUBSET {d \in Days : job[d].status = "running"} :
          job' = [d \in Days |-> IF d \in stale THEN [job[d] EXCEPT !.status = "ready"] ELSE job[d]]
    BY <1>12 DEF CrashAndRestart
  <2>2. ASSUME NEW d \in Days PROVE [job[d] EXCEPT !.status = "ready"] \in JobRow
    <3>1. job[d] \in JobRow
      BY DEF TypeOK
    <3> QED
      BY <3>1 DEF JobRow
  <2>3. job' \in [Days -> JobRow]
    BY <2>1, <2>2 DEF TypeOK
  <2>4. TypeOK'
    BY <1>12, <2>3 DEF CrashAndRestart, Fault, TypeOK, tree
  <2>5. WorkInv'
    BY <1>12 DEF CrashAndRestart, WorkInv
  <2> QED
    BY <2>4, <2>5
<1>13. CASE UNCHANGED vars
  BY <1>13 DEF vars, TypeOK, WorkInv, tree, work
<1> QED
  BY <1>1, <1>2, <1>3, <1>4, <1>5, <1>6, <1>7, <1>8, <1>9, <1>10, <1>11, <1>12, <1>13
  DEF Next, DigestStep

\* Every reachable state has its type: no level beyond the top one, no
\* summary of unknown children, no row of unknown status.
THEOREM TypeCorrect == Spec => []TypeOK
<1>1. TypeInv => TypeOK
  BY DEF TypeInv
<1> QED
  BY TypeInit, TypeStep, <1>1, PTL DEF Spec

-----------------------------------------------------------------------------
(* One daily to a day.                                                     *)

\* A worker that folds a day has seen that it has no daily, and nobody else
\* has added one since.
FoldFresh == \A w \in Workers : at[w] = "fold" => Dailies(day[w]) = {}

SameDaily == \A d \in Days : \A i, j \in Dailies(d) : i = j

OnceInv == TypeInv /\ FoldFresh /\ SameDaily

LEMMA OnceInit == Init => FoldFresh /\ SameDaily
BY DEF Init, FoldFresh, SameDaily, Dailies

\* Only CommitDaily adds a daily, for the day its worker folds.
LEMMA DailiesStep ==
  TypeInv /\ [Next]_vars =>
    \/ \A d \in Days : Dailies(d)' = Dailies(d)
    \/ \E w \in Workers, i \in Ids :
         /\ CommitDaily(w)
         /\ \A d \in Days : Dailies(d)' = IF d = day[w] THEN Dailies(d) \cup {i} ELSE Dailies(d)
<1> SUFFICES ASSUME TypeInv, [Next]_vars
             PROVE  \/ \A d \in Days : Dailies(d)' = Dailies(d)
                    \/ \E w \in Workers, i \in Ids :
                         /\ CommitDaily(w)
                         /\ \A d \in Days : Dailies(d)' = IF d = day[w] THEN Dailies(d) \cup {i}
                                                                      ELSE Dailies(d)
  OBVIOUS
<1>1. CASE UNCHANGED summary
  BY <1>1 DEF Dailies
<1>2. ASSUME NEW w \in Workers, CommitDaily(w)
      PROVE  \E i \in Ids : \A d \in Days :
               Dailies(d)' = IF d = day[w] THEN Dailies(d) \cup {i} ELSE Dailies(d)
  <2>1. NewId \in Ids /\ summary[NewId] = NULL
    BY <1>2, NewIdUnused DEF CommitDaily
  <2>2. /\ summary'[NewId] # NULL
        /\ summary'[NewId].level = 0 /\ summary'[NewId].day = day[w]
        /\ \A i \in Ids \ {NewId} : summary'[i] = summary[i]
    <3>1. LET row == [level |-> 0, day |-> day[w], children |-> {}]
          IN  row \in Summary /\ row # NULL
      BY <1>2, DailyDigestAssumption DEF Summary, TypeInv, TypeOK
    <3> QED
      BY <1>2, <2>1, <3>1 DEF CommitDaily, TypeInv, TypeOK
  <2> QED
    BY <2>1, <2>2 DEF Dailies
<1>3. ASSUME NEW w \in Workers, RollupCommits(w)
      PROVE  \A d \in Days : Dailies(d)' = Dailies(d)
  <2>1. NewId \in Ids /\ summary[NewId] = NULL
    BY <1>3, NewIdUnused DEF RollupCommits
  <2>2. level[w] + 1 # 0
    BY <1>3, LevelBound DEF RollupCommits, TypeInv, TypeOK
  <2>3. /\ summary'[NewId].level # 0
        /\ \A i \in Ids \ {NewId} : summary'[i] = summary[i]
    BY <1>3, <2>1, <2>2 DEF RollupCommits, TypeInv, TypeOK
  <2> QED
    BY <2>1, <2>3 DEF Dailies
<1> QED
  BY <1>1, <1>2, <1>3
  DEF Next, vars, tree, SourceSeals, Trigger, Claim, DigestStep, DigestStarts, AppendDaily,
      CascadeReads, DigestFails, Settle, SettleBusy, CrashAndRestart

LEMMA OnceStep == OnceInv /\ [Next]_vars => FoldFresh' /\ SameDaily'
<1> SUFFICES ASSUME TypeInv, FoldFresh, SameDaily, [Next]_vars PROVE FoldFresh' /\ SameDaily'
  BY DEF OnceInv
<1>1. \A w \in Workers : at[w] = "fold" => day[w] \in Days
  BY DailyDigestAssumption DEF TypeInv, TypeOK, WorkInv
<1>2. ASSUME NEW w \in Workers, at'[w] = "fold"
      PROVE  /\ day'[w] = day[w] /\ day[w] \in Days
             /\ Dailies(day[w]) = {}
  <2>1. CASE at[w] = "fold" /\ day'[w] = day[w]
    BY <1>1, <2>1 DEF FoldFresh
  <2>2. CASE DigestStarts(w)
    BY <1>2, <2>2 DEF DigestStarts, FindExistingDaily, TypeInv, TypeOK, WorkInv, work
  <2>3. CASE UNCHANGED <<at, day>>
    BY <1>2, <2>1, <2>3
  <2>4. ASSUME NEW v \in Workers, Claim(v) \/ Poll(v), v = w PROVE FALSE
    BY <1>2, <2>4 DEF Claim, Poll, TypeInv, TypeOK
  <2>5. ASSUME NEW v \in Workers, v # w,
               Claim(v) \/ Poll(v) \/ DigestStep(v) \/ DigestFails(v)
        PROVE  at'[w] = at[w] /\ day'[w] = day[w]
    BY <2>5
    DEF Claim, Poll, DigestStep, DigestStarts, CommitDaily, AppendDaily, CascadeReads,
        RollupCommits, DigestFails, work, TypeInv, TypeOK
  <2>6. CASE \/ CommitDaily(w) \/ AppendDaily(w) \/ CascadeReads(w)
             \/ RollupCommits(w) \/ DigestFails(w)
    BY <1>2, <2>6
    DEF CommitDaily, AppendDaily, CascadeReads, RollupCommits, DigestFails, TypeInv, TypeOK
  <2>7. CASE CrashAndRestart
    BY <1>2, <2>7 DEF CrashAndRestart
  <2> QED
    BY <1>2, <2>1, <2>2, <2>3, <2>4, <2>5, <2>6, <2>7
    DEF Next, vars, work, SourceSeals, Trigger, DigestStep, Settle, SettleBusy
<1>3. CASE \A d \in Days : Dailies(d)' = Dailies(d)
  BY <1>2, <1>3 DEF FoldFresh, SameDaily
<1>4. ASSUME NEW v \in Workers, NEW i \in Ids, CommitDaily(v),
             \A d \in Days : Dailies(d)' = IF d = day[v] THEN Dailies(d) \cup {i} ELSE Dailies(d)
      PROVE  FoldFresh' /\ SameDaily'
  <2>1. at[v] = "fold" /\ at' = [at EXCEPT ![v] = "append"] /\ Dailies(day[v]) = {}
    BY <1>4 DEF CommitDaily, FoldFresh
  <2>2. SameDaily'
    BY <1>4, <2>1 DEF SameDaily
  <2>3. ASSUME NEW w \in Workers, at'[w] = "fold" PROVE Dailies(day[w])' = {}
    <3>1. w # v
      BY <2>1, <2>3 DEF TypeInv, TypeOK
    <3>2. day[w] # day[v]
      BY <1>1, <2>1, <2>3, <3>1, DailyDigestAssumption DEF TypeInv, TypeOK, OneWorkerPerDay
    <3> QED
      BY <1>2, <1>4, <2>3, <3>2
  <2> QED
    BY <2>2, <2>3 DEF FoldFresh
<1> QED
  BY <1>3, <1>4, DailiesStep

\* A day never has two dailies, whatever fails, crashes or is triggered again
\* (digest.rs: find_existing_daily before the fold).
THEOREM OnceCorrect == Spec => []DailyOnce
<1>1. Init => OnceInv
  BY TypeInit, OnceInit DEF OnceInv
<1>2. OnceInv /\ [Next]_vars => OnceInv'
  BY TypeStep, OneWorkerStep, OnceStep DEF OnceInv, TypeInv
<1>3. OnceInv => DailyOnce
  <2> SUFFICES ASSUME OnceInv, NEW d \in Days PROVE Cardinality(Dailies(d)) <= 1
    BY DEF DailyOnce
  <2>1. CASE Dailies(d) = {}
    <3>1. Cardinality({}) = 0
      BY FS_EmptySet
    <3> QED
      BY <2>1, <3>1
  <2>2. CASE \E i : i \in Dailies(d)
    <3>1. PICK i : Dailies(d) = {i}
      BY <2>2 DEF OnceInv, SameDaily
    <3>2. Cardinality({i}) = 1
      BY FS_Singleton
    <3> QED
      BY <3>1, <3>2
  <2> QED
    BY <2>1, <2>2
<1> QED
  BY <1>1, <1>2, <1>3, PTL DEF Spec

\* Well typed and one daily a day, for any days, workers and faults.
THEOREM DigestCorrect == Spec => []DigestInv
<1>1. TypeOK /\ DailyOnce => DigestInv
  BY DEF DigestInv
<1> QED
  BY <1>1, TypeCorrect, OnceCorrect, PTL

-----------------------------------------------------------------------------
(* The frontier.  append_daily_and_cascade reads a buffer, awaits the      *)
(* summariser and clears whatever the buffer holds by then, and two        *)
(* workers may be at it at once.  What nobody filed or read while another  *)
(* was at a level is still there when it is cleared, and goes once.        *)

\* A summary that no other has taken up.
Open(i) == i \in Rows /\ parent[i] = NULL

\* What a buffer holds is open and of its level.
FrontierOpen ==
  \A l \in 0..TopLevel : \A i \in buffer[l] : Open(i) /\ summary[i].level = l

\* A daily that is still to be filed is open, and only its worker has it.
MadeOpen ==
  \A w \in Workers : at[w] = "append" =>
    /\ Open(made[w]) /\ summary[made[w]].level = 0 /\ made[w] \notin buffer[0]
    /\ \A v \in Workers :
         /\ at[v] = "append" /\ made[v] = made[w] => v = w
         /\ at[v] = "roll" => made[w] \notin seen[v]

\* What a worker has read for a rollup is of its level, and differs from what it will
\* clear by what was caught.
SeenRows(w) == \A i \in seen[w] : i \in Rows /\ summary[i].level = level[w]

SeenWaits(w) == \A i \in seen[w] : i \in buffer[level[w]] \/ i \in caught

ClearedSeen(w) == \A i \in buffer[level[w]] : i \in seen[w] \/ i \in caught

SeenApart(w) ==
  \A v \in Workers \ {w} : at[v] = "roll" /\ level[v] = level[w] =>
    \A i \in seen[w] \cap seen[v] : i \in caught

SeenInv ==
  \A w \in Workers : at[w] = "roll" =>
    seen[w] # {} /\ SeenRows(w) /\ SeenWaits(w) /\ ClearedSeen(w) /\ SeenApart(w)

\* Children are summaries one level below that have a backlink, to this parent unless
\* they were caught.
ChildrenClosed ==
  \A i \in Rows : \A c \in summary[i].children :
    /\ c \in Rows /\ summary[c].level + 1 = summary[i].level
    /\ parent[c] # NULL
    /\ parent[c] = i \/ c \in caught

\* A backlink names a summary that counts the child.
ParentsCount ==
  \A c \in Ids : parent[c] # NULL =>
    c \in Rows /\ parent[c] \in Rows /\ c \in summary[parent[c]].children

FrontierInv ==
  TypeInv /\ FrontierOpen /\ MadeOpen /\ SeenInv /\ ChildrenClosed /\ ParentsCount

LEMMA FrontierInit == Init => FrontierInv
<1>1. Init => TypeInv
  BY TypeInit
<1>2. Init => FrontierOpen /\ MadeOpen /\ SeenInv /\ ChildrenClosed /\ ParentsCount
  BY DEF Init, FrontierOpen, MadeOpen, SeenInv, ChildrenClosed, ParentsCount, Rows
<1> QED
  BY <1>1, <1>2 DEF FrontierInv

\* A new row takes an id nobody has, and leaves the other rows.
LEMMA NewRow ==
  ASSUME TypeOK, Unused # {}, NEW row \in Summary, summary' = [summary EXCEPT ![NewId] = row]
  PROVE  /\ NewId \in Ids /\ NewId \notin Rows /\ summary'[NewId] = row
         /\ Rows' = Rows \cup {NewId}
         /\ \A i \in Rows : summary'[i] = summary[i] /\ i # NewId
<1>1. NewId \in Ids /\ summary[NewId] = NULL
  BY NewIdUnused
<1>2. row # NULL
  BY DailyDigestAssumption
<1>3. \A i \in Ids : summary'[i] = IF i = NewId THEN row ELSE summary[i]
  BY <1>1 DEF TypeOK
<1> QED
  BY <1>1, <1>2, <1>3 DEF Rows

\* The trees stay and nobody comes to append or to roll: the frontier stays.
LEMMA FrontierStays ==
  ASSUME FrontierInv, UNCHANGED <<summary, buffer, parent, caught>>,
         \A w \in Workers : at'[w] = "append" => at[w] = "append" /\ made'[w] = made[w],
         \A w \in Workers : at'[w] = "roll" =>
           at[w] = "roll" /\ seen'[w] = seen[w] /\ level'[w] = level[w]
  PROVE  FrontierOpen' /\ MadeOpen' /\ SeenInv' /\ ChildrenClosed' /\ ParentsCount'
<1>1. FrontierOpen' /\ ChildrenClosed' /\ ParentsCount'
  BY DEF FrontierInv, FrontierOpen, ChildrenClosed, ParentsCount, Open, Rows
<1>2. MadeOpen'
  BY DEF FrontierInv, MadeOpen, Open, Rows
<1>3. SeenInv'
  BY DEF FrontierInv, SeenInv, SeenRows, SeenWaits, ClearedSeen, SeenApart, Rows
<1> QED
  BY <1>1, <1>2, <1>3

\* The daily of a digest is new and open.
LEMMA CommitFrontier ==
  ASSUME FrontierInv, NEW w \in Workers, CommitDaily(w)
  PROVE  FrontierOpen' /\ MadeOpen' /\ SeenInv' /\ ChildrenClosed' /\ ParentsCount'
<1> DEFINE row == [level |-> 0, day |-> day[w], children |-> {}]
<1>t. TypeOK
  BY DEF FrontierInv, TypeInv
<1>1. row \in Summary
  BY <1>t DEF Summary, TypeOK
<1>2. /\ NewId \in Ids /\ NewId \notin Rows /\ summary'[NewId] = row
      /\ Rows' = Rows \cup {NewId}
      /\ \A i \in Rows : summary'[i] = summary[i] /\ i # NewId
  BY <1>t, <1>1, NewRow DEF CommitDaily
<1>3. /\ UNCHANGED <<buffer, parent, level, seen, caught>>
      /\ made' = [made EXCEPT ![w] = NewId] /\ at' = [at EXCEPT ![w] = "append"]
      /\ at[w] = "fold"
  BY DEF CommitDaily
<1>4. summary'[NewId].level = 0 /\ summary'[NewId].children = {}
  BY <1>2
<1> HIDE DEF row
<1>5. parent[NewId] = NULL
  BY <1>2 DEF FrontierInv, ParentsCount
<1>r. /\ \A v \in Workers : at'[v] = "roll" => at[v] = "roll"
      /\ \A v \in Workers : at'[v] = "append" /\ v # w => at[v] = "append" /\ made'[v] = made[v]
      /\ made'[w] = NewId
  BY <1>t, <1>3 DEF TypeOK
<1>s. \A v \in Workers : at[v] = "roll" => NewId \notin seen[v]
  BY <1>2 DEF FrontierInv, SeenInv, SeenRows
<1>6. FrontierOpen'
  BY <1>2, <1>3 DEF FrontierInv, FrontierOpen, Open
<1>7. MadeOpen'
  <2> SUFFICES ASSUME NEW v \in Workers, at'[v] = "append"
               PROVE  /\ made'[v] \in Rows' /\ parent[made'[v]] = NULL
                      /\ summary'[made'[v]].level = 0 /\ made'[v] \notin buffer[0]
                      /\ \A u \in Workers :
                           /\ at'[u] = "append" /\ made'[u] = made'[v] => u = v
                           /\ at'[u] = "roll" => made'[v] \notin seen[u]
    BY <1>3 DEF MadeOpen, Open
  <2>0. \A u \in Workers : at[u] = "append" => made[u] # NewId /\ made[u] \in Rows
    BY <1>2 DEF FrontierInv, MadeOpen, Open
  <2>1. CASE v = w
    <3>2. NewId \notin buffer[0]
      BY <1>2, LevelBound DEF FrontierInv, FrontierOpen, Open
    <3>3. \A u \in Workers : at'[u] = "append" /\ made'[u] = NewId => u = w
      BY <1>r, <2>0
    <3> QED
      BY <1>2, <1>4, <1>5, <1>r, <1>s, <2>1, <3>2, <3>3
  <2>2. CASE v # w
    <3>1. at[v] = "append" /\ made'[v] = made[v]
      BY <1>r, <2>2
    <3>2. /\ Open(made[v]) /\ summary[made[v]].level = 0 /\ made[v] \notin buffer[0]
          /\ \A u \in Workers :
               /\ at[u] = "append" /\ made[u] = made[v] => u = v
               /\ at[u] = "roll" => made[v] \notin seen[u]
      BY <3>1 DEF FrontierInv, MadeOpen
    <3>3. \A u \in Workers : at'[u] = "append" /\ made'[u] = made[v] => u = v
      BY <1>r, <2>0, <3>1, <3>2
    <3> QED
      BY <1>2, <1>r, <3>1, <3>2, <3>3 DEF Open
  <2> QED
    BY <2>1, <2>2
<1>8. SeenInv'
  <2> SUFFICES ASSUME NEW v \in Workers, at'[v] = "roll"
               PROVE  seen[v] # {} /\ SeenRows(v)' /\ SeenWaits(v)' /\ ClearedSeen(v)' /\ SeenApart(v)'
    BY <1>3 DEF SeenInv
  <2>1. at[v] = "roll" /\ seen[v] # {} /\ SeenRows(v) /\ SeenWaits(v) /\ ClearedSeen(v) /\ SeenApart(v)
    BY <1>r DEF FrontierInv, SeenInv
  <2>2. SeenRows(v)'
    BY <1>2, <1>3, <2>1 DEF SeenRows
  <2>3. SeenWaits(v)' /\ ClearedSeen(v)'
    BY <1>3, <2>1 DEF SeenWaits, ClearedSeen
  <2>4. SeenApart(v)'
    BY <1>3, <1>r, <2>1 DEF SeenApart
  <2> QED
    BY <2>1, <2>2, <2>3, <2>4
<1>9. ChildrenClosed'
  BY <1>2, <1>3, <1>4 DEF FrontierInv, ChildrenClosed
<1>10. ParentsCount'
  BY <1>2, <1>3 DEF FrontierInv, ParentsCount
<1> QED
  BY <1>6, <1>7, <1>8, <1>9, <1>10

\* Filing a daily opens no other, and whoever rolls level 0 at the time catches it.
LEMMA AppendFrontier ==
  ASSUME FrontierInv, NEW w \in Workers, AppendDaily(w)
  PROVE  FrontierOpen' /\ MadeOpen' /\ SeenInv' /\ ChildrenClosed' /\ ParentsCount'
<1>t. TypeOK
  BY DEF FrontierInv, TypeInv
<1>1. /\ at[w] = "append" /\ at' = [at EXCEPT ![w] = "cascade"]
      /\ buffer' = [buffer EXCEPT ![0] = @ \cup {made[w]}]
      /\ level' = [level EXCEPT ![w] = 0]
      /\ UNCHANGED <<summary, parent, made, seen>>
      /\ caught' = CaughtWith(w, 0, {made[w]})
  BY DEF AppendDaily
<1>2. \A v \in Workers : at'[v] \in {"append", "roll"} => v # w /\ at'[v] = at[v] /\ level'[v] = level[v]
  BY <1>t, <1>1 DEF TypeOK
<1>3. Open(made[w]) /\ summary[made[w]].level = 0
  BY <1>1 DEF FrontierInv, MadeOpen
<1>4. \A l \in 0..TopLevel : buffer'[l] = IF l = 0 THEN buffer[l] \cup {made[w]} ELSE buffer[l]
  BY <1>t, <1>1 DEF TypeOK
<1>c. caught \subseteq caught'
  BY <1>1 DEF CaughtWith
<1>l. 0 \in 0..TopLevel
  BY LevelBound
<1>5. FrontierOpen'
  BY <1>1, <1>3, <1>4 DEF FrontierInv, FrontierOpen, Open, Rows
<1>6. ChildrenClosed' /\ ParentsCount'
  BY <1>1, <1>c DEF FrontierInv, ChildrenClosed, ParentsCount, Rows
<1>7. MadeOpen'
  <2> SUFFICES ASSUME NEW v \in Workers, at'[v] = "append"
               PROVE  /\ Open(made[v])' /\ summary'[made[v]].level = 0 /\ made[v] \notin buffer'[0]
                      /\ \A u \in Workers :
                           /\ at'[u] = "append" /\ made[u] = made[v] => u = v
                           /\ at'[u] = "roll" => made[v] \notin seen[u]
    BY <1>1 DEF MadeOpen
  <2>1. v # w /\ at[v] = "append"
    BY <1>2
  <2>2. made[v] # made[w]
    BY <1>1, <2>1 DEF FrontierInv, MadeOpen
  <2>3. Open(made[v])'
    BY <1>1, <2>1 DEF FrontierInv, MadeOpen, Open, Rows
  <2> QED
    BY <1>1, <1>2, <1>4, <1>l, <2>1, <2>2, <2>3 DEF FrontierInv, MadeOpen
<1>8. SeenInv'
  <2> SUFFICES ASSUME NEW v \in Workers, at'[v] = "roll"
               PROVE  seen[v] # {} /\ SeenRows(v)' /\ SeenWaits(v)' /\ ClearedSeen(v)' /\ SeenApart(v)'
    BY <1>1 DEF SeenInv
  <2>1. v # w /\ at[v] = "roll" /\ level'[v] = level[v] /\ level[v] \in 0..TopLevel
    BY <1>t, <1>2 DEF TypeOK
  <2>2. seen[v] # {} /\ SeenRows(v) /\ SeenWaits(v) /\ ClearedSeen(v) /\ SeenApart(v)
    BY <2>1 DEF FrontierInv, SeenInv
  <2>3. SeenRows(v)'
    BY <1>1, <2>1, <2>2 DEF SeenRows, Rows
  <2>4. SeenWaits(v)'
    BY <1>1, <1>4, <1>c, <2>1, <2>2 DEF SeenWaits
  <2>5. ClearedSeen(v)'
    <3>1. level[v] = 0 => made[w] \in caught'
      BY <1>1, <2>1 DEF CaughtWith, RollsElsewhere
    <3> QED
      BY <1>1, <1>4, <1>c, <2>1, <2>2, <3>1 DEF ClearedSeen
  <2>6. SeenApart(v)'
    BY <1>1, <1>2, <1>c, <2>1, <2>2 DEF SeenApart
  <2> QED
    BY <2>2, <2>3, <2>4, <2>5, <2>6
<1> QED
  BY <1>5, <1>6, <1>7, <1>8

\* A read finds the frontier, and catches it from whoever rolls that level already.
LEMMA ReadFrontier ==
  ASSUME FrontierInv, NEW w \in Workers, CascadeReads(w)
  PROVE  FrontierOpen' /\ MadeOpen' /\ SeenInv' /\ ChildrenClosed' /\ ParentsCount'
<1>t. TypeOK
  BY DEF FrontierInv, TypeInv
<1>1. /\ at[w] = "cascade"
      /\ UNCHANGED <<summary, buffer, parent, made, level>>
  BY DEF CascadeReads, tree
<1>2. CASE at' = [at EXCEPT ![w] = "done"] /\ UNCHANGED <<seen, caught>>
  BY <1>t, <1>1, <1>2, FrontierStays DEF TypeOK
<1>3. CASE /\ DueForRollup(level[w], buffer[level[w]])
           /\ at' = [at EXCEPT ![w] = "roll"]
           /\ seen' = [seen EXCEPT ![w] = buffer[level[w]]]
           /\ caught' = CaughtWith(w, level[w], buffer[level[w]])
  <2>c. caught \subseteq caught'
    BY <1>3 DEF CaughtWith
  <2>l. level[w] \in 0..TopLevel /\ level[w] \in Nat
    BY <1>t, LevelBound DEF TypeOK
  <2>o. \A v \in Workers :
          /\ v # w => at'[v] = at[v] /\ seen'[v] = seen[v]
          /\ at'[w] = "roll" /\ seen'[w] = buffer[level[w]]
    BY <1>t, <1>3 DEF TypeOK
  <2>1. FrontierOpen' /\ ChildrenClosed' /\ ParentsCount'
    BY <1>1, <2>c DEF FrontierInv, FrontierOpen, ChildrenClosed, ParentsCount, Open, Rows
  <2>2. MadeOpen'
    <3> SUFFICES ASSUME NEW v \in Workers, at'[v] = "append"
                 PROVE  /\ Open(made[v])' /\ summary'[made[v]].level = 0 /\ made[v] \notin buffer'[0]
                        /\ \A u \in Workers :
                             /\ at'[u] = "append" /\ made[u] = made[v] => u = v
                             /\ at'[u] = "roll" => made[v] \notin seen'[u]
      BY <1>1 DEF MadeOpen
    <3>1. v # w /\ at[v] = "append"
      BY <2>o
    <3>2. Open(made[v]) /\ summary[made[v]].level = 0 /\ made[v] \notin buffer[0]
      BY <3>1 DEF FrontierInv, MadeOpen
    <3>3. made[v] \notin buffer[level[w]]
      BY <2>l, <3>2 DEF FrontierInv, FrontierOpen
    <3>4. Open(made[v])'
      BY <1>1, <3>2 DEF Open, Rows
    <3> QED
      BY <1>1, <2>o, <3>1, <3>2, <3>3, <3>4 DEF FrontierInv, MadeOpen
  <2>3. SeenInv'
    <3> SUFFICES ASSUME NEW v \in Workers, at'[v] = "roll"
                 PROVE  /\ seen'[v] # {} /\ SeenRows(v)' /\ SeenWaits(v)'
                        /\ ClearedSeen(v)' /\ SeenApart(v)'
      BY DEF SeenInv
    <3>1. CASE v = w
      <4>1. seen'[w] # {}
        BY <1>3, <2>o DEF DueForRollup
      <4>2. SeenRows(w)'
        BY <1>1, <2>l, <2>o DEF FrontierInv, FrontierOpen, Open, SeenRows, Rows
      <4>3. SeenWaits(w)' /\ ClearedSeen(w)'
        BY <1>1, <2>o DEF SeenWaits, ClearedSeen
      <4>4. SeenApart(w)'
        BY <1>1, <1>3, <2>o DEF SeenApart, CaughtWith, RollsElsewhere
      <4> QED
        BY <3>1, <4>1, <4>2, <4>3, <4>4
    <3>2. CASE v # w
      <4>1. /\ at[v] = "roll" /\ seen'[v] = seen[v] /\ seen[v] # {}
            /\ SeenRows(v) /\ SeenWaits(v) /\ ClearedSeen(v) /\ SeenApart(v)
        BY <2>o, <3>2 DEF FrontierInv, SeenInv
      <4>2. SeenRows(v)'
        BY <1>1, <4>1 DEF SeenRows, Rows
      <4>3. SeenWaits(v)' /\ ClearedSeen(v)'
        BY <1>1, <2>c, <4>1 DEF SeenWaits, ClearedSeen
      <4>4. SeenApart(v)'
        <5>1. level[w] = level[v] => \A i \in buffer[level[w]] : i \in caught'
          BY <1>3, <3>2, <4>1 DEF CaughtWith, RollsElsewhere
        <5> QED
          BY <1>1, <2>c, <2>o, <3>2, <4>1, <5>1 DEF SeenApart
      <4> QED
        BY <4>1, <4>2, <4>3, <4>4
    <3> QED
      BY <3>1, <3>2
  <2> QED
    BY <2>1, <2>2, <2>3
<1> QED
  BY <1>2, <1>3 DEF CascadeReads

\* What a rollup commits: one new summary with the children read, which it is the parent
\* of unless they have one, and an empty level below it.
LEMMA RollupTakes ==
  ASSUME FrontierInv, NEW w \in Workers, RollupCommits(w)
  PROVE  /\ level[w] \in 0..TopLevel /\ level[w] + 1 \in 0..TopLevel /\ level[w] \in Nat
         /\ at[w] = "roll" /\ seen[w] \subseteq Ids
         /\ NewId \in Ids /\ NewId \notin Rows /\ Rows' = Rows \cup {NewId}
         /\ \A i \in Rows : summary'[i] = summary[i] /\ i # NewId
         /\ summary'[NewId].level = level[w] + 1 /\ summary'[NewId].children = seen[w]
         /\ \A i \in Ids : parent'[i] = IF i \in seen[w] /\ parent[i] = NULL THEN NewId
                                                                          ELSE parent[i]
         /\ \A m \in 0..TopLevel :
              buffer'[m] = IF m = level[w] THEN {}
                           ELSE IF m = level[w] + 1 THEN buffer[m] \cup {NewId}
                           ELSE buffer[m]
<1> DEFINE row == [level |-> level[w] + 1, day |-> NULL, children |-> seen[w]]
<1>t. TypeOK
  BY DEF FrontierInv, TypeInv
<1>1. level[w] \in Levels /\ at[w] = "roll"
  BY DEF RollupCommits, FrontierInv, TypeInv, WorkInv
<1>2. level[w] \in 0..TopLevel /\ level[w] + 1 \in 0..TopLevel /\ level[w] \in Nat
  BY <1>1, LevelBound
<1>3. row \in Summary
  BY <1>t, <1>2, LevelBound DEF Summary, TypeOK
<1>4. /\ NewId \in Ids /\ NewId \notin Rows /\ summary'[NewId] = row
      /\ Rows' = Rows \cup {NewId}
      /\ \A i \in Rows : summary'[i] = summary[i] /\ i # NewId
  BY <1>t, <1>3, NewRow DEF RollupCommits
<1>5. summary'[NewId].level = level[w] + 1 /\ summary'[NewId].children = seen[w]
  BY <1>4
<1> HIDE DEF row
<1>8. \A i \in Ids : parent'[i] = IF i \in seen[w] /\ parent[i] = NULL THEN NewId ELSE parent[i]
  BY DEF RollupCommits
<1>9. buffer' = [buffer EXCEPT ![level[w]] = {}, ![level[w] + 1] = @ \cup {NewId}]
  BY DEF RollupCommits, Rolled
<1>10. level[w] # level[w] + 1
  BY <1>2, LevelBound
<1>11. \A m \in 0..TopLevel :
         buffer'[m] = IF m = level[w] THEN {}
                      ELSE IF m = level[w] + 1 THEN buffer[m] \cup {NewId}
                      ELSE buffer[m]
  BY <1>t, <1>2, <1>9, <1>10 DEF TypeOK
<1> QED
  BY <1>t, <1>1, <1>2, <1>4, <1>5, <1>8, <1>11 DEF TypeOK

\* A rollup turns what it read into one open summary above, and whoever rolls the level
\* above at the time catches that.
LEMMA RollupFrontier ==
  ASSUME FrontierInv, NEW w \in Workers, RollupCommits(w)
  PROVE  FrontierOpen' /\ MadeOpen' /\ SeenInv' /\ ChildrenClosed' /\ ParentsCount'
<1>t. TypeOK
  BY DEF FrontierInv, TypeInv
<1> DEFINE l == level[w]
           id == NewId
<1>1. /\ l \in 0..TopLevel /\ l + 1 \in 0..TopLevel /\ l \in Nat
      /\ at[w] = "roll" /\ seen[w] \subseteq Ids
      /\ id \in Ids /\ id \notin Rows /\ Rows' = Rows \cup {id}
      /\ \A i \in Rows : summary'[i] = summary[i] /\ i # id
      /\ summary'[id].level = l + 1 /\ summary'[id].children = seen[w]
      /\ \A i \in Ids : parent'[i] = IF i \in seen[w] /\ parent[i] = NULL THEN id ELSE parent[i]
      /\ \A m \in 0..TopLevel :
           buffer'[m] = IF m = l THEN {}
                        ELSE IF m = l + 1 THEN buffer[m] \cup {id} ELSE buffer[m]
  BY RollupTakes
<1>2. /\ UNCHANGED <<made, seen>>
      /\ caught' = CaughtWith(w, l + 1, {id})
      /\ \A v \in Workers :
           at'[v] \in {"append", "roll"} => v # w /\ at'[v] = at[v] /\ level'[v] = level[v]
  BY <1>t DEF RollupCommits, TypeOK
<1>w. level[w] = l
  OBVIOUS
<1> HIDE DEF l, id
<1>c. caught \subseteq caught'
  BY <1>2 DEF CaughtWith
<1>4. /\ \A i \in seen[w] : i \in Rows /\ summary[i].level = l
      /\ SeenWaits(w) /\ ClearedSeen(w) /\ SeenApart(w)
  BY <1>1, <1>w DEF FrontierInv, SeenInv, SeenRows
<1>5. parent[id] = NULL /\ id \notin seen[w]
  BY <1>1, <1>4 DEF FrontierInv, ParentsCount
<1>6. FrontierOpen'
  <2> SUFFICES ASSUME NEW m \in 0..TopLevel, NEW i \in buffer'[m]
               PROVE  Open(i)' /\ summary'[i].level = m
    BY DEF FrontierOpen
  <2>1. m # l
    BY <1>1
  <2>2. (m = l + 1 /\ i = id) \/ i \in buffer[m]
    <3>1. buffer'[m] = IF m = l + 1 THEN buffer[m] \cup {id} ELSE buffer[m]
      BY <1>1, <2>1
    <3> QED
      BY <3>1
  <2>3. CASE m = l + 1 /\ i = id
    BY <1>1, <1>5, <2>3 DEF Open
  <2>4. CASE i \in buffer[m]
    <3>1. i \in Rows /\ parent[i] = NULL /\ summary[i].level = m
      BY <2>4 DEF FrontierInv, FrontierOpen, Open
    <3>2. i \notin seen[w]
      BY <1>4, <2>1, <3>1
    <3> QED
      BY <1>1, <3>1, <3>2 DEF Rows, Open
  <2> QED
    BY <2>2, <2>3, <2>4
<1>7. ChildrenClosed'
  <2> SUFFICES ASSUME NEW i \in Rows', NEW c \in summary'[i].children
               PROVE  /\ c \in Rows' /\ summary'[c].level + 1 = summary'[i].level
                      /\ parent'[c] # NULL /\ (parent'[c] = i \/ c \in caught')
    BY DEF ChildrenClosed
  <2>n. id # NULL
    BY <1>1, DailyDigestAssumption
  <2>1. CASE i = id
    <3>1. c \in seen[w] /\ c \in Rows /\ c \in Ids
      BY <1>1, <1>4, <2>1
    <3>2. parent[c] # NULL => c \notin buffer[l]
      BY <1>1 DEF FrontierInv, FrontierOpen, Open
    <3>3. parent[c] # NULL => c \in caught
      BY <1>4, <1>w, <3>1, <3>2 DEF SeenWaits
    <3> QED
      BY <1>1, <1>4, <1>c, <2>n, <2>1, <3>1, <3>3
  <2>2. CASE i # id
    <3>1. i \in Rows /\ summary'[i] = summary[i]
      BY <1>1, <2>2
    <3>2. /\ c \in Rows /\ summary[c].level + 1 = summary[i].level
          /\ parent[c] # NULL /\ (parent[c] = i \/ c \in caught)
      BY <3>1 DEF FrontierInv, ChildrenClosed
    <3>3. parent'[c] = parent[c]
      BY <1>1, <3>2 DEF Rows
    <3> QED
      BY <1>1, <1>c, <3>1, <3>2, <3>3
  <2> QED
    BY <2>1, <2>2
<1>8. ParentsCount'
  <2> SUFFICES ASSUME NEW c \in Ids, parent'[c] # NULL
               PROVE  c \in Rows' /\ parent'[c] \in Rows' /\ c \in summary'[parent'[c]].children
    BY DEF ParentsCount
  <2>1. CASE c \in seen[w] /\ parent[c] = NULL
    BY <1>1, <1>4, <2>1
  <2>2. CASE ~(c \in seen[w] /\ parent[c] = NULL)
    <3>1. parent'[c] = parent[c]
      BY <1>1, <2>2
    <3>2. c \in Rows /\ parent[c] \in Rows /\ c \in summary[parent[c]].children
      BY <3>1 DEF FrontierInv, ParentsCount
    <3> QED
      BY <1>1, <3>1, <3>2
  <2> QED
    BY <2>1, <2>2
<1>9. MadeOpen'
  <2> SUFFICES ASSUME NEW v \in Workers, at'[v] = "append"
               PROVE  /\ Open(made[v])' /\ summary'[made[v]].level = 0 /\ made[v] \notin buffer'[0]
                      /\ \A u \in Workers :
                           /\ at'[u] = "append" /\ made[u] = made[v] => u = v
                           /\ at'[u] = "roll" => made[v] \notin seen[u]
    BY <1>2 DEF MadeOpen
  <2>1. at[v] = "append"
    BY <1>2
  <2>2. /\ made[v] \in Rows /\ parent[made[v]] = NULL
        /\ summary[made[v]].level = 0 /\ made[v] \notin buffer[0]
        /\ made[v] \notin seen[w]
        /\ \A u \in Workers :
             /\ at[u] = "append" /\ made[u] = made[v] => u = v
             /\ at[u] = "roll" => made[v] \notin seen[u]
    BY <1>1, <2>1 DEF FrontierInv, MadeOpen, Open
  <2>3. Open(made[v])' /\ summary'[made[v]].level = 0
    <3>1. made[v] \in Ids
      BY <2>2 DEF Rows
    <3> QED
      BY <1>1, <1>2, <2>2, <3>1 DEF Open
  <2>4. made[v] \notin buffer'[0]
    <3>1. 0 \in 0..TopLevel /\ 0 # l + 1
      BY <1>1, LevelBound
    <3>2. buffer'[0] \subseteq buffer[0]
      BY <1>1, <3>1
    <3> QED
      BY <2>2, <3>2
  <2> QED
    BY <1>2, <2>2, <2>3, <2>4
<1>10. SeenInv'
  <2> SUFFICES ASSUME NEW v \in Workers, at'[v] = "roll"
               PROVE  seen[v] # {} /\ SeenRows(v)' /\ SeenWaits(v)' /\ ClearedSeen(v)' /\ SeenApart(v)'
    BY <1>2 DEF SeenInv
  <2>1. /\ v # w /\ at[v] = "roll" /\ level'[v] = level[v] /\ level[v] \in 0..TopLevel
        /\ seen[v] # {} /\ SeenRows(v) /\ SeenWaits(v) /\ ClearedSeen(v) /\ SeenApart(v)
    BY <1>t, <1>2 DEF FrontierInv, SeenInv, TypeOK
  <2>2. SeenRows(v)'
    BY <1>1, <1>2, <2>1 DEF SeenRows
  <2>3. SeenWaits(v)'
    <3> SUFFICES ASSUME NEW i \in seen[v] PROVE i \in buffer'[level[v]] \/ i \in caught'
      BY <1>2, <2>1 DEF SeenWaits
    <3>1. CASE level[v] = l
      <4>1. i \in buffer[l] \/ i \in caught
        BY <2>1, <3>1 DEF SeenWaits
      <4>2. i \in seen[w] => i \in caught
        BY <1>1, <1>w, <2>1, <3>1 DEF SeenApart
      <4>3. i \in buffer[l] => i \in seen[w] \/ i \in caught
        BY <1>4, <1>w DEF ClearedSeen
      <4> QED
        BY <1>c, <4>1, <4>2, <4>3
    <3>2. CASE level[v] # l
      <4>1. buffer[level[v]] \subseteq buffer'[level[v]]
        BY <1>1, <2>1, <3>2
      <4> QED
        BY <1>c, <2>1, <4>1 DEF SeenWaits
    <3> QED
      BY <3>1, <3>2
  <2>4. ClearedSeen(v)'
    <3> SUFFICES ASSUME NEW i \in buffer'[level[v]] PROVE i \in seen[v] \/ i \in caught'
      BY <1>2, <2>1 DEF ClearedSeen
    <3>1. CASE level[v] = l + 1 /\ i = id
      BY <1>2, <2>1, <3>1 DEF CaughtWith, RollsElsewhere
    <3>2. CASE i \in buffer[level[v]]
      BY <1>c, <2>1, <3>2 DEF ClearedSeen
    <3>3. i \in buffer[level[v]] \/ (level[v] = l + 1 /\ i = id)
      <4>1. buffer'[level[v]] = IF level[v] = l THEN {}
                                ELSE IF level[v] = l + 1 THEN buffer[level[v]] \cup {id}
                                ELSE buffer[level[v]]
        BY <1>1, <2>1
      <4> QED
        BY <4>1
    <3> QED
      BY <3>1, <3>2, <3>3
  <2>5. SeenApart(v)'
    BY <1>2, <1>c, <2>1 DEF SeenApart
  <2> QED
    BY <2>1, <2>2, <2>3, <2>4, <2>5
<1> QED
  BY <1>6, <1>7, <1>8, <1>9, <1>10

LEMMA FrontierStep == FrontierInv /\ [Next]_vars => FrontierInv'
<1> SUFFICES ASSUME FrontierInv, [Next]_vars
             PROVE  FrontierOpen' /\ MadeOpen' /\ SeenInv' /\ ChildrenClosed' /\ ParentsCount'
  BY TypeStep DEF FrontierInv, TypeInv
<1>t. TypeOK
  BY DEF FrontierInv, TypeInv
<1>2. ASSUME NEW w \in Workers, Claim(w) \/ DigestStarts(w) \/ DigestFails(w) \/ Poll(w),
             UNCHANGED <<tree, caught>>
      PROVE  FrontierOpen' /\ MadeOpen' /\ SeenInv' /\ ChildrenClosed' /\ ParentsCount'
  <2>1. \A v \in Workers :
          at'[v] \in {"append", "roll"} =>
            at'[v] = at[v] /\ made'[v] = made[v] /\ level'[v] = level[v] /\ seen'[v] = seen[v]
    BY <1>t, <1>2 DEF Claim, DigestStarts, DigestFails, Poll, TypeOK, work
  <2> QED
    BY <1>2, <2>1, FrontierStays DEF tree
<1>3. CASE CrashAndRestart
  BY <1>3, FrontierStays DEF CrashAndRestart, tree
<1>4. CASE UNCHANGED <<tree, at, work, caught>>
  BY <1>4, FrontierStays DEF tree, work
<1> QED
  BY <1>2, <1>3, <1>4, CommitFrontier, AppendFrontier, ReadFrontier, RollupFrontier
  DEF Next, vars, SourceSeals, Trigger, Claim, DigestStep, DigestStarts, DigestFails,
      Settle, SettleBusy

\* No summary of the global tree is rolled up into two but one that another digest caught,
\* levels go up by one and a backlink names a summary that counts the child, with any
\* number of digests over the same buffers, through errors between the daily and its
\* append, lost settlements, crashes and retries (tree_global/seal.rs).
THEOREM PeriodsCorrect == Spec => []PeriodsDisjoint
<1>1. FrontierInv => PeriodsDisjoint
  <2> SUFFICES ASSUME FrontierInv, NEW i \in Rows, NEW j \in Rows, NEW c \in summary[i].children
               PROVE  /\ summary[c].level + 1 = summary[i].level
                      /\ parent[c] \in Rows /\ c \in summary[parent[c]].children
                      /\ c \in summary[j].children => i = j \/ c \in caught
    BY DEF PeriodsDisjoint
  <2>1. /\ c \in Rows /\ summary[c].level + 1 = summary[i].level
        /\ parent[c] # NULL /\ (parent[c] = i \/ c \in caught)
        /\ c \in summary[j].children => parent[c] = j \/ c \in caught
    BY DEF FrontierInv, ChildrenClosed
  <2>2. parent[c] \in Rows /\ c \in summary[parent[c]].children
    BY <2>1 DEF FrontierInv, ParentsCount, Rows
  <2> QED
    BY <2>1, <2>2
<1> QED
  BY FrontierInit, FrontierStep, <1>1, PTL DEF Spec

-----------------------------------------------------------------------------
(* The digest implements the ledger of rollups.                            *)

Entry(l, i) == [tree |-> "global", level |-> l, item |-> i]

LEMMA EntryOne ==
  ASSUME NEW l, NEW m, NEW i, NEW j
  PROVE  /\ Entry(l, i) = Entry(m, j) <=> l = m /\ i = j
         /\ Entry(l, i).tree = "global" /\ Entry(l, i).level = l
BY DEF Entry

\* What waits is what the buffers hold.
LEMMA WaitingIs ==
  ASSUME NEW e
  PROVE  /\ e \in Waiting <=> \E l \in 0..TopLevel : \E i \in buffer[l] : e = Entry(l, i)
         /\ e \in Waiting' <=> \E l \in 0..TopLevel : \E i \in buffer'[l] : e = Entry(l, i)
BY DEF Waiting, Entry

\* What has been rolled up is what has a parent, at its own level.
LEMMA RolledIs ==
  ASSUME NEW e
  PROVE  /\ e \in RolledUp <=>
              \E i \in Rows : \E c \in summary[i].children : e = Entry(summary[i].level - 1, c)
         /\ e \in RolledUp' <=>
              \E i \in Rows' : \E c \in summary'[i].children : e = Entry(summary'[i].level - 1, c)
BY DEF RolledUp, Entry

\* An open summary has not been rolled up.
LEMMA OpenNotRolled ==
  ASSUME FrontierInv, NEW i, parent[i] = NULL, NEW l
  PROVE  Entry(l, i) \notin RolledUp
<1> SUFFICES ASSUME NEW j \in Rows, NEW c \in summary[j].children,
                    Entry(l, i) = Entry(summary[j].level - 1, c)
             PROVE  FALSE
  BY RolledIs
<1>1. i = c
  BY EntryOne
<1>2. parent[c] # NULL
  BY DEF FrontierInv, ChildrenClosed
<1> QED
  BY <1>1, <1>2

\* Nothing happens to the ledger when buffers and children stay.
LEMMA LedgerStays ==
  ASSUME UNCHANGED buffer,
         \A i \in Rows' : summary'[i].children = {} \/ (i \in Rows /\ summary'[i] = summary[i]),
         \A i \in Rows : i \in Rows' /\ summary'[i] = summary[i]
  PROVE  UNCHANGED <<Waiting, RolledUp>>
<1>1. Waiting' = Waiting
  BY DEF Waiting
<1>2. \A e : e \in RolledUp' <=> e \in RolledUp
  <2> SUFFICES ASSUME NEW e PROVE e \in RolledUp' <=> e \in RolledUp
    OBVIOUS
  <2>1. e \in RolledUp => e \in RolledUp'
    BY RolledIs
  <2>2. e \in RolledUp' => e \in RolledUp
    BY RolledIs
  <2> QED
    BY <2>1, <2>2
<1>3. RolledUp' = RolledUp
  BY <1>2
<1> QED
  BY <1>1, <1>3

\* The push of a daily is an arrival.
LEMMA AppendArrives ==
  ASSUME FrontierInv, NEW w \in Workers, AppendDaily(w)
  PROVE  Rollup!Arrive
<1>t. TypeOK
  BY DEF FrontierInv, TypeInv
<1>1. /\ at[w] = "append" /\ buffer' = [buffer EXCEPT ![0] = @ \cup {made[w]}]
      /\ UNCHANGED summary
  BY DEF AppendDaily
<1>2. /\ parent[made[w]] = NULL /\ made[w] \in Rows
      /\ summary[made[w]].level = 0 /\ made[w] \notin buffer[0]
  BY <1>1 DEF FrontierInv, MadeOpen, Open
<1>3. 0 \in 0..TopLevel
  BY LevelBound
<1>4. \A l \in 0..TopLevel : buffer'[l] = IF l = 0 THEN buffer[l] \cup {made[w]} ELSE buffer[l]
  BY <1>t, <1>1 DEF TypeOK
<1> DEFINE new == Entry(0, made[w])
<1>5. new \notin Waiting
  BY <1>2, WaitingIs, EntryOne
<1>6. new \notin RolledUp
  BY <1>2, OpenNotRolled
<1>7. \A e : e \in Waiting' <=> e \in Waiting \cup {new}
  <2> SUFFICES ASSUME NEW e PROVE e \in Waiting' <=> e \in Waiting \/ e = new
    OBVIOUS
  <2>1. e \in Waiting => e \in Waiting'
    BY <1>4, WaitingIs
  <2>2. new \in Waiting'
    BY <1>3, <1>4, WaitingIs
  <2>3. e \in Waiting' => e \in Waiting \/ e = new
    BY <1>4, WaitingIs
  <2> QED
    BY <2>1, <2>2, <2>3
<1> HIDE DEF new
<1>8. Waiting' = Waiting \cup {new}
  BY <1>7
<1>9. RolledUp' = RolledUp
  BY <1>1 DEF RolledUp, Rows
<1> QED
  BY <1>5, <1>6, <1>8, <1>9 DEF Rollup!Arrive

\* The commit of a rollup rolls up a group into one new entry above it.
LEMMA RollupRolls ==
  ASSUME FrontierInv, NEW w \in Workers, RollupCommits(w)
  PROVE  Rollup!RollUp
<1>t. TypeOK
  BY DEF FrontierInv, TypeInv
<1> DEFINE l == level[w]
           id == NewId
           new == Entry(l + 1, id)
           group == Waiting \ Waiting'
           read == {Entry(l, i) : i \in seen[w]}
<1>1. /\ l \in 0..TopLevel /\ l + 1 \in 0..TopLevel /\ l \in Nat
      /\ at[w] = "roll"
      /\ id \in Ids /\ id \notin Rows /\ Rows' = Rows \cup {id}
      /\ \A i \in Rows : summary'[i] = summary[i] /\ i # id
      /\ summary'[id].level = l + 1 /\ summary'[id].children = seen[w]
      /\ \A m \in 0..TopLevel :
           buffer'[m] = IF m = l THEN {}
                        ELSE IF m = l + 1 THEN buffer[m] \cup {id} ELSE buffer[m]
  BY RollupTakes
<1>2. l # l + 1 /\ (l + 1) - 1 = l
  BY <1>1
<1>3. parent[id] = NULL
  BY <1>1 DEF FrontierInv, ParentsCount
<1>4. \A m \in 0..TopLevel : id \notin buffer[m]
  BY <1>1 DEF FrontierInv, FrontierOpen, Open
<1>s. /\ seen[w] # {}
      /\ \A i \in seen[w] : i \in Rows /\ summary[i].level = l /\ (i \in buffer[l] \/ i \in caught)
      /\ \A i \in buffer[l] : summary[i].level = l /\ (i \in seen[w] \/ i \in caught)
  BY <1>1 DEF FrontierInv, FrontierOpen, SeenInv, SeenRows, SeenWaits, ClearedSeen
<1> HIDE DEF l, id
<1>5. new \notin Waiting /\ new \notin RolledUp
  <2>1. new \notin Waiting
    BY <1>1, <1>4, WaitingIs, EntryOne
  <2>2. new \notin RolledUp
    BY <1>3, OpenNotRolled
  <2> QED
    BY <2>1, <2>2
<1>6. ASSUME NEW e
      PROVE  e \in Waiting' <=> (e \in Waiting /\ \A i \in buffer[l] : e # Entry(l, i)) \/ e = new
  <2>1. new \in Waiting'
    BY <1>1, <1>2, WaitingIs
  <2>2. ASSUME e \in Waiting, \A i \in buffer[l] : e # Entry(l, i) PROVE e \in Waiting'
    <3>1. PICK m \in 0..TopLevel : \E i \in buffer[m] : e = Entry(m, i)
      BY <2>2, WaitingIs
    <3>2. m # l
      BY <2>2, <3>1
    <3>3. \A i \in buffer[m] : i \in buffer'[m]
      BY <1>1, <3>2
    <3> QED
      BY <3>1, <3>3, WaitingIs
  <2>3. ASSUME e \in Waiting' PROVE (e \in Waiting /\ \A i \in buffer[l] : e # Entry(l, i)) \/ e = new
    <3>1. PICK m \in 0..TopLevel : \E i \in buffer'[m] : e = Entry(m, i)
      BY <2>3, WaitingIs
    <3>2. PICK i \in buffer'[m] : e = Entry(m, i)
      BY <3>1
    <3>3. m # l
      BY <1>1, <3>2
    <3>4. i \in buffer[m] \/ (m = l + 1 /\ i = id)
      BY <1>1, <3>2, <3>3
    <3>5. \A j \in buffer[l] : e # Entry(l, j)
      BY <3>2, <3>3, EntryOne
    <3> QED
      BY <3>2, <3>4, <3>5, WaitingIs
  <2> QED
    BY <2>1, <2>2, <2>3
<1>7. ASSUME NEW e PROVE e \in group <=> \E i \in buffer[l] : e = Entry(l, i)
  <2>1. ASSUME NEW i \in buffer[l] PROVE Entry(l, i) \in Waiting
    BY <1>1, WaitingIs
  <2>2. ASSUME NEW i \in buffer[l] PROVE Entry(l, i) # new
    BY <1>2, EntryOne
  <2> QED
    BY <1>5, <1>6, <2>1, <2>2
<1>8. ASSUME NEW e PROVE e \in RolledUp' <=> e \in RolledUp \/ e \in read
  <2>1. ASSUME e \in RolledUp PROVE e \in RolledUp'
    <3>1. PICK i \in Rows : \E c \in summary[i].children : e = Entry(summary[i].level - 1, c)
      BY <2>1, RolledIs
    <3>2. i \in Rows' /\ summary'[i] = summary[i]
      BY <1>1
    <3> QED
      BY <3>1, <3>2, RolledIs
  <2>2. ASSUME e \in read PROVE e \in RolledUp'
    <3>1. PICK c \in seen[w] : e = Entry(l, c)
      BY <2>2
    <3>2. summary'[id].level - 1 = l /\ c \in summary'[id].children /\ id \in Rows'
      BY <1>1, <1>2
    <3> QED
      BY <3>1, <3>2, RolledIs
  <2>3. ASSUME e \in RolledUp' PROVE e \in RolledUp \/ e \in read
    <3>1. PICK i \in Rows' : \E c \in summary'[i].children : e = Entry(summary'[i].level - 1, c)
      BY <2>3, RolledIs
    <3>2. CASE i = id
      BY <1>1, <1>2, <3>1, <3>2
    <3>3. CASE i # id
      <4>1. i \in Rows /\ summary'[i] = summary[i]
        BY <1>1, <3>3
      <4> QED
        BY <3>1, <4>1, RolledIs
    <3> QED
      BY <3>2, <3>3
  <2> QED
    BY <2>1, <2>2, <2>3
<1>c. ASSUME NEW i \in caught, summary[i].level = l PROVE Entry(l, i) \in Caught
  BY <1>c DEF Caught, Entry
<1>9. read # {} /\ read \subseteq group \cup Caught /\ group \ read \subseteq Caught
  <2>1. ASSUME NEW e \in read PROVE e \in group \/ e \in Caught
    BY <1>s, <1>7, <1>c
  <2>2. ASSUME NEW e \in group, e \notin read PROVE e \in Caught
    BY <1>s, <1>7, <1>c, <2>2
  <2> QED
    BY <1>s, <2>1, <2>2
<1>e. \A e \in group \cup read : e.tree = new.tree /\ e.level + 1 = new.level
  <2> SUFFICES ASSUME NEW e \in group \cup read
               PROVE  e.tree = new.tree /\ e.level + 1 = new.level
    OBVIOUS
  <2>1. PICK j : e = Entry(l, j)
    BY <1>7
  <2> QED
    BY <2>1, EntryOne
<1>10. new \in Waiting'
  BY <1>6
<1>11. Waiting' = (Waiting \ group) \cup {new}
  BY <1>5, <1>6, <1>7
<1>12. RolledUp' = RolledUp \cup read
  BY <1>8
<1>13. group \in {Waiting \ Waiting'} /\ read \in SUBSET (group \cup Caught)
  BY <1>9
<1> HIDE DEF new, group, read
<1> QED
  BY <1>5, <1>9, <1>e, <1>10, <1>11, <1>12, <1>13 DEF Rollup!RollUp

LEMMA LedgerStep ==
  FrontierInv /\ [Next]_vars => [Rollup!Arrive \/ Rollup!RollUp]_<<Waiting, RolledUp>>
<1> SUFFICES ASSUME FrontierInv, [Next]_vars
             PROVE  [Rollup!Arrive \/ Rollup!RollUp]_<<Waiting, RolledUp>>
  OBVIOUS
<1>1. ASSUME NEW w \in Workers, CommitDaily(w) PROVE UNCHANGED <<Waiting, RolledUp>>
  <2> DEFINE row == [level |-> 0, day |-> day[w], children |-> {}]
  <2>1. TypeOK
    BY DEF FrontierInv, TypeInv
  <2>2. row \in Summary
    BY <2>1 DEF Summary, TypeOK
  <2>3. /\ summary'[NewId] = row /\ Rows' = Rows \cup {NewId}
        /\ \A i \in Rows : summary'[i] = summary[i] /\ i # NewId
    BY <1>1, <2>1, <2>2, NewRow DEF CommitDaily
  <2>4. summary'[NewId].children = {}
    BY <2>3
  <2>5. UNCHANGED buffer
    BY <1>1 DEF CommitDaily
  <2> HIDE DEF row
  <2> QED
    BY <2>3, <2>4, <2>5, LedgerStays
<1>2. CASE UNCHANGED <<summary, buffer>>
  BY <1>2 DEF Waiting, RolledUp, Rows
<1> QED
  BY <1>1, <1>2, AppendArrives, RollupRolls
  DEF Next, vars, tree, SourceSeals, Trigger, Claim, DigestStep, DigestStarts, CascadeReads,
      DigestFails, Settle, SettleBusy, CrashAndRestart

\* The global tree is a ledger of rollups, whatever fails between the transactions of a
\* digest and however many digests cascade at once: a summary is filed at its level once
\* and rolled up with every other that goes into the same parent; only what another's
\* rollup caught may go without one, or with two.
THEOREM RollupCorrect == Spec => ImplementsRollup
<1>1. Init => Rollup!RollupInit
  <2> SUFFICES ASSUME Init PROVE Waiting = {} /\ RolledUp = {}
    BY DEF Rollup!RollupInit
  <2>1. \A e : e \notin Waiting
    BY WaitingIs DEF Init
  <2>2. \A e : e \notin RolledUp
    BY RolledIs DEF Init, Rows
  <2> QED
    BY <2>1, <2>2
<1>2. FrontierInv /\ [Next]_vars => [Rollup!Arrive \/ Rollup!RollUp]_(Rollup!ledger)
  BY LedgerStep DEF Rollup!ledger
<1> QED
  BY <1>1, <1>2, FrontierInit, FrontierStep, PTL DEF Spec, ImplementsRollup, Rollup!RollupSpec
=============================================================================
