------------------------- MODULE LatencyJobsProofs -------------------------
(***************************************************************************)
(* Proofs about LatencyJobs, for every set of nodes, any number of workers *)
(* and attempts and every bound: type correctness, that no two probes use  *)
(* one selector, and that a probe measures the node it reports.            *)
(***************************************************************************)
EXTENDS LatencyJobs, FiniteSetTheorems, TLAPS

(* A test that has work under way holds latency_owner, only such a test    *)
(* has probes, and tests yet to start are untouched.                       *)
Pool == {"fill", "wait", "refill", "drain"}
Active == Pool \cup {"probe"}

Owned ==
  /\ \A j \in Test : j > started => test[j].at = "new"
  /\ \A j \in Test : test[j].at \notin {"new", "over"} => owner = j
  /\ \A j \in Test, w \in Worker :
       task[j][w].step # "idle" =>
         test[j].at \in Pool \/ (test[j].at = "probe" /\ w = 0)

(* Processes are numbered as they start, and a late request can only act   *)
(* on a selector that counts as stray.                                     *)
Numbered ==
  /\ core <= born
  /\ \A j \in Test, w \in Worker : task[j][w].process <= born
  /\ \A r \in late : r[1] \in stray

-----------------------------------------------------------------------------
(* Tasks.                                                                  *)

LEMMA AtType ==
  ASSUME ConstantsOK, NEW n \in Node \cup {REJECT},
         NEW s \in Live \cup {"idle", "finished", "panicked"},
         s \in Live \cup {"finished"} => n \in Node
  PROVE  At(s, n) \in TaskType /\ At(s, n).step = s /\ At(s, n).process = None
<1>1. 0 \in 0 .. Attempts - 1
  BY DEF ConstantsOK
<1>2. QED
  BY <1>1 DEF At, TaskType

LEMMA TaskValues ==
  ASSUME ConstantsOK
  PROVE  /\ Idle \in TaskType /\ Idle.step = "idle" /\ Idle.process = None
         /\ At("panicked", REJECT) \in TaskType
         /\ At("panicked", REJECT).step = "panicked"
         /\ At("panicked", REJECT).process = None
         /\ \A n \in Node : /\ Probe(n) \in TaskType /\ Probe(n).step = "acquire"
                            /\ Probe(n).process = None
BY AtType DEF Idle, Probe, Live

LEMMA EndAttemptType ==
  ASSUME ConstantsOK, NEW t \in TaskType, t.step \in Live,
         NEW again \in BOOLEAN
  PROVE  /\ EndAttempt(t, again) \in TaskType
         /\ EndAttempt(t, again).step \in {"acquire", "finished"}
         /\ EndAttempt(t, again).process = None
<1>1. t.node \in Node /\ t.attempt \in 0 .. Attempts - 1
  BY DEF TaskType
<1>2. At("finished", t.node) \in TaskType /\ At("finished", t.node).step = "finished"
      /\ At("finished", t.node).process = None
  BY <1>1, AtType
<1>3. At("acquire", t.node) \in TaskType /\ At("acquire", t.node).step = "acquire"
      /\ At("acquire", t.node).process = None
  BY <1>1, AtType DEF Live
<1>4. ASSUME t.attempt + 1 < Attempts
      PROVE  t.attempt + 1 \in 0 .. Attempts - 1
  BY <1>1, <1>4 DEF ConstantsOK
<1>5. QED
  BY <1>2, <1>3, <1>4 DEF EndAttempt, Probe, TaskType

LEMMA SetTaskType ==
  ASSUME task \in [Test -> [Worker -> TaskType]], NEW j, NEW w,
         NEW t \in TaskType, SetTask(j, w, t)
  PROVE  task' \in [Test -> [Worker -> TaskType]]
BY DEF SetTask

(* What setting one task does, entry by entry.                             *)
LEMMA SetTaskEntries ==
  ASSUME task \in [Test -> [Worker -> TaskType]], NEW j \in Test, NEW w,
         NEW t, SetTask(j, w, t)
  PROVE  \A i \in Test, v \in Worker :
           task'[i][v] = IF i = j /\ v = w THEN t ELSE task[i][v]
BY DEF SetTask

-----------------------------------------------------------------------------
(* Requests to Mihomo: what they can change, and that they change nothing  *)
(* of another worker's selector.                                           *)
Controlled == /\ selector \in [Worker -> Node \cup {REJECT}]
              /\ late \subseteq Worker \X (Node \cup {REJECT})
              /\ stray \subseteq Worker
              /\ \A r \in late : r[1] \in stray

Spared(w) == /\ stray \subseteq stray'
             /\ \A v \in Worker \ {w} : selector'[v] = selector[v]

LEMMA AnsweredKeeps ==
  ASSUME Controlled, NEW w \in Worker, NEW c \in Node \cup {REJECT},
         Answered(w, c)
  PROVE  Controlled' /\ Spared(w) /\ selector'[w] = c
BY DEF Controlled, Spared, Answered

LEMMA UnansweredKeeps ==
  ASSUME Controlled, NEW w \in Worker, NEW c \in Node \cup {REJECT},
         Unanswered(w, c)
  PROVE  Controlled' /\ Spared(w)
<1>1. CASE UNCHANGED <<selector, late, stray>>
  BY <1>1 DEF Controlled, Spared
<1>2. CASE selector' = [selector EXCEPT ![w] = c] /\ UNCHANGED <<late, stray>>
  BY <1>2 DEF Controlled, Spared
<1>3. CASE /\ late' = late \cup {<<w, c>>} /\ stray' = stray \cup {w}
           /\ UNCHANGED selector
  BY <1>3 DEF Controlled, Spared
<1>4. QED
  BY <1>1, <1>2, <1>3 DEF Unanswered

LEMMA ResetKeeps ==
  ASSUME Controlled, unreset \subseteq Worker, NEW w \in Worker, NEW process,
         ResetRequest(w, process)
  PROVE  Controlled' /\ Spared(w) /\ unreset' \subseteq Worker
<1>1. CASE process = core /\ Answered(w, REJECT) /\ unreset' = unreset \ {w}
  BY <1>1, AnsweredKeeps
<1>2. CASE process = core /\ Unanswered(w, REJECT) /\ unreset' = unreset \cup {w}
  BY <1>2, UnansweredKeeps
<1>3. CASE process # core /\ UNCHANGED <<selector, late, stray, unreset>>
  BY <1>3 DEF Controlled, Spared
<1>4. QED
  BY <1>1, <1>2, <1>3 DEF ResetRequest

-----------------------------------------------------------------------------
Inv == TypeOK /\ Owned /\ Numbered

(* A step of a probe changes one task that was under way.                  *)
LEMMA ProbeKeeps ==
  ASSUME Inv, NEW j \in Test, NEW w \in Worker, NEW t \in TaskType,
         task[j][w].step # "idle", t.process <= born,
         SetTask(j, w, t), UNCHANGED <<owner, started, test, born>>
  PROVE  /\ task' \in [Test -> [Worker -> TaskType]]
         /\ Owned'
         /\ \A i \in Test, v \in Worker : task'[i][v].process <= born'
<1>1. task' \in [Test -> [Worker -> TaskType]]
  BY SetTaskType DEF Inv, TypeOK
<1>2. \A i \in Test, v \in Worker :
        task'[i][v] = IF i = j /\ v = w THEN t ELSE task[i][v]
  BY SetTaskEntries DEF Inv, TypeOK
<1>3. Owned'
  BY <1>2 DEF Inv, Owned
<1>4. \A i \in Test, v \in Worker : task'[i][v].process <= born'
  BY <1>2 DEF Inv, Numbered
<1>5. QED
  BY <1>1, <1>3, <1>4

(* What a task that is under way has.                                      *)
LEMMA TaskFacts ==
  ASSUME Inv, NEW j \in Test, NEW w \in Worker
  PROVE  /\ task[j][w] \in TaskType
         /\ task[j][w].node \in Node \cup {REJECT}
         /\ task[j][w].process \in Process \cup {None}
         /\ task[j][w].process <= born
         /\ task[j][w].again \in BOOLEAN
         /\ task[j][w].step \in Live \cup {"finished"} => task[j][w].node \in Node
BY DEF Inv, TypeOK, TaskType, Numbered

LEMMA CoreFacts ==
  ASSUME ConstantsOK, Inv
  PROVE  /\ Controlled /\ core \in Nat /\ born \in Nat
         /\ None <= born /\ core <= born
         /\ core # None => core \in Process
BY DEF ConstantsOK, Inv, TypeOK, Numbered, Controlled, None, Process

(* Inv, put together from its parts after a step of a probe.               *)
LEMMA ProbeInv ==
  ASSUME Inv, UNCHANGED <<core, coreRunning, born, owner, started, test, cancelled, shown>>,
         Controlled', unreset' \subseteq Worker,
         task' \in [Test -> [Worker -> TaskType]], Owned',
         \A i \in Test, v \in Worker : task'[i][v].process <= born'
  PROVE  Inv'
BY DEF Inv, TypeOK, Numbered, Controlled, shown

LEMMA AcquireInv ==
  ASSUME ConstantsOK, Inv, NEW j \in Test, NEW w \in Worker, Acquire(j, w)
  PROVE  Inv'
<1> DEFINE t == task[j][w]
           u == IF core = None THEN EndAttempt(t, TRUE)
                ELSE [t EXCEPT !.step = "select", !.process = core]
<1>1. u \in TaskType /\ u.process <= born
  <2>1. CASE core = None
    BY <2>1, TaskFacts, CoreFacts, EndAttemptType DEF Acquire, Live
  <2>2. CASE core # None
    BY <2>2, TaskFacts, CoreFacts, ZenonT(40) DEF Acquire, TaskType, Live
  <2>3. QED
    BY <2>1, <2>2
<1>2. task[j][w].step # "idle" /\ SetTask(j, w, u)
  BY DEF Acquire
<1>3. Controlled' /\ unreset' \subseteq Worker
  BY CoreFacts DEF Acquire, coreVars, Controlled, Inv, TypeOK
<1>4. QED
  BY <1>1, <1>2, <1>3, ProbeKeeps, ProbeInv DEF Acquire, coreVars

LEMMA DelayInv ==
  ASSUME ConstantsOK, Inv, NEW j \in Test, NEW w \in Worker, Delay(j, w)
  PROVE  Inv'
<1> DEFINE t == task[j][w]
<1>1. PICK again \in BOOLEAN :
        SetTask(j, w, [t EXCEPT !.step = "reset", !.again = again])
  BY DEF Delay
<1> DEFINE u == [t EXCEPT !.step = "reset", !.again = again]
<1>2. u \in TaskType /\ u.process <= born
  BY TaskFacts, ZenonT(40) DEF Delay, TaskType, Live
<1>3. task[j][w].step # "idle"
  BY DEF Delay
<1>4. Controlled' /\ unreset' \subseteq Worker
  BY CoreFacts DEF Delay, coreVars, Controlled, Inv, TypeOK
<1>5. QED
  BY <1>1, <1>2, <1>3, <1>4, ProbeKeeps, ProbeInv DEF Delay, coreVars

LEMMA ResetInv ==
  ASSUME ConstantsOK, Inv, NEW j \in Test, NEW w \in Worker, Reset(j, w)
  PROVE  Inv'
<1> DEFINE u == EndAttempt(task[j][w], task[j][w].again)
<1>1. u \in TaskType /\ u.process <= born
  BY TaskFacts, CoreFacts, EndAttemptType DEF Reset, Live
<1>2. task[j][w].step # "idle" /\ SetTask(j, w, u)
  BY DEF Reset
<1>3. Controlled' /\ unreset' \subseteq Worker
  BY CoreFacts, ResetKeeps DEF Reset, Inv, TypeOK
<1>4. QED
  BY <1>1, <1>2, <1>3, ProbeKeeps, ProbeInv DEF Reset

LEMMA PanicInv ==
  ASSUME ConstantsOK, Inv, NEW j \in Test, NEW w \in Worker, Panic(j, w)
  PROVE  Inv'
<1> DEFINE u == At("panicked", REJECT)
<1>1. u \in TaskType /\ u.process <= born
  BY TaskValues, CoreFacts
<1>2. task[j][w].step # "idle" /\ SetTask(j, w, u)
  BY DEF Panic, Live
<1>3. Controlled' /\ unreset' \subseteq Worker
  BY CoreFacts DEF Panic, Controlled, Inv, TypeOK
<1>4. QED
  BY <1>1, <1>2, <1>3, ProbeKeeps, ProbeInv DEF Panic

LEMMA SelectInv ==
  ASSUME ConstantsOK, Inv, NEW j \in Test, NEW w \in Worker, Select(j, w)
  PROVE  Inv'
<1> DEFINE t == task[j][w]
<1>1. t.step # "idle" /\ UNCHANGED <<core, coreRunning, born, owner, started, test, cancelled, shown>>
  BY DEF Select
<1>2. unreset \subseteq Worker
  BY DEF Inv, TypeOK
<1>3. CASE /\ Answered(w, t.node) /\ UNCHANGED unreset
           /\ SetTask(j, w, [t EXCEPT !.step = "delay"])
  <2>1. [t EXCEPT !.step = "delay"] \in TaskType
        /\ [t EXCEPT !.step = "delay"].process <= born
    <3>1. t.node \in Node
      BY TaskFacts DEF Select, Live
    <3>2. QED
      BY <3>1, TaskFacts DEF TaskType, Live
  <2>2. QED
    <3>1. Controlled' /\ unreset' \subseteq Worker
      BY <1>2, <1>3, TaskFacts, CoreFacts, AnsweredKeeps
    <3>2. QED
      BY <1>1, <1>3, <2>1, <3>1, ProbeKeeps, ProbeInv
<1>4. ASSUME NEW again \in BOOLEAN, SetTask(j, w, EndAttempt(t, again)),
             Controlled', unreset' \subseteq Worker
      PROVE  Inv'
  <2>1. EndAttempt(t, again) \in TaskType /\ EndAttempt(t, again).process <= born
    BY TaskFacts, CoreFacts, EndAttemptType DEF Select, Live
  <2>2. /\ task' \in [Test -> [Worker -> TaskType]] /\ Owned'
        /\ \A i \in Test, v \in Worker : task'[i][v].process <= born'
    BY <1>1, <1>4, <2>1, ProbeKeeps
  <2>3. QED
    BY <1>1, <1>4, <2>2, ProbeInv
<1>5. CASE /\ UNCHANGED <<selector, late, stray, unreset>>
           /\ \E again \in BOOLEAN : SetTask(j, w, EndAttempt(t, again))
  BY <1>2, <1>4, <1>5, CoreFacts DEF Controlled
<1>6. CASE /\ Unanswered(w, t.node) /\ unreset' = unreset \cup {w}
           /\ SetTask(j, w, EndAttempt(t, TRUE))
  BY <1>2, <1>4, <1>6, TaskFacts, CoreFacts, UnansweredKeeps
<1>7. QED
  BY <1>3, <1>5, <1>6 DEF Select

LEMMA AbortInv ==
  ASSUME ConstantsOK, Inv, NEW j \in Test, NEW w \in Worker, Abort(j, w)
  PROVE  Inv'
<1> DEFINE t == task[j][w]
           c == IF t.step = "select" THEN t.node ELSE REJECT
<1>1. Idle \in TaskType /\ Idle.process <= born
  BY TaskValues, CoreFacts
<1>2. t.step # "idle" /\ SetTask(j, w, Idle)
  BY DEF Abort, Live
<1>3. Unanswered(w, c) \/ UNCHANGED <<selector, late, stray>>
  BY DEF Abort
<1>4. Controlled' /\ unreset' \subseteq Worker
  BY <1>3, TaskFacts, CoreFacts, UnansweredKeeps DEF Abort, Inv, TypeOK, Controlled
<1>5. QED
  BY <1>1, <1>2, <1>4, ProbeKeeps, ProbeInv DEF Abort

-----------------------------------------------------------------------------
(* The pool and the end of a test: one test moves on, its tasks with it.   *)

(* Ownership after a step of test j that neither starts nor ends it.       *)
LEMMA MovesOn ==
  ASSUME Inv, NEW j \in Test, UNCHANGED <<owner, started>>,
         test[j].at \notin {"new", "over"}, test'[j].at # "new",
         \A i \in Test \ {j} : test'[i] = test[i],
         \A i \in Test \ {j} : task'[i] = task[i],
         \A w \in Worker : task'[j][w].step # "idle" => test'[j].at \in Pool
  PROVE  Owned'
BY DEF Inv, Owned, Pool

(* Inv after a step that leaves the core and its requests alone.           *)
LEMMA CalmInv ==
  ASSUME Inv, UNCHANGED coreVars,
         Owned', owner' \in Test \cup {None}, started' \in 0 .. MaxTests,
         test' \in [Test -> TestType], task' \in [Test -> [Worker -> TaskType]],
         \A i \in Test, w \in Worker : task'[i][w].process <= born,
         cancelled' \subseteq Test, registered' \subseteq Test,
         progress' \in [test : Test \cup {None}, completed : Nat, done : BOOLEAN],
         stored' \in [Node -> Test \cup {None}]
  PROVE  Inv'
BY DEF Inv, TypeOK, Numbered, coreVars

LEMMA TestFacts ==
  ASSUME Inv, NEW j \in Test
  PROVE  /\ test[j] \in TestType
         /\ test[j].queue \subseteq Node /\ test[j].reported \subseteq Node
         /\ test[j].nodes \subseteq Node /\ test[j].todo \subseteq Worker
         /\ test[j].worker \in Worker
         /\ (\E w \in Worker : task[j][w].step # "idle") => test[j].at \in Active
BY DEF Inv, TypeOK, TestType, Owned, Active

LEMMA SetTestEntries ==
  ASSUME Inv, NEW j \in Test, NEW p \in TestType, SetTest(j, p)
  PROVE  /\ test' \in [Test -> TestType] /\ test'[j] = p
         /\ \A i \in Test \ {j} : test'[i] = test[i]
BY DEF SetTest, Inv, TypeOK

(* A step that only moves test j on.                                       *)
LEMMA PlainStep ==
  ASSUME Inv, NEW j \in Test, NEW p \in TestType, SetTest(j, p),
         UNCHANGED <<coreVars, owner, started, task, cancelled, shown>>,
         test[j].at \notin {"new", "over"}, p.at # "new",
         p.at \in Pool \/ \A w \in Worker : task[j][w].step = "idle"
  PROVE  Inv'
<1>1. Owned'
  BY SetTestEntries, MovesOn
<1>2. QED
  BY <1>1, SetTestEntries, CalmInv DEF Inv, TypeOK, Numbered, shown

(* A step that sets one task of test j, which goes on in the pool.         *)
LEMMA TaskStep ==
  ASSUME Inv, NEW j \in Test, NEW w, NEW t \in TaskType, NEW p \in TestType,
         t.process <= born, SetTask(j, w, t), SetTest(j, p),
         UNCHANGED <<coreVars, owner, started, cancelled, shown>>,
         test[j].at \notin {"new", "over"}, p.at \in Pool
  PROVE  Inv'
<1>1. /\ task' \in [Test -> [Worker -> TaskType]]
      /\ \A i \in Test, v \in Worker :
           task'[i][v] = IF i = j /\ v = w THEN t ELSE task[i][v]
  BY SetTaskType, SetTaskEntries DEF Inv, TypeOK
<1>2. \A i \in Test \ {j} : task'[i] = task[i]
  BY DEF SetTask, Inv, TypeOK
<1>3. Owned'
  BY <1>2, SetTestEntries, MovesOn DEF Pool
<1>4. \A i \in Test, v \in Worker : task'[i][v].process <= born
  BY <1>1 DEF Inv, Numbered
<1>5. QED
  BY <1>1, <1>3, <1>4, SetTestEntries, CalmInv DEF Inv, TypeOK, shown

LEMMA FillInv ==
  ASSUME ConstantsOK, Inv, NEW j \in Test, Fill(j)
  PROVE  Inv'
<1> DEFINE p == test[j]
           w == CHOOSE x \in p.todo : \A y \in p.todo : x <= y
<1>1. p.at = "fill" /\ UNCHANGED <<coreVars, owner, started, cancelled, shown>>
  BY DEF Fill
<1>2. CASE SetTest(j, [p EXCEPT !.at = "wait", !.todo = {}]) /\ UNCHANGED task
  <2> DEFINE q == [p EXCEPT !.at = "wait", !.todo = {}]
  <2>1. q \in TestType /\ q.at = "wait"
    BY TestFacts DEF TestType
  <2>2. QED
    BY <1>1, <1>2, <2>1, PlainStep DEF Pool
<1>3. CASE SetTest(j, [p EXCEPT !.todo = @ \ {w}]) /\ UNCHANGED task
  <2> DEFINE q == [p EXCEPT !.todo = @ \ {w}]
  <2>1. q \in TestType /\ q.at = "fill"
    BY <1>1, TestFacts DEF TestType
  <2>2. QED
    BY <1>1, <1>3, <2>1, PlainStep DEF Pool
<1>4. ASSUME NEW n \in p.queue, Spawn(j, w, n),
             SetTest(j, [p EXCEPT !.todo = @ \ {w}, !.queue = @ \ {n}])
      PROVE  Inv'
  <2> DEFINE q == [p EXCEPT !.todo = @ \ {w}, !.queue = @ \ {n}]
  <2>1. q \in TestType /\ q.at = "fill"
    BY <1>1, TestFacts, ZenonT(40) DEF TestType
  <2>2. Probe(n) \in TaskType /\ Probe(n).process <= born
    BY <1>4, TestFacts, TaskValues, CoreFacts
  <2>3. QED
    BY <1>1, <1>4, <2>1, <2>2, TaskStep DEF Spawn, Pool
<1>5. QED
  BY <1>2, <1>3, <1>4 DEF Fill

LEMMA RefillInv ==
  ASSUME ConstantsOK, Inv, NEW j \in Test, Refill(j)
  PROVE  Inv'
<1> DEFINE p == test[j]
<1>1. p.at = "refill" /\ UNCHANGED <<coreVars, owner, started, cancelled, shown>>
  BY DEF Refill
<1>2. 0 \in Worker
  BY DEF ConstantsOK, Worker
<1>3. CASE SetTest(j, [p EXCEPT !.at = "wait", !.worker = 0]) /\ UNCHANGED task
  <2> DEFINE q == [p EXCEPT !.at = "wait", !.worker = 0]
  <2>1. q \in TestType /\ q.at = "wait"
    BY <1>2, TestFacts DEF TestType
  <2>2. QED
    BY <1>1, <1>3, <2>1, PlainStep DEF Pool
<1>4. ASSUME NEW n \in p.queue, Spawn(j, p.worker, n),
             SetTest(j, [p EXCEPT !.at = "wait", !.worker = 0,
                                  !.queue = @ \ {n}])
      PROVE  Inv'
  <2> DEFINE q == [p EXCEPT !.at = "wait", !.worker = 0, !.queue = @ \ {n}]
  <2>1. q \in TestType /\ q.at = "wait"
    BY <1>2, TestFacts DEF TestType
  <2>2. Probe(n) \in TaskType /\ Probe(n).process <= born
    BY <1>4, TestFacts, TaskValues, CoreFacts
  <2>3. QED
    BY <1>1, <1>4, <2>1, <2>2, TaskStep DEF Spawn, Pool
<1>5. QED
  BY <1>3, <1>4 DEF Refill

LEMMA WaitInv ==
  ASSUME ConstantsOK, Inv, NEW j \in Test,
         \/ WaitCancelled(j) \/ WaitNothing(j)
         \/ \E w \in Worker : WaitPanicked(j, w) \/ DrainOne(j, w)
  PROVE  Inv'
<1> DEFINE q == [test[j] EXCEPT !.at = "drain", !.aborting = TRUE]
           r == [test[j] EXCEPT !.at = "drain"]
<1>1. Idle \in TaskType /\ Idle.process <= born
  BY TaskValues, CoreFacts
<1>2. q \in TestType /\ q.at = "drain" /\ r \in TestType /\ r.at = "drain"
  BY TestFacts DEF TestType
<1>3. CASE WaitCancelled(j)
  BY <1>2, <1>3, PlainStep DEF WaitCancelled, Pool
<1>4. CASE WaitNothing(j)
  BY <1>2, <1>4, PlainStep DEF WaitNothing, Pool
<1>5. ASSUME NEW w \in Worker, WaitPanicked(j, w)
      PROVE  Inv'
  BY <1>1, <1>2, <1>5, TaskStep DEF WaitPanicked, Pool
<1>6. ASSUME NEW w \in Worker, DrainOne(j, w)
      PROVE  Inv'
  <2>1. SetTest(j, test[j]) /\ test[j] \in TestType
    BY <1>6, TestFacts DEF DrainOne, SetTest, Inv, TypeOK
  <2>2. QED
    BY <1>1, <1>6, <2>1, TaskStep DEF DrainOne, Pool
<1>7. QED
  BY <1>3, <1>4, <1>5, <1>6

LEMMA StoreType ==
  ASSUME Inv, NEW j \in Test, NEW nodes, Store(j, nodes)
  PROVE  stored' \in [Node -> Test \cup {None}]
BY DEF Store, Inv, TypeOK

LEMMA CountType ==
  ASSUME ConstantsOK, NEW S \in SUBSET Node
  PROVE  Cardinality(S) \in Nat
BY FS_Subset, FS_CardinalityType DEF ConstantsOK

LEMMA ReportInv ==
  ASSUME ConstantsOK, Inv, NEW j \in Test, NEW w \in Worker, Report(j, w)
  PROVE  Inv'
<1> DEFINE n == task[j][w].node
           done == test[j].reported \cup {n}
           q == [test[j] EXCEPT !.at = "refill", !.worker = w, !.reported = done]
<1>1. n \in Node
  BY TaskFacts DEF Report
<1>2. done \subseteq Node
  BY <1>1, TestFacts
<1>3. q \in TestType /\ q.at = "refill"
  BY <1>2, TestFacts DEF TestType
<1>4. Idle \in TaskType /\ Idle.process <= born
  BY TaskValues, CoreFacts
<1>5. SetTask(j, w, Idle) /\ SetTest(j, q) /\ test[j].at = "wait"
      /\ UNCHANGED <<coreVars, owner, started, cancelled, registered>>
  BY DEF Report
<1>6. /\ task' \in [Test -> [Worker -> TaskType]]
      /\ \A i \in Test, v \in Worker : task'[i][v].process <= born
      /\ \A i \in Test \ {j} : task'[i] = task[i]
  BY <1>4, <1>5, SetTaskType, SetTaskEntries DEF SetTask, Inv, TypeOK, Numbered
<1>7. Owned'
  BY <1>3, <1>5, <1>6, SetTestEntries, MovesOn DEF Pool
<1>8. /\ progress' \in [test : Test \cup {None}, completed : Nat, done : BOOLEAN]
      /\ stored' \in [Node -> Test \cup {None}]
  <2>1. CASE test[j].kind = "job"
    <3>1. /\ Store(j, {n})
          /\ progress' = [test |-> j, completed |-> Cardinality(done),
                          done |-> FALSE]
      BY <2>1 DEF Report
    <3>2. QED
      BY <1>2, <3>1, StoreType, CountType
  <2>2. CASE test[j].kind # "job"
    BY <2>2 DEF Report, Inv, TypeOK
  <2>3. QED
    BY <2>1, <2>2
<1>9. QED
  BY <1>3, <1>5, <1>6, <1>7, <1>8, SetTestEntries, CalmInv DEF Inv, TypeOK

LEMMA DrainedInv ==
  ASSUME ConstantsOK, Inv, NEW j \in Test, Drained(j)
  PROVE  Inv'
<1> DEFINE reset == test[j].kind = "job" /\ j \in cancelled /\ core # None
           q == [test[j] EXCEPT
                   !.at = IF test[j].kind # "job" THEN "store"
                          ELSE IF reset THEN "cleanup" ELSE "unregister",
                   !.process = IF reset THEN core ELSE None,
                   !.todo = IF reset THEN Worker ELSE {}]
<1>1. q \in TestType /\ q.at # "new"
  BY TestFacts, CoreFacts, ZenonT(40) DEF TestType
<1>2. SetTest(j, q)
  BY DEF Drained
<1>3. QED
  BY <1>1, <1>2, PlainStep DEF Drained, AllIdle

LEMMA CleanupInv ==
  ASSUME ConstantsOK, Inv, NEW j \in Test, Cleanup(j)
  PROVE  Inv'
<1>1. test[j].at = "cleanup"
      /\ UNCHANGED <<core, coreRunning, born, owner, started, task, cancelled, shown>>
  BY DEF Cleanup
<1>2. \A w \in Worker : task[j][w].step = "idle"
  BY <1>1, TestFacts DEF Active, Pool
<1>3. CASE /\ SetTest(j, [test[j] EXCEPT !.at = "unregister", !.process = None])
           /\ UNCHANGED <<selector, late, stray, unreset>>
  <2> DEFINE q == [test[j] EXCEPT !.at = "unregister", !.process = None]
  <2>1. q \in TestType /\ q.at = "unregister"
    BY TestFacts DEF TestType
  <2>2. QED
    BY <1>1, <1>2, <1>3, <2>1, PlainStep DEF coreVars
<1>4. ASSUME NEW w \in test[j].todo,
             SetTest(j, [test[j] EXCEPT !.todo = @ \ {w}]),
             ResetRequest(w, test[j].process)
      PROVE  Inv'
  <2> DEFINE q == [test[j] EXCEPT !.todo = @ \ {w}]
  <2>1. q \in TestType /\ q.at = "cleanup"
    BY <1>1, TestFacts DEF TestType
  <2>2. Controlled' /\ unreset' \subseteq Worker
    BY <1>4, TestFacts, CoreFacts, ResetKeeps DEF Inv, TypeOK
  <2>3. Owned'
    BY <1>1, <1>2, <1>4, <2>1, SetTestEntries, MovesOn
  <2>4. QED
    BY <1>1, <1>4, <2>1, <2>2, <2>3, SetTestEntries
    DEF Inv, TypeOK, Numbered, Controlled, shown
<1>5. QED
  BY <1>3, <1>4 DEF Cleanup

LEMMA EndInv ==
  ASSUME ConstantsOK, Inv, NEW j \in Test,
         Unregister(j) \/ PublishDone(j) \/ StoreAll(j)
  PROVE  Inv'
<1> DEFINE q == [test[j] EXCEPT !.at = "publish"]
           r == [test[j] EXCEPT !.at = "release"]
<1>1. q \in TestType /\ q.at = "publish" /\ r \in TestType /\ r.at = "release"
  BY TestFacts DEF TestType
<1>2. test[j].at \in {"unregister", "publish", "store"}
      /\ UNCHANGED <<coreVars, owner, started, task, cancelled>>
      /\ (SetTest(j, q) \/ SetTest(j, r))
  BY DEF Unregister, PublishDone, StoreAll
<1>3. \A w \in Worker : task[j][w].step = "idle"
  BY <1>2, TestFacts DEF Active, Pool
<1>4. test' \in [Test -> TestType] /\ Owned'
  BY <1>1, <1>2, <1>3, SetTestEntries, MovesOn
<1>5. registered' \subseteq Test
  BY DEF Unregister, PublishDone, StoreAll, Inv, TypeOK
<1>6. progress' \in [test : Test \cup {None}, completed : Nat, done : BOOLEAN]
  <2>1. CASE PublishDone(j)
    <3>1. Cardinality(test[j].reported) \in Nat
      BY TestFacts, CountType
    <3>2. QED
      BY <2>1, <3>1 DEF PublishDone
  <2>2. CASE Unregister(j) \/ StoreAll(j)
    BY <2>2 DEF Unregister, StoreAll, Inv, TypeOK
  <2>3. QED
    BY <2>1, <2>2
<1>7. stored' \in [Node -> Test \cup {None}]
  BY StoreType DEF Unregister, PublishDone, StoreAll, Inv, TypeOK
<1>8. QED
  BY <1>2, <1>4, <1>5, <1>6, <1>7, CalmInv DEF Inv, TypeOK, Numbered

LEMMA ProbeDoneInv ==
  ASSUME ConstantsOK, Inv, NEW j \in Test, ProbeDone(j)
  PROVE  Inv'
<1> DEFINE finished == task[j][0].step = "finished"
           q == [test[j] EXCEPT !.at = IF finished THEN "store" ELSE "release",
                                !.reported = IF finished THEN {task[j][0].node}
                                             ELSE {}]
<1>1. 0 \in Worker
  BY DEF ConstantsOK, Worker
<1>2. q \in TestType /\ q.at \in {"store", "release"}
  <2>1. CASE finished
    <3>1. {task[j][0].node} \subseteq Node
      BY <1>1, <2>1, TaskFacts
    <3>2. QED
      BY <2>1, <3>1, TestFacts DEF TestType
  <2>2. CASE ~finished
    BY <2>2, TestFacts DEF TestType
  <2>3. QED
    BY <2>1, <2>2
<1>3. Idle \in TaskType /\ Idle.process <= born /\ Idle.step = "idle"
  BY TaskValues, CoreFacts
<1>4. SetTask(j, 0, Idle) /\ SetTest(j, q) /\ test[j].at = "probe"
      /\ UNCHANGED <<coreVars, owner, started, cancelled, shown>>
  BY DEF ProbeDone
<1>5. /\ task' \in [Test -> [Worker -> TaskType]]
      /\ \A i \in Test, v \in Worker :
           task'[i][v] = IF i = j /\ v = 0 THEN Idle ELSE task[i][v]
      /\ \A i \in Test \ {j} : task'[i] = task[i]
  <2>1. task \in [Test -> [Worker -> TaskType]]
    BY DEF Inv, TypeOK
  <2>2. task' \in [Test -> [Worker -> TaskType]]
    BY <1>3, <1>4, <2>1, SetTaskType
  <2>3. \A i \in Test, v \in Worker :
          task'[i][v] = IF i = j /\ v = 0 THEN Idle ELSE task[i][v]
    BY <1>4, <2>1, SetTaskEntries
  <2>4. \A i \in Test \ {j} : task'[i] = task[i]
    BY <1>4, <2>1 DEF SetTask
  <2>5. QED
    BY <2>2, <2>3, <2>4
<1> HIDE DEF q
<1>6. \A v \in Worker : task'[j][v].step = "idle"
  <2>1. \A v \in Worker \ {0} : task[j][v].step = "idle"
    BY <1>4 DEF Inv, Owned, Pool
  <2>2. QED
    BY <1>3, <1>5, <2>1
<1>7. Owned'
  BY <1>2, <1>4, <1>5, <1>6, SetTestEntries, MovesOn
<1>8. \A i \in Test, v \in Worker : task'[i][v].process <= born
  BY <1>3, <1>5 DEF Inv, Numbered
<1>9. QED
  BY <1>2, <1>4, <1>5, <1>7, <1>8, SetTestEntries, CalmInv DEF Inv, TypeOK, shown

LEMMA UnbornType ==
  ASSUME ConstantsOK
  PROVE  Unborn \in TestType
<1>1. 0 \in Worker
  BY DEF ConstantsOK, Worker
<1>2. QED
  BY <1>1 DEF Unborn, TestType

LEMMA ReleaseInv ==
  ASSUME ConstantsOK, Inv, NEW j \in Test, Release(j)
  PROVE  Inv'
<1> DEFINE q == [Unborn EXCEPT !.at = "over"]
<1>1. q \in TestType /\ q.at = "over"
  BY UnbornType DEF TestType
<1>2. /\ test[j].at = "release"
      /\ \A i \in Test : test[i].at \in {"new", "over"} \/ i = j
      /\ \A w \in Worker : task[j][w].step = "idle"
  <2>1. test[j].at = "release"
    BY DEF Release
  <2>2. \A i \in Test : test[i].at \in {"new", "over"} \/ i = j
    BY <2>1 DEF Inv, Owned
  <2>3. \A w \in Worker : task[j][w].step = "idle"
    BY <2>1, TestFacts DEF Active, Pool
  <2>4. QED
    BY <2>1, <2>2, <2>3
<1>3. SetTest(j, q) /\ owner' = None
      /\ UNCHANGED <<coreVars, started, task, shown>>
  BY DEF Release
<1>4. Owned'
  <2>1. ~(j > started)
    BY <1>2 DEF Inv, Owned
  <2>2. test'[j].at = "over" /\ \A i \in Test \ {j} : test'[i] = test[i]
    BY <1>1, <1>3, SetTestEntries
  <2>3. \A i \in Test : i > started' => test'[i].at = "new"
    BY <1>3, <2>1, <2>2 DEF Inv, Owned
  <2>4. \A i \in Test : test'[i].at \in {"new", "over"}
    BY <1>2, <2>2
  <2>5. \A i \in Test, w \in Worker : task'[i][w].step # "idle" =>
          test'[i].at \in Pool \/ (test'[i].at = "probe" /\ w = 0)
    BY <1>2, <1>3, <2>2 DEF Inv, Owned
  <2>6. QED
    BY <2>3, <2>4, <2>5 DEF Owned
<1>5. cancelled' \subseteq Test
  BY DEF Release, Inv, TypeOK
<1>6. test' \in [Test -> TestType]
  BY <1>1, <1>3, SetTestEntries
<1>7. QED
  BY <1>3, <1>4, <1>5, <1>6, CalmInv DEF Inv, TypeOK, Numbered, shown

-----------------------------------------------------------------------------
(* The start of a test.                                                    *)
LEMMA NextTest ==
  ASSUME ConstantsOK, Inv, owner = None, started < MaxTests
  PROVE  /\ started + 1 \in Test /\ started + 1 \in 0 .. MaxTests
         /\ \A i \in Test : test[i].at \in {"new", "over"}
         /\ \A i \in Test, w \in Worker : task[i][w].step = "idle"
<1>1. started + 1 \in Test /\ started + 1 \in 0 .. MaxTests
  BY DEF ConstantsOK, Inv, TypeOK, Test
<1>2. \A i \in Test : i # None
  BY DEF Test, None
<1>3. \A i \in Test : test[i].at \in {"new", "over"}
  BY <1>2 DEF Inv, Owned
<1>4. \A i \in Test, w \in Worker : task[i][w].step = "idle"
  BY <1>3 DEF Inv, Owned, Pool
<1>5. QED
  BY <1>1, <1>3, <1>4

(* Ownership after a test took latency_owner.                              *)
LEMMA StartsOwned ==
  ASSUME ConstantsOK, Inv, owner = None, started < MaxTests,
         owner' = started + 1, started' = started + 1,
         NEW p \in TestType, SetTest(started + 1, p), p.at # "new",
         \A i \in Test, w \in Worker : task'[i][w].step # "idle" =>
           i = started + 1 /\ p.at = "probe" /\ w = 0
  PROVE  Owned'
<1> DEFINE j == started + 1
<1>1. j \in Test /\ \A i \in Test : test[i].at \in {"new", "over"}
  BY NextTest
<1>2. test'[j] = p /\ \A i \in Test \ {j} : test'[i] = test[i]
  BY <1>1, SetTestEntries
<1>3. \A i \in Test : i > started' => test'[i].at = "new"
  <2>1. \A i \in Test : i > started + 1 => i > started /\ i # j
    BY DEF Inv, TypeOK, Test
  <2>2. QED
    BY <1>2, <2>1 DEF Inv, Owned
<1>4. \A i \in Test : test'[i].at \notin {"new", "over"} => owner' = i
  BY <1>1, <1>2
<1>5. QED
  BY <1>2, <1>3, <1>4 DEF Owned

LEMMA BeginInv ==
  ASSUME ConstantsOK, Inv, NEW kind \in {"job", "all"},
         NEW nodes \in SUBSET Node, Begin(kind, nodes, "fill"), UNCHANGED task,
         registered' \subseteq Test,
         progress' \in [test : Test \cup {None}, completed : Nat, done : BOOLEAN]
  PROVE  Inv'
<1> DEFINE j == started + 1
           q == [Unborn EXCEPT !.kind = kind, !.at = "fill", !.nodes = nodes,
                               !.queue = nodes, !.todo = Worker]
<1>1. q \in TestType /\ q.at = "fill"
  BY UnbornType DEF TestType
<1>2. /\ owner = None /\ started < MaxTests /\ owner' = j /\ started' = j
      /\ SetTest(j, q) /\ UNCHANGED <<coreVars, cancelled, stored>>
  BY DEF Begin
<1>3. /\ j \in Test /\ j \in 0 .. MaxTests
      /\ \A i \in Test : test[i].at \in {"new", "over"}
      /\ \A i \in Test, w \in Worker : task[i][w].step = "idle"
  BY <1>2, NextTest
<1>4. Owned'
  <2>1. \A i \in Test, w \in Worker : task'[i][w].step # "idle" =>
          i = started + 1 /\ q.at = "probe" /\ w = 0
    BY <1>3
  <2>2. SetTest(started + 1, q) /\ q.at # "new"
    BY <1>1, <1>2
  <2>3. QED
    BY <1>1, <1>2, <2>1, <2>2, StartsOwned
<1>5. test' \in [Test -> TestType]
  BY <1>1, <1>2, <1>3, SetTestEntries
<1>6. QED
  BY <1>2, <1>3, <1>4, <1>5, CalmInv DEF Inv, TypeOK, Numbered

LEMMA TestNodeInv ==
  ASSUME ConstantsOK, Inv, TestNode
  PROVE  Inv'
<1> DEFINE j == started + 1
<1>1. PICK n \in Node :
        /\ SetTest(j, [Unborn EXCEPT !.kind = "one", !.at = "probe",
                                     !.nodes = {n}])
        /\ task' = [task EXCEPT ![j][0] = Probe(n)]
  BY DEF TestNode
<1> DEFINE q == [Unborn EXCEPT !.kind = "one", !.at = "probe", !.nodes = {n}]
<1>2. q \in TestType /\ q.at = "probe"
  BY UnbornType DEF TestType
<1>3. /\ owner = None /\ started < MaxTests /\ owner' = j /\ started' = j
      /\ UNCHANGED <<coreVars, cancelled, shown>>
  BY DEF TestNode
<1>4. /\ j \in Test /\ j \in 0 .. MaxTests
      /\ \A i \in Test : test[i].at \in {"new", "over"}
      /\ \A i \in Test, w \in Worker : task[i][w].step = "idle"
  BY <1>3, NextTest
<1>5. Probe(n) \in TaskType /\ Probe(n).process <= born
  BY TaskValues, CoreFacts
<1>6. SetTask(j, 0, Probe(n))
  BY <1>1 DEF SetTask
<1>7. /\ task' \in [Test -> [Worker -> TaskType]]
      /\ \A i \in Test, v \in Worker :
           task'[i][v] = IF i = j /\ v = 0 THEN Probe(n) ELSE task[i][v]
  BY <1>4, <1>5, <1>6, SetTaskType, SetTaskEntries DEF Inv, TypeOK
<1>8. Owned'
  <2>1. \A i \in Test, w \in Worker : task'[i][w].step # "idle" =>
          i = started + 1 /\ q.at = "probe" /\ w = 0
    BY <1>2, <1>4, <1>7
  <2>2. SetTest(started + 1, q) /\ q.at # "new"
    BY <1>1, <1>2
  <2>3. QED
    BY <1>2, <1>3, <2>1, <2>2, StartsOwned
<1>9. \A i \in Test, v \in Worker : task'[i][v].process <= born
  BY <1>5, <1>7 DEF Inv, Numbered
<1>10. test' \in [Test -> TestType]
  BY <1>1, <1>2, <1>4, SetTestEntries
<1>11. QED
  BY <1>3, <1>4, <1>7, <1>8, <1>9, <1>10, CalmInv DEF Inv, TypeOK, shown

-----------------------------------------------------------------------------
(* The core and the user.                                                  *)
LEMMA CoreInv ==
  ASSUME ConstantsOK, Inv, CoreStarts \/ CoreEnds \/ LateArrival
  PROVE  Inv'
<1>1. UNCHANGED <<owner, started, test, task, cancelled, shown>>
  BY DEF CoreStarts, CoreEnds, LateArrival
<1>2. Owned'
  BY <1>1 DEF Inv, Owned
<1>3. coreRunning' \in BOOLEAN
  BY DEF CoreStarts, CoreEnds, LateArrival, Inv, TypeOK
<1>4. /\ core' \in Process \cup {None} /\ born' \in 0 .. MaxProcesses
      /\ core' <= born' /\ born <= born'
  <2>1. CASE CoreStarts
    BY <2>1, CoreFacts DEF CoreStarts, ConstantsOK, Inv, TypeOK, Process
  <2>2. CASE CoreEnds
    BY <2>2, CoreFacts DEF CoreEnds, Inv, TypeOK, None
  <2>3. CASE LateArrival
    <3>1. core' = core /\ born' = born
      BY <2>3 DEF LateArrival
    <3>2. QED
      BY <3>1, CoreFacts DEF Inv, TypeOK
  <2>4. QED
    BY <2>1, <2>2, <2>3
<1>5. Controlled' /\ unreset' \subseteq Worker
  <2>1. CASE CoreStarts
    BY <2>1, CoreFacts DEF CoreStarts, Controlled, Inv, TypeOK
  <2>2. CASE CoreEnds
    BY <2>2 DEF CoreEnds, Controlled
  <2>3. CASE LateArrival
    <3>1. PICK r \in late : /\ selector' = [selector EXCEPT ![r[1]] = r[2]]
                            /\ late' = late \ {r}
      BY <2>3 DEF LateArrival
    <3>2. r[1] \in Worker /\ r[2] \in Node \cup {REJECT}
      BY CoreFacts DEF Controlled
    <3>3. QED
      BY <2>3, <3>1, <3>2, CoreFacts DEF LateArrival, Controlled, Inv, TypeOK
  <2>4. QED
    BY <2>1, <2>2, <2>3
<1>6. \A i \in Test, w \in Worker : task'[i][w].process <= born'
  <2>1. \A i \in Test, w \in Worker : task[i][w].process \in Nat
    BY TaskFacts DEF Process, None
  <2>2. born \in Nat /\ born' \in Nat
    BY <1>4, CoreFacts
  <2>3. QED
    BY <1>1, <1>4, <2>1, <2>2 DEF Inv, Numbered
<1>7. QED
  BY <1>1, <1>2, <1>4, <1>5, <1>6, <1>3 DEF Inv, TypeOK, Numbered, Controlled, shown

LEMMA UserInv ==
  ASSUME ConstantsOK, Inv, User
  PROVE  Inv'
<1>1. CASE StartLatencyTest
  <2>1. PICK nodes \in SUBSET Node : Begin("job", nodes, "fill")
    BY <1>1 DEF StartLatencyTest
  <2>2. started + 1 \in Test
    BY <2>1, NextTest DEF Begin
  <2>3. registered' \subseteq Test
    BY <1>1, <2>2 DEF StartLatencyTest, Inv, TypeOK
  <2>4. progress' \in [test : Test \cup {None}, completed : Nat, done : BOOLEAN]
    BY <1>1, <2>2 DEF StartLatencyTest
  <2>5. UNCHANGED task
    BY <1>1 DEF StartLatencyTest
  <2>6. QED
    BY <2>1, <2>3, <2>4, <2>5, BeginInv
<1>2. CASE TestAllNodes
  BY <1>2, BeginInv DEF TestAllNodes, Inv, TypeOK
<1>3. CASE TestNode
  BY <1>3, TestNodeInv
<1>4. CASE CancelLatencyTest
  <2>1. Owned'
    BY <1>4 DEF CancelLatencyTest, Inv, Owned
  <2>2. cancelled' \subseteq Test
    BY <1>4 DEF CancelLatencyTest, Inv, TypeOK
  <2>3. QED
    BY <1>4, <2>1, <2>2, CalmInv
    DEF CancelLatencyTest, Inv, TypeOK, Numbered, shown
<1>5. QED
  BY <1>1, <1>2, <1>3, <1>4 DEF User

-----------------------------------------------------------------------------
(* The invariant, and what follows from it alone.                          *)
LEMMA InitInv ==
  ASSUME ConstantsOK, Init
  PROVE  Inv
<1>1. Unborn \in TestType /\ Unborn.at = "new"
  BY UnbornType DEF Unborn
<1>2. Idle \in TaskType /\ Idle.step = "idle" /\ Idle.process = None
  BY TaskValues
<1>3. TypeOK
  <2>1. None \in 0 .. MaxProcesses /\ None \in 0 .. MaxTests /\ None = 0
    BY DEF ConstantsOK, None
  <2>2. test \in [Test -> TestType] /\ task \in [Test -> [Worker -> TaskType]]
    BY <1>1, <1>2 DEF Init
  <2>3. coreRunning \in BOOLEAN
    BY DEF Init
  <2>4. QED
    BY <2>1, <2>2, <2>3 DEF Init, TypeOK
<1>4. Owned
  BY <1>1, <1>2 DEF Init, Owned
<1>5. Numbered
  BY <1>2 DEF Init, Numbered, None
<1>6. QED
  BY <1>3, <1>4, <1>5 DEF Inv

LEMMA StepInv ==
  ASSUME ConstantsOK, Inv, [Next]_vars
  PROVE  Inv'
<1>1. CASE CoreStarts \/ CoreEnds \/ LateArrival
  BY <1>1, CoreInv
<1>2. CASE User
  BY <1>2, UserInv
<1>3. ASSUME NEW j \in Test, PoolStep(j)
      PROVE  Inv'
  BY <1>3, FillInv, WaitInv, RefillInv, DrainedInv, CleanupInv, EndInv,
     ProbeDoneInv, ReleaseInv, ReportInv
  DEF PoolStep
<1>4. ASSUME NEW j \in Test, NEW w \in Worker, ProbeStep(j, w) \/ Panic(j, w)
      PROVE  Inv'
  BY <1>4, AcquireInv, SelectInv, DelayInv, ResetInv, AbortInv, PanicInv
  DEF ProbeStep
<1>5. CASE UNCHANGED vars
  BY <1>5 DEF vars, coreVars, shown, Inv, TypeOK, Owned, Numbered
<1>6. QED
  BY <1>1, <1>2, <1>3, <1>4, <1>5 DEF Next, TestStep

LEMMA Invariant == Spec => []Inv
<1>1. Init => Inv
  BY ConstantsOK, InitInv
<1>2. Inv /\ [Next]_vars => Inv'
  BY ConstantsOK, StepInv
<1>3. QED
  BY <1>1, <1>2, PTL DEF Spec

(* Whatever Mihomo, the user and the tasks do, the state keeps its shape.  *)
THEOREM TypeCorrect == Spec => []TypeOK
<1>1. Inv => TypeOK
  BY DEF Inv
<1>2. QED
  BY <1>1, Invariant, PTL

LEMMA Exclusive ==
  ASSUME Inv
  PROVE  SelectorExclusive
<1>1. SUFFICES ASSUME NEW i \in Test, NEW j \in Test, NEW w \in Worker,
                      task[i][w].step \in Live, task[j][w].step \in Live
               PROVE  i = j
  BY DEF SelectorExclusive
<1>2. task[i][w].step # "idle" /\ task[j][w].step # "idle"
  BY <1>1 DEF Live
<1>3. test[i].at \in Active /\ test[j].at \in Active
  BY <1>1, <1>2, TestFacts
<1>4. owner = i /\ owner = j
  BY <1>1, <1>3 DEF Inv, Owned, Active, Pool
<1>5. QED
  BY <1>4

(* Two probes never use one selector, within a test or across tests, with  *)
(* any number of workers: the promise of latency_pool.rs:5.                *)
THEOREM NoSharedSelector == Spec => []SelectorExclusive
<1>1. Inv => SelectorExclusive
  BY Exclusive
<1>2. QED
  BY <1>1, Invariant, PTL

-----------------------------------------------------------------------------
(* What is measured.  A probe that chose a node is of some process, so it  *)
(* measures nothing of a process started later.                            *)
Chosen == {"select", "delay"}

Bound == \A j \in Test, w \in Worker :
           task[j][w].step \in Chosen => task[j][w].process # None

Aim == MeasuresItsNode /\ Bound

(* A step of a probe only touches its own selector.                        *)
LEMMA ProbeAim ==
  ASSUME Inv, Aim, NEW j \in Test, NEW w \in Worker, NEW t,
         task[j][w].step \in Live, SetTask(j, w, t), UNCHANGED core, Spared(w),
         t.step \in Chosen =>
           /\ t.process # None
           /\ t.step = "delay" /\ t.process = core => selector'[w] = t.node
  PROVE  Aim'
<1>1. \A i \in Test, v \in Worker :
        task'[i][v] = IF i = j /\ v = w THEN t ELSE task[i][v]
  BY SetTaskEntries DEF Inv, TypeOK
<1>2. \A i \in Test : task[i][w].step = "delay" => i = j
  BY Exclusive DEF SelectorExclusive, Live
<1>3. Bound'
  BY <1>1 DEF Aim, Bound
<1>4. MeasuresItsNode'
  <2>1. SUFFICES ASSUME NEW i \in Test, NEW v \in Worker,
                        task'[i][v].step = "delay",
                        task'[i][v].process = core', v \notin stray'
                 PROVE  selector'[v] = task'[i][v].node
    BY DEF MeasuresItsNode
  <2>2. CASE i = j /\ v = w
    BY <1>1, <2>1, <2>2 DEF Chosen
  <2>3. CASE v # w
    <3>1. task'[i][v] = task[i][v] /\ v \notin stray /\ selector'[v] = selector[v]
      BY <1>1, <2>1, <2>3 DEF Spared
    <3>2. QED
      BY <2>1, <3>1 DEF Aim, MeasuresItsNode
  <2>4. CASE i # j /\ v = w
    BY <1>1, <1>2, <2>1, <2>4
  <2>5. QED
    BY <2>2, <2>3, <2>4
<1>5. QED
  BY <1>3, <1>4 DEF Aim

(* A step that requests nothing only ends or starts probes.                *)
LEMMA CalmAim ==
  ASSUME Aim, UNCHANGED <<core, selector, stray>>,
         \A i \in Test, v \in Worker :
           task'[i][v] = task[i][v] \/ task'[i][v].step \notin Chosen
  PROVE  Aim'
<1>1. Bound'
  BY DEF Aim, Bound
<1>2. MeasuresItsNode'
  BY DEF Aim, MeasuresItsNode, Chosen
<1>3. QED
  BY <1>1, <1>2 DEF Aim

LEMMA SparedSame ==
  ASSUME NEW w \in Worker, UNCHANGED <<selector, stray>>
  PROVE  Spared(w)
BY DEF Spared

LEMMA EndsUnchosen ==
  ASSUME ConstantsOK, Inv, NEW j \in Test, NEW w \in Worker,
         task[j][w].step \in Live, NEW again \in BOOLEAN
  PROVE  EndAttempt(task[j][w], again).step \notin Chosen
BY TaskFacts, EndAttemptType DEF Chosen

LEMMA ProbesAim ==
  ASSUME ConstantsOK, Inv, Aim, NEW j \in Test, NEW w \in Worker,
         ProbeStep(j, w) \/ Panic(j, w)
  PROVE  Aim'
<1> DEFINE t == task[j][w]
<1>1. CASE Acquire(j, w)
  <2> DEFINE u == IF core = None THEN EndAttempt(t, TRUE)
                  ELSE [t EXCEPT !.step = "select", !.process = core]
  <2>1. t.step \in Live /\ SetTask(j, w, u) /\ UNCHANGED core /\ Spared(w)
    BY <1>1, SparedSame DEF Acquire, coreVars, Live
  <2>2. u.step \in Chosen => u.process # None /\ u.step # "delay"
    BY <2>1, EndsUnchosen, TaskFacts DEF TaskType
  <2>3. QED
    BY <2>1, <2>2, ProbeAim
<1>2. CASE Select(j, w)
  <2>1. t.step \in Live /\ UNCHANGED core /\ t.process # None
    BY <1>2 DEF Select, Live, Aim, Bound, Chosen
  <2>2. t.node \in Node /\ Controlled
    BY <2>1, TaskFacts, CoreFacts
  <2>3. CASE /\ Answered(w, t.node)
             /\ SetTask(j, w, [t EXCEPT !.step = "delay"])
    <3> DEFINE u == [t EXCEPT !.step = "delay"]
    <3>1. Spared(w) /\ selector'[w] = t.node
      BY <2>2, <2>3, AnsweredKeeps
    <3>2. u.process = t.process /\ u.node = t.node
      BY TaskFacts DEF TaskType
    <3>3. QED
      BY <2>1, <2>3, <3>1, <3>2, ProbeAim
  <2>4. ASSUME NEW again \in BOOLEAN, SetTask(j, w, EndAttempt(t, again)), Spared(w)
        PROVE  Aim'
    BY <2>1, <2>4, EndsUnchosen, ProbeAim
  <2>5. CASE Unanswered(w, t.node) /\ SetTask(j, w, EndAttempt(t, TRUE))
    BY <2>2, <2>4, <2>5, UnansweredKeeps
  <2>6. CASE /\ UNCHANGED <<selector, late, stray, unreset>>
             /\ \E again \in BOOLEAN : SetTask(j, w, EndAttempt(t, again))
    BY <2>4, <2>6, SparedSame
  <2>7. QED
    BY <1>2, <2>3, <2>5, <2>6 DEF Select
<1>3. CASE Delay(j, w)
  <2>1. PICK again \in BOOLEAN :
          SetTask(j, w, [t EXCEPT !.step = "reset", !.again = again])
    BY <1>3 DEF Delay
  <2>2. t.step \in Live /\ UNCHANGED core /\ Spared(w)
    BY <1>3, SparedSame DEF Delay, coreVars, Live
  <2>3. [t EXCEPT !.step = "reset", !.again = again].step \notin Chosen
    BY TaskFacts DEF TaskType, Chosen
  <2>4. QED
    BY <2>1, <2>2, <2>3, ProbeAim
<1>4. CASE Reset(j, w)
  <2>1. t.step \in Live /\ UNCHANGED core /\ SetTask(j, w, EndAttempt(t, t.again))
    BY <1>4 DEF Reset, Live
  <2>2. Spared(w)
    BY <1>4, CoreFacts, ResetKeeps DEF Reset, Inv, TypeOK
  <2>3. QED
    BY <2>1, <2>2, TaskFacts, EndsUnchosen, ProbeAim
<1>5. CASE Panic(j, w)
  <2>1. t.step \in Live /\ UNCHANGED core /\ Spared(w)
    BY <1>5, SparedSame DEF Panic
  <2>2. QED
    BY <1>5, <2>1, TaskValues, ProbeAim DEF Panic, Chosen
<1>6. CASE Abort(j, w)
  <2> DEFINE c == IF t.step = "select" THEN t.node ELSE REJECT
  <2>1. t.step \in Live /\ UNCHANGED core /\ SetTask(j, w, Idle)
    BY <1>6 DEF Abort
  <2>2. Unanswered(w, c) \/ UNCHANGED <<selector, late, stray>>
    BY <1>6 DEF Abort
  <2>3. Spared(w)
    BY <2>2, TaskFacts, CoreFacts, UnansweredKeeps, SparedSame
  <2>4. QED
    BY <2>1, <2>3, TaskValues, ProbeAim DEF Chosen
<1>7. QED
  BY <1>1, <1>2, <1>3, <1>4, <1>5, <1>6 DEF ProbeStep

(* A step that sets one task to idle or to a probe yet to begin.           *)
LEMMA SetsAim ==
  ASSUME Inv, Aim, NEW j \in Test, NEW w, NEW t, SetTask(j, w, t),
         t.step \notin Chosen, UNCHANGED coreVars
  PROVE  Aim'
<1>1. \A i \in Test, v \in Worker :
        task'[i][v] = IF i = j /\ v = w THEN t ELSE task[i][v]
  BY SetTaskEntries DEF Inv, TypeOK
<1>2. QED
  BY <1>1, CalmAim DEF coreVars

LEMMA PoolAim ==
  ASSUME ConstantsOK, Inv, Aim, NEW j \in Test, PoolStep(j)
  PROVE  Aim'
<1>1. Idle.step \notin Chosen /\ \A n \in Node : Probe(n).step \notin Chosen
  BY TaskValues DEF Chosen
<1>2. CASE UNCHANGED coreVars /\ UNCHANGED task
  BY <1>2, CalmAim DEF coreVars
<1>3. ASSUME NEW w, SetTask(j, w, Idle), UNCHANGED coreVars
      PROVE  Aim'
  BY <1>1, <1>3, SetsAim
<1>4. ASSUME NEW w, NEW n \in test[j].queue, SetTask(j, w, Probe(n)),
             UNCHANGED coreVars
      PROVE  Aim'
  BY <1>1, <1>4, TestFacts, SetsAim
<1>5. CASE Fill(j) \/ Refill(j)
  BY <1>2, <1>4, <1>5 DEF Fill, Refill, Spawn
<1>6. CASE \/ WaitCancelled(j) \/ WaitNothing(j) \/ Drained(j) \/ Unregister(j)
           \/ PublishDone(j) \/ StoreAll(j) \/ Release(j)
  BY <1>2, <1>6 DEF WaitCancelled, WaitNothing, Drained, Unregister, PublishDone,
                    StoreAll, Release
<1>7. CASE \/ ProbeDone(j)
           \/ \E w \in Worker : Report(j, w) \/ WaitPanicked(j, w) \/ DrainOne(j, w)
  BY <1>3, <1>7 DEF ProbeDone, Report, WaitPanicked, DrainOne
<1>8. CASE Cleanup(j)
  <2>1. test[j].at = "cleanup" /\ UNCHANGED task
    BY <1>8 DEF Cleanup
  <2>2. \A i \in Test : i # j => test[i].at \in {"new", "over"}
    BY <2>1 DEF Inv, Owned
  <2>3. \A i \in Test, w \in Worker : task'[i][w].step = "idle"
    BY <2>1, <2>2 DEF Inv, Owned, Pool
  <2>4. QED
    BY <2>3 DEF Aim, Bound, MeasuresItsNode, Chosen
<1>9. QED
  BY <1>5, <1>6, <1>7, <1>8 DEF PoolStep

LEMMA OthersAim ==
  ASSUME ConstantsOK, Inv, Aim, CoreStarts \/ CoreEnds \/ LateArrival \/ User
  PROVE  Aim'
<1>1. CASE CoreStarts
  <2>1. UNCHANGED task /\ core' = born + 1
    BY <1>1 DEF CoreStarts
  <2>2. \A i \in Test, w \in Worker : task'[i][w].process # core'
    <3>1. \A i \in Test, w \in Worker :
            task[i][w].process \in Nat /\ task[i][w].process <= born
      BY TaskFacts DEF Process, None
    <3>2. born \in Nat
      BY CoreFacts
    <3>3. QED
      BY <2>1, <3>1, <3>2
  <2>3. QED
    BY <2>1, <2>2 DEF Aim, Bound, MeasuresItsNode
<1>2. CASE CoreEnds
  BY <1>2 DEF CoreEnds, Aim, Bound, MeasuresItsNode, Chosen
<1>3. CASE LateArrival
  <2>1. PICK r \in late : selector' = [selector EXCEPT ![r[1]] = r[2]]
    BY <1>3 DEF LateArrival
  <2>2. r[1] \in stray
    BY CoreFacts DEF Controlled
  <2>3. \A w \in Worker \ stray : selector'[w] = selector[w]
    BY <2>1, <2>2 DEF Inv, TypeOK
  <2>4. QED
    BY <1>3, <2>3 DEF LateArrival, Aim, Bound, MeasuresItsNode
<1>4. CASE TestNode
  <2>1. PICK n \in Node : SetTask(started + 1, 0, Probe(n))
    BY <1>4 DEF TestNode, SetTask
  <2>2. started + 1 \in Test /\ UNCHANGED coreVars
    BY <1>4, NextTest DEF TestNode
  <2>3. QED
    BY <2>1, <2>2, TaskValues, SetsAim DEF Chosen
<1>5. CASE StartLatencyTest \/ TestAllNodes \/ CancelLatencyTest
  <2>1. UNCHANGED coreVars /\ UNCHANGED task
    BY <1>5 DEF StartLatencyTest, TestAllNodes, CancelLatencyTest, Begin
  <2>2. QED
    BY <2>1, CalmAim DEF coreVars
<1>6. QED
  BY <1>1, <1>2, <1>3, <1>4, <1>5 DEF User

LEMMA AimHolds == Spec => []Aim
<1>1. Init => Aim
  <2>1. SUFFICES ASSUME Init PROVE Aim
    OBVIOUS
  <2>2. Idle.step = "idle"
    BY ConstantsOK, TaskValues
  <2>3. QED
    BY <2>1, <2>2 DEF Init, Aim, Bound, MeasuresItsNode, Chosen
<1>2. Inv /\ Aim /\ [Next]_vars => Aim'
  <2>1. SUFFICES ASSUME Inv, Aim, [Next]_vars PROVE Aim'
    OBVIOUS
  <2>2. CASE UNCHANGED vars
    BY <2>1, <2>2, CalmAim DEF vars, coreVars
  <2>3. ASSUME NEW j \in Test, TestStep(j)
        PROVE  Aim'
    BY <2>1, <2>3, ConstantsOK, PoolAim, ProbesAim DEF TestStep
  <2>4. CASE CoreStarts \/ CoreEnds \/ LateArrival \/ User
    BY <2>1, <2>4, ConstantsOK, OthersAim
  <2>5. QED
    BY <2>1, <2>2, <2>3, <2>4 DEF Next
<1>3. QED
  BY <1>1, <1>2, Invariant, PTL DEF Spec

(* While a probe measures, its selector is on the node whose row gets the  *)
(* result, through retries, aborts and restarts of Mihomo, unless a        *)
(* request whose sender had given it up still acted on that selector.      *)
THEOREM MeasuresTheNode == Spec => []MeasuresItsNode
<1>1. Aim => MeasuresItsNode
  BY DEF Aim
<1>2. QED
  BY <1>1, AimHolds, PTL
=============================================================================
