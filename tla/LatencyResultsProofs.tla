------------------------ MODULE LatencyResultsProofs ------------------------
(***************************************************************************)
(* Proofs about what LatencyJobs leaves behind, for every set of nodes,    *)
(* any number of workers and attempts and every bound: a Mihomo that       *)
(* carries no test through any node, every node of a test accounted for,   *)
(* and results and progress that no earlier test replaces.                 *)
(***************************************************************************)
EXTENDS LatencyJobsProofs

-----------------------------------------------------------------------------
(* What a step of test j does, field by field.                             *)
Same(i) == test'[i] = test[i] /\ task'[i] = task[i]

(* Test j goes on; the other tests and what a test is for stay.            *)
Moved(j) ==
  /\ \A i \in Test \ {j} : Same(i)
  /\ test'[j].kind = test[j].kind /\ test'[j].nodes = test[j].nodes

TaskSet(j, w, t) ==
  \A v \in Worker : task'[j][v] = IF v = w THEN t ELSE task[j][v]

Unsorted(j) == /\ test'[j].queue = test[j].queue
               /\ test'[j].reported = test[j].reported

LEMMA Parts ==
  ASSUME Inv, NEW j \in Test, NEW p, SetTest(j, p)
  PROVE  test'[j] = p /\ \A i \in Test \ {j} : test'[i] = test[i]
BY DEF SetTest, Inv, TypeOK

LEMMA TaskParts ==
  ASSUME Inv, NEW j \in Test, NEW w \in Worker, NEW t, SetTask(j, w, t)
  PROVE  TaskSet(j, w, t) /\ \A i \in Test \ {j} : task'[i] = task[i]
BY DEF SetTask, TaskSet, Inv, TypeOK

(* The first of some workers.                                              *)
Less == {p \in Nat \X Nat : p[1] < p[2]}

LEMMA LessWellFounded == IsWellFoundedOn(Less, Nat)
BY NatLessThanWellFounded DEF OpToRel, Less

LEMMA LeastWorker ==
  ASSUME ConstantsOK, NEW S \in SUBSET Worker, S # {}
  PROVE  (CHOOSE x \in S : \A y \in S : x <= y) \in S
<1>1. S \subseteq Nat
  BY DEF Worker, ConstantsOK
<1>2. PICK x \in S : \A y \in S : ~(<<y, x>> \in Less)
  BY <1>1, LessWellFounded, WFMin
<1>3. \A y \in S : ~(y < x)
  BY <1>1, <1>2 DEF Less
<1>4. \A y \in S : x <= y
  BY <1>1, <1>3
<1>5. QED
  BY <1>4

LEMMA MovesTo ==
  ASSUME Inv, NEW j \in Test, NEW q, SetTest(j, q),
         q.kind = test[j].kind, q.nodes = test[j].nodes,
         \A i \in Test \ {j} : task'[i] = task[i]
  PROVE  Moved(j) /\ test'[j] = q
BY Parts DEF Moved, Same

LEMMA FillDoes ==
  ASSUME ConstantsOK, Inv, NEW j \in Test, Fill(j)
  PROVE  /\ test[j].at = "fill" /\ Moved(j)
         /\ test'[j].reported = test[j].reported
         /\ test'[j].aborting = test[j].aborting
         /\ \/ /\ j \in cancelled \/ test[j].todo = {}
               /\ test'[j].at = "wait" /\ Unsorted(j) /\ UNCHANGED task
            \/ /\ test'[j].at = "fill" /\ Unsorted(j) /\ UNCHANGED task
               /\ test[j].queue = {} /\ test'[j].todo \subseteq test[j].todo
            \/ /\ test'[j].at = "fill" /\ j \notin cancelled
               /\ \E w \in test[j].todo, n \in test[j].queue :
                    /\ TaskSet(j, w, Probe(n))
                    /\ test'[j].todo = test[j].todo \ {w}
                    /\ test'[j].queue = test[j].queue \ {n}
<1> DEFINE u == CHOOSE x \in test[j].todo : \A y \in test[j].todo : x <= y
<1>1. test[j].at = "fill" /\ test[j] \in TestType
  BY TestFacts DEF Fill
<1>2. PICK w : w = u
  OBVIOUS
<1>3. test[j].todo # {} => w \in test[j].todo /\ w \in Worker
  BY <1>2, TestFacts, LeastWorker
<1>4. \/ /\ j \in cancelled \/ test[j].todo = {}
         /\ SetTest(j, [test[j] EXCEPT !.at = "wait", !.todo = {}]) /\ UNCHANGED task
      \/ /\ test[j].queue = {}
         /\ SetTest(j, [test[j] EXCEPT !.todo = @ \ {w}]) /\ UNCHANGED task
      \/ /\ j \notin cancelled /\ test[j].todo # {}
         /\ \E n \in test[j].queue :
              /\ Spawn(j, w, n)
              /\ SetTest(j, [test[j] EXCEPT !.todo = @ \ {w}, !.queue = @ \ {n}])
  BY <1>2, Zenon DEF Fill
<1> HIDE DEF u
<1>5. CASE /\ j \in cancelled \/ test[j].todo = {}
           /\ SetTest(j, [test[j] EXCEPT !.at = "wait", !.todo = {}]) /\ UNCHANGED task
  <2>1. PICK q : q = [test[j] EXCEPT !.at = "wait", !.todo = {}]
    OBVIOUS
  <2>2. /\ q.kind = test[j].kind /\ q.nodes = test[j].nodes /\ q.queue = test[j].queue
        /\ q.reported = test[j].reported /\ q.aborting = test[j].aborting /\ q.at = "wait"
    BY <1>1, <2>1 DEF TestType
  <2>3. SetTest(j, q)
    BY <1>5, <2>1, Zenon
  <2>4. QED
    BY <1>1, <1>5, <2>2, <2>3, MovesTo DEF Unsorted
<1>6. CASE /\ test[j].queue = {}
           /\ SetTest(j, [test[j] EXCEPT !.todo = @ \ {w}]) /\ UNCHANGED task
  <2>1. PICK q : q = [test[j] EXCEPT !.todo = @ \ {w}]
    OBVIOUS
  <2>2. /\ q.kind = test[j].kind /\ q.nodes = test[j].nodes /\ q.queue = test[j].queue
        /\ q.reported = test[j].reported /\ q.aborting = test[j].aborting
        /\ q.at = test[j].at /\ q.todo \subseteq test[j].todo
    BY <1>1, <2>1 DEF TestType
  <2>3. SetTest(j, q)
    BY <1>6, <2>1, Zenon
  <2>4. QED
    BY <1>1, <1>6, <2>2, <2>3, MovesTo DEF Unsorted
<1>7. ASSUME NEW n \in test[j].queue, j \notin cancelled, test[j].todo # {}, Spawn(j, w, n),
             SetTest(j, [test[j] EXCEPT !.todo = @ \ {w}, !.queue = @ \ {n}])
      PROVE  /\ Moved(j) /\ test'[j].at = "fill" /\ TaskSet(j, w, Probe(n))
             /\ test'[j].todo = test[j].todo \ {w} /\ test'[j].queue = test[j].queue \ {n}
             /\ test'[j].reported = test[j].reported
             /\ test'[j].aborting = test[j].aborting
  <2>1. PICK q : q = [test[j] EXCEPT !.todo = @ \ {w}, !.queue = @ \ {n}]
    OBVIOUS
  <2>2. /\ q.kind = test[j].kind /\ q.nodes = test[j].nodes /\ q.queue = test[j].queue \ {n}
        /\ q.reported = test[j].reported /\ q.aborting = test[j].aborting
        /\ q.at = test[j].at /\ q.todo = test[j].todo \ {w}
    BY <1>1, <2>1 DEF TestType
  <2>3. SetTest(j, q)
    BY <1>7, <2>1, Zenon
  <2>4. TaskSet(j, w, Probe(n)) /\ \A i \in Test \ {j} : task'[i] = task[i]
    BY <1>3, <1>7, TaskParts DEF Spawn
  <2>5. QED
    BY <1>1, <2>2, <2>3, <2>4, MovesTo
<1>8. QED
  BY <1>1, <1>3, <1>4, <1>5, <1>6, <1>7

LEMMA RefillDoes ==
  ASSUME ConstantsOK, Inv, NEW j \in Test, Refill(j)
  PROVE  /\ test[j].at = "refill" /\ Moved(j) /\ test'[j].at = "wait"
         /\ test'[j].reported = test[j].reported
         /\ test'[j].aborting = test[j].aborting
         /\ \/ /\ j \in cancelled \/ test[j].queue = {}
               /\ Unsorted(j) /\ UNCHANGED task
            \/ /\ j \notin cancelled
               /\ \E n \in test[j].queue :
                    /\ TaskSet(j, test[j].worker, Probe(n))
                    /\ test'[j].queue = test[j].queue \ {n}
<1>1. test[j].at = "refill" /\ test[j] \in TestType /\ test[j].worker \in Worker
  BY TestFacts DEF Refill
<1>2. CASE /\ j \in cancelled \/ test[j].queue = {}
           /\ SetTest(j, [test[j] EXCEPT !.at = "wait", !.worker = 0]) /\ UNCHANGED task
  <2>1. PICK q : q = [test[j] EXCEPT !.at = "wait", !.worker = 0]
    OBVIOUS
  <2>2. /\ q.kind = test[j].kind /\ q.nodes = test[j].nodes /\ q.queue = test[j].queue
        /\ q.reported = test[j].reported /\ q.aborting = test[j].aborting /\ q.at = "wait"
    BY <1>1, <2>1 DEF TestType
  <2>3. SetTest(j, q)
    BY <1>2, <2>1, Zenon
  <2>4. QED
    BY <1>1, <1>2, <2>2, <2>3, MovesTo DEF Unsorted
<1>3. ASSUME NEW n \in test[j].queue, j \notin cancelled, Spawn(j, test[j].worker, n),
             SetTest(j, [test[j] EXCEPT !.at = "wait", !.worker = 0, !.queue = @ \ {n}])
      PROVE  /\ Moved(j) /\ test'[j].at = "wait" /\ TaskSet(j, test[j].worker, Probe(n))
             /\ test'[j].queue = test[j].queue \ {n}
             /\ test'[j].reported = test[j].reported
             /\ test'[j].aborting = test[j].aborting
  <2>1. PICK q : q = [test[j] EXCEPT !.at = "wait", !.worker = 0, !.queue = @ \ {n}]
    OBVIOUS
  <2>2. /\ q.kind = test[j].kind /\ q.nodes = test[j].nodes /\ q.queue = test[j].queue \ {n}
        /\ q.reported = test[j].reported /\ q.aborting = test[j].aborting /\ q.at = "wait"
    BY <1>1, <2>1 DEF TestType
  <2>3. SetTest(j, q)
    BY <1>3, <2>1, Zenon
  <2>4. /\ TaskSet(j, test[j].worker, Probe(n))
        /\ \A i \in Test \ {j} : task'[i] = task[i]
    BY <1>1, <1>3, TaskParts DEF Spawn
  <2>5. QED
    BY <2>2, <2>3, <2>4, MovesTo
<1>4. QED
  BY <1>1, <1>2, <1>3 DEF Refill

(* A cancellation that is seen, or a pool that has nothing left to do.     *)
LEMMA WaitDoes ==
  ASSUME ConstantsOK, Inv, NEW j \in Test, WaitCancelled(j) \/ WaitNothing(j)
  PROVE  /\ test[j].at = "wait" /\ Moved(j) /\ test'[j].at = "drain"
         /\ Unsorted(j) /\ UNCHANGED task
         /\ \/ j \in cancelled /\ test'[j].aborting = TRUE
            \/ AllIdle(j) /\ test'[j].aborting = test[j].aborting
<1>1. PICK q : q = [test[j] EXCEPT !.at = "drain", !.aborting = TRUE]
  OBVIOUS
<1>2. PICK r : r = [test[j] EXCEPT !.at = "drain"]
  OBVIOUS
<1>3. /\ q.kind = test[j].kind /\ q.nodes = test[j].nodes /\ q.queue = test[j].queue
      /\ q.reported = test[j].reported /\ q.aborting = TRUE /\ q.at = "drain"
      /\ r.kind = test[j].kind /\ r.nodes = test[j].nodes /\ r.queue = test[j].queue
      /\ r.reported = test[j].reported /\ r.aborting = test[j].aborting /\ r.at = "drain"
  BY <1>1, <1>2, TestFacts DEF TestType
<1>4. /\ test[j].at = "wait" /\ UNCHANGED task
      /\ (j \in cancelled /\ SetTest(j, q)) \/ (AllIdle(j) /\ SetTest(j, r))
  BY <1>1, <1>2, Zenon DEF WaitCancelled, WaitNothing
<1>5. QED
  BY <1>3, <1>4, MovesTo DEF Unsorted

LEMMA PanickedDoes ==
  ASSUME ConstantsOK, Inv, NEW j \in Test, NEW w \in Worker, WaitPanicked(j, w)
  PROVE  /\ test[j].at = "wait" /\ Moved(j) /\ test'[j].at = "drain" /\ Unsorted(j)
         /\ task[j][w].step = "panicked" /\ TaskSet(j, w, Idle)
         /\ test'[j].aborting = TRUE
<1>1. PICK q : q = [test[j] EXCEPT !.at = "drain", !.aborting = TRUE]
  OBVIOUS
<1>2. /\ q.kind = test[j].kind /\ q.nodes = test[j].nodes /\ q.queue = test[j].queue
      /\ q.reported = test[j].reported /\ q.aborting = TRUE /\ q.at = "drain"
  BY <1>1, TestFacts DEF TestType
<1>3. SetTest(j, q) /\ SetTask(j, w, Idle)
  BY <1>1, Zenon DEF WaitPanicked
<1>4. TaskSet(j, w, Idle) /\ \A i \in Test \ {j} : task'[i] = task[i]
  BY <1>3, TaskParts
<1>5. QED
  BY <1>2, <1>3, <1>4, MovesTo DEF WaitPanicked, Unsorted

LEMMA ReportDoes ==
  ASSUME ConstantsOK, Inv, NEW j \in Test, NEW w \in Worker, Report(j, w)
  PROVE  /\ test[j].at = "wait" /\ Moved(j) /\ test'[j].at = "refill"
         /\ task[j][w].step = "finished" /\ TaskSet(j, w, Idle)
         /\ test'[j].queue = test[j].queue
         /\ test'[j].reported = test[j].reported \cup {task[j][w].node}
         /\ test'[j].aborting = test[j].aborting /\ test'[j].worker = w
<1>1. PICK q : q = [test[j] EXCEPT !.at = "refill", !.worker = w,
                                   !.reported = @ \cup {task[j][w].node}]
  OBVIOUS
<1>2. /\ q.kind = test[j].kind /\ q.nodes = test[j].nodes /\ q.queue = test[j].queue
      /\ q.reported = test[j].reported \cup {task[j][w].node}
      /\ q.aborting = test[j].aborting /\ q.at = "refill" /\ q.worker = w
  BY <1>1, TestFacts DEF TestType
<1>3. SetTest(j, q) /\ SetTask(j, w, Idle) /\ test[j].at = "wait"
      /\ task[j][w].step = "finished"
  BY <1>1, Zenon DEF Report
<1>4. TaskSet(j, w, Idle) /\ \A i \in Test \ {j} : task'[i] = task[i]
  BY <1>3, TaskParts
<1>5. QED
  BY <1>2, <1>3, <1>4, MovesTo

LEMMA DrainOneDoes ==
  ASSUME ConstantsOK, Inv, NEW j \in Test, NEW w \in Worker, DrainOne(j, w)
  PROVE  /\ test[j].at = "drain" /\ UNCHANGED test /\ Moved(j)
         /\ task[j][w].step \in {"finished", "panicked"} /\ TaskSet(j, w, Idle)
BY TaskParts DEF DrainOne, Moved, Same

LEMMA DrainedDoes ==
  ASSUME ConstantsOK, Inv, NEW j \in Test, Drained(j)
  PROVE  /\ test[j].at = "drain" /\ AllIdle(j) /\ Moved(j) /\ Unsorted(j)
         /\ UNCHANGED task /\ test'[j].aborting = test[j].aborting
         /\ \/ test'[j].at = "store" /\ test[j].kind # "job"
            \/ /\ test'[j].at = "unregister" /\ test[j].kind = "job"
               /\ j \notin cancelled \/ core = None
            \/ /\ test'[j].at = "cleanup" /\ test[j].kind = "job"
               /\ j \in cancelled /\ core # None
               /\ test'[j].process = core /\ test'[j].todo = Worker
<1> DEFINE reset == test[j].kind = "job" /\ j \in cancelled /\ core # None
<1>1. PICK at, process, todo :
        /\ at = IF test[j].kind # "job" THEN "store"
                ELSE IF reset THEN "cleanup" ELSE "unregister"
        /\ process = IF reset THEN core ELSE None
        /\ todo = IF reset THEN Worker ELSE {}
  OBVIOUS
<1>2. PICK q : q = [test[j] EXCEPT !.at = at, !.process = process, !.todo = todo]
  OBVIOUS
<1>3. /\ q.kind = test[j].kind /\ q.nodes = test[j].nodes /\ q.queue = test[j].queue
      /\ q.reported = test[j].reported /\ q.aborting = test[j].aborting /\ q.at = at
      /\ q.process = process /\ q.todo = todo
  BY <1>2, TestFacts DEF TestType
<1>4. SetTest(j, q) /\ test[j].at = "drain" /\ AllIdle(j) /\ UNCHANGED task
  BY <1>1, <1>2, Zenon DEF Drained
<1>5. Moved(j) /\ test'[j] = q
  BY <1>3, <1>4, MovesTo
<1>6. QED
  BY <1>1, <1>3, <1>4, <1>5 DEF Unsorted

LEMMA CleanupDoes ==
  ASSUME ConstantsOK, Inv, NEW j \in Test, Cleanup(j)
  PROVE  /\ test[j].at = "cleanup" /\ Moved(j) /\ Unsorted(j) /\ UNCHANGED task
         /\ test'[j].aborting = test[j].aborting
         /\ \/ /\ test'[j].at = "unregister" /\ test[j].todo = {}
               /\ UNCHANGED <<selector, late, stray, unreset>>
            \/ /\ test'[j].at = "cleanup" /\ test'[j].process = test[j].process
               /\ \E w \in test[j].todo : /\ test'[j].todo = test[j].todo \ {w}
                                          /\ ResetRequest(w, test[j].process)
<1>1. test[j].at = "cleanup" /\ UNCHANGED task
  BY DEF Cleanup
<1>2. CASE /\ test[j].todo = {}
           /\ SetTest(j, [test[j] EXCEPT !.at = "unregister", !.process = None])
           /\ UNCHANGED <<selector, late, stray, unreset>>
  <2>1. PICK q : q = [test[j] EXCEPT !.at = "unregister", !.process = None]
    OBVIOUS
  <2>2. /\ q.kind = test[j].kind /\ q.nodes = test[j].nodes /\ q.queue = test[j].queue
        /\ q.reported = test[j].reported /\ q.aborting = test[j].aborting
        /\ q.at = "unregister"
    BY <2>1, TestFacts DEF TestType
  <2>3. SetTest(j, q)
    BY <1>2, <2>1, Zenon
  <2>4. QED
    BY <1>1, <1>2, <2>2, <2>3, MovesTo DEF Unsorted
<1>3. ASSUME NEW w \in test[j].todo, SetTest(j, [test[j] EXCEPT !.todo = @ \ {w}]),
             ResetRequest(w, test[j].process)
      PROVE  /\ Moved(j) /\ Unsorted(j) /\ test'[j].aborting = test[j].aborting
             /\ test'[j].at = "cleanup" /\ test'[j].process = test[j].process
             /\ test'[j].todo = test[j].todo \ {w}
  <2>1. PICK q : q = [test[j] EXCEPT !.todo = @ \ {w}]
    OBVIOUS
  <2>2. /\ q.kind = test[j].kind /\ q.nodes = test[j].nodes /\ q.queue = test[j].queue
        /\ q.reported = test[j].reported /\ q.aborting = test[j].aborting
        /\ q.at = test[j].at /\ q.process = test[j].process
        /\ q.todo = test[j].todo \ {w}
    BY <2>1, TestFacts DEF TestType
  <2>3. SetTest(j, q)
    BY <1>3, <2>1, Zenon
  <2>4. QED
    BY <1>1, <2>2, <2>3, MovesTo DEF Unsorted
<1>4. QED
  BY <1>1, <1>2, <1>3 DEF Cleanup

LEMMA EndDoes ==
  ASSUME ConstantsOK, Inv, NEW j \in Test,
         Unregister(j) \/ PublishDone(j) \/ StoreAll(j)
  PROVE  /\ Moved(j) /\ Unsorted(j) /\ UNCHANGED task
         /\ test'[j].aborting = test[j].aborting
         /\ <<test[j].at, test'[j].at>> \in
              {<<"unregister", "publish">>, <<"publish", "release">>, <<"store", "release">>}
<1>1. PICK at :
        /\ SetTest(j, [test[j] EXCEPT !.at = at]) /\ UNCHANGED task
        /\ <<test[j].at, at>> \in
             {<<"unregister", "publish">>, <<"publish", "release">>, <<"store", "release">>}
  BY Zenon DEF Unregister, PublishDone, StoreAll
<1>2. PICK q : q = [test[j] EXCEPT !.at = at]
  OBVIOUS
<1>3. /\ q.kind = test[j].kind /\ q.nodes = test[j].nodes /\ q.queue = test[j].queue
      /\ q.reported = test[j].reported /\ q.aborting = test[j].aborting /\ q.at = at
  BY <1>2, TestFacts DEF TestType
<1>4. SetTest(j, q)
  BY <1>1, <1>2, Zenon
<1>5. Moved(j) /\ test'[j] = q
  BY <1>1, <1>3, <1>4, MovesTo
<1>6. QED
  BY <1>1, <1>3, <1>5 DEF Unsorted

LEMMA ProbeDoneDoes ==
  ASSUME ConstantsOK, Inv, NEW j \in Test, ProbeDone(j)
  PROVE  /\ test[j].at = "probe" /\ Moved(j) /\ TaskSet(j, 0, Idle)
         /\ test'[j].queue = test[j].queue /\ test'[j].aborting = test[j].aborting
         /\ \/ /\ task[j][0].step = "finished" /\ test'[j].at = "store"
               /\ test'[j].reported = {task[j][0].node}
            \/ test'[j].at = "release" /\ test'[j].reported = {}
<1>1. PICK at, nodes :
        /\ at = IF task[j][0].step = "finished" THEN "store" ELSE "release"
        /\ nodes = IF task[j][0].step = "finished" THEN {task[j][0].node} ELSE {}
  OBVIOUS
<1>2. PICK q : q = [test[j] EXCEPT !.at = at, !.reported = nodes]
  OBVIOUS
<1>3. /\ q.kind = test[j].kind /\ q.nodes = test[j].nodes /\ q.queue = test[j].queue
      /\ q.reported = nodes /\ q.aborting = test[j].aborting /\ q.at = at
  BY <1>2, TestFacts DEF TestType
<1>4. SetTest(j, q) /\ SetTask(j, 0, Idle) /\ test[j].at = "probe"
  BY <1>1, <1>2, Zenon DEF ProbeDone
<1>5. TaskSet(j, 0, Idle) /\ \A i \in Test \ {j} : task'[i] = task[i]
  BY <1>4, TaskParts DEF ConstantsOK, Worker
<1>6. Moved(j) /\ test'[j] = q
  BY <1>3, <1>4, <1>5, MovesTo
<1>7. QED
  BY <1>1, <1>3, <1>4, <1>5, <1>6

LEMMA ReleaseDoes ==
  ASSUME ConstantsOK, Inv, NEW j \in Test, Release(j)
  PROVE  /\ test[j].at = "release" /\ UNCHANGED task
         /\ \A i \in Test \ {j} : Same(i) /\ test[i].at \in {"new", "over"}
         /\ test'[j].at = "over" /\ test'[j].kind = "none" /\ ~test'[j].aborting
         /\ test'[j].nodes = {} /\ test'[j].queue = {} /\ test'[j].reported = {}
         /\ cancelled' = cancelled \ {j} /\ owner' = None
<1>1. PICK q : q = [Unborn EXCEPT !.at = "over"]
  OBVIOUS
<1>2. /\ q.at = "over" /\ q.kind = "none" /\ ~q.aborting
      /\ q.nodes = {} /\ q.queue = {} /\ q.reported = {}
  BY <1>1 DEF Unborn
<1>3. SetTest(j, q) /\ test[j].at = "release" /\ UNCHANGED task
      /\ cancelled' = cancelled \ {j} /\ owner' = None
  BY <1>1, Zenon DEF Release
<1>4. \A i \in Test \ {j} : test[i].at \in {"new", "over"}
  BY <1>3 DEF Inv, Owned
<1>5. QED
  BY <1>2, <1>3, <1>4, Parts DEF Same

LEMMA BeginDoes ==
  ASSUME ConstantsOK, Inv, NEW kind, NEW nodes, Begin(kind, nodes, "fill")
  PROVE  LET j == started + 1 IN
         /\ j \in Test /\ owner' = j /\ started' = j /\ owner = None
         /\ \A i \in Test : test[i].at \in {"new", "over"}
         /\ \A i \in Test, w \in Worker : task[i][w].step = "idle"
         /\ \A i \in Test \ {j} : test'[i] = test[i]
         /\ test[j].at = "new" /\ test'[j].at = "fill" /\ test'[j].kind = kind
         /\ test'[j].nodes = nodes /\ test'[j].queue = nodes
         /\ test'[j].reported = {} /\ test'[j].todo = Worker /\ ~test'[j].aborting
         /\ UNCHANGED <<coreVars, cancelled, stored>>
<1>1. PICK j : j = started + 1
  OBVIOUS
<1>2. PICK q : q = [Unborn EXCEPT !.kind = kind, !.at = "fill", !.nodes = nodes,
                                  !.queue = nodes, !.todo = Worker]
  OBVIOUS
<1>3. /\ q.at = "fill" /\ q.kind = kind /\ q.nodes = nodes /\ q.queue = nodes
      /\ q.reported = {} /\ q.todo = Worker /\ ~q.aborting
  BY <1>2 DEF Unborn
<1>4. /\ SetTest(j, q) /\ owner = None /\ started < MaxTests
      /\ owner' = j /\ started' = j /\ UNCHANGED <<coreVars, cancelled, stored>>
  BY <1>1, <1>2, Zenon DEF Begin
<1>5. /\ j \in Test /\ \A i \in Test : test[i].at \in {"new", "over"}
      /\ \A i \in Test, w \in Worker : task[i][w].step = "idle"
  BY <1>1, <1>4, NextTest
<1>6. test[j].at = "new"
  BY <1>1, <1>5 DEF Inv, Owned, TypeOK, Test
<1>7. test'[j] = q /\ \A i \in Test \ {j} : test'[i] = test[i]
  BY <1>4, <1>5, Parts
<1>8. QED
  BY <1>1, <1>3, <1>4, <1>5, <1>6, <1>7

LEMMA TestNodeDoes ==
  ASSUME ConstantsOK, Inv, TestNode
  PROVE  LET j == started + 1 IN
         /\ j \in Test /\ owner' = j /\ started' = j /\ owner = None
         /\ \A i \in Test : test[i].at \in {"new", "over"}
         /\ \A i \in Test, w \in Worker : task[i][w].step = "idle"
         /\ \A i \in Test \ {j} : Same(i)
         /\ test[j].at = "new" /\ test'[j].at = "probe" /\ test'[j].kind = "one"
         /\ test'[j].queue = {} /\ test'[j].reported = {} /\ ~test'[j].aborting
         /\ \E n \in Node : test'[j].nodes = {n} /\ TaskSet(j, 0, Probe(n))
         /\ UNCHANGED <<coreVars, cancelled, shown>>
<1>1. PICK j : j = started + 1
  OBVIOUS
<1>2. PICK n \in Node :
        /\ owner = None /\ started < MaxTests /\ owner' = j /\ started' = j
        /\ SetTest(j, [Unborn EXCEPT !.kind = "one", !.at = "probe", !.nodes = {n}])
        /\ task' = [task EXCEPT ![j][0] = Probe(n)]
        /\ UNCHANGED <<coreVars, cancelled, shown>>
  BY <1>1, Zenon DEF TestNode
<1>3. PICK q : q = [Unborn EXCEPT !.kind = "one", !.at = "probe", !.nodes = {n}]
  OBVIOUS
<1>4. /\ q.at = "probe" /\ q.kind = "one" /\ q.nodes = {n} /\ q.queue = {}
      /\ q.reported = {} /\ ~q.aborting
  BY <1>3 DEF Unborn
<1>5. SetTest(j, q) /\ SetTask(j, 0, Probe(n))
  BY <1>2, <1>3, Zenon DEF SetTask
<1>6. /\ j \in Test /\ \A i \in Test : test[i].at \in {"new", "over"}
      /\ \A i \in Test, w \in Worker : task[i][w].step = "idle"
  BY <1>1, <1>2, NextTest
<1>7. test[j].at = "new"
  BY <1>1, <1>6 DEF Inv, Owned, TypeOK, Test
<1>8. test'[j] = q /\ \A i \in Test \ {j} : test'[i] = test[i]
  BY <1>5, <1>6, Parts
<1>9. TaskSet(j, 0, Probe(n)) /\ \A i \in Test \ {j} : task'[i] = task[i]
  BY <1>5, <1>6, TaskParts DEF ConstantsOK, Worker
<1>10. /\ owner = None /\ owner' = j /\ started' = j
       /\ UNCHANGED <<coreVars, cancelled, shown>>
  BY <1>2
<1>11. QED
  BY <1>1, <1>4, <1>6, <1>7, <1>8, <1>9, <1>10 DEF Same

(* A probe that goes on keeps its node; else it is gone.                   *)
LEMMA ProbeDoes ==
  ASSUME ConstantsOK, Inv, NEW j \in Test, NEW w \in Worker,
         ProbeStep(j, w) \/ Panic(j, w)
  PROVE  /\ UNCHANGED <<core, coreRunning, born, owner, started, test, cancelled, shown>>
         /\ task[j][w].step \in Live
         /\ \A i \in Test \ {j} : task'[i] = task[i]
         /\ \E t : /\ TaskSet(j, w, t)
                   /\ \/ /\ t.step \in Live \cup {"finished"}
                         /\ t.node = task[j][w].node
                      \/ t.step = "panicked"
                      \/ t.step = "idle" /\ test[j].at = "drain" /\ test[j].aborting
<1> DEFINE u == task[j][w]
<1>1. u \in TaskType /\ u.again \in BOOLEAN
  BY TaskFacts
<1>2. /\ UNCHANGED <<core, coreRunning, born, owner, started, test, cancelled, shown>>
      /\ u.step \in Live
  BY Zenon DEF ProbeStep, Acquire, Select, Delay, Reset, Abort, Panic, coreVars, Live
<1>3. \A again \in BOOLEAN : /\ EndAttempt(u, again).step \in Live \cup {"finished"}
                             /\ EndAttempt(u, again).node = u.node
  <2>1. SUFFICES ASSUME NEW again \in BOOLEAN
                 PROVE  /\ EndAttempt(u, again).step \in Live \cup {"finished"}
                        /\ EndAttempt(u, again).node = u.node
    OBVIOUS
  <2>2. u.node = At("finished", u.node).node /\ u.node = At("acquire", u.node).node
    BY DEF At
  <2>3. EndAttempt(u, again).node = u.node
    BY <2>2 DEF EndAttempt, Probe, At
  <2>4. QED
    BY <1>1, <1>2, <2>3, EndAttemptType DEF Live
<1>4. PICK t : /\ SetTask(j, w, t)
               /\ \/ /\ t.step \in Live \cup {"finished"} /\ t.node = u.node
                  \/ t.step = "panicked"
                  \/ t.step = "idle" /\ test[j].at = "drain" /\ test[j].aborting
  <2>1. CASE Acquire(j, w) \/ Select(j, w) \/ Delay(j, w) \/ Reset(j, w)
    <3>1. \/ \E again \in BOOLEAN : SetTask(j, w, EndAttempt(u, again))
          \/ \E process : SetTask(j, w, [u EXCEPT !.step = "select", !.process = process])
          \/ SetTask(j, w, [u EXCEPT !.step = "delay"])
          \/ \E again \in BOOLEAN :
               SetTask(j, w, [u EXCEPT !.step = "reset", !.again = again])
      BY <1>1, <2>1, Zenon DEF Acquire, Select, Delay, Reset
    <3>2. CASE \E again \in BOOLEAN : SetTask(j, w, EndAttempt(u, again))
      BY <1>3, <3>2
    <3>3. ASSUME NEW process,
                 SetTask(j, w, [u EXCEPT !.step = "select", !.process = process])
          PROVE  \E t : /\ SetTask(j, w, t) /\ t.step \in Live /\ t.node = u.node
      <4>1. PICK t : t = [u EXCEPT !.step = "select", !.process = process]
        OBVIOUS
      <4>2. t.step \in Live /\ t.node = u.node
        BY <1>1, <4>1 DEF TaskType, Live
      <4>3. QED
        BY <3>3, <4>1, <4>2, Zenon
    <3>4. ASSUME SetTask(j, w, [u EXCEPT !.step = "delay"])
          PROVE  \E t : /\ SetTask(j, w, t) /\ t.step \in Live /\ t.node = u.node
      <4>1. PICK t : t = [u EXCEPT !.step = "delay"]
        OBVIOUS
      <4>2. t.step \in Live /\ t.node = u.node
        BY <1>1, <4>1 DEF TaskType, Live
      <4>3. QED
        BY <3>4, <4>1, <4>2, Zenon
    <3>5. ASSUME NEW again \in BOOLEAN,
                 SetTask(j, w, [u EXCEPT !.step = "reset", !.again = again])
          PROVE  \E t : /\ SetTask(j, w, t) /\ t.step \in Live /\ t.node = u.node
      <4>1. PICK t : t = [u EXCEPT !.step = "reset", !.again = again]
        OBVIOUS
      <4>2. t.step \in Live /\ t.node = u.node
        BY <1>1, <4>1 DEF TaskType, Live
      <4>3. QED
        BY <3>5, <4>1, <4>2, Zenon
    <3>6. QED
      BY <3>1, <3>2, <3>3, <3>4, <3>5, Zenon
  <2>2. CASE Panic(j, w)
    BY <2>2, TaskValues DEF Panic
  <2>3. CASE Abort(j, w)
    BY <2>3, TaskValues DEF Abort
  <2>4. QED
    BY <2>1, <2>2, <2>3 DEF ProbeStep
<1>5. TaskSet(j, w, t) /\ \A i \in Test \ {j} : task'[i] = task[i]
  BY <1>4, TaskParts
<1>6. QED
  BY <1>2, <1>4, <1>5

-----------------------------------------------------------------------------
(* What the place of a test says about its kind and its token.             *)
Kinds ==
  \A j \in Test :
    /\ j \in registered =>
         test[j].kind = "job" /\ test[j].at \in Pool \cup {"cleanup", "unregister"}
    /\ j \in cancelled => test[j].kind = "job" /\ test[j].at \notin {"new", "over"}
    /\ test[j].at = "probe" => test[j].kind = "one"
    /\ test[j].at \in Pool => test[j].kind \in {"job", "all"}
    /\ test[j].at = "cleanup" => j \in cancelled
    /\ test[j].at \in {"cleanup", "unregister", "publish"} => test[j].kind = "job"

LEMMA KindsMove ==
  ASSUME Inv, Kinds, NEW j \in Test, Moved(j), UNCHANGED cancelled,
         \A i \in Test \ {j} : i \in registered' => i \in registered,
         j \in registered' => j \in registered /\ test'[j].at \in Pool \cup {"cleanup", "unregister"},
         test'[j].at \notin {"new", "over", "probe"},
         test'[j].at \in Pool => test[j].at \in Pool,
         test'[j].at = "cleanup" => j \in cancelled,
         test'[j].at \in {"cleanup", "unregister", "publish"} => test[j].kind = "job"
  PROVE  Kinds'
BY DEF Kinds, Moved, Same

LEMMA KindsStep ==
  ASSUME ConstantsOK, Inv, Kinds, [Next]_vars
  PROVE  Kinds'
<1>1. CASE /\ UNCHANGED <<test, registered>> /\ cancelled \subseteq cancelled'
            /\ cancelled' \subseteq cancelled \cup registered
  BY <1>1 DEF Kinds, Pool
<1>2. CASE CoreStarts \/ CoreEnds \/ LateArrival \/ UNCHANGED vars \/ CancelLatencyTest
  BY <1>1, <1>2 DEF CoreStarts, CoreEnds, LateArrival, CancelLatencyTest, vars, shown
<1>3. CASE StartLatencyTest
  <2>1. PICK nodes : Begin("job", nodes, "fill")
    BY <1>3 DEF StartLatencyTest
  <2>2. registered' = registered \cup {started + 1}
    BY <1>3 DEF StartLatencyTest
  <2>3. QED
    BY <2>1, <2>2, BeginDoes DEF Kinds, Pool
<1>4. CASE TestAllNodes
  <2>1. Begin("all", Node, "fill") /\ UNCHANGED registered
    BY <1>4 DEF TestAllNodes
  <2>2. QED
    BY <2>1, BeginDoes DEF Kinds, Pool
<1>5. CASE TestNode
  BY <1>5, TestNodeDoes DEF Kinds, Pool, Same, shown
<1>6. ASSUME NEW j \in Test, NEW w \in Worker, ProbeStep(j, w) \/ Panic(j, w)
      PROVE  Kinds'
  BY <1>1, <1>6, ProbeDoes DEF shown
<1>7. ASSUME NEW j \in Test, PoolStep(j)
      PROVE  Kinds'
  <2>1. CASE Fill(j)
    BY <2>1, FillDoes, KindsMove DEF Fill, shown, Pool
  <2>2. CASE Refill(j)
    BY <2>2, RefillDoes, KindsMove DEF Refill, shown, Pool
  <2>3. CASE WaitCancelled(j) \/ WaitNothing(j)
    BY <2>3, WaitDoes, KindsMove DEF WaitCancelled, WaitNothing, shown, Pool
  <2>4. ASSUME NEW w \in Worker, WaitPanicked(j, w)
        PROVE  Kinds'
    BY <2>4, PanickedDoes, KindsMove DEF WaitPanicked, shown, Pool
  <2>5. ASSUME NEW w \in Worker, Report(j, w)
        PROVE  Kinds'
    BY <2>5, ReportDoes, KindsMove DEF Report, shown, Pool
  <2>6. ASSUME NEW w \in Worker, DrainOne(j, w)
        PROVE  Kinds'
    BY <1>1, <2>6 DEF DrainOne, shown
  <2>7. CASE Drained(j)
    <3>1. UNCHANGED <<cancelled, registered>>
      BY <2>7 DEF Drained, shown
    <3>2. QED
      BY <2>7, <3>1, DrainedDoes, KindsMove DEF Kinds, Pool
  <2>8. CASE Cleanup(j)
    BY <2>8, CleanupDoes, KindsMove DEF Cleanup, shown, Kinds, Pool
  <2>9. CASE Unregister(j) \/ PublishDone(j) \/ StoreAll(j)
    <3>1. UNCHANGED cancelled /\ registered' \subseteq registered
          /\ (test[j].at = "unregister" => j \notin registered')
      BY <2>9 DEF Unregister, PublishDone, StoreAll
    <3>2. QED
      BY <2>9, <3>1, EndDoes, KindsMove DEF Kinds, Pool
  <2>10. CASE ProbeDone(j)
    <3>1. UNCHANGED <<cancelled, registered>>
      BY <2>10 DEF ProbeDone, shown
    <3>2. QED
      BY <2>10, <3>1, ProbeDoneDoes, KindsMove DEF Kinds, Pool
  <2>11. CASE Release(j)
    <3>1. UNCHANGED registered
      BY <2>11 DEF Release, shown
    <3>2. QED
      BY <2>11, <3>1, ReleaseDoes DEF Kinds, Pool, Same
  <2>12. QED
    BY <1>7, <2>1, <2>2, <2>3, <2>4, <2>5, <2>6, <2>7, <2>8, <2>9, <2>10, <2>11
    DEF PoolStep
<1>8. QED
  BY <1>2, <1>3, <1>4, <1>5, <1>6, <1>7 DEF Next, User, TestStep

LEMMA KindsHold == Spec => []Kinds
<1>1. Init => Kinds
  BY DEF Init, Kinds, Unborn, Pool
<1>2. Inv /\ Kinds /\ [Next]_vars => Kinds'
  BY ConstantsOK, KindsStep
<1>3. QED
  BY <1>1, <1>2, Invariant, PTL DEF Spec

-----------------------------------------------------------------------------
(* Where the nodes of a test are.                                          *)
Idles(j) == {w \in Worker : task[j][w].step = "idle"}
Panics(j) == {w \in Worker : task[j][w].step = "panicked"}
Under(j) == {task[j][w].node : w \in Probing(j)}

Apart(j) ==
  /\ test[j].queue \cap test[j].reported = {}
  /\ \A v, w \in Probing(j) : task[j][v].node = task[j][w].node => v = w
  /\ Under(j) \cap (test[j].queue \cup test[j].reported) = {}

Whole(j) == test[j].nodes = test[j].queue \cup test[j].reported \cup Under(j)
Unharmed(j) == ~test[j].aborting /\ j \notin cancelled /\ Panics(j) = {}

(* Who has nothing to do: the workers yet to be filled, the one whose      *)
(* probe was reported, and all of them once the queue is empty.            *)
Busy(j) ==
  /\ test[j].at = "fill" => test[j].todo \subseteq Idles(j)
  /\ test[j].at = "refill" => test[j].worker \in Idles(j)
  /\ test[j].at \in {"fill", "wait", "refill"} => ~test[j].aborting
  /\ test[j].at \in {"fill", "wait", "refill"} /\ test[j].queue # {} /\ j \notin cancelled =>
       \A w \in Idles(j) : \/ test[j].at = "fill" /\ w \in test[j].todo
                           \/ test[j].at = "refill" /\ w = test[j].worker
  /\ test[j].at = "drain" /\ ~test[j].aborting =>
       Idles(j) = Worker /\ (j \in cancelled \/ test[j].queue = {})

Single(j) ==
  test[j].at = "probe" =>
    /\ test[j].queue = {} /\ test[j].reported = {}
    /\ 0 \in Probing(j) => test[j].nodes = {task[j][0].node}

Ending == {"store", "unregister", "publish"}

Accounted(j) ==
  /\ Unharmed(j) /\ test[j].at \in Pool \cup Ending => Whole(j)
  /\ /\ test[j].kind # "one" /\ ~test[j].aborting /\ j \notin cancelled
     /\ test[j].at \in Ending \cup {"release"}
     => test[j].reported = test[j].nodes

AllPlaced(j) == Apart(j) /\ Busy(j) /\ Single(j) /\ Accounted(j)
Placed == \A j \in Test : AllPlaced(j)

(* What one task does to the workers of a test.                            *)
LEMMA GoesOn ==
  ASSUME NEW j \in Test, NEW w \in Worker, NEW t, TaskSet(j, w, t),
         task[j][w].step \in Live, t.step \in Live \cup {"finished"},
         t.node = task[j][w].node
  PROVE  /\ Probing(j)' = Probing(j) /\ Idles(j)' = Idles(j) /\ Panics(j)' = Panics(j)
         /\ Under(j)' = Under(j) /\ w \notin Idles(j)
         /\ \A v \in Worker : task'[j][v].node = task[j][v].node
<1>1. \A v \in Worker : task'[j][v].node = task[j][v].node
  BY DEF TaskSet
<1>2. Probing(j)' = Probing(j)
  BY DEF TaskSet, Probing, Live
<1>3. Idles(j)' = Idles(j) /\ Panics(j)' = Panics(j) /\ w \notin Idles(j)
  BY DEF TaskSet, Idles, Panics, Live
<1>4. Under(j)' = Under(j)
  BY <1>1, <1>2 DEF Under, Probing
<1>5. QED
  BY <1>1, <1>2, <1>3, <1>4

LEMMA Starts ==
  ASSUME NEW j \in Test, NEW w \in Worker, NEW n, TaskSet(j, w, Probe(n)),
         w \in Idles(j)
  PROVE  /\ Probing(j)' = Probing(j) \cup {w} /\ w \notin Probing(j)
         /\ Idles(j)' = Idles(j) \ {w} /\ Panics(j)' = Panics(j)
         /\ Under(j)' = Under(j) \cup {n}
         /\ task'[j][w].node = n
         /\ \A v \in Probing(j) : task'[j][v] = task[j][v]
<1>1. PICK t : t = Probe(n) /\ t.step = "acquire" /\ t.node = n
  BY DEF Probe, At
<1>2. TaskSet(j, w, t)
  BY <1>1
<1>3. Probing(j)' = Probing(j) \cup {w} /\ w \notin Probing(j)
  BY <1>1, <1>2 DEF TaskSet, Probing, Live, Idles
<1>4. Idles(j)' = Idles(j) \ {w} /\ Panics(j)' = Panics(j)
  BY <1>1, <1>2 DEF TaskSet, Idles, Panics
<1>5. task'[j][w].node = n /\ \A v \in Probing(j) : task'[j][v] = task[j][v]
  BY <1>1, <1>2, <1>3 DEF TaskSet, Probing
<1>6. Under(j)' = Under(j) \cup {n}
  BY <1>3, <1>5 DEF Under
<1>7. QED
  BY <1>3, <1>4, <1>5, <1>6

LEMMA Leaves ==
  ASSUME NEW j \in Test, NEW w \in Worker, NEW t, TaskSet(j, w, t),
         t.step \in {"idle", "panicked"}
  PROVE  /\ Probing(j)' = Probing(j) \ {w}
         /\ Idles(j)' = IF t.step = "idle" THEN Idles(j) \cup {w} ELSE Idles(j) \ {w}
         /\ Panics(j)' = IF t.step = "idle" THEN Panics(j) \ {w} ELSE Panics(j) \cup {w}
         /\ Under(j)' \subseteq Under(j)
         /\ w \in Probing(j) => Under(j) = Under(j)' \cup {task[j][w].node}
         /\ w \notin Probing(j) => Under(j)' = Under(j)
         /\ \A v \in Probing(j)' : task'[j][v] = task[j][v]
<1>1. Probing(j)' = Probing(j) \ {w}
  BY DEF TaskSet, Probing, Live
<1>2. /\ Idles(j)' = IF t.step = "idle" THEN Idles(j) \cup {w} ELSE Idles(j) \ {w}
      /\ Panics(j)' = IF t.step = "idle" THEN Panics(j) \ {w} ELSE Panics(j) \cup {w}
  BY DEF TaskSet, Idles, Panics
<1>3. \A v \in Probing(j)' : task'[j][v] = task[j][v]
  BY <1>1 DEF TaskSet, Probing
<1>4. /\ Under(j)' \subseteq Under(j)
      /\ w \in Probing(j) => Under(j) = Under(j)' \cup {task[j][w].node}
      /\ w \notin Probing(j) => Under(j)' = Under(j)
  BY <1>1, <1>3 DEF Under
<1>5. QED
  BY <1>1, <1>2, <1>3, <1>4

LEMMA Rests ==
  ASSUME NEW j \in Test, task'[j] = task[j]
  PROVE  /\ Probing(j)' = Probing(j) /\ Idles(j)' = Idles(j) /\ Panics(j)' = Panics(j)
         /\ Under(j)' = Under(j)
BY DEF Probing, Idles, Panics, Under

(* Being cancelled asks for less.                                          *)
LEMMA StaysPlaced ==
  ASSUME NEW i \in Test, AllPlaced(i), Same(i), i \in cancelled => i \in cancelled'
  PROVE  AllPlaced(i)'
<1>1. /\ Probing(i)' = Probing(i) /\ Idles(i)' = Idles(i) /\ Panics(i)' = Panics(i)
      /\ Under(i)' = Under(i) /\ test'[i] = test[i] /\ task'[i] = task[i]
  BY Rests DEF Same
<1>2. Apart(i)' /\ Busy(i)' /\ Single(i)'
  BY <1>1 DEF AllPlaced, Apart, Busy, Single
<1>3. Accounted(i)'
  BY <1>1 DEF AllPlaced, Accounted, Whole, Unharmed
<1>4. QED
  BY <1>2, <1>3 DEF AllPlaced

LEMMA MovePlaced ==
  ASSUME Placed, NEW j \in Test, \A i \in Test \ {j} : Same(i),
         \A i \in Test \ {j} : i \in cancelled => i \in cancelled',
         AllPlaced(j)'
  PROVE  Placed'
BY StaysPlaced DEF Placed

LEMMA ProbePlaced ==
  ASSUME ConstantsOK, Inv, Placed, NEW j \in Test, NEW w \in Worker,
         ProbeStep(j, w) \/ Panic(j, w)
  PROVE  Placed'
<1>1. /\ test'[j] = test[j] /\ cancelled' = cancelled /\ task[j][w].step \in Live
      /\ \A i \in Test \ {j} : Same(i)
  BY ProbeDoes DEF Same
<1>2. AllPlaced(j) /\ (test[j].at = "probe" => w = 0)
  BY <1>1 DEF Placed, Inv, Owned, Live, Pool
<1>3. PICK t : /\ TaskSet(j, w, t)
               /\ \/ t.step \in Live \cup {"finished"} /\ t.node = task[j][w].node
                  \/ t.step = "panicked"
                  \/ t.step = "idle" /\ test[j].at = "drain" /\ test[j].aborting
  BY ProbeDoes
<1>4. CASE t.step \in Live \cup {"finished"} /\ t.node = task[j][w].node
  <2>1. /\ Probing(j)' = Probing(j) /\ Idles(j)' = Idles(j) /\ Panics(j)' = Panics(j)
        /\ Under(j)' = Under(j)
        /\ \A v \in Worker : task'[j][v].node = task[j][v].node
    BY <1>1, <1>3, <1>4, GoesOn
  <2>2. Apart(j)'
    BY <1>1, <1>2, <2>1 DEF AllPlaced, Apart, Probing
  <2>3. Busy(j)'
    BY <1>1, <1>2, <2>1 DEF AllPlaced, Busy
  <2>4. Single(j)'
    BY <1>1, <1>2, <2>1 DEF AllPlaced, Single, Probing
  <2>5. Accounted(j)'
    BY <1>1, <1>2, <2>1 DEF AllPlaced, Accounted, Whole, Unharmed
  <2>6. QED
    BY <1>1, <2>2, <2>3, <2>4, <2>5, MovePlaced DEF AllPlaced
<1>5. CASE \/ t.step = "panicked"
           \/ t.step = "idle" /\ test[j].at = "drain" /\ test[j].aborting
  <2>1. /\ Probing(j)' = Probing(j) \ {w} /\ Under(j)' \subseteq Under(j)
        /\ Idles(j)' = IF t.step = "idle" THEN Idles(j) \cup {w} ELSE Idles(j) \ {w}
        /\ Panics(j)' = IF t.step = "idle" THEN Panics(j) \ {w} ELSE Panics(j) \cup {w}
        /\ \A v \in Probing(j)' : task'[j][v] = task[j][v]
    BY <1>3, <1>5, Leaves
  <2>2. w \notin Idles(j)
    BY <1>1 DEF Idles, Live
  <2>3. Apart(j)'
    BY <1>1, <1>2, <2>1 DEF AllPlaced, Apart
  <2>4. Busy(j)'
    BY <1>1, <1>2, <1>5, <2>1, <2>2 DEF AllPlaced, Busy
  <2>5. Single(j)'
    BY <1>1, <1>2, <1>5, <2>1 DEF AllPlaced, Single
  <2>6. ~Unharmed(j)'
    BY <1>1, <1>5, <2>1 DEF Unharmed
  <2>7. Accounted(j)'
    BY <1>1, <1>2, <2>6 DEF AllPlaced, Accounted
  <2>8. QED
    BY <1>1, <2>3, <2>4, <2>5, <2>7, MovePlaced DEF AllPlaced
<1>6. QED
  BY <1>3, <1>4, <1>5

(* A worker of the pool gets the next node.                                *)
LEMMA SpawnPlaced ==
  ASSUME Inv, Kinds, Placed, NEW j \in Test, NEW w \in Worker, NEW n \in test[j].queue,
         Moved(j), TaskSet(j, w, Probe(n)), w \in Idles(j), j \notin cancelled,
         UNCHANGED cancelled, test'[j].queue = test[j].queue \ {n},
         test'[j].reported = test[j].reported, ~test[j].aborting, ~test'[j].aborting,
         \/ /\ test[j].at = "fill" /\ test'[j].at = "fill" /\ w \in test[j].todo
            /\ test'[j].todo = test[j].todo \ {w}
         \/ /\ test[j].at = "refill" /\ test'[j].at = "wait" /\ w = test[j].worker
  PROVE  Placed'
<1>1. /\ Probing(j)' = Probing(j) \cup {w} /\ w \notin Probing(j)
      /\ Idles(j)' = Idles(j) \ {w} /\ Panics(j)' = Panics(j)
      /\ Under(j)' = Under(j) \cup {n} /\ task'[j][w].node = n
      /\ \A v \in Probing(j) : task'[j][v] = task[j][v]
  BY Starts
<1>2. AllPlaced(j)
  BY DEF Placed
<1>3. \A v \in Probing(j) : task[j][v].node # n
  BY <1>2 DEF AllPlaced, Apart, Under
<1>4. Apart(j)'
  <2>1. test'[j].queue \cap test'[j].reported = {}
    BY <1>2 DEF AllPlaced, Apart
  <2>2. \A u, v \in Probing(j)' : task'[j][u].node = task'[j][v].node => u = v
    BY <1>1, <1>2, <1>3 DEF AllPlaced, Apart
  <2>3. Under(j)' \cap (test'[j].queue \cup test'[j].reported) = {}
    BY <1>1, <1>2 DEF AllPlaced, Apart
  <2>4. QED
    BY <2>1, <2>2, <2>3 DEF Apart
<1>5. Busy(j)'
  BY <1>1, <1>2 DEF AllPlaced, Busy
<1>6. Single(j)'
  BY DEF Single
<1>7. Accounted(j)'
  <2>1. Unharmed(j)' => Unharmed(j)
    BY <1>1 DEF Unharmed
  <2>2. Unharmed(j)' => Whole(j)
    BY <1>2, <2>1 DEF AllPlaced, Accounted, Pool
  <2>3. Whole(j) => Whole(j)'
    BY <1>1 DEF Whole, Moved
  <2>4. QED
    BY <2>2, <2>3 DEF Accounted, Ending
<1>8. QED
  BY <1>4, <1>5, <1>6, <1>7, MovePlaced DEF AllPlaced, Moved

(* The test moves on within the pool; what its workers do stays.           *)
LEMMA PassPlaced ==
  ASSUME Inv, Kinds, Placed, NEW j \in Test, Moved(j), Unsorted(j), task' = task,
         UNCHANGED cancelled, test[j].at \in Pool, test'[j].at \in Pool,
         test'[j].aborting = test[j].aborting \/ test'[j].aborting,
         test'[j].at = "fill" => test[j].at = "fill" /\ test'[j].todo \subseteq test[j].todo,
         test'[j].at # "refill",
         test'[j].at # "drain" => ~test'[j].aborting,
         test'[j].at \in {"fill", "wait"} =>
           \/ j \in cancelled \/ test[j].queue = {}
           \/ test'[j].at = "wait" /\ test[j].at = "fill" /\ test[j].todo = {},
         test'[j].at = "drain" /\ ~test'[j].aborting => test[j].at = "wait" /\ AllIdle(j)
  PROVE  Placed'
<1>1. /\ Probing(j)' = Probing(j) /\ Idles(j)' = Idles(j) /\ Panics(j)' = Panics(j)
      /\ Under(j)' = Under(j)
  BY Rests
<1>2. AllPlaced(j)
  BY DEF Placed
<1>3. Apart(j)'
  BY <1>1, <1>2 DEF AllPlaced, Apart, Unsorted
<1>4. Busy(j)'
  <2>1. AllIdle(j) => Idles(j) = Worker
    BY DEF AllIdle, Idles
  <2>2. 0 \in Worker
    BY ConstantsOK DEF ConstantsOK, Worker
  <2>3. QED
    BY <1>1, <1>2, <2>1, <2>2 DEF AllPlaced, Busy, Unsorted, Pool
<1>5. Single(j)'
  BY DEF Single, Pool
<1>6. Accounted(j)'
  <2>1. Unharmed(j)' => Unharmed(j) /\ Whole(j)
    BY <1>1, <1>2 DEF Unharmed, AllPlaced, Accounted
  <2>2. Whole(j) => Whole(j)'
    BY <1>1 DEF Whole, Moved, Unsorted
  <2>3. QED
    BY <2>1, <2>2 DEF Accounted, Ending, Pool
<1>7. QED
  BY <1>3, <1>4, <1>5, <1>6, MovePlaced DEF AllPlaced, Moved

LEMMA FillPlaced ==
  ASSUME ConstantsOK, Inv, Kinds, Placed, NEW j \in Test, Fill(j) \/ Refill(j)
  PROVE  Placed'
<1>1. UNCHANGED cancelled
  BY DEF Fill, Refill
<1>2. CASE Fill(j)
  <2>1. ~test[j].aborting /\ test[j].todo \subseteq Idles(j) /\ Idles(j) \subseteq Worker
    BY <1>2, FillDoes DEF Placed, AllPlaced, Busy, Idles
  <2>2. CASE /\ j \in cancelled \/ test[j].todo = {}
             /\ test'[j].at = "wait" /\ Unsorted(j) /\ UNCHANGED task
    BY <1>1, <1>2, <2>1, <2>2, FillDoes, PassPlaced DEF Pool
  <2>3. CASE /\ test'[j].at = "fill" /\ Unsorted(j) /\ UNCHANGED task
             /\ test[j].queue = {} /\ test'[j].todo \subseteq test[j].todo
    BY <1>1, <1>2, <2>1, <2>3, FillDoes, PassPlaced DEF Pool
  <2>4. ASSUME NEW w \in test[j].todo, NEW n \in test[j].queue,
               TaskSet(j, w, Probe(n)), test'[j].todo = test[j].todo \ {w},
               test'[j].queue = test[j].queue \ {n}, test'[j].at = "fill",
               j \notin cancelled
        PROVE  Placed'
    <3>1. w \in Worker /\ w \in Idles(j)
      BY <2>1
    <3>2. QED
      BY <1>1, <1>2, <2>1, <2>4, <3>1, FillDoes, SpawnPlaced
  <2>5. QED
    BY <1>2, <2>2, <2>3, <2>4, FillDoes
<1>3. CASE Refill(j)
  <2>1. ~test[j].aborting /\ test[j].worker \in Idles(j) /\ test[j].worker \in Worker
    BY <1>3, RefillDoes, TestFacts DEF Placed, AllPlaced, Busy
  <2>2. CASE /\ j \in cancelled \/ test[j].queue = {}
             /\ Unsorted(j) /\ UNCHANGED task
    BY <1>1, <1>3, <2>1, <2>2, RefillDoes, PassPlaced DEF Pool
  <2>3. ASSUME NEW n \in test[j].queue, j \notin cancelled,
               TaskSet(j, test[j].worker, Probe(n)), test'[j].queue = test[j].queue \ {n}
        PROVE  Placed'
    BY <1>1, <1>3, <2>1, <2>3, RefillDoes, SpawnPlaced
  <2>4. QED
    BY <1>3, <2>2, <2>3, RefillDoes
<1>4. QED
  BY <1>2, <1>3

LEMMA WaitPlaced ==
  ASSUME ConstantsOK, Inv, Kinds, Placed, NEW j \in Test, WaitCancelled(j) \/ WaitNothing(j)
  PROVE  Placed'
<1>1. UNCHANGED cancelled
  BY DEF WaitCancelled, WaitNothing
<1>2. QED
  BY <1>1, WaitDoes, PassPlaced DEF Pool

(* A probe that ended leaves the pool: with its result, or without one.    *)
LEMMA LeavePlaced ==
  ASSUME ConstantsOK, Inv, Kinds, Placed, NEW j \in Test, NEW w \in Worker,
         Report(j, w) \/ WaitPanicked(j, w) \/ DrainOne(j, w)
  PROVE  Placed'
<1>1. UNCHANGED cancelled /\ AllPlaced(j)
  BY DEF Report, WaitPanicked, DrainOne, Placed
<1>2. Idle.step = "idle"
  BY TaskValues
<1>3. Moved(j) /\ TaskSet(j, w, Idle)
  BY ReportDoes, PanickedDoes, DrainOneDoes
<1>4. /\ Probing(j)' = Probing(j) \ {w} /\ Idles(j)' = Idles(j) \cup {w}
      /\ Panics(j)' = Panics(j) \ {w} /\ Under(j)' \subseteq Under(j)
      /\ w \in Probing(j) => Under(j) = Under(j)' \cup {task[j][w].node}
      /\ \A v \in Probing(j)' : task'[j][v] = task[j][v]
  BY <1>2, <1>3, Leaves
<1>5. Single(j)'
  BY ReportDoes, PanickedDoes, DrainOneDoes DEF Single
<1>6. CASE Report(j, w)
  <2>1. w \in Probing(j) /\ w \notin Panics(j)
    BY <1>6, ReportDoes DEF Probing, Panics
  <2>2. task[j][w].node \notin Under(j)'
    BY <1>1, <1>4, <2>1 DEF AllPlaced, Apart, Under
  <2>3. Apart(j)'
    <3>1. test'[j].queue \cap test'[j].reported = {}
      BY <1>1, <1>6, <2>1, ReportDoes DEF AllPlaced, Apart, Under
    <3>2. \A u, v \in Probing(j)' : task'[j][u].node = task'[j][v].node => u = v
      BY <1>1, <1>4 DEF AllPlaced, Apart
    <3>3. Under(j)' \cap (test'[j].queue \cup test'[j].reported) = {}
      BY <1>1, <1>4, <1>6, <2>2, ReportDoes DEF AllPlaced, Apart
    <3>4. QED
      BY <3>1, <3>2, <3>3 DEF Apart
  <2>4. Busy(j)'
    BY <1>1, <1>4, <1>6, ReportDoes DEF AllPlaced, Busy
  <2>5. Accounted(j)'
    <3>1. Unharmed(j)' => Unharmed(j) /\ Whole(j)
      BY <1>1, <1>4, <1>6, <2>1, ReportDoes DEF Unharmed, AllPlaced, Accounted, Pool
    <3>2. Whole(j) => Whole(j)'
      BY <1>3, <1>4, <1>6, <2>1, ReportDoes DEF Whole, Moved
    <3>3. QED
      BY <1>6, <3>1, <3>2, ReportDoes DEF Accounted, Ending
  <2>6. QED
    BY <1>1, <1>3, <1>5, <2>3, <2>4, <2>5, MovePlaced DEF AllPlaced, Moved
<1>7. CASE WaitPanicked(j, w) \/ DrainOne(j, w)
  <2>1. test'[j].at = "drain" /\ Unsorted(j)
    BY <1>7, PanickedDoes, DrainOneDoes DEF Unsorted
  <2>2. test'[j].aborting
    <3>1. CASE WaitPanicked(j, w)
      BY <3>1, PanickedDoes
    <3>2. CASE DrainOne(j, w)
      <4>1. w \notin Idles(j) /\ test[j].at = "drain" /\ test' = test
        BY <3>2, DrainOneDoes DEF Idles
      <4>2. QED
        BY <1>1, <4>1 DEF AllPlaced, Busy
    <3>3. QED
      BY <1>7, <3>1, <3>2
  <2>3. Apart(j)'
    BY <1>1, <1>4, <2>1 DEF AllPlaced, Apart, Unsorted
  <2>4. Busy(j)'
    BY <2>1, <2>2 DEF Busy
  <2>5. Accounted(j)'
    BY <2>1, <2>2 DEF Accounted, Unharmed, Ending
  <2>6. QED
    BY <1>1, <1>3, <1>5, <2>3, <2>4, <2>5, MovePlaced DEF AllPlaced, Moved
<1>8. QED
  BY <1>6, <1>7

(* The pool is empty and the test ends: nothing it has changes place.      *)
LEMMA EndPlaced ==
  ASSUME ConstantsOK, Inv, Kinds, Placed, NEW j \in Test,
         \/ Drained(j) \/ Cleanup(j)
         \/ Unregister(j) \/ PublishDone(j) \/ StoreAll(j)
  PROVE  Placed'
<1>1. /\ UNCHANGED cancelled /\ AllPlaced(j) /\ Moved(j) /\ Unsorted(j) /\ task' = task
      /\ test'[j].aborting = test[j].aborting
      /\ test'[j].at \in Ending \cup {"cleanup", "release"}
  <2>1. UNCHANGED cancelled
    BY DEF Drained, Cleanup, Unregister, PublishDone, StoreAll
  <2>2. CASE Drained(j)
    BY <2>1, <2>2, DrainedDoes DEF Ending, Placed
  <2>3. CASE Cleanup(j)
    BY <2>1, <2>3, CleanupDoes DEF Ending, Placed
  <2>4. CASE Unregister(j) \/ PublishDone(j) \/ StoreAll(j)
    BY <2>1, <2>4, EndDoes DEF Ending, Placed
  <2>5. QED
    BY <2>2, <2>3, <2>4
<1>2. /\ Probing(j)' = Probing(j) /\ Panics(j)' = Panics(j) /\ Under(j)' = Under(j)
  BY <1>1, Rests
<1>3. \/ j \in cancelled
      \/ test[j].at \in Ending
      \/ /\ test[j].at = "drain" /\ AllIdle(j) /\ test[j].kind \in {"job", "all"}
  <2>1. CASE Drained(j)
    BY <2>1, DrainedDoes DEF Kinds, Pool
  <2>2. CASE Cleanup(j)
    BY <2>2, CleanupDoes DEF Kinds
  <2>3. CASE Unregister(j) \/ PublishDone(j) \/ StoreAll(j)
    BY <2>3, EndDoes DEF Ending
  <2>4. QED
    BY <2>1, <2>2, <2>3
<1>4. Apart(j)'
  BY <1>1, <1>2 DEF AllPlaced, Apart, Unsorted
<1>5. Busy(j)' /\ Single(j)'
  BY <1>1 DEF Busy, Single, Ending
<1>6. Accounted(j)'
  <2>1. Unharmed(j)' => Unharmed(j)
    BY <1>1, <1>2 DEF Unharmed
  <2>2. Whole(j) => Whole(j)'
    BY <1>1, <1>2 DEF Whole, Unsorted, Moved
  <2>3. Unharmed(j)' => Whole(j)
    BY <1>1, <1>3, <2>1 DEF AllPlaced, Accounted, Unharmed, Pool
  <2>4. CASE test[j].at = "drain" /\ AllIdle(j) /\ j \notin cancelled
             /\ ~test[j].aborting
    <3>1. test[j].queue = {} /\ Under(j) = {} /\ Panics(j) = {}
      BY <1>1, <2>4 DEF AllPlaced, Busy, AllIdle, Under, Probing, Panics, Live
    <3>2. Whole(j)
      BY <1>1, <2>4, <3>1 DEF AllPlaced, Accounted, Unharmed, Pool
    <3>3. test[j].reported = test[j].nodes
      BY <3>1, <3>2 DEF Whole
    <3>4. QED
      BY <1>1, <2>2, <2>3, <3>3 DEF Accounted, Unsorted, Moved
  <2>5. CASE j \in cancelled \/ test[j].aborting
    BY <1>1, <2>5 DEF Accounted, Unharmed
  <2>6. CASE test[j].at \in Ending
    BY <1>1, <2>2, <2>3, <2>6 DEF AllPlaced, Accounted, Unsorted, Moved
  <2>7. QED
    BY <1>3, <2>4, <2>5, <2>6
<1>7. QED
  BY <1>1, <1>4, <1>5, <1>6, MovePlaced DEF AllPlaced, Moved

LEMMA ProbeDonePlaced ==
  ASSUME ConstantsOK, Inv, Kinds, Placed, NEW j \in Test, ProbeDone(j)
  PROVE  Placed'
<1>1. /\ UNCHANGED cancelled /\ AllPlaced(j) /\ test[j].kind = "one"
      /\ test[j].at = "probe" /\ 0 \in Worker
  <2>1. UNCHANGED cancelled
    BY Zenon DEF ProbeDone
  <2>2. QED
    BY <2>1, ProbeDoneDoes DEF Placed, Kinds, ConstantsOK, Worker
<1>2. /\ Probing(j)' = Probing(j) \ {0}
      /\ \A v \in Probing(j)' : task'[j][v] = task[j][v]
  BY <1>1, ProbeDoneDoes, TaskValues, Leaves
<1>3. Probing(j)' = {}
  BY <1>1, <1>2 DEF Probing, Inv, Owned, Live, Pool
<1>4. Under(j)' = {}
  BY <1>3 DEF Under
<1>5. Apart(j)'
  BY <1>1, <1>3, <1>4, ProbeDoneDoes DEF AllPlaced, Single, Apart
<1>6. Busy(j)' /\ Single(j)'
  BY ProbeDoneDoes DEF Busy, Single
<1>7. Accounted(j)'
  <2>1. CASE /\ task[j][0].step = "finished" /\ test'[j].at = "store"
             /\ test'[j].reported = {task[j][0].node}
    <3>1. 0 \in Probing(j)
      BY <1>1, <2>1 DEF Probing
    <3>2. Whole(j)'
      BY <1>1, <1>4, <2>1, <3>1, ProbeDoneDoes DEF AllPlaced, Single, Whole, Moved
    <3>3. test'[j].kind = "one"
      BY <1>1, ProbeDoneDoes DEF Moved
    <3>4. QED
      BY <3>2, <3>3 DEF Accounted
  <2>2. CASE test'[j].at = "release"
    BY <1>1, <2>2, ProbeDoneDoes DEF Accounted, Moved, Pool, Ending
  <2>3. QED
    BY <2>1, <2>2, ProbeDoneDoes
<1>8. QED
  BY <1>1, <1>5, <1>6, <1>7, ProbeDoneDoes, MovePlaced DEF AllPlaced, Moved

(* A test that is over, or that starts, has no probe in the pool yet.      *)
LEMMA FreshPlaced ==
  ASSUME ConstantsOK, Inv, Placed, NEW j \in Test, \A i \in Test \ {j} : Same(i),
         \A i \in Test \ {j} : i \in cancelled => i \in cancelled',
         test'[j].reported = {}, ~test'[j].aborting,
         test'[j].queue = test'[j].nodes,
         \A w \in Worker : task'[j][w].step = "idle",
         test'[j].at = "over" \/ (test'[j].at = "fill" /\ test'[j].todo = Worker)
  PROVE  Placed'
<1>1. Probing(j)' = {} /\ Idles(j)' = Worker /\ Under(j)' = {}
  BY DEF Probing, Idles, Under, Live
<1>2. Apart(j)' /\ Busy(j)' /\ Single(j)'
  BY <1>1 DEF Apart, Busy, Single
<1>3. Accounted(j)'
  BY <1>1 DEF Accounted, Whole, Pool, Ending
<1>4. QED
  BY <1>2, <1>3, MovePlaced DEF AllPlaced

LEMMA UserPlaced ==
  ASSUME ConstantsOK, Inv, Placed, User
  PROVE  Placed'
<1>1. ASSUME NEW kind, NEW nodes, Begin(kind, nodes, "fill"), UNCHANGED task
      PROVE  Placed'
  <2>1. PICK j : j = started + 1
    OBVIOUS
  <2>2. /\ j \in Test /\ UNCHANGED cancelled
        /\ \A i \in Test \ {j} : Same(i)
        /\ test'[j].reported = {} /\ ~test'[j].aborting
        /\ test'[j].queue = test'[j].nodes
        /\ \A w \in Worker : task'[j][w].step = "idle"
        /\ test'[j].at = "fill" /\ test'[j].todo = Worker
    BY <1>1, <2>1, BeginDoes DEF Same
  <2>3. QED
    BY <2>2, FreshPlaced
<1>2. CASE StartLatencyTest \/ TestAllNodes
  BY <1>1, <1>2 DEF StartLatencyTest, TestAllNodes
<1>3. CASE TestNode
  <2>1. PICK j : j = started + 1
    OBVIOUS
  <2>2. PICK n \in Node : test'[j].nodes = {n} /\ TaskSet(j, 0, Probe(n))
    BY <1>3, <2>1, TestNodeDoes
  <2>3. /\ j \in Test /\ UNCHANGED cancelled
        /\ \A i \in Test \ {j} : Same(i)
        /\ \A w \in Worker : task[j][w].step = "idle"
        /\ test'[j].at = "probe" /\ test'[j].kind = "one"
        /\ test'[j].queue = {} /\ test'[j].reported = {}
    BY <1>3, <2>1, TestNodeDoes
  <2>4. 0 \in Worker /\ 0 \in Idles(j) /\ Probing(j) = {}
    BY <2>3 DEF Idles, Probing, Live, ConstantsOK, Worker
  <2>5. Probing(j)' = {0} /\ task'[j][0].node = n
    BY <2>2, <2>3, <2>4, Starts
  <2>6. Apart(j)' /\ Single(j)' /\ Busy(j)'
    BY <2>2, <2>3, <2>5 DEF Apart, Single, Busy
  <2>7. Accounted(j)'
    BY <2>3 DEF Accounted, Pool, Ending
  <2>8. QED
    BY <2>3, <2>6, <2>7, MovePlaced DEF AllPlaced
<1>4. CASE CancelLatencyTest
  BY <1>4, StaysPlaced DEF CancelLatencyTest, Placed, Same
<1>5. QED
  BY <1>2, <1>3, <1>4 DEF User

LEMMA PlacedStep ==
  ASSUME ConstantsOK, Inv, Kinds, Placed, [Next]_vars
  PROVE  Placed'
<1>1. CASE CoreStarts \/ CoreEnds \/ LateArrival \/ UNCHANGED vars
  <2>1. UNCHANGED <<test, task, cancelled>>
    BY <1>1 DEF CoreStarts, CoreEnds, LateArrival, vars
  <2>2. QED
    BY <2>1, StaysPlaced DEF Placed, Same
<1>2. CASE User
  BY <1>2, UserPlaced
<1>3. ASSUME NEW j \in Test, Release(j)
      PROVE  Placed'
  <2>1. \A w \in Worker : task[j][w].step = "idle"
    BY <1>3, ReleaseDoes, TestFacts DEF Active, Pool
  <2>2. QED
    BY <1>3, <2>1, ReleaseDoes, FreshPlaced
<1>4. ASSUME NEW j \in Test, PoolStep(j)
      PROVE  Placed'
  BY <1>3, <1>4, FillPlaced, WaitPlaced, LeavePlaced, EndPlaced, ProbeDonePlaced
  DEF PoolStep
<1>5. ASSUME NEW j \in Test, NEW w \in Worker, ProbeStep(j, w) \/ Panic(j, w)
      PROVE  Placed'
  BY <1>5, ProbePlaced
<1>6. QED
  BY <1>1, <1>2, <1>4, <1>5 DEF Next, TestStep

LEMMA PlacedHolds == Spec => []Placed
<1>1. Init => Placed
  <2>1. SUFFICES ASSUME Init, NEW j \in Test PROVE AllPlaced(j)
    BY DEF Placed
  <2>2. /\ test[j].queue = {} /\ test[j].reported = {} /\ test[j].at = "new"
        /\ Probing(j) = {}
    BY <2>1, ConstantsOK, TaskValues DEF Init, Unborn, Probing, Live
  <2>3. Under(j) = {}
    BY <2>2 DEF Under
  <2>4. QED
    BY <2>2, <2>3 DEF AllPlaced, Apart, Busy, Single, Accounted, Pool, Ending
<1>2. Inv /\ Kinds /\ Placed /\ [Next]_vars => Placed'
  BY ConstantsOK, PlacedStep
<1>3. QED
  BY <1>1, <1>2, Invariant, KindsHold, PTL DEF Spec

(* Every node of a test that goes well is waiting, with one worker, or     *)
(* reported, in one place at a time, however the workers interleave, and   *)
(* such a test ends with all of them reported.                             *)
THEOREM NoNodeLost == Spec => []NothingLost
<1>1. Placed => NothingLost
  <2>1. SUFFICES ASSUME Placed, NEW j \in Test
                 PROVE  LET p == test[j] IN
                   /\ p.queue \cap p.reported = {}
                   /\ \A v, w \in Probing(j) : task[j][v].node = task[j][w].node => v = w
                   /\ \A w \in Probing(j) : task[j][w].node \notin p.queue \cup p.reported
                   /\ ~p.aborting /\ j \notin cancelled
                        /\ (\A w \in Worker : task[j][w].step # "panicked")
                        /\ p.at \in {"fill", "wait", "refill", "drain", "store", "unregister",
                                     "publish"}
                      => p.nodes = p.queue \cup p.reported \cup {task[j][w].node : w \in Probing(j)}
                   /\ p.kind # "one" /\ ~p.aborting /\ j \notin cancelled
                        /\ p.at \in {"store", "unregister", "publish", "release"}
                      => p.reported = p.nodes
    BY Zenon DEF NothingLost
  <2>2. AllPlaced(j) /\ Under(j) = {task[j][w].node : w \in Probing(j)}
    BY <2>1 DEF Placed, Under
  <2>3. \A w \in Probing(j) : task[j][w].node \in Under(j)
    BY DEF Under
  <2>4. (\A w \in Worker : task[j][w].step # "panicked") => Panics(j) = {}
    BY DEF Panics
  <2>5. QED
    BY <2>2, <2>3, <2>4 DEF AllPlaced, Apart, Accounted, Unharmed, Whole, Pool, Ending
<1>2. QED
  BY <1>1, PlacedHolds, PTL

-----------------------------------------------------------------------------
(* A selector that is on a node is one that a probe, or the cleanup of a   *)
(* cancelled job, is about to reset.                                       *)
Resets(j, w) ==
  \/ task[j][w].step \in {"delay", "reset"} /\ task[j][w].process = core
  \/ test[j].at = "drain" /\ j \in cancelled
  \/ test[j].at = "cleanup" /\ w \in test[j].todo /\ test[j].process = core

Blocked ==
  \A w \in Worker \ (stray \cup unreset) :
    selector[w] # REJECT => core # None /\ \E j \in Test : Resets(j, w)

(* One test, its probes and the requests of this step.                     *)
LEMMA StepBlocked ==
  ASSUME Blocked, NEW j \in Test, \A i \in Test \ {j} : Same(i),
         \A i \in Test \ {j} : i \in cancelled => i \in cancelled', core' = core,
         \A w \in Worker \ (stray' \cup unreset') : selector'[w] # REJECT =>
           \/ /\ w \notin stray \cup unreset /\ selector[w] # REJECT
              /\ core # None /\ Resets(j, w) => Resets(j, w)'
           \/ core # None /\ Resets(j, w)'
  PROVE  Blocked'
<1>1. SUFFICES ASSUME NEW w \in Worker \ (stray' \cup unreset'), selector'[w] # REJECT
               PROVE  core # None /\ \E i \in Test : Resets(i, w)'
  BY DEF Blocked
<1>2. CASE core # None /\ Resets(j, w)'
  BY <1>2
<1>3. CASE /\ w \notin stray \cup unreset /\ selector[w] # REJECT
           /\ core # None /\ Resets(j, w) => Resets(j, w)'
  <2>1. core # None /\ \E i \in Test : Resets(i, w)
    BY <1>3 DEF Blocked
  <2>2. \A i \in Test \ {j} : Resets(i, w) => Resets(i, w)'
    BY DEF Resets, Same
  <2>3. QED
    BY <1>3, <2>1, <2>2
<1>4. QED
  BY <1>1, <1>2, <1>3

(* A step without a request.                                               *)
LEMMA CalmBlocked ==
  ASSUME Blocked, NEW j \in Test, \A i \in Test \ {j} : Same(i),
         \A i \in Test \ {j} : i \in cancelled => i \in cancelled', UNCHANGED coreVars,
         \A w \in Worker : core # None /\ Resets(j, w) => Resets(j, w)'
  PROVE  Blocked'
BY StepBlocked DEF coreVars

(* What a request for the selector of w leaves: another one as it was, and *)
(* this one on REJECT, on the choice, or marked.                           *)
LEMMA RequestLeaves ==
  ASSUME Controlled, NEW w \in Worker, NEW c \in Node \cup {REJECT}
  PROVE  /\ Answered(w, c) => Spared(w) /\ selector'[w] = c
         /\ Unanswered(w, c) => Spared(w)
BY AnsweredKeeps, UnansweredKeeps

LEMMA ResetLeaves ==
  ASSUME ConstantsOK, Inv, NEW w \in Worker, NEW process, ResetRequest(w, process)
  PROVE  /\ \A v \in Worker \ {w} :
              /\ v \notin stray' \cup unreset' => v \notin stray \cup unreset
              /\ selector'[v] = selector[v]
         /\ process = core => selector'[w] = REJECT \/ w \in unreset'
         /\ process # core => UNCHANGED <<selector, late, stray, unreset>>
<1>1. Controlled /\ REJECT \in Node \cup {REJECT}
  BY CoreFacts
<1>2. CASE process # core /\ UNCHANGED <<selector, late, stray, unreset>>
  BY <1>2
<1>3. CASE process = core /\ Answered(w, REJECT) /\ unreset' = unreset \ {w}
  BY <1>1, <1>3, RequestLeaves DEF Spared
<1>4. CASE process = core /\ Unanswered(w, REJECT) /\ unreset' = unreset \cup {w}
  BY <1>1, <1>4, RequestLeaves DEF Spared
<1>5. QED
  BY <1>2, <1>3, <1>4 DEF ResetRequest

LEMMA ProbeBlocked ==
  ASSUME ConstantsOK, Inv, Aim, Kinds, Blocked, NEW j \in Test, NEW w \in Worker,
         ProbeStep(j, w) \/ Panic(j, w)
  PROVE  Blocked'
<1> DEFINE t == task[j][w]
<1>1. /\ core' = core /\ test' = test /\ cancelled' = cancelled /\ t.step \in Live
      /\ \A i \in Test \ {j} : Same(i)
      /\ \A v \in Worker \ {w} : task'[j][v] = task[j][v]
  BY ProbeDoes DEF Same, TaskSet
<1>2. \A v \in Worker \ {w} : Resets(j, v) => Resets(j, v)'
  BY <1>1 DEF Resets
<1>3. Controlled /\ t \in TaskType
  BY CoreFacts, TaskFacts
<1>4. ASSUME Spared(w), unreset \subseteq unreset',
             w \notin stray' \cup unreset' /\ selector'[w] # REJECT =>
               \/ /\ selector[w] # REJECT
                  /\ core # None /\ Resets(j, w) => Resets(j, w)'
               \/ core # None /\ Resets(j, w)'
      PROVE  Blocked'
  <2>1. \A v \in Worker : v \notin stray' \cup unreset' => v \notin stray \cup unreset
    BY <1>4 DEF Spared
  <2>2. \A v \in Worker \ {w} : selector'[v] = selector[v]
    BY <1>4 DEF Spared
  <2> DEFINE Fine(v) == selector'[v] # REJECT =>
           \/ /\ v \notin stray \cup unreset /\ selector[v] # REJECT
              /\ core # None /\ Resets(j, v) => Resets(j, v)'
           \/ core # None /\ Resets(j, v)'
  <2>3. \A v \in Worker \ (stray' \cup unreset') : Fine(v)
    <3>1. w \notin stray' \cup unreset' => Fine(w)
      BY <1>4, <2>1
    <3>2. \A v \in Worker \ (stray' \cup unreset') : v # w => Fine(v)
      BY <1>2, <2>1, <2>2
    <3> HIDE DEF Fine
    <3>3. QED
      BY <3>1, <3>2
  <2>4. QED
    BY <1>1, <2>3, StepBlocked
<1>5. CASE Acquire(j, w)
  <2>1. UNCHANGED coreVars /\ t.step = "acquire" /\ test[j].at # "cleanup"
    BY <1>5, Zenon, TestFacts DEF Acquire, Active, Pool
  <2>2. Resets(j, w) => Resets(j, w)'
    BY <1>1, <2>1 DEF Resets
  <2>3. QED
    BY <1>1, <1>2, <2>1, <2>2, CalmBlocked
<1>6. CASE Select(j, w)
  <2>1. t.step = "select" /\ t.process # None /\ t.node \in Node
    BY <1>6, TaskFacts DEF Select, Aim, Bound, Chosen, Live
  <2>2. Resets(j, w) => Resets(j, w)'
    BY <1>1, <2>1 DEF Resets
  <2>3. CASE /\ t.process = core /\ Answered(w, t.node) /\ UNCHANGED unreset
             /\ SetTask(j, w, [t EXCEPT !.step = "delay"])
    <3>1. PICK u : u = [t EXCEPT !.step = "delay"]
      OBVIOUS
    <3>2. u.step = "delay" /\ u.process = t.process
      BY <1>3, <3>1 DEF TaskType
    <3>3. SetTask(j, w, u)
      BY <2>3, <3>1, Zenon
    <3>4. task'[j][w] = u
      BY <3>3, TaskParts DEF TaskSet
    <3>5. core # None /\ Resets(j, w)'
      BY <1>1, <2>1, <2>3, <3>2, <3>4 DEF Resets
    <3>6. QED
      BY <1>3, <1>4, <2>1, <2>3, <3>5, RequestLeaves
  <2>4. CASE Unanswered(w, t.node) /\ unreset' = unreset \cup {w}
    BY <1>3, <1>4, <2>1, <2>4, RequestLeaves
  <2>5. CASE UNCHANGED <<selector, late, stray, unreset>>
    BY <1>4, <2>2, <2>5, SparedSame
  <2>6. QED
    BY <1>6, <2>3, <2>4, <2>5, Zenon DEF Select
<1>7. CASE Delay(j, w)
  <2>1. UNCHANGED coreVars
    BY <1>7, Zenon DEF Delay
  <2>2. PICK again \in BOOLEAN : SetTask(j, w, [t EXCEPT !.step = "reset", !.again = again])
    BY <1>7, Zenon DEF Delay
  <2>3. PICK u : u = [t EXCEPT !.step = "reset", !.again = again]
    OBVIOUS
  <2>4. u.step = "reset" /\ u.process = t.process
    BY <1>3, <2>3 DEF TaskType
  <2>5. SetTask(j, w, u)
    BY <2>2, <2>3, Zenon
  <2>6. task'[j][w] = u
    BY <2>5, TaskParts DEF TaskSet
  <2>7. Resets(j, w) => Resets(j, w)'
    BY <1>1, <2>1, <2>4, <2>6 DEF Resets, coreVars
  <2>8. QED
    BY <1>1, <1>2, <2>1, <2>7, CalmBlocked
<1>8. CASE Reset(j, w)
  <2>1. t.step = "reset" /\ ResetRequest(w, t.process)
    BY <1>8, Zenon DEF Reset
  <2>2. /\ \A v \in Worker \ {w} :
             /\ v \notin stray' \cup unreset' => v \notin stray \cup unreset
             /\ selector'[v] = selector[v]
        /\ t.process = core => selector'[w] = REJECT \/ w \in unreset'
        /\ t.process # core => UNCHANGED <<selector, late, stray, unreset>>
    BY <2>1, ResetLeaves
  <2>3. t.process # core => (Resets(j, w) => Resets(j, w)')
    BY <1>1, <2>1 DEF Resets
  <2>4. QED
    BY <1>1, <1>2, <2>2, <2>3, StepBlocked
<1>9. CASE Panic(j, w)
  <2>1. UNCHANGED <<selector, late, stray>> /\ unreset' = unreset \cup {w}
    BY <1>9, Zenon DEF Panic
  <2>2. QED
    BY <1>4, <2>1, SparedSame
<1>10. CASE Abort(j, w)
  <2> DEFINE c == IF t.step = "select" THEN t.node ELSE REJECT
  <2>1. /\ test[j].at = "drain"
        /\ IF t.process = core /\ t.step \in {"select", "reset"}
           THEN Unanswered(w, c) ELSE UNCHANGED <<selector, late, stray>>
        /\ unreset' = IF j \in cancelled THEN unreset ELSE unreset \cup {w}
    BY <1>10, Zenon DEF Abort
  <2>2. Spared(w) /\ c \in Node \cup {REJECT}
    BY <1>3, <2>1, RequestLeaves, SparedSame, TaskFacts
  <2>3. j \in cancelled => Resets(j, w)'
    BY <1>1, <2>1 DEF Resets
  <2>4. CASE j \notin cancelled
    BY <1>4, <2>1, <2>2, <2>4
  <2>5. CASE j \in cancelled /\ core # None
    BY <1>4, <2>1, <2>2, <2>3, <2>5
  <2>6. CASE j \in cancelled /\ core = None
    <3>1. selector'[w] # REJECT => selector[w] # REJECT
      <4>1. CASE t.step = "select"
        BY <1>1, <2>1, <2>6, <4>1 DEF Aim, Bound, Chosen
      <4>2. CASE t.step # "select"
        BY <2>1, <4>2 DEF Unanswered, Inv, TypeOK
      <4>3. QED
        BY <4>1, <4>2
    <3>2. QED
      BY <1>4, <2>1, <2>2, <2>6, <3>1
  <2>7. QED
    BY <2>4, <2>5, <2>6
<1>11. QED
  BY <1>5, <1>6, <1>7, <1>8, <1>9, <1>10 DEF ProbeStep

LEMMA PoolBlocked ==
  ASSUME ConstantsOK, Inv, Kinds, Placed, Blocked, NEW j \in Test, PoolStep(j)
  PROVE  Blocked'
<1>1. AllPlaced(j)
  BY DEF Placed
<1>2. CASE Fill(j) \/ Refill(j)
  <2>1. UNCHANGED coreVars /\ UNCHANGED cancelled
    BY <1>2, Zenon DEF Fill, Refill
  <2>2. /\ Moved(j) /\ test[j].at \in {"fill", "refill"}
        /\ \A v \in Worker \ Idles(j) : task'[j][v] = task[j][v]
    BY <1>1, <1>2, FillDoes, RefillDoes DEF AllPlaced, Busy, TaskSet
  <2>3. \A v \in Worker : Resets(j, v) => Resets(j, v)'
    BY <2>1, <2>2 DEF Resets, Idles, coreVars
  <2>4. QED
    BY <2>1, <2>2, <2>3, CalmBlocked DEF Moved
<1>3. CASE WaitCancelled(j) \/ WaitNothing(j)
  <2>1. UNCHANGED coreVars /\ UNCHANGED cancelled
    BY <1>3, Zenon DEF WaitCancelled, WaitNothing
  <2>2. \A v \in Worker : Resets(j, v) => Resets(j, v)'
    BY <1>3, <2>1, WaitDoes DEF Resets, coreVars
  <2>3. QED
    BY <1>3, <2>1, <2>2, WaitDoes, CalmBlocked DEF Moved
<1>4. ASSUME NEW w \in Worker, Report(j, w) \/ WaitPanicked(j, w) \/ DrainOne(j, w)
      PROVE  Blocked'
  <2>1. UNCHANGED coreVars /\ UNCHANGED cancelled
    BY <1>4, Zenon DEF Report, WaitPanicked, DrainOne
  <2>2. /\ Moved(j) /\ TaskSet(j, w, Idle) /\ task[j][w].step \in {"finished", "panicked"}
        /\ test[j].at \in {"wait", "drain"} /\ (test[j].at = "drain" => test'[j].at = "drain")
    BY <1>4, ReportDoes, PanickedDoes, DrainOneDoes
  <2>3. \A v \in Worker : Resets(j, v) => Resets(j, v)'
    BY <2>1, <2>2 DEF Resets, TaskSet, coreVars
  <2>4. QED
    BY <2>1, <2>2, <2>3, CalmBlocked DEF Moved
<1>5. CASE Drained(j)
  <2>1. UNCHANGED coreVars /\ UNCHANGED cancelled
    BY <1>5, Zenon DEF Drained
  <2>2. \A v \in Worker : core # None /\ Resets(j, v) => Resets(j, v)'
    BY <1>5, <2>1, DrainedDoes DEF Resets, coreVars, AllIdle, Kinds
  <2>3. QED
    BY <1>5, <2>1, <2>2, DrainedDoes, CalmBlocked DEF Moved
<1>6. CASE Cleanup(j)
  <2>1. UNCHANGED core /\ UNCHANGED cancelled
    BY <1>6, Zenon DEF Cleanup
  <2>2. /\ test[j].at = "cleanup" /\ Moved(j) /\ UNCHANGED task
        /\ \A v \in Worker : task[j][v].step = "idle"
    BY <1>6, CleanupDoes, TestFacts DEF Active, Pool
  <2>3. CASE /\ test'[j].at = "unregister" /\ test[j].todo = {}
             /\ UNCHANGED <<selector, late, stray, unreset>>
    <3>1. \A v \in Worker : ~Resets(j, v)
      BY <2>2, <2>3 DEF Resets
    <3>2. QED
      BY <2>1, <2>2, <2>3, <3>1, StepBlocked DEF Moved
  <2>4. ASSUME NEW w \in test[j].todo, test'[j].at = "cleanup",
               test'[j].process = test[j].process, test'[j].todo = test[j].todo \ {w},
               ResetRequest(w, test[j].process)
        PROVE  Blocked'
    <3>1. w \in Worker
      BY TestFacts
    <3>2. /\ \A v \in Worker \ {w} :
               /\ v \notin stray' \cup unreset' => v \notin stray \cup unreset
               /\ selector'[v] = selector[v]
          /\ test[j].process = core => selector'[w] = REJECT \/ w \in unreset'
          /\ test[j].process # core => UNCHANGED <<selector, late, stray, unreset>>
      BY <2>4, <3>1, ResetLeaves
    <3>3. /\ \A v \in Worker \ {w} : Resets(j, v) => Resets(j, v)'
          /\ test[j].process # core => ~Resets(j, w)
      BY <2>1, <2>2, <2>4, <3>1 DEF Resets
    <3>4. \A v \in Worker \ (stray' \cup unreset') : selector'[v] # REJECT =>
            /\ v \notin stray \cup unreset /\ selector[v] # REJECT
            /\ core # None /\ Resets(j, v) => Resets(j, v)'
      BY <3>2, <3>3
    <3>5. QED
      BY <2>1, <2>2, <3>4, StepBlocked DEF Moved
  <2>5. QED
    BY <1>6, <2>3, <2>4, CleanupDoes
<1>7. CASE Unregister(j) \/ PublishDone(j) \/ StoreAll(j)
  <2>1. UNCHANGED coreVars /\ UNCHANGED cancelled
    BY <1>7, Zenon DEF Unregister, PublishDone, StoreAll
  <2>2. \A v \in Worker : Resets(j, v) => Resets(j, v)'
    BY <1>7, <2>1, EndDoes DEF Resets, coreVars
  <2>3. QED
    BY <1>7, <2>1, <2>2, EndDoes, CalmBlocked DEF Moved
<1>8. CASE ProbeDone(j)
  <2>1. /\ UNCHANGED coreVars /\ UNCHANGED cancelled
        /\ task[j][0].step \in {"finished", "panicked"}
    BY <1>8, Zenon DEF ProbeDone
  <2>2. \A v \in Worker : Resets(j, v) => Resets(j, v)'
    BY <1>8, <2>1, ProbeDoneDoes DEF Resets, TaskSet, coreVars
  <2>3. QED
    BY <1>8, <2>1, <2>2, ProbeDoneDoes, CalmBlocked DEF Moved
<1>9. CASE Release(j)
  <2>1. UNCHANGED coreVars
    BY <1>9, Zenon DEF Release
  <2>2. \A v \in Worker : Resets(j, v) => Resets(j, v)'
    BY <1>9, <2>1, ReleaseDoes DEF Resets, coreVars
  <2>3. QED
    BY <1>9, <2>1, <2>2, ReleaseDoes, CalmBlocked
<1>10. QED
  BY <1>2, <1>3, <1>4, <1>5, <1>6, <1>7, <1>8, <1>9 DEF PoolStep

LEMMA OthersBlocked ==
  ASSUME ConstantsOK, Inv, Kinds, Blocked,
         CoreStarts \/ CoreEnds \/ LateArrival \/ User \/ UNCHANGED vars
  PROVE  Blocked'
<1>1. CASE CoreStarts
  BY <1>1 DEF CoreStarts, Blocked
<1>2. CASE CoreEnds
  BY <1>2 DEF CoreEnds, Blocked
<1>3. CASE LateArrival
  <2>1. PICK r \in late : selector' = [selector EXCEPT ![r[1]] = r[2]]
    BY <1>3 DEF LateArrival
  <2>2. r[1] \in stray
    BY CoreFacts DEF Controlled
  <2>3. \A w \in Worker \ stray : selector'[w] = selector[w]
    BY <2>1, <2>2 DEF Inv, TypeOK
  <2>4. UNCHANGED <<core, stray, unreset, test, task, cancelled>>
    BY <1>3 DEF LateArrival
  <2>5. \A j \in Test, w \in Worker : Resets(j, w)' = Resets(j, w)
    BY <2>4 DEF Resets
  <2>6. QED
    BY <2>3, <2>4, <2>5 DEF Blocked
<1>4. ASSUME UNCHANGED coreVars, cancelled \subseteq cancelled',
             \A i \in Test : test[i].at \notin {"new", "over"} => Same(i),
             \A i \in Test, w \in Worker : task[i][w].step # "idle" => Same(i)
      PROVE  Blocked'
  <2>1. \A i \in Test, w \in Worker : Resets(i, w) => Resets(i, w)'
    BY <1>4 DEF Resets, Same, coreVars
  <2>2. QED
    BY <1>4, <2>1 DEF Blocked, coreVars
<1>5. CASE CancelLatencyTest \/ UNCHANGED vars
  BY <1>4, <1>5 DEF CancelLatencyTest, vars, Same
<1>6. ASSUME NEW kind, NEW nodes, Begin(kind, nodes, "fill"), UNCHANGED task
      PROVE  Blocked'
  BY <1>4, <1>6, BeginDoes
<1>7. CASE TestNode
  BY <1>4, <1>7, TestNodeDoes
<1>8. QED
  BY <1>1, <1>2, <1>3, <1>5, <1>6, <1>7 DEF User, StartLatencyTest, TestAllNodes

LEMMA BlockedHolds == Spec => []Blocked
<1>1. Init => Blocked
  BY DEF Init, Blocked
<1>2. Inv /\ Aim /\ Kinds /\ Placed /\ Blocked /\ [Next]_vars => Blocked'
  BY ConstantsOK, OthersBlocked, PoolBlocked, ProbeBlocked DEF Next, TestStep
<1>3. QED
  BY <1>1, <1>2, Invariant, AimHolds, KindsHold, PlacedHolds, PTL DEF Spec

(* Whenever no test runs, no selector of a running Mihomo carries traffic  *)
(* through a node, however the last test ended, unless a request that was  *)
(* given up acted on it, or its last reset was not confirmed.              *)
THEOREM NoTestNoTraffic == Spec => []IdleIsBlocked
<1>1. Inv /\ Blocked => IdleIsBlocked
  <2>1. SUFFICES ASSUME Inv, Blocked, owner = None,
                        NEW w \in Worker \ (stray \cup unreset), selector[w] # REJECT
                 PROVE  FALSE
    BY DEF IdleIsBlocked
  <2>2. PICK j \in Test : Resets(j, w)
    BY <2>1 DEF Blocked
  <2>3. CASE test[j].at \in {"drain", "cleanup"}
    BY <2>1, <2>3 DEF Inv, Owned, Test, None
  <2>4. CASE task[j][w].step # "idle"
    <3>1. test[j].at \in Active
      BY <2>1, <2>4, TestFacts
    <3>2. QED
      BY <2>1, <3>1 DEF Inv, Owned, Test, None, Active, Pool
  <2>5. QED
    BY <2>2, <2>3, <2>4 DEF Resets
<1>2. QED
  BY <1>1, Invariant, BlockedHolds, PTL

-----------------------------------------------------------------------------
(* What is shown: results and progress are numbered by their tests.        *)
Newest ==
  /\ owner # None => owner = started
  /\ \A n \in Node : stored[n] <= started
  /\ progress.test <= started
  /\ owner # None /\ progress.test = owner =>
       /\ test[owner].kind = "job"
       /\ progress.completed = Cardinality(test[owner].reported)
       /\ progress.done => test[owner].at = "release"

(* What a step may do to them.                                             *)
Advances ==
  /\ \A n \in Node : stored'[n] >= stored[n]
  /\ progress'.test >= progress.test
  /\ progress'.test = progress.test =>
       /\ progress'.completed >= progress.completed
       /\ progress.done => progress'.done

LEMMA ShownFacts ==
  ASSUME ConstantsOK, Inv
  PROVE  /\ started \in Nat /\ owner \in Nat
         /\ \A n \in Node : stored[n] \in Nat
         /\ progress.test \in Nat /\ progress.completed \in Nat
         /\ progress.done \in BOOLEAN
         /\ \A j \in Test : j \in Nat /\ j # None
BY DEF ConstantsOK, Inv, TypeOK, Test, None

(* Nothing is shown, and the test that runs stays what it is.              *)
LEMMA QuietNewest ==
  ASSUME ConstantsOK, Inv, Newest, UNCHANGED <<progress, stored, started>>,
         owner' # None => owner' = owner,
         owner' # None /\ progress.test = owner =>
           /\ test'[owner].kind = test[owner].kind
           /\ test'[owner].reported = test[owner].reported
           /\ progress.done => test'[owner].at = "release"
  PROVE  Newest' /\ Advances
<1>1. Advances
  BY ShownFacts DEF Advances
<1>2. Newest'
  BY DEF Newest
<1>3. QED
  BY <1>1, <1>2

LEMMA StillNewest ==
  ASSUME ConstantsOK, Inv, Newest, UNCHANGED <<progress, stored, started, owner, test>>
  PROVE  Newest' /\ Advances
<1>1. progress.test = owner /\ owner # None => (progress.done => test'[owner].at = "release")
  BY DEF Newest
<1>2. QED
  BY <1>1, QuietNewest

(* A row is written for the test that runs, which is the newest.           *)
LEMMA StoreAdvances ==
  ASSUME ConstantsOK, Inv, Newest, NEW j \in Test, NEW nodes,
         test[j].at \notin {"new", "over"}, Store(j, nodes)
  PROVE  /\ j = started /\ owner = j
         /\ \A n \in Node : stored'[n] >= stored[n] /\ stored'[n] <= started
<1>1. owner = j /\ j = started
  BY ShownFacts DEF Inv, Owned, Newest
<1>2. \A n \in Node : stored'[n] = stored[n] \/ stored'[n] = started
  BY <1>1 DEF Store
<1>3. QED
  BY <1>1, <1>2, ShownFacts DEF Newest

LEMMA CountGrows ==
  ASSUME ConstantsOK, NEW T \in SUBSET Node, NEW S \in SUBSET T
  PROVE  Cardinality(S) \in Nat /\ Cardinality(T) \in Nat
         /\ Cardinality(T) >= Cardinality(S)
<1>1. IsFiniteSet(T)
  BY FS_Subset DEF ConstantsOK
<1>2. IsFiniteSet(S) /\ Cardinality(S) <= Cardinality(T)
  BY <1>1, FS_Subset
<1>3. Cardinality(S) \in Nat /\ Cardinality(T) \in Nat
  BY <1>1, <1>2, FS_CardinalityType
<1>4. QED
  BY <1>2, <1>3

LEMMA ReportNewest ==
  ASSUME ConstantsOK, Inv, Newest, NEW j \in Test, NEW w \in Worker, Report(j, w)
  PROVE  Newest' /\ Advances
<1> DEFINE done == test[j].reported \cup {task[j][w].node}
<1>1. /\ test[j].at = "wait" /\ Moved(j) /\ test'[j].reported = done
      /\ task[j][w].step = "finished"
  BY ReportDoes
<1>2. UNCHANGED <<owner, started>>
  BY Zenon DEF Report
<1>3. owner = j /\ j = started
  BY <1>1, ShownFacts DEF Inv, Owned, Newest
<1>4. done \subseteq Node /\ test[j].reported \subseteq done
  BY <1>1, TestFacts, TaskFacts
<1>5. /\ Cardinality(done) \in Nat /\ Cardinality(test[j].reported) \in Nat
      /\ Cardinality(done) >= Cardinality(test[j].reported)
  BY <1>4, CountGrows
<1> HIDE DEF done
<1>6. CASE test[j].kind = "job"
  <2>1. /\ Store(j, {task[j][w].node})
        /\ progress' = [test |-> j, completed |-> Cardinality(done), done |-> FALSE]
    BY <1>6, Zenon DEF Report, done
  <2>2. \A n \in Node : stored'[n] >= stored[n] /\ stored'[n] <= started
    BY <1>1, <2>1, StoreAdvances
  <2>3. progress'.test = j /\ progress'.completed = Cardinality(done) /\ ~progress'.done
    BY <2>1
  <2>4. progress.test = j =>
          progress.completed = Cardinality(test[j].reported) /\ ~progress.done
    BY <1>1, <1>3, ShownFacts DEF Newest
  <2>5. Advances
    BY <1>3, <1>5, <2>2, <2>3, <2>4, ShownFacts DEF Advances, Newest
  <2>6. Newest'
    BY <1>1, <1>2, <1>3, <1>6, <2>2, <2>3, ShownFacts DEF Newest, Moved
  <2>7. QED
    BY <2>5, <2>6
<1>7. CASE test[j].kind # "job"
  <2>1. UNCHANGED <<stored, progress>>
    BY <1>7, Zenon DEF Report
  <2>2. progress.test # owner
    BY <1>3, <1>7, ShownFacts DEF Newest
  <2>3. QED
    BY <1>2, <2>1, <2>2, QuietNewest
<1>8. QED
  BY <1>6, <1>7

LEMMA EndNewest ==
  ASSUME ConstantsOK, Inv, Kinds, Newest, NEW j \in Test, PublishDone(j) \/ StoreAll(j)
  PROVE  Newest' /\ Advances
<1>1. /\ Moved(j) /\ test'[j].reported = test[j].reported
      /\ test'[j].at = "release" /\ test[j].at \in {"publish", "store"}
  BY EndDoes DEF PublishDone, StoreAll, Unsorted
<1>2. UNCHANGED <<owner, started>>
  BY Zenon DEF PublishDone, StoreAll
<1>3. owner = j /\ j = started
  BY <1>1, ShownFacts DEF Inv, Owned, Newest
<1>4. CASE PublishDone(j)
  <2>1. /\ UNCHANGED stored
        /\ progress' = [test |-> j, completed |-> Cardinality(test[j].reported), done |-> TRUE]
    BY <1>4, Zenon DEF PublishDone
  <2>2. /\ progress'.test = j /\ progress'.completed = Cardinality(test[j].reported)
        /\ progress'.done
    BY <2>1
  <2>3. Cardinality(test[j].reported) \in Nat
    BY TestFacts, CountGrows
  <2>4. Advances
    BY <1>1, <1>3, <2>1, <2>2, <2>3, ShownFacts DEF Advances, Newest
  <2>5. test[j].kind = "job"
    BY <1>1, <1>4 DEF PublishDone, Kinds
  <2>6. Newest'
    BY <1>1, <1>2, <1>3, <2>1, <2>2, <2>5, ShownFacts DEF Newest, Moved
  <2>7. QED
    BY <2>4, <2>6
<1>5. CASE StoreAll(j)
  <2>1. UNCHANGED progress /\ Store(j, test[j].reported)
    BY <1>5, Zenon DEF StoreAll
  <2>2. \A n \in Node : stored'[n] >= stored[n] /\ stored'[n] <= started
    BY <1>1, <2>1, StoreAdvances
  <2>3. Advances
    BY <2>1, <2>2, ShownFacts DEF Advances
  <2>4. Newest'
    BY <1>1, <1>2, <1>3, <2>1, <2>2, ShownFacts DEF Newest, Moved
  <2>5. QED
    BY <2>3, <2>4
<1>6. QED
  BY <1>4, <1>5

(* A step of the test that runs which shows nothing.                       *)
LEMMA MovesNewest ==
  ASSUME ConstantsOK, Inv, Newest, NEW j \in Test,
         UNCHANGED <<progress, stored, started, owner>>,
         test[j].at \notin {"new", "over", "release"}, Moved(j),
         test'[j].reported = test[j].reported \/ test[j].kind # "job"
  PROVE  Newest' /\ Advances
<1>1. owner = j /\ j # None
  BY ShownFacts DEF Inv, Owned
<1>2. progress.test = owner =>
        /\ test'[owner].kind = test[owner].kind
        /\ test'[owner].reported = test[owner].reported
        /\ ~progress.done
  BY <1>1, ShownFacts DEF Newest, Moved
<1>3. QED
  BY <1>2, QuietNewest

LEMMA PoolNewest ==
  ASSUME ConstantsOK, Inv, Kinds, Newest, NEW j \in Test, PoolStep(j)
  PROVE  Newest' /\ Advances
<1>1. CASE Fill(j) \/ Refill(j)
  <2>1. UNCHANGED <<progress, stored, started, owner>>
    BY <1>1, Zenon DEF Fill, Refill, shown
  <2>2. QED
    BY <1>1, <2>1, FillDoes, RefillDoes, MovesNewest
<1>2. CASE WaitCancelled(j) \/ WaitNothing(j)
  <2>1. UNCHANGED <<progress, stored, started, owner>>
    BY <1>2, Zenon DEF WaitCancelled, WaitNothing, shown
  <2>2. QED
    BY <1>2, <2>1, WaitDoes, MovesNewest DEF Unsorted
<1>3. ASSUME NEW w \in Worker, WaitPanicked(j, w) \/ DrainOne(j, w)
      PROVE  Newest' /\ Advances
  <2>1. UNCHANGED <<progress, stored, started, owner>>
    BY <1>3, Zenon DEF WaitPanicked, DrainOne, shown
  <2>2. QED
    BY <1>3, <2>1, PanickedDoes, DrainOneDoes, MovesNewest DEF Unsorted
<1>4. CASE Drained(j) \/ Cleanup(j)
  <2>1. UNCHANGED <<progress, stored, started, owner>>
    BY <1>4, Zenon DEF Drained, Cleanup, shown
  <2>2. QED
    BY <1>4, <2>1, DrainedDoes, CleanupDoes, MovesNewest DEF Unsorted
<1>5. CASE Unregister(j)
  <2>1. UNCHANGED <<progress, stored, started, owner>> /\ test[j].at = "unregister"
    BY <1>5, Zenon DEF Unregister
  <2>2. QED
    BY <1>5, <2>1, EndDoes, MovesNewest DEF Unsorted
<1>6. CASE ProbeDone(j)
  <2>1. UNCHANGED <<progress, stored, started, owner>>
    BY <1>6, Zenon DEF ProbeDone, shown
  <2>2. QED
    BY <1>6, <2>1, ProbeDoneDoes, MovesNewest DEF Kinds
<1>7. CASE Release(j)
  <2>1. UNCHANGED <<progress, stored, started>> /\ owner' = None
    BY <1>7, Zenon DEF Release, shown
  <2>2. QED
    BY <2>1, QuietNewest
<1>8. QED
  BY <1>1, <1>2, <1>3, <1>4, <1>5, <1>6, <1>7, ReportNewest, EndNewest DEF PoolStep

LEMMA UserNewest ==
  ASSUME ConstantsOK, Inv, Newest, User
  PROVE  Newest' /\ Advances
<1>1. ASSUME NEW kind, NEW nodes, Begin(kind, nodes, "fill"), UNCHANGED progress
      PROVE  Newest' /\ Advances
  <2>1. started' = started + 1 /\ owner' = started' /\ UNCHANGED stored
    BY <1>1, BeginDoes
  <2>2. QED
    BY <1>1, <2>1, ShownFacts DEF Newest, Advances
<1>2. CASE TestAllNodes
  BY <1>1, <1>2 DEF TestAllNodes
<1>3. CASE StartLatencyTest
  <2>1. PICK nodes : /\ Begin("job", nodes, "fill")
                     /\ progress' = [test |-> started + 1, completed |-> 0, done |-> FALSE]
    BY <1>3, Zenon DEF StartLatencyTest
  <2>2. PICK j : j = started + 1
    OBVIOUS
  <2>3. /\ started' = j /\ owner' = j /\ UNCHANGED stored
        /\ test'[j].kind = "job" /\ test'[j].reported = {}
    BY <2>1, <2>2, BeginDoes
  <2>4. progress'.test = j /\ progress'.completed = 0 /\ ~progress'.done
    BY <2>1, <2>2
  <2>5. Cardinality({}) = 0
    BY FS_EmptySet
  <2>6. QED
    BY <2>2, <2>3, <2>4, <2>5, ShownFacts DEF Newest, Advances
<1>4. CASE TestNode
  <2>1. started' = started + 1 /\ owner' = started' /\ UNCHANGED <<progress, stored>>
    BY <1>4, TestNodeDoes DEF shown
  <2>2. QED
    BY <2>1, ShownFacts DEF Newest, Advances
<1>5. CASE CancelLatencyTest
  <2>1. UNCHANGED <<progress, stored, started, owner, test>>
    BY <1>5, Zenon DEF CancelLatencyTest, shown
  <2>2. QED
    BY <2>1, StillNewest
<1>6. QED
  BY <1>2, <1>3, <1>4, <1>5 DEF User

LEMMA NewestStep ==
  ASSUME ConstantsOK, Inv, Kinds, Newest, [Next]_vars
  PROVE  Newest' /\ Advances
<1>1. CASE CoreStarts \/ CoreEnds \/ LateArrival \/ UNCHANGED vars
  <2>1. UNCHANGED <<progress, stored, started, owner, test>>
    BY <1>1, Zenon DEF CoreStarts, CoreEnds, LateArrival, vars, shown
  <2>2. QED
    BY <2>1, StillNewest
<1>2. ASSUME NEW j \in Test, NEW w \in Worker, ProbeStep(j, w) \/ Panic(j, w)
      PROVE  Newest' /\ Advances
  <2>1. UNCHANGED <<progress, stored, started, owner, test>>
    BY <1>2, ProbeDoes DEF shown
  <2>2. QED
    BY <2>1, StillNewest
<1>3. QED
  BY <1>1, <1>2, PoolNewest, UserNewest DEF Next, TestStep

(* Results and progress only ever advance from a test to a later one: what *)
(* an earlier test measured never replaces what a later one showed, the    *)
(* count of a test never falls, and a test shown as done stays so.         *)
THEOREM NewestIsKept == Spec => NewestStays
<1>1. Init => Newest
  BY DEF Init, Newest, None
<1>2. Inv /\ Kinds /\ Newest /\ [Next]_vars => Newest'
  BY ConstantsOK, NewestStep
<1>3. Inv /\ Kinds /\ Newest /\ [Next]_vars =>
        [/\ \A n \in Node : stored'[n] >= stored[n]
         /\ progress'.test >= progress.test
         /\ progress'.test = progress.test =>
              /\ progress'.completed >= progress.completed
              /\ progress.done => progress'.done]_vars
  BY ConstantsOK, NewestStep DEF Advances
<1>4. Spec => []Newest
  BY <1>1, <1>2, Invariant, KindsHold, PTL DEF Spec
<1>5. QED
  BY <1>3, <1>4, Invariant, KindsHold, PTL DEF Spec, NewestStays
=============================================================================
