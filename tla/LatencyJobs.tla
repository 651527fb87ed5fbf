---------------------------- MODULE LatencyJobs ----------------------------
(***************************************************************************)
(* The latency tests of Node2Socks: the two commands that test nodes while *)
(* the user waits (one node, all nodes), the background job with its       *)
(* progress and its cancellation, the worker pool both use, the probe of a *)
(* node with its retries, and the hidden selectors of Mihomo the workers   *)
(* probe through.  Tests are numbered in the order in which they take      *)
(* latency_owner.                                                          *)
(***************************************************************************)
EXTENDS Integers, FiniteSets

CONSTANTS Node,          \* the nodes that can be tested
          REJECT,        \* what a selector answers that has no node
          Concurrency,   \* workers, each with a selector (6 in the code)
          Attempts,      \* tries of one probe (3 in the code)
          MaxTests,      \* bound: tests that are ever started
          MaxProcesses,  \* bound: Mihomo processes that are ever started
          MaxLate        \* bound: requests still to act at one time

ASSUME ConstantsOK == /\ Concurrency \in Nat \ {0}
                      /\ Attempts \in Nat \ {0}
                      /\ MaxTests \in Nat /\ MaxProcesses \in Nat
                      /\ MaxLate \in Nat
                      /\ IsFiniteSet(Node) /\ REJECT \notin Node

Worker == 0 .. Concurrency - 1
Test == 1 .. MaxTests
Process == 1 .. MaxProcesses
None == 0

VARIABLES
  core,       \* the running Mihomo process, or None
  coreRunning, \* core_running, and that state.core holds a manager
  born,       \* how many processes there were
  selector,   \* per worker: what its selector in that process has chosen
  late,       \* requests to that process their sender gave up, still to act
  owner,      \* the test that holds latency_owner, or None
  started,    \* how many tests there were
  test,       \* per test: its pool and where it stands
  task,       \* per test and worker: the probe
  cancelled,  \* tests whose token is cancelled
  registered, \* keys of latency_jobs
  progress,   \* latency_progress
  stored,     \* per node: the test whose result its row shows
  stray,      \* history: selectors a late request may have changed
  unreset     \* history: selectors whose last reset was not confirmed

coreVars == <<core, coreRunning, born, selector, late, stray, unreset>>
shown == <<registered, progress, stored>>
vars == <<coreVars, owner, started, test, task, cancelled, shown>>

Live == {"acquire", "select", "delay", "reset"}
At(step, n) == [step |-> step, node |-> n, attempt |-> 0, process |-> None,
                again |-> FALSE]
Idle == At("idle", REJECT)
Probe(n) == At("acquire", n)

Unborn == [kind |-> "none", at |-> "new", nodes |-> {}, queue |-> {},
           reported |-> {}, todo |-> {}, worker |-> 0, process |-> None,
           aborting |-> FALSE]

Init ==
  /\ core = None /\ coreRunning = FALSE /\ born = 0
  /\ late = {} /\ stray = {} /\ unreset = {}
  /\ selector = [w \in Worker |-> REJECT]
  /\ owner = None /\ started = 0
  /\ test = [j \in Test |-> Unborn]
  /\ task = [j \in Test |-> [w \in Worker |-> Idle]]
  /\ cancelled = {} /\ registered = {}
  /\ progress = [test |-> None, completed |-> 0, done |-> TRUE]
  /\ stored = [n \in Node |-> None]

-----------------------------------------------------------------------------
(* The core, as the tests see it.  A process starts with every probe       *)
(* selector on REJECT, and nothing of it outlives it.  A crash leaves the  *)
(* manager in place until a stop, or the recovery, which starts another.   *)

CoreStarts ==
  /\ core = None /\ born < MaxProcesses
  /\ core' = born + 1 /\ born' = born + 1 /\ coreRunning' = TRUE
  /\ UNCHANGED <<selector, late, stray, unreset, owner, started, test, task,
                 cancelled, shown>>

CoreEnds ==
  /\ core # None \/ coreRunning
  /\ core' = None /\ coreRunning' \in {coreRunning, FALSE}
  /\ selector' = [w \in Worker |-> REJECT]
  /\ late' = {} /\ stray' = {} /\ unreset' = {}
  /\ UNCHANGED <<born, owner, started, test, task,
                 cancelled, shown>>

LateArrival ==
  \E r \in late :
    /\ selector' = [selector EXCEPT ![r[1]] = r[2]]
    /\ late' = late \ {r}
    /\ UNCHANGED <<core, coreRunning, born, stray, unreset, owner, started, test,
                   task, cancelled, shown>>

(* A request the process answers, and one its sender has no answer to: it  *)
(* acted, or never will, or will act later.                                *)
Answered(w, choice) ==
  /\ selector' = [selector EXCEPT ![w] = choice]
  /\ UNCHANGED <<late, stray>>

Unanswered(w, choice) ==
  \/ UNCHANGED <<selector, late, stray>>
  \/ selector' = [selector EXCEPT ![w] = choice] /\ UNCHANGED <<late, stray>>
  \/ /\ Cardinality(late) < MaxLate
     /\ late' = late \cup {<<w, choice>>} /\ stray' = stray \cup {w}
     /\ UNCHANGED selector

(* What a request that sets a selector back to REJECT may do.              *)
ResetRequest(w, process) ==
  \/ /\ process = core
     /\ \/ Answered(w, REJECT) /\ unreset' = unreset \ {w}
        \/ Unanswered(w, REJECT) /\ unreset' = unreset \cup {w}
  \/ process # core /\ UNCHANGED <<selector, late, stray, unreset>>

-----------------------------------------------------------------------------
(* The probe of one node.                                                  *)

SetTask(j, w, t) == task' = [task EXCEPT ![j][w] = t]

(* Mutants: one attempt too many, and attempts nobody counts.              *)
EndAttemptOneMore(t, again) ==
  IF again /\ t.attempt < Attempts
  THEN [Probe(t.node) EXCEPT !.attempt = t.attempt + 1]
  ELSE At("finished", t.node)

EndAttemptUncounted(t, again) ==
  IF again THEN Probe(t.node)
  ELSE At("finished", t.node)

(* The end of an attempt: once more from the controller on, or finished.   *)
EndAttempt(t, again) ==
  IF again /\ t.attempt + 1 < Attempts
  THEN [Probe(t.node) EXCEPT !.attempt = t.attempt + 1]
  ELSE At("finished", t.node)

Acquire(j, w) ==
  LET t == task[j][w] IN
  /\ t.step = "acquire"
  /\ SetTask(j, w, IF core = None THEN EndAttempt(t, TRUE)
                   ELSE [t EXCEPT !.step = "select", !.process = core])
  /\ UNCHANGED <<coreVars, owner, started, test, cancelled, shown>>

Select(j, w) ==
  LET t == task[j][w] IN
  /\ t.step = "select"
  /\ \/ /\ t.process = core /\ Answered(w, t.node) /\ UNCHANGED unreset
        /\ SetTask(j, w, [t EXCEPT !.step = "delay"])
     \/ /\ t.process = core /\ UNCHANGED <<selector, late, stray, unreset>>
        /\ SetTask(j, w, EndAttempt(t, FALSE))
     \/ /\ t.process = core /\ Unanswered(w, t.node)
        /\ unreset' = unreset \cup {w}
        /\ SetTask(j, w, EndAttempt(t, TRUE))
     \/ /\ t.process # core /\ UNCHANGED <<selector, late, stray, unreset>>
        /\ SetTask(j, w, EndAttempt(t, TRUE))
  /\ UNCHANGED <<core, coreRunning, born, owner, started, test, cancelled, shown>>

Delay(j, w) ==
  LET t == task[j][w] IN
  /\ t.step = "delay"
  /\ \E again \in BOOLEAN :
       /\ t.process # core => again
       /\ SetTask(j, w, [t EXCEPT !.step = "reset", !.again = again])
  /\ UNCHANGED <<coreVars, owner, started, test, cancelled, shown>>

Reset(j, w) ==
  LET t == task[j][w] IN
  /\ t.step = "reset"
  /\ ResetRequest(w, t.process)
  /\ SetTask(j, w, EndAttempt(t, t.again))
  /\ UNCHANGED <<core, coreRunning, born, owner, started, test, cancelled, shown>>

(* A probe that panics ends without its reset.                             *)
Panic(j, w) ==
  /\ task[j][w].step \in Live
  /\ SetTask(j, w, At("panicked", REJECT))
  /\ unreset' = unreset \cup {w}
  /\ UNCHANGED <<core, coreRunning, born, selector, late, stray, owner, started, test,
                 cancelled, shown>>

(* An aborted future is dropped at its next await, with its request.       *)
Abort(j, w) ==
  LET t == task[j][w] IN
  /\ test[j].at = "drain" /\ test[j].aborting
  /\ t.step \in Live
  /\ SetTask(j, w, Idle)
  /\ IF t.process = core /\ t.step \in {"select", "reset"}
     THEN Unanswered(w, IF t.step = "select" THEN t.node ELSE REJECT)
     ELSE UNCHANGED <<selector, late, stray>>
  /\ unreset' = IF j \in cancelled THEN unreset ELSE unreset \cup {w}
  /\ UNCHANGED <<core, coreRunning, born, owner, started, test, cancelled, shown>>

-----------------------------------------------------------------------------
(* Starting a test.                                                        *)

SetTest(j, p) == test' = [test EXCEPT ![j] = p]

Begin(kind, nodes, at) ==
  /\ owner = None /\ coreRunning /\ started < MaxTests
  /\ owner' = started + 1 /\ started' = started + 1
  /\ SetTest(started + 1, [Unborn EXCEPT !.kind = kind, !.at = at,
                             !.nodes = nodes, !.queue = nodes, !.todo = Worker])
  /\ UNCHANGED <<coreVars, cancelled, stored>>

StartLatencyTest ==
  \E nodes \in SUBSET Node \ {{}} :
    /\ Begin("job", nodes, "fill")
    /\ registered' = registered \cup {started + 1}
    /\ progress' = [test |-> started + 1, completed |-> 0, done |-> FALSE]
    /\ UNCHANGED task

TestAllNodes ==
  /\ Begin("all", Node, "fill")
  /\ UNCHANGED <<task, registered, progress>>

(* A single test is one probe through the selector of worker 0.            *)
TestNode ==
  \E n \in Node :
    /\ owner = None /\ coreRunning /\ started < MaxTests
    /\ owner' = started + 1 /\ started' = started + 1
    /\ SetTest(started + 1, [Unborn EXCEPT !.kind = "one", !.at = "probe",
                                           !.nodes = {n}])
    /\ task' = [task EXCEPT ![started + 1][0] = Probe(n)]
    /\ UNCHANGED <<coreVars, cancelled, shown>>

CancelLatencyTest ==
  \E j \in registered :
    /\ cancelled' = cancelled \cup {j}
    /\ UNCHANGED <<coreVars, owner, started, test, task, shown>>

-----------------------------------------------------------------------------
(* The pool.                                                               *)

Spawn(j, w, n) == /\ SetTask(j, w, Probe(n))
                  /\ n \in test[j].queue

(* The first items, worker after worker.                                   *)
Fill(j) ==
  LET p == test[j]
      w == CHOOSE x \in p.todo : \A y \in p.todo : x <= y IN
  /\ p.at = "fill"
  /\ \/ /\ j \in cancelled \/ p.todo = {}
        /\ SetTest(j, [test[j] EXCEPT !.at = "wait", !.todo = {}])
        /\ UNCHANGED task
     \/ /\ j \notin cancelled /\ p.todo # {} /\ p.queue = {}
        /\ SetTest(j, [test[j] EXCEPT !.todo = @ \ {w}])
        /\ UNCHANGED task
     \/ /\ j \notin cancelled /\ p.todo # {}
        /\ \E n \in p.queue :
             /\ Spawn(j, w, n)
             /\ SetTest(j, [test[j] EXCEPT !.todo = @ \ {w}, !.queue = @ \ {n}])
  /\ UNCHANGED <<coreVars, owner, started, cancelled, shown>>

(* A row is written for each result of a job; writing it may fail.         *)
Store(j, nodes) ==
  \E written \in SUBSET nodes :
    stored' = [n \in Node |-> IF n \in written THEN j ELSE stored[n]]

(* The biased select: cancellation first, then the next probe that ended.  *)
WaitCancelled(j) ==
  /\ test[j].at = "wait" /\ j \in cancelled
  /\ SetTest(j, [test[j] EXCEPT !.at = "drain", !.aborting = TRUE])
  /\ UNCHANGED <<coreVars, owner, started, task, cancelled, shown>>

Report(j, w) ==
  LET p == test[j]
      n == task[j][w].node
      done == p.reported \cup {n} IN
  /\ p.at = "wait" /\ j \notin cancelled
  /\ task[j][w].step = "finished"
  /\ SetTask(j, w, Idle)
  /\ SetTest(j, [test[j] EXCEPT !.at = "refill", !.worker = w,
                          !.reported = done])
  /\ IF p.kind = "job"
     THEN /\ Store(j, {n})
          /\ progress' = [test |-> j, completed |-> Cardinality(done),
                          done |-> FALSE]
     ELSE UNCHANGED <<stored, progress>>
  /\ UNCHANGED <<coreVars, owner, started, cancelled, registered>>

WaitPanicked(j, w) ==
  /\ test[j].at = "wait" /\ j \notin cancelled
  /\ task[j][w].step = "panicked"
  /\ SetTask(j, w, Idle)
  /\ SetTest(j, [test[j] EXCEPT !.at = "drain", !.aborting = TRUE])
  /\ UNCHANGED <<coreVars, owner, started, cancelled, shown>>

AllIdle(j) == \A w \in Worker : task[j][w].step = "idle"

WaitNothing(j) ==
  /\ test[j].at = "wait" /\ j \notin cancelled /\ AllIdle(j)
  /\ SetTest(j, [test[j] EXCEPT !.at = "drain"])
  /\ UNCHANGED <<coreVars, owner, started, task, cancelled, shown>>

(* Mutant: the next item goes to the first worker, not to the one that     *)
(* ended.                                                                  *)
RefillFirst(j) ==
  LET p == test[j] IN
  /\ p.at = "refill"
  /\ \/ /\ j \in cancelled \/ p.queue = {}
        /\ SetTest(j, [test[j] EXCEPT !.at = "wait", !.worker = 0])
        /\ UNCHANGED task
     \/ /\ j \notin cancelled
        /\ \E n \in p.queue :
             /\ Spawn(j, 0, n)
             /\ SetTest(j, [test[j] EXCEPT !.at = "wait", !.worker = 0,
                                     !.queue = @ \ {n}])
  /\ UNCHANGED <<coreVars, owner, started, cancelled, shown>>

Refill(j) ==
  LET p == test[j] IN
  /\ p.at = "refill"
  /\ \/ /\ j \in cancelled \/ p.queue = {}
        /\ SetTest(j, [test[j] EXCEPT !.at = "wait", !.worker = 0])
        /\ UNCHANGED task
     \/ /\ j \notin cancelled
        /\ \E n \in p.queue :
             /\ Spawn(j, p.worker, n)
             /\ SetTest(j, [test[j] EXCEPT !.at = "wait", !.worker = 0,
                                     !.queue = @ \ {n}])
  /\ UNCHANGED <<coreVars, owner, started, cancelled, shown>>

(* What has ended by itself is drained without being reported.             *)
DrainOne(j, w) ==
  /\ test[j].at = "drain"
  /\ task[j][w].step \in {"finished", "panicked"}
  /\ SetTask(j, w, Idle)
  /\ UNCHANGED <<coreVars, owner, started, test, cancelled, shown>>

(* Mutants: returning before all probes ended, and without a cleanup.      *)
DrainedEarly(j) ==
  LET reset == test[j].kind = "job" /\ j \in cancelled /\ core # None IN
  /\ test[j].at = "drain"
  /\ SetTest(j, [test[j] EXCEPT
       !.at = IF test[j].kind # "job" THEN "store"
                 ELSE IF reset THEN "cleanup" ELSE "unregister",
       !.process = IF reset THEN core ELSE None,
       !.todo = IF reset THEN Worker ELSE {}])
  /\ UNCHANGED <<coreVars, owner, started, task, cancelled, shown>>

DrainedUncleaned(j) ==
  LET reset == FALSE IN
  /\ test[j].at = "drain" /\ AllIdle(j)
  /\ SetTest(j, [test[j] EXCEPT
       !.at = IF test[j].kind # "job" THEN "store"
                 ELSE IF reset THEN "cleanup" ELSE "unregister",
       !.process = IF reset THEN core ELSE None,
       !.todo = IF reset THEN Worker ELSE {}])
  /\ UNCHANGED <<coreVars, owner, started, task, cancelled, shown>>

(* The pool returns; a job that was cancelled resets every selector first. *)
Drained(j) ==
  LET reset == test[j].kind = "job" /\ j \in cancelled /\ core # None IN
  /\ test[j].at = "drain" /\ AllIdle(j)
  /\ SetTest(j, [test[j] EXCEPT
       !.at = IF test[j].kind # "job" THEN "store"
                 ELSE IF reset THEN "cleanup" ELSE "unregister",
       !.process = IF reset THEN core ELSE None,
       !.todo = IF reset THEN Worker ELSE {}])
  /\ UNCHANGED <<coreVars, owner, started, task, cancelled, shown>>

(* One request after the other, in whichever order.                        *)
Cleanup(j) ==
  /\ test[j].at = "cleanup"
  /\ \/ /\ test[j].todo = {}
        /\ SetTest(j, [test[j] EXCEPT !.at = "unregister", !.process = None])
        /\ UNCHANGED <<selector, late, stray, unreset>>
     \/ \E w \in test[j].todo :
          /\ SetTest(j, [test[j] EXCEPT !.todo = @ \ {w}])
          /\ ResetRequest(w, test[j].process)
  /\ UNCHANGED <<core, coreRunning, born, owner, started, task, cancelled, shown>>

-----------------------------------------------------------------------------
(* The end of a test.                                                      *)

(* Mutant: latency_owner is released before the last progress is shown.    *)
UnregisterReleases(j) ==
  /\ test[j].at = "unregister"
  /\ registered' = registered \ {j}
  /\ owner' = None
  /\ SetTest(j, [test[j] EXCEPT !.at = "publish"])
  /\ UNCHANGED <<coreVars, started, task, cancelled, progress, stored>>

Unregister(j) ==
  /\ test[j].at = "unregister"
  /\ registered' = registered \ {j}
  /\ SetTest(j, [test[j] EXCEPT !.at = "publish"])
  /\ UNCHANGED <<coreVars, owner, started, task, cancelled, progress, stored>>

PublishDone(j) ==
  /\ test[j].at = "publish"
  /\ progress' = [test |-> j, completed |-> Cardinality(test[j].reported),
                  done |-> TRUE]
  /\ SetTest(j, [test[j] EXCEPT !.at = "release"])
  /\ UNCHANGED <<coreVars, owner, started, task, cancelled, registered, stored>>

ProbeDone(j) ==
  /\ test[j].at = "probe"
  /\ task[j][0].step \in {"finished", "panicked"}
  /\ SetTask(j, 0, Idle)
  /\ SetTest(j, [test[j] EXCEPT !.at = IF task[j][0].step = "finished"
                                    THEN "store" ELSE "release",
                          !.reported = IF task[j][0].step = "finished"
                                          THEN {task[j][0].node} ELSE {}])
  /\ UNCHANGED <<coreVars, owner, started, cancelled, shown>>

StoreAll(j) ==
  /\ test[j].at = "store"
  /\ Store(j, test[j].reported)
  /\ SetTest(j, [test[j] EXCEPT !.at = "release"])
  /\ UNCHANGED <<coreVars, owner, started, task, cancelled, registered, progress>>

(* The guard of latency_owner is dropped, with all else the task held.     *)
Release(j) ==
  /\ test[j].at = "release"
  /\ owner' = None
  /\ SetTest(j, [Unborn EXCEPT !.at = "over"])
  /\ cancelled' = cancelled \ {j}
  /\ UNCHANGED <<coreVars, started, task, shown>>

-----------------------------------------------------------------------------
ProbeStep(j, w) == \/ Acquire(j, w) \/ Select(j, w) \/ Delay(j, w)
                   \/ Reset(j, w) \/ Abort(j, w)

PoolStep(j) ==
  \/ Fill(j) \/ WaitCancelled(j) \/ WaitNothing(j) \/ Refill(j) \/ Drained(j)
  \/ Cleanup(j) \/ Unregister(j) \/ PublishDone(j) \/ ProbeDone(j)
  \/ StoreAll(j) \/ Release(j)
  \/ \E w \in Worker : \/ Report(j, w) \/ WaitPanicked(j, w) \/ DrainOne(j, w)

TestStep(j) == PoolStep(j) \/ \E w \in Worker : ProbeStep(j, w) \/ Panic(j, w)

User == StartLatencyTest \/ TestAllNodes \/ TestNode \/ CancelLatencyTest

Next == \/ CoreStarts \/ CoreEnds \/ LateArrival \/ User
        \/ \E j \in Test : TestStep(j)

Spec == Init /\ [][Next]_vars

(* tokio polls every task that is ready, and every request has a timeout.  *)
FairSpec == /\ Spec
            /\ \A j \in Test : WF_vars(PoolStep(j))
            /\ \A j \in Test, w \in Worker : WF_vars(ProbeStep(j, w))
-----------------------------------------------------------------------------
TaskType ==
  {t \in [step : Live \cup {"idle", "finished", "panicked"},
           node : Node \cup {REJECT}, attempt : 0 .. Attempts - 1,
           process : Process \cup {None}, again : BOOLEAN] :
     t.step \in Live \cup {"finished"} => t.node \in Node}

TestType ==
  [kind : {"none", "job", "all", "one"},
   at : {"new", "probe", "fill", "wait", "refill", "drain", "cleanup", "store",
         "unregister", "publish", "release", "over"},
   nodes : SUBSET Node, queue : SUBSET Node, reported : SUBSET Node,
   todo : SUBSET Worker, worker : Worker, process : Process \cup {None},
   aborting : BOOLEAN]

(* The shape of the state.                                                 *)
TypeOK ==
  /\ core \in Process \cup {None} /\ coreRunning \in BOOLEAN
  /\ born \in 0 .. MaxProcesses
  /\ selector \in [Worker -> Node \cup {REJECT}]
  /\ late \subseteq Worker \X (Node \cup {REJECT})
  /\ stray \subseteq Worker /\ unreset \subseteq Worker
  /\ owner \in Test \cup {None} /\ started \in 0 .. MaxTests
  /\ test \in [Test -> TestType]
  /\ task \in [Test -> [Worker -> TaskType]]
  /\ cancelled \subseteq Test /\ registered \subseteq Test
  /\ progress \in [test : Test \cup {None}, completed : Nat, done : BOOLEAN]
  /\ stored \in [Node -> Test \cup {None}]

(* No two probes ever use one selector: "A selector belongs to one worker  *)
(* until its request finishes" (latency_pool.rs:5), across all tests.      *)
SelectorExclusive ==
  \A i, j \in Test, w \in Worker :
    task[i][w].step \in Live /\ task[j][w].step \in Live => i = j

(* While a probe measures, its selector is on the node the result will be  *)
(* stored for, unless a request somebody gave up acted on it.              *)
MeasuresItsNode ==
  \A j \in Test, w \in Worker :
    task[j][w].step = "delay" /\ task[j][w].process = core /\ w \notin stray
      => selector[w] = task[j][w].node

(* When no test runs, every selector of a running Mihomo is on REJECT,     *)
(* whether the last test ended or was cancelled, unless a reset was not    *)
(* confirmed (advanced_commands.rs:1228).                                  *)
IdleIsBlocked ==
  owner = None /\ core # None
    => \A w \in Worker \ (stray \cup unreset) : selector[w] = REJECT

(* Until a test is cancelled or a probe panics, each of its nodes is in    *)
(* exactly one place: waiting, with one worker, or reported; and a test    *)
(* that ended that way has reported all.                                   *)
Probing(j) == {w \in Worker : task[j][w].step \in Live \cup {"finished"}}

NothingLost ==
  \A j \in Test : LET p == test[j] IN
    /\ p.queue \cap p.reported = {}
    /\ \A v, w \in Probing(j) : task[j][v].node = task[j][w].node => v = w
    /\ \A w \in Probing(j) : task[j][w].node \notin p.queue \cup p.reported
    /\ ~p.aborting /\ j \notin cancelled
         /\ (\A w \in Worker : task[j][w].step # "panicked")
         /\ p.at \in {"fill", "wait", "refill", "drain", "store", "unregister",
                      "publish"}
       => p.nodes = p.queue \cup p.reported \cup {task[j][w].node : w \in Probing(j)}
    /\ p.kind # "one" /\ ~p.aborting /\ j \notin cancelled
         /\ p.at \in {"store", "unregister", "publish", "release"}
       => p.reported = p.nodes

(* Results and progress of an earlier test never replace those of a later  *)
(* one, progress never goes back, and a test that is done stays done.      *)
NewestStays ==
  [][/\ \A n \in Node : stored'[n] >= stored[n]
     /\ progress'.test >= progress.test
     /\ progress'.test = progress.test =>
          /\ progress'.completed >= progress.completed
          /\ progress.done => progress'.done]_vars

(* A test ends, and the next can start, whatever Mihomo and the user do.   *)
TestsEnd == \A j \in Test : owner = j ~> owner # j
=============================================================================
