------------------------- MODULE SubscriptionRefresh -------------------------
(***************************************************************************)
(* Refreshing the subscriptions: the user's refreshes and those of the     *)
(* background task, next to edits, deletions, the merge of the cloud's     *)
(* subscriptions, starts and stops of the Core, and the end of the program. *)
(*                                                                         *)
(* A refresh takes several steps, and each subscription is kept in four    *)
(* places: its row, its contents (cached payload and nodes, one            *)
(* transaction), the payload that the provider bridge hands to Mihomo, and *)
(* the catalogue the Core was built from.  Who has changed something        *)
(* rebuilds the Core when core_running is set, a flag of its own: a start  *)
(* sets it after it has published the Core, a stop that fails leaves it    *)
(* set, and the dashboard clears it when the Core is unhealthy.            *)
(*                                                                         *)
(* Of a row, only its place in the schedule is kept: due, due later, or    *)
(* disabled; time may make it due at any moment.  Intervals are positive,  *)
(* and a subscription may be downloaded directly or through a node.  All   *)
(* such downloads share the selector n2s-download, which is left out: what *)
(* is downloaded does not depend on it here.                               *)
(***************************************************************************)
EXTENDS Naturals, FiniteSets

CONSTANTS
    Subs,
    Contents,     \* what a provider may answer, and parses
    Users,        \* commands of the user in progress
    Background,   \* the task that refreshes what is due
    None,
    Scopes        \* bounds: in a behaviour, the subscriptions and the kinds of
                  \* commands of one of them

Kinds == {"refresh", "refresh_all", "start", "stop", "change", "merge", "dashboard", "end"}

Row == {"due", "later", "off"}

ASSUME SubsOK ==
    /\ None \notin Subs \cup Contents \cup Row
    /\ Background \notin Users
    /\ Scopes \subseteq [subs: SUBSET Subs, contents: SUBSET Contents, kinds: SUBSET Kinds]
    /\ Scopes # {}

Tasks == Users \cup {Background}

VARIABLES
    row,       \* subscriptions
    cache,     \* cached_payload_cipher and nodes
    bridge,    \* ProviderBridge's payloads
    core,      \* the published Core, by the contents it was built from
    core_running,
    task,      \* the commands and the background task
    app,       \* the program is up, exiting, or gone
    scope,     \* bounds the behaviour
    astray     \* history: bridge and cache parted, since two wrote them at a time,
               \* or the second of the two writes failed

data == <<row, cache>>
vars == <<data, bridge, core, core_running, task, app, scope, astray>>

Catalogue == [Subs -> Contents \cup {None}]

Work == [pc: {"idle", "next", "begin", "select", "fetch", "payload", "commit", "block", "apply",
              "start", "publish", "flag", "upsert", "merge", "restore", "put"},
         list: SUBSET Subs, cur: Subs \cup {None}, changed: BOOLEAN,
         dialer: {"none", "live", "dead"}, got: Contents \cup Row \cup {None},
         seen: Catalogue \cup {None}, overtaken: BOOLEAN]

Idle == [pc |-> "idle", list |-> {}, cur |-> None, changed |-> FALSE, dialer |-> "none",
         got |-> None, seen |-> None, overtaken |-> FALSE]

(* Every variable has its type; contents belong to a row.                  *)
TypeOK ==
    /\ row \in [Subs -> Row \cup {None}]
    /\ cache \in Catalogue /\ bridge \in Catalogue
    /\ \A s \in Subs : cache[s] # None => row[s] # None
    /\ core \in [catalogue: Catalogue, stale: BOOLEAN] \cup {None}
    /\ core_running \in BOOLEAN
    /\ task \in [Tasks -> Work]
    /\ app \in {"up", "exiting", "gone"} /\ scope \in Scopes /\ astray \subseteq Subs

Init ==
    /\ scope \in Scopes
    /\ row \in [Subs -> {None, "due"}]
    /\ \A s \in Subs : row[s] # None => s \in scope.subs
    /\ cache = [s \in Subs |-> None] /\ bridge = [s \in Subs |-> None]
    /\ core = None /\ core_running = FALSE
    /\ task = [t \in Tasks |-> Idle] /\ app = "up" /\ astray = {}

At(t, pc) == task[t].pc = pc
Given(t, kind) == kind \in scope.kinds /\ app # "gone" /\ At(t, "idle")

Set(t, c) == task' = [task EXCEPT ![t] = c]

\* t goes on, and the tasks in who see that they were overtaken.
SetOvertaking(t, c, who) ==
    task' = [u \in Tasks |-> IF u = t THEN c
                             ELSE IF u \in who THEN [task[u] EXCEPT !.overtaken = TRUE]
                             ELSE task[u]]

At2(pc, s) == {u \in Tasks : At(u, pc) /\ task[u].cur = s}
Publishing == {u \in Tasks : At(u, "publish")}

-----------------------------------------------------------------------------
(* refresh_batch::run: one subscription after the other, and the Core once. *)
Due(s) == row[s] = "due"

Batch(t, list) ==
    /\ At(t, "idle")
    /\ Set(t, [Idle EXCEPT !.pc = "next", !.list = list])
    /\ UNCHANGED <<data, bridge, core, core_running, app, scope, astray>>

RefreshOne(t, s) == Given(t, "refresh") /\ row[s] # None /\ Batch(t, {s})
RefreshAll(t) == Given(t, "refresh_all") /\ Batch(t, {s \in Subs : row[s] \in {"due", "later"}})

\* A mutant: the task does not look at the cancellation.
TickAnyway == Batch(Background, {s \in Subs : Due(s)})

Tick == app = "up" /\ Batch(Background, {s \in Subs : Due(s)})

Cancelled(t) == t = Background /\ app # "up"

NextItem(t) ==
    /\ At(t, "next") /\ ~Cancelled(t)
    /\ \E s \in task[t].list :
         Set(t, [task[t] EXCEPT !.cur = s, !.list = @ \ {s}, !.pc = "begin"])
    /\ UNCHANGED <<data, bridge, core, core_running, app, scope, astray>>

BatchDone(t) ==
    /\ At(t, "next") /\ (Cancelled(t) \/ task[t].list = {})
    /\ Set(t, [task[t] EXCEPT !.list = {}, !.pc = "apply"])
    /\ UNCHANGED <<data, bridge, core, core_running, app, scope, astray>>

Ended(t) == [Idle EXCEPT !.pc = "next", !.list = task[t].list, !.changed = task[t].changed]

\* A mutant: the first failure ends the batch.
FailedEndsBatch(t) == [Idle EXCEPT !.pc = "next", !.changed = task[t].changed]

Failed(t) == Ended(t)

-----------------------------------------------------------------------------
(* refresh_subscription_deferred and SubscriptionService::refresh.  The    *)
(* manager is looked up, then the row; going through a node needs a Core.  *)
(* Before the download starts, a failure is not recorded in the row: there *)
(* is no Core, no system proxy, a header that does not parse...            *)
Begin(t) ==
    /\ At(t, "begin")
    /\ \/ row[task[t].cur] # None /\ Set(t, [task[t] EXCEPT !.pc = "fetch"])
       \/ /\ row[task[t].cur] # None /\ core # None
          /\ Set(t, [task[t] EXCEPT !.pc = "select", !.dialer = "live"])
       \/ Set(t, Failed(t))
    /\ UNCHANGED <<data, bridge, core, core_running, app, scope, astray>>

(* CoreDownloadDialer: the node is selected in the Core, which confirms it. *)
Select(t) ==
    /\ At(t, "select") /\ task[t].dialer = "live"
    /\ Set(t, [task[t] EXCEPT !.pc = "fetch"])
    /\ UNCHANGED <<data, bridge, core, core_running, app, scope, astray>>

(* The node is gone, or the Core does not confirm: no error is recorded.   *)
SelectFails(t) ==
    /\ At(t, "select")
    /\ Set(t, Failed(t))
    /\ UNCHANGED <<data, bridge, core, core_running, app, scope, astray>>

(* The download, and parsing it.                                           *)
Fetch(t) ==
    /\ At(t, "fetch") /\ task[t].dialer # "dead"
    /\ \E c \in scope.contents :
         Set(t, [task[t] EXCEPT !.got = c, !.dialer = "none", !.pc = "payload"])
    /\ UNCHANGED <<data, bridge, core, core_running, app, scope, astray>>

Later(s) == row' = [row EXCEPT ![s] = IF @ = "due" THEN "later" ELSE @]

(* mark_error, also when the download is cancelled.                        *)
FetchFails(t) ==
    LET s == task[t].cur
    IN  /\ At(t, "fetch")
        /\ Later(s)
        /\ Set(t, Failed(t))
        /\ UNCHANGED <<cache, bridge, core, core_running, app, scope, astray>>

SetPayload(t) ==
    LET s == task[t].cur
    IN  /\ At(t, "payload")
        /\ bridge' = [bridge EXCEPT ![s] = task[t].got]
        /\ SetOvertaking(t, [task[t] EXCEPT !.pc = "commit"], At2("commit", s))
        /\ UNCHANGED <<data, core, core_running, app, scope, astray>>

Parted(t) == IF task[t].overtaken THEN astray \cup {task[t].cur} ELSE astray \ {task[t].cur}

\* A mutant: the change counts when the refresh has succeeded.
CommitUnmarked(t) ==
    LET s == task[t].cur
    IN  /\ At(t, "commit") /\ row[s] # None
        /\ cache' = [cache EXCEPT ![s] = task[t].got]
        /\ Later(s)
        /\ SetOvertaking(t, [task[t] EXCEPT !.got = None, !.overtaken = FALSE, !.pc = "block"],
                         Publishing \cup At2("put", s))
        /\ astray' = Parted(t)
        /\ UNCHANGED <<bridge, core, core_running, app, scope>>

(* apply_nodes; changed is set before anything else can fail.              *)
Commit(t) ==
    LET s == task[t].cur
    IN  /\ At(t, "commit") /\ row[s] # None
        /\ cache' = [cache EXCEPT ![s] = task[t].got]
        /\ Later(s)
        /\ SetOvertaking(t, [task[t] EXCEPT !.got = None, !.overtaken = FALSE, !.changed = TRUE,
                                            !.pc = "block"],
                         Publishing \cup At2("put", s))
        /\ astray' = Parted(t)
        /\ UNCHANGED <<bridge, core, core_running, app, scope>>

(* The subscription was deleted meanwhile, or the database fails: Mihomo is *)
(* already handed the new contents, and no error is recorded.              *)
CommitFails(t) ==
    /\ At(t, "commit")
    /\ Set(t, Failed(t))
    /\ astray' = astray \cup {task[t].cur}
    /\ UNCHANGED <<data, bridge, core, core_running, app, scope>>

(* The nodes that disappeared are blocked, and the row is queued; either   *)
(* may fail.                                                               *)
Block(t) ==
    /\ At(t, "block")
    /\ Set(t, Ended(t))
    /\ UNCHANGED <<data, bridge, core, core_running, app, scope, astray>>

(* stop_core_inner, under the lock of the Core.  A download through the    *)
(* Core ends with it.  A Core that cannot be stopped is given up.          *)
Cut(c) == IF c.dialer = "live" THEN [c EXCEPT !.dialer = "dead"] ELSE c

Take(t, c) ==
    /\ core' = None
    /\ task' = [u \in Tasks |-> IF u = t THEN c ELSE Cut(task[u])]
    /\ UNCHANGED <<data, bridge, app, scope, astray>>

Stop(t, c) == core_running' = FALSE /\ Take(t, c)

StopFails(t, c) == core # None /\ UNCHANGED core_running /\ Take(t, c)

BlockFails(t) ==
    At(t, "block") /\ core # None /\ (Stop(t, Failed(t)) \/ StopFails(t, Failed(t)))

-----------------------------------------------------------------------------
(* apply_refreshed_subscriptions, rebuild_core, start_core_inner.          *)
PassOver == core' = IF core = None THEN None ELSE [core EXCEPT !.stale = TRUE]

\* A rebuild stops and starts the Core.
Apply(t) ==
    /\ At(t, "apply") /\ task[t].changed /\ core_running
    /\ Stop(t, [Idle EXCEPT !.pc = "start"]) \/ StopFails(t, Idle)

(* There is nothing to apply, or core_running is not set: a Core that is   *)
(* there after all keeps what it was built from.                           *)
ApplyNothing(t) ==
    /\ At(t, "apply") /\ ~(task[t].changed /\ core_running)
    /\ Set(t, Idle)
    /\ IF task[t].changed THEN PassOver ELSE UNCHANGED core
    /\ UNCHANGED <<data, bridge, core_running, app, scope, astray>>

StartRead(t) ==
    /\ At(t, "start") /\ core = None
    /\ Set(t, [Idle EXCEPT !.pc = "publish", !.seen = cache])
    /\ UNCHANGED <<data, bridge, core, core_running, app, scope, astray>>

(* There is a Core already, a port is taken, Mihomo does not come up...    *)
StartFails(t) ==
    /\ At(t, "start") \/ At(t, "publish")
    /\ Set(t, Idle)
    /\ UNCHANGED <<data, bridge, core, core_running, app, scope, astray>>

(* Of two starts the last one stays.                                       *)
Publish(t) ==
    /\ At(t, "publish")
    /\ core' = [catalogue |-> task[t].seen, stale |-> task[t].overtaken]
    /\ task' = [u \in Tasks |-> IF u = t THEN [Idle EXCEPT !.pc = "flag"] ELSE Cut(task[u])]
    /\ UNCHANGED <<data, bridge, core_running, app, scope, astray>>

SetRunning(t) ==
    /\ At(t, "flag")
    /\ core_running' = TRUE
    /\ Set(t, Idle)
    /\ UNCHANGED <<data, bridge, core, app, scope, astray>>

StartCore(t) ==
    /\ Given(t, "start")
    /\ Set(t, [Idle EXCEPT !.pc = "start"])
    /\ UNCHANGED <<data, bridge, core, core_running, app, scope, astray>>

StopCore(t) == Given(t, "stop") /\ (Stop(t, Idle) \/ StopFails(t, Idle))

(* dashboard_snapshot, which the interface asks for all the time.          *)
Dashboard ==
    /\ "dashboard" \in scope.kinds /\ app # "gone"
    /\ core_running' \in {core # None, FALSE}
    /\ UNCHANGED <<data, bridge, core, task, app, scope, astray>>

-----------------------------------------------------------------------------
(* The commands that change a row.  They end with a rebuild, which some of *)
(* them skip when the row cannot be queued.                                *)
Unknown(s) ==
    /\ row[s] = None /\ bridge[s] = None
    /\ \A t \in Tasks : task[t].cur # s /\ s \notin task[t].list

Create(t, s) ==
    /\ Given(t, "change") /\ Unknown(s)
    /\ row' = [row EXCEPT ![s] = "due"]
    /\ Set(t, [Idle EXCEPT !.changed = TRUE, !.pc = "apply"])
    /\ UNCHANGED <<cache, bridge, core, core_running, app, scope, astray>>

(* save_subscription, update_subscription, set_subscription_enabled: the   *)
(* row is read, and written back as a whole.                               *)
Edit(t, s, r) ==
    /\ Given(t, "change") /\ row[s] # None
    /\ r \in {row[s], "off"} \/ row[s] = "off"
    /\ Set(t, [Idle EXCEPT !.cur = s, !.pc = "upsert", !.got = r])
    /\ UNCHANGED <<data, bridge, core, core_running, app, scope, astray>>

Upsert(t) ==
    /\ At(t, "upsert")
    /\ row' = [row EXCEPT ![task[t].cur] = task[t].got]
    /\ \E queued \in BOOLEAN : Set(t, [Idle EXCEPT !.changed = queued, !.pc = "apply"])
    /\ UNCHANGED <<cache, bridge, core, core_running, app, scope, astray>>

\* A mutant: what was downloaded is kept.
RemovedRow(s) ==
    /\ row' = [row EXCEPT ![s] = None]
    /\ UNCHANGED cache

Removed(s) ==
    /\ row' = [row EXCEPT ![s] = None]
    /\ cache' = [cache EXCEPT ![s] = None]

Delete(t, s) ==
    /\ Given(t, "change") /\ row[s] # None
    /\ Removed(s)
    /\ \E queued \in BOOLEAN : Set(t, [Idle EXCEPT !.changed = queued, !.pc = "apply"])
    /\ UNCHANGED <<bridge, core, core_running, app, scope, astray>>

-----------------------------------------------------------------------------
(* cloud_pull_merge, as far as it applies subscriptions: it is refused     *)
(* while core_running is set, and the bridge follows when all is applied.  *)
MergeStart(t) ==
    /\ Given(t, "merge") /\ ~core_running
    /\ Set(t, [Idle EXCEPT !.pc = "merge"])
    /\ UNCHANGED <<data, bridge, core, core_running, app, scope, astray>>

(* apply_subscription: the row, and its contents when the event has any.   *)
MergeRow(t, s, r) ==
    /\ At(t, "merge")
    /\ row' = [row EXCEPT ![s] = r]
    /\ UNCHANGED <<cache, bridge, core, core_running, task, app, scope, astray>>

MergeContents(t, s, c) ==
    /\ At(t, "merge") /\ row[s] # None
    /\ cache' = [cache EXCEPT ![s] = c]
    /\ Later(s) /\ PassOver
    /\ SetOvertaking(t, task[t], Publishing \cup At2("put", s))
    /\ astray' = astray \cup {s}
    /\ UNCHANGED <<bridge, core_running, app, scope>>

MergeDelete(t, s) ==
    /\ At(t, "merge") /\ row[s] # None
    /\ Removed(s)
    /\ UNCHANGED <<bridge, core, core_running, task, app, scope, astray>>

(* A merge that cannot apply an event leaves the bridge as it is.          *)
MergeFails(t) ==
    /\ At(t, "merge") \/ At(t, "restore")
    /\ Set(t, Idle)
    /\ UNCHANGED <<data, bridge, core, core_running, app, scope, astray>>

MergeDone(t) ==
    /\ At(t, "merge")
    /\ Set(t, [Idle EXCEPT !.list = {s \in Subs : row[s] # None}, !.pc = "restore"])
    /\ UNCHANGED <<data, bridge, core, core_running, app, scope, astray>>

(* restore_bridge.                                                         *)
RestoreRead(t) ==
    /\ At(t, "restore")
    /\ \E s \in task[t].list :
         IF cache[s] = None THEN Set(t, [task[t] EXCEPT !.list = @ \ {s}])
         ELSE Set(t, [task[t] EXCEPT !.list = @ \ {s}, !.cur = s, !.got = cache[s], !.pc = "put"])
    /\ UNCHANGED <<data, bridge, core, core_running, app, scope, astray>>

RestorePut(t) ==
    LET s == task[t].cur
    IN  /\ At(t, "put")
        /\ bridge' = [bridge EXCEPT ![s] = task[t].got]
        /\ SetOvertaking(t, [Idle EXCEPT !.list = task[t].list, !.pc = "restore"],
                         At2("commit", s))
        /\ astray' = Parted(t)
        /\ UNCHANGED <<data, core, core_running, app, scope>>

RestoreDone(t) ==
    /\ At(t, "restore") /\ task[t].list = {}
    /\ Set(t, Idle)
    /\ UNCHANGED <<data, bridge, core, core_running, app, scope, astray>>

-----------------------------------------------------------------------------
(* Time, the end and the next start.                                       *)
TimePasses(s) ==
    /\ row[s] = "later"
    /\ row' = [row EXCEPT ![s] = "due"]
    /\ UNCHANGED <<cache, bridge, core, core_running, task, app, scope, astray>>

Exit ==
    /\ "end" \in scope.kinds
    /\ app = "up" /\ app' = "exiting"
    /\ UNCHANGED <<data, bridge, core, core_running, task, scope, astray>>

Gone ==
    /\ app' = "gone" /\ core' = None /\ core_running' = FALSE
    /\ task' = [t \in Tasks |-> Idle]
    /\ bridge' = [s \in Subs |-> None] /\ astray' = {}
    /\ UNCHANGED <<data, scope>>

(* RunEvent::Exit waits for the background task before it stops the Core.  *)
ExitDone == app = "exiting" /\ At(Background, "idle") /\ Gone

Crash == "end" \in scope.kinds /\ app # "gone" /\ Gone

\* A mutant: the bridge is filled by the refreshes alone.
LaunchEmpty ==
    /\ app = "gone" /\ app' = "up"
    /\ UNCHANGED <<data, bridge, core, core_running, task, scope, astray>>

(* setup: the bridge from the database.                                    *)
Launch ==
    /\ app = "gone" /\ app' = "up"
    /\ bridge' = cache
    /\ UNCHANGED <<data, core, core_running, task, scope, astray>>

RefreshStep(t) ==
    \/ NextItem(t) \/ BatchDone(t) \/ Begin(t) \/ Select(t) \/ SelectFails(t) \/ Fetch(t)
    \/ FetchFails(t) \/ SetPayload(t) \/ Commit(t) \/ CommitFails(t) \/ Block(t) \/ BlockFails(t)
    \/ Apply(t) \/ ApplyNothing(t) \/ StartRead(t) \/ StartFails(t) \/ Publish(t) \/ SetRunning(t)

MergeStep(t) ==
    \/ MergeStart(t) \/ MergeFails(t) \/ MergeDone(t)
    \/ RestoreRead(t) \/ RestorePut(t) \/ RestoreDone(t)
    \/ \E s \in scope.subs, r \in Row : MergeRow(t, s, r)
    \/ \E s \in scope.subs, c \in scope.contents : MergeContents(t, s, c)
    \/ \E s \in scope.subs : MergeDelete(t, s)

Command(t) ==
    \/ RefreshAll(t) \/ StartCore(t) \/ StopCore(t) \/ Upsert(t)
    \/ \E s \in scope.subs : RefreshOne(t, s) \/ Create(t, s) \/ Delete(t, s)
    \/ \E s \in scope.subs, r \in Row : Edit(t, s, r)

BackgroundStep == Tick \/ RefreshStep(Background)

Next ==
    \/ BackgroundStep
    \/ \E t \in Users : RefreshStep(t) \/ MergeStep(t) \/ Command(t)
    \/ \E s \in Subs : TimePasses(s)
    \/ Dashboard \/ Exit \/ ExitDone \/ Crash \/ Launch

(* Downloads and requests to Mihomo time out, and the interval ticks.      *)
Fairness == WF_vars(BackgroundStep) /\ WF_vars(ExitDone)

Spec == Init /\ [][Next]_vars /\ Fairness

-----------------------------------------------------------------------------
(* The Core runs the catalogue that is committed, unless someone is still  *)
(* about to apply the change: whatever fails after a commit, the batch     *)
(* comes to apply_refreshed_subscriptions with changed set.  A Core is     *)
(* stale that was passed over there, since core_running was not set at that *)
(* moment, that began to start before a commit, or that was there during a *)
(* merge.                                                                  *)
ChangesAreApplied ==
    core # None /\ ~core.stale =>
        \A s \in Subs : cache[s] # None /\ core.catalogue[s] # cache[s] =>
            \E t \in Tasks : task[t].changed

(* What Mihomo is handed for a subscription is what the catalogue was made *)
(* from, but for a refresh or restore in between, unless two of them       *)
(* overlapped, a refresh failed between its two writes, or a merge stopped *)
(* half way; a later refresh or restore that no other overlaps repairs it. *)
BridgeIsCache ==
    app # "gone" => \A s \in Subs \ astray : cache[s] # None /\ bridge[s] # cache[s] =>
        At2("commit", s) \cup At2("put", s) # {}

(* While the program stays up, a subscription that is due is attempted,    *)
(* whatever becomes of the ones before it.                                 *)
DueIsAttempted ==
    <>[](app = "up") => \A s \in Subs : []<>(~Due(s) \/ task[Background].cur = s)

(* An exit does not hang on the refresh it waits for.                      *)
ExitEnds == app = "exiting" ~> app = "gone"
=============================================================================
