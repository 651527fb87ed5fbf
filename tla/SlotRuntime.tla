---------------------------- MODULE SlotRuntime ----------------------------
(***************************************************************************)
(* The fail-closed core of Node2Socks: which node a fixed local port       *)
(* (a Slot) leaves through, while the commands of the desktop application, *)
(* its background refresh and the Mihomo crash monitor run concurrently.   *)
(*                                                                         *)
(* Every Tauri command, the 30-second refresh task and the tray menu are   *)
(* tasks of one tokio runtime that share ProductState without a global     *)
(* lock.  A task is a Worker here: its pc names the await point (or the    *)
(* database transaction) it stands before, and one action is what the task *)
(* does until the next one.                                                *)
(***************************************************************************)
EXTENDS Naturals, FiniteSets

CONSTANTS
    Slots,              \* rows of proxy_slots (fixed ports)
    Nodes,              \* rows of nodes, of one subscription
    Contents,           \* the node sets the provider may deliver
    Workers,            \* tasks that may run a command at the same time
    Commands,           \* the commands each of these tasks may run
    Managers,           \* MihomoManager values alive at the same time
    None,               \* no node / REJECT / no manager / no task
    MaxRestartAttempts, \* MihomoConfig.max_restart_attempts (3 in the code)
    Faults,             \* whether Mihomo may exit, and calls to it may fail
    CanExit             \* whether the application may end and be restarted

ASSUME ConstantsOK ==
    /\ Commands \in [Workers -> SUBSET {"bind", "update", "refresh", "start", "stop"}]
    /\ Contents \subseteq (SUBSET Nodes) \ {{}}
    /\ MaxRestartAttempts \in Nat
    /\ Faults \in BOOLEAN
    /\ CanExit \in BOOLEAN
    /\ None \notin Nodes \cup Managers \cup Workers
    /\ Workers # {}

VARIABLES
    present,     \* nodes with is_present = 1 (and the cached payload's nodes)
    dbNode,      \* slot_bindings.node_id
    dbState,     \* slot_bindings.state
    payload,     \* what the provider bridge serves
    cacheFile,   \* the provider file Mihomo keeps on disk; {} while there is none
    core,        \* ProductState.core
    coreLock,    \* the task that keeps core's mutex across an await
    monitor,     \* ProductState.crash_monitor: the manager it watches
    coreRunning, \* ProductState.core_running
    mgr,         \* the managers, with their Mihomo process and monitor task
    worker,      \* the tasks
    requested,   \* history: nodes the user ever asked for, by Slot
    disturbed    \* history: since Mihomo was last at rest, commands overlapped or
                 \* something failed

db == <<present, dbNode, dbState>>
bridge == <<payload, cacheFile>>
handles == <<core, coreLock, monitor, coreRunning>>
vars == <<present, dbNode, dbState, payload, cacheFile, core, coreLock,
          monitor, coreRunning, mgr, worker, requested, disturbed>>

Target == Nodes \cup {None}
NoTargets == [s \in Slots |-> None]

(* running = None, a live child, or a child that exited unnoticed.         *)
ChildState == {"none", "up", "exited"}
(* The monitor task: not running, polling, in the backoff of a recovery,   *)
(* in one after its handle was dropped; or there is no task and no manager *)
(* any more, only a process that outlived the application.                 *)
MonitorState == {"off", "watch", "backoff", "doomed", "left"}
Manager == [child: ChildState, listens: BOOLEAN, mon: MonitorState,
            attempts: 0 .. MaxRestartAttempts + 1,
            topo: [Slots -> Target], sel: [Slots -> Target], loaded: SUBSET Nodes]
FreeManager == [child |-> "none", listens |-> FALSE, mon |-> "off", attempts |-> 0,
                topo |-> NoTargets, sel |-> NoTargets, loaded |-> {}]

BindPC == {"bindSelect", "bindConfirm", "bindWrite", "updateWrite"}
RefreshPC == {"refreshApply", "refreshCore", "block", "blockConfirm",
              "blockWrite", "orphan", "apply"}
StopPC == {"stopMonitor", "stopCore", "stopFlag"}
StartPC == {"startCheck", "startRead", "startSpawn", "startProviders",
            "publishCore", "publishMonitor", "restoreRead", "restore"}
PC == {"idle"} \cup BindPC \cup RefreshPC \cup StopPC \cup StartPC

(* slot, node: the command's arguments.  mgr: an Arc the task keeps.  ctl: *)
(* the controller of one Mihomo process, None once that process is gone.   *)
(* snap: what the task read from the database.  nodes: the fetched nodes,  *)
(* then the disappeared ones.  then: where stop_core_inner returns to.     *)
Worker == [pc: PC, slot: Slots \cup {None}, node: Target,
           mgr: Managers \cup {None}, ctl: Managers \cup {None},
           snap: [Slots -> Target], nodes: SUBSET Nodes,
           then: {"idle", "start", "apply"}]
IdleWorker == [pc |-> "idle", slot |-> None, node |-> None, mgr |-> None,
               ctl |-> None, snap |-> NoTargets, nodes |-> {}, then |-> "idle"]

(* Every variable holds a value of its type.                               *)
TypeOK ==
    /\ present \subseteq Nodes
    /\ dbNode \in [Slots -> Target]
    /\ dbState \in [Slots -> {"unbound", "active", "orphaned"}]
    /\ payload \subseteq Nodes
    /\ cacheFile \subseteq Nodes
    /\ core \in Managers \cup {None}
    /\ coreLock \in Workers \cup {None}
    /\ monitor \in Managers \cup {None}
    /\ coreRunning \in BOOLEAN
    /\ mgr \in [Managers -> Manager]
    /\ worker \in [Workers -> Worker]
    /\ requested \in [Slots -> SUBSET Nodes]
    /\ disturbed \in BOOLEAN

-----------------------------------------------------------------------------
(* What a selector answers as "now": its choice when a loaded provider has *)
(* it, else its first member, REJECT (written None).                       *)
Effective(g, s) ==
    IF mgr[g].sel[s] \in mgr[g].loaded THEN mgr[g].sel[s] ELSE None

(* The node the traffic of Slot s leaves through, by manager g's process.  *)
Routes(g, s) ==
    IF mgr[g].child = "up" /\ mgr[g].listens THEN Effective(g, s) ELSE None

Up(g) == g # None /\ mgr[g].child = "up"

(* Controller c can switch a selector to node n; it answers n for Slot s.  *)
Selectable(c, n) == c # None /\ n \in mgr[c].loaded
Answers(c, s, n) == c # None /\ Effective(c, s) = n

Referenced(g) ==
    \/ core = g
    \/ monitor = g
    \/ mgr[g].mon # "off"
    \/ \E w \in Workers : worker[w].mgr = g

AnyListening == \E g \in Managers : mgr[g].child = "up" /\ mgr[g].listens

(* Mutant: a Slot without a present node falls back to another one.        *)
TopologyFallsBack ==
    [s \in Slots |-> IF dbNode[s] \in present THEN dbNode[s] ELSE CHOOSE n \in present : TRUE]

(* The bound node of every Slot whose node is present, whatever its state. *)
Topology == [s \in Slots |-> IF dbNode[s] \in present THEN dbNode[s] ELSE None]

ProviderNodes == IF cacheFile = {} THEN payload ELSE cacheFile

(* Manager record m after spawn() got a healthy Mihomo.                    *)
Spawned(m) == [m EXCEPT !.child = "up", !.listens = ~AnyListening,
                        !.sel = m.topo, !.loaded = ProviderNodes]

(* The process of m is gone, and what it had selected and loaded with it.  *)
Dead(m, child) == [m EXCEPT !.child = child, !.listens = FALSE,
                            !.sel = NoTargets, !.loaded = {}]

(* The process of m when nothing of the application is left around it.     *)
Left(m) == [FreeManager EXCEPT !.child = "up", !.mon = "left", !.listens = m.listens,
                               !.sel = m.sel, !.loaded = m.loaded]

(* Controllers of g's process answer no more: the next one has another     *)
(* port and secret.                                                        *)
Disconnected(g, wk) ==
    [w \in Workers |-> IF wk[w].ctl = g THEN [wk[w] EXCEPT !.ctl = None] ELSE wk[w]]

Goto(w, label) == worker' = [worker EXCEPT ![w].pc = label]
Return(w) == worker' = [worker EXCEPT ![w] = IdleWorker]

Init ==
    /\ present \in Contents
    /\ dbNode = NoTargets
    /\ dbState = [s \in Slots |-> "unbound"]
    /\ payload = present
    /\ cacheFile = {}
    /\ core = None
    /\ coreLock = None
    /\ monitor = None
    /\ coreRunning = FALSE
    /\ mgr = [g \in Managers |-> FreeManager]
    /\ worker = [w \in Workers |-> IdleWorker]
    /\ requested = [s \in Slots |-> {}]
    /\ disturbed = FALSE

-----------------------------------------------------------------------------
(* bind_slot: the node is looked up, Mihomo is switched under the core     *)
(* lock and asked back, then the binding is written without the lock.      *)
BindCheck(w, s, n) ==
    /\ worker[w].pc = "idle"
    /\ n \in present
    /\ worker' = [worker EXCEPT ![w].pc = "bindSelect", ![w].slot = s, ![w].node = n]
    /\ requested' = [requested EXCEPT ![s] = @ \cup {n}]
    /\ UNCHANGED <<db, bridge, handles, mgr>>

BindOffline(w) ==
    /\ worker[w].pc = "bindSelect"
    /\ coreLock = None
    /\ core = None
    /\ Goto(w, "bindWrite")
    /\ UNCHANGED <<db, bridge, handles, mgr, requested>>

BindSelect(w) ==
    /\ worker[w].pc = "bindSelect"
    /\ coreLock = None
    /\ Up(core) /\ Selectable(core, worker[w].node)
    /\ mgr' = [mgr EXCEPT ![core].sel[worker[w].slot] = worker[w].node]
    /\ coreLock' = w
    /\ worker' = [worker EXCEPT ![w].pc = "bindConfirm", ![w].ctl = core]
    /\ UNCHANGED <<db, bridge, core, monitor, coreRunning, requested>>

BindSelectFails(w) ==
    /\ worker[w].pc = "bindSelect"
    /\ coreLock = None
    /\ core # None
    /\ ~(Up(core) /\ Selectable(core, worker[w].node)) \/ Faults
    /\ Return(w)
    /\ UNCHANGED <<db, bridge, handles, mgr, requested>>

BindConfirm(w) ==
    /\ worker[w].pc = "bindConfirm"
    /\ Answers(worker[w].ctl, worker[w].slot, worker[w].node)
    /\ coreLock' = None
    /\ worker' = [worker EXCEPT ![w].pc = "bindWrite", ![w].ctl = None]
    /\ UNCHANGED <<db, bridge, core, monitor, coreRunning, mgr, requested>>

(* Mutant: another answer is no error; Mihomo is asked until it confirms.  *)
BindUnconfirmedAsksAgain(w) ==
    /\ worker[w].pc = "bindConfirm"
    /\ worker[w].ctl = None
    /\ coreLock' = None
    /\ Return(w)
    /\ UNCHANGED <<db, bridge, core, monitor, coreRunning, mgr, requested>>

BindUnconfirmed(w) ==
    /\ worker[w].pc = "bindConfirm"
    /\ ~Answers(worker[w].ctl, worker[w].slot, worker[w].node) \/ Faults
    /\ coreLock' = None
    /\ Return(w)
    /\ UNCHANGED <<db, bridge, core, monitor, coreRunning, mgr, requested>>

BindWrite(w) ==
    /\ worker[w].pc = "bindWrite"
    /\ dbNode' = [dbNode EXCEPT ![worker[w].slot] = worker[w].node]
    /\ dbState' = [dbState EXCEPT ![worker[w].slot] = "active"]
    /\ Return(w)
    /\ UNCHANGED <<present, bridge, handles, mgr, requested>>

(* update_slot: the same look-up, then the database only, then a rebuild.  *)
UpdateCheck(w, s, n) ==
    /\ worker[w].pc = "idle"
    /\ n \in present
    /\ worker' = [worker EXCEPT ![w].pc = "updateWrite", ![w].slot = s, ![w].node = n]
    /\ requested' = [requested EXCEPT ![s] = @ \cup {n}]
    /\ UNCHANGED <<db, bridge, handles, mgr>>

UpdateWrite(w) ==
    /\ worker[w].pc = "updateWrite"
    /\ dbNode' = [dbNode EXCEPT ![worker[w].slot] = worker[w].node]
    /\ dbState' = [dbState EXCEPT ![worker[w].slot] = "active"]
    /\ Goto(w, "apply")
    /\ UNCHANGED <<present, bridge, handles, mgr, requested>>

(* Mutant: a mutation is not applied to the running core.                  *)
ApplyNothing(w) ==
    /\ worker[w].pc = "apply"
    /\ Return(w)
    /\ UNCHANGED <<db, bridge, handles, mgr, requested>>

(* The end of every mutation: rebuild_core when core_running says so.      *)
Apply(w) ==
    /\ worker[w].pc = "apply"
    /\ IF coreRunning
       THEN worker' = [worker EXCEPT ![w] =
                          [IdleWorker EXCEPT !.pc = "stopMonitor", !.then = "start"]]
       ELSE Return(w)
    /\ UNCHANGED <<db, bridge, handles, mgr, requested>>

-----------------------------------------------------------------------------
(* refresh_subscription: the bridge gets the new payload, then the         *)
(* catalogue is replaced in one transaction that also says which present   *)
(* nodes disappeared.                                                      *)
RefreshFetch(w, P) ==
    /\ worker[w].pc = "idle"
    /\ payload' = P
    /\ worker' = [worker EXCEPT ![w].pc = "refreshApply", ![w].nodes = P]
    /\ UNCHANGED <<db, cacheFile, handles, mgr, requested>>

(* Mutant: the command returns right after the commit.                     *)
RefreshApplyReturns(w) ==
    /\ worker[w].pc = "refreshApply"
    /\ present' = worker[w].nodes
    /\ Return(w)
    /\ UNCHANGED <<dbNode, dbState, bridge, handles, mgr, requested>>

RefreshApply(w) ==
    /\ worker[w].pc = "refreshApply"
    /\ present' = worker[w].nodes
    /\ LET disappeared == present \ worker[w].nodes
       IN worker' = [worker EXCEPT ![w].nodes = disappeared,
                        ![w].pc = IF disappeared = {} THEN "apply" ELSE "refreshCore"]
    /\ UNCHANGED <<dbNode, dbState, bridge, handles, mgr, requested>>

RefreshApplyFails(w) ==
    /\ Faults
    /\ worker[w].pc = "refreshApply"
    /\ Return(w)
    /\ UNCHANGED <<db, bridge, handles, mgr, requested>>

(* Mutant: the difference of the catalogues taken the other way round.     *)
AffectedSurvivors(w) ==
    [s \in Slots |-> IF dbNode[s] \in present THEN dbNode[s] ELSE None]

(* The Slots bound to a disappeared node, as the task lists them now.      *)
Affected(w) ==
    [s \in Slots |-> IF dbNode[s] \in worker[w].nodes THEN dbNode[s] ELSE None]

RefreshCoreOff(w) ==
    /\ worker[w].pc = "refreshCore"
    /\ coreLock = None
    /\ core = None
    /\ worker' = [worker EXCEPT ![w].pc = "orphan", ![w].snap = Affected(w)]
    /\ UNCHANGED <<db, bridge, handles, mgr, requested>>

(* Mutant: with a running core, too, the database comes first.             *)
RefreshDatabaseFirst(w) ==
    /\ worker[w].pc = "refreshCore"
    /\ coreLock = None
    /\ Up(core)
    /\ worker' = [worker EXCEPT ![w].pc = "orphan", ![w].snap = Affected(w)]
    /\ UNCHANGED <<db, bridge, handles, mgr, requested>>

RefreshCoreOn(w) ==
    /\ worker[w].pc = "refreshCore"
    /\ coreLock = None
    /\ Up(core)
    /\ worker' = [worker EXCEPT ![w].pc = "block", ![w].snap = Affected(w),
                                ![w].mgr = core, ![w].ctl = core]
    /\ UNCHANGED <<db, bridge, handles, mgr, requested>>

(* A block that cannot be confirmed stops the core, and the error leaves   *)
(* the remaining bindings as they are.                                     *)
BlockFails(w) ==
    /\ \/ /\ worker[w].pc = "refreshCore"
          /\ coreLock = None
          /\ core # None
          /\ ~Up(core) \/ Faults
       \/ /\ worker[w].pc = "block"
          /\ worker[w].snap # NoTargets
          /\ worker[w].ctl = None \/ Faults
       \/ /\ worker[w].pc = "blockConfirm"
          /\ ~Answers(worker[w].ctl, worker[w].slot, None) \/ Faults
    /\ worker' = [worker EXCEPT ![w] =
                     [IdleWorker EXCEPT !.pc = "stopMonitor", !.then = "apply"]]
    /\ UNCHANGED <<db, bridge, handles, mgr, requested>>

(* fail_closed_disappeared: REJECT, confirm, write; Slot after Slot.       *)
BlockSelect(w, s) ==
    /\ worker[w].pc = "block"
    /\ worker[w].snap[s] # None
    /\ worker[w].ctl # None
    /\ mgr' = [mgr EXCEPT ![worker[w].ctl].sel[s] = None]
    /\ worker' = [worker EXCEPT ![w].pc = "blockConfirm", ![w].slot = s]
    /\ UNCHANGED <<db, bridge, handles, requested>>

BlockConfirm(w) ==
    /\ worker[w].pc = "blockConfirm"
    /\ Answers(worker[w].ctl, worker[w].slot, None)
    /\ Goto(w, "blockWrite")
    /\ UNCHANGED <<db, bridge, handles, mgr, requested>>

MarkOrphaned(w, s) ==
    /\ dbNode' = [dbNode EXCEPT ![s] = worker[w].snap[s]]
    /\ dbState' = [dbState EXCEPT ![s] = "orphaned"]

BlockWrite(w) ==
    /\ worker[w].pc = "blockWrite"
    /\ MarkOrphaned(w, worker[w].slot)
    /\ worker' = [worker EXCEPT ![w].pc = "block", ![w].snap[worker[w].slot] = None]
    /\ UNCHANGED <<present, bridge, handles, mgr, requested>>

(* The same list when the core is not running: the database alone.         *)
OrphanWrite(w, s) ==
    /\ worker[w].pc = "orphan"
    /\ worker[w].snap[s] # None
    /\ MarkOrphaned(w, s)
    /\ worker' = [worker EXCEPT ![w].snap[s] = None]
    /\ UNCHANGED <<present, bridge, handles, mgr, requested>>

RefreshDone(w) ==
    /\ worker[w].pc \in {"block", "orphan"}
    /\ worker[w].snap = NoTargets
    /\ Goto(w, "apply")
    /\ UNCHANGED <<db, bridge, handles, mgr, requested>>

-----------------------------------------------------------------------------
(* stop_core_inner: the monitor first, waiting for a recovery under way,   *)
(* then the manager, then the flag.                                        *)
StopCommand(w) ==
    /\ worker[w].pc = "idle"
    /\ Goto(w, "stopMonitor")
    /\ UNCHANGED <<db, bridge, handles, mgr, requested>>

(* Mutant: the monitor is told to stop, its recovery is not waited for.    *)
StopMonitorWithoutWaiting(w) ==
    /\ worker[w].pc = "stopMonitor"
    /\ IF monitor # None /\ mgr[monitor].mon = "watch"
       THEN mgr' = [mgr EXCEPT ![monitor].mon = "off"]
       ELSE UNCHANGED mgr
    /\ monitor' = None
    /\ Goto(w, "stopCore")
    /\ UNCHANGED <<db, bridge, core, coreLock, coreRunning, requested>>

StopMonitor(w) ==
    /\ worker[w].pc = "stopMonitor"
    /\ IF monitor = None
       THEN UNCHANGED mgr
       ELSE /\ mgr[monitor].mon = "watch"
            /\ mgr' = [mgr EXCEPT ![monitor].mon = "off"]
    /\ monitor' = None
    /\ Goto(w, "stopCore")
    /\ UNCHANGED <<db, bridge, core, coreLock, coreRunning, requested>>

StopCore(w) ==
    /\ worker[w].pc = "stopCore"
    /\ coreLock = None
    /\ IF core = None
       THEN /\ Goto(w, "stopFlag")
            /\ UNCHANGED mgr
       ELSE /\ mgr' = [mgr EXCEPT ![core] = Dead(@, "none")]
            /\ worker' = Disconnected(core, [worker EXCEPT ![w].pc = "stopFlag"])
    /\ core' = None
    /\ UNCHANGED <<db, bridge, coreLock, monitor, coreRunning, requested>>

(* manager.stop() failed: the handle is gone and dropping the child kills  *)
(* it, but the flag keeps its value.                                       *)
StopCoreFails(w) ==
    /\ Faults
    /\ worker[w].pc = "stopCore"
    /\ coreLock = None
    /\ core # None
    /\ mgr[core].child # "none"
    /\ mgr' = [mgr EXCEPT ![core] = Dead(@, "none")]
    /\ worker' = Disconnected(core, [worker EXCEPT ![w] =
                    IF worker[w].then = "apply"
                    THEN [IdleWorker EXCEPT !.pc = "apply"] ELSE IdleWorker])
    /\ core' = None
    /\ UNCHANGED <<db, bridge, coreLock, monitor, coreRunning, requested>>

AfterStop(then) ==
    CASE then = "start" -> "startCheck"
      [] then = "apply" -> "apply"
      [] then = "idle" -> "idle"

StopFlag(w) ==
    /\ worker[w].pc = "stopFlag"
    /\ coreRunning' = FALSE
    /\ worker' = [worker EXCEPT ![w] =
                     [IdleWorker EXCEPT !.pc = AfterStop(worker[w].then)]]
    /\ UNCHANGED <<db, bridge, core, coreLock, monitor, mgr, requested>>

-----------------------------------------------------------------------------
(* start_core_inner: the core lock is only held for the first check.       *)
StartCommand(w) ==
    /\ worker[w].pc = "idle"
    /\ Goto(w, "startCheck")
    /\ UNCHANGED <<db, bridge, handles, mgr, requested>>

StartCheck(w) ==
    /\ worker[w].pc = "startCheck"
    /\ coreLock = None
    /\ IF core = None THEN Goto(w, "startRead") ELSE Return(w)
    /\ UNCHANGED <<db, bridge, handles, mgr, requested>>

(* Nodes and Slots are read, then every Slot's port is probed.             *)
StartRead(w) ==
    /\ worker[w].pc = "startRead"
    /\ IF AnyListening
       THEN Return(w)
       ELSE worker' = [worker EXCEPT ![w].pc = "startSpawn", ![w].snap = Topology]
    /\ UNCHANGED <<db, bridge, handles, mgr, requested>>

StartSpawn(w, g) ==
    /\ worker[w].pc = "startSpawn"
    /\ mgr[g] = FreeManager
    /\ ~Referenced(g)
    /\ mgr' = [mgr EXCEPT ![g] = Spawned([FreeManager EXCEPT !.topo = worker[w].snap])]
    /\ cacheFile' = ProviderNodes
    /\ worker' = [worker EXCEPT ![w].pc = "startProviders", ![w].mgr = g,
                                ![w].snap = NoTargets]
    /\ UNCHANGED <<db, payload, handles, requested>>

StartSpawnFails(w) ==
    /\ Faults
    /\ worker[w].pc = "startSpawn"
    /\ Return(w)
    /\ UNCHANGED <<db, bridge, handles, mgr, requested>>

(* refresh_core_providers, whose failure is only logged, and then the      *)
(* monitor task is spawned.                                                *)
StartProviders(w) ==
    /\ worker[w].pc = "startProviders"
    /\ Up(worker[w].mgr)
    /\ mgr' = [mgr EXCEPT ![worker[w].mgr].loaded = payload, ![worker[w].mgr].mon = "watch"]
    /\ cacheFile' = payload
    /\ Goto(w, "publishCore")
    /\ UNCHANGED <<db, payload, handles, requested>>

StartProvidersFail(w) ==
    /\ worker[w].pc = "startProviders"
    /\ ~Up(worker[w].mgr) \/ Faults
    /\ mgr' = [mgr EXCEPT ![worker[w].mgr].mon = "watch"]
    /\ Goto(w, "publishCore")
    /\ UNCHANGED <<db, bridge, handles, requested>>

PublishCore(w) ==
    /\ worker[w].pc = "publishCore"
    /\ coreLock = None
    /\ core' = worker[w].mgr
    /\ Goto(w, "publishMonitor")
    /\ UNCHANGED <<db, bridge, coreLock, monitor, coreRunning, mgr, requested>>

(* Replacing a handle drops it: its task ends, after a recovery under way. *)
PublishMonitor(w) ==
    /\ worker[w].pc = "publishMonitor"
    /\ mgr' = IF monitor = None THEN mgr
              ELSE [mgr EXCEPT ![monitor].mon = IF @ = "backoff" THEN "doomed" ELSE "off"]
    /\ monitor' = worker[w].mgr
    /\ coreRunning' = TRUE
    /\ Goto(w, "restoreRead")
    /\ UNCHANGED <<db, bridge, core, coreLock, requested>>

(* restore_slot_selectors: a second reading of the database, then one      *)
(* select per Slot; a failure or another answer is only logged.            *)
RestoreRead(w) ==
    /\ worker[w].pc = "restoreRead"
    /\ IF Up(worker[w].mgr)
       THEN worker' = [worker EXCEPT ![w].pc = "restore", ![w].snap = Topology,
                                     ![w].ctl = worker[w].mgr]
       ELSE Return(w)
    /\ UNCHANGED <<db, bridge, handles, mgr, requested>>

RestoreSelect(w, s) ==
    /\ worker[w].pc = "restore"
    /\ worker[w].snap[s] # None
    /\ Selectable(worker[w].ctl, worker[w].snap[s])
    /\ mgr' = [mgr EXCEPT ![worker[w].ctl].sel[s] = worker[w].snap[s]]
    /\ worker' = [worker EXCEPT ![w].snap[s] = None]
    /\ UNCHANGED <<db, bridge, handles, requested>>

RestoreSelectFails(w, s) ==
    /\ worker[w].pc = "restore"
    /\ worker[w].snap[s] # None
    /\ ~Selectable(worker[w].ctl, worker[w].snap[s]) \/ Faults
    /\ worker' = [worker EXCEPT ![w].snap[s] = None]
    /\ UNCHANGED <<db, bridge, handles, mgr, requested>>

RestoreDone(w) ==
    /\ worker[w].pc = "restore"
    /\ worker[w].snap = NoTargets
    /\ Return(w)
    /\ UNCHANGED <<db, bridge, handles, mgr, requested>>

-----------------------------------------------------------------------------
(* The Mihomo process and its crash monitor.                               *)
ChildExit(g) ==
    /\ Faults
    /\ Up(g) /\ mgr[g].mon # "left"
    /\ mgr' = [mgr EXCEPT ![g] = Dead(@, "exited")]
    /\ worker' = Disconnected(g, worker)
    /\ UNCHANGED <<db, bridge, handles, requested>>

(* A process that was left behind exits by itself, or is ended by hand.    *)
LeftExits(g) ==
    /\ Faults
    /\ mgr[g].mon = "left"
    /\ mgr' = [mgr EXCEPT ![g] = FreeManager]
    /\ UNCHANGED <<db, bridge, handles, worker, requested>>

(* Mutant: recoveries without a limit.                                     *)
MonitorDetectUnbounded(g) ==
    /\ mgr[g].mon = "watch"
    /\ mgr[g].child = "exited"
    /\ mgr' = [mgr EXCEPT ![g].child = "none", ![g].mon = "backoff",
                          ![g].attempts = @ + 1]
    /\ UNCHANGED <<db, bridge, handles, worker, requested>>

(* recover_if_crashed up to its backoff; past the limit it gives up.       *)
MonitorDetect(g) ==
    /\ mgr[g].mon = "watch"
    /\ mgr[g].child = "exited"
    /\ LET attempt == mgr[g].attempts + 1
       IN mgr' = [mgr EXCEPT ![g].child = "none", ![g].attempts = attempt,
                    ![g].mon = IF attempt > MaxRestartAttempts THEN "watch" ELSE "backoff"]
    /\ UNCHANGED <<db, bridge, handles, worker, requested>>

(* Its spawn, from the topology the manager was created with.              *)
MonitorRespawn(g) ==
    /\ mgr[g].mon \in {"backoff", "doomed"}
    /\ LET mon == IF mgr[g].mon = "backoff" THEN "watch" ELSE "off" IN
       \/ /\ mgr' = [mgr EXCEPT ![g] = [Spawned(@) EXCEPT !.mon = mon]]
          /\ cacheFile' = ProviderNodes
       \/ /\ Faults
          /\ mgr' = [mgr EXCEPT ![g].mon = mon]
          /\ UNCHANGED cacheFile
    /\ UNCHANGED <<db, payload, handles, worker, requested>>

(* The last Arc of a manager is gone: kill_on_drop ends its process.       *)
DropManager(g) ==
    /\ mgr[g] # FreeManager
    /\ ~Referenced(g)
    /\ mgr' = [mgr EXCEPT ![g] = FreeManager]
    /\ UNCHANGED <<db, bridge, handles, worker, requested>>

(* dashboard_snapshot overwrites core_running with the core's health.      *)
Dashboard ==
    /\ coreLock = None
    /\ coreRunning' = Up(core)
    /\ UNCHANGED <<db, bridge, core, coreLock, monitor, mgr, worker, requested>>

DashboardFails ==
    /\ Faults
    /\ coreLock = None
    /\ Up(core)
    /\ coreRunning' = FALSE
    /\ UNCHANGED <<db, bridge, core, coreLock, monitor, mgr, worker, requested>>

(* The application ends, in whatever its tasks were doing, and is started  *)
(* again: the database and the provider file remain, restore_bridge        *)
(* reloads the payload stored with the catalogue.  Only an orderly exit    *)
(* stops the core, and only the one that is published; kill_on_drop does   *)
(* nothing in an application that is killed.  So any Mihomo may go on, and *)
(* nothing looks for it later.                                             *)
ExitAndRestart ==
    /\ CanExit
    /\ payload' = present
    /\ core' = None
    /\ coreLock' = None
    /\ monitor' = None
    /\ coreRunning' = FALSE
    /\ \E survivors \in SUBSET {g \in Managers : Up(g)} :
          /\ \A g \in Managers : mgr[g].mon = "left" => g \in survivors
          /\ mgr' = [g \in Managers |->
                        IF g \in survivors THEN Left(mgr[g]) ELSE FreeManager]
    /\ worker' = [w \in Workers |-> IdleWorker]
    /\ UNCHANGED <<db, cacheFile, requested>>

-----------------------------------------------------------------------------
UserCommand(w) ==
    \/ "bind" \in Commands[w] /\ \E s \in Slots, n \in Nodes : BindCheck(w, s, n)
    \/ "update" \in Commands[w] /\ \E s \in Slots, n \in Nodes : UpdateCheck(w, s, n)
    \/ "refresh" \in Commands[w] /\ \E P \in Contents : RefreshFetch(w, P)
    \/ "start" \in Commands[w] /\ StartCommand(w)
    \/ "stop" \in Commands[w] /\ StopCommand(w)

(* What a task does on its own once its command was issued: it goes on, or *)
(* something it asked for fails.                                           *)
Continue(w) ==
    \/ BindOffline(w) \/ BindSelect(w) \/ BindConfirm(w) \/ BindWrite(w)
    \/ UpdateWrite(w) \/ Apply(w)
    \/ RefreshApply(w) \/ RefreshCoreOff(w) \/ RefreshCoreOn(w)
    \/ \E s \in Slots : BlockSelect(w, s) \/ OrphanWrite(w, s) \/ RestoreSelect(w, s)
    \/ BlockConfirm(w) \/ BlockWrite(w) \/ RefreshDone(w)
    \/ StopMonitor(w) \/ StopCore(w) \/ StopFlag(w)
    \/ StartCheck(w) \/ StartRead(w)
    \/ \E g \in Managers : StartSpawn(w, g)
    \/ StartProviders(w) \/ PublishCore(w) \/ PublishMonitor(w)
    \/ RestoreRead(w) \/ RestoreDone(w)

Fails(w) ==
    \/ BindSelectFails(w) \/ BindUnconfirmed(w)
    \/ RefreshApplyFails(w) \/ BlockFails(w)
    \/ StopCoreFails(w) \/ StartSpawnFails(w) \/ StartProvidersFail(w)
    \/ \E s \in Slots : RestoreSelectFails(w, s)

MonitorTask(g) == MonitorDetect(g) \/ MonitorRespawn(g)

Quiet == \A w \in Workers : worker[w].pc = "idle"

(* Mihomo is at rest: none of this application runs or is about to, and    *)
(* only a start or a rebuild is under way, if anything.                    *)
Alone(w) == \A v \in Workers \ {w} : worker[v].pc = "idle"
AtRest ==
    /\ \E w \in Workers : Alone(w) /\ worker[w].pc \in {"idle", "startCheck"}
    /\ core = None /\ monitor = None /\ ~coreRunning /\ payload = present
    /\ \A g \in Managers : (mgr[g].child = "none" /\ mgr[g].mon = "off") \/ mgr[g].mon = "left"

Noting(disturbance) == disturbed' = (~AtRest' /\ (disturbed \/ disturbance))

Task(w) ==
    \/ Continue(w) /\ Noting(FALSE)
    \/ Fails(w) /\ Noting(TRUE)

Process(g) ==
    \/ LeftExits(g) /\ Noting(FALSE)
    \/ MonitorTask(g) /\ Noting(FALSE)
    \/ DropManager(g) /\ Noting(FALSE)
    \/ ChildExit(g) /\ Noting(TRUE)

Next ==
    \/ \E w \in Workers : UserCommand(w) /\ Noting(~Quiet)
    \/ \E w \in Workers : Task(w)
    \/ \E g \in Managers : Process(g)
    \/ Dashboard /\ Noting(FALSE)
    \/ DashboardFails /\ Noting(TRUE)
    \/ ExitAndRestart /\ Noting(FALSE)

Spec == Init /\ [][Next]_vars

(* tokio polls every ready task, and drops what is no longer owned; the    *)
(* user, Mihomo's failures and the dashboard owe nothing.                  *)
Fairness ==
    /\ \A w \in Workers : SF_vars(Task(w))
    /\ \A g \in Managers : /\ WF_vars(MonitorTask(g) /\ Noting(FALSE))
                            /\ WF_vars(DropManager(g) /\ Noting(FALSE))
FairSpec == Spec /\ Fairness

-----------------------------------------------------------------------------
(* Whatever overlaps, fails or restarts, the port of a Slot never leaves   *)
(* through a node the user did not ask for on that Slot.                   *)
OnlyRequested ==
    \A g \in Managers, s \in Slots : Routes(g, s) \in requested[s] \cup {None}

(* Between commands a running core routes every Slot to the bound node if  *)
(* the catalogue has it, and nowhere otherwise: no mutation is lost.  What *)
(* parts the two, commands that overlap or something that fails, is made   *)
(* good by the next stop or rebuild that runs alone.                       *)
InSync ==
    ~disturbed /\ Quiet /\ core # None => \A s \in Slots : Routes(core, s) = Topology[s]

(* Between commands a running Mihomo that this application started can     *)
(* still be stopped: by the core or the monitor handle that stop_core      *)
(* takes, or nothing owns it any more.                                     *)
NoStrayChild ==
    Quiet => \A g \in Managers :
                Up(g) /\ g \notin {core, monitor}
                    => ~Referenced(g) \/ mgr[g].mon \in {"doomed", "left"}

(* Between commands an active binding names a node the catalogue has.      *)
ActiveIsPresent ==
    Quiet => \A s \in Slots : dbState[s] = "active" => dbNode[s] \in present

(* Between commands no Slot routes through a node the catalogue dropped,   *)
(* unless a disturbance was not yet followed by a stop or rebuild.         *)
RoutesPresent ==
    ~disturbed /\ Quiet =>
        \A g \in Managers, s \in Slots :
            mgr[g].mon = "left" \/ Routes(g, s) \in present \cup {None}

(* A binding is advertised as orphaned only once nothing of this           *)
(* application routes the Slot, unless it was disturbed.                   *)
BlockBeforeOrphan ==
    [][\A s \in Slots :
          ~disturbed /\ dbState[s] # "orphaned" /\ dbState'[s] = "orphaned" =>
              \A g \in Managers : mgr[g].mon = "left" \/ Routes(g, s) = None]_vars

(* A recovery of Mihomo between commands leaves every Slot on its binding, *)
(* or nowhere.                                                             *)
RecoveryKeepsBindings ==
    [][\A g \in Managers, s \in Slots :
          Quiet /\ mgr[g].mon = "backoff" /\ mgr'[g].child = "up" =>
              Routes(g, s)' \in {dbNode[s], None}]_vars

(* Every command returns: no task waits for ever for a lock or a monitor.  *)
CommandsReturn ==
    \A w \in Workers : worker[w].pc # "idle" ~> worker[w].pc = "idle"

(* A binding to a node that disappeared is orphaned, or bound anew, or its *)
(* node is back.                                                           *)
DisappearedIsOrphaned ==
    \A s \in Slots :
        dbState[s] = "active" /\ dbNode[s] \notin present
            ~> dbState[s] = "orphaned" \/ dbNode[s] \in present
=============================================================================
