------------------------- MODULE SlotRuntimeProofs -------------------------
(***************************************************************************)
(* Two safety theorems about SlotRuntime, for every set of Slots, nodes,   *)
(* tasks and managers, every set of commands and every restart budget,     *)
(* with and without failures and restarts: its variables keep their types, *)
(* and a Slot only ever routes through a node its user asked for.          *)
(***************************************************************************)
EXTENDS SlotRuntime, TLAPS

-----------------------------------------------------------------------------
(* Values the actions build are well typed.                                *)
LEMMA FreeType == FreeManager \in Manager /\ NoTargets \in [Slots -> Target]
BY ConstantsOK DEF ConstantsOK, FreeManager, Manager, ChildState, MonitorState, NoTargets, Target

LEMMA IdleType == IdleWorker \in Worker
BY DEF IdleWorker, Worker, PC, NoTargets, Target

(* An idle record sent to a label, with a place to return to.              *)
LEMMA IdleAtType ==
    ASSUME NEW label \in PC, NEW then \in {"idle", "start", "apply"}
    PROVE  /\ [IdleWorker EXCEPT !.pc = label] \in Worker
           /\ [IdleWorker EXCEPT !.pc = label, !.then = then] \in Worker
BY IdleType DEF Worker

LEMMA TopologyType ==
    ASSUME dbNode \in [Slots -> Target]
    PROVE  Topology \in [Slots -> Target]
BY DEF Topology, Target

LEMMA SpawnedType ==
    ASSUME payload \subseteq Nodes, cacheFile \subseteq Nodes, NEW m \in Manager
    PROVE  Spawned(m) \in Manager /\ ProviderNodes \subseteq Nodes
<1>1. ProviderNodes \subseteq Nodes
  BY DEF ProviderNodes
<1>2. (~AnyListening) \in BOOLEAN
  OBVIOUS
<1> QED BY <1>1, <1>2 DEF Spawned, Manager, ChildState

LEMMA DeadType ==
    ASSUME NEW m \in Manager, NEW child \in ChildState
    PROVE  Dead(m, child) \in Manager
BY FreeType DEF Dead, Manager

LEMMA DisconnectedType ==
    ASSUME NEW wk \in [Workers -> Worker], NEW g
    PROVE  Disconnected(g, wk) \in [Workers -> Worker]
<1> SUFFICES ASSUME NEW w \in Workers
             PROVE  [wk[w] EXCEPT !.ctl = None] \in Worker
  BY DEF Disconnected
<1> QED BY DEF Worker

(* A task that only moves on, or returns, keeps the type of the tasks.     *)
LEMMA MoveType ==
    ASSUME TypeOK, NEW w \in Workers, NEW label \in PC
    PROVE  /\ [worker[w] EXCEPT !.pc = label] \in Worker
           /\ Goto(w, label) => worker' \in [Workers -> Worker]
           /\ Return(w) => worker' \in [Workers -> Worker]
<1>1. [worker[w] EXCEPT !.pc = label] \in Worker
  BY DEF TypeOK, Worker
<1>2. Goto(w, label) => worker' = [worker EXCEPT ![w] = [worker[w] EXCEPT !.pc = label]]
  BY DEF Goto
<1> QED BY <1>1, <1>2, IdleType DEF TypeOK, Return

LEMMA LeftType == ASSUME NEW m \in Manager PROVE Left(m) \in Manager
BY FreeType DEF Left, Manager, ChildState, MonitorState

(* The initial states are well typed.                                      *)
LEMMA InitType == Init => TypeOK
<1> SUFFICES ASSUME Init PROVE TypeOK
  OBVIOUS
<1>1. present \subseteq Nodes
  BY ConstantsOK DEF ConstantsOK, Init
<1> QED BY <1>1, FreeType, IdleType DEF Init, TypeOK

(* A command issued by a task keeps the types.                             *)
LEMMA UserType ==
    ASSUME TypeOK, disturbed' \in BOOLEAN, NEW w \in Workers, UserCommand(w)
    PROVE  TypeOK'
<1> USE DEF db, bridge, handles
<1>0. /\ worker[w] \in Worker
      /\ {"bindSelect", "updateWrite", "refreshApply", "startCheck", "stopMonitor"} \subseteq PC
  BY DEF TypeOK, PC, BindPC, RefreshPC, StartPC, StopPC
<1>1. ASSUME NEW s \in Slots, NEW n \in Nodes, BindCheck(w, s, n) PROVE TypeOK'
  <2>1. [worker[w] EXCEPT !.pc = "bindSelect", !.slot = s, !.node = n] \in Worker
    BY <1>0 DEF Worker, Target
  <2>2. worker' = [worker EXCEPT ![w] =
                      [worker[w] EXCEPT !.pc = "bindSelect", !.slot = s, !.node = n]]
    BY <1>1 DEF BindCheck
  <2> QED BY <1>1, <2>1, <2>2 DEF TypeOK, BindCheck
<1>2. ASSUME NEW s \in Slots, NEW n \in Nodes, UpdateCheck(w, s, n) PROVE TypeOK'
  <2>1. [worker[w] EXCEPT !.pc = "updateWrite", !.slot = s, !.node = n] \in Worker
    BY <1>0 DEF Worker, Target
  <2>2. worker' = [worker EXCEPT ![w] =
                      [worker[w] EXCEPT !.pc = "updateWrite", !.slot = s, !.node = n]]
    BY <1>2 DEF UpdateCheck
  <2> QED BY <1>2, <2>1, <2>2 DEF TypeOK, UpdateCheck
<1>3. ASSUME NEW P \in Contents, RefreshFetch(w, P) PROVE TypeOK'
  <2>1. P \subseteq Nodes
    BY ConstantsOK DEF ConstantsOK
  <2>2. [worker[w] EXCEPT !.pc = "refreshApply", !.nodes = P] \in Worker
    BY <1>0, <2>1 DEF Worker
  <2>3. worker' = [worker EXCEPT ![w] = [worker[w] EXCEPT !.pc = "refreshApply", !.nodes = P]]
    BY <1>3 DEF RefreshFetch
  <2> QED BY <1>3, <2>1, <2>2, <2>3 DEF TypeOK, RefreshFetch
<1>4. CASE StartCommand(w)
  BY <1>0, <1>4, MoveType DEF TypeOK, StartCommand
<1>5. CASE StopCommand(w)
  BY <1>0, <1>5, MoveType DEF TypeOK, StopCommand
<1> QED BY <1>1, <1>2, <1>3, <1>4, <1>5 DEF UserCommand

(* bind_slot and update_slot keep the types.                               *)
LEMMA BindType ==
    ASSUME TypeOK, disturbed' \in BOOLEAN, NEW w \in Workers,
           \/ BindOffline(w) \/ BindSelect(w) \/ BindSelectFails(w)
           \/ BindConfirm(w) \/ BindUnconfirmed(w) \/ BindWrite(w)
           \/ UpdateWrite(w) \/ Apply(w)
    PROVE  TypeOK'
<1> USE DEF db, bridge, handles
<1>0. /\ worker[w] \in Worker
      /\ {"idle", "bindConfirm", "bindWrite", "apply", "stopMonitor"} \subseteq PC
  BY DEF TypeOK, PC, BindPC, RefreshPC, StopPC
<1>1. CASE BindOffline(w) \/ BindSelectFails(w)
  BY <1>0, <1>1, MoveType DEF TypeOK, BindOffline, BindSelectFails
<1>2. CASE BindSelect(w)
  <2>1. core \in Managers /\ worker[w].node \in Target
    BY <1>0, <1>2 DEF TypeOK, BindSelect, Up, Worker
  <2>2. [worker[w] EXCEPT !.pc = "bindConfirm", !.ctl = core] \in Worker
    BY <1>0, <2>1 DEF Worker
  <2>3. worker' = [worker EXCEPT ![w] = [worker[w] EXCEPT !.pc = "bindConfirm", !.ctl = core]]
    BY <1>2 DEF BindSelect
  <2>4. mgr' \in [Managers -> Manager]
    BY <1>2, <2>1, ZenonT(40) DEF TypeOK, BindSelect, Manager
  <2> QED BY <1>2, <2>2, <2>3, <2>4 DEF TypeOK, BindSelect
<1>3. CASE BindConfirm(w)
  <2>1. [worker[w] EXCEPT !.pc = "bindWrite", !.ctl = None] \in Worker
    BY <1>0 DEF Worker
  <2>2. worker' = [worker EXCEPT ![w] = [worker[w] EXCEPT !.pc = "bindWrite", !.ctl = None]]
    BY <1>3 DEF BindConfirm
  <2> QED BY <1>3, <2>1, <2>2 DEF TypeOK, BindConfirm
<1>4. CASE BindUnconfirmed(w)
  BY <1>0, <1>4, MoveType DEF TypeOK, BindUnconfirmed
<1>5. CASE BindWrite(w) \/ UpdateWrite(w)
  <2>1. worker[w].node \in Target
    BY <1>0 DEF Worker
  <2>2. worker' \in [Workers -> Worker]
    BY <1>0, <1>5, MoveType DEF BindWrite, UpdateWrite
  <2> QED BY <1>5, <2>1, <2>2 DEF TypeOK, BindWrite, UpdateWrite
<1>6. CASE Apply(w)
  <2>1. [IdleWorker EXCEPT !.pc = "stopMonitor", !.then = "start"] \in Worker
    BY <1>0, IdleAtType
  <2> QED BY <1>0, <1>6, <2>1, MoveType DEF TypeOK, Apply
<1> QED BY <1>1, <1>2, <1>3, <1>4, <1>5, <1>6

(* refresh_subscription and fail_closed_disappeared keep the types.        *)
LEMMA RefreshType ==
    ASSUME TypeOK, disturbed' \in BOOLEAN, NEW w \in Workers,
           \/ RefreshApply(w) \/ RefreshApplyFails(w)
           \/ RefreshCoreOff(w) \/ RefreshCoreOn(w) \/ BlockFails(w)
           \/ \E s \in Slots : BlockSelect(w, s) \/ OrphanWrite(w, s)
           \/ BlockConfirm(w) \/ BlockWrite(w) \/ RefreshDone(w)
    PROVE  TypeOK'
<1> USE DEF db, bridge, handles
<1>0. /\ worker[w] \in Worker
      /\ {"idle", "refreshCore", "apply", "orphan", "block", "blockConfirm",
          "blockWrite", "stopMonitor"} \subseteq PC
      /\ None \in Target
  BY DEF TypeOK, PC, RefreshPC, StopPC, Target
<1>1. CASE RefreshApplyFails(w) \/ BlockConfirm(w) \/ RefreshDone(w)
  BY <1>0, <1>1, MoveType DEF TypeOK, RefreshApplyFails, BlockConfirm, RefreshDone
<1>2. CASE RefreshApply(w)
  <2> DEFINE disappeared == present \ worker[w].nodes
             label == IF disappeared = {} THEN "apply" ELSE "refreshCore"
  <2>1. worker[w].nodes \subseteq Nodes /\ disappeared \subseteq Nodes /\ label \in PC
    BY <1>0 DEF TypeOK, Worker
  <2> HIDE DEF disappeared, label
  <2>2. [worker[w] EXCEPT !.nodes = disappeared, !.pc = label] \in Worker
    BY <1>0, <2>1 DEF Worker
  <2>3. worker' = [worker EXCEPT ![w] = [worker[w] EXCEPT !.nodes = disappeared, !.pc = label]]
    BY <1>2 DEF RefreshApply, disappeared, label
  <2> QED BY <1>2, <2>1, <2>2, <2>3 DEF TypeOK, RefreshApply
<1>3. Affected(w) \in [Slots -> Target]
  BY <1>0 DEF TypeOK, Affected
<1>4. CASE RefreshCoreOff(w)
  <2>1. [worker[w] EXCEPT !.pc = "orphan", !.snap = Affected(w)] \in Worker
    BY <1>0, <1>3 DEF Worker
  <2>2. worker' = [worker EXCEPT ![w] = [worker[w] EXCEPT !.pc = "orphan", !.snap = Affected(w)]]
    BY <1>4 DEF RefreshCoreOff
  <2> QED BY <1>4, <2>1, <2>2 DEF TypeOK, RefreshCoreOff
<1>5. CASE RefreshCoreOn(w)
  <2>1. [worker[w] EXCEPT !.pc = "block", !.snap = Affected(w), !.mgr = core, !.ctl = core]
            \in Worker
    BY <1>0, <1>3 DEF TypeOK, Worker
  <2>2. worker' = [worker EXCEPT ![w] =
           [worker[w] EXCEPT !.pc = "block", !.snap = Affected(w), !.mgr = core, !.ctl = core]]
    BY <1>5 DEF RefreshCoreOn
  <2> QED BY <1>5, <2>1, <2>2 DEF TypeOK, RefreshCoreOn
<1>6. CASE BlockFails(w)
  <2>1. [IdleWorker EXCEPT !.pc = "stopMonitor", !.then = "apply"] \in Worker
    BY <1>0, IdleAtType
  <2> QED BY <1>6, <2>1 DEF TypeOK, BlockFails
<1>7. ASSUME NEW s \in Slots, BlockSelect(w, s) PROVE TypeOK'
  <2>1. worker[w].ctl \in Managers
    BY <1>0, <1>7 DEF BlockSelect, Worker
  <2>2. mgr' \in [Managers -> Manager]
    BY <1>0, <1>7, <2>1, ZenonT(40) DEF TypeOK, BlockSelect, Manager
  <2>3. [worker[w] EXCEPT !.pc = "blockConfirm", !.slot = s] \in Worker
    BY <1>0 DEF Worker
  <2>4. worker' = [worker EXCEPT ![w] = [worker[w] EXCEPT !.pc = "blockConfirm", !.slot = s]]
    BY <1>7 DEF BlockSelect
  <2> QED BY <1>7, <2>2, <2>3, <2>4 DEF TypeOK, BlockSelect
<1>8. ASSUME NEW s \in Slots, OrphanWrite(w, s) PROVE TypeOK'
  <2>1. [worker[w] EXCEPT !.snap[s] = None] \in Worker /\ worker[w].snap[s] \in Target
    BY <1>0 DEF Worker
  <2>2. worker' = [worker EXCEPT ![w] = [worker[w] EXCEPT !.snap[s] = None]]
    BY <1>8 DEF OrphanWrite
  <2> QED BY <1>8, <2>1, <2>2 DEF TypeOK, OrphanWrite, MarkOrphaned
<1>9. CASE BlockWrite(w)
  <2> DEFINE s == worker[w].slot
             r == [worker[w] EXCEPT !.pc = "block", !.snap[s] = None]
  <2>1. r \in Worker /\ (s \in Slots => worker[w].snap[s] \in Target)
    BY <1>0 DEF Worker
  <2>2. worker' = [worker EXCEPT ![w] = r]
    BY <1>9 DEF BlockWrite
  <2> HIDE DEF r
  <2> QED BY <1>9, <2>1, <2>2 DEF TypeOK, BlockWrite, MarkOrphaned
<1> QED BY <1>1, <1>2, <1>4, <1>5, <1>6, <1>7, <1>8, <1>9

(* stop_core_inner keeps the types.                                        *)
LEMMA StopType ==
    ASSUME TypeOK, disturbed' \in BOOLEAN, NEW w \in Workers,
           StopMonitor(w) \/ StopCore(w) \/ StopCoreFails(w) \/ StopFlag(w)
    PROVE  TypeOK'
<1> USE DEF db, bridge, handles
<1>0. /\ worker[w] \in Worker
      /\ {"idle", "apply", "stopCore", "stopFlag", "startCheck"} \subseteq PC
      /\ \A g \in Managers : Dead(mgr[g], "none") \in Manager
  BY DeadType DEF TypeOK, PC, RefreshPC, StopPC, StartPC, ChildState
<1>1. CASE StopMonitor(w)
  <2>1. \/ mgr' = mgr
        \/ monitor \in Managers /\ mgr' = [mgr EXCEPT ![monitor] = [mgr[monitor] EXCEPT !.mon = "off"]]
    BY <1>1 DEF TypeOK, StopMonitor
  <2>a. monitor \in Managers => [mgr[monitor] EXCEPT !.mon = "off"] \in Manager
    BY DEF TypeOK, Manager, MonitorState
  <2>2. mgr' \in [Managers -> Manager]
    BY <2>1, <2>a DEF TypeOK
  <2>3. worker' \in [Workers -> Worker]
    BY <1>0, <1>1, MoveType DEF StopMonitor
  <2> QED BY <1>1, <2>2, <2>3 DEF TypeOK, StopMonitor
<1>2. CASE StopCore(w)
  <2>1. mgr' \in [Managers -> Manager]
    BY <1>0, <1>2 DEF TypeOK, StopCore
  <2>2. [worker EXCEPT ![w].pc = "stopFlag"] \in [Workers -> Worker]
    <3>1. [worker EXCEPT ![w].pc = "stopFlag"] =
              [worker EXCEPT ![w] = [worker[w] EXCEPT !.pc = "stopFlag"]]
      OBVIOUS
    <3> QED BY <1>0, <3>1, MoveType DEF TypeOK
  <2>3. worker' \in [Workers -> Worker]
    BY <1>0, <1>2, <2>2, MoveType, DisconnectedType DEF StopCore
  <2> QED BY <1>2, <2>1, <2>3 DEF TypeOK, StopCore
<1>3. CASE StopCoreFails(w)
  <2> DEFINE r == IF worker[w].then = "apply"
                  THEN [IdleWorker EXCEPT !.pc = "apply"] ELSE IdleWorker
  <2>1. r \in Worker
    BY <1>0, IdleType, IdleAtType
  <2> HIDE DEF r
  <2>2. [worker EXCEPT ![w] = r] \in [Workers -> Worker]
    BY <2>1 DEF TypeOK
  <2>3. worker' = Disconnected(core, [worker EXCEPT ![w] = r])
    BY <1>3 DEF StopCoreFails, r
  <2>4. mgr' \in [Managers -> Manager]
    BY <1>0, <1>3 DEF TypeOK, StopCoreFails
  <2> QED BY <1>3, <2>2, <2>3, <2>4, DisconnectedType DEF TypeOK, StopCoreFails
<1>4. CASE StopFlag(w)
  <2>1. AfterStop(worker[w].then) \in PC
    BY <1>0 DEF Worker, AfterStop
  <2>2. [IdleWorker EXCEPT !.pc = AfterStop(worker[w].then)] \in Worker
    BY <2>1, IdleAtType
  <2> QED BY <1>4, <2>2 DEF TypeOK, StopFlag
<1> QED BY <1>1, <1>2, <1>3, <1>4

(* start_core_inner and restore_slot_selectors keep the types.             *)
LEMMA StartType ==
    ASSUME TypeOK, disturbed' \in BOOLEAN, NEW w \in Workers,
           \/ StartCheck(w) \/ StartRead(w) \/ StartSpawnFails(w)
           \/ \E g \in Managers : StartSpawn(w, g)
           \/ StartProviders(w) \/ StartProvidersFail(w) \/ PublishCore(w) \/ PublishMonitor(w)
           \/ RestoreRead(w) \/ RestoreDone(w)
           \/ \E s \in Slots : RestoreSelect(w, s) \/ RestoreSelectFails(w, s)
    PROVE  TypeOK'
<1> USE DEF db, bridge, handles
<1>0. /\ worker[w] \in Worker
      /\ {"idle", "startRead", "startSpawn", "startProviders", "publishCore",
          "publishMonitor", "restoreRead", "restore"} \subseteq PC
      /\ None \in Target
      /\ Topology \in [Slots -> Target]
  BY TopologyType DEF TypeOK, PC, StartPC, Target
<1>1. CASE StartCheck(w) \/ StartSpawnFails(w) \/ RestoreDone(w)
  BY <1>0, <1>1, MoveType DEF TypeOK, StartCheck, StartSpawnFails, RestoreDone
<1>2. CASE StartRead(w)
  <2>1. [worker[w] EXCEPT !.pc = "startSpawn", !.snap = Topology] \in Worker
    BY <1>0 DEF Worker
  <2>2. \/ Return(w)
        \/ worker' = [worker EXCEPT ![w] =
                         [worker[w] EXCEPT !.pc = "startSpawn", !.snap = Topology]]
    BY <1>2 DEF StartRead
  <2>3. worker' \in [Workers -> Worker]
    BY <1>0, <2>1, <2>2, MoveType DEF TypeOK
  <2> QED BY <1>2, <2>3 DEF TypeOK, StartRead
<1>3. ASSUME NEW g \in Managers, StartSpawn(w, g) PROVE TypeOK'
  <2>1. [FreeManager EXCEPT !.topo = worker[w].snap] \in Manager
    BY <1>0, FreeType DEF Manager, Worker
  <2>2. /\ Spawned([FreeManager EXCEPT !.topo = worker[w].snap]) \in Manager
        /\ ProviderNodes \subseteq Nodes
    BY <2>1, SpawnedType DEF TypeOK
  <2>3. [worker[w] EXCEPT !.pc = "startProviders", !.mgr = g, !.snap = NoTargets] \in Worker
    BY <1>0, FreeType DEF Worker
  <2>4. worker' = [worker EXCEPT ![w] =
           [worker[w] EXCEPT !.pc = "startProviders", !.mgr = g, !.snap = NoTargets]]
    BY <1>3 DEF StartSpawn
  <2> QED BY <1>3, <2>2, <2>3, <2>4, ZenonT(40) DEF TypeOK, StartSpawn
<1>4. CASE StartProviders(w) \/ StartProvidersFail(w)
  <2> DEFINE g == worker[w].mgr
  <2>1. cacheFile' \subseteq Nodes
    BY <1>4 DEF TypeOK, StartProviders, StartProvidersFail
  <2>2. \/ mgr' = [mgr EXCEPT ![g] = [mgr[g] EXCEPT !.loaded = payload, !.mon = "watch"]]
        \/ mgr' = [mgr EXCEPT ![g] = [mgr[g] EXCEPT !.mon = "watch"]]
    BY <1>4 DEF StartProviders, StartProvidersFail
  <2>a. payload \in SUBSET Nodes /\ "watch" \in MonitorState
    BY DEF TypeOK, MonitorState
  <2>b. g \in Managers => [mgr[g] EXCEPT !.loaded = payload, !.mon = "watch"] \in Manager
    BY <2>a, ZenonT(40) DEF TypeOK, Manager
  <2>c. g \in Managers => [mgr[g] EXCEPT !.mon = "watch"] \in Manager
    BY <2>a, ZenonT(40) DEF TypeOK, Manager
  <2>3. mgr' \in [Managers -> Manager]
    BY <2>2, <2>b, <2>c DEF TypeOK
  <2>4. worker' \in [Workers -> Worker]
    BY <1>0, <1>4, MoveType DEF StartProviders, StartProvidersFail
  <2> QED BY <1>4, <2>1, <2>3, <2>4 DEF TypeOK, StartProviders, StartProvidersFail
<1>5. CASE PublishCore(w)
  <2>1. core' \in Managers \cup {None}
    BY <1>0, <1>5 DEF PublishCore, Worker
  <2> QED BY <1>0, <1>5, <2>1, MoveType DEF TypeOK, PublishCore
<1>6. CASE PublishMonitor(w)
  <2>1. monitor' \in Managers \cup {None}
    BY <1>0, <1>6 DEF PublishMonitor, Worker
  <2> DEFINE mon == IF mgr[monitor].mon = "backoff" THEN "doomed" ELSE "off"
  <2>a. \/ mgr' = mgr
        \/ monitor \in Managers /\ mgr' = [mgr EXCEPT ![monitor] = [mgr[monitor] EXCEPT !.mon = mon]]
    BY <1>6 DEF TypeOK, PublishMonitor
  <2>b. mon \in MonitorState
    BY DEF MonitorState
  <2> HIDE DEF mon
  <2>c. monitor \in Managers => [mgr[monitor] EXCEPT !.mon = mon] \in Manager
    BY <2>b DEF TypeOK, Manager
  <2>2. mgr' \in [Managers -> Manager]
    BY <2>a, <2>c DEF TypeOK
  <2>3. worker' \in [Workers -> Worker]
    BY <1>0, <1>6, MoveType DEF PublishMonitor
  <2> QED BY <1>6, <2>1, <2>2, <2>3 DEF TypeOK, PublishMonitor
<1>7. CASE RestoreRead(w)
  <2> DEFINE r == [worker[w] EXCEPT !.pc = "restore", !.snap = Topology, !.ctl = worker[w].mgr]
  <2>1. r \in Worker
    BY <1>0 DEF Worker
  <2>2. Return(w) \/ worker' = [worker EXCEPT ![w] = r]
    BY <1>7 DEF RestoreRead
  <2> HIDE DEF r
  <2>3. worker' \in [Workers -> Worker]
    BY <1>0, <2>1, <2>2, MoveType DEF TypeOK
  <2> QED BY <1>7, <2>3 DEF TypeOK, RestoreRead
<1>8. ASSUME NEW s \in Slots, RestoreSelect(w, s) \/ RestoreSelectFails(w, s) PROVE TypeOK'
  <2>1. [worker[w] EXCEPT !.snap[s] = None] \in Worker /\ worker[w].snap[s] \in Target
    BY <1>0 DEF Worker
  <2>2. worker' = [worker EXCEPT ![w] = [worker[w] EXCEPT !.snap[s] = None]]
    BY <1>8 DEF RestoreSelect, RestoreSelectFails
  <2> DEFINE c == worker[w].ctl
  <2>3. \/ mgr' = mgr
        \/ mgr' = [mgr EXCEPT ![c] = [mgr[c] EXCEPT !.sel[s] = worker[w].snap[s]]]
    BY <1>8 DEF RestoreSelect, RestoreSelectFails
  <2>a. c \in Managers => [mgr[c] EXCEPT !.sel[s] = worker[w].snap[s]] \in Manager
    BY <2>1, ZenonT(40) DEF TypeOK, Manager
  <2>4. mgr' \in [Managers -> Manager]
    BY <2>3, <2>a DEF TypeOK
  <2> QED BY <1>8, <2>1, <2>2, <2>4 DEF TypeOK, RestoreSelect, RestoreSelectFails
<1> QED BY <1>1, <1>2, <1>3, <1>4, <1>5, <1>6, <1>7, <1>8

-----------------------------------------------------------------------------
(* The restart budget: a manager whose monitor gave up has no process, and *)
(* is in no recovery.  Without it the counter's bound is not inductive.    *)
GaveUp ==
    \A g \in Managers :
        mgr[g].attempts = MaxRestartAttempts + 1 =>
            mgr[g].child = "none" /\ mgr[g].mon \in {"off", "watch"}

TypeInv == TypeOK /\ GaveUp

(* A task never brings a manager that gave up back.                        *)
LEMMA TaskGaveUp ==
    ASSUME TypeInv, NEW w \in Workers, UserCommand(w) \/ Continue(w) \/ Fails(w)
    PROVE  GaveUp'
<1> USE DEF handles
<1>0. MaxRestartAttempts \in Nat /\ mgr \in [Managers -> Manager]
  BY ConstantsOK DEF ConstantsOK, TypeInv, TypeOK
<1>1. CASE mgr' = mgr
  BY <1>1 DEF TypeInv, GaveUp
<1>2. ASSUME NEW c, NEW s, NEW n, mgr' = [mgr EXCEPT ![c].sel[s] = n] PROVE GaveUp'
  <2>1. \A g \in Managers : /\ mgr'[g].attempts = mgr[g].attempts
                            /\ mgr'[g].child = mgr[g].child /\ mgr'[g].mon = mgr[g].mon
    BY <1>0, <1>2 DEF Manager
  <2> QED BY <2>1 DEF TypeInv, GaveUp
<1>3. ASSUME NEW mon, mgr' = [mgr EXCEPT ![monitor].mon = mon],
             mgr[monitor].mon # "backoff" => mon = "off"
      PROVE  GaveUp'
  <2> SUFFICES ASSUME NEW g \in Managers, mgr'[g].attempts = MaxRestartAttempts + 1
               PROVE  mgr'[g].child = "none" /\ mgr'[g].mon \in {"off", "watch"}
    BY DEF GaveUp
  <2>1. CASE g = monitor
    <3>1. mgr'[g] = [mgr[g] EXCEPT !.mon = mon]
      BY <1>0, <1>3, <2>1
    <3>2. mgr'[g].attempts = mgr[g].attempts /\ mgr'[g].child = mgr[g].child /\ mgr'[g].mon = mon
      BY <1>0, <3>1 DEF Manager
    <3> QED BY <1>3, <2>1, <3>2 DEF TypeInv, GaveUp
  <2>2. CASE g # monitor
    BY <1>0, <1>3, <2>2 DEF TypeInv, GaveUp
  <2> QED BY <2>1, <2>2
<1>a. CASE BindSelect(w)
  BY <1>2, <1>a DEF BindSelect
<1>b. ASSUME NEW s \in Slots, BlockSelect(w, s) PROVE GaveUp'
  BY <1>2, <1>b DEF BlockSelect
<1>c. ASSUME NEW s \in Slots, RestoreSelect(w, s) PROVE GaveUp'
  BY <1>1, <1>2, <1>c DEF RestoreSelect
<1>d. CASE StopMonitor(w)
  BY <1>1, <1>3, <1>d DEF StopMonitor
<1>e. CASE PublishMonitor(w)
  <2> DEFINE mon == IF mgr[monitor].mon = "backoff" THEN "doomed" ELSE "off"
  <2>1. mgr' = mgr \/ mgr' = [mgr EXCEPT ![monitor].mon = mon]
    BY <1>e DEF PublishMonitor
  <2> QED BY <1>1, <1>3, <2>1
<1>4. CASE StopCore(w) \/ StopCoreFails(w)
  BY <1>0, <1>4 DEF TypeInv, GaveUp, StopCore, StopCoreFails, Dead, Manager
<1>5. CASE StartProviders(w) \/ StartProvidersFail(w)
  <2>1. CASE StartProviders(w)
    BY <1>0, <2>1 DEF TypeInv, GaveUp, StartProviders, Manager
  <2>2. CASE StartProvidersFail(w)
    BY <1>0, <2>2 DEF TypeInv, GaveUp, StartProvidersFail, Manager
  <2> QED BY <1>5, <2>1, <2>2
<1>6. ASSUME NEW g \in Managers, StartSpawn(w, g) PROVE GaveUp'
  <2>1. mgr' = [mgr EXCEPT ![g] = Spawned([FreeManager EXCEPT !.topo = worker[w].snap])]
    BY <1>6 DEF StartSpawn
  <2>2. Spawned([FreeManager EXCEPT !.topo = worker[w].snap]).attempts = 0
    BY DEF Spawned, FreeManager
  <2>3. mgr'[g].attempts # MaxRestartAttempts + 1
    BY <1>0, <2>1, <2>2
  <2> QED BY <1>0, <2>1, <2>3 DEF TypeInv, GaveUp
<1>7. UserCommand(w) => mgr' = mgr
  BY DEF UserCommand, BindCheck, UpdateCheck, RefreshFetch, StartCommand, StopCommand
<1>8. Continue(w) \/ Fails(w) =>
        \/ mgr' = mgr
        \/ BindSelect(w) \/ (\E s \in Slots : BlockSelect(w, s) \/ RestoreSelect(w, s))
        \/ StopMonitor(w) \/ PublishMonitor(w) \/ StopCore(w) \/ StopCoreFails(w)
        \/ StartProviders(w) \/ StartProvidersFail(w) \/ (\E g \in Managers : StartSpawn(w, g))
  BY DEF Continue, Fails, BindOffline, BindSelectFails, BindConfirm, BindUnconfirmed, BindWrite,
         UpdateWrite, Apply, RefreshApply, RefreshApplyFails, RefreshCoreOff, RefreshCoreOn,
         BlockFails, OrphanWrite, BlockConfirm, BlockWrite, RefreshDone, StopFlag, StartCheck,
         StartRead, StartSpawnFails, PublishCore, RestoreRead, RestoreSelectFails, RestoreDone
<1> QED BY <1>1, <1>a, <1>b, <1>c, <1>d, <1>e, <1>4, <1>5, <1>6, <1>7, <1>8

(* Whatever a step notes about disturbances is a truth value.              *)
LEMMA NextNotes == Next => disturbed' \in BOOLEAN
BY DEF Next, Task, Process, Noting

(* Mihomo's exits, its recovery, the end of a manager, the dashboard and a *)
(* restart keep the types and the restart budget.                          *)
LEMMA SystemType ==
    ASSUME TypeInv, disturbed' \in BOOLEAN,
           \/ \E g \in Managers :
                 ChildExit(g) \/ LeftExits(g) \/ MonitorTask(g) \/ DropManager(g)
           \/ Dashboard \/ DashboardFails
           \/ ExitAndRestart
    PROVE  TypeInv'
<1> USE DEF db, bridge, handles, TypeInv
<1>0. MaxRestartAttempts \in Nat /\ mgr \in [Managers -> Manager] /\ None \in Target
  BY ConstantsOK DEF ConstantsOK, TypeOK, Target
<1>1. ASSUME NEW g \in Managers, ChildExit(g) PROVE TypeInv'
  <2>1. Dead(mgr[g], "exited") \in Manager
    BY <1>0, DeadType DEF ChildState
  <2>2. TypeOK'
    BY <1>1, <2>1, DisconnectedType DEF TypeOK, ChildExit
  <2>3. GaveUp'
    BY <1>0, <1>1 DEF GaveUp, ChildExit, Up, Dead, Manager
  <2> QED BY <2>2, <2>3
<1>2. ASSUME NEW g \in Managers, MonitorDetect(g) PROVE TypeInv'
  <2>1. mgr[g].attempts + 1 \in 0 .. MaxRestartAttempts + 1
    BY <1>0, <1>2 DEF GaveUp, MonitorDetect, Manager
  <2>2. mgr' \in [Managers -> Manager]
    BY <1>0, <1>2, <2>1 DEF MonitorDetect, Manager, ChildState, MonitorState
  <2>3. GaveUp'
    BY <1>0, <1>2 DEF GaveUp, MonitorDetect, Manager
  <2> QED BY <1>2, <2>2, <2>3 DEF TypeOK, MonitorDetect
<1>3. ASSUME NEW g \in Managers, MonitorRespawn(g) PROVE TypeInv'
  <2> DEFINE mon == IF mgr[g].mon = "backoff" THEN "watch" ELSE "off"
  <2>1. Spawned(mgr[g]) \in Manager /\ ProviderNodes \subseteq Nodes
    BY <1>0, SpawnedType DEF TypeOK
  <2>2. /\ [Spawned(mgr[g]) EXCEPT !.mon = mon] \in Manager
        /\ [mgr[g] EXCEPT !.mon = mon] \in Manager
    BY <1>0, <2>1 DEF Manager, MonitorState
  <2>3. \/ mgr' = [mgr EXCEPT ![g] = [Spawned(mgr[g]) EXCEPT !.mon = mon]]
        \/ mgr' = [mgr EXCEPT ![g] = [mgr[g] EXCEPT !.mon = mon]]
    BY <1>3 DEF MonitorRespawn
  <2>4. mgr' \in [Managers -> Manager] /\ cacheFile' \subseteq Nodes
    BY <1>0, <1>3, <2>1, <2>2, <2>3 DEF TypeOK, MonitorRespawn
  <2>5. mgr[g].attempts # MaxRestartAttempts + 1 /\ Spawned(mgr[g]).attempts = mgr[g].attempts
    BY <1>0, <1>3 DEF GaveUp, MonitorRespawn, Spawned, Manager
  <2>6. mgr'[g].attempts = mgr[g].attempts
    BY <1>0, <2>1, <2>3, <2>5 DEF Manager
  <2>7. GaveUp'
    BY <1>0, <2>3, <2>5, <2>6 DEF GaveUp
  <2> QED BY <1>3, <2>4, <2>7 DEF TypeOK, MonitorRespawn
<1>4. ASSUME NEW g \in Managers, DropManager(g) \/ LeftExits(g) PROVE TypeInv'
  <2>1. FreeManager.attempts # MaxRestartAttempts + 1
    BY <1>0 DEF FreeManager
  <2> QED BY <1>0, <1>4, <2>1, FreeType DEF TypeOK, GaveUp, DropManager, LeftExits
<1>5. CASE Dashboard \/ DashboardFails
  <2>1. coreRunning' \in BOOLEAN
    BY <1>5 DEF Dashboard, DashboardFails, Up
  <2> QED BY <1>5, <2>1 DEF TypeOK, GaveUp, Dashboard, DashboardFails
<1>6. CASE ExitAndRestart
  <2>1. \A g \in Managers : mgr'[g] \in {FreeManager, Left(mgr[g])}
    BY <1>6 DEF ExitAndRestart
  <2>2. \A g \in Managers : Left(mgr[g]) \in Manager
    BY <1>0, LeftType
  <2>3. mgr' \in [Managers -> Manager]
    BY <1>6, <2>1, <2>2, FreeType DEF ExitAndRestart
  <2>4. FreeManager.attempts # MaxRestartAttempts + 1
    BY <1>0 DEF FreeManager
  <2>5. \A g \in Managers : Left(mgr[g]).attempts = 0 /\ 0 # MaxRestartAttempts + 1
    BY <1>0 DEF Left, FreeManager
  <2>6. GaveUp'
    BY <2>1, <2>4, <2>5 DEF GaveUp
  <2> QED BY <1>6, <2>3, <2>6, IdleType DEF TypeOK, ExitAndRestart
<1> QED BY <1>1, <1>2, <1>3, <1>4, <1>5, <1>6 DEF MonitorTask

LEMMA TypeInvStep == TypeInv /\ [Next]_vars => TypeInv'
<1> SUFFICES ASSUME TypeInv, [Next]_vars PROVE TypeInv'
  OBVIOUS
<1>1. ASSUME NEW w \in Workers, UserCommand(w) \/ Continue(w) \/ Fails(w), disturbed' \in BOOLEAN
      PROVE  TypeInv'
  <2>1. TypeOK'
    BY <1>1, UserType, BindType, RefreshType, StopType, StartType DEF TypeInv, Continue, Fails
  <2> QED BY <1>1, <2>1, TaskGaveUp DEF TypeInv
<1>2. CASE UNCHANGED vars
  BY <1>2 DEF vars, TypeInv, TypeOK, GaveUp
<1>3. CASE Next
  <2>1. disturbed' \in BOOLEAN
    BY <1>3, NextNotes
  <2> QED BY <1>1, <1>3, <2>1, SystemType DEF Next, Task, Process
<1> QED BY <1>2, <1>3

LEMMA TypeInvInit == Init => TypeInv
<1>1. Init => GaveUp
  BY ConstantsOK DEF ConstantsOK, Init, GaveUp, FreeManager
<1> QED BY <1>1, InitType DEF TypeInv

LEMMA TypeInvCorrect == Spec => []TypeInv
BY TypeInvInit, TypeInvStep, PTL DEF Spec

(* Every variable keeps its type; in particular a manager never tries more *)
(* recoveries than its budget and the one that gives up.                   *)
THEOREM TypeCorrect == Spec => []TypeOK
<1>1. TypeInv => TypeOK
  BY DEF TypeInv
<1> QED BY <1>1, TypeInvCorrect, PTL

-----------------------------------------------------------------------------
(* Where a selection comes from: every node that a binding, a topology, a  *)
(* selector or a task's reading of the database holds for a Slot was asked *)
(* for on that Slot, and so was the one a bind_slot is about to select.    *)
FromUser(f) == \A s \in Slots : f[s] \in requested[s] \cup {None}
Asked(r) ==
    FromUser(r.snap) /\ (r.pc \in BindPC => r.slot \in Slots /\ r.node \in requested[r.slot])

BindingsAsked == FromUser(dbNode)
ManagersAsked == \A g \in Managers : FromUser(mgr[g].topo) /\ FromUser(mgr[g].sel)
TasksAsked == \A w \in Workers : Asked(worker[w])

IInv == TypeInv /\ BindingsAsked /\ ManagersAsked /\ TasksAsked

(* What FreeManager and IdleWorker hold for a Slot is no node at all.      *)
LEMMA NothingAsked ==
    /\ FromUser(NoTargets)
    /\ FromUser(FreeManager.topo) /\ FromUser(FreeManager.sel)
    /\ Asked(IdleWorker)
    /\ \A then : \A label \in PC \ BindPC :
          /\ Asked([IdleWorker EXCEPT !.pc = label])
          /\ Asked([IdleWorker EXCEPT !.pc = label, !.then = then])
<1>1. FromUser(NoTargets)
  BY DEF FromUser, NoTargets
<1>2. /\ FreeManager.topo = NoTargets /\ FreeManager.sel = NoTargets
      /\ IdleWorker.snap = NoTargets /\ IdleWorker.pc \notin BindPC
  BY DEF FreeManager, IdleWorker, BindPC
<1>3. ASSUME NEW label \in PC \ BindPC, NEW then
      PROVE  /\ Asked([IdleWorker EXCEPT !.pc = label])
             /\ Asked([IdleWorker EXCEPT !.pc = label, !.then = then])
  BY <1>1 DEF Asked, IdleWorker
<1> QED BY <1>1, <1>2, <1>3 DEF Asked

(* The readings of the database name its bindings only.                    *)
LEMMA ReadingsAsked ==
    ASSUME IInv, NEW w
    PROVE  FromUser(Topology) /\ FromUser(Affected(w))
BY DEF IInv, BindingsAsked, FromUser, Topology, Affected

(* A task goes on with a record whose contents the user asked for.         *)
LEMMA TaskUpdate ==
    ASSUME IInv, NEW w \in Workers, NEW r, Asked(r), requested' = requested,
           worker' = [worker EXCEPT ![w] = r]
    PROVE  TasksAsked'
BY DEF IInv, TypeInv, TypeOK, TasksAsked, Asked, FromUser

LEMMA TaskMove ==
    ASSUME IInv, NEW w \in Workers, requested' = requested,
           NEW label \in PC, label \in BindPC => worker[w].pc \in BindPC
    PROVE  /\ Asked([worker[w] EXCEPT !.pc = label])
           /\ Goto(w, label) => TasksAsked'
           /\ Return(w) => TasksAsked'
<1> DEFINE r == [worker[w] EXCEPT !.pc = label]
<1>1. worker[w] \in Worker /\ Asked(worker[w])
  BY DEF IInv, TypeInv, TypeOK, TasksAsked
<1>2. Asked(r)
  BY <1>1 DEF Asked, Worker
<1>3. ASSUME Goto(w, label) PROVE TasksAsked'
  <2>1. worker' = [worker EXCEPT ![w] = r]
    BY <1>3 DEF Goto
  <2> HIDE DEF r
  <2> QED BY <1>2, <2>1, TaskUpdate
<1>4. ASSUME Return(w) PROVE TasksAsked'
  BY <1>4, TaskUpdate, NothingAsked DEF Return
<1> QED BY <1>2, <1>3, <1>4

(* Losing its controller changes nothing else of a task.                   *)
LEMMA DisconnectedAsked ==
    ASSUME NEW wk \in [Workers -> Worker], NEW g, \A w \in Workers : Asked(wk[w])
    PROVE  \A w \in Workers : Asked(Disconnected(g, wk)[w])
<1> SUFFICES ASSUME NEW w \in Workers PROVE Asked([wk[w] EXCEPT !.ctl = None])
  BY DEF Disconnected
<1>1. wk[w] \in Worker /\ Asked(wk[w])
  OBVIOUS
<1> QED BY <1>1 DEF Asked, Worker

(* A command issued by a task adds the request it carries.                 *)
LEMMA UserAsked ==
    ASSUME IInv, NEW w \in Workers, UserCommand(w)
    PROVE  BindingsAsked' /\ ManagersAsked' /\ TasksAsked'
<1> USE DEF db, bridge, handles
<1>0. worker[w] \in Worker /\ Asked(worker[w]) /\ worker \in [Workers -> Worker]
  BY DEF IInv, TypeInv, TypeOK, TasksAsked
<1>1. ASSUME NEW s \in Slots, NEW n \in Nodes, BindCheck(w, s, n) \/ UpdateCheck(w, s, n)
      PROVE  BindingsAsked' /\ ManagersAsked' /\ TasksAsked'
  <2>1. /\ requested' = [requested EXCEPT ![s] = @ \cup {n}]
        /\ dbNode' = dbNode /\ mgr' = mgr
    BY <1>1 DEF BindCheck, UpdateCheck
  <2>2. \A f : FromUser(f) => \A t \in Slots : f[t] \in requested'[t] \cup {None}
    BY <2>1 DEF FromUser, IInv, TypeInv, TypeOK
  <2>3. \A v \in Workers \ {w} : worker'[v] = worker[v]
    BY <1>0, <1>1 DEF BindCheck, UpdateCheck
  <2>4. /\ worker'[w].snap = worker[w].snap /\ worker'[w].slot = s /\ worker'[w].node = n
    BY <1>0, <1>1 DEF BindCheck, UpdateCheck, Worker
  <2>5. n \in requested'[s]
    BY <2>1 DEF IInv, TypeInv, TypeOK
  <2>6. \A t \in Slots : requested[t] \subseteq requested'[t]
    BY <2>1 DEF IInv, TypeInv, TypeOK
  <2>7. BindingsAsked' /\ ManagersAsked'
    BY <2>1, <2>2 DEF IInv, BindingsAsked, ManagersAsked, FromUser
  <2>8. TasksAsked'
    BY <2>2, <2>3, <2>4, <2>5, <2>6 DEF IInv, TasksAsked, Asked, FromUser
  <2> QED BY <2>7, <2>8
<1>2. ASSUME NEW P \in Contents, RefreshFetch(w, P) PROVE TasksAsked'
  <2> DEFINE r == [worker[w] EXCEPT !.pc = "refreshApply", !.nodes = P]
  <2>1. Asked(r)
    BY <1>0 DEF Asked, Worker, BindPC
  <2>2. worker' = [worker EXCEPT ![w] = r] /\ requested' = requested
    BY <1>2 DEF RefreshFetch
  <2> HIDE DEF r
  <2> QED BY <2>1, <2>2, TaskUpdate
<1>3. CASE StartCommand(w) \/ StopCommand(w)
  <2>1. {"startCheck", "stopMonitor"} \subseteq PC \ BindPC
    BY DEF PC, BindPC, StartPC, StopPC
  <2>2. TasksAsked'
    BY <1>3, <2>1, TaskMove DEF StartCommand, StopCommand
  <2> QED BY <1>3, <2>2 DEF StartCommand, StopCommand, IInv, BindingsAsked, ManagersAsked, FromUser
<1>4. ASSUME NEW P \in Contents, RefreshFetch(w, P) PROVE BindingsAsked' /\ ManagersAsked'
  BY <1>4 DEF RefreshFetch, IInv, BindingsAsked, ManagersAsked, FromUser
<1> QED BY <1>1, <1>2, <1>3, <1>4 DEF UserCommand

(* No task writes a binding the user did not ask for.                      *)
LEMMA TaskBindings ==
    ASSUME IInv, NEW w \in Workers, Continue(w) \/ Fails(w)
    PROVE  BindingsAsked' /\ requested' = requested
<1> USE DEF db, bridge, handles
<1>0. worker[w] \in Worker /\ Asked(worker[w]) /\ dbNode \in [Slots -> Target]
  BY DEF IInv, TypeInv, TypeOK, TasksAsked
<1>1. CASE BindWrite(w) \/ UpdateWrite(w)
  BY <1>0, <1>1 DEF BindWrite, UpdateWrite, IInv, BindingsAsked, FromUser, Asked, BindPC
<1>2. ASSUME NEW s, dbNode' = [dbNode EXCEPT ![s] = worker[w].snap[s]], requested' = requested
      PROVE  BindingsAsked'
  BY <1>0, <1>2 DEF IInv, BindingsAsked, FromUser, Asked
<1>3. CASE BlockWrite(w)
  BY <1>2, <1>3 DEF BlockWrite, MarkOrphaned
<1>4. ASSUME NEW s \in Slots, OrphanWrite(w, s) PROVE BindingsAsked' /\ requested' = requested
  BY <1>2, <1>4 DEF OrphanWrite, MarkOrphaned
<1>5. CASE dbNode' = dbNode /\ requested' = requested
  BY <1>5 DEF IInv, BindingsAsked, FromUser
<1>6. \/ dbNode' = dbNode /\ requested' = requested
      \/ BindWrite(w) \/ UpdateWrite(w) \/ BlockWrite(w) \/ \E s \in Slots : OrphanWrite(w, s)
  BY DEF Continue, Fails, BindOffline, BindSelect, BindSelectFails, BindConfirm, BindUnconfirmed,
         Apply, RefreshApply, RefreshApplyFails, RefreshCoreOff, RefreshCoreOn,
         BlockFails, BlockSelect, RestoreSelect, BlockConfirm, RefreshDone, StopMonitor,
         StopCore, StopCoreFails, StopFlag, StartCheck, StartRead, StartSpawnFails, StartSpawn,
         StartProviders, StartProvidersFail, PublishCore, PublishMonitor, RestoreRead,
         RestoreSelectFails, RestoreDone
<1> QED BY <1>1, <1>3, <1>4, <1>5, <1>6 DEF BindWrite, UpdateWrite, BlockWrite

(* No task gives a manager a topology or a selection that was not asked    *)
(* for.                                                                    *)
LEMMA TaskManagers ==
    ASSUME IInv, NEW w \in Workers, Continue(w) \/ Fails(w)
    PROVE  ManagersAsked'
<1> USE DEF db, bridge, handles
<1>0. /\ worker[w] \in Worker /\ Asked(worker[w]) /\ mgr \in [Managers -> Manager]
      /\ requested' = requested
  BY TaskBindings DEF IInv, TypeInv, TypeOK, TasksAsked
<1>1. ASSUME NEW c, NEW s, NEW n, mgr' = [mgr EXCEPT ![c].sel[s] = n],
             s \in Slots => n \in requested[s] \cup {None}
      PROVE  ManagersAsked'
  <2> SUFFICES ASSUME NEW g \in Managers
               PROVE  FromUser(mgr'[g].topo) /\ FromUser(mgr'[g].sel)
    BY <1>0 DEF ManagersAsked, FromUser
  <2>1. CASE g = c
    <3>1. mgr'[g] = [mgr[g] EXCEPT !.sel[s] = n]
      BY <1>0, <1>1, <2>1
    <3>2. mgr'[g].topo = mgr[g].topo /\ mgr'[g].sel = [mgr[g].sel EXCEPT ![s] = n]
      BY <1>0, <3>1 DEF Manager
    <3>3. mgr[g].sel \in [Slots -> Target]
      BY <1>0 DEF Manager
    <3> QED BY <1>0, <1>1, <3>2, <3>3 DEF IInv, ManagersAsked, FromUser
  <2>2. CASE g # c
    BY <1>0, <1>1, <2>2 DEF IInv, ManagersAsked, FromUser
  <2> QED BY <2>1, <2>2
<1>2. ASSUME NEW g \in Managers, NEW m, mgr' = [mgr EXCEPT ![g] = m],
             FromUser(m.topo), FromUser(m.sel)
      PROVE  ManagersAsked'
  BY <1>0, <1>2 DEF IInv, ManagersAsked, FromUser
<1>3. CASE BindSelect(w)
  <2>1. mgr' = [mgr EXCEPT ![core].sel[worker[w].slot] = worker[w].node]
    BY <1>3 DEF BindSelect
  <2>2. worker[w].node \in requested[worker[w].slot]
    BY <1>0, <1>3 DEF BindSelect, Asked, BindPC
  <2> QED BY <1>1, <2>1, <2>2
<1>4. ASSUME NEW s \in Slots, BlockSelect(w, s) PROVE ManagersAsked'
  BY <1>1, <1>4 DEF BlockSelect
<1>5. CASE mgr' = mgr
  BY <1>0, <1>5 DEF IInv, ManagersAsked, FromUser
<1>6. ASSUME NEW s \in Slots, RestoreSelect(w, s) PROVE ManagersAsked'
  <2>1. worker[w].snap[s] \in requested[s] \cup {None}
    BY <1>0 DEF Asked, FromUser
  <2>2. mgr' = mgr \/ mgr' = [mgr EXCEPT ![worker[w].ctl].sel[s] = worker[w].snap[s]]
    BY <1>6 DEF RestoreSelect
  <2> QED BY <1>1, <1>5, <2>1, <2>2
<1>7. CASE StopMonitor(w) \/ PublishMonitor(w) \/ StartProviders(w) \/ StartProvidersFail(w)
  <2>1. \/ mgr' = mgr
        \/ \E c, mon : mgr' = [mgr EXCEPT ![c].mon = mon]
        \/ \E c, P : mgr' = [mgr EXCEPT ![c].loaded = P, ![c].mon = "watch"]
    BY <1>7, Zenon DEF StopMonitor, PublishMonitor, StartProviders, StartProvidersFail
  <2>2. ASSUME NEW c, NEW mon, mgr' = [mgr EXCEPT ![c].mon = mon] PROVE ManagersAsked'
    <3>1. ASSUME NEW g \in Managers
          PROVE  mgr'[g] = mgr[g] \/ mgr'[g] = [mgr[g] EXCEPT !.mon = mon]
      BY <1>0, <2>2
    <3>2. \A g \in Managers : mgr'[g].topo = mgr[g].topo /\ mgr'[g].sel = mgr[g].sel
      BY <1>0, <3>1 DEF Manager
    <3> QED BY <1>0, <3>2 DEF IInv, ManagersAsked, FromUser
  <2>3. ASSUME NEW c, NEW P, mgr' = [mgr EXCEPT ![c].loaded = P, ![c].mon = "watch"]
        PROVE  ManagersAsked'
    <3>1. ASSUME NEW g \in Managers
          PROVE  mgr'[g] = mgr[g] \/ mgr'[g] = [mgr[g] EXCEPT !.loaded = P, !.mon = "watch"]
      BY <1>0, <2>3
    <3>2. \A g \in Managers : mgr'[g].topo = mgr[g].topo /\ mgr'[g].sel = mgr[g].sel
      BY <1>0, <3>1, ZenonT(40) DEF Manager
    <3> QED BY <1>0, <3>2 DEF IInv, ManagersAsked, FromUser
  <2> QED BY <1>5, <2>1, <2>2, <2>3
<1>8. CASE StopCore(w) \/ StopCoreFails(w)
  <2>1. \/ mgr' = mgr
        \/ core \in Managers /\ mgr' = [mgr EXCEPT ![core] = Dead(mgr[core], "none")]
    BY <1>8 DEF StopCore, StopCoreFails, IInv, TypeInv, TypeOK
  <2>2. \A g \in Managers : /\ FromUser(Dead(mgr[g], "none").topo)
                            /\ FromUser(Dead(mgr[g], "none").sel)
    BY <1>0, NothingAsked DEF Dead, Manager, IInv, ManagersAsked
  <2> QED BY <1>2, <1>5, <2>1, <2>2
<1>9. ASSUME NEW g \in Managers, StartSpawn(w, g) PROVE ManagersAsked'
  <2> DEFINE m == Spawned([FreeManager EXCEPT !.topo = worker[w].snap])
  <2>1. m.topo = worker[w].snap /\ m.sel = worker[w].snap
    BY DEF Spawned, FreeManager
  <2>2. mgr' = [mgr EXCEPT ![g] = m]
    BY <1>9 DEF StartSpawn
  <2>3. FromUser(worker[w].snap)
    BY <1>0 DEF Asked
  <2> HIDE DEF m
  <2> QED BY <1>2, <2>1, <2>2, <2>3
<1>10. \/ mgr' = mgr
       \/ BindSelect(w) \/ (\E s \in Slots : BlockSelect(w, s) \/ RestoreSelect(w, s))
       \/ StopMonitor(w) \/ PublishMonitor(w) \/ StopCore(w) \/ StopCoreFails(w)
       \/ StartProviders(w) \/ StartProvidersFail(w) \/ (\E g \in Managers : StartSpawn(w, g))
  BY DEF Continue, Fails, BindOffline, BindSelectFails, BindConfirm, BindUnconfirmed, BindWrite,
         UpdateWrite, Apply, RefreshApply, RefreshApplyFails, RefreshCoreOff, RefreshCoreOn,
         BlockFails, OrphanWrite, BlockConfirm, BlockWrite, RefreshDone, StopFlag, StartCheck,
         StartRead, StartSpawnFails, PublishCore, RestoreRead, RestoreSelectFails, RestoreDone
<1> QED BY <1>3, <1>4, <1>5, <1>6, <1>7, <1>8, <1>9, <1>10

(* No task takes over a node that was not asked for.                       *)
LEMMA TaskTasks ==
    ASSUME IInv, NEW w \in Workers, Continue(w) \/ Fails(w)
    PROVE  TasksAsked'
<1> USE DEF db, bridge, handles
<1>0. /\ worker[w] \in Worker /\ Asked(worker[w]) /\ worker \in [Workers -> Worker]
      /\ requested' = requested
  BY TaskBindings DEF IInv, TypeInv, TypeOK, TasksAsked
<1>1. /\ PC \ BindPC = {"idle"} \cup RefreshPC \cup StopPC \cup StartPC
      /\ {"bindConfirm", "bindWrite"} \subseteq BindPC /\ BindPC \subseteq PC
  BY DEF PC, BindPC, RefreshPC, StopPC, StartPC
<1>2. ASSUME NEW label \in PC \ BindPC, Goto(w, label) PROVE TasksAsked'
  BY <1>0, <1>2, TaskMove
<1>3. ASSUME Return(w) PROVE TasksAsked'
  BY <1>0, <1>3, NothingAsked, TaskUpdate DEF Return
<1>4. ASSUME NEW label \in PC \ BindPC, NEW then,
             \/ worker' = [worker EXCEPT ![w] = [IdleWorker EXCEPT !.pc = label]]
             \/ worker' = [worker EXCEPT ![w] = [IdleWorker EXCEPT !.pc = label, !.then = then]]
      PROVE  TasksAsked'
  <2>1. PICK r : Asked(r) /\ worker' = [worker EXCEPT ![w] = r]
    BY <1>4, NothingAsked
  <2> QED BY <1>0, <2>1, TaskUpdate
(* A task that reads the database, or hands a snapshot on.                 *)
<1>5. ASSUME NEW r, worker' = [worker EXCEPT ![w] = r], FromUser(r.snap), r.pc \notin BindPC
      PROVE  TasksAsked'
  BY <1>0, <1>5, TaskUpdate DEF Asked
<1>6. ASSUME NEW s, FromUser(worker[w].snap)
      PROVE  FromUser([worker[w].snap EXCEPT ![s] = None])
  BY <1>0, <1>6 DEF FromUser, Worker
<1>7. CASE \/ BindOffline(w) \/ BindSelect(w) \/ BindSelectFails(w) \/ BindConfirm(w)
           \/ BindUnconfirmed(w) \/ BindWrite(w) \/ UpdateWrite(w) \/ Apply(w)
  <2>1. CASE BindOffline(w)
    BY <1>0, <1>1, <2>1, TaskMove DEF BindOffline, BindPC
  <2>2. CASE BindSelect(w)
    <3> DEFINE r == [worker[w] EXCEPT !.pc = "bindConfirm", !.ctl = core]
    <3>1. Asked(r)
      BY <1>0, <2>2 DEF BindSelect, Asked, Worker, BindPC
    <3>2. worker' = [worker EXCEPT ![w] = r]
      BY <2>2 DEF BindSelect
    <3> HIDE DEF r
    <3> QED BY <1>0, <3>1, <3>2, TaskUpdate
  <2>3. CASE BindConfirm(w)
    <3> DEFINE r == [worker[w] EXCEPT !.pc = "bindWrite", !.ctl = None]
    <3>1. Asked(r)
      BY <1>0, <2>3 DEF BindConfirm, Asked, Worker, BindPC
    <3>2. worker' = [worker EXCEPT ![w] = r]
      BY <2>3 DEF BindConfirm
    <3> HIDE DEF r
    <3> QED BY <1>0, <3>1, <3>2, TaskUpdate
  <2>4. CASE BindSelectFails(w) \/ BindUnconfirmed(w) \/ BindWrite(w)
    BY <1>3, <2>4 DEF BindSelectFails, BindUnconfirmed, BindWrite
  <2>5. CASE UpdateWrite(w)
    BY <1>1, <1>2, <2>5 DEF UpdateWrite, RefreshPC
  <2>6. CASE Apply(w)
    BY <1>1, <1>3, <1>4, <2>6 DEF Apply, StopPC
  <2> QED BY <1>7, <2>1, <2>2, <2>3, <2>4, <2>5, <2>6
<1>8. CASE \/ RefreshApply(w) \/ RefreshApplyFails(w) \/ RefreshCoreOff(w) \/ RefreshCoreOn(w)
           \/ BlockFails(w) \/ BlockConfirm(w) \/ BlockWrite(w) \/ RefreshDone(w)
           \/ \E s \in Slots : BlockSelect(w, s) \/ OrphanWrite(w, s)
  <2>1. CASE RefreshApply(w)
    <3> DEFINE disappeared == present \ worker[w].nodes
               label == IF disappeared = {} THEN "apply" ELSE "refreshCore"
               r == [worker[w] EXCEPT !.nodes = disappeared, !.pc = label]
    <3>1. r.snap = worker[w].snap /\ r.pc \notin BindPC
      BY <1>0 DEF Worker, BindPC
    <3>2. worker' = [worker EXCEPT ![w] = r]
      BY <2>1 DEF RefreshApply
    <3> HIDE DEF r
    <3> QED BY <1>0, <1>5, <3>1, <3>2 DEF Asked
  <2>2. CASE RefreshApplyFails(w)
    BY <1>3, <2>2 DEF RefreshApplyFails
  <2>3. CASE RefreshCoreOff(w)
    <3> DEFINE r == [worker[w] EXCEPT !.pc = "orphan", !.snap = Affected(w)]
    <3>1. r.snap = Affected(w) /\ r.pc \notin BindPC
      BY <1>0 DEF Worker, BindPC
    <3>2. worker' = [worker EXCEPT ![w] = r]
      BY <2>3 DEF RefreshCoreOff
    <3> HIDE DEF r
    <3> QED BY <1>5, <3>1, <3>2, ReadingsAsked
  <2>4. CASE RefreshCoreOn(w)
    <3> DEFINE r == [worker[w] EXCEPT !.pc = "block", !.snap = Affected(w),
                                      !.mgr = core, !.ctl = core]
    <3>1. r.snap = Affected(w) /\ r.pc \notin BindPC
      BY <1>0 DEF Worker, BindPC
    <3>2. worker' = [worker EXCEPT ![w] = r]
      BY <2>4 DEF RefreshCoreOn
    <3> HIDE DEF r
    <3> QED BY <1>5, <3>1, <3>2, ReadingsAsked
  <2>5. CASE BlockFails(w)
    BY <1>1, <1>4, <2>5 DEF BlockFails, StopPC
  <2>6. CASE BlockConfirm(w) \/ RefreshDone(w)
    BY <1>1, <1>2, <2>6 DEF BlockConfirm, RefreshDone, RefreshPC
  <2>7. CASE BlockWrite(w)
    <3> DEFINE s == worker[w].slot
               r == [worker[w] EXCEPT !.pc = "block", !.snap[s] = None]
    <3>1. r.snap = [worker[w].snap EXCEPT ![s] = None] /\ r.pc \notin BindPC
      BY <1>0 DEF Worker, BindPC
    <3>2. worker' = [worker EXCEPT ![w] = r]
      BY <2>7 DEF BlockWrite
    <3> HIDE DEF r, s
    <3>3. FromUser(r.snap)
      BY <1>0, <1>6, <3>1 DEF Asked
    <3> QED BY <1>5, <3>1, <3>2, <3>3
  <2>8. ASSUME NEW s \in Slots, BlockSelect(w, s) PROVE TasksAsked'
    <3> DEFINE r == [worker[w] EXCEPT !.pc = "blockConfirm", !.slot = s]
    <3>1. r.snap = worker[w].snap /\ r.pc \notin BindPC
      BY <1>0 DEF Worker, BindPC
    <3>2. worker' = [worker EXCEPT ![w] = r]
      BY <2>8 DEF BlockSelect
    <3> HIDE DEF r
    <3> QED BY <1>0, <1>5, <3>1, <3>2 DEF Asked
  <2>9. ASSUME NEW s \in Slots, OrphanWrite(w, s) PROVE TasksAsked'
    <3> DEFINE r == [worker[w] EXCEPT !.snap[s] = None]
    <3>1. r.snap = [worker[w].snap EXCEPT ![s] = None] /\ r.pc \notin BindPC
      BY <1>0, <2>9 DEF OrphanWrite, Worker, BindPC
    <3>2. worker' = [worker EXCEPT ![w] = r]
      BY <2>9 DEF OrphanWrite
    <3> HIDE DEF r
    <3> QED BY <1>0, <1>5, <1>6, <3>1, <3>2 DEF Asked
  <2> QED BY <1>8, <2>1, <2>2, <2>3, <2>4, <2>5, <2>6, <2>7, <2>8, <2>9
<1>9. CASE StopMonitor(w) \/ StopCore(w) \/ StopCoreFails(w) \/ StopFlag(w)
  <2>1. CASE StopMonitor(w)
    BY <1>1, <1>2, <2>1 DEF StopMonitor, StopPC
  <2>2. CASE StopCore(w)
    <3> DEFINE wk == [worker EXCEPT ![w] = [worker[w] EXCEPT !.pc = "stopFlag"]]
    <3>1. [worker[w] EXCEPT !.pc = "stopFlag"] \in Worker /\ Asked([worker[w] EXCEPT !.pc = "stopFlag"])
      BY <1>0, <1>1, MoveType, TaskMove DEF StopPC, IInv, TypeInv
    <3>2. wk \in [Workers -> Worker] /\ \A v \in Workers : Asked(wk[v])
      BY <1>0, <3>1 DEF IInv, TasksAsked
    <3>3. Goto(w, "stopFlag") \/ worker' = Disconnected(core, wk)
      BY <2>2 DEF StopCore
    <3>4. worker' = Disconnected(core, wk) => \A v \in Workers : Asked(worker'[v])
      <4> HIDE DEF wk
      <4> QED BY <3>2, DisconnectedAsked
    <3> QED BY <1>0, <1>1, <1>2, <3>3, <3>4 DEF StopPC, TasksAsked, Asked, FromUser
  <2>3. CASE StopCoreFails(w)
    <3> DEFINE r == IF worker[w].then = "apply"
                    THEN [IdleWorker EXCEPT !.pc = "apply"] ELSE IdleWorker
               wk == [worker EXCEPT ![w] = r]
    <3>1. "apply" \in PC \ BindPC
      BY <1>1 DEF RefreshPC
    <3>2. r \in Worker /\ Asked(r)
      BY <3>1, IdleType, IdleAtType, NothingAsked
    <3>3. worker' = Disconnected(core, wk)
      BY <2>3 DEF StopCoreFails
    <3> HIDE DEF r
    <3>4. wk \in [Workers -> Worker] /\ \A v \in Workers : Asked(wk[v])
      BY <1>0, <3>2 DEF IInv, TasksAsked
    <3> HIDE DEF wk
    <3>5. \A v \in Workers : Asked(worker'[v])
      BY <3>3, <3>4, DisconnectedAsked
    <3> QED BY <1>0, <3>5 DEF TasksAsked, Asked, FromUser
  <2>4. CASE StopFlag(w)
    <3>1. AfterStop(worker[w].then) \in PC \ BindPC
      BY <1>0, <1>1 DEF Worker, AfterStop, RefreshPC, StartPC
    <3> QED BY <1>4, <2>4, <3>1 DEF StopFlag
  <2> QED BY <1>9, <2>1, <2>2, <2>3, <2>4
<1>10. CASE \/ StartCheck(w) \/ StartRead(w) \/ StartSpawnFails(w) \/ StartProviders(w)
            \/ StartProvidersFail(w) \/ PublishCore(w) \/ PublishMonitor(w) \/ RestoreRead(w) \/ RestoreDone(w)
            \/ (\E g \in Managers : StartSpawn(w, g)) \/ (\E s \in Slots : RestoreSelect(w, s) \/ RestoreSelectFails(w, s))
  <2>1. CASE StartCheck(w) \/ StartSpawnFails(w) \/ RestoreDone(w)
    BY <1>1, <1>2, <1>3, <2>1 DEF StartCheck, StartSpawnFails, RestoreDone, StartPC
  <2>2. CASE StartRead(w)
    <3> DEFINE r == [worker[w] EXCEPT !.pc = "startSpawn", !.snap = Topology]
    <3>1. r.snap = Topology /\ r.pc \notin BindPC
      BY <1>0 DEF Worker, BindPC
    <3>2. Return(w) \/ worker' = [worker EXCEPT ![w] = r]
      BY <2>2 DEF StartRead
    <3> HIDE DEF r
    <3> QED BY <1>3, <1>5, <3>1, <3>2, ReadingsAsked
  <2>3. ASSUME NEW g \in Managers, StartSpawn(w, g) PROVE TasksAsked'
    <3> DEFINE r == [worker[w] EXCEPT !.pc = "startProviders", !.mgr = g, !.snap = NoTargets]
    <3>1. r.snap = NoTargets /\ r.pc \notin BindPC
      BY <1>0 DEF Worker, BindPC
    <3>2. worker' = [worker EXCEPT ![w] = r]
      BY <2>3 DEF StartSpawn
    <3> HIDE DEF r
    <3> QED BY <1>5, <3>1, <3>2, NothingAsked
  <2>4. CASE StartProviders(w) \/ StartProvidersFail(w) \/ PublishCore(w) \/ PublishMonitor(w)
    BY <1>1, <1>2, <2>4 DEF StartProviders, StartProvidersFail, PublishCore, PublishMonitor, StartPC
  <2>5. CASE RestoreRead(w)
    <3> DEFINE r == [worker[w] EXCEPT !.pc = "restore", !.snap = Topology, !.ctl = worker[w].mgr]
    <3>1. r.snap = Topology /\ r.pc \notin BindPC
      BY <1>0 DEF Worker, BindPC
    <3>2. Return(w) \/ worker' = [worker EXCEPT ![w] = r]
      BY <2>5 DEF RestoreRead
    <3> HIDE DEF r
    <3> QED BY <1>3, <1>5, <3>1, <3>2, ReadingsAsked
  <2>6. ASSUME NEW s \in Slots, RestoreSelect(w, s) \/ RestoreSelectFails(w, s) PROVE TasksAsked'
    <3> DEFINE r == [worker[w] EXCEPT !.snap[s] = None]
    <3>1. r.snap = [worker[w].snap EXCEPT ![s] = None] /\ r.pc \notin BindPC
      BY <1>0, <2>6 DEF RestoreSelect, RestoreSelectFails, Worker, BindPC
    <3>2. worker' = [worker EXCEPT ![w] = r]
      BY <2>6 DEF RestoreSelect, RestoreSelectFails
    <3> HIDE DEF r
    <3> QED BY <1>0, <1>5, <1>6, <3>1, <3>2 DEF Asked
  <2> QED BY <1>10, <2>1, <2>2, <2>3, <2>4, <2>5, <2>6
<1> QED BY <1>7, <1>8, <1>9, <1>10 DEF Continue, Fails

(* Exits, recoveries, dropped managers and restarts select nothing new.    *)
LEMMA SystemAsked ==
    ASSUME IInv,
           \/ \E g \in Managers :
                 ChildExit(g) \/ LeftExits(g) \/ MonitorTask(g) \/ DropManager(g)
           \/ Dashboard \/ DashboardFails
           \/ ExitAndRestart
    PROVE  BindingsAsked' /\ ManagersAsked' /\ TasksAsked'
<1> USE DEF db, bridge, handles
<1>a. mgr \in [Managers -> Manager] /\ worker \in [Workers -> Worker]
  BY DEF IInv, TypeInv, TypeOK
<1>b. requested' = requested /\ dbNode' = dbNode
  <2>1. ASSUME NEW g \in Managers, ChildExit(g) \/ LeftExits(g) \/ MonitorTask(g) \/ DropManager(g)
        PROVE  requested' = requested /\ dbNode' = dbNode
    BY <2>1 DEF MonitorTask, ChildExit, LeftExits, MonitorDetect, MonitorRespawn, DropManager
  <2> QED BY <2>1 DEF Dashboard, DashboardFails, ExitAndRestart
<1>0. /\ mgr \in [Managers -> Manager] /\ worker \in [Workers -> Worker]
      /\ requested' = requested /\ dbNode' = dbNode
  BY <1>a, <1>b
<1>1. BindingsAsked'
  BY <1>0 DEF IInv, BindingsAsked, FromUser
<1>2. ASSUME NEW g \in Managers, NEW m, mgr' = [mgr EXCEPT ![g] = m],
             FromUser(m.topo), FromUser(m.sel)
      PROVE  ManagersAsked'
  BY <1>0, <1>2 DEF IInv, ManagersAsked, FromUser
<1>3. ASSUME worker' = worker PROVE TasksAsked'
  BY <1>0, <1>3 DEF IInv, TasksAsked, Asked, FromUser
<1>4. ASSUME NEW g \in Managers, ChildExit(g) PROVE ManagersAsked' /\ TasksAsked'
  <2> DEFINE m == Dead(mgr[g], "exited")
  <2>1. m.topo = mgr[g].topo /\ m.sel = NoTargets
    BY <1>0 DEF Dead, Manager
  <2>2. mgr' = [mgr EXCEPT ![g] = m] /\ worker' = Disconnected(g, worker)
    BY <1>4 DEF ChildExit
  <2> HIDE DEF m
  <2>3. ManagersAsked'
    BY <1>2, <2>1, <2>2, NothingAsked DEF IInv, ManagersAsked
  <2>4. \A v \in Workers : Asked(worker'[v])
    BY <1>0, <2>2, DisconnectedAsked DEF IInv, TasksAsked
  <2> QED BY <1>0, <2>3, <2>4 DEF TasksAsked, Asked, FromUser
<1>5. ASSUME NEW g \in Managers, MonitorDetect(g) PROVE ManagersAsked'
  <2>1. PICK attempt, mon : mgr' = [mgr EXCEPT ![g] =
            [mgr[g] EXCEPT !.child = "none", !.attempts = attempt, !.mon = mon]]
    BY <1>5, Zenon DEF MonitorDetect
  <2> DEFINE m == [mgr[g] EXCEPT !.child = "none", !.attempts = attempt, !.mon = mon]
  <2>2. m.topo = mgr[g].topo /\ m.sel = mgr[g].sel
    BY <1>0 DEF Manager
  <2> HIDE DEF m
  <2> QED BY <1>2, <2>1, <2>2 DEF m, IInv, ManagersAsked
<1>6. ASSUME NEW g \in Managers, MonitorRespawn(g) PROVE ManagersAsked'
  <2> DEFINE mon == IF mgr[g].mon = "backoff" THEN "watch" ELSE "off"
             up == [Spawned(mgr[g]) EXCEPT !.mon = mon]
             down == [mgr[g] EXCEPT !.mon = mon]
  <2>1. /\ up.topo = mgr[g].topo /\ up.sel = mgr[g].topo
        /\ down.topo = mgr[g].topo /\ down.sel = mgr[g].sel
    BY <1>0 DEF Spawned, Manager
  <2>2. mgr' = [mgr EXCEPT ![g] = up] \/ mgr' = [mgr EXCEPT ![g] = down]
    BY <1>6 DEF MonitorRespawn
  <2> HIDE DEF up, down
  <2> QED BY <1>2, <2>1, <2>2 DEF IInv, ManagersAsked
<1>7. ASSUME NEW g \in Managers, DropManager(g) \/ LeftExits(g) PROVE ManagersAsked'
  BY <1>2, <1>7, NothingAsked DEF DropManager, LeftExits
<1>8. CASE Dashboard \/ DashboardFails
  BY <1>0, <1>1, <1>3, <1>8 DEF Dashboard, DashboardFails, IInv, ManagersAsked, FromUser
<1>9. CASE ExitAndRestart
  <2>1. /\ \A g \in Managers : mgr'[g] = FreeManager \/ mgr'[g] = Left(mgr[g])
        /\ \A w \in Workers : worker'[w] = IdleWorker
    BY <1>9 DEF ExitAndRestart
  <2>2. \A g \in Managers : Left(mgr[g]).topo = NoTargets /\ Left(mgr[g]).sel = mgr[g].sel
    BY <1>0 DEF Left, FreeManager, Manager
  <2> QED BY <1>0, <1>1, <2>1, <2>2, NothingAsked DEF IInv, ManagersAsked, TasksAsked, Asked, FromUser
<1> QED BY <1>1, <1>3, <1>4, <1>5, <1>6, <1>7, <1>8, <1>9
        DEF MonitorTask, MonitorDetect, MonitorRespawn, DropManager, LeftExits

LEMMA IInvInit == Init => IInv
<1> SUFFICES ASSUME Init PROVE IInv
  OBVIOUS
<1>1. BindingsAsked /\ ManagersAsked /\ TasksAsked
  BY NothingAsked DEF Init, BindingsAsked, ManagersAsked, TasksAsked
<1> QED BY <1>1, TypeInvInit DEF IInv

LEMMA IInvStep == IInv /\ [Next]_vars => IInv'
<1> SUFFICES ASSUME IInv, [Next]_vars PROVE IInv'
  OBVIOUS
<1>1. TypeInv'
  BY TypeInvStep DEF IInv
<1>2. ASSUME NEW w \in Workers, UserCommand(w) PROVE IInv'
  BY <1>1, <1>2, UserAsked DEF IInv
<1>3. ASSUME NEW w \in Workers, Continue(w) \/ Fails(w) PROVE IInv'
  BY <1>1, <1>3, TaskBindings, TaskManagers, TaskTasks DEF IInv
<1>4. CASE UNCHANGED vars
  BY <1>1, <1>4 DEF vars, IInv, BindingsAsked, ManagersAsked, TasksAsked, Asked, FromUser
<1> QED BY <1>1, <1>2, <1>3, <1>4, SystemAsked DEF Next, Task, Process, IInv

(* Whatever overlaps, fails or restarts, no Mihomo process ever routes a   *)
(* Slot through a node that bind_slot or update_slot was not given for it. *)
THEOREM NeverUnrequested == Spec => []OnlyRequested
<1>1. ASSUME IInv PROVE OnlyRequested
  BY <1>1 DEF IInv, ManagersAsked, FromUser, OnlyRequested, Routes, Effective
<1>2. IInv => OnlyRequested
  BY <1>1
<1> QED BY <1>2, IInvInit, IInvStep, PTL DEF Spec
=============================================================================
