------------------------- MODULE SlotSerialProofs -------------------------
(***************************************************************************)
(* More proofs about SlotRuntime, for any Slots, nodes, tasks and          *)
(* managers.  However commands overlap and fail, a running Mihomo stays    *)
(* stoppable.  And what commands promise to each other, that routes,       *)
(* bindings and catalogue agree after each of them and that a Slot is      *)
(* blocked before its binding is marked, holds whenever nothing disturbed  *)
(* the commands since Mihomo was last at rest.                             *)
(***************************************************************************)
EXTENDS SlotRuntimeProofs

-----------------------------------------------------------------------------
(* A monitor task runs only where a handle or a starting task has it, or   *)
(* to end after its recovery; a task without a command keeps no manager.   *)
Publishing == {"publishCore", "publishMonitor"}

Watched ==
    \A g \in Managers : mgr[g].mon # "off" =>
        \/ g = monitor
        \/ mgr[g].mon \in {"doomed", "left"}
        \/ \E w \in Workers : worker[w].pc \in Publishing /\ worker[w].mgr = g

Rested == \A w \in Workers : worker[w].pc = "idle" => worker[w].mgr = None

Owned == Watched /\ Rested

(* A step that leaves the monitors, and the tasks that publish, alone.     *)
LEMMA WatchStays ==
    ASSUME Watched, monitor' = monitor,
           \A g \in Managers : mgr'[g].mon = mgr[g].mon,
           \A w \in Workers : worker[w].pc \in Publishing =>
               worker'[w].pc \in Publishing /\ worker'[w].mgr = worker[w].mgr
    PROVE  Watched'
BY DEF Watched

(* The steps of a task that set no monitor do not end one either.          *)
LEMMA TaskMonitors ==
    ASSUME TypeOK, NEW w \in Workers, UserCommand(w) \/ Continue(w) \/ Fails(w),
           ~StartProviders(w), ~StartProvidersFail(w),
           ~StopMonitor(w), ~PublishMonitor(w)
    PROVE  monitor' = monitor /\ \A g \in Managers : mgr'[g].mon = mgr[g].mon
<1> USE DEF handles
<1>0. mgr \in [Managers -> Manager]
  BY DEF TypeOK
<1>1. ASSUME NEW c, NEW s, NEW n, mgr' = [mgr EXCEPT ![c].sel[s] = n]
      PROVE  \A g \in Managers : mgr'[g].mon = mgr[g].mon
  BY <1>0, <1>1 DEF Manager
<1>2. CASE StopCore(w) \/ StopCoreFails(w)
  <2>1. \A m \in Manager : Dead(m, "none").mon = m.mon
    BY DEF Dead, Manager
  <2>2. mgr' = mgr \/ (core \in Managers /\ mgr' = [mgr EXCEPT ![core] = Dead(mgr[core], "none")])
    BY <1>2 DEF StopCore, StopCoreFails, TypeOK
  <2>3. monitor' = monitor
    BY <1>2 DEF StopCore, StopCoreFails
  <2>4. QED
    BY <1>0, <2>1, <2>2, <2>3
<1>3. ASSUME NEW g \in Managers, StartSpawn(w, g) PROVE monitor' = monitor /\ \A h \in Managers : mgr'[h].mon = mgr[h].mon
  <2>1. mgr' = [mgr EXCEPT ![g] = Spawned([FreeManager EXCEPT !.topo = worker[w].snap])]
        /\ mgr[g] = FreeManager /\ monitor' = monitor
    BY <1>3 DEF StartSpawn
  <2>2. Spawned([FreeManager EXCEPT !.topo = worker[w].snap]).mon = "off" /\ FreeManager.mon = "off"
    BY DEF Spawned, FreeManager
  <2>3. QED
    BY <1>0, <2>1, <2>2
<1>4. UserCommand(w) => mgr' = mgr /\ monitor' = monitor
  BY DEF UserCommand, BindCheck, UpdateCheck, RefreshFetch, StartCommand, StopCommand
<1>5. Continue(w) \/ Fails(w) =>
        \/ mgr' = mgr /\ monitor' = monitor
        \/ BindSelect(w) \/ (\E s \in Slots : BlockSelect(w, s) \/ RestoreSelect(w, s))
        \/ StopCore(w) \/ StopCoreFails(w)
        \/ (\E g \in Managers : StartSpawn(w, g))
  BY DEF Continue, Fails, BindOffline, BindSelectFails, BindConfirm, BindUnconfirmed, BindWrite,
         UpdateWrite, Apply, RefreshApply, RefreshApplyFails, RefreshCoreOff, RefreshCoreOn,
         BlockFails, OrphanWrite, BlockConfirm, BlockWrite, RefreshDone, StopFlag, StartCheck,
         StartRead, StartSpawnFails, PublishCore, RestoreRead,
         RestoreSelectFails, RestoreDone
<1>6. ASSUME BindSelect(w) \/ (\E s \in Slots : BlockSelect(w, s) \/ RestoreSelect(w, s))
      PROVE  monitor' = monitor /\ \A g \in Managers : mgr'[g].mon = mgr[g].mon
  <2>1. CASE BindSelect(w)
    BY <1>1, <2>1 DEF BindSelect
  <2>2. ASSUME NEW s \in Slots, BlockSelect(w, s)
        PROVE  monitor' = monitor /\ \A g \in Managers : mgr'[g].mon = mgr[g].mon
    BY <1>1, <2>2 DEF BlockSelect
  <2>3. ASSUME NEW s \in Slots, RestoreSelect(w, s)
        PROVE  monitor' = monitor /\ \A g \in Managers : mgr'[g].mon = mgr[g].mon
    BY <1>1, <2>3 DEF RestoreSelect
  <2>4. QED
    BY <1>6, <2>1, <2>2, <2>3
<1>7. StopCore(w) \/ StopCoreFails(w) => monitor' = monitor
  BY DEF StopCore, StopCoreFails
<1>8. QED
  BY <1>2, <1>3, <1>4, <1>5, <1>6, <1>7

(* What a task's step does to its record.                                  *)
Others(w) == \A v \in Workers \ {w} : worker'[v].pc = worker[v].pc /\ worker'[v].mgr = worker[v].mgr

LEMMA TurnDoes ==
    ASSUME worker \in [Workers -> Worker], NEW w \in Workers, NEW r \in Worker,
           \/ worker' = [worker EXCEPT ![w] = r]
           \/ \E g \in Managers : worker' = Disconnected(g, [worker EXCEPT ![w] = r])
    PROVE  Others(w) /\ worker'[w].pc = r.pc /\ worker'[w].mgr = r.mgr
<1>1. \A q \in Worker : [q EXCEPT !.ctl = None].pc = q.pc /\ [q EXCEPT !.ctl = None].mgr = q.mgr
  BY DEF Worker
<1>2. [worker EXCEPT ![w] = r] \in [Workers -> Worker]
  OBVIOUS
<1>3. CASE worker' = [worker EXCEPT ![w] = r]
  BY <1>3 DEF Others
<1>4. ASSUME NEW g \in Managers, worker' = Disconnected(g, [worker EXCEPT ![w] = r])
      PROVE  Others(w) /\ worker'[w].pc = r.pc /\ worker'[w].mgr = r.mgr
  <2>1. PICK f : f = [worker EXCEPT ![w] = r]
    OBVIOUS
  <2>2. /\ f \in [Workers -> Worker] /\ f[w] = r /\ \A v \in Workers \ {w} : f[v] = worker[v]
    BY <2>1
  <2>3. \A v \in Workers : worker'[v].pc = f[v].pc /\ worker'[v].mgr = f[v].mgr
    BY <1>1, <1>4, <2>1, <2>2 DEF Disconnected
  <2>4. QED
    BY <2>2, <2>3 DEF Others
<1>5. QED
  BY <1>3, <1>4

LEMMA GotoDoes ==
    ASSUME worker \in [Workers -> Worker], NEW w \in Workers, NEW label, Goto(w, label)
    PROVE  /\ Others(w) /\ worker'[w].pc = label /\ worker'[w].mgr = worker[w].mgr
           /\ worker'[w].ctl = worker[w].ctl /\ worker'[w].slot = worker[w].slot
           /\ worker'[w].node = worker[w].node /\ worker'[w].snap = worker[w].snap
           /\ worker'[w].nodes = worker[w].nodes /\ worker'[w].then = worker[w].then
BY DEF Goto, Others, Worker

LEMMA ReturnDoes ==
    ASSUME worker \in [Workers -> Worker], NEW w \in Workers, Return(w)
    PROVE  Others(w) /\ worker'[w] = IdleWorker /\ worker'[w].pc = "idle" /\ worker'[w].mgr = None
BY DEF Return, Others, IdleWorker
(* No step of a task but its turn through publishing takes a manager, or   *)
(* leaves one with a task that rests.                                      *)
TurnsOf(w) ==
    /\ Others(w)
    /\ worker'[w].pc = "idle" => worker'[w].mgr = None
    /\ worker[w].pc \in Publishing => worker'[w].mgr = worker[w].mgr
    /\ worker[w].pc = "publishCore" => worker'[w].pc = "publishMonitor"
    /\ worker[w].pc = "publishMonitor" => PublishMonitor(w)

LEMMA TaskTurns ==
    ASSUME TypeOK, NEW w \in Workers, UserCommand(w) \/ Continue(w) \/ Fails(w)
    PROVE  TurnsOf(w)
<1>0. worker \in [Workers -> Worker] /\ worker[w] \in Worker
  BY DEF TypeOK
<1>1. ASSUME Return(w), worker[w].pc \notin Publishing PROVE TurnsOf(w)
  BY <1>0, <1>1, ReturnDoes DEF TurnsOf, Publishing
<1>2. ASSUME NEW label, Goto(w, label), label # "idle", worker[w].pc \notin Publishing
      PROVE  TurnsOf(w)
  BY <1>0, <1>2, GotoDoes DEF TurnsOf, Publishing
<1>3. ASSUME NEW r \in Worker, worker[w].pc \notin Publishing, r.pc = "idle" => r.mgr = None,
             \/ worker' = [worker EXCEPT ![w] = r]
             \/ \E g \in Managers : worker' = Disconnected(g, [worker EXCEPT ![w] = r])
      PROVE  TurnsOf(w)
  BY <1>0, <1>3, TurnDoes DEF TurnsOf, Publishing
<1>4. UserCommand(w) => TurnsOf(w)
  <2>1. ASSUME NEW s \in Slots, NEW n \in Nodes, BindCheck(w, s, n) PROVE TurnsOf(w)
    BY <1>0, <2>1 DEF BindCheck, TurnsOf, Others, Worker, Publishing
  <2>2. ASSUME NEW s \in Slots, NEW n \in Nodes, UpdateCheck(w, s, n) PROVE TurnsOf(w)
    BY <1>0, <2>2 DEF UpdateCheck, TurnsOf, Others, Worker, Publishing
  <2>3. ASSUME NEW P \in Contents, RefreshFetch(w, P) PROVE TurnsOf(w)
    BY <1>0, <2>3 DEF RefreshFetch, TurnsOf, Others, Worker, Publishing
  <2>4. CASE StartCommand(w)
    BY <1>2, <2>4 DEF StartCommand, Publishing
  <2>5. CASE StopCommand(w)
    BY <1>2, <2>5 DEF StopCommand, Publishing
  <2>6. QED
    BY <2>1, <2>2, <2>3, <2>4, <2>5 DEF UserCommand
<1>5. CASE \/ BindOffline(w) \/ BindSelectFails(w) \/ BindUnconfirmed(w) \/ BindWrite(w)
           \/ UpdateWrite(w) \/ RefreshApplyFails(w) \/ BlockConfirm(w) \/ RefreshDone(w)
           \/ StopMonitor(w) \/ StartCheck(w) \/ StartSpawnFails(w) \/ RestoreDone(w)
  <2>1. /\ worker[w].pc \notin Publishing
        /\ Return(w) \/ \E label \in {"bindWrite", "apply", "blockWrite", "stopCore", "startRead"} :
                            Goto(w, label)
    BY <1>5 DEF BindOffline, BindSelectFails, BindUnconfirmed, BindWrite, UpdateWrite, RefreshApplyFails,
                BlockConfirm, RefreshDone, StopMonitor, StartCheck, StartSpawnFails, RestoreDone, Publishing
  <2>2. QED
    BY <1>1, <1>2, <2>1
<1>6. CASE BindSelect(w) \/ BindConfirm(w) \/ RefreshApply(w) \/ RefreshCoreOff(w) \/ RefreshCoreOn(w)
           \/ BlockWrite(w) \/ \E s \in Slots : BlockSelect(w, s) \/ OrphanWrite(w, s) \/ RestoreSelect(w, s)
                                       \/ RestoreSelectFails(w, s)
  BY <1>0, <1>6 DEF BindSelect, BindConfirm, RefreshApply, RefreshCoreOff, RefreshCoreOn, BlockWrite,
        BlockSelect, OrphanWrite, RestoreSelect, RestoreSelectFails, TurnsOf, Others, Worker, Publishing
<1>7. CASE Apply(w) \/ BlockFails(w) \/ StopFlag(w)
  <2>1. /\ [IdleWorker EXCEPT !.pc = "stopMonitor", !.then = "start"] \in Worker
        /\ [IdleWorker EXCEPT !.pc = "stopMonitor", !.then = "apply"] \in Worker
        /\ [IdleWorker EXCEPT !.pc = AfterStop(worker[w].then)] \in Worker
    <3>1. "stopMonitor" \in PC /\ AfterStop(worker[w].then) \in PC
      BY <1>0 DEF Worker, AfterStop, PC, StopPC, StartPC, RefreshPC
    <3>2. QED
      BY <3>1, IdleAtType
  <2>2. /\ [IdleWorker EXCEPT !.pc = "stopMonitor", !.then = "start"].mgr = None
        /\ [IdleWorker EXCEPT !.pc = "stopMonitor", !.then = "apply"].mgr = None
        /\ [IdleWorker EXCEPT !.pc = AfterStop(worker[w].then)].mgr = None
    BY DEF IdleWorker
  <2>3. CASE Apply(w)
    BY <1>1, <1>3, <2>1, <2>2, <2>3 DEF Apply, Publishing
  <2>4. CASE BlockFails(w)
    BY <1>3, <2>1, <2>2, <2>4 DEF BlockFails, Publishing
  <2>5. CASE StopFlag(w)
    BY <1>3, <2>1, <2>2, <2>5 DEF StopFlag, Publishing
  <2>6. QED
    BY <1>7, <2>3, <2>4, <2>5
<1>8. CASE StopCore(w)
  <2>1. PICK r : r = [worker[w] EXCEPT !.pc = "stopFlag"]
    OBVIOUS
  <2>2. r \in Worker /\ r.pc # "idle" /\ [worker EXCEPT ![w].pc = "stopFlag"] = [worker EXCEPT ![w] = r]
    BY <1>0, <2>1 DEF Worker, PC, StopPC
  <2>3. \/ core \in Managers /\ worker' = Disconnected(core, [worker EXCEPT ![w] = r])
        \/ worker' = [worker EXCEPT ![w] = r]
    BY <1>8, <2>2 DEF StopCore, Goto, TypeOK
  <2>4. QED
    BY <1>3, <1>8, <2>2, <2>3 DEF StopCore, Publishing
<1>9. CASE StopCoreFails(w)
  <2>1. PICK r : r = IF worker[w].then = "apply" THEN [IdleWorker EXCEPT !.pc = "apply"] ELSE IdleWorker
    OBVIOUS
  <2>2. r \in Worker /\ r.mgr = None
    BY <2>1, IdleType, IdleAtType DEF PC, RefreshPC, IdleWorker
  <2>3. core \in Managers /\ worker' = Disconnected(core, [worker EXCEPT ![w] = r])
    BY <1>9, <2>1 DEF StopCoreFails, TypeOK
  <2>4. QED
    BY <1>3, <1>9, <2>2, <2>3 DEF StopCoreFails, Publishing
<1>10. CASE \/ StartRead(w) \/ StartProviders(w) \/ StartProvidersFail(w) \/ PublishCore(w)
            \/ PublishMonitor(w) \/ RestoreRead(w)
            \/ \E g \in Managers : StartSpawn(w, g)
  <2>1. CASE StartRead(w) \/ RestoreRead(w)
    <3>1. \/ Return(w)
          \/ worker' = [worker EXCEPT ![w].pc = "startSpawn", ![w].snap = Topology]
          \/ worker' = [worker EXCEPT ![w].pc = "restore", ![w].snap = Topology, ![w].ctl = worker[w].mgr]
      BY <2>1 DEF StartRead, RestoreRead
    <3>2. worker[w].pc \notin Publishing
      BY <2>1 DEF StartRead, RestoreRead, Publishing
    <3>3. QED
      BY <1>0, <1>1, <3>1, <3>2 DEF TurnsOf, Others, Worker, Publishing
  <2>2. CASE StartProviders(w) \/ StartProvidersFail(w)
    BY <1>2, <2>2 DEF StartProviders, StartProvidersFail, Publishing
  <2>3. CASE PublishCore(w) \/ PublishMonitor(w)
    BY <1>0, <2>3, GotoDoes DEF PublishCore, PublishMonitor, TurnsOf, Publishing
  <2>4. CASE \E g \in Managers : StartSpawn(w, g)
    BY <1>0, <2>4 DEF StartSpawn, TurnsOf, Others, Worker, Publishing
  <2>5. QED
    BY <1>10, <2>1, <2>2, <2>3, <2>4
<1>11. QED
  BY <1>4, <1>5, <1>6, <1>7, <1>8, <1>9, <1>10 DEF Continue, Fails

(* A task that starts or stops Mihomo, and what the rest does.             *)
LEMMA TaskOwned ==
    ASSUME TypeOK, Owned, NEW w \in Workers, UserCommand(w) \/ Continue(w) \/ Fails(w)
    PROVE  Owned'
<1>0. TurnsOf(w) /\ mgr \in [Managers -> Manager] /\ worker[w] \in Worker
  BY TaskTurns DEF TypeOK
<1>1. Rested'
  BY <1>0 DEF Rested, Owned, TurnsOf, Others
<1>2. CASE ~StartProviders(w) /\ ~StartProvidersFail(w) /\ ~StopMonitor(w) /\ ~PublishMonitor(w)
  <2>1. monitor' = monitor /\ \A g \in Managers : mgr'[g].mon = mgr[g].mon
    BY <1>2, TaskMonitors
  <2>2. \A v \in Workers : worker[v].pc \in Publishing =>
               worker'[v].pc \in Publishing /\ worker'[v].mgr = worker[v].mgr
    BY <1>0, <1>2 DEF TurnsOf, Others, Publishing
  <2>3. QED
    BY <1>1, <2>1, <2>2, WatchStays DEF Owned
<1>3. CASE StartProviders(w) \/ StartProvidersFail(w)
  <2>1. /\ worker'[w].pc = "publishCore" /\ worker'[w].mgr = worker[w].mgr
        /\ worker[w].pc \notin Publishing /\ monitor' = monitor
    BY <1>0, <1>3, GotoDoes DEF StartProviders, StartProvidersFail, TypeOK, handles, Publishing
  <2>2. \A g \in Managers \ {worker[w].mgr} : mgr'[g].mon = mgr[g].mon
    BY <1>0, <1>3 DEF StartProviders, StartProvidersFail
  <2>3. QED
    BY <1>0, <1>1, <2>1, <2>2 DEF Owned, Watched, TurnsOf, Others, Publishing
<1>4. CASE StopMonitor(w)
  <2>1. worker[w].pc \notin Publishing
    BY <1>4 DEF StopMonitor, Publishing
  <2>2. \A g \in Managers : mgr'[g].mon = IF g = monitor THEN "off" ELSE mgr[g].mon
    <3>1. \A m \in Manager : [m EXCEPT !.mon = "off"].mon = "off"
      BY DEF Manager
    <3>2. \/ mgr' = mgr /\ monitor = None
          \/ monitor \in Managers /\ mgr' = [mgr EXCEPT ![monitor] = [mgr[monitor] EXCEPT !.mon = "off"]]
      BY <1>4 DEF StopMonitor, TypeOK
    <3>3. QED
      BY <1>0, <3>1, <3>2, ConstantsOK DEF ConstantsOK
  <2>3. QED
    BY <1>0, <1>1, <2>1, <2>2 DEF Owned, Watched, TurnsOf, Others
<1>5. CASE PublishMonitor(w)
  <2>1. monitor' = worker[w].mgr /\ worker[w].pc = "publishMonitor"
    BY <1>5 DEF PublishMonitor
  <2>2. \A g \in Managers : IF g = monitor THEN mgr'[g].mon \in {"off", "doomed"}
                            ELSE mgr'[g].mon = mgr[g].mon
    <3>1. \A m \in Manager, x \in {"off", "doomed"} : [m EXCEPT !.mon = x].mon = x
      BY DEF Manager
    <3>2. \/ mgr' = mgr /\ monitor = None
          \/ monitor \in Managers /\ \E x \in {"off", "doomed"} :
                 mgr' = [mgr EXCEPT ![monitor] = [mgr[monitor] EXCEPT !.mon = x]]
      <4>1. PICK x : x = IF mgr[monitor].mon = "backoff" THEN "doomed" ELSE "off"
        OBVIOUS
      <4>2. x \in {"off", "doomed"}
        BY <4>1
      <4>3. \/ mgr' = mgr /\ monitor = None
            \/ monitor \in Managers /\ mgr' = [mgr EXCEPT ![monitor] = [mgr[monitor] EXCEPT !.mon = x]]
        BY <1>5, <4>1 DEF PublishMonitor, TypeOK
      <4>4. CASE mgr' = mgr /\ monitor = None
        BY <4>4
      <4>5. CASE monitor \in Managers /\ mgr' = [mgr EXCEPT ![monitor] = [mgr[monitor] EXCEPT !.mon = x]]
        BY <4>2, <4>5, Zenon
      <4>6. QED
        BY <4>3, <4>4, <4>5
    <3>3. CASE mgr' = mgr /\ monitor = None
      BY <3>3, ConstantsOK DEF ConstantsOK
    <3>4. ASSUME monitor \in Managers, NEW x \in {"off", "doomed"},
                 mgr' = [mgr EXCEPT ![monitor] = [mgr[monitor] EXCEPT !.mon = x]]
          PROVE  mgr'[monitor].mon = x /\ \A g \in Managers \ {monitor} : mgr'[g] = mgr[g]
      BY <1>0, <3>1, <3>4
    <3>5. QED
      BY <3>2, <3>3, <3>4
  <2>3. QED
    BY <1>0, <1>1, <2>1, <2>2 DEF Owned, Watched, TurnsOf, Others
<1>6. QED
  BY <1>2, <1>3, <1>4, <1>5

LEMMA SystemOwned ==
    ASSUME TypeOK, Owned,
           \/ \E g \in Managers :
                 ChildExit(g) \/ LeftExits(g) \/ MonitorTask(g) \/ DropManager(g)
           \/ Dashboard \/ DashboardFails
           \/ ExitAndRestart
    PROVE  Owned'
<1>0. mgr \in [Managers -> Manager] /\ worker \in [Workers -> Worker]
  BY DEF TypeOK
<1>1. ASSUME NEW g \in Managers, ChildExit(g) PROVE Owned'
  <2>1. /\ monitor' = monitor /\ mgr' = [mgr EXCEPT ![g] = Dead(mgr[g], "exited")]
        /\ worker' = Disconnected(g, worker)
    BY <1>1 DEF ChildExit, handles
  <2>2. \A m \in Manager : Dead(m, "exited").mon = m.mon
    BY DEF Dead, Manager
  <2>3. \A h \in Managers : mgr'[h].mon = mgr[h].mon
    BY <1>0, <2>1, <2>2
  <2>4. \A r \in Worker : [r EXCEPT !.ctl = None].pc = r.pc /\ [r EXCEPT !.ctl = None].mgr = r.mgr
    BY DEF Worker
  <2>5. \A v \in Workers : worker'[v].pc = worker[v].pc /\ worker'[v].mgr = worker[v].mgr
    BY <1>0, <2>1, <2>4 DEF Disconnected
  <2>6. QED
    BY <2>1, <2>3, <2>5, WatchStays DEF Owned, Rested
<1>2. ASSUME NEW g \in Managers, MonitorTask(g) PROVE Owned'
  <2>1. /\ monitor' = monitor /\ worker' = worker
        /\ \A h \in Managers \ {g} : mgr'[h] = mgr[h]
    BY <1>0, <1>2 DEF MonitorTask, MonitorDetect, MonitorRespawn, handles
  <2>2. /\ mgr[g].mon \notin {"off", "left"} /\ (mgr[g].mon = "doomed" => mgr'[g].mon \in {"off", "doomed"})
    <3>1. CASE MonitorDetect(g)
      BY <3>1 DEF MonitorDetect
    <3>2. CASE MonitorRespawn(g)
      <4>1. PICK mon : /\ mon = IF mgr[g].mon = "backoff" THEN "watch" ELSE "off"
                       /\ \/ mgr' = [mgr EXCEPT ![g] = [Spawned(mgr[g]) EXCEPT !.mon = mon]]
                          \/ mgr' = [mgr EXCEPT ![g] = [mgr[g] EXCEPT !.mon = mon]]
        BY <1>0, <3>2 DEF MonitorRespawn
      <4>2. [Spawned(mgr[g]) EXCEPT !.mon = mon].mon = mon /\ [mgr[g] EXCEPT !.mon = mon].mon = mon
        BY <1>0 DEF Spawned, Manager
      <4>3. mgr'[g].mon = mon
        BY <1>0, <4>1, <4>2
      <4>4. QED
        BY <3>2, <4>1, <4>3 DEF MonitorRespawn
    <3>3. QED
      BY <1>2, <3>1, <3>2 DEF MonitorTask
  <2>3. QED
    BY <2>1, <2>2 DEF Owned, Watched, Rested
<1>3. ASSUME NEW g \in Managers, DropManager(g) \/ LeftExits(g) PROVE Owned'
  <2>1. FreeManager.mon = "off"
    BY DEF FreeManager
  <2>2. QED
    BY <1>0, <1>3, <2>1 DEF DropManager, LeftExits, Owned, Watched, Rested, handles
<1>4. CASE Dashboard \/ DashboardFails
  BY <1>4 DEF Dashboard, DashboardFails, Owned, Watched, Rested
<1>5. CASE ExitAndRestart
  <2>1. /\ \A g \in Managers : mgr'[g] \in {FreeManager, Left(mgr[g])}
        /\ \A w \in Workers : worker'[w] = IdleWorker
    BY <1>5 DEF ExitAndRestart
  <2>2. \A m : FreeManager.mon = "off" /\ Left(m).mon = "left" /\ IdleWorker.mgr = None
    BY DEF FreeManager, Left, IdleWorker
  <2>3. QED
    BY <2>1, <2>2 DEF Owned, Watched, Rested
<1>6. QED
  BY <1>1, <1>2, <1>3, <1>4, <1>5

LEMMA OwnedHolds == Spec => []Owned
<1>1. Init => Owned
  BY DEF Init, Owned, Watched, Rested, FreeManager, IdleWorker
<1>2. TypeOK /\ Owned /\ [Next]_vars => Owned'
  <2>1. CASE UNCHANGED vars
    BY <2>1 DEF vars, Owned, Watched, Rested
  <2>2. QED
    BY <2>1, TaskOwned, SystemOwned DEF Next, Task, Process
<1>3. QED
  BY <1>1, <1>2, TypeCorrect, PTL DEF Spec

(* However commands, crashes and failed calls overlap: between commands a  *)
(* running Mihomo is reached by the handles that stop_core takes, or       *)
(* nothing keeps it any more, or its monitor ends it after a recovery, or  *)
(* an earlier application started it.                                      *)
THEOREM StaysStoppable == Spec => []NoStrayChild
<1>1. Owned => NoStrayChild
  <2>1. SUFFICES ASSUME Owned, Quiet, NEW g \in Managers, g \notin {core, monitor}, Referenced(g)
                 PROVE  mgr[g].mon \in {"doomed", "left"}
    BY DEF NoStrayChild
  <2>2. g # None
    BY ConstantsOK DEF ConstantsOK
  <2>3. \A w \in Workers : worker[w].pc = "idle" /\ worker[w].mgr # g
    BY <2>1, <2>2 DEF Owned, Rested, Quiet
  <2>4. QED
    BY <2>1, <2>3 DEF Referenced, Owned, Watched, Publishing
<1>2. QED
  BY <1>1, OwnedHolds, PTL

-----------------------------------------------------------------------------
(* Undisturbed, one task at a time has a command.  Then there is one       *)
(* Mihomo at most besides those that outlived an earlier application: it   *)
(* is the core's, or that of a start under way, and core_running tells the *)
(* truth wherever a command relies on it.                                  *)
Coreless == {"startRead", "startSpawn", "startProviders", "publishCore", "orphan", "stopFlag"}
Starting == {"startProviders", "publishCore"}
Steering == {"bindConfirm", "block", "blockConfirm", "blockWrite", "restore"}

Solo(w) ==
    /\ \A g \in Managers :
          mgr[g].mon # "left" => mgr[g].child # "exited" /\ mgr[g].mon \in {"off", "watch"}
    /\ \A g \in Managers :
          mgr[g].child = "up" /\ mgr[g].mon # "left" =>
              g = core \/ (worker[w].pc \in Starting /\ g = worker[w].mgr)
    /\ monitor # None => mgr[monitor].mon # "left"
    /\ core # None => mgr[core].child = "up" /\ mgr[core].listens /\ mgr[core].mon # "left"
    /\ worker[w].pc \in Coreless => core = None
    /\ worker[w].pc = "startSpawn" => ~AnyListening
    /\ worker[w].pc \in Starting =>
          /\ worker[w].mgr \in Managers /\ mgr[worker[w].mgr].mon # "left"
          /\ mgr[worker[w].mgr].child = "up" /\ mgr[worker[w].mgr].listens
    /\ worker[w].pc \in {"publishMonitor", "restoreRead"} => core # None /\ worker[w].mgr = core
    /\ worker[w].pc \in Steering => core # None /\ worker[w].ctl = core
    /\ worker[w].pc \notin {"stopFlag", "publishMonitor"} => (coreRunning <=> core # None)

(* The bridge serves the catalogue, but for a refresh before its commit;   *)
(* Mihomo has loaded it and routes as the bindings say, but for the Slot   *)
(* that is being bound, from the commit of a refresh to the rebuild after  *)
(* it, and from an edit to the rebuild after it.                           *)
Settled == {"idle", "bindSelect", "updateWrite", "refreshApply", "startCheck",
            "publishMonitor", "restoreRead", "restore"}
Choosing == {"bindSelect", "bindConfirm", "bindWrite", "updateWrite"}
Switched == {"bindConfirm", "bindWrite"}

Agrees(g) == mgr[g].loaded = present /\ \A s \in Slots : Effective(g, s) = Topology[s]

AgreesBut(g, t, n) ==
    /\ mgr[g].loaded = present /\ Effective(g, t) = n
    /\ \A s \in Slots \ {t} : Effective(g, s) = Topology[s]

Agree(w) ==
    /\ payload = IF worker[w].pc = "refreshApply" THEN worker[w].nodes ELSE present
    /\ worker[w].pc = "startSpawn" => worker[w].snap = Topology
    /\ worker[w].pc = "startProviders" => mgr[worker[w].mgr].sel = Topology
    /\ worker[w].pc = "publishCore" => Agrees(worker[w].mgr)
    /\ worker[w].pc \in Settled /\ core # None => Agrees(core)
    /\ worker[w].pc \in Choosing => worker[w].slot \in Slots /\ worker[w].node \in present
    /\ worker[w].pc \in Switched /\ core # None =>
          AgreesBut(core, worker[w].slot, worker[w].node)
    /\ worker[w].pc = "restore" =>
          \A s \in Slots : worker[w].snap[s] \in {None, Topology[s]}
    /\ worker[w].pc \in {"blockConfirm", "blockWrite"} =>
          worker[w].slot \in Slots /\ mgr[core].sel[worker[w].slot] = None

Serial == disturbed \/ \E w \in Workers : Alone(w) /\ Solo(w) /\ Agree(w)

LEMMA WorldStays ==
    ASSUME mgr' = mgr, present' = present, dbNode' = dbNode
    PROVE  /\ Topology' = Topology
           /\ \A g : Agrees(g)' <=> Agrees(g)
           /\ \A g, t, n : AgreesBut(g, t, n)' <=> AgreesBut(g, t, n)
<1>1. Topology' = Topology
  BY DEF Topology
<1>2. QED
  BY <1>1 DEF Agrees, AgreesBut, Effective

(* The steps of the task that change nothing but its own record.           *)
LEMMA QuietSteps ==
    ASSUME TypeOK, NEW w \in Workers, Solo(w), Agree(w),
           \/ BindOffline(w) \/ BindConfirm(w) \/ Apply(w) \/ RefreshCoreOff(w) \/ RefreshCoreOn(w)
           \/ BlockConfirm(w) \/ RefreshDone(w) \/ StartCheck(w) \/ StartRead(w) \/ RestoreRead(w)
           \/ RestoreDone(w) \/ StopCommand(w) \/ StartCommand(w)
           \/ \E s \in Slots, n \in Nodes : BindCheck(w, s, n) \/ UpdateCheck(w, s, n)
    PROVE  Solo(w)' /\ Agree(w)'
<1>0. /\ worker \in [Workers -> Worker] /\ worker[w] \in Worker
      /\ core \in Managers \cup {None}
  BY DEF TypeOK
<1>1. /\ mgr' = mgr /\ present' = present /\ dbNode' = dbNode /\ core' = core /\ payload' = payload
      /\ coreRunning' = coreRunning /\ monitor' = monitor
  BY DEF BindOffline, BindConfirm, Apply, RefreshCoreOff, RefreshCoreOn, BlockConfirm, RefreshDone,
      StartCheck, StartRead, RestoreRead, RestoreDone, StopCommand, StartCommand, BindCheck, UpdateCheck,
      db, bridge, handles
<1>2. /\ Topology' = Topology
      /\ \A g : Agrees(g)' <=> Agrees(g)
      /\ \A g, t, n : AgreesBut(g, t, n)' <=> AgreesBut(g, t, n)
  BY <1>1, WorldStays
<1>3. CASE BindOffline(w)
  BY <1>0, <1>1, <1>2, <1>3, GotoDoes DEF BindOffline, Solo, Agree, Coreless, Starting, Steering, Settled, Choosing, Switched
<1>4. CASE BindConfirm(w)
  BY <1>0, <1>1, <1>2, <1>4 DEF BindConfirm, Worker, Solo, Agree, Coreless, Starting, Steering, Settled, Choosing, Switched
<1>5. CASE Apply(w)
  <2>1. CASE coreRunning
    <3>1. worker'[w].pc = "stopMonitor"
      BY <1>0, <1>5, <2>1 DEF Apply, IdleWorker
    <3>2. QED
      BY <1>0, <1>1, <1>2, <1>5, <3>1 DEF Apply, Solo, Agree, Coreless, Starting, Steering, Settled, Choosing, Switched
  <2>2. CASE ~coreRunning
    <3>1. worker'[w].pc = "idle" /\ core = None
      BY <1>0, <1>5, <2>2, ReturnDoes DEF Apply, Solo
    <3>2. QED
      BY <1>0, <1>1, <1>2, <1>5, <3>1 DEF Apply, Solo, Agree, Coreless, Starting, Steering, Settled, Choosing, Switched
  <2>3. QED
    BY <2>1, <2>2
<1>6. CASE RefreshCoreOff(w)
  BY <1>0, <1>1, <1>2, <1>6 DEF RefreshCoreOff, Worker, Solo, Agree, Coreless, Starting, Steering, Settled, Choosing, Switched
<1>7. CASE RefreshCoreOn(w)
  BY <1>0, <1>1, <1>2, <1>7 DEF RefreshCoreOn, Up, Worker, Solo, Agree, Coreless, Starting, Steering, Settled, Choosing, Switched
<1>8. CASE BlockConfirm(w) \/ RefreshDone(w)
  BY <1>0, <1>1, <1>2, <1>8, GotoDoes DEF BlockConfirm, RefreshDone, Solo, Agree, Coreless, Starting, Steering, Settled, Choosing, Switched
<1>9. CASE StopCommand(w) \/ StartCommand(w)
  BY <1>0, <1>1, <1>2, <1>9, GotoDoes DEF StopCommand, StartCommand, Solo, Agree, Coreless, Starting, Steering, Settled, Choosing, Switched
<1>10. CASE StartCheck(w)
  BY <1>0, <1>1, <1>2, <1>10, GotoDoes, ReturnDoes DEF StartCheck, Solo, Agree, Coreless, Starting, Steering, Settled, Choosing, Switched
<1>11. CASE RestoreDone(w)
  BY <1>0, <1>1, <1>2, <1>11, ReturnDoes DEF RestoreDone, Solo, Agree, Coreless, Starting, Steering, Settled, Choosing, Switched
<1>12. CASE StartRead(w)
  BY <1>0, <1>1, <1>2, <1>12, ReturnDoes DEF StartRead, AnyListening, Worker, Solo, Agree, Coreless, Starting, Steering, Settled, Choosing, Switched
<1>13. CASE RestoreRead(w)
  BY <1>0, <1>1, <1>2, <1>13, ReturnDoes DEF RestoreRead, Up, Worker, Solo, Agree, Coreless, Starting, Steering, Settled, Choosing, Switched
<1>14. ASSUME NEW s \in Slots, NEW n \in Nodes, BindCheck(w, s, n) \/ UpdateCheck(w, s, n)
       PROVE  Solo(w)' /\ Agree(w)'
  <2>1. /\ worker[w].pc = "idle" /\ n \in present
        /\ worker'[w].pc \in {"bindSelect", "updateWrite"}
        /\ worker'[w].slot = s /\ worker'[w].node = n
    <3>1. CASE BindCheck(w, s, n)
      BY <1>0, <3>1 DEF BindCheck, Worker
    <3>2. CASE UpdateCheck(w, s, n)
      BY <1>0, <3>2 DEF UpdateCheck, Worker
    <3>3. QED
      BY <1>14, <3>1, <3>2
  <2>2. Solo(w)'
    BY <1>0, <1>1, <2>1 DEF Solo, Coreless, Starting, Steering
  <2>3. core' # None => Agrees(core)'
    BY <1>1, <1>2, <2>1 DEF Agree, Settled
  <2>4. Agree(w)'
    BY <1>0, <1>1, <1>2, <2>1, <2>3 DEF Agree, Choosing, Switched
  <2>5. QED
    BY <2>2, <2>4
<1>15. QED
  BY <1>3, <1>4, <1>5, <1>6, <1>7, <1>8, <1>9, <1>10, <1>11, <1>12, <1>13, <1>14

(* Monitors only.                                                          *)
LEMMA MonitorDoes ==
    ASSUME TypeOK, NEW c \in Managers, NEW x, mgr' = [mgr EXCEPT ![c].mon = x]
    PROVE  \A g \in Managers : /\ mgr'[g].child = mgr[g].child /\ mgr'[g].listens = mgr[g].listens
                               /\ mgr'[g].sel = mgr[g].sel /\ mgr'[g].loaded = mgr[g].loaded
                               /\ mgr'[g].mon = IF g = c THEN x ELSE mgr[g].mon
BY DEF TypeOK, Manager

(* bind_slot with a running core, and the bindings it writes.              *)
LEMMA BindSteps ==
    ASSUME TypeOK, NEW w \in Workers, Solo(w), Agree(w),
           BindSelect(w) \/ BindWrite(w) \/ UpdateWrite(w)
    PROVE  Solo(w)' /\ Agree(w)'
<1>0. /\ worker \in [Workers -> Worker] /\ worker[w] \in Worker
      /\ core \in Managers \cup {None} /\ None \notin Nodes /\ present \subseteq Nodes
      /\ dbNode \in [Slots -> Target] /\ None \notin Managers
  BY ConstantsOK DEF TypeOK, ConstantsOK
<1>1. CASE BindSelect(w)
  <2>a. PICK t, n : t = worker[w].slot /\ n = worker[w].node
    OBVIOUS
  <2>1. /\ worker[w].pc = "bindSelect" /\ core \in Managers /\ present' = present /\ dbNode' = dbNode
        /\ core' = core /\ payload' = payload /\ coreRunning' = coreRunning /\ monitor' = monitor
        /\ worker'[w].pc = "bindConfirm" /\ worker'[w].ctl = core /\ worker'[w].slot = t
        /\ worker'[w].node = n /\ mgr' = [mgr EXCEPT ![core].sel[t] = n]
    BY <1>0, <1>1, <2>a DEF BindSelect, Up, db, bridge, Worker
  <2>2. t \in Slots /\ n \in present /\ Agrees(core)
    BY <1>0, <2>a, <2>1 DEF Agree, Choosing, Settled
  <2>3. /\ \A g \in Managers : /\ mgr'[g].child = mgr[g].child /\ mgr'[g].listens = mgr[g].listens
                               /\ mgr'[g].mon = mgr[g].mon /\ mgr'[g].loaded = mgr[g].loaded
        /\ mgr'[core].sel[t] = n
        /\ \A s \in Slots \ {t} : mgr'[core].sel[s] = mgr[core].sel[s]
    BY <2>1, <2>2 DEF TypeOK, Manager
  <2>4. AgreesBut(core, t, n)'
    BY <2>1, <2>2, <2>3 DEF AgreesBut, Agrees, Effective, Topology
  <2>5. Solo(w)'
    BY <1>0, <2>1, <2>3 DEF Solo, Coreless, Starting, Steering
  <2>6. Agree(w)'
    BY <1>0, <2>1, <2>2, <2>4 DEF Agree, Settled, Choosing, Switched
  <2>7. QED
    BY <2>5, <2>6
<1>2. CASE BindWrite(w)
  <2>1. /\ worker[w].pc = "bindWrite" /\ worker'[w].pc = "idle" /\ present' = present
        /\ core' = core /\ payload' = payload /\ coreRunning' = coreRunning /\ monitor' = monitor /\ mgr' = mgr
        /\ dbNode' = [dbNode EXCEPT ![worker[w].slot] = worker[w].node]
    BY <1>0, <1>2, ReturnDoes DEF BindWrite, bridge, handles
  <2>2. worker[w].slot \in Slots /\ worker[w].node \in present
    BY <2>1 DEF Agree, Choosing
  <2>3. core # None => Agrees(core)'
    <3>1. SUFFICES ASSUME core # None PROVE Agrees(core)'
      OBVIOUS
    <3>2. AgreesBut(core, worker[w].slot, worker[w].node)
      BY <2>1, <3>1 DEF Agree, Switched
    <3>3. Topology'[worker[w].slot] = worker[w].node /\
          \A s \in Slots \ {worker[w].slot} : Topology'[s] = Topology[s]
      BY <1>0, <2>1, <2>2 DEF Topology
    <3>4. QED
      BY <2>1, <3>2, <3>3 DEF Agrees, AgreesBut, Effective
  <2>4. Solo(w)'
    BY <1>0, <2>1 DEF Solo, Coreless, Starting, Steering
  <2>5. Agree(w)'
    BY <1>0, <2>1, <2>3 DEF Agree, Settled, Choosing, Switched
  <2>6. QED
    BY <2>4, <2>5
<1>3. CASE UpdateWrite(w)
  <2>1. /\ worker[w].pc = "updateWrite" /\ worker'[w].pc = "apply" /\ present' = present
        /\ core' = core /\ payload' = payload /\ coreRunning' = coreRunning /\ monitor' = monitor /\ mgr' = mgr
    BY <1>0, <1>3, GotoDoes DEF UpdateWrite, bridge, handles
  <2>2. QED
    BY <1>0, <2>1 DEF Solo, Agree, Coreless, Starting, Steering, Settled, Choosing, Switched
<1>4. QED
  BY <1>1, <1>2, <1>3

(* A refresh, and the blocking and marking of the Slots it affects.        *)
LEMMA RefreshSteps ==
    ASSUME TypeOK, NEW w \in Workers, Solo(w), Agree(w),
           \/ \E P \in Contents : RefreshFetch(w, P)
           \/ RefreshApply(w) \/ BlockWrite(w)
           \/ \E s \in Slots : BlockSelect(w, s) \/ OrphanWrite(w, s) \/ RestoreSelect(w, s)
    PROVE  Solo(w)' /\ Agree(w)'
<1>0. /\ worker \in [Workers -> Worker] /\ worker[w] \in Worker
      /\ core \in Managers \cup {None} /\ None \notin Nodes /\ present \subseteq Nodes
      /\ dbNode \in [Slots -> Target] /\ None \notin Managers
  BY ConstantsOK DEF TypeOK, ConstantsOK
<1>1. ASSUME NEW P \in Contents, RefreshFetch(w, P) PROVE Solo(w)' /\ Agree(w)'
  <2>1. /\ worker[w].pc = "idle" /\ worker'[w].pc = "refreshApply" /\ worker'[w].nodes = P
        /\ payload' = P /\ present' = present /\ dbNode' = dbNode /\ core' = core /\ mgr' = mgr
        /\ coreRunning' = coreRunning /\ monitor' = monitor
    BY <1>0, <1>1 DEF RefreshFetch, db, handles, Worker
  <2>2. core # None => Agrees(core)'
    BY <2>1, WorldStays DEF Agree, Settled
  <2>3. Solo(w)'
    BY <1>0, <2>1 DEF Solo, Coreless, Starting, Steering
  <2>4. QED
    BY <1>0, <2>1, <2>2, <2>3 DEF Agree, Settled, Choosing, Switched
<1>2. CASE RefreshApply(w)
  <2>1. /\ worker[w].pc = "refreshApply" /\ worker'[w].pc \in {"apply", "refreshCore"}
        /\ payload' = payload /\ present' = worker[w].nodes /\ core' = core /\ mgr' = mgr
        /\ coreRunning' = coreRunning /\ monitor' = monitor
    BY <1>0, <1>2 DEF RefreshApply, bridge, handles, Worker
  <2>2. Solo(w)'
    BY <1>0, <2>1 DEF Solo, Coreless, Starting, Steering
  <2>3. QED
    BY <1>0, <2>1, <2>2 DEF Agree, Settled, Choosing, Switched
<1>3. ASSUME BlockWrite(w) \/ \E s \in Slots : OrphanWrite(w, s)
      PROVE  Solo(w)' /\ Agree(w)'
  <2>1. /\ \/ worker[w].pc = "blockWrite" /\ worker'[w].pc = "block"
           \/ worker[w].pc = "orphan" /\ worker'[w].pc = "orphan"
        /\ payload' = payload /\ present' = present /\ core' = core /\ mgr' = mgr
        /\ coreRunning' = coreRunning /\ monitor' = monitor /\ worker'[w].ctl = worker[w].ctl
    BY <1>0, <1>3 DEF BlockWrite, OrphanWrite, MarkOrphaned, bridge, handles, Worker
  <2>2. Solo(w)'
    BY <1>0, <2>1 DEF Solo, Coreless, Starting, Steering
  <2>3. QED
    BY <1>0, <2>1, <2>2 DEF Agree, Settled, Choosing, Switched
<1>4. ASSUME NEW t \in Slots, BlockSelect(w, t) PROVE Solo(w)' /\ Agree(w)'
  <2>1. /\ worker[w].pc = "block" /\ worker'[w].pc = "blockConfirm" /\ worker'[w].slot = t
        /\ payload' = payload /\ present' = present /\ core' = core
        /\ coreRunning' = coreRunning /\ monitor' = monitor /\ worker'[w].ctl = worker[w].ctl
        /\ mgr' = [mgr EXCEPT ![worker[w].ctl].sel[t] = None]
    BY <1>0, <1>4 DEF BlockSelect, db, bridge, handles, Worker
  <2>2. core \in Managers /\ worker[w].ctl = core
    BY <1>0, <2>1 DEF Solo, Steering
  <2>3. /\ \A g \in Managers : /\ mgr'[g].child = mgr[g].child /\ mgr'[g].listens = mgr[g].listens
                               /\ mgr'[g].mon = mgr[g].mon
        /\ mgr'[core].sel[t] = None
    BY <2>1, <2>2 DEF TypeOK, Manager
  <2>4. Solo(w)'
    BY <1>0, <2>1, <2>2, <2>3 DEF Solo, Coreless, Starting, Steering
  <2>5. QED
    BY <1>0, <2>1, <2>3, <2>4 DEF Agree, Settled, Choosing, Switched
<1>5. ASSUME NEW t \in Slots, RestoreSelect(w, t) PROVE Solo(w)' /\ Agree(w)'
  <2>1. /\ worker[w].pc = "restore" /\ worker'[w].pc = "restore" /\ worker'[w].ctl = worker[w].ctl
        /\ payload' = payload /\ present' = present /\ core' = core /\ dbNode' = dbNode
        /\ coreRunning' = coreRunning /\ monitor' = monitor
        /\ worker'[w].snap[t] = None /\ \A s \in Slots \ {t} : worker'[w].snap[s] = worker[w].snap[s]
        /\ worker[w].snap[t] # None
        /\ mgr' = [mgr EXCEPT ![worker[w].ctl].sel[t] = worker[w].snap[t]]
    BY <1>0, <1>5 DEF RestoreSelect, db, bridge, handles, Worker
  <2>2. core \in Managers /\ worker[w].ctl = core /\ worker[w].snap[t] = Topology[t] /\ Agrees(core)
    BY <1>0, <2>1 DEF Solo, Steering, Agree, Settled
  <2>3. Topology' = Topology /\ Topology[t] \in present
    BY <2>1, <2>2 DEF Topology
  <2>4. /\ \A g \in Managers : /\ mgr'[g].child = mgr[g].child /\ mgr'[g].listens = mgr[g].listens
                               /\ mgr'[g].mon = mgr[g].mon
        /\ Agrees(core)'
    <3>1. /\ \A g \in Managers : /\ mgr'[g].child = mgr[g].child /\ mgr'[g].listens = mgr[g].listens
                                 /\ mgr'[g].mon = mgr[g].mon /\ mgr'[g].loaded = mgr[g].loaded
          /\ mgr'[core].sel[t] = Topology[t]
          /\ \A s \in Slots \ {t} : mgr'[core].sel[s] = mgr[core].sel[s]
      BY <2>1, <2>2 DEF TypeOK, Manager
    <3>2. QED
      BY <2>1, <2>2, <2>3, <3>1 DEF Agrees, Effective
  <2>5. Solo(w)'
    BY <1>0, <2>1, <2>2, <2>4 DEF Solo, Coreless, Starting, Steering
  <2>6. \A s \in Slots : worker'[w].snap[s] \in {None, Topology'[s]}
    BY <2>1, <2>3 DEF Agree
  <2>7. Agree(w)'
    BY <1>0, <2>1, <2>4, <2>6 DEF Agree, Settled, Choosing, Switched
  <2>8. QED
    BY <2>5, <2>7
<1>6. QED
  BY <1>1, <1>2, <1>3, <1>4, <1>5

(* stop_core_inner.                                                        *)
LEMMA StopSteps ==
    ASSUME TypeOK, NEW w \in Workers, Solo(w), Agree(w),
           StopMonitor(w) \/ StopCore(w) \/ StopFlag(w)
    PROVE  Solo(w)' /\ Agree(w)'
<1>0. /\ worker \in [Workers -> Worker] /\ worker[w] \in Worker /\ mgr \in [Managers -> Manager]
      /\ core \in Managers \cup {None} /\ None \notin Managers /\ monitor \in Managers \cup {None}
  BY ConstantsOK DEF TypeOK, ConstantsOK
<1>1. CASE StopMonitor(w)
  <2>1. /\ worker[w].pc = "stopMonitor" /\ worker'[w].pc = "stopCore" /\ present' = present
        /\ core' = core /\ payload' = payload /\ coreRunning' = coreRunning /\ monitor' = None
    BY <1>0, <1>1, GotoDoes DEF StopMonitor, db, bridge
  <2>2. \A g \in Managers : /\ mgr'[g].child = mgr[g].child /\ mgr'[g].listens = mgr[g].listens
                            /\ mgr'[g].mon \in {"off", mgr[g].mon}
                            /\ mgr[g].mon = "left" => mgr'[g].mon = "left"
    <3>a. monitor # None => mgr[monitor].mon # "left"
      BY DEF Solo
    <3>1. mgr' = mgr \/ (monitor \in Managers /\ mgr' = [mgr EXCEPT ![monitor].mon = "off"])
      BY <1>0, <1>1 DEF StopMonitor
    <3>2. CASE mgr' = mgr
      BY <3>2
    <3>3. CASE monitor \in Managers /\ mgr' = [mgr EXCEPT ![monitor].mon = "off"]
      <4>1. mgr[monitor].mon # "left"
        BY <1>0, <3>3, <3>a
      <4>2. QED
        BY <1>0, <3>3, <4>1 DEF Manager
    <3>4. QED
      BY <3>1, <3>2, <3>3
  <2>3. Solo(w)'
    BY <1>0, <2>1, <2>2 DEF Solo, Coreless, Starting, Steering
  <2>4. QED
    BY <1>0, <2>1, <2>3 DEF Agree, Settled, Choosing, Switched
<1>2. CASE StopCore(w)
  <2>1. /\ worker[w].pc = "stopCore" /\ present' = present /\ core' = None
        /\ payload' = payload /\ coreRunning' = coreRunning /\ monitor' = monitor
    BY <1>2 DEF StopCore, db, bridge
  <2>2. worker'[w].pc = "stopFlag"
    <3>1. CASE core = None
      BY <1>0, <1>2, <3>1, GotoDoes DEF StopCore
    <3>2. CASE core # None
      <4>1. PICK r : r = [worker[w] EXCEPT !.pc = "stopFlag"]
        OBVIOUS
      <4>2. /\ r \in Worker /\ r.pc = "stopFlag"
            /\ [worker EXCEPT ![w].pc = "stopFlag"] = [worker EXCEPT ![w] = r]
        BY <1>0, <4>1 DEF Worker, PC, StopPC
      <4>3. core \in Managers /\ worker' = Disconnected(core, [worker EXCEPT ![w] = r])
        BY <1>0, <1>2, <3>2, <4>2 DEF StopCore
      <4>4. QED
        BY <1>0, <4>2, <4>3, TurnDoes
    <3>3. QED
      BY <3>1, <3>2
  <2>3. \A g \in Managers : /\ mgr'[g].child = IF g = core THEN "none" ELSE mgr[g].child
                            /\ mgr'[g].mon = mgr[g].mon
    <3>1. \A m \in Manager : Dead(m, "none").child = "none" /\ Dead(m, "none").mon = m.mon
      BY DEF Dead, Manager
    <3>2. \/ core = None /\ mgr' = mgr
          \/ core \in Managers /\ mgr' = [mgr EXCEPT ![core] = Dead(mgr[core], "none")]
      BY <1>0, <1>2 DEF StopCore
    <3>3. QED
      BY <1>0, <3>1, <3>2
  <2>4. Solo(w)'
    BY <1>0, <2>1, <2>2, <2>3 DEF Solo, Coreless, Starting, Steering
  <2>5. QED
    BY <1>0, <2>1, <2>2, <2>4 DEF Agree, Settled, Choosing, Switched
<1>3. CASE StopFlag(w)
  <2>1. /\ worker[w].pc = "stopFlag" /\ worker'[w].pc \in {"startCheck", "apply", "idle"}
        /\ core' = core /\ present' = present /\ payload' = payload /\ coreRunning' = FALSE
        /\ mgr' = mgr /\ monitor' = monitor
    BY <1>0, <1>3 DEF StopFlag, AfterStop, IdleWorker, db, bridge, Worker
  <2>2. core = None
    BY <2>1 DEF Solo, Coreless
  <2>3. Solo(w)'
    BY <1>0, <2>1, <2>2 DEF Solo, Coreless, Starting, Steering
  <2>4. QED
    BY <1>0, <2>1, <2>2, <2>3 DEF Agree, Settled, Choosing, Switched
<1>4. QED
  BY <1>1, <1>2, <1>3

(* start_core_inner: what is spawned from the topology that was read       *)
(* routes as the bindings say as soon as it has loaded the payload.        *)
LEMMA StartSteps ==
    ASSUME TypeOK, NEW w \in Workers, Solo(w), Agree(w),
           \/ StartProviders(w) \/ PublishCore(w) \/ PublishMonitor(w)
           \/ \E g \in Managers : StartSpawn(w, g)
    PROVE  Solo(w)' /\ Agree(w)'
<1>0. /\ worker \in [Workers -> Worker] /\ worker[w] \in Worker /\ mgr \in [Managers -> Manager]
      /\ core \in Managers \cup {None} /\ None \notin Managers /\ monitor \in Managers \cup {None}
      /\ present \subseteq Nodes /\ None \notin Nodes
  BY ConstantsOK DEF TypeOK, ConstantsOK
<1>1. ASSUME NEW g \in Managers, StartSpawn(w, g) PROVE Solo(w)' /\ Agree(w)'
  <2>1. /\ worker[w].pc = "startSpawn" /\ worker'[w].pc = "startProviders" /\ worker'[w].mgr = g
        /\ present' = present /\ dbNode' = dbNode /\ core' = core /\ payload' = payload
        /\ coreRunning' = coreRunning /\ monitor' = monitor
        /\ mgr' = [mgr EXCEPT ![g] = Spawned([FreeManager EXCEPT !.topo = worker[w].snap])]
    BY <1>0, <1>1 DEF StartSpawn, db, handles, Worker
  <2>2. /\ core = None /\ worker[w].snap = Topology
        /\ \A h \in Managers : mgr[h].child = "up" => mgr[h].mon = "left"
    BY <1>0, <2>1 DEF Solo, Agree, Coreless, Starting
  <2>3. ~AnyListening
    BY <2>1 DEF Solo
  <2>4. PICK m : m = Spawned([FreeManager EXCEPT !.topo = worker[w].snap])
    OBVIOUS
  <2>5. m.child = "up" /\ m.listens /\ m.mon = "off" /\ m.sel = worker[w].snap
    BY <2>3, <2>4 DEF Spawned, FreeManager
  <2>6. mgr'[g] = m /\ \A h \in Managers \ {g} : mgr'[h] = mgr[h]
    BY <1>0, <2>1, <2>4
  <2>7. Topology' = Topology
    BY <2>1 DEF Topology
  <2>8. Solo(w)'
    BY <1>0, <2>1, <2>2, <2>5, <2>6 DEF Solo, Coreless, Starting, Steering
  <2>9. Agree(w)'
    BY <1>0, <2>1, <2>2, <2>5, <2>6, <2>7 DEF Agree, Settled, Choosing, Switched
  <2>10. QED
    BY <2>8, <2>9
<1>2. CASE StartProviders(w)
  <2>1. /\ worker[w].pc = "startProviders" /\ worker'[w].pc = "publishCore"
        /\ worker'[w].mgr = worker[w].mgr
        /\ present' = present /\ dbNode' = dbNode /\ core' = core /\ payload' = payload
        /\ coreRunning' = coreRunning /\ monitor' = monitor
    BY <1>0, <1>2, GotoDoes DEF StartProviders, db, handles
  <2>2. PICK g \in Managers : g = worker[w].mgr
    BY <2>1 DEF Solo, Starting
  <2>3. /\ mgr[g].child = "up" /\ mgr[g].listens /\ core = None /\ mgr[g].sel = Topology
        /\ payload = present
    BY <2>1, <2>2 DEF Solo, Agree, Starting, Coreless
  <2>4. mgr' = [mgr EXCEPT ![g].loaded = payload, ![g].mon = "watch"]
    BY <1>0, <1>2, <2>2, <2>3 DEF StartProviders, Up
  <2>5. /\ \A h \in Managers : mgr'[h].child = mgr[h].child /\ mgr'[h].listens = mgr[h].listens
        /\ \A h \in Managers \ {g} : mgr'[h].mon = mgr[h].mon
        /\ mgr'[g].mon = "watch" /\ mgr'[g].loaded = present /\ mgr'[g].sel = Topology
    BY <1>0, <2>3, <2>4 DEF Manager
  <2>6. Agrees(worker[w].mgr)'
    BY <1>0, <2>1, <2>2, <2>5 DEF Agrees, Effective, Topology
  <2>7. Solo(w)'
    BY <1>0, <2>1, <2>2, <2>3, <2>5 DEF Solo, Coreless, Starting, Steering
  <2>8. Agree(w)'
    BY <1>0, <2>1, <2>3, <2>6 DEF Agree, Settled, Choosing, Switched
  <2>9. QED
    BY <2>7, <2>8
<1>3. CASE PublishCore(w)
  <2>1. /\ worker[w].pc = "publishCore" /\ worker'[w].pc = "publishMonitor"
        /\ worker'[w].mgr = worker[w].mgr /\ core' = worker[w].mgr
        /\ present' = present /\ dbNode' = dbNode /\ payload' = payload
        /\ coreRunning' = coreRunning /\ monitor' = monitor /\ mgr' = mgr
    BY <1>0, <1>3, GotoDoes DEF PublishCore, db, bridge
  <2>2. worker[w].mgr \in Managers /\ Agrees(worker[w].mgr) /\ core = None
    BY <2>1 DEF Solo, Agree, Starting, Coreless
  <2>3. Agrees(core)'
    BY <2>1, <2>2, WorldStays DEF Agrees, Effective
  <2>4. Solo(w)'
    BY <1>0, <2>1, <2>2 DEF Solo, Coreless, Starting, Steering
  <2>5. Agree(w)'
    BY <1>0, <2>1, <2>3 DEF Agree, Settled, Choosing, Switched
  <2>6. QED
    BY <2>4, <2>5
<1>4. CASE PublishMonitor(w)
  <2>a. worker[w].pc = "publishMonitor" /\ worker[w].mgr = core
    BY <1>4 DEF PublishMonitor, Solo
  <2>1. /\ worker[w].pc = "publishMonitor" /\ worker'[w].pc = "restoreRead"
        /\ worker'[w].mgr = worker[w].mgr /\ core' = core
        /\ present' = present /\ dbNode' = dbNode /\ payload' = payload
        /\ coreRunning' = TRUE /\ monitor' = core
    BY <1>0, <1>4, <2>a, GotoDoes DEF PublishMonitor, db, bridge
  <2>2. core # None /\ core = worker[w].mgr /\ Agrees(core)
    BY <2>1 DEF Solo, Agree, Settled
  <2>3. \A g \in Managers : /\ mgr'[g].child = mgr[g].child /\ mgr'[g].listens = mgr[g].listens
                            /\ mgr'[g].sel = mgr[g].sel /\ mgr'[g].loaded = mgr[g].loaded
                            /\ mgr'[g].mon \in {"off", mgr[g].mon}
                            /\ mgr[g].mon = "left" => mgr'[g].mon = "left"
    <3>1. monitor \in Managers => mgr[monitor].mon \notin {"backoff", "left"}
      BY <1>0 DEF Solo
    <3>2. \/ mgr' = mgr
          \/ monitor \in Managers /\ mgr' = [mgr EXCEPT ![monitor].mon = "off"]
      BY <1>0, <1>4, <3>1 DEF PublishMonitor
    <3>3. QED
      BY <1>0, <3>1, <3>2 DEF Manager
  <2>4. Agrees(core)'
    BY <1>0, <2>1, <2>2, <2>3 DEF Agrees, Effective, Topology
  <2>5. Solo(w)'
    BY <1>0, <2>1, <2>2, <2>3 DEF Solo, Coreless, Starting, Steering
  <2>6. Agree(w)'
    BY <1>0, <2>1, <2>4 DEF Agree, Settled, Choosing, Switched
  <2>7. QED
    BY <2>5, <2>6
<1>5. QED
  BY <1>1, <1>2, <1>3, <1>4

(* The dashboard, and the end of a manager nobody keeps or of a process    *)
(* that outlived an earlier application; nothing is recovered.             *)
LEMMA SystemSteps ==
    ASSUME TypeOK, NEW w \in Workers, Solo(w), Agree(w),
           Dashboard \/ \E g \in Managers : LeftExits(g) \/ MonitorTask(g) \/ DropManager(g)
    PROVE  Solo(w)' /\ Agree(w)'
<1>0. /\ worker \in [Workers -> Worker] /\ worker[w] \in Worker /\ mgr \in [Managers -> Manager]
      /\ core \in Managers \cup {None} /\ None \notin Managers /\ monitor \in Managers \cup {None}
  BY ConstantsOK DEF TypeOK, ConstantsOK
<1>1. ASSUME NEW g \in Managers PROVE ~MonitorTask(g)
  BY <1>1 DEF MonitorTask, MonitorDetect, MonitorRespawn, Solo
<1>2. ASSUME NEW g \in Managers, DropManager(g) \/ LeftExits(g) PROVE Solo(w)' /\ Agree(w)'
  <2>1. /\ present' = present /\ dbNode' = dbNode /\ payload' = payload /\ core' = core
        /\ coreRunning' = coreRunning /\ worker' = worker /\ monitor' = monitor
        /\ mgr'[g] = FreeManager /\ \A h \in Managers \ {g} : mgr'[h] = mgr[h]
    BY <1>0, <1>2 DEF DropManager, LeftExits, db, bridge, handles
  <2>2. FreeManager.child = "none" /\ FreeManager.mon = "off"
    BY DEF FreeManager
  <2>3. g # core /\ (worker[w].pc \in Starting => g # worker[w].mgr)
    <3>1. CASE DropManager(g)
      BY <3>1 DEF DropManager, Referenced
    <3>2. CASE LeftExits(g)
      BY <1>0, <3>2 DEF LeftExits, Solo
    <3>3. QED
      BY <1>2, <3>1, <3>2
  <2>4. AnyListening' => AnyListening
    BY <2>1, <2>2 DEF AnyListening
  <2>5. Solo(w)'
    BY <1>0, <2>1, <2>2, <2>3, <2>4 DEF Solo, Coreless, Starting, Steering
  <2>6. /\ core # None /\ Agrees(core) => Agrees(core)'
        /\ worker[w].pc = "publishCore" /\ Agrees(worker[w].mgr) => Agrees(worker[w].mgr)'
        /\ core # None /\ AgreesBut(core, worker[w].slot, worker[w].node)
              => AgreesBut(core, worker[w].slot, worker[w].node)'
    BY <1>0, <2>1, <2>3 DEF Agrees, AgreesBut, Effective, Topology, Solo, Starting
  <2>7. Topology' = Topology
    BY <2>1 DEF Topology
  <2>8. worker[w].pc \in {"blockConfirm", "blockWrite"} => core \in Managers
    BY <1>0 DEF Solo, Steering
  <2>9. worker[w].pc = "startProviders" => worker[w].mgr \in Managers \ {g}
    BY <2>3 DEF Solo, Starting
  <2>10. Agree(w)'
    BY <1>0, <2>1, <2>3, <2>6, <2>7, <2>8, <2>9 DEF Agree, Settled, Choosing, Switched
  <2>11. QED
    BY <2>5, <2>10
<1>3. CASE Dashboard
  <2>1. /\ present' = present /\ dbNode' = dbNode /\ payload' = payload /\ core' = core
        /\ mgr' = mgr /\ worker' = worker /\ coreRunning' = Up(core) /\ monitor' = monitor
    BY <1>3 DEF Dashboard, db, bridge
  <2>2. coreRunning' <=> core # None
    BY <2>1 DEF Up, Solo
  <2>3. Solo(w)'
    BY <1>0, <2>1, <2>2 DEF Solo, AnyListening, Coreless, Starting, Steering
  <2>4. Agree(w)'
    BY <1>0, <2>1, WorldStays DEF Agree, Settled, Choosing, Switched
  <2>5. QED
    BY <2>3, <2>4
<1>4. QED
  BY <1>1, <1>2, <1>3

(* At rest there is nothing to agree with.                                 *)
LEMMA RestAgrees == TypeOK /\ AtRest => Serial
<1>1. SUFFICES ASSUME TypeOK, NEW w \in Workers, Alone(w), AtRest,
                      worker[w].pc \in {"idle", "startCheck"}
               PROVE  Solo(w) /\ Agree(w)
  BY DEF AtRest, Serial
<1>2. QED
  BY <1>1, ConstantsOK DEF ConstantsOK, AtRest, Solo, Agree, Coreless, Starting, Steering, Settled,
     Choosing, Switched

(* A task without a command is as good as another one.                     *)
LEMMA IdleAlike ==
    ASSUME NEW v \in Workers, NEW w \in Workers, worker[v].pc = "idle", worker[w].pc = "idle",
           Solo(w), Agree(w)
    PROVE  Solo(v) /\ Agree(v)
BY DEF Solo, Agree, Coreless, Starting, Steering, Settled, Choosing, Switched

(* Only a task with a command goes on.                                     *)
LEMMA ContinueIsBusy == ASSUME NEW w \in Workers, Continue(w) PROVE worker[w].pc # "idle"
BY DEF Continue, BindOffline, BindSelect, BindConfirm, BindWrite, UpdateWrite, Apply, RefreshApply,
   RefreshCoreOff, RefreshCoreOn, BlockSelect, OrphanWrite, RestoreSelect, BlockConfirm, BlockWrite,
   RefreshDone, StopMonitor, StopCore, StopFlag, StartCheck, StartRead, StartSpawn, StartProviders,
   PublishCore, PublishMonitor, RestoreRead, RestoreDone

(* A restart brings Mihomo to rest.                                        *)
LEMMA RestartRests == ASSUME TypeOK, ExitAndRestart PROVE AtRest'
<1>1. /\ \A g \in Managers : mgr'[g] \in {FreeManager, Left(mgr[g])}
      /\ \A w \in Workers : worker'[w] = IdleWorker
  BY DEF ExitAndRestart
<1>2. \A m : /\ FreeManager.child = "none" /\ FreeManager.mon = "off" /\ Left(m).mon = "left"
             /\ IdleWorker.pc = "idle"
  BY DEF FreeManager, Left, IdleWorker
<1>3. core' = None /\ monitor' = None /\ ~coreRunning' /\ payload' = present'
  BY DEF ExitAndRestart, db
<1>4. QED
  BY <1>1, <1>2, <1>3, ConstantsOK DEF ConstantsOK, AtRest, Alone

(* An undisturbed step is one of the task that has a command, or of the    *)
(* dashboard, or frees a manager.                                          *)
LEMMA SerialStep == TypeOK /\ TypeOK' /\ Serial /\ (AtRest => Serial)' /\ [Next]_vars => Serial'
<1>1. SUFFICES ASSUME TypeOK, TypeOK', Serial, [Next]_vars, ~AtRest', ~disturbed' PROVE Serial'
  BY DEF Serial
<1>2. CASE UNCHANGED vars
  <2>1. PICK w \in Workers : Alone(w) /\ Solo(w) /\ Agree(w)
    BY <1>1, <1>2 DEF vars, Serial
  <2>2. Alone(w)'
    BY <1>2, <2>1 DEF vars, Alone
  <2>3. Solo(w)'
    BY <1>2, <2>1, SMTT(20) DEF vars, Solo, AnyListening
  <2>4. Agree(w)'
    BY <1>2, <2>1, WorldStays, SMTT(20) DEF vars, Agree
  <2>5. QED
    BY <2>2, <2>3, <2>4 DEF Serial
<1>3. CASE Next
  <2>1. ~disturbed
    BY <1>1, <1>3 DEF Next, Task, Process, Noting
  <2>2. PICK w \in Workers : Alone(w) /\ Solo(w) /\ Agree(w)
    BY <1>1, <2>1 DEF Serial
  <2>3. \/ \E v \in Workers : UserCommand(v) /\ Quiet
        \/ \E v \in Workers : Continue(v)
        \/ Dashboard \/ \E g \in Managers : LeftExits(g) \/ MonitorTask(g) \/ DropManager(g)
        \/ ExitAndRestart
    BY <1>1, <1>3 DEF Next, Task, Process, Noting
  <2>4. ASSUME NEW v \in Workers, UserCommand(v), Quiet PROVE Serial'
    <3>1. Solo(v) /\ Agree(v) /\ Alone(v)
      BY <2>2, <2>4, IdleAlike DEF Quiet, Alone
    <3>2. Solo(v)' /\ Agree(v)'
      BY <1>1, <2>4, <3>1, QuietSteps, RefreshSteps DEF UserCommand
    <3>3. Alone(v)'
      BY <1>1, <2>4, <3>1, TaskTurns DEF TurnsOf, Others, Alone
    <3>4. QED
      BY <3>2, <3>3 DEF Serial
  <2>5. ASSUME NEW v \in Workers, Continue(v) PROVE Serial'
    <3>1. v = w
      BY <2>2, <2>5, ContinueIsBusy DEF Alone
    <3>2. Solo(w)' /\ Agree(w)'
      BY <1>1, <2>2, <2>5, <3>1, QuietSteps, BindSteps, RefreshSteps, StopSteps, StartSteps DEF Continue
    <3>3. Alone(w)'
      BY <1>1, <2>2, <2>5, <3>1, TaskTurns DEF TurnsOf, Others, Alone
    <3>4. QED
      BY <3>2, <3>3 DEF Serial
  <2>6. CASE Dashboard \/ \E g \in Managers : LeftExits(g) \/ MonitorTask(g) \/ DropManager(g)
    <3>1. Solo(w)' /\ Agree(w)'
      BY <1>1, <2>2, <2>6, SystemSteps
    <3>2. worker' = worker
      BY <2>6 DEF Dashboard, LeftExits, MonitorTask, MonitorDetect, MonitorRespawn, DropManager
    <3>3. QED
      BY <2>2, <3>1, <3>2 DEF Serial, Alone
  <2>7. CASE ExitAndRestart
    <3>1. AtRest'
      BY <1>1, <2>7, RestartRests
    <3>2. QED
      BY <1>1, <3>1
  <2>8. QED
    BY <2>3, <2>4, <2>5, <2>6, <2>7
<1>4. QED
  BY <1>1, <1>2, <1>3

LEMMA SerialInit == Init => Serial
<1>1. SUFFICES ASSUME Init, NEW w \in Workers PROVE Alone(w) /\ Solo(w) /\ Agree(w)
  BY ConstantsOK DEF ConstantsOK, Serial
<1>2. Alone(w)
  BY <1>1 DEF Init, Alone, IdleWorker
<1>3. Solo(w) /\ Agree(w)
  BY <1>1 DEF Init, Solo, Agree, FreeManager, IdleWorker, Coreless, Starting, Steering, Settled,
     Choosing, Switched
<1>4. QED
  BY <1>2, <1>3

LEMMA SerialHolds == Spec => []Serial
<1>1. TypeOK /\ AtRest => Serial
  BY RestAgrees
<1>2. TypeOK /\ TypeOK' /\ Serial /\ (AtRest => Serial)' /\ [Next]_vars => Serial'
  BY SerialStep
<1>3. Init => Serial
  BY SerialInit
<1>4. QED
  BY <1>1, <1>2, <1>3, TypeCorrect, PTL DEF Spec

(* Undisturbed, a running core routes every Slot to its binding after each *)
(* command, or nowhere if the catalogue has dropped the node; for any      *)
(* number of Slots, nodes and restarts.  What disturbs, commands that      *)
(* overlap or something that fails, is made good by the first stop or      *)
(* rebuild that nothing disturbs.                                          *)
THEOREM RoutesFollowBindings == Spec => []InSync
<1>1. Serial => InSync
  <2>1. SUFFICES ASSUME Serial, ~disturbed, Quiet, core # None, NEW s \in Slots
                 PROVE  Routes(core, s) = Topology[s]
    BY DEF InSync
  <2>2. PICK w \in Workers : Solo(w) /\ Agree(w) /\ worker[w].pc = "idle"
    BY <2>1 DEF Serial, Quiet
  <2>3. Agrees(core) /\ mgr[core].child = "up" /\ mgr[core].listens
    BY <2>1, <2>2 DEF Solo, Agree, Settled
  <2>4. QED
    BY <2>3 DEF Agrees, Routes
<1>2. QED
  BY <1>1, SerialHolds, PTL

(* And nothing that this application runs routes a Slot through a node     *)
(* that was dropped.                                                       *)
THEOREM DroppedIsUnrouted == Spec => []RoutesPresent
<1>1. Serial => RoutesPresent
  <2>1. SUFFICES ASSUME Serial, ~disturbed, Quiet, NEW g \in Managers, NEW s \in Slots,
                        mgr[g].mon # "left", Routes(g, s) # None
                 PROVE  Routes(g, s) \in present
    BY DEF RoutesPresent
  <2>2. PICK w \in Workers : Solo(w) /\ Agree(w) /\ worker[w].pc = "idle"
    BY <2>1 DEF Serial, Quiet
  <2>3. mgr[g].child = "up" /\ Routes(g, s) \in mgr[g].loaded
    BY <2>1 DEF Routes, Effective
  <2>4. g = core /\ core # None
    BY <2>1, <2>2, <2>3, ConstantsOK DEF Solo, Starting, ConstantsOK
  <2>5. mgr[g].loaded = present
    BY <2>1, <2>2, <2>4 DEF Agree, Settled, Agrees
  <2>6. QED
    BY <2>3, <2>5
<1>2. QED
  BY <1>1, SerialHolds, PTL

(* Undisturbed, a refresh marks a binding as orphaned only when Mihomo, if *)
(* this application runs one, was asked to block the Slot and confirmed.   *)
THEOREM BlockedBeforeOrphaned == Spec => BlockBeforeOrphan
<1>1. ASSUME TypeOK, Serial, Next, NEW s \in Slots, ~disturbed, dbState[s] # "orphaned",
             dbState'[s] = "orphaned", NEW g \in Managers, mgr[g].mon # "left"
      PROVE  Routes(g, s) = None
  <2>1. dbState' # dbState
    BY <1>1
  <2>2. PICK w \in Workers : Continue(w)
    BY <1>1, <2>1 DEF Next, Task, Process, UserCommand, BindCheck, UpdateCheck, RefreshFetch,
       StopCommand, StartCommand, ChildExit, LeftExits, MonitorTask, MonitorDetect, MonitorRespawn,
       DropManager, Dashboard, DashboardFails, ExitAndRestart, db, Fails, BindSelectFails,
       BindUnconfirmed, RefreshApplyFails, BlockFails, StopCoreFails, StartSpawnFails,
       StartProvidersFail, RestoreSelectFails
  <2>3. Solo(w) /\ Agree(w)
    BY <1>1, <2>2, ContinueIsBusy DEF Serial, Alone
  <2>4. (BlockWrite(w) /\ s = worker[w].slot) \/ \E t \in Slots : OrphanWrite(w, t)
    <3>1. ~BindWrite(w) /\ ~UpdateWrite(w)
      <4>1. SUFFICES ASSUME dbState' = [dbState EXCEPT ![worker[w].slot] = "active"] PROVE FALSE
        BY DEF BindWrite, UpdateWrite
      <4>2. QED
        BY <1>1, <4>1 DEF TypeOK
    <3>2. BlockWrite(w) => s = worker[w].slot
      BY <1>1 DEF BlockWrite, MarkOrphaned, TypeOK
    <3>3. QED
      BY <2>1, <2>2, <3>1, <3>2 DEF Continue, BindOffline, BindSelect, BindConfirm,
         Apply, RefreshApply, RefreshCoreOff, RefreshCoreOn,
         BlockSelect, RestoreSelect, BlockConfirm, RefreshDone, StopMonitor, StopCore,
         StopFlag, StartCheck, StartRead, StartSpawn,
         StartProviders, PublishCore, PublishMonitor, RestoreRead, RestoreDone, db
  <2>5. None \notin Managers /\ None \notin Nodes /\ mgr[g].loaded \subseteq Nodes
    BY <1>1, ConstantsOK DEF ConstantsOK, TypeOK, Manager
  <2>6. CASE BlockWrite(w) /\ s = worker[w].slot
    <3>1. worker[w].pc = "blockWrite"
      BY <2>6 DEF BlockWrite
    <3>2. mgr[core].sel[s] = None /\ (mgr[g].child = "up" => g = core)
      BY <1>1, <2>3, <2>6, <3>1 DEF Solo, Agree, Starting
    <3>3. QED
      BY <2>5, <3>2 DEF Routes, Effective
  <2>7. ASSUME NEW t \in Slots, OrphanWrite(w, t) PROVE Routes(g, s) = None
    <3>1. worker[w].pc = "orphan"
      BY <2>7 DEF OrphanWrite
    <3>2. mgr[g].child # "up"
      BY <1>1, <2>3, <2>5, <3>1 DEF Solo, Coreless, Starting
    <3>3. QED
      BY <3>2 DEF Routes
  <2>8. QED
    BY <2>4, <2>6, <2>7
<1>2. TypeOK /\ Serial /\ [Next]_vars =>
        [\A s \in Slots : ~disturbed /\ dbState[s] # "orphaned" /\ dbState'[s] = "orphaned" =>
            \A g \in Managers : mgr[g].mon = "left" \/ Routes(g, s) = None]_vars
  BY <1>1
<1>3. QED
  BY <1>2, TypeCorrect, SerialHolds, PTL DEF Spec, BlockBeforeOrphan
=============================================================================
