------------------------------ MODULE SlotPorts ------------------------------
(***************************************************************************)
(* The Slots of a desktop and their fixed ports: creation, deletion and    *)
(* the merge of the Slots of other desktops run side by side over one      *)
(* database; each statement or transaction is a step.                      *)
(*                                                                         *)
(* A Slot never changes its port, and no identifier is used twice.  What   *)
(* occupies a port, other programs or the own Core, may be anything at     *)
(* each probe.  Rebuilding the Core is left to SlotRuntime, except that it *)
(* may fail; uploading is one step, detailed in CloudSync.                 *)
(***************************************************************************)
EXTENDS Naturals, Sequences, FiniteSets

CONSTANTS
    Slots,      \* identifiers, of this desktop and of others
    MaxPort,
    Settings,   \* the settings a user chooses from: the port range, and how
                \* long a port cools down
    Tasks,
    None, Gone, \* Gone: a tombstone
    MaxClock, MaxLog, MaxEnds   \* bounds

Ports == 1 .. MaxPort

ASSUME PortsOK ==
    /\ MaxPort \in Nat /\ MaxClock \in Nat /\ MaxLog \in Nat /\ MaxEnds \in Nat
    /\ Settings \subseteq [start: Ports, end: Ports, cooldown: Nat \ {0}] /\ Settings # {}
    /\ None \notin Ports \cup Slots \cup Tasks /\ Gone \notin Ports \cup {None}

VARIABLES
    row,       \* proxy_slots: the port of a Slot
    bound,     \* slot_bindings: the Slots that have one
    born,      \* the identifiers in use
    released,  \* port_cooldowns.released_at
    clock,
    settings,  \* app_settings
    task,      \* commands in progress
    merge,     \* cloud_pull_merge in progress
    queue,     \* sync_outbox
    log,       \* sync_events of the account, its Slots
    cursor,    \* cloud_profiles.last_cursor
    ends,
    forgotten  \* history: Slots whose deletion ended before it was queued

cloud == <<queue, log, cursor>>
slots == <<row, bound, born, released>>
vars == <<slots, clock, settings, task, merge, cloud, ends, forgotten>>

Times == 0 .. MaxClock
Create == [kind: {"create", "batch_create"}, ids: SUBSET Slots, want: Ports \cup {None},
           set: Settings, used: SUBSET Ports, rel: [Ports -> Times \cup {None}],
           chosen: [Slots -> Ports \cup {None}], others: SUBSET Ports,
           pc: {"used", "cooldowns", "allocate", "insert", "enqueue"}]
Delete == [kind: {"delete", "batch_delete"}, ids: SUBSET Slots, pc: {"tombstone"}]
Merge == [at: Nat, upto: Nat, existing: Ports \cup {None}, pc: {"existing", "row", "binding"}]

(* None is no command either.                                              *)
ASSUME NoneIsNoRecord == None \notin Create \cup Delete

PortsOfRows == {row[s] : s \in Slots} \ {None}

(* Every variable has its type, and no port has two rows.                  *)
TypeOK ==
    /\ row \in [Slots -> Ports \cup {None}]
    /\ \A s, r \in Slots : row[s] = row[r] /\ row[s] # None => s = r
    /\ bound \subseteq {s \in Slots : row[s] # None}
    /\ born \subseteq Slots
    /\ released \in [Ports -> Times \cup {None}]
    /\ clock \in Times /\ settings \in Settings
    /\ task \in [Tasks -> Create \cup Delete \cup {None}]
    /\ merge \in Merge \cup {None}
    /\ queue \in [Slots -> Ports \cup {None, Gone}]
    /\ log \in Seq([slot: Slots, port: Ports \cup {Gone}])
    /\ cursor \in 0 .. Len(log)
    /\ ends \in 0 .. MaxEnds /\ forgotten \subseteq Slots

Init ==
    /\ row = [s \in Slots |-> None] /\ bound = {} /\ born = {}
    /\ released = [p \in Ports |-> None]
    /\ clock = 0 /\ settings \in Settings
    /\ task = [t \in Tasks |-> None] /\ merge = None
    /\ queue = [s \in Slots |-> None] /\ log = <<>> /\ cursor = 0
    /\ ends = 0 /\ forgotten = {}

-----------------------------------------------------------------------------
(* PortAllocator.                                                          *)
Cooling(rel, p, cooldown) ==
    rel[p] # None /\ rel[p] <= clock /\ clock - rel[p] < cooldown

Candidates(c) ==
    {p \in c.set.start .. c.set.end : p \notin c.used /\ ~Cooling(c.rel, p, c.set.cooldown)}

-----------------------------------------------------------------------------
(* create_slot and batch_create_slots.                                     *)
Set(t, c) == task' = [task EXCEPT ![t] = c]

NoTimes == [p \in Ports |-> None]
NoPorts == [s \in Slots |-> None]

StartCreate(t, kind, ids, want) ==
    /\ task[t] = None
    /\ \A u \in Tasks : task[u] # None => task[u].kind # kind
    /\ ids # {} /\ ids \cap born = {}
    /\ kind = "create" => Cardinality(ids) = 1 /\ want = None
    /\ want # None => Cardinality(ids) = 1
    /\ born' = born \cup ids
    /\ Set(t, [kind |-> kind, ids |-> ids, want |-> want, set |-> settings, used |-> {},
              rel |-> NoTimes, chosen |-> NoPorts, others |-> {}, pc |-> "used"])
    /\ UNCHANGED <<row, bound, released, clock, settings, merge, cloud, ends, forgotten>>

At(t, pc) == task[t] # None /\ task[t].pc = pc

Reading(t) == UNCHANGED <<slots, clock, settings, merge, cloud, ends, forgotten>>

\* A mutant: the cooldowns first.
ReadPortsSwapped(t) ==
    /\ \/ /\ At(t, "used")
          /\ Set(t, [task[t] EXCEPT !.rel = released, !.others = {}, !.pc = "cooldowns"])
       \/ /\ At(t, "cooldowns")
          /\ Set(t, [task[t] EXCEPT !.used = PortsOfRows, !.pc = "allocate"])
    /\ Reading(t)

(* The ports with rows, then the cooldowns: a deletion in between moves a  *)
(* port from the former to the latter.                                     *)
ReadPorts(t) ==
    /\ \/ /\ At(t, "used")
          /\ Set(t, [task[t] EXCEPT !.used = PortsOfRows, !.others = {}, !.pc = "cooldowns"])
       \/ /\ At(t, "cooldowns")
          /\ Set(t, [task[t] EXCEPT !.rel = released, !.pc = "allocate"])
    /\ Reading(t)

(* One port after the other, each the lowest that is free at the probe, or *)
(* the one that is asked for.                                              *)
\* A mutant: a batch does not count the ports it has chosen itself.
ChoicesAlone(c) ==
    [c.ids -> IF c.want = None THEN Candidates(c) ELSE Candidates(c) \cap {c.want}]

Choices(c) ==
    {f \in [c.ids -> IF c.want = None THEN Candidates(c) ELSE Candidates(c) \cap {c.want}] :
        \A s, r \in c.ids : f[s] = f[r] => s = r}

Allocate(t) ==
    LET c == task[t]
    IN  /\ At(t, "allocate")
        /\ \/ Set(t, None)
           \/ \E f \in Choices(c) :
                Set(t, [c EXCEPT !.chosen = [s \in Slots |-> IF s \in c.ids THEN f[s] ELSE None],
                                 !.want = None, !.used = {}, !.rel = NoTimes, !.pc = "insert"])
        /\ Reading(t)

(* The tasks that see ports get a row from someone else.                   *)
Seen(t, ports) ==
    [u \in Tasks |->
        IF u # t /\ task[u] # None /\ task[u].kind \in {"create", "batch_create"}
          THEN [task[u] EXCEPT !.others = @ \cup ports] ELSE task[u]]

Chosen(t) == {task[t].chosen[s] : s \in task[t].ids}

\* A mutant: local_port is not unique.
ConflictWithinBatch(t) ==
    \E s, r \in task[t].ids : s # r /\ task[t].chosen[s] = task[t].chosen[r]

(* One transaction; local_port is unique.                                  *)
Conflict(t) ==
    \/ Chosen(t) \cap PortsOfRows # {}
    \/ \E s, r \in task[t].ids : s # r /\ task[t].chosen[s] = task[t].chosen[r]

Insert(t) ==
    /\ At(t, "insert")
    /\ ~Conflict(t)
    /\ row' = [s \in Slots |-> IF s \in task[t].ids THEN task[t].chosen[s] ELSE row[s]]
    /\ bound' = bound \cup task[t].ids
    /\ task' = [Seen(t, Chosen(t)) EXCEPT ![t] =
                 [task[t] EXCEPT !.chosen = NoPorts, !.others = {}, !.pc = "enqueue"]]
    /\ UNCHANGED <<born, released, clock, settings, merge, cloud, ends, forgotten>>

InsertFails(t) ==
    /\ At(t, "insert")
    /\ Conflict(t)
    /\ Set(t, None)
    /\ Reading(t)

(* enqueue_slot looks the row up again.                                    *)
EnqueueSlots(t) ==
    /\ At(t, "enqueue")
    /\ queue' = [s \in Slots |-> IF s \in task[t].ids \cap bound THEN row[s] ELSE queue[s]]
    /\ Set(t, None)
    /\ UNCHANGED <<slots, clock, settings, merge, log, cursor, ends, forgotten>>

-----------------------------------------------------------------------------
(* delete_slot and batch_delete_slots.                                     *)
Release(ids) ==
    /\ row' = [s \in Slots |-> IF s \in ids THEN None ELSE row[s]]
    /\ bound' = bound \ ids
    /\ released' = [p \in Ports |-> IF \E s \in ids : row[s] = p THEN clock ELSE released[p]]
    /\ UNCHANGED born

(* One transaction, or none of it.                                         *)
DeleteRows(t, kind, ids) ==
    /\ task[t] = None
    /\ \A u \in Tasks : task[u] # None => task[u].kind # kind
    /\ ids # {} /\ ids \subseteq bound
    /\ kind = "delete" => Cardinality(ids) = 1
    /\ Release(ids)
    /\ Set(t, [kind |-> kind, ids |-> ids, pc |-> "tombstone"])
    /\ UNCHANGED <<clock, settings, merge, cloud, ends, forgotten>>

(* delete_slot rebuilds the Core first, and does not come to the queue when *)
(* that fails.                                                             *)
RebuildFails(t) ==
    /\ At(t, "tombstone") /\ task[t].kind = "delete"
    /\ Set(t, None) /\ forgotten' = forgotten \cup task[t].ids
    /\ UNCHANGED <<slots, clock, settings, merge, cloud, ends>>

EnqueueTombstones(t) ==
    /\ At(t, "tombstone")
    /\ queue' = [s \in Slots |-> IF s \in task[t].ids THEN Gone ELSE queue[s]]
    /\ Set(t, None)
    /\ UNCHANGED <<slots, clock, settings, merge, log, cursor, ends, forgotten>>

-----------------------------------------------------------------------------
(* cloud_pull_merge, as far as it applies Slots: every event after the     *)
(* cursor, in order; the cursor follows when all are applied.              *)
Existing == [s \in Slots |-> IF s \in bound THEN row[s] ELSE None]

\* A mutant: the cursor is saved with the page.
MergeStartSaves ==
    /\ merge = None /\ cursor < Len(log)
    /\ cursor' = Len(log)
    /\ merge' = [at |-> cursor + 1, upto |-> Len(log), existing |-> None, pc |-> "existing"]
    /\ UNCHANGED <<slots, clock, settings, task, queue, log, ends, forgotten>>

MergeStart ==
    /\ merge = None /\ cursor < Len(log)
    /\ merge' = [at |-> cursor + 1, upto |-> Len(log), existing |-> None, pc |-> "existing"]
    /\ UNCHANGED <<slots, clock, settings, task, cloud, ends, forgotten>>

Event == log[merge.at]

Merging(pc) ==
    /\ merge # None /\ merge.pc = pc
    /\ UNCHANGED <<clock, settings, queue, log, ends, forgotten>>

Go(pc) == merge' = [merge EXCEPT !.existing = None, !.pc = pc] /\ UNCHANGED cursor

Onward ==
    IF merge.at = merge.upto
      THEN merge' = None /\ cursor' = merge.upto
      ELSE merge' = [merge EXCEPT !.at = @ + 1, !.existing = None, !.pc = "existing"] /\ UNCHANGED cursor

\* A mutant: what could not be applied is skipped.
MergeFailsSkips ==
    /\ merge # None
    /\ merge' = None /\ cursor' = merge.upto
    /\ UNCHANGED <<slots, clock, settings, task, queue, log, ends, forgotten>>

(* The binding's node may be missing, the port taken by a Slot or, at the  *)
(* probe, by a program; a statement may fail.                              *)
MergeFails ==
    /\ merge # None
    /\ merge' = None
    /\ UNCHANGED <<slots, clock, settings, task, cloud, ends, forgotten>>

MergeExisting ==
    /\ Merging("existing")
    /\ Event.port # Gone => \A s \in Slots \ {Event.slot} : Existing[s] # Event.port
    /\ merge' = [merge EXCEPT !.existing = Existing[Event.slot], !.pc = "row"]
    /\ UNCHANGED <<slots, task, cursor>>

(* Two statements: the row, then its binding.                              *)
MergeRow ==
    /\ Merging("row") /\ Event.port # Gone
    /\ \A s \in Slots \ {Event.slot} : row[s] # Event.port
    /\ row' = [row EXCEPT ![Event.slot] = Event.port]
    /\ task' = Seen(None, {Event.port})
    /\ Go("binding")
    /\ UNCHANGED <<bound, born, released>>

MergeBinding ==
    /\ Merging("binding")
    /\ row[Event.slot] # None
    /\ bound' = bound \cup {Event.slot}
    /\ Onward
    /\ UNCHANGED <<row, born, released, task>>

MergeTombstone ==
    /\ Merging("row") /\ Event.port = Gone
    /\ IF merge.existing = None THEN UNCHANGED slots
       ELSE row[Event.slot] # None /\ Release({Event.slot})
    /\ Onward
    /\ UNCHANGED task

-----------------------------------------------------------------------------
(* The other desktops, the upload, the user's settings, time, the end.     *)
Last(s) == {i \in DOMAIN log : log[i].slot = s /\ \A j \in i + 1 .. Len(log) : log[j].slot # s}

IsGone(s) == \E i \in Last(s) : log[i].port = Gone

Publish(s, port) == Len(log) < MaxLog /\ log' = Append(log, [slot |-> s, port |-> port])

OtherCreates(s, p) ==
    /\ s \notin born /\ born' = born \cup {s}
    /\ Publish(s, p)
    /\ UNCHANGED <<row, bound, released, clock, settings, task, merge, queue, cursor, ends, forgotten>>

OtherDeletes(s) ==
    /\ Last(s) # {} /\ ~IsGone(s)
    /\ Publish(s, Gone)
    /\ UNCHANGED <<slots, clock, settings, task, merge, queue, cursor, ends, forgotten>>

Upload(s) ==
    /\ queue[s] # None /\ ~IsGone(s)
    /\ Publish(s, queue[s])
    /\ queue' = [queue EXCEPT ![s] = None]
    /\ UNCHANGED <<slots, clock, settings, task, merge, cursor, ends, forgotten>>

UpdateSettings(v) ==
    /\ v # settings /\ settings' = v
    /\ UNCHANGED <<slots, clock, task, merge, cloud, ends, forgotten>>

Tick ==
    /\ clock < MaxClock /\ clock' = clock + 1
    /\ UNCHANGED <<slots, settings, task, merge, cloud, ends, forgotten>>

Untold == UNION {task[t].ids : t \in {u \in Tasks : At(u, "tombstone")}}

Restart ==
    /\ ends < MaxEnds /\ ends' = ends + 1
    /\ forgotten' = forgotten \cup Untold
    /\ task' = [t \in Tasks |-> None] /\ merge' = None
    /\ UNCHANGED <<slots, clock, settings, cloud>>

TaskStep(t) ==
    \/ ReadPorts(t) \/ Allocate(t) \/ Insert(t) \/ InsertFails(t)
    \/ EnqueueSlots(t) \/ RebuildFails(t) \/ EnqueueTombstones(t)

MergeStep ==
    MergeStart \/ MergeExisting \/ MergeRow \/ MergeBinding \/ MergeTombstone \/ MergeFails

Next ==
    \/ \E t \in Tasks, kind \in {"create", "batch_create"}, ids \in SUBSET Slots,
          want \in Ports \cup {None} : StartCreate(t, kind, ids, want)
    \/ \E t \in Tasks, kind \in {"delete", "batch_delete"}, ids \in SUBSET Slots :
          DeleteRows(t, kind, ids)
    \/ \E t \in Tasks : TaskStep(t)
    \/ MergeStep
    \/ \E s \in Slots : OtherDeletes(s) \/ Upload(s) \/ \E p \in Ports : OtherCreates(s, p)
    \/ \E v \in Settings : UpdateSettings(v)
    \/ Tick
    \/ Restart

Spec == Init /\ [][Next]_vars

-----------------------------------------------------------------------------
(* A port that a deletion freed is not given out before it has cooled down, *)
(* however creations and deletions overlap; a port that someone else took  *)
(* since the creation looked is refused anyway, or was freed again.        *)
CooldownRespected ==
    \A t \in Tasks : At(t, "insert") =>
        \A p \in Chosen(t) \ task[t].others : ~Cooling(released, p, task[t].set.cooldown)

(* A creation fails on a taken port only because someone else took it      *)
(* after it had looked; the ports of one batch never collide.              *)
ConflictIsForeign ==
    \A t \in Tasks : At(t, "insert") /\ Conflict(t) => Chosen(t) \cap task[t].others # {}

(* A row without a binding, which no page shows and nobody can delete, is  *)
(* left only where its event is still to be merged again.                  *)
HiddenIsUnmerged ==
    \A s \in Slots : row[s] # None /\ s \notin bound =>
        \E i \in cursor + 1 .. Len(log) : log[i].slot = s /\ log[i].port = row[s]

(* Once everything of a Slot is merged and nothing of it is queued, this   *)
(* desktop and the cloud agree on whether it exists and on its port, except *)
(* for a deletion that ended before it was queued.                         *)
MergedIsApplied ==
    \A s \in Slots \ (forgotten \cup Untold) : queue[s] = None =>
        \A i \in Last(s) : i <= cursor => row[s] = IF log[i].port = Gone THEN None ELSE log[i].port
=============================================================================
