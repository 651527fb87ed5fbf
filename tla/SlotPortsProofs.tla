--------------------------- MODULE SlotPortsProofs ---------------------------
(***************************************************************************)
(* Proofs about SlotPorts, for any Slots, ports, settings and tasks and    *)
(* every bound: type correctness with one row for each port, that no port  *)
(* is given out while it cools down, that creations collide only with      *)
(* others, that a row without a binding is merged again, and that the rows *)
(* follow the events which a merge has passed.                             *)
(***************************************************************************)
EXTENDS SlotPorts, TLAPS

(* No deletion lies in the future, and a merge works on events after the   *)
(* cursor.                                                                 *)
Timely == \A p \in Ports : released[p] # None => released[p] <= clock

MergeInLog ==
    merge # None => cursor < merge.at /\ merge.at <= merge.upto /\ merge.upto <= Len(log)

(* What a creation knows of a port that nobody took since it read the      *)
(* rows: before it has chosen, that rows and cooldowns are as it read      *)
(* them; afterwards, that its choices are free and have cooled down.       *)
ChoosesWell(c) ==
    /\ \A s \in c.ids : c.chosen[s] \in Ports
    /\ \A s, r \in c.ids : c.chosen[s] = c.chosen[r] => s = r
    /\ \A s \in c.ids : c.chosen[s] \notin c.others =>
          c.chosen[s] \notin PortsOfRows /\ ~Cooling(released, c.chosen[s], c.set.cooldown)

LooksWell(c) ==
    /\ c.pc \in {"cooldowns", "allocate"} =>
          \A p \in Ports \ (c.used \cup c.others) : p \notin PortsOfRows
    /\ c.pc = "allocate" =>
          \A p \in Ports \ (c.used \cup c.others) : c.rel[p] = released[p]
    /\ c.pc = "insert" => ChoosesWell(c)

Looked == \A t \in Tasks : task[t] # None => LooksWell(task[t])

(* A row without a binding belongs to an event the merge has not passed.   *)
Ahead == IF merge = None THEN cursor + 1 ELSE merge.at

Unpassed ==
    \A s \in Slots : row[s] # None /\ s \notin bound =>
        \E i \in Ahead .. Len(log) : log[i].slot = s /\ log[i].port = row[s]

Inv == TypeOK /\ Timely /\ MergeInLog /\ Looked

-----------------------------------------------------------------------------
(* Tasks.                                                                  *)
LEMMA CreateOrDelete ==
  ASSUME PortsOK, TypeOK, NEW t \in Tasks, task[t] # None
  PROVE  /\ task[t] \in Create \/ task[t] \in Delete
         /\ task[t].kind \in {"create", "batch_create"} => task[t] \in Create
         /\ task[t].pc # "tombstone" => task[t] \in Create
         /\ task[t].pc = "tombstone" => task[t] \in Delete
         /\ task[t].ids \subseteq Slots
BY DEF TypeOK, Create, Delete

LEMMA SetType ==
  ASSUME TypeOK, NEW t, NEW c \in Create \cup Delete \cup {None}, Set(t, c)
  PROVE  task' \in [Tasks -> Create \cup Delete \cup {None}]
BY DEF TypeOK, Set

LEMMA SeenType ==
  ASSUME PortsOK, TypeOK, NEW t, NEW G \in SUBSET Ports
  PROVE  Seen(t, G) \in [Tasks -> Create \cup Delete \cup {None}]
<1> SUFFICES ASSUME NEW u \in Tasks, u # t, task[u] # None,
                    task[u].kind \in {"create", "batch_create"}
             PROVE  [task[u] EXCEPT !.others = @ \cup G] \in Create
  BY DEF Seen, TypeOK
<1>1. task[u] \in Create
  BY CreateOrDelete
<1>2. QED
  BY <1>1 DEF Create

(* A deletion has looked at nothing, nor has a creation that only begins   *)
(* or is done.                                                             *)
LEMMA LooksAtNothing ==
  ASSUME NEW c, c.pc \in {"used", "enqueue", "tombstone"}
  PROVE  LooksWell(c)'
BY DEF LooksWell

(* Ports that get a row are added to others; a port without one keeps its  *)
(* cooldown, which only runs out.                                          *)
Grown(c, d, G) ==
    /\ d.pc = c.pc /\ d.used = c.used /\ d.rel = c.rel /\ d.ids = c.ids /\ d.chosen = c.chosen
    /\ d.set = c.set /\ d.others = c.others \cup G

WorldStep(G) ==
    /\ PortsOfRows' \subseteq PortsOfRows \cup G
    /\ \A p \in Ports \ PortsOfRows : released'[p] = released[p]
    /\ clock <= clock'

LEMMA WorldKeeps ==
  ASSUME PortsOK, TypeOK, TypeOK', Timely, NEW G \in SUBSET Ports, WorldStep(G),
         NEW c \in Create, NEW d, Grown(c, d, G), LooksWell(c)
  PROVE  LooksWell(d)'
<1>1. /\ d.pc = c.pc /\ d.used = c.used /\ d.rel = c.rel /\ d.ids = c.ids /\ d.chosen = c.chosen
      /\ d.set = c.set /\ d.others = c.others \cup G
      /\ PortsOfRows' \subseteq PortsOfRows \cup G
      /\ \A p \in Ports \ PortsOfRows : released'[p] = released[p]
      /\ clock <= clock'
  BY DEF Grown, WorldStep
<1>2. c.set.cooldown \in Nat
  BY DEF PortsOK, Create
<1>3. ASSUME NEW p \in Ports \ PortsOfRows, ~Cooling(released, p, c.set.cooldown)
      PROVE  ~Cooling(released, p, c.set.cooldown)'
  <2>1. released'[p] = released[p] /\ released[p] \in Times \cup {None}
        /\ clock \in Nat /\ clock' \in Nat
    BY <1>1, <1>3 DEF TypeOK, Times, PortsOK
  <2>2. released[p] # None => released[p] \in Nat /\ released[p] <= clock
    BY <2>1, <1>3 DEF Times, Timely, PortsOK
  <2>3. QED
    BY <1>1, <1>2, <1>3, <2>1, <2>2 DEF Cooling
<1>4. d.pc \in {"cooldowns", "allocate"} =>
          \A p \in Ports \ (d.used \cup d.others) : p \notin PortsOfRows'
  BY <1>1 DEF LooksWell
<1>5. d.pc = "allocate" =>
          \A p \in Ports \ (d.used \cup d.others) : d.rel[p] = released'[p]
  BY <1>1 DEF LooksWell
<1>6. ASSUME c.pc = "insert"
      PROVE  /\ \A s \in d.ids : d.chosen[s] \in Ports
             /\ \A s, r \in d.ids : d.chosen[s] = d.chosen[r] => s = r
             /\ \A s \in d.ids : d.chosen[s] \notin d.others =>
                  /\ d.chosen[s] \notin PortsOfRows'
                  /\ ~Cooling(released, d.chosen[s], d.set.cooldown)'
  <2>1. ChoosesWell(c)
    BY <1>6 DEF LooksWell
  <2>2. ASSUME NEW s \in d.ids, d.chosen[s] \notin d.others
        PROVE  /\ d.chosen[s] \notin PortsOfRows'
               /\ ~Cooling(released, d.chosen[s], d.set.cooldown)'
    <3>1. c.chosen[s] \in Ports \ PortsOfRows /\ ~Cooling(released, c.chosen[s], c.set.cooldown)
          /\ c.chosen[s] \notin G
      BY <1>1, <2>1, <2>2 DEF ChoosesWell
    <3>2. QED
      BY <1>1, <1>3, <3>1
  <2>3. QED
    BY <1>1, <2>1, <2>2 DEF ChoosesWell
<1>7. d.pc = "insert" => ChoosesWell(d)'
  BY <1>1, <1>6 DEF ChoosesWell
<1>8. QED
  BY <1>4, <1>5, <1>7 DEF LooksWell

(* So all creations keep knowing what they know, while one task goes on.   *)
LEMMA LookedKeeps ==
  ASSUME PortsOK, Inv, TypeOK', NEW G \in SUBSET Ports, WorldStep(G),
         \A u \in Tasks : task'[u] # None =>
             \/ task'[u].pc \in {"used", "enqueue", "tombstone"}
             \/ task[u] \in Create /\ task[u] # None /\ Grown(task[u], task'[u], G)
             \/ task'[u] = task[u] /\ G = {}
             \/ \E d : d = task'[u] /\ LooksWell(d)'
  PROVE  Looked'
<1> SUFFICES ASSUME NEW u \in Tasks, task'[u] # None
             PROVE  LooksWell(task[u])'
  BY DEF Looked
<1> SUFFICES ASSUME NEW d, d = task'[u]
             PROVE  LooksWell(d)'
  OBVIOUS
<1> SUFFICES ASSUME NEW c, c = task[u], c # None, d.pc # "tombstone",
                    \/ c \in Create /\ Grown(c, d, G)
                    \/ d = c /\ G = {}
             PROVE  LooksWell(d)'
  <2>1. CASE d.pc \in {"used", "enqueue", "tombstone"}
    BY <2>1, LooksAtNothing
  <2>2. CASE \E e : e = d /\ LooksWell(e)'
    BY <2>2
  <2>3. QED
    BY <2>1, <2>2
<1>1. LooksWell(c)
  BY DEF Inv, Looked
<1>2. CASE c \in Create /\ Grown(c, d, G)
  BY <1>1, <1>2, WorldKeeps DEF Inv
<1>3. CASE d = c /\ G = {}
  <2>1. c \in Create
    BY <1>3, CreateOrDelete DEF Inv
  <2>2. Grown(c, d, G)
    BY <1>3 DEF Grown
  <2>3. QED
    BY <1>1, <2>1, <2>2, WorldKeeps DEF Inv
<1>4. QED
  BY <1>2, <1>3

LEMMA StillWorld ==
  ASSUME PortsOK, TypeOK, UNCHANGED <<row, released, clock>>
  PROVE  WorldStep({})
<1>1. clock <= clock'
  BY DEF TypeOK, Times, PortsOK
<1>2. QED
  BY <1>1 DEF WorldStep, PortsOfRows

(* One task goes on, and the others stay.                                  *)
LEMMA SetLooked ==
  ASSUME PortsOK, Inv, TypeOK', WorldStep({}), NEW t \in Tasks, NEW c, Set(t, c),
         c # None => c.pc \in {"used", "enqueue", "tombstone"} \/ LooksWell(c)'
  PROVE  Looked'
<1>1. \A u \in Tasks : task'[u] = IF u = t THEN c ELSE task[u]
  BY DEF Inv, TypeOK, Set
<1>2. \A u \in Tasks : task'[u] # None =>
        \/ task'[u].pc \in {"used", "enqueue", "tombstone"}
        \/ task'[u] = task[u]
        \/ \E d : d = task'[u] /\ LooksWell(d)'
  BY <1>1
<1>3. QED
  BY <1>2, LookedKeeps

LEMMA SameLooked ==
  ASSUME PortsOK, Inv, TypeOK', WorldStep({}), UNCHANGED task
  PROVE  Looked'
BY LookedKeeps

-----------------------------------------------------------------------------
(* Creations.                                                              *)
LEMMA StartCreateKeeps ==
  ASSUME PortsOK, Inv, NEW t \in Tasks, NEW kind \in {"create", "batch_create"},
         NEW ids \in SUBSET Slots, NEW want \in Ports \cup {None}, StartCreate(t, kind, ids, want)
  PROVE  Inv'
<1> USE DEF Inv
<1> DEFINE c == [kind |-> kind, ids |-> ids, want |-> want, set |-> settings, used |-> {},
                 rel |-> NoTimes, chosen |-> NoPorts, others |-> {}, pc |-> "used"]
<1>1. Set(t, c) /\ c.pc = "used"
  BY DEF StartCreate
<1>2. c \in Create
  BY DEF Create, TypeOK, NoTimes, NoPorts
<1>3. task' \in [Tasks -> Create \cup Delete \cup {None}]
  BY <1>1, <1>2, SetType
<1>4. TypeOK'
  BY <1>3 DEF TypeOK, StartCreate, cloud
<1>5. Looked'
  <2> SUFFICES ASSUME NEW d, d = c
               PROVE  Looked'
    OBVIOUS
  <2>1. WorldStep({})
    BY StillWorld DEF StartCreate
  <2>2. QED
    BY <1>1, <1>4, <2>1, SetLooked
<1>6. Timely' /\ MergeInLog'
  BY DEF Timely, MergeInLog, StartCreate, cloud
<1>7. QED
  BY <1>4, <1>5, <1>6

LEMMA ReadingKeeps ==
  ASSUME PortsOK, Inv, NEW t \in Tasks, Reading(t),
         NEW c \in Create \cup Delete \cup {None}, Set(t, c)
  PROVE  /\ TypeOK' /\ Timely' /\ MergeInLog' /\ WorldStep({})
         /\ PortsOfRows' = PortsOfRows /\ released' = released
<1> USE DEF Inv
<1>1. task' \in [Tasks -> Create \cup Delete \cup {None}]
  BY SetType
<1>2. TypeOK'
  BY <1>1 DEF TypeOK, Reading, slots, cloud
<1>3. Timely' /\ MergeInLog'
  BY DEF Timely, MergeInLog, Reading, slots, cloud
<1>4. PortsOfRows' = PortsOfRows /\ released' = released
  BY DEF PortsOfRows, Reading, slots
<1>5. QED
  BY <1>2, <1>3, <1>4, StillWorld DEF Reading, slots

LEMMA NoneKeeps ==
  ASSUME PortsOK, Inv, NEW t \in Tasks, Reading(t), Set(t, None)
  PROVE  Inv'
<1>1. TypeOK' /\ Timely' /\ MergeInLog' /\ WorldStep({})
  BY ReadingKeeps
<1>2. QED
  BY <1>1, SetLooked DEF Inv

LEMMA ReadPortsKeeps ==
  ASSUME PortsOK, Inv, NEW t \in Tasks, ReadPorts(t)
  PROVE  Inv'
<1>0. task[t] # None /\ task[t] \in Create
  BY CreateOrDelete DEF ReadPorts, At, Inv
<1>1. CASE /\ At(t, "used")
           /\ Set(t, [task[t] EXCEPT !.used = PortsOfRows, !.others = {}, !.pc = "cooldowns"])
  <2> SUFFICES ASSUME NEW c, c = [task[t] EXCEPT !.used = PortsOfRows, !.others = {},
                                                 !.pc = "cooldowns"]
               PROVE  Inv'
    OBVIOUS
  <2>1. PortsOfRows \subseteq Ports
    BY DEF Inv, TypeOK, PortsOfRows
  <2>2. c \in Create /\ c.pc = "cooldowns" /\ c.used = PortsOfRows
    BY <1>0, <2>1 DEF Create
  <2>3. TypeOK' /\ Timely' /\ MergeInLog' /\ WorldStep({}) /\ PortsOfRows' = PortsOfRows
    BY <1>1, <2>2, ReadingKeeps DEF ReadPorts
  <2>4. LooksWell(c)'
    BY <2>2, <2>3 DEF LooksWell
  <2>5. QED
    BY <1>1, <2>3, <2>4, SetLooked DEF Inv
<1>2. CASE /\ At(t, "cooldowns")
           /\ Set(t, [task[t] EXCEPT !.rel = released, !.pc = "allocate"])
  <2> SUFFICES ASSUME NEW c, c = [task[t] EXCEPT !.rel = released, !.pc = "allocate"]
               PROVE  Inv'
    OBVIOUS
  <2>1. released \in [Ports -> Times \cup {None}]
    BY DEF Inv, TypeOK
  <2>2. c \in Create /\ c.pc = "allocate" /\ c.rel = released
        /\ c.used = task[t].used /\ c.others = task[t].others
    BY <1>0, <2>1 DEF Create
  <2>3. TypeOK' /\ Timely' /\ MergeInLog' /\ WorldStep({}) /\ PortsOfRows' = PortsOfRows
        /\ released' = released
    BY <1>2, <2>2, ReadingKeeps DEF ReadPorts
  <2>4. \A p \in Ports \ (c.used \cup c.others) : p \notin PortsOfRows
    BY <1>0, <1>2, <2>2 DEF Inv, Looked, LooksWell, At
  <2>5. LooksWell(c)'
    BY <2>2, <2>3, <2>4 DEF LooksWell
  <2>6. QED
    BY <1>2, <2>3, <2>5, SetLooked DEF Inv
<1>3. QED
  BY <1>1, <1>2 DEF ReadPorts

LEMMA CandidateFacts ==
  ASSUME PortsOK, NEW c \in Create, NEW p \in Candidates(c)
  PROVE  p \in Ports /\ p \notin c.used /\ ~Cooling(c.rel, p, c.set.cooldown)
BY DEF Candidates, Create, PortsOK, Ports

LEMMA AllocateKeeps ==
  ASSUME PortsOK, Inv, NEW t \in Tasks, Allocate(t)
  PROVE  Inv'
<1>0. task[t] # None /\ task[t] \in Create /\ task[t].pc = "allocate"
  BY CreateOrDelete DEF Allocate, At, Inv
<1>1. CASE Set(t, None)
  BY <1>1, NoneKeeps DEF Allocate
<1>2. ASSUME NEW f \in Choices(task[t]),
             Set(t, [task[t] EXCEPT !.chosen = [s \in Slots |->
                                                  IF s \in task[t].ids THEN f[s] ELSE None],
                                    !.want = None, !.used = {}, !.rel = NoTimes, !.pc = "insert"])
      PROVE  Inv'
  <2> SUFFICES ASSUME NEW c, c = [task[t] EXCEPT
                                    !.chosen = [s \in Slots |->
                                                  IF s \in task[t].ids THEN f[s] ELSE None],
                                    !.want = None, !.used = {}, !.rel = NoTimes, !.pc = "insert"]
               PROVE  Inv'
    OBVIOUS
  <2> DEFINE ids == task[t].ids
  <2>1. /\ \A s \in ids : f[s] \in Candidates(task[t])
        /\ \A s, r \in ids : f[s] = f[r] => s = r
        /\ ids \subseteq Slots
    BY <1>0 DEF Choices, Create
  <2>2. \A s \in ids : f[s] \in Ports
    BY <1>0, <2>1, CandidateFacts
  <2>3. [s \in Slots |-> IF s \in ids THEN f[s] ELSE None] \in [Slots -> Ports \cup {None}]
    BY <2>2
  <2>4. NoTimes \in [Ports -> Times \cup {None}]
    BY DEF NoTimes
  <2>5. /\ c \in Create /\ c.pc = "insert" /\ c.ids = ids /\ c.set = task[t].set
        /\ c.others = task[t].others
        /\ \A s \in ids : c.chosen[s] = f[s]
    BY <1>0, <2>1, <2>3, <2>4 DEF Create
  <2>6. TypeOK' /\ Timely' /\ MergeInLog' /\ WorldStep({}) /\ PortsOfRows' = PortsOfRows
        /\ released' = released /\ clock' = clock
    BY <1>2, <2>5, ReadingKeeps DEF Allocate, Reading
  <2>7. ASSUME NEW s \in ids, f[s] \notin c.others
        PROVE  f[s] \notin PortsOfRows /\ ~Cooling(released, f[s], c.set.cooldown)
    <3>1. /\ f[s] \in Ports /\ f[s] \notin task[t].used
          /\ ~Cooling(task[t].rel, f[s], c.set.cooldown)
      BY <1>0, <2>1, <2>5, CandidateFacts
    <3>2. f[s] \notin PortsOfRows /\ task[t].rel[f[s]] = released[f[s]]
      BY <1>0, <2>5, <2>7, <3>1 DEF Inv, Looked, LooksWell
    <3>3. QED
      BY <3>1, <3>2 DEF Cooling
  <2>8. ChoosesWell(c)'
    BY <2>1, <2>2, <2>5, <2>6, <2>7 DEF ChoosesWell, Cooling
  <2>9. LooksWell(c)'
    BY <2>5, <2>8 DEF LooksWell
  <2>10. QED
    BY <1>2, <2>6, <2>9, SetLooked DEF Inv
<1>3. QED
  BY <1>1, <1>2 DEF Allocate

(* What Seen does to a task.                                               *)
LEMMA SeenTask ==
  ASSUME PortsOK, TypeOK, NEW t, NEW G \in SUBSET Ports, NEW u \in Tasks, u # t
  PROVE  \/ task[u] = None /\ Seen(t, G)[u] = None
         \/ task[u] # None /\ task[u].pc = "tombstone" /\ Seen(t, G)[u] = task[u]
         \/ task[u] # None /\ task[u] \in Create /\ Grown(task[u], Seen(t, G)[u], G)
<1>1. CASE task[u] = None
  BY <1>1 DEF Seen
<1>2. CASE task[u] # None /\ task[u].kind \in {"create", "batch_create"}
  <2>1. task[u] \in Create
    BY <1>2, CreateOrDelete
  <2>2. Seen(t, G)[u] = [task[u] EXCEPT !.others = @ \cup G]
    BY <1>2 DEF Seen
  <2>3. QED
    BY <1>2, <2>1, <2>2 DEF Grown, Create
<1>3. CASE task[u] # None /\ task[u].kind \notin {"create", "batch_create"}
  <2>1. task[u] \in Delete
    BY <1>3, CreateOrDelete DEF Create
  <2>2. QED
    BY <1>3, <2>1 DEF Seen, Delete
<1>4. QED
  BY <1>1, <1>2, <1>3

LEMMA InsertKeeps ==
  ASSUME PortsOK, Inv, NEW t \in Tasks, Insert(t)
  PROVE  Inv'
<1> DEFINE c == [task[t] EXCEPT !.chosen = NoPorts, !.others = {}, !.pc = "enqueue"]
           G == Chosen(t)
<1>0. task[t] # None /\ task[t] \in Create /\ task[t].pc = "insert" /\ task[t].ids \subseteq Slots
  BY CreateOrDelete DEF Insert, At, Inv
<1>1. /\ \A s \in task[t].ids : task[t].chosen[s] \in Ports
      /\ \A s, r \in task[t].ids : task[t].chosen[s] = task[t].chosen[r] => s = r
      /\ G \subseteq Ports /\ G \cap PortsOfRows = {}
  BY <1>0 DEF Inv, Looked, LooksWell, ChoosesWell, Chosen, Insert, Conflict
<1>2. c \in Create /\ c.pc = "enqueue"
  BY <1>0 DEF Create, NoPorts
<1>3. /\ task' = [Seen(t, G) EXCEPT ![t] = c]
      /\ row' = [s \in Slots |-> IF s \in task[t].ids THEN task[t].chosen[s] ELSE row[s]]
      /\ bound' = bound \cup task[t].ids
      /\ UNCHANGED <<born, released, clock, settings, merge, cloud, ends, forgotten>>
  BY DEF Insert
<1>4. task' \in [Tasks -> Create \cup Delete \cup {None}]
  <2>1. Seen(t, G) \in [Tasks -> Create \cup Delete \cup {None}]
    BY <1>1, SeenType DEF Inv
  <2>2. QED
    BY <1>2, <1>3, <2>1
<1>5. row' \in [Slots -> Ports \cup {None}] /\ bound' \subseteq {s \in Slots : row'[s] # None}
  BY <1>0, <1>1, <1>3 DEF Inv, TypeOK, PortsOK
<1>6. ASSUME NEW s \in Slots, NEW r \in Slots, row'[s] = row'[r], row'[s] # None
      PROVE  s = r
  <2>1. CASE s \in task[t].ids /\ r \in task[t].ids
    BY <1>1, <1>3, <1>6, <2>1
  <2>2. CASE s \notin task[t].ids /\ r \notin task[t].ids
    BY <1>3, <1>6, <2>2 DEF Inv, TypeOK
  <2>3. \A x, y \in Slots : x \in task[t].ids /\ y \notin task[t].ids /\ row'[x] = row'[y]
                              /\ row'[x] # None => FALSE
    BY <1>1, <1>3 DEF Chosen, PortsOfRows
  <2>4. QED
    BY <1>6, <2>1, <2>2, <2>3
<1>7. TypeOK'
  BY <1>3, <1>4, <1>5, <1>6 DEF Inv, TypeOK, cloud
<1>8. WorldStep(G)
  <2>1. PortsOfRows' \subseteq PortsOfRows \cup G
    BY <1>3 DEF PortsOfRows, Chosen
  <2>2. QED
    BY <1>3, <2>1 DEF WorldStep, Inv, TypeOK, Times, PortsOK
<1>9. Looked'
  <2>1. \A u \in Tasks : task'[u] = IF u = t THEN c ELSE Seen(t, G)[u]
    BY <1>3 DEF Seen
  <2>2. \A u \in Tasks : task'[u] # None =>
             \/ task'[u].pc \in {"used", "enqueue", "tombstone"}
             \/ task[u] \in Create /\ task[u] # None /\ Grown(task[u], task'[u], G)
    <3>1. G \in SUBSET Ports /\ TypeOK
      BY <1>1 DEF Inv
    <3> HIDE DEF G, c
    <3>2. ASSUME NEW u \in Tasks, u # t, task'[u] # None
          PROVE  \/ task'[u].pc = "tombstone"
                 \/ task[u] \in Create /\ task[u] # None /\ Grown(task[u], task'[u], G)
      BY <2>1, <3>1, <3>2, SeenTask
    <3>3. QED
      BY <1>2, <2>1, <3>2
  <2>3. QED
    BY <1>1, <1>7, <1>8, <2>2, LookedKeeps
<1>10. Timely' /\ MergeInLog'
  BY <1>3 DEF Inv, Timely, MergeInLog, cloud
<1>11. QED
  BY <1>7, <1>9, <1>10 DEF Inv

LEMMA InsertFailsKeeps ==
  ASSUME PortsOK, Inv, NEW t \in Tasks, InsertFails(t)
  PROVE  Inv'
BY NoneKeeps DEF InsertFails

(* The steps after which a task is done, and nothing of rows, cooldowns or *)
(* the merge has changed.                                                  *)
LEMMA DoneKeeps ==
  ASSUME PortsOK, Inv, NEW t \in Tasks, Set(t, None),
         UNCHANGED <<slots, clock, settings, merge, log, cursor, ends>>,
         queue' \in [Slots -> Ports \cup {None, Gone}], forgotten' \subseteq Slots
  PROVE  Inv'
<1>1. task' \in [Tasks -> Create \cup Delete \cup {None}]
  BY SetType DEF Inv
<1>2. TypeOK'
  BY <1>1 DEF Inv, TypeOK, slots
<1>3. WorldStep({})
  BY StillWorld DEF Inv, slots
<1>4. Timely' /\ MergeInLog'
  BY DEF Inv, Timely, MergeInLog, slots
<1>5. QED
  BY <1>2, <1>3, <1>4, SetLooked DEF Inv

LEMMA EnqueueSlotsKeeps ==
  ASSUME PortsOK, Inv, NEW t \in Tasks, EnqueueSlots(t)
  PROVE  Inv'
<1>1. queue' \in [Slots -> Ports \cup {None, Gone}]
  BY DEF EnqueueSlots, Inv, TypeOK
<1>2. QED
  BY <1>1, DoneKeeps DEF EnqueueSlots, Inv, TypeOK

-----------------------------------------------------------------------------
(* Deletions.                                                              *)
LEMMA ReleaseKeeps ==
  ASSUME PortsOK, TypeOK, Timely, NEW ids \in SUBSET Slots, Release(ids), UNCHANGED clock
  PROVE  /\ row' \in [Slots -> Ports \cup {None}]
         /\ \A s, r \in Slots : row'[s] = row'[r] /\ row'[s] # None => s = r
         /\ bound' \subseteq {s \in Slots : row'[s] # None} /\ born' \subseteq Slots
         /\ released' \in [Ports -> Times \cup {None}]
         /\ Timely' /\ WorldStep({})
<1>1. /\ row' = [s \in Slots |-> IF s \in ids THEN None ELSE row[s]]
      /\ bound' = bound \ ids /\ born' = born
      /\ released' = [p \in Ports |-> IF \E s \in ids : row[s] = p THEN clock ELSE released[p]]
  BY DEF Release
<1>2. clock \in Times /\ clock <= clock /\ clock' = clock
  BY DEF TypeOK, Times, PortsOK
<1>3. row' \in [Slots -> Ports \cup {None}] /\ bound' \subseteq {s \in Slots : row'[s] # None}
      /\ born' \subseteq Slots
  BY <1>1 DEF TypeOK
<1>4. \A s, r \in Slots : row'[s] = row'[r] /\ row'[s] # None => s = r
  BY <1>1 DEF TypeOK
<1>5. released' \in [Ports -> Times \cup {None}]
  BY <1>1, <1>2 DEF TypeOK
<1>6. Timely'
  BY <1>1, <1>2 DEF Timely
<1>7. WorldStep({})
  <2>1. PortsOfRows' \subseteq PortsOfRows
    BY <1>1 DEF PortsOfRows
  <2>2. \A p \in Ports \ PortsOfRows : released'[p] = released[p]
    BY <1>1 DEF PortsOfRows
  <2>3. QED
    BY <1>2, <2>1, <2>2 DEF WorldStep
<1>8. QED
  BY <1>3, <1>4, <1>5, <1>6, <1>7

LEMMA DeleteRowsKeeps ==
  ASSUME PortsOK, Inv, NEW t \in Tasks, NEW kind \in {"delete", "batch_delete"},
         NEW ids \in SUBSET Slots, DeleteRows(t, kind, ids)
  PROVE  Inv'
<1> DEFINE c == [kind |-> kind, ids |-> ids, pc |-> "tombstone"]
<1>1. c \in Delete /\ c.pc = "tombstone" /\ Set(t, c)
  BY DEF Delete, DeleteRows
<1>2. task' \in [Tasks -> Create \cup Delete \cup {None}]
  BY <1>1, SetType DEF Inv
<1>3. /\ row' \in [Slots -> Ports \cup {None}]
      /\ \A s, r \in Slots : row'[s] = row'[r] /\ row'[s] # None => s = r
      /\ bound' \subseteq {s \in Slots : row'[s] # None} /\ born' \subseteq Slots
      /\ released' \in [Ports -> Times \cup {None}]
      /\ Timely' /\ WorldStep({})
  BY ReleaseKeeps DEF Inv, DeleteRows
<1>4. TypeOK'
  BY <1>2, <1>3 DEF Inv, TypeOK, DeleteRows, cloud
<1>5. MergeInLog'
  BY DEF Inv, MergeInLog, DeleteRows, cloud
<1>6. Looked'
  <2> SUFFICES ASSUME NEW d, d = c
               PROVE  Looked'
    OBVIOUS
  <2>1. QED
    BY <1>1, <1>3, <1>4, SetLooked
<1>7. QED
  BY <1>3, <1>4, <1>5, <1>6 DEF Inv

LEMMA RebuildFailsKeeps ==
  ASSUME PortsOK, Inv, NEW t \in Tasks, RebuildFails(t)
  PROVE  Inv'
<1>1. task[t].ids \subseteq Slots
  BY CreateOrDelete DEF RebuildFails, At, Inv
<1>2. QED
  BY <1>1, DoneKeeps DEF RebuildFails, cloud, Inv, TypeOK

LEMMA EnqueueTombstonesKeeps ==
  ASSUME PortsOK, Inv, NEW t \in Tasks, EnqueueTombstones(t)
  PROVE  Inv'
<1>1. queue' \in [Slots -> Ports \cup {None, Gone}]
  BY DEF EnqueueTombstones, Inv, TypeOK
<1>2. QED
  BY <1>1, DoneKeeps DEF EnqueueTombstones, Inv, TypeOK

-----------------------------------------------------------------------------
(* The merge.                                                              *)
LEMMA MergeStartKeeps ==
  ASSUME PortsOK, Inv, MergeStart
  PROVE  Inv'
<1>1. cursor \in Nat /\ Len(log) \in Nat /\ cursor < Len(log)
  BY DEF MergeStart, Inv, TypeOK
<1>2. merge' \in Merge /\ merge'.at = cursor + 1 /\ merge'.upto = Len(log)
      /\ merge'.pc = "existing"
  BY <1>1 DEF MergeStart, Merge
<1>3. TypeOK'
  BY <1>2 DEF MergeStart, Inv, TypeOK, slots, cloud
<1>4. MergeInLog'
  BY <1>1, <1>2 DEF MergeStart, MergeInLog, cloud
<1>5. Timely' /\ WorldStep({})
  BY StillWorld DEF MergeStart, Inv, Timely, slots
<1>6. QED
  BY <1>3, <1>4, <1>5, SameLooked DEF MergeStart, Inv

LEMMA MergeFailsKeeps ==
  ASSUME PortsOK, Inv, MergeFails
  PROVE  Inv'
<1>1. TypeOK' /\ MergeInLog'
  BY DEF MergeFails, Inv, TypeOK, MergeInLog, slots, cloud
<1>2. Timely' /\ WorldStep({})
  BY StillWorld DEF MergeFails, Inv, Timely, slots
<1>3. QED
  BY <1>1, <1>2, SameLooked DEF MergeFails, Inv

LEMMA SeqElement ==
  ASSUME NEW S, NEW q \in Seq(S), NEW i \in 1 .. Len(q)
  PROVE  q[i] \in S /\ Len(q) \in Nat /\ i \in DOMAIN q
OBVIOUS

LEMMA MergeFacts ==
  ASSUME PortsOK, Inv, merge # None
  PROVE  /\ merge \in Merge /\ merge.at \in DOMAIN log /\ merge.at \in Nat /\ merge.upto \in Nat
         /\ Len(log) \in Nat /\ cursor \in Nat
         /\ cursor < merge.at /\ merge.at <= merge.upto /\ merge.upto <= Len(log)
         /\ Event \in [slot: Slots, port: Ports \cup {Gone}]
<1>1. merge \in Merge /\ Len(log) \in Nat /\ cursor \in Nat
      /\ log \in Seq([slot: Slots, port: Ports \cup {Gone}])
  BY DEF Inv, TypeOK
<1>2. merge.at \in Nat /\ merge.upto \in Nat
  BY <1>1 DEF Merge
<1>3. cursor < merge.at /\ merge.at <= merge.upto /\ merge.upto <= Len(log)
  BY DEF Inv, MergeInLog
<1>4. merge.at \in 1 .. Len(log)
  BY <1>1, <1>2, <1>3
<1> DEFINE E == [slot: Slots, port: Ports \cup {Gone}]
<1>5. merge.at \in DOMAIN log /\ log[merge.at] \in E
  <2> HIDE DEF E
  <2> SUFFICES ASSUME log \in Seq(E)
               PROVE  merge.at \in DOMAIN log /\ log[merge.at] \in E
    BY <1>1 DEF E
  <2>1. QED
    BY <1>4, SeqElement
<1>6. QED
  BY <1>1, <1>2, <1>3, <1>5 DEF Event

LEMMA MergeExistingKeeps ==
  ASSUME PortsOK, Inv, MergeExisting
  PROVE  Inv'
<1>1. merge # None /\ merge.pc = "existing"
  BY DEF MergeExisting, Merging
<1>2. Existing[Event.slot] \in Ports \cup {None}
  BY <1>1, MergeFacts DEF Existing, Inv, TypeOK
<1>3. merge' \in Merge /\ merge'.at = merge.at /\ merge'.upto = merge.upto /\ merge'.pc = "row"
  BY <1>1, <1>2, MergeFacts DEF MergeExisting, Merge
<1>4. TypeOK' /\ MergeInLog'
  BY <1>1, <1>3, MergeFacts DEF MergeExisting, Merging, Inv, TypeOK, MergeInLog, slots, cloud
<1>5. Timely' /\ WorldStep({})
  BY StillWorld DEF MergeExisting, Merging, Inv, Timely, slots
<1>6. QED
  BY <1>4, <1>5, SameLooked DEF MergeExisting, Inv

LEMMA OnwardKeeps ==
  ASSUME PortsOK, Inv, merge # None, Onward, UNCHANGED log
  PROVE  /\ merge' \in Merge \cup {None} /\ cursor' \in 0 .. Len(log') /\ MergeInLog'
         /\ Ahead' <= merge.at + 1
<1>1. CASE merge.at = merge.upto
  <2>1. merge' = None /\ cursor' = merge.at
    BY <1>1 DEF Onward
  <2>2. QED
    BY <1>1, <2>1, MergeFacts DEF MergeInLog, Ahead
<1>2. CASE merge.at # merge.upto
  <2>1. merge' = [merge EXCEPT !.at = @ + 1, !.existing = None, !.pc = "existing"]
        /\ cursor' = cursor
    BY <1>2 DEF Onward
  <2>2. merge' \in Merge /\ merge'.at = merge.at + 1 /\ merge'.upto = merge.upto
    <3>1. merge \in Merge /\ merge.at + 1 \in Nat
      BY MergeFacts
    <3> SUFFICES ASSUME NEW n \in Nat, n = merge.at + 1,
                        merge' = [merge EXCEPT !.at = n, !.existing = None, !.pc = "existing"]
                 PROVE  merge' \in Merge /\ merge'.at = n /\ merge'.upto = merge.upto
      BY <2>1, <3>1
    <3>2. QED
      BY <3>1 DEF Merge
  <2>3. merge.at + 1 <= merge.upto
    BY <1>2, MergeFacts
  <2>4. cursor' \in 0 .. Len(log') /\ MergeInLog'
    BY <2>1, <2>2, <2>3, MergeFacts DEF MergeInLog
  <2>5. Ahead' <= merge.at + 1
    BY <2>1, <2>2, MergeFacts DEF Ahead
  <2>6. QED
    BY <2>2, <2>4, <2>5
<1>3. QED
  BY <1>1, <1>2

LEMMA MergeRowKeeps ==
  ASSUME PortsOK, Inv, MergeRow
  PROVE  Inv'
<1> DEFINE G == {Event.port}
<1>1. merge # None /\ Event.port \in Ports /\ Event.slot \in Slots
  BY MergeFacts DEF MergeRow, Merging
<1>2. /\ row' = [row EXCEPT ![Event.slot] = Event.port]
      /\ \A s \in Slots \ {Event.slot} : row[s] # Event.port
      /\ task' = Seen(None, G)
      /\ UNCHANGED <<bound, born, released, clock, settings, queue, log, ends, forgotten, cursor>>
  BY DEF MergeRow, Merging, Go
<1>3. merge' \in Merge /\ merge'.at = merge.at /\ merge'.upto = merge.upto
  BY <1>1, MergeFacts DEF MergeRow, Go, Merge
<1>4. task' \in [Tasks -> Create \cup Delete \cup {None}]
  BY <1>1, <1>2, SeenType DEF Inv
<1>5. /\ row' \in [Slots -> Ports \cup {None}]
      /\ \A s, r \in Slots : row'[s] = row'[r] /\ row'[s] # None => s = r
      /\ bound' \subseteq {s \in Slots : row'[s] # None}
  BY <1>1, <1>2 DEF Inv, TypeOK, PortsOK
<1>6. TypeOK'
  BY <1>2, <1>3, <1>4, <1>5 DEF Inv, TypeOK
<1>7. MergeInLog' /\ Timely'
  BY <1>1, <1>2, <1>3, MergeFacts DEF MergeInLog, Inv, Timely
<1>8. WorldStep(G)
  <2>1. PortsOfRows' \subseteq PortsOfRows \cup G
    BY <1>1, <1>2 DEF PortsOfRows, Inv, TypeOK
  <2>2. QED
    BY <1>2, <2>1 DEF WorldStep, Inv, TypeOK, Times, PortsOK
<1>9. Looked'
  <2>1. G \in SUBSET Ports /\ TypeOK
    BY <1>1 DEF Inv
  <2> HIDE DEF G
  <2>2. ASSUME NEW u \in Tasks, task'[u] # None
        PROVE  \/ task'[u].pc = "tombstone"
               \/ task[u] \in Create /\ task[u] # None /\ Grown(task[u], task'[u], G)
    <3>1. u # None
      BY DEF PortsOK
    <3>2. QED
      BY <1>2, <2>1, <2>2, <3>1, SeenTask
  <2>3. QED
    BY <1>6, <1>8, <2>1, <2>2, LookedKeeps
<1>10. QED
  BY <1>6, <1>7, <1>9 DEF Inv

LEMMA MergeBindingKeeps ==
  ASSUME PortsOK, Inv, MergeBinding
  PROVE  Inv'
<1>1. merge # None /\ Event.slot \in Slots
  BY MergeFacts DEF MergeBinding, Merging
<1>2. /\ row[Event.slot] # None /\ bound' = bound \cup {Event.slot} /\ Onward
      /\ UNCHANGED <<row, born, released, task, clock, settings, queue, log, ends, forgotten>>
  BY DEF MergeBinding, Merging
<1>3. merge' \in Merge \cup {None} /\ cursor' \in 0 .. Len(log') /\ MergeInLog'
  BY <1>1, <1>2, OnwardKeeps
<1>4. TypeOK'
  BY <1>1, <1>2, <1>3 DEF Inv, TypeOK
<1>5. Timely' /\ WorldStep({})
  BY <1>2, StillWorld DEF Inv, Timely
<1>6. QED
  BY <1>2, <1>3, <1>4, <1>5, SameLooked DEF Inv

LEMMA MergeTombstoneKeeps ==
  ASSUME PortsOK, Inv, MergeTombstone
  PROVE  Inv'
<1>1. merge # None /\ Event.slot \in Slots
  BY MergeFacts DEF MergeTombstone, Merging
<1>2. /\ Onward
      /\ UNCHANGED <<task, clock, settings, queue, log, ends, forgotten>>
  BY DEF MergeTombstone, Merging
<1>3. merge' \in Merge \cup {None} /\ cursor' \in 0 .. Len(log') /\ MergeInLog'
  BY <1>1, <1>2, OnwardKeeps
<1>4. CASE UNCHANGED slots
  <2>1. TypeOK'
    BY <1>2, <1>3, <1>4 DEF Inv, TypeOK, slots
  <2>2. Timely' /\ WorldStep({})
    BY <1>2, <1>4, StillWorld DEF Inv, Timely, slots
  <2>3. QED
    BY <1>2, <1>3, <2>1, <2>2, SameLooked DEF Inv
<1>5. CASE Release({Event.slot})
  <2>1. /\ row' \in [Slots -> Ports \cup {None}]
        /\ \A s, r \in Slots : row'[s] = row'[r] /\ row'[s] # None => s = r
        /\ bound' \subseteq {s \in Slots : row'[s] # None} /\ born' \subseteq Slots
        /\ released' \in [Ports -> Times \cup {None}]
        /\ Timely' /\ WorldStep({})
    BY <1>1, <1>2, <1>5, ReleaseKeeps DEF Inv
  <2>2. TypeOK'
    BY <1>2, <1>3, <2>1 DEF Inv, TypeOK
  <2>3. QED
    BY <1>2, <1>3, <2>1, <2>2, SameLooked DEF Inv
<1>6. QED
  BY <1>4, <1>5 DEF MergeTombstone

-----------------------------------------------------------------------------
(* The world, and the end.                                                 *)
LEMMA PublishType ==
  ASSUME PortsOK, Inv, NEW s \in Slots, NEW p \in Ports \cup {Gone}, Publish(s, p)
  PROVE  /\ log' \in Seq([slot: Slots, port: Ports \cup {Gone}])
         /\ Len(log') = Len(log) + 1
         /\ \A i \in 1 .. Len(log) : log'[i] = log[i]
<1>1. [slot |-> s, port |-> p] \in [slot: Slots, port: Ports \cup {Gone}]
  OBVIOUS
<1>2. log \in Seq([slot: Slots, port: Ports \cup {Gone}])
  BY DEF Inv, TypeOK
<1>3. QED
  BY <1>1, <1>2 DEF Publish

LEMMA LogGrows ==
  ASSUME PortsOK, Inv, NEW s \in Slots, NEW p \in Ports \cup {Gone}, Publish(s, p),
         born' \subseteq Slots, queue' \in [Slots -> Ports \cup {None, Gone}],
         UNCHANGED <<row, bound, released, clock, settings, task, merge, cursor, ends, forgotten>>
  PROVE  Inv'
<1>0. Len(log) \in Nat
  BY DEF Inv, TypeOK
<1>1. log' \in Seq([slot: Slots, port: Ports \cup {Gone}]) /\ Len(log') = Len(log) + 1
      /\ Len(log) \in Nat
  BY <1>0, PublishType
<1>2. TypeOK'
  BY <1>1 DEF Inv, TypeOK
<1>3. MergeInLog'
  BY <1>1, MergeFacts DEF MergeInLog
<1>4. Timely' /\ WorldStep({})
  BY StillWorld DEF Inv, Timely
<1>5. QED
  BY <1>2, <1>3, <1>4, SameLooked DEF Inv

LEMMA OtherCreatesKeeps ==
  ASSUME PortsOK, Inv, NEW s \in Slots, NEW p \in Ports, OtherCreates(s, p)
  PROVE  Inv'
BY LogGrows DEF OtherCreates, Inv, TypeOK

LEMMA OtherDeletesKeeps ==
  ASSUME PortsOK, Inv, NEW s \in Slots, OtherDeletes(s)
  PROVE  Inv'
BY LogGrows DEF OtherDeletes, Inv, TypeOK, slots

LEMMA UploadKeeps ==
  ASSUME PortsOK, Inv, NEW s \in Slots, Upload(s)
  PROVE  Inv'
<1>1. queue[s] \in Ports \cup {Gone} /\ queue' \in [Slots -> Ports \cup {None, Gone}]
  BY DEF Upload, Inv, TypeOK
<1>2. QED
  BY <1>1, LogGrows DEF Upload, Inv, TypeOK, slots

LEMMA UpdateSettingsKeeps ==
  ASSUME PortsOK, Inv, NEW v \in Settings, UpdateSettings(v)
  PROVE  Inv'
<1>1. TypeOK' /\ MergeInLog' /\ Timely'
  BY DEF UpdateSettings, Inv, TypeOK, MergeInLog, Timely, slots, cloud
<1>2. WorldStep({})
  BY StillWorld DEF UpdateSettings, Inv, slots
<1>3. QED
  BY <1>1, <1>2, SameLooked DEF UpdateSettings, Inv

LEMMA TickKeeps ==
  ASSUME PortsOK, Inv, Tick
  PROVE  Inv'
<1>1. clock \in Nat /\ clock' = clock + 1 /\ clock' \in Times
  BY DEF Tick, Inv, TypeOK, Times, PortsOK
<1>2. TypeOK' /\ MergeInLog'
  BY <1>1 DEF Tick, Inv, TypeOK, MergeInLog, slots, cloud
<1>3. Timely'
  <2>1. \A p \in Ports : released[p] # None => released[p] \in Nat
    BY DEF Inv, TypeOK, Times
  <2>2. QED
    BY <1>1, <2>1 DEF Tick, Inv, Timely, slots
<1>4. WorldStep({})
  BY <1>1 DEF WorldStep, PortsOfRows, Tick, slots
<1>5. QED
  BY <1>2, <1>3, <1>4, SameLooked DEF Tick, Inv

LEMMA RestartKeeps ==
  ASSUME PortsOK, Inv, Restart
  PROVE  Inv'
<1>1. Untold \subseteq Slots
  BY CreateOrDelete DEF Untold, At, Inv
<1>2. ends' \in 0 .. MaxEnds
  BY DEF Restart, Inv, TypeOK, PortsOK
<1>3. TypeOK' /\ MergeInLog' /\ Timely'
  BY <1>1, <1>2 DEF Restart, Inv, TypeOK, MergeInLog, Timely, slots, cloud
<1>4. Looked'
  BY DEF Restart, Looked
<1>5. QED
  BY <1>3, <1>4 DEF Inv

-----------------------------------------------------------------------------
LEMMA InvInit ==
  ASSUME PortsOK, Init
  PROVE  Inv
<1>1. TypeOK
  BY DEF Init, TypeOK, PortsOK, Times
<1>2. QED
  BY <1>1 DEF Init, Inv, Timely, MergeInLog, Looked

LEMMA InvNext ==
  ASSUME PortsOK, Inv, [Next]_vars
  PROVE  Inv'
<1>1. ASSUME NEW t \in Tasks, TaskStep(t)
      PROVE  Inv'
  BY <1>1, ReadPortsKeeps, AllocateKeeps, InsertKeeps, InsertFailsKeeps, EnqueueSlotsKeeps,
     RebuildFailsKeeps, EnqueueTombstonesKeeps DEF TaskStep
<1>2. CASE MergeStep
  BY <1>2, MergeStartKeeps, MergeExistingKeeps, MergeRowKeeps, MergeBindingKeeps,
     MergeTombstoneKeeps, MergeFailsKeeps DEF MergeStep
<1>3. ASSUME NEW t \in Tasks, NEW kind \in {"create", "batch_create"}, NEW ids \in SUBSET Slots,
             NEW want \in Ports \cup {None}, StartCreate(t, kind, ids, want)
      PROVE  Inv'
  BY <1>3, StartCreateKeeps
<1>4. ASSUME NEW t \in Tasks, NEW kind \in {"delete", "batch_delete"}, NEW ids \in SUBSET Slots,
             DeleteRows(t, kind, ids)
      PROVE  Inv'
  BY <1>4, DeleteRowsKeeps
<1>5. ASSUME NEW s \in Slots, OtherDeletes(s) \/ Upload(s) \/ \E p \in Ports : OtherCreates(s, p)
      PROVE  Inv'
  BY <1>5, OtherDeletesKeeps, UploadKeeps, OtherCreatesKeeps
<1>6. ASSUME NEW v \in Settings, UpdateSettings(v)
      PROVE  Inv'
  BY <1>6, UpdateSettingsKeeps
<1>7. CASE UNCHANGED vars
  <2>1. TypeOK' /\ MergeInLog' /\ Timely'
    BY <1>7 DEF vars, Inv, TypeOK, MergeInLog, Timely, slots, cloud
  <2>2. WorldStep({})
    BY <1>7, StillWorld DEF vars, Inv, slots
  <2>3. QED
    BY <1>7, <2>1, <2>2, SameLooked DEF vars, Inv
<1>8. QED
  BY <1>1, <1>2, <1>3, <1>4, <1>5, <1>6, <1>7, TickKeeps, RestartKeeps DEF Next

LEMMA InvHolds ==
  ASSUME PortsOK
  PROVE  Spec => []Inv
<1>1. Init => Inv
  BY InvInit
<1>2. Inv /\ [Next]_vars => Inv'
  BY InvNext
<1>3. QED
  BY <1>1, <1>2, PTL DEF Spec

-----------------------------------------------------------------------------
(* Rows without a binding.                                                 *)
LEMMA AheadFacts ==
  ASSUME PortsOK, Inv
  PROVE  Ahead \in Nat /\ Ahead > cursor /\ cursor \in Nat /\ Len(log) \in Nat
<1>1. cursor \in Nat /\ Len(log) \in Nat
  BY DEF Inv, TypeOK
<1>2. CASE merge = None
  BY <1>1, <1>2 DEF Ahead
<1>3. CASE merge # None
  BY <1>1, <1>3, MergeFacts DEF Ahead
<1>4. QED
  BY <1>1, <1>2, <1>3

LEMMA AheadNext ==
  ASSUME PortsOK, Inv'
  PROVE  Ahead' \in Nat /\ Len(log') \in Nat
<1>1. cursor' \in Nat /\ Len(log') \in Nat /\ merge' \in Merge \cup {None}
  BY DEF Inv, TypeOK
<1>2. merge' # None => merge'.at \in Nat
  BY <1>1 DEF Merge
<1>3. CASE merge' = None
  <2>1. Ahead' = cursor' + 1
    BY <1>3 DEF Ahead
  <2>2. \A k \in Nat : k + 1 \in Nat
    OBVIOUS
  <2>3. cursor' + 1 \in Nat
    BY <1>1, <2>2
  <2>4. QED
    BY <1>1, <2>1, <2>3
<1>4. CASE merge' # None
  <2>1. Ahead' = merge'.at
    BY <1>4 DEF Ahead
  <2>2. QED
    BY <1>1, <1>2, <1>4, <2>1
<1>5. QED
  BY <1>3, <1>4

LEMMA UnpassedStays ==
  ASSUME PortsOK, Inv, Inv', Unpassed, Ahead' <= Ahead, Len(log) <= Len(log'),
         \A i \in 1 .. Len(log) : log'[i] = log[i],
         \A s \in Slots : row'[s] # None /\ s \notin bound' => row'[s] = row[s] /\ s \notin bound
  PROVE  Unpassed'
<1> SUFFICES ASSUME NEW s \in Slots, row'[s] # None, s \notin bound'
             PROVE  \E i \in Ahead' .. Len(log') : log'[i].slot = s /\ log'[i].port = row'[s]
  BY DEF Unpassed
<1>1. PICK i \in Ahead .. Len(log) : log[i].slot = s /\ log[i].port = row[s]
  BY DEF Unpassed
<1>2. i \in Ahead' .. Len(log') /\ i \in 1 .. Len(log)
  BY AheadFacts, AheadNext
<1>3. QED
  BY <1>1, <1>2

LEMMA UnpassedOnward ==
  ASSUME PortsOK, Inv, Inv', Unpassed, merge # None, Onward, UNCHANGED log,
         \A s \in Slots : row'[s] # None /\ s \notin bound' =>
             /\ row'[s] = row[s] /\ s \notin bound
             /\ s = Event.slot => row[s] # Event.port
  PROVE  Unpassed'
<1> SUFFICES ASSUME NEW s \in Slots, row'[s] # None, s \notin bound'
             PROVE  \E i \in Ahead' .. Len(log') : log'[i].slot = s /\ log'[i].port = row'[s]
  BY DEF Unpassed
<1>1. PICK i \in Ahead .. Len(log) : log[i].slot = s /\ log[i].port = row[s]
  BY DEF Unpassed
<1>2. i # merge.at
  BY <1>1 DEF Event
<1>3. Ahead = merge.at /\ Ahead' <= merge.at + 1 /\ Ahead' \in Nat /\ merge.at \in Nat
      /\ Len(log) \in Nat
  BY MergeFacts, OnwardKeeps, AheadNext DEF Ahead
<1>4. i \in Ahead' .. Len(log')
  BY <1>2, <1>3
<1>5. QED
  BY <1>1, <1>4

LEMMA UnpassedNext ==
  ASSUME PortsOK, Inv, Inv', Unpassed, [Next]_vars
  PROVE  Unpassed'
<1> DEFINE Held == \A s \in Slots : row'[s] # None /\ s \notin bound' =>
                                        row'[s] = row[s] /\ s \notin bound
<1>1. CASE Held /\ UNCHANGED <<merge, cursor, log>>
  BY <1>1, UnpassedStays, AheadFacts DEF Ahead
<1>2. ASSUME UNCHANGED <<row, bound>>
      PROVE  Held
  BY <1>2
<1>3. ASSUME NEW ids \in SUBSET Slots, Release(ids)
      PROVE  Held
  <2>1. row' = [s \in Slots |-> IF s \in ids THEN None ELSE row[s]] /\ bound' = bound \ ids
    BY <1>3 DEF Release
  <2>2. QED
    BY <2>1
<1>4. ASSUME NEW t \in Tasks, Insert(t)
      PROVE  Unpassed'
  <2>1. /\ row' = [s \in Slots |-> IF s \in task[t].ids THEN task[t].chosen[s] ELSE row[s]]
        /\ bound' = bound \cup task[t].ids
    BY <1>4 DEF Insert
  <2>2. Held
    BY <2>1
  <2>3. QED
    BY <1>1, <1>4, <2>2 DEF Insert, cloud
<1>5. ASSUME NEW t \in Tasks, TaskStep(t)
      PROVE  Unpassed'
  <2>1. CASE ReadPorts(t) \/ Allocate(t) \/ InsertFails(t)
    BY <1>1, <1>2, <2>1 DEF ReadPorts, Allocate, InsertFails, Reading, slots, cloud
  <2>2. CASE EnqueueSlots(t) \/ RebuildFails(t) \/ EnqueueTombstones(t)
    BY <1>1, <1>2, <2>2 DEF EnqueueSlots, RebuildFails, EnqueueTombstones, slots, cloud
  <2>3. QED
    BY <1>4, <1>5, <2>1, <2>2 DEF TaskStep
<1>6. CASE \/ \E t \in Tasks, kind \in {"create", "batch_create"}, ids \in SUBSET Slots,
                want \in Ports \cup {None} : StartCreate(t, kind, ids, want)
           \/ \E v \in Settings : UpdateSettings(v)
           \/ Tick
           \/ UNCHANGED vars
  BY <1>1, <1>2, <1>6 DEF StartCreate, UpdateSettings, Tick, vars, slots, cloud
<1>7. ASSUME NEW t \in Tasks, NEW kind \in {"delete", "batch_delete"}, NEW ids \in SUBSET Slots,
             DeleteRows(t, kind, ids)
      PROVE  Unpassed'
  BY <1>1, <1>3, <1>7 DEF DeleteRows, cloud
<1>8. CASE MergeStart
  <2>1. Ahead' <= Ahead
    BY <1>8, AheadFacts DEF MergeStart, Ahead, cloud
  <2>2. QED
    BY <1>2, <1>8, <2>1, UnpassedStays, AheadFacts DEF MergeStart, slots, cloud
<1>9. CASE MergeFails \/ Restart
  <2>1. merge' = None /\ UNCHANGED <<row, bound, cursor, log>>
    BY <1>9 DEF MergeFails, Restart, slots, cloud
  <2>2. Ahead' <= Ahead
    BY <2>1, AheadFacts DEF Ahead
  <2>3. QED
    BY <1>2, <2>1, <2>2, UnpassedStays, AheadFacts
<1>10. CASE MergeExisting
  <2>1. merge # None /\ merge' = [merge EXCEPT !.existing = Existing[Event.slot], !.pc = "row"]
        /\ UNCHANGED <<row, bound, cursor, log>>
    BY <1>10 DEF MergeExisting, Merging, slots
  <2>2. merge'.at = merge.at
    BY <2>1, MergeFacts DEF Merge
  <2>3. Ahead' <= Ahead
    BY <2>1, <2>2, MergeFacts DEF Ahead
  <2>4. QED
    BY <1>2, <2>1, <2>3, UnpassedStays, AheadFacts
<1>11. CASE MergeRow
  <2>1. /\ merge # None /\ merge' = [merge EXCEPT !.existing = None, !.pc = "binding"]
        /\ row' = [row EXCEPT ![Event.slot] = Event.port]
        /\ UNCHANGED <<bound, cursor, log>>
    BY <1>11 DEF MergeRow, Merging, Go
  <2>2. merge'.at = merge.at
    BY <2>1, MergeFacts DEF Merge
  <2>3. Ahead' <= Ahead /\ Ahead' <= merge.at /\ Ahead' \in Nat /\ Ahead = merge.at
    BY <2>1, <2>2, MergeFacts, AheadNext DEF Ahead
  <2>4. ASSUME NEW s \in Slots, row'[s] # None, s \notin bound'
        PROVE  \E i \in Ahead' .. Len(log') : log'[i].slot = s /\ log'[i].port = row'[s]
    <3>1. CASE s = Event.slot
      <4>1. row'[s] = Event.port /\ merge.at \in Ahead' .. Len(log')
        BY <2>1, <2>3, <3>1, MergeFacts DEF Inv, TypeOK
      <4>2. QED
        BY <2>1, <3>1, <4>1 DEF Event
    <3>2. CASE s # Event.slot
      <4>1. row[s] # None /\ s \notin bound /\ row'[s] = row[s]
        BY <2>1, <2>4, <3>2 DEF Inv, TypeOK
      <4>2. PICK i \in Ahead .. Len(log) : log[i].slot = s /\ log[i].port = row[s]
        BY <4>1 DEF Unpassed
      <4>3. i \in Ahead' .. Len(log')
        BY <2>1, <2>3, MergeFacts
      <4>4. QED
        BY <2>1, <4>1, <4>2, <4>3
    <3>3. QED
      BY <3>1, <3>2
  <2>5. QED
    BY <2>4 DEF Unpassed
<1>12. CASE MergeBinding
  <2>1. /\ merge # None /\ Onward /\ UNCHANGED <<row, log>>
        /\ bound' = bound \cup {Event.slot}
    BY <1>12 DEF MergeBinding, Merging
  <2>2. QED
    BY <2>1, UnpassedOnward
<1>13. CASE MergeTombstone
  <2>1. /\ merge # None /\ Onward /\ UNCHANGED log /\ Event.port = Gone
        /\ UNCHANGED slots \/ Release({Event.slot})
    BY <1>13 DEF MergeTombstone, Merging
  <2>2. Held
    BY <1>2, <1>3, <2>1, MergeFacts DEF slots
  <2>3. \A s \in Slots : row[s] # Gone
    BY DEF Inv, TypeOK, PortsOK
  <2>4. QED
    BY <2>1, <2>2, <2>3, UnpassedOnward
<1>14. ASSUME NEW s \in Slots, OtherDeletes(s) \/ Upload(s) \/ \E p \in Ports : OtherCreates(s, p)
       PROVE  Unpassed'
  <2>1. PICK p \in Ports \cup {Gone} : Publish(s, p)
    BY <1>14 DEF OtherDeletes, Upload, OtherCreates, Inv, TypeOK
  <2>2. UNCHANGED <<row, bound, merge, cursor>>
    BY <1>14 DEF OtherDeletes, Upload, OtherCreates, slots
  <2>3. Len(log') = Len(log) + 1 /\ \A i \in 1 .. Len(log) : log'[i] = log[i]
    BY <2>1, PublishType
  <2>4. Ahead' = Ahead
    BY <2>2 DEF Ahead
  <2>5. QED
    BY <1>2, <2>2, <2>3, <2>4, UnpassedStays, AheadFacts
<1>15. QED
  BY <1>5, <1>6, <1>7, <1>8, <1>9, <1>10, <1>11, <1>12, <1>13, <1>14 DEF Next, MergeStep

-----------------------------------------------------------------------------
(* Slots nobody has heard of.                                              *)
Absent(s) ==
    row[s] = None /\ queue[s] = None /\ \A i \in 1 .. Len(log) : log[i].slot # s

Beginning(t) == task[t] # None /\ task[t].pc \in {"used", "cooldowns", "allocate", "insert"}

Fresh(s) == s \notin born \/ \E t \in Tasks : Beginning(t) /\ s \in task[t].ids

(* A creation has its identifiers for itself: before its rows are written  *)
(* no row, no queued record and no event knows them.                       *)
Identifiers ==
    /\ \A s \in Slots : Fresh(s) => Absent(s)
    /\ \A t \in Tasks : task[t] # None => task[t].ids \subseteq born
    /\ \A t, u \in Tasks : Beginning(t) /\ u # t /\ task[u] # None =>
          task[t].ids \cap task[u].ids = {}

(* No command begins, and none goes back.                                  *)
Narrow ==
    \A u \in Tasks : task'[u] # None =>
        /\ task[u] # None /\ task'[u].ids = task[u].ids
        /\ task'[u].pc \in {"used", "cooldowns", "allocate", "insert"} =>
              task[u].pc \in {"used", "cooldowns", "allocate", "insert"}

LEMMA NarrowKeeps ==
  ASSUME Identifiers, Narrow, UNCHANGED born,
         \A s \in Slots : Fresh(s)' /\ Absent(s) => Absent(s)'
  PROVE  Identifiers'
<1>1. \A t \in Tasks : Beginning(t)' => Beginning(t) /\ task'[t].ids = task[t].ids
  BY DEF Narrow, Beginning
<1>2. \A s : Fresh(s)' => Fresh(s)
  BY <1>1 DEF Fresh
<1>3. \A s \in Slots : Fresh(s)' => Absent(s)'
  BY <1>2 DEF Identifiers
<1>4. \A t \in Tasks : task'[t] # None => task'[t].ids \subseteq born'
  BY DEF Identifiers, Narrow
<1>5. \A t, u \in Tasks : Beginning(t)' /\ u # t /\ task'[u] # None =>
          task'[t].ids \cap task'[u].ids = {}
  BY <1>1 DEF Identifiers, Narrow
<1>6. QED
  BY <1>3, <1>4, <1>5 DEF Identifiers

LEMMA SetNarrow ==
  ASSUME Inv, NEW t \in Tasks, NEW c, Set(t, c),
         c # None =>
             /\ task[t] # None /\ c.ids = task[t].ids
             /\ c.pc \in {"used", "cooldowns", "allocate", "insert"} =>
                    task[t].pc \in {"used", "cooldowns", "allocate", "insert"}
  PROVE  Narrow
<1>1. \A u \in Tasks : task'[u] = IF u = t THEN c ELSE task[u]
  BY DEF Inv, TypeOK, Set
<1>2. QED
  BY <1>1 DEF Narrow

LEMMA SeenNarrow ==
  ASSUME PortsOK, Inv, NEW t, NEW G \in SUBSET Ports, NEW u \in Tasks, u # t,
         Seen(t, G)[u] # None
  PROVE  /\ task[u] # None /\ Seen(t, G)[u].ids = task[u].ids
         /\ Seen(t, G)[u].pc = task[u].pc
BY SeenTask DEF Grown, Inv

LEMMA LogFacts ==
  ASSUME PortsOK, Inv
  PROVE  /\ Len(log) \in Nat /\ DOMAIN log = 1 .. Len(log)
         /\ \A i \in 1 .. Len(log) : log[i].slot \in Slots /\ log[i].port \in Ports \cup {Gone}
<1> DEFINE E == [slot: Slots, port: Ports \cup {Gone}]
<1>1. log \in Seq(E)
  BY DEF Inv, TypeOK
<1>2. \A i \in 1 .. Len(log) : log[i] \in E
  <2> HIDE DEF E
  <2>1. QED
    BY <1>1, SeqElement
<1>3. Len(log) \in Nat /\ DOMAIN log = 1 .. Len(log)
  <2> HIDE DEF E
  <2>1. QED
    BY <1>1
<1>4. QED
  BY <1>2, <1>3

(* An event at the end of the log.                                         *)
LEMMA PublishFacts ==
  ASSUME PortsOK, Inv, NEW s \in Slots, NEW p \in Ports \cup {Gone}, Publish(s, p)
  PROVE  /\ Len(log') = Len(log) + 1 /\ DOMAIN log' = 1 .. Len(log) + 1
         /\ \A i \in 1 .. Len(log) : log'[i] = log[i]
         /\ log'[Len(log) + 1].slot = s /\ log'[Len(log) + 1].port = p
<1>1. log' = Append(log, [slot |-> s, port |-> p])
  BY DEF Publish
<1>2. log \in Seq([slot: Slots, port: Ports \cup {Gone}])
      /\ [slot |-> s, port |-> p] \in [slot: Slots, port: Ports \cup {Gone}]
  BY DEF Inv, TypeOK
<1> DEFINE e == [slot |-> s, port |-> p]
           E == [slot: Slots, port: Ports \cup {Gone}]
<1>3. /\ Len(log') = Len(log) + 1 /\ DOMAIN log' = 1 .. Len(log) + 1
      /\ log'[Len(log) + 1] = e
  <2> HIDE DEF e, E
  <2>1. log \in Seq(E) /\ e \in E /\ log' = Append(log, e)
    BY <1>1, <1>2 DEF e, E
  <2>2. QED
    BY <2>1
<1>4. QED
  BY <1>3, PublishType

LEMMA StartCreateIdentifiers ==
  ASSUME PortsOK, Inv, Identifiers, NEW t \in Tasks, NEW kind, NEW ids \in SUBSET Slots,
         NEW want, StartCreate(t, kind, ids, want)
  PROVE  Identifiers'
<1> DEFINE c == [kind |-> kind, ids |-> ids, want |-> want, set |-> settings, used |-> {},
                 rel |-> NoTimes, chosen |-> NoPorts, others |-> {}, pc |-> "used"]
<1>1. /\ task' = [task EXCEPT ![t] = c] /\ c.ids = ids /\ c.pc = "used"
      /\ ids \cap born = {} /\ born' = born \cup ids /\ task[t] = None
      /\ UNCHANGED <<row, queue, log>>
  BY DEF StartCreate, Set, cloud
<1> HIDE DEF c
<1>2. task'[t] = c /\ \A u \in Tasks \ {t} : task'[u] = task[u]
  BY <1>1 DEF Inv, TypeOK
<1>3. \A s \in Slots : Absent(s)' <=> Absent(s)
  BY <1>1 DEF Absent
<1>4. \A s \in Slots : Fresh(s)' => Fresh(s)
  <2> SUFFICES ASSUME NEW s \in Slots, Fresh(s)', s \in born
               PROVE  \E u \in Tasks : Beginning(u) /\ s \in task[u].ids
    BY DEF Fresh
  <2>1. PICK u \in Tasks : Beginning(u)' /\ s \in task'[u].ids
    BY <1>1 DEF Fresh
  <2>2. u # t
    BY <1>1, <1>2, <2>1
  <2>3. QED
    BY <1>2, <2>1, <2>2 DEF Beginning
<1>5. \A u \in Tasks : task'[u] # None => task'[u].ids \subseteq born'
  BY <1>1, <1>2 DEF Identifiers
<1>6. ASSUME NEW v \in Tasks, NEW u \in Tasks, Beginning(v)', u # v, task'[u] # None
      PROVE  task'[v].ids \cap task'[u].ids = {}
  <2>1. CASE v = t \/ u = t
    BY <1>1, <1>2, <1>6, <2>1 DEF Identifiers, Beginning
  <2>2. CASE v # t /\ u # t
    BY <1>2, <1>6, <2>2 DEF Identifiers, Beginning
  <2>3. QED
    BY <2>1, <2>2
<1>7. \A s \in Slots : Fresh(s)' => Absent(s)'
  BY <1>3, <1>4 DEF Identifiers
<1>8. QED
  BY <1>5, <1>6, <1>7 DEF Identifiers

LEMMA InsertFacts ==
  ASSUME PortsOK, Inv, NEW t \in Tasks, Insert(t)
  PROVE  /\ task[t] # None /\ task[t].pc = "insert" /\ task[t].ids \subseteq Slots
         /\ \A s \in task[t].ids : task[t].chosen[s] \in Ports
         /\ \A s \in Slots : row'[s] = IF s \in task[t].ids THEN task[t].chosen[s] ELSE row[s]
         /\ task'[t].pc = "enqueue" /\ task'[t].ids = task[t].ids
         /\ \A u \in Tasks \ {t} : task'[u] # None =>
               task[u] # None /\ task'[u].ids = task[u].ids /\ task'[u].pc = task[u].pc
         /\ \A u \in Tasks : At(u, "tombstone") => task'[u] = task[u]
         /\ UNCHANGED <<born, queue, log, merge, cursor, forgotten>>
<1> DEFINE c == [task[t] EXCEPT !.chosen = NoPorts, !.others = {}, !.pc = "enqueue"]
<1>1. task[t] # None /\ task[t] \in Create /\ task[t].pc = "insert" /\ task[t].ids \subseteq Slots
  BY CreateOrDelete DEF Insert, At, Inv
<1>2. \A s \in task[t].ids : task[t].chosen[s] \in Ports
  BY <1>1 DEF Inv, Looked, LooksWell, ChoosesWell
<1>3. Chosen(t) \in SUBSET Ports
  BY <1>2 DEF Chosen
<1>4. c.pc = "enqueue" /\ c.ids = task[t].ids
  BY <1>1 DEF Create
<1>5. /\ task' = [Seen(t, Chosen(t)) EXCEPT ![t] = c]
      /\ row' = [s \in Slots |-> IF s \in task[t].ids THEN task[t].chosen[s] ELSE row[s]]
      /\ UNCHANGED <<born, queue, log, merge, cursor, forgotten>>
  BY DEF Insert, cloud
<1> HIDE DEF c
<1>6. task'[t] = c /\ \A u \in Tasks \ {t} : task'[u] = Seen(t, Chosen(t))[u]
  BY <1>5 DEF Seen
<1>7. ASSUME NEW u \in Tasks \ {t}, task'[u] # None
      PROVE  task[u] # None /\ task'[u].ids = task[u].ids /\ task'[u].pc = task[u].pc
  BY <1>3, <1>6, <1>7, SeenNarrow
<1>8. ASSUME NEW u \in Tasks, At(u, "tombstone")
      PROVE  task'[u] = task[u]
  BY <1>1, <1>3, <1>6, <1>8, SeenTask DEF At, Create, Inv
<1>9. QED
  BY <1>1, <1>2, <1>4, <1>5, <1>6, <1>7, <1>8

LEMMA InsertIdentifiers ==
  ASSUME PortsOK, Inv, Identifiers, NEW t \in Tasks, Insert(t)
  PROVE  Identifiers'
<1>1. Narrow
  BY InsertFacts DEF Narrow
<1>2. ASSUME NEW s \in Slots, Fresh(s)', Absent(s)
      PROVE  Absent(s)'
  <2>1. s \notin task[t].ids
    <3>1. CASE s \notin born
      BY <3>1, InsertFacts DEF Identifiers
    <3>2. CASE s \in born
      <4>1. PICK u \in Tasks : Beginning(u)' /\ s \in task'[u].ids
        BY <1>2, <3>2, InsertFacts DEF Fresh
      <4>2. u # t
        BY <4>1, InsertFacts DEF Beginning
      <4>3. Beginning(u) /\ s \in task[u].ids
        BY <4>1, <4>2, InsertFacts DEF Beginning
      <4>4. QED
        BY <4>2, <4>3, InsertFacts DEF Identifiers
    <3>3. QED
      BY <3>1, <3>2
  <2>2. QED
    BY <1>2, <2>1, InsertFacts DEF Absent
<1>3. QED
  BY <1>1, <1>2, InsertFacts, NarrowKeeps

(* Queueing records of a command's Slots.                                  *)
LEMMA QueueIdentifiers ==
  ASSUME PortsOK, Inv, Identifiers, NEW t \in Tasks, task[t] # None, ~Beginning(t), Set(t, None),
         UNCHANGED <<row, born, log>>, \A s \in Slots \ task[t].ids : queue'[s] = queue[s]
  PROVE  Identifiers'
<1>1. Narrow
  BY SetNarrow
<1>2. task' = [task EXCEPT ![t] = None] /\ task \in [Tasks -> Create \cup Delete \cup {None}]
  BY DEF Set, Inv, TypeOK
<1>3. ASSUME NEW s \in Slots, Fresh(s)', Absent(s)
      PROVE  Absent(s)'
  <2>1. Fresh(s)
    BY <1>2, <1>3 DEF Fresh, Beginning
  <2>2. s \notin task[t].ids
    <3>1. CASE s \notin born
      BY <3>1 DEF Identifiers
    <3>2. CASE s \in born
      BY <2>1, <3>2 DEF Fresh, Identifiers
    <3>3. QED
      BY <3>1, <3>2
  <2>3. QED
    BY <1>3, <2>2 DEF Absent
<1>4. QED
  BY <1>1, <1>3, NarrowKeeps

LEMMA DeleteIdentifiers ==
  ASSUME PortsOK, Inv, Identifiers, NEW t \in Tasks, NEW kind, NEW ids \in SUBSET Slots,
         DeleteRows(t, kind, ids)
  PROVE  Identifiers'
<1> DEFINE c == [kind |-> kind, ids |-> ids, pc |-> "tombstone"]
<1>1. /\ task' = [task EXCEPT ![t] = c] /\ c.ids = ids /\ c.pc = "tombstone" /\ task[t] = None
      /\ row' = [s \in Slots |-> IF s \in ids THEN None ELSE row[s]]
      /\ ids \subseteq bound /\ UNCHANGED <<born, queue, log>>
  BY DEF DeleteRows, Set, Release, cloud
<1> HIDE DEF c
<1>2. task'[t] = c /\ \A u \in Tasks \ {t} : task'[u] = task[u]
  BY <1>1 DEF Inv, TypeOK
<1>3. \A s \in ids : row[s] # None
  BY <1>1 DEF Inv, TypeOK
<1>4. \A u \in Tasks : Beginning(u)' => u # t /\ Beginning(u) /\ task'[u].ids = task[u].ids
  BY <1>1, <1>2 DEF Beginning
<1>5. \A s \in Slots : Fresh(s)' => Absent(s)'
  BY <1>1, <1>4 DEF Fresh, Absent, Identifiers
<1>6. \A s \in ids : ~Absent(s)
  BY <1>3 DEF Absent
<1>7. \A u \in Tasks : Beginning(u) => task[u].ids \cap ids = {}
  BY <1>6 DEF Identifiers, Fresh
<1>8. ids \subseteq born
  BY <1>6 DEF Identifiers, Fresh
<1>9. \A u \in Tasks : task'[u] # None => task'[u].ids \subseteq born'
  BY <1>1, <1>2, <1>8 DEF Identifiers
<1>10. ASSUME NEW v \in Tasks, NEW u \in Tasks, Beginning(v)', u # v, task'[u] # None
       PROVE  task'[v].ids \cap task'[u].ids = {}
  BY <1>1, <1>2, <1>4, <1>7, <1>10 DEF Identifiers
<1>11. QED
  BY <1>5, <1>9, <1>10 DEF Identifiers

(* Merging, which tells the commands at most which ports got a row.        *)
LEMMA SeenAllNarrow ==
  ASSUME PortsOK, Inv, NEW G \in SUBSET Ports, task' = Seen(None, G)
  PROVE  Narrow
<1>1. ASSUME NEW u \in Tasks, Seen(None, G)[u] # None
      PROVE  task[u] # None /\ Seen(None, G)[u].ids = task[u].ids
             /\ Seen(None, G)[u].pc = task[u].pc
  <2>1. u # None
    BY DEF PortsOK
  <2>2. QED
    BY <1>1, <2>1, SeenNarrow
<1>2. QED
  BY <1>1 DEF Narrow

LEMMA MergeIdentifiers ==
  ASSUME PortsOK, Inv, Identifiers, MergeStep
  PROVE  Identifiers'
<1>1. ASSUME UNCHANGED task
      PROVE  Narrow
  BY <1>1 DEF Narrow
<1>2. CASE MergeStart \/ MergeFails \/ MergeExisting
  BY <1>1, <1>2, NarrowKeeps DEF MergeStart, MergeFails, MergeExisting, Merging, slots, cloud,
                                 Absent
<1>3. CASE MergeRow
  <2>1. /\ merge # None /\ Event.port # Gone /\ task' = Seen(None, {Event.port})
        /\ row' = [row EXCEPT ![Event.slot] = Event.port] /\ UNCHANGED <<born, queue, log>>
    BY <1>3 DEF MergeRow, Merging
  <2>2. Narrow
    BY <2>1, MergeFacts, SeenAllNarrow
  <2>3. ASSUME NEW s \in Slots, Absent(s)
        PROVE  Absent(s)'
    <3>1. s # Event.slot
      BY <2>1, <2>3, MergeFacts, LogFacts DEF Absent, Event
    <3>2. QED
      BY <2>1, <2>3, <3>1 DEF Absent, Inv, TypeOK
  <2>4. QED
    BY <2>1, <2>2, <2>3, NarrowKeeps
<1>4. CASE MergeBinding
  BY <1>1, <1>4, NarrowKeeps DEF MergeBinding, Merging, Absent
<1>5. CASE MergeTombstone
  <2>1. merge # None /\ UNCHANGED <<task, born, queue, log>>
        /\ (UNCHANGED row \/ row' = [s \in Slots |-> IF s = Event.slot THEN None ELSE row[s]])
    BY <1>5 DEF MergeTombstone, Merging, Release, slots
  <2>2. \A s \in Slots : Absent(s) => Absent(s)'
    BY <2>1 DEF Absent
  <2>3. QED
    BY <1>1, <2>1, <2>2, NarrowKeeps
<1>6. QED
  BY <1>2, <1>3, <1>4, <1>5 DEF MergeStep

LEMMA WorldIdentifiers ==
  ASSUME PortsOK, Inv, Identifiers, NEW s \in Slots,
         OtherDeletes(s) \/ Upload(s) \/ \E p \in Ports : OtherCreates(s, p)
  PROVE  Identifiers'
<1>1. PICK p \in Ports \cup {Gone} : Publish(s, p)
  BY DEF OtherDeletes, Upload, OtherCreates, Inv, TypeOK
<1>2. /\ UNCHANGED <<task, row>> /\ born' = born \cup {s}
      /\ \A r \in Slots : queue[r] = None => queue'[r] = None
      /\ s \in born => ~Absent(s)
  <2>1. CASE OtherDeletes(s)
    <3>1. Last(s) # {} /\ UNCHANGED <<task, row, born, queue>>
      BY <2>1 DEF OtherDeletes, slots
    <3>2. ~Absent(s)
      BY <3>1, LogFacts DEF Last, Absent
    <3>3. s \in born
      BY <3>2 DEF Identifiers, Fresh
    <3>4. QED
      BY <3>1, <3>2, <3>3
  <2>2. CASE Upload(s)
    <3>1. queue[s] # None /\ UNCHANGED <<task, row, born>> /\ queue' = [queue EXCEPT ![s] = None]
      BY <2>2 DEF Upload, slots
    <3>2. ~Absent(s)
      BY <3>1 DEF Absent
    <3>3. s \in born
      BY <3>2 DEF Identifiers, Fresh
    <3>4. QED
      BY <3>1, <3>2, <3>3 DEF Inv, TypeOK
  <2>3. CASE \E q \in Ports : OtherCreates(s, q)
    BY <2>3 DEF OtherCreates
  <2>4. QED
    BY <2>1, <2>2, <2>3
<1>3. \A t \in Tasks : Beginning(t)' <=> Beginning(t)
  BY <1>2 DEF Beginning
<1>4. \A t \in Tasks : Beginning(t) => s \notin task[t].ids
  BY <1>2 DEF Identifiers, Fresh, Beginning
<1>5. ASSUME NEW r \in Slots, Fresh(r)'
      PROVE  Absent(r)'
  <2>1. Fresh(r) /\ r # s
    BY <1>2, <1>3, <1>4, <1>5 DEF Fresh
  <2>2. Absent(r)
    BY <2>1 DEF Identifiers
  <2>3. \A i \in 1 .. Len(log') : log'[i].slot # r
    <3> SUFFICES ASSUME NEW i \in 1 .. Len(log')
                 PROVE  log'[i].slot # r
      OBVIOUS
    <3>1. i \in 1 .. Len(log) \/ i = Len(log) + 1
      BY <1>1, PublishFacts, LogFacts
    <3>2. QED
      BY <1>1, <2>1, <2>2, <3>1, PublishFacts DEF Absent
  <2>4. QED
    BY <1>2, <2>2, <2>3 DEF Absent
<1>6. QED
  BY <1>2, <1>3, <1>5 DEF Identifiers

LEMMA IdentifiersNext ==
  ASSUME PortsOK, Inv, Identifiers, [Next]_vars
  PROVE  Identifiers'
<1>1. ASSUME UNCHANGED <<row, queue, log, born, task>>
      PROVE  Identifiers'
  <2>1. Narrow
    BY <1>1 DEF Narrow
  <2>2. QED
    BY <1>1, <2>1, NarrowKeeps DEF Absent
<1>2. ASSUME NEW t \in Tasks, NEW c, Set(t, c), UNCHANGED <<row, queue, log, born>>,
             c # None =>
               /\ task[t] # None /\ c.ids = task[t].ids
               /\ c.pc \in {"used", "cooldowns", "allocate", "insert"} =>
                      task[t].pc \in {"used", "cooldowns", "allocate", "insert"}
      PROVE  Identifiers'
  BY <1>2, SetNarrow, NarrowKeeps DEF Absent
<1>3. ASSUME NEW t \in Tasks, ReadPorts(t)
      PROVE  Identifiers'
  <2>1. task[t] # None /\ task[t] \in Create /\ UNCHANGED <<row, queue, log, born>>
    BY <1>3, CreateOrDelete DEF ReadPorts, Reading, At, Inv, slots, cloud
  <2>2. \/ Set(t, [task[t] EXCEPT !.used = PortsOfRows, !.others = {}, !.pc = "cooldowns"])
           /\ task[t].pc = "used"
        \/ Set(t, [task[t] EXCEPT !.rel = released, !.pc = "allocate"])
           /\ task[t].pc = "cooldowns"
    BY <1>3 DEF ReadPorts, At
  <2>3. PICK c : /\ c.ids = task[t].ids /\ Set(t, c)
                 /\ task[t].pc \in {"used", "cooldowns", "allocate", "insert"}
    BY <2>1, <2>2 DEF Create
  <2>4. QED
    BY <1>2, <2>1, <2>3
<1>4. ASSUME NEW t \in Tasks, Allocate(t)
      PROVE  Identifiers'
  <2>1. task[t] # None /\ task[t] \in Create /\ task[t].pc = "allocate"
        /\ UNCHANGED <<row, queue, log, born>>
    BY <1>4, CreateOrDelete DEF Allocate, Reading, At, Inv, slots, cloud
  <2>2. CASE Set(t, None)
    BY <1>2, <2>1, <2>2
  <2>3. ASSUME NEW f \in Choices(task[t]),
               Set(t, [task[t] EXCEPT !.chosen = [s \in Slots |->
                                                    IF s \in task[t].ids THEN f[s] ELSE None],
                                      !.want = None, !.used = {}, !.rel = NoTimes, !.pc = "insert"])
        PROVE  Identifiers'
    <3>1. PICK c : c.ids = task[t].ids /\ Set(t, c)
      BY <2>1, <2>3 DEF Create
    <3>2. QED
      BY <1>2, <2>1, <3>1
  <2>4. QED
    BY <1>4, <2>2, <2>3 DEF Allocate
<1>5. ASSUME NEW t \in Tasks, InsertFails(t) \/ RebuildFails(t)
      PROVE  Identifiers'
  BY <1>2, <1>5 DEF InsertFails, RebuildFails, Reading, slots, cloud
<1>6. ASSUME NEW t \in Tasks, EnqueueSlots(t) \/ EnqueueTombstones(t)
      PROVE  Identifiers'
  BY <1>6, QueueIdentifiers DEF EnqueueSlots, EnqueueTombstones, At, Beginning, slots
<1>7. ASSUME NEW t \in Tasks, TaskStep(t)
      PROVE  Identifiers'
  BY <1>3, <1>4, <1>5, <1>6, <1>7, InsertIdentifiers DEF TaskStep
<1>8. CASE (\E v \in Settings : UpdateSettings(v)) \/ Tick \/ UNCHANGED vars
  BY <1>1, <1>8 DEF UpdateSettings, Tick, vars, slots, cloud
<1>9. CASE Restart
  <2>1. Narrow /\ UNCHANGED <<row, queue, log, born>>
    BY <1>9 DEF Restart, Narrow, slots, cloud
  <2>2. QED
    BY <2>1, NarrowKeeps DEF Absent
<1>10. QED
  BY <1>7, <1>8, <1>9, StartCreateIdentifiers, DeleteIdentifiers, MergeIdentifiers,
     WorldIdentifiers DEF Next

-----------------------------------------------------------------------------
(* A Slot never has two ports, wherever it is written down.                *)
HasPort(s, p) ==
    /\ row[s] \in {None, p} /\ queue[s] \in {None, Gone, p}
    /\ \A i \in 1 .. Len(log) : log[i].slot = s => log[i].port \in {p, Gone}

OnePort == \A s \in Slots : \E p \in Ports : HasPort(s, p)

(* Nothing follows a Slot's tombstone.                                     *)
GoneIsLast ==
    \A i, j \in 1 .. Len(log) : log[i].slot = log[j].slot /\ log[i].port = Gone => j <= i

LEMMA OnePortNext ==
  ASSUME PortsOK, Inv, Identifiers, OnePort, [Next]_vars
  PROVE  OnePort'
<1>1. ASSUME \A s \in Slots, p \in Ports : HasPort(s, p) => HasPort(s, p)'
      PROVE  OnePort'
  BY <1>1, Zenon DEF OnePort
<1>2. ASSUME UNCHANGED <<queue, log>>, \A s \in Slots : row'[s] \in {None, row[s]}
      PROVE  OnePort'
  BY <1>1, <1>2 DEF HasPort
<1>3. ASSUME UNCHANGED <<row, log>>, \A s \in Slots : queue'[s] \in {None, Gone, row[s], queue[s]}
      PROVE  OnePort'
  BY <1>1, <1>3 DEF HasPort
<1>4. ASSUME NEW t \in Tasks, Insert(t)
      PROVE  OnePort'
  <2>1. Beginning(t) /\ task[t].ids \subseteq Slots
    BY <1>4, InsertFacts DEF Beginning
  <2>2. ASSUME NEW s \in Slots
        PROVE  \E p \in Ports : HasPort(s, p)'
    <3>1. CASE s \in task[t].ids
      <4>1. Absent(s)
        BY <2>1, <3>1 DEF Identifiers, Fresh
      <4>2. PICK p \in Ports : p = task[t].chosen[s]
        BY <1>4, <3>1, InsertFacts
      <4>3. HasPort(s, p)'
        BY <1>4, <3>1, <4>1, <4>2, InsertFacts DEF HasPort, Absent
      <4>4. QED
        BY <4>3
    <3>2. CASE s \notin task[t].ids
      <4>1. PICK p \in Ports : HasPort(s, p)
        BY DEF OnePort
      <4>2. HasPort(s, p)'
        BY <1>4, <3>2, <4>1, InsertFacts DEF HasPort
      <4>3. QED
        BY <4>2
    <3>3. QED
      BY <3>1, <3>2
  <2>3. QED
    BY <2>2 DEF OnePort
<1>5. ASSUME NEW t \in Tasks, TaskStep(t)
      PROVE  OnePort'
  <2>1. CASE ReadPorts(t) \/ Allocate(t) \/ InsertFails(t) \/ RebuildFails(t)
    BY <1>2, <2>1 DEF ReadPorts, Allocate, InsertFails, RebuildFails, Reading, slots, cloud
  <2>2. CASE EnqueueSlots(t) \/ EnqueueTombstones(t)
    BY <1>3, <2>2 DEF EnqueueSlots, EnqueueTombstones, slots
  <2>3. QED
    BY <1>4, <1>5, <2>1, <2>2 DEF TaskStep
<1>6. CASE \/ \E t \in Tasks, kind \in {"create", "batch_create"}, ids \in SUBSET Slots,
                want \in Ports \cup {None} : StartCreate(t, kind, ids, want)
           \/ \E v \in Settings : UpdateSettings(v)
           \/ Tick \/ Restart \/ UNCHANGED vars
  BY <1>2, <1>6 DEF StartCreate, UpdateSettings, Tick, Restart, vars, slots, cloud
<1>7. ASSUME NEW t \in Tasks, NEW kind, NEW ids \in SUBSET Slots, DeleteRows(t, kind, ids)
      PROVE  OnePort'
  BY <1>2, <1>7 DEF DeleteRows, Release, cloud
<1>8. CASE MergeStart \/ MergeFails \/ MergeExisting \/ MergeBinding \/ MergeTombstone
  BY <1>2, <1>8 DEF MergeStart, MergeFails, MergeExisting, MergeBinding, MergeTombstone, Merging,
                    Release, slots, cloud
<1>9. CASE MergeRow
  <2>1. /\ merge # None /\ Event.port # Gone
        /\ row' = [row EXCEPT ![Event.slot] = Event.port] /\ UNCHANGED <<queue, log>>
    BY <1>9 DEF MergeRow, Merging
  <2>2. ASSUME NEW s \in Slots, NEW p \in Ports, HasPort(s, p)
        PROVE  HasPort(s, p)'
    <3>1. row'[s] \in {row[s], p}
      BY <2>1, <2>2, MergeFacts, LogFacts DEF HasPort, Event, Inv, TypeOK
    <3>2. QED
      BY <2>1, <2>2, <3>1 DEF HasPort
  <2>3. QED
    BY <1>1, <2>2
<1>10. ASSUME NEW s \in Slots, OtherDeletes(s) \/ Upload(s) \/ \E p \in Ports : OtherCreates(s, p)
       PROVE  OnePort'
  <2>1. /\ UNCHANGED row /\ \A r \in Slots : queue'[r] \in {None, queue[r]}
        /\ \E p \in Ports \cup {Gone} : Publish(s, p) /\ (s \notin born \/ p \in {Gone, queue[s]})
    BY <1>10 DEF OtherDeletes, Upload, OtherCreates, Inv, TypeOK, slots
  <2>2. PICK p \in Ports \cup {Gone} : Publish(s, p) /\ (s \notin born \/ p \in {Gone, queue[s]})
    BY <2>1
  <2>3. ASSUME NEW r \in Slots, NEW q \in Ports, HasPort(r, q), r = s => p \in {Gone, q}
        PROVE  HasPort(r, q)'
    <3>1. ASSUME NEW i \in 1 .. Len(log'), log'[i].slot = r
          PROVE  log'[i].port \in {q, Gone}
      <4>1. i \in 1 .. Len(log) \/ i = Len(log) + 1
        BY <2>2, PublishFacts, LogFacts
      <4>2. QED
        BY <2>2, <2>3, <3>1, <4>1, PublishFacts DEF HasPort
    <3>2. QED
      BY <2>1, <2>3, <3>1 DEF HasPort
  <2>4. ASSUME NEW r \in Slots
        PROVE  \E q \in Ports : HasPort(r, q)'
    <3>1. PICK q \in Ports : HasPort(r, q)
      BY DEF OnePort
    <3>2. CASE r = s => p \in {Gone, q}
      BY <2>3, <3>1, <3>2
    <3>3. CASE r = s /\ p \notin {Gone, q}
      <4>1. s \notin born
        BY <2>2, <3>1, <3>3 DEF HasPort, PortsOK
      <4>2. Absent(s)
        BY <4>1 DEF Identifiers, Fresh
      <4>3. p \in Ports /\ HasPort(r, p)
        BY <3>3, <4>2 DEF Absent, HasPort
      <4>4. QED
        BY <2>3, <4>3
    <3>4. QED
      BY <3>2, <3>3
  <2>5. QED
    BY <2>4 DEF OnePort
<1>11. QED
  BY <1>5, <1>6, <1>7, <1>8, <1>9, <1>10 DEF Next, MergeStep

LEMMA LastFacts ==
  ASSUME PortsOK, Inv, NEW s \in Slots, NEW i
  PROVE  i \in Last(s) <=> /\ i \in 1 .. Len(log) /\ log[i].slot = s
                           /\ \A j \in i + 1 .. Len(log) : log[j].slot # s
BY LogFacts DEF Last

LEMMA GoneIsLastNext ==
  ASSUME PortsOK, Inv, Identifiers, GoneIsLast, [Next]_vars
  PROVE  GoneIsLast'
<1>1. ASSUME UNCHANGED log
      PROVE  GoneIsLast'
  BY <1>1 DEF GoneIsLast
<1>2. ASSUME NEW s \in Slots, OtherDeletes(s) \/ Upload(s) \/ \E p \in Ports : OtherCreates(s, p)
      PROVE  GoneIsLast'
  <2>1. PICK p \in Ports \cup {Gone} : Publish(s, p)
    BY <1>2 DEF OtherDeletes, Upload, OtherCreates, Inv, TypeOK
  <2>2. ASSUME NEW i \in 1 .. Len(log), log[i].slot = s, log[i].port = Gone
        PROVE  FALSE
    <3>1. CASE s \notin born
      BY <2>2, <3>1 DEF Identifiers, Fresh, Absent
    <3>2. CASE ~IsGone(s)
      <4>1. \A j \in i + 1 .. Len(log) : log[j].slot # s
        BY <2>2, LogFacts DEF GoneIsLast
      <4>2. i \in Last(s)
        BY <2>2, <4>1, LastFacts
      <4>3. QED
        BY <2>2, <3>2, <4>2 DEF IsGone
    <3>3. QED
      BY <1>2, <3>1, <3>2 DEF OtherDeletes, Upload, OtherCreates
  <2>3. SUFFICES ASSUME NEW i \in 1 .. Len(log'), NEW j \in 1 .. Len(log'),
                        log'[i].slot = log'[j].slot, log'[i].port = Gone, i < j
                 PROVE  FALSE
    BY <2>1, PublishFacts, LogFacts DEF GoneIsLast
  <2>4. i \in 1 .. Len(log) /\ (j \in 1 .. Len(log) \/ j = Len(log) + 1)
    BY <2>1, <2>3, PublishFacts, LogFacts
  <2>5. log[i].port = Gone /\ log'[i] = log[i]
    BY <2>1, <2>3, <2>4, PublishFacts
  <2>6. CASE j \in 1 .. Len(log)
    BY <2>1, <2>3, <2>4, <2>5, <2>6, PublishFacts, LogFacts DEF GoneIsLast
  <2>7. CASE j = Len(log) + 1
    BY <2>1, <2>2, <2>3, <2>4, <2>5, <2>7, PublishFacts
  <2>8. QED
    BY <2>4, <2>6, <2>7
<1>3. ASSUME NEW t \in Tasks, TaskStep(t)
      PROVE  UNCHANGED log
  BY <1>3 DEF TaskStep, ReadPorts, Allocate, Insert, InsertFails, EnqueueSlots, RebuildFails,
              EnqueueTombstones, Reading, cloud
<1>4. MergeStep => UNCHANGED log
  BY DEF MergeStep, MergeStart, MergeExisting, MergeRow, MergeBinding, MergeTombstone, MergeFails,
         Merging, cloud
<1>5. CASE \/ \E t \in Tasks, kind \in {"create", "batch_create"}, ids \in SUBSET Slots,
                want \in Ports \cup {None} : StartCreate(t, kind, ids, want)
           \/ \E t \in Tasks, kind \in {"delete", "batch_delete"}, ids \in SUBSET Slots :
                DeleteRows(t, kind, ids)
           \/ \E v \in Settings : UpdateSettings(v)
           \/ Tick \/ Restart \/ UNCHANGED vars
  BY <1>1, <1>5 DEF StartCreate, DeleteRows, UpdateSettings, Tick, Restart, vars, cloud
<1>6. QED
  BY <1>1, <1>2, <1>3, <1>4, <1>5 DEF Next

-----------------------------------------------------------------------------
(* Between its two looks at a Slot a merge is not misled: what it writes a  *)
(* binding for exists in the cloud, and a tombstone for which it found no   *)
(* row still finds none.                                                   *)
InStep ==
    merge # None =>
        /\ merge.pc = "binding" => Event.port # Gone
        /\ merge.pc = "row" /\ Event.port = Gone /\ merge.existing = None =>
              row[Event.slot] = None

LEMMA OnwardInStep ==
  ASSUME PortsOK, Inv, merge # None, Onward
  PROVE  InStep'
<1>1. CASE merge.at = merge.upto
  BY <1>1 DEF Onward, InStep
<1>2. CASE merge.at # merge.upto
  BY <1>2, MergeFacts DEF Onward, InStep, Merge
<1>3. QED
  BY <1>1, <1>2

LEMMA InStepNext ==
  ASSUME PortsOK, Inv, Identifiers, Unpassed, GoneIsLast, InStep, [Next]_vars
  PROVE  InStep'
<1>1. ASSUME UNCHANGED <<merge, log>>,
             merge # None => row'[Event.slot] \in {None, row[Event.slot]}
      PROVE  InStep'
  <2>1. Event' = Event
    BY <1>1 DEF Event
  <2>2. QED
    BY <1>1, <2>1 DEF InStep
<1>2. ASSUME NEW t \in Tasks, Insert(t)
      PROVE  InStep'
  <2>1. Beginning(t)
    BY <1>2, InsertFacts DEF Beginning
  <2>2. ASSUME merge # None
        PROVE  row'[Event.slot] = row[Event.slot]
    <3>1. Event.slot \in Slots /\ ~Absent(Event.slot)
      BY <2>2, MergeFacts, LogFacts DEF Absent, Event
    <3>2. Event.slot \notin task[t].ids
      BY <2>1, <3>1 DEF Identifiers, Fresh
    <3>3. QED
      BY <1>2, <3>1, <3>2, InsertFacts
  <2>3. QED
    BY <1>1, <1>2, <2>2, InsertFacts
<1>3. ASSUME NEW t \in Tasks, TaskStep(t)
      PROVE  InStep'
  <2>1. CASE \/ ReadPorts(t) \/ Allocate(t) \/ InsertFails(t) \/ RebuildFails(t)
             \/ EnqueueSlots(t) \/ EnqueueTombstones(t)
    BY <1>1, <2>1 DEF ReadPorts, Allocate, InsertFails, RebuildFails, EnqueueSlots,
                      EnqueueTombstones, Reading, slots, cloud
  <2>2. QED
    BY <1>2, <1>3, <2>1 DEF TaskStep
<1>4. CASE \/ \E t \in Tasks, kind \in {"create", "batch_create"}, ids \in SUBSET Slots,
                want \in Ports \cup {None} : StartCreate(t, kind, ids, want)
           \/ \E v \in Settings : UpdateSettings(v)
           \/ Tick \/ UNCHANGED vars
  BY <1>1, <1>4 DEF StartCreate, UpdateSettings, Tick, vars, slots, cloud
<1>5. ASSUME NEW t \in Tasks, NEW kind, NEW ids \in SUBSET Slots, DeleteRows(t, kind, ids)
      PROVE  InStep'
  BY <1>1, <1>5, MergeFacts DEF DeleteRows, Release, cloud
<1>6. CASE MergeStart
  <2>1. merge' = [at |-> cursor + 1, upto |-> Len(log), existing |-> None, pc |-> "existing"]
    BY <1>6 DEF MergeStart
  <2>2. merge'.pc = "existing"
    BY <2>1
  <2>3. QED
    BY <2>2 DEF InStep
<1>7. CASE MergeFails \/ Restart
  BY <1>7 DEF MergeFails, Restart, InStep
<1>8. CASE MergeExisting
  <2>1. /\ merge # None /\ merge' = [merge EXCEPT !.existing = Existing[Event.slot], !.pc = "row"]
        /\ UNCHANGED <<row, log>>
    BY <1>8 DEF MergeExisting, Merging, slots
  <2>2. /\ merge'.at = merge.at /\ merge'.pc = "row" /\ merge'.existing = Existing[Event.slot]
        /\ Event' = Event
    BY <2>1, MergeFacts DEF Merge, Event
  <2>3. ASSUME Event.port = Gone, Existing[Event.slot] = None, row[Event.slot] # None
        PROVE  FALSE
    <3>1. Event.slot \in Slots /\ Event.slot \notin bound /\ row[Event.slot] # Gone
      BY <2>1, <2>3, MergeFacts DEF Existing, Inv, TypeOK, PortsOK
    <3>2. PICK i \in Ahead .. Len(log) : log[i].slot = Event.slot /\ log[i].port = row[Event.slot]
      BY <2>3, <3>1 DEF Unpassed
    <3>3. Ahead = merge.at /\ merge.at \in 1 .. Len(log) /\ i \in 1 .. Len(log) /\ merge.at <= i
      BY <2>1, <3>2, MergeFacts, LogFacts DEF Ahead
    <3>4. i <= merge.at
      BY <2>3, <3>2, <3>3 DEF GoneIsLast, Event
    <3>5. i = merge.at
      BY <3>3, <3>4
    <3>6. QED
      BY <2>3, <3>1, <3>2, <3>5 DEF Event
  <2>4. QED
    BY <2>1, <2>2, <2>3 DEF InStep
<1>9. CASE MergeRow
  <2>1. /\ merge # None /\ merge' = [merge EXCEPT !.existing = None, !.pc = "binding"]
        /\ Event.port # Gone /\ UNCHANGED log
    BY <1>9 DEF MergeRow, Merging, Go
  <2>2. merge'.at = merge.at /\ merge'.pc = "binding"
    BY <2>1, MergeFacts DEF Merge
  <2>3. QED
    BY <2>1, <2>2 DEF InStep, Event
<1>10. CASE MergeBinding \/ MergeTombstone
  BY <1>10, OnwardInStep DEF MergeBinding, MergeTombstone, Merging
<1>11. ASSUME NEW s \in Slots, OtherDeletes(s) \/ Upload(s) \/ \E p \in Ports : OtherCreates(s, p)
       PROVE  InStep'
  <2>1. PICK p \in Ports \cup {Gone} : Publish(s, p)
    BY <1>11 DEF OtherDeletes, Upload, OtherCreates, Inv, TypeOK
  <2>2. UNCHANGED <<row, merge>>
    BY <1>11 DEF OtherDeletes, Upload, OtherCreates, slots
  <2>3. ASSUME merge # None
        PROVE  Event' = Event
    BY <2>1, <2>2, <2>3, MergeFacts, PublishFacts DEF Event
  <2>4. QED
    BY <2>2, <2>3 DEF InStep
<1>12. QED
  BY <1>3, <1>4, <1>5, <1>6, <1>7, <1>8, <1>9, <1>10, <1>11 DEF Next, MergeStep

-----------------------------------------------------------------------------
(* Of a Slot whose last event the merge has passed, nothing of it queued   *)
(* nor a deletion of it under way or lost, the row is what the event says.  *)
AppliedTo(s) ==
    \A i \in Last(s) : i < Ahead => row[s] = IF log[i].port = Gone THEN None ELSE log[i].port

Applied == \A s \in Slots \ (forgotten \cup Untold) : queue[s] = None => AppliedTo(s)

(* A Slot's deletions stay known until they are queued.                    *)
LEMMA AppliedKeeps ==
  ASSUME PortsOK, Inv, Inv', Applied, UNCHANGED log, Ahead' <= Ahead,
         \A s \in Slots : queue'[s] = None /\ s \notin forgotten' \cup Untold' =>
             /\ queue[s] = None /\ s \notin forgotten \cup Untold
             /\ row'[s] = row[s] \/ Last(s) = {}
  PROVE  Applied'
<1> SUFFICES ASSUME NEW s \in Slots, queue'[s] = None, s \notin forgotten' \cup Untold'
             PROVE  AppliedTo(s)'
  BY DEF Applied
<1>1. Last(s)' = Last(s)
  BY DEF Last
<1>2. AppliedTo(s)
  BY DEF Applied
<1>3. \A i \in Last(s) : i \in Nat
  BY LastFacts, LogFacts
<1>4. Ahead \in Nat /\ Ahead' \in Nat
  BY AheadFacts, AheadNext
<1>5. \A i \in Last(s) : i < Ahead' => i < Ahead
  BY <1>3, <1>4
<1>6. QED
  BY <1>1, <1>2, <1>5 DEF AppliedTo

(* Onward passes the event, whose Slot is then as it says.                 *)
LEMMA AppliedOnward ==
  ASSUME PortsOK, Inv, Inv', Applied, merge # None, Onward,
         UNCHANGED <<log, queue, forgotten, task>>,
         \A s \in Slots \ {Event.slot} : row'[s] = row[s],
         row'[Event.slot] = IF Event.port = Gone THEN None ELSE Event.port
  PROVE  Applied'
<1> SUFFICES ASSUME NEW s \in Slots, queue'[s] = None, s \notin forgotten' \cup Untold',
                    NEW i \in Last(s), i < Ahead'
             PROVE  row'[s] = IF log[i].port = Gone THEN None ELSE log[i].port
  <2>1. \A s : Last(s)' = Last(s)
    BY DEF Last
  <2>2. QED
    BY <2>1 DEF Applied, AppliedTo
<1>1. /\ i \in 1 .. Len(log) /\ log[i].slot = s /\ Ahead' \in Nat /\ Ahead' <= merge.at + 1
      /\ \A j \in i + 1 .. Len(log) : log[j].slot # s
      /\ merge.at \in 1 .. Len(log) /\ Len(log) \in Nat
  BY LastFacts, LogFacts, AheadNext, OnwardKeeps, MergeFacts
<1>2. i <= merge.at
  BY <1>1
<1>3. CASE i = merge.at
  BY <1>1, <1>3 DEF Event
<1>4. CASE i < merge.at
  <2>1. s # Event.slot
    BY <1>1, <1>4 DEF Event
  <2>2. queue[s] = None /\ s \notin forgotten \cup Untold
    BY DEF Untold, At
  <2>3. Ahead = merge.at
    BY DEF Ahead
  <2>4. row[s] = IF log[i].port = Gone THEN None ELSE log[i].port
    BY <1>4, <2>2, <2>3 DEF Applied, AppliedTo
  <2>5. QED
    BY <2>1, <2>4
<1>5. QED
  BY <1>1, <1>2, <1>3, <1>4

(* A deletion that is not queued yet is not lost sight of.                 *)
LEMMA UntoldKeeps ==
  ASSUME \A u \in Tasks : At(u, "tombstone") => task'[u] = task[u]
  PROVE  Untold \subseteq Untold'
<1>1. \A u \in Tasks : At(u, "tombstone") => At(u, "tombstone")' /\ task'[u].ids = task[u].ids
  BY DEF At
<1>2. QED
  BY <1>1 DEF Untold

LEMMA AppliedTask ==
  ASSUME PortsOK, Inv, Inv', Identifiers, Applied, NEW t \in Tasks, TaskStep(t)
  PROVE  Applied'
<1>1. UNCHANGED <<log, merge, cursor>>
  BY DEF TaskStep, ReadPorts, Allocate, Insert, InsertFails, EnqueueSlots, RebuildFails,
         EnqueueTombstones, Reading, cloud
<1>2. Ahead' <= Ahead
  BY <1>1, AheadFacts DEF Ahead
<1>3. ASSUME ~At(t, "tombstone"), \E c : Set(t, c)
      PROVE  Untold \subseteq Untold'
  <2>1. \A u \in Tasks \ {t} : task'[u] = task[u]
    BY <1>3 DEF Set, Inv, TypeOK
  <2>2. QED
    BY <1>3, <2>1, UntoldKeeps
<1>4. CASE ReadPorts(t) \/ Allocate(t) \/ InsertFails(t)
  <2>1. ~At(t, "tombstone") /\ \E c : Set(t, c)
    BY <1>4 DEF ReadPorts, Allocate, InsertFails, At
  <2>2. UNCHANGED <<row, queue, forgotten>>
    BY <1>4 DEF ReadPorts, Allocate, InsertFails, Reading, slots, cloud
  <2>3. QED
    BY <1>1, <1>2, <1>3, <2>1, <2>2, AppliedKeeps
<1>5. CASE Insert(t)
  <2>1. Untold \subseteq Untold'
    BY <1>5, InsertFacts, UntoldKeeps
  <2>2. Beginning(t)
    BY <1>5, InsertFacts DEF Beginning
  <2>3. ASSUME NEW s \in Slots, s \in task[t].ids
        PROVE  Last(s) = {}
    <3>1. Absent(s)
      BY <2>2, <2>3 DEF Identifiers, Fresh
    <3>2. QED
      BY <3>1, LastFacts DEF Absent
  <2>4. QED
    BY <1>1, <1>2, <1>5, <2>1, <2>3, InsertFacts, AppliedKeeps
<1>6. CASE EnqueueSlots(t)
  <2>1. ~At(t, "tombstone") /\ \E c : Set(t, c)
    BY <1>6 DEF EnqueueSlots, At
  <2>2. \A s \in Slots : queue'[s] = None => queue[s] = None
    BY <1>6 DEF EnqueueSlots, Inv, TypeOK
  <2>3. UNCHANGED <<row, forgotten>>
    BY <1>6 DEF EnqueueSlots, slots
  <2>4. QED
    BY <1>1, <1>2, <1>3, <2>1, <2>2, <2>3, AppliedKeeps
<1>7. CASE RebuildFails(t) \/ EnqueueTombstones(t)
  <2>1. At(t, "tombstone") /\ \A u \in Tasks \ {t} : task'[u] = task[u]
    BY <1>7 DEF RebuildFails, EnqueueTombstones, Set, Inv, TypeOK
  <2>2. ASSUME NEW s \in Untold, s \notin Untold'
        PROVE  s \in task[t].ids
    <3>1. PICK u \in Tasks : At(u, "tombstone") /\ s \in task[u].ids
      BY <2>2 DEF Untold
    <3>2. CASE u # t
      <4>1. At(u, "tombstone")' /\ s \in task'[u].ids
        BY <2>1, <3>1, <3>2 DEF At
      <4>2. QED
        BY <2>2, <4>1 DEF Untold
    <3>3. QED
      BY <3>1, <3>2
  <2>3. UNCHANGED row
    BY <1>7 DEF RebuildFails, EnqueueTombstones, slots
  <2>4. ASSUME NEW s \in Slots, queue'[s] = None, s \notin forgotten' \cup Untold'
        PROVE  queue[s] = None /\ s \notin forgotten \cup Untold
    <3>1. CASE RebuildFails(t)
      <4>1. forgotten' = forgotten \cup task[t].ids /\ UNCHANGED queue
        BY <3>1 DEF RebuildFails, cloud
      <4>2. QED
        BY <2>2, <2>4, <4>1
    <3>2. CASE EnqueueTombstones(t)
      <4>1. /\ UNCHANGED forgotten
            /\ queue' = [r \in Slots |-> IF r \in task[t].ids THEN Gone ELSE queue[r]]
        BY <3>2 DEF EnqueueTombstones
      <4>2. s \notin task[t].ids
        BY <2>4, <4>1 DEF PortsOK
      <4>3. QED
        BY <2>2, <2>4, <4>1, <4>2
    <3>3. QED
      BY <1>7, <3>1, <3>2
  <2>5. QED
    BY <1>1, <1>2, <2>3, <2>4, AppliedKeeps
<1>8. QED
  BY <1>4, <1>5, <1>6, <1>7 DEF TaskStep

LEMMA AppliedMerge ==
  ASSUME PortsOK, Inv, Inv', OnePort, InStep, Applied, MergeStep
  PROVE  Applied'
<1>1. CASE MergeStart \/ MergeFails \/ MergeExisting
  <2>1. UNCHANGED <<row, queue, task, log, cursor, forgotten>>
    BY <1>1 DEF MergeStart, MergeFails, MergeExisting, Merging, slots, cloud
  <2>2. Untold' = Untold
    BY <2>1 DEF Untold, At
  <2>3. Ahead' <= Ahead
    <3>1. CASE MergeStart
      BY <3>1, AheadFacts DEF MergeStart, Ahead, cloud
    <3>2. CASE MergeFails
      BY <2>1, <3>2, AheadFacts DEF MergeFails, Ahead
    <3>3. CASE MergeExisting
      <4>1. merge # None /\ merge' = [merge EXCEPT !.existing = Existing[Event.slot], !.pc = "row"]
        BY <3>3 DEF MergeExisting, Merging
      <4>2. merge'.at = merge.at
        BY <4>1, MergeFacts DEF Merge
      <4>3. QED
        BY <2>1, <4>1, <4>2, MergeFacts DEF Ahead
    <3>4. QED
      BY <1>1, <3>1, <3>2, <3>3
  <2>4. QED
    BY <2>1, <2>2, <2>3, AppliedKeeps
<1>2. CASE MergeRow
  <2>1. /\ merge # None /\ merge' = [merge EXCEPT !.existing = None, !.pc = "binding"]
        /\ Event.port # Gone /\ task' = Seen(None, {Event.port})
        /\ row' = [row EXCEPT ![Event.slot] = Event.port]
        /\ UNCHANGED <<queue, log, forgotten, cursor>>
    BY <1>2 DEF MergeRow, Merging, Go
  <2>2. merge'.at = merge.at /\ merge.at \in 1 .. Len(log) /\ Event.slot \in Slots
        /\ Event.port \in Ports
    BY <2>1, MergeFacts, LogFacts DEF Merge
  <2>3. Untold \subseteq Untold'
    <3>1. ASSUME NEW u \in Tasks, At(u, "tombstone")
          PROVE  task'[u] = task[u]
      <4>1. u # None
        BY DEF PortsOK
      <4>2. QED
        BY <2>1, <2>2, <3>1, <4>1, SeenTask DEF At, Create, Inv
    <3>2. QED
      BY <3>1, UntoldKeeps
  <2>4. Ahead' <= Ahead /\ Ahead' <= merge.at
    BY <2>1, <2>2, MergeFacts DEF Ahead
  <2>5. SUFFICES ASSUME NEW s \in Slots, queue'[s] = None, s \notin forgotten' \cup Untold',
                        NEW i \in Last(s), i < Ahead'
                 PROVE  row'[s] = IF log[i].port = Gone THEN None ELSE log[i].port
    <3>1. \A s : Last(s)' = Last(s)
      BY <2>1 DEF Last
    <3>2. QED
      BY <2>1, <3>1 DEF Applied, AppliedTo
  <2>6. /\ i \in 1 .. Len(log) /\ log[i].slot = s /\ Ahead' \in Nat /\ Ahead \in Nat
        /\ \A j \in i + 1 .. Len(log) : log[j].slot # s
        /\ merge.at \in 1 .. Len(log) /\ Len(log) \in Nat
    BY <2>2, LastFacts, LogFacts, AheadNext, AheadFacts
  <2>7. i < merge.at /\ i < Ahead
    BY <2>4, <2>5, <2>6
  <2>8. s # Event.slot
    BY <2>6, <2>7 DEF Event
  <2>9. row'[s] = row[s]
    BY <2>1, <2>8 DEF Inv, TypeOK
  <2>10. QED
    BY <2>1, <2>3, <2>5, <2>7, <2>9 DEF Applied, AppliedTo
<1>3. CASE MergeBinding
  <2>1. /\ merge # None /\ merge.pc = "binding" /\ row[Event.slot] # None /\ Onward
        /\ UNCHANGED <<row, log, queue, forgotten, task>>
    BY <1>3 DEF MergeBinding, Merging
  <2>2. Event.slot \in Slots /\ Event.port \in Ports /\ Event = log[merge.at]
        /\ merge.at \in 1 .. Len(log)
    BY <2>1, MergeFacts, LogFacts DEF InStep, Event
  <2>3. PICK p \in Ports : HasPort(Event.slot, p)
    BY <2>2 DEF OnePort
  <2>4. row[Event.slot] = Event.port
    BY <2>1, <2>2, <2>3 DEF HasPort, PortsOK
  <2>5. QED
    BY <2>1, <2>2, <2>4, AppliedOnward DEF PortsOK
<1>4. CASE MergeTombstone
  <2>1. /\ merge # None /\ merge.pc = "row" /\ Event.port = Gone /\ Onward
        /\ UNCHANGED <<log, queue, forgotten, task>>
        /\ IF merge.existing = None THEN UNCHANGED row
           ELSE row' = [s \in Slots |-> IF s \in {Event.slot} THEN None ELSE row[s]]
    BY <1>4 DEF MergeTombstone, Merging, Release, slots
  <2>2. Event.slot \in Slots
    BY <2>1, MergeFacts
  <2>3. row'[Event.slot] = None /\ \A s \in Slots \ {Event.slot} : row'[s] = row[s]
    BY <2>1, <2>2 DEF InStep
  <2>4. QED
    BY <2>1, <2>3, AppliedOnward
<1>5. QED
  BY <1>1, <1>2, <1>3, <1>4 DEF MergeStep

LEMMA AppliedWorld ==
  ASSUME PortsOK, Inv, Inv', Applied, NEW s \in Slots,
         OtherDeletes(s) \/ Upload(s) \/ \E p \in Ports : OtherCreates(s, p)
  PROVE  Applied'
<1>1. PICK p \in Ports \cup {Gone} : Publish(s, p)
  BY DEF OtherDeletes, Upload, OtherCreates, Inv, TypeOK
<1>2. /\ UNCHANGED <<row, task, merge, cursor, forgotten>>
      /\ \A r \in Slots \ {s} : queue'[r] = queue[r]
  BY DEF OtherDeletes, Upload, OtherCreates, Inv, TypeOK, slots
<1>3. Ahead' = Ahead /\ Untold' = Untold
  BY <1>2 DEF Ahead, Untold, At
<1>4. Ahead <= Len(log) + 1 /\ Ahead \in Nat /\ Len(log) \in Nat
  <2>1. CASE merge = None
    BY <2>1, AheadFacts DEF Ahead, Inv, TypeOK
  <2>2. CASE merge # None
    BY <2>2, MergeFacts DEF Ahead
  <2>3. QED
    BY <2>1, <2>2, AheadFacts
<1> SUFFICES ASSUME NEW r \in Slots, queue'[r] = None, r \notin forgotten' \cup Untold',
                    NEW i, i \in Last(r)', i < Ahead'
             PROVE  row'[r] = IF log'[i].port = Gone THEN None ELSE log'[i].port
  BY DEF Applied, AppliedTo
<1>5. /\ i \in 1 .. Len(log) + 1 /\ log'[i].slot = r
      /\ \A j \in i + 1 .. Len(log) + 1 : log'[j].slot # r
  BY <1>1, PublishFacts DEF Last
<1>6. i \in 1 .. Len(log) /\ i < Ahead
  BY <1>3, <1>4, <1>5
<1>7. r # s
  BY <1>1, <1>4, <1>5, <1>6, PublishFacts
<1>8. i \in Last(r)
  BY <1>1, <1>4, <1>5, <1>6, PublishFacts, LastFacts
<1>9. log'[i] = log[i]
  BY <1>1, <1>6, PublishFacts
<1>10. QED
  BY <1>2, <1>3, <1>6, <1>7, <1>8, <1>9 DEF Applied, AppliedTo

LEMMA AppliedNext ==
  ASSUME PortsOK, NoneIsNoRecord, Inv, Inv', Identifiers, OnePort, InStep, Applied, [Next]_vars
  PROVE  Applied'
<1>1. ASSUME NEW t \in Tasks, NEW kind \in {"create", "batch_create"}, NEW ids \in SUBSET Slots,
             NEW want, StartCreate(t, kind, ids, want)
      PROVE  Applied'
  <2>1. /\ task[t] = None /\ \A u \in Tasks \ {t} : task'[u] = task[u]
        /\ UNCHANGED <<row, merge, queue, log, cursor, forgotten>>
    BY <1>1 DEF StartCreate, Set, Inv, TypeOK, cloud
  <2>2. Untold \subseteq Untold'
    BY <2>1, UntoldKeeps DEF At
  <2>3. Ahead' <= Ahead
    BY <2>1, AheadFacts DEF Ahead
  <2>4. QED
    BY <2>1, <2>2, <2>3, AppliedKeeps
<1>2. ASSUME NEW t \in Tasks, NEW kind \in {"delete", "batch_delete"}, NEW ids \in SUBSET Slots,
             DeleteRows(t, kind, ids)
      PROVE  Applied'
  <2>1. PICK c \in Delete : c.ids = ids /\ c.pc = "tombstone" /\ Set(t, c)
    BY <1>2 DEF DeleteRows, Delete
  <2>2. /\ task[t] = None /\ task'[t] = c /\ \A u \in Tasks \ {t} : task'[u] = task[u]
        /\ \A s \in Slots \ ids : row'[s] = row[s]
        /\ UNCHANGED <<merge, queue, log, cursor, forgotten>>
    BY <1>2, <2>1 DEF DeleteRows, Set, Release, Inv, TypeOK, cloud
  <2>3. Untold \subseteq Untold'
    BY <2>2, UntoldKeeps DEF At
  <2>4. ids \subseteq Untold'
    <3>1. At(t, "tombstone")' /\ task'[t].ids = ids
      BY <2>1, <2>2 DEF At, NoneIsNoRecord
    <3>2. QED
      BY <3>1 DEF Untold
  <2>5. Ahead' <= Ahead
    BY <2>2, AheadFacts DEF Ahead
  <2>6. QED
    BY <2>2, <2>3, <2>4, <2>5, AppliedKeeps
<1>3. CASE (\E v \in Settings : UpdateSettings(v)) \/ Tick \/ UNCHANGED vars
  <2>1. UNCHANGED <<row, queue, log, task, merge, cursor, forgotten>>
    BY <1>3 DEF UpdateSettings, Tick, vars, slots, cloud
  <2>2. Ahead' <= Ahead /\ Untold' = Untold
    BY <2>1, AheadFacts DEF Ahead, Untold, At
  <2>3. QED
    BY <2>1, <2>2, AppliedKeeps
<1>4. CASE Restart
  <2>1. /\ UNCHANGED <<row, queue, log, cursor>> /\ merge' = None
        /\ forgotten' = forgotten \cup Untold
    BY <1>4 DEF Restart, slots, cloud
  <2>2. Ahead' <= Ahead
    BY <2>1, AheadFacts DEF Ahead
  <2>3. QED
    BY <2>1, <2>2, AppliedKeeps
<1>5. QED
  BY <1>1, <1>2, <1>3, <1>4, AppliedTask, AppliedMerge, AppliedWorld DEF Next

-----------------------------------------------------------------------------
(* Every variable has its type, and no port has two rows: a statement that *)
(* would give a port a second one is refused.                              *)
THEOREM TypeCorrect == Spec => []TypeOK
<1>1. Inv => TypeOK
  BY DEF Inv
<1>2. QED
  BY <1>1, InvHolds, PortsOK, PTL

(* A port that a deletion freed is not given out before it has cooled down, *)
(* however creations, deletions and merges overlap.                        *)
THEOREM CooldownHolds == Spec => []CooldownRespected
<1> USE PortsOK
<1>1. Inv => CooldownRespected
  BY CreateOrDelete DEF Inv, Looked, LooksWell, ChoosesWell, CooldownRespected, At, Chosen
<1>2. QED
  BY <1>1, InvHolds, PTL

(* A creation fails on a taken port only because someone else took it.     *)
THEOREM ConflictsAreForeign == Spec => []ConflictIsForeign
<1> USE PortsOK
<1>1. Inv => ConflictIsForeign
  BY CreateOrDelete DEF Inv, Looked, LooksWell, ChoosesWell, ConflictIsForeign, Conflict, At, Chosen
<1>2. QED
  BY <1>1, InvHolds, PTL

(* A row that a merge left without its binding is merged again.            *)
THEOREM HiddenRowsReturn == Spec => []HiddenIsUnmerged
<1> USE PortsOK
<1>1. Init => Unpassed
  BY DEF Init, Unpassed
<1>2. Inv /\ Inv' /\ Unpassed /\ [Next]_vars => Unpassed'
  BY UnpassedNext
<1>3. Inv /\ Unpassed => HiddenIsUnmerged
  <2> SUFFICES ASSUME Inv, Unpassed, NEW s \in Slots, row[s] # None, s \notin bound
               PROVE  \E i \in cursor + 1 .. Len(log) : log[i].slot = s /\ log[i].port = row[s]
    BY DEF HiddenIsUnmerged
  <2>1. PICK i \in Ahead .. Len(log) : log[i].slot = s /\ log[i].port = row[s]
    BY DEF Unpassed
  <2>2. i \in cursor + 1 .. Len(log)
    BY AheadFacts
  <2>3. QED
    BY <2>1, <2>2
<1>4. QED
  BY <1>1, <1>2, <1>3, InvHolds, PTL DEF Spec

(* Whatever commands, merges, uploads and other desktops do at the same    *)
(* time: a Slot whose last event is merged, of which nothing is queued and *)
(* no deletion was lost, has the row that the event says, or none.         *)
THEOREM MergesAreApplied == Spec => []MergedIsApplied
<1> USE PortsOK, NoneIsNoRecord
<1> DEFINE All == Unpassed /\ Identifiers /\ OnePort /\ GoneIsLast /\ InStep /\ Applied
<1>1. Init => All
  <2> SUFFICES ASSUME Init
               PROVE  All
    OBVIOUS
  <2>1. row = [s \in Slots |-> None] /\ queue = [s \in Slots |-> None] /\ log = << >>
        /\ task = [t \in Tasks |-> None] /\ merge = None /\ Len(log) = 0
    BY DEF Init
  <2>2. Unpassed /\ Identifiers /\ GoneIsLast /\ InStep
    BY <2>1 DEF Unpassed, Identifiers, Absent, Beginning, GoneIsLast, InStep
  <2>3. Ports # {}
    BY DEF PortsOK, Ports
  <2>4. OnePort
    BY <2>1, <2>3 DEF OnePort, HasPort
  <2>5. Applied
    BY <2>1, InvInit, LastFacts DEF Applied, AppliedTo
  <2>6. QED
    BY <2>2, <2>4, <2>5
<1>2. Inv /\ Inv' /\ All /\ [Next]_vars => All'
  BY UnpassedNext, IdentifiersNext, OnePortNext, GoneIsLastNext, InStepNext, AppliedNext
<1>3. Inv /\ Applied => MergedIsApplied
  <2> SUFFICES ASSUME Inv, Applied, NEW s \in Slots \ (forgotten \cup Untold), queue[s] = None,
                      NEW i \in Last(s), i <= cursor
               PROVE  row[s] = IF log[i].port = Gone THEN None ELSE log[i].port
    BY DEF MergedIsApplied
  <2>1. i < Ahead
    BY AheadFacts, LastFacts, LogFacts
  <2>2. QED
    BY <2>1 DEF Applied, AppliedTo
<1>4. QED
  <2> HIDE DEF Inv
  <2>1. QED
    BY <1>1, <1>2, <1>3, InvHolds, PTL DEF Spec
=============================================================================
