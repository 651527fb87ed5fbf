---------------------- MODULE SubscriptionRefreshProofs ----------------------
(***************************************************************************)
(* Proofs about SubscriptionRefresh, for any subscriptions, contents,      *)
(* users and scopes: type correctness, that a committed change reaches the *)
(* Core or has someone who applies it, and that Mihomo is handed what the  *)
(* catalogue was made from.                                                *)
(***************************************************************************)
EXTENDS SubscriptionRefresh, TLAPS

(* What a task holds at each of its steps.                                 *)
Formed(c) ==
    /\ c.pc \in {"begin", "select", "fetch", "payload", "commit", "block", "upsert", "put"} =>
          c.cur \in Subs
    /\ c.pc \in {"payload", "commit", "put"} => c.got \in Contents
    /\ c.pc = "upsert" => c.got \in Row
    /\ c.pc = "publish" => c.seen \in Catalogue
    /\ c.pc \notin {"select", "fetch"} => c.dialer = "none"
    /\ c.changed =>
          c.pc \in {"next", "begin", "select", "fetch", "payload", "commit", "block", "apply"}

(* What it knows of the state as long as nobody has overtaken it.          *)
Tracks(c) ==
    ~c.overtaken =>
        /\ c.pc = "publish" => \A s \in Subs : cache[s] # None => c.seen[s] = cache[s]
        /\ c.pc = "commit" => bridge[c.cur] = c.got
        /\ c.pc = "put" /\ cache[c.cur] # None => c.got = cache[c.cur]

AllFormed == \A u \in Tasks : Formed(task[u])
AllTrack == \A u \in Tasks : Tracks(task[u])
GoneIdle == app = "gone" => \A u \in Tasks : task[u] = Idle

Inv ==
    /\ TypeOK /\ AllFormed /\ AllTrack /\ GoneIdle
    /\ ChangesAreApplied /\ BridgeIsCache

-----------------------------------------------------------------------------
(* Tasks.                                                                  *)
LEMMA IdleFormed == Idle \in Work /\ Formed(Idle)
BY DEF Idle, Work, Formed

LEMMA WorkHas ==
  ASSUME TypeOK, NEW t \in Tasks
  PROVE  task[t] \in Work
BY DEF TypeOK

LEMMA Overtaken ==
  ASSUME NEW w \in Work, Formed(w)
  PROVE  /\ [w EXCEPT !.overtaken = TRUE] \in Work
         /\ Formed([w EXCEPT !.overtaken = TRUE])
         /\ [w EXCEPT !.overtaken = TRUE].overtaken
         /\ [w EXCEPT !.overtaken = TRUE].pc = w.pc
         /\ [w EXCEPT !.overtaken = TRUE].cur = w.cur
         /\ [w EXCEPT !.overtaken = TRUE].changed = w.changed
BY DEF Work, Formed

LEMMA CutKeeps ==
  ASSUME NEW w \in Work, Formed(w)
  PROVE  /\ Cut(w) \in Work /\ Formed(Cut(w))
         /\ Cut(w).pc = w.pc /\ Cut(w).cur = w.cur /\ Cut(w).got = w.got
         /\ Cut(w).seen = w.seen /\ Cut(w).overtaken = w.overtaken
         /\ Cut(w).changed = w.changed /\ Cut(w).dialer # "live"
BY DEF Work, Formed, Cut

LEMMA SetKeeps ==
  ASSUME TypeOK, AllFormed, NEW t \in Tasks, NEW c \in Work, Formed(c), Set(t, c)
  PROVE  /\ task' \in [Tasks -> Work] /\ AllFormed'
         /\ task'[t] = c
         /\ \A u \in Tasks \ {t} : task'[u] = task[u]
BY DEF TypeOK, AllFormed, Set

LEMMA OvertakingKeeps ==
  ASSUME TypeOK, AllFormed, NEW t \in Tasks, NEW c \in Work, Formed(c), NEW who,
         SetOvertaking(t, c, who)
  PROVE  /\ task' \in [Tasks -> Work] /\ AllFormed'
         /\ task'[t] = c
         /\ \A u \in Tasks \ {t} :
               /\ u \notin who => task'[u] = task[u]
               /\ task'[u].pc = task[u].pc /\ task'[u].cur = task[u].cur
               /\ task'[u].changed = task[u].changed
               /\ u \in who => task'[u].overtaken
<1>1. \A u \in Tasks : task[u] \in Work /\ Formed(task[u])
  BY DEF TypeOK, AllFormed
<1>2. ASSUME NEW u \in Tasks \ {t}
      PROVE  /\ task'[u] \in Work /\ Formed(task'[u])
             /\ u \notin who => task'[u] = task[u]
             /\ task'[u].pc = task[u].pc /\ task'[u].cur = task[u].cur
             /\ task'[u].changed = task[u].changed
             /\ u \in who => task'[u].overtaken
  <2>1. /\ u \in who => task'[u] = [task[u] EXCEPT !.overtaken = TRUE]
        /\ u \notin who => task'[u] = task[u]
    BY DEF SetOvertaking
  <2>2. task[u] \in Work /\ Formed(task[u])
    BY <1>1
  <2>3. CASE u \in who
    BY <2>1, <2>2, <2>3, Overtaken
  <2>4. CASE u \notin who
    BY <2>1, <2>2, <2>4
  <2>5. QED
    BY <2>3, <2>4
<1>3. task'[t] = c
  BY DEF SetOvertaking
<1>4. task' = [u \in Tasks |-> task'[u]]
  BY DEF SetOvertaking
<1>5. \A u \in Tasks : task'[u] \in Work /\ Formed(task'[u])
  BY <1>2, <1>3
<1>6. task' \in [Tasks -> Work]
  BY <1>4, <1>5
<1>7. AllFormed'
  BY <1>5 DEF AllFormed
<1>8. QED
  BY <1>2, <1>3, <1>6, <1>7

(* All others are cut off from the Core, as Stop and Publish do.           *)
CutOthers(t, c) == task' = [u \in Tasks |-> IF u = t THEN c ELSE Cut(task[u])]

LEMMA CuttingKeeps ==
  ASSUME TypeOK, AllFormed, NEW t \in Tasks, NEW c \in Work, Formed(c), CutOthers(t, c)
  PROVE  /\ task' \in [Tasks -> Work] /\ AllFormed'
         /\ task'[t] = c
         /\ \A u \in Tasks \ {t} :
               /\ task'[u].pc = task[u].pc /\ task'[u].cur = task[u].cur
               /\ task'[u].got = task[u].got /\ task'[u].seen = task[u].seen
               /\ task'[u].overtaken = task[u].overtaken
               /\ task'[u].changed = task[u].changed /\ task'[u].dialer # "live"
<1>1. \A u \in Tasks : task[u] \in Work /\ Formed(task[u])
  BY DEF TypeOK, AllFormed
<1>2. \A u \in Tasks \ {t} : task'[u] = Cut(task[u])
  BY DEF CutOthers
<1>3. task'[t] = c
  BY DEF CutOthers
<1>4. task' = [u \in Tasks |-> task'[u]]
  BY DEF CutOthers
<1>5. \A u \in Tasks : task'[u] \in Work /\ Formed(task'[u])
  BY <1>1, <1>2, <1>3, CutKeeps
<1>6. task' \in [Tasks -> Work]
  BY <1>4, <1>5
<1>7. AllFormed'
  BY <1>5 DEF AllFormed
<1>8. QED
  BY <1>1, <1>2, <1>3, <1>6, <1>7, CutKeeps

LEMMA BusyUp ==
  ASSUME GoneIdle, NEW t \in Tasks, task[t].pc # "idle"
  PROVE  app # "gone"
BY DEF GoneIdle, Idle

-----------------------------------------------------------------------------
(* Rows change, and contents go at most, as they do with their row.        *)
RowStep ==
    /\ row' \in [Subs -> Row \cup {None}] /\ cache' \in Catalogue
    /\ \A s \in Subs : cache'[s] # None => cache'[s] = cache[s] /\ row'[s] # None

(* A step of one task that adds no contents and leaves the bridge alone,   *)
(* and the Core, but that it may be passed over: it may not forget a change *)
(* unless the Core is, nor end what it is about to commit or restore unless *)
(* its subscription has no contents or is astray.                          *)
CoreStep == core' = core \/ PassOver
AstrayStep == astray \subseteq astray' /\ astray' \subseteq Subs

LEMMA PlainStep ==
  ASSUME SubsOK, Inv, NEW t \in Tasks, NEW c \in Work, Formed(c), Tracks(c), Set(t, c),
         RowStep, CoreStep, AstrayStep, core_running' \in BOOLEAN,
         UNCHANGED <<bridge, app, scope>>,
         app # "gone", task[t].changed => c.changed \/ core = None \/ PassOver,
         task[t].pc \in {"commit", "put"} =>
             \/ c.pc = task[t].pc /\ c.cur = task[t].cur
             \/ cache[task[t].cur] = None \/ task[t].cur \in astray'
  PROVE  Inv'
<1> USE DEF Inv
<1>1. /\ task' \in [Tasks -> Work] /\ AllFormed' /\ task'[t] = c
      /\ \A u \in Tasks \ {t} : task'[u] = task[u]
  BY SetKeeps
<1>2. TypeOK'
  <2>1. core' \in [catalogue : Catalogue, stale : BOOLEAN] \cup {None}
    BY DEF CoreStep, PassOver, TypeOK
  <2>2. QED
    BY <1>1, <2>1 DEF TypeOK, RowStep, AstrayStep
<1>3. AllTrack'
  <2>1. SUFFICES ASSUME NEW u \in Tasks
                 PROVE  Tracks(task[u])'
    BY DEF AllTrack
  <2>2. CASE u = t
    BY <1>1, <2>2 DEF Tracks, Formed, RowStep
  <2>3. CASE u # t
    BY <1>1, <2>3 DEF AllTrack, AllFormed, Tracks, Formed, RowStep
  <2>4. QED
    BY <2>2, <2>3
<1>4. GoneIdle'
  BY DEF GoneIdle
<1>5. ChangesAreApplied'
  <2>1. CASE PassOver
    BY <2>1 DEF PassOver, ChangesAreApplied, TypeOK
  <2>2. ASSUME ~PassOver
        PROVE  ChangesAreApplied'
    <3>1. core' = core
      BY <2>2 DEF CoreStep
    <3>2. SUFFICES ASSUME core # None, ~core.stale, NEW s \in Subs, cache[s] # None,
                          core.catalogue[s] # cache[s]
                   PROVE  \E u \in Tasks : task'[u].changed
      BY <3>1 DEF ChangesAreApplied, RowStep
    <3>3. PICK u \in Tasks : task[u].changed
      BY <3>2 DEF ChangesAreApplied
    <3>4. task'[u].changed
      BY <1>1, <2>2, <3>2, <3>3
    <3>5. QED
      BY <3>4
  <2>3. QED
    BY <2>1, <2>2
<1>6. BridgeIsCache'
  <2>1. SUFFICES ASSUME NEW s \in Subs, s \notin astray', cache[s] # None, bridge[s] # cache[s]
                 PROVE  \E u \in Tasks : task'[u].pc \in {"commit", "put"} /\ task'[u].cur = s
    BY DEF BridgeIsCache, At2, At, RowStep
  <2>2. PICK u \in Tasks : task[u].pc \in {"commit", "put"} /\ task[u].cur = s
    BY <2>1 DEF BridgeIsCache, At2, At, AstrayStep
  <2>3. task'[u].pc \in {"commit", "put"} /\ task'[u].cur = s
    BY <1>1, <2>1, <2>2
  <2>4. QED
    BY <2>3
<1>7. QED
  BY <1>1, <1>2, <1>3, <1>4, <1>5, <1>6

LEMMA DataStep ==
  ASSUME SubsOK, Inv, RowStep, core_running' \in BOOLEAN,
         UNCHANGED <<bridge, core, task, app, scope, astray>>
  PROVE  Inv'
<1> USE DEF Inv
<1>1. TypeOK' /\ AllFormed' /\ GoneIdle'
  BY DEF TypeOK, AllFormed, GoneIdle, RowStep
<1>2. AllTrack'
  <2>1. SUFFICES ASSUME NEW u \in Tasks
                 PROVE  Tracks(task[u])'
    BY DEF AllTrack
  <2>2. Tracks(task[u]) /\ Formed(task[u])
    BY DEF AllTrack, AllFormed
  <2>3. QED
    BY <2>2 DEF Tracks, Formed, RowStep
<1>3. ChangesAreApplied'
  BY DEF ChangesAreApplied, RowStep
<1>4. BridgeIsCache'
  BY DEF BridgeIsCache, At2, At, RowStep
<1>5. QED
  BY <1>1, <1>2, <1>3, <1>4

(* The Core goes, or is replaced, and all but t are cut off from it.       *)
LEMMA CutStep ==
  ASSUME SubsOK, Inv, NEW t \in Tasks, NEW c \in Work, Formed(c), CutOthers(t, c),
         task[t].pc \notin {"commit", "put"}, c.pc \notin {"commit", "put", "publish"},
         c.dialer = "none", app # "gone", core_running' \in BOOLEAN,
         core' \in [catalogue : Catalogue, stale : BOOLEAN] \cup {None},
         core' # None /\ ~core'.stale =>
             \A s \in Subs : cache[s] # None => core'.catalogue[s] = cache[s],
         UNCHANGED <<data, bridge, app, scope, astray>>
  PROVE  Inv'
<1> USE DEF Inv, data
<1>1. /\ task' \in [Tasks -> Work] /\ AllFormed' /\ task'[t] = c
      /\ \A u \in Tasks \ {t} :
            /\ task'[u].pc = task[u].pc /\ task'[u].cur = task[u].cur
            /\ task'[u].got = task[u].got /\ task'[u].seen = task[u].seen
            /\ task'[u].overtaken = task[u].overtaken
            /\ task'[u].changed = task[u].changed /\ task'[u].dialer # "live"
  BY CuttingKeeps
<1>2. TypeOK'
  BY <1>1 DEF TypeOK
<1>3. AllTrack'
  <2>1. SUFFICES ASSUME NEW u \in Tasks
                 PROVE  Tracks(task[u])'
    BY DEF AllTrack
  <2>2. CASE u = t
    BY <1>1, <2>2 DEF Tracks
  <2>3. CASE u # t
    BY <1>1, <2>3 DEF AllTrack, Tracks
  <2>4. QED
    BY <2>2, <2>3
<1>4. GoneIdle'
  BY DEF GoneIdle
<1>5. ChangesAreApplied'
  BY DEF ChangesAreApplied
<1>6. BridgeIsCache'
  <2>1. SUFFICES ASSUME NEW s \in Subs \ astray, cache[s] # None, bridge[s] # cache[s]
                 PROVE  \E u \in Tasks : task'[u].pc \in {"commit", "put"} /\ task'[u].cur = s
    BY DEF BridgeIsCache, At2, At
  <2>2. PICK u \in Tasks : task[u].pc \in {"commit", "put"} /\ task[u].cur = s
    BY <2>1 DEF BridgeIsCache, At2, At
  <2>3. task'[u].pc \in {"commit", "put"} /\ task'[u].cur = s
    BY <1>1, <2>2
  <2>4. QED
    BY <2>3
<1>7. QED
  BY <1>1, <1>2, <1>3, <1>4, <1>5, <1>6

(* The bridge is given the contents of one subscription: those who are     *)
(* about to commit theirs are overtaken.                                   *)
LEMMA BridgeStep ==
  ASSUME SubsOK, Inv, NEW t \in Tasks, NEW s \in Subs, NEW g \in Contents,
         NEW c \in Work, Formed(c),
         SetOvertaking(t, c, At2("commit", s)), bridge' = [bridge EXCEPT ![s] = g],
         \/ c.pc = "commit" /\ c.cur = s /\ c.got = g /\ astray' = astray
         \/ /\ c.pc \notin {"commit", "put", "publish", "fetch"}
            /\ s \notin astray' /\ cache[s] # None => g = cache[s]
         \/ c.pc \notin {"commit", "put", "publish", "fetch"} /\ s \in astray',
         astray' \subseteq Subs, astray \ {s} \subseteq astray',
         task[t].pc \in {"commit", "put"} => task[t].cur = s,
         app # "gone", task[t].changed => c.changed,
         UNCHANGED <<data, core, core_running, app, scope>>
  PROVE  Inv'
<1> USE DEF Inv, data
<1>1. /\ task' \in [Tasks -> Work] /\ AllFormed' /\ task'[t] = c
      /\ \A u \in Tasks \ {t} :
            /\ u \notin At2("commit", s) => task'[u] = task[u]
            /\ task'[u].pc = task[u].pc /\ task'[u].cur = task[u].cur
            /\ task'[u].changed = task[u].changed
            /\ u \in At2("commit", s) => task'[u].overtaken
  <2>1. PICK who : who = At2("commit", s)
    OBVIOUS
  <2>2. SetOvertaking(t, c, who)
    BY <2>1
  <2>3. QED
    BY <2>1, <2>2, OvertakingKeeps
<1>2. TypeOK'
  BY <1>1 DEF TypeOK, Catalogue
<1>3. AllTrack'
  <2>1. SUFFICES ASSUME NEW u \in Tasks
                 PROVE  Tracks(task[u])'
    BY DEF AllTrack
  <2>2. CASE u = t
    BY <1>1, <2>2 DEF Tracks, TypeOK, Catalogue
  <2>3. CASE u # t /\ u \in At2("commit", s)
    BY <1>1, <2>3 DEF Tracks
  <2>4. CASE u # t /\ u \notin At2("commit", s)
    BY <1>1, <2>4 DEF AllTrack, Tracks, At2, At, TypeOK, Catalogue
  <2>5. QED
    BY <2>2, <2>3, <2>4
<1>4. GoneIdle'
  BY DEF GoneIdle
<1>5. ChangesAreApplied'
  <2>1. SUFFICES ASSUME core # None, ~core.stale, NEW r \in Subs, cache[r] # None,
                        core.catalogue[r] # cache[r]
                 PROVE  \E u \in Tasks : task'[u].changed
    BY DEF ChangesAreApplied
  <2>2. PICK u \in Tasks : task[u].changed
    BY <2>1 DEF ChangesAreApplied
  <2>3. task'[u].changed
    BY <1>1, <2>2
  <2>4. QED
    BY <2>3
<1>6. BridgeIsCache'
  <2>1. SUFFICES ASSUME NEW r \in Subs, r \notin astray', cache[r] # None,
                        bridge'[r] # cache[r]
                 PROVE  \E u \in Tasks : task'[u].pc \in {"commit", "put"} /\ task'[u].cur = r
    BY DEF BridgeIsCache, At2, At
  <2>2. CASE r = s
    <3>1. c.pc = "commit" /\ c.cur = s
      BY <2>1, <2>2 DEF TypeOK, Catalogue
    <3>2. QED
      BY <1>1, <2>2, <3>1
  <2>3. CASE r # s
    <3>1. bridge[r] # cache[r] /\ r \notin astray
      BY <2>1, <2>3 DEF TypeOK, Catalogue
    <3>2. PICK u \in Tasks : task[u].pc \in {"commit", "put"} /\ task[u].cur = r
      BY <2>1, <3>1 DEF BridgeIsCache, At2, At
    <3>3. task'[u].pc \in {"commit", "put"} /\ task'[u].cur = r
      BY <1>1, <2>3, <3>2
    <3>4. QED
      BY <3>3
  <2>4. QED
    BY <2>2, <2>3
<1>7. QED
  BY <1>1, <1>2, <1>3, <1>4, <1>5, <1>6

(* Contents are committed: those who start the Core from the catalogue, or *)
(* are about to restore what they read, are overtaken.                     *)
LEMMA CacheStep ==
  ASSUME SubsOK, Inv, NEW t \in Tasks, NEW s \in Subs, NEW g \in Contents,
         NEW c \in Work, Formed(c), row[s] # None, Later(s),
         SetOvertaking(t, c, Publishing \cup At2("put", s)),
         cache' = [cache EXCEPT ![s] = g],
         c.pc \notin {"commit", "put", "publish", "fetch"},
         astray' \subseteq Subs, astray \ {s} \subseteq astray',
         s \notin astray' => bridge[s] = g,
         task[t].pc \in {"commit", "put"} => task[t].cur = s,
         app # "gone", task[t].changed => c.changed,
         \/ core' = core /\ c.changed
         \/ PassOver,
         UNCHANGED <<bridge, core_running, app, scope>>
  PROVE  Inv'
<1> USE DEF Inv
<1>1. /\ task' \in [Tasks -> Work] /\ AllFormed' /\ task'[t] = c
      /\ \A u \in Tasks \ {t} :
            /\ u \notin Publishing \cup At2("put", s) => task'[u] = task[u]
            /\ task'[u].pc = task[u].pc /\ task'[u].cur = task[u].cur
            /\ task'[u].changed = task[u].changed
            /\ u \in Publishing \cup At2("put", s) => task'[u].overtaken
  <2>1. PICK who : who = Publishing \cup At2("put", s)
    OBVIOUS
  <2>2. SetOvertaking(t, c, who)
    BY <2>1
  <2>3. QED
    BY <2>1, <2>2, OvertakingKeeps
<1>2. TypeOK'
  <2>1. row' \in [Subs -> Row \cup {None}] /\ \A r \in Subs : row[r] # None => row'[r] # None
    BY DEF Later, TypeOK, SubsOK, Row
  <2>2. cache' \in Catalogue /\ \A r \in Subs : cache'[r] # None => row'[r] # None
    BY <2>1 DEF TypeOK, Catalogue
  <2>3. core' \in [catalogue : Catalogue, stale : BOOLEAN] \cup {None}
    BY DEF PassOver, TypeOK
  <2>4. QED
    BY <1>1, <2>1, <2>2, <2>3 DEF TypeOK
<1>3. AllTrack'
  <2>1. SUFFICES ASSUME NEW u \in Tasks
                 PROVE  Tracks(task[u])'
    BY DEF AllTrack
  <2>2. CASE u = t
    BY <1>1, <2>2 DEF Tracks
  <2>3. CASE u # t /\ u \in Publishing \cup At2("put", s)
    BY <1>1, <2>3 DEF Tracks
  <2>4. CASE u # t /\ u \notin Publishing \cup At2("put", s)
    BY <1>1, <2>4 DEF AllTrack, Tracks, At2, At, Publishing, TypeOK, Catalogue
  <2>5. QED
    BY <2>2, <2>3, <2>4
<1>4. GoneIdle'
  BY DEF GoneIdle
<1>5. ChangesAreApplied'
  <2>1. CASE core' = core /\ c.changed
    BY <1>1, <2>1 DEF ChangesAreApplied
  <2>2. CASE PassOver
    BY <2>2 DEF PassOver, ChangesAreApplied, TypeOK
  <2>3. QED
    BY <2>1, <2>2
<1>6. BridgeIsCache'
  <2>1. SUFFICES ASSUME NEW r \in Subs, r \notin astray', cache'[r] # None,
                        bridge[r] # cache'[r]
                 PROVE  \E u \in Tasks : task'[u].pc \in {"commit", "put"} /\ task'[u].cur = r
    BY DEF BridgeIsCache, At2, At
  <2>2. r # s
    BY <2>1 DEF TypeOK, Catalogue
  <2>3. bridge[r] # cache[r] /\ r \notin astray /\ cache[r] # None
    BY <2>1, <2>2 DEF TypeOK, Catalogue
  <2>4. PICK u \in Tasks : task[u].pc \in {"commit", "put"} /\ task[u].cur = r
    BY <2>3 DEF BridgeIsCache, At2, At
  <2>5. task'[u].pc \in {"commit", "put"} /\ task'[u].cur = r
    BY <1>1, <2>2, <2>4
  <2>6. QED
    BY <2>5
<1>7. QED
  BY <1>1, <1>2, <1>3, <1>4, <1>5, <1>6

-----------------------------------------------------------------------------
(* Every action keeps the invariant.  For those that set one task:         *)
PlainIf(t, c) ==
    /\ c \in Work /\ Formed(c) /\ Tracks(c)
    /\ app # "gone" /\ (task[t].changed => c.changed \/ core = None)
    /\ task[t].pc \in {"commit", "put"} =>
          (c.pc = task[t].pc /\ c.cur = task[t].cur) \/ cache[task[t].cur] = None

LEMMA PlainIfStep ==
  ASSUME SubsOK, Inv, NEW t \in Tasks, NEW c, PlainIf(t, c), Set(t, c), RowStep,
         UNCHANGED <<bridge, core, core_running, app, scope, astray>>
  PROVE  Inv'
<1>1. CoreStep /\ AstrayStep /\ core_running' \in BOOLEAN
  BY DEF Inv, TypeOK, CoreStep, AstrayStep
<1>2. QED
  BY <1>1, PlainStep DEF PlainIf

LEMMA SameRows ==
  ASSUME TypeOK, UNCHANGED data
  PROVE  RowStep
BY DEF TypeOK, RowStep, data

LEMMA LaterRows ==
  ASSUME SubsOK, TypeOK, NEW s \in Subs, Later(s), UNCHANGED cache
  PROVE  RowStep
BY DEF Later, TypeOK, RowStep, SubsOK, Row

(* An Idle task, or one that only has to look at its list.                 *)
Fresh(c) ==
    /\ c \in Work /\ c.dialer = "none"
    /\ \/ c.pc \in {"next", "apply"}
       \/ c.pc \in {"idle", "start", "flag", "merge", "restore"} /\ ~c.changed

LEMMA FreshIf ==
  ASSUME NEW t \in Tasks, NEW c, Fresh(c), app # "gone",
         task[t].changed => c.changed \/ core = None,
         task[t].pc \in {"commit", "put"} => cache[task[t].cur] = None
  PROVE  PlainIf(t, c)
BY DEF Fresh, PlainIf, Formed, Tracks

LEMMA UnchangedThere ==
  ASSUME Inv, NEW t \in Tasks,
         task[t].pc \in {"idle", "start", "publish", "flag", "upsert", "merge", "restore",
                        "put"}
  PROVE  ~task[t].changed
BY DEF Inv, AllFormed, Formed

LEMMA UpAtWork ==
  ASSUME Inv, NEW t \in Tasks, task[t].pc # "idle"
  PROVE  app # "gone"
BY BusyUp DEF Inv

LEMMA EndedFresh ==
  ASSUME Inv, NEW t \in Tasks
  PROVE  Fresh(Ended(t)) /\ Ended(t).changed = task[t].changed /\ Ended(t).pc = "next"
BY WorkHas DEF Inv, Ended, Fresh, Idle, Work

LEMMA BatchSafe ==
  ASSUME SubsOK, Inv, NEW t \in Tasks, NEW list \in SUBSET Subs, app # "gone", Batch(t, list)
  PROVE  Inv'
<1>1. SUFFICES ASSUME NEW c, c = [Idle EXCEPT !.pc = "next", !.list = list]
               PROVE  Inv'
  OBVIOUS
<1>2. task[t].pc = "idle" /\ Set(t, c)
      /\ UNCHANGED <<data, bridge, core, core_running, app, scope, astray>>
  BY <1>1 DEF Batch, At
<1>3. Fresh(c)
  BY <1>1 DEF Fresh, Idle, Work
<1>4. QED
  BY <1>2, <1>3, FreshIf, UnchangedThere, PlainIfStep, SameRows DEF Inv

LEMMA NextItemSafe ==
  ASSUME SubsOK, Inv, NEW t \in Tasks, NextItem(t)
  PROVE  Inv'
<1>1. PICK s \in task[t].list :
        Set(t, [task[t] EXCEPT !.cur = s, !.list = @ \ {s}, !.pc = "begin"])
  BY DEF NextItem
<1>2. SUFFICES ASSUME NEW c, c = [task[t] EXCEPT !.cur = s, !.list = @ \ {s}, !.pc = "begin"]
               PROVE  Inv'
  OBVIOUS
<1>3. task[t].pc = "next" /\ Set(t, c)
      /\ UNCHANGED <<data, bridge, core, core_running, app, scope, astray>>
  BY <1>1, <1>2 DEF NextItem, At
<1>4. task[t] \in Work /\ s \in Subs
  BY WorkHas DEF Inv, Work
<1>5. c \in Work /\ c.pc = "begin" /\ c.cur = s /\ c.changed = task[t].changed
      /\ c.dialer = task[t].dialer
  BY <1>2, <1>4 DEF Work
<1>6. task[t].dialer = "none"
  BY <1>3 DEF Inv, AllFormed, Formed
<1>7. PlainIf(t, c)
  BY <1>3, <1>4, <1>5, <1>6, UpAtWork DEF PlainIf, Formed, Tracks
<1>8. QED
  BY <1>3, <1>7, PlainIfStep, SameRows DEF Inv

LEMMA BatchDoneSafe ==
  ASSUME SubsOK, Inv, NEW t \in Tasks, BatchDone(t)
  PROVE  Inv'
<1>1. SUFFICES ASSUME NEW c, c = [task[t] EXCEPT !.list = {}, !.pc = "apply"]
               PROVE  Inv'
  OBVIOUS
<1>2. task[t].pc = "next" /\ Set(t, c)
      /\ UNCHANGED <<data, bridge, core, core_running, app, scope, astray>>
  BY <1>1 DEF BatchDone, At
<1>3. task[t] \in Work /\ task[t].dialer = "none"
  BY <1>2, WorkHas DEF Inv, AllFormed, Formed
<1>4. Fresh(c) /\ c.changed = task[t].changed
  BY <1>1, <1>3 DEF Fresh, Work
<1>5. QED
  BY <1>2, <1>4, FreshIf, UpAtWork, PlainIfStep, SameRows DEF Inv

(* The refresh of one subscription has ended, whatever became of it.       *)
LEMMA EndedSafe ==
  ASSUME SubsOK, Inv, NEW t \in Tasks, Set(t, Ended(t)), task[t].pc # "idle",
         task[t].pc \in {"commit", "put"} => cache[task[t].cur] = None, RowStep,
         UNCHANGED <<bridge, core, core_running, app, scope, astray>>
  PROVE  Inv'
<1>1. SUFFICES ASSUME NEW c, c = Ended(t)
               PROVE  Inv'
  OBVIOUS
<1>2. QED
  BY <1>1, EndedFresh, FreshIf, UpAtWork, PlainIfStep

LEMMA BeginSafe ==
  ASSUME SubsOK, Inv, NEW t \in Tasks, Begin(t)
  PROVE  Inv'
<1>1. task[t].pc = "begin" /\ UNCHANGED <<data, bridge, core, core_running, app, scope, astray>>
  BY DEF Begin, At
<1>2. task[t] \in Work /\ task[t].cur \in Subs /\ task[t].dialer = "none" /\ app # "gone"
  BY <1>1, WorkHas, UpAtWork DEF Inv, AllFormed, Formed
<1>3. CASE Set(t, Ended(t))
  BY <1>1, <1>3, EndedSafe, SameRows DEF Inv
<1>4. CASE Set(t, [task[t] EXCEPT !.pc = "fetch"])
  <2>1. SUFFICES ASSUME NEW c, c = [task[t] EXCEPT !.pc = "fetch"]
                 PROVE  Inv'
    OBVIOUS
  <2>2. c \in Work /\ c.pc = "fetch" /\ c.cur = task[t].cur /\ c.changed = task[t].changed
        /\ c.dialer = "none"
    BY <1>2, <2>1 DEF Work
  <2>3. PlainIf(t, c)
    BY <1>1, <1>2, <2>2 DEF PlainIf, Formed, Tracks
  <2>4. QED
    BY <1>1, <1>4, <2>1, <2>3, PlainIfStep, SameRows DEF Inv
<1>5. CASE Set(t, [task[t] EXCEPT !.pc = "select", !.dialer = "live"])
  <2>1. SUFFICES ASSUME NEW c, c = [task[t] EXCEPT !.pc = "select", !.dialer = "live"]
                 PROVE  Inv'
    OBVIOUS
  <2>2. c \in Work /\ c.pc = "select" /\ c.cur = task[t].cur /\ c.changed = task[t].changed
    BY <1>2, <2>1 DEF Work
  <2>3. PlainIf(t, c)
    BY <1>1, <1>2, <2>2 DEF PlainIf, Formed, Tracks
  <2>4. QED
    BY <1>1, <1>5, <2>1, <2>3, PlainIfStep, SameRows DEF Inv
<1>6. QED
  BY <1>3, <1>4, <1>5 DEF Begin, Failed

LEMMA SelectFailsSafe ==
  ASSUME SubsOK, Inv, NEW t \in Tasks, SelectFails(t)
  PROVE  Inv'
BY EndedSafe, SameRows DEF Inv, SelectFails, Failed, At

LEMMA BlockSafe ==
  ASSUME SubsOK, Inv, NEW t \in Tasks, Block(t)
  PROVE  Inv'
BY EndedSafe, SameRows DEF Inv, Block, At

LEMMA CommitFailsSafe ==
  ASSUME SubsOK, Inv, NEW t \in Tasks, CommitFails(t)
  PROVE  Inv'
<1>1. PICK c : c = Ended(t)
  OBVIOUS
<1>2. /\ task[t].pc = "commit" /\ Set(t, c) /\ astray' = astray \cup {task[t].cur}
      /\ UNCHANGED <<data, bridge, core, core_running, app, scope>>
  BY <1>1 DEF CommitFails, At, Failed
<1>3. task[t].cur \in Subs /\ app # "gone"
  BY <1>2, UpAtWork DEF Inv, AllFormed, Formed
<1>4. CoreStep /\ AstrayStep /\ core_running' \in BOOLEAN
  BY <1>2, <1>3 DEF Inv, TypeOK, CoreStep, AstrayStep
<1>5. Fresh(c) /\ c.changed = task[t].changed
  BY <1>1, EndedFresh
<1>6. c \in Work /\ Formed(c) /\ Tracks(c)
  BY <1>5 DEF Fresh, Formed, Tracks
<1>7. RowStep
  BY <1>2, SameRows DEF Inv
<1>8. task[t].cur \in astray'
  BY <1>2
<1>9. QED
  BY <1>2, <1>3, <1>4, <1>5, <1>6, <1>7, <1>8, PlainStep

LEMMA FetchFailsSafe ==
  ASSUME SubsOK, Inv, NEW t \in Tasks, FetchFails(t)
  PROVE  Inv'
<1>1. task[t].pc = "fetch" /\ Later(task[t].cur) /\ Set(t, Ended(t))
      /\ UNCHANGED <<cache, bridge, core, core_running, app, scope, astray>>
  BY DEF FetchFails, At, Failed
<1>2. task[t].cur \in Subs
  BY <1>1 DEF Inv, AllFormed, Formed
<1>3. PICK s \in Subs : s = task[t].cur
  BY <1>2
<1>4. RowStep
  BY <1>1, <1>3, LaterRows DEF Inv
<1>5. QED
  BY <1>1, <1>4, EndedSafe

LEMMA FetchSafe ==
  ASSUME SubsOK, Inv, NEW t \in Tasks, Fetch(t)
  PROVE  Inv'
<1>1. PICK g \in scope.contents :
        Set(t, [task[t] EXCEPT !.got = g, !.dialer = "none", !.pc = "payload"])
  BY DEF Fetch
<1>2. task[t].pc = "fetch" /\ UNCHANGED <<data, bridge, core, core_running, app, scope, astray>>
  BY DEF Fetch, At
<1>3. task[t] \in Work /\ task[t].cur \in Subs /\ g \in Contents /\ app # "gone"
  BY <1>2, WorkHas, UpAtWork DEF Inv, AllFormed, Formed, TypeOK, SubsOK
<1>4. SUFFICES ASSUME NEW c, c = [task[t] EXCEPT !.got = g, !.dialer = "none", !.pc = "payload"]
               PROVE  Inv'
  OBVIOUS
<1>5. /\ c \in Work /\ c.pc = "payload" /\ c.cur = task[t].cur
      /\ c.changed = task[t].changed /\ c.got = g /\ c.dialer = "none"
  BY <1>3, <1>4 DEF Work
<1>6. PlainIf(t, c)
  BY <1>2, <1>3, <1>5 DEF PlainIf, Formed, Tracks
<1>7. QED
  BY <1>1, <1>2, <1>4, <1>6, PlainIfStep, SameRows DEF Inv

LEMMA SelectSafe ==
  ASSUME SubsOK, Inv, NEW t \in Tasks, Select(t)
  PROVE  Inv'
<1>1. PICK c : c = [task[t] EXCEPT !.pc = "fetch"]
  OBVIOUS
<1>2. task[t].pc = "select" /\ Set(t, c)
      /\ UNCHANGED <<data, bridge, core, core_running, app, scope, astray>>
  BY <1>1 DEF Select, At
<1>3. task[t] \in Work /\ task[t].cur \in Subs /\ app # "gone"
  BY <1>2, WorkHas, UpAtWork DEF Inv, AllFormed, Formed
<1>4. /\ c \in Work /\ c.pc = "fetch" /\ c.cur = task[t].cur
      /\ c.changed = task[t].changed
  BY <1>1, <1>3 DEF Work
<1>5. PlainIf(t, c)
  BY <1>2, <1>3, <1>4 DEF PlainIf, Formed, Tracks
<1>6. QED
  BY <1>2, <1>5, PlainIfStep, SameRows DEF Inv

LEMMA SetPayloadSafe ==
  ASSUME SubsOK, Inv, NEW t \in Tasks, SetPayload(t)
  PROVE  Inv'
<1>1. PICK s, g, c : /\ s = task[t].cur /\ g = task[t].got
                     /\ c = [task[t] EXCEPT !.pc = "commit"]
  OBVIOUS
<1>2. /\ task[t].pc = "payload" /\ bridge' = [bridge EXCEPT ![s] = g]
      /\ SetOvertaking(t, c, At2("commit", s))
      /\ UNCHANGED <<data, core, core_running, app, scope, astray>>
  BY <1>1 DEF SetPayload, At
<1>3. /\ task[t] \in Work /\ s \in Subs /\ g \in Contents /\ app # "gone"
      /\ task[t].dialer = "none"
  BY <1>1, <1>2, WorkHas, UpAtWork DEF Inv, AllFormed, Formed
<1>4. /\ c \in Work /\ c.pc = "commit" /\ c.cur = s /\ c.got = g
      /\ c.changed = task[t].changed /\ c.dialer = "none"
  BY <1>1, <1>3 DEF Work
<1>5. Formed(c)
  BY <1>3, <1>4 DEF Formed
<1>6. astray' = astray /\ astray' \subseteq Subs
  BY <1>2 DEF Inv, TypeOK
<1>7. QED
  BY <1>2, <1>3, <1>4, <1>5, <1>6, BridgeStep

LEMMA PartedType ==
  ASSUME TypeOK, NEW t \in Tasks, NEW s \in Subs, s = task[t].cur
  PROVE  /\ Parted(t) \subseteq Subs /\ astray \ {s} \subseteq Parted(t)
         /\ s \in Parted(t) <=> task[t].overtaken
BY DEF TypeOK, Parted

LEMMA CommitSafe ==
  ASSUME SubsOK, Inv, NEW t \in Tasks, Commit(t)
  PROVE  Inv'
<1>1. PICK s, g, c : /\ s = task[t].cur /\ g = task[t].got
                     /\ c = [task[t] EXCEPT !.got = None, !.overtaken = FALSE,
                                            !.changed = TRUE, !.pc = "block"]
  OBVIOUS
<1>2. /\ task[t].pc = "commit" /\ row[s] # None /\ cache' = [cache EXCEPT ![s] = g]
      /\ Later(s) /\ SetOvertaking(t, c, Publishing \cup At2("put", s))
      /\ astray' = Parted(t) /\ UNCHANGED <<bridge, core, core_running, app, scope>>
  BY <1>1 DEF Commit, At
<1>3. /\ task[t] \in Work /\ s \in Subs /\ g \in Contents /\ app # "gone"
      /\ task[t].dialer = "none"
  BY <1>1, <1>2, WorkHas, UpAtWork DEF Inv, AllFormed, Formed
<1>4. c \in Work /\ c.pc = "block" /\ c.cur = s /\ c.changed /\ c.dialer = "none"
  BY <1>1, <1>3 DEF Work
<1>5. Formed(c)
  BY <1>3, <1>4 DEF Formed
<1>6. /\ astray' \subseteq Subs /\ astray \ {s} \subseteq astray'
      /\ s \notin astray' => ~task[t].overtaken
  BY <1>1, <1>2, <1>3, PartedType DEF Inv
<1>7. s \notin astray' => bridge[s] = g
  BY <1>1, <1>2, <1>6 DEF Inv, AllTrack, Tracks
<1>8. QED
  BY <1>1, <1>2, <1>3, <1>4, <1>5, <1>6, <1>7, CacheStep

-----------------------------------------------------------------------------
(* Stops and starts of the Core.                                           *)
LEMMA StopSafe ==
  ASSUME SubsOK, Inv, NEW t \in Tasks, NEW c, Fresh(c), Stop(t, c) \/ StopFails(t, c),
         app # "gone", task[t].pc \notin {"commit", "put"}
  PROVE  Inv'
<1>1. c \in Work /\ Formed(c) /\ c.pc \notin {"commit", "put", "publish"} /\ c.dialer = "none"
  BY DEF Fresh, Formed
<1>2. Take(t, c) /\ core_running' \in BOOLEAN
  BY DEF Stop, StopFails, Inv, TypeOK
<1>3. CutOthers(t, c) /\ core' = None /\ UNCHANGED <<data, bridge, app, scope, astray>>
  BY <1>2 DEF Take, CutOthers
<1>4. QED
  BY <1>1, <1>2, <1>3, CutStep

LEMMA BlockFailsSafe ==
  ASSUME SubsOK, Inv, NEW t \in Tasks, BlockFails(t)
  PROVE  Inv'
<1>1. PICK c : c = Ended(t)
  OBVIOUS
<1>2. task[t].pc = "block" /\ (Stop(t, c) \/ StopFails(t, c))
  BY <1>1 DEF BlockFails, Failed, At
<1>3. QED
  BY <1>1, <1>2, EndedFresh, UpAtWork, StopSafe

LEMMA ApplySafe ==
  ASSUME SubsOK, Inv, NEW t \in Tasks, Apply(t)
  PROVE  Inv'
<1>1. task[t].pc = "apply" /\ app # "gone"
  BY UpAtWork DEF Apply, At
<1>2. PICK c : c \in {Idle, [Idle EXCEPT !.pc = "start"]} /\ (Stop(t, c) \/ StopFails(t, c))
  BY DEF Apply
<1>3. Fresh(c)
  <2>1. CASE c = Idle
    BY <2>1 DEF Fresh, Idle, Work
  <2>2. CASE c = [Idle EXCEPT !.pc = "start"]
    BY <2>2 DEF Fresh, Idle, Work
  <2>3. QED
    BY <1>2, <2>1, <2>2
<1>4. QED
  BY <1>1, <1>2, <1>3, StopSafe

LEMMA ApplyNothingSafe ==
  ASSUME SubsOK, Inv, NEW t \in Tasks, ApplyNothing(t)
  PROVE  Inv'
<1>1. PICK c : c = Idle
  OBVIOUS
<1>2. /\ task[t].pc = "apply" /\ Set(t, c)
      /\ IF task[t].changed THEN PassOver ELSE UNCHANGED core
      /\ UNCHANGED <<data, bridge, core_running, app, scope, astray>>
  BY <1>1 DEF ApplyNothing, At
<1>3. CoreStep /\ AstrayStep /\ core_running' \in BOOLEAN
  BY <1>2 DEF Inv, TypeOK, CoreStep, AstrayStep
<1>4. c \in Work /\ Formed(c) /\ Tracks(c)
  BY <1>1, IdleFormed DEF Tracks, Idle
<1>5. RowStep /\ app # "gone"
  BY <1>2, SameRows, UpAtWork DEF Inv
<1>6. QED
  BY <1>2, <1>3, <1>4, <1>5, PlainStep

LEMMA StartReadSafe ==
  ASSUME SubsOK, Inv, NEW t \in Tasks, StartRead(t)
  PROVE  Inv'
<1>1. PICK c : c = [Idle EXCEPT !.pc = "publish", !.seen = cache]
  OBVIOUS
<1>2. task[t].pc = "start" /\ core = None /\ Set(t, c)
      /\ UNCHANGED <<data, bridge, core, core_running, app, scope, astray>>
  BY <1>1 DEF StartRead, At
<1>3. cache \in Catalogue /\ app # "gone"
  BY <1>2, UpAtWork DEF Inv, TypeOK
<1>4. c \in Work /\ c.pc = "publish" /\ c.seen = cache /\ ~c.changed /\ c.dialer = "none"
  BY <1>1, <1>3 DEF Idle, Work
<1>5. PlainIf(t, c)
  BY <1>2, <1>3, <1>4 DEF PlainIf, Formed, Tracks
<1>6. QED
  BY <1>2, <1>5, PlainIfStep, SameRows DEF Inv

LEMMA PublishSafe ==
  ASSUME SubsOK, Inv, NEW t \in Tasks, Publish(t)
  PROVE  Inv'
<1>1. PICK c : c = [Idle EXCEPT !.pc = "flag"]
  OBVIOUS
<1>2. /\ task[t].pc = "publish" /\ CutOthers(t, c) /\ core_running' = core_running
      /\ core' = [catalogue |-> task[t].seen, stale |-> task[t].overtaken]
      /\ UNCHANGED <<data, bridge, app, scope, astray>>
  BY <1>1 DEF Publish, CutOthers, At
<1>3. task[t] \in Work /\ task[t].seen \in Catalogue /\ app # "gone"
  BY <1>2, WorkHas, UpAtWork DEF Inv, AllFormed, Formed
<1>4. c \in Work /\ Formed(c) /\ c.pc = "flag" /\ c.dialer = "none"
  BY <1>1 DEF Idle, Work, Formed
<1>5. core' \in [catalogue : Catalogue, stale : BOOLEAN] \cup {None}
  BY <1>2, <1>3 DEF Work
<1>6. ~task[t].overtaken => \A s \in Subs : cache[s] # None => task[t].seen[s] = cache[s]
  BY <1>2 DEF Inv, AllTrack, Tracks
<1>7. core' # None /\ ~core'.stale =>
          \A s \in Subs : cache[s] # None => core'.catalogue[s] = cache[s]
  BY <1>2, <1>6
<1>8. core_running' \in BOOLEAN
  BY <1>2 DEF Inv, TypeOK
<1>9. QED
  BY <1>2, <1>3, <1>4, <1>5, <1>7, <1>8, CutStep

LEMMA SetRunningSafe ==
  ASSUME SubsOK, Inv, NEW t \in Tasks, SetRunning(t)
  PROVE  Inv'
<1>1. PICK c : c = Idle
  OBVIOUS
<1>2. /\ task[t].pc = "flag" /\ Set(t, c) /\ core_running' \in BOOLEAN
      /\ UNCHANGED <<data, bridge, core, app, scope, astray>>
  BY <1>1 DEF SetRunning, At
<1>3. CoreStep /\ AstrayStep
  BY <1>2 DEF Inv, TypeOK, CoreStep, AstrayStep
<1>4. c \in Work /\ Formed(c) /\ Tracks(c)
  BY <1>1, IdleFormed DEF Tracks, Idle
<1>5. RowStep /\ app # "gone" /\ ~task[t].changed
  BY <1>2, SameRows, UpAtWork, UnchangedThere DEF Inv
<1>6. QED
  BY <1>2, <1>3, <1>4, <1>5, PlainStep

LEMMA StopCoreSafe ==
  ASSUME SubsOK, Inv, NEW t \in Tasks, StopCore(t)
  PROVE  Inv'
<1>1. PICK c : c = Idle
  OBVIOUS
<1>2. task[t].pc = "idle" /\ app # "gone" /\ (Stop(t, c) \/ StopFails(t, c))
  BY <1>1 DEF StopCore, Given, At
<1>3. Fresh(c)
  BY <1>1 DEF Fresh, Idle, Work
<1>4. QED
  BY <1>2, <1>3, StopSafe

(* A task without a change goes on to one that is Fresh.                   *)
LEMMA FreshStep ==
  ASSUME SubsOK, Inv, NEW t \in Tasks, NEW c, Fresh(c), Set(t, c), app # "gone",
         task[t].pc \in {"idle", "start", "publish", "upsert", "merge", "restore"}, RowStep,
         UNCHANGED <<bridge, core, core_running, app, scope, astray>>
  PROVE  Inv'
BY FreshIf, UnchangedThere, PlainIfStep

LEMMA ToIdleSafe ==
  ASSUME SubsOK, Inv, NEW t \in Tasks, StartFails(t) \/ MergeFails(t) \/ RestoreDone(t)
  PROVE  Inv'
<1>1. PICK c : c = Idle
  OBVIOUS
<1>2. /\ task[t].pc \in {"start", "publish", "merge", "restore"} /\ Set(t, c)
      /\ UNCHANGED <<data, bridge, core, core_running, app, scope, astray>>
  BY <1>1 DEF StartFails, MergeFails, RestoreDone, At
<1>3. Fresh(c)
  BY <1>1 DEF Fresh, Idle, Work
<1>4. QED
  BY <1>2, <1>3, UpAtWork, FreshStep, SameRows DEF Inv

LEMMA StartCoreSafe ==
  ASSUME SubsOK, Inv, NEW t \in Tasks, StartCore(t)
  PROVE  Inv'
<1>1. PICK c : c = [Idle EXCEPT !.pc = "start"]
  OBVIOUS
<1>2. /\ task[t].pc = "idle" /\ app # "gone" /\ Set(t, c)
      /\ UNCHANGED <<data, bridge, core, core_running, app, scope, astray>>
  BY <1>1 DEF StartCore, Given, At
<1>3. Fresh(c)
  BY <1>1 DEF Fresh, Idle, Work
<1>4. QED
  BY <1>2, <1>3, FreshStep, SameRows DEF Inv

-----------------------------------------------------------------------------
(* The commands that change a row, and the merge.                          *)
LEMMA RowTo ==
  ASSUME TypeOK, NEW s \in Subs, NEW r \in Row, None \notin Row,
         row' = [row EXCEPT ![s] = r], UNCHANGED cache
  PROVE  RowStep
BY DEF TypeOK, RowStep

LEMMA RemovedRows ==
  ASSUME TypeOK, NEW s \in Subs, Removed(s)
  PROVE  RowStep
BY DEF TypeOK, RowStep, Removed, Catalogue

LEMMA RowNone ==
  ASSUME SubsOK
  PROVE  None \notin Row
BY DEF SubsOK

LEMMA CreateSafe ==
  ASSUME SubsOK, Inv, NEW t \in Tasks, NEW s \in Subs, Create(t, s)
  PROVE  Inv'
<1>1. PICK c : c = [Idle EXCEPT !.changed = TRUE, !.pc = "apply"]
  OBVIOUS
<1>2. /\ task[t].pc = "idle" /\ app # "gone" /\ Set(t, c) /\ row' = [row EXCEPT ![s] = "due"]
      /\ UNCHANGED <<cache, bridge, core, core_running, app, scope, astray>>
  BY <1>1 DEF Create, Given, At
<1>3. Fresh(c)
  BY <1>1 DEF Fresh, Idle, Work
<1>4. RowStep
  <2>1. "due" \in Row
    BY DEF Row
  <2>2. QED
    BY <1>2, <2>1, RowTo, RowNone DEF Inv
<1>5. QED
  BY <1>2, <1>3, <1>4, FreshStep

LEMMA EditSafe ==
  ASSUME SubsOK, Inv, NEW t \in Tasks, NEW s \in Subs, NEW r \in Row, Edit(t, s, r)
  PROVE  Inv'
<1>1. PICK c : c = [Idle EXCEPT !.cur = s, !.pc = "upsert", !.got = r]
  OBVIOUS
<1>2. /\ task[t].pc = "idle" /\ app # "gone" /\ Set(t, c)
      /\ UNCHANGED <<data, bridge, core, core_running, app, scope, astray>>
  BY <1>1 DEF Edit, Given, At
<1>3. /\ c \in Work /\ c.pc = "upsert" /\ c.cur = s /\ c.got = r /\ c.dialer = "none"
      /\ ~c.changed
  BY <1>1 DEF Idle, Work
<1>4. PlainIf(t, c)
  BY <1>2, <1>3, UnchangedThere DEF PlainIf, Formed, Tracks
<1>5. QED
  BY <1>2, <1>4, PlainIfStep, SameRows DEF Inv

LEMMA UpsertSafe ==
  ASSUME SubsOK, Inv, NEW t \in Tasks, Upsert(t)
  PROVE  Inv'
<1>1. PICK queued \in BOOLEAN : Set(t, [Idle EXCEPT !.changed = queued, !.pc = "apply"])
  BY DEF Upsert
<1>2. PICK c, s, r : /\ c = [Idle EXCEPT !.changed = queued, !.pc = "apply"]
                     /\ s = task[t].cur /\ r = task[t].got
  OBVIOUS
<1>3. /\ task[t].pc = "upsert" /\ Set(t, c) /\ row' = [row EXCEPT ![s] = r]
      /\ UNCHANGED <<cache, bridge, core, core_running, app, scope, astray>>
  BY <1>1, <1>2 DEF Upsert, At
<1>4. s \in Subs /\ r \in Row
  BY <1>2, <1>3 DEF Inv, AllFormed, Formed
<1>5. Fresh(c)
  BY <1>2 DEF Fresh, Idle, Work
<1>6. RowStep
  BY <1>3, <1>4, RowTo, RowNone DEF Inv
<1>7. QED
  BY <1>3, <1>5, <1>6, UpAtWork, FreshStep

LEMMA DeleteSafe ==
  ASSUME SubsOK, Inv, NEW t \in Tasks, NEW s \in Subs, Delete(t, s)
  PROVE  Inv'
<1>1. PICK queued \in BOOLEAN : Set(t, [Idle EXCEPT !.changed = queued, !.pc = "apply"])
  BY DEF Delete
<1>2. PICK c : c = [Idle EXCEPT !.changed = queued, !.pc = "apply"]
  OBVIOUS
<1>3. /\ task[t].pc = "idle" /\ app # "gone" /\ Set(t, c) /\ Removed(s)
      /\ UNCHANGED <<bridge, core, core_running, app, scope, astray>>
  BY <1>1, <1>2 DEF Delete, Given, At
<1>4. Fresh(c)
  BY <1>2 DEF Fresh, Idle, Work
<1>5. QED
  BY <1>3, <1>4, RemovedRows, FreshStep DEF Inv

LEMMA MergeStartSafe ==
  ASSUME SubsOK, Inv, NEW t \in Tasks, MergeStart(t)
  PROVE  Inv'
<1>1. PICK c : c = [Idle EXCEPT !.pc = "merge"]
  OBVIOUS
<1>2. /\ task[t].pc = "idle" /\ app # "gone" /\ Set(t, c)
      /\ UNCHANGED <<data, bridge, core, core_running, app, scope, astray>>
  BY <1>1 DEF MergeStart, Given, At
<1>3. Fresh(c)
  BY <1>1 DEF Fresh, Idle, Work
<1>4. QED
  BY <1>2, <1>3, FreshStep, SameRows DEF Inv

LEMMA MergeDataSafe ==
  ASSUME SubsOK, Inv, NEW t \in Tasks, NEW s \in Subs,
         MergeDelete(t, s) \/ \E r \in Row : MergeRow(t, s, r)
  PROVE  Inv'
<1>1. CASE MergeDelete(t, s)
  BY <1>1, RemovedRows, DataStep DEF Inv, TypeOK, MergeDelete
<1>2. CASE \E r \in Row : MergeRow(t, s, r)
  BY <1>2, RowTo, RowNone, DataStep DEF Inv, TypeOK, MergeRow
<1>3. QED
  BY <1>1, <1>2

LEMMA MergeContentsSafe ==
  ASSUME SubsOK, Inv, NEW t \in Tasks, NEW s \in Subs, NEW g \in Contents,
         MergeContents(t, s, g)
  PROVE  Inv'
<1>1. PICK c : c = task[t]
  OBVIOUS
<1>2. /\ c.pc = "merge" /\ row[s] # None /\ cache' = [cache EXCEPT ![s] = g]
      /\ Later(s) /\ PassOver /\ SetOvertaking(t, c, Publishing \cup At2("put", s))
      /\ astray' = astray \cup {s} /\ UNCHANGED <<bridge, core_running, app, scope>>
  BY <1>1 DEF MergeContents, At
<1>3. c \in Work /\ Formed(c) /\ app # "gone"
  BY <1>1, <1>2, WorkHas, UpAtWork DEF Inv, AllFormed
<1>4. astray' \subseteq Subs /\ astray \ {s} \subseteq astray' /\ s \in astray'
  BY <1>2 DEF Inv, TypeOK
<1>5. task[t].pc = "merge" /\ (task[t].changed => c.changed)
  BY <1>1, <1>2
<1>6. QED
  BY <1>2, <1>3, <1>4, <1>5, CacheStep

LEMMA MergeDoneSafe ==
  ASSUME SubsOK, Inv, NEW t \in Tasks, MergeDone(t)
  PROVE  Inv'
<1>1. PICK c : c = [Idle EXCEPT !.list = {s \in Subs : row[s] # None}, !.pc = "restore"]
  OBVIOUS
<1>2. /\ task[t].pc = "merge" /\ Set(t, c)
      /\ UNCHANGED <<data, bridge, core, core_running, app, scope, astray>>
  BY <1>1 DEF MergeDone, At
<1>3. Fresh(c)
  BY <1>1 DEF Fresh, Idle, Work
<1>4. QED
  BY <1>2, <1>3, UpAtWork, FreshStep, SameRows DEF Inv

LEMMA RestoreReadSafe ==
  ASSUME SubsOK, Inv, NEW t \in Tasks, RestoreRead(t)
  PROVE  Inv'
<1>1. /\ task[t].pc = "restore"
      /\ UNCHANGED <<data, bridge, core, core_running, app, scope, astray>>
  BY DEF RestoreRead, At
<1>2. /\ task[t] \in Work /\ task[t].list \subseteq Subs /\ task[t].dialer = "none"
      /\ ~task[t].changed /\ app # "gone"
  BY <1>1, WorkHas, UpAtWork, UnchangedThere DEF Inv, AllFormed, Formed, Work
<1>3. PICK s \in task[t].list :
         IF cache[s] = None THEN Set(t, [task[t] EXCEPT !.list = @ \ {s}])
         ELSE Set(t, [task[t] EXCEPT !.list = @ \ {s}, !.cur = s, !.got = cache[s], !.pc = "put"])
  BY DEF RestoreRead
<1>4. CASE cache[s] = None
  <2>1. PICK c : c = [task[t] EXCEPT !.list = @ \ {s}]
    OBVIOUS
  <2>2. Fresh(c)
    BY <1>1, <1>2, <2>1 DEF Fresh, Work
  <2>3. QED
    BY <1>1, <1>2, <1>3, <1>4, <2>1, <2>2, FreshStep, SameRows DEF Inv
<1>5. CASE cache[s] # None
  <2>1. PICK c : c = [task[t] EXCEPT !.list = @ \ {s}, !.cur = s, !.got = cache[s], !.pc = "put"]
    OBVIOUS
  <2>2. s \in Subs /\ cache[s] \in Contents
    BY <1>2, <1>5 DEF Inv, TypeOK, Catalogue
  <2>3. /\ c \in Work /\ c.pc = "put" /\ c.cur = s /\ c.got = cache[s] /\ c.dialer = "none"
        /\ ~c.changed
    BY <1>2, <2>1, <2>2 DEF Work
  <2>4. PlainIf(t, c)
    BY <1>1, <1>2, <2>2, <2>3 DEF PlainIf, Formed, Tracks
  <2>5. QED
    BY <1>1, <1>3, <1>5, <2>1, <2>4, PlainIfStep, SameRows DEF Inv
<1>6. QED
  BY <1>4, <1>5

LEMMA RestorePutSafe ==
  ASSUME SubsOK, Inv, NEW t \in Tasks, RestorePut(t)
  PROVE  Inv'
<1>1. PICK s, g, c : /\ s = task[t].cur /\ g = task[t].got
                     /\ c = [Idle EXCEPT !.list = task[t].list, !.pc = "restore"]
  OBVIOUS
<1>2. /\ task[t].pc = "put" /\ bridge' = [bridge EXCEPT ![s] = g]
      /\ SetOvertaking(t, c, At2("commit", s)) /\ astray' = Parted(t)
      /\ UNCHANGED <<data, core, core_running, app, scope>>
  BY <1>1 DEF RestorePut, At
<1>3. /\ task[t] \in Work /\ s \in Subs /\ g \in Contents /\ app # "gone" /\ ~task[t].changed
  BY <1>1, <1>2, WorkHas, UpAtWork DEF Inv, AllFormed, Formed
<1>4. c \in Work /\ c.pc = "restore" /\ Formed(c)
  BY <1>1, <1>3 DEF Work, Idle, Formed
<1>5. /\ astray' \subseteq Subs /\ astray \ {s} \subseteq astray'
      /\ s \notin astray' => ~task[t].overtaken
  BY <1>1, <1>2, <1>3, PartedType DEF Inv
<1>6. s \notin astray' /\ cache[s] # None => g = cache[s]
  BY <1>1, <1>2, <1>5 DEF Inv, AllTrack, Tracks
<1>7. QED
  BY <1>1, <1>2, <1>3, <1>4, <1>5, <1>6, BridgeStep

-----------------------------------------------------------------------------
(* Time, the end and the next start.                                       *)
LEMMA TimeSafe ==
  ASSUME SubsOK, Inv, NEW s \in Subs, TimePasses(s)
  PROVE  Inv'
<1>1. "due" \in Row
  BY DEF Row
<1>2. QED
  BY <1>1, RowTo, RowNone, DataStep DEF Inv, TypeOK, TimePasses

LEMMA DashboardSafe ==
  ASSUME SubsOK, Inv, Dashboard
  PROVE  Inv'
<1>1. core_running' \in BOOLEAN /\ UNCHANGED <<data, bridge, core, task, app, scope, astray>>
  BY DEF Dashboard
<1>2. RowStep
  BY <1>1, SameRows DEF Inv
<1>3. QED
  BY <1>1, <1>2, DataStep

LEMMA ExitSafe ==
  ASSUME SubsOK, Inv, Exit
  PROVE  Inv'
<1> USE DEF Inv, Exit, data
<1>1. TypeOK' /\ AllFormed' /\ GoneIdle'
  BY DEF TypeOK, AllFormed, GoneIdle
<1>2. AllTrack'
  BY DEF AllTrack, Tracks
<1>3. ChangesAreApplied' /\ BridgeIsCache'
  BY DEF ChangesAreApplied, BridgeIsCache, At2, At
<1>4. QED
  BY <1>1, <1>2, <1>3

LEMMA GoneSafe ==
  ASSUME SubsOK, Inv, Gone
  PROVE  Inv'
<1> USE DEF Inv, Gone, data
<1>1. \A u \in Tasks : task'[u] = Idle
  OBVIOUS
<1>2. TypeOK'
  BY IdleFormed DEF TypeOK, Catalogue
<1>3. AllFormed'
  BY <1>1, IdleFormed DEF AllFormed
<1>4. AllTrack'
  BY <1>1 DEF AllTrack, Tracks, Idle
<1>5. GoneIdle'
  BY <1>1 DEF GoneIdle, Idle
<1>6. ChangesAreApplied' /\ BridgeIsCache'
  BY DEF ChangesAreApplied, BridgeIsCache
<1>7. QED
  BY <1>2, <1>3, <1>4, <1>5, <1>6

LEMMA LaunchSafe ==
  ASSUME SubsOK, Inv, Launch
  PROVE  Inv'
<1> USE DEF Inv, Launch, data
<1>1. TypeOK' /\ AllFormed' /\ GoneIdle'
  BY DEF TypeOK, AllFormed, GoneIdle
<1>2. \A u \in Tasks : task[u].pc = "idle"
  BY DEF GoneIdle, Idle
<1>3. AllTrack'
  BY <1>2 DEF AllTrack, Tracks
<1>4. ChangesAreApplied' /\ BridgeIsCache'
  BY DEF ChangesAreApplied, BridgeIsCache
<1>5. QED
  BY <1>1, <1>3, <1>4

LEMMA StutterSafe ==
  ASSUME Inv, UNCHANGED vars
  PROVE  Inv'
BY DEF Inv, vars, data, TypeOK, AllFormed, Formed, AllTrack, Tracks, GoneIdle,
       ChangesAreApplied, BridgeIsCache, At2, At

-----------------------------------------------------------------------------
LEMMA RefreshSafe ==
  ASSUME SubsOK, Inv, NEW t \in Tasks, RefreshStep(t)
  PROVE  Inv'
<1>1. CASE NextItem(t) \/ BatchDone(t) \/ Begin(t) \/ Select(t) \/ SelectFails(t)
  BY <1>1, NextItemSafe, BatchDoneSafe, BeginSafe, SelectSafe, SelectFailsSafe
<1>2. CASE Fetch(t) \/ FetchFails(t) \/ SetPayload(t) \/ Commit(t) \/ CommitFails(t)
  BY <1>2, FetchSafe, FetchFailsSafe, SetPayloadSafe, CommitSafe, CommitFailsSafe
<1>3. CASE Block(t) \/ BlockFails(t) \/ Apply(t) \/ ApplyNothing(t)
  BY <1>3, BlockSafe, BlockFailsSafe, ApplySafe, ApplyNothingSafe
<1>4. CASE StartRead(t) \/ StartFails(t) \/ Publish(t) \/ SetRunning(t)
  BY <1>4, StartReadSafe, ToIdleSafe, PublishSafe, SetRunningSafe
<1>5. QED
  BY <1>1, <1>2, <1>3, <1>4 DEF RefreshStep

LEMMA InScope ==
  ASSUME SubsOK, TypeOK
  PROVE  scope.subs \subseteq Subs /\ scope.contents \subseteq Contents
BY DEF SubsOK, TypeOK

LEMMA MergeSafe ==
  ASSUME SubsOK, Inv, NEW t \in Tasks, MergeStep(t)
  PROVE  Inv'
<1>1. CASE MergeStart(t) \/ MergeFails(t) \/ MergeDone(t)
  BY <1>1, MergeStartSafe, ToIdleSafe, MergeDoneSafe
<1>2. CASE RestoreRead(t) \/ RestorePut(t) \/ RestoreDone(t)
  BY <1>2, RestoreReadSafe, RestorePutSafe, ToIdleSafe
<1>3. CASE \E s \in scope.subs, r \in Row : MergeRow(t, s, r)
  BY <1>3, InScope, MergeDataSafe DEF Inv
<1>4. CASE \E s \in scope.subs, c \in scope.contents : MergeContents(t, s, c)
  BY <1>4, InScope, MergeContentsSafe DEF Inv
<1>5. CASE \E s \in scope.subs : MergeDelete(t, s)
  BY <1>5, InScope, MergeDataSafe DEF Inv
<1>6. QED
  BY <1>1, <1>2, <1>3, <1>4, <1>5 DEF MergeStep

LEMMA CommandSafe ==
  ASSUME SubsOK, Inv, NEW t \in Tasks, Command(t)
  PROVE  Inv'
<1>1. CASE RefreshAll(t)
  <2>1. PICK list \in SUBSET Subs : list = {s \in Subs : row[s] \in {"due", "later"}}
    OBVIOUS
  <2>2. QED
    BY <1>1, <2>1, BatchSafe DEF RefreshAll, Given
<1>2. CASE StartCore(t) \/ StopCore(t) \/ Upsert(t)
  BY <1>2, StartCoreSafe, StopCoreSafe, UpsertSafe
<1>3. CASE \E s \in scope.subs : RefreshOne(t, s)
  <2>1. PICK s \in Subs : RefreshOne(t, s)
    BY <1>3, InScope DEF Inv
  <2>2. QED
    BY <2>1, BatchSafe DEF RefreshOne, Given
<1>4. CASE \E s \in scope.subs : Create(t, s) \/ Delete(t, s)
  BY <1>4, InScope, CreateSafe, DeleteSafe DEF Inv
<1>5. CASE \E s \in scope.subs, r \in Row : Edit(t, s, r)
  BY <1>5, InScope, EditSafe DEF Inv
<1>6. QED
  BY <1>1, <1>2, <1>3, <1>4, <1>5 DEF Command

LEMMA TickSafe ==
  ASSUME SubsOK, Inv, Tick
  PROVE  Inv'
<1>1. PICK list \in SUBSET Subs : list = {s \in Subs : Due(s)}
  OBVIOUS
<1>2. Batch(Background, list) /\ app # "gone" /\ Background \in Tasks
  BY <1>1 DEF Tick, Tasks
<1>3. QED
  BY <1>2, BatchSafe

LEMMA StepSafe ==
  ASSUME SubsOK, Inv, [Next]_vars
  PROVE  Inv'
<1>1. CASE BackgroundStep
  <2>1. Background \in Tasks
    BY DEF Tasks
  <2>2. QED
    BY <1>1, <2>1, TickSafe, RefreshSafe DEF BackgroundStep
<1>2. CASE \E t \in Users : RefreshStep(t) \/ MergeStep(t) \/ Command(t)
  <2>1. Users \subseteq Tasks
    BY DEF Tasks
  <2>2. QED
    BY <1>2, <2>1, RefreshSafe, MergeSafe, CommandSafe
<1>3. CASE \E s \in Subs : TimePasses(s)
  BY <1>3, TimeSafe
<1>4. CASE Dashboard \/ Exit \/ ExitDone \/ Crash \/ Launch
  BY <1>4, DashboardSafe, ExitSafe, GoneSafe, LaunchSafe DEF ExitDone, Crash
<1>5. CASE UNCHANGED vars
  BY <1>5, StutterSafe
<1>6. QED
  BY <1>1, <1>2, <1>3, <1>4, <1>5 DEF Next

LEMMA InitInv ==
  ASSUME SubsOK, Init
  PROVE  Inv
<1> USE DEF Init
<1>1. TypeOK
  BY IdleFormed DEF TypeOK, Catalogue, Row
<1>2. AllFormed
  BY IdleFormed DEF AllFormed
<1>3. AllTrack
  BY DEF AllTrack, Tracks, Idle
<1>4. GoneIdle /\ ChangesAreApplied /\ BridgeIsCache
  BY DEF GoneIdle, ChangesAreApplied, BridgeIsCache
<1>5. QED
  BY <1>1, <1>2, <1>3, <1>4 DEF Inv

LEMMA Invariance == Spec => []Inv
<1>1. Init => Inv
  BY SubsOK, InitInv
<1>2. Inv /\ [Next]_vars => Inv'
  BY SubsOK, StepSafe
<1>3. QED
  BY <1>1, <1>2, PTL DEF Spec

-----------------------------------------------------------------------------
(* Type correctness; contents never outlive their row.                     *)
THEOREM TypeCorrect == Spec => []TypeOK
<1>1. Inv => TypeOK
  BY DEF Inv
<1>2. QED
  BY <1>1, Invariance, PTL

(* A Core runs what is committed, or a batch or a command is on its way to *)
(* apply_refreshed_subscriptions with changed set, unless the Core was     *)
(* passed over there, since core_running was not set, began to start       *)
(* before a commit, or was there during a merge.                           *)
THEOREM ChangesApplied == Spec => []ChangesAreApplied
<1>1. Inv => ChangesAreApplied
  BY DEF Inv
<1>2. QED
  BY <1>1, Invariance, PTL

(* The bridge hands Mihomo what apply_nodes committed, but while a refresh *)
(* or a restore is between the two, or after they overlapped or failed     *)
(* between the two.                                                        *)
THEOREM BridgeFollows == Spec => []BridgeIsCache
<1>1. Inv => BridgeIsCache
  BY DEF Inv
<1>2. QED
  BY <1>1, Invariance, PTL
=============================================================================
