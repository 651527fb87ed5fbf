----------------------------- MODULE CloudSync -----------------------------
(***************************************************************************)
(* Cloud synchronisation: the server's versioned records and event log,    *)
(* and on every device the local rows, the outbox of encrypted changes,    *)
(* sync_versions and the cursor.                                           *)
(*                                                                         *)
(* A device runs at most one cloud_push_local and one cloud_pull_merge at  *)
(* a time (the user interface refuses the same action twice), next to the  *)
(* commands and the background refresh that edit its rows.  The contents   *)
(* of a row are named by the edit that produced them.                      *)
(***************************************************************************)
EXTENDS Naturals, Sequences, FiniteSets, Functions

CONSTANTS
    Devices,    \* devices of one account
    Records,    \* subscriptions and slots, and the settings record
    Settings,   \* the settings record, as a set: it exists everywhere
    None,       \* an absent row, a tombstone's contents, no version, no task
    PageLimit,  \* events a pull returns (1000 in the code)
    Lossy,      \* whether requests and answers may be lost or late
    Overlap,    \* whether edits, a push and a merge of a device interleave
                \* where the database is read and written in several steps
    Interrupts, \* what may end half-way: a merge between two events, one between
                \* a row and its version, a command before it enqueues
    MaxEdits,   \* bound: edits in a behaviour
    MaxEvents,  \* bound: events after which no push is started
    MaxLate     \* bound: requests in the network nobody waits for

ASSUME ConstantsOK ==
    /\ IsFiniteSet(Records)
    /\ Settings \subseteq Records
    /\ PageLimit \in Nat \ {0}
    /\ Lossy \in BOOLEAN /\ Overlap \in BOOLEAN /\ Interrupts \subseteq {"merge", "version", "enqueue"}
    /\ MaxEdits \in Nat /\ MaxEvents \in Nat /\ MaxLate \in Nat
    /\ None \notin Nat /\ None \notin [edit: Nat, rev: Nat]

VARIABLES
    object,  \* sync_objects: version and contents of every record
    events,  \* sync_events, by seq
    created, \* records some device ever created (their ids are fresh UUIDs)
    edits,   \* the edits made so far
    local,   \* the rows of a device
    at,      \* history: the cloud version a device's row descends from
    known,   \* sync_versions
    outbox,  \* sync_outbox: at most one row for each record
    pending, \* a change written to the row and not yet to the outbox
    cursor,  \* cloud_profiles.last_cursor
    push,    \* the push in progress
    pull,    \* the merge in progress
    late     \* requests whose sender gave up and that may still arrive

server == <<object, events>>
rows == <<created, edits, local, at>>
sync == <<known, outbox, pending>>
tasks == <<cursor, push, pull, late>>
vars == <<object, events, created, edits, local, at, known, outbox, pending,
          cursor, push, pull, late>>

(* sync_version of the row travels with its contents.                      *)
Content == [edit: 0 .. MaxEdits, rev: Nat]
Default == [edit |-> 0, rev |-> 0]
MaybeContent == Content \cup {None}

(* History: at, the version the contents descend from, and own, whether    *)
(* the base is the row's own revision.  id: rows inserted one after the    *)
(* other for a record are distinct rows.                                   *)
Row == [content: MaybeContent, base: Nat, at: Nat, own: BOOLEAN, id: BOOLEAN]
Request == [dev: Devices, rows: [Records -> Row \cup {None}]]
Event == [rec: Records, ver: Nat \ {0}, content: MaybeContent, dev: Devices,
          at: Nat, own: BOOLEAN]

Push == [pc: {"listed", "sent", "answered"}, rows: [Records -> Row \cup {None}],
         accepted: SUBSET Records, ver: [Records -> Nat]]
(* todo: the events still to be applied, by seq.                            *)
Pull == [todo: SUBSET Nat, record: Event \cup {None}, next: Nat]

ASSUME NoneIsNoRecord ==
    /\ None \notin Row /\ None \notin Event /\ None \notin Push /\ None \notin Pull
    /\ None \notin [rec: Records, content: MaybeContent, at: Nat]

(* Every variable holds a value of its type.                               *)
TypeOK ==
    /\ object \in [Records -> [ver: Nat, content: MaybeContent]]
    /\ events \in Seq(Event)
    /\ created \subseteq Records
    /\ edits \in 0 .. MaxEdits
    /\ local \in [Devices -> [Records -> MaybeContent]]
    /\ at \in [Devices -> [Records -> Nat]]
    /\ known \in [Devices -> [Records -> Nat \cup {None}]]
    /\ outbox \in [Devices -> [Records -> Row \cup {None}]]
    /\ pending \in [Devices -> [rec: Records, content: MaybeContent, at: Nat] \cup {None}]
    /\ cursor \in [Devices -> Nat]
    /\ push \in [Devices -> Push \cup {None}]
    /\ pull \in [Devices -> Pull \cup {None}]
    /\ late \subseteq Request
    /\ \A d \in Devices : cursor[d] <= Len(events)
    /\ \A d \in Devices : pull[d] # None => pull[d].todo \subseteq 1 .. Len(events)
                                      /\ pull[d].next <= Len(events)

Init ==
    /\ object = [r \in Records |-> [ver |-> 0, content |-> None]]
    /\ events = <<>>
    /\ created = Settings
    /\ edits = 0
    /\ local = [d \in Devices |-> [r \in Records |-> None]]
    /\ at = [d \in Devices |-> [r \in Records |-> 0]]
    /\ known = [d \in Devices |-> [r \in Records |-> None]]
    /\ outbox = [d \in Devices |-> [r \in Records |-> None]]
    /\ pending = [d \in Devices |-> None]
    /\ cursor = [d \in Devices |-> 0]
    /\ push = [d \in Devices |-> None]
    /\ pull = [d \in Devices |-> None]
    /\ late = {}

-----------------------------------------------------------------------------
(* enqueue_json: the base is the version in sync_versions, or the caller's *)
(* (the revision of the row, 0 for a tombstone); the new row replaces the  *)
(* one the record had.                                                     *)
OutboxRow(d, r, content, seen) ==
    [content |-> content,
     base |-> CASE known[d][r] # None -> known[d][r]
                [] known[d][r] = None /\ content # None -> content.rev
                [] known[d][r] = None /\ content = None -> 0,
     at |-> seen,
     own |-> known[d][r] = None /\ content # None,
     id |-> outbox[d][r] # None /\ ~outbox[d][r].id]

(* Editing is excluded from a merge and from the listing of a push only    *)
(* where Overlap is FALSE.                                                 *)
Listing(d) == push[d] # None /\ push[d].pc = "listed"
MayEdit(d) == pending[d] = None /\ (Overlap \/ (pull[d] = None /\ ~Listing(d)))

WriteRow(d, r, content) ==
    /\ local' = [local EXCEPT ![d][r] = content]
    /\ pending' = [pending EXCEPT ![d] = [rec |-> r, content |-> content, at |-> at[d][r]]]

(* A row is inserted with revision 0; saving settings for the first time   *)
(* inserts theirs.                                                         *)
Create(d, r) ==
    /\ MayEdit(d)
    /\ local[d][r] = None
    /\ r \notin created \/ r \in Settings
    /\ edits < MaxEdits
    /\ edits' = edits + 1
    /\ created' = created \cup {r}
    /\ WriteRow(d, r, [edit |-> edits + 1, rev |-> 0])
    /\ UNCHANGED <<server, at, known, outbox, tasks>>

(* Binding or renaming a slot and changing a subscription bump a revision; *)
(* the larger of the two revisions of a slot, or that of a subscription    *)
(* whose nodes were refreshed, may stay what it was.                       *)
Edit(d, r) ==
    /\ MayEdit(d)
    /\ local[d][r] # None
    /\ edits < MaxEdits
    /\ edits' = edits + 1
    /\ \E rev \in {local[d][r].rev, local[d][r].rev + 1} :
          WriteRow(d, r, [edit |-> edits + 1, rev |-> rev])
    /\ UNCHANGED <<server, created, at, known, outbox, tasks>>

Delete(d, r) ==
    /\ MayEdit(d)
    /\ r \notin Settings
    /\ local[d][r] # None
    /\ WriteRow(d, r, None)
    /\ UNCHANGED <<server, created, edits, at, known, outbox, tasks>>

(* enqueue_slot, enqueue_subscription, enqueue_settings, enqueue_tombstone *)
Enqueue(d) ==
    /\ pending[d] # None
    /\ LET p == pending[d]
       IN outbox' = [outbox EXCEPT ![d][p.rec] = OutboxRow(d, p.rec, p.content, p.at)]
    /\ pending' = [pending EXCEPT ![d] = None]
    /\ UNCHANGED <<server, rows, known, tasks>>

(* The command ends before it (delete_slot when the rebuild fails, or the  *)
(* application itself).                                                    *)
EnqueueSkipped(d) ==
    /\ "enqueue" \in Interrupts
    /\ pending[d] # None
    /\ pending' = [pending EXCEPT ![d] = None]
    /\ UNCHANGED <<server, rows, known, outbox, tasks>>

-----------------------------------------------------------------------------
(* cloud_push_local reads every row (absent settings have defaults) ...    *)
PushList(d) ==
    /\ push[d] = None
    /\ Overlap \/ (pull[d] = None /\ pending[d] = None)
    /\ Len(events) < MaxEvents
    /\ LET content(r) == IF local[d][r] = None THEN Default ELSE local[d][r]
           list == [r \in Records |->
              IF local[d][r] # None \/ r \in Settings
              THEN [content |-> content(r), base |-> 0, at |-> at[d][r],
                    own |-> FALSE, id |-> FALSE]
              ELSE None]
       IN push' = [push EXCEPT ![d] = [pc |-> "listed", rows |-> list, accepted |-> {},
                                       ver |-> [r \in Records |-> 0]]]
    /\ UNCHANGED <<server, rows, sync, cursor, pull, late>>

(* ... enqueues it again, and push_outbox sends these rows together with   *)
(* the tombstones that were in the outbox.                                 *)
PushSend(d) ==
    /\ Listing(d)
    /\ LET list == push[d].rows
           box == [r \in Records |->
              IF list[r] # None THEN OutboxRow(d, r, list[r].content, list[r].at)
                                ELSE outbox[d][r]]
           empty == \A r \in Records : box[r] = None
       IN /\ outbox' = [outbox EXCEPT ![d] = box]
          /\ push' = IF empty THEN [push EXCEPT ![d] = None]
                     ELSE [push EXCEPT ![d].pc = "sent", ![d].rows = box]
    /\ UNCHANGED <<server, rows, known, pending, cursor, pull, late>>

(* Mutant: the base version is not compared.                               *)
AcceptedUnchecked(box) == {r \in Records : box[r] # None}

(* push_records accepts the rows whose base is the version it has.         *)
Accepted(box) == {r \in Records : box[r] # None /\ box[r].base = object[r].ver}

(* Mutant: the version of a record that exists is not counted up.          *)
CommitKeepsVersion(d, box) ==
    LET S == Accepted(box)
        ver(r) == IF object[r].ver = 0 THEN 1 ELSE object[r].ver
    IN /\ object' = [r \in Records |->
             IF r \in S THEN [ver |-> ver(r), content |-> box[r].content] ELSE object[r]]
       /\ \E order \in Bijection(1 .. Cardinality(S), S) :
             events' = events \o [i \in 1 .. Cardinality(S) |->
                [rec |-> order[i], ver |-> ver(order[i]),
                 content |-> box[order[i]].content, dev |-> d,
                 at |-> box[order[i]].at, own |-> box[order[i]].own]]

(* Its transaction: every accepted row gets the next version, and an event *)
(* in the order of the request.                                            *)
Commit(d, box) ==
    LET S == Accepted(box)
    IN /\ object' = [r \in Records |->
             IF r \in S THEN [ver |-> object[r].ver + 1, content |-> box[r].content]
                        ELSE object[r]]
       /\ \E order \in Bijection(1 .. Cardinality(S), S) :
             events' = events \o [i \in 1 .. Cardinality(S) |->
                [rec |-> order[i], ver |-> object[order[i]].ver + 1,
                 content |-> box[order[i]].content, dev |-> d,
                 at |-> box[order[i]].at, own |-> box[order[i]].own]]

ServerPush(d) ==
    /\ push[d] # None /\ push[d].pc = "sent"
    /\ Commit(d, push[d].rows)
    /\ push' = [push EXCEPT ![d].pc = "answered",
                   ![d].accepted = Accepted(push[d].rows),
                   ![d].ver = [r \in Records |-> object[r].ver + 1]]
    /\ UNCHANGED <<rows, sync, cursor, pull, late>>

(* Mutant: the row is deleted by its record, not by its id.                *)
PushAckByRecord(d) ==
    /\ push[d] # None /\ push[d].pc = "answered"
    /\ LET S == push[d].accepted
       IN /\ known' = [known EXCEPT ![d] = [r \in Records |->
                          IF r \in S THEN push[d].ver[r] ELSE known[d][r]]]
          /\ at' = [at EXCEPT ![d] = [r \in Records |->
                       IF r \in S /\ at[d][r] = push[d].rows[r].at THEN push[d].ver[r]
                                                                  ELSE at[d][r]]]
          /\ outbox' = [outbox EXCEPT ![d] = [r \in Records |->
                          IF r \in S THEN None ELSE outbox[d][r]]]
    /\ push' = [push EXCEPT ![d] = None]
    /\ UNCHANGED <<server, created, edits, local, pending, cursor, pull, late>>

(* acknowledge_versions: sync_versions follows the accepted rows, and the  *)
(* rows that were sent leave the outbox; conflicts only make it an error.  *)
PushAck(d) ==
    /\ push[d] # None /\ push[d].pc = "answered"
    /\ LET S == push[d].accepted
       IN /\ known' = [known EXCEPT ![d] = [r \in Records |->
                          IF r \in S THEN push[d].ver[r] ELSE known[d][r]]]
          /\ at' = [at EXCEPT ![d] = [r \in Records |->
                       IF r \in S /\ at[d][r] = push[d].rows[r].at THEN push[d].ver[r]
                                                                  ELSE at[d][r]]]
          /\ outbox' = [outbox EXCEPT ![d] = [r \in Records |->
                          IF r \in S /\ outbox[d][r] = push[d].rows[r] THEN None
                                                                      ELSE outbox[d][r]]]
    /\ push' = [push EXCEPT ![d] = None]
    /\ UNCHANGED <<server, created, edits, local, pending, cursor, pull, late>>

(* The 15-second timeout, a broken connection or the end of the            *)
(* application: nothing is acknowledged, and a request on its way may      *)
(* still arrive.                                                           *)
PushTimeout(d) ==
    /\ Lossy
    /\ push[d] # None
    /\ \/ UNCHANGED late
       \/ /\ push[d].pc = "sent"
          /\ Cardinality(late) < MaxLate
          /\ late' = late \cup {[dev |-> d, rows |-> push[d].rows]}
    /\ push' = [push EXCEPT ![d] = None]
    /\ UNCHANGED <<server, rows, sync, cursor, pull>>

ServerLate(m) ==
    /\ Commit(m.dev, m.rows)
    /\ late' = late \ {m}
    /\ UNCHANGED <<rows, sync, cursor, push, pull>>

-----------------------------------------------------------------------------
(* Mutant: the page is taken to be full.                                   *)
PageEndUnbounded(d) == cursor[d] + PageLimit

(* cloud_pull_merge: the events after the cursor, one page of them.  Rows  *)
(* are applied first and settings last, in the order of the log (which a   *)
(* record sees alike if subscriptions go before slots).                    *)
PageEnd(d) == IF Len(events) <= cursor[d] + PageLimit THEN Len(events)
                                                     ELSE cursor[d] + PageLimit
Page(d) == cursor[d] + 1 .. PageEnd(d)

PullStart(d) ==
    /\ pull[d] = None
    /\ Overlap \/ (push[d] = None /\ pending[d] = None)
    /\ Page(d) # {}
    /\ pull' = [pull EXCEPT ![d] = [todo |-> Page(d), record |-> None,
                                    next |-> PageEnd(d)]]
    /\ UNCHANGED <<server, rows, sync, cursor, push, late>>

RowsTodo(d) == {i \in pull[d].todo : events[i].rec \notin Settings}
First(S) == {i \in S : \A j \in S : i <= j}

(* apply_subscription and apply_slot overwrite the row or delete it, and   *)
(* then record the version.                                                *)
PullApply(d) ==
    /\ pull[d] # None /\ pull[d].record = None
    /\ \E i \in First(RowsTodo(d)) :
          LET e == events[i]
          IN /\ local' = [local EXCEPT ![d][e.rec] = e.content]
             /\ at' = [at EXCEPT ![d][e.rec] = e.ver]
             /\ pull' = [pull EXCEPT ![d].todo = @ \ {i}, ![d].record = e]
    /\ UNCHANGED <<server, created, edits, sync, cursor, push, late>>

PullRecord(d) ==
    /\ pull[d] # None /\ pull[d].record # None
    /\ LET e == pull[d].record
       IN known' = [known EXCEPT ![d][e.rec] = e.ver]
    /\ pull' = [pull EXCEPT ![d].record = None]
    /\ UNCHANGED <<server, rows, outbox, pending, cursor, push, late>>

(* apply_synced_settings bumps the device's own revision and records no    *)
(* version.                                                                *)
PullSettings(d) ==
    /\ pull[d] # None /\ pull[d].record = None /\ RowsTodo(d) = {}
    /\ \E i \in First(pull[d].todo) :
          LET e == events[i]
              rev == IF local[d][e.rec] = None THEN 0 ELSE local[d][e.rec].rev + 1
          IN /\ local' = [local EXCEPT ![d][e.rec] = [edit |-> e.content.edit, rev |-> rev]]
             /\ at' = [at EXCEPT ![d][e.rec] = e.ver]
             /\ pull' = [pull EXCEPT ![d].todo = @ \ {i}]
    /\ UNCHANGED <<server, created, edits, sync, cursor, push, late>>

(* Mutant: the cursor passes the events of a merge that failed.            *)
PullFailAdvances(d) ==
    /\ pull[d] # None
    /\ (IF pull[d].record = None THEN "merge" ELSE "version") \in Interrupts
    /\ cursor' = [cursor EXCEPT ![d] = pull[d].next]
    /\ pull' = [pull EXCEPT ![d] = None]
    /\ UNCHANGED <<server, rows, sync, push, late>>

(* A port conflict, an unknown node, a subscription in use or a lost answer *)
(* before a row is written, a failing statement or the end of the           *)
(* application even after it: what was applied stays.                      *)
PullFail(d) ==
    /\ pull[d] # None
    /\ (IF pull[d].record = None THEN "merge" ELSE "version") \in Interrupts
    /\ pull' = [pull EXCEPT ![d] = None]
    /\ UNCHANGED <<server, rows, sync, cursor, push, late>>

PullDone(d) ==
    /\ pull[d] # None /\ pull[d].record = None /\ pull[d].todo = {}
    /\ cursor' = [cursor EXCEPT ![d] = pull[d].next]
    /\ pull' = [pull EXCEPT ![d] = None]
    /\ UNCHANGED <<server, rows, sync, push, late>>

-----------------------------------------------------------------------------
Device(d) ==
    \/ \E r \in Records : Create(d, r) \/ Edit(d, r) \/ Delete(d, r)
    \/ Enqueue(d) \/ EnqueueSkipped(d)
    \/ PushList(d) \/ PushSend(d) \/ PushAck(d) \/ PushTimeout(d)
    \/ PullStart(d) \/ PullApply(d) \/ PullRecord(d) \/ PullSettings(d)
    \/ PullFail(d) \/ PullDone(d)

Server ==
    \/ \E d \in Devices : ServerPush(d)
    \/ \E m \in late : ServerLate(m)

Next == (\E d \in Devices : Device(d)) \/ Server

Spec == Init /\ [][Next]_vars

-----------------------------------------------------------------------------
(* The log is the history of the records: for every record it holds the    *)
(* versions 1, 2, ... up to the stored one exactly once and in order, and  *)
(* the newest event has the stored contents.  This is what push_records    *)
(* owes to pull_records, whatever requests are lost, repeated or late.     *)
VersionsInOrder ==
    \A i, j \in 1 .. Len(events) :
        i < j /\ events[i].rec = events[j].rec => events[i].ver < events[j].ver
VersionsReached ==
    \A i \in 1 .. Len(events) : events[i].ver <= object[events[i].rec].ver
VersionsComplete ==
    \A r \in Records : \A v \in 1 .. object[r].ver :
        \E i \in 1 .. Len(events) : events[i].rec = r /\ events[i].ver = v
NewestStored ==
    \A i \in 1 .. Len(events) :
        events[i].ver = object[events[i].rec].ver =>
            events[i].content = object[events[i].rec].content
LogConsistent ==
    VersionsInOrder /\ VersionsReached /\ VersionsComplete /\ NewestStored

(* push_records implements an append-only log with gap-free versions.      *)
AsLog == [i \in 1 .. Len(events) |->
             [rec |-> events[i].rec, ver |-> events[i].ver, val |-> events[i].content]]
Log == INSTANCE VersionedLog WITH Values <- MaybeContent, log <- AsLog
ImplementsLog == Log!Spec

(* Version e was replaced by version f of a device whose row does not      *)
(* descend from e, and which did not replace e itself before.              *)
Blind(e, f) ==
    /\ e.rec = f.rec /\ e.dev # f.dev
    /\ f.at < e.ver /\ e.ver < f.ver
    /\ ~\E k \in 1 .. Len(events) :
          /\ events[k].rec = e.rec /\ events[k].dev = f.dev
          /\ e.ver < events[k].ver /\ events[k].ver < f.ver

(* Optimistic concurrency: push_records lets a device replace only versions*)
(* it has seen, whatever answers are lost, if the base of the upload was   *)
(* the one in sync_versions (and not the row's own revision).              *)
NoBlindOverwriteOfKnown ==
    \A i, j \in 1 .. Len(events) : Blind(events[i], events[j]) => events[j].own

Idle(d) == pending[d] = None /\ push[d] = None /\ pull[d] = None

SameEdit(c, e) == IF c = None \/ e = None THEN c = e ELSE c.edit = e.edit

(* What a row with nothing queued holds is in the cloud, at the version     *)
(* recorded for it unless the device is still going to merge the record    *)
(* (again): an acknowledgement drops no change made while the upload was   *)
(* under way, and a merge that is cut short leaves nothing that only this  *)
(* device has.                                                             *)
UnqueuedIsRecorded ==
    \A d \in Devices : \A r \in Records \ Settings :
        Idle(d) /\ outbox[d][r] = None =>
            \/ local[d][r] = None /\ known[d][r] = None
            \/ \E i \in 1 .. Len(events) :
                  /\ events[i].rec = r /\ SameEdit(local[d][r], events[i].content)
                  /\ \/ events[i].ver = known[d][r]
                     \/ \E j \in cursor[d] + 1 .. Len(events) : events[j].rec = r

-----------------------------------------------------------------------------
(* The cursor of a device covers only events whose versions it has taken   *)
(* over: a merge that fails half-way loses none of them, and no answer to  *)
(* an upload sets a version back.                                          *)
MergedIsKnown ==
    \A d \in Devices : \A i \in 1 .. cursor[d] :
        \/ events[i].rec \in Settings
        \/ /\ known[d][events[i].rec] # None
           /\ known[d][events[i].rec] >= events[i].ver

(* With Overlap an answer can: then the version it sets is one that the    *)
(* device itself uploaded.                                                 *)
Wrote(log, d, r, v) ==
    \E i \in 1 .. Len(log) : log[i].rec = r /\ log[i].ver = v /\ log[i].dev = d

MergedOrOwnIsKnown ==
    \A d \in Devices : \A i \in 1 .. cursor[d] :
        LET r == events[i].rec
        IN \/ r \in Settings
           \/ /\ known[d][r] # None
              /\ known[d][r] >= events[i].ver \/ Wrote(events, d, r, known[d][r])

(* A change leaves the outbox only once the cloud has it, or for a newer   *)
(* one of its record: an answer removes just the rows that were sent, and  *)
(* of these the accepted ones.                                             *)
Stored(d, r) ==
    \E i \in 1 .. Len(events) :
        /\ events[i].rec = r /\ events[i].dev = d
        /\ events[i].content = outbox[d][r].content

QueuedUntilStored ==
    [][\A d \in Devices : \A r \in Records :
           outbox[d][r] # None /\ outbox'[d][r] = None => Stored(d, r)]_vars
=============================================================================
