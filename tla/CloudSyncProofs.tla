-------------------------- MODULE CloudSyncProofs --------------------------
(***************************************************************************)
(* Theorems about CloudSync for every set of devices and records, page     *)
(* size and bound, with lost and late requests and whether or not edits, a *)
(* push and a merge of a device interleave: its variables keep their       *)
(* types, the server's log is the history of its records, the server       *)
(* implements VersionedLog, the versions of the events a device's cursor   *)
(* covers are taken over, and an answer drops no change that is not        *)
(* stored.                                                                 *)
(***************************************************************************)
EXTENDS CloudSync, FiniteSetTheorems, SequenceTheorems, TLAPS

-----------------------------------------------------------------------------
(* A row for the outbox is well typed; its contents are the given ones.    *)
LEMMA OutboxRowType ==
    ASSUME TypeOK, NEW d \in Devices, NEW r \in Records,
           NEW c \in MaybeContent, NEW seen \in Nat
    PROVE  OutboxRow(d, r, c, seen) \in Row /\ OutboxRow(d, r, c, seen).content = c
<1> DEFINE base == CASE known[d][r] # None -> known[d][r]
                     [] known[d][r] = None /\ c # None -> c.rev
                     [] known[d][r] = None /\ c = None -> 0
           own == known[d][r] = None /\ c # None
           id == outbox[d][r] # None /\ ~outbox[d][r].id
<1>1. base \in Nat
  <2>1. known[d][r] \in Nat \cup {None}
    BY DEF TypeOK
  <2>2. c # None => c.rev \in Nat
    BY DEF MaybeContent, Content
  <2> QED BY <2>1, <2>2
<1>2. own \in BOOLEAN /\ id \in BOOLEAN
  OBVIOUS
<1>3. OutboxRow(d, r, c, seen) = [content |-> c, base |-> base, at |-> seen, own |-> own, id |-> id]
  BY DEF OutboxRow
<1> HIDE DEF base, own, id
<1> QED BY <1>1, <1>2, <1>3 DEF Row

(* What the transaction of push_records does to records and log.           *)
LEMMA CommitFacts ==
    ASSUME object \in [Records -> [ver: Nat, content: MaybeContent]],
           events \in Seq(Event), NEW d \in Devices,
           NEW box \in [Records -> Row \cup {None}], Commit(d, box)
    PROVE  /\ object' \in [Records -> [ver: Nat, content: MaybeContent]]
           /\ \A r \in Records : object'[r] =
                 IF r \in Accepted(box)
                 THEN [ver |-> object[r].ver + 1, content |-> box[r].content] ELSE object[r]
           /\ events' \in Seq(Event)
           /\ Len(events) <= Len(events')
           /\ \A i \in 1 .. Len(events) : events'[i] = events[i]
           /\ \A i \in Len(events) + 1 .. Len(events') :
                 LET r == events'[i].rec
                 IN /\ r \in Accepted(box)
                    /\ events'[i].ver = object[r].ver + 1
                    /\ events'[i].content = box[r].content /\ events'[i].dev = d
                    /\ events'[i].at = box[r].at /\ events'[i].own = box[r].own
           /\ \A i, j \in Len(events) + 1 .. Len(events') :
                 events'[i].rec = events'[j].rec => i = j
           /\ \A r \in Accepted(box) :
                 \E i \in Len(events) + 1 .. Len(events') : events'[i].rec = r
<1> DEFINE S == Accepted(box)
           n == Cardinality(S)
<1>1. /\ S \subseteq Records
      /\ \A r \in S : box[r] \in Row
  BY DEF Accepted
<1>2. n \in Nat
  BY <1>1, ConstantsOK, FS_Subset, FS_CardinalityType DEF ConstantsOK
<1>3. object' = [r \in Records |->
             IF r \in S THEN [ver |-> object[r].ver + 1, content |-> box[r].content]
                        ELSE object[r]]
  BY DEF Commit
<1>4. PICK order \in Bijection(1 .. n, S) :
        events' = events \o [i \in 1 .. n |->
                [rec |-> order[i], ver |-> object[order[i]].ver + 1,
                 content |-> box[order[i]].content, dev |-> d,
                 at |-> box[order[i]].at, own |-> box[order[i]].own]]
  BY DEF Commit
<1> DEFINE e(i) == [rec |-> order[i], ver |-> object[order[i]].ver + 1,
                    content |-> box[order[i]].content, dev |-> d,
                    at |-> box[order[i]].at, own |-> box[order[i]].own]
           batch == [i \in 1 .. n |-> e(i)]
<1> HIDE DEF S, n
<1>5. /\ order \in [1 .. n -> S]
      /\ \A i, j \in 1 .. n : order[i] = order[j] => i = j
      /\ \A r \in S : \E i \in 1 .. n : order[i] = r
  BY <1>4 DEF Bijection, Injection, Surjection, IsInjective
<1>6. \A i \in 1 .. n : e(i) \in Event
  <2> SUFFICES ASSUME NEW i \in 1 .. n PROVE e(i) \in Event
    OBVIOUS
  <2>1. order[i] \in S /\ order[i] \in Records /\ box[order[i]] \in Row
    BY <1>1, <1>5
  <2>2. object[order[i]].ver \in Nat
    BY <2>1
  <2>3. object[order[i]].ver + 1 \in Nat \ {0}
    BY <2>2
  <2> QED BY <2>1, <2>3 DEF Event, Row
<1>7. batch \in Seq(Event) /\ Len(batch) = n
  BY <1>2, <1>6
<1>8. events' = events \o batch
  BY <1>4
<1>9. /\ events' \in Seq(Event)
      /\ Len(events') = Len(events) + n
      /\ \A i \in 1 .. Len(events) + n :
            events'[i] = IF i <= Len(events) THEN events[i] ELSE batch[i - Len(events)]
  <2> HIDE DEF batch
  <2> QED BY <1>7, <1>8, ConcatProperties
<1>10. Len(events) \in Nat
  OBVIOUS
<1>11. /\ object' \in [Records -> [ver: Nat, content: MaybeContent]]
       /\ \A r \in Records : object'[r] =
             IF r \in S THEN [ver |-> object[r].ver + 1, content |-> box[r].content] ELSE object[r]
  <2>1. ASSUME NEW r \in S
        PROVE  [ver |-> object[r].ver + 1, content |-> box[r].content]
                  \in [ver: Nat, content: MaybeContent]
    <3>1. r \in Records /\ box[r] \in Row
      BY <1>1
    <3>2. object[r].ver \in Nat
      BY <3>1
    <3> QED BY <3>1, <3>2 DEF Row
  <2> QED BY <1>3, <2>1
<1>12. ASSUME NEW i \in Len(events) + 1 .. Len(events')
       PROVE  /\ i - Len(events) \in 1 .. n
              /\ events'[i] = e(i - Len(events))
              /\ events'[i].rec = order[i - Len(events)]
  <2>1. i - Len(events) \in 1 .. n /\ i \in 1 .. Len(events) + n /\ ~(i <= Len(events))
    BY <1>2, <1>9, <1>10
  <2>2. events'[i] = e(i - Len(events))
    BY <1>9, <2>1
  <2> QED BY <2>1, <2>2
<1>13. ASSUME NEW i \in Len(events) + 1 .. Len(events')
       PROVE  LET r == events'[i].rec
              IN /\ r \in S
                 /\ events'[i].ver = object[r].ver + 1
                 /\ events'[i].content = box[r].content /\ events'[i].dev = d
                 /\ events'[i].at = box[r].at /\ events'[i].own = box[r].own
  <2>1. i - Len(events) \in 1 .. n /\ events'[i] = e(i - Len(events))
    BY <1>12
  <2>2. order[i - Len(events)] \in S
    BY <1>5, <2>1
  <2> QED BY <2>1, <2>2
<1>14. ASSUME NEW i \in Len(events) + 1 .. Len(events'),
              NEW j \in Len(events) + 1 .. Len(events'), events'[i].rec = events'[j].rec
       PROVE  i = j
  <2>1. order[i - Len(events)] = order[j - Len(events)]
    <3> HIDE DEF e
    <3> QED BY <1>12, <1>14
  <2>2. i - Len(events) = j - Len(events)
    BY <1>5, <1>12, <2>1
  <2> QED BY <1>9, <1>10, <2>2
<1>15. ASSUME NEW r \in S
       PROVE  \E i \in Len(events) + 1 .. Len(events') : events'[i].rec = r
  <2>1. PICK k \in 1 .. n : order[k] = r
    BY <1>5
  <2>2. k + Len(events) \in Len(events) + 1 .. Len(events')
    BY <1>2, <1>9, <1>10
  <2>3. (k + Len(events)) - Len(events) = k
    BY <1>10
  <2>4. events'[k + Len(events)].rec = r
    <3>1. events'[k + Len(events)].rec = order[(k + Len(events)) - Len(events)]
      BY <1>12, <2>2
    <3> QED BY <2>1, <2>3, <3>1
  <2> QED BY <2>2, <2>4
<1>16. Len(events) <= Len(events') /\ \A i \in 1 .. Len(events) : events'[i] = events[i]
  <2>1. Len(events) <= Len(events')
    BY <1>2, <1>9, <1>10
  <2>2. ASSUME NEW i \in 1 .. Len(events) PROVE events'[i] = events[i]
    <3>1. i \in 1 .. Len(events) + n /\ i <= Len(events)
      BY <1>2, <1>10
    <3> QED BY <1>9, <3>1
  <2> QED BY <2>1, <2>2
<1> QED
  <2> HIDE DEF e, batch
  <2> QED BY <1>9, <1>11, <1>13, <1>14, <1>15, <1>16 DEF S

-----------------------------------------------------------------------------
(* The settings record is never deleted, neither in the log nor on its way *)
(* there: apply_synced_settings finds contents in every event it gets.     *)
(* Type correctness of a merge depends on it.                              *)
RowKept(row) == row # None => row.content # None
LogKept ==
    \A i \in 1 .. Len(events) : events[i].rec \in Settings => events[i].content # None
PendingKept ==
    \A d \in Devices :
        pending[d] # None /\ pending[d].rec \in Settings => pending[d].content # None
OutboxKept == \A d \in Devices : \A r \in Settings : RowKept(outbox[d][r])
PushKept ==
    \A d \in Devices : push[d] # None => \A r \in Settings : RowKept(push[d].rows[r])
LateKept == \A m \in late : \A r \in Settings : RowKept(m.rows[r])
SettingsKept == LogKept /\ PendingKept /\ OutboxKept /\ PushKept /\ LateKept

TypeInv == TypeOK /\ SettingsKept

LEMMA ContentFacts ==
    /\ Default \in Content /\ Content \subseteq MaybeContent /\ None \in MaybeContent
    /\ \A c \in Content : c # None
BY ConstantsOK DEF ConstantsOK, Content, Default, MaybeContent

LEMMA InitTypeInv == Init => TypeInv
<1> SUFFICES ASSUME Init PROVE TypeInv
  OBVIOUS
<1>1. <<>> \in Seq(Event) /\ Len(<<>>) = 0
  OBVIOUS
<1>2. TypeOK
  BY <1>1, ConstantsOK, ContentFacts DEF ConstantsOK, Init, TypeOK
<1>3. SettingsKept
  BY <1>1, ConstantsOK DEF ConstantsOK, Init, SettingsKept, LogKept, PendingKept, OutboxKept,
     PushKept, LateKept, RowKept
<1> QED BY <1>2, <1>3 DEF TypeInv

(* The commands of a device that change a row, and the queueing of the     *)
(* change.                                                                 *)
LEMMA WriteRowType ==
    ASSUME TypeInv, NEW d \in Devices, NEW r \in Records, NEW c \in MaybeContent,
           r \in Settings => c # None, WriteRow(d, r, c)
    PROVE  /\ local' \in [Devices -> [Records -> MaybeContent]]
           /\ pending' \in [Devices -> [rec: Records, content: MaybeContent, at: Nat] \cup {None}]
           /\ PendingKept'
<1> DEFINE p == [rec |-> r, content |-> c, at |-> at[d][r]]
<1>1. p \in [rec: Records, content: MaybeContent, at: Nat]
  BY DEF TypeInv, TypeOK
<1>2. pending' = [pending EXCEPT ![d] = p]
  BY DEF WriteRow
<1>3. local' = [local EXCEPT ![d] = [local[d] EXCEPT ![r] = c]]
  BY DEF WriteRow
<1>4. local' \in [Devices -> [Records -> MaybeContent]]
  BY <1>3 DEF TypeInv, TypeOK
<1>5. PendingKept'
  <2> SUFFICES ASSUME NEW x \in Devices, pending'[x] # None, pending'[x].rec \in Settings
               PROVE  pending'[x].content # None
    BY DEF PendingKept
  <2>1. CASE x = d
    BY <1>2, <2>1 DEF TypeInv, TypeOK
  <2>2. CASE x # d
    BY <1>2, <2>2 DEF TypeInv, TypeOK, SettingsKept, PendingKept
  <2> QED BY <2>1, <2>2
<1> HIDE DEF p
<1> QED BY <1>1, <1>2, <1>4, <1>5 DEF TypeInv, TypeOK

LEMMA EditsType ==
    ASSUME TypeInv, NEW d \in Devices, NEW r \in Records,
           Create(d, r) \/ Edit(d, r) \/ Delete(d, r)
    PROVE  TypeInv'
<1> USE DEF server, tasks
<1>1. /\ local' \in [Devices -> [Records -> MaybeContent]]
      /\ pending' \in [Devices -> [rec: Records, content: MaybeContent, at: Nat] \cup {None}]
      /\ PendingKept'
      /\ edits' \in 0 .. MaxEdits
      /\ created' \subseteq Records
  <2>1. CASE Create(d, r)
    <3>1. edits + 1 \in 0 .. MaxEdits
      BY <2>1, ConstantsOK DEF ConstantsOK, Create, TypeInv, TypeOK
    <3>2. [edit |-> edits + 1, rev |-> 0] \in Content
      BY <3>1 DEF Content
    <3>3. WriteRow(d, r, [edit |-> edits + 1, rev |-> 0])
          /\ edits' = edits + 1 /\ created' = created \cup {r}
      BY <2>1 DEF Create
    <3> QED BY <3>1, <3>2, <3>3, ContentFacts, WriteRowType DEF TypeInv, TypeOK
  <2>2. CASE Edit(d, r)
    <3>1. edits + 1 \in 0 .. MaxEdits /\ edits' = edits + 1
      BY <2>2, ConstantsOK DEF ConstantsOK, Edit, TypeInv, TypeOK
    <3>2. local[d][r] \in Content
      BY <2>2 DEF Edit, TypeInv, TypeOK, MaybeContent
    <3>3. PICK rev \in {local[d][r].rev, local[d][r].rev + 1} :
             WriteRow(d, r, [edit |-> edits + 1, rev |-> rev])
      BY <2>2 DEF Edit
    <3>4. rev \in Nat
      BY <3>2 DEF Content
    <3>5. [edit |-> edits + 1, rev |-> rev] \in Content
      BY <3>1, <3>4 DEF Content
    <3>6. created' = created
      BY <2>2 DEF Edit
    <3> QED BY <3>1, <3>3, <3>5, <3>6, ContentFacts, WriteRowType DEF TypeInv, TypeOK
  <2>3. CASE Delete(d, r)
    <3>1. WriteRow(d, r, None) /\ r \notin Settings /\ UNCHANGED <<created, edits>>
      BY <2>3 DEF Delete
    <3> QED BY <3>1, ContentFacts, WriteRowType DEF TypeInv, TypeOK
  <2> QED BY <2>1, <2>2, <2>3
<1>2. UNCHANGED <<object, events, at, known, outbox, cursor, push, pull, late>>
  BY DEF Create, Edit, Delete
<1>3. TypeOK'
  BY <1>1, <1>2 DEF TypeInv, TypeOK
<1>4. SettingsKept'
  BY <1>1, <1>2 DEF TypeInv, SettingsKept, LogKept, OutboxKept, PushKept, LateKept
<1> QED BY <1>3, <1>4 DEF TypeInv

LEMMA EnqueueType ==
    ASSUME TypeInv, NEW d \in Devices, Enqueue(d) \/ EnqueueSkipped(d)
    PROVE  TypeInv'
<1> USE DEF server, rows, tasks
<1> DEFINE p == pending[d]
           row == OutboxRow(d, p.rec, p.content, p.at)
<1>1. p \in [rec: Records, content: MaybeContent, at: Nat]
  BY DEF Enqueue, EnqueueSkipped, TypeInv, TypeOK
<1>2. /\ p.rec \in Records /\ p.content \in MaybeContent /\ p.at \in Nat
      /\ p.rec \in Settings => p.content # None
  <2>1. p # None
    BY DEF Enqueue, EnqueueSkipped
  <2> QED BY <1>1, <2>1 DEF TypeInv, SettingsKept, PendingKept
<1>3. row \in Row /\ row.content = p.content
  BY <1>2, OutboxRowType DEF TypeInv
<1>4. /\ pending' = [pending EXCEPT ![d] = None]
      /\ UNCHANGED <<object, events, created, edits, local, at, known, cursor, push, pull, late>>
      /\ outbox' = outbox \/ outbox' = [outbox EXCEPT ![d] = [outbox[d] EXCEPT ![p.rec] = row]]
  BY DEF Enqueue, EnqueueSkipped
<1> HIDE DEF row, p
<1>5. outbox' \in [Devices -> [Records -> Row \cup {None}]]
  <2>1. outbox \in [Devices -> [Records -> Row \cup {None}]]
    BY DEF TypeInv, TypeOK
  <2>2. [outbox[d] EXCEPT ![p.rec] = row] \in [Records -> Row \cup {None}]
    BY <1>2, <1>3, <2>1
  <2>3. CASE outbox' = outbox
    BY <2>1, <2>3
  <2>4. CASE outbox' = [outbox EXCEPT ![d] = [outbox[d] EXCEPT ![p.rec] = row]]
    BY <2>1, <2>2, <2>4
  <2> QED BY <1>4, <2>3, <2>4
<1>6. TypeOK'
  BY <1>4, <1>5 DEF TypeInv, TypeOK
<1>7. OutboxKept'
  <2> SUFFICES ASSUME NEW x \in Devices, NEW r \in Settings PROVE RowKept(outbox'[x][r])
    BY DEF OutboxKept
  <2>1. r \in Records
    BY ConstantsOK DEF ConstantsOK
  <2>2. outbox'[x][r] = outbox[x][r] \/ (r = p.rec /\ outbox'[x][r] = row)
    <3>1. outbox \in [Devices -> [Records -> Row \cup {None}]]
      BY DEF TypeInv, TypeOK
    <3>2. CASE outbox' = outbox
      BY <3>2
    <3>3. CASE outbox' = [outbox EXCEPT ![d] = [outbox[d] EXCEPT ![p.rec] = row]]
      BY <1>2, <2>1, <3>1, <3>3
    <3> QED BY <1>4, <3>2, <3>3
  <2> QED BY <1>2, <1>3, <2>2 DEF TypeInv, SettingsKept, OutboxKept, RowKept
<1>8. PendingKept'
  BY <1>4 DEF TypeInv, TypeOK, SettingsKept, PendingKept
<1> QED BY <1>4, <1>6, <1>7, <1>8 DEF TypeInv, SettingsKept, LogKept, PushKept, LateKept

-----------------------------------------------------------------------------
(* The steps of a push.                                                    *)
LEMMA PushListType ==
    ASSUME TypeInv, NEW d \in Devices, PushList(d)
    PROVE  TypeInv'
<1> USE DEF server, rows, sync
<1> DEFINE content(r) == IF local[d][r] = None THEN Default ELSE local[d][r]
           list == [r \in Records |->
              IF local[d][r] # None \/ r \in Settings
              THEN [content |-> content(r), base |-> 0, at |-> at[d][r],
                    own |-> FALSE, id |-> FALSE]
              ELSE None]
           p == [pc |-> "listed", rows |-> list, accepted |-> {}, ver |-> [r \in Records |-> 0]]
<1>1. /\ push' = [push EXCEPT ![d] = p]
      /\ UNCHANGED <<object, events, created, edits, local, at, known, outbox, pending,
                     cursor, pull, late>>
  BY DEF PushList
<1>2. ASSUME NEW r \in Records PROVE content(r) \in Content
  <2>1. local[d][r] \in MaybeContent
    BY DEF TypeInv, TypeOK
  <2> QED BY <2>1, ContentFacts DEF MaybeContent
<1>3. list \in [Records -> Row \cup {None}]
  <2> SUFFICES ASSUME NEW r \in Records
               PROVE  [content |-> content(r), base |-> 0, at |-> at[d][r],
                       own |-> FALSE, id |-> FALSE] \in Row
    OBVIOUS
  <2>1. at[d][r] \in Nat
    BY DEF TypeInv, TypeOK
  <2> QED BY <1>2, <2>1, ContentFacts DEF Row
<1>4. \A r \in Records : RowKept(list[r])
  BY <1>2, ContentFacts DEF RowKept
<1> HIDE DEF list
<1>5. p \in Push
  BY <1>3 DEF Push
<1>6. TypeOK'
  <2> HIDE DEF p
  <2>1. push' \in [Devices -> Push \cup {None}]
    BY <1>1, <1>5 DEF TypeInv, TypeOK
  <2> QED BY <1>1, <2>1 DEF TypeInv, TypeOK
<1>7. PushKept'
  <2> SUFFICES ASSUME NEW x \in Devices, push'[x] # None, NEW r \in Settings
               PROVE  RowKept(push'[x].rows[r])
    BY DEF PushKept
  <2>1. r \in Records
    BY ConstantsOK DEF ConstantsOK
  <2>2. CASE x = d
    BY <1>1, <1>4, <2>1, <2>2 DEF TypeInv, TypeOK
  <2>3. CASE x # d
    BY <1>1, <2>3 DEF TypeInv, TypeOK, SettingsKept, PushKept
  <2> QED BY <2>2, <2>3
<1> QED BY <1>1, <1>6, <1>7 DEF TypeInv, SettingsKept, LogKept, PendingKept, OutboxKept, LateKept

LEMMA PushSendType ==
    ASSUME TypeInv, NEW d \in Devices, PushSend(d)
    PROVE  TypeInv'
<1> USE DEF server, rows
<1> DEFINE list == push[d].rows
           box == [r \in Records |->
              IF list[r] # None THEN OutboxRow(d, r, list[r].content, list[r].at)
                                ELSE outbox[d][r]]
<1>1. /\ outbox' = [outbox EXCEPT ![d] = box]
      /\ \/ push' = [push EXCEPT ![d] = None]
         \/ push' = [push EXCEPT ![d].pc = "sent", ![d].rows = box]
      /\ UNCHANGED <<object, events, created, edits, local, at, known, pending,
                     cursor, pull, late>>
  BY DEF PushSend
<1>2. push[d] \in Push /\ push[d] # None
  BY DEF PushSend, Listing, TypeInv, TypeOK
<1>3. list \in [Records -> Row \cup {None}]
  BY <1>2 DEF Push
<1> HIDE DEF list
<1>4. ASSUME NEW r \in Records
      PROVE  /\ list[r] # None => /\ OutboxRow(d, r, list[r].content, list[r].at) \in Row
                                  /\ OutboxRow(d, r, list[r].content, list[r].at).content
                                        = list[r].content
             /\ outbox[d][r] \in Row \cup {None}
  <2>1. outbox[d][r] \in Row \cup {None}
    BY DEF TypeInv, TypeOK
  <2>2. ASSUME list[r] # None
        PROVE  list[r].content \in MaybeContent /\ list[r].at \in Nat
    BY <1>3, <2>2 DEF Row
  <2> QED BY <2>1, <2>2, OutboxRowType DEF TypeInv
<1>5. box \in [Records -> Row \cup {None}]
  BY <1>4
<1>6. \A r \in Settings : RowKept(box[r])
  <2> SUFFICES ASSUME NEW r \in Settings PROVE RowKept(box[r])
    OBVIOUS
  <2>1. r \in Records
    BY ConstantsOK DEF ConstantsOK
  <2>2. RowKept(list[r]) /\ RowKept(outbox[d][r])
    BY <1>2 DEF list, TypeInv, SettingsKept, PushKept, OutboxKept
  <2>3. CASE list[r] # None
    BY <1>4, <2>1, <2>2, <2>3 DEF RowKept
  <2>4. CASE list[r] = None
    BY <2>1, <2>2, <2>4
  <2> QED BY <2>3, <2>4
<1> HIDE DEF box
<1>7. [push[d] EXCEPT !.pc = "sent", !.rows = box] \in Push
  BY <1>2, <1>5 DEF Push
<1>8. \/ push' = [push EXCEPT ![d] = None]
      \/ push' = [push EXCEPT ![d] = [push[d] EXCEPT !.pc = "sent", !.rows = box]]
  BY <1>1 DEF TypeInv, TypeOK
<1>9. TypeOK'
  <2>1. push' \in [Devices -> Push \cup {None}]
    BY <1>7, <1>8 DEF TypeInv, TypeOK
  <2>2. outbox' \in [Devices -> [Records -> Row \cup {None}]]
    BY <1>1, <1>5 DEF TypeInv, TypeOK
  <2> QED BY <1>1, <2>1, <2>2 DEF TypeInv, TypeOK
<1>10. OutboxKept'
  <2> SUFFICES ASSUME NEW x \in Devices, NEW r \in Settings PROVE RowKept(outbox'[x][r])
    BY DEF OutboxKept
  <2> QED BY <1>1, <1>6 DEF TypeInv, TypeOK, SettingsKept, OutboxKept
<1>11. PushKept'
  <2> SUFFICES ASSUME NEW x \in Devices, push'[x] # None, NEW r \in Settings
               PROVE  RowKept(push'[x].rows[r])
    BY DEF PushKept
  <2>1. CASE x = d
    <3>1. [push[d] EXCEPT !.pc = "sent", !.rows = box].rows = box
      BY <1>2 DEF Push
    <3> QED BY <1>6, <1>8, <2>1, <3>1 DEF TypeInv, TypeOK
  <2>2. CASE x # d
    BY <1>8, <2>2 DEF TypeInv, TypeOK, SettingsKept, PushKept
  <2> QED BY <2>1, <2>2
<1> QED BY <1>1, <1>9, <1>10, <1>11 DEF TypeInv, SettingsKept, LogKept, PendingKept, LateKept

(* A batch reaches the log, of a push or of a late request.                *)
LEMMA CommitType ==
    ASSUME TypeInv, NEW d \in Devices, NEW box \in [Records -> Row \cup {None}],
           \A r \in Settings : RowKept(box[r]), Commit(d, box)
    PROVE  /\ object' \in [Records -> [ver: Nat, content: MaybeContent]]
           /\ events' \in Seq(Event)
           /\ Len(events) <= Len(events')
           /\ LogKept'
<1>1. object \in [Records -> [ver: Nat, content: MaybeContent]] /\ events \in Seq(Event)
  BY DEF TypeInv, TypeOK
<1>2. LogKept'
  <2> SUFFICES ASSUME NEW i \in 1 .. Len(events'), events'[i].rec \in Settings
               PROVE  events'[i].content # None
    BY DEF LogKept
  <2>1. CASE i \in 1 .. Len(events)
    BY <1>1, <2>1, CommitFacts DEF TypeInv, SettingsKept, LogKept
  <2>2. CASE i \in Len(events) + 1 .. Len(events')
    <3> DEFINE r == events'[i].rec
    <3>1. r \in Accepted(box) /\ events'[i].content = box[r].content
      BY <1>1, <2>2, CommitFacts
    <3> QED BY <3>1 DEF Accepted, RowKept
  <2>3. Len(events) \in Nat /\ Len(events') \in Nat
    BY <1>1, CommitFacts
  <2> QED BY <2>1, <2>2, <2>3
<1> QED BY <1>1, <1>2, CommitFacts

LEMMA CursorsStay ==
    ASSUME TypeInv, events' \in Seq(Event), Len(events) <= Len(events'), UNCHANGED <<cursor, pull>>
    PROVE  /\ \A x \in Devices : cursor'[x] <= Len(events')
           /\ \A x \in Devices : pull'[x] # None => pull'[x].todo \subseteq 1 .. Len(events')
                                                 /\ pull'[x].next <= Len(events')
<1>1. Len(events) \in Nat /\ Len(events') \in Nat
  BY DEF TypeInv, TypeOK
<1>2. \A x \in Devices : cursor[x] \in Nat /\ cursor[x] <= Len(events)
  BY DEF TypeInv, TypeOK
<1>3. ASSUME NEW x \in Devices, pull[x] # None
      PROVE  pull[x].todo \subseteq 1 .. Len(events) /\ pull[x].next \in Nat
             /\ pull[x].next <= Len(events)
  <2>1. pull[x] \in Pull
    BY <1>3 DEF TypeInv, TypeOK
  <2> QED BY <1>3, <2>1 DEF TypeInv, TypeOK, Pull
<1> QED BY <1>1, <1>2, <1>3

LEMMA ServerPushType ==
    ASSUME TypeInv, NEW d \in Devices, ServerPush(d)
    PROVE  TypeInv'
<1> USE DEF rows, sync
<1> DEFINE box == push[d].rows
           ver == [r \in Records |-> object[r].ver + 1]
           p == [push[d] EXCEPT !.pc = "answered", !.accepted = Accepted(box), !.ver = ver]
<1>1. push[d] \in Push /\ push[d] # None /\ Commit(d, box)
  BY DEF ServerPush, TypeInv, TypeOK
<1>2. box \in [Records -> Row \cup {None}] /\ \A r \in Settings : RowKept(box[r])
  BY <1>1 DEF Push, TypeInv, SettingsKept, PushKept
<1>3. /\ push' = [push EXCEPT ![d] = p]
      /\ UNCHANGED <<created, edits, local, at, known, outbox, pending, cursor, pull, late>>
  BY DEF ServerPush, TypeInv, TypeOK
<1>4. /\ object' \in [Records -> [ver: Nat, content: MaybeContent]]
      /\ events' \in Seq(Event)
      /\ Len(events) <= Len(events')
      /\ LogKept'
  BY <1>1, <1>2, CommitType
<1>5. p \in Push /\ p.rows = box
  <2>1. ver \in [Records -> Nat]
    BY DEF TypeInv, TypeOK
  <2>2. Accepted(box) \subseteq Records
    BY DEF Accepted
  <2> HIDE DEF ver
  <2> QED BY <1>1, <2>1, <2>2 DEF Push
<1> HIDE DEF p, box
<1>6. TypeOK'
  <2>1. push' \in [Devices -> Push \cup {None}]
    BY <1>3, <1>5 DEF TypeInv, TypeOK
  <2> QED BY <1>3, <1>4, <2>1, CursorsStay DEF TypeInv, TypeOK
<1>7. PushKept'
  <2> SUFFICES ASSUME NEW x \in Devices, push'[x] # None, NEW r \in Settings
               PROVE  RowKept(push'[x].rows[r])
    BY DEF PushKept
  <2>1. CASE x = d
    BY <1>2, <1>3, <1>5, <2>1 DEF TypeInv, TypeOK
  <2>2. CASE x # d
    BY <1>3, <2>2 DEF TypeInv, TypeOK, SettingsKept, PushKept
  <2> QED BY <2>1, <2>2
<1> QED BY <1>3, <1>4, <1>6, <1>7 DEF TypeInv, SettingsKept, PendingKept, OutboxKept, LateKept

LEMMA ServerLateType ==
    ASSUME TypeInv, NEW m \in late, ServerLate(m)
    PROVE  TypeInv'
<1> USE DEF rows, sync
<1>1. m \in Request /\ \A r \in Settings : RowKept(m.rows[r])
  BY DEF TypeInv, TypeOK, SettingsKept, LateKept
<1>2. m.dev \in Devices /\ m.rows \in [Records -> Row \cup {None}]
  BY <1>1 DEF Request
<1>3. /\ Commit(m.dev, m.rows)
      /\ late' = late \ {m}
      /\ UNCHANGED <<created, edits, local, at, known, outbox, pending, cursor, push, pull>>
  BY DEF ServerLate
<1>4. /\ object' \in [Records -> [ver: Nat, content: MaybeContent]]
      /\ events' \in Seq(Event)
      /\ Len(events) <= Len(events')
      /\ LogKept'
  BY <1>1, <1>2, <1>3, CommitType
<1>5. TypeOK'
  BY <1>3, <1>4, CursorsStay DEF TypeInv, TypeOK
<1> QED BY <1>3, <1>4, <1>5 DEF TypeInv, SettingsKept, PendingKept, OutboxKept, PushKept, LateKept

LEMMA PushAckType ==
    ASSUME TypeInv, NEW d \in Devices, PushAck(d)
    PROVE  TypeInv'
<1> USE DEF server
<1> DEFINE S == push[d].accepted
           newKnown == [r \in Records |-> IF r \in S THEN push[d].ver[r] ELSE known[d][r]]
           newAt == [r \in Records |->
                       IF r \in S /\ at[d][r] = push[d].rows[r].at THEN push[d].ver[r]
                                                                  ELSE at[d][r]]
           newBox == [r \in Records |->
                          IF r \in S /\ outbox[d][r] = push[d].rows[r] THEN None
                                                                      ELSE outbox[d][r]]
<1>1. /\ known' = [known EXCEPT ![d] = newKnown]
      /\ at' = [at EXCEPT ![d] = newAt]
      /\ outbox' = [outbox EXCEPT ![d] = newBox]
      /\ push' = [push EXCEPT ![d] = None]
      /\ UNCHANGED <<object, events, created, edits, local, pending, cursor, pull, late>>
  BY DEF PushAck
<1>2. \A r \in Records : push[d].ver[r] \in Nat
  BY DEF PushAck, TypeInv, TypeOK, Push
<1>3. /\ newKnown \in [Records -> Nat \cup {None}]
      /\ newAt \in [Records -> Nat]
      /\ newBox \in [Records -> Row \cup {None}]
  BY <1>2 DEF TypeInv, TypeOK
<1>4. \A r \in Records : newBox[r] \in {None, outbox[d][r]}
  OBVIOUS
<1> HIDE DEF newKnown, newAt, newBox
<1>5. TypeOK'
  <2>1. /\ known' \in [Devices -> [Records -> Nat \cup {None}]]
        /\ at' \in [Devices -> [Records -> Nat]]
    BY <1>1, <1>3 DEF TypeInv, TypeOK
  <2>2. /\ outbox' \in [Devices -> [Records -> Row \cup {None}]]
        /\ push' \in [Devices -> Push \cup {None}]
    BY <1>1, <1>3 DEF TypeInv, TypeOK
  <2> QED BY <1>1, <2>1, <2>2 DEF TypeInv, TypeOK
<1>6. OutboxKept'
  <2> SUFFICES ASSUME NEW x \in Devices, NEW r \in Settings PROVE RowKept(outbox'[x][r])
    BY DEF OutboxKept
  <2>1. r \in Records
    BY ConstantsOK DEF ConstantsOK
  <2>2. outbox'[x][r] \in {None, outbox[x][r]}
    BY <1>1, <1>4, <2>1 DEF TypeInv, TypeOK
  <2> QED BY <2>2 DEF TypeInv, SettingsKept, OutboxKept, RowKept
<1>7. PushKept'
  BY <1>1 DEF TypeInv, TypeOK, SettingsKept, PushKept
<1> QED BY <1>1, <1>5, <1>6, <1>7 DEF TypeInv, SettingsKept, LogKept, PendingKept, LateKept

LEMMA PushTimeoutType ==
    ASSUME TypeInv, NEW d \in Devices, PushTimeout(d)
    PROVE  TypeInv'
<1> USE DEF server, rows, sync
<1> DEFINE m == [dev |-> d, rows |-> push[d].rows]
<1>1. /\ late' = late \/ late' = late \cup {m}
      /\ push' = [push EXCEPT ![d] = None]
      /\ UNCHANGED <<object, events, created, edits, local, at, known, outbox, pending,
                     cursor, pull>>
  BY DEF PushTimeout
<1>2. push[d] \in Push /\ push[d] # None
  BY DEF PushTimeout, TypeInv, TypeOK
<1>3. m \in Request /\ \A r \in Settings : RowKept(m.rows[r])
  BY <1>2 DEF Push, Request, TypeInv, SettingsKept, PushKept
<1> HIDE DEF m
<1>4. late' \subseteq Request
  BY <1>1, <1>3 DEF TypeInv, TypeOK
<1>5. push' \in [Devices -> Push \cup {None}]
  BY <1>1 DEF TypeInv, TypeOK
<1>6. TypeOK'
  BY <1>1, <1>4, <1>5 DEF TypeInv, TypeOK
<1>7. PushKept'
  BY <1>1 DEF TypeInv, TypeOK, SettingsKept, PushKept
<1>8. LateKept'
  BY <1>1, <1>3 DEF TypeInv, SettingsKept, LateKept
<1> QED BY <1>1, <1>6, <1>7, <1>8 DEF TypeInv, SettingsKept, LogKept, PendingKept, OutboxKept

-----------------------------------------------------------------------------
(* The steps of a merge.  They leave the server, the outbox and the pushes *)
(* alone.                                                                  *)
PullFrame == UNCHANGED <<object, events, created, edits, outbox, pending, push, late>>

LEMMA PullFrameType ==
    ASSUME TypeInv, PullFrame,
           local' \in [Devices -> [Records -> MaybeContent]],
           at' \in [Devices -> [Records -> Nat]],
           known' \in [Devices -> [Records -> Nat \cup {None}]],
           cursor' \in [Devices -> Nat],
           pull' \in [Devices -> Pull \cup {None}],
           \A d \in Devices : cursor'[d] <= Len(events),
           \A d \in Devices : pull'[d] # None => pull'[d].todo \subseteq 1 .. Len(events)
                                             /\ pull'[d].next <= Len(events)
    PROVE  TypeInv'
<1>1. TypeOK'
  BY DEF PullFrame, TypeInv, TypeOK
<1>2. SettingsKept'
  BY DEF PullFrame, TypeInv, SettingsKept, LogKept, PendingKept, OutboxKept, PushKept, LateKept
<1> QED BY <1>1, <1>2 DEF TypeInv

(* One device's merge changes; the others keep theirs.                     *)
LEMMA PullOf ==
    ASSUME TypeInv, NEW d \in Devices, NEW p,
           p = None \/ (p \in Pull /\ p.todo \subseteq 1 .. Len(events) /\ p.next <= Len(events)),
           pull' = [pull EXCEPT ![d] = p]
    PROVE  /\ pull' \in [Devices -> Pull \cup {None}]
           /\ \A x \in Devices : pull'[x] # None => pull'[x].todo \subseteq 1 .. Len(events)
                                                /\ pull'[x].next <= Len(events)
<1>1. pull' \in [Devices -> Pull \cup {None}]
  BY DEF TypeInv, TypeOK
<1>2. ASSUME NEW x \in Devices, pull'[x] # None
      PROVE  pull'[x].todo \subseteq 1 .. Len(events) /\ pull'[x].next <= Len(events)
  BY <1>2 DEF TypeInv, TypeOK
<1> QED BY <1>1, <1>2

LEMMA PullStartType ==
    ASSUME TypeInv, NEW d \in Devices, PullStart(d)
    PROVE  TypeInv'
<1> USE DEF server, rows, sync
<1> DEFINE p == [todo |-> Page(d), record |-> None, next |-> PageEnd(d)]
<1>1. /\ pull' = [pull EXCEPT ![d] = p]
      /\ UNCHANGED <<local, at, known, cursor>>
      /\ PullFrame
  BY DEF PullStart, PullFrame
<1>2. /\ cursor[d] \in Nat /\ Len(events) \in Nat
      /\ cursor[d] + PageLimit \in Nat
  BY ConstantsOK DEF ConstantsOK, TypeInv, TypeOK
<1>3. PageEnd(d) \in Nat /\ PageEnd(d) <= Len(events)
  BY <1>2 DEF PageEnd
<1>4. Page(d) \subseteq 1 .. Len(events) /\ Page(d) \subseteq Nat
  BY <1>2, <1>3 DEF Page
<1>5. p \in Pull /\ p.todo \subseteq 1 .. Len(events) /\ p.next <= Len(events)
  BY <1>3, <1>4 DEF Pull
<1> HIDE DEF p
<1> QED
  <2>1. /\ pull' \in [Devices -> Pull \cup {None}]
        /\ \A x \in Devices : pull'[x] # None => pull'[x].todo \subseteq 1 .. Len(events)
                                             /\ pull'[x].next <= Len(events)
    BY <1>1, <1>5, PullOf
  <2>2. /\ local' \in [Devices -> [Records -> MaybeContent]]
        /\ at' \in [Devices -> [Records -> Nat]]
        /\ known' \in [Devices -> [Records -> Nat \cup {None}]]
        /\ cursor' \in [Devices -> Nat] /\ \A x \in Devices : cursor'[x] <= Len(events)
    BY <1>1 DEF TypeInv, TypeOK
  <2> QED BY <1>1, <2>1, <2>2, PullFrameType

(* An event is applied: what a merge still has to do shrinks.              *)
LEMMA EventApplied ==
    ASSUME TypeInv, NEW d \in Devices, pull[d] # None, NEW i \in pull[d].todo,
           NEW rec \in Event \cup {None}, NEW c \in MaybeContent, PullFrame,
           local' = [local EXCEPT ![d][events[i].rec] = c],
           at' = [at EXCEPT ![d][events[i].rec] = events[i].ver],
           pull' = [pull EXCEPT ![d] = [pull[d] EXCEPT !.todo = pull[d].todo \ {i}, !.record = rec]],
           UNCHANGED <<known, cursor>>
    PROVE  TypeInv'
<1> DEFINE p == [pull[d] EXCEPT !.todo = pull[d].todo \ {i}, !.record = rec]
           e == events[i]
<1>1. /\ pull[d] \in Pull
      /\ pull[d].todo \subseteq 1 .. Len(events)
      /\ pull[d].next <= Len(events)
  BY DEF TypeInv, TypeOK
<1>2. e \in Event
  <2>1. i \in 1 .. Len(events) /\ events \in Seq(Event)
    BY <1>1 DEF TypeInv, TypeOK
  <2> QED BY <2>1
<1>3. e.rec \in Records /\ e.ver \in Nat
  BY <1>2 DEF Event
<1>4. p \in Pull /\ p.todo \subseteq 1 .. Len(events) /\ p.next <= Len(events)
  BY <1>1 DEF Pull
<1> HIDE DEF p, e
<1>5. /\ pull' \in [Devices -> Pull \cup {None}]
      /\ \A x \in Devices : pull'[x] # None => pull'[x].todo \subseteq 1 .. Len(events)
                                           /\ pull'[x].next <= Len(events)
  <2>1. pull' = [pull EXCEPT ![d] = p]
    BY DEF p
  <2> QED BY <1>4, <2>1, PullOf
<1>6. local' \in [Devices -> [Records -> MaybeContent]]
  <2>1. local \in [Devices -> [Records -> MaybeContent]]
    BY DEF TypeInv, TypeOK
  <2>2. local' = [local EXCEPT ![d] = [local[d] EXCEPT ![e.rec] = c]]
    BY <2>1 DEF e
  <2>3. [local[d] EXCEPT ![e.rec] = c] \in [Records -> MaybeContent]
    BY <1>3, <2>1
  <2> QED BY <2>1, <2>2, <2>3
<1>7. at' \in [Devices -> [Records -> Nat]]
  <2>1. at \in [Devices -> [Records -> Nat]]
    BY DEF TypeInv, TypeOK
  <2>2. at' = [at EXCEPT ![d] = [at[d] EXCEPT ![e.rec] = e.ver]]
    BY <2>1 DEF e
  <2>3. [at[d] EXCEPT ![e.rec] = e.ver] \in [Records -> Nat]
    BY <1>3, <2>1
  <2> QED BY <2>1, <2>2, <2>3
<1>8. /\ known' \in [Devices -> [Records -> Nat \cup {None}]]
      /\ cursor' \in [Devices -> Nat] /\ \A x \in Devices : cursor'[x] <= Len(events)
  BY DEF TypeInv, TypeOK
<1> QED BY <1>5, <1>6, <1>7, <1>8, PullFrameType

LEMMA PullApplyType ==
    ASSUME TypeInv, NEW d \in Devices, PullApply(d)
    PROVE  TypeInv'
<1> USE DEF server, sync
<1>1. pull[d] \in Pull /\ pull[d] # None /\ pull[d].todo \subseteq 1 .. Len(events)
  BY DEF PullApply, TypeInv, TypeOK
<1>2. PICK i \in First(RowsTodo(d)) :
        /\ local' = [local EXCEPT ![d][events[i].rec] = events[i].content]
        /\ at' = [at EXCEPT ![d][events[i].rec] = events[i].ver]
        /\ pull' = [pull EXCEPT ![d].todo = @ \ {i}, ![d].record = events[i]]
  BY DEF PullApply
<1>3. i \in pull[d].todo
  BY DEF First, RowsTodo
<1>4. events[i] \in Event
  <2>1. i \in 1 .. Len(events) /\ events \in Seq(Event)
    BY <1>1, <1>3 DEF TypeInv, TypeOK
  <2> QED BY <2>1
<1>5. events[i].content \in MaybeContent
  BY <1>4 DEF Event
<1>6. pull' = [pull EXCEPT ![d] = [pull[d] EXCEPT !.todo = pull[d].todo \ {i}, !.record = events[i]]]
  BY <1>2 DEF TypeInv, TypeOK
<1>7. PullFrame /\ UNCHANGED <<known, cursor>>
  BY DEF PullApply, PullFrame
<1> QED BY <1>1, <1>2, <1>3, <1>4, <1>5, <1>6, <1>7, EventApplied

LEMMA PullSettingsType ==
    ASSUME TypeInv, NEW d \in Devices, PullSettings(d)
    PROVE  TypeInv'
<1> USE DEF server, sync
<1>1. pull[d] \in Pull /\ pull[d] # None /\ pull[d].todo \subseteq 1 .. Len(events)
      /\ pull[d].record = None /\ RowsTodo(d) = {}
  BY DEF PullSettings, TypeInv, TypeOK
<1>2. PICK i \in First(pull[d].todo) :
        LET e == events[i]
            rev == IF local[d][e.rec] = None THEN 0 ELSE local[d][e.rec].rev + 1
        IN /\ local' = [local EXCEPT ![d][e.rec] = [edit |-> e.content.edit, rev |-> rev]]
           /\ at' = [at EXCEPT ![d][e.rec] = e.ver]
           /\ pull' = [pull EXCEPT ![d].todo = @ \ {i}]
  BY DEF PullSettings
<1> DEFINE e == events[i]
           rev == IF local[d][e.rec] = None THEN 0 ELSE local[d][e.rec].rev + 1
           c == [edit |-> e.content.edit, rev |-> rev]
<1>3. i \in pull[d].todo /\ i \in 1 .. Len(events) /\ events \in Seq(Event)
  BY <1>1 DEF First, TypeInv, TypeOK
<1>4. e \in Event
  BY <1>3
<1>5. e.content \in Content
  <2>1. e.rec \in Settings
    BY <1>1, <1>3 DEF RowsTodo
  <2>2. e.content # None
    BY <1>3, <2>1 DEF TypeInv, SettingsKept, LogKept
  <2>3. e.content \in MaybeContent
    BY <1>4 DEF Event
  <2> QED BY <2>2, <2>3 DEF MaybeContent
<1>6. rev \in Nat
  <2>1. local[d][e.rec] \in Content \cup {None}
    BY <1>4 DEF Event, TypeInv, TypeOK, MaybeContent
  <2> QED BY <2>1 DEF Content
<1>7. c \in MaybeContent
  <2> HIDE DEF rev, e
  <2>1. c \in Content
    BY <1>5, <1>6 DEF Content
  <2> QED BY <2>1, ContentFacts
<1>8. pull' = [pull EXCEPT ![d] = [pull[d] EXCEPT !.todo = pull[d].todo \ {i}, !.record = None]]
  <2>1. pull' = [pull EXCEPT ![d] = [pull[d] EXCEPT !.todo = pull[d].todo \ {i}]]
    BY <1>2 DEF TypeInv, TypeOK
  <2>2. [pull[d] EXCEPT !.todo = pull[d].todo \ {i}, !.record = None]
          = [pull[d] EXCEPT !.todo = pull[d].todo \ {i}]
    BY <1>1 DEF Pull
  <2> QED BY <2>1, <2>2
<1>9. PullFrame /\ UNCHANGED <<known, cursor>>
  BY DEF PullSettings, PullFrame
<1>10. /\ local' = [local EXCEPT ![d][events[i].rec] = c]
       /\ at' = [at EXCEPT ![d][events[i].rec] = events[i].ver]
  BY <1>2
<1> HIDE DEF c, e, rev
<1> QED BY <1>1, <1>3, <1>7, <1>8, <1>9, <1>10, EventApplied

LEMMA PullRestType ==
    ASSUME TypeInv, NEW d \in Devices, PullRecord(d) \/ PullFail(d) \/ PullDone(d)
    PROVE  TypeInv'
<1> USE DEF server, rows, sync
<1>1. /\ pull[d] \in Pull /\ pull[d] # None
      /\ pull[d].todo \subseteq 1 .. Len(events) /\ pull[d].next <= Len(events)
  BY DEF PullRecord, PullFail, PullDone, TypeInv, TypeOK
<1>2. PullFrame /\ UNCHANGED <<local, at>>
  BY DEF PullRecord, PullFail, PullDone, PullFrame
<1>3. /\ known' \in [Devices -> [Records -> Nat \cup {None}]]
      /\ cursor' \in [Devices -> Nat] /\ \A x \in Devices : cursor'[x] <= Len(events)
  <2>1. CASE PullRecord(d)
    <3> DEFINE e == pull[d].record
    <3>1. e \in Event
      BY <1>1, <2>1 DEF PullRecord, Pull
    <3>2. e.rec \in Records /\ e.ver \in Nat
      BY <3>1 DEF Event
    <3>3. known' = [known EXCEPT ![d] = [known[d] EXCEPT ![e.rec] = e.ver]] /\ cursor' = cursor
      BY <2>1 DEF PullRecord, TypeInv, TypeOK
    <3> HIDE DEF e
    <3> QED BY <3>2, <3>3 DEF TypeInv, TypeOK
  <2>2. CASE PullFail(d)
    BY <2>2 DEF PullFail, TypeInv, TypeOK
  <2>3. CASE PullDone(d)
    <3>1. pull[d].next \in Nat
      BY <1>1 DEF Pull
    <3>2. cursor' = [cursor EXCEPT ![d] = pull[d].next] /\ known' = known
      BY <2>3 DEF PullDone
    <3> QED BY <1>1, <3>1, <3>2 DEF TypeInv, TypeOK
  <2> QED BY <2>1, <2>2, <2>3
<1>4. /\ pull' \in [Devices -> Pull \cup {None}]
      /\ \A x \in Devices : pull'[x] # None => pull'[x].todo \subseteq 1 .. Len(events)
                                           /\ pull'[x].next <= Len(events)
  <2>1. CASE PullRecord(d)
    <3> DEFINE p == [pull[d] EXCEPT !.record = None]
    <3>1. pull' = [pull EXCEPT ![d] = p]
      BY <2>1 DEF PullRecord, TypeInv, TypeOK
    <3>2. p \in Pull /\ p.todo \subseteq 1 .. Len(events) /\ p.next <= Len(events)
      BY <1>1 DEF Pull
    <3> HIDE DEF p
    <3> QED BY <3>1, <3>2, PullOf
  <2>2. CASE PullFail(d) \/ PullDone(d)
    <3>1. pull' = [pull EXCEPT ![d] = None]
      BY <2>2 DEF PullFail, PullDone
    <3> QED BY <3>1, PullOf
  <2> QED BY <2>1, <2>2
<1>5. /\ local' \in [Devices -> [Records -> MaybeContent]]
      /\ at' \in [Devices -> [Records -> Nat]]
  BY <1>2 DEF TypeInv, TypeOK
<1> QED BY <1>2, <1>3, <1>4, <1>5, PullFrameType

-----------------------------------------------------------------------------
LEMMA TypeInvStep == TypeInv /\ [Next]_vars => TypeInv'
<1> SUFFICES ASSUME TypeInv, [Next]_vars PROVE TypeInv'
  OBVIOUS
<1>1. CASE UNCHANGED vars
  BY <1>1 DEF vars, TypeInv, TypeOK, SettingsKept, LogKept, PendingKept, OutboxKept, PushKept,
     LateKept, RowKept
<1>2. ASSUME NEW d \in Devices, Device(d) PROVE TypeInv'
  BY <1>2, EditsType, EnqueueType, PushListType, PushSendType, PushAckType, PushTimeoutType,
     PullStartType, PullApplyType, PullSettingsType, PullRestType DEF Device
<1>3. CASE Server
  BY <1>3, ServerPushType, ServerLateType DEF Server
<1> QED BY <1>1, <1>2, <1>3 DEF Next

(* Every variable keeps its type, in particular a merge never points past  *)
(* the log and never finds a deleted settings record.                      *)
THEOREM TypeCorrect == Spec => []TypeOK
<1>1. TypeInv => TypeOK
  BY DEF TypeInv
<1> QED BY <1>1, InitTypeInv, TypeInvStep, PTL DEF Spec

-----------------------------------------------------------------------------
(* The log is the history of the records.  LogConsistent is inductive on   *)
(* its own over well-typed states: a record's new event gets the version   *)
(* after the stored one, which no event exceeds.                           *)
IInv == TypeInv /\ LogConsistent

LEMMA NewEvents ==
    ASSUME object \in [Records -> [ver: Nat, content: MaybeContent]],
           events \in Seq(Event), NEW d \in Devices,
           NEW box \in [Records -> Row \cup {None}], Commit(d, box),
           NEW i \in Len(events) + 1 .. Len(events')
    PROVE  /\ events'[i].rec \in Accepted(box)
           /\ events'[i].ver = object[events'[i].rec].ver + 1
           /\ events'[i].content = box[events'[i].rec].content /\ events'[i].dev = d
           /\ events'[i].at = box[events'[i].rec].at /\ events'[i].own = box[events'[i].rec].own
<1>1. LET r == events'[i].rec
      IN r \in Accepted(box) /\ events'[i].ver = object[r].ver + 1
         /\ events'[i].content = box[r].content /\ events'[i].dev = d
         /\ events'[i].at = box[r].at /\ events'[i].own = box[r].own
  BY CommitFacts, SMTT(60)
<1> QED BY <1>1

LEMMA CommitLog ==
    ASSUME IInv, NEW d \in Devices, NEW box \in [Records -> Row \cup {None}], Commit(d, box)
    PROVE  LogConsistent'
<1> DEFINE n == Len(events)
           m == Len(events')
           S == Accepted(box)
<1>1. object \in [Records -> [ver: Nat, content: MaybeContent]] /\ events \in Seq(Event)
  BY DEF IInv, TypeInv, TypeOK
<1>2. /\ \A r \in Records : object'[r] =
             IF r \in S THEN [ver |-> object[r].ver + 1, content |-> box[r].content] ELSE object[r]
      /\ events' \in Seq(Event) /\ n <= m
      /\ \A i \in 1 .. n : events'[i] = events[i]
      /\ \A i, j \in n + 1 .. m : events'[i].rec = events'[j].rec => i = j
      /\ \A r \in S : \E i \in n + 1 .. m : events'[i].rec = r
  BY <1>1, CommitFacts
<1>3. ASSUME NEW i \in n + 1 .. m
      PROVE  /\ events'[i].rec \in Accepted(box)
             /\ events'[i].ver = object[events'[i].rec].ver + 1
             /\ events'[i].content = box[events'[i].rec].content
  BY <1>1, NewEvents
<1>4. n \in Nat /\ m \in Nat /\ S \subseteq Records
  BY <1>1, <1>2 DEF Accepted
<1>5. ASSUME NEW i \in 1 .. n PROVE events[i] \in Event
  BY <1>1
<1>6. \A r \in Records : object[r].ver \in Nat
  BY <1>1
<1>61. ASSUME NEW r \in Accepted(box)
      PROVE  object'[r].ver = object[r].ver + 1 /\ object'[r].content = box[r].content
  <2>1. object'[r] = [ver |-> object[r].ver + 1, content |-> box[r].content]
    BY <1>2, <1>4
  <2> QED BY <2>1
<1>62. ASSUME NEW r \in Records, r \notin Accepted(box) PROVE object'[r] = object[r]
  BY <1>2, <1>62
<1>63. ASSUME NEW r \in Records
      PROVE  object[r].ver <= object'[r].ver /\ object'[r].ver \in Nat
  BY <1>6, <1>61, <1>62
<1> HIDE DEF n, m
<1>7. VersionsReached'
  <2> SUFFICES ASSUME NEW i \in 1 .. m PROVE events'[i].ver <= object'[events'[i].rec].ver
    BY DEF VersionsReached, m
  <2>1. CASE i \in 1 .. n
    <3>1. events[i].rec \in Records /\ events[i].ver \in Nat
      BY <1>5, <2>1 DEF Event
    <3>2. events[i].ver <= object[events[i].rec].ver
      BY <2>1 DEF IInv, LogConsistent, VersionsReached, n
    <3>3. object[events[i].rec].ver <= object'[events[i].rec].ver
          /\ object'[events[i].rec].ver \in Nat
      BY <1>63, <3>1
    <3>4. events'[i] = events[i]
      BY <1>2, <2>1
    <3> QED BY <1>6, <3>1, <3>2, <3>3, <3>4
  <2>2. CASE i \in n + 1 .. m
    <3>1. events'[i].rec \in Records
      BY <1>3, <1>4, <2>2
    <3>2. object'[events'[i].rec].ver = events'[i].ver /\ events'[i].ver \in Nat
      BY <1>3, <1>6, <1>61, <2>2, <3>1
    <3> QED BY <3>2
  <2> QED BY <1>4, <2>1, <2>2
<1>8. VersionsInOrder'
  <2> SUFFICES ASSUME NEW i \in 1 .. m, NEW j \in 1 .. m, i < j,
                      events'[i].rec = events'[j].rec
               PROVE  events'[i].ver < events'[j].ver
    BY DEF VersionsInOrder, m
  <2>1. CASE j \in 1 .. n
    <3>1. i \in 1 .. n
      BY <1>4, <2>1
    <3> QED BY <1>2, <2>1, <3>1 DEF IInv, LogConsistent, VersionsInOrder, n
  <2>2. CASE i \in 1 .. n /\ j \in n + 1 .. m
    <3>1. events[i].rec \in Records /\ events[i].ver \in Nat /\ events'[i] = events[i]
      BY <1>2, <1>5, <2>2 DEF Event
    <3>2. events[i].ver <= object[events[i].rec].ver
      BY <2>2 DEF IInv, LogConsistent, VersionsReached, n
    <3>3. events'[j].ver = object[events[i].rec].ver + 1
      BY <1>3, <2>2, <3>1
    <3> QED BY <1>6, <3>1, <3>2, <3>3
  <2>3. CASE i \in n + 1 .. m /\ j \in n + 1 .. m
    BY <1>2, <1>4, <2>3
  <2> QED BY <1>4, <2>1, <2>2, <2>3
<1>9. VersionsComplete'
  <2> SUFFICES ASSUME NEW r \in Records, NEW v \in 1 .. object'[r].ver
               PROVE  \E i \in 1 .. m : events'[i].rec = r /\ events'[i].ver = v
    BY DEF VersionsComplete, m
  <2>1. CASE v \in 1 .. object[r].ver
    <3>1. PICK i \in 1 .. n : events[i].rec = r /\ events[i].ver = v
      BY <2>1 DEF IInv, LogConsistent, VersionsComplete, n
    <3>2. i \in 1 .. m /\ events'[i] = events[i]
      BY <1>2, <1>4
    <3> QED BY <3>1, <3>2
  <2>2. CASE v \notin 1 .. object[r].ver
    <3>1. r \in S /\ v = object[r].ver + 1
      <4>1. CASE r \in S
        <5>1. object'[r].ver = object[r].ver + 1
          BY <1>61, <4>1
        <5> QED BY <1>6, <2>2, <4>1, <5>1
      <4>2. CASE r \notin S
        BY <1>62, <2>2, <4>2
      <4> QED BY <4>1, <4>2
    <3>2. PICK i \in n + 1 .. m : events'[i].rec = r
      BY <1>2, <3>1
    <3>3. events'[i].ver = v
      BY <1>3, <3>1, <3>2
    <3>4. i \in 1 .. m
      BY <1>4
    <3> QED BY <3>2, <3>3, <3>4
  <2> QED BY <2>1, <2>2
<1>10. NewestStored'
  <2> SUFFICES ASSUME NEW i \in 1 .. m, events'[i].ver = object'[events'[i].rec].ver
               PROVE  events'[i].content = object'[events'[i].rec].content
    BY DEF NewestStored, m
  <2>1. CASE i \in 1 .. n
    <3> DEFINE r == events[i].rec
    <3>1. r \in Records /\ events[i].ver \in Nat /\ events'[i] = events[i]
      BY <1>2, <1>5, <2>1 DEF Event
    <3>2. events[i].ver <= object[r].ver
      BY <2>1 DEF IInv, LogConsistent, VersionsReached, n
    <3> HIDE DEF r
    <3>3. r \notin S
      <4> SUFFICES ASSUME r \in S PROVE FALSE
        OBVIOUS
      <4>1. object'[r].ver = object[r].ver + 1
        BY <1>61
      <4>2. events[i].ver = object'[r].ver
        BY <3>1 DEF r
      <4> QED BY <1>6, <3>1, <3>2, <4>1, <4>2
    <3>4. object'[r] = object[r]
      BY <1>62, <3>1, <3>3
    <3> QED BY <2>1, <3>1, <3>4 DEF r, IInv, LogConsistent, NewestStored, n
  <2>2. CASE i \in n + 1 .. m
    <3>1. events'[i].rec \in Accepted(box) /\ events'[i].content = box[events'[i].rec].content
      BY <1>3, <2>2
    <3> QED BY <1>61, <3>1
  <2> QED BY <1>4, <2>1, <2>2
<1> QED BY <1>7, <1>8, <1>9, <1>10 DEF LogConsistent

(* Which steps commit a batch: a push that is still waited for, or a late  *)
(* request.  All others leave the server alone.                            *)
LEMMA ServerSteps ==
    ASSUME TypeInv, [Next]_vars
    PROVE  \/ UNCHANGED <<object, events>>
           \/ \E d \in Devices : \E box \in [Records -> Row \cup {None}] : Commit(d, box)
<1>1. CASE UNCHANGED vars
  BY <1>1 DEF vars
<1>2. ASSUME NEW d \in Devices, Device(d) PROVE UNCHANGED <<object, events>>
  BY <1>2 DEF Device, Create, Edit, Delete, Enqueue, EnqueueSkipped, PushList, PushSend, PushAck,
     PushTimeout, PullStart, PullApply, PullRecord, PullSettings, PullFail, PullDone, server
<1>3. ASSUME NEW d \in Devices, ServerPush(d)
      PROVE  \E box \in [Records -> Row \cup {None}] : Commit(d, box)
  <2>1. push[d] \in Push /\ Commit(d, push[d].rows)
    BY <1>3 DEF ServerPush, TypeInv, TypeOK
  <2> QED BY <2>1 DEF Push
<1>4. ASSUME NEW m \in late, ServerLate(m)
      PROVE  \E d \in Devices : \E box \in [Records -> Row \cup {None}] : Commit(d, box)
  <2>1. m \in Request /\ Commit(m.dev, m.rows)
    BY <1>4 DEF ServerLate, TypeInv, TypeOK
  <2> QED BY <2>1 DEF Request
<1> QED BY <1>1, <1>2, <1>3, <1>4 DEF Next, Server

LEMMA IInvInit == Init => IInv
<1> SUFFICES ASSUME Init PROVE IInv
  OBVIOUS
<1>1. Len(events) = 0 /\ \A r \in Records : object[r] = [ver |-> 0, content |-> None]
  BY DEF Init
<1>2. LogConsistent
  BY <1>1 DEF LogConsistent, VersionsInOrder, VersionsReached, VersionsComplete, NewestStored
<1> QED BY <1>2, InitTypeInv DEF IInv

LEMMA IInvStep == IInv /\ [Next]_vars => IInv'
<1> SUFFICES ASSUME IInv, [Next]_vars PROVE IInv'
  OBVIOUS
<1>1. TypeInv'
  BY TypeInvStep DEF IInv
<1>2. CASE UNCHANGED <<object, events>>
  BY <1>1, <1>2 DEF IInv, LogConsistent, VersionsInOrder, VersionsReached, VersionsComplete,
     NewestStored
<1>3. ASSUME NEW d \in Devices, NEW box \in [Records -> Row \cup {None}], Commit(d, box)
      PROVE  IInv'
  BY <1>1, <1>3, CommitLog DEF IInv
<1> QED BY <1>2, <1>3, ServerSteps DEF IInv

(* For every record the log holds the versions 1, 2, ... in order and once *)
(* each up to the stored one, and the newest event has the stored          *)
(* contents, whatever requests are lost, repeated or late.                 *)
THEOREM LogIsHistory == Spec => []LogConsistent
<1>1. IInv => LogConsistent
  BY DEF IInv
<1> QED BY <1>1, IInvInit, IInvStep, PTL DEF Spec

-----------------------------------------------------------------------------
(* The version the abstract log has reached is the one the server stores.  *)
LEMMA ReachedIsStored ==
    ASSUME IInv, NEW r \in Records
    PROVE  Log!Reached(r) = object[r].ver
<1> DEFINE V == Log!Versions(r)
           top == object[r].ver
<1>1. top \in Nat /\ events \in Seq(Event)
  BY DEF IInv, TypeInv, TypeOK
<1>2. Len(AsLog) = Len(events) /\ Len(events) \in Nat
      /\ \A i \in 1 .. Len(events) :
            AsLog[i] = [rec |-> events[i].rec, ver |-> events[i].ver, val |-> events[i].content]
  BY <1>1 DEF AsLog
<1>21. ASSUME NEW i \in 1 .. Len(events)
       PROVE  AsLog[i].rec = events[i].rec /\ AsLog[i].ver = events[i].ver
  <2>1. AsLog[i] = [rec |-> events[i].rec, ver |-> events[i].ver, val |-> events[i].content]
    BY <1>2
  <2> QED BY <2>1
<1>22. \A i : i \in {j \in 1 .. Len(AsLog) : AsLog[j].rec = r}
             <=> i \in 1 .. Len(events) /\ AsLog[i].rec = r
  BY <1>2
<1>3. V = {0} \cup {AsLog[i].ver : i \in {j \in 1 .. Len(AsLog) : AsLog[j].rec = r}}
  BY DEF Log!Versions
<1>4. top \in V
  <2>1. CASE top = 0
    BY <1>3, <2>1
  <2>2. CASE top # 0
    <3>1. top \in 1 .. object[r].ver
      BY <1>1, <2>2
    <3>2. PICK i \in 1 .. Len(events) : events[i].rec = r /\ events[i].ver = top
      BY <3>1 DEF IInv, LogConsistent, VersionsComplete
    <3>3. i \in {j \in 1 .. Len(AsLog) : AsLog[j].rec = r} /\ AsLog[i].ver = top
      BY <1>21, <1>22, <3>2
    <3> QED BY <1>3, <3>3
  <2> QED BY <2>1, <2>2
<1>5. ASSUME NEW w \in V PROVE w \in Nat /\ w <= top
  <2>1. CASE w = 0
    BY <1>1, <2>1
  <2>2. CASE w # 0
    <3>0. PICK i \in {j \in 1 .. Len(AsLog) : AsLog[j].rec = r} : w = AsLog[i].ver
      BY <1>3, <2>2
    <3>1. i \in 1 .. Len(events) /\ events[i].rec = r /\ w = events[i].ver
      BY <1>21, <1>22, <3>0
    <3>2. events[i] \in Event
      BY <1>1, <3>1
    <3>3. events[i].ver <= object[events[i].rec].ver
      BY <3>1 DEF IInv, LogConsistent, VersionsReached
    <3> QED BY <3>1, <3>2, <3>3 DEF Event
  <2> QED BY <2>1, <2>2
<1> HIDE DEF V, top
<1>6. top \in V /\ \A w \in V : w <= top
  BY <1>4, <1>5
<1>7. \A v \in V : (\A w \in V : w <= v) => v = top
  BY <1>1, <1>4, <1>5
<1>8. Log!Reached(r) = CHOOSE v \in V : \A w \in V : w <= v
  BY DEF Log!Reached, V
<1> QED BY <1>6, <1>7, <1>8 DEF top

LEMMA CommitExtends ==
    ASSUME IInv, TypeInv', NEW d \in Devices, NEW box \in [Records -> Row \cup {None}],
           Commit(d, box)
    PROVE  Log!Extend \/ UNCHANGED AsLog
<1> DEFINE n == Len(events)
           m == Len(events')
<1>1. object \in [Records -> [ver: Nat, content: MaybeContent]] /\ events \in Seq(Event)
      /\ events' \in Seq(Event)
  BY DEF IInv, TypeInv, TypeOK
<1>2. n <= m /\ n \in Nat /\ m \in Nat
  BY <1>1, CommitFacts
<1>3. \A i \in 1 .. n : events'[i] = events[i]
  BY <1>1, CommitFacts
<1>4. ASSUME NEW i \in n + 1 .. m
      PROVE  events'[i].rec \in Records /\ events'[i].ver = object[events'[i].rec].ver + 1
  <2>1. events'[i].rec \in Accepted(box) /\ events'[i].ver = object[events'[i].rec].ver + 1
    BY <1>1, NewEvents
  <2> QED BY <2>1 DEF Accepted
<1>5. ASSUME NEW i \in n + 1 .. m, NEW j \in n + 1 .. m, events'[i].rec = events'[j].rec
      PROVE  i = j
  BY <1>1, <1>5, CommitFacts
<1>6. /\ Len(AsLog) = n
      /\ \A i \in 1 .. n : AsLog[i] =
            [rec |-> events[i].rec, ver |-> events[i].ver, val |-> events[i].content]
      /\ AsLog = [i \in 1 .. n |->
            [rec |-> events[i].rec, ver |-> events[i].ver, val |-> events[i].content]]
  BY <1>2 DEF AsLog
<1>7. /\ Len(AsLog') = m
      /\ \A i \in 1 .. m : AsLog'[i] =
            [rec |-> events'[i].rec, ver |-> events'[i].ver, val |-> events'[i].content]
      /\ AsLog' = [i \in 1 .. m |->
            [rec |-> events'[i].rec, ver |-> events'[i].ver, val |-> events'[i].content]]
  BY <1>2 DEF AsLog
<1>8. \A i \in 1 .. m : events'[i] \in Event
  BY <1>1
<1> HIDE DEF n, m
<1>9. CASE n = m
  <2>1. AsLog' = AsLog
    BY <1>3, <1>6, <1>7, <1>9
  <2> QED BY <2>1
<1>10. CASE n < m
  <2>1. \A i \in 1 .. Len(AsLog) : AsLog'[i] = AsLog[i]
    BY <1>2, <1>3, <1>6, <1>7
  <2>2. ASSUME NEW i \in Len(AsLog) + 1 .. Len(AsLog')
        PROVE  /\ AsLog'[i] \in Log!Entry
               /\ AsLog'[i].ver = Log!Reached(AsLog'[i].rec) + 1
    <3>1. i \in n + 1 .. m /\ i \in 1 .. m
      BY <1>2, <1>6, <1>7
    <3>2. AsLog'[i] = [rec |-> events'[i].rec, ver |-> events'[i].ver, val |-> events'[i].content]
      BY <1>7, <3>1
    <3>3. events'[i] \in Event
      BY <1>8, <3>1
    <3>4. AsLog'[i] \in Log!Entry
      BY <3>2, <3>3 DEF Event, Log!Entry
    <3>5. Log!Reached(events'[i].rec) = object[events'[i].rec].ver
      BY <1>4, <3>1, ReachedIsStored
    <3> QED BY <1>4, <3>1, <3>2, <3>4, <3>5
  <2>3. ASSUME NEW i \in Len(AsLog) + 1 .. Len(AsLog'), NEW j \in Len(AsLog) + 1 .. Len(AsLog'),
               AsLog'[i].rec = AsLog'[j].rec
        PROVE  i = j
    <3>1. i \in n + 1 .. m /\ j \in n + 1 .. m /\ i \in 1 .. m /\ j \in 1 .. m
      BY <1>2, <1>6, <1>7
    <3>2. events'[i].rec = events'[j].rec
      BY <1>7, <2>3, <3>1
    <3> QED BY <1>5, <3>1, <3>2
  <2>4. Len(AsLog') > Len(AsLog)
    BY <1>2, <1>6, <1>7, <1>10
  <2> QED BY <2>1, <2>2, <2>3, <2>4 DEF Log!Extend
<1> QED BY <1>2, <1>9, <1>10

(* push_records implements the append-only log with gap-free versions.     *)
THEOREM ServerImplementsLog == Spec => ImplementsLog
<1>1. Init => Log!Init
  <2> SUFFICES ASSUME Init PROVE AsLog = <<>>
    BY DEF Log!Init
  <2>1. Len(events) = 0
    BY DEF Init
  <2> QED BY <2>1 DEF AsLog
<1>2. IInv /\ IInv' /\ [Next]_vars => [Log!Extend]_AsLog
  <2> SUFFICES ASSUME IInv, IInv', [Next]_vars PROVE Log!Extend \/ UNCHANGED AsLog
    OBVIOUS
  <2>1. CASE UNCHANGED <<object, events>>
    BY <2>1 DEF AsLog
  <2>2. ASSUME NEW d \in Devices, NEW box \in [Records -> Row \cup {None}], Commit(d, box)
        PROVE  Log!Extend \/ UNCHANGED AsLog
    BY <2>2, CommitExtends DEF IInv
  <2> QED BY <2>1, <2>2, ServerSteps DEF IInv
<1> QED BY <1>1, <1>2, IInvInit, IInvStep, PTL DEF Spec, ImplementsLog, Log!Spec

-----------------------------------------------------------------------------
(* The devices.  Everything below is stated for each device alone: a step  *)
(* of another device or of the server only adds events.                    *)

(* What an answer accepted is in the log.                                  *)
Answered(d) ==
    push[d] # None /\ push[d].pc = "answered" =>
        \A r \in push[d].accepted :
            /\ push[d].rows[r] # None
            /\ \E k \in 1 .. Len(events) :
                  /\ events[k].rec = r /\ events[k].ver = push[d].ver[r]
                  /\ events[k].content = push[d].rows[r].content /\ events[k].dev = d

(* A merge works through its page in the order of the log; the events it   *)
(* has passed, or the cursor covers, are recorded, or the one in hand is   *)
(* about to be, or the device has since recorded an upload of its own.     *)
Behind(d) == IF pull[d] = None THEN 1 .. cursor[d] ELSE (1 .. pull[d].next) \ pull[d].todo

InHand(d, i) == pull[d] # None /\ pull[d].record # None /\ pull[d].record = events[i]

InOrder(d) ==
    pull[d] # None =>
        /\ cursor[d] <= pull[d].next
        /\ pull[d].todo \subseteq cursor[d] + 1 .. pull[d].next
        /\ \A i \in Behind(d), k \in pull[d].todo :
              events[i].rec \notin Settings /\ events[k].rec \notin Settings => i < k
        /\ pull[d].record # None =>
              /\ pull[d].record.rec \notin Settings
              /\ \E i \in Behind(d) :
                    /\ cursor[d] < i /\ InHand(d, i)
                    /\ \A j \in Behind(d) : events[j].rec \notin Settings => j <= i

TakenOver(d, r, v) ==
    /\ known[d][r] # None
    /\ known[d][r] >= v \/ Wrote(events, d, r, known[d][r])

Recorded(d) ==
    \A i \in Behind(d) :
        \/ events[i].rec \in Settings
        \/ TakenOver(d, events[i].rec, events[i].ver)
        \/ InHand(d, i)

-----------------------------------------------------------------------------
(* What each step does to its device.                                      *)
Same(x) ==
    /\ local'[x] = local[x] /\ at'[x] = at[x] /\ known'[x] = known[x]
    /\ outbox'[x] = outbox[x] /\ pending'[x] = pending[x] /\ cursor'[x] = cursor[x]
    /\ push'[x] = push[x] /\ pull'[x] = pull[x]

LogGrows ==
    /\ Len(events) \in Nat /\ Len(events') \in Nat /\ Len(events) <= Len(events')
    /\ \A i \in 1 .. Len(events) : events'[i] = events[i]

LEMMA SameLog == TypeInv /\ UNCHANGED events => LogGrows
BY DEF TypeInv, TypeOK, LogGrows

LEMMA OthersSame ==
    ASSUME TypeInv, NEW d \in Devices, Device(d), NEW x \in Devices, x # d
    PROVE  Same(x) /\ LogGrows
<1> USE DEF Same, server, rows, sync, tasks
<1>0. /\ DOMAIN local = Devices /\ DOMAIN at = Devices /\ DOMAIN known = Devices
      /\ DOMAIN outbox = Devices /\ DOMAIN pending = Devices /\ DOMAIN cursor = Devices
      /\ DOMAIN push = Devices /\ DOMAIN pull = Devices
  BY DEF TypeInv, TypeOK
<1>11. UNCHANGED events
  BY DEF Device, Create, Edit, Delete, Enqueue, EnqueueSkipped, PushList, PushSend, PushAck,
     PushTimeout, PullStart, PullApply, PullSettings, PullRecord, PullFail, PullDone
<1> SUFFICES Same(x)
  BY <1>11, SameLog
<1>1. ASSUME NEW r \in Records, Create(d, r) \/ Edit(d, r) \/ Delete(d, r) PROVE Same(x)
  BY <1>0, <1>1 DEF Create, Edit, Delete, WriteRow
<1>2. CASE Enqueue(d) \/ EnqueueSkipped(d)
  BY <1>0, <1>2 DEF Enqueue, EnqueueSkipped
<1>3. CASE PushList(d)
  BY <1>0, <1>3 DEF PushList
<1>4. CASE PushSend(d)
  BY <1>0, <1>4 DEF PushSend
<1>5. CASE PushAck(d)
  BY <1>0, <1>5 DEF PushAck
<1>6. CASE PushTimeout(d)
  BY <1>0, <1>6 DEF PushTimeout
<1>7. CASE PullStart(d)
  BY <1>0, <1>7 DEF PullStart
<1>8. CASE PullApply(d)
  BY <1>0, <1>8 DEF PullApply
<1>9. CASE PullSettings(d)
  BY <1>0, <1>9 DEF PullSettings
<1>10. CASE PullRecord(d) \/ PullFail(d) \/ PullDone(d)
  BY <1>0, <1>10 DEF PullRecord, PullFail, PullDone
<1> QED
  BY <1>1, <1>2, <1>3, <1>4, <1>5, <1>6, <1>7, <1>8, <1>9, <1>10 DEF Device


LEMMA EditFacts ==
    ASSUME NEW d \in Devices, NEW r \in Records,
           Create(d, r) \/ Edit(d, r) \/ Delete(d, r)
    PROVE  UNCHANGED <<object, events, at, known, outbox, cursor, push, pull, late>>
BY DEF Create, Edit, Delete, server, tasks

LEMMA EnqueueFacts ==
    ASSUME TypeInv, NEW d \in Devices, Enqueue(d) \/ EnqueueSkipped(d)
    PROVE  /\ pending[d] # None /\ pending'[d] = None
           /\ pending[d] \in [rec: Records, content: MaybeContent, at: Nat]
           /\ outbox'[d] = IF Enqueue(d)
                THEN [outbox[d] EXCEPT ![pending[d].rec] =
                         OutboxRow(d, pending[d].rec, pending[d].content, pending[d].at)]
                ELSE outbox[d]
           /\ Enqueue(d) \/ "enqueue" \in Interrupts
           /\ UNCHANGED <<object, events, local, at, known, cursor, push, pull, late>>
<1>1. DOMAIN outbox = Devices /\ DOMAIN pending = Devices
  BY DEF TypeInv, TypeOK
<1>2. pending[d] # None /\ pending' = [pending EXCEPT ![d] = None]
      /\ UNCHANGED <<object, events, local, at, known, cursor, push, pull, late>>
  BY DEF Enqueue, EnqueueSkipped, server, rows, tasks
<1>3. CASE Enqueue(d)
  BY <1>1, <1>2, <1>3 DEF Enqueue, TypeInv, TypeOK
<1>4. CASE ~Enqueue(d)
  BY <1>1, <1>2, <1>4 DEF EnqueueSkipped, TypeInv, TypeOK
<1> QED BY <1>3, <1>4

LEMMA ListFacts ==
    ASSUME TypeInv, NEW d \in Devices, PushList(d)
    PROVE  /\ push'[d].pc = "listed"
           /\ UNCHANGED <<object, events, local, at, known, outbox, pending, cursor, pull, late>>
<1> DEFINE content(r) == IF local[d][r] = None THEN Default ELSE local[d][r]
           list == [r \in Records |->
              IF local[d][r] # None \/ r \in Settings
              THEN [content |-> content(r), base |-> 0, at |-> at[d][r],
                    own |-> FALSE, id |-> FALSE]
              ELSE None]
           p == [pc |-> "listed", rows |-> list, accepted |-> {}, ver |-> [r \in Records |-> 0]]
<1>1. /\ push' = [push EXCEPT ![d] = p]
      /\ UNCHANGED <<object, events, local, at, known, outbox, pending, cursor, pull, late>>
  BY DEF PushList, server, rows, sync
<1>2. DOMAIN push = Devices
  BY DEF TypeInv, TypeOK
<1> HIDE DEF list
<1> QED BY <1>1, <1>2

LEMMA SendFacts ==
    ASSUME TypeInv, NEW d \in Devices, PushSend(d)
    PROVE  /\ Listing(d)
           /\ \A r \in Records : outbox'[d][r] =
                 IF push[d].rows[r] # None
                 THEN OutboxRow(d, r, push[d].rows[r].content, push[d].rows[r].at)
                 ELSE outbox[d][r]
           /\ \/ push'[d] = None
              \/ push'[d] # None /\ push'[d].pc = "sent" /\ push'[d].rows = outbox'[d]
           /\ UNCHANGED <<object, events, local, at, known, pending, cursor, pull, late>>
<1> DEFINE row(r) == IF push[d].rows[r] # None
                     THEN OutboxRow(d, r, push[d].rows[r].content, push[d].rows[r].at)
                     ELSE outbox[d][r]
           box == [r \in Records |-> row(r)]
<1>1. DOMAIN outbox = Devices /\ DOMAIN push = Devices
  BY DEF TypeInv, TypeOK
<1>2. /\ Listing(d)
      /\ outbox' = [outbox EXCEPT ![d] = box]
      /\ \/ push' = [push EXCEPT ![d] = None]
         \/ push' = [push EXCEPT ![d].pc = "sent", ![d].rows = box]
      /\ UNCHANGED <<object, events, local, at, known, pending, cursor, pull, late>>
  BY DEF PushSend, server, rows
<1>3. outbox'[d] = box
  BY <1>1, <1>2
<1>4. push[d] \in Push /\ push[d] # None
  BY <1>2 DEF Listing, TypeInv, TypeOK
<1> HIDE DEF box
<1>5. PICK p : p = [push[d] EXCEPT !.pc = "sent", !.rows = box]
  OBVIOUS
<1>6. p.pc = "sent" /\ p.rows = box
  BY <1>4, <1>5 DEF Push
<1>7. push'[d] = None \/ push'[d] = p
  BY <1>1, <1>2, <1>5
<1>8. \A r \in Records : outbox'[d][r] = row(r)
  BY <1>3 DEF box
<1> QED BY <1>2, <1>3, <1>6, <1>7, <1>8

LEMMA AckFacts ==
    ASSUME TypeInv, NEW d \in Devices, PushAck(d)
    PROVE  /\ push[d] # None /\ push[d].pc = "answered" /\ push'[d] = None
           /\ push[d].accepted \subseteq Records
           /\ \A r \in Records :
                 /\ known'[d][r] = IF r \in push[d].accepted THEN push[d].ver[r] ELSE known[d][r]
                 /\ at'[d][r] = at[d][r] \/ (r \in push[d].accepted /\ at'[d][r] = push[d].ver[r])
                 /\ outbox'[d][r] = IF r \in push[d].accepted /\ outbox[d][r] = push[d].rows[r]
                                    THEN None ELSE outbox[d][r]
           /\ UNCHANGED <<object, events, local, pending, cursor, pull, late>>
<1> DEFINE S == push[d].accepted
           k == [r \in Records |-> IF r \in S THEN push[d].ver[r] ELSE known[d][r]]
           a == [r \in Records |-> IF r \in S /\ at[d][r] = push[d].rows[r].at THEN push[d].ver[r]
                                                                  ELSE at[d][r]]
           o == [r \in Records |-> IF r \in S /\ outbox[d][r] = push[d].rows[r] THEN None
                                                                      ELSE outbox[d][r]]
<1>1. DOMAIN outbox = Devices /\ DOMAIN push = Devices /\ DOMAIN known = Devices /\ DOMAIN at = Devices
  BY DEF TypeInv, TypeOK
<1>2. /\ push[d] # None /\ push[d].pc = "answered"
      /\ known' = [known EXCEPT ![d] = k]
      /\ at' = [at EXCEPT ![d] = a]
      /\ outbox' = [outbox EXCEPT ![d] = o]
      /\ push' = [push EXCEPT ![d] = None]
      /\ UNCHANGED <<object, events, local, pending, cursor, pull, late>>
  BY DEF PushAck, server
<1>3. known'[d] = k /\ at'[d] = a /\ outbox'[d] = o /\ push'[d] = None
  <2> HIDE DEF k, a, o
  <2> QED BY <1>1, <1>2
<1>4. S \subseteq Records
  BY <1>2 DEF TypeInv, TypeOK, Push
<1> QED BY <1>2, <1>3, <1>4

LEMMA TimeoutFacts ==
    ASSUME TypeInv, NEW d \in Devices, PushTimeout(d)
    PROVE  /\ push[d] # None /\ push'[d] = None
           /\ \/ late' = late
              \/ push[d].pc = "sent" /\ late' = late \cup {[dev |-> d, rows |-> push[d].rows]}
           /\ UNCHANGED <<object, events, local, at, known, outbox, pending, cursor, pull>>
BY DEF PushTimeout, TypeInv, TypeOK, server, rows, sync

LEMMA StartFacts ==
    ASSUME TypeInv, NEW d \in Devices, PullStart(d)
    PROVE  /\ pull[d] = None
           /\ pull'[d] # None /\ pull'[d].record = None
           /\ pull'[d].todo = cursor[d] + 1 .. pull'[d].next
           /\ pull'[d].next \in Nat /\ cursor[d] <= pull'[d].next
           /\ UNCHANGED <<object, events, local, at, known, outbox, pending, cursor, push, late>>
<1> DEFINE p == [todo |-> Page(d), record |-> None, next |-> PageEnd(d)]
<1>1. DOMAIN pull = Devices /\ cursor[d] \in Nat /\ Len(events) \in Nat /\ cursor[d] <= Len(events)
  BY DEF TypeInv, TypeOK
<1>2. pull' = [pull EXCEPT ![d] = p]
  BY DEF PullStart
<1>3. pull'[d] = p
  <2> HIDE DEF p
  <2> QED BY <1>1, <1>2
<1>4. /\ pull[d] = None
      /\ UNCHANGED <<object, events, local, at, known, outbox, pending, cursor, push, late>>
  BY DEF PullStart, server, rows, sync
<1>5. PageEnd(d) \in Nat /\ cursor[d] <= PageEnd(d)
  BY <1>1, ConstantsOK DEF PageEnd, ConstantsOK
<1>6. p # None
  <2>1. Page(d) \subseteq Nat
    BY <1>1, <1>5 DEF Page
  <2>2. p \in Pull
    BY <1>5, <2>1 DEF Pull
  <2> QED BY <2>2, NoneIsNoRecord
<1> QED BY <1>3, <1>4, <1>5, <1>6 DEF Page

LEMMA ApplyFacts ==
    ASSUME TypeInv, NEW d \in Devices, PullApply(d)
    PROVE  /\ pull[d] # None /\ pull[d].record = None
           /\ \E i \in pull[d].todo :
                 /\ i \in 1 .. Len(events) /\ events[i] \in Event /\ events[i] # None
                 /\ events[i].rec \notin Settings
                 /\ \A j \in pull[d].todo : events[j].rec \notin Settings => i <= j
                 /\ local'[d] = [local[d] EXCEPT ![events[i].rec] = events[i].content]
                 /\ at'[d] = [at[d] EXCEPT ![events[i].rec] = events[i].ver]
                 /\ pull'[d] # None /\ pull'[d].todo = pull[d].todo \ {i}
                 /\ pull'[d].record = events[i] /\ pull'[d].next = pull[d].next
           /\ UNCHANGED <<object, events, known, outbox, pending, cursor, push, late>>
<1>1. /\ pull[d] # None /\ pull[d].record = None /\ pull[d] \in Pull
      /\ pull[d].todo \subseteq 1 .. Len(events)
      /\ UNCHANGED <<object, events, known, outbox, pending, cursor, push, late>>
  BY DEF PullApply, TypeInv, TypeOK, server, sync
<1>2. PICK i \in First(RowsTodo(d)) :
        /\ local' = [local EXCEPT ![d][events[i].rec] = events[i].content]
        /\ at' = [at EXCEPT ![d][events[i].rec] = events[i].ver]
        /\ pull' = [pull EXCEPT ![d].todo = @ \ {i}, ![d].record = events[i]]
  BY DEF PullApply
<1>3. /\ i \in pull[d].todo /\ events[i].rec \notin Settings
      /\ \A j \in pull[d].todo : events[j].rec \notin Settings => i <= j
  BY <1>2 DEF First, RowsTodo
<1>4. i \in 1 .. Len(events) /\ events[i] \in Event
  <2>1. i \in 1 .. Len(events) /\ events \in Seq(Event)
    BY <1>1, <1>3 DEF TypeInv, TypeOK
  <2> QED BY <2>1
<1>5. PICK p : p = [pull[d] EXCEPT !.todo = pull[d].todo \ {i}, !.record = events[i]]
  OBVIOUS
<1>6. p \in Pull /\ p.todo = pull[d].todo \ {i} /\ p.record = events[i] /\ p.next = pull[d].next
  BY <1>1, <1>4, <1>5 DEF Pull
<1>7. pull'[d] = p
  BY <1>2, <1>5 DEF TypeInv, TypeOK
<1>8. /\ local'[d] = [local[d] EXCEPT ![events[i].rec] = events[i].content]
      /\ at'[d] = [at[d] EXCEPT ![events[i].rec] = events[i].ver]
  BY <1>2 DEF TypeInv, TypeOK
<1> QED BY <1>1, <1>3, <1>4, <1>6, <1>7, <1>8, NoneIsNoRecord

LEMMA SettingsFacts ==
    ASSUME TypeInv, NEW d \in Devices, PullSettings(d)
    PROVE  /\ pull[d] # None /\ pull[d].record = None
           /\ \E i \in pull[d].todo :
                 /\ i \in 1 .. Len(events) /\ events[i].rec \in Settings
                 /\ \E c : local'[d] = [local[d] EXCEPT ![events[i].rec] = c]
                 /\ at'[d] = [at[d] EXCEPT ![events[i].rec] = events[i].ver]
                 /\ pull'[d] # None /\ pull'[d].todo = pull[d].todo \ {i}
                 /\ pull'[d].record = None /\ pull'[d].next = pull[d].next
           /\ UNCHANGED <<object, events, known, outbox, pending, cursor, push, late>>
<1>1. /\ pull[d] # None /\ pull[d].record = None /\ pull[d] \in Pull
      /\ pull[d].todo \subseteq 1 .. Len(events) /\ RowsTodo(d) = {}
      /\ UNCHANGED <<object, events, known, outbox, pending, cursor, push, late>>
  BY DEF PullSettings, TypeInv, TypeOK, server, sync
<1>2. PICK i \in First(pull[d].todo) :
        /\ \E c : local' = [local EXCEPT ![d][events[i].rec] = c]
        /\ at' = [at EXCEPT ![d][events[i].rec] = events[i].ver]
        /\ pull' = [pull EXCEPT ![d].todo = @ \ {i}]
  BY DEF PullSettings
<1>3. i \in pull[d].todo /\ events[i].rec \in Settings /\ i \in 1 .. Len(events)
  BY <1>1, <1>2 DEF First, RowsTodo
<1>5. PICK p : p = [pull[d] EXCEPT !.todo = pull[d].todo \ {i}]
  OBVIOUS
<1>6. p \in Pull /\ p.todo = pull[d].todo \ {i} /\ p.record = None /\ p.next = pull[d].next
  BY <1>1, <1>5 DEF Pull
<1>7. pull'[d] = p
  BY <1>2, <1>5 DEF TypeInv, TypeOK
<1>8. /\ \E c : local'[d] = [local[d] EXCEPT ![events[i].rec] = c]
      /\ at'[d] = [at[d] EXCEPT ![events[i].rec] = events[i].ver]
  BY <1>2 DEF TypeInv, TypeOK
<1> QED BY <1>1, <1>3, <1>6, <1>7, <1>8, NoneIsNoRecord

LEMMA RecordFacts ==
    ASSUME TypeInv, NEW d \in Devices, PullRecord(d)
    PROVE  /\ pull[d] # None /\ pull[d].record # None /\ pull[d].record \in Event
           /\ known'[d] = [known[d] EXCEPT ![pull[d].record.rec] = pull[d].record.ver]
           /\ pull'[d] # None /\ pull'[d].todo = pull[d].todo
           /\ pull'[d].record = None /\ pull'[d].next = pull[d].next
           /\ UNCHANGED <<object, events, local, at, outbox, pending, cursor, push, late>>
<1>1. /\ pull[d] # None /\ pull[d].record # None /\ pull[d] \in Pull
      /\ UNCHANGED <<object, events, local, at, outbox, pending, cursor, push, late>>
  BY DEF PullRecord, TypeInv, TypeOK, server, rows
<1>2. PICK p : p = [pull[d] EXCEPT !.record = None]
  OBVIOUS
<1>3. p \in Pull /\ p.todo = pull[d].todo /\ p.record = None /\ p.next = pull[d].next
      /\ pull[d].record \in Event
  BY <1>1, <1>2 DEF Pull
<1>4. pull'[d] = p /\ known'[d] = [known[d] EXCEPT ![pull[d].record.rec] = pull[d].record.ver]
  BY <1>2 DEF PullRecord, TypeInv, TypeOK
<1> QED BY <1>1, <1>3, <1>4, NoneIsNoRecord

LEMMA EndFacts ==
    ASSUME TypeInv, NEW d \in Devices, PullFail(d) \/ PullDone(d)
    PROVE  /\ pull[d] # None /\ pull'[d] = None
           /\ \/ PullFail(d) /\ cursor'[d] = cursor[d]
              \/ pull[d].record = None /\ pull[d].todo = {} /\ cursor'[d] = pull[d].next
           /\ UNCHANGED <<object, events, local, at, known, outbox, pending, push, late>>
<1>1. CASE PullFail(d)
  BY <1>1 DEF PullFail, TypeInv, TypeOK, server, rows, sync
<1>2. CASE PullDone(d)
  BY <1>2 DEF PullDone, TypeInv, TypeOK, server, rows, sync
<1> QED BY <1>1, <1>2

(* What the server does to the devices: an answer, and events of its own.  *)
LEMMA CommitGrows ==
    ASSUME TypeInv, NEW d \in Devices, NEW box \in [Records -> Row \cup {None}], Commit(d, box)
    PROVE  LogGrows
<1>1. /\ events \in Seq(Event)
      /\ object \in [Records -> [ver: Nat, content: MaybeContent]]
  BY DEF TypeInv, TypeOK
<1>2. /\ events' \in Seq(Event) /\ Len(events) <= Len(events')
      /\ \A i \in 1 .. Len(events) : events'[i] = events[i]
  BY <1>1, CommitFacts
<1> QED BY <1>1, <1>2 DEF LogGrows

LEMMA AnswerFacts ==
    ASSUME TypeInv, NEW d \in Devices, ServerPush(d)
    PROVE  /\ LogGrows
           /\ push[d] # None /\ push[d].pc = "sent"
           /\ push[d].rows \in [Records -> Row \cup {None}]
           /\ Commit(d, push[d].rows)
           /\ push'[d] # None /\ push'[d].pc = "answered" /\ push'[d].rows = push[d].rows
           /\ push'[d].accepted = Accepted(push[d].rows)
           /\ \A r \in Records : push'[d].ver[r] = object[r].ver + 1
           /\ \A x \in Devices : x # d => Same(x)
           /\ UNCHANGED <<local, at, known, outbox, pending, cursor, pull, late>>
<1> DEFINE box == push[d].rows
           ver == [r \in Records |-> object[r].ver + 1]
<1>1. push[d] \in Push /\ push[d] # None /\ push[d].pc = "sent" /\ Commit(d, box)
  BY DEF ServerPush, TypeInv, TypeOK
<1>2. box \in [Records -> Row \cup {None}]
  BY <1>1 DEF Push
<1>3. LogGrows
  BY <1>1, <1>2, CommitGrows
<1>4. UNCHANGED <<local, at, known, outbox, pending, cursor, pull, late>>
  BY DEF ServerPush, rows, sync
<1>5. PICK p : p = [push[d] EXCEPT !.pc = "answered", !.accepted = Accepted(box), !.ver = ver]
  OBVIOUS
<1>6. push' = [push EXCEPT ![d] = p]
  BY <1>5 DEF ServerPush, TypeInv, TypeOK
<1>7. push'[d] = p /\ \A x \in Devices : x # d => push'[x] = push[x]
  BY <1>6 DEF TypeInv, TypeOK
<1> HIDE DEF ver, box
<1>8. p.pc = "answered" /\ p.rows = box /\ p.accepted = Accepted(box) /\ p.ver = ver
  BY <1>1, <1>5 DEF Push, box
<1>9. p # None
  <2>1. push'[d] \in Push \cup {None}
    BY ServerPushType DEF TypeInv, TypeOK
  <2>2. \A r \in Records : object[r].ver \in Nat
    BY DEF TypeInv, TypeOK
  <2>3. ver \in [Records -> Nat]
    BY <2>2 DEF ver
  <2>4. Accepted(box) \subseteq Records
    BY DEF Accepted
  <2>5. p \in Push
    BY <1>1, <1>5, <2>3, <2>4 DEF Push
  <2> QED BY <2>5, NoneIsNoRecord
<1> QED BY <1>1, <1>2, <1>3, <1>4, <1>7, <1>8, <1>9 DEF box, ver, Same

LEMMA ArrivalFacts ==
    ASSUME TypeInv, NEW m \in late, ServerLate(m)
    PROVE  /\ LogGrows /\ m \in Request /\ m.dev \in Devices
           /\ m.rows \in [Records -> Row \cup {None}]
           /\ Commit(m.dev, m.rows)
           /\ late' = late \ {m}
           /\ \A x \in Devices : Same(x)
           /\ UNCHANGED <<local, at, known, outbox, pending, cursor, pull, push>>
<1>1. m \in Request
  BY DEF TypeInv, TypeOK
<1>2. m.dev \in Devices /\ m.rows \in [Records -> Row \cup {None}]
  BY <1>1 DEF Request
<1>3. /\ Commit(m.dev, m.rows) /\ late' = late \ {m}
      /\ UNCHANGED <<local, at, known, outbox, pending, cursor, pull, push>>
  BY DEF ServerLate, rows, sync
<1> QED BY <1>1, <1>2, <1>3, CommitGrows DEF Same

-----------------------------------------------------------------------------
(* What the cursor covers is taken over.                                   *)
MergeInv(d) == Answered(d) /\ InOrder(d) /\ Recorded(d)

LEMMA Ranges ==
    ASSUME TypeInv, NEW d \in Devices
    PROVE  /\ Len(events) \in Nat /\ cursor[d] \in Nat /\ cursor[d] <= Len(events)
           /\ \A i \in 1 .. Len(events) : events[i] \in Event /\ events[i].ver \in Nat
                                          /\ events[i].rec \in Records
           /\ pull[d] # None => /\ pull[d] \in Pull /\ pull[d].next \in Nat
                                /\ pull[d].next <= Len(events)
                                /\ pull[d].todo \subseteq 1 .. Len(events)
           /\ Behind(d) \subseteq 1 .. Len(events)
           /\ \A r \in Records : known[d][r] \in Nat \cup {None}
<1>1. /\ Len(events) \in Nat /\ cursor[d] \in Nat /\ cursor[d] <= Len(events)
      /\ \A r \in Records : known[d][r] \in Nat \cup {None}
      /\ \A i \in 1 .. Len(events) : events[i] \in Event
  BY DEF TypeInv, TypeOK
<1>2. \A i \in 1 .. Len(events) : events[i].ver \in Nat /\ events[i].rec \in Records
  BY <1>1 DEF Event
<1>3. pull[d] # None => /\ pull[d] \in Pull /\ pull[d].next \in Nat
                        /\ pull[d].next <= Len(events)
                        /\ pull[d].todo \subseteq 1 .. Len(events)
  BY DEF TypeInv, TypeOK, Pull
<1>4. Behind(d) \subseteq 1 .. Len(events)
  BY <1>1, <1>3 DEF Behind
<1> QED BY <1>1, <1>2, <1>3, <1>4

LEMMA MergeStays ==
    ASSUME TypeInv, NEW x \in Devices, Same(x), LogGrows, MergeInv(x)
    PROVE  MergeInv(x)'
<1> USE DEF Same, LogGrows
<1>1. /\ Behind(x) \subseteq 1 .. Len(events)
      /\ pull[x] # None => pull[x].todo \subseteq 1 .. Len(events)
  BY Ranges
<1>2. Behind(x)' = Behind(x)
  BY DEF Behind
<1>3. \A i \in 1 .. Len(events) : InHand(x, i)' <=> InHand(x, i)
  BY DEF InHand
<1>4. Answered(x)'
  <2> SUFFICES ASSUME push[x] # None, push[x].pc = "answered", NEW r \in push[x].accepted
               PROVE  /\ push[x].rows[r] # None
                      /\ \E k \in 1 .. Len(events') :
                            /\ events'[k].rec = r /\ events'[k].ver = push[x].ver[r]
                            /\ events'[k].content = push[x].rows[r].content /\ events'[k].dev = x
    BY DEF Answered
  <2>1. PICK k \in 1 .. Len(events) :
            /\ events[k].rec = r /\ events[k].ver = push[x].ver[r]
            /\ events[k].content = push[x].rows[r].content /\ events[k].dev = x
    BY DEF MergeInv, Answered
  <2>2. k \in 1 .. Len(events') /\ events'[k] = events[k]
    BY <2>1
  <2> QED BY <2>1, <2>2 DEF MergeInv, Answered
<1>5. InOrder(x)'
  BY <1>1, <1>2, <1>3 DEF MergeInv, InOrder
<1>6. \A r, v : TakenOver(x, r, v) => TakenOver(x, r, v)'
  <2>1. \A r, v : Wrote(events, x, r, v) => Wrote(events', x, r, v)
    BY DEF Wrote
  <2> QED BY <2>1 DEF TakenOver
<1>7. Recorded(x)'
  BY <1>1, <1>2, <1>3, <1>6 DEF MergeInv, Recorded
<1> QED BY <1>4, <1>5, <1>7 DEF MergeInv

(* A step that leaves cursor, merge, versions and log alone.               *)
LEMMA MergeQuiet ==
    ASSUME NEW d \in Devices, MergeInv(d),
           UNCHANGED <<events, known, cursor, pull>>,
           push'[d] = push[d] \/ push'[d] = None \/ push'[d].pc # "answered"
    PROVE  MergeInv(d)'
<1>1. InOrder(d)' /\ Recorded(d)'
  BY DEF MergeInv, InOrder, Recorded, TakenOver, Behind, InHand
<1>2. Answered(d)'
  BY DEF MergeInv, Answered
<1> QED BY <1>1, <1>2 DEF MergeInv

(* An answer records versions of uploads of the device itself.             *)
LEMMA MergeAck ==
    ASSUME TypeInv, NEW d \in Devices, MergeInv(d), PushAck(d)
    PROVE  MergeInv(d)'
<1>1. /\ push[d] # None /\ push[d].pc = "answered" /\ push'[d] = None
      /\ \A r \in Records :
            known'[d][r] = IF r \in push[d].accepted THEN push[d].ver[r] ELSE known[d][r]
      /\ UNCHANGED <<events, cursor, pull>>
  BY AckFacts
<1>2. Answered(d)' /\ InOrder(d)'
  BY <1>1 DEF MergeInv, Answered, InOrder, Behind, InHand
<1>3. \A r \in Records : \A v : TakenOver(d, r, v) => TakenOver(d, r, v)'
  <2> SUFFICES ASSUME NEW r \in Records, NEW v, TakenOver(d, r, v)
               PROVE  /\ known'[d][r] # None
                      /\ known'[d][r] >= v \/ Wrote(events, d, r, known'[d][r])
    BY <1>1 DEF TakenOver
  <2>1. CASE r \in push[d].accepted
    <3>1. push[d].ver[r] \in Nat
      <4>1. push[d] \in Push
        BY <1>1 DEF TypeInv, TypeOK
      <4> QED BY <4>1 DEF Push
    <3>2. Wrote(events, d, r, push[d].ver[r])
      BY <1>1, <2>1 DEF MergeInv, Answered, Wrote
    <3> QED BY <1>1, <2>1, <3>1, <3>2, ConstantsOK DEF ConstantsOK
  <2>2. CASE r \notin push[d].accepted
    BY <1>1, <2>2 DEF TakenOver
  <2> QED BY <2>1, <2>2
<1>4. \A i \in Behind(d) : events[i].rec \in Records
  BY Ranges
<1>5. Behind(d)' = Behind(d) /\ \A i \in Behind(d) : InHand(d, i)' <=> InHand(d, i)
  BY <1>1 DEF Behind, InHand
<1>6. Recorded(d)'
  BY <1>1, <1>3, <1>4, <1>5 DEF MergeInv, Recorded
<1> QED BY <1>2, <1>6 DEF MergeInv

LEMMA MergeStart ==
    ASSUME TypeInv, NEW d \in Devices, MergeInv(d), PullStart(d)
    PROVE  MergeInv(d)'
<1>1. /\ pull[d] = None
      /\ pull'[d] # None /\ pull'[d].record = None
      /\ pull'[d].todo = cursor[d] + 1 .. pull'[d].next
      /\ pull'[d].next \in Nat /\ cursor[d] <= pull'[d].next
      /\ UNCHANGED <<events, known, cursor, push>>
  BY StartFacts
<1>2. cursor[d] \in Nat
  BY Ranges
<1>3. Behind(d) = 1 .. cursor[d]
  BY <1>1 DEF Behind
<1>4. Behind(d)' = 1 .. cursor[d]
  <2>1. Behind(d)' = (1 .. pull'[d].next) \ (cursor[d] + 1 .. pull'[d].next)
    BY <1>1 DEF Behind
  <2> QED BY <1>1, <1>2, <2>1
<1>5. Answered(d)'
  BY <1>1 DEF MergeInv, Answered
<1>6. InOrder(d)'
  BY <1>1, <1>2, <1>4 DEF InOrder
<1>7. Recorded(d)'
  BY <1>1, <1>3, <1>4 DEF MergeInv, Recorded, TakenOver, InHand
<1> QED BY <1>5, <1>6, <1>7 DEF MergeInv

LEMMA MergeApply ==
    ASSUME TypeInv, NEW d \in Devices, MergeInv(d), PullApply(d)
    PROVE  MergeInv(d)'
<1>1. /\ pull[d] # None /\ pull[d].record = None
      /\ UNCHANGED <<events, known, cursor, push>>
  BY ApplyFacts
<1>2. PICK i \in pull[d].todo :
        /\ i \in 1 .. Len(events) /\ events[i] \in Event /\ events[i] # None
        /\ events[i].rec \notin Settings
        /\ \A j \in pull[d].todo : events[j].rec \notin Settings => i <= j
        /\ pull'[d] # None /\ pull'[d].todo = pull[d].todo \ {i}
        /\ pull'[d].record = events[i] /\ pull'[d].next = pull[d].next
  BY ApplyFacts
<1>3. /\ cursor[d] \in Nat /\ pull[d].next \in Nat /\ pull[d].todo \subseteq 1 .. Len(events)
      /\ Behind(d) \subseteq 1 .. Len(events) /\ Len(events) \in Nat
  BY <1>1, Ranges
<1>4. i \in cursor[d] + 1 .. pull[d].next
  BY <1>1 DEF MergeInv, InOrder
<1>5. Behind(d) = (1 .. pull[d].next) \ pull[d].todo
  BY <1>1 DEF Behind
<1>6. Behind(d)' = Behind(d) \cup {i}
  <2>1. Behind(d)' = (1 .. pull[d].next) \ (pull[d].todo \ {i})
    BY <1>2 DEF Behind
  <2> QED BY <1>3, <1>4, <1>5, <2>1
<1>7. Answered(d)'
  BY <1>1 DEF MergeInv, Answered
<1>8. InHand(d, i)'
  BY <1>1, <1>2 DEF InHand
<1>9. InOrder(d)'
  <2>1. cursor[d] <= pull[d].next /\ pull[d].todo \ {i} \subseteq cursor[d] + 1 .. pull[d].next
    BY <1>1 DEF MergeInv, InOrder
  <2>2. \A j \in Behind(d) : events[j].rec \notin Settings => j < i
    BY <1>1, <1>2 DEF MergeInv, InOrder
  <2>3. \A j \in Behind(d) \cup {i} : events[j].rec \notin Settings => j <= i
    BY <1>3, <2>2
  <2>4. \A j \in Behind(d) \cup {i}, k \in pull[d].todo \ {i} :
           events[j].rec \notin Settings /\ events[k].rec \notin Settings => j < k
    <3> SUFFICES ASSUME NEW j \in Behind(d) \cup {i}, NEW k \in pull[d].todo \ {i},
                        events[j].rec \notin Settings, events[k].rec \notin Settings
                 PROVE  j < k
      OBVIOUS
    <3>1. j <= i /\ i <= k /\ i # k
      BY <1>2, <2>3
    <3> QED BY <1>3, <3>1
  <2>5. \A j \in Behind(d)', k \in pull'[d].todo :
           events'[j].rec \notin Settings /\ events'[k].rec \notin Settings => j < k
    BY <1>1, <1>2, <1>6, <2>4
  <2>6. \A j \in Behind(d)' : events'[j].rec \notin Settings => j <= i
    BY <1>1, <1>6, <2>3
  <2>7. i \in Behind(d)' /\ cursor'[d] < i
    BY <1>1, <1>3, <1>4, <1>6
  <2>8. cursor'[d] <= pull'[d].next /\ pull'[d].todo \subseteq cursor'[d] + 1 .. pull'[d].next
    BY <1>1, <1>2, <2>1
  <2>9. pull'[d].record.rec \notin Settings
    BY <1>2
  <2> QED BY <1>8, <2>5, <2>6, <2>7, <2>8, <2>9 DEF InOrder
<1>10. Recorded(d)'
  BY <1>1, <1>6, <1>8 DEF MergeInv, Recorded, TakenOver, InHand
<1> QED BY <1>7, <1>9, <1>10 DEF MergeInv

LEMMA MergeSettings ==
    ASSUME TypeInv, NEW d \in Devices, MergeInv(d), PullSettings(d)
    PROVE  MergeInv(d)'
<1>1. /\ pull[d] # None /\ pull[d].record = None
      /\ UNCHANGED <<events, known, cursor, push>>
  BY SettingsFacts
<1>2. PICK i \in pull[d].todo :
        /\ i \in 1 .. Len(events) /\ events[i].rec \in Settings
        /\ pull'[d] # None /\ pull'[d].todo = pull[d].todo \ {i}
        /\ pull'[d].record = None /\ pull'[d].next = pull[d].next
  BY SettingsFacts
<1>3. /\ cursor[d] \in Nat /\ pull[d].next \in Nat /\ pull[d].todo \subseteq 1 .. Len(events)
      /\ Behind(d) \subseteq 1 .. Len(events) /\ Len(events) \in Nat
  BY <1>1, Ranges
<1>4. i \in cursor[d] + 1 .. pull[d].next
  BY <1>1 DEF MergeInv, InOrder
<1>5. Behind(d)' = Behind(d) \cup {i}
  <2>1. Behind(d)' = (1 .. pull[d].next) \ (pull[d].todo \ {i})
    BY <1>2 DEF Behind
  <2>2. Behind(d) = (1 .. pull[d].next) \ pull[d].todo
    BY <1>1 DEF Behind
  <2> QED BY <1>3, <1>4, <2>1, <2>2
<1>6. Answered(d)'
  BY <1>1 DEF MergeInv, Answered
<1>7. InOrder(d)'
  BY <1>1, <1>2, <1>5 DEF MergeInv, InOrder
<1>8. Recorded(d)'
  BY <1>1, <1>2, <1>5 DEF MergeInv, Recorded, TakenOver, InHand
<1> QED BY <1>6, <1>7, <1>8 DEF MergeInv

LEMMA MergeRecord ==
    ASSUME IInv, NEW d \in Devices, MergeInv(d), PullRecord(d)
    PROVE  MergeInv(d)'
<1> DEFINE e == pull[d].record
<1>1. /\ pull[d] # None /\ e # None /\ e \in Event
      /\ known'[d] = [known[d] EXCEPT ![e.rec] = e.ver]
      /\ pull'[d] # None /\ pull'[d].todo = pull[d].todo
      /\ pull'[d].record = None /\ pull'[d].next = pull[d].next
      /\ UNCHANGED <<events, cursor, push>>
  BY RecordFacts DEF IInv
<1>2. PICK i \in Behind(d) :
         /\ cursor[d] < i /\ e = events[i]
         /\ \A j \in Behind(d) : events[j].rec \notin Settings => j <= i
  BY <1>1 DEF MergeInv, InOrder, InHand
<1>3. /\ Behind(d) \subseteq 1 .. Len(events) /\ Len(events) \in Nat
      /\ \A j \in 1 .. Len(events) : events[j].ver \in Nat /\ events[j].rec \in Records
  BY Ranges DEF IInv
<1>4. Behind(d)' = Behind(d)
  BY <1>1 DEF Behind
<1>5. known[d] \in [Records -> Nat \cup {None}]
  BY DEF IInv, TypeInv, TypeOK
<1>6. \A r \in Records : known'[d][r] = IF r = e.rec THEN e.ver ELSE known[d][r]
  <2> HIDE DEF e
  <2> QED BY <1>1, <1>5
<1>7. Answered(d)'
  BY <1>1 DEF MergeInv, Answered
<1>8. InOrder(d)'
  BY <1>1, <1>4 DEF MergeInv, InOrder
<1>9. Recorded(d)'
  <2> SUFFICES ASSUME NEW j \in Behind(d), events[j].rec \notin Settings
               PROVE  /\ known'[d][events[j].rec] # None
                      /\ \/ known'[d][events[j].rec] >= events[j].ver
                         \/ Wrote(events, d, events[j].rec, known'[d][events[j].rec])
    BY <1>1, <1>4 DEF Recorded, TakenOver
  <2>1. i \in 1 .. Len(events) /\ j \in 1 .. Len(events) /\ j <= i
    BY <1>2, <1>3
  <2>2. CASE events[j].rec = e.rec
    <3>1. events[j].ver <= e.ver
      BY <1>2, <1>3, <2>1, <2>2 DEF IInv, LogConsistent, VersionsInOrder
    <3>2. known'[d][events[j].rec] = e.ver /\ e.ver \in Nat /\ None \notin Nat
      BY <1>2, <1>3, <1>6, <2>1, <2>2, ConstantsOK DEF ConstantsOK
    <3> QED BY <1>3, <2>1, <3>1, <3>2
  <2>3. CASE events[j].rec # e.rec
    BY <1>1, <1>3, <1>6, <2>1, <2>3 DEF MergeInv, Recorded, TakenOver, InHand
  <2> QED BY <2>2, <2>3
<1> QED BY <1>7, <1>8, <1>9 DEF MergeInv

(* A merge that ends between a row and its version has not moved the       *)
(* cursor, and the event in hand lies beyond it.                           *)
LEMMA NotInHand ==
    ASSUME IInv, NEW d \in Devices, InOrder(d), NEW j \in 1 .. cursor[d]
    PROVE  ~InHand(d, j)
<1> SUFFICES ASSUME InHand(d, j) PROVE FALSE
  OBVIOUS
<1>1. PICK i \in Behind(d) : cursor[d] < i /\ InHand(d, i)
  BY DEF InOrder, InHand
<1>2. /\ cursor[d] \in Nat /\ cursor[d] <= Len(events) /\ Len(events) \in Nat
      /\ Behind(d) \subseteq 1 .. Len(events)
      /\ \A k \in 1 .. Len(events) : events[k].ver \in Nat
  BY Ranges DEF IInv
<1>3. events[i] = events[j] /\ i \in 1 .. Len(events) /\ j \in 1 .. Len(events) /\ j < i
  BY <1>1, <1>2 DEF InHand
<1>4. events[j].ver < events[i].ver
  BY <1>3 DEF IInv, LogConsistent, VersionsInOrder
<1> QED BY <1>2, <1>3, <1>4

LEMMA CoveredIsBehind ==
    ASSUME TypeInv, NEW d \in Devices, InOrder(d)
    PROVE  1 .. cursor[d] \subseteq Behind(d)
<1>1. CASE pull[d] = None
  BY <1>1 DEF Behind
<1>2. CASE pull[d] # None
  <2>1. /\ cursor[d] \in Nat /\ pull[d].next \in Nat /\ cursor[d] <= pull[d].next
        /\ pull[d].todo \subseteq cursor[d] + 1 .. pull[d].next
    BY <1>2, Ranges DEF InOrder
  <2> QED BY <1>2, <2>1 DEF Behind
<1> QED BY <1>1, <1>2

LEMMA MergeEnd ==
    ASSUME IInv, NEW d \in Devices, MergeInv(d), PullFail(d) \/ PullDone(d)
    PROVE  MergeInv(d)'
<1>1. /\ pull[d] # None /\ pull'[d] = None
      /\ \/ cursor'[d] = cursor[d]
         \/ pull[d].record = None /\ pull[d].todo = {} /\ cursor'[d] = pull[d].next
      /\ UNCHANGED <<events, known, push>>
  BY EndFacts DEF IInv
<1>2. Answered(d)' /\ InOrder(d)'
  BY <1>1 DEF MergeInv, Answered, InOrder
<1>3. Recorded(d)'
  <2> SUFFICES ASSUME NEW j \in 1 .. cursor'[d], events[j].rec \notin Settings
               PROVE  TakenOver(d, events[j].rec, events[j].ver)
    BY <1>1 DEF Recorded, Behind, TakenOver
  <2>1. CASE cursor'[d] = cursor[d]
    BY <2>1, NotInHand, CoveredIsBehind DEF MergeInv, Recorded, IInv
  <2>2. CASE pull[d].record = None /\ pull[d].todo = {} /\ cursor'[d] = pull[d].next
    <3>1. j \in Behind(d) /\ ~InHand(d, j)
      BY <1>1, <2>2 DEF Behind, InHand
    <3> QED BY <3>1 DEF MergeInv, Recorded
  <2> QED BY <1>1, <2>1, <2>2
<1> QED BY <1>2, <1>3 DEF MergeInv

LEMMA MergeAnswer ==
    ASSUME TypeInv, NEW d \in Devices, MergeInv(d), ServerPush(d)
    PROVE  MergeInv(d)'
<1> DEFINE box == push[d].rows
<1>1. /\ LogGrows
      /\ box \in [Records -> Row \cup {None}]
      /\ Commit(d, box)
      /\ push'[d].rows = box
      /\ push'[d].accepted = Accepted(box)
      /\ \A r \in Records : push'[d].ver[r] = object[r].ver + 1
      /\ UNCHANGED <<known, cursor, pull>>
  BY AnswerFacts
<1>2. /\ Behind(d) \subseteq 1 .. Len(events)
      /\ pull[d] # None => pull[d].todo \subseteq 1 .. Len(events)
  BY Ranges
<1>3. Behind(d)' = Behind(d) /\ \A i \in 1 .. Len(events) : InHand(d, i)' <=> InHand(d, i)
  BY <1>1 DEF Behind, InHand, LogGrows
<1>4. InOrder(d)'
  BY <1>1, <1>2, <1>3 DEF MergeInv, InOrder, LogGrows
<1>5. Recorded(d)'
  <2>1. \A r, v : Wrote(events, d, r, v) => Wrote(events', d, r, v)
    BY <1>1 DEF Wrote, LogGrows
  <2>2. \A r, v : TakenOver(d, r, v) => TakenOver(d, r, v)'
    BY <1>1, <2>1 DEF TakenOver
  <2> QED BY <1>1, <1>2, <1>3, <2>2 DEF MergeInv, Recorded, LogGrows
<1>6. Answered(d)'
  <2> HIDE DEF box
  <2> SUFFICES ASSUME NEW r \in Accepted(box)
               PROVE  /\ box[r] # None
                      /\ \E k \in 1 .. Len(events') :
                            /\ events'[k].rec = r /\ events'[k].ver = object[r].ver + 1
                            /\ events'[k].content = box[r].content /\ events'[k].dev = d
    <3>1. \A r \in Accepted(box) : r \in Records
      BY DEF Accepted
    <3> QED BY <1>1, <3>1 DEF Answered
  <2>1. r \in Records /\ box[r] # None
    BY DEF Accepted
  <2>2. /\ events \in Seq(Event)
        /\ object \in [Records -> [ver: Nat, content: MaybeContent]]
    BY DEF TypeInv, TypeOK
  <2>3. PICK k \in Len(events) + 1 .. Len(events') : events'[k].rec = r
    BY <1>1, <2>2, CommitFacts
  <2>4. /\ events'[k].ver = object[r].ver + 1
        /\ events'[k].content = box[r].content /\ events'[k].dev = d
    BY <1>1, <2>2, <2>3, NewEvents
  <2>5. k \in 1 .. Len(events')
    BY <1>1, <2>3 DEF LogGrows
  <2> QED BY <2>1, <2>3, <2>4, <2>5
<1> QED BY <1>4, <1>5, <1>6 DEF MergeInv

LEMMA MergeDevice ==
    ASSUME IInv, NEW d \in Devices, MergeInv(d), Device(d)
    PROVE  MergeInv(d)'
<1>0. TypeInv
  BY DEF IInv
<1>1. ASSUME NEW r \in Records, Create(d, r) \/ Edit(d, r) \/ Delete(d, r) PROVE MergeInv(d)'
  BY <1>1, EditFacts, MergeQuiet
<1>2. CASE Enqueue(d) \/ EnqueueSkipped(d)
  BY <1>0, <1>2, EnqueueFacts, MergeQuiet
<1>3. CASE PushList(d)
  BY <1>0, <1>3, ListFacts, MergeQuiet
<1>4. CASE PushSend(d)
  BY <1>0, <1>4, SendFacts, MergeQuiet
<1>5. CASE PushTimeout(d)
  BY <1>0, <1>5, TimeoutFacts, MergeQuiet
<1>6. CASE PushAck(d)
  BY <1>0, <1>6, MergeAck
<1>7. CASE PullStart(d)
  BY <1>0, <1>7, MergeStart
<1>8. CASE PullApply(d)
  BY <1>0, <1>8, MergeApply
<1>9. CASE PullSettings(d)
  BY <1>0, <1>9, MergeSettings
<1>10. CASE PullRecord(d)
  BY <1>10, MergeRecord
<1>11. CASE PullFail(d) \/ PullDone(d)
  BY <1>11, MergeEnd
<1> QED
  BY <1>1, <1>2, <1>3, <1>4, <1>5, <1>6, <1>7, <1>8, <1>9, <1>10, <1>11 DEF Device

LEMMA MergeInvInit == Init => \A d \in Devices : MergeInv(d)
BY DEF Init, MergeInv, Answered, InOrder, Recorded, Behind

LEMMA MergeInvStep ==
    ASSUME IInv, \A d \in Devices : MergeInv(d), [Next]_vars
    PROVE  \A d \in Devices : MergeInv(d)'
<1> SUFFICES ASSUME NEW x \in Devices PROVE MergeInv(x)'
  OBVIOUS
<1>0. TypeInv
  BY DEF IInv
<1>1. ASSUME Same(x), LogGrows PROVE MergeInv(x)'
  BY <1>0, <1>1, MergeStays
<1>2. CASE UNCHANGED vars
  BY <1>0, <1>1, <1>2, SameLog DEF vars, Same
<1>3. ASSUME NEW d \in Devices, Device(d) PROVE MergeInv(x)'
  BY <1>0, <1>1, <1>3, OthersSame, MergeDevice
<1>4. ASSUME NEW d \in Devices, ServerPush(d) PROVE MergeInv(x)'
  BY <1>0, <1>1, <1>4, AnswerFacts, MergeAnswer
<1>5. ASSUME NEW m \in late, ServerLate(m) PROVE MergeInv(x)'
  BY <1>0, <1>1, <1>5, ArrivalFacts
<1> QED BY <1>2, <1>3, <1>4, <1>5 DEF Next, Server

MergesInv == IInv /\ \A d \in Devices : MergeInv(d)

LEMMA MergesInitStep == (Init => MergesInv) /\ (MergesInv /\ [Next]_vars => MergesInv')
BY IInvInit, MergeInvInit, IInvStep, MergeInvStep DEF MergesInv

(* Whatever interleaves on a device, and whichever uploads are lost, late  *)
(* or refused: a merge, also one that ends half-way, makes its cursor skip *)
(* no event of another device, and the version of a record is set back     *)
(* only to one that the device uploaded itself.                            *)
THEOREM MergesAreKnown == Spec => []MergedOrOwnIsKnown
<1>1. MergesInv => MergedOrOwnIsKnown
  <2> SUFFICES ASSUME MergesInv, NEW d \in Devices, NEW i \in 1 .. cursor[d],
                      events[i].rec \notin Settings
               PROVE  TakenOver(d, events[i].rec, events[i].ver)
    BY DEF MergedOrOwnIsKnown, TakenOver
  <2>1. IInv /\ TypeInv /\ InOrder(d) /\ Recorded(d)
    BY DEF MergesInv, MergeInv, IInv
  <2>2. i \in Behind(d) /\ ~InHand(d, i)
    BY <2>1, NotInHand, CoveredIsBehind
  <2> QED BY <2>1, <2>2 DEF Recorded
<1> QED BY <1>1, MergesInitStep, PTL DEF Spec

-----------------------------------------------------------------------------
(* The outbox.  A command or an upload writes rows into it, and only an    *)
(* answer takes one out.                                                   *)
LEMMA RowsAreQueued ==
    ASSUME TypeInv, NEW d \in Devices, NEW r \in Records, outbox[d][r] # None,
           Enqueue(d) \/ EnqueueSkipped(d) \/ PushSend(d)
    PROVE  outbox'[d][r] # None
<1>1. \A s \in Records : \A c \in MaybeContent, n \in Nat : OutboxRow(d, s, c, n) # None
  <2> SUFFICES ASSUME NEW s \in Records, NEW c \in MaybeContent, NEW n \in Nat
               PROVE  OutboxRow(d, s, c, n) # None
    OBVIOUS
  <2>1. OutboxRow(d, s, c, n) \in Row
    BY OutboxRowType DEF TypeInv
  <2> QED BY <2>1, NoneIsNoRecord
<1>2. CASE Enqueue(d) \/ EnqueueSkipped(d)
  <2> DEFINE p == pending[d]
             row == OutboxRow(d, p.rec, p.content, p.at)
  <2>1. /\ p \in [rec: Records, content: MaybeContent, at: Nat]
        /\ outbox'[d] = IF Enqueue(d) THEN [outbox[d] EXCEPT ![p.rec] = row] ELSE outbox[d]
    BY <1>2, EnqueueFacts
  <2>2. row # None
    BY <1>1, <2>1
  <2>3. DOMAIN outbox[d] = Records
    BY DEF TypeInv, TypeOK
  <2> HIDE DEF row
  <2> QED BY <2>1, <2>2, <2>3
<1>3. CASE PushSend(d)
  <2>1. /\ Listing(d)
        /\ outbox'[d][r] = IF push[d].rows[r] # None
                           THEN OutboxRow(d, r, push[d].rows[r].content, push[d].rows[r].at)
                           ELSE outbox[d][r]
    BY <1>3, SendFacts
  <2>2. push[d].rows[r] # None => push[d].rows[r] \in Row
    BY <2>1 DEF Listing, TypeInv, TypeOK, Push
  <2>3. push[d].rows[r] # None =>
           push[d].rows[r].content \in MaybeContent /\ push[d].rows[r].at \in Nat
    BY <2>2 DEF Row
  <2> QED BY <1>1, <2>1, <2>3
<1> QED BY <1>2, <1>3

LEMMA AcknowledgedIsStored ==
    ASSUME TypeInv, NEW d \in Devices, Answered(d), PushAck(d), NEW r \in Records,
           outbox[d][r] # None, outbox'[d][r] = None
    PROVE  Stored(d, r)
<1>1. /\ push[d] # None /\ push[d].pc = "answered"
      /\ outbox'[d][r] = IF r \in push[d].accepted /\ outbox[d][r] = push[d].rows[r]
                         THEN None ELSE outbox[d][r]
  BY AckFacts
<1>2. r \in push[d].accepted /\ outbox[d][r] = push[d].rows[r]
  BY <1>1
<1> QED BY <1>1, <1>2 DEF Answered, Stored

LEMMA QueueStep ==
    ASSUME MergesInv, [Next]_vars, NEW d \in Devices, NEW r \in Records,
           outbox[d][r] # None, outbox'[d][r] = None
    PROVE  Stored(d, r)
<1>0. TypeInv /\ Answered(d)
  BY DEF MergesInv, IInv, MergeInv
<1>1. ASSUME NEW x \in Devices, Device(x) PROVE Stored(d, r)
  <2>1. CASE x # d
    BY <1>0, <1>1, <2>1, OthersSame DEF Same
  <2>2. CASE x = d
    <3>1. ASSUME NEW s \in Records, Create(d, s) \/ Edit(d, s) \/ Delete(d, s) PROVE FALSE
      BY <3>1, EditFacts
    <3>2. CASE Enqueue(d) \/ EnqueueSkipped(d) \/ PushSend(d)
      BY <1>0, <3>2, RowsAreQueued
    <3>3. CASE PushAck(d)
      BY <1>0, <3>3, AcknowledgedIsStored
    <3>4. CASE PushList(d) \/ PushTimeout(d)
      BY <1>0, <3>4, ListFacts, TimeoutFacts
    <3>5. CASE PullStart(d) \/ PullApply(d) \/ PullSettings(d)
      BY <1>0, <3>5, StartFacts, ApplyFacts, SettingsFacts
    <3>6. CASE PullRecord(d) \/ PullFail(d) \/ PullDone(d)
      BY <1>0, <3>6, RecordFacts, EndFacts
    <3>7. Device(d)
      BY <1>1, <2>2
    <3> QED BY <3>1, <3>2, <3>3, <3>4, <3>5, <3>6, <3>7 DEF Device
  <2> QED BY <2>1, <2>2
<1>2. ASSUME Server \/ UNCHANGED vars PROVE FALSE
  BY <1>2 DEF Server, ServerPush, ServerLate, sync, vars
<1> QED BY <1>1, <1>2 DEF Next

(* Whatever interleaves on a device: a change leaves the outbox only once  *)
(* the cloud has it, or for a newer one of its record.  An answer that     *)
(* comes late drops no change made while the upload was under way.         *)
THEOREM QueueDropsNothing == Spec => QueuedUntilStored
<1>1. MergesInv /\ [Next]_vars =>
         [\A d \in Devices : \A r \in Records :
             outbox[d][r] # None /\ outbox'[d][r] = None => Stored(d, r)]_vars
  BY QueueStep
<1> QED BY <1>1, MergesInitStep, PTL DEF Spec, QueuedUntilStored
=============================================================================
