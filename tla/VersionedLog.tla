---------------------------- MODULE VersionedLog ----------------------------
(***************************************************************************)
(* What the cloud server promises: an append-only log of record versions,  *)
(* in which the versions of every record are numbered 1, 2, 3... without a *)
(* gap.  A push appends a batch that writes each of its records once.      *)
(***************************************************************************)
EXTENDS Naturals, Sequences

CONSTANTS Records, Values

VARIABLE log   \* <<[rec |-> ..., ver |-> ..., val |-> ...], ...>>

Entry == [rec: Records, ver: Nat \ {0}, val: Values]

(* The newest version of a record in the log, 0 without one.               *)
Versions(r) == {0} \cup {log[i].ver : i \in {j \in 1 .. Len(log) : log[j].rec = r}}
Reached(r) == CHOOSE v \in Versions(r) : \A w \in Versions(r) : w <= v

Init == log = <<>>

(* A batch of distinct records, each with its next version.                *)
Extend ==
    /\ Len(log') > Len(log)
    /\ \A i \in 1 .. Len(log) : log'[i] = log[i]
    /\ \A i \in Len(log) + 1 .. Len(log') :
          /\ log'[i] \in Entry
          /\ log'[i].ver = Reached(log'[i].rec) + 1
          /\ \A j \in Len(log) + 1 .. Len(log') :
                log'[i].rec = log'[j].rec => i = j

Spec == Init /\ [][Extend]_log
=============================================================================
