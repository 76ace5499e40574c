----------------------------- MODULE LineageDag -----------------------------
(***************************************************************************)
(* What a lineage promises to those who audit it, whatever runs over it:   *)
(* an append-only log of entries, each descending from an earlier one, and *)
(* a head that names a promoted entry and moves only when a promoted entry *)
(* is added or when somebody reverts to an older promoted one.             *)
(*                                                                         *)
(* An entry is [id, parent, generation, promoted], parent being a set of   *)
(* at most one id and head too.  Ids are any values, so a step is stated   *)
(* as a relation between the log and the next one.  Entries of other logs  *)
(* may be descended from, if those who write the log say so.               *)
(***************************************************************************)
EXTENDS Naturals, Sequences

CONSTANT Strangers   \* the entries that need not be in this log

VARIABLES log, head

dag == <<log, head>>

Entries(l) == {l[i] : i \in DOMAIN l}
Ids(l) == {entry.id : entry \in Entries(l)}

\* A root, or a child one generation below an entry that is there already
\* or below a stranger.
Descends(entry, l) ==
  \/ entry.parent = {} /\ entry.generation = 0
  \/ \E older \in Entries(l) \cup Strangers :
       /\ entry.parent = {older.id}
       /\ entry.generation = older.generation + 1

Init ==
  /\ log = << >>
  /\ head = {}

Grow ==
  /\ Len(log') = Len(log) + 1
  /\ \A i \in DOMAIN log : log'[i] = log[i]
  /\ LET entry == log'[Len(log) + 1] IN
       /\ entry.id \notin Ids(log)
       /\ Descends(entry, log)
       /\ head' = IF entry.promoted THEN {entry.id} ELSE head

Revert ==
  /\ \E entry \in Entries(log) : entry.promoted /\ head' = {entry.id}
  /\ UNCHANGED log

Next == Grow \/ Revert

Spec == Init /\ [][Next]_dag

=============================================================================
