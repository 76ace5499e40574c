----------------------------- MODULE DurableLog -----------------------------
(***************************************************************************)
(* What a lineage that outlives its process promises: the audit log of     *)
(* LineageDag, and what a restart may do to it.  The log keeps its entries *)
(* and gains at most one, whose append did not return; a head that was set *)
(* back is forgotten, for the head is the last promoted entry again.  Only *)
(* a power failure, which is counted, may take entries from the end.       *)
(***************************************************************************)
EXTENDS LineageDag

VARIABLE losses    \* restarts after a power failure

durable == <<dag, losses>>

\* The id of the last promoted entry, if any.
LastPromotedId(l) ==
  {l[i].id : i \in {j \in DOMAIN l :
     l[j].promoted /\ \A k \in DOMAIN l : l[k].promoted => k <= j}}

KeepsFirst(n) == Len(log') >= n /\ \A i \in 1 .. n : log'[i] = log[i]

\* Entry number n of a log has its place in the lineage.
Joins(n, l) ==
  LET before == SubSeq(l, 1, n - 1)
  IN l[n].id \notin Ids(before) /\ Descends(l[n], before)

RestartAt(n) ==
  /\ KeepsFirst(n)
  /\ \/ Len(log') = n
     \/ Len(log') = n + 1 /\ Joins(n + 1, log')
  /\ head' = LastPromotedId(log')

Restart   == RestartAt(Len(log)) /\ UNCHANGED losses
PowerLoss == (\E n \in 0 .. Len(log) : RestartAt(n)) /\ losses' = losses + 1

DurableInit == Init /\ losses = 0

DurableNext ==
  \/ Next /\ UNCHANGED losses
  \/ Restart
  \/ PowerLoss

DurableSpec == DurableInit /\ [][DurableNext]_durable

=============================================================================
