--------------------------- MODULE EvidenceBuilder ---------------------------
(***************************************************************************)
(* Hosts building evidence bundles (evidence.rs) with the with_* calls, in *)
(* any order and as often as they like, each from its own copies of the    *)
(* same JSON.  What is hashed of a bundle is its canonical JSON.           *)
(***************************************************************************)
EXTENDS EvidenceBundle

CONSTANTS
  Hosts,
  Policies,      \* verdicts: PolicyVerdict(outcome, reason)
  Json,          \* a sequence of the values that hosts put into bundles
  Approvals,     \* OperatorApproval(operator, note)
  MaxItems,      \* bound: context items of a bundle
  MaxApprovals   \* bound: approvals of a bundle

\* A bundle nests what a host puts into its lists two levels deep.
ASSUME EvidenceAssumption ==
  /\ FieldNames \cup Outcomes \subseteq Strings
  /\ Policies \subseteq [outcome : Outcomes, reason : Strings]
  /\ MaxDepth >= 3 /\ Json \in Seq(Values[MaxDepth - 2])
  /\ Approvals \subseteq [operator : Strings, note : Strings]
  /\ MaxItems \in Nat

VARIABLE bundle    \* of each host

\* The calls of a host whose bundle becomes b.
Becomes(h, b) == bundle' = [bundle EXCEPT ![h] = b]

with_evaluator_report(h) ==
  \E i \in DOMAIN Json :
    Becomes(h, [bundle[h] EXCEPT !.evaluator_report = {Json[i]}])

\* The items replace those of an earlier call.
with_context_items(h) ==
  \E n \in 0 .. MaxItems : \E at \in [1 .. n -> DOMAIN Json] :
    Becomes(h, [bundle[h] EXCEPT !.context_items = [i \in 1 .. n |-> Json[at[i]]]])

\* The approval joins those of earlier calls.
with_operator_approval(h) ==
  /\ Len(bundle[h].operator_approvals) < MaxApprovals
  /\ \E approval \in Approvals :
       Becomes(h, [bundle[h] EXCEPT !.operator_approvals = Append(@, approval)])

Init == bundle \in [Hosts -> {new(policy) : policy \in Policies}]

Next ==
  \E h \in Hosts : \/ with_evaluator_report(h)
                   \/ with_context_items(h)
                   \/ with_operator_approval(h)

Spec == Init /\ [][Next]_bundle

-----------------------------------------------------------------------------
(* Properties. *)

\* Two hosts that put the same JSON together get the same bytes, whatever
\* the order of their calls and of the entries of every object: the id and
\* the signature of a node do not depend on how its evidence was built, nor
\* change when it is read back from a file.
OrderNeverShows ==
  \A g, h \in Hosts :
    SameJson(to_value(bundle[g]), to_value(bundle[h])) =>
      canonical_json(to_value(bundle[g])) = canonical_json(to_value(bundle[h]))

\* Different evidence has different bytes, so that a hash of the bytes
\* stands for the evidence.
BytesTellApart ==
  \A g, h \in Hosts :
    canonical_json(to_value(bundle[g])) = canonical_json(to_value(bundle[h])) =>
      SameJson(to_value(bundle[g]), to_value(bundle[h]))

\* A report that is null becomes no report.
Normal(b) ==
  [b EXCEPT !.evaluator_report = {report \in @ : report.kind # "null"}]

\* A bundle is read back from its JSON as it was, empty fields included; only
\* a null report, which an evaluator without details leaves, comes back as
\* none.
ReadsBack == \A h \in Hosts : from_value(to_value(bundle[h])) = {Normal(bundle[h])}

=============================================================================
