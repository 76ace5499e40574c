--------------------------- MODULE EvidenceBundle ---------------------------
(***************************************************************************)
(* Evidence bundles (evidence.rs) as values, and as the JSON that serde    *)
(* writes and reads: a field that is empty is left out, and a field that   *)
(* is missing is empty.  What a host puts into a bundle is JSON of any     *)
(* shape.  An Option is a set of at most one value.                        *)
(***************************************************************************)
EXTENDS Canonical

\* EVIDENCE_BUNDLE_VERSION, as its digits.
EVIDENCE_BUNDLE_VERSION == <<"1">>

Outcomes == {"approved", "denied", "requires_approval"}

FieldNames ==
  {"version", "policy", "evaluator_report", "context_items", "operator_approvals",
   "outcome", "reason", "operator", "note"}

\* PolicyVerdict::{approved, denied, requires_approval}
PolicyVerdict(outcome, reason) == [outcome |-> outcome, reason |-> reason]

\* EvidenceBundle::new
new(policy) ==
  [version |-> EVIDENCE_BUNDLE_VERSION, policy |-> policy,
   evaluator_report |-> {}, context_items |-> << >>,
   operator_approvals |-> << >>]

OperatorApproval(operator, note) == [operator |-> operator, note |-> note]

-----------------------------------------------------------------------------
(* to_value *)

PolicyValue(policy) ==
  Object(<<Entry("outcome", String(policy.outcome)),
           Entry("reason", String(policy.reason))>>)

ApprovalValue(approval) ==
  Object(<<Entry("operator", String(approval.operator)),
           Entry("note", String(approval.note))>>)

\* skip_serializing_if = "Option::is_none", "Vec::is_empty"
Unless(empty, entry) == IF empty THEN << >> ELSE <<entry>>

to_value(bundle) ==
  LET report == bundle.evaluator_report
      approvals == bundle.operator_approvals
      ApprovalAt(i) == ApprovalValue(approvals[i])
  IN Object(
       <<Entry("version", Number(bundle.version)),
         Entry("policy", PolicyValue(bundle.policy))>>
       \o Unless(report = {}, Entry("evaluator_report", The(report)))
       \o Unless(bundle.context_items = << >>,
                 Entry("context_items", Array(bundle.context_items)))
       \o Unless(approvals = << >>,
                 Entry("operator_approvals",
                       Array([i \in DOMAIN approvals |-> ApprovalAt(i)]))))

-----------------------------------------------------------------------------
(* from_value *)

Text(object, key) == {v.of : v \in {w \in Field(object, key) : w.kind = "string"}}

\* The verdict of a value, if it is one.
PolicyOf(value) ==
  {PolicyVerdict(outcome, reason) :
     outcome \in Text(value, "outcome") \cap Outcomes, reason \in Text(value, "reason")}

ApprovalOf(value) ==
  {OperatorApproval(operator, note) :
     operator \in Text(value, "operator"), note \in Text(value, "note")}

\* Mutant: no #[serde(default)] on the lists.
Required(object, key) ==
  {v.of : v \in {w \in Field(object, key) : w.kind = "array"}}

\* The items of an array, none if it is missing.
Listing(object, key) ==
  IF Field(object, key) = {} THEN {<< >>}
  ELSE {v.of : v \in {w \in Field(object, key) : w.kind = "array"}}

\* null is no report.
Report(object) == {v \in Field(object, "evaluator_report") : v.kind # "null"}

\* EvidenceBundle::from_value: an object with a version and a policy.
from_value(value) ==
  IF value.kind # "object" THEN {}
  ELSE {[version |-> version.of, policy |-> policy,
         evaluator_report |-> Report(value), context_items |-> items,
         operator_approvals |-> [i \in DOMAIN approvals |->
                                   CHOOSE a \in ApprovalOf(approvals[i]) : TRUE]] :
          version \in {v \in Field(value, "version") : v.kind = "number"},
          policy \in UNION {PolicyOf(v) : v \in Field(value, "policy")},
          items \in Listing(value, "context_items"),
          approvals \in {list \in Listing(value, "operator_approvals") :
                           \A i \in DOMAIN list : ApprovalOf(list[i]) # {}}}

=============================================================================
