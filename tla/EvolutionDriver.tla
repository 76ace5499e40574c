--------------------------- MODULE EvolutionDriver ---------------------------
(***************************************************************************)
(* run_generation (evolution.rs): select a parent, let the mutator propose *)
(* a candidate, let the sandbox enforce its scope, run Veh's cycle, tear   *)
(* the sandbox down.  A task that drives a generation runs the cycle as    *)
(* the task of the same name in Veh; what the driver does not cover (root  *)
(* commits, approvals, rollbacks) the host does through veh().  A parent   *)
(* is always one that the driver got from the ledger.                      *)
(*                                                                         *)
(* Selecting and getting the parent is one action, because nodes are never *)
(* changed or removed.  The mutator and the sandbox are the host's: each   *)
(* answers, fails, or is dropped with the generation.  A sandbox is        *)
(* counted from the enforce that succeeded until a teardown that succeeds. *)
(***************************************************************************)
EXTENDS VehProperties, Selectors

CONSTANTS
  Strategy,   \* the ParentSelector
  MaxLeaks    \* bound: sandboxes left behind

ASSUME DriverAssumption ==
  /\ Strategy \in Strategies
  /\ MaxLeaks \in Nat

VARIABLES
  generation,  \* what each task's run_generation holds at its await
  sandboxes,   \* sandboxes enforced and not torn down
  leaked,      \* history: those whose generation has ended without a teardown
  admitted     \* history: what the sandbox was asked to enforce and accepted

driving == <<generation, sandboxes, leaked, admitted>>
driverVars == <<vars, driving>>

Driving(t, step) == generation[t].step = step
Drives(t, g) == generation' = [generation EXCEPT ![t] = g]

\* The generations that will still start a cycle.
Preparing == {t \in Tasks : Driving(t, "proposing") \/ Driving(t, "enforcing")}

\* A generation keeps the room of the node it may append.
Room ==
  Len(insertion_order) + Cardinality(Appending \cup Preparing) < MaxNodes

HoldsSandbox(t) == Driving(t, "cycling") \/ Driving(t, "tearing down")

-----------------------------------------------------------------------------
(* One generation. *)

\* select and get.
run_generation(t) ==
  /\ At(t, "idle") /\ Driving(t, "idle")
  /\ Room
  /\ \E id \in select(Strategy), intent \in Intents, scope \in Scopes,
        now \in Timestamps :
       Drives(t, [step |-> "proposing", parent |-> Node(id),
                  intent |-> intent, allowed_scope |-> scope, created_at |-> now])
  /\ UNCHANGED <<vars, sandboxes, leaked, admitted>>

MutatorProposes(t) ==
  /\ Driving(t, "proposing")
  /\ \E candidate \in Artifacts :
       LET g == generation[t] IN
       Drives(t, [step |-> "enforcing",
                  inputs |-> CycleInputs(g.parent, g.intent, candidate,
                                         g.allowed_scope, g.created_at)])
  /\ UNCHANGED <<vars, sandboxes, leaked, admitted>>

\* `?` on the mutator's or the sandbox's error: nothing is torn down.
MutatorFails(t) ==
  /\ Driving(t, "proposing")
  /\ Drives(t, Idle)
  /\ UNCHANGED <<vars, sandboxes, leaked, admitted>>

\* Mutant: the mutator is asked again for a candidate that is refused.
ProposesAgain(t) ==
  /\ Driving(t, "enforcing")
  /\ LET inputs == generation[t].inputs IN
     Drives(t, [step |-> "proposing", parent |-> inputs.parent,
                intent |-> inputs.intent, allowed_scope |-> inputs.allowed_scope,
                created_at |-> inputs.created_at])
  /\ UNCHANGED <<vars, sandboxes, leaked, admitted>>

SandboxRefuses(t) ==
  /\ Driving(t, "enforcing")
  /\ Drives(t, Idle)
  /\ UNCHANGED <<vars, sandboxes, leaked, admitted>>

\* Mutant: the candidate is enforced under the scope of its parent.
EnforcedUnderParent(inputs) == <<inputs.candidate, inputs.parent.allowed_scope>>

Enforced(inputs) == <<inputs.candidate, inputs.allowed_scope>>

\* Mutant: the cycle is spawned and not awaited, and the teardown comes next.
SpawnsCycle(t) ==
  /\ Driving(t, "enforcing")
  /\ StartCycle(t, generation[t].inputs)
  /\ admitted' = admitted \cup {Enforced(generation[t].inputs)}
  /\ sandboxes' = sandboxes + 1
  /\ Drives(t, [step |-> "tearing down"])
  /\ UNCHANGED leaked

\* run_cycle does not suspend before the evaluator.
SandboxEnforces(t) ==
  /\ Driving(t, "enforcing")
  /\ StartCycle(t, generation[t].inputs)
  /\ admitted' = admitted \cup {Enforced(generation[t].inputs)}
  /\ sandboxes' = sandboxes + 1
  /\ Drives(t, [step |-> "cycling"])
  /\ UNCHANGED leaked

\* Mutant: `?` on the outcome of the cycle before the teardown.
CycleErrorReturns(t) ==
  /\ Driving(t, "cycling")
  /\ EvaluatorAnswers(t)
  /\ \/ EvaluatorFails(t) /\ Drives(t, Idle)
     \/ Drives(t, [step |-> "tearing down"])
  /\ UNCHANGED <<sandboxes, leaked, admitted>>

\* Whatever the outcome, the teardown comes next.  A PendingApproval stays
\* with the generation until it returns.
CycleReturns(t) ==
  /\ Driving(t, "cycling")
  /\ EvaluatorAnswers(t)
  /\ Drives(t, [step |-> "tearing down"])
  /\ UNCHANGED <<sandboxes, leaked, admitted>>

TearDown(t) ==
  /\ Driving(t, "tearing down")
  /\ sandboxes' = sandboxes - 1
  /\ Drives(t, Idle)
  /\ UNCHANGED <<vars, leaked, admitted>>

\* The outcome is discarded, a PendingApproval with it.
TeardownFails(t) ==
  /\ Driving(t, "tearing down")
  /\ leaked < MaxLeaks
  /\ leaked' = leaked + 1
  /\ Drives(t, Idle)
  /\ Finish(t)
  /\ UNCHANGED <<ledger, sandboxes, admitted>>

\* The host drops the future of run_generation at any await.
DropGeneration(t) ==
  /\ ~Driving(t, "idle")
  /\ HoldsSandbox(t) => leaked < MaxLeaks
  /\ leaked' = IF HoldsSandbox(t) THEN leaked + 1 ELSE leaked
  /\ Drives(t, Idle)
  /\ Finish(t)
  /\ UNCHANGED <<ledger, sandboxes, admitted>>

-----------------------------------------------------------------------------
(* What the host does through veh(), and the generations together. *)

ThroughVeh(t) ==
  /\ Driving(t, "idle")
  /\ \/ Room /\ commit_root(t)
     \/ resume_with_approval(t)
     \/ rollback_to(t)
     \/ RollbackSetsHead(t)
     \/ Room /\ commit_rollback(t)
     \/ RollbackAppends(t)
     \/ Drop(t)
  /\ UNCHANGED driving

DriverInit ==
  /\ Init
  /\ generation = [t \in Tasks |-> Idle]
  /\ sandboxes = 0
  /\ leaked = 0
  /\ admitted = {}

DriverStep(t) ==
  \/ run_generation(t)
  \/ MutatorProposes(t)
  \/ MutatorFails(t)
  \/ SandboxRefuses(t)
  \/ SandboxEnforces(t)
  \/ CycleReturns(t)
  \/ TearDown(t)
  \/ TeardownFails(t)
  \/ DropGeneration(t)
  \/ ThroughVeh(t)

DriverNext == \E t \in Tasks : DriverStep(t)

DriverSpec == DriverInit /\ [][DriverNext]_driverVars

\* The mutator, the sandbox and the evaluator each return or fail.
DriverFairness ==
  \A t \in Tasks :
    /\ WF_driverVars(MutatorProposes(t) \/ MutatorFails(t))
    /\ WF_driverVars(SandboxEnforces(t) \/ SandboxRefuses(t))
    /\ WF_driverVars(CycleReturns(t))
    /\ WF_driverVars(TearDown(t) \/ TeardownFails(t))

FairDriverSpec == DriverSpec /\ DriverFairness

-----------------------------------------------------------------------------
(* Properties. *)

IsGeneration(g) ==
  \/ g = Idle
  \/ /\ g.step = "proposing"
     /\ IsCopy(g.parent)
     /\ g.intent \in Intents /\ g.allowed_scope \in Scopes
     /\ g.created_at \in Timestamps
  \/ /\ g.step = "enforcing"
     /\ IsCopy(g.inputs.parent) /\ IsCycleInputs(g.inputs)
  \/ g.step \in {"cycling", "tearing down"}

\* A generation holds a parent that is in the ledger, and its cycle runs
\* exactly while the driver waits for it.
DriverTypeOK ==
  /\ generation = [t \in Tasks |-> generation[t]]
  /\ \A t \in Tasks :
       /\ IsGeneration(generation[t])
       /\ At(t, "evaluating") <=> Driving(t, "cycling")
       /\ Driving(t, "proposing") \/ Driving(t, "enforcing") => At(t, "idle")
  /\ sandboxes \in Nat
  /\ leaked \in 0 .. MaxLeaks

\* Every sandbox that was enforced is torn down, unless its generation was
\* dropped or the teardown itself failed: a cycle that fails, is rejected or
\* is paused leaves none behind.
SandboxBalanced ==
  sandboxes = Cardinality({t \in Tasks : HoldsSandbox(t)}) + leaked

\* No candidate is evaluated, and no node of a cycle is in the ledger, unless
\* the sandbox accepted its artifact under the very scope it carries.
EnforcedBeforeEvaluated ==
  /\ \A t \in Tasks : At(t, "evaluating") => Enforced(task[t].inputs) \in admitted
  /\ \A id \in Ledger :
       IsCycleNode(Node(id)) => <<Node(id).artifact, Node(id).allowed_scope>> \in admitted

\* A driven lineage never descends from a rejected node, whatever was
\* appended or reverted between the selection and the append.
ParentsPromoted ==
  \A id \in Ledger : \A parent_id \in Node(id).parent_id : IsPromoted(parent_id)

\* Every generation returns, with a node, a pause or an error.
GenerationsReturn == \A t \in Tasks : ~Driving(t, "idle") ~> Driving(t, "idle")

=============================================================================
