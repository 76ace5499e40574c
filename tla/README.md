# rig-veh in TLA+

A specification of `rig-veh`, a library that lets an agent evolve under
governance: a host proposes a changed agent, the runner evaluates it, compares
it with its parent, asks a policy gate, signs the outcome and appends it to a
lineage ledger. All references are to the Rust sources under `src/src/`.

## The system

| Part | State it keeps | Operations | Interacts with |
|---|---|---|---|
| Artifacts, intents, scopes (`artifact.rs`, `intent.rs`) | none (values) | `capability_sbom`, `canonical_json`, `MutationIntent::{new, rollback, rollback_target}` | hashed and signed by identity, read by the gate |
| Node identity (`identity.rs`, `node.rs`) | none | `signing_payload`, `compute_agent_id`, `sign_node`, `verify_node` | every commit signs, every rollback verifies |
| Policy gate (`policy.rs`) | none | `DefaultPolicyGate::evaluate` | called by `run_cycle` with a copy of the parent |
| Lineage ledger in memory (`ledger.rs`) | map of nodes, insertion order, head; one lock | `append`, `get`, `head`, `set_head`, `nodes`, exports | shared by all clones of the runner and by the driver |
| Lineage ledger in a file (`ledger.rs`, feature `jsonl-ledger`) | the file; per handle a copy in memory | `open`, and as above | as above; several handles may share a path |
| Lifecycle runner (`graph.rs`) | none; each call holds its locals | `commit_root`, `run_cycle`, `resume_with_approval`, `rollback_to`, `commit_rollback` | evaluator, gate, ledger |
| Evaluators (`evaluator.rs`, `rag_evaluator.rs`) | none | `evaluate`, `evaluate_staged`, `CompositeEvaluator::run` | awaited by `run_cycle` |
| Selectors (`selector.rs`, `ensemble.rs`) | none | `select` | read `nodes()` |
| Evolution driver, mutator, sandbox (`evolution.rs`, `mutator.rs`, `sandbox.rs`) | the sandbox's resources, the host's | `run_generation`: select, get, propose, enforce, `run_cycle`, teardown | everything above |
| Evidence (`evidence.rs`) | none | verdicts, bundles, `AuditRecord::from_node` | reads committed nodes |
| Diff, DOT and JSON export (`diff.rs`, `ledger.rs`) | none | formatting | |

What makes it hard is the runner: `Veh` is cloned into any number of async
tasks, holds no lock across an await, and each of its operations makes up to
four ledger calls. A parent, a pending approval or a rollback target is read
before an await and used after it; two operations may append the same node
(signing is deterministic); the host may drop a future at any await, or keep a
`PendingApproval` as long as it likes. The file-backed ledger adds two writes
per append, each of which may fail or be the last thing the process does.

What has to be right, per part:

* identity: the id and the signature cover every field that matters, and a node
  that the program signed verifies;
* gate: nothing outside the parent's scope, nothing gated and nothing past the
  generation cap is promoted without the approval that the policy asks for;
* ledger: map and order agree, nothing is changed or removed, the head is a
  promoted node;
* runner: every child has an earlier parent and the next generation; FR-5 holds
  along every edge; a rollback restores what it names; every call returns;
* file: what was acknowledged is read again, once, in order; what can be read
  at all is a lineage, and a restart takes back nothing that was promoted;
* driver: what is enforced is torn down, what was committed is reported;
* selectors: they choose among valid parents, and the choice is the one named;
* staged evaluation: a stage that says Stop keeps the candidate from promotion;
* evidence: equal evidence has equal bytes and different evidence different
  bytes, whoever built it in whatever order, and it is read back as written;
* export: the drawing of the lineage shows the lineage and nothing else.

## Modules

| Module | Models | State and actions |
|---|---|---|
| `AgentNodes` | `artifact.rs`, `intent.rs`, `node.rs`, `identity.rs` | operators only |
| `PolicyGate` | `policy.rs` | operators only |
| `LineageStore` | `InMemoryLineage` | `nodes`, `insertion_order`, `head`; `append`, `set_head` |
| `Veh` | `graph.rs`; extends the three above | `task`, what each task's operation holds at its await; one action per stretch between two awaits |
| `LineageDag` | the abstract audit log | `log`, `head`; `Grow`, `Revert` |
| `VehProperties` | invariants, the refinement, fairness, documented claims | |
| `Selectors` | `selector.rs`, `ensemble.rs` | operators over `nodes()` |
| `LineageExport` | `export_dag_json`, `export_dot` | operators over the ledger |
| `EvolutionDriver` | `evolution.rs`, `mutator.rs`, `sandbox.rs`; extends `VehProperties` and `Selectors` | `generation` per task, `sandboxes`, and the history `leaked`, `admitted` |
| `StagedEvaluation` | `CompositeEvaluator`; extends `VehProperties` | `stages`, `out` per task; it refines the evaluator's answer of `Veh` into one step per stage |
| `JsonlFile` | the file of `JsonlLineage`: lines, torn lines, the two writes, the replay of `open` | `file` |
| `JsonlLineage` | the ledger in a file, by several handles; extends `JsonlFile` | `memory` and `writing` per handle, and the history `acked`, `shared`, `faults` |
| `DurableVeh` | the runner over one such handle, in a process that dies and is started again; composes `VehProperties` and `JsonlFile` | the variables of both, `mode`, and the history `faults`, `losses` |
| `DurableLog` | what a durable lineage promises: `LineageDag` with restarts and power losses | `log`, `head`, `losses` |
| `Canonical` | `canonical_json` | recursive functions on JSON values, by the depth to which they nest |
| `EvidenceBundle` | bundles as values and as JSON: `to_value`, `from_value` | operators |
| `EvidenceBuilder` | hosts that build bundles with `with_*` | `bundle` per host |
| `Evidence` | verdicts and `AuditRecord::from_node`; extends `VehProperties` and `EvidenceBundle` | operators on the nodes of the ledger |
| `VehProofs`, `StagedProofs`, `DriverProofs`, `JsonlProofs`, `DurableProofs`, `EvidenceProofs` | theorems and their proofs | |
| `NumberProofs`, `FileProofs` | the lemmas they share: on numbers and loops, on what `open` reads of a file | |
| `MCVeh`, `MCReaders`, `MCEvolutionDriver`, `MCStagedEvaluation`, `MCEvidence`, `MCEvidenceBuilder`, `MCJsonlLineage`, `MCDurableVeh` | instances for TLC | |

Correspondence and abstractions:

* An `Option` is a set of at most one value. A capability `"kind:name"` is a
  pair. Hashes and signatures are ideal: they are the records they are computed
  from, so equal ids mean equal contents. The payload leaves out
  `mutation_diff`, a function of two artifacts it already names, and two fields
  that the runner always sets to the same constants.
* A score is `Some(n)`, or `None` for NaN, which serialises to JSON null and
  reads back as no score. Infinite scores are left out; they compare like very
  large or small numbers but serialise to null as well.
* `commit_promoted`, `commit_rejected` and everything between the evaluator's
  answer and the single ledger call touch only locals, so they are one action.
  `get` may be merged with the call after it because nodes never change: the
  model's `commit_rollback` reads target, head and parent at once, and appends
  later; the driver's `select` and `get` are one action.
* A ledger call that fails returns an error and changes nothing; the operation
  ends. A refused duplicate is such a call.
* The host is free: any candidate, scope and intent from the constants, any
  task, a drop at any await. It does not pass an intent made by
  `MutationIntent::rollback` to `run_cycle` (`VehAssumption`), which would make
  an ordinary node look like a rollback.
* A parent is a reference to a node, which `run_cycle` neither looks up nor
  verifies (`graph.rs:178-188`). So it is any node of the ledger, rejected ones
  included, or any of `Foreign`: a node that the host altered, as
  `tests/lineage.rs:98-103` does with its score, one that a restart lost, or one
  of another ledger. What holds of a child holds of it and *a* node that goes
  under its `parent_id` (`ParentsOf`): the one of the ledger, or one that the
  host passed for it. A foreign node may have any field altered but its artifact
  (`ForeignAssumption`): `mutation_diff`, which the payload leaves out, is
  computed from the parent's artifact. With `Foreign = {}` each property speaks
  of the nodes of the ledger alone.
* The generation is counted modulo `GenerationModulus`, which stands for 2^32.
* In `Veh` an evaluator is "some score or an error". `StagedEvaluation` refines
  it for `CompositeEvaluator`; a stage is in turn some score and some decision,
  or an error. A stage that only implements `evaluate` decides `Continue`
  (`evaluator.rs:78-89`), so a composite that is nested in another is such a
  stage and loses its decision too.
* The driver's mutator returns any artifact and its sandbox accepts or refuses
  any. A sandbox is a count: the trait hands out no handle, so which of two
  enforced sandboxes a teardown releases is not in this code. The host uses the
  driver for cycles and `veh()` for everything else.
* Selectors work on integer scores; the weights of `WeightedRandom` and the
  others are compared after multiplication by a common denominator, so the
  rounding of f64 is left out.
* A file is a sequence of lines; what follows the last newline is the last one,
  and a line is a sequence of bodies of nodes, each whole or torn. A body that
  reached the file without its newline is read again, for `lines()` does not ask
  for one. A write may fail, or the process die, in the body, after it, or after
  the newline (then only the acknowledgement is lost).
* In `DurableVeh` an append and its write are one step, because `append` holds
  the lock over both; what comes between is a failed write or a death, which
  have actions of their own. A failed write ends the operation, a consumed
  `PendingApproval` with it. A death ends every operation and every
  `PendingApproval`, which cannot be stored. A power failure leaves any prefix of
  the file, because nothing is synced and the file is only appended to. While
  the process is down the variables of the ledger keep their last values, as
  history; `open` replaces them by what the file holds, or fails for good.
* `JsonlLineage` has the interleaving of several handles on one path instead,
  without a runner and without power failures.
* A JSON value is a record of its kind; an object is the sequence of its entries
  as inserted, so that it matters whether the keys are sorted. The canonical text
  is a sequence of pieces: a string is one piece between its quotes, because it
  is escaped, while a number is its digits, because only the next piece ends it.
  Booleans are left out (words, as null is). That serde_json prints a number and
  reads back the same one is assumed. Equality of values is serde_json's but for
  -0.0 and 0.0, which it takes for equal and prints apart.
* Every JSON value nests finitely deep; `MaxDepth` bounds how deep in one
  instance, and the recursion over a value is a recursive function of the depth.
* Elsewhere `canonical_json` is taken to be injective and independent of the
  order of entries, which is what `CanonicalFaithful` proves of it.
* The `capability_sbom` recorded in a node is not looked at by `verify_node`, as
  in the code, which computes it afresh from the artifact.
* The drawing keeps the vertices, their order, the edges, and of the labels the
  generation and the status.

## Runs

| Run | Instance | Shows |
|---|---|---|
| `veh` | 2 tasks, 3 nodes, 2 artifacts, 2 intents, 2 scopes, 1 score, and a root whose score the host altered | types; the ledger is indexed, headed, acyclic, and implements `LineageDag`; the gate and FR-5 hold along every promoted edge, approved ones included; rollbacks restore what they name; no mixture of two nodes verifies |
| `readers` | every ledger of up to 4 nodes by 1 task, 3 scores (one negative) | each strategy chooses what it is named for among promoted nodes; the drawing is a forest without dangling edges; FR-5 holds along every edge with every comparison of scores |
| `driver` | 2 tasks, 3 nodes, 2 intents, 2 scopes, 2 scores, 1 leak, fairness | sandboxes balance, only what was enforced is evaluated, no child of a rejected node, every generation returns |
| `staged` | 2 tasks, 3 nodes, pipelines of 0, 1 and 2 stages, fairness | stages in order, the right score is signed, nothing comes out of an empty pipeline, and the composite implements `Veh!FairSpec` |
| `jsonl` | 2 handles, 2 nodes, 2 faults | whatever can be opened holds all that was acknowledged, once and in order; without faults a reopened ledger is the same ledger |
| `durable` | 1 task, 3 nodes, 1 intent, 1 score, 2 faults, and a root that the host keeps | whatever can be replayed is a lineage of nodes that verify, but for children of what the host kept; a restart without a power failure takes nothing back but a `rollback_to`; runner, file and restarts implement `DurableLog` |
| `evidence` | 2 hosts, 7 JSON values, 2 verdicts, 1 item and 1 approval each | the bytes of a bundle depend on its contents and on nothing else, and it is read back as written |
| `veh_nan`, `veh_rollback_parent`, `staged_stop`, `audit`, `jsonl_corrupt` | small | violations, below |

### Bounds

`MaxNodes` bounds the nodes in the ledger together with the operations that may
still append one, so an operation is only started when its node fits. Three
nodes are a root, a child and a grandchild, a sibling or a rollback, which is
every relation the gate and FR-5 look at (they look at one edge) and enough to
exceed a cap of one generation; `readers` goes on to four with one task, which
gives a rollback to something other than its parent and two lineages with
children. Two tasks are enough for every
race between a check and its use: a third could only repeat what one of the two
does. One timestamp suffices to make two operations sign the same bytes. What
the bounds of `Veh` could hide, the theorems below do not depend on.

The two scopes of `veh` make every branch of the gate possible: the open
one approves an added tool unless the intent is tagged, the closed one does not
list it, gates it even for a parent that has it, and ends after one generation.
Its foreign parent is a root with a score, which the ledger's roots have not, and
the host may pass it before a root with that id is appended or after. A child of
the ledger's root may then be promoted next to one that FR-5 measured against the
altered score. Its one score makes a child of a scored child fail FR-5; the
comparisons of several scores are in `readers`. In the other runs `Foreign` is
empty: their questions are not about what a parent is, and the violations among
them need none.

In `driver` the second scope is sealed (no child at all), so that candidates are
rejected there as well; the strategy is `Random`, which may choose whatever
another strategy would. `MaxLeaks` bounds the sandboxes left behind by drops and
failed teardowns: the balance is additive, one is enough to see it.

`MaxStages` is 2, the least length at which one stage can decide before
another. In `readers`, `MaxHash` is 12 and `MaxChildren` 3, which are all the
children that four nodes allow; the hash only matters in proportion to its
maximum. In `jsonl` and `durable` two faults allow a failure and one more while its
remains are in the file: a write that failed and then a power failure that takes
the torn line away again, or two restarts. `durable` has one task: an append
and its write are one step under a lock, so all the file shows of tasks is the
order of their appends, and their interleavings are the subject of `veh`; the
theorems have any number. Its foreign parent is the root that the host kept,
whose line a power failure may take. The intent of `durable` needs an
approval in its scope, so that pauses, approvals and promotions all occur, and
with its one score every child of a scored parent is rejected by FR-5 while a
child of a root or a rollback may be approved. In `evidence` the JSON values
differ only in the order of their entries, or only in where one number ends and
the next begins, or are null; one item and one approval are enough for every
comma, and a call may be repeated. `MaxDepth` is 4 there, because a bundle nests
what hosts put into it two levels deep and those values nest up to two; `audit`
looks at no text and has 0.

Symmetry: the two tasks are interchangeable in the runs without temporal
properties, and in `veh`, whose temporal property is a refinement that does not
name a task.

### Fairness

`VehProperties!Fairness`, the abstract one: weak fairness of what follows the
evaluator's answer and of the second half of the two rollbacks, per task. The
code justifies it because no operation waits for another (locks are held only
inside a ledger call) and a runtime polls a future that is ready. It assumes that
the evaluator returns or fails. Nobody is obliged to resume a `PendingApproval`
or to start anything. `staged` states the same per stage (`StagedFairness`) and
shows, as part of `ImplementsRunner`, that it implies the abstract one; it is
also where `OperationsFinish` is checked. `driver` assumes that mutator, sandbox
and evaluator each return or fail (`DriverFairness`).

### Documented statements the program does not satisfy

Each is a run that TLC finds violated:

* `veh_nan`: a candidate with a NaN score is promoted (`graph.rs:202` against
  the doc at 114-115).
* `veh_rollback_parent`: the parent of a rollback node need not be the head when
  it is appended (`graph.rs:337-338`).
* `staged_stop`: a candidate that a stage stopped is promoted
  (`evaluator.rs:47` against 149).
* `audit`: no audit record can be made of a node that a cycle committed
  (`evidence.rs:297` against 260-263).
* `jsonl_corrupt`: one failed write makes the whole file unreadable
  (`ledger.rs:152-153` against 200).

Met while modelling, and seen in the model without a run of their own: after
`rollback_to` the head is not the most recently promoted node that
`ledger.rs:32` speaks of; a rollback node has no evaluation results though it is
no root (`node.rs:35`), which also turns FR-5 off for its children; a child's
scope may list what its parent's does not (`intent.rs:107`), since nothing
compares the two; a head set back by `rollback_to` is forgotten when the file is
opened again (`ledger.rs:223`), which `RestartNeverGoesBack` bounds: nothing
else is; the driver returns the
teardown's error in place of the outcome of a cycle that has been committed
(`evolution.rs:143`).

## Proofs

All theorems hold for every value of the constants that the named assumptions
admit:

* `GenerationAssumption`: the generation modulus is positive;
* `VehAssumption`: the host passes no intent made for a rollback to a cycle, and
  `MaxNodes` is a number;
* `ForeignAssumption`: a foreign parent has the types of a node and the artifact
  that its id was made from;
* `NumbersAssumption`: scores are numbers or absent, generation caps are numbers;
* `SelectorAssumption`: the largest hash is positive;
* `DriverAssumption`: the driver has one of the five strategies;
* `StagedAssumption`: a pipeline has a length;
* `JsonlAssumption`: nodes with equal ids are equal, as the nodes that the runner
  signs are, whose ids are made of all their fields;
* `CanonicalAssumption`: `ByteOrder` lists each string once, and `MaxDepth` is a
  number; any finite number of strings is in use at a time;
* `EvidenceAssumption`: the names of the fields and of the outcomes are among
  those strings, verdicts and approvals have their types, and what hosts put into
  bundles leaves the two levels of depth that a bundle adds, and a bundle itself
  is three levels deep even without it;
* `DurableAssumption`, and parts of the others: a bound on failures is a number.

Hashes and signatures are ideal in the proofs as in the runs: they are the
records they are made of. Nothing else is assumed of the data.

### The runner

`VehProofs` proves that `TypeOK`, `LedgerIndexed`, `HeadPromoted` and
`LineageAcyclic` are invariants of `Spec`. The four are not inductive one by one.
An append keeps the lineage acyclic only if the generation in the node's payload
follows that of the node which its `parent_id` names, and that node is not looked
up when the child is appended: both were captured before the evaluator ran, or
when the cycle was paused. So the invariant `Inv` is their conjunction with
`TasksOK`, which says of a cycle that its parent is one the host may pass, of a
paused one that id and generation are those of one such parent, and of a rollback
that what it read before its awaits is still what the ledger holds. The argument
has two halves: an append of a *sound* node (signed, well typed, a root or one
generation below a node that goes under its `parent_id`) keeps the four
(`InsertKeepsLedger`, `SetHeadKeepsLedger`), and what a task holds stays true as
long as no node is changed or removed (`TaskOverGrowth`). Each action then needs
only that the node it signs is sound, which for a child of an unverified parent
takes that a foreign generation is a u32 (`ParentFacts`).

Beside it stands `NodesSealed`: every node of the ledger has all the fields that
are verified, and is a valid parent exactly if it is promoted. As id and signature
cover each of those fields, two nodes cannot be mixed (`NodesNeverMix`). The
driver needs the other half: its selectors ask for `valid_parent` and never for
the status.

`VehProofs` also proves `GateRespected`, `RollbackFaithful` and, when
`RequireStrictImprovement` is set, `StrictImprovement`. The invariant
`SafetyInv` adds to `Inv` the three guarantees and `PendingsPassed`: a paused
cycle had already passed the generation cap and FR-5 against the parent it was
given. This is what makes a late approval safe, because `resume_with_approval`
tests neither again, and it stays true because the nodes that go under an id only
become more (`ParentsOfGrow`).

It also proves that `Veh` implements `LineageDag` (`RunnerImplementsDag`) and
that the drawing is a forest (`DrawingIsForest`), both as long as no node that may
be passed as a parent has the largest generation (`NoWrap`): with it the next one
wraps to zero and the child looks like a root (`graph.rs:404` adds with
wrap-around in a release build). The hypothesis is satisfied by every behaviour
whose lineages, foreign ones included, stay shorter than 2^32. The foreign nodes
are the `Strangers` of `LineageDag`, from which an entry may descend without their
being in the log.

### Selectors and driver

A loop of the code is a recursive function in the model. `NumberProofs` proves
that such a function is what its equation says (`LoopTo`) and that what holds of
its start and of each step holds of its end (`InductionTo`), stated with sets
instead of predicates. With them `DriverProofs` shows that the single pass of
`Best` yields the first of the best and that the sort of `BestByMetric` has the
same first element (`EnsembleIsLed`), and that every strategy chooses promoted
nodes (`SelectorsChoosePromoted`).

A loop that adds up is a fold over a set. `NumberProofs` also proves that a fold
exists (`FoldExists`) and that the sum does not depend on the order it takes
(`FoldIsSum`), so that what `weighted_choice` has accumulated at a node is the sum
from the left (`WeightSums`). A hash other than 0 then falls into the interval of
exactly one node, which has weight (`HashFalls`): `WeightlessNotDrawn` needs
nothing more, while `WeightsDoDecide`, the whole of `WeightsDecide`, needs
intervals that contain a hash. Its hypothesis `NoneBetweenHashes` says that every
weight is at least one hash's share of the total; with hashes of 64 bits only a
weight more than 2^64 times smaller than the total is less.

The driver does nothing that the host could not do with the runner
(`DriverImplementsVeh`), so all that is proved of `Veh` holds under it. This is
not obvious from its actions: `enforce` starts a cycle with a parent that was
read two steps before. The driver takes its parents from the ledger only, and
what was read is still there when the cycle starts; the host beside it runs no
cycles of its own. The invariant `DriverInv` adds to `Inv` and `NodesSealed`:

* `GenerationsOK`: what a generation holds was made from a promoted node of the
  ledger (`Prepared`), and it is at the step that its task's operation is at
  (`InStep`);
* `GuardsOK`: whatever an operation under way may still append has a promoted
  parent and, if a cycle made it, was admitted by a sandbox (`Guarded`), and so
  has every node of the ledger (`Driven`);
* `SandboxesOK`: the generations that hold a sandbox are finitely many, and with
  the leaks they are as many as the sandboxes enforced.

`SandboxesBalance`, `EnforcedFirst` and `ParentsStayPromoted` are parts of it.

### Staged evaluation

`StagedProofs` proves that every behaviour with a composite evaluator is a
behaviour of `Veh` (`CompositeIsEvaluator`), so that all of the above holds with
it, and from there `StagesInOrder`, `EmptyPipelineCommitsNothing` and the action
property `SignsLastResult`. The second needs that nothing is paused either: an
approval is the other way into the ledger.

### The file

`FileProofs` says what `open` reads: the bodies, line by line (`ReadingRuns`);
after a body was written, one more if the last line was empty, while a file whose
last line was not can no longer be read (`BodyWritten`); after a newline, the
same (`NewlineWritten`); of a readable file that was cut, the first of its nodes
(`CutReads`). A torn body is not a node, so a cut inside a body makes the file
unreadable, and one before it may make it readable again.

`JsonlProofs` is about several handles on one path. `JsonlInv` says:

* `Backed`: the memory of every handle, and what was acknowledged, is among what
  the file holds, in order;
* `WritersAlone`: the node of an append under way is the last one, alone on its
  line, after all that its handle knows and all that was acknowledged, and no
  other append is under way;
* `HandleAlone`, `HandleCurrent`: as long as two handles were never open at once,
  there is only one, and it knows all that is in the file whenever the last line
  is empty;
* `NoLineTwice`, which is inductive once `HandleCurrent` is known: the check for
  a duplicate looks at the memory and not at the file;
* `CleanFile`: without failures and a second handle the last line is empty
  between two appends.

The file is spoken of only while it can be read, which is enough: here nothing
makes a file readable again. The parts meet in the last line. A failed append, or
a second writer, leaves a body or a part of one there, and the body of the next
append joins it: the file is lost, and nothing is promised of it.

`AckedStays` is the consequence that matters: what was acknowledged is replayed,
in that order, whenever the file can be opened. `NoRetryRepeats`,
`ReopeningIsIdentity` and `MemoryIsBacked` are the others.

`DurableProofs` puts the runner over the file. A power failure may make readable
what was not, so an invariant about the file when it can be read is not
inductive. `DurableInv` speaks of every cut of the file that can be read
(`HoldsLineages`): its nodes are a lineage, they begin like the ledger in memory,
and at most one of them is not in it, whose append did not return. `FileFollows`
says how far the whole file goes: as far as the ledger when the process is up and
the last line is empty, and only then can an append add to what can be read. The
lineage is what a restart needs to establish `Inv` again, from the file alone and
with no history (`OpenKeepsInv`). A node that the host kept is not in that lineage
when a power failure took it, so a child of it has a place there only as one of
a foreign parent. `FileStaysLineage`, `RestartsNeverGoBack` and
the refinement `DurableImplementsLog` follow; the last needs `NoWrap` as above.

### Evidence

`EvidenceProofs` proves first, of the text alone, that two values have the same
canonical text exactly if they are the same value up to the order of entries
(`CanonicalFaithful`). That equal values have equal texts follows from the sorted
keys (`SortedKeys`: they depend on the set of keys only). The other half says that
the text can be read in one way only. It is not inductive as it stands, for the
text of a value inside a list is followed by the rest of the list. What is proved
by induction over the depth (`FaithfulByDepth`) is about a text and what follows
it: two values with their continuations are the same sequence only if the values
are the same and the continuations are. It holds

* of a number only if the continuation does not begin with a digit, a point, a
  sign or an exponent (`RunsApart`), and what follows a value in a list is a
  comma or the end of the list (`RestBegins`);
* of an array, because no text begins with a comma or with what closes a list,
  so that both lists end at the same item (`JoinedApart`);
* of an object, because the same argument applies to its pairs, and its keys are
  quoted (`PairsApart`).

So the commas, the quotes and the closing brackets are each needed, and nothing
else of the format is. `EvidenceTypeCorrect` says which bundles hosts can make,
and `BundleShown` that the JSON of each is a value of the depth in question; with
them `OrderNeverShows` and `BytesTellApart` follow. `ReadsBack` needs that in
the object of a bundle, whose optional fields are left out when they are empty,
each field is found where it was put and nowhere else (`LookupConcat`,
`BundleRead`).

### Only model-checked

* Liveness (`OperationsFinish`, `GenerationsReturn`) and the fairness part of
  `ImplementsRunner`: out of the prover's reach.
* The violations.

Every invariant, every action property and the safety part of every refinement
that a passing run checks is proved, with the hypotheses named above
(`RequireStrictImprovement`, `NoWrap`, `NoneBetweenHashes`).

## Plan

Done: every component of the list above that is modelled, with its runs, and
the proofs of all safety properties and refinements of the passing runs.

Next: the audit record as a function of a node, so that what it says of a node
can be proved as well.

## Not modelled

The manifest diff and the error texts (formatting); the RAG evaluator (it copies
a number from the host's harness); the fields of an intent that nothing reads
(rationale, expected improvement, metadata other than the rollback target); hosts
that override `score_of`; infinite scores and the rounding of f64; parents whose artifact the host altered; several
processes that run over one file at the same time under the runner (`jsonl` has
two handles without it); examples and tests.
