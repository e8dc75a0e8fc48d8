# Verification of the process extraction kernel

TLA+ models, model-checking runs and machine-checked proofs for the
accounts-payable agent of this repository, the graph pipeline that builds the
graph it runs on, and the two programs that run around it: the watchdog over
incoming process texts and the optimizer that patches the verifier. Paths are
relative to the repository root.

## 1. The system

The program turns a textual process description into a process graph ("mining"),
repairs that graph, compiles it to a LangGraph state machine, and runs invoices
through it. An LLM reads each invoice; everything after the LLM is deterministic.
A watchdog runs the miner on new text files and logs how well it did; an
optimizer asks another model for patches of the verifier and offers those the
tests accept.

| Component | Code | State it keeps | Operations | Talks to |
|---|---|---|---|---|
| mining front end | `src/heuristic.py`, `extract.py`, `llm_classifier.py`, `main.py` | none between runs | LLM classification with retry, graph assembly | writes the mined graph JSON |
| graph patcher | `patch_logic.py` | the graph document | `_patch`, `inject_exception_stations`, `main` | reads the mined graph, calls the normalizer and the linter |
| graph normalizer | `src/normalize_graph.py` | the graph document | 17 passes, in the order of `normalize_all` | edits nodes and edges other passes read |
| graph linter | `src/linter.py`, `src/invariants.py` | none | `assert_graph_valid` | gate of the patcher and the compiler |
| condition language | `src/conditions.py` | none | normalize, parse, compile a condition | used by passes, linter, router |
| compiler | `src/agent/compiler.py` | tables: outgoing edges, station map, start node | `build_ap_graph` | lints, then builds LangGraph |
| edge router | `src/agent/router.py` | none (appends to `outputs/unmodeled_events.jsonl`) | `analyze_routing`, `route_edge`, `build_route_record` | called after every node and by gateways |
| node handlers | `src/agent/nodes.py` | `APState` through returned updates | one per intent; LLM calls in `ENTER_RECORD`, `CRITIC_RETRY`, `VALIDATE_FIELDS` | verifier, router (decision records), audit log |
| verifier | `src/verifier.py`, `contracts.py`, `arithmetic.py` | none | structural, semantic, evidence and arithmetic checks | decides the extraction status |
| explanation | `src/audit_parser.py`, `explanation.py` | none | reads an audit log back into a report | reads what the handlers logged |
| watchdog | `src/monitor.py` | in-memory set of seen files, audit CSV | poll, extract, score, append | file system, `metrics.db`, the miner (through `calibrator.py`) |
| classifier | `src/llm_classifier.py` | none | windows, retries, self-healing by halving | an LLM; called by the miner |
| optimizer | `scripts/auto_optimizer.py` | git branch, `verifier.py` | triage, patch, test, deliver or roll back | git, an LLM, the test suite |
| harness, reports, UI | `eval_*.py`, `visualizer.py`, `app.py`, ... | none | scoring and formatting | call the agent |

What is hard to get right, and where:

- **Two evaluations of one decision.** A gateway handler analyses its edges and
  records the decision *before* its own update (`last_gateway`, audit) is merged;
  LangGraph evaluates the same edges *after* the merge. The record and the path
  must not differ.
- **Everything the LLM may answer.** An error, a malformed payload, an answer the
  verifier refuses, a NaN amount, a second answer by the critic that differs from
  the first, fields written in debug mode although the verifier refused them.
- **Failing closed.** A state that no edge accepts, or that several accept, must
  end in a review station, once, with a log entry that names the right node.
- **Order of the repairs.** Sixteen passes edit one graph, each written as if it
  came alone; later ones append edges to nodes earlier ones repaired, one replaces
  an edge another put there, and all are run again on their own output. One
  iterates a Python set, whose order the source does not fix.
- **Linter, compiler and router read the same edges differently.** The linter
  sees all edges, the compiler keeps one per (from, to), the router looks at
  targets before conditions.
- **One report from several attempts.** The explanation stitches "last" events of
  different families, which a retry emits unevenly.
- **A condition is rewritten and then rewritten again.** The normalizer stores a
  canonical text, the router normalizes what it finds; quotes, case, float
  literals and compounds each have rules of their own, and the static type check
  keeps a table beside Python's own rules.
- **A directory others write to.** Between the listing of a poll, the reading, the
  audit row and the remembering of a name, files appear, grow and vanish, a
  calibration ends, the process dies and is started again with an empty memory.
- **Retries inside retries.** A window the LLM fails on is asked again; one it
  finds nothing in is asked again, halved, and each half is a call of its own.
- **Git as state.** The optimizer keeps its progress in the developer's checkout;
  every command can fail, and the next run starts from what the last one left.

What makes each component correct:

- router: one target or none; reason and target agree; edge order is irrelevant;
  an edge added later cannot send an invoice to another old target.
- handlers and compiler together: an approval is justified by verified facts; every
  run ends; no final status is overwritten; a diverted run ends at its station.
- normalizer: each pass idempotent (pass 10 is not on every graph, see section 3);
  repairs last; approval and payment stay behind
  the 3-way match; failed extractions are never ambiguous.
- verifier: what it accepts is in the text; an answer that reads the text
  correctly is accepted; a refused answer leaves nothing behind.
- explanation: the report agrees with the run it describes.
- conditions: normalizing changes no meaning; a compound is the conjunction of its
  parts; a comparison that cannot be evaluated is warned of.
- watchdog and classifier: one audit row per arrival, no arrival skipped, thin files
  flagged by the current baseline, every new file analysed; a call of the classifier
  that returns intents has an answer about each of its own windows.
- optimizer: a request is what was tested, and one invoice's patch only; the
  developer's branches stay; a sweep ends where it began.

## 2. Modules

```
EdgeTerms        edge and condition constructors
Router           condition evaluation, analyze_routing, route_edge     (router.py, conditions.py)
 +- RouterLaws       one node, edges appended one at a time
 |   +- MCRouterLaws
 +- AgentWorkflow    one invoice on any compiled graph                 (nodes.py, state.py, compiler.py, unmodeled.py)
     +- MCDetour         an awkward small graph
     +- ProductionWorkflow   the same on ProductionGraph; properties
         |   InvoiceDecision      the abstract promise it implements
         +- ExplainedWorkflow     with Explanation (audit_parser.py, explanation.py)
             +- MCProduction
ProductionGraph  the reachable part of the production graph            (patch_logic.py, normalize_graph.py)
GraphPasses      the passes and patches as graph transformations       (normalize_graph.py, patch_logic.py)
 +- GraphCompiler    linter verdict, compiler tables                   (linter.py, invariants.py, compiler.py)
     +- GraphPipeline    one mined graph through all of it; properties
         +- MCPipeline
Verifier         judging one answer against one text   (verifier.py, contracts.py, arithmetic.py, payload schema)
 +- Extraction       ENTER_RECORD and CRITIC_RETRY around it           (nodes.py); implements AgentWorkflow
     +- MCExtraction
Conditions       texts, normalization, predicates, type check          (conditions.py)
 +- MCConditions
Classifier       one call of the LLM classifier                        (llm_classifier.py)
 +- Watchdog         the polling loop around it                        (monitor.py, calibrator.py, heuristic.py)
     +- MCWatchdog
Optimizer        a sweep over failing invoices                         (scripts/auto_optimizer.py)
 +- MCOptimizer
RouterLawsProofs, AgentProofs, ProductionProofs, GraphProofs, ExtractionProofs,
ConditionsProofs, WatchdogProofs, OptimizerProofs                      TLAPS
```

**Router.** An outgoing edge is `[to, kind, all]`: `kind` says what compiling its
condition gave (no condition, a conjunction of comparisons, or a predicate that is
always false), `all` is the set of comparisons. `Selects` is `analyze_routing`:
an only edge, or edges that agree on their target, are taken without evaluating
any condition; otherwise the only match; otherwise the only unconditional edge.
`Compare` has Python's results for NaN, and FALSE where the code catches a
`TypeError`; a field that is None satisfies nothing.

**AgentWorkflow.** One action is one turn of LangGraph's loop: the handler of node
`pc` returns an update, the update is merged, the edge function picks the next
node on the merged state (`Commit`). `doc` is `APState` without its logs; `audit`
is the sequence of structured audit events; `records` is `route_records`;
`unmodeled` is the JSONL file `record_event` appends to; `debug` is the
environment flag `ALLOW_UNVERIFIED_EXTRACTION`, read once. `EnterRecord` and
`CriticRetry` choose the document that any answer of `_call_llm_json` followed by
the validation pipeline can leave: refused before the verifier (LLM error,
structure, semantics, schema), verified, or refused by the verifier - with, in
debug mode, any fields of the right type written all the same. `Raise` is an
exception that leaves `graph.invoke` (a handler that makes an LLM call can raise
outside its own `try`). The graph is a parameter.

**Verifier / Extraction.** AgentWorkflow leaves the verdict on an answer to chance;
here it is computed. A text and a piece of evidence are sequences of words, money
is in cents, and `Lexicon` says what the regular expressions find in a word: its
numbers (a date has three), whether it is a percentage, its role keyword, a PO
pattern, a date. `Numbers` are the numbers of a piece of text with their places. Windows of characters (30, 40, 50, 24) become windows of words.
Evidence may start or stop inside a word (`Tails`, `Heads`), as `str.find` allows.
`near` is the one place where binary floats show: a difference of exactly one cent
is within the tolerance or not. `Verdict` is `_validate_extraction_pipeline`:
shape, plausibility, schema, then field verifiers and arithmetic together.
`Extraction` runs the two handlers on it, and `ImplementsWorkflow` maps it to
AgentWorkflow on a graph of three nodes, so that what the agent's theorems assume
of an extraction is what the checks return.

**ProductionGraph / ProductionWorkflow.** The nodes and edges an invoice can reach
on the production graph, each edge list a named operator with the pass that made
it. The remaining mined nodes (n8 and up) are cut off by
`fix_main_execution_path`, as the repository's tests acknowledge. That this *is*
the graph the pipeline makes is not assumed: `LeavesProductionGraph` checks it.

**InvoiceDecision.** The promise, without graph, router, retries or logs: an
extraction is verified at most once and fixes the facts; the invoice gets one
outcome, a function of those facts and the match flag, and keeps it.

**GraphPasses / GraphCompiler / GraphPipeline.** A graph is a record of two
sequences, as the JSON file has lists. Conditions are opaque names (their
canonical text); `Synonyms` maps the miner's labels. Every pass is an operator
from graph to graph; `GraphPipeline` applies the patcher, then one pass per step,
then lints and compiles, or runs `normalize_all` a second time. `Picks` is the
choice `_find_chain_node` makes when it iterates a set. Loops over the edges that
the proofs speak about (the compiler's and the normalizer's deduplication, the
UNKNOWN guard) are recursive functions of the number of edges done; the other passes
are folds over the nodes.

**Explanation / ExplainedWorkflow.** The parser keeps the events of each family in
order (`Positions`, where they are in the log); the builders take the last of a
family. `ExplainedWorkflow` evaluates them
on `audit` in every state of a run.

**Conditions.** A text is the sequence of its pieces with their kinds (the
tokenizer's, plus a number only Python reads and a piece no token starts with), and
whether it has more white space than it needs, because two synonyms are written
without any. `NormalizeCondition`, `Predicate`, `TypeWarnings` and `Diagnosis` are
the functions of `conditions.py`; a segment of a compound is known by the place where
it ends. The state machine is one edge through any number of runs of
`normalize_edge_conditions`. `Meaning` is the set of states an edge is
taken on.

**Classifier / Watchdog.** A text is an interval of words, an answer is known by
the window it stems from, the activations of the recursive function are a stack,
and which calls answer, answer nothing or fail is free. `Watchdog` runs it on
every chunk of every new file when `USE_LLM_CLASSIFIER` is set: `pc` is the
position in the loop of `watchdog()`, `seen`, `batch`, `pieces` and `baseline` are
its local variables and are lost by `Stop` and by every uncaught exception
(`Down`); `files` and `db` are changed by others at any moment. `arrivals`,
`seeded`, `known` and, in the classifier, `heard` are history the properties read.

**Optimizer.** A tree gives the version of every definition of `verifier.py`, and
of all other files as one; a version is named by the branch it was made on.
`branches`, `head`, `tree`, `staged`, `remote` and `requests` are what git and
GitHub hold; they survive `End`, the locals of `main` do not. Each command is an
action, so that `Die` (a kill, a failing command, an unusable answer) can come
before any of them. `Checkout` and `Committed` do what git does with uncommitted
changes. Between runs the developer edits or switches branches.

## 3. Runs

| Run | Question | Result |
|---|---|---|
| `production` | Does an invoice's end say truthfully how it was reached? Approval and outcome justified, defaults kept, diversions logged, critic once, recorded decisions followed, retries answered, the abstract decision implemented, explanations right | passes, 632 states |
| `detour` | Does the agent fail closed on a graph with overlapping, incomplete and unsatisfiable conditions, two unconditional edges, and a missing station? Is payment matched when the legacy flag is used? | passes, 617 states |
| `router_laws` | Order independence, reason against target, appended edges | passes, 6552 states |
| `pipeline` | 432 mined graphs: do repairs last, is each pass idempotent (pass 10 only once pass 11 has run, where a whitelisted gateway leads to another), do the linter, compiler and router together keep approval and payment behind the match, is the production graph the result? | passes, 19332 states |
| `extraction` | Does a verified document say only what its text says, only what the accepted answer said; are refused sums refused for good; are faithful answers accepted; is AgentWorkflow's choice of verdicts wide enough? | passes, 14742 states |
| `conditions` | Does normalizing, once or again, keep the states an edge is taken on; is a compound the conjunction of its parts; does the type check warn of every comparison that raises? | passes, 27434 states |
| `watchdog` | Under arrivals, removals, half-written files, calibrations, stops and a restart: one row per arrival, no arrival skipped, no window of a call's own passed over, thin files flagged, every new file analysed? | passes, 541k states |
| `optimizer` | Through failing commands, kills, reruns and a developer's edits: are requests what was tested, one patch each, branches kept, the checkout restored, every sweep ended? | passes, 706k states |
| `production_missing_data` | "bad/blank field data must not proceed to matching" | violated |
| `pipeline_twice` | "running twice yields the same graph" | violated |
| `optional_fields` | optional fields are only populated on successful verification | violated |
| `arithmetic_dates` | the total is said to mismatch only when the printed sums do | violated |

Bounds, and why they are enough:

- `Threshold = 2` stands for 10000, `MCAmounts` has the default 0, the threshold
  itself and one above; amounts are only compared with the threshold, so these
  and NaN meet every case. Both match flags and both debug settings start a run.
- The runs of the workflow end on their own after at most 11 steps; no bound cuts
  them. `CHECK_DEADLOCK FALSE`: a finished run has no step.
- `detour` has every combination of both match flags (given true, given false, not
  given), an edge of every kind, and amounts on both sides of its only constant.
- `router_laws` has all lists of at most three edges over a pool of eleven:
  three are needed for "two match, one falls back", and every clause of the router
  quantifies over at most two edges. The laws are proved without the bound.
- `MCPipeline` varies what the passes look at: labels of the match gateway,
  complete, incomplete, doubled and relabelled payment chains, six kinds of
  edges at n9 (one with two edges to one target, one with an edge to a second
  whitelisted gateway, n19, that fans out itself), three at n13, and whether n4 is a
  match gateway as well. Node
  ids are fixed because the passes name them. A graph in which n4 is a match
  gateway is always rejected by the linter (`fix_match3way_gateway` leaves
  match-result conditions on a node that is no match decision), and so are those
  with an `IF_CONDITION` branch at a structured gateway: 225 of 540 first-round
  graphs (a doubled chain gives two) are accepted, all with n4 = `VALIDATE_FIELDS`. The properties that
  start with `Accepted` speak of those; `FanOutStaysRepaired` and
  `PassesAreIdempotent` speak of all, the latter not right after pass 10 where a
  whitelisted gateway leads to another (there it says that pass 10 has nothing left
  to do once pass 11 has run), the former not of targets mined twice.

- `extraction` has six texts: sums that add up, the same with a tax rate, a fee and
  a date, a wrong rate, sums that do not add up, no subtotal, and sums that add up
  followed by a date. A first answer departs from a faithful one in one field, or
  in the amount and an optional field, by one of 53 departures that between them
  reach every failure code but those an earlier gate makes unreachable
  (`MISSING_KEY`, `TAX_MISSING_KEY`); a critic's answer in at most one field. That
  is enough because the codes of a field depend on that field and the text alone,
  and what is left over between two answers needs one refused field and one
  written. `Tails` cuts a number, a PO and a date out of longer words. `Heads` is empty: cutting a number at its end adds nothing to cutting it
  at its start.
- `conditions` has every label kind, every comparison of four fields with an
  equality and an ordering operator and each kind of right-hand side (in the wrong
  case, unquoted, a number only Python reads, two pieces, none, a piece no token
  starts with), all compounds of two of these, with and without white space, and
  states in which each field is missing, low, high or of either value. The
  functions look at one comparison at a time and join the results, so two parts
  show what more would. The model's normal forms, predicates, warnings and
  provenance agree with the Python functions on exactly these 17112 texts.
- `watchdog` has two names, so that a batch has an order; files of one and of four
  words, a watch chunk of three and windows of two overlapping by one, so that a file
  has two chunks and a chunk two windows; `RecursionLimit = 2` for one halving and
  the level at which it stops; densities 0 and 3 on both sides of the threshold; two
  outside events and two starts, enough for a file to vanish or grow inside a poll,
  for a name to return, and for a restart. The safety properties of the log are
  proved without these bounds.
- `optimizer` has a report in which an invoice occurs twice, a sweep or not, with
  and without a limit, dry or not; two definitions the splice finds whole and one it
  cuts; one retry; two runs; one edit or branch switch before or between them. A
  second run meets everything a first can leave. The safety properties are proved
  without these bounds.

Fairness: `Spec` is `SafeSpec /\ WF_vars(Next)`. LangGraph's loop runs the next
node whenever there is one, and every handler returns or raises: the only
external call is the LLM client's, which answers or raises, and `_call_llm_json`
turns an exception into an `_error` answer. No stronger fairness is assumed;
`RetryAnswered` and the liveness half of `ImplementsDecision` need nothing else
because the reachable graph has no cycle. `Watchdog` and `Optimizer` assume
`WF_vars` of the single process's own steps and of nothing else: no arrival,
calibration, start or developer is fair. It is justified because every blocking call
returns: the LLM client and Gemini have timeouts, the test suite is given 60
seconds, the pauses are `time.sleep`, and git and `gh` run to their end. Which way a
call ends is never assumed. `NewFilesAnalysed` allows the process to stop instead,
because an exception of one file may stop it. Safety is stated for `SafeSpec`.

### What the violated runs show

Each is a disagreement between what the repository says and what it does; the
quotes are in `PROJECT.json` "findings".

1. `n_reject` is meant to stop blank data before matching, but its edge leaves n3
   and MISSING_DATA is assigned by n4, whose only edge is unconditional. The
   invoice goes on to the match.
2. That passes are idempotent does not make the pipeline so: the second run adds again the
   edge the critic pass had replaced, and the critic pass then returns early. A
   BAD_EXTRACTION invoice on the second graph matches two edges.
3. In debug mode a refused first answer writes its optional fields; a critic's answer
   that omits them, as its prompt asks, is verified with those values standing.
4. A date (or a PO number) within forty characters after "total" takes the role of
   the total, and an invoice that adds up is refused on every attempt.

### Seen while modelling, not the subject of a run

- Verifier: it tolerates `has_po = false` with evidence null (`src/verifier.py:451`),
  but the payload schema refuses a null evidence first, so that branch is only taken
  for an empty string; tax evidence "Tax (10%) 9.00" yields 10, not 9.00; evidence may
  be part of a printed number ("100" of "4100"), which `README.md` discloses as text
  containment.
- Compiler: the deduplication by (frm, to) at `src/agent/compiler.py:61` compares no
  condition, though its comment speaks of edges that became identical; a gateway
  whose two branches lead to one task keeps only the first.
- Normalizer: pass 10 calls itself idempotent (`src/normalize_graph.py:1350`) but is
  not where a whitelisted gateway fans out to another one later in the node list: the
  first is skipped while its target is still a gateway, the target is then converted,
  and the pass run again converts the first too. TLC shows it on the mined graphs with
  n19, which is why `PassesAreIdempotent` excepts them there; in the pipeline pass 11
  converts the first gateway to a review task before the pass runs again.
- Normalizer: pass 10 promises "no inter-target edges" (`src/normalize_graph.py:1355`)
  but collects a target per edge: one mined with two edges of one meaning is in the
  chain twice and becomes its own successor, in graphs the linter accepts too.
  `FanOutStaysRepaired` excepts those targets.
- Normalizer: pass 5 wires approve, schedule, execute (`src/normalize_graph.py:611`);
  pass 6 takes n7 for the executed payment and cuts n7 -> n8. In the numbering of the
  production graph n7 is the scheduling, so that an approved payment is scheduled and
  the process ends. `tests/test_fix_match3way_gateway_secondary.py:201` knows of it.
- Explanation: after a retry, `_build_extraction` joins the first attempt's validity
  with the second attempt's status, because the critic logs no `extraction` event;
  `RetryExplained` compares the two only without a retry.
- Conditions: `amount<=thresh`, a synonym when it stands alone, is compared with the
  string "thresh" when it is part of a compound, although each part is said to be
  normalized independently; `CompoundIsConjunction` excepts it.
- Classifier: a window that fails twice makes its call return an empty list, and the
  regular expressions take over (`heuristic.py:335`, "if LLM is off, failed"). If the
  call was the recursive one for a half, the empty list is added to the intents of the
  other half instead, which are returned as if they were the answer to the whole text;
  a half whose call raises is skipped likewise. `OwnWindowsAnswered` does not exclude
  either. An exhausted outermost call, all windows empty, raises ValueError, which the
  fallback does not catch. An empty answer to the retry after an error is taken as it
  is, and a model that never finds anything is asked down to the recursion limit.
- Watchdog: it "runs until interrupted with Ctrl-C" (`src/monitor.py:323`) or until an
  exception: of the classifier, or of a file that vanishes between listing and reading.
- Watchdog: what is in the directory at a start is never analysed, nor a name that
  was removed and came back while the process runs; a file still being written is
  analysed as it is; a `metrics.db` that cannot be read counts as no baseline, and
  every file is then GREEN or YELLOW.
- Optimizer: the rollback's `git reset --hard` also discards the developer's
  uncommitted edits; a run after a crash takes the left-over patch branch for the
  original one; an exception for one failure ends a sweep documented as "Process ALL
  failures"; a definition whose signature closes at column 0 (most verifiers) or
  whose value spans lines in square brackets is cut short, so that a patch of it
  always raises; the tests run with uncommitted edits of other files in place, which
  the request does not contain.

## 4. Proofs

All theorems are about every value of the constants that satisfies the named
assumptions.

| Theorem | Module | Says |
|---|---|---|
| `OrderIndependence`, `ReasonAgreement`, `AppendedEdges` | RouterLawsProofs | the three router laws, for every pool of edges, every state set and every bound |
| `TypeCorrect` | AgentProofs | `TypeOK` on every well-formed graph |
| `DiversionsFailClosed` | AgentProofs | `FailsClosed` on every well-formed graph with `StationsEndRuns`; `ProductionFailsClosed` (ProductionProofs) shows that the production graph is one |
| `ApprovalIsJustified`, `OutcomeIsJustified`, `DefaultsKept`, `DiversionIsLogged`, `CriticOnlyOnce`, `RecordsAreFollowed` | ProductionProofs | the production graph's safety properties, for every threshold, every set of amounts and either match flag |
| `DecisionImplemented` | ProductionProofs | `SafeSpec => Promise!SafeSpec`: the agent on the production graph refines InvoiceDecision, its fairness aside |
| `ExceptionIsExplained`, `RetriesAreExplained` | ProductionProofs | the explanation read from the audit trail agrees with the run |
| `FieldsAreCurrent`, `RefusedSumsAreFinal` | ExtractionProofs | what a verified document holds, and that refused sums are final, for every set of texts, every answer and every lexicon |
| `VerifiedIsInText`, `FaithfulIsAccepted` | ExtractionProofs | soundness and completeness of the five gates: what they accept is in the text (a NaN amount excepted), what reads the text faithfully they accept |
| `HandlersImplementWorkflow` | ExtractionProofs | the two handlers with the verifier inside refine those of AgentWorkflow, document and events |
| `RunsEnd` | ProductionProofs | every handler call takes the run strictly further down, so a run is over after ten calls at most, whatever the LLM answers |
| `TablesAreWellFormed` | GraphProofs | every graph the linter accepts compiles to tables with start, ends and targets in the graph, one edge per target, and no target lost |
| `DecisionsFollowTheMatch` | GraphProofs | in every graph the linter accepts, a match decision follows the branch of the invoice's result or diverts, also where the compiler dropped a branch; with three different targets it follows the branch |
| `PassesTwice` | GraphProofs | six of the sixteen passes are idempotent on every graph |
| `ConditionsSettle`, `NormalizationIsStable` | ConditionsProofs | an edge's condition is the mined text or its normal form, which is stable; however often the pass runs, the edge is taken on the same states |
| `CompoundsAreConjunctions` | ConditionsProofs | a compound is taken where all of its parts are, for every text (one without spaces and with an operator label as a part excepted) |
| `QuietEdgesCompare` | ConditionsProofs | an edge the diagnosis is silent about never meets a TypeError, for every text and set of states |
| `AuditedOncePerArrival`, `NoArrivalSkipped`, `ThinFilesFlagged` | WatchdogProofs | the audit log, for every set of files, any number of events and starts, any window size |
| `WindowsAnswered` | WatchdogProofs | every word of a call's text is in a window of that call that got an answer or is still to come, for any overlap, window size and recursion limit; what becomes of the halves of a window answered with nothing is not claimed |
| `RequestsTested`, `RequestsSeparate`, `BranchesKept`, `SandboxLeft` | OptimizerProofs | the repository, for every report, any definitions, any number of runs, kills and edits |

Assumptions: `NotANumber` (None and NaN are no numbers, and differ),
`EdgesAreWellFormed` (RouterLaws), `GraphWellFormed` (what the linter establishes:
edges and stations stay in the graph, review nodes carry a known reason),
`InputsTyped` (types of the caller's inputs), `ThresholdIsAmount`,
`OnProductionGraph` (the parameters are the production graph), and the types of the
parameters in `WindowsAdvance`, `WatchdogInputs` and `OptimizerInputs`. The verifier
adds `LexiconTyped` and `NoValues` (types of what the regular expressions find; the
stand-ins for null, NaN and mistyped values are no values and differ), `AnswersTyped`
(the fields of an answer, each missing, no object, or a value with evidence that is
words or null: what `json.loads` leaves), `LabelsAreKeywords` (the words a faithful
answer quotes as labels are the ones the regular expressions look for) and `NoStatus`;
the conditions add `WordsHaveCases` (upper and lower case of ASCII words: taken twice
they are what they are taken once; the words of the synonyms are written as they are), `TextsTyped` (texts are made
of the tokenizer's pieces) and `StatesTyped` (the types `APState` declares).
`GraphWellFormed` is no act of faith for graphs the compiler made: `TablesAreWellFormed`
proves what it says of edges, start and ends from the linter's verdict. `DiversionsFailClosed`
also assumes `StationsEndRuns`: review nodes lead nowhere and the station of a reason is
one of them, which is what `inject_exception_stations` adds. TLC evaluates each
of them in a passing run.

The argument of ProductionProofs. None of the safety properties is inductive:
that n6 is only reached with a matched purchase order depends on what held at n5,
which depends on the threshold gateway, and so on back to the extraction. `IInv`
therefore says of *every* position what is known of the document there
(`Reached`), what the unmodeled log holds (`Logged`), the types, and the
defaults. The lemmas `EnterRecordRoute`, `CriticRetryRoute`, `ThresholdRoute` and
`MatchDecisionRoute` compute where the router sends each document, on top of
the router lemmas of AgentProofs (`OnlyMatch`, `OnlyFallback`, `LoneEdge`, `NoEdge`); one `...Step` lemma
per position shows that the handler and the route re-establish `IInv`;
`InvariantHolds` puts them together, and each theorem is a consequence.
`DecisionImplemented` maps the documents to facts and outcome (`DecidedOn`,
`DecidedAs`). An extraction that passes is `Verify` (`ExtractionVerifies`), any other
handler is `Decide` or a stutter (`OthersDecide`), an exception is `Fail`. Its
core is `FinalIsOutcome`, that a final status is the outcome of the facts, which is
`IInv` read at each position, and `OnlyExtractionWritesFields` (AgentProofs): no handler
but the two that read an answer touches what the decision depends on, on any graph.

The trail. What the explanation says at the end depends on everything logged on the
way, so `TrailInv` says of every state what has been heard by then: `Stationed` (an
exception station speaks only as the run's last word, and with its status and
gateway), `Routed` (`last_gateway` is the gateway last heard of, and a diversion is
shown exactly when it is in the unmodeled log), `Retried` (as many critic events as
retries, the last with the verifier's verdict) and `Attempted` (before a retry the last
summary is the one of the first extraction). `Max` of a set of positions is its last
by `LastPosition`, from well-foundedness; each handler's events are listed once, and
what is not among them leaves the part of the log it is about alone.

`RecordsAreFollowed` needs only the types and `SameFieldsSameRoute`: routing reads only
the fields its conditions name, no condition of a gateway names `last_gateway`, and a
gateway's handler changes nothing else.

ExtractionProofs needs to know more than its two properties: a critic's answer that
omits an optional field keeps what is there, so `IInv` adds that outside debug mode a
refused first answer leaves the defaults. `AfterStatus` and `AfterFields` say what
any answer does to any document, `AnswerKeepsFields` uses them for both handlers.
`VerifiedIsInText` takes evidence that is found in a text apart word by word: all but
its first and last word are words of the text, these may be cut (`Shown`), and the
number, PO pattern or date a field verifier accepted is in one of them.
`FaithfulIsAccepted` goes the other way, gate by gate: a faithful answer has shape, is
plausible, on schema, and gives each field verifier an empty list of codes.
`HandlersImplementWorkflow` needs `has_po` to be a Boolean (`RefInv`) and, for the
events, that what the extraction event says (`Variant`) follows from the document
alone.

`RunsEnd` needs no invariant but the types: `CallsLeft` gives each position of the
graph the number of handler calls that can still come, and `TargetsDescend` goes
through the edges, diversions included, to show that the router only leads down.
`RetryAnswered` follows from it if the loop goes on, which is fairness and stays
with TLC.

GraphProofs. The linter sees all edges, the compiler keeps the first of each pair of
nodes. `CompiledEdges` says what the compiler's loop leaves: kept edges only, every
kept edge, no two to one target; `KeptForTarget` that whatever an edge led to, a kept
edge leads to. `TablesAreWellFormed` reads the rest off the linter's conditions. For
`DecisionsFollowTheMatch` the truth table gives one edge per result, `BranchesCompile`
what each compares, and `SelectedEdge` that the router follows an edge that holds or
the only one there is. The only edge is taken unread, and is right all the same: it is
alone because all three branches lead to its target. `PassesTwice` has a lemma per
pass: a canonical text is its own canonical text; a key that still needs a suffix had
one coming; the edge a pass looks for is among those it inserted; no node lacks a guard
once all have been visited (`GuardedEverywhere`); and a list without duplicates is
returned as it is (`DeduplicatedEdges`).

Loops. The loops of these models are recursive functions on 0..n, and the library's
induction theorems cannot be instantiated with a predicate here. `UpTo` replaces them:
a set of numbers that has 0 and the successor of each of its numbers below n has all
of 0..n, from well-foundedness; `Recursion` and `SameWalk` build a recursive
function from its steps and show it is the only one.

ConditionsProofs. `NormalizationIsStable` rests on normalizing being a fixed point: a
normal form is a synonym's target, a single comparison in canonical spelling, or
comparisons joined by AND, and each of these normalizes to itself and compares what
the original compared. For the last one the segments of the joined text must be the
parts again, which is a fact about the places of the ANDs in it.
`CompoundsAreConjunctions` holds because the parser and the parts see the same
segments. `QuietEdgesCompare` uses nothing of how a text becomes comparisons: whatever
`Predicate` returns, a comparison without a warning has a literal of the field's type
and no ordinal operator on a string field.

WatchdogProofs. `OneRowPerArrival` is not inductive: a listed file must still have
an arrival without a row when its row is appended. `IInv` says that rows are fewer
than arrivals for every present file that is not seen and for every file of the
batch, the one at `report` (row written, name not yet in `seen`) excepted, and that
batch and seen are disjoint; a restart re-establishes it because `seen` is seeded
with all that is present. `LeastName` shows that `File`, the first of the batch,
is one of it, from well-foundedness of the naturals. `ThinFilesFlagged` rests on
`BaselineInv`: a poll compares with a value the database has had since the poll read it.
`WindowsAnswered` is about every activation on the stack (`FrameInv`): its text is
covered by what was heard and what is to come, a window being halved has been heard
of, and only an activation with a half under way has another above it. `PieceInv` keeps the
watch chunks windows, and `ChunksCover` says that windows at a stride no longer than
themselves leave no gap, from the bounds of integer division.

OptimizerProofs. `IInv` has one conjunct per step of the pipeline: where the
checkout is (`RepoInv`), that what is on its way to a request was accepted
(`TestInv`), and whose patch the tree holds (`PatchInv`: fresh at `next` and `ask`,
with one patch from `branch` on, equal to the branch's head when it is left, which
is why `Checkout` puts the original back). That the base of a request never moves
under it follows from `ExistingBranchesKept`. Both proofs have one step per action;
the model of the developer is part of them, and so is its limit: he acts between
runs, not during one.

Only model-checked:

- Liveness (`RetryAnswered`, `NewFilesAnalysed`, `SweepEnds`, and what the fairness
  conjunct of `ImplementsDecision` adds to `DecisionImplemented`): fairness and ENABLED
  are out of the prover's reach.
- The properties of the whole pipeline (`FanOutStaysRepaired`, `PassesAreIdempotent`,
  `MatchGuardsApproval`, `PaymentNeedsMatch`, `ExtractionFailuresRouted`,
  `LeavesProductionGraph`). They depend on what ten passes do that are folds over the
  nodes and select or sort edges, and what a fold computes for every input is
  induction over data; the last is about concrete mined graphs. Of
  `MatchGuardsApproval`, the part the linter, compiler and router play is
  `DecisionsFollowTheMatch`; of `PassesAreIdempotent`, `PassesTwice` has six passes.
- `PaymentMatched`, which is about the one graph of `detour`.

## 5. What is left out

- Texts: prompts, log wording, plain-text audit lines, and the audit events
  `amount_candidates` and `arithmetic_check`, which nothing modelled reads.
- Pass 1 of the normalizer and patch 0 (artifact references), linter warnings and
  the errors about actors and artifacts.
- `_require_station` raising: `patch_logic.main` always injects the stations before
  `normalize_all`, and the pipeline is modelled as `main` runs it.
- Conditions as texts inside the pipeline and the router: they are names there, and
  sets of comparisons in the router; `Conditions` is checked on its own. Its texts
  are pieces, not characters: escapes in strings, and which characters separate
  pieces, are left out.
- `build_explanation` is modelled with `final_status` left out, the case in which it
  has to infer; it then calls an approved invoice in progress, so
  `ExceptionExplained` only speaks of exceptions. An invoice at
  `MANUAL_REVIEW_UNMODELED_GATE` gets the status EXCEPTION_UNMODELED while its event
  says UNMODELED_GATE; that node is not on the production graph's reachable part.
- The contents of the provenance report (match tiers, positions, deltas) and of the
  amount candidates; the shadow registry, which no handler calls; `po_mode =
  not_applicable`, which is not the default policy. Evidence and values of blanks
  only count as empty. A value is one word.
- An answer of the LLM that is JSON but no object or array (a bare number) raises in
  `"_error" in parsed`; it is AgentWorkflow's `Raise`.
- The watchdog: what an extraction finds (a density and a number of stitch failures
  are free), the dashboard, whose exceptions are caught, an audit log or a disk that
  cannot be written, the refusal to watch an output directory. `parsed.get` on an
  answer that is no object raises like any failing call.
- The optimizer: prompt and answer (which definitions a patch names is free), a
  detached HEAD (the model's checkout is always on a branch), a developer who works in
  the checkout during a run, two runs at a time, and git's failures half-way through
  one command. A patch that a killed run left uncommitted is in the tree the next run
  starts from; `OnePatchPerRequest` allows it beside the new one.
- The rest of the miner: the regular expressions and the assembly of the graph from
  intents; the mined graph is an input of `GraphPipeline`.
- The shadow verifier, mutation smoke tests and other scripts, which keep no state
  and are called by no handler.
- Reporting, branch comparison, the evaluation harness, user interfaces and
  experiments: single-threaded code whose only result is a report.

## 6. Plan

Done: Router, AgentWorkflow, ProductionGraph, InvoiceDecision, ProductionWorkflow, the
explanation, the verifier, the conditions, the classifier and the watchdog, and the
optimizer, each with the proofs of its safety properties; the graph pipeline, with the
proofs about linter, compiler and router and about six of its passes.

Possible extensions, in this order:

1. The remaining passes as recursive functions, as the guard and the deduplication are
   now, and with them the idempotence of each.
2. The linter's remaining errors (actors and artifacts) and pass 1 of the normalizer.
3. A developer who works while the optimizer runs.
