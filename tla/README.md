# Verification of DIG-ResearchOS

TLA+ models of the control of ResearchOS: the state machine that carries a research project from
literature search to manuscript, the runner that drives it, the CLI around it, the loop of one agent,
the provider client, the evolution of ideas in T4 and the hand-off of experiments to another program;
and what happens to the files when agents fail, questions stay unanswered, Ctrl+C arrives or a process
dies.
The models are checked with TLC on small instances and the main invariants are proved with TLAPS for
every instance. Paths below are relative to `src/`.

## 1. The system

A *workspace* is a directory; `state.yaml` in it (`researchos/schemas/state.py`) says where the
project stands. `researchos run` or `resume` starts one process that loads the file, walks the graph
of `config/system_config/state_machine.yaml` and, at every node, either puts a gate to the researcher
or runs an LLM agent that writes artifacts, which are validated before the node counts as done.

| Component (sources) | State it keeps | Operations | Interacts with |
| --- | --- | --- | --- |
| State machine (`orchestration/state_machine.py`) | the `StateYaml` record: current task, status, pending gate, history, iteration history, task context | `start_task`, `mark_interrupted`, `advance`, `pause_for_immediate_gate`, `resolve_pending_gate`, `_check_iteration_deadlock` | called by the runner; reads `pending_human_interaction.json`, writes the answer receipt |
| Pipeline runner (`cli_runners/complete_pipeline.py`) | the `StateYaml` object of the process | load, failed resume, one step, present a gate, dump | owns `state.yaml` while it runs, awaits the agent and the human interface |
| CLI (`cli.py`) | signal counters of the process | entry checks of `run`/`resume`, `--from-task`, literature checkpoint, interrupt handler | edits `state.yaml` before the runner loads it and after it was cancelled |
| Single task runner (`cli_runners/single_task.py`) | a `StateYaml` object of its own process | `run-task`: move the position to a task, run it once, one transition, pause | the same `state.yaml`, gates, agent loop and state machine as the pipeline |
| ask_human tool (`tools/ask_human.py`) | `pending_human_interaction.json`, `resumed_human_answer.json` | put a question, clear it, consume a waiting answer | edits `state.yaml` while the runner holds its own copy |
| Human interface (`tools/human_gate.py`, `runtime/workflow_mode.py`) | none | present options, ask | raises `HumanInputUnavailable` |
| Agent loop (`runtime/orchestrator.py`, `runtime/budget.py`) | stop reason, recovery signal, budgets and their extensions, tool calls of the turn | one LLM round, tools side by side, finish check and repairs, inline prompts, the `finally` | LLM client, tools; swallows cancellation; the state machine reads what it leaves |
| LLM client (`runtime/llm_client.py`, `runtime/rate_limiter.py`) | disabled endpoints, token buckets, shared HTTP clients | `chat` with candidates and rounds, hard timeout, cleanup | shared by concurrent callers |
| T4 evolution (`ideation/evolution_controller.py`, `ideation/state.py`) | route checkpoints, populations, portfolio, cards, the final-card receipt, `state.json` | P0 from concurrent routes, rounds, operations ordered at Gate1, rollback, reuse after a restart | LLM client; the state machine queues operations in `state.yaml` and opens Gate1 or the recovery gate |
| Proposal portfolio (`ideation/proposal_portfolio.py`) | tracks and their snapshots | select, snapshot, switch | state machine (T4.5) |
| Skill sessions (`skills/session.py`) | session manifest | run, pause, resume, finish | CLI |
| External experiment (`tools/external_experiment.py`, `orchestration/t5_t8_bridge.py`) | handoff pack (the commit signal), control files, executor selection, the executor's results, three drafts for T8 | compile, select, accept and ingest, move to T8 | an external executor writes the results and starts `run-task T8`; the researcher's session may do the same at the wait |
| Recovery of literature artifacts (`runtime/t2_recovery.py`, `runtime/abstract_sweep.py`) | artifacts | rebuild, sweep in packs | LLM client |
| Tool processes (`tools/bash_run.py`, `tools/mcp_connector.py`, ...) | child processes | run with timeout | operating system |

What is hard in it, and what the models are for:

* **Three writers of one file.** The runner, the `ask_human` tool and the CLI's interrupt handler all
  rewrite `state.yaml` from their own view of it. The correctness condition is that no writer
  overwrites what another one did and the runner does not know.
* **A process may end anywhere.** A first Ctrl+C is delivered at an `await` and takes one of three
  quite different ways out (agent loop, deterministic task, everywhere else); a second one, or a
  crash, may come between any two writes. Every intermediate state is one a later `resume` must
  continue from, without losing an answer, a question or a gate, and without running a task nobody
  approved.
* **Loops.** Failure edges lead back, gates lead back, every resume starts the task again. The
  deadlock guard counts identical starts; it has to stop unattended repetition and must not lock the
  researcher out.
* **Single-use decisions.** A retry or an iteration ordered by the researcher gives the next start an
  identity of its own, until the task succeeds.

* **One provider client for many callers.** T4 routes run concurrently, next to the agent loop and the
  abstract sweep, and share the client's set of rejected endpoints and its token buckets. A call
  suspends at five kinds of `await`; what it looked up before is stale afterwards, and it may be
  cancelled at any of them, holding a lock.

* **A scientific record across crashes.** T4 writes populations, portfolio, cards, projection and a
  receipt one file at a time, for operations queued in `state.yaml`. Whatever write was the last, model
  calls that were paid for must be kept, an operation neither forgotten nor repeated, and the researcher
  must not be shown one population with the cards of another.
* **A run that ends in eight ways.** Budgets, validators, providers, inputs nobody gives, the
  researcher's own stop and Ctrl+C all leave one stop reason, one error text and at most one recovery
  signal, and a `finally` that may still change all three.
* **Another program in the same workspace.** The executor of T5 replaces its result files while ResearchOS
  may be reading them, and starts a session of its own at the end; the researcher may have chosen another
  candidate by then. There is no lock, only commit signals and hashes.

The full list, with the source line where each hazard bites, is in `PROJECT.json` under `hazards`.

## 2. Modules

| Module | Models | Role |
| --- | --- | --- |
| `StateMachine` | methods of `StateMachine` as functions on a `StateYaml` record | pure operators, no state |
| `Pipeline` | CLI entry, runner loop, ask_human, researcher, interrupts, crashes | the system; properties |
| `SingleTask`, `MCSingleTask` | `Pipeline` composed with `run-task` commands on the same workspace | the composition; properties; instance |
| `Lifecycle` | what a workspace promises: the position moves along the graph | abstract specification |
| `Errand` | the same with `run-task` commands: each goes to its task and makes one move from there | abstract specification |
| `Ideation` | what T4 promises the researcher: populations, requests, the gate | abstract specification |
| `MCPipeline` | three slices of the graph, budgets of the environment | instances for TLC |
| `ProviderCalls` | `LLMClient.chat` with `EndpointRateLimiter`, any number of callers | the shared client; properties |
| `MCProviderCalls` | three callers, two endpoints, one bucket | instance for TLC |
| `AgentLoop`, `MCAgentLoop` | one `AgentRunner.run`, and what `advance` makes of its result | the loop; properties; instance |
| `EvolutionRun`, `MCEvolutionRun` | T4: runner, controller, artifact store, Gate1 and its recovery gate | the store across crashes; properties; instance |
| `Gate1Dialogue`, `MCGate1Dialogue` | the conversation at Gate1 of T4: requests, confirmations, their replay | the three places that remember a request; properties; instance |
| `ExternalHandoff`, `MCExternalHandoff` | T5 to T8: two sessions, the executor, their files | the hand-off; properties; instance |
| `PipelineProofs` | lemmas about the operators, type invariant, the file against the runner's state; the deadlock guard; unanswered questions and gates | proofs |
| `LifecycleProofs` | `Pipeline` implements `Lifecycle`; gates are respected; where a failed project resumes | proofs |
| `SingleTaskProofs` | the same workspace with `run-task`: its two writers, own gates, failed projects, runs left open; the promises of the pipeline it keeps; it implements `Errand` | proofs |
| `ProviderProofs` | types, rejected credentials and the bucket's line of `ProviderCalls` | proofs |
| `HandoffProofs` | types, commit signal, authorization, re-selection and evidence of `ExternalHandoff`; its sessions come to rest | proofs |
| `AgentLoopProofs` | types of `AgentLoop` and what a run reports | proofs |
| `DialogueProofs` | what may take effect at Gate1 | proofs |
| `EvolutionProofs` | what T4 keeps across crashes, failures and rollbacks; it implements `Ideation`, comes to rest and stops only for a reason | proofs |

### From the code to the model

A `StateYaml` is a record of `States`: `task`, `status`, kind of pending `gate`, `hist` (one
task/status pair per run), `attempts` (the identities of the starts `iteration_history` counts),
the two directives `iter` and `rec` of `task_context`, `resumed` and `err` (a last error from whose
text a recovery kind would be inferred). Each operator of `StateMachine` is one method, with every
field it assigns.

`Pipeline` keeps the durable state (`saved`, `disk`, `question`, `receipt`), the process (`pc`,
`resume`, `mem`, `sigint`) and the version of the task inputs. `pc` names the places where something
else can happen: the awaits, where Ctrl+C may be delivered, and the points between two writes to
disk, where a crash may come. One action is what runs between two such points:

| `pc` | Code |
| --- | --- |
| `prepare` | `_prepare_runtime` in `run_command`, after the entry checks edited the file |
| `load` | top of `CompletePipelineRunner.run` |
| `failed_resume` | the question of `_prepare_failed_resume` |
| `step` | top of `_run_one_step` |
| `agent` | `AgentRunner.run` (or a deterministic task) |
| `ask_open`, `ask`, `ask_close` | inside `AskHumanTool.execute`: question file written; `state.yaml` edited and prompt open (it may time out: back to `agent`); answered and question file removed |
| `save` | result or decision applied in memory, not yet dumped |
| `present`, `gate` | `_present_pending_gate`: dumped; prompt open |
| `answered` | `resolve_pending_gate` for an old question: receipt written, question not yet removed |
| `closing` | `prepared.aclose()` |

A kill leaves exactly the durable variables. Every other end of a process is an action that models
its handler: `InterruptCli` (`_persist_cli_interrupt`), `InterruptAgent` (the agent loop turns the
cancellation into a result and the runner goes on), `InterruptTask`, `Close`.

The runtime puts every tool under `asyncio.wait_for`, `ask_human` with at most an hour
(`runtime/orchestrator.py:8832`). A time-out (`AskTimesOut`) is a tool error and no pause: the agent works on,
while the question stays on file and `state.yaml` goes on showing `WAITING_HUMAN` with the gate of the question,
since only an answer reaches `_clear_pending_interaction`. The history variable `expired` marks that time. It
ends with the runner's next dump, with another question, or with the process: a success or a budget's pause is
written over the gate that nobody answered; where the run fails, is interrupted or stops for lack of input,
`advance` finds the question file and puts the gate back. `Lifecycle` and `Errand` have this as the one
exception to a waiting position: `Expire` makes the question `overdue`, `Succeed` and `Outlive` are what the run
may then do, `Renew` puts it again.

`SingleTask` adds `run-task` processes to it. `solo` is the task on the command line of the live one, and
`Pipeline`'s actions for questions, gates, answers and interrupts apply to it as they are (`Along`), since
the code is shared; its own are the load, the start without an attempt counted, what is saved after the
one transition, and what an answer to a gate leads to (`presented`): the task again, a pause before
another task (`settle`), or the end. `Alone` is the pipeline's step.

`ProviderCalls` is a separate system: `Pipeline` sees of a provider only how an agent's run ends. Each
caller is a coroutine whose `pc` is the `await` it is suspended at, and an action is what the event
loop runs from one suspension to the next; nothing of another caller comes in between.

| `pc` | Code |
| --- | --- |
| `discover` | `_fetch_model_metadata` in `discover_context_window` |
| `bucket` | in `TokenBucket.acquire`: waiting for `_lock`, or asleep while holding it |
| `request` | `_completion_with_hard_timeout` |
| `sleep` | between two rounds |
| `closing` | `aclose` in the `finally` of `chat` |

`queue[e]` is the bucket's `_lock`: its head holds it, the others wait in the order of
`asyncio.Lock`. `tokens` is a number of units; `Refill` is the passing of time. `late` is a history
variable, it counts the requests sent to an endpoint that had rejected the credentials before.

`AgentLoop` is what `Pipeline` sees as one result. `pc` is a place in `AgentRunner.run`: startup, the
deterministic finalizers before the loop (`prepare`), top of the loop (`step`), the request (`llm`), the
gathered tool calls (`tools`), `validate_outputs` after `finish_task` (`finish`), the four inline prompts
(`Gates`) and the `finally` (`wrap`); `over` is a returned result, `escaped` an exception that leaves the
runner. A tool runs on after the run when `gather` has raised. T4 is three kinds of task. As `native` (the
evolution, which is `EvolutionRun`) it never asks the model here: the loop is entered with a pool found or made
ready for Gate1 and left at once (`HandOver`), or refused (`RefuseLoop`). As `selected` (after Gate1's decision)
it may be done before the loop by the mere existence of the four files T4.5 starts from. In both cases T4's own
checks decide and not `validate_outputs`. As `legacy` it runs the loop, and the `finally` makes a success of
whatever end it had, Ctrl+C and a chosen stop included, once the pool is complete (`FinalizeAnyway`). `Outcome`
is what `advance` makes of the result: it must be one of `Pipeline`'s `Results`, and the properties say which.

`EvolutionRun` keeps the files below `ideation/` in `store`, one field per artifact, and the two fields of
`state.yaml` T4 uses in `yaml`. `pc` walks through the phases of `_maybe_run_t4_evolution_before_llm` and
of the controller; an action ends at every file that is replaced and at every model call, so that `Crash`
may come between any two. `run` is lost with the process. The researcher orders operations of four kinds:
an evolution (`compose`, `expand` and the like, which make the next population), a change of Publication
Orientation (`reprofile`), a composition from components that may be rejected (`check`) and a recovery of
one score (`rescore`); or rolls back, or selects.

`Gate1Dialogue` looks at the same gate from the researcher's side; a population is there or not, and T4 is
three actions. `disk` and `mem` are `state.yaml` with the plan that waits for a confirmation
(`t4_pending_directive`), the guard against replay (`t4_resumed_confirmed_directive`), the queued operation
and the boundary of the last re-entry; `files` are the directive and confirmation files nobody removes, and
the selection. `effects`, `settled` and `before` are history.

| `pc` | Code |
| --- | --- |
| `reenter` | `--from-task T4`: selection moved away, `state.yaml` not yet written |
| `step` | top of `_run_one_step` |
| `present`, `prompt` | `refresh_pending_gate_presentation`, which may replay; the open prompt |
| `apply`, `rollback` | `_apply_native_t4_directive`; population activated, deck not yet rewritten |
| `save` | decision applied in memory, not yet dumped |

`ExternalHandoff` has three parties. `proc["shell"]` is a session the researcher opened, `proc["skill"]` is
`run-task T8`, `exec` the external executor; a `pc` names the next file access:

| `pc` | Code |
| --- | --- |
| `step`, `save`, `load` | the runner at a task; a result not yet dumped; start of the runner |
| `block`, `remove`, `build`, `publish`, `commit` | `CompileResearchReboostHandoffTool.execute`: old marker cleared, control files removed, staged pack validated, control files written, pack written |
| `revoke`, `undo`, `failed` | its exception handler |
| `entry`, `validate`, `normalise`, `receipt`, `evidence`, `claims`, `published` | `accept_and_ingest_t5_handoff`, then the runner's recheck or `prepare_t8_state` |
| `panel` | the wait panel, with the state of the day it was opened in memory |
| `compare` | T8-RESOURCE after its own acceptance |

File contents are told apart by the candidate (`contract`) or the executor's run they come from.

### What the models abstract

* Agents are the kinds of result `advance` tells apart (`Results`); what they write, and its
  validation, decides between them and is not modelled.
* All nodes go through the generic handlers. The specialised branches of `state_machine.py` (the
  recovery gates of T3.6-ASSEMBLE/COMPILE, T4 recovery, pre-run and Gate 1 selection, T4.5 redirects,
  T5 readiness and wait panels, refresh of stale gates, upgrades of older state files) and automatic
  mode are left to the modules planned below.
* The content of the declared inputs is one version number for the workspace; a recovery receipt is
  part of the directive's id; a task has one question fingerprint (an agent may still ask something
  else than before a resume).
* `Pipeline`: its generic nodes do not include T4 in legacy mode, so the Ctrl+C that becomes a success there is in
  `AgentLoop` only.
* `AgentLoop`: the hooks after a run are left out, and so are the finalizers of T5-REBOOST-GATE and T5-SPECIALIZE,
  which no run reaches, because both runners execute these tasks without `AgentRunner`
  (`cli_runners/complete_pipeline.py:676`, `cli_runners/single_task.py:328`). T5-EXTERNAL-WAIT and
  T5-RESOURCE-PREP-WAIT may also be done before the loop by narrower checks of their own
  (`runtime/orchestrator.py:7571`, `:7639`); these two tasks are not among the kinds. Mode and selection of T4 are
  fixed during a run; `selected` stands for both modes; an operation queued at Gate1 is not told apart, it only
  rules out the pool that is found ready. Prompts of the same kind are one; what a tool does to the outputs is that they
  become valid, or complete for Gate1, or not.
* `EvolutionRun`: the confirmation dialogue is in `Gate1Dialogue`; there is no `open_gate1`
  option of the recovery gate; the upstream inputs of T4 do not change. Two branches of the code that no
  state of the model reaches are not in it: the reuse of a round by its survival marker, and
  `_maybe_finalize_t4_gate1_before_llm` (of which `HandOver` in `AgentLoop` is the outcome).
* `Gate1Dialogue`: the kinds of request are those whose effect differs; the writes of one rollback and of an
  orientation change are told apart in `EvolutionRun` only, as far as the gate can notice. The recovery gate
  is passed in one step by a retry. Left out: read-only questions, which are answered without a plan, the
  selection of several Candidates, the second confirmation of a composition, plans of older versions.
* `ExternalHandoff`: the protocol and material gates, the specialisation of executor skills, the bounded
  resource preparation and everything of T8 after its resource index are left out; a selection patches the
  guides without changing their origin; the upgrade of old dry-run workspaces at T8-STYLE-GATE is left
  out. Of the environment it assumes that the researcher neither resumes nor re-selects beside a session
  that is already in T8, stops the executor before re-selecting, and that an executor is not free while
  the `run-task T8` it started lasts.
* `SingleTask`: `run-task T4` ends at its gate T4-GATE1 instead of presenting it in the same command; imports
  from another workspace and inputs edited during a command are left out.
* `max_iterations` of a node is not modelled: its gate is not defined in the configuration.
* In `ProviderCalls`, a caller always asks for the same amount of tokens; its requests end with an
  answer, an error, a rejection or the hard timeout. A task detached after a timeout is left to
  itself, as in the code. What `aclose` does to the in-flight requests of other callers is decided in
  the SDK and is one more `error`. Calls with `max_context_override` skip discovery: the case of a
  `known` endpoint.

## 3. Runs

| Run | What it shows |
| --- | --- |
| `literature` | `AgentSeesSavedState`: whenever an agent computes, file and memory agree, or the file shows a question that timed out, which then is on file and unanswered. `GateRespected`: no task behind a gate runs without the researcher's current decision. `UnansweredQuestionKept`, `UnansweredGateStays`: questions and gates survive whatever ends a process; only the gate of a question that timed out is overwritten, and the question file remains. `FollowsLifecycle`: refinement of `Lifecycle`. `EventuallyDone`: no combination of troubles leaves a state resuming and answering cannot lead out of. |
| `run_task` | The pipeline and one `run-task` of any task, started at any moment when no process lives. `FailedResumeAtCulprit`: a failed project resumes at the task whose run failed last. `OnlyRunTaskLeavesOpen`: a stale run is closed before the next starts, unless a `run-task` found it. `OwnGateKept`: a command keeps the gate that waits at its task, but for a question of its own run that timed out. `OneMovePerCommand`: refinement of `Errand`; a command starts from its own task only, makes one move and pauses before the next task. `EventuallyDone`: whatever the command leaves, also when killed, is a position the pipeline goes on from to the end. |
| `repair_guard` | Agents may fail without limit, nobody is there: `UnattendedLaunchesBounded`, and `ProcessSettles`, a process always comes to rest. |
| `provider_calls` | `RejectedTriedOnce`: after a rejection each caller sends at most one more request with the credentials, whatever it was waiting for. `LineIsWaiting`: the bucket's line, lock holder included, is exactly the calls suspended there, after cancellations too. `EveryCallEnds`: every call ends although providers may never answer. |
| `agent_loop` | `OkMeansValidated`: no way to a success past the validator, or past the narrower checks T4 has of its own. `CancelIsPlainPause`, `ChoiceHonoured`, `SignalOpensGate`: the researcher finds a gate after the ends that need a decision, and none after those they decided; Ctrl+C or a chosen stop becomes a success only where the code means it to (a resumed T2, a legacy T4 with its pool complete). `RunEnds`: repairs, deferred finishes and text replies all use up steps. |
| `evolution_run` | `GateShowsActive`: portfolio, cards, projection and `state.json` are of one population whenever the researcher decides. `ReceiptNamesMaker`, `OperationHonoured`, `ReceiptPreventsRepeat`: an operation is neither forgotten, nor taken for done, nor executed twice before its receipt is closed. `RoutesKept`: no route paid for is generated again. `FollowsIdeation`: refinement of `Ideation`; no population is overwritten, what becomes active was asked for, requests wait until honoured or refused, gate and selection are about the active population. `BackAtGate`: retrying leads back to Gate1. |
| `gate1_dialogue` | `EffectsConsented`: after `--from-task T4` nothing takes effect on the strength of a confirmation given before, although its file is still there. `EffectsOnce`: what was carried out and saved is not carried out again, neither by a replay, nor from the waiting plan, nor from the queue. |
| `external_handoff` | `PublishedBeforeCommit`: a pack that says completed has all its files, of the same compile. `NoStaleAuthorization`: nobody executes for a candidate that was given up. `NoTornEvidence`: what T8 writes from is one run's. `ReselectionNotOvertaken`: a late `run-task T8` does not carry a re-opened workspace into T8. `EventuallyWritten`: a package that stays acceptable is written up. |
| `failed_completes`, `prompt_after_signal`, `stale_evidence`, `cancelled_runs` | Four disagreements between the code and what its comments and documents say (below). |

**The slices of `Pipeline`** keep the shapes the whole graph is made of: `Lit*` two gate-only nodes, a way
back, the scope gate a resume re-opens (T2-PARAM-GATE, T2, T2-COVERAGE-GATE, T3); `Late*` failure edges to
the task itself and to an earlier one, and a gate opened by a success (T3.6-ASSEMBLE, COMPILE, T6), to which
`Solo*` adds a gate-only node (the survey gate);
`Repair*` the two failing tasks alone. The environment is bounded by budgets: how many crashes,
interrupts, failures, questions, lost inputs and so on may happen in a behaviour. `Environments` is a set
of budgets, one of which a behaviour starts with; all are in the guards through `Spend`. A budget of 1 for
each kind of trouble gives every order of one crash, one Ctrl+C, one failure and one lost input; the
hazards are about such combinations, not about the tenth crash. Two questions are allowed beside a signal, since a
question that timed out may be asked again. `Unlimited` names what is not bounded.
`CHECK_DEADLOCK FALSE` because a completed project, and one whose budgets are used up, really stops, and so
does `Gate1Dialogue`; the other four models are checked for deadlock, and end in a step that stutters.

**Bounds that are not budgets**: the instance's callers, endpoints and `Attempts` = 2 above;
`SameParamLimit` is 3 as in the code. `Repair*` runs have no bound
on failures; the guard makes the instance finite.

`provider_calls` has one caller with a fallback endpoint that asks for all its bucket of 2 can hold, one
that asks for 1 and one for 3 (past the bucket), and two rounds: callers meet in the line, in
discovery and before a rejection becomes known, and a full bucket is needed while others take from
it. Callers call for ever, rejections accumulate.

`agent_loop` has every kind of task (the three of T4 included), resumed or not, two ordinary tools beside `ask_human` and
`finish_task` so that two may run when a third raises, a budget of 2 steps and 2 failed validations and one
extension of each: enough to be at a limit, past it and extended. The environment may fail twice, and once
cancel, be away, run out of tokens, answer a retry.

`evolution_run` has two routes side by side, no round or two, an operation of each kind, and one crash, two
failures, one pause and one rollback in any order: a crash inside the handling of a rollback or of a
failed operation, and a second failure in the recovery from a first.

`gate1_dialogue` has six requests, one of each kind (an evolution, a change of orientation, a check, a
rollback, a selection, one that only reopens the gate), of which a behaviour makes three, in any order and
from any population; four confirmations or cancellations, so that one request may be confirmed, lost and
decided again; two crashes, one lost input and one re-entry. A replay needs one crash, a crash during the
replay the second. `cancelled_runs` needs no crash at all.

`external_handoff` has two control files (one may be written and the other not), two runs of the executor
(the second replaces what a session is reading) and any two of the seven events re-selection, crash,
failure, failure of the exception handler, dry run, revision and leaving the panel (`Most` = 2): three at
once add nothing the pairs do not have, since a re-selection starts over from a blocked pack.

**Fairness.** In `ProviderCalls`, timers fire and the event loop runs what is due (`WF` on `Step`, on
the hard timeout and on `Refill`); a provider may stay silent for ever and nobody has to cancel.
`Pipeline`'s `FairSpec` (liveness of the project): the process keeps running (`WF` on `Process`, the
event loop), the user restarts it and answers what is asked (`WF` on `Run`, `Resume` and the answers
the prompts offer), time and again takes the way forward at a gate, and an agent started time and
again succeeds (`SF`: a gate may be left backwards, an agent may fail, but not for ever).
`WorkspaceFairSpec` of `SingleTask` asks the same of the pipeline, and of a `run-task` process that it goes
on, its agent's run ends and its prompts are answered; nobody has to start one.
`UnattendedSpec` assumes only that the process runs and that an agent's run ends, which `AgentRunner`
guarantees by its step and budget limits; nothing is assumed of the researcher.

In `AgentLoop` the event loop goes on, requests and tools end or time out; a question or an inline prompt
may stay open for ever, and `RunEnds` excuses that alone. (It is stated for a step budget; a run configured
without any limit need not end.) In `EvolutionRun` the process goes on, is started again after it has
ended, and the researcher retries at a recovery gate; nobody has to answer Gate1. In `ExternalHandoff` the
sessions and the executor go on, the researcher resumes and answers the panel (`WF`), and goes back to the
wait when T8 has refused its drafts time and again (`SF` on `Reingest`); nobody has to start the executor a
second time.

**Findings.**

* `failed_completes`: a Ctrl+C outside the agent marks a FAILED project PAUSED; the next `resume`
  finds a terminal node and writes COMPLETED. `EventuallyDone` takes this into account.
* `prompt_after_signal`: Ctrl+C while an agent's question waits opens the question again at once
  instead of pausing.
* `stale_evidence`: the acceptance of an executor's package does not look at the handoff pack it was made
  for, and nothing removes the results when another candidate is chosen: at the new wait the old package
  is accepted and written up for the new candidate.

* `cancelled_runs`: a request that was confirmed and failed is carried out again after the researcher has
  cancelled it, from the confirmation file; a rollback that raises does so at every resume, until
  `--from-task T4`.

**Observed while modelling**, not checked by a run of their own:

* An ordinary resume at T2 or T3 rewrites a crashed RUNNING state to PAUSED before the runner's stale-run
  branch sees it (`cli.py:3177`); that history entry stays RUNNING for ever. `OnlyRunTaskLeavesOpen` therefore
  excepts tasks with a scope gate.
* `run-task` never closes the run of a crashed process: it appends its own entry behind it, or pauses the
  state at a gate, after which the pipeline no longer takes the state for stale. It also moves the position
  of the project, by design of the code (`single_task.py:490-501`), while `docs/en/agent_pipeline_detail.md`
  has 'Advances FSM? No'; and it drops a gate that waits at another task.
* A question file left behind by `resume --from-task` turns a later integrity error of that task into a
  question whose answer restarts the task (`state_machine.py:3839`), although such errors are final.
* T4: an operation runs a second time after a crash between its receipt saying completed and the dump of
  `state.yaml`, which is why `ReceiptPreventsRepeat` has that exception; after a rollback to a population of
  another orientation T4 cannot come back (`Stranded` in `BackAtGate`); complete cards are compiled again
  when only their projection was missing.
* Gate1: a crash between a rollback and its dump leaves the plan in `state.yaml`; it is asked again and,
  confirmed again, goes back one population more, since only the replay compares populations. The comment at
  `state_machine.py:5743` has the guard persisted before the state changes; it is dumped after.
* In deep mode a failed role call of the second round lets the recovery take P1 for the final population;
  Gate1 opens and P2 is not made (`ideation/state.py:709`).
* A budget prompt of T3 nobody could answer leaves no gate: the abstract sweep in the `finally` replaces the
  signal by one the state machine does not know (`orchestrator.py:4996`).
* Recovery kinds `literature_coverage`, `structured_schema` and `no_source_progress` are set by the loop and
  known to nobody: such runs end as plain pauses. A resumed T2 whose budget stop the researcher chose ends as a
  success if its recovery completes the outputs.
* After a time-out of `ask_human` (`runtime/orchestrator.py:8839`) the agent computes while `state.yaml` shows a question
  nobody is waiting for any more, and the run's dump replaces it. The question file is left; a later stop of the same
  task puts the question again, although the run that asked it is over.
* T4 in legacy mode: once the pool for Gate1 is complete, the `finally` reports Ctrl+C, a stop the researcher has chosen
  and any failure as a success (`runtime/orchestrator.py:7160`); the project then goes on to Gate1.
* T5: a panel left after `run-task T8` has begun writes its old state over T8's, and the move is made a
  second time; `prepare_t8_state` says "once". The three drafts of an ingest are published one by one, so a
  session that checks against its own acceptance may enter T8 with drafts another session is replacing;
  T8-RESOURCE refuses them (`NoTornEvidence`). `t8_already_delegated` stays true after a re-selection, so
  the executor of a second candidate never starts T8 itself.

Each property of a passing run has a mutant in `PROJECT.json`: an operator defined beside the
original that differs from it as a plausible bug would. Under the mutant TLC finds the property
violated. The mutants are marked by a comment `mutant:` and nothing else uses them.

## 4. Proofs

The theorems about `Pipeline` assume only `GraphAssumption` (what the YAML loader guarantees of a graph: edges from
every non-terminal node to nodes, gates at non-terminal nodes) and `PipelineAssumption` (the shape of
the two other constants). They hold for every graph, deadlock limit and set of budgets, the empty
set included: then nothing limits the environment. Two of them also assume `SuccessNeverFails`, that no
`next_on_success` leads to `failed`, which is so in `system_config/state_machine.yaml`; the loader does not
demand it, and with such an edge a project could be failed without a failed run to resume at.

* `TypeCorrect` (`PipelineProofs`): `Spec => []TypeOK`. Inductive with `AtWork`: while an agent runs
  the process is at a node that has outgoing edges, or `advance` would look up none.
* `TwoWritersAgree` (`PipelineProofs`): `AgentSeesSavedState`. The invariant `Coherent` says for
  every `pc` how file and memory relate: equal at every settled point; the file is what `ask_human`
  makes of the runner's state while a prompt is open, and, once the wait has timed out, until the next
  dump; only at `save` does memory know more. The heart is `AskUndone`: clearing a question restores exactly the
  state that was saved, and `AskTwice`: asking again writes what is there already.
* `QuestionsSurvive`, `GatesSurvive` (`PipelineProofs`): `UnansweredQuestionKept` and `UnansweredGateStays`. The
  invariant `Kept` extends them to the state not yet dumped (which may lack the gate of a question that timed
  out, but not its file), and adds that a FAILED state has no gate: otherwise the move to the failed task would
  separate a gate from its question.
* `GuardBoundsLaunches` (`PipelineProofs`): `UnattendedLaunchesBounded`. The invariant `Counted`: every
  unattended launch is covered by a recorded start that a next start would repeat, on disk and in
  what the runner is about to write. It needs `Coherent`, since the guard looks at memory and a crash
  goes back to the file.

* `ProcessWindsDown` (`PipelineProofs`): the safety half of `ProcessSettles`, for every graph whose nodes have levels that
  rise along the success edges of ungated nodes, and along the failure edges of what the guard exempts (`Ascends`; the
  graph of `state_machine.yaml` has such levels, its failure edges lead back). A success resets the guard's count, so
  the launches alone are no measure. They are compared from the highest task down: while an agent works, the
  launches of the tasks above it stand and those below are open again (`Height`); a success uses up all that is below the
  next task, a failure lowers nothing. The heights are bounded because of `GuardBoundsLaunches`.

* `PipelineFollowsLifecycle` (`LifecycleProofs`): `Spec => FollowsLifecycle`, the refinement. The
  invariant `Due`: what the runner has in memory and not dumped yet is one move of `Lifecycle` away
  from the file, so that the dump is that move, whatever came in between; after a time-out that move is one of
  a run that outlives its question (`Lapses`), which passes no gate of a node; and a finished state has no
  gate, a waiting one has (`Gateless`). It rests on `Coherent` and `Kept`.
* `GatesAreRespected` and `FailedTakenUp` (`LifecycleProofs`): `GateRespected` and
  `FailedResumeAtCulprit`, from one invariant, `Guided`. `Sent`: a task only a gate leads to is the current
  one, on disk or in memory, only if the researcher sent the project there. `Traced`: a project that is
  failed has a history whose last run failed and is of a node that does work, so the search of
  `_prepare_failed_resume` stops at it and neither at an older run nor at `failed` itself (`Culprit`,
  `WorkRuns`). The two hang together, since the task a failed project resumes at is one that was let run.

The theorems about `SingleTask` are stated of `WorkspaceSpec`, under the assumptions of `Pipeline` and no others: they
hold for every graph and budget, hence for any number of `run-task` commands between, or instead of, the steps of
the pipeline. (`SingleTaskProofs`)

* `WorkspaceWritersAgree`: `AgentSeesSavedState`. Between commands the workspace is the pipeline's (`FitIsSafe`), so
  the steps of `Alone` need no new proof. While a command is live file and memory agree a little less (`Fitting`): at
  `step` memory is what `_load_or_init_state` makes of the file, which is dumped only when the agent starts or a gate
  opens.
* `OnlyRunTaskLeaves` and `WorkspaceFailedTakenUp`: `OnlyRunTaskLeavesOpen` and, under `SuccessNeverFails`,
  `FailedResumeAtCulprit`, from the invariant `Orderly`. `Sane`, of the file and of what is about to be written: only a
  paused or asking project has a gate, and a failed one its failed run as the newest. `Tidy`: a run that is open
  without excuse is the newest, of the current task, and that task runs or asks; `Swept`, wherever no agent can be at
  work: it asks. So nothing is left open where a start appends the next run (`NothingLoose`), for the pipeline because
  it closes a stale run as it loads, for `run-task` because what it finds open is excused. `Unused` adds that no
  re-entry happens if the budgets have none.
* `OwnGateSurvives`: `OwnGateKept`, step by step from `Orderly` and `Kept`. A start
  or a block cannot drop the gate, since a record with a gate is paused or asks (`Parked`) and is then loaded as it is.
* `WorkspaceQuestionsSurvive`, `WorkspaceGuardBounds`, `WorkspaceGatesRespected`: what `Pipeline` promises alone it
  promises with commands in between: `UnansweredQuestionKept`, `UnattendedLaunchesBounded` and, under
  `SuccessNeverFails`, `GateRespected`. The steps of a command are of two kinds (`CommandSteps`). Those `Inside`, while
  its agent works, asks or is answered, are steps of `Pipeline`, so the lemmas about these apply. Those `Outside`
  leave file and question as they are (`Untouched`), take the record over and dump it with a start or a gate
  (`Taking`), dump what is due (`Saving`) or are Ctrl+C. `Kept` and `Counted` hold as they are; `Guided` needs the
  form `Directed`, because on its way to its task a command holds a record of a place it was never sent to.
* `WorkspaceFollowsErrand`: `WorkspaceSpec => OneMovePerCommand`, the refinement. The invariant `Owed` is `Due`
  between commands; during one (`Owing`), the file stands at the command's own task from the start of the agent
  or the gate on, and what is not dumped yet is one move away from it: after a success the move along the
  success edge or the gate of the node (`Achieves`), also where the question before it timed out, after an
  answer one that takes the gate away. Hence the pause before the next task is part of that move and no second
  one, whichever dump or interrupt writes it.

The theorems about `ProviderCalls` assume `ProviderAssumption` (each caller has a list of candidates,
capacities and amounts are positive) and hold for every number of callers, endpoints and rounds.

* `ProviderTypes`: `Spec => []TypeOK`; no bucket is overdrawn, and a suspended call is at one of its
  candidates.
* `RejectedSpent`: `RejectedTriedOnce`. The invariant `Once` adds that a caller that has sent its
  request to a rejected endpoint is not on its way there again: it passes the check in the loop only
  before the rejection.
* `NobodyLeftInLine`: `LineIsWaiting`, inductive together with the types; `WithoutLine` and `AppendLine` say what
  leaving and joining do to a line.
* `CallsMoveOnward`, `RoundsAreBounded`, `NobodyWaitsInVain`, `NobodyIsOvertaken`: the safety half of `EveryCallEnds`.
  A step of a call takes it on with its candidate, to a later one, out of the round, or to another round while it has
  one left (`Rounds`, `Onward`), and the steps of others do not set it back; so only the wait for tokens could last.
  There the caller's request fits the bucket (`Payable`), nobody behind it goes first and the tokens fall only when
  the head of the line is served (`InTurn`). Both rest on what a step may do to a line and its tokens (`BucketStep`).

The theorems about `ExternalHandoff` assume `HandoffAssumption` (some control files, finitely many; `None` is
not a state) and hold for any number of them, of executor runs and of events.

* `HandoffInvariant`: the inductive invariant `HInv`. `Placed`: the step a session is at fits the task it has
  in memory. `Behind`: while the session of `run-task T8` is in the runner, everyone is at the wait or after
  it. `Coherent`: before the wait the researcher's session is the only one, so the file is what it last
  saved. `Compiled`: how far a compile has got. `Kept`: whoever is past the reboost gate, on disk or in
  memory, has a pack of the candidate now chosen. None of the last four is inductive without the others:
  that a re-selection disturbs nobody rests on who can be in the runner at that time.
* `HandoffTypeCorrect`, `CommittedIsPublished`, `AuthorizationCurrent`: `TypeOK`, `PublishedBeforeCommit` and
  `NoStaleAuthorization` follow from it.
* `ReselectionKept`: `ReselectionNotOvertaken`, step by step from the same invariant (`MemoryBehind`: nobody
  has T8 in memory while the file is before the wait).
* `EvidenceIsWhole`: `NoTornEvidence`, from `EInv`, which adds to `HInv`: `Executed`, the executor replaces the
  files of a run in order and numbers its runs; `Held`, every acceptance a session or T8 holds is one whole real
  run, and what was read after it differs only if the results were replaced since; `Undisturbed`, between the
  comparison of a session and its draft the acceptance is joined by the same data only.
* `SessionsComeToRest`: the ranking behind `EventuallyWritten`, as far as a session is concerned. A session leaves
  `down` and its panel only when the researcher opens or answers it, or as `run-task T8` in the last step of an executor
  run. From there every step uses up one of the finitely many events, or takes it to a later task, a later step of the
  task, or the next of a compile's files (`Further`), until it is down or at its panel again. Going back (a deferred
  choice, a rehearsal, an exception) always costs an event. An executor run takes one step after the other.

The theorems about `AgentLoop` assume `LoopAssumption` (limits, extensions and budgets are natural
numbers, some of them positive; `ask` and `finish` are among the tools) and hold for any limits, tools and budgets.

* `LoopTypes`: `TypeOK`. Inductive with `Bounded`: inside the loop the counters are those the checks before
  them let through.
* `ReportInvariant`: the inductive invariant `LInv`, from which the other four follow. `Undecided`: as long as
  the loop goes on there is no report yet, so whoever ends it is the first to write one. `Idle`: tools run only
  while the reply that asked for them is worked on; only T2 leaves any behind. `Handed`, `Unlooped`: only T4
  hands a pool over, and without a turn of the model nothing is asked. `Granted`: when the loop has left as
  finished, what the kind of task is granted a success for (`Presented`) is there, and nothing that could touch
  it still runs. `Parted`: how stop reason, error and signal tell a choice of the researcher, Ctrl+C, a failed
  prompt and a used-up budget apart (`Told`), through the T2 recovery and the T3 sweep of the `finally`, each of
  which may replace one of the three.
* `OkValidated`, `CancelPausesPlainly`, `ChoiceKept`, `SignalKept`: `OkMeansValidated` step by step,
  `CancelIsPlainPause`, `ChoiceHonoured` and `SignalOpensGate`.
* `StepsAreBounded`: a run takes at most `MaxSteps + Window * Extensions` steps and the one that finds the budget used
  up, whatever repairs, deferred finishes and replies of mere text send it back to the top of the loop (`Metered`).
* `NothingForEver`: the safety half of `RunEnds`. Every step of the system `UsesUp` something, in this order: steps of
  the budget; retries of the provider the researcher chooses; the place in the iteration (`Place`); failed batches;
  tools that run, those that outlive the run included. The order is well founded: the first is bounded by
  `StepsAreBounded`, the second by its budget, the places are ten and the tools finite; a batch counts up to its limit
  at one place only. So the loop can be at rest only at a prompt, a request or a tool nobody answers.

The theorems about `Gate1Dialogue` assume `DialogueAssumption` (`None` is not a request, kinds and budgets have their
types) and hold for any requests of any kinds and any budgets, so for any number of crashes and re-entries.

* `DialogueInvariant`: the inductive invariant `GInv`. `Due`, of the file and of the memory alike: the plan and the
  queued operation are not settled; the operation is the request the guard names and was confirmed since the last
  re-entry; and the newest accepted confirmation, if it is settled, is the one the guard names, so the replay passes
  it over. It is stated of both records because a crash makes the file the memory. `AtWork`: the request being
  carried out is guarded, confirmed and not settled, and no operation is queued beside it.
* `NothingUnconfirmed`, `NothingTwice`: `EffectsConsented` and `EffectsOnce`, step by step: only the request at work
  or the queued operation takes effect (`TakesEffect`).

The theorems about `EvolutionRun` assume `EvolutionAssumption` (`None` and the mark of a rollback are not
operations, a route at least may run at a time, the round choices are those of the profiles, budgets are natural
numbers) and hold for any routes, operations and budgets, so for any number of crashes and failures.

* `EvolutionInvariant`: the inductive invariant `VInv`. `Referring`: what the files refer to exists, and they agree
  on the orientation. `Unprojected`: until T4 has shown its first population there is one orientation and no
  operation, so nobody but T4 can have moved anything. `Routed`: no route that has candidates is left to generate.
  `Operating`: the step T4 is at fits the operation it works on. `Numbered`: a population being made has a new
  number, or is the same as the one in the file. `Queued`, `Receipted`, `Honoured`: the queued operation, the
  receipt and the populations, as each of them is after a crash between any two of their writes. They need each
  other: a reconstructed receipt (`EnsuredFacts`) is right because the active population is known to be the
  operation's, which is known because of the order in which portfolio, `state.json` and receipt are written.
* `EvolutionTypeCorrect`, `GateIsActive`, `ReceiptIsMakers`: `TypeOK`, `GateShowsActive` and `ReceiptNamesMaker`.
* `PopulationsAreKept`, `RoutesAreKept`, `OperationsHonoured`, `ReceiptsPreventRepeat`: no population file changes, and
  the action properties `RoutesKept`, `OperationHonoured` and `ReceiptPreventsRepeat`, step by step from it.
* `EvolutionKeepsPromise`: `Spec => FollowsIdeation`, the refinement. The forty-odd actions of the module are
  eleven moves of `Ideation`. `VInv` says which: a population written is new (`Draft`) or the one that is there;
  `Activate` is `Adopt` because of `Operating` and `Numbered`, or `Grow` because nothing was projected yet; a
  crash, a stop, a receipt, a repair of cards and a projection redone are invisible or close the gate (`Leave`,
  `QuietStep`). What the gate is about is what was projected last, so that a rollback, whose projection is
  rewritten at the end only, has to close it first. Once T5 has its candidate nothing happens (`Past`,
  `OverStep`).
* `ProcessComesToRest`: while a process is neither at Gate1 nor at the recovery gate, nor over or dead, each of its steps
  takes it to a later step (`Stage`, `Between`), to the next of the confirmed rounds, or starts or finishes one more of
  P0's routes. As rounds and routes are finitely many by configuration, it comes to rest, whatever fails and whatever the
  crash before it left behind.
* `T4StopsForAReason`: T4 ends at the recovery gate only when a call has failed, when no route has brought a candidate,
  or when the active population is `Stranded` (a rollback or a new profile has taken its portfolio or its orientation),
  and it reports success only with cards ready for Gate1 or for such a population. Its inductive invariant is
  `SInv`, which adds to `VInv` that what the final check finds has been so since the cards were projected (`Settled`), and
  that before the first projection a receipt or a marker of the last round is there only for the active population with
  its portfolio (`FirstTime`): without the second a crash between those writes could leave a store that each retry gives
  up on.

`HInv`, `EInv`, `Coherent`, `Kept`, `Counted`, `Guided`, `Fitting`, `Orderly`, `Owed`, `LInv`, `Metered`,
`GInv`, `VInv`, `SInv`, `Rounds` and `Payable` were checked by TLC on the instances of the safety runs before
they were proved.

**Only model-checked**: the liveness properties `EventuallyDone`, `ProcessSettles` and `EveryCallEnds`,
`RunEnds`, `BackAtGate` and `EventuallyWritten`, which are out of the prover's reach. Of `ProcessSettles`
(`ProcessWindsDown`), `RunEnds` (`NothingForEver`) and `EveryCallEnds` (`CallsMoveOnward` and the theorems
listed with it) the ranking is proved, not that the fairness assumed makes the steps happen. Of
`EventuallyWritten` only that no session works for ever by itself is (`SessionsComeToRest`): that the
researcher's retries end in an accepted package is model-checked. Of `BackAtGate` the two safety halves are
proved: T4 comes to rest (`ProcessComesToRest`) and gives up only for a reason (`T4StopsForAReason`); that
failures and crashes come to an end is a bound of the model (`Limit`), and that its steps are taken is the
fairness.

## 5. Plan

1. (done) Core: `StateMachine`, `Pipeline`, `Lifecycle`, their runs and the theorems above.
2. (done) `ProviderCalls`: concurrent `chat` calls over one client, with its proofs. Left: an abstract
   bucket (never more than its capacity granted in a window of time) implemented by the lock and the
   sleeping holder.
3. (done) `SingleTask`, `AgentLoop`, `EvolutionRun`, `Gate1Dialogue`, `ExternalHandoff` with their runs; proofs
   about `AgentLoop`, `EvolutionRun`, `ExternalHandoff` and `Gate1Dialogue`.
4. (done) Proofs about the composition `SingleTask`, its abstract specification `Errand` included; `Ideation`, the
   abstract specification of T4, implemented by `EvolutionRun`; the ranking of the agent loop.
5. `SkillSession` and `ProposalPortfolio`: two small protocols with files another process may write; the
   specialised gates of T3.6 and T4.5 in `StateMachine`.

## 6. Not modelled

Prompts, parsing and validation of artifacts, search and ranking, rendering, logging, configuration
loading, LaTeX, and the bodies of the survey, manuscript and experiment tools, which compute files from
files (by far most of the code). They decide which kind of result an agent's run has, or whether a start is blocked;
the models let either happen. Child processes of tools are operating-system I/O.
