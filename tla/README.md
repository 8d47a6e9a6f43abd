# A verification development for CommBench

CommBench asks a language model to write GPU and RDMA communication code, builds
and runs what it answers, compares its speed with a reference program, and spends
a few more rounds on feeding errors and measurements back. This directory holds
TLA+ modules that model the program which does this, the configurations that
model-check them with TLC, and proofs that TLAPS checks.

Each evaluation is sequential Python, but little of it is easy to test: it talks to
a model that may fail, to generated programs that may do anything and to scripts
that may be killed between any two of their writes; it keeps state across rounds that
different exits leave in different shapes; it signals process groups whose members
come and go by themselves; and several evaluations share one machine.

Paths below are relative to the repository's root, `src/`.

## 1. Inventory

| Component | Source | State it keeps | Operations | Modelled in |
|---|---|---|---|---|
| Evaluation loop | `scripts/generate_eval_one.py` | round, prompt, last code and result, failure history, last compared directory | `generate_eval_one`, `_call_llm_with_retry` | EvalLoop, EvalLoopProps, EvalContract |
| Sessions | `run_eval/compile_run.py` 20-25, 156-199 | a child's process group and its pipes | `_run_in_new_session`, `_killpg_safe` | Session |
| Compile-and-run verdict | `run_eval/compile_run.py` 519-751 | none; a `CompileRunResult` passes through | `compile_and_run`, `analyze_result`, `get_error_details` | CompileRun, OneRun |
| Comparison | `run_eval/compile_run.py` 754-819, the scripts' `--compare` | `summary.json` on disk | `compare_save_results`, `compare`, the atexit hook, `override_summary_verdict` | CompareRun |
| Performance verdict | `run_eval/perf_verdict.py` | the registry `PERF_METRICS`, constant | `compute_unified_verdict` and its helpers | Verdict |
| Examples' scripts | `datasets/*/*/build_and_run.py`, 103 of them | executables in the working directory | `build`, `run`, `build_and_run`, `compare`, `main` | Scripts, Examples, Examples* |
| Pairs of processes | `run` / `run_pair` of 14 of the scripts | a server, a client, a port or a socket file | start, wait for, kill | RunPair |
| Build caches | MSCCL++ (018 and its kin) and ThunderKittens (046 and its kin) scripts | a library with a stamp; a binary with an mtime | look up, rebuild, stamp | Artifacts |
| The machine | `execution_lock`, working and results directories | the lock, sources, executables, summaries, running processes | two `with` blocks a round | SharedHost |
| Platform and files | `run_eval/platform_detect.py`, `find_*` in `compile_run.py` | none; a `PlatformInfo` passes through | probes of the host, three searches | Setup |
| Prompts | `prompt_llm/prompt.py` | none | prompt builders, code extraction | what a retry prompt shows: EvalLoop |
| Provider clients | `prompt_llm/*.py` | none | one call each, `get_provider_for_model` | an answer or an exception: EvalLoop |
| Build environment | `_scrubbed_build_env` | none | filters environment variables | not modelled |
| Batch driver | named in docstrings, not in the repository | results CSV | – | what it asks of the lock: SharedHost |

How they interact:

* Before the first round an evaluation probes the host, picks the example's folder for
  that platform, and finds a template, a script and a reference in it.
* The loop calls the provider client, writes the source into the working directory,
  and calls `compile_and_run`, which runs the example's `build_and_run.py --source`
  in a session of its own. A timeout is an exception of the session, turned into a
  failed `CompileRunResult`.
* The script builds the program, perhaps out of a cache that an earlier script left,
  and runs it, perhaps as a server and a client.
* `analyze_result` decides pass or fail; `get_error_details` independently decides
  what kind of failure the next prompt talks about.
* A round that passes is compared: `compare_save_results` runs the script again with
  `--compare`. The script writes `summary.json` with a label of its own scheme, its
  atexit hook rewrites the label with the unified verdict, the parent rewrites it
  once more if the script returned 0, and the loop reads the file. The file is the
  only channel between them.
* The label decides whether the loop stops or asks for a faster version.
* In the end the loop decorates the last compared summary with the round's number.
* Other evaluations do the same beside it; both calls of a script are made under
  `execution_lock`, everything else is not.

Hard behaviours, and the properties they call for (every hazard, with its line and
its properties, is in `PROJECT.json`):

* *Sessions*: the leader exits while forked ranks go on; ranks ignore SIGTERM, leave
  the group, or hold the pipe open; the group's number may be given away. Wanted: no
  member of the group goes on, nobody else is hit, the call returns.
* *Loop*: state outlives the round that set it. Wanted: a prompt shows one round's
  code with that round's error, newest failures first; the summary names its own
  round; no round and no call of the model beyond the budget or without a cause.
* *Comparison*: three writers of one file, scripts that leave early or raise, and a
  kill at any point. Wanted: the label the loop acts on is the verdict of what was
  measured, or asks for no round that nothing was compared for.
* *Verdict*: thresholds, zero measurements, both directions. Wanted: monotone, never
  a reward for measuring nothing.
* *Classification*: build banner, compiler errors, exit code, and markers on two
  streams, of scripts that differ in what they show. Wanted: FAIL never passes, a
  run's failure is not blamed on the build.
* *Machine*: the same executable is built for several evaluations, the lock is free
  between a round's two uses, processes may survive their script. Wanted: each
  evaluation judges and measures its own code, alone, and everybody returns.
* *Pairs*: a server nobody waits for, a port that is still taken, a stale socket.
  Wanted: no process meets the next pair, a success is earned by the pair it is told of.
* *Caches*: a build cut short, a compiler or a file that changes. Wanted: what is
  reused is whole and current, what is current is not built again.
* *Set-up*: probes that fail differently each time. Wanted: one folder, of the
  host's vendor, with the template's own reference.

## 2. Modules and how they correspond to the code

`PROJECT.json`'s `map` names the lines behind every definition.

**Verdict** – `perf_verdict.py` as operators. The code computes a percentage in
floating point; `ImprovementPct` is the exact fraction, and `AtLeast` compares by
cross multiplication, so results differ from the code's only where rounding moves a
value over a threshold. An entry of the registry is one of five kinds (unregistered,
info-only, a misspelt direction, higher, lower). `Rank` orders the four comparison verdicts.

**CompileRun** – what one generated program leads to, as operators: the example's
script, `ClassifyOutput` (`compile_and_run`), `AnalyzeResult`, `GetErrorDetails`. Text is
the set of markers the code searches for; the case insensitive search for "success"
also hits "Build successful", and `SaysSuccess` keeps that. A program may print whatever is searched
for, the build's banners included (`Sayings`). A script is a record
(`SourceModes`): what it announces of the build, how long it waits for the run, what
it calls a success, what of the program's two streams it passes on, and its exit code.

**Scripts, Examples\*** – one record per `build_and_run.py`, 103 in all, for `--source` and for
`--compare`: `SingleNNN` is `build`, `run` and `build_and_run`, `CompareNNN` is `compare` and
its helpers, `MainNNN` the part of `main` that decides what is printed and returned. Scripts holds
the plans that several share; ExamplesRdma, ExamplesGpu,
ExamplesLibraries, ExamplesKittens and ExamplesTorch group the examples as the repository does;
Examples collects them. Scripts that agree in a record count once in a run.

**OneRun** – one program's way through CompileRun as a state machine: validation,
build, run, the script's own limit, the parent's timeout, classification, analysis. Every
kind of program under every kind of script is an initial state. **RunContract** is what the loop
takes such a run for: one step, from no answer to one of the results that CompileRun's
`CompileAndRun` allows, with the verdict and the feedback that go with it. OneRun's `Contract`
maps to it: the answer appears with the step that judges it, everything before is hidden.

**EvalLoop** – `generate_eval_one`, one action per step of a round and one per way
out: setup errors, an answer, a retried error, a fatal error, a failed save, an
exception before the child starts, the calls outside every `try` (an unknown model name in
`SetupFails`; `os.makedirs` and the second lock in `ResultsDirRaises`), comparison, and the
three decisions. Generated code and results are named by the round they are of. `transcript` (a history variable) is
what the console shows of each judged round: verdict, label, acceptance. The environment
chooses programs from `GeneratedPrograms` and summaries from `SummariesLeft`;
CompileRun's operators judge them. `SummariesLeft` draws on `Labels`, of which nothing is assumed
but what CompareRun guarantees (`LeavesKnownLabels`, section 5).

**EvalLoopProps** – the loop's properties, and the refinement mapping to
**EvalContract**: what a caller relies on, with everything between two judged rounds
left out. `Attempt` is `Compare` or `SkipCompare`, `Abort` is any error way out,
`Answer` is `Finish`.

**Session** – the parent in `_run_in_new_session` beside the processes it started.
Processes fork (inheriting group and pipe), leave the group if they are in `MayLeave`,
close the pipe, and exit at any time; dying of SIGTERM is such an exit. SIGKILL puts a
process into `doomed`: it can do nothing but die. `pc` is the parent's place: the three
`communicate()` calls, the `finally` block, returned. The group is signalled by its number: `reaped` says
that the parent has the leader's exit status, `taken` that the kernel has given the number, which nobody
held any more, to a stranger (`TakeNumber`), and `strays` which signals hit that stranger. The processes' own moves
(`Fork`, `LeaveGroup`, `ClosePipe`, `Exit`) are the generated program's and marked external.

**CompareRun** – the script (`child`: from the check of its inputs over building and
running both programs to opening and dumping `summary.json`, the hook's two steps, and
the exit), the parent, and `file`, i.e. `summary.json`: absent, truncated between `open(…, "w")`
and the end of the dump, or complete. `Timeout` kills the script at any of its steps;
`trouble` also records the exceptions some scripts always meet. A program measures a primary metric,
other metrics only (`OtherMetrics`), or nothing; which of these a script's own scheme labels is in its record
(`Comparable`).
`Override` is `override_summary_verdict`; it runs in the hook (in two steps, a kill may fall
between) and in the parent.

**SharedHost** – several evaluations, each with its round and its place in it, beside the
lock, the generated files, the executables (one per folder and mode, whoever builds), the results
directories with their summaries, and the processes alive on the machine. `live` holds a script
as long as it runs and, for the examples in `Leavers`, a server that is not in its group.
**OwnMachines** is what the lock promises: each evaluation goes through its rounds with nothing
shared at all. SharedHost's `Alone` maps to it: what is seen of an evaluation is its round, the result while
it stands, and the summary once it was read; folder, executables, lock and processes are not.

**RunPair** – a script that runs pairs of a server and a client, several in one `--compare`,
several scripts after one another. Four styles: a fixed port and two exit codes of 0; the same, but by what was
printed, whatever the exit codes (example008); a socket file; a server in a session of its own, with the
client's result for the pair's (example009). `Results` is what each makes of a pair. The programs bind, connect and
exit as they like, a client with 0 that reached no server included; the script may be killed by its parent at
any time (`Dies`), and in the socket style the next one may get the same pid, hence the same path.

**Artifacts** – the two caches, by what they watch. `config` is what the MSCCL++ stamp
records; `files` stands for the files the ThunderKittens check compares mtimes with. The world changes
either at any time (`Switch`, `Save`), during a build too.

**Setup** – a host (compilers on PATH, adapters), the probes with every way they may
fail, the layout of an example, and the three searches, each of which works the folder out again.

**MC\*** – constants for TLC. RunPair and Artifacts need no such module.
**SessionProofs, EvalLoopProofs, OneRunProofs, CompareRunProofs, SharedHostProofs, RunPairProofs,
ArtifactsProofs, SetupProofs** – theorems (section 5).

Definitions marked "Mutant" are plausible bugs, each a variant of the definition below
it; replacing one by the other makes TLC report the property it is paired with in `PROJECT.json`.

## 3. What each run checks

| Run | Configuration | Distinct states | Shows |
|---|---|---|---|
| `eval_loop` | MCEvalLoop.cfg | 71,556 | prompts faithful, no needless round, call budget, the stamped summary true, the contract implemented (its liveness too), termination |
| `session` | MCSession.cfg | 41,930 | no survivor of the group; no signal but the sweep's hits a stranger with its number; the wait without a timeout is for deserters only; the call returns unless one of them keeps the pipe |
| `one_run` | MCOneRun.cfg | 1,075,290 | FAIL never passes; a crash passes only on the program's own word and a banner; the build is not blamed for the run; reason and feedback agree; a run is RunContract's one step |
| `compare` | MCCompareRun.cfg | 1,372,496 | the unified verdict of the measurements; summaries survive; no label asks for another round unless two programs were compared, and lost if it was rewritten; nothing measured never wins; monotone |
| `shared_host` | MCSharedHost.cfg | 713,916 | each evaluation judges and measures its own code, one script at a time, as if on machines of their own (OwnMachines); everyone returns |
| `run_pair` | RunPair.cfg | 118,178 | no process of a pair meets the next, a success is what its style asks of the pair's own programs, the client finds its server's socket, every script ends |
| `artifacts` | Artifacts.cfg | 45,423 | half a library is rebuilt, what is reused is current, what is current is not rebuilt |
| `setup` | MCSetup.cfg | 376,192 | one folder for template, script and reference, of the host's vendor; RDMA variants are found; the reference fits the template |

Four statements of the repository turn out not to hold; each has a run of its own that
finds the counterexample:

| Run | Statement | What the code does |
|---|---|---|
| `prior_labels` | "Round N (earlier attempt, also failed)" (`prompt.py:404-428`) | numbers a prior failure by its place in the history; failed, degraded, failed labels the first failure with the degraded round's number |
| `no_save` | "--no-save  Don't save generated code" (`README.md:163`) | never writes the source it then compiles: no round can pass |
| `slow_unnoticed` | "example009 emits `bandwidth_gbps`" (`perf_verdict.py:142`) | its ib script (and that of 027) leaves all measurements out of the summary; the verdict is no_gen_metrics, which ends the loop as accepted, however slow the program |
| `neighbours` | the lock serialises "all on-GPU/binary execution" so that measurements "are not perturbed by neighbours" (`generate_eval_one.py:148-152`) | example009's server is in a session of its own, which the parent's kill does not reach; it runs on beside the next evaluation |

More can be read off the code or one definition; none of it needs a run:

* About 59 of the 103 scripts print no "Build successful": `compile_and_run` then goes by
  the exit code alone, and any failure of the run is reported as a COMPILATION ERROR.
  `NotBlamedOnBuild` speaks of the scripts that do print it.
* A run that the parent's 180 s timeout ends is a failed compilation with empty output, and
  limits of 180 s or more that a script sets itself never fire.
* `compile_run.py:724-725` speaks of success "based on return code", while `ClassifyOutput` lets
  PASS or Success on stdout outweigh a failing exit code (`CrashPassesOnlyOnItsWord` says how
  far that goes). Under a script without a banner the program can print "Build successful" itself: line 701
  searches the program's output too.
* `generate_eval_one` returns the verdict of the last round: a correct but slow program
  is forgotten when the round that should make it faster fails. EvalContract says so.
* When only the reference of a comparison fails, the label still is `no_gen_metrics`.
* A script killed between its summary and its hook leaves a label of its own scheme, which
  the parent does not rewrite (`compile_run.py:812`). One of these, `no_common_metrics` of the GPU FIFO
  scripts, is in neither list of acceptable verdicts: though no metric was compared, another
  round is spent, contrary to the comment at `generate_eval_one.py:508-514`. `NoNeedlessRound` exempts this
  label; `RetryOnlyAfterComparison` says how far such leftovers go: both programs ran or reported metrics.
* The header of `perf_verdict.py` (lines 12-14) calls an improvement of at most −40% severely degraded,
  `_classify` calls exactly −40% degraded.
* `_run_in_new_session` "tears the entire session down" (lines 157-158), but reaches the
  leader's process group only; and it signals the group by the leader's pid. The sweep "hits only its
  descendants (and is a no-op if there are none)" (lines 196-198) unless the kernel gave the reaped leader's
  number to somebody else before it; `OnlySweepStrays` says that this is the only such signal.
* example009 calls a pair a success by its client alone (lines 314, 366, 416-426), whatever becomes of its
  server; the client may even have talked to the server of a killed script, which is in no group that was
  killed. example008 goes by what either program printed (lines 567-576), whatever the exit codes.
* `compare` of examples 077 and 094 raises a KeyError ('ratio', line 618) once both programs
  measured something, before it opens its summary (line 633): such a comparison leaves no summary.
* `list_supported_models` lacks a provider that the map of models names: `--list-models`
  raises a KeyError.
* When an RDMA client fails at once, its stderr is dropped and the round reads "Server timed out".
* The stamp of the MSCCL++ library is not removed when a rebuild starts: if that is killed
  and the old compiler comes back, the half-built library passes for the old one. A
  ThunderKittens binary that a killed compiler left passes for fresh.

## 4. Bounds and fairness

* `eval_loop`: four rounds, because the history holds two failures besides the one
  being reported: overflowing it takes three earlier failures, and interleaving a degraded
  round takes one more. One retry per call separates "retried" from "used up". Five programs
  cover the ways a round is judged (passes, does not compile, hangs, crashes, says
  FAIL); seven labels cover the loop's reactions (measured better, on par, slower by the
  unified and by a legacy scheme, not measured in an accepted and in the unknown way, missing). `no_save` needs two rounds.
* `session`: a launcher and three workers; one of them may leave the group. One
  worker forks another after its parent died; a third is needed so that one can be
  outside and one inside at the same time.
* `one_run` needs no bound: the kinds of program and of script are finite, and all of the
  repository's are initial states. Exit codes other than 0 act alike and are represented by 1.
* `compare`: every way in which one of the 103 scripts compares, every kind of registry
  entry, and six measurements on and beside the thresholds against 100, in both directions,
  and zero. All pairs are checked, not only pairs with 100.
* `shared_host`: two models on one example, of which one may leave a server behind;
  two rounds, so that one round's executable is another's; two timestamps. They share the
  folder because nothing but the lock and the machine is shared otherwise. For any number of
  evaluations and examples, see section 5.
* `run_pair`: two scripts of two pairs each: a pair meets the one before it in its own
  script and the ones of the script before. All four styles.
* `artifacts`: three configs, so that an old one may come back or a new one be asked for after a
  broken build; two edits, one during a build and one after; four scripts.
* `setup`: every host of six kinds of adapter and two compilers, every subset of failing
  probes, and the layouts the examples come in, plus three that would be legal (two
  networks' folders, a folder without a template, a template without a script).

Fairness, stated with each specification:

* EvalLoop, `WF_vars(Next)`: one thread, and every wait in it ends. The children run
  under timeouts; the provider SDKs' calls have default timeouts; the lock is given back
  (`EveryoneReturns`). `Returns` of Session, which this rests on, has one exception, a process
  that left the group and keeps the pipe: the last `communicate()` has no timeout.
* Session: weak fairness of the parent (it is scheduled, its timers expire) and of the
  death of a process with SIGKILL pending. Nothing is assumed of live programs: they
  may hang, ignore SIGTERM and fork.
* SharedHost: weak fairness of each evaluation's step. A `threading.Lock` is not fair, and
  taking it is only weakly fair here: an evaluation may be overtaken as long as others have
  rounds left, and as those are bounded, everyone returns nevertheless. A server that
  was left behind owes nothing.
* RunPair: weak fairness of the script's steps and its timeouts; the programs may hang
  at any point, and their exit and connecting are never assumed. A script the parent is about to kill dies.
* OneRun, CompareRun, Artifacts and Setup have no liveness property and no fairness. That the wait for a
  comparison ends is `Returns` of Session.

`Done` is an explicit stuttering step of every specification, so that TLC's deadlock
check covers everything before it.

## 5. What is proved

For every value of the constants, under the named assumptions beside their declarations
(`MaxRoundsAssumption`: at least one round, as `main()` demands; `LabelsAssumption`: the
labels are those `perf_verdict.py` or a legacy scheme writes; `ValuesAssumption`:
measurements are naturals; `DistinctAssumption`: a batch evaluates an example with a model
once; …):

* **SessionProofs** – `TypeCorrect`, `NothingSurvives`, `StrangersAreSafeUntilTheSweep`, for any set of
  processes, any of which may leave. They are inductive only together with the type invariant, which says that
  whoever runs, is in the group, holds the pipe or is doomed was started: a fork makes a
  process that was never used, hence is in none of these sets yet, and a process with SIGKILL
  pending forks no more (`Running`); and with `NumberInv`: the number is given away only after the leader was reaped, no
  member of the group is left then, and the leader is reaped only by the wait that ends before the sweep. What `Returns` rests on besides fairness is proved too:
  `LastWaitIsForDeserters` (the wait without a timeout is for doomed processes and for those that left the
  group with the pipe open) and `GroupDwindles` (after the SIGKILL the group only loses members, by death).
* **EvalLoopProofs** – `RoundsAreKept`: the type invariant (`TypeCorrect`) together with
  `Bookkeeping`, which ties the length of the transcript, the round, the code, the result and
  `passed` to the place the loop is at. Everything below builds on it: `CallsWithinBudget` (via a
  budget up to the current round), `PromptsAreFaithful` (the history is the newest failures
  of the transcript up to `HistoryEnd`), `RoundsAreNeeded` and `LoopAgreesWithVerdicts` (a label that
  does not end the loop is a lost comparison; the two copies of the acceptable list
  agree), `StampsAreTrue` (nothing is decorated before the end, no summary is newer than
  `last_compared_dir`, transcript and summary agree on the label). `KeepsContract`: every initial state maps to
  an initial state of EvalContract, and every step to a step of it or a stutter.
  `AnswersAreEarned`: a pass is returned only for the last round's code, and only if that code
  can earn it. `NothingPassesUnsaved`: with `--no-save` nothing ever passes, so the finding of the run
  `no_save` is no accident of one behaviour. `EveryStepCosts`: a natural number, at most
  MaxRounds · (LlmMaxRetries + 8) + 1 to begin with, goes down with every step. That is `Terminates`
  but for the fairness that makes a next step happen.
* **OneRunProofs** – `FailNeverPasses`, `CrashesClaimNothing`, `RunsAreNotBlamedOnBuilds`,
  `FeedbackIsTrue`, for any set of scripts, not only the 103. The invariant says where
  an output came from (`CameBack`: a failed build, a run that ended, or one that was given up on)
  and that result and verdict are what the three functions make of it. `RunsKeepTheirContract`: the
  state machine implements RunContract; EvalLoop's `Run` draws from the same `CompileAndRun`.
* **CompareRunProofs** – `HigherBands` and `LowerBands` say what each verdict means for
  two arbitrary naturals; from them `BetterIsNeverWorse`. `FileIsKept` is the inductive
  invariant: at every step of the script the file is a function of what was measured (absent,
  half a file, the script's summary, or its rewriting), and rewriting it twice is rewriting it
  once. Then `TypeCorrect`, `LeavesUnifiedVerdict`, `SummariesSurvive`, `RetriesOnlyAfterComparison`,
  `UnmeasuredNeverWins`, `VerdictIsMonotone`, for any measurements and any set of scripts.
  `LeavesKnownLabels` is the link to the loop: whatever is killed when, the label left behind is
  one of those that `LabelsAssumption` of EvalLoop admits.
* **SharedHostProofs** – `JudgesItsOwnCode`, `MeasuresItsOwnCode`, `ScriptsTakeTurns`,
  for any number of evaluations, examples, models and rounds. The invariant: the lock's holder is
  who is inside a `with` block; a generated file and a summary tell of the code of the
  evaluation and round they are named for (`NamesDiffer`: example, model and round tell names apart, without
  the timestamp); what was built under the lock stays until it has run; a script
  runs inside a `with` block only. `SharingIsNotNoticed`: if a lock is given, every step maps to a
  step of OwnMachines or a stutter. The code that a result or a summary is of is known only after
  the step, so the invariant is used in both states. `StepsAreCounted` and `LockIsOnItsWay` are what
  `EveryoneReturns` rests on: no evaluation has more than 10 · MaxRounds steps, none is lost to others that
  take the lock first, and who holds the lock is inside a `with` block.
* **RunPairProofs** – `NothingOutlivesItsPair`, `ServersDoNotMeet`, `SuccessesAreOwn`,
  `ClientsFindTheirSocket`, for any number of scripts and pairs. The invariant adds that the client
  runs only while it is waited for, that the server is gone when its pair is through, that a
  client's peer is its own pair's server, there being no other (but for servers of example009's earlier scripts),
  and what each style's success has taken from the two exits. For the socket it adds whose file it can
  still be, once the script has removed the one it found. `ScriptsRunDown` is what `AllReturn` rests on: a
  natural number that each step of a script lowers and no step of a program changes.
* **ArtifactsProofs** – `HalfBuiltIsNotLinked`, `TakesTheCurrent`, `BuildsOnlyWhatChanged`, for any
  compilers, edits and scripts. `DiskIsKept` is their invariant. Its core: a stamp never tells of
  the build that was cut short (`StampIsOlder`), because with a matching stamp nothing would have been
  built; and after a build that was not cut short it tells of the library (`StampTells`).
* **SetupProofs** – `StartsFromOneFolder`, `MindsTheVendor`, `LosesNoRdma`, `TakesTheFittingRef`, for any
  layout and any host. Their invariant (`SearchesAgree`) says at each step what the probes already
  answered, that the platform is a function of those answers, and that what each search found
  is of the folder the first one chose.

Only model-checked is all liveness: `Terminates`, `Returns`, `EveryoneReturns`, `AllReturn`,
and the fairness half of `ImplementsContract`. Liveness under fairness is beyond the prover. For
each of them a theorem gives the quantity that runs out. Every other property that a run checks is a theorem.

## 6. Not modelled, and why

* *Text*: wording and truncation of prompts, diffs, extraction of code from an answer,
  console output. What a prompt shows is modelled.
* *Provider clients*: stateless calls; their outcomes enter the loop as answer,
  transient error, other error. The dispatch is a look-up in a constant table.
* *Build environment, plots, CSV files*: no state that the evaluation reads back. That
  prerequisites other than the two caches are found is part of "the program compiles".
* *Templates and communication programs* (`.cu`, `.cc`, `.py` under `datasets/`): data that
  the model under test rewrites; what they may do is every behaviour of the modelled
  programs. The repository holds no `ref_*` file at this commit, so references enter the same way.
* *The scripts' command lines of their own* (`--build-only`, `--run-only`, …): the evaluator uses
  `--source` and `--compare` only.
* *`extract_metrics_from_output`, `compare_metrics`*: serve `compile_run.py`'s own command line only.
* *Floating point*: verdicts are exact (section 2).
* *`max_rounds=0`* through the Python interface leaves `round_num` unbound at the return; `main()`
  refuses it, and so does `MaxRoundsAssumption`.
* *Ctrl-C in the loop*: modelled in Session, where it must not leak processes; above that it
  just ends the program.
* *Batch driver*: not in the repository; SharedHost assumes what the docstring of
  `generate_eval_one` says of it.

## 7. Plan

Done, in this order: Verdict, CompileRun, EvalLoop with its contract, Session,
CompareRun, OneRun and their proofs; then the 103 scripts as records under CompileRun and
CompareRun, SharedHost, RunPair, Artifacts, Setup, and the proofs of OneRun, SharedHost and RunPair; then
RunContract and OwnMachines with their refinements, and the proofs of Artifacts and Setup.

What would come next:

1. **A round composed** – EvalLoop's `Compare` tied to CompareRun as `Run` is tied to OneRun by
   RunContract: an abstract comparison whose one step leaves a summary that `SummariesLeft` allows.
2. **A shared host that compares** – SharedHost's `EndCompare` refined by CompareRun, so that what
   OwnMachines promises of the code that was measured extends to the verdict.
