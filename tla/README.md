# LoopSkill: a TLA+ verification project

LoopSkill runs a long task as a *loop*: a confirmed plan of goals, each executed
by a Host (Codex) in *Attempts*, whose results are staged, acknowledged against
local evidence, reviewed, and lead to the next goal, to a repair, to a wait for
the user or to the end. The state of a loop is one *snapshot* in an SQLite store;
everything that happens is a *command* that a pure reducer accepts or rejects.
`CR` below is `src/codex-loop-prompt-architect/scripts/loop_architect`.

## Inventory

| Component | State | Operations | Hard part | Correct when |
|---|---|---|---|---|
| Loop store `CR/v4_persistence/sqlite_store.py` | journal of operations, event log, snapshot with its revision, outbox of Attempts | `apply`, `claim_attempt` | several processes, crashes at nine durable boundaries, lost answers, retries | every operation is decided once, no update is lost, tables agree, an Attempt is handed out once |
| Kernel `CR/v4_alpha/kernel.py` | the snapshot: execution, plan, goals, effects, results, reviews, policy, finalization, closure assurance | one reducer per command | any accepted order of commands from several authors | plan order, one open Attempt, goals proven by their own chain, bounded repairs, honest closing |
| Entry `CR/v4_entry/service.py` | none of its own: each call holds a snapshot and submits commands | `start_loop`, `sync_loop`, pause, resume, stop, extend, steer, revise, gates | calls run in separate processes with no lock and re-read the snapshot between commands; operation identities are fixed per step | one deterministic successor at every snapshot, loops settle and close, gates and budgets hold |
| Preparation `CR/v4_entry/preparation.py` | a directory of files written once | prepare, load, confirm | files are read and written one by one by several calls; a confirmation expires; the workspace changes | the started plan is the confirmed one, and starts once |
| Plan codec `CR/v4_alpha/plan_codec.py` | none | compile, canonicalize, materialize, bound | two schemas, budgets, capacity and capability reports judged twice | what is reported is what the run does |
| Host adapter `CR/v4_adapters/codex/adapter.py` | none; outbox rows | execute, read result, observe finalization | claim, call and readback are separate steps | at most one automatic call per Attempt, uncertain results stay uncertain |
| Exec provider `CR/v4_adapters/codex/exec_provider.py` | an Attempt directory: intent, process identity, session, result, manifest | invoke, recover, resume, readback, budget | process death between any two files, pid reuse, timeouts | never a second Host run of one Attempt, evidence of one run, budgets charged |
| Artifacts `CR/v4_artifacts/` | blobs | capture, verify by command | bounded processes | VERIFIED only for what was captured |
| Policy `CR/v4_policy/policy.py` | none | next action, decision cards, roadmap | must match the kernel's guards | what it offers the kernel accepts |
| Installer `src/scripts/install.sh`, `uninstall_v4.py` | installed tree, management program, receipts and their pointer, a journal, what was set aside | install, recover, uninstall | a failure or kill between any two file moves, and in the recovery | old or new version, never a mixture |
| Projections, conversation, canary, vertical slice, legacy, CLI, generated protocol | none | views and scripts | - | - |

Interaction: the CLI calls the entry; preparation turns a request into a directory
that the user confirms; `start_loop` turns it into a loop; the entry reads a
snapshot, asks the Host adapter, builds one command and calls `apply`; `apply` calls
the kernel's reducer inside the store's transaction; the adapter claims Attempts in
the store and calls the provider, which runs the Host as a child process. Nothing
but the store's transactions and exclusively created files orders two processes.

## Modules

| Module | Models |
|---|---|
| `ExactlyOnce` | what the store promises: `Accept`, `Reject`, `Take` |
| `SqliteStore` | `apply()` as `Begin`, `Replay`/`Conflict`/`Reduce`/`RecordRejection`, `WriteOperation`, `WriteEvents`, `WriteSnapshot`, `SyncOutbox`, `Commit`, `Respond`, with `Rollback` (crash inside), `LoseReply` (crash after commit), `Busy` (lock timeout), `Resubmit`; `ClaimAttempt` |
| `Kernel` | one guard `Can...` and one action per reducer, and the decisions the entry takes from a snapshot (`Verdict`, `GoalDisposition`, `FinalDisposition`, `...ByEntry`) |
| `Entry` (extends `Kernel`) | `StartLoop`, `Control`, the steps of `sync_loop` and the store's answers `Accept`, `Refuse`, `Conflict`, `Crash` |
| `HostAttempt` | `execute()` and the exec provider over one Attempt directory: row, claim, spawn, evidence files, timeouts, recovery, resume, readback, receipt |
| `Waits` | when a foreground run may call the Host: startup run, gates, skipped goals, pauses, the runtime budget and its deadlines, against a clock |
| `PlanCodec` | pure operators: intake, both plan schemas, what compiles, capacity and capability reports, what a run skips |
| `Preparation` (extends `PlanCodec`) | `prepare`, `load_prepared`, `confirm_prepared`, `start_loop` up to `CreateLoop`, file by file |
| `Install` | `install.sh`, its recovery, `uninstall` and its recovery, one action per durable step |
| `MCKernel`, `MCEntry`, `MCWaits`, `MCPreparation`, `MCInstall` | instances for TLC |
| `SqliteStoreProofs`, `KernelProofs`, `EntryProofs`, `HostAttemptProofs`, `WaitsProofs`, `PreparationProofs`, `InstallProofs` | the theorems |

**SqliteStore.** `db` is what is committed, `work` what the open transaction sees,
`owner` the holder of the writer lock, `stage` the last durable fault boundary
passed. One loop is modelled; the reducer is reduced to the revision and the state
of every Attempt, which is all the other tables depend on. A command is its own
digest. A journal row keeps the loop revision it was decided at.

**Kernel.** All references of a chain (effect, Attempt, result, report, artifact,
review) are derived from goal and repair ordinal, so `<<goal, ordinal>>` names the
chain and one function per kind of subject holds its state. Effect and Attempt
change in the same commands with the same states and share a variable; so do result
and report. Single subject revisions are left out because a command is accepted only
at the loop revision it was built from. Authority, receipt and digest checks are
left out: when they fail the command is rejected like any other, and the entry issues
commands under grants of its own. A plan is of schema v2, content addressed.
`policy.same` is capped at 2, the largest same-failure budget; `policy.attempts`
stays within 3, the kernel's own cap. `Next` issues commands in the way the entry
does, from any state that satisfies the reducer's guard.

**Entry.** A sync is a record: where it is in `sync_loop`, the chain it works on, the
operation it is about to submit, and `fresh`, which stands for "the loop revision of
my snapshot is still the current one". Reading a snapshot and submitting a command
are separate steps, so everything else can happen in between. The identity of an
operation is label and subject (`_machine_command`); `accepted` and `refused` are the
journal by identity. A rebuilt command has a new `issued_at`, so a used identity is
always a conflict, never a replay. Controls read and submit in one step: their
identities contain the revision, so losing a race only means being called again.
What the Host, the workspace and the failure put into a command is chosen freely
(`Inputs`), the Host's receipts are `observed`, `unknown` and `cooperative`; an answer no
better than the one already recorded is not submitted again (`Repeats`).
The first Attempt is executed by a sync; the startup run is in `Waits`.

**HostAttempt.** One Attempt, several controllers with a provider of their own. The
outbox row is read before the claim, as in `adapter.py`. A file of the Attempt
directory is created exclusively and then filled: `absent`, `torn`, `whole`.
`author` remembers whose answer a file holds. A Host process is a child with its own
session: it outlives its controller, and its pid may go to another process. A bound
may run out whenever something is waited for. `failure.json` is looked for and then
created; a rival that creates it in between ends the call with an error. The budget and the commands are left to
`Waits` and `Entry`.

**Waits.** One foreground call at a time, the user's controls beside it, a clock. An
Attempt is a record of its effect, the state of its directory and the times that the
provider reads from it; `work` and `spawns` are history of what really happened. The
plan says of each goal whether an interrupted session may be resumed and whether the
workspace may be reconciled instead (`resumes`, `reconciles`: its `recovery_policy` and
`replay_safety`). A crash may tear the file that announces a process or the manifest of
one that has ended (`torn`); the budget is then unverifiable and nothing is afforded any
more. A chain of `sync_loop` is one step. `host` is the Host process: attended, orphaned by a
crash, or none.

**PlanCodec and Preparation.** `PlanCodec` keeps of a request what the reports look
at: sizes, sets of names, requirements, verifiers and budgets. `Preparation` adds the
directory: a call writes and reads its files in the order of the code, `out` is what
it writes and `got` what it has read; a digest is the value it digests. Files that are
written and checked alike are one (`reports`, `boundary`). The user may replace a file
by one of another preparation, remove the directory, change the workspace; the clock
may run past the validity of a confirmation; a call may die anywhere. `made` and
`agreed` are history. A loop has a root with blobs and loops, keyed by its token.

**Install.** A release stands for its tree and inventory. `product` is what the
user sees (tree, management program, receipts, pointer), `transaction` what the run
keeps beside it (journal, staging of an install, transaction of an uninstall). A run
is a program counter under the lock; every rename and every write of one file is a
step, the removal of a tree is not atomic (`Crash` keeps any part of it). `Fail` is a
failing command of the shell script, whose trap recovers. `before` is history.

A definition named in a comment as a *Mutation* is a deliberate fault (a dropped
guard, a missing reset, a confused label). None is used by a specification: each
shows, put in the place of the definition it follows, that a property notices.

## Runs

| Run | Asks | Result |
|---|---|---|
| `SqliteStore` | two clients, crashes anywhere: do journal, events, outbox and answers agree, does the store implement `ExactlyOnce`, keep its decisions, and answer | holds |
| `Kernel` | do the snapshot invariants hold under every order of commands | holds |
| `Entry` | two syncs and a repair: only kernel steps, one operation per chain step, evidence final | holds |
| `EntryControls` | one sync that may crash, two uses of any control: only kernel steps | holds |
| `EntryAlone` | a lone sync over two goals, with waits, a skipped goal and two crashes: the loop settles and closes | holds |
| `HostAttempt` | two controllers, one crash: the Host is called once and resumed at most once, by one at a time if calls do not overlap; evidence is of one run and whole before it is used; calls end, a begun Attempt is decided | holds |
| `Waits` | plans of worker, human, time and skipped goals under every recovery policy, with two crashes, torn files and controls: invocations and active compute stay within the budget, a restart refreshes no deadline | holds |
| `Preparation` | two calls, a replaced or removed directory, an expiring confirmation, a changing workspace: what is loaded is one preparation, what starts was confirmed and starts once, the goals skipped are those that were shown | holds |
| `Install` | five runs over three releases with failures and kills: all or nothing, prior bytes kept, committed goes forward, managed when settled | holds |
| `EntryRepairCrash` | "a crash at any durable boundary resumes from the committed stage", at the REPAIR verdict | violated |
| `GateBypassed` | the Host never works for a goal behind a human or time gate | violated |
| `InstallWedged` | the next install recovers what a crash left | violated |

The violated ones are disagreements between the code and its documents; `PROJECT.json`
quotes both. `EntryAlone` shows the other side of the first: with plans that do not
repair, a single caller and strict receipts nothing is ever refused, whatever crashes.
`InstallWedged` does not contradict `Install`: what is refused for ever is left whole.

**Bounds.** Two operation ids over two clients give every pair of racing, replayed
and conflicting commands; Attempts never interact, one is enough. Two goals of which
the second is optional and a revision give every relation of a goal to its
predecessor, successor and position; two Attempts give a first and a repeated repair
decision, two failure fingerprints a same and a different failure. Two syncs are
enough for a stale snapshot, `MaxControls = 2` for a control and what undoes it,
`MaxCrashes` for a crash and one in the recovery from it. `HostAttempt` has a startup
and a sync, which also overlap; a third controller meets nothing new, since a resume is
authorized once. In `Waits` an Attempt may last two units and the clock has four, enough
for an Attempt, its crash, a resume and what follows it; budgets of one and two calls
make the first and the last call the one at the limit; a first goal of every policy is
followed by one whose session can be resumed. In `Preparation` two calls, two
tokens and two requests give two preparations meeting in one directory; a validity of 0
with a clock of one tick gives a confirmation that is fresh or expired. `Install` runs five
times so that an install, an upgrade, a failed upgrade, an uninstall and its recovery fit;
of its three releases two share a manager. Syncs, calls and tokens are interchangeable
(symmetry, in runs without liveness). Deadlock is not checked where the system
really ends.

**Fairness.** The store's clients: weak fairness of the steps of a running call, since
a process that runs continues; nobody has to call. The entry: `sync_loop` is called
again and again (weak fairness of its steps), the Host does at last give an
authoritative receipt and finish its task (strong fairness of those two outcomes);
controls and crashes are never required. Liveness is asked of the loop only while
this is so; a user who stops calling stops the loop. `HostAttempt`: weak fairness of a
running call's steps and of calling sync again; a Host process need never end, which
is why `CallsEnd` is about the bounds of the waits. `Waits`, `Preparation` and `Install`
are checked for safety only.

## Known divergences

Stated in the modules, false of the code, and left without a run of their own; each is
seen by checking the definition with the constants given.

| Definition | Seen with | What happens |
|---|---|---|
| `Entry.TerminalNeverReopens` | as `EntryAlone`, without crashes, `Offered = {"stop"}`, `MaxControls = 1` | a stop lands between the last advance and the finalization of one sync (`service.py:3041`), which `_prepare_finalization` (`kernel.py:2288`) does not look for: TERMINAL becomes FINALIZING and SUCCEEDED. ADR 0011:602 says "Terminal execution never reopens" |
| `Entry.SuccessorExists` | as `EntryRepairCrash` with `OneAttempt`, `Fails`, no crash, `Offered = {"pause", "resume"}`, `MaxControls = 2` | a command that was overtaken is recorded as rejected under the fixed name of its step, which then conflicts for ever (`service.py:1942`) |
| `Entry.LoopSettles` | the same, `Offered = {"resume"}`, `MaxControls = 1` | a second wait of a chain reuses the label of the first (`service.py:2819`): the loop stays ACTIVE and never waits |
| `Entry.LoopCloses` | the same, no control, `Lifecycle = {TRUE, FALSE}` | a lifecycle receipt weaker than a success needs is rejected under the fixed operation of "close" (`kernel.py:2406`), and a finalizing loop cannot be stopped |
| `Entry.FinalizedByCurrentResult` | as `Entry`, `Lifecycle = {TRUE}` | a sync held up over another sync's repair finalizes as LIMITATION a loop whose current result passes (`service.py:3054`) |
| `HostAttempt.ObservedIsUsed` | as `HostAttempt`, no crash, `Replay = {"file_local"}` | an answer made up locally is recorded in the store but lives in one process (`exec_provider.py:1811`): no other can read it back |
| `HostAttempt.LiveIsNeverResent` | as `HostAttempt` | of two overlapping calls one may resume while the Host of the other, spawned and not yet recorded, works (`exec_provider.py:1683`) |

Observed while modelling and without a property: after a crash that tears `intent.json`,
`resume.json` or the manifest of an Attempt the budget counts as unverifiable
(`exec_provider.py:1859-1884`) and no extension of it lets the loop call the Host again;
two starts of different preparations
in one shared root, which only the Python API allows, end in one root
(`service.py:661`); an expired confirmation can never be renewed, since its file is
written once (`preparation.py:1241`); a directory left partial by a crash is refused for
ever; plans of 65 to 128 goals compile but their creation command has more members than
the capacity report allows (`preparation.py:645-660`); `scripts/loopskill4:1071` loads
again between showing the boundary and signing it, so what was shown may differ from
what is signed, while the confirmation always names what it signs.

## Proofs

TLAPS proves, for every value of the constants that satisfies the named assumptions:

* `SqliteStoreProofs`: the six invariants and `JournalImmutable`, and that the store
  implements `ExactlyOnce`. The invariant `IInv` says of the open transaction what
  each boundary has established (`work` is `db` with the writes up to `stage`), that a
  claimed Attempt is no longer READY, and that a waiting command names a revision the
  loop has had. Only `Commit` and `ClaimAttempt` change what the abstract
  specification sees.
* `KernelProofs`: the seven invariants and `AssuranceNeverWeakens`, for any number of
  goals. The properties are not inductive by themselves: the strengthening says that
  only goals up to the active position were started (`PlanReach`), that a goal owns
  no effect beyond its repair ordinal (`EffectReach`), that results and reviews are
  bound to observed chains and the last chain of the plan that has a result is the
  current one (`ResultsBound`, `ReviewsBound`), and that after a finalization no goal
  is active and a success was prepared for a finished plan (`ClosingSound`). One lemma
  per command; `AdvanceGoal` is split by whether it activates a goal.
* `EntryProofs`: that the entry implements `Kernel` (`EntrySpec => Spec`), so that what
  `KernelProofs` shows carries over, `EvidenceIsFinal` and `JournalExplainsChains`, for
  any plan, any number of syncs, crashes and controls. Two facts make it inductive. A
  sync whose snapshot is still current may issue what it decided from it (`Justified`):
  an accepted command makes every other snapshot stale, and nothing else changes what
  the guards look at. And chains follow one another (`Succession`): a result without a
  review is the current one and a chain left for a repair was reviewed REPAIR, so an
  operation that names a chain can have been accepted only once. The second is about
  the kernel's steps alone and is proved from its invariant: four commands touch it.
* `HostAttemptProofs`: the types of `HostAttempt` and its four safety invariants, for
  any number of controllers and crashes. The strengthening says that one call works
  for each run (`Ownership`), that a run that may still be spawned never was
  (`Spawned`), that `session.json` is torn only for its writer and whole before there
  is a resume (`Session`), that whoever is past the answer wrote it (`Answers`), and
  that without overlap a resume begins only after the first process has ended
  (`Alone`). One lemma per action; the actions that write nothing share `Quietly`.
* `WaitsProofs`: `CallsWithinBudget`, `WorkWithinBudget` and `DeadlineKept`, for any
  plan and budgets, any number of crashes and extensions, however far the clock runs.
  `Documented` says what a directory tells of the times at which its Hosts ran; with it
  a crash loses nothing that the next call needs, except that a torn file makes it afford
  nothing (`Untouched` speaks of whole directories only). The sums are reckoned (`Reckoned`) in
  terms of the current Attempt, the only one that changes: what the past ones worked
  was charged, the current one as first started fits in what was left, and a resume
  gets no more than was left of the first start, of the provider's timeout and of the
  budget, each of which bounds the sum for a different reason. `Fits` says the same of
  the budget of the call at hand, which an extension may have overtaken. The facts
  about sums follow from a sum being the size of a set of units.
* `PreparationProofs`: `LoadedIsOnePreparation`, `StartedIsConfirmed`, `StartedOnce` and
  `SkipsWereConfirmed`, for any requests, tokens and calls. Every file is missing, torn
  or one that a preparation or a confirmation wrote (`Genuine`), whoever replaces it.
  `MatchingIsComplete` is the heart: files that agree with each other's digests are all
  of the preparation of their bundle, so what a call has in hand is whole although it was
  read file by file (`Reading`, `Holding`). A confirmation in hand named what was loaded
  and was valid when it was judged (`Starting`); a store is empty or has the one loop of
  its token, created of such a confirmation (`Rooted`, `Founded`).
* `InstallProofs`: `SettledIsManaged`, `PriorBytesKept`, `AllOrNothing` and
  `CommittedGoesForward`, for any releases and any number of runs and deaths. While a
  journal is there, the product is what it was, or is committed, or what was there is
  aside or in place (`Progress`), and the place a run is at says which of its steps
  were taken; without a journal the product is consistent (`Between`) and the next
  receipt's name is new (`Runs`). A withdrawn tree is never put back
  (`Uninstalling`). A death leaves the disk as it is, so the same invariant is what
  recovery starts from, and a recovery that dies is only one more run.

Assumed of the constants: a plan has a goal, at most three Attempts per goal and a
budget of at least one call per goal (`plan_codec.py` enforces these), a goal of a
version 2 request is required or optional (`plan_codec.py:509`), only optional goals
are skipped, the compute budget and the provider's timeout are positive, `None` is not
a goal, a release or a record, and the bounds on time, runs, crashes and edits are natural
numbers.

Two definitions have the form they have for the sake of the proofs and say the same: a
sum (`Waits.Total`) is the size of a set of units, since folds recur; and the order
in which files are read or written (`Preparation`) is a sequence, to which only the
confirmation is added when there is one, instead of a selection from all names.

Model-checked only: liveness under fairness (`CallsReturn`, `LoopSettles`, `LoopCloses`,
`CallsEnd`, `BegunIsDecided`), which is beyond the prover. Every safety property of a
passing run has its theorem; no argument uses the value of a bound. Worth proving next:
an abstract specification of an installation (a product that changes at once)
implemented by `Install`, and one of a confirmed and started loop implemented by
`Preparation`.

## Not modelled

Authority grants and receipts (rejections like any other) and their expiry; the
Route/Delivery reducers (only the vertical slice issues them); policy offers and views
(read-only); the verifier's process and the contents of captured artifacts (their
answer is an input); JSON bytes and digests (taken as injective); the transcript of the
Host; migrations, backup and export of the store; the in-memory store, the eager v4.0
reducer and the legacy boundary; the building of an install image, ownership and symlink
checks, and drift of installed files; the canary, the release validators, the generated
protocol and the command line, which are scripts around the modelled calls.
