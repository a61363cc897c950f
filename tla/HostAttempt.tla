----------------------------- MODULE HostAttempt -----------------------------
(***************************************************************************)
(* One Attempt between the store and the Host: the service's call around   *)
(* the Host adapter (v4_adapters/codex/adapter.py) and the exec provider   *)
(* (exec_provider.py), which runs the Host as a child process and keeps    *)
(* its evidence in the Attempt directory.                                  *)
(*                                                                         *)
(* Calls run in processes of their own, with a provider of their own, and  *)
(* may die anywhere; a Host process of a dead call lives on in its own     *)
(* session.  Only the outbox row, the snapshot and the exclusively created *)
(* files are shared.  A file whose content is read back while others may   *)
(* write it is first torn, then whole.  Time is abstract: a bound may run  *)
(* out whenever something is waited for.  The commands of these calls do   *)
(* not overtake each other here; Entry is about that.                      *)
(***************************************************************************)
EXTENDS Naturals

CONSTANTS
  Calls,       \* controller processes, one foreground call at a time each
  Startups,    \* those that run start_loop; the others run sync_loop
  MaxCrashes,  \* how many of them die
  Replay,      \* replay safety of the goal
  Recovery,    \* recovery policy of the goal
  None

ASSUME StartupsAssumption == Startups \subseteq Calls
ASSUME MaxCrashesAssumption == MaxCrashes \in Nat
ASSUME ReplayAssumption == Replay \subseteq {"file_local", "idempotent", "non_replayable"}
ASSUME RecoveryAssumption == Recovery \subseteq {"resume", "reconcile", "human"}
ASSUME NoneAssumption == None \notin Calls \cup {"first", "resume", "host", "local", "unknown"}

VARIABLES
  policy,   \* replay safety and recovery policy of the goal
  claimed,  \* the outbox row was handed out
  effect,   \* state of effect and Attempt in the snapshot
  bound,    \* whose answer the Host resource of the effect names
  stage,    \* state of the result
  files,    \* the Attempt directory
  author,   \* the run whose answer "result" and "attempt" hold
  procs,    \* the Host processes of the Attempt
  starts,   \* how often each of them was spawned
  calls,    \* what each controller is doing
  rivals,   \* two calls were under way at once
  crashes

vars == <<policy, claimed, effect, bound, stage, files, author, procs, starts, calls, rivals, crashes>>

\* The run that the claim starts, and the one automatic resume of its session.
Runs == {"first", "resume"}
\* attempt.json, result.json (with its schema and transcript), failure.json, ...
Files == {"directory", "intent", "process", "session", "resume", "resume-process",
          "result", "attempt", "failure"}
ProcessFile(run) == IF run = "first" THEN "process" ELSE "resume-process"

Policies == [replay : Replay, recovery : Recovery]
Resumable == policy.recovery = "resume" /\ policy.replay # "non_replayable"

\* What a provider can answer: from the Host's evidence, or made up locally.
Records == {"host", "local"}
Steps == {"idle", "row", "claim", "make", "intent", "spawn", "bind", "watch", "capture",
          "result", "seal", "fail", "failure", "recover", "evidence", "wait", "session", "authorize",
          "readback", "record", "read", "acknowledge"}

CallRecords == [pc : Steps,
                seen : {"READY", "STARTED", "UNKNOWN", "OBSERVED"},  \* the row as read
                inconclusive : BOOLEAN,                  \* the effect was already UNKNOWN
                run : Runs, half : BOOLEAN,              \* inside the write of a file
                memory : Records \cup {None},
                created : BOOLEAN]                       \* a startup run has called the Host
Quiet == [pc |-> "idle", seen |-> "READY", inconclusive |-> FALSE,
          run |-> "first", half |-> FALSE, memory |-> None, created |-> FALSE]

TypeOK ==
  /\ policy \in Policies
  /\ claimed \in BOOLEAN
  /\ effect \in {"COMMITTED", "UNKNOWN", "OBSERVED"}
  /\ bound \in Records \cup {None}
  /\ stage \in {"ABSENT", "STAGED", "ACKNOWLEDGED"}
  /\ files \in [Files -> {"absent", "torn", "whole"}]
  /\ author \in [{"result", "attempt"} -> Runs \cup {None}]
  /\ procs \in [Runs -> {"none", "running", "exited", "reused"}]
  /\ starts \in [Runs -> 0..2]
  /\ calls \in [Calls -> CallRecords]
  /\ rivals \in BOOLEAN
  /\ crashes \in 0..MaxCrashes

Init ==
  /\ policy \in Policies
  /\ claimed = FALSE
  /\ effect = "COMMITTED" /\ bound = None /\ stage = "ABSENT"
  /\ files = [f \in Files |-> "absent"]
  /\ author = [f \in {"result", "attempt"} |-> None]
  /\ procs = [r \in Runs |-> "none"]
  /\ starts = [r \in Runs |-> 0]
  /\ calls = [c \in Calls |-> Quiet]
  /\ rivals = FALSE /\ crashes = 0

shared == <<policy, claimed, effect, bound, stage>>
At(c, pc) == calls[c].pc = pc
Goto(c, pc) == calls' = [calls EXCEPT ![c].pc = pc, ![c].half = FALSE]
Return(c) == calls' = [calls EXCEPT ![c] = Quiet]
Exists(f) == files[f] # "absent"
Whole(f) == files[f] = "whole"

-----------------------------------------------------------------------------
(***************************************************************************)
(* The service and the adapter.                                            *)
(***************************************************************************)
\* A startup run executes the Attempt; a sync also reads an answer already observed.
Begin(c) ==
  /\ At(c, "idle") /\ stage # "ACKNOWLEDGED"
  /\ effect = "OBSERVED" => c \notin Startups
  /\ calls' = [calls EXCEPT ![c] = [Quiet EXCEPT
       !.pc = IF effect = "OBSERVED" THEN "read" ELSE "row",
       !.inconclusive = (effect = "UNKNOWN")]]
  /\ rivals' = (rivals \/ \E d \in Calls : ~At(d, "idle"))
  /\ UNCHANGED <<shared, files, author, procs, starts, crashes>>

\* The outbox row follows the Attempt, and tells a claimed one from a ready one.
Row == IF effect = "COMMITTED" THEN IF claimed THEN "STARTED" ELSE "READY" ELSE effect

\* execute() reads the row before it claims it.
ReadRow(c) ==
  /\ At(c, "row")
  /\ calls' = [calls EXCEPT ![c].seen = Row, ![c].pc = "claim"]
  /\ UNCHANGED <<shared, files, author, procs, starts, rivals, crashes>>

\* Only one call ever gets to invoke; the others recover what their row shows as started.
ClaimAttempt(c) ==
  /\ At(c, "claim")
  /\ claimed' = (claimed \/ Row = "READY")
  /\ calls' = [calls EXCEPT ![c].seen = "READY",
       ![c].pc = IF Row = "READY" THEN "make"
                 ELSE IF calls[c].seen \in {"STARTED", "UNKNOWN"} THEN "recover" ELSE "readback"]
  /\ UNCHANGED <<policy, effect, bound, stage, files, author, procs, starts, rivals, crashes>>

\* Mutation of Sealed: a manifest that is still being written is taken for evidence.
SealedOnceOpened == Exists("attempt")
\* _restore_persistent_directory: a torn manifest restores nothing.
Sealed == Whole("attempt")

\* The bounded readback, and the receipt: observed if the provider has a record or can
\* restore one.  An unknown receipt for an effect already unknown is not recorded again.
Readback(c) ==
  /\ At(c, "readback")
  /\ LET memory == IF calls[c].memory = None /\ Sealed THEN "host" ELSE calls[c].memory
     IN calls' = [calls EXCEPT ![c].memory = memory,
          ![c].pc = IF memory = None /\ calls[c].inconclusive THEN "read" ELSE "record"]
  /\ UNCHANGED <<shared, files, author, procs, starts, rivals, crashes>>

\* record_external_observation: a late unknown, or another receipt for an effect that is
\* observed, is rejected and ends the call.
RecordObservation(c) ==
  LET memory == calls[c].memory IN
  /\ At(c, "record")
  /\ \/ /\ memory # None /\ effect # "OBSERVED"
        /\ effect' = "OBSERVED" /\ bound' = memory
        /\ Goto(c, "read")
     \/ /\ memory = None /\ effect = "COMMITTED"
        /\ effect' = "UNKNOWN" /\ UNCHANGED bound
        /\ Goto(c, "read")
     \/ /\ effect # "COMMITTED" /\ (memory # None => effect = "OBSERVED")
        /\ Return(c)
        /\ UNCHANGED <<effect, bound>>
  /\ UNCHANGED <<policy, claimed, stage, files, author, procs, starts, rivals, crashes>>

\* A startup run leaves the result to the sync that follows it in the same process, if
\* its provider created a task.
SyncFollows(c) == c \in Startups => calls[c].created

\* read_task_result: from the provider's memory, or from the manifest that names the
\* bound resource.
Readable(c) ==
  \/ calls[c].memory = bound
  \/ calls[c].memory = None /\ bound = "host" /\ Sealed

StageResult(c) ==
  /\ At(c, "read")
  /\ IF effect = "OBSERVED" /\ SyncFollows(c) /\ Readable(c) /\ stage # "ACKNOWLEDGED"
     THEN stage' = "STAGED" /\ Goto(c, "acknowledge")
     ELSE UNCHANGED stage /\ Return(c)
  /\ UNCHANGED <<policy, claimed, effect, bound, files, author, procs, starts, rivals, crashes>>

AcknowledgeResult(c) ==
  /\ At(c, "acknowledge")
  /\ stage' = "ACKNOWLEDGED"
  /\ Return(c)
  /\ UNCHANGED <<policy, claimed, effect, bound, files, author, procs, starts, rivals, crashes>>

-----------------------------------------------------------------------------
(***************************************************************************)
(* Writing evidence.                                                       *)
(***************************************************************************)
\* Mutation of WriteOnce: the file is replaced instead of created exclusively.
WriteOver(c, f, next, collision) ==
  \/ /\ ~calls[c].half
     /\ files' = [files EXCEPT ![f] = "torn"]
     /\ calls' = [calls EXCEPT ![c].half = TRUE]
  \/ /\ calls[c].half
     /\ files' = [files EXCEPT ![f] = "whole"]
     /\ next
\* _write_private_once: O_EXCL, then the content.
WriteOnce(c, f, next, collision) ==
  \/ /\ ~calls[c].half /\ ~Exists(f)
     /\ files' = [files EXCEPT ![f] = "torn"]
     /\ calls' = [calls EXCEPT ![c].half = TRUE]
  \/ /\ ~calls[c].half /\ Exists(f)
     /\ collision
     /\ UNCHANGED files
  \/ /\ calls[c].half
     /\ files' = [files EXCEPT ![f] = "whole"]
     /\ next

-----------------------------------------------------------------------------
(***************************************************************************)
(* invoke(): the run that the claim authorises, or the resume of it.       *)
(***************************************************************************)
\* mkdir is exclusive, and only the claim gets here.
MakeDirectory(c) ==
  /\ At(c, "make")
  /\ files' = [files EXCEPT !["directory"] = "whole"]
  /\ calls' = [calls EXCEPT ![c].pc = "intent", ![c].created = (c \in Startups)]
  /\ UNCHANGED <<shared, author, procs, starts, rivals, crashes>>

WriteIntent(c) ==
  /\ At(c, "intent")
  /\ files' = [files EXCEPT !["intent"] = "whole"]
  /\ Goto(c, "spawn")
  /\ UNCHANGED <<shared, author, procs, starts, rivals, crashes>>

Spawn(c) ==
  LET run == calls[c].run IN
  /\ At(c, "spawn")
  /\ \/ /\ procs' = [procs EXCEPT ![run] = "running"]
        /\ starts' = [starts EXCEPT ![run] = @ + 1]
        /\ Goto(c, "bind")
     \/ UNCHANGED <<procs, starts>> /\ Goto(c, "fail")
  /\ UNCHANGED <<shared, files, author, rivals, crashes>>

\* _terminate_process_group: a controller that gives up leaves no Host process behind.
Terminated(run) ==
  procs' = [procs EXCEPT ![run] = IF procs[run] = "running" THEN "exited" ELSE procs[run]]

\* Pid and start time of the child are recorded, or the child is killed.
BindProcess(c) ==
  LET run == calls[c].run IN
  /\ At(c, "bind")
  /\ \/ /\ WriteOnce(c, ProcessFile(run), Goto(c, "watch"), Goto(c, "fail"))
        /\ UNCHANGED procs
     \/ /\ ~calls[c].half
        /\ Terminated(run) /\ Goto(c, "fail") /\ UNCHANGED files
  /\ UNCHANGED <<shared, author, starts, rivals, crashes>>

\* The first line of the stream names the session.
SeeSession(c) ==
  /\ At(c, "watch") /\ ~Exists("session")
  /\ WriteOnce(c, "session", Goto(c, "watch"), Goto(c, "fail"))
  /\ UNCHANGED <<shared, author, procs, starts, rivals, crashes>>
FinishSession(c) ==
  /\ At(c, "watch") /\ calls[c].half
  /\ WriteOnce(c, "session", Goto(c, "watch"), Goto(c, "fail"))
  /\ UNCHANGED <<shared, author, procs, starts, rivals, crashes>>

\* The bound of the Attempt has run out.
TimeOut(c) ==
  /\ At(c, "watch") /\ ~calls[c].half
  /\ Terminated(calls[c].run)
  /\ Goto(c, "fail")
  /\ UNCHANGED <<shared, files, author, starts, rivals, crashes>>

\* The Host has exited: with a whole stream and an answer that fits the schema, or not.
Collect(c) ==
  /\ At(c, "watch") /\ ~calls[c].half
  /\ procs[calls[c].run] # "running"
  /\ \/ Goto(c, IF Exists("session") THEN "result" ELSE "capture")
     \/ Goto(c, "fail")
  /\ UNCHANGED <<shared, files, author, procs, starts, rivals, crashes>>

CaptureSession(c) ==
  /\ At(c, "capture")
  /\ WriteOnce(c, "session", Goto(c, "result"), Goto(c, "fail"))
  /\ UNCHANGED <<shared, author, procs, starts, rivals, crashes>>

Signed(c, f) ==
  author' = IF calls'[c].half THEN [author EXCEPT ![f] = calls[c].run] ELSE author

WriteResult(c) ==
  /\ At(c, "result")
  /\ WriteOnce(c, "result", Goto(c, "seal"), Goto(c, "fail"))
  /\ Signed(c, "result")
  /\ UNCHANGED <<shared, procs, starts, rivals, crashes>>

\* The manifest comes last.  It makes the answer the provider's record.
Seal(c) ==
  /\ At(c, "seal")
  /\ WriteOnce(c, "attempt",
               calls' = [calls EXCEPT ![c].pc = "readback", ![c].half = FALSE, ![c].memory = "host"],
               Goto(c, "fail"))
  /\ Signed(c, "attempt")
  /\ UNCHANGED <<shared, procs, starts, rivals, crashes>>

\* The response counts as lost.  A failure that is recorded already is left as it is.
LookForFailure(c) ==
  /\ At(c, "fail")
  /\ Goto(c, IF Exists("failure") THEN "readback" ELSE "failure")
  /\ UNCHANGED <<shared, files, author, procs, starts, rivals, crashes>>

\* Only the presence of failure.json is ever read.  A rival that recorded its own since
\* ends the call with an error.
RecordFailure(c) ==
  /\ At(c, "failure")
  /\ \/ /\ ~Exists("failure")
        /\ files' = [files EXCEPT !["failure"] = "whole"]
        /\ Goto(c, "readback")
     \/ Exists("failure") /\ Return(c) /\ UNCHANGED files
  /\ UNCHANGED <<shared, author, procs, starts, rivals, crashes>>

-----------------------------------------------------------------------------
(***************************************************************************)
(* recover(): what to do about a started Attempt, from its files alone.    *)
(***************************************************************************)
Answer(c, record) ==
  calls' = [calls EXCEPT ![c].memory = record, ![c].pc = "readback"]

\* Mutation of Alive: any process with the recorded pid will do.
AliveByPid(run) == Whole(ProcessFile(run)) /\ procs[run] \in {"running", "reused"}
\* _process_identity_alive: pid and start time together.
Alive(run) == Whole(ProcessFile(run)) /\ procs[run] = "running"

Unreadable == \E run \in Runs : files[ProcessFile(run)] = "torn"

\* A claimed Attempt without a directory is not sent again.
Recover(c) ==
  /\ At(c, "recover")
  /\ IF Sealed THEN Answer(c, "host")
     ELSE Goto(c, IF Exists("directory") THEN "evidence" ELSE "readback")
  /\ UNCHANGED <<shared, files, author, procs, starts, rivals, crashes>>

\* Mutation of ExamineEvidence: live processes are not looked for.
ExamineFilesOnly(c) ==
  /\ At(c, "evidence")
  /\ IF Exists("attempt") THEN IF Sealed THEN Answer(c, "host") ELSE Goto(c, "readback")
     ELSE IF Exists("failure") THEN Answer(c, "local")
     ELSE Goto(c, "session")
  /\ UNCHANGED <<shared, files, author, procs, starts, rivals, crashes>>
\* A recorded failure leaves the workspace to be reconciled; a live process is waited for.
ExamineEvidence(c) ==
  /\ At(c, "evidence")
  /\ IF Exists("attempt") THEN IF Sealed THEN Answer(c, "host") ELSE Goto(c, "readback")
     ELSE IF Exists("failure") THEN Answer(c, "local")
     ELSE IF Unreadable THEN Goto(c, "readback")
     ELSE Goto(c, IF \E run \in Runs : Alive(run) THEN "wait" ELSE "session")
  /\ UNCHANGED <<shared, files, author, procs, starts, rivals, crashes>>

\* Mutation of WaitForProcess: the wait has no bound.
WaitForProcessForever(c) ==
  /\ At(c, "wait")
  /\ \/ Sealed /\ Answer(c, "host")
     \/ ~Exists("attempt") /\ Exists("failure") /\ Answer(c, "local")
     \/ (\A run \in Runs : ~Alive(run)) /\ Goto(c, "session")
  /\ UNCHANGED <<shared, files, author, procs, starts, rivals, crashes>>
\* Polling ends with evidence, with the process, or with the bound of the Attempt.
WaitForProcess(c) ==
  /\ At(c, "wait")
  /\ \/ Sealed /\ Answer(c, "host")
     \/ ~Exists("attempt") /\ Exists("failure") /\ Answer(c, "local")
     \/ (\A run \in Runs : ~Alive(run)) /\ Goto(c, "session")
     \/ Goto(c, "readback")
  /\ UNCHANGED <<shared, files, author, procs, starts, rivals, crashes>>

\* Only a known session that was never resumed, of a goal that allows it, is resumed.
ExamineSession(c) ==
  /\ At(c, "session")
  /\ IF ~Exists("session") \/ Exists("resume") THEN Answer(c, "local")
     ELSE IF ~Whole("session") THEN Goto(c, "readback")
     ELSE IF ~Resumable THEN Answer(c, "local")
     ELSE Goto(c, "authorize")
  /\ UNCHANGED <<shared, files, author, procs, starts, rivals, crashes>>

\* Mutation of AuthorizeResume: resume.json is no lock.
AuthorizeEveryResume(c) ==
  /\ At(c, "authorize")
  /\ files' = [files EXCEPT !["resume"] = "whole"]
  /\ calls' = [calls EXCEPT ![c].pc = "spawn", ![c].run = "resume", ![c].created = (c \in Startups)]
  /\ UNCHANGED <<shared, author, procs, starts, rivals, crashes>>
\* Budget and time left are checked, then resume.json takes the one resume.  A rival that
\* took it first ends the call with an error.
AuthorizeResume(c) ==
  /\ At(c, "authorize")
  /\ \/ Answer(c, "local") /\ UNCHANGED files
     \/ /\ ~Exists("resume")
        /\ files' = [files EXCEPT !["resume"] = "whole"]
        /\ calls' = [calls EXCEPT ![c].pc = "spawn", ![c].run = "resume", ![c].created = (c \in Startups)]
     \/ Exists("resume") /\ Return(c) /\ UNCHANGED files
  /\ UNCHANGED <<shared, author, procs, starts, rivals, crashes>>

-----------------------------------------------------------------------------
(***************************************************************************)
(* The environment.                                                        *)
(***************************************************************************)
HostExits(run) ==
  /\ procs[run] = "running"
  /\ procs' = [procs EXCEPT ![run] = "exited"]
  /\ UNCHANGED <<shared, files, author, starts, calls, rivals, crashes>>

\* The operating system gives the pid to a process of somebody else.
ReusePid(run) ==
  /\ procs[run] = "exited"
  /\ procs' = [procs EXCEPT ![run] = "reused"]
  /\ UNCHANGED <<shared, files, author, starts, calls, rivals, crashes>>

\* The controller dies.  Its Host process has a session of its own and goes on.
Crash(c) ==
  /\ ~At(c, "idle") /\ crashes < MaxCrashes
  /\ crashes' = crashes + 1
  /\ Return(c)
  /\ UNCHANGED <<shared, files, author, procs, starts, rivals>>

CallStep(c) ==
  \/ ReadRow(c) \/ ClaimAttempt(c) \/ Readback(c) \/ RecordObservation(c)
  \/ StageResult(c) \/ AcknowledgeResult(c)
  \/ MakeDirectory(c) \/ WriteIntent(c) \/ Spawn(c) \/ BindProcess(c)
  \/ SeeSession(c) \/ FinishSession(c) \/ TimeOut(c) \/ Collect(c) \/ CaptureSession(c)
  \/ WriteResult(c) \/ Seal(c) \/ LookForFailure(c) \/ RecordFailure(c)
  \/ Recover(c) \/ ExamineEvidence(c) \/ WaitForProcess(c)
  \/ ExamineSession(c) \/ AuthorizeResume(c)

Next ==
  \/ \E c \in Calls : Begin(c) \/ CallStep(c) \/ Crash(c)
  \/ \E run \in Runs : HostExits(run) \/ ReusePid(run)

Spec == Init /\ [][Next]_vars

\* A call that runs goes on, and syncs are called again and again.  A Host process need
\* never end.
Fairness ==
  \A c \in Calls : WF_vars(CallStep(c)) /\ (c \notin Startups => WF_vars(Begin(c)))

FairSpec == Spec /\ Fairness
-----------------------------------------------------------------------------
(***************************************************************************)
(* Properties.                                                             *)
(***************************************************************************)
\* The Host is called once for the claim and at most once more for the resume: whoever
\* crashes, retries or races, an Attempt is never sent again (docs/adr/0011: "at most one
\* automatic" Attempt).
HostCalledOnce == \A run \in Runs : starts[run] <= 1

\* As long as calls do not overlap, a crash and the recovery after it never leave two
\* Host processes of one Attempt at work in the same workspace.
OneHostAtATime == ~rivals => ~(procs["first"] = "running" /\ procs["resume"] = "running")

\* The manifest is sealed over the answer of one run, whichever runs raced to write it.
EvidenceIsOneRun ==
  Exists("attempt") =>
    Whole("result") /\ Whole("session") /\ author["attempt"] = author["result"]

\* An effect is observed with the Host's answer only when the evidence is complete, so
\* that a restart can read it back; what a call holds in memory is no less.
ObservedIsSealed ==
  /\ effect = "OBSERVED" <=> bound # None
  /\ bound = "host" \/ (\E c \in Calls : calls[c].memory = "host") => Whole("attempt")

\* A call ends, however long the Host it waits for lives on.
CallsEnd == \A c \in Calls : calls[c].pc # "idle" ~> calls[c].pc = "idle"

\* The directory of a begun Attempt can be read, and its Host processes have ended.
Recoverable ==
  /\ Exists("directory") /\ \A f \in Files : files[f] # "torn"
  /\ \A run \in Runs : procs[run] # "running"

\* Once nothing is torn and no Host works, an Attempt that was begun is decided at last: by
\* its own answer, by a resume, or by handing it to local reconciliation, even if the pid
\* of its process has gone to somebody else.
BegunIsDecided == <>[]Recoverable => <>(effect = "OBSERVED")

\* "A crash at any durable boundary resumes from the committed stage" (docs/adr/0011:824):
\* an observed effect gets its result staged and acknowledged.
\* (False for an answer made up locally: README, Known divergences.)
ObservedIsUsed == effect = "OBSERVED" ~> stage = "ACKNOWLEDGED"

\* "A live process is never resent" (docs/v4/release-notes-v4.2.md:24), even if two
\* calls overlap.
\* (False: README, Known divergences.)
LiveIsNeverResent == ~(procs["first"] = "running" /\ procs["resume"] = "running")
=============================================================================
