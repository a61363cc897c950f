-------------------------- MODULE HostAttemptProofs --------------------------
(***************************************************************************)
(* Theorems about HostAttempt: for any number of controllers and crashes,  *)
(* the Host is called once for the claim and once for the resume, evidence *)
(* is of one run, and what is used of it is whole.                         *)
(***************************************************************************)
EXTENDS HostAttempt, TLAPS

\* The steps of invoke(): before the process, and with it.
Working == {"make", "intent", "spawn", "bind", "watch", "capture", "result", "seal", "fail",
            "failure"}
Works(c, run) == calls[c].pc \in Working /\ calls[c].run = run

\* One call works for each run: the claim and resume.json are taken once.
Ownership ==
  /\ \A c \in Calls : calls[c].pc \in {"row", "claim"} => calls[c].run = "first"
  /\ \A c \in Calls : Works(c, "first") => claimed
  /\ \A c \in Calls : Works(c, "resume") => Exists("resume")
  /\ \A c, d \in Calls : \A run \in Runs : Works(c, run) /\ Works(d, run) => c = d

\* A run that may still be spawned never was.
Spawned ==
  /\ ~claimed => starts["first"] = 0
  /\ ~Exists("resume") => starts["resume"] = 0
  /\ \A c \in Calls : calls[c].pc \in {"make", "intent", "spawn"} => starts[calls[c].run] = 0
  /\ HostCalledOnce

\* The session is written by the first run, once its process is recorded, or was whole
\* before there was a resume; only its writer sees it torn.
Session ==
  /\ Exists("session") => claimed /\ Whole("process")
  /\ Exists("resume") => Whole("session")
  /\ \A c \in Calls : calls[c].pc = "authorize" => Whole("session")
  /\ \A c \in Calls : Works(c, "first") /\ files["session"] = "torn" =>
       calls[c].half /\ calls[c].pc \in {"watch", "capture"}
  /\ \A c \in Calls :
       Works(c, "first") /\ calls[c].pc \in {"make", "intent", "spawn", "bind"} =>
         ~Exists("session")
  /\ \A c \in Calls :
       Works(c, "first") /\ calls[c].pc \in {"watch", "capture", "result", "seal"} =>
         Whole("process")
  /\ \A c \in Calls : calls[c].pc \in {"result", "seal"} => Exists("session")

\* Whoever is past the answer wrote it.
Answers ==
  /\ \A c \in Calls : calls[c].half =>
       calls[c].pc \in {"bind", "watch", "capture", "result", "seal"}
  /\ \A c \in Calls : calls[c].pc = "result" /\ calls[c].half =>
       Exists("result") /\ author["result"] = calls[c].run
  /\ \A c \in Calls : calls[c].pc = "seal" =>
       Whole("result") /\ Whole("session") /\ author["result"] = calls[c].run
  /\ \A c \in Calls : calls[c].pc = "seal" /\ calls[c].half =>
       Exists("attempt") /\ author["attempt"] = calls[c].run
  /\ EvidenceIsOneRun

\* Without overlap there is one call at most, and it goes on to a resume only when the
\* first Host process has ended.
Alone ==
  /\ procs["resume"] = "running" => Exists("resume")
  /\ ~rivals => \A c, d \in Calls : ~At(c, "idle") /\ ~At(d, "idle") => c = d
  /\ ~rivals /\ Exists("resume") => procs["first"] # "running"
  /\ \A c \in Calls :
       ~rivals /\ (At(c, "authorize") \/ (At(c, "session") /\ Exists("session"))) =>
         procs["first"] # "running"

IInv == TypeOK /\ Ownership /\ Spawned /\ Session /\ Answers /\ ObservedIsSealed /\ Alone

-----------------------------------------------------------------------------
(***************************************************************************)
(* Steps that write nothing.                                               *)
(***************************************************************************)
LEMMA GotoType ==
  ASSUME TypeOK, NEW c \in Calls, NEW pc \in Steps, Goto(c, pc)
  PROVE  calls' \in [Calls -> CallRecords]
<1>1. calls[c] \in CallRecords
  BY DEF TypeOK
<1>2. [calls[c] EXCEPT !.pc = pc, !.half = FALSE] \in CallRecords
  BY <1>1 DEF CallRecords
<1> QED BY <1>2 DEF TypeOK, Goto

LEMMA ReturnType ==
  ASSUME TypeOK, NEW c \in Calls, Return(c)
  PROVE  calls' \in [Calls -> CallRecords]
BY DEF TypeOK, Return, CallRecords, Quiet, Steps, Runs

LEMMA AnswerType ==
  ASSUME TypeOK, NEW c \in Calls, NEW record \in Records, Answer(c, record)
  PROVE  calls' \in [Calls -> CallRecords]
<1>1. calls[c] \in CallRecords /\ "readback" \in Steps
  BY DEF TypeOK, Steps
<1>2. [calls[c] EXCEPT !.memory = record, !.pc = "readback"] \in CallRecords
  BY <1>1 DEF CallRecords
<1> QED BY <1>2 DEF TypeOK, Answer

LEMMA HalfType ==
  ASSUME TypeOK, NEW c \in Calls, calls' = [calls EXCEPT ![c].half = TRUE]
  PROVE  calls' \in [Calls -> CallRecords]
<1>1. calls[c] \in CallRecords
  BY DEF TypeOK
<1>2. [calls[c] EXCEPT !.half = TRUE] \in CallRecords
  BY <1>1 DEF CallRecords
<1> QED BY <1>2 DEF TypeOK

LEMMA QuietType == Quiet \in CallRecords
BY DEF Quiet, CallRecords, Steps, Runs

LEMMA CreatedType ==
  ASSUME TypeOK, NEW c \in Calls, NEW pc \in Steps, NEW run \in Runs, NEW created \in BOOLEAN
  PROVE  /\ [calls[c] EXCEPT !.pc = pc, !.run = run, !.created = created] \in CallRecords
         /\ [calls[c] EXCEPT !.pc = pc, !.created = created] \in CallRecords
<1>1. calls[c] \in CallRecords
  BY DEF TypeOK
<1>2. [calls[c] EXCEPT !.pc = pc, !.run = run, !.created = created] \in CallRecords
  BY <1>1 DEF CallRecords
<1>3. [calls[c] EXCEPT !.pc = pc, !.created = created] \in CallRecords
  BY <1>1 DEF CallRecords
<1> QED BY <1>2, <1>3

\* A call that neither works nor writes disturbs only what is said of the step it goes to.
LEMMA Quietly ==
  ASSUME IInv, NEW c \in Calls,
         UNCHANGED <<claimed, files, author, procs, starts, rivals>>,
         \A d \in Calls \ {c} : calls'[d] = calls[d],
         calls[c].pc # "idle", calls'[c].pc \notin Working, ~calls'[c].half,
         calls'[c].pc \in {"row", "claim"} => calls'[c].run = "first",
         calls'[c].pc = "authorize" => Whole("session"),
         (calls'[c].pc = "authorize" \/ (calls'[c].pc = "session" /\ Exists("session"))) =>
           rivals \/ procs["first"] # "running"
  PROVE  Ownership' /\ Spawned' /\ Session' /\ Answers' /\ Alone'
<1>1. Ownership'
  BY DEF IInv, Ownership, Works, Working, Exists
<1>2. Spawned'
  BY DEF IInv, Spawned, HostCalledOnce, Exists, Working
<1>3. Session'
  BY DEF IInv, Session, Works, Working, Exists, Whole
<1>4. Answers'
  BY DEF IInv, Answers, EvidenceIsOneRun, Working, Exists, Whole
<1>5. Alone'
  BY DEF IInv, Alone, At, Working, Exists
<1> QED BY <1>1, <1>2, <1>3, <1>4, <1>5

LEMMA ReadRowKeeps ==
  ASSUME IInv, NEW c \in Calls, ReadRow(c)
  PROVE  IInv'
<1>1. calls' \in [Calls -> CallRecords]
  BY DEF IInv, ReadRow, TypeOK, CallRecords, At
<1>2. TypeOK'
  BY DEF IInv, ReadRow, TypeOK, CallRecords, At
<1>3. ObservedIsSealed'
  BY DEF IInv, ReadRow, TypeOK, shared, ObservedIsSealed, Whole
<1>4. Ownership' /\ Spawned' /\ Session' /\ Answers' /\ Alone'
  <2>1. UNCHANGED <<claimed, files, author, procs, starts, rivals>>
    BY DEF ReadRow, shared
  <2>2. \A d \in Calls \ {c} : calls'[d] = calls[d]
    BY DEF IInv, ReadRow, TypeOK
  <2>3. /\ calls[c].pc # "idle" /\ calls'[c].pc \notin Working /\ ~calls'[c].half
        /\ calls'[c].pc \in {"row", "claim"} => calls'[c].run = "first"
        /\ calls'[c].pc = "authorize" => Whole("session")
        /\ (calls'[c].pc = "authorize" \/ (calls'[c].pc = "session" /\ Exists("session"))) =>
             rivals \/ procs["first"] # "running"
    BY DEF IInv, ReadRow, TypeOK, At, Answers, Working, Ownership
  <2> QED BY <2>1, <2>2, <2>3, Quietly
<1> QED BY <1>2, <1>3, <1>4 DEF IInv

LEMMA ReadbackKeeps ==
  ASSUME IInv, NEW c \in Calls, Readback(c)
  PROVE  IInv'
<1>1. calls' \in [Calls -> CallRecords]
  BY DEF IInv, Readback, TypeOK, CallRecords, At
<1>2. TypeOK'
  BY DEF IInv, Readback, TypeOK, CallRecords, At
<1>3. ObservedIsSealed'
  BY DEF IInv, Readback, TypeOK, shared, Sealed, ObservedIsSealed, Whole
<1>4. Ownership' /\ Spawned' /\ Session' /\ Answers' /\ Alone'
  <2>1. UNCHANGED <<claimed, files, author, procs, starts, rivals>>
    BY DEF Readback, shared
  <2>2. \A d \in Calls \ {c} : calls'[d] = calls[d]
    BY DEF IInv, Readback, TypeOK
  <2>3. /\ calls[c].pc # "idle" /\ calls'[c].pc \notin Working /\ ~calls'[c].half
        /\ calls'[c].pc \in {"row", "claim"} => calls'[c].run = "first"
        /\ calls'[c].pc = "authorize" => Whole("session")
        /\ (calls'[c].pc = "authorize" \/ (calls'[c].pc = "session" /\ Exists("session"))) =>
             rivals \/ procs["first"] # "running"
    BY DEF IInv, Readback, TypeOK, At, Answers, Working
  <2> QED BY <2>1, <2>2, <2>3, Quietly
<1> QED BY <1>2, <1>3, <1>4 DEF IInv

LEMMA RecordObservationKeeps ==
  ASSUME IInv, NEW c \in Calls, RecordObservation(c)
  PROVE  IInv'
<1>1. calls' \in [Calls -> CallRecords]
  BY GotoType, ReturnType DEF IInv, RecordObservation, Steps
<1>2. TypeOK'
  BY <1>1 DEF IInv, RecordObservation, TypeOK, CallRecords
<1>3. ObservedIsSealed'
  BY NoneAssumption DEF IInv, RecordObservation, TypeOK, CallRecords, Goto, Return, Quiet, At,
     ObservedIsSealed, Whole
<1>4. Ownership' /\ Spawned' /\ Session' /\ Answers' /\ Alone'
  <2>1. UNCHANGED <<claimed, files, author, procs, starts, rivals>>
    BY DEF RecordObservation, shared
  <2>2. \A d \in Calls \ {c} : calls'[d] = calls[d]
    BY DEF IInv, RecordObservation, TypeOK, Goto, Return
  <2>3. /\ calls[c].pc # "idle" /\ calls'[c].pc \notin Working /\ ~calls'[c].half
        /\ calls'[c].pc \in {"row", "claim"} => calls'[c].run = "first"
        /\ calls'[c].pc = "authorize" => Whole("session")
        /\ (calls'[c].pc = "authorize" \/ (calls'[c].pc = "session" /\ Exists("session"))) =>
             rivals \/ procs["first"] # "running"
    BY DEF IInv, RecordObservation, TypeOK, CallRecords, Goto, Return, Quiet, At, Working
  <2> QED BY <2>1, <2>2, <2>3, Quietly
<1> QED BY <1>2, <1>3, <1>4 DEF IInv

LEMMA StageResultKeeps ==
  ASSUME IInv, NEW c \in Calls, StageResult(c)
  PROVE  IInv'
<1>1. calls' \in [Calls -> CallRecords]
  BY GotoType, ReturnType DEF IInv, StageResult, Steps
<1>2. TypeOK'
  BY <1>1 DEF IInv, StageResult, TypeOK
<1>3. ObservedIsSealed'
  BY NoneAssumption DEF IInv, StageResult, TypeOK, CallRecords, Goto, Return, Quiet,
     ObservedIsSealed, Whole
<1>4. Ownership' /\ Spawned' /\ Session' /\ Answers' /\ Alone'
  <2>1. UNCHANGED <<claimed, files, author, procs, starts, rivals>>
    BY DEF StageResult, shared
  <2>2. \A d \in Calls \ {c} : calls'[d] = calls[d]
    BY DEF IInv, StageResult, TypeOK, Goto, Return
  <2>3. /\ calls[c].pc # "idle" /\ calls'[c].pc \notin Working /\ ~calls'[c].half
        /\ calls'[c].pc \in {"row", "claim"} => calls'[c].run = "first"
        /\ calls'[c].pc = "authorize" => Whole("session")
        /\ (calls'[c].pc = "authorize" \/ (calls'[c].pc = "session" /\ Exists("session"))) =>
             rivals \/ procs["first"] # "running"
    BY DEF IInv, StageResult, TypeOK, CallRecords, Goto, Return, Quiet, At, Working
  <2> QED BY <2>1, <2>2, <2>3, Quietly
<1> QED BY <1>2, <1>3, <1>4 DEF IInv

LEMMA AcknowledgeResultKeeps ==
  ASSUME IInv, NEW c \in Calls, AcknowledgeResult(c)
  PROVE  IInv'
<1>1. calls' \in [Calls -> CallRecords]
  BY DEF IInv, AcknowledgeResult, TypeOK, CallRecords, Return, Quiet, Steps, Runs
<1>2. TypeOK'
  BY <1>1 DEF IInv, AcknowledgeResult, TypeOK
<1>3. ObservedIsSealed'
  BY NoneAssumption DEF IInv, AcknowledgeResult, Return, Quiet, ObservedIsSealed, Whole
<1>4. Ownership' /\ Spawned' /\ Session' /\ Answers' /\ Alone'
  <2>1. UNCHANGED <<claimed, files, author, procs, starts, rivals>>
    BY DEF AcknowledgeResult, shared
  <2>2. \A d \in Calls \ {c} : calls'[d] = calls[d]
    BY DEF AcknowledgeResult, Return
  <2>3. /\ calls[c].pc # "idle" /\ calls'[c].pc \notin Working /\ ~calls'[c].half
        /\ calls'[c].pc \in {"row", "claim"} => calls'[c].run = "first"
        /\ calls'[c].pc = "authorize" => Whole("session")
        /\ (calls'[c].pc = "authorize" \/ (calls'[c].pc = "session" /\ Exists("session"))) =>
             rivals \/ procs["first"] # "running"
    BY DEF IInv, AcknowledgeResult, Return, Quiet, At, Answers, Working
  <2> QED BY <2>1, <2>2, <2>3, Quietly
<1> QED BY <1>2, <1>3, <1>4 DEF IInv

LEMMA RecoverKeeps ==
  ASSUME IInv, NEW c \in Calls, Recover(c)
  PROVE  IInv'
<1>1. calls' \in [Calls -> CallRecords]
  BY GotoType, AnswerType DEF IInv, Recover, TypeOK, CallRecords, Return, Answers, Steps, Records,
     Runs
<1>2. TypeOK'
  BY <1>1 DEF IInv, Recover, TypeOK, shared
<1>3. ObservedIsSealed'
  BY DEF IInv, Recover, TypeOK, CallRecords, Goto, shared, Sealed, ObservedIsSealed, Whole
<1>4. Ownership' /\ Spawned' /\ Session' /\ Answers' /\ Alone'
  <2>1. UNCHANGED <<claimed, files, author, procs, starts, rivals>>
    BY DEF Recover, shared
  <2>2. \A d \in Calls \ {c} : calls'[d] = calls[d]
    BY DEF IInv, Recover, TypeOK, Goto, Answer
  <2>3. /\ calls[c].pc # "idle" /\ calls'[c].pc \notin Working /\ ~calls'[c].half
        /\ calls'[c].pc \in {"row", "claim"} => calls'[c].run = "first"
        /\ calls'[c].pc = "authorize" => Whole("session")
        /\ (calls'[c].pc = "authorize" \/ (calls'[c].pc = "session" /\ Exists("session"))) =>
             rivals \/ procs["first"] # "running"
    BY DEF IInv, Recover, TypeOK, CallRecords, Goto, At, Answer, Working
  <2> QED BY <2>1, <2>2, <2>3, Quietly
<1> QED BY <1>2, <1>3, <1>4 DEF IInv

LEMMA ExamineEvidenceKeeps ==
  ASSUME IInv, NEW c \in Calls, ExamineEvidence(c)
  PROVE  IInv'
<1>1. calls' \in [Calls -> CallRecords]
  BY GotoType, AnswerType DEF IInv, ExamineEvidence, Steps, Records
<1>2. TypeOK'
  BY <1>1 DEF IInv, ExamineEvidence, TypeOK, shared
<1>3. ObservedIsSealed'
  BY DEF IInv, ExamineEvidence, TypeOK, CallRecords, Goto, shared, Answer, Sealed,
     ObservedIsSealed, Whole
<1>4. Ownership' /\ Spawned' /\ Session' /\ Answers' /\ Alone'
  <2>1. UNCHANGED <<claimed, files, author, procs, starts, rivals>>
    BY DEF ExamineEvidence, shared
  <2>2. \A d \in Calls \ {c} : calls'[d] = calls[d]
    BY DEF IInv, ExamineEvidence, TypeOK, Goto, Answer
  <2>3. /\ calls[c].pc # "idle" /\ calls'[c].pc \notin Working /\ ~calls'[c].half
        /\ calls'[c].pc \in {"row", "claim"} => calls'[c].run = "first"
        /\ calls'[c].pc = "authorize" => Whole("session")
        /\ (calls'[c].pc = "authorize" \/ (calls'[c].pc = "session" /\ Exists("session"))) =>
             rivals \/ procs["first"] # "running"
    BY DEF IInv, ExamineEvidence, TypeOK, CallRecords, Goto, At, Answer, Alive, ProcessFile,
       Working, Session, Runs
  <2> QED BY <2>1, <2>2, <2>3, Quietly
<1> QED BY <1>2, <1>3, <1>4 DEF IInv

LEMMA WaitForProcessKeeps ==
  ASSUME IInv, NEW c \in Calls, WaitForProcess(c)
  PROVE  IInv'
<1>1. calls' \in [Calls -> CallRecords]
  BY GotoType, AnswerType DEF IInv, WaitForProcess, Steps, Records
<1>2. TypeOK'
  BY <1>1 DEF IInv, WaitForProcess, TypeOK, shared
<1>3. ObservedIsSealed'
  BY DEF IInv, WaitForProcess, TypeOK, CallRecords, Goto, shared, Answer, Sealed,
     ObservedIsSealed, Whole
<1>4. Ownership' /\ Spawned' /\ Session' /\ Answers' /\ Alone'
  <2>1. UNCHANGED <<claimed, files, author, procs, starts, rivals>>
    BY DEF WaitForProcess, shared
  <2>2. \A d \in Calls \ {c} : calls'[d] = calls[d]
    BY DEF IInv, WaitForProcess, TypeOK, Goto, Answer
  <2>3. /\ calls[c].pc # "idle" /\ calls'[c].pc \notin Working /\ ~calls'[c].half
        /\ calls'[c].pc \in {"row", "claim"} => calls'[c].run = "first"
        /\ calls'[c].pc = "authorize" => Whole("session")
        /\ (calls'[c].pc = "authorize" \/ (calls'[c].pc = "session" /\ Exists("session"))) =>
             rivals \/ procs["first"] # "running"
    BY DEF IInv, WaitForProcess, TypeOK, CallRecords, Goto, At, Answer, Alive, ProcessFile,
       Working, Session, Runs
  <2> QED BY <2>1, <2>2, <2>3, Quietly
<1> QED BY <1>2, <1>3, <1>4 DEF IInv

LEMMA ExamineSessionKeeps ==
  ASSUME IInv, NEW c \in Calls, ExamineSession(c)
  PROVE  IInv'
<1>1. calls' \in [Calls -> CallRecords]
  BY GotoType, AnswerType DEF IInv, ExamineSession, Steps, Records
<1>2. TypeOK'
  BY <1>1 DEF IInv, ExamineSession, TypeOK, shared
<1>3. ObservedIsSealed'
  BY DEF IInv, ExamineSession, TypeOK, CallRecords, Goto, shared, Answer, ObservedIsSealed,
     Whole
<1>4. Ownership' /\ Spawned' /\ Session' /\ Answers' /\ Alone'
  <2>1. UNCHANGED <<claimed, files, author, procs, starts, rivals>>
    BY DEF ExamineSession, shared
  <2>2. \A d \in Calls \ {c} : calls'[d] = calls[d]
    BY DEF IInv, ExamineSession, TypeOK, Goto, Answer
  <2>3. /\ calls[c].pc # "idle" /\ calls'[c].pc \notin Working /\ ~calls'[c].half
        /\ calls'[c].pc \in {"row", "claim"} => calls'[c].run = "first"
        /\ calls'[c].pc = "authorize" => Whole("session")
        /\ (calls'[c].pc = "authorize" \/ (calls'[c].pc = "session" /\ Exists("session"))) =>
             rivals \/ procs["first"] # "running"
    BY DEF IInv, ExamineSession, TypeOK, CallRecords, Goto, At, Answer, Working, Alone
  <2> QED BY <2>1, <2>2, <2>3, Quietly
<1> QED BY <1>2, <1>3, <1>4 DEF IInv

-----------------------------------------------------------------------------
(***************************************************************************)
(* Steps that claim, spawn or write.                                       *)
(***************************************************************************)
LEMMA ClaimAttemptKeeps ==
  ASSUME IInv, NEW c \in Calls, ClaimAttempt(c)
  PROVE  IInv'
<1> USE DEF IInv, ClaimAttempt, shared, At, Row
<1>1. calls' \in [Calls -> CallRecords]
  BY DEF TypeOK, CallRecords, Steps
<1>2. TypeOK'
  <2>1. files' \in [Files -> {"absent", "torn", "whole"}]
    BY DEF TypeOK, Files
  <2>2. procs' \in [Runs -> {"none", "running", "exited", "reused"}] /\ starts' \in [Runs -> 0..2]
    BY DEF TypeOK, Runs, Spawned, HostCalledOnce
  <2>3. author' \in [{"result", "attempt"} -> Runs \cup {None}]
    BY DEF TypeOK, CallRecords
  <2> QED BY <1>1, <2>1, <2>2, <2>3 DEF TypeOK
<1>3. Ownership'
  BY DEF TypeOK, CallRecords
<1>4. Spawned'
  BY DEF TypeOK, Exists, Ownership, Spawned, HostCalledOnce
<1>5. Session'
  BY DEF TypeOK, Exists, Whole, Session, Works, Working
<1>6. Answers'
  BY DEF TypeOK, Exists, Whole, Answers, EvidenceIsOneRun
<1>7. ObservedIsSealed'
  BY DEF TypeOK, Whole, ObservedIsSealed
<1>8. Alone'
  BY DEF TypeOK, Exists, Alone
<1> QED BY <1>2, <1>3, <1>4, <1>5, <1>6, <1>7, <1>8

LEMMA MakeDirectoryKeeps ==
  ASSUME IInv, NEW c \in Calls, MakeDirectory(c)
  PROVE  IInv'
<1> USE DEF IInv, MakeDirectory, shared, At
<1>1. calls' \in [Calls -> CallRecords]
  <2>1. (c \in Startups) \in BOOLEAN
    OBVIOUS
  <2>2. [calls[c] EXCEPT !.pc = "intent", !.created = (c \in Startups)] \in CallRecords
    BY <2>1, CreatedType DEF Steps, Runs
  <2> QED BY <2>2 DEF TypeOK
<1>2. TypeOK'
  <2>1. files' \in [Files -> {"absent", "torn", "whole"}]
    BY DEF TypeOK, Files
  <2>2. procs' \in [Runs -> {"none", "running", "exited", "reused"}] /\ starts' \in [Runs -> 0..2]
    BY DEF TypeOK, Runs, Spawned, HostCalledOnce
  <2>3. author' \in [{"result", "attempt"} -> Runs \cup {None}]
    BY DEF TypeOK, CallRecords
  <2> QED BY <1>1, <2>1, <2>2, <2>3 DEF TypeOK
<1>3. Ownership'
  BY DEF TypeOK, Exists, Ownership, Works, Working
<1>4. Spawned'
  BY DEF TypeOK, Exists, Spawned, HostCalledOnce
<1>5. Session'
  BY DEF TypeOK, Exists, Whole, Session, Works, Working
<1>6. Answers'
  BY DEF TypeOK, Exists, Whole, Answers, EvidenceIsOneRun
<1>7. ObservedIsSealed'
  BY DEF TypeOK, Whole, ObservedIsSealed
<1>8. Alone'
  BY DEF TypeOK, Exists, Alone
<1> QED BY <1>2, <1>3, <1>4, <1>5, <1>6, <1>7, <1>8

LEMMA WriteIntentKeeps ==
  ASSUME IInv, NEW c \in Calls, WriteIntent(c)
  PROVE  IInv'
<1> USE DEF IInv, WriteIntent, shared, At
<1>1. calls' \in [Calls -> CallRecords]
  BY GotoType DEF Steps
<1>2. TypeOK'
  <2>1. files' \in [Files -> {"absent", "torn", "whole"}]
    BY DEF TypeOK, Files
  <2>2. procs' \in [Runs -> {"none", "running", "exited", "reused"}] /\ starts' \in [Runs -> 0..2]
    BY DEF TypeOK, Runs, Spawned, HostCalledOnce
  <2>3. author' \in [{"result", "attempt"} -> Runs \cup {None}]
    BY DEF TypeOK, CallRecords, Goto
  <2> QED BY <1>1, <2>1, <2>2, <2>3 DEF TypeOK
<1>3. Ownership'
  BY DEF TypeOK, Goto, Exists, Ownership, Works, Working
<1>4. Spawned'
  BY DEF TypeOK, Goto, Exists, Spawned, HostCalledOnce
<1>5. Session'
  BY DEF TypeOK, Goto, Exists, Whole, Session, Works, Working
<1>6. Answers'
  BY DEF TypeOK, Goto, Exists, Whole, Answers, EvidenceIsOneRun
<1>7. ObservedIsSealed'
  BY DEF TypeOK, Goto, Whole, ObservedIsSealed
<1>8. Alone'
  BY DEF TypeOK, Goto, Exists, Alone
<1> QED BY <1>2, <1>3, <1>4, <1>5, <1>6, <1>7, <1>8

\* A call that goes on with its run, or gives it up, still owns it.
LEMMA StillOwned ==
  ASSUME IInv, NEW c \in Calls, calls[c].pc \in Working, UNCHANGED claimed,
         \A d \in Calls \ {c} : calls'[d] = calls[d], calls'[c].run = calls[c].run,
         calls'[c].pc \notin {"row", "claim"}, Exists("resume") => Exists("resume")'
  PROVE  Ownership'
<1>1. ASSUME NEW d \in Calls, NEW run \in Runs, Works(d, run)' PROVE Works(d, run)
  <2>1. CASE d = c
    BY <1>1, <2>1 DEF Works
  <2>2. CASE d # c
    BY <1>1, <2>2 DEF Works
  <2> QED BY <2>1, <2>2
<1>2. \A d \in Calls : calls'[d].pc \in {"row", "claim"} => calls'[d] = calls[d]
  OBVIOUS
<1> QED BY <1>1, <1>2 DEF IInv, Ownership, Runs

\* A call that does not write the session, and goes on only with what it has.
LEMMA SessionKept ==
  ASSUME IInv, NEW c \in Calls, calls[c].pc \in Working \ {"watch", "capture"},
         UNCHANGED claimed, \A d \in Calls \ {c} : calls'[d] = calls[d],
         calls'[c].run = calls[c].run, calls'[c].pc # "authorize",
         files'["session"] = files["session"], Exists("resume")' <=> Exists("resume"),
         Whole("process") => Whole("process")',
         calls'[c].pc \in {"watch", "capture", "result", "seal"} /\ calls[c].run = "first" =>
           Whole("process")',
         calls'[c].pc \in {"make", "intent", "spawn", "bind"} =>
           calls[c].pc \in {"make", "intent", "spawn", "bind"},
         calls'[c].pc \in {"result", "seal"} => Exists("session")
  PROVE  Session'
<1>1. /\ Exists("session")' <=> Exists("session")
      /\ Whole("session")' <=> Whole("session")
  BY DEF Exists, Whole
<1>2. ASSUME NEW d \in Calls, Works(d, "first")'
      PROVE  Works(d, "first") /\ (d # c => calls'[d] = calls[d])
  <2>1. CASE d = c
    BY <1>2, <2>1 DEF Works
  <2>2. CASE d # c
    BY <1>2, <2>2 DEF Works
  <2> QED BY <2>1, <2>2
<1>3. (Exists("session") => claimed /\ Whole("process"))' /\ (Exists("resume") => Whole("session"))'
  BY <1>1 DEF IInv, Session
<1>4. ASSUME NEW d \in Calls
      PROVE  /\ calls'[d].pc = "authorize" => Whole("session")'
             /\ calls'[d].pc \in {"result", "seal"} => Exists("session")'
  <2>1. d # c => calls'[d] = calls[d]
    OBVIOUS
  <2> QED BY <1>1, <2>1 DEF IInv, Session
<1>5. ASSUME NEW d \in Calls, Works(d, "first")', files'["session"] = "torn"
      PROVE  calls'[d].half /\ calls'[d].pc \in {"watch", "capture"}
  <2>1. calls[d].half /\ calls[d].pc \in {"watch", "capture"}
    BY <1>2, <1>5 DEF IInv, Session
  <2> QED BY <1>2, <1>5, <2>1
<1>6. ASSUME NEW d \in Calls, Works(d, "first")'
      PROVE  /\ calls'[d].pc \in {"make", "intent", "spawn", "bind"} => ~Exists("session")'
             /\ calls'[d].pc \in {"watch", "capture", "result", "seal"} => Whole("process")'
  <2>1. CASE d = c
    BY <1>1, <1>2, <1>6, <2>1 DEF IInv, Session, Works
  <2>2. CASE d # c
    BY <1>1, <1>2, <1>6, <2>2 DEF IInv, Session
  <2> QED BY <2>1, <2>2
<1> QED BY <1>3, <1>4, <1>5, <1>6 DEF Session

LEMMA SpawnKeeps ==
  ASSUME IInv, NEW c \in Calls, Spawn(c)
  PROVE  IInv'
<1> USE DEF IInv, Spawn, shared, At
<1>1. calls' \in [Calls -> CallRecords]
  BY GotoType DEF Steps
<1>2. TypeOK'
  <2>1. files' \in [Files -> {"absent", "torn", "whole"}]
    BY DEF TypeOK, Files
  <2>2. procs' \in [Runs -> {"none", "running", "exited", "reused"}] /\ starts' \in [Runs -> 0..2]
    BY DEF TypeOK, Runs, Spawned, HostCalledOnce
  <2>3. author' \in [{"result", "attempt"} -> Runs \cup {None}]
    BY DEF TypeOK, CallRecords, Goto
  <2> QED BY <1>1, <2>1, <2>2, <2>3 DEF TypeOK
<1>3. Ownership'
  <2>1. calls[c].pc \in Working /\ UNCHANGED claimed
    BY DEF Working
  <2>2. /\ \A d \in Calls \ {c} : calls'[d] = calls[d]
        /\ calls'[c].run = calls[c].run /\ calls'[c].pc \notin {"row", "claim"}
    BY DEF TypeOK, CallRecords, Goto
  <2>3. Exists("resume") => Exists("resume")'
    BY DEF TypeOK, Files, Exists, Goto
  <2> QED BY <2>1, <2>2, <2>3, StillOwned
<1>4. Spawned'
  BY DEF TypeOK, CallRecords, Goto, Exists, Runs, Ownership, Spawned, HostCalledOnce, Works,
     Working
<1>5. Session'
  BY SMTT(30) DEF TypeOK, CallRecords, Goto, Exists, Whole, Session, Works, Working
<1>6. Answers'
  <2>1. \A d \in Calls : calls'[d].half => d # c /\ calls[d].half
    BY DEF TypeOK, CallRecords, Goto
  <2>2. \A d \in Calls : calls'[d].pc \in {"result", "seal"} => calls'[d] = calls[d]
    BY DEF TypeOK, CallRecords, Goto
  <2>3. \A d \in Calls \ {c} : calls'[d] = calls[d]
    BY DEF TypeOK, Goto
  <2> QED BY <2>1, <2>2, <2>3 DEF Answers, EvidenceIsOneRun, Exists, Whole
<1>7. ObservedIsSealed'
  BY DEF TypeOK, CallRecords, Files, Goto, Whole, Runs, ObservedIsSealed
<1>8. Alone'
  BY DEF TypeOK, CallRecords, Goto, Exists, Whole, Runs, Ownership, Session, Spawned, Alone,
     Works, Working
<1> QED BY <1>2, <1>3, <1>4, <1>5, <1>6, <1>7, <1>8

LEMMA BindProcessKeeps ==
  ASSUME IInv, NEW c \in Calls, BindProcess(c)
  PROVE  IInv'
<1> USE DEF IInv, BindProcess, shared, At, WriteOnce, Terminated, ProcessFile
<1>1. calls' \in [Calls -> CallRecords]
  BY GotoType, HalfType DEF Steps
<1>2. TypeOK'
  <2>1. files' \in [Files -> {"absent", "torn", "whole"}]
    BY DEF TypeOK, Files
  <2>2. procs' \in [Runs -> {"none", "running", "exited", "reused"}] /\ starts' \in [Runs -> 0..2]
    BY DEF TypeOK, Runs, Spawned, HostCalledOnce
  <2>3. author' \in [{"result", "attempt"} -> Runs \cup {None}]
    BY DEF TypeOK, CallRecords, Goto
  <2> QED BY <1>1, <2>1, <2>2, <2>3 DEF TypeOK
<1>3. Ownership'
  <2>1. calls[c].pc \in Working /\ UNCHANGED claimed
    BY DEF Working
  <2>2. /\ \A d \in Calls \ {c} : calls'[d] = calls[d]
        /\ calls'[c].run = calls[c].run /\ calls'[c].pc \notin {"row", "claim"}
    BY DEF TypeOK, CallRecords, Goto
  <2>3. Exists("resume") => Exists("resume")'
    BY DEF TypeOK, Files, Exists, Goto, Runs, CallRecords
  <2> QED BY <2>1, <2>2, <2>3, StillOwned
<1>4. Spawned'
  BY DEF TypeOK, CallRecords, Files, Goto, Exists, Ownership, Spawned, HostCalledOnce
<1>5. Session'
  <2>1. calls[c].pc \in Working \ {"watch", "capture"} /\ UNCHANGED claimed
    BY DEF Working
  <2>2. /\ \A d \in Calls \ {c} : calls'[d] = calls[d]
        /\ calls'[c].run = calls[c].run /\ calls'[c].pc \in {"bind", "watch", "fail"}
    BY DEF TypeOK, CallRecords, Goto
  <2>3. files'["session"] = files["session"] /\ (Exists("resume")' <=> Exists("resume"))
    BY DEF TypeOK, Files, Exists, Goto, Runs, CallRecords
  <2>4. Whole("process") => Whole("process")'
    BY DEF TypeOK, Files, Exists, Whole, Goto, Runs, CallRecords
  <2>5. calls'[c].pc = "watch" /\ calls[c].run = "first" => Whole("process")'
    BY DEF TypeOK, Files, Exists, Whole, Goto, Runs, CallRecords
  <2> QED BY <2>1, <2>2, <2>3, <2>4, <2>5, SessionKept
<1>6. Answers'
  BY DEF TypeOK, CallRecords, Files, Goto, Exists, Whole, Runs, Ownership, Session, Answers,
     EvidenceIsOneRun, Working
<1>7. ObservedIsSealed'
  BY DEF TypeOK, CallRecords, Files, Goto, Whole, ObservedIsSealed
<1>8. Alone'
  <2>1. \A d \in Calls \ {c} : calls'[d] = calls[d]
    BY DEF TypeOK, Goto
  <2>2. calls'[c].pc \in {"bind", "watch", "fail"}
    BY DEF TypeOK, CallRecords, Goto
  <2>3. /\ Exists("resume")' <=> Exists("resume")
        /\ Exists("session")' <=> Exists("session")
    BY DEF TypeOK, Files, Goto, Exists, Runs, CallRecords
  <2>4. \A run \in Runs : procs'[run] = "running" => procs[run] = "running"
    BY DEF TypeOK, Runs, CallRecords
  <2> QED BY <2>1, <2>2, <2>3, <2>4 DEF Alone, Runs
<1> QED BY <1>2, <1>3, <1>4, <1>5, <1>6, <1>7, <1>8

LEMMA SeeSessionKeeps ==
  ASSUME IInv, NEW c \in Calls, SeeSession(c)
  PROVE  IInv'
<1> USE DEF IInv, SeeSession, shared, At, WriteOnce
<1>1. calls' \in [Calls -> CallRecords]
  BY GotoType, HalfType DEF Steps
<1>2. TypeOK'
  <2>1. files' \in [Files -> {"absent", "torn", "whole"}]
    BY DEF TypeOK, Files
  <2>2. procs' \in [Runs -> {"none", "running", "exited", "reused"}] /\ starts' \in [Runs -> 0..2]
    BY DEF TypeOK, Runs, Spawned, HostCalledOnce
  <2>3. author' \in [{"result", "attempt"} -> Runs \cup {None}]
    BY DEF TypeOK, CallRecords, Goto
  <2> QED BY <1>1, <2>1, <2>2, <2>3 DEF TypeOK
<1>3. Ownership'
  BY DEF TypeOK, CallRecords, Files, Goto, Exists, Runs, Ownership, Works, Working
<1>4. Spawned'
  <2>1. /\ \A d \in Calls \ {c} : calls'[d] = calls[d]
        /\ calls'[c].pc \in {"watch", "fail"}
    BY DEF TypeOK, CallRecords, Goto
  <2>2. Exists("resume")' <=> Exists("resume")
    BY DEF TypeOK, Files, Exists
  <2>3. \A d \in Calls : calls'[d].pc \in {"make", "intent", "spawn"} => calls'[d] = calls[d]
    BY <2>1
  <2> QED BY <2>2, <2>3 DEF Spawned, HostCalledOnce
<1>5. Session'
  BY SMTT(30) DEF TypeOK, CallRecords, Files, Goto, Exists, Whole, Runs, Ownership, Session,
     Works, Working
<1>6. Answers'
  <2>1. EvidenceIsOneRun'
    BY DEF TypeOK, Files, Exists, Whole, Answers, EvidenceIsOneRun
  <2>2. \A d \in Calls \ {c} : calls'[d] = calls[d]
    BY DEF TypeOK, Goto
  <2>3. calls'[c].pc = "watch"
    BY DEF TypeOK, CallRecords, Goto
  <2> QED BY <2>1, <2>2, <2>3 DEF Answers, TypeOK, Files, Exists, Whole
<1>7. ObservedIsSealed'
  BY SMTT(30) DEF TypeOK, CallRecords, Files, Goto, Whole, ObservedIsSealed
<1>8. Alone'
  <2>1. /\ \A d \in Calls \ {c} : calls'[d] = calls[d]
        /\ calls'[c].pc \in {"watch", "fail"}
    BY DEF TypeOK, CallRecords, Goto
  <2>2. Exists("resume")' <=> Exists("resume")
    BY DEF TypeOK, Files, Exists
  <2>3. ~rivals => \A d \in Calls : d # c => calls[d].pc = "idle"
    BY DEF Alone
  <2> QED BY <2>1, <2>2, <2>3 DEF Alone
<1> QED BY <1>2, <1>3, <1>4, <1>5, <1>6, <1>7, <1>8

LEMMA FinishSessionKeeps ==
  ASSUME IInv, NEW c \in Calls, FinishSession(c)
  PROVE  IInv'
<1> USE DEF IInv, FinishSession, shared, At, WriteOnce
<1>1. calls' \in [Calls -> CallRecords]
  BY GotoType, HalfType DEF Steps
<1>2. TypeOK'
  <2>1. files' \in [Files -> {"absent", "torn", "whole"}]
    BY DEF TypeOK, Files
  <2>2. procs' \in [Runs -> {"none", "running", "exited", "reused"}] /\ starts' \in [Runs -> 0..2]
    BY DEF TypeOK, Runs, Spawned, HostCalledOnce
  <2>3. author' \in [{"result", "attempt"} -> Runs \cup {None}]
    BY DEF TypeOK, CallRecords, Goto
  <2> QED BY <1>1, <2>1, <2>2, <2>3 DEF TypeOK
<1>3. Ownership'
  BY DEF TypeOK, CallRecords, Goto
<1>4. Spawned'
  BY DEF TypeOK, CallRecords, Goto
<1>5. Session'
  BY DEF TypeOK, CallRecords, Goto
<1>6. Answers'
  BY DEF TypeOK, CallRecords, Goto
<1>7. ObservedIsSealed'
  BY DEF TypeOK, CallRecords, Goto
<1>8. Alone'
  BY DEF TypeOK, CallRecords, Goto
<1> QED BY <1>2, <1>3, <1>4, <1>5, <1>6, <1>7, <1>8

LEMMA TimeOutKeeps ==
  ASSUME IInv, NEW c \in Calls, TimeOut(c)
  PROVE  IInv'
<1> USE DEF IInv, TimeOut, shared, At, Terminated
<1>1. calls' \in [Calls -> CallRecords]
  BY GotoType DEF Steps
<1>2. TypeOK'
  <2>1. files' \in [Files -> {"absent", "torn", "whole"}]
    BY DEF TypeOK, Files
  <2>2. procs' \in [Runs -> {"none", "running", "exited", "reused"}] /\ starts' \in [Runs -> 0..2]
    BY DEF TypeOK, Runs, Spawned, HostCalledOnce
  <2>3. author' \in [{"result", "attempt"} -> Runs \cup {None}]
    BY DEF TypeOK, CallRecords, Goto
  <2> QED BY <1>1, <2>1, <2>2, <2>3 DEF TypeOK
<1>3. Ownership'
  BY DEF TypeOK, Goto, Exists, Ownership, Works, Working
<1>4. Spawned'
  BY DEF TypeOK, Goto, Exists, Spawned, HostCalledOnce
<1>5. Session'
  BY DEF TypeOK, Goto, Exists, Whole, Session, Works, Working
<1>6. Answers'
  BY DEF TypeOK, Goto, Exists, Whole, Answers, EvidenceIsOneRun
<1>7. ObservedIsSealed'
  BY DEF TypeOK, Goto, Whole, ObservedIsSealed
<1>8. Alone'
  BY DEF TypeOK, Goto, Exists, Alone
<1> QED BY <1>2, <1>3, <1>4, <1>5, <1>6, <1>7, <1>8

LEMMA CollectKeeps ==
  ASSUME IInv, NEW c \in Calls, Collect(c)
  PROVE  IInv'
<1> USE DEF IInv, Collect, shared, At
<1>1. calls' \in [Calls -> CallRecords]
  BY GotoType DEF Steps
<1>2. TypeOK'
  <2>1. files' \in [Files -> {"absent", "torn", "whole"}]
    BY DEF TypeOK, Files
  <2>2. procs' \in [Runs -> {"none", "running", "exited", "reused"}] /\ starts' \in [Runs -> 0..2]
    BY DEF TypeOK, Runs, Spawned, HostCalledOnce
  <2>3. author' \in [{"result", "attempt"} -> Runs \cup {None}]
    BY DEF TypeOK, CallRecords, Goto
  <2> QED BY <1>1, <2>1, <2>2, <2>3 DEF TypeOK
<1>3. Ownership'
  BY SMTT(30) DEF TypeOK, CallRecords, Goto, Exists, Ownership, Works, Working
<1>4. Spawned'
  BY DEF TypeOK, CallRecords, Goto, Exists, Spawned, HostCalledOnce
<1>5. Session'
  BY SMTT(30) DEF TypeOK, CallRecords, Goto, Exists, Whole, Session, Works, Working
<1>6. Answers'
  BY SMTT(30) DEF TypeOK, CallRecords, Goto, Exists, Whole, Answers, EvidenceIsOneRun
<1>7. ObservedIsSealed'
  BY SMTT(30) DEF TypeOK, CallRecords, Goto, Whole, ObservedIsSealed
<1>8. Alone'
  BY DEF TypeOK, CallRecords, Goto, Exists, Runs, Alone
<1> QED BY <1>2, <1>3, <1>4, <1>5, <1>6, <1>7, <1>8

LEMMA CaptureSessionKeeps ==
  ASSUME IInv, NEW c \in Calls, CaptureSession(c)
  PROVE  IInv'
<1> USE DEF IInv, CaptureSession, shared, At, WriteOnce
<1>1. calls' \in [Calls -> CallRecords]
  BY GotoType, HalfType DEF Steps
<1>2. TypeOK'
  <2>1. files' \in [Files -> {"absent", "torn", "whole"}]
    BY DEF TypeOK, Files
  <2>2. procs' \in [Runs -> {"none", "running", "exited", "reused"}] /\ starts' \in [Runs -> 0..2]
    BY DEF TypeOK, Runs, Spawned, HostCalledOnce
  <2>3. author' \in [{"result", "attempt"} -> Runs \cup {None}]
    BY DEF TypeOK, CallRecords, Goto
  <2> QED BY <1>1, <2>1, <2>2, <2>3 DEF TypeOK
<1>3. Ownership'
  <2>1. calls[c].pc \in Working /\ UNCHANGED claimed
    BY DEF Working
  <2>2. /\ \A d \in Calls \ {c} : calls'[d] = calls[d]
        /\ calls'[c].run = calls[c].run /\ calls'[c].pc \notin {"row", "claim"}
    BY DEF TypeOK, CallRecords, Goto
  <2>3. Exists("resume") => Exists("resume")'
    BY DEF TypeOK, Files, Exists, Goto
  <2> QED BY <2>1, <2>2, <2>3, StillOwned
<1>4. Spawned'
  BY DEF TypeOK, CallRecords, Files, Goto, Exists, Spawned, HostCalledOnce
<1>5. Session'
  BY DEF TypeOK, CallRecords, Files, Goto, Exists, Whole, Runs, Ownership, Session, Answers,
     Works, Working
<1>6. Answers'
  BY SMTT(30) DEF TypeOK, CallRecords, Files, Goto, Exists, Whole, Runs, Answers,
     EvidenceIsOneRun
<1>7. ObservedIsSealed'
  BY SMTT(30) DEF TypeOK, CallRecords, Files, Goto, Whole, ObservedIsSealed
<1>8. Alone'
  BY DEF TypeOK, CallRecords, Files, Goto, Exists, Runs, Ownership, Alone
<1> QED BY <1>2, <1>3, <1>4, <1>5, <1>6, <1>7, <1>8

LEMMA WriteResultKeeps ==
  ASSUME IInv, NEW c \in Calls, WriteResult(c)
  PROVE  IInv'
<1> USE DEF IInv, WriteResult, shared, At, WriteOnce, Signed
<1>1. calls' \in [Calls -> CallRecords]
  BY GotoType, HalfType DEF Steps
<1>2. TypeOK'
  <2>1. files' \in [Files -> {"absent", "torn", "whole"}]
    BY DEF TypeOK, Files
  <2>2. procs' \in [Runs -> {"none", "running", "exited", "reused"}] /\ starts' \in [Runs -> 0..2]
    BY DEF TypeOK, Runs, Spawned, HostCalledOnce
  <2>3. author' \in [{"result", "attempt"} -> Runs \cup {None}]
    BY DEF TypeOK, CallRecords, Goto
  <2> QED BY <1>1, <2>1, <2>2, <2>3 DEF TypeOK
<1>3. Ownership'
  <2>1. calls[c].pc \in Working /\ UNCHANGED claimed
    BY DEF Working
  <2>2. /\ \A d \in Calls \ {c} : calls'[d] = calls[d]
        /\ calls'[c].run = calls[c].run /\ calls'[c].pc \notin {"row", "claim"}
    BY DEF TypeOK, CallRecords, Goto
  <2>3. Exists("resume") => Exists("resume")'
    BY DEF TypeOK, Files, Exists, Goto
  <2> QED BY <2>1, <2>2, <2>3, StillOwned
<1>4. Spawned'
  BY DEF TypeOK, CallRecords, Files, Goto, Exists, Spawned, HostCalledOnce
<1>5. Session'
  BY DEF TypeOK, CallRecords, Files, Goto, Exists, Whole, Runs, Session, Answers, Works, Working
<1>6. Answers'
  BY SMTT(30) DEF TypeOK, CallRecords, Files, Goto, Exists, Whole, Answers, EvidenceIsOneRun
<1>7. ObservedIsSealed'
  BY DEF TypeOK, CallRecords, Files, Goto, Whole, ObservedIsSealed, Answers
<1>8. Alone'
  BY SMTT(30) DEF TypeOK, CallRecords, Files, Goto, Exists, Alone
<1> QED BY <1>2, <1>3, <1>4, <1>5, <1>6, <1>7, <1>8

LEMMA SealKeeps ==
  ASSUME IInv, NEW c \in Calls, Seal(c)
  PROVE  IInv'
<1> USE DEF IInv, Seal, shared, At, WriteOnce, Signed
<1>1. calls' \in [Calls -> CallRecords]
  BY GotoType, HalfType DEF Steps, TypeOK, CallRecords, Records
<1>2. TypeOK'
  <2>1. files' \in [Files -> {"absent", "torn", "whole"}]
    BY DEF TypeOK, Files
  <2>2. procs' \in [Runs -> {"none", "running", "exited", "reused"}] /\ starts' \in [Runs -> 0..2]
    BY DEF TypeOK, Runs, Spawned, HostCalledOnce
  <2>3. author' \in [{"result", "attempt"} -> Runs \cup {None}]
    BY DEF TypeOK, CallRecords, Goto
  <2> QED BY <1>1, <2>1, <2>2, <2>3 DEF TypeOK
<1>3. Ownership'
  <2>1. calls[c].pc \in Working /\ UNCHANGED claimed
    BY DEF Working
  <2>2. /\ \A d \in Calls \ {c} : calls'[d] = calls[d]
        /\ calls'[c].run = calls[c].run /\ calls'[c].pc \notin {"row", "claim"}
    BY DEF TypeOK, CallRecords, Goto
  <2>3. Exists("resume") => Exists("resume")'
    BY DEF TypeOK, Files, Exists, Goto
  <2> QED BY <2>1, <2>2, <2>3, StillOwned
<1>4. Spawned'
  BY SMTT(30) DEF TypeOK, CallRecords, Files, Goto, Exists, Spawned, HostCalledOnce
<1>5. Session'
  <2>1. calls[c].pc \in Working \ {"watch", "capture"} /\ UNCHANGED claimed
    BY DEF Working
  <2>2. /\ \A d \in Calls \ {c} : calls'[d] = calls[d]
        /\ calls'[c].run = calls[c].run /\ calls'[c].pc \in {"seal", "readback", "fail"}
    BY DEF TypeOK, CallRecords, Goto
  <2>3. /\ files'["session"] = files["session"] /\ files'["process"] = files["process"]
        /\ files'["resume"] = files["resume"]
    BY DEF TypeOK, Files, Exists
  <2>4. Exists("session") /\ (calls[c].run = "first" => Whole("process"))
    BY DEF Session, Works, Working
  <2> QED BY <2>1, <2>2, <2>3, <2>4, SessionKept DEF Exists, Whole
<1>6. Answers'
  BY SMTT(30) DEF TypeOK, CallRecords, Files, Goto, Exists, Whole, Answers, EvidenceIsOneRun
<1>7. ObservedIsSealed'
  BY DEF TypeOK, CallRecords, Goto, Exists, Whole, Runs, ObservedIsSealed
<1>8. Alone'
  <2>1. /\ \A d \in Calls \ {c} : calls'[d] = calls[d]
        /\ calls'[c].pc \in {"seal", "readback", "fail"}
    BY DEF TypeOK, CallRecords, Goto
  <2>2. (Exists("resume")' <=> Exists("resume")) /\ (Exists("session")' <=> Exists("session"))
    BY DEF TypeOK, Files, Exists
  <2>3. ~rivals => \A d \in Calls : d # c => calls[d].pc = "idle"
    BY DEF Alone
  <2> QED BY <2>1, <2>2, <2>3 DEF Alone
<1> QED BY <1>2, <1>3, <1>4, <1>5, <1>6, <1>7, <1>8

LEMMA LookForFailureKeeps ==
  ASSUME IInv, NEW c \in Calls, LookForFailure(c)
  PROVE  IInv'
<1> USE DEF IInv, LookForFailure, shared, At
<1>1. calls' \in [Calls -> CallRecords]
  BY GotoType DEF Steps
<1>2. TypeOK'
  BY <1>1 DEF TypeOK
<1>3. Ownership' /\ Spawned' /\ Session'
  BY DEF TypeOK, CallRecords, Goto, Exists, Whole, Ownership, Spawned, HostCalledOnce, Session, Works,
     Working
<1>4. Answers'
  BY DEF TypeOK, CallRecords, Goto, Exists, Whole, Answers, EvidenceIsOneRun
<1>5. ObservedIsSealed' /\ Alone'
  BY DEF TypeOK, CallRecords, Goto, Exists, Whole, ObservedIsSealed, Alone
<1> QED BY <1>2, <1>3, <1>4, <1>5

LEMMA RecordFailureKeeps ==
  ASSUME IInv, NEW c \in Calls, RecordFailure(c)
  PROVE  IInv'
<1> USE DEF IInv, RecordFailure, shared, At
<1>1. calls' \in [Calls -> CallRecords]
  BY GotoType, ReturnType DEF Steps
<1>2. CASE Return(c) /\ UNCHANGED files
  <2>1. TypeOK'
    BY <1>1, <1>2 DEF TypeOK
  <2>2. /\ \A d \in Calls \ {c} : calls'[d] = calls[d]
        /\ calls[c].pc # "idle" /\ calls'[c] = Quiet
    BY <1>2 DEF TypeOK, Return
  <2>3. ObservedIsSealed'
    BY <1>2, <2>2, NoneAssumption DEF ObservedIsSealed, Whole, Quiet
  <2>4. Ownership' /\ Spawned' /\ Session' /\ Answers' /\ Alone'
    BY <1>2, <2>2, Quietly DEF Working, Quiet
  <2> QED BY <2>1, <2>3, <2>4
<1>3. CASE files' = [files EXCEPT !["failure"] = "whole"] /\ Goto(c, "readback")
  <2>1. TypeOK'
    BY <1>1, <1>3 DEF TypeOK, Files
  <2>2. Ownership'
    BY <1>3 DEF TypeOK, Goto, Exists, Ownership, Works, Working
  <2>3. Spawned'
    BY <1>3 DEF TypeOK, Goto, Exists, Spawned, HostCalledOnce
  <2>4. Session'
    BY <1>3 DEF TypeOK, Goto, Exists, Whole, Session, Works, Working
  <2>5. Answers'
    BY <1>3 DEF TypeOK, Goto, Exists, Whole, Answers, EvidenceIsOneRun
  <2>6. ObservedIsSealed'
    BY <1>3 DEF TypeOK, Goto, Whole, ObservedIsSealed
  <2>7. Alone'
    BY <1>3 DEF TypeOK, Goto, Exists, Alone
  <2> QED BY <2>1, <2>2, <2>3, <2>4, <2>5, <2>6, <2>7
<1> QED BY <1>2, <1>3

LEMMA BeginKeeps ==
  ASSUME IInv, NEW c \in Calls, Begin(c)
  PROVE  IInv'
<1> USE DEF IInv, Begin, shared, At, Quiet
<1>1. calls' \in [Calls -> CallRecords]
  BY DEF TypeOK, CallRecords, Steps, Runs
<1>2. TypeOK' /\ ObservedIsSealed'
  BY <1>1, NoneAssumption DEF TypeOK, ObservedIsSealed, Whole, CallRecords, Records
<1>3. /\ \A d \in Calls \ {c} : calls'[d] = calls[d]
      /\ calls'[c].pc \in {"read", "row"} /\ calls'[c].run = "first" /\ ~calls'[c].half
  BY DEF TypeOK, CallRecords
<1>4. Ownership' /\ Spawned' /\ Session' /\ Answers'
  BY DEF Ownership, Spawned, Session, Answers, HostCalledOnce, EvidenceIsOneRun, Works, Working,
     Exists, Whole
<1>5. Alone'
  <2>1. ~rivals' => ~rivals /\ \A d \in Calls \ {c} : calls'[d].pc = "idle"
    BY <1>3
  <2> QED BY <2>1, <1>3 DEF Alone, Exists
<1> QED BY <1>2, <1>4, <1>5

LEMMA AuthorizeResumeKeeps ==
  ASSUME IInv, NEW c \in Calls, AuthorizeResume(c)
  PROVE  IInv'
<1> USE DEF AuthorizeResume, shared, At
<1>1. CASE (Answer(c, "local") \/ Return(c)) /\ UNCHANGED files
  <2>1. calls' \in [Calls -> CallRecords]
    BY <1>1, AnswerType, ReturnType DEF IInv, Records
  <2>2. /\ \A d \in Calls \ {c} : calls'[d] = calls[d]
        /\ calls[c].pc # "idle" /\ calls'[c].pc \in {"readback", "idle"} /\ ~calls'[c].half
        /\ calls'[c].memory \in {None, "local"}
    BY <1>1 DEF IInv, TypeOK, Answer, Return, Quiet, CallRecords
  <2>3. TypeOK' /\ ObservedIsSealed'
    BY <1>1, <2>1, <2>2, NoneAssumption DEF IInv, TypeOK, ObservedIsSealed, Whole
  <2>4. Ownership' /\ Spawned' /\ Session' /\ Answers' /\ Alone'
    BY <1>1, <2>2, Quietly DEF Working
  <2> QED BY <2>3, <2>4 DEF IInv
<1>2. CASE /\ ~Exists("resume")
           /\ files' = [files EXCEPT !["resume"] = "whole"]
           /\ calls' = [calls EXCEPT ![c].pc = "spawn", ![c].run = "resume",
                                     ![c].created = (c \in Startups)]
  <2> USE DEF IInv
  <2>1. calls' \in [Calls -> CallRecords]
    <3>1. (c \in Startups) \in BOOLEAN
      OBVIOUS
    <3>2. [calls[c] EXCEPT !.pc = "spawn", !.run = "resume", !.created = (c \in Startups)]
             \in CallRecords
      BY <3>1, CreatedType DEF Steps, Runs
    <3> QED BY <1>2, <3>2 DEF TypeOK
  <2>2. TypeOK'
    BY <1>2, <2>1 DEF TypeOK, Files
  <2>3. /\ \A d \in Calls \ {c} : calls'[d] = calls[d]
        /\ calls[c].pc = "authorize" /\ ~calls[c].half
        /\ calls'[c].pc = "spawn" /\ calls'[c].run = "resume" /\ ~calls'[c].half
        /\ calls'[c].memory = calls[c].memory
    BY <1>2 DEF TypeOK, CallRecords, Answers
  <2>4. /\ files["resume"] = "absent" /\ files'["resume"] = "whole"
        /\ UNCHANGED <<claimed, author, procs, starts, rivals>>
        /\ \A f \in Files \ {"resume"} : files'[f] = files[f]
    BY <1>2 DEF TypeOK, Files, Exists
  <2>5. Ownership'
    BY <2>3, <2>4 DEF Ownership, Works, Working, Exists
  <2>6. Spawned'
    BY <2>3, <2>4 DEF TypeOK, Spawned, HostCalledOnce, Exists, Runs
  <2>7. Session'
    BY <2>3, <2>4 DEF Session, Works, Exists, Whole, Files
  <2>8. Answers'
    BY <2>3, <2>4 DEF Answers, EvidenceIsOneRun, Exists, Whole, Files
  <2>9. ObservedIsSealed'
    BY <2>3, <2>4 DEF ObservedIsSealed, Whole, Files
  <2>10. Alone'
    BY <2>3, <2>4 DEF Alone, Exists, Files
  <2> QED BY <2>2, <2>5, <2>6, <2>7, <2>8, <2>9, <2>10
<1> QED BY <1>1, <1>2

LEMMA CrashKeeps ==
  ASSUME IInv, NEW c \in Calls, Crash(c)
  PROVE  IInv'
<1> USE DEF Crash, shared, At
<1>1. calls' \in [Calls -> CallRecords]
  BY ReturnType DEF IInv
<1>2. /\ \A d \in Calls \ {c} : calls'[d] = calls[d]
      /\ calls[c].pc # "idle" /\ calls'[c] = Quiet
  BY DEF IInv, TypeOK, Return
<1>3. TypeOK' /\ ObservedIsSealed'
  BY <1>1, <1>2, NoneAssumption, MaxCrashesAssumption DEF IInv, TypeOK, ObservedIsSealed, Whole,
     Quiet
<1>4. Ownership' /\ Spawned' /\ Session' /\ Answers' /\ Alone'
  BY <1>2, Quietly DEF Working, Quiet
<1> QED BY <1>3, <1>4 DEF IInv

\* What a Host process does by itself.
LEMMA HostKeeps ==
  ASSUME IInv, NEW run \in Runs, HostExits(run) \/ ReusePid(run)
  PROVE  IInv'
<1> USE DEF IInv, HostExits, ReusePid, shared
<1>1. procs' \in [Runs -> {"none", "running", "exited", "reused"}]
  BY DEF TypeOK
<1>2. \A r \in Runs : procs'[r] = "running" => procs[r] = "running"
  BY DEF TypeOK
<1>3. TypeOK' /\ Ownership' /\ Spawned'
  BY <1>1 DEF TypeOK, Ownership, Spawned, HostCalledOnce, Works, Exists
<1>4. Session' /\ Answers' /\ ObservedIsSealed'
  BY DEF Session, Answers, EvidenceIsOneRun, ObservedIsSealed, Works, Exists, Whole
<1>5. Alone'
  BY <1>2 DEF Alone, At, Exists, Runs
<1> QED BY <1>3, <1>4, <1>5

-----------------------------------------------------------------------------
\* IInv is inductive: the initial states have it, and every step keeps it.
LEMMA InitHolds == Init => IInv
<1> SUFFICES ASSUME Init PROVE IInv
  OBVIOUS
<1> USE DEF Init
<1>1. TypeOK
  <2>1. calls \in [Calls -> CallRecords] /\ crashes \in 0..MaxCrashes
    BY QuietType, MaxCrashesAssumption
  <2>2. files \in [Files -> {"absent", "torn", "whole"}]
    OBVIOUS
  <2>3. procs \in [Runs -> {"none", "running", "exited", "reused"}] /\ starts \in [Runs -> 0..2]
    OBVIOUS
  <2>4. author \in [{"result", "attempt"} -> Runs \cup {None}]
    OBVIOUS
  <2> QED BY <2>1, <2>2, <2>3, <2>4 DEF TypeOK
<1>2. Ownership /\ Spawned /\ Session /\ Answers
  BY DEF Ownership, Spawned, Session, Answers, HostCalledOnce, EvidenceIsOneRun, Quiet, Works,
     Working, Exists, Files, Runs
<1>3. ObservedIsSealed /\ Alone
  BY NoneAssumption DEF ObservedIsSealed, Alone, At, Quiet, Runs
<1> QED BY <1>1, <1>2, <1>3 DEF IInv

LEMMA NextKeeps == IInv /\ [Next]_vars => IInv'
<1> SUFFICES ASSUME IInv, [Next]_vars PROVE IInv'
  OBVIOUS
<1>1. ASSUME NEW c \in Calls, CallStep(c) PROVE IInv'
  BY <1>1, ReadRowKeeps, ClaimAttemptKeeps, ReadbackKeeps, RecordObservationKeeps,
     StageResultKeeps, AcknowledgeResultKeeps, MakeDirectoryKeeps, WriteIntentKeeps, SpawnKeeps,
     BindProcessKeeps, SeeSessionKeeps, FinishSessionKeeps, TimeOutKeeps, CollectKeeps,
     CaptureSessionKeeps, WriteResultKeeps, SealKeeps, LookForFailureKeeps,
     RecordFailureKeeps, RecoverKeeps, ExamineEvidenceKeeps, WaitForProcessKeeps,
     ExamineSessionKeeps, AuthorizeResumeKeeps
  DEF CallStep
<1>2. CASE UNCHANGED vars
  BY <1>2 DEF vars, IInv, TypeOK, Ownership, Spawned, Session, Answers, Alone, HostCalledOnce,
     EvidenceIsOneRun, ObservedIsSealed, Works, At, Exists, Whole
<1> QED BY <1>1, <1>2, BeginKeeps, CrashKeeps, HostKeeps DEF Next

\* What is true of every state that controllers, crashes and Host processes can reach.
THEOREM Invariant == Spec => []IInv
BY InitHolds, NextKeeps, PTL DEF Spec

\* The variables of every controller and of the Attempt directory keep their types.
THEOREM HostTypeOK == Spec => []TypeOK
BY Invariant, PTL DEF IInv

\* Whoever crashes, retries or races: the Host is never called again for the claim, nor
\* for the resume.
THEOREM HostIsCalledOnce == Spec => []HostCalledOnce
BY Invariant, PTL DEF IInv, Spawned

\* Without overlap, a crash and its recovery never leave two Host processes at work.
THEOREM HostIsAlone == Spec => []OneHostAtATime
<1>1. IInv => OneHostAtATime
  BY DEF IInv, Alone, OneHostAtATime
<1> QED BY <1>1, Invariant, PTL

\* A manifest is sealed over the result of the run that wrote it, and over its session.
THEOREM HostEvidence == Spec => []EvidenceIsOneRun
BY Invariant, PTL DEF IInv, Answers

\* The effect is observed with the answer of a Host only when the manifest is whole.
THEOREM HostObservation == Spec => []ObservedIsSealed
BY Invariant, PTL DEF IInv
=============================================================================
