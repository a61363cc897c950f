----------------------------- MODULE Preparation -----------------------------
(***************************************************************************)
(* PREPARE, CONFIRM and START (v4_entry/preparation.py, service.py,        *)
(* scripts/loopskill4): an owner-only directory of files that are written  *)
(* once, read back one by one, bound by a confirmation that expires, and   *)
(* turned into a loop.                                                     *)
(*                                                                         *)
(* Calls overlap and may die between any two of their steps.  The user     *)
(* may meanwhile replace a file, remove the directory and use it again,    *)
(* and make the workspace a git work tree or not.  A digest is the value   *)
(* it digests.                                                             *)
(***************************************************************************)
EXTENDS PlanCodec, Functions

CONSTANTS
  Calls,       \* calls of the command line
  Tokens,      \* what secrets.token_hex may return
  Requests,    \* sequence of requests; a request's number is also its plan's digest
  Absent,      \* no such file
  Torn,        \* a file that was created and not yet filled
  Validity,    \* how long a confirmation lasts
  MaxTime, MaxEdits  \* bounds

ASSUME PreparationAssumption ==
  /\ Validity \in Nat /\ MaxTime \in Nat /\ MaxEdits \in Nat
  /\ Absent # Torn
\* A goal must be done or need not be.
ASSUME RequestsAssumption ==
  \A r \in DOMAIN Requests :
    LET plan == PlanOf(Requests[r])
    IN  plan.schema = "v2" =>
          \A i \in DOMAIN plan.goals : plan.goals[i].requirement \in {"required", "optional"}

VARIABLES
  calls,      \* what each call is doing
  there,      \* does the prepared directory exist
  files,      \* its files
  roots,      \* the store of each loop: its blobs and its loops
  profile,    \* of the workspace: is it a git work tree?
  clock,
  made,       \* history: the preparations that were written
  agreed,     \* history: the confirmations that users gave
  edits

vars == <<calls, there, files, roots, profile, clock, made, agreed, edits>>

-----------------------------------------------------------------------------
(* The files of a preparation p of plan p.plan for the loop p.loop.  Those *)
(* written and checked alike are one: the boundary and its text, and the   *)
(* two reports.  The Host instructions, the same in all, are left out.     *)

Names == {"manifest", "boundary", "plan", "index", "reports", "bundle", "confirmation"}
WriteOrder == <<"manifest", "boundary", "plan", "index", "reports", "bundle">>
ReadOrder == <<"manifest", "bundle", "plan", "index", "reports", "boundary">>

Plan(number) == PlanOf(Requests[number])

\* The index binds the plan to the workspace, and to the loop with its authority.
Index(number, loop, binding) == [plan |-> number, loop |-> loop, binding |-> binding]
Reports(number, index, kind) ==
  <<number, index, IF Plan(number).schema = "v2" THEN kind ELSE Absent>>
Manifest(p, index) ==
  [loop |-> p.loop, profile |-> p.profile, plan |-> p.plan, index |-> index]
Boundary(manifest, reports) == <<manifest, reports>>
Bundle(f) == Restrict(f, Names \ {"bundle", "confirmation"})

Documents(p) ==
  LET index    == Index(p.plan, p.loop, p.profile)
      manifest == Manifest(p, index)
      reports  == Reports(p.plan, index, p.profile)
      f == [n \in Names |->
              CASE n = "manifest" -> manifest
                [] n = "boundary" -> Boundary(manifest, reports)
                [] n = "plan" -> p.plan
                [] n = "index" -> index
                [] n = "reports" -> reports
                [] OTHER -> Absent]
  IN  [f EXCEPT !["bundle"] = Bundle(f)]

Receipt(f, now) ==
  [loop |-> f["manifest"].loop, boundary |-> f["boundary"], manifest |-> f["manifest"],
   bundle |-> f["bundle"], issued |-> now, expires |-> now + Validity]

\* What load_prepared recomputes from the files f that it read.
BundleMatches(f) == f["bundle"] = Bundle(f)
ReportsMatch(f) ==
  /\ f["reports"] = Reports(f["plan"], f["index"], f["manifest"].profile)
  /\ f["boundary"] = Boundary(f["manifest"], f["reports"])
  /\ CapacityReasons(Requests[f["plan"]], Plan(f["plan"])) = {}
  /\ CapabilityPasses(Plan(f["plan"]), f["manifest"].profile)
IndexMatches(f) ==
  /\ f["index"].plan = f["plan"]
  /\ f["index"].loop = f["manifest"].loop
IdentitiesMatch(f) ==
  /\ f["manifest"].plan = f["plan"]
  /\ f["manifest"].index = f["index"] /\ f["manifest"].profile = f["index"].binding
\* Mutation of Matches: the bundle digest is not recomputed.
MatchesOneByOne(f) == IndexMatches(f) /\ ReportsMatch(f) /\ IdentitiesMatch(f)
Matches(f) == IndexMatches(f) /\ BundleMatches(f) /\ ReportsMatch(f) /\ IdentitiesMatch(f)

\* Mutation of Binds: the expiry is recorded and not looked at.
BindsForever(receipt, f, now) ==
  /\ receipt.loop = f["manifest"].loop
  /\ receipt.bundle = f["bundle"]
  /\ receipt.issued <= now
Binds(receipt, f, now) ==
  /\ receipt.loop = f["manifest"].loop
  /\ receipt.boundary = f["boundary"]
  /\ receipt.manifest = f["manifest"]
  /\ receipt.bundle = f["bundle"]
  /\ receipt.issued <= now /\ now <= receipt.expires

-----------------------------------------------------------------------------
NoFiles == [n \in Names |-> Absent]

\* "out" is what a call is writing, "got" what it has read; the error code that a call
\* ends with is left out.
Idle == [pc |-> "idle", phase |-> "none", todo |-> <<>>, out |-> NoFiles,
         got |-> NoFiles, at |-> 0, baseline |-> Absent]

Init ==
  /\ calls = [c \in Calls |-> Idle]
  /\ there = FALSE /\ files = NoFiles
  /\ roots = [t \in Tokens |-> [blobs |-> {}, loops |-> {}]]
  /\ profile \in {"non_git", "existing_git"}
  /\ clock = 0 /\ made = {} /\ agreed = {} /\ edits = 0

Goto(c, s) == calls' = [calls EXCEPT ![c] = s]
Step(c, pc) == Goto(c, [calls[c] EXCEPT !.pc = pc])
End(c) == Goto(c, Idle)
NoWrite == UNCHANGED <<there, files>>
User == UNCHANGED <<profile, clock, edits>>
Quiet == UNCHANGED <<roots, made, agreed>> /\ User

-----------------------------------------------------------------------------
(* PREPARE *)

\* How prepare() answers a request that it does not accept, "" when it does.
Refusal(request, kind) ==
  LET plan == PlanOf(request)
  IN  CASE request.plan # None /\ ~Canonical(request.plan) -> "PLAN"
        [] request.plan = None /\ Len(request.goals) > GoalMax -> "RESOURCE_LIMIT_EXCEEDED"
        [] Intake(request) # "READY_FOR_LOOP" -> Intake(request)
        [] ~Compiles(request) -> "PLAN"
        [] CapacityReasons(request, plan) # {} -> "RESOURCE_LIMIT_EXCEEDED"
        [] ~CapabilityPasses(plan, kind) -> "USER_CAPABILITY_UNAVAILABLE"
        [] OTHER -> ""

\* The request is judged, bound to a fresh loop and to the workspace, and compiled; as a
\* bound, each request is accepted once.
Prepare(c, r, t) ==
  /\ calls[c].pc = "idle"
  /\ \A p \in made : p.loop # t /\ p.plan # r
  /\ LET p == [plan |-> r, loop |-> t, profile |-> profile]
     IN  IF Refusal(Requests[r], profile) # ""
         THEN UNCHANGED <<calls, made>>
         ELSE /\ Goto(c, [Idle EXCEPT !.pc = "mkdir", !.out = Documents(p), !.todo = WriteOrder])
              /\ made' = made \union {p}
  /\ NoWrite /\ UNCHANGED <<roots, agreed>> /\ User

\* The output directory is created, or there and empty.
MakeDirectory(c) ==
  /\ calls[c].pc = "mkdir"
  /\ IF files = NoFiles
     THEN there' = TRUE /\ Step(c, "write")
     ELSE End(c) /\ UNCHANGED there
  /\ UNCHANGED files /\ Quiet

\* _write_once: a file must not be there yet, nor its directory have gone.
Write(c, n, document, next) ==
  IF there /\ files[n] = Absent
  THEN files' = [files EXCEPT ![n] = document] /\ Goto(c, next)
  ELSE UNCHANGED files /\ End(c)

WriteDocument(c) ==
  LET s == calls[c]
      n == Head(s.todo)
  IN  /\ s.pc = "write"
      /\ Write(c, n, s.out[n], IF Len(s.todo) = 1 THEN Idle ELSE [s EXCEPT !.todo = Tail(@)])
      /\ UNCHANGED there /\ Quiet

-----------------------------------------------------------------------------
(* load_prepared, in the phases that its callers need it for: "review" to  *)
(* show the boundary, "confirm" to bind it, "start" and "reload" to have   *)
(* it confirmed.                                                           *)

Load(c, phase) ==
  [calls[c] EXCEPT !.pc = "list", !.phase = phase, !.got = NoFiles]

\* The set of files is looked at first.
List(c) ==
  /\ calls[c].pc = "list"
  /\ IF there /\ \A n \in Names \ {"confirmation"} : files[n] # Absent
     THEN Goto(c, [calls[c] EXCEPT !.pc = "read",
                     !.todo = IF files["confirmation"] = Absent THEN ReadOrder
                              ELSE Append(ReadOrder, "confirmation")])
     ELSE End(c)
  /\ NoWrite /\ Quiet

\* What follows the phase of a load that succeeded.  (The clock is read again at once, with
\* nothing in between, for the issue of a receipt and of a loop: it is the same reading.)
Loaded(s) ==
  CASE s.phase = "review" -> [s EXCEPT !.pc = "ask"]
    [] s.phase = "confirm" /\ s.got["confirmation"] = Absent ->
         [s EXCEPT !.pc = "sign", !.at = clock]
    [] s.phase = "start" -> [s EXCEPT !.pc = "check", !.at = clock]
    [] OTHER -> Idle

\* Everything is recomputed; a confirmation is bound to it, and must not have expired.
Accepted(s) ==
  LET receipt == s.got["confirmation"]
  IN  /\ Matches(s.got)
      /\ receipt # Absent => Binds(receipt, s.got, clock)
      /\ s.phase \in {"start", "reload"} => receipt # Absent

\* Then each of them is read; by then it may have gone or been replaced.
Read(c) ==
  LET s == calls[c]
      n == Head(s.todo)
      read == [s EXCEPT !.got[n] = files[n], !.todo = Tail(@)]
  IN  /\ s.pc = "read"
      /\ IF files[n] = Absent \/ files[n] = Torn THEN End(c)
         ELSE Goto(c, IF read.todo # <<>> THEN read
                      ELSE IF Accepted(read) THEN Loaded(read) ELSE Idle)
      /\ NoWrite /\ Quiet

-----------------------------------------------------------------------------
(* CONFIRM: loopskill4 confirm shows the boundary, asks, and confirms the  *)
(* directory.                                                              *)

Confirm(c) ==
  /\ calls[c].pc = "idle"
  /\ Goto(c, Load(c, "review"))
  /\ NoWrite /\ Quiet

\* The user reads what is shown, and types the phrase or does not.
Ask(c) ==
  /\ calls[c].pc = "ask"
  /\ \/ Goto(c, Load(c, "confirm"))
     \/ End(c)
  /\ NoWrite /\ Quiet

\* The receipt binds what was loaded; the directory is then loaded again.
Sign(c) ==
  LET s == calls[c]
      receipt == Receipt(s.got, s.at)
  IN  /\ s.pc = "sign"
      /\ Write(c, "confirmation", receipt, [Load(c, "reload") EXCEPT !.at = 0])
      /\ agreed' = IF there /\ files["confirmation"] = Absent THEN agreed \union {receipt}
                    ELSE agreed
      /\ UNCHANGED <<there, roots, made>> /\ User

-----------------------------------------------------------------------------
(* START: each loop has a store of its own under the root. *)

Start(c) ==
  /\ calls[c].pc = "idle"
  /\ Goto(c, Load(c, "start"))
  /\ NoWrite /\ Quiet

Root(s) == roots[s.got["manifest"].loop]
PutRoot(s, root) == roots' = [roots EXCEPT ![s.got["manifest"].loop] = root]
Blobs(s) == <<s.got["plan"], s.got["index"]>>

\* A loop that is there is compared with what was loaded, and not created again.
Check(c) ==
  LET s == calls[c]
  IN  /\ s.pc = "check"
      /\ IF Root(s).loops = {} THEN Step(c, "blobs")
         ELSE End(c)
      /\ NoWrite /\ Quiet

\* Mutation of PutBlobs: they are left to be stored when they are first needed.
PutBlobsLater(c) ==
  /\ calls[c].pc = "blobs"
  /\ Step(c, "capture")
  /\ NoWrite /\ Quiet
\* The plan and its index are stored before the loop that names them.
PutBlobs(c) ==
  LET s == calls[c]
  IN  /\ s.pc = "blobs"
      /\ PutRoot(s, [Root(s) EXCEPT !.blobs = @ \union {Blobs(s)}])
      /\ Step(c, "capture")
      /\ NoWrite /\ UNCHANGED <<made, agreed>> /\ User

\* Mutation of Capture: the workspace is captured as it is found.
CaptureAsFound(c) ==
  /\ calls[c].pc = "capture"
  /\ Goto(c, [calls[c] EXCEPT !.pc = "create", !.baseline = profile])
  /\ NoWrite /\ Quiet
\* prepare_artifact_baseline: the workspace must be the one that was prepared for.
Capture(c) ==
  LET s == calls[c]
  IN  /\ s.pc = "capture"
      /\ IF profile = s.got["manifest"].profile
         THEN Goto(c, [s EXCEPT !.pc = "create", !.baseline = profile])
         ELSE End(c)
      /\ NoWrite /\ Quiet

\* The CreateLoop command: its operation is named after the loop, its digest covers the rest.
Command(s) ==
  [loop |-> s.got["manifest"].loop, plan |-> s.got["plan"], index |-> s.got["index"],
   bundle |-> s.got["bundle"], issued |-> s.at, baseline |-> s.baseline]

\* apply: an equal command is answered again, another one for the same loop is refused.
Create(c) ==
  LET s == calls[c]
  IN  /\ s.pc = "create"
      /\ IF \E loop \in Root(s).loops : loop.loop = Command(s).loop
         THEN UNCHANGED roots
         ELSE PutRoot(s, [Root(s) EXCEPT !.loops = @ \union {Command(s)}])
      /\ End(c)
      /\ NoWrite /\ UNCHANGED <<made, agreed>> /\ User

-----------------------------------------------------------------------------
(* The user, the clock and crashes. *)

CanEdit ==
  /\ there /\ edits < MaxEdits /\ edits' = edits + 1
  /\ UNCHANGED <<calls, roots, profile, clock, made, agreed>>

\* A file is replaced by that of another preparation, a confirmation also removed.
Versions(n) ==
  {Documents(p)[n] : p \in made}
    \union (IF n = "confirmation" THEN agreed ELSE {})
ReplaceFile(n) ==
  /\ CanEdit
  /\ \E version \in Versions(n) \ {files[n]} : files' = [files EXCEPT ![n] = version]
  /\ UNCHANGED there

\* The directory is removed, for instance to prepare in it again.
RemoveDirectory ==
  /\ CanEdit
  /\ there' = FALSE /\ files' = NoFiles

\* The workspace becomes a git work tree, or is one no more.
ChangeGit ==
  /\ edits < MaxEdits /\ edits' = edits + 1
  /\ profile' \in {"non_git", "existing_git"} \ {profile}
  /\ UNCHANGED <<calls, roots, clock, made, agreed>> /\ NoWrite

Tick ==
  /\ clock < MaxTime /\ clock' = clock + 1
  /\ UNCHANGED <<calls, roots, profile, made, agreed, edits>> /\ NoWrite

\* A call that writes dies; what it has written stays, to the half of a file that it had
\* created.
Crash(c) ==
  LET s == calls[c]
      n == IF s.pc = "sign" THEN "confirmation" ELSE Head(s.todo)
  IN  /\ s.pc \in {"write", "sign", "blobs", "capture", "create"}
      /\ End(c)
      /\ \/ UNCHANGED files
         \/ /\ s.pc \in {"write", "sign"} /\ there /\ files[n] = Absent
            /\ files' = [files EXCEPT ![n] = Torn]
      /\ UNCHANGED there /\ Quiet

Begin(c) ==
  \/ \E r \in DOMAIN Requests, t \in Tokens : Prepare(c, r, t)
  \/ Confirm(c) \/ Start(c)

Continue(c) ==
  \/ MakeDirectory(c) \/ WriteDocument(c)
  \/ List(c) \/ Read(c) \/ Ask(c) \/ Sign(c)
  \/ Check(c) \/ PutBlobs(c) \/ Capture(c) \/ Create(c)

Next ==
  \/ \E c \in Calls : Begin(c) \/ Continue(c) \/ Crash(c)
  \/ \E n \in Names : ReplaceFile(n)
  \/ RemoveDirectory \/ ChangeGit \/ Tick

Spec == Init /\ [][Next]_vars

-----------------------------------------------------------------------------
(* Properties. *)

\* Whatever was replaced, removed or half written, and however reads and writes of several
\* calls met in one directory: the documents that load_prepared lets through are those of
\* one preparation, to the last file.
LoadedIsOnePreparation ==
  \A c \in Calls :
    calls[c].pc \in {"ask", "sign", "check", "blobs", "capture", "create"} =>
      \E p \in made : [calls[c].got EXCEPT !["confirmation"] = Absent] = Documents(p)

\* A loop is created for exactly what a user confirmed, while the confirmation lasted: a
\* START that was delayed, retried or met another one uses no other confirmation.
StartedIsConfirmed ==
  \A t \in Tokens : \A loop \in roots[t].loops :
    \E a \in agreed :
      /\ loop.bundle = a.bundle /\ loop.loop = a.loop
      /\ loop.issued \in a.issued .. a.expires

\* Calls that overlap or are repeated create one loop of a preparation, whose plan and
\* index are stored under its own token.
StartedOnce ==
  \A t \in Tokens :
    /\ Cardinality(roots[t].loops) <= 1
    /\ \A loop \in roots[t].loops :
         loop.loop = t /\ <<loop.plan, loop.index>> \in roots[t].blobs

\* The goals skipped at run time are those whose capabilities are missing in the report
\* that the user confirmed, no more and no fewer, however the workspace changed after it
\* was prepared; and a goal that must be done never finds one missing.
SkipsWereConfirmed ==
  \A t \in Tokens : \A loop \in roots[t].loops :
    LET plan == Plan(loop.plan)
    IN  plan.schema = "v2" =>
          \A i \in DOMAIN plan.goals :
            LET goal  == plan.goals[i]
                shown == Feasibility(plan, goal, loop.bundle["manifest"].profile)
            IN  /\ goal.gate = "worker" =>
                     (Skipped(plan, goal, loop.baseline) <=> shown = "OPTIONAL_UNAVAILABLE")
                /\ goal.requirement = "required" =>
                     Unavailable(plan, goal, loop.baseline) = {}
=============================================================================
