----------------------------- MODULE SqliteStore -----------------------------
(***************************************************************************)
(* The durable loop store (v4_persistence/sqlite_store.py): apply() as the *)
(* SQLite transaction it is, one step per durable fault boundary, with     *)
(* concurrent clients, crashes at every boundary, lost replies, identical  *)
(* and changed retries, and executors that claim Attempts of the outbox.   *)
(*                                                                         *)
(* One loop is modelled.  The kernel's reducer is reduced to what the      *)
(* store keeps tables for: the revision and the state of every Attempt.    *)
(* The digest of a command identifies the command, so a journal row keeps  *)
(* the command itself.                                                     *)
(***************************************************************************)
EXTENDS Naturals, Sequences

CONSTANTS
  Clients,    \* processes that call apply()
  Ops,        \* operation ids
  Attempts,   \* Attempt references
  Outcomes,   \* the outcomes observations report
  None        \* no process holds the writer lock

ASSUME NoneAssumption == None \notin Clients
ASSUME OutcomesAssumption == Outcomes \subseteq {"OBSERVED", "UNKNOWN", "UNVERIFIABLE"}

VARIABLES
  db,       \* the committed tables
  owner,    \* the process inside BEGIN IMMEDIATE, or None
  stage,    \* the last boundary the open transaction has passed
  work,     \* the tables as the open transaction sees them
  call,     \* what each client is doing
  claims    \* how often claim_attempt() answered True, per Attempt

vars == <<db, owner, stage, work, call, claims>>

AttemptStates == {"ABSENT", "COMMITTED", "OBSERVED", "UNKNOWN", "UNVERIFIABLE"}
Settled == {"OBSERVED", "UNKNOWN", "UNVERIFIABLE"}
Stages == {"none", "begun", "reduced", "operation", "events", "snapshot", "outbox", "rejected"}

\* A command asks for a state of one Attempt, or ("SAME") for something else.
Requests == [attempt : Attempts, state : {"SAME", "COMMITTED"} \cup Outcomes]
Commands == [op : Ops, expected : Nat, request : Requests]

OperationRows == [op : Ops, command : Commands, accepted : BOOLEAN, revision : Nat]
OutboxRows == [attempt_state : AttemptStates,
               invocation_state : {"NONE", "READY", "STARTED"} \cup Settled]
Databases == [operations : SUBSET OperationRows,
              events : Seq(Ops),
              revision : Nat,
              attempts : [Attempts -> AttemptStates],
              outbox : [Attempts -> OutboxRows]]
Replies == {"none", "accepted", "replayed", "rejected", "conflict", "lost"}
Calls == [pc : {"idle", "waiting", "replying"}, command : Commands, reply : Replies]

-----------------------------------------------------------------------------
(***************************************************************************)
(* The part of the reducers the tables depend on.                          *)
(***************************************************************************)
Reducible(d, r) ==
  \/ r.state = "SAME"
  \/ r.state = "COMMITTED" /\ d.attempts[r.attempt] = "ABSENT"
  \/ r.state = "OBSERVED" /\ d.attempts[r.attempt] # "ABSENT"
  \/ r.state \in {"UNKNOWN", "UNVERIFIABLE"} /\ d.attempts[r.attempt] = "COMMITTED"

\* Mutation of Existing: rejected operations are forgotten.
ExistingAccepted(d, op) == {row \in d.operations : row.op = op /\ row.accepted}
Existing(d, op) == {row \in d.operations : row.op = op}

\* Mutation of Accepts: no revision CAS.
AcceptsAnyRevision(d, cmd) == Reducible(d, cmd.request)
\* The revision CAS, then the reducer.
Accepts(d, cmd) == cmd.expected = d.revision /\ Reducible(d, cmd.request)

AcceptedRow(d, cmd) ==
  [op |-> cmd.op, command |-> cmd, accepted |-> TRUE, revision |-> d.revision + 1]
RejectedRow(d, cmd) ==
  [op |-> cmd.op, command |-> cmd, accepted |-> FALSE, revision |-> d.revision]

OperationWritten(d, cmd) ==
  [d EXCEPT !.operations = d.operations \cup {AcceptedRow(d, cmd)}]

EventsWritten(d, cmd) == [d EXCEPT !.events = Append(d.events, cmd.op)]

\* Mutation of ReducedAttempts: every command is taken for one about an Attempt.
ReducedAlways(d, r) == [d.attempts EXCEPT ![r.attempt] = r.state]
ReducedAttempts(d, r) ==
  IF r.state = "SAME" THEN d.attempts ELSE [d.attempts EXCEPT ![r.attempt] = r.state]

SnapshotWritten(d, cmd) ==
  [d EXCEPT !.revision = d.revision + 1, !.attempts = ReducedAttempts(d, cmd.request)]

\* Mutations of OutboxRow: rows are only inserted; an upsert makes an open row READY.
OutboxRowInserted(d, a) ==
  IF d.attempts[a] = "ABSENT" \/ d.outbox[a].attempt_state # "ABSENT" THEN d.outbox[a]
  ELSE [attempt_state |-> d.attempts[a], invocation_state |-> "READY"]
OutboxRowReset(d, a) ==
  IF d.attempts[a] = "ABSENT" THEN d.outbox[a]
  ELSE [attempt_state |-> d.attempts[a],
        invocation_state |-> IF d.attempts[a] \in Settled THEN d.attempts[a] ELSE "READY"]
\* The upsert of _sync_outbox: a new row is READY, an observed one follows the
\* Attempt, and anything else keeps the invocation state it has.
OutboxRow(d, a) ==
  IF d.attempts[a] = "ABSENT" THEN d.outbox[a]
  ELSE [attempt_state |-> d.attempts[a],
        invocation_state |->
          IF d.attempts[a] \in Settled THEN d.attempts[a]
          ELSE IF d.outbox[a].attempt_state = "ABSENT" THEN "READY"
          ELSE d.outbox[a].invocation_state]

OutboxSynced(d) == [d EXCEPT !.outbox = [a \in Attempts |-> OutboxRow(d, a)]]

\* Mutations of RejectionWritten: a rejection leaves an event; it moves the revision.
RejectionLogged(d, cmd) ==
  [d EXCEPT !.operations = d.operations \cup {RejectedRow(d, cmd)},
            !.events = Append(d.events, cmd.op)]
RejectionCounted(d, cmd) ==
  [d EXCEPT !.operations = d.operations \cup {RejectedRow(d, cmd)},
            !.revision = d.revision + 1]
RejectionWritten(d, cmd) ==
  [d EXCEPT !.operations = d.operations \cup {RejectedRow(d, cmd)}]

-----------------------------------------------------------------------------
EmptyDatabase ==
  [operations |-> {}, events |-> << >>, revision |-> 0,
   attempts |-> [a \in Attempts |-> "ABSENT"],
   outbox |-> [a \in Attempts |-> [attempt_state |-> "ABSENT", invocation_state |-> "NONE"]]]

Init ==
  /\ db = EmptyDatabase
  /\ owner = None
  /\ stage = "none"
  /\ work = EmptyDatabase
  /\ \E op \in Ops, a \in Attempts :   \* no call yet: the command is a placeholder
       call = [c \in Clients |->
         [pc |-> "idle", reply |-> "none",
          command |-> [op |-> op, expected |-> 0,
                       request |-> [attempt |-> a, state |-> "SAME"]]]]
  /\ claims = [a \in Attempts |-> 0]

\* A client reads the committed snapshot and builds a command from it.
Submit(c, op, r) ==
  /\ call[c].pc = "idle"
  /\ call' = [call EXCEPT ![c] =
       [pc |-> "waiting", reply |-> "none",
        command |-> [op |-> op, expected |-> db.revision, request |-> r]]]
  /\ UNCHANGED <<db, owner, stage, work, claims>>

\* The same command again, after an answer that never arrived.
Resubmit(c) ==
  /\ call[c].pc = "idle"
  /\ call[c].reply = "lost"
  /\ call' = [call EXCEPT ![c].pc = "waiting", ![c].reply = "none"]
  /\ UNCHANGED <<db, owner, stage, work, claims>>

Begin(c) ==
  /\ call[c].pc = "waiting"
  /\ owner = None
  /\ owner' = c
  /\ stage' = "begun"
  /\ work' = db
  /\ UNCHANGED <<db, call, claims>>

\* Mutation of Busy: no lock timeout.
WaitForLock(c) ==
  /\ call[c].pc = "waiting"
  /\ owner \notin {None, c}
  /\ UNCHANGED vars
\* The lock timeout of BEGIN IMMEDIATE while another process writes.
Busy(c) ==
  /\ call[c].pc = "waiting"
  /\ owner \notin {None, c}
  /\ call' = [call EXCEPT ![c].pc = "idle", ![c].reply = "lost"]
  /\ UNCHANGED <<db, owner, stage, work, claims>>

\* Ends the transaction without a change, with the answer of the caller.
Leave(c, reply) ==
  /\ owner' = None
  /\ stage' = "none"
  /\ work' = db
  /\ call' = [call EXCEPT ![c].pc = "idle", ![c].reply = reply]
  /\ UNCHANGED <<db, claims>>

\* Mutation of Replay: the digest of the command is not compared.
ReplayById(c) ==
  /\ owner = c /\ stage = "begun"
  /\ \E row \in Existing(work, call[c].command.op) :
       Leave(c, IF row.accepted THEN "replayed" ELSE "rejected")
Replay(c) ==
  /\ owner = c /\ stage = "begun"
  /\ \E row \in Existing(work, call[c].command.op) :
       /\ row.command = call[c].command
       /\ Leave(c, IF row.accepted THEN "replayed" ELSE "rejected")

Conflict(c) ==
  /\ owner = c /\ stage = "begun"
  /\ \E row \in Existing(work, call[c].command.op) : row.command # call[c].command
  /\ Leave(c, "conflict")

\* The work the transaction does on its own tables.
Advance(c, from, to, tables) ==
  /\ owner = c /\ stage = from
  /\ stage' = to
  /\ work' = tables
  /\ UNCHANGED <<db, owner, call, claims>>

Reduce(c) ==
  /\ Existing(work, call[c].command.op) = {}
  /\ Accepts(work, call[c].command)
  /\ Advance(c, "begun", "reduced", work)

RecordRejection(c) ==
  /\ Existing(work, call[c].command.op) = {}
  /\ ~ Accepts(work, call[c].command)
  /\ Advance(c, "begun", "rejected", RejectionWritten(work, call[c].command))

WriteOperation(c) == Advance(c, "reduced", "operation", OperationWritten(work, call[c].command))
WriteEvents(c) == Advance(c, "operation", "events", EventsWritten(work, call[c].command))
WriteSnapshot(c) == Advance(c, "events", "snapshot", SnapshotWritten(work, call[c].command))
SyncOutbox(c) == Advance(c, "snapshot", "outbox", OutboxSynced(work))

Commit(c) ==
  /\ owner = c
  /\ stage \in {"outbox", "rejected"}
  /\ db' = work
  /\ owner' = None
  /\ stage' = "none"
  /\ call' = [call EXCEPT ![c].pc = "replying",
                          ![c].reply = IF stage = "outbox" THEN "accepted" ELSE "rejected"]
  /\ UNCHANGED <<work, claims>>

Respond(c) ==
  /\ call[c].pc = "replying"
  /\ call' = [call EXCEPT ![c].pc = "idle"]
  /\ UNCHANGED <<db, owner, stage, work, claims>>

\* A crash, or a failing statement, inside the transaction rolls it back.
Rollback(c) ==
  /\ owner = c
  /\ Leave(c, "lost")

\* A crash after the commit and before the answer.
LoseReply(c) ==
  /\ call[c].pc = "replying"
  /\ call' = [call EXCEPT ![c].pc = "idle", ![c].reply = "lost"]
  /\ UNCHANGED <<db, owner, stage, work, claims>>

\* claim_attempt(): its own transaction, from READY to STARTED.
ClaimAttempt(a) ==
  /\ owner = None
  /\ db.outbox[a].attempt_state = "COMMITTED"
  /\ db.outbox[a].invocation_state = "READY"
  /\ db' = [db EXCEPT !.outbox = [db.outbox EXCEPT ![a].invocation_state = "STARTED"]]
  /\ work' = db'
  /\ claims' = [claims EXCEPT ![a] = @ + 1]
  /\ UNCHANGED <<owner, stage, call>>

Step(c) ==
  \/ Begin(c) \/ Busy(c) \/ Replay(c) \/ Conflict(c)
  \/ Reduce(c) \/ RecordRejection(c)
  \/ WriteOperation(c) \/ WriteEvents(c) \/ WriteSnapshot(c) \/ SyncOutbox(c)
  \/ Commit(c) \/ Respond(c)

Next ==
  \/ \E c \in Clients :
       \/ \E op \in Ops, r \in Requests : Submit(c, op, r)
       \/ Resubmit(c)
       \/ Step(c)
       \/ Rollback(c)
       \/ LoseReply(c)
  \/ \E a \in Attempts : ClaimAttempt(a)

Spec == Init /\ [][Next]_vars

\* The scheduler keeps every running call going; nobody has to call or to claim.
FairSpec == Spec /\ \A c \in Clients : WF_vars(Step(c))

-----------------------------------------------------------------------------
(***************************************************************************)
(* Properties.                                                             *)
(***************************************************************************)

\* Every variable keeps the shape the schema and the callers give it.
TypeOK ==
  /\ db \in Databases
  /\ owner \in Clients \cup {None}
  /\ stage \in Stages
  /\ work \in Databases
  /\ call \in [Clients -> Calls]
  /\ claims \in [Attempts -> Nat]

\* The journal and the revision agree (verify_integrity): an operation id is
\* decided once, the accepted rows are exactly the revisions 1 .. revision, one
\* row each, and each was computed from the revision just before its own, so no
\* update is lost whatever clients race.
JournalConsistent(d) ==
  /\ \A x, y \in d.operations : x.op = y.op => x = y
  /\ \A x \in d.operations :
       /\ x.command.op = x.op
       /\ x.accepted => x.revision \in 1..d.revision /\ x.command.expected + 1 = x.revision
  /\ \A i \in 1..d.revision :
       \E x \in d.operations : x.accepted /\ x.revision = i
  /\ \A x, y \in d.operations :
       x.accepted /\ y.accepted /\ x.revision = y.revision => x = y
JournalMatchesRevision == JournalConsistent(db)

\* The event log is contiguous and in the order of the revisions: the i-th block
\* of events belongs to the operation that produced revision i, and a rejected or
\* crashed operation left no event.
EventsConsistent(d) ==
  /\ Len(d.events) = d.revision
  /\ \A i \in 1..Len(d.events) :
       \E x \in d.operations : x.accepted /\ x.revision = i /\ x.op = d.events[i]
EventLogMatchesJournal == EventsConsistent(db)

\* The outbox never drifts from the snapshot: it has a row for exactly the
\* Attempts of the snapshot, in the same state, and a settled Attempt can no
\* longer be claimed.
OutboxConsistent(d) ==
  \A a \in Attempts :
    /\ d.outbox[a].attempt_state = d.attempts[a]
    /\ d.attempts[a] \in Settled => d.outbox[a].invocation_state = d.attempts[a]
    /\ d.attempts[a] = "COMMITTED" => d.outbox[a].invocation_state \in {"READY", "STARTED"}
OutboxMatchesSnapshot == OutboxConsistent(db)

\* Execution ownership of an Attempt is granted at most once, across every
\* later resynchronisation of its outbox row and every crash of its executor.
OneClaimPerAttempt == \A a \in Attempts : claims[a] <= 1

\* What a client was told is what the journal holds, also after a lost reply and
\* a replay: accepted and rejected commands are in the journal with that verdict,
\* and a conflict means the id belongs to a different command.
AnswersAreDurable ==
  \A c \in Clients :
    LET cmd == call[c].command
    IN  call[c].pc # "waiting" =>
          /\ call[c].reply \in {"accepted", "replayed"} =>
               \E x \in db.operations : x.command = cmd /\ x.accepted
          /\ call[c].reply = "rejected" =>
               \E x \in db.operations : x.command = cmd /\ ~ x.accepted
          /\ call[c].reply = "conflict" =>
               \E x \in db.operations : x.op = cmd.op /\ x.command # cmd

\* A decided operation is never forgotten, re-decided or rewritten, and the
\* revision moves only with an accepted row, by one.
JournalImmutable ==
  [][ /\ db.operations \subseteq db'.operations
      /\ \/ db'.revision = db.revision
         \/ /\ db'.revision = db.revision + 1
            /\ \E x \in db'.operations \ db.operations : x.accepted ]_vars

\* The store implements exactly-once decisions: every commit of a transaction is
\* one abstract decision and every other step of it is invisible.
Decided == INSTANCE ExactlyOnce WITH
  journal <- db.operations, revision <- db.revision, attempts <- db.attempts,
  taken <- {a \in Attempts : claims[a] > 0}
ImplementsExactlyOnce == Decided!Spec

\* Every call of apply() comes back, whoever else holds the writer lock.
CallsReturn == \A c \in Clients : call[c].pc = "waiting" ~> call[c].pc = "idle"
=============================================================================
