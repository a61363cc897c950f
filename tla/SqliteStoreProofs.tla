-------------------------- MODULE SqliteStoreProofs --------------------------
(***************************************************************************)
(* Proofs about the loop store, for any clients, operation ids and         *)
(* Attempts.  The inductive invariant says what the open transaction has   *)
(* done so far: its tables are the committed ones with exactly the writes  *)
(* of the boundaries it has passed.  So a commit publishes the whole       *)
(* update of one decision, and a rollback publishes nothing.               *)
(***************************************************************************)
EXTENDS SqliteStore, TLAPS

Applied(d, cmd) ==
  OutboxSynced(SnapshotWritten(EventsWritten(OperationWritten(d, cmd), cmd), cmd))

\* The tables after each boundary, from the tables the transaction began with.
Tables(s, d, cmd) ==
  CASE s \in {"none", "begun", "reduced"} -> d
    [] s = "operation" -> OperationWritten(d, cmd)
    [] s = "events" -> EventsWritten(OperationWritten(d, cmd), cmd)
    [] s = "snapshot" -> SnapshotWritten(EventsWritten(OperationWritten(d, cmd), cmd), cmd)
    [] s = "outbox" -> Applied(d, cmd)
    [] s = "rejected" -> RejectionWritten(d, cmd)

Deciding == {"reduced", "operation", "events", "snapshot", "outbox"}

\* The open transaction.
TransactionInv ==
  /\ owner = None => stage = "none" /\ work = db
  /\ owner # None =>
       /\ stage # "none"
       /\ call[owner].pc = "waiting"
       /\ work = Tables(stage, db, call[owner].command)
       /\ stage # "begun" => Existing(db, call[owner].command.op) = {}
       /\ stage \in Deciding => Accepts(db, call[owner].command)
       /\ stage = "rejected" => ~ Accepts(db, call[owner].command)

\* A claimed Attempt is no longer READY.
ClaimInv ==
  \A a \in Attempts :
    /\ claims[a] <= 1
    /\ claims[a] = 1 => db.outbox[a].attempt_state # "ABSENT"
                        /\ db.outbox[a].invocation_state # "READY"

\* Commands are built from a revision that has been committed.
ExpectedInv == \A c \in Clients : call[c].command.expected <= db.revision

IInv ==
  /\ TypeOK
  /\ TransactionInv
  /\ ClaimInv
  /\ ExpectedInv
  /\ JournalConsistent(db)
  /\ EventsConsistent(db)
  /\ OutboxConsistent(db)
  /\ AnswersAreDurable

-----------------------------------------------------------------------------
(***************************************************************************)
(* What the writes of one transaction do to the tables.                    *)
(***************************************************************************)
LEMMA RequestTypes ==
  ASSUME NEW r \in Requests
  PROVE  /\ r.attempt \in Attempts
         /\ r.state \in {"SAME", "COMMITTED", "OBSERVED", "UNKNOWN", "UNVERIFIABLE"}
BY OutcomesAssumption DEF Requests

\* Every write of a transaction leaves well-formed tables.
LEMMA TablesTyped ==
  ASSUME NEW d \in Databases, NEW cmd \in Commands
  PROVE  /\ OperationWritten(d, cmd) \in Databases
         /\ EventsWritten(d, cmd) \in Databases
         /\ SnapshotWritten(d, cmd) \in Databases
         /\ OutboxSynced(d) \in Databases
         /\ RejectionWritten(d, cmd) \in Databases
<1>0. cmd.op \in Ops /\ cmd.expected \in Nat /\ cmd.request \in Requests
  BY DEF Commands
<1>1. AcceptedRow(d, cmd) \in OperationRows /\ RejectedRow(d, cmd) \in OperationRows
  BY <1>0 DEF AcceptedRow, RejectedRow, OperationRows, Databases
<1>2. OperationWritten(d, cmd) \in Databases
  BY <1>1 DEF OperationWritten, Databases
<1>3. RejectionWritten(d, cmd) \in Databases
  BY <1>1 DEF RejectionWritten, Databases
<1>4. EventsWritten(d, cmd) \in Databases
  <2>1. Append(d.events, cmd.op) \in Seq(Ops)
    BY <1>0 DEF Databases
  <2>2. QED
    BY <2>1 DEF EventsWritten, Databases
<1>5. SnapshotWritten(d, cmd) \in Databases
  <2>1. ReducedAttempts(d, cmd.request) \in [Attempts -> AttemptStates]
    BY <1>0, RequestTypes DEF ReducedAttempts, Databases, AttemptStates
  <2>2. d.revision + 1 \in Nat
    BY DEF Databases
  <2>3. QED
    BY <2>1, <2>2 DEF SnapshotWritten, Databases
<1>6. OutboxSynced(d) \in Databases
  <2>1. \A a \in Attempts : OutboxRow(d, a) \in OutboxRows
    BY DEF OutboxRow, OutboxRows, Databases, Settled
  <2>2. QED
    BY <2>1 DEF OutboxSynced, Databases
<1>7. QED
  BY <1>2, <1>3, <1>4, <1>5, <1>6

\* What the writes of an accepted command amount to, table by table.
LEMMA AppliedFields ==
  ASSUME NEW d \in Databases, NEW cmd \in Commands
  PROVE  /\ Applied(d, cmd) \in Databases
         /\ Applied(d, cmd).operations = d.operations \cup {AcceptedRow(d, cmd)}
         /\ Applied(d, cmd).events = Append(d.events, cmd.op)
         /\ Applied(d, cmd).revision = d.revision + 1
         /\ Applied(d, cmd).attempts = ReducedAttempts(d, cmd.request)
         /\ \A a \in Attempts :
              Applied(d, cmd).outbox[a] =
                IF ReducedAttempts(d, cmd.request)[a] = "ABSENT" THEN d.outbox[a]
                ELSE [attempt_state |-> ReducedAttempts(d, cmd.request)[a],
                      invocation_state |->
                        IF ReducedAttempts(d, cmd.request)[a] \in Settled
                        THEN ReducedAttempts(d, cmd.request)[a]
                        ELSE IF d.outbox[a].attempt_state = "ABSENT" THEN "READY"
                        ELSE d.outbox[a].invocation_state]
<1> DEFINE d1 == OperationWritten(d, cmd)
           d2 == EventsWritten(d1, cmd)
           d3 == SnapshotWritten(d2, cmd)
<1>1. /\ d1 \in Databases
      /\ d1.operations = d.operations \cup {AcceptedRow(d, cmd)}
      /\ d1.events = d.events /\ d1.revision = d.revision
      /\ d1.attempts = d.attempts /\ d1.outbox = d.outbox
  BY TablesTyped DEF OperationWritten, Databases
<1>2. /\ d2 \in Databases
      /\ d2.operations = d1.operations
      /\ d2.events = Append(d.events, cmd.op) /\ d2.revision = d.revision
      /\ d2.attempts = d.attempts /\ d2.outbox = d.outbox
  <2> HIDE DEF d1
  <2>1. d2 \in Databases
    BY <1>1, TablesTyped
  <2>2. QED
    BY <1>1, <2>1 DEF EventsWritten, Databases
<1>3. /\ d3 \in Databases
      /\ d3.operations = d1.operations
      /\ d3.events = Append(d.events, cmd.op) /\ d3.revision = d.revision + 1
      /\ d3.attempts = ReducedAttempts(d, cmd.request) /\ d3.outbox = d.outbox
  <2> HIDE DEF d2
  <2>1. d3 \in Databases
    BY <1>2, TablesTyped
  <2>2. ReducedAttempts(d2, cmd.request) = ReducedAttempts(d, cmd.request)
    BY <1>2 DEF ReducedAttempts
  <2>3. QED
    BY <1>2, <2>1, <2>2 DEF SnapshotWritten, Databases
<1> HIDE DEF d3
<1>4. OutboxSynced(d3) \in Databases
  BY <1>3, TablesTyped
<1>5. /\ OutboxSynced(d3).operations = d3.operations
      /\ OutboxSynced(d3).events = d3.events
      /\ OutboxSynced(d3).revision = d3.revision
      /\ OutboxSynced(d3).attempts = d3.attempts
      /\ OutboxSynced(d3).outbox = [a \in Attempts |-> OutboxRow(d3, a)]
  BY <1>3, <1>4 DEF OutboxSynced, Databases
<1>6. Applied(d, cmd) = OutboxSynced(d3)
  BY DEF Applied, d3
<1>7. QED
  BY <1>1, <1>3, <1>4, <1>5, <1>6 DEF OutboxRow

\* What the write of a rejection amounts to: one row of the journal.
LEMMA RejectedFields ==
  ASSUME NEW d \in Databases, NEW cmd \in Commands
  PROVE  /\ RejectionWritten(d, cmd).operations = d.operations \cup {RejectedRow(d, cmd)}
         /\ RejectionWritten(d, cmd).events = d.events
         /\ RejectionWritten(d, cmd).revision = d.revision
         /\ RejectionWritten(d, cmd).attempts = d.attempts
         /\ RejectionWritten(d, cmd).outbox = d.outbox
BY DEF RejectionWritten, Databases

(***************************************************************************)
(* An accepted decision keeps journal, event log, revision and outbox in   *)
(* agreement, and never makes an Attempt claimable a second time.          *)
(***************************************************************************)
LEMMA AppliedConsistent ==
  ASSUME NEW d \in Databases, NEW cmd \in Commands,
         JournalConsistent(d), EventsConsistent(d), OutboxConsistent(d),
         Existing(d, cmd.op) = {}, Accepts(d, cmd)
  PROVE  /\ JournalConsistent(Applied(d, cmd))
         /\ EventsConsistent(Applied(d, cmd))
         /\ OutboxConsistent(Applied(d, cmd))
         /\ \A a \in Attempts :
              /\ d.outbox[a].attempt_state # "ABSENT"
              /\ d.outbox[a].invocation_state # "READY"
              => /\ Applied(d, cmd).outbox[a].attempt_state # "ABSENT"
                 /\ Applied(d, cmd).outbox[a].invocation_state # "READY"
<1> DEFINE e == Applied(d, cmd)
           row == AcceptedRow(d, cmd)
<1>0. /\ cmd.op \in Ops /\ cmd.expected \in Nat /\ cmd.request \in Requests
      /\ cmd.request.attempt \in Attempts
      /\ cmd.request.state \in {"SAME", "COMMITTED", "OBSERVED", "UNKNOWN", "UNVERIFIABLE"}
  BY RequestTypes DEF Commands
<1>1. /\ d.revision \in Nat /\ d.events \in Seq(Ops)
      /\ d.attempts \in [Attempts -> AttemptStates]
      /\ d.outbox \in [Attempts -> OutboxRows]
      /\ d.operations \subseteq OperationRows
  BY DEF Databases
<1>2. \A x \in d.operations : x.op # cmd.op
  BY DEF Existing
<1>3. /\ row.op = cmd.op /\ row.command = cmd /\ row.accepted
      /\ row.revision = d.revision + 1
  BY DEF AcceptedRow
<1>4. cmd.expected = d.revision
  BY DEF Accepts
<1>5. /\ e.operations = d.operations \cup {row}
      /\ e.events = Append(d.events, cmd.op)
      /\ e.revision = d.revision + 1
      /\ e.attempts = ReducedAttempts(d, cmd.request)
  BY AppliedFields
<1> HIDE DEF row
<1>6. \A x \in d.operations : x.accepted => x.revision \in 1..d.revision
  BY DEF JournalConsistent
<1>7. JournalConsistent(e)
  <2> HIDE DEF e
  <2>1. \A x, y \in e.operations : x.op = y.op => x = y
    BY <1>2, <1>3, <1>5 DEF JournalConsistent
  <2>2. \A x \in e.operations :
          /\ x.command.op = x.op
          /\ x.accepted => x.revision \in 1..e.revision /\ x.command.expected + 1 = x.revision
    BY <1>1, <1>3, <1>4, <1>5 DEF JournalConsistent
  <2>3. \A i \in 1..e.revision : \E x \in e.operations : x.accepted /\ x.revision = i
    <3>1. ASSUME NEW i \in 1..e.revision
          PROVE  \E x \in e.operations : x.accepted /\ x.revision = i
      <4>1. CASE i = d.revision + 1
        BY <4>1, <1>3, <1>5
      <4>2. CASE i # d.revision + 1
        <5>1. i \in 1..d.revision
          BY <4>2, <1>1, <1>5
        <5>2. QED
          BY <5>1, <1>5 DEF JournalConsistent
      <4>3. QED
        BY <4>1, <4>2
    <3>2. QED
      BY <3>1
  <2>4. \A x, y \in e.operations :
          x.accepted /\ y.accepted /\ x.revision = y.revision => x = y
    <3>1. \A x \in d.operations : x.accepted => x.revision # row.revision
      BY <1>1, <1>3, <1>6
    <3>2. QED
      BY <3>1, <1>5 DEF JournalConsistent
  <2>5. QED
    BY <2>1, <2>2, <2>3, <2>4 DEF JournalConsistent
<1>8. EventsConsistent(e)
  <2> HIDE DEF e
  <2>1. Len(e.events) = e.revision
    BY <1>0, <1>1, <1>5 DEF EventsConsistent
  <2>2. ASSUME NEW i \in 1..Len(e.events)
        PROVE  \E x \in e.operations : x.accepted /\ x.revision = i /\ x.op = e.events[i]
    <3>1. CASE i = d.revision + 1
      <4>1. e.events[i] = cmd.op
        BY <3>1, <1>0, <1>1, <1>5 DEF EventsConsistent
      <4>2. QED
        BY <4>1, <3>1, <1>3, <1>5
    <3>2. CASE i # d.revision + 1
      <4>1. i \in 1..Len(d.events) /\ e.events[i] = d.events[i]
        BY <3>2, <2>1, <1>0, <1>1, <1>5 DEF EventsConsistent
      <4>2. QED
        BY <4>1, <1>5 DEF EventsConsistent
    <3>3. QED
      BY <3>1, <3>2
  <2>3. QED
    BY <2>1, <2>2 DEF EventsConsistent
<1>9. ASSUME NEW a \in Attempts
      PROVE  /\ e.attempts[a] \in AttemptStates
             /\ d.attempts[a] # "ABSENT" => e.attempts[a] # "ABSENT"
             /\ e.attempts[a] = "COMMITTED" => d.attempts[a] \in {"ABSENT", "COMMITTED"}
             /\ e.attempts[a] = "ABSENT" => d.attempts[a] = "ABSENT"
  BY <1>0, <1>1, <1>5 DEF ReducedAttempts, Accepts, Reducible, AttemptStates
<1>10. ASSUME NEW a \in Attempts
       PROVE  /\ e.outbox[a].attempt_state = e.attempts[a]
              /\ e.attempts[a] \in Settled => e.outbox[a].invocation_state = e.attempts[a]
              /\ e.attempts[a] = "COMMITTED" =>
                    e.outbox[a].invocation_state \in {"READY", "STARTED"}
              /\ d.outbox[a].attempt_state # "ABSENT" /\ d.outbox[a].invocation_state # "READY"
                 => e.outbox[a].attempt_state # "ABSENT" /\ e.outbox[a].invocation_state # "READY"
  <2>1. e.outbox[a] =
          IF e.attempts[a] = "ABSENT" THEN d.outbox[a]
          ELSE [attempt_state |-> e.attempts[a],
                invocation_state |->
                  IF e.attempts[a] \in Settled THEN e.attempts[a]
                  ELSE IF d.outbox[a].attempt_state = "ABSENT" THEN "READY"
                  ELSE d.outbox[a].invocation_state]
    BY AppliedFields, <1>5
  <2> HIDE DEF e
  <2>2. /\ d.outbox[a].attempt_state = d.attempts[a]
        /\ d.attempts[a] = "COMMITTED" => d.outbox[a].invocation_state \in {"READY", "STARTED"}
        /\ d.attempts[a] \in AttemptStates
    BY <1>1 DEF OutboxConsistent
  <2>3. QED
    BY <2>1, <2>2, <1>9 DEF Settled, AttemptStates
<1>11. QED
  BY <1>7, <1>8, <1>10 DEF OutboxConsistent

\* A recorded rejection keeps the tables in agreement.
LEMMA RejectedConsistent ==
  ASSUME NEW d \in Databases, NEW cmd \in Commands,
         JournalConsistent(d), EventsConsistent(d), OutboxConsistent(d),
         Existing(d, cmd.op) = {}
  PROVE  /\ JournalConsistent(RejectionWritten(d, cmd))
         /\ EventsConsistent(RejectionWritten(d, cmd))
         /\ OutboxConsistent(RejectionWritten(d, cmd))
<1> DEFINE e == RejectionWritten(d, cmd)
           row == RejectedRow(d, cmd)
<1>1. /\ e.operations = d.operations \cup {row}
      /\ e.events = d.events /\ e.revision = d.revision
      /\ e.attempts = d.attempts /\ e.outbox = d.outbox
  BY RejectedFields
<1>2. row.op = cmd.op /\ row.command = cmd /\ ~ row.accepted
  BY DEF RejectedRow
<1>3. \A x \in d.operations : x.op # cmd.op
  BY DEF Existing
<1> HIDE DEF e, row
<1>4. JournalConsistent(e)
  <2>1. \A x, y \in e.operations : x.op = y.op => x = y
    BY <1>1, <1>2, <1>3 DEF JournalConsistent
  <2>2. \A x \in e.operations :
          /\ x.command.op = x.op
          /\ x.accepted => x.revision \in 1..e.revision /\ x.command.expected + 1 = x.revision
    BY <1>1, <1>2 DEF JournalConsistent
  <2>3. \A i \in 1..e.revision : \E x \in e.operations : x.accepted /\ x.revision = i
    BY <1>1 DEF JournalConsistent
  <2>4. \A x, y \in e.operations :
          x.accepted /\ y.accepted /\ x.revision = y.revision => x = y
    BY <1>1, <1>2 DEF JournalConsistent
  <2>5. QED
    BY <2>1, <2>2, <2>3, <2>4 DEF JournalConsistent
<1>5. EventsConsistent(e)
  BY <1>1 DEF EventsConsistent
<1>6. OutboxConsistent(e)
  BY <1>1 DEF OutboxConsistent
<1>7. QED
  BY <1>4, <1>5, <1>6 DEF e

-----------------------------------------------------------------------------
\* The empty database satisfies the invariant.
LEMMA InitIInv == Init => IInv
<1> SUFFICES ASSUME Init PROVE IInv
  OBVIOUS
<1>1. PICK op \in Ops, a \in Attempts :
        call = [c \in Clients |->
          [pc |-> "idle", reply |-> "none",
           command |-> [op |-> op, expected |-> 0,
                        request |-> [attempt |-> a, state |-> "SAME"]]]]
  BY DEF Init
<1>2. EmptyDatabase \in Databases
  BY DEF EmptyDatabase, Databases, OutboxRows, AttemptStates
<1>3. TypeOK
  <2>1. call \in [Clients -> Calls]
    BY <1>1 DEF Calls, Commands, Requests, Replies
  <2>2. QED
    BY <1>2, <2>1 DEF Init, TypeOK, Stages
<1>4. /\ db.operations = {} /\ db.events = << >> /\ db.revision = 0
      /\ \A b \in Attempts : db.attempts[b] = "ABSENT"
                              /\ db.outbox[b].attempt_state = "ABSENT"
  BY DEF Init, EmptyDatabase
<1>5. JournalConsistent(db) /\ EventsConsistent(db) /\ OutboxConsistent(db)
  BY <1>4 DEF JournalConsistent, EventsConsistent, OutboxConsistent, Settled
<1>6. TransactionInv
  BY DEF Init, TransactionInv
<1>7. ClaimInv
  BY DEF Init, ClaimInv
<1>8. ExpectedInv /\ AnswersAreDurable
  BY <1>1, <1>4 DEF ExpectedInv, AnswersAreDurable
<1>9. QED
  BY <1>3, <1>5, <1>6, <1>7, <1>8 DEF IInv

\* The committed tables and the claims stay: what is left is the transaction and
\* the answer of the client that moved.
LEMMA SameTables ==
  ASSUME IInv, UNCHANGED <<db, claims>>, TypeOK', TransactionInv', ExpectedInv',
         AnswersAreDurable'
  PROVE  IInv'
BY DEF IInv, ClaimInv, JournalConsistent, EventsConsistent, OutboxConsistent

\* A client may leave with any answer the journal supports.
LEMMA LeavePreserves ==
  ASSUME IInv, NEW c \in Clients, owner = c, NEW reply \in Replies, Leave(c, reply),
         LET cmd == call[c].command
         IN  /\ reply \in {"accepted", "replayed"} =>
                  \E x \in db.operations : x.command = cmd /\ x.accepted
             /\ reply = "rejected" =>
                  \E x \in db.operations : x.command = cmd /\ ~ x.accepted
             /\ reply = "conflict" =>
                  \E x \in db.operations : x.op = cmd.op /\ x.command # cmd
  PROVE  IInv'
<1>1. TypeOK'
  BY DEF IInv, TypeOK, Leave, Stages, Calls
<1>2. TransactionInv'
  BY DEF Leave, TransactionInv
<1>3. ExpectedInv'
  BY DEF IInv, TypeOK, ExpectedInv, Leave, Calls
<1>4. AnswersAreDurable'
  BY DEF IInv, TypeOK, AnswersAreDurable, Leave, Calls
<1>5. QED
  BY <1>1, <1>2, <1>3, <1>4, SameTables DEF Leave

\* A step inside a transaction changes the working tables only.
LEMMA AdvancePreserves ==
  ASSUME IInv, NEW c \in Clients, NEW from \in Stages \ {"none"}, NEW to \in Stages \ {"none"},
         NEW tables \in Databases, Advance(c, from, to, tables),
         tables = Tables(to, db, call[c].command),
         to # "begun" => Existing(db, call[c].command.op) = {},
         to \in Deciding => Accepts(db, call[c].command),
         to = "rejected" => ~ Accepts(db, call[c].command)
  PROVE  IInv'
<1>1. TypeOK'
  BY DEF IInv, TypeOK, Advance
<1>2. TransactionInv'
  BY NoneAssumption DEF IInv, Advance, TransactionInv
<1>3. ExpectedInv' /\ AnswersAreDurable'
  BY DEF IInv, ExpectedInv, AnswersAreDurable, Advance
<1>4. QED
  BY <1>1, <1>2, <1>3, SameTables DEF Advance

\* Every step of every client keeps the invariant.
LEMMA StepIInv == IInv /\ [Next]_vars => IInv'
<1> SUFFICES ASSUME IInv, [Next]_vars PROVE IInv'
  OBVIOUS
<1> USE DEF IInv
<1>0. /\ db \in Databases /\ work \in Databases
      /\ \A c \in Clients : call[c] \in Calls /\ call[c].command \in Commands
  BY DEF TypeOK, Calls
<1>1. ASSUME NEW c \in Clients, NEW op \in Ops, NEW r \in Requests, Submit(c, op, r)
      PROVE  IInv'
  <2>1. TypeOK'
    BY <1>1 DEF Submit, TypeOK, Calls, Commands, Replies, Databases
  <2>2. TransactionInv'
    BY <1>1 DEF Submit, TypeOK, TransactionInv
  <2>3. ExpectedInv'
    BY <1>1 DEF Submit, TypeOK, ExpectedInv, Databases
  <2>4. AnswersAreDurable'
    BY <1>1 DEF Submit, TypeOK, AnswersAreDurable
  <2>5. QED
    BY <2>1, <2>2, <2>3, <2>4, <1>1, SameTables DEF Submit
<1>2. ASSUME NEW c \in Clients, Resubmit(c)
      PROVE  IInv'
  <2>1. TypeOK'
    BY <1>2 DEF Resubmit, TypeOK, Calls, Replies
  <2>2. TransactionInv'
    BY <1>2 DEF Resubmit, TypeOK, TransactionInv, Calls
  <2>3. ExpectedInv' /\ AnswersAreDurable'
    BY <1>2 DEF Resubmit, TypeOK, ExpectedInv, AnswersAreDurable, Calls
  <2>4. QED
    BY <2>1, <2>2, <2>3, <1>2, SameTables DEF Resubmit
<1>3. ASSUME NEW c \in Clients, Begin(c)
      PROVE  IInv'
  <2>1. TypeOK'
    BY <1>3 DEF Begin, TypeOK, Stages
  <2>2. TransactionInv'
    <3>1. Tables("begun", db, call[c].command) = db
      BY DEF Tables
    <3>2. /\ owner' = c /\ stage' = "begun" /\ work' = db /\ db' = db /\ call' = call
          /\ call[c].pc = "waiting"
      BY <1>3 DEF Begin
    <3>3. QED
      BY <3>1, <3>2, NoneAssumption DEF TransactionInv, Deciding
  <2>3. ExpectedInv' /\ AnswersAreDurable'
    BY <1>3 DEF Begin, ExpectedInv, AnswersAreDurable
  <2>4. QED
    BY <2>1, <2>2, <2>3, <1>3, SameTables DEF Begin
<1>4. ASSUME NEW c \in Clients, Busy(c)
      PROVE  IInv'
  <2>1. TypeOK'
    BY <1>4 DEF Busy, TypeOK, Calls, Replies
  <2>2. TransactionInv'
    BY <1>4 DEF Busy, TypeOK, TransactionInv, Calls
  <2>3. ExpectedInv' /\ AnswersAreDurable'
    BY <1>4 DEF Busy, TypeOK, ExpectedInv, AnswersAreDurable, Calls
  <2>4. QED
    BY <2>1, <2>2, <2>3, <1>4, SameTables DEF Busy
<1>5. ASSUME NEW c \in Clients, Replay(c)
      PROVE  IInv'
  <2>1. work = db /\ owner = c
    BY <1>5, NoneAssumption DEF Replay, TransactionInv, Tables
  <2>2. PICK row \in Existing(db, call[c].command.op) :
          /\ row.command = call[c].command
          /\ Leave(c, IF row.accepted THEN "replayed" ELSE "rejected")
    BY <1>5, <2>1 DEF Replay
  <2>3. row \in db.operations
    BY DEF Existing
  <2>4. CASE row.accepted
    BY <2>1, <2>2, <2>3, <2>4, LeavePreserves DEF Replies
  <2>5. CASE ~ row.accepted
    BY <2>1, <2>2, <2>3, <2>5, LeavePreserves DEF Replies
  <2>6. QED
    BY <2>4, <2>5
<1>6. ASSUME NEW c \in Clients, Conflict(c)
      PROVE  IInv'
  <2>1. work = db /\ owner = c /\ Leave(c, "conflict")
    BY <1>6, NoneAssumption DEF Conflict, TransactionInv, Tables
  <2>2. \E x \in db.operations : x.op = call[c].command.op /\ x.command # call[c].command
    BY <1>6, <2>1 DEF Conflict, Existing
  <2>3. QED
    BY <2>1, <2>2, LeavePreserves DEF Replies
<1>7. ASSUME NEW c \in Clients, Reduce(c)
      PROVE  IInv'
  <2>1. work = db /\ work = Tables("reduced", db, call[c].command)
    BY <1>7, NoneAssumption DEF Reduce, Advance, TransactionInv, Tables
  <2>2. QED
    BY <1>7, <1>0, <2>1, AdvancePreserves DEF Reduce, Stages
<1>8. ASSUME NEW c \in Clients, RecordRejection(c)
      PROVE  IInv'
  <2>1. work = db
    BY <1>8, NoneAssumption DEF RecordRejection, Advance, TransactionInv, Tables
  <2>2. /\ RejectionWritten(db, call[c].command) = Tables("rejected", db, call[c].command)
        /\ RejectionWritten(db, call[c].command) \in Databases
    BY <1>0, TablesTyped DEF Tables
  <2>3. QED
    BY <1>8, <2>1, <2>2, AdvancePreserves DEF RecordRejection, Stages, Deciding
<1>9. ASSUME NEW c \in Clients,
             NEW from \in {"reduced", "operation", "events", "snapshot"},
             NEW to \in {"operation", "events", "snapshot", "outbox"},
             NEW tables \in Databases, Advance(c, from, to, tables),
             tables = Tables(to, db, call[c].command)
      PROVE  IInv'
  <2>1. /\ Existing(db, call[c].command.op) = {}
        /\ Accepts(db, call[c].command)
    BY <1>9, NoneAssumption DEF Advance, TransactionInv, Deciding
  <2>2. QED
    BY <1>9, <2>1, AdvancePreserves DEF Stages
<1>10. ASSUME NEW c \in Clients, WriteOperation(c)
       PROVE  IInv'
  <2>1. work = db
    BY <1>10, NoneAssumption DEF WriteOperation, Advance, TransactionInv, Tables
  <2>2. /\ OperationWritten(work, call[c].command) = Tables("operation", db, call[c].command)
        /\ OperationWritten(work, call[c].command) \in Databases
    BY <1>0, <2>1, TablesTyped DEF Tables
  <2>3. QED
    BY <1>9, <1>10, <2>2 DEF WriteOperation
<1>11. ASSUME NEW c \in Clients, WriteEvents(c)
       PROVE  IInv'
  <2>1. work = OperationWritten(db, call[c].command)
    BY <1>11, NoneAssumption DEF WriteEvents, Advance, TransactionInv, Tables
  <2>2. /\ EventsWritten(work, call[c].command) = Tables("events", db, call[c].command)
        /\ EventsWritten(work, call[c].command) \in Databases
    BY <1>0, <2>1, TablesTyped DEF Tables
  <2>3. QED
    BY <1>9, <1>11, <2>2 DEF WriteEvents
<1>12. ASSUME NEW c \in Clients, WriteSnapshot(c)
       PROVE  IInv'
  <2>1. work = EventsWritten(OperationWritten(db, call[c].command), call[c].command)
    BY <1>12, NoneAssumption DEF WriteSnapshot, Advance, TransactionInv, Tables
  <2>2. /\ SnapshotWritten(work, call[c].command) = Tables("snapshot", db, call[c].command)
        /\ SnapshotWritten(work, call[c].command) \in Databases
    BY <1>0, <2>1, TablesTyped DEF Tables
  <2>3. QED
    BY <1>9, <1>12, <2>2 DEF WriteSnapshot
<1>13. ASSUME NEW c \in Clients, SyncOutbox(c)
       PROVE  IInv'
  <2>1. work = SnapshotWritten(EventsWritten(OperationWritten(db, call[c].command),
                                             call[c].command), call[c].command)
    BY <1>13, NoneAssumption DEF SyncOutbox, Advance, TransactionInv, Tables
  <2>2. /\ OutboxSynced(work) = Tables("outbox", db, call[c].command)
        /\ OutboxSynced(work) \in Databases
    BY <1>0, <2>1, TablesTyped DEF Tables, Applied
  <2>3. QED
    BY <1>9, <1>13, <2>2 DEF SyncOutbox
<1>14. ASSUME NEW c \in Clients, Commit(c)
       PROVE  IInv'
  <2> DEFINE cmd == call[c].command
  <2>1. /\ owner = c /\ cmd \in Commands
        /\ stage \in {"outbox", "rejected"}
        /\ Existing(db, cmd.op) = {}
        /\ stage = "outbox" => work = Applied(db, cmd) /\ Accepts(db, cmd)
        /\ stage = "rejected" => work = RejectionWritten(db, cmd)
    BY <1>14, <1>0, NoneAssumption DEF Commit, TransactionInv, Tables, Deciding
  <2>2. /\ db' = work /\ db' \in Databases
        /\ JournalConsistent(db)' /\ EventsConsistent(db)' /\ OutboxConsistent(db)'
    BY <1>14, <1>0, <2>1, AppliedConsistent, RejectedConsistent DEF Commit
  <2>3. /\ db.operations \subseteq db'.operations
        /\ db.revision <= db'.revision
        /\ \E x \in db'.operations : x.command = cmd /\ (x.accepted <=> stage = "outbox")
    <3>1. CASE stage = "outbox"
      <4>1. /\ db'.operations = db.operations \cup {AcceptedRow(db, cmd)}
            /\ db'.revision = db.revision + 1
        BY <3>1, <1>0, <2>1, <2>2, AppliedFields
      <4>2. /\ AcceptedRow(db, cmd).command = cmd /\ AcceptedRow(db, cmd).accepted
        BY DEF AcceptedRow
      <4>3. db.revision \in Nat
        BY <1>0 DEF Databases
      <4>4. QED
        BY <3>1, <4>1, <4>2, <4>3
    <3>2. CASE stage = "rejected"
      <4>1. /\ db'.operations = db.operations \cup {RejectedRow(db, cmd)}
            /\ db'.revision = db.revision
        BY <3>2, <1>0, <2>1, <2>2, RejectedFields
      <4>2. /\ RejectedRow(db, cmd).command = cmd /\ ~ RejectedRow(db, cmd).accepted
        BY DEF RejectedRow
      <4>3. db.revision \in Nat
        BY <1>0 DEF Databases
      <4>4. QED
        BY <3>2, <4>1, <4>2, <4>3
    <3>3. QED
      BY <2>1, <3>1, <3>2
  <2>4. TypeOK'
    BY <1>14, <2>2 DEF Commit, TypeOK, Stages, Calls, Replies
  <2>5. TransactionInv'
    BY <1>14 DEF Commit, TransactionInv
  <2>6. ClaimInv'
    <3>1. CASE stage = "outbox"
      BY <3>1, <1>14, <1>0, <2>1, <2>2, AppliedConsistent DEF Commit, ClaimInv
    <3>2. CASE stage = "rejected"
      BY <3>2, <1>14, <1>0, <2>1, <2>2, RejectedFields DEF Commit, ClaimInv
    <3>3. QED
      BY <2>1, <3>1, <3>2
  <2>7. ExpectedInv'
    <3>1. \A k \in Clients : call'[k].command = call[k].command
      BY <1>14 DEF Commit, TypeOK, Calls
    <3>2. \A k \in Clients : call[k].command.expected \in Nat
      BY <1>0 DEF Commands
    <3>3. db.revision \in Nat /\ db'.revision \in Nat
      BY <1>0, <2>2 DEF Databases
    <3>4. QED
      BY <2>3, <3>1, <3>2, <3>3 DEF ExpectedInv
  <2>8. AnswersAreDurable'
    <3>1. ASSUME NEW k \in Clients, k # c, call'[k].pc # "waiting"
          PROVE  call'[k] = call[k]
      BY <1>14, <3>1 DEF Commit, TypeOK
    <3>2. /\ call'[c].command = cmd
          /\ call'[c].reply = IF stage = "outbox" THEN "accepted" ELSE "rejected"
      BY <1>14 DEF Commit, TypeOK, Calls
    <3>3. QED
      BY <2>3, <3>1, <3>2 DEF AnswersAreDurable
  <2>9. QED
    BY <2>2, <2>4, <2>5, <2>6, <2>7, <2>8
<1>15. ASSUME NEW c \in Clients, Respond(c) \/ LoseReply(c)
       PROVE  IInv'
  <2>1. TypeOK'
    BY <1>15 DEF Respond, LoseReply, TypeOK, Calls, Replies
  <2>2. TransactionInv'
    BY <1>15 DEF Respond, LoseReply, TypeOK, TransactionInv, Calls
  <2>3. ExpectedInv'
    BY <1>15 DEF Respond, LoseReply, TypeOK, ExpectedInv, Calls
  <2>4. AnswersAreDurable'
    BY <1>15 DEF Respond, LoseReply, TypeOK, AnswersAreDurable, Calls
  <2>5. QED
    BY <2>1, <2>2, <2>3, <2>4, <1>15, SameTables DEF Respond, LoseReply
<1>16. ASSUME NEW c \in Clients, Rollback(c)
       PROVE  IInv'
  BY <1>16, LeavePreserves DEF Rollback, Replies
<1>17. ASSUME NEW a \in Attempts, ClaimAttempt(a)
       PROVE  IInv'
  <2> DEFINE row == db.outbox[a]
  <2>1. /\ db'.operations = db.operations /\ db'.events = db.events
        /\ db'.revision = db.revision /\ db'.attempts = db.attempts
        /\ db'.outbox = [db.outbox EXCEPT ![a].invocation_state = "STARTED"]
        /\ db.outbox \in [Attempts -> OutboxRows]
        /\ db' \in Databases
    BY <1>17, <1>0 DEF ClaimAttempt, Databases, OutboxRows
  <2>2. TypeOK'
    BY <1>17, <2>1 DEF ClaimAttempt, TypeOK
  <2>3. TransactionInv'
    BY <1>17 DEF ClaimAttempt, TransactionInv
  <2>4. ClaimInv'
    <3>1. /\ claims \in [Attempts -> Nat] /\ claims' = [claims EXCEPT ![a] = @ + 1]
          /\ db.outbox[a].attempt_state = "COMMITTED"
          /\ db.outbox[a].invocation_state = "READY"
          /\ ClaimInv
      BY <1>17 DEF ClaimAttempt, TypeOK
    <3>2. claims[a] = 0
      BY <3>1 DEF ClaimInv
    <3>3. db'.outbox[a].attempt_state = "COMMITTED" /\ db'.outbox[a].invocation_state = "STARTED"
      BY <2>1, <3>1 DEF OutboxRows
    <3>4. \A b \in Attempts : b # a => db'.outbox[b] = db.outbox[b] /\ claims'[b] = claims[b]
      BY <2>1, <3>1
    <3>5. claims'[a] = 1
      BY <3>1, <3>2
    <3>6. QED
      BY <3>1, <3>3, <3>4, <3>5 DEF ClaimInv
  <2>5. ExpectedInv' /\ AnswersAreDurable'
    BY <1>17, <2>1 DEF ClaimAttempt, ExpectedInv, AnswersAreDurable
  <2>6. JournalConsistent(db)' /\ EventsConsistent(db)'
    BY <2>1 DEF JournalConsistent, EventsConsistent
  <2>7. OutboxConsistent(db)'
    BY <1>17, <2>1 DEF ClaimAttempt, OutboxConsistent, OutboxRows, Settled
  <2>8. QED
    BY <2>2, <2>3, <2>4, <2>5, <2>6, <2>7
<1>18. CASE UNCHANGED vars
  BY <1>18 DEF vars, TypeOK, TransactionInv, ClaimInv, ExpectedInv, JournalConsistent,
     EventsConsistent, OutboxConsistent, AnswersAreDurable
<1>19. QED
  BY <1>1, <1>2, <1>3, <1>4, <1>5, <1>6, <1>7, <1>8, <1>10, <1>11, <1>12, <1>13, <1>14,
     <1>15, <1>16, <1>17, <1>18 DEF Next, Step

(***************************************************************************)
(* The inductive invariant, and the invariants the runs check.             *)
(***************************************************************************)
THEOREM StoreInvariant == Spec => []IInv
<1>1. Init => IInv
  BY InitIInv
<1>2. IInv /\ [Next]_vars => IInv'
  BY StepIInv
<1>3. QED
  BY <1>1, <1>2, PTL DEF Spec

\* The tables, the lock and the answers always have the shape the schema gives them.
THEOREM StoreTypeOK == Spec => []TypeOK
BY StoreInvariant, PTL DEF IInv

\* No update is lost and no operation is decided twice (JournalMatchesRevision),
\* whatever clients race, crash and retry.
THEOREM StoreJournal == Spec => []JournalMatchesRevision
BY StoreInvariant, PTL DEF IInv, JournalMatchesRevision

\* The event log is the sequence of accepted operations (EventLogMatchesJournal).
THEOREM StoreEventLog == Spec => []EventLogMatchesJournal
BY StoreInvariant, PTL DEF IInv, EventLogMatchesJournal

\* The outbox rows follow the Attempts of the snapshot (OutboxMatchesSnapshot).
THEOREM StoreOutbox == Spec => []OutboxMatchesSnapshot
BY StoreInvariant, PTL DEF IInv, OutboxMatchesSnapshot

\* claim_attempt() grants every Attempt at most once (OneClaimPerAttempt).
THEOREM StoreOneClaim == Spec => []OneClaimPerAttempt
<1>1. IInv => OneClaimPerAttempt
  BY DEF IInv, ClaimInv, OneClaimPerAttempt
<1>2. QED
  BY <1>1, StoreInvariant, PTL

\* What a client was told is in the journal (AnswersAreDurable).
THEOREM StoreAnswers == Spec => []AnswersAreDurable
BY StoreInvariant, PTL DEF IInv

-----------------------------------------------------------------------------
(***************************************************************************)
(* Refinement: the steps of a transaction stutter until its commit, which  *)
(* is one decision of the abstract journal.                                *)
(***************************************************************************)
LEMMA CommitDecides ==
  ASSUME IInv, NEW c \in Clients, Commit(c)
  PROVE  Decided!Next
<1> DEFINE cmd == call[c].command
           taken == {a \in Attempts : claims[a] > 0}
<1>1. /\ db \in Databases /\ cmd \in Commands
      /\ owner = c /\ stage \in {"outbox", "rejected"}
      /\ Existing(db, cmd.op) = {}
      /\ cmd.expected <= db.revision
      /\ stage = "outbox" => work = Applied(db, cmd) /\ Accepts(db, cmd)
      /\ stage = "rejected" => work = RejectionWritten(db, cmd)
  BY NoneAssumption
  DEF IInv, TypeOK, Calls, Commit, TransactionInv, ExpectedInv, Tables, Deciding
<1>2. /\ cmd.op \in Ops /\ cmd.expected \in 0..db.revision /\ cmd.request \in Decided!Requests
      /\ cmd = [op |-> cmd.op, expected |-> cmd.expected, request |-> cmd.request]
      /\ cmd.request \in Requests
  BY <1>1 DEF Commands, Databases, Requests, Decided!Requests
<1>3. Decided!Undecided(cmd.op)
  BY <1>1 DEF Existing, Decided!Undecided
<1>4. db' = work /\ claims' = claims
  BY DEF Commit
<1>5. CASE stage = "outbox"
  <2>1. /\ db'.operations = db.operations \cup
              {[op |-> cmd.op, command |-> cmd, accepted |-> TRUE, revision |-> db.revision + 1]}
        /\ db'.revision = db.revision + 1
        /\ db'.attempts = ReducedAttempts(db, cmd.request)
    BY <1>1, <1>4, <1>5, AppliedFields DEF AcceptedRow
  <2>2. /\ cmd.expected = db.revision
        /\ Reducible(db, cmd.request)
    BY <1>1, <1>5 DEF Accepts
  <2>3. \/ cmd.request.state = "SAME" /\ db'.attempts = db.attempts
        \/ /\ cmd.request.state # "SAME"
           /\ db'.attempts = [db.attempts EXCEPT ![cmd.request.attempt] = cmd.request.state]
           /\ \/ cmd.request.state = "COMMITTED" /\ db.attempts[cmd.request.attempt] = "ABSENT"
              \/ cmd.request.state # "COMMITTED" /\ db.attempts[cmd.request.attempt] # "ABSENT"
    BY <1>2, <2>1, <2>2, RequestTypes DEF ReducedAttempts, Reducible
  <2>4. Decided!Accept(cmd)
    BY <1>3, <1>4, <2>1, <2>2, <2>3 DEF Decided!Accept
  <2>5. QED
    BY <1>2, <2>4 DEF Decided!Next
<1>6. CASE stage = "rejected"
  <2>1. /\ db'.operations = db.operations \cup
              {[op |-> cmd.op, command |-> cmd, accepted |-> FALSE, revision |-> db.revision]}
        /\ db'.revision = db.revision
        /\ db'.attempts = db.attempts
    BY <1>1, <1>4, <1>6, RejectedFields DEF RejectedRow
  <2>2. Decided!Reject(cmd)
    BY <1>3, <1>4, <2>1 DEF Decided!Reject
  <2>3. QED
    BY <1>2, <2>2 DEF Decided!Next
<1>7. QED
  BY <1>1, <1>5, <1>6

\* A granted claim is a step of the abstract specification.
LEMMA ClaimTakes ==
  ASSUME IInv, NEW a \in Attempts, ClaimAttempt(a)
  PROVE  Decided!Next
<1>1. /\ claims \in [Attempts -> Nat] /\ claims' = [claims EXCEPT ![a] = @ + 1]
      /\ claims[a] <= 1
      /\ claims[a] = 1 => db.outbox[a].invocation_state # "READY"
      /\ db.outbox[a].invocation_state = "READY"
      /\ db.attempts[a] = "COMMITTED"
  BY DEF IInv, TypeOK, ClaimAttempt, ClaimInv, OutboxConsistent
<1>2. claims[a] = 0
  BY <1>1
<1>3. {b \in Attempts : claims'[b] > 0} = {b \in Attempts : claims[b] > 0} \cup {a}
  BY <1>1, <1>2
<1>4. /\ db'.operations = db.operations /\ db'.revision = db.revision
      /\ db'.attempts = db.attempts
  BY DEF IInv, TypeOK, Databases, ClaimAttempt
<1>5. QED
  BY <1>1, <1>2, <1>3, <1>4 DEF Decided!Next, Decided!Take

\* The store implements the abstract journal (ImplementsExactlyOnce).
THEOREM StoreImplementsExactlyOnce == Spec => ImplementsExactlyOnce
<1>1. Init => Decided!Init
  BY DEF Init, EmptyDatabase, Decided!Init
<1>2. IInv /\ [Next]_vars => [Decided!Next]_(Decided!vars)
  <2> SUFFICES ASSUME IInv, [Next]_vars
               PROVE  Decided!Next \/ UNCHANGED Decided!vars
    OBVIOUS
  <2>1. CASE \E c \in Clients : Commit(c)
    BY <2>1, CommitDecides
  <2>2. CASE \E a \in Attempts : ClaimAttempt(a)
    BY <2>2, ClaimTakes
  <2>3. CASE UNCHANGED <<db, claims>>
    BY <2>3 DEF Decided!vars
  <2>4. QED
    BY <2>1, <2>2, <2>3
    DEF Next, Step, vars, Submit, Resubmit, Begin, Busy, Replay, Conflict, Leave, Reduce,
        RecordRejection, WriteOperation, WriteEvents, WriteSnapshot, SyncOutbox, Advance,
        Respond, Rollback, LoseReply
<1>3. QED
  BY <1>1, <1>2, StoreInvariant, PTL DEF Spec, ImplementsExactlyOnce, Decided!Spec

(***************************************************************************)
(* A decided operation is never rewritten (JournalImmutable): only a commit *)
(* touches the journal, and it adds one row under an id that had none.     *)
(***************************************************************************)
THEOREM StoreJournalImmutable == Spec => JournalImmutable
<1> DEFINE Grows ==
      /\ db.operations \subseteq db'.operations
      /\ \/ db'.revision = db.revision
         \/ /\ db'.revision = db.revision + 1
            /\ \E x \in db'.operations \ db.operations : x.accepted
<1>1. IInv /\ [Next]_vars => Grows \/ UNCHANGED vars
  <2> SUFFICES ASSUME IInv, [Next]_vars
               PROVE  Grows \/ UNCHANGED vars
    OBVIOUS
  <2>1. ASSUME NEW c \in Clients, Commit(c)
        PROVE  Grows
    <3> DEFINE cmd == call[c].command
    <3>1. /\ db \in Databases /\ cmd \in Commands
          /\ stage \in {"outbox", "rejected"} /\ db' = work
          /\ Existing(db, cmd.op) = {}
          /\ stage = "outbox" => work = Applied(db, cmd)
          /\ stage = "rejected" => work = RejectionWritten(db, cmd)
      BY <2>1, NoneAssumption
      DEF IInv, TypeOK, Calls, Commit, TransactionInv, Tables, Deciding
    <3>2. CASE stage = "outbox"
      <4>1. /\ db'.operations = db.operations \cup {AcceptedRow(db, cmd)}
            /\ db'.revision = db.revision + 1
        BY <3>1, <3>2, AppliedFields
      <4>2. AcceptedRow(db, cmd).op = cmd.op /\ AcceptedRow(db, cmd).accepted
        BY DEF AcceptedRow
      <4>3. AcceptedRow(db, cmd) \notin db.operations
        BY <3>1, <4>2 DEF Existing
      <4>4. QED
        BY <4>1, <4>2, <4>3
    <3>3. CASE stage = "rejected"
      BY <3>1, <3>3, RejectedFields
    <3>4. QED
      BY <3>1, <3>2, <3>3
  <2>2. ASSUME NEW a \in Attempts, ClaimAttempt(a)
        PROVE  Grows
    BY <2>2 DEF IInv, TypeOK, Databases, ClaimAttempt
  <2>3. CASE UNCHANGED db
    BY <2>3
  <2>4. QED
    BY <2>1, <2>2, <2>3
    DEF Next, Step, vars, Submit, Resubmit, Begin, Busy, Replay, Conflict, Leave, Reduce,
        RecordRejection, WriteOperation, WriteEvents, WriteSnapshot, SyncOutbox, Advance,
        Respond, Rollback, LoseReply
<1>2. QED
  BY <1>1, StoreInvariant, PTL DEF Spec, JournalImmutable
=============================================================================
