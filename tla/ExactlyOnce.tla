----------------------------- MODULE ExactlyOnce -----------------------------
(***************************************************************************)
(* What the loop store promises its callers: every operation id is decided *)
(* at most once, an accepted command saw the very revision it names and    *)
(* produces the next one, a rejection is remembered like an acceptance,    *)
(* and every committed Attempt can be taken by an executor at most once.   *)
(* Transactions, crashes, retries and the outbox table are not visible.    *)
(***************************************************************************)
EXTENDS Naturals

CONSTANTS
  Ops,       \* operation ids
  Attempts,  \* Attempt references
  Outcomes   \* the outcomes observations report

VARIABLES
  journal,    \* decided operations
  revision,   \* the loop revision
  attempts,   \* state of every Attempt in the snapshot
  taken       \* Attempts whose invocation has been claimed

\* "SAME" stands for every command that leaves the Attempts alone.
Requests == [attempt : Attempts, state : {"SAME", "COMMITTED"} \cup Outcomes]

Init ==
  /\ journal = {}
  /\ revision = 0
  /\ attempts = [a \in Attempts |-> "ABSENT"]
  /\ taken = {}

Undecided(op) == \A row \in journal : row.op # op

(***************************************************************************)
(* An undecided operation becomes an accepted one.                         *)
(***************************************************************************)
Accept(cmd) ==
  /\ Undecided(cmd.op)
  /\ cmd.expected = revision
  /\ revision' = revision + 1
  /\ journal' = journal \cup
       {[op |-> cmd.op, command |-> cmd, accepted |-> TRUE, revision |-> revision + 1]}
  /\ \/ cmd.request.state = "SAME" /\ UNCHANGED attempts
     \/ /\ cmd.request.state # "SAME"
        /\ attempts' = [attempts EXCEPT ![cmd.request.attempt] = cmd.request.state]
        /\ \/ cmd.request.state = "COMMITTED" /\ attempts[cmd.request.attempt] = "ABSENT"
           \/ cmd.request.state # "COMMITTED" /\ attempts[cmd.request.attempt] # "ABSENT"
  /\ UNCHANGED taken

(***************************************************************************)
(* An undecided operation becomes a rejected one; nothing else changes.    *)
(***************************************************************************)
Reject(cmd) ==
  /\ Undecided(cmd.op)
  /\ journal' = journal \cup
       {[op |-> cmd.op, command |-> cmd, accepted |-> FALSE, revision |-> revision]}
  /\ UNCHANGED <<revision, attempts, taken>>

Take(a) ==
  /\ attempts[a] = "COMMITTED"
  /\ a \notin taken
  /\ taken' = taken \cup {a}
  /\ UNCHANGED <<journal, revision, attempts>>

\* A command names the current revision or one its author read earlier.
Next ==
  \/ \E op \in Ops, e \in 0..revision, r \in Requests :
       LET cmd == [op |-> op, expected |-> e, request |-> r]
       IN  Accept(cmd) \/ Reject(cmd)
  \/ \E a \in Attempts : Take(a)

vars == <<journal, revision, attempts, taken>>
Spec == Init /\ [][Next]_vars
=============================================================================
