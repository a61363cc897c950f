------------------------------- MODULE Install -------------------------------
(***************************************************************************)
(* INSTALL and UNINSTALL (scripts/install.sh, scripts/uninstall_v4.py): a  *)
(* tree of files, its management program, a receipt and a pointer to it    *)
(* change together, under a lock and a journal; a run that dies is         *)
(* recovered by the next one.                                              *)
(*                                                                         *)
(* A release is named; the name stands for its tree and the inventory of   *)
(* it.  A rename and a write of one file are atomic and durable in order   *)
(* (os.replace, os.link, fsync); the removal of a tree is not.             *)
(***************************************************************************)
EXTENDS Integers, FiniteSets

CONSTANTS
  Releases,
  Manager,     \* the management program of each release
  None, Empty, \* nothing there; an empty directory
  Partial,     \* a tree half removed
  MaxRuns, MaxEdits  \* bounds

Managers == {Manager[release] : release \in Releases}
Receipts == [name : Nat, tree : Releases, manager : Managers]
InstallJournals ==
  [kind : {"INSTALL"}, name : Nat, tree : Releases, manager : Managers,
   oldTree : Releases \union {None}, oldManager : Managers \union {None},
   oldPointer : Receipts \union {None}]
UninstallJournals == [kind : {"UNINSTALL"}, receipt : Receipts]
Stagings ==
  [rollback : Releases \union {None, Partial}, failed : Releases \union {None, Partial},
   manager : Managers \union {None}, pointer : Receipts \union {None}]

ASSUME InstallAssumption ==
  /\ DOMAIN Manager = Releases /\ Partial \notin Releases
  /\ MaxRuns \in Nat /\ MaxEdits \in Nat
ASSUME NoneAssumption ==
  /\ None \notin Releases /\ None \notin Managers /\ None \notin Receipts
  /\ None \notin InstallJournals /\ None \notin UninstallJournals /\ None \notin Stagings

VARIABLES
  target,    \* skills/loopskill4
  manager,   \* the management program
  receipts,
  pointer,   \* the active receipt: its name and digest
  journal,
  staging,   \* the transaction of an install: what it set aside
  withdrawn, \* the transaction of an uninstall: the tree in it
  config,    \* the user's config.toml
  run,       \* the run that holds the lock
  runs,
  before     \* history: what was there when the journal was written

product == <<target, manager, receipts, pointer>>
transaction == <<journal, staging, withdrawn>>
vars == <<product, transaction, config, run, runs, before>>

Idle == [pc |-> "idle", op |-> "none", release |-> None, config |-> 0]

Init ==
  /\ target = None /\ manager = None /\ receipts = {} /\ pointer = None
  /\ journal = None /\ staging = None /\ withdrawn = None
  /\ config = 0 /\ run = Idle /\ runs = 0 /\ before = <<>>

At(pc) == run.pc = pc
Goto(pc) == run' = [run EXCEPT !.pc = pc]
Keep == UNCHANGED <<config, runs, before>>
End == run' = Idle
\* A recovery that finds what it cannot explain changes nothing more.
Refuse == Goto("refused")
\* A failed install runs its cleanup: recovery, when it has written the journal.
Settle == run' = [run EXCEPT !.pc = "recover", !.op = "settle"]

Ours(kind) == journal # None /\ journal.kind = kind
\* Mutation of NewReceipt: a receipt is named by its release, not by its transaction.
ReceiptOfRelease == [tree |-> journal.tree, manager |-> journal.manager]
NewReceipt == [name |-> journal.name, tree |-> journal.tree, manager |-> journal.manager]
Committed ==
  /\ NewReceipt \in receipts /\ pointer = NewReceipt
  /\ manager = journal.manager /\ target = journal.tree

\* The active receipt is there and describes the manager, and the tree if there is one.
Managed ==
  /\ pointer # None /\ pointer \in receipts
  /\ manager = pointer.manager
  /\ target \in {None, pointer.tree}

-----------------------------------------------------------------------------
(* Runs begin under the lock, and recover first. *)

Begin(op, release) ==
  /\ At("idle") /\ runs < MaxRuns /\ runs' = runs + 1
  /\ run' = [Idle EXCEPT !.pc = "recover", !.op = op, !.release = release]
  /\ UNCHANGED <<product, transaction, config, before>>

Install(release) == Begin("install", release)
\* The program that is asked to uninstall is the installed one.
Uninstall == manager # None /\ (Begin("uninstall", None) \/ Begin("check", None))

\* What recovery has to do.
Recover ==
  /\ At("recover")
  /\ \/ /\ Ours("UNINSTALL") /\ run.op # "settle"
        /\ IF journal.receipt = pointer /\ ~(target # None /\ withdrawn \notin {None, Empty})
           THEN Goto("finish") ELSE Refuse
     \/ /\ Ours("INSTALL") /\ run.op \in {"install", "settle"}
        /\ Goto(IF Committed THEN "clear" ELSE "pointer")
     \/ /\ Ours("INSTALL") /\ run.op \in {"uninstall", "check"}
        /\ End
     \/ /\ journal = None /\ run.op = "install"
        /\ Goto("sweep")
     \/ /\ journal = None /\ run.op \in {"uninstall", "check"}
        /\ IF withdrawn = None THEN Goto("validate") ELSE Refuse
  /\ UNCHANGED <<product, transaction>> /\ Keep

-----------------------------------------------------------------------------
(* recover_install_transaction, when the pointer has not been committed.   *)

\* The pointer is the old one, or the new one, whose predecessor was kept.
RestorePointer ==
  /\ At("pointer")
  /\ LET old  == journal.oldPointer
         new  == NewReceipt \in receipts /\ pointer = NewReceipt
         kept == old = None \/ (staging # None /\ staging.pointer = old)
     IN  IF pointer = old \/ (new /\ kept)
         THEN pointer' = old /\ Goto("receipt")
         ELSE UNCHANGED pointer /\ Refuse
  /\ UNCHANGED <<target, manager, receipts, transaction>> /\ Keep

RemoveReceipt ==
  /\ At("receipt")
  /\ receipts' = receipts \ {NewReceipt}
  /\ Goto("manager")
  /\ UNCHANGED <<target, manager, pointer, transaction>> /\ Keep

\* Mutation of RestoreManager: the new program stays, it can uninstall the old tree.
ManagerStays ==
  /\ At("manager") /\ Goto("target")
  /\ UNCHANGED <<product, transaction>> /\ Keep
RestoreManager ==
  /\ At("manager")
  /\ LET old == journal.oldManager
         backed == old = None \/ (staging # None /\ staging.manager = old)
     IN  IF backed /\ manager \in {old, journal.manager, None}
              /\ (manager = None => old = None)
         THEN manager' = old /\ Goto("target")
         ELSE UNCHANGED manager /\ Refuse
  /\ UNCHANGED <<target, receipts, pointer, transaction>> /\ Keep

\* A tree in the target must be the new one: it is set aside.
SetAside ==
  /\ At("target")
  /\ LET old == journal.oldTree
     IN  IF target = None
         THEN UNCHANGED <<target, staging>> /\ Goto("restore")
         ELSE IF /\ target = journal.tree /\ staging # None
                 /\ staging.rollback = old /\ (old # None => staging.failed = None)
         THEN /\ staging' = IF old = None THEN [staging EXCEPT !.rollback = target]
                            ELSE [staging EXCEPT !.failed = target]
              /\ target' = None /\ Goto("restore")
         ELSE UNCHANGED <<target, staging>> /\ Refuse
  /\ UNCHANGED <<manager, receipts, pointer, journal, withdrawn>> /\ Keep

\* The old one comes back.
RestoreTarget ==
  /\ At("restore")
  /\ IF journal.oldTree = None
     THEN UNCHANGED <<target, staging>> /\ Goto("clear")
     ELSE IF staging # None /\ staging.rollback = journal.oldTree
     THEN /\ target' = journal.oldTree
          /\ staging' = [staging EXCEPT !.rollback = None]
          /\ Goto("clear")
     ELSE UNCHANGED <<target, staging>> /\ Refuse
  /\ UNCHANGED <<manager, receipts, pointer, journal, withdrawn>> /\ Keep

ClearStaging ==
  /\ At("clear") \/ At("sweep")
  /\ staging' = None
  /\ Goto(IF At("sweep") THEN "stage" ELSE "unlink")
  /\ UNCHANGED <<product, journal, withdrawn>> /\ Keep

\* The journal goes last.
Unlink ==
  /\ At("unlink")
  /\ journal' = None
  /\ IF run.op \in {"settle", "withdraw"} THEN End ELSE Goto("recover")
  /\ UNCHANGED <<product, staging, withdrawn>> /\ Keep

-----------------------------------------------------------------------------
(* INSTALL *)

Stage ==
  /\ At("stage")
  /\ staging' = [rollback |-> None, failed |-> None, manager |-> None, pointer |-> None]
  /\ Goto("judge")
  /\ UNCHANGED <<product, journal, withdrawn>> /\ Keep

\* What is there must be managed, or not be there at all; what is installed is not
\* installed again.  The old manager and pointer are kept.
Judge ==
  /\ At("judge")
  /\ IF \/ (manager = None) # (pointer = None)
        \/ manager # None /\ ~(Managed /\ withdrawn = None)
        \/ target # None /\ manager = None
        \/ target = run.release
     THEN staging' = None /\ End
     ELSE /\ staging' = [staging EXCEPT !.manager = manager, !.pointer = pointer]
          /\ Goto("journal")
  /\ UNCHANGED <<product, journal, withdrawn>> /\ Keep

WriteJournal ==
  /\ At("journal")
  /\ journal' = [kind |-> "INSTALL", name |-> runs, tree |-> run.release,
                 manager |-> Manager[run.release], oldTree |-> target,
                 oldManager |-> manager, oldPointer |-> pointer]
  /\ before' = product
  /\ run' = [run EXCEPT !.pc = "withdraw", !.config = config]
  /\ UNCHANGED <<product, staging, withdrawn, config, runs>>

\* Mutation of MoveOld: the old tree is removed, the new one is at hand.
RemoveOld ==
  /\ At("withdraw")
  /\ target' = None
  /\ Goto("place")
  /\ UNCHANGED <<manager, receipts, pointer, transaction>> /\ Keep
\* The old tree is set aside, the new one takes its place.
MoveOld ==
  /\ At("withdraw")
  /\ target' = None
  /\ staging' = [staging EXCEPT !.rollback = target]
  /\ Goto("place")
  /\ UNCHANGED <<manager, receipts, pointer, journal, withdrawn>> /\ Keep

MoveNew ==
  /\ At("place")
  /\ target' = run.release
  /\ Goto("verify")
  /\ UNCHANGED <<manager, receipts, pointer, transaction>> /\ Keep

\* The installed tree is verified; the configuration must not have changed meanwhile.
Verify ==
  /\ At("verify")
  /\ IF config = run.config THEN Goto("program") ELSE Settle
  /\ UNCHANGED <<product, transaction>> /\ Keep

PutManager ==
  /\ At("program")
  /\ manager' = Manager[run.release]
  /\ Goto("receive")
  /\ UNCHANGED <<target, receipts, pointer, transaction>> /\ Keep

PutReceipt ==
  /\ At("receive")
  /\ receipts' = receipts \union {NewReceipt}
  /\ Goto("commit")
  /\ UNCHANGED <<target, manager, pointer, transaction>> /\ Keep

\* The pointer commits; what follows is the recovery of a committed install.  (The check
\* after it changes nothing.)
PutPointer ==
  /\ At("commit")
  /\ pointer' = NewReceipt
  /\ Settle
  /\ UNCHANGED <<target, manager, receipts, transaction>> /\ Keep

\* A step of an install fails, and its cleanup recovers.
Fail ==
  /\ run.pc \in {"withdraw", "place", "verify", "program", "receive", "commit"}
  /\ Settle
  /\ UNCHANGED <<product, transaction>> /\ Keep

-----------------------------------------------------------------------------
(* UNINSTALL *)

Validate ==
  /\ At("validate")
  /\ IF Managed /\ target # None /\ run.op = "uninstall"
     THEN /\ journal' = [kind |-> "UNINSTALL", receipt |-> pointer]
          /\ before' = product
          /\ run' = [run EXCEPT !.pc = "mkdir", !.config = config]
     ELSE UNCHANGED <<journal, before>> /\ End
  /\ UNCHANGED <<product, staging, withdrawn, config, runs>>

MakeTransaction ==
  /\ At("mkdir")
  /\ withdrawn' = Empty
  /\ Goto("rename")
  /\ UNCHANGED <<product, journal, staging>> /\ Keep

\* The rename commits; one that fails is undone.
Withdraw ==
  /\ At("rename")
  /\ \/ target' = None /\ withdrawn' = target /\ Goto("purge")
     \/ /\ UNCHANGED target /\ withdrawn' = None
        /\ run' = [run EXCEPT !.pc = "unlink", !.op = "withdraw"]
  /\ UNCHANGED <<manager, receipts, pointer, journal, staging>> /\ Keep

\* A configuration that changed is reported; the journal then stays for the next run.
Purge ==
  /\ At("purge")
  /\ \/ /\ config # run.config
        /\ End /\ UNCHANGED withdrawn
     \/ /\ config = run.config
        /\ withdrawn' = Empty
        /\ Goto("purged")
  /\ UNCHANGED <<product, journal, staging>> /\ Keep

Purged ==
  /\ At("purged")
  /\ \/ config # run.config /\ End /\ UNCHANGED withdrawn
     \/ /\ config = run.config /\ withdrawn' = None
        /\ run' = [run EXCEPT !.pc = "unlink", !.op = "withdraw"]
  /\ UNCHANGED <<product, journal, staging>> /\ Keep

\* Mutation of Finish: a withdrawn tree is put back.
FinishBackward ==
  /\ At("finish")
  /\ target' = IF withdrawn \in {None, Empty} THEN target ELSE withdrawn
  /\ withdrawn' = None
  /\ Goto("unlink")
  /\ UNCHANGED <<manager, receipts, pointer, journal, staging>> /\ Keep
\* Recovery of an uninstall: before the rename nothing happened, after it only the
\* removal is left.
Finish ==
  /\ At("finish")
  /\ withdrawn' = None
  /\ Goto("unlink")
  /\ UNCHANGED <<product, journal, staging>> /\ Keep

-----------------------------------------------------------------------------
(* The user and crashes. *)

\* Codex or the user writes config.toml.
EditConfig ==
  /\ config < MaxEdits /\ config' = config + 1
  /\ UNCHANGED <<product, transaction, run, runs, before>>

\* A refused recovery exits and leaves everything for a human.
GiveUp ==
  /\ At("refused")
  /\ End
  /\ UNCHANGED <<product, transaction>> /\ Keep

\* Killed: what a removal had reached is gone.
Removed(tree) == IF tree = None THEN {None} ELSE {tree, Partial, None}
Crash ==
  /\ ~At("idle") /\ End
  /\ \/ UNCHANGED <<staging, withdrawn>>
     \/ /\ At("clear") \/ At("sweep")
        /\ staging # None
        /\ \E rollback \in Removed(staging.rollback), failed \in Removed(staging.failed),
              program \in {staging.manager, None}, active \in {staging.pointer, None} :
             staging' = [rollback |-> rollback, failed |-> failed,
                         manager |-> program, pointer |-> active]
        /\ UNCHANGED withdrawn
     \/ /\ At("purge") \/ At("finish")
        /\ withdrawn \notin {None, Empty}
        /\ withdrawn' \in {Partial, Empty}
        /\ UNCHANGED staging
  /\ UNCHANGED <<product, journal>> /\ Keep

Next ==
  \/ \E release \in Releases : Install(release)
  \/ Uninstall \/ Recover
  \/ RestorePointer \/ RemoveReceipt \/ RestoreManager \/ SetAside \/ RestoreTarget
  \/ ClearStaging \/ Unlink
  \/ Stage \/ Judge \/ WriteJournal \/ MoveOld \/ MoveNew \/ Verify
  \/ PutManager \/ PutReceipt \/ PutPointer \/ Fail
  \/ Validate \/ MakeTransaction \/ Withdraw \/ Purge \/ Purged \/ Finish
  \/ EditConfig \/ GiveUp \/ Crash

Spec == Init /\ [][Next]_vars

-----------------------------------------------------------------------------
(* Properties. *)

\* What a transaction may leave behind: what it found, or what it was for.
After ==
  IF journal.kind = "UNINSTALL" THEN <<None, before[2], before[3], before[4]>>
  ELSE <<journal.tree, journal.manager, before[3] \union {NewReceipt}, NewReceipt>>

\* "exact rollback at each pre-commit fault boundary" (CHANGELOG.md:55): however often an
\* install, an uninstall and their recoveries die or fail, the journal is removed only when
\* tree, manager, receipts and pointer are all as before or all as intended.
AllOrNothing ==
  [][journal # None /\ journal' = None => product' \in {before, After}]_vars

\* "exact rollback bytes until the new active pointer commits" (release-notes-v4.2.md:37):
\* the tree and the manager that were there are never without a whole copy, in place or in
\* the staging of the transaction.
PriorBytesKept ==
  (Ours("INSTALL") /\ pointer # NewReceipt /\ product # before) =>
    /\ target = journal.oldTree \/ staging.rollback = journal.oldTree
    /\ manager = journal.oldManager \/ staging.manager = journal.oldManager
    /\ pointer = journal.oldPointer

\* A committed install and a committed uninstall go forward only: no recovery brings back
\* the pointer that was replaced, nor a tree that was withdrawn.
CommittedGoesForward ==
  [][/\ Ours("INSTALL") /\ Committed => pointer' = pointer /\ target' = target
     /\ Ours("UNINSTALL") /\ target = None => target' = None]_vars

\* Outside a transaction the active receipt describes what is installed.
SettledIsManaged ==
  journal = None =>
    /\ withdrawn = None
    /\ (pointer = None) = (manager = None)
    /\ IF pointer = None THEN target = None ELSE Managed

\* "fail-closed crash recovery on the next invocation" (CHANGELOG.md:155): the next run
\* recovers what a crash left.
RecoversNext == ~At("refused")
=============================================================================
