---------------------------- MODULE InstallProofs ----------------------------
(***************************************************************************)
(* Theorems about Install: for any releases, and however often installs,   *)
(* uninstalls and their recoveries die or fail, a transaction ends with    *)
(* all of its changes or with none.                                        *)
(***************************************************************************)
EXTENDS Install, TLAPS

Operations == {"install", "uninstall", "check"}
Forward == {"withdraw", "place", "verify", "program", "receive", "commit"}
Backward == {"pointer", "receipt", "manager", "target", "restore"}
Opening == {"sweep", "stage", "judge", "journal"}
Removing == {"mkdir", "rename", "purge", "purged", "finish"}
Anytime == {"idle", "recover", "refused"}
Pcs == Anytime \union Forward \union Backward \union Opening \union Removing
         \union {"validate", "clear", "unlink"}

RunRecords == [pc : Pcs, op : Operations \union {"none", "settle", "withdraw"},
               release : Releases \union {None}, config : Nat]

TypeOK ==
  /\ target \in Releases \union {None} /\ manager \in Managers \union {None}
  /\ receipts \subseteq Receipts /\ pointer \in Receipts \union {None}
  /\ journal \in InstallJournals \union UninstallJournals \union {None}
  /\ staging \in Stagings \union {None}
  /\ withdrawn \in Releases \union {None, Empty, Partial}
  /\ config \in Nat /\ runs \in Nat
  /\ run \in RunRecords

\* What a tree, a manager, receipts and a pointer are outside a transaction.
Consistent(tree, program, kept, active) ==
  /\ (active = None) = (program = None)
  /\ active = None => tree = None
  /\ active # None =>
       active \in kept /\ program = active.manager /\ tree \in {None, active.tree}

\* A run has the number of its beginning; a receipt is named by the run that wrote it.
NamesBelow(bound) == \A receipt \in receipts : receipt.name < bound
Runs ==
  /\ run.op = "install" => run.release \in Releases
  /\ run.pc = "recover" => run.op \in Operations \union {"settle"}
  /\ NamesBelow(runs + 1)
  /\ ~Ours("INSTALL") /\ run.pc # "idle" => NamesBelow(runs)

\* No journal.
Between ==
  journal = None =>
    /\ run.pc \in Anytime \union Opening \union {"validate"}
    /\ run.pc = "recover" => run.op # "settle"
    /\ run.pc \in Opening => run.op = "install"
    /\ withdrawn = None
    /\ Consistent(target, manager, receipts, pointer)
    /\ run.pc = "judge" =>
         staging = [rollback |-> None, failed |-> None, manager |-> None, pointer |-> None]
    /\ run.pc = "journal" =>
         /\ staging = [rollback |-> None, failed |-> None, manager |-> manager, pointer |-> pointer]
         /\ target # run.release

\* An install that has set the old tree aside: it has a copy of what was there.
Working ==
  /\ staging # None /\ staging.rollback = journal.oldTree
  /\ staging.manager = journal.oldManager
  /\ target \in {None, journal.tree} /\ pointer = journal.oldPointer
  /\ manager \in {journal.oldManager, journal.manager}
  /\ manager # journal.oldManager => target = journal.tree
  /\ NewReceipt \in receipts => target = journal.tree /\ manager = journal.manager

\* The journal of an install.
Found ==
  /\ before = <<journal.oldTree, journal.oldManager, before[3], journal.oldPointer>>
  /\ Consistent(before[1], before[2], before[3], before[4])
  /\ \A receipt \in before[3] : receipt.name < journal.name
  /\ journal.tree # journal.oldTree /\ journal.name <= runs
  /\ withdrawn = None

Stages ==
  /\ run.pc \in Anytime \union Forward \union Backward \union {"clear", "unlink"}
  /\ run.pc \in Forward =>
       /\ run.op = "install" /\ run.release = journal.tree
       /\ journal.manager = Manager[journal.tree] /\ journal.name = runs
  /\ run.pc \in Backward \union {"clear", "unlink"} => run.op \in {"install", "settle"}
  /\ run.pc \notin Forward \union {"idle"} /\ run.op # "settle" => journal.name < runs

Progress ==
  /\ receipts \ {NewReceipt} = before[3]
  /\ pointer = NewReceipt => Committed
  /\ Committed \/ product = before \/ Working
  /\ run.pc \in Forward =>
       staging # None /\ staging.manager = journal.oldManager /\ pointer = journal.oldPointer
  /\ run.pc = "withdraw" => product = before
  /\ run.pc \in {"place", "verify", "program", "receive", "commit"} => Working
  /\ run.pc = "place" => target = None
  /\ run.pc \in {"verify", "program", "receive", "commit"} => target = journal.tree
  /\ run.pc \in {"place", "verify", "program"} => manager = journal.oldManager
  /\ run.pc \in {"place", "verify", "program", "receive"} => NewReceipt \notin receipts
  /\ run.pc \in {"receive", "commit"} => manager = journal.manager
  /\ run.pc = "commit" => NewReceipt \in receipts
  /\ run.pc \in Backward => pointer = journal.oldPointer
  /\ run.pc \in {"manager", "target", "restore"} => NewReceipt \notin receipts
  /\ run.pc \in {"target", "restore"} => manager = journal.oldManager
  /\ run.pc = "restore" => target = None
  /\ run.pc \in {"clear", "unlink"} => Committed \/ product = before

Installing == Ours("INSTALL") => Found /\ Stages /\ Progress

\* The journal of an uninstall: only the tree changes, and a withdrawn one is not put back.
Uninstalling ==
  Ours("UNINSTALL") =>
    /\ run.pc \in Anytime \union Removing \union {"unlink"}
    /\ run.pc = "recover" => run.op # "settle"
    /\ run.pc = "finish" => run.op \in Operations
    /\ run.pc = "unlink" => run.op \in Operations \union {"withdraw"}
    /\ before = <<before[1], manager, receipts, pointer>>
    /\ Consistent(before[1], manager, receipts, pointer)
    /\ journal.receipt = pointer /\ before[1] # None
    /\ target \in {None, before[1]}
    /\ target # None => withdrawn \in {None, Empty}
    /\ run.pc \in {"mkdir", "rename"} => target # None
    /\ run.pc \in {"purge", "purged"} => target = None
    /\ run.pc = "unlink" => withdrawn = None

IInv == TypeOK /\ Runs /\ Between /\ Installing /\ Uninstalling

-----------------------------------------------------------------------------
\* Where a run is says which journal there is.
LEMMA Situation ==
  ASSUME IInv
  PROVE  /\ journal = None \/ Ours("INSTALL") \/ Ours("UNINSTALL")
         /\ ~(Ours("INSTALL") /\ Ours("UNINSTALL"))
         /\ run.pc \in Opening \union {"validate"} => journal = None
         /\ run.pc \in Forward \union Backward \union {"clear"} => Ours("INSTALL")
         /\ run.pc \in Removing => Ours("UNINSTALL")
         /\ run.pc = "unlink" => journal # None
         /\ Ours("INSTALL") => journal \in InstallJournals
         /\ Ours("UNINSTALL") => journal \in UninstallJournals
<1>1. journal = None \/ Ours("INSTALL") \/ Ours("UNINSTALL")
  BY DEF IInv, TypeOK, Ours, InstallJournals, UninstallJournals
<1>2. /\ ~(Ours("INSTALL") /\ Ours("UNINSTALL"))
      /\ Ours("INSTALL") => journal \in InstallJournals
      /\ Ours("UNINSTALL") => journal \in UninstallJournals
  BY DEF IInv, TypeOK, Ours, InstallJournals, UninstallJournals
<1> QED BY <1>1, <1>2 DEF IInv, Between, Installing, Stages, Uninstalling, Anytime, Forward,
   Backward, Opening, Removing

-----------------------------------------------------------------------------
(*****************************************************************************)
(* Recovery: every run begins with it.                                       *)
(*****************************************************************************)
LEMMA BeginPreserves ==
  ASSUME IInv, NEW op \in Operations, NEW release \in Releases \union {None},
         op = "install" => release \in Releases, Begin(op, release)
  PROVE  IInv'
<1>0. run' = [pc |-> "recover", op |-> op, release |-> release, config |-> 0]
  BY DEF Begin, Idle
<1>1. TypeOK'
  BY <1>0 DEF Begin, IInv, TypeOK, RunRecords, product, transaction, Pcs, Anytime
<1>2. Runs'
  BY DEF Begin, IInv, TypeOK, Runs, NamesBelow, Receipts, product
<1>3. Between'
  BY DEF Begin, IInv, Between, product, transaction, Anytime, Opening, Operations
<1>4. Installing'
  BY DEF Begin, IInv, TypeOK, Installing, Found, Stages, Progress, Working, Ours, Committed,
     NewReceipt, InstallJournals, UninstallJournals, product, transaction, Anytime, Forward,
     Backward
<1>5. Uninstalling'
  BY DEF Begin, IInv, Uninstalling, Ours, product, transaction, Anytime, Operations
<1> QED BY <1>1, <1>2, <1>3, <1>4, <1>5 DEF IInv

LEMMA RecoverPreserves ==
  ASSUME IInv, Recover
  PROVE  IInv'
<1>1. TypeOK'
  BY DEF Recover, IInv, TypeOK, RunRecords, Goto, Keep, End, Refuse, Idle, product, transaction,
     Pcs, Anytime, Backward, Opening, Removing
<1>2. Runs'
  BY DEF Recover, IInv, TypeOK, RunRecords, Runs, NamesBelow, Ours, At, Goto, Keep, End, Refuse,
     Idle, product, transaction
<1>3. Between'
  BY DEF Recover, IInv, TypeOK, RunRecords, Between, Ours, Goto, product, transaction, Opening
<1>4. Installing'
  BY DEF Recover, IInv, TypeOK, RunRecords, Installing, Found, Stages, Progress, Working, Ours,
     Committed, NewReceipt, At, Goto, Keep, End, Idle, product, transaction, Anytime, Forward,
     Backward
<1>5. Uninstalling'
  BY DEF Recover, IInv, TypeOK, RunRecords, Runs, Uninstalling, Ours, At, Goto, Keep, product,
     transaction, Removing
<1> QED BY <1>1, <1>2, <1>3, <1>4, <1>5 DEF IInv

LEMMA RestorePointerPreserves ==
  ASSUME IInv, RestorePointer
  PROVE  IInv'
<1>1. TypeOK'
  BY DEF RestorePointer, IInv, TypeOK, RunRecords, Stagings, Goto, Keep, Refuse, transaction,
     Pcs, Anytime, Backward
<1>2. Runs'
  BY DEF RestorePointer, IInv, TypeOK, RunRecords, Runs, NamesBelow, Ours, At, Goto, Keep,
     Refuse, transaction
<1>3. Between'
  BY DEF RestorePointer, IInv, Between, At, transaction, Anytime, Opening
<1>4. Installing'
  BY DEF RestorePointer, IInv, TypeOK, RunRecords, Installing, Found, Stages, Progress, Working,
     Ours, Committed, NewReceipt, At, Goto, Keep, product, transaction, Forward, Backward
<1>5. Uninstalling'
  BY DEF RestorePointer, IInv, Uninstalling, Ours, At, transaction, Anytime, Removing
<1> QED BY <1>1, <1>2, <1>3, <1>4, <1>5 DEF IInv

LEMMA RemoveReceiptPreserves ==
  ASSUME IInv, RemoveReceipt
  PROVE  IInv'
<1>1. TypeOK'
  BY DEF RemoveReceipt, IInv, TypeOK, RunRecords, Goto, Keep, transaction, Pcs, Backward
<1>2. Runs'
  BY DEF RemoveReceipt, IInv, Runs, NamesBelow, Ours, At, Goto, Keep, transaction
<1>3. Between'
  BY DEF RemoveReceipt, IInv, Between, At, transaction, Anytime, Opening
<1>4. Installing'
  BY NoneAssumption DEF RemoveReceipt, IInv, TypeOK, Consistent, Installing, Found, Stages,
     Progress, Working, Ours, Committed, NewReceipt, At, Goto, Keep, product, transaction, Forward,
     Backward
<1>5. Uninstalling'
  BY DEF RemoveReceipt, IInv, Uninstalling, Ours, At, transaction, Anytime, Removing
<1> QED BY <1>1, <1>2, <1>3, <1>4, <1>5 DEF IInv

LEMMA RestoreManagerPreserves ==
  ASSUME IInv, RestoreManager
  PROVE  IInv'
<1>1. TypeOK'
  BY DEF RestoreManager, IInv, TypeOK, RunRecords, Stagings, Goto, Keep, Refuse, transaction,
     Pcs, Anytime, Backward
<1>2. Runs'
  BY DEF RestoreManager, IInv, TypeOK, RunRecords, Runs, NamesBelow, Ours, At, Goto, Keep,
     Refuse, transaction
<1>3. Between'
  BY DEF RestoreManager, IInv, Between, At, transaction, Anytime, Opening
<1>4. Installing'
  BY DEF RestoreManager, IInv, TypeOK, RunRecords, Installing, Found, Stages, Progress, Working,
     Ours, Committed, NewReceipt, At, Goto, Keep, Refuse, product, transaction, Anytime, Forward,
     Backward
<1>5. Uninstalling'
  BY DEF RestoreManager, IInv, Uninstalling, Ours, At, transaction, Anytime, Removing
<1> QED BY <1>1, <1>2, <1>3, <1>4, <1>5 DEF IInv

LEMMA SetAsidePreserves ==
  ASSUME IInv, SetAside
  PROVE  IInv'
<1>0. run' \in RunRecords /\ run'.op = run.op /\ run'.release = run.release
      /\ run'.pc \in {"restore", "refused"} /\ (run'.pc = "restore" => target' = None)
  BY DEF SetAside, Goto, Refuse, IInv, TypeOK, RunRecords, Pcs, Anytime, Backward
<1>1. TypeOK'
  BY <1>0 DEF SetAside, IInv, TypeOK, Stagings, Keep
<1>2. Runs'
  BY <1>0 DEF SetAside, IInv, Runs, NamesBelow, Ours, At, Keep
<1>3. Between'
  BY DEF SetAside, IInv, Between, At, Anytime, Opening
<1>4. Installing'
  <2> SUFFICES ASSUME Ours("INSTALL") PROVE Found' /\ Stages' /\ Progress'
    BY DEF SetAside, Installing, Ours
  <2>1. /\ Found /\ Stages /\ Progress /\ run.pc = "target"
        /\ UNCHANGED <<manager, receipts, pointer, journal, withdrawn, runs, before>>
    BY DEF SetAside, IInv, Installing, At, Keep
  <2>2. Found' /\ Stages'
    BY <1>0, <2>1 DEF Found, Stages, Anytime, Forward, Backward
  <2>3. /\ NewReceipt' = NewReceipt /\ NewReceipt \notin receipts
        /\ ~Committed /\ ~Committed' /\ pointer # NewReceipt
    BY <2>1 DEF NewReceipt, Committed, Progress
  <2>4. CASE target = None \/ target # journal.tree
    <3>1. UNCHANGED <<target, staging>>
      BY <2>4 DEF SetAside
    <3> QED BY <1>0, <2>1, <2>2, <2>3, <3>1 DEF Progress, Working, Committed,
         product, Forward, Backward
  <2>5. CASE target # None /\ target = journal.tree
    <3>1. product # before /\ Working
      BY <2>1, <2>3, <2>5 DEF Progress, Found, product
    <3>2. CASE UNCHANGED <<target, staging>>
      BY <1>0, <2>1, <2>2, <2>3, <3>1, <3>2 DEF Progress, Working, product, Forward, Backward
    <3>3. CASE target' = None /\ journal.oldTree = None
      <4>1. product' = before
        BY <2>1, <3>3 DEF product, Found, Progress, Backward
      <4> QED BY <1>0, <2>1, <2>2, <2>3, <3>1, <4>1 DEF Progress, Forward, Backward
    <3>4. CASE target' = None /\ staging' = [staging EXCEPT !.failed = target]
      <4>1. staging \in Stagings /\ target \in Releases
        BY <2>5, <3>1 DEF Working, IInv, TypeOK
      <4>2. /\ staging' \in Stagings /\ staging' # None
            /\ staging'.rollback = staging.rollback /\ staging'.manager = staging.manager
        BY <3>4, <4>1, NoneAssumption DEF Stagings
      <4>3. Working'
        BY <2>1, <2>3, <3>1, <3>4, <4>2 DEF Working, Progress, Backward
      <4> QED BY <1>0, <2>1, <2>2, <2>3, <3>1, <3>4, <4>3 DEF Progress, Forward, Backward
    <3> QED BY <2>5, <3>2, <3>3, <3>4 DEF SetAside
  <2> QED BY <2>4, <2>5
<1>5. Uninstalling'
  BY DEF SetAside, IInv, Uninstalling, Ours, At, Anytime, Removing
<1> QED BY <1>1, <1>2, <1>3, <1>4, <1>5 DEF IInv

LEMMA RestoreTargetPreserves ==
  ASSUME IInv, RestoreTarget
  PROVE  IInv'
<1>1. TypeOK'
  BY DEF RestoreTarget, IInv, TypeOK, RunRecords, Between, Uninstalling, Ours, InstallJournals,
     UninstallJournals, Stagings, At, Goto, Keep, Refuse, Pcs, Anytime, Opening, Removing
<1>2. Runs'
  BY DEF RestoreTarget, IInv, TypeOK, RunRecords, Runs, NamesBelow, Ours, At, Goto, Keep, Refuse
<1>3. Between'
  BY DEF RestoreTarget, IInv, Between, At, Anytime, Opening
<1>4. Installing'
  BY Situation DEF RestoreTarget, IInv, TypeOK, RunRecords, Runs, NamesBelow, Between,
     Installing, Found, Stages, Progress, Working, Ours, Committed, NewReceipt, InstallJournals,
     Stagings, Receipts, Managers, At, Goto, Keep, End, Refuse, Settle, Idle, product, Anytime,
     Forward, Backward, Opening, Removing
<1>5. Uninstalling'
  BY DEF RestoreTarget, IInv, Uninstalling, Ours, At, Anytime, Removing
<1> QED BY <1>1, <1>2, <1>3, <1>4, <1>5 DEF IInv

LEMMA ClearStagingPreserves ==
  ASSUME IInv, ClearStaging
  PROVE  IInv'
<1>1. TypeOK'
  BY DEF ClearStaging, IInv, TypeOK, RunRecords, Goto, Keep, product, Pcs, Opening
<1>2. Runs'
  BY DEF ClearStaging, IInv, Runs, NamesBelow, Ours, At, Goto, Keep, product
<1>3. Between'
  BY DEF ClearStaging, IInv, Between, At, Goto, product, Anytime, Opening
<1>4. Installing'
  BY DEF ClearStaging, IInv, Installing, Found, Stages, Progress, Ours, Committed, NewReceipt,
     At, Goto, Keep, product, Anytime, Forward, Backward
<1>5. Uninstalling'
  BY DEF ClearStaging, IInv, Uninstalling, Ours, At, Anytime, Removing
<1> QED BY <1>1, <1>2, <1>3, <1>4, <1>5 DEF IInv

LEMMA UnlinkPreserves ==
  ASSUME IInv, Unlink
  PROVE  IInv'
<1>1. TypeOK'
  BY DEF Unlink, IInv, TypeOK, RunRecords, Goto, Keep, End, Idle, product, Pcs, Anytime
<1>2. Runs'
  BY DEF Unlink, IInv, TypeOK, RunRecords, Runs, NamesBelow, Between, Installing, Found, Stages,
     Progress, Uninstalling, Ours, NewReceipt, InstallJournals, UninstallJournals, Receipts, At,
     Goto, Keep, End, Idle, product, Anytime, Forward
<1>3. Between'
  BY NoneAssumption DEF Unlink, IInv, TypeOK, RunRecords, Between, Consistent, Installing,
     Found, Progress, Uninstalling, Ours, Committed, NewReceipt, InstallJournals,
     UninstallJournals, At, Goto, End, Idle, product, Anytime, Opening
<1>4. Installing'
  BY DEF Unlink, Installing, Ours
<1>5. Uninstalling'
  BY DEF Unlink, Uninstalling, Ours
<1> QED BY <1>1, <1>2, <1>3, <1>4, <1>5 DEF IInv

-----------------------------------------------------------------------------
(*****************************************************************************)
(* Install.                                                                  *)
(*****************************************************************************)
LEMMA StagePreserves ==
  ASSUME IInv, Stage
  PROVE  IInv'
<1>1. TypeOK'
  BY DEF Stage, IInv, TypeOK, RunRecords, Stagings, Goto, Keep, product, Pcs, Opening
<1>2. Runs'
  BY DEF Stage, IInv, Runs, NamesBelow, Ours, At, Goto, Keep, product
<1>3. Between'
  BY DEF Stage, IInv, Between, At, Goto, product, Opening
<1>4. Installing'
  BY DEF Stage, IInv, Installing, Stages, Ours, At, Anytime, Forward, Backward
<1>5. Uninstalling'
  BY DEF Stage, IInv, Uninstalling, Ours, At, Anytime, Removing
<1> QED BY <1>1, <1>2, <1>3, <1>4, <1>5 DEF IInv

LEMMA JudgePreserves ==
  ASSUME IInv, Judge
  PROVE  IInv'
<1>1. CASE run' = Idle /\ staging' = None
  <2>1. TypeOK'
    BY <1>1 DEF Judge, IInv, TypeOK, RunRecords, Keep, product, Pcs, Anytime, Idle
  <2>2. Runs'
    BY <1>1 DEF Judge, IInv, Runs, NamesBelow, Keep, product, Idle
  <2>3. Between'
    BY <1>1 DEF Judge, IInv, Between, product, Anytime, Opening, Idle
  <2>4. Installing'
    BY DEF Judge, IInv, Installing, Stages, Ours, At, Anytime, Forward, Backward
  <2>5. Uninstalling'
    BY DEF Judge, IInv, Uninstalling, Ours, At, Anytime, Removing
  <2> QED BY <2>1, <2>2, <2>3, <2>4, <2>5 DEF IInv
<1>2. CASE /\ staging' = [staging EXCEPT !.manager = manager, !.pointer = pointer]
           /\ run' = [run EXCEPT !.pc = "journal"] /\ target # run.release
  <2>1. run' \in RunRecords /\ run'.pc = "journal" /\ run'.op = run.op /\ run'.release = run.release
    BY <1>2 DEF IInv, TypeOK, RunRecords, Pcs, Opening
  <2>2. staging = [rollback |-> None, failed |-> None, manager |-> None, pointer |-> None]
    BY Situation DEF Judge, At, Between, Opening, IInv
  <2>3. staging' = [rollback |-> None, failed |-> None, manager |-> manager, pointer |-> pointer]
    BY <1>2, <2>2
  <2>4. staging' \in Stagings
    BY <2>3 DEF Stagings, IInv, TypeOK
  <2>5. TypeOK'
    BY <2>1, <2>4 DEF Judge, IInv, TypeOK, Keep, product
  <2>6. Runs'
    BY <2>1 DEF Judge, IInv, Runs, NamesBelow, Ours, At, Keep, product
  <2>7. Between'
    BY <1>2, <2>1, <2>3, Situation DEF Judge, IInv, Between, At, Keep, product, Anytime, Opening
  <2>8. Installing'
    BY DEF Judge, IInv, Installing, Stages, Ours, At, Anytime, Forward, Backward
  <2>9. Uninstalling'
    BY DEF Judge, IInv, Uninstalling, Ours, At, Anytime, Removing
  <2> QED BY <2>5, <2>6, <2>7, <2>8, <2>9 DEF IInv
<1> QED BY <1>1, <1>2 DEF Judge, Goto, End

LEMMA WriteJournalPreserves ==
  ASSUME IInv, WriteJournal
  PROVE  IInv'
<1>0. run' \in RunRecords /\ run'.pc = "withdraw" /\ run'.op = run.op /\ run'.release = run.release
  BY DEF WriteJournal, IInv, TypeOK, RunRecords, Pcs, Forward
<1>1. TypeOK'
  BY <1>0 DEF WriteJournal, IInv, TypeOK, Runs, Between, Installing, Stages, Uninstalling, Ours,
     InstallJournals, UninstallJournals, Managers, At, product, Anytime, Backward, Removing
<1>2. Runs'
  BY DEF WriteJournal, IInv, Runs, NamesBelow, Installing, Stages, At, product, Anytime,
     Forward, Backward
<1>3. Between'
  BY NoneAssumption DEF WriteJournal, IInv, TypeOK, Runs, Between, Installing, Stages,
     Uninstalling, Ours, InstallJournals, UninstallJournals, Managers, At, Anytime, Backward,
     Removing
<1>4. Installing'
  BY NoneAssumption DEF WriteJournal, IInv, TypeOK, Runs, NamesBelow, Between, Consistent,
     Installing, Found, Stages, Progress, Uninstalling, Ours, NewReceipt, InstallJournals,
     UninstallJournals, Stagings, Receipts, Managers, At, product, Anytime, Forward, Backward,
     Removing
<1>5. Uninstalling'
  BY DEF WriteJournal, Uninstalling, Ours
<1> QED BY <1>1, <1>2, <1>3, <1>4, <1>5 DEF IInv

LEMMA MoveOldPreserves ==
  ASSUME IInv, MoveOld
  PROVE  IInv'
<1>1. TypeOK'
  BY DEF MoveOld, IInv, TypeOK, RunRecords, Between, Installing, Progress, Uninstalling, Ours,
     InstallJournals, UninstallJournals, Stagings, At, Goto, Keep, Pcs, Anytime, Forward, Opening,
     Removing
<1>2. Runs'
  BY DEF MoveOld, IInv, Runs, NamesBelow, Ours, At, Goto, Keep
<1>3. Between'
  BY DEF MoveOld, IInv, Between, At, Anytime, Opening
<1>4. Installing'
  BY NoneAssumption DEF MoveOld, IInv, TypeOK, Installing, Found, Stages, Progress, Working,
     Ours, Committed, NewReceipt, Stagings, At, Goto, Keep, product, Forward
<1>5. Uninstalling'
  BY DEF MoveOld, IInv, Uninstalling, Ours, At, Anytime, Removing
<1> QED BY <1>1, <1>2, <1>3, <1>4, <1>5 DEF IInv

LEMMA MoveNewPreserves ==
  ASSUME IInv, MoveNew
  PROVE  IInv'
<1>1. TypeOK'
  BY DEF MoveNew, IInv, TypeOK, RunRecords, Goto, Keep, transaction, Pcs, Forward
<1>2. Runs'
  BY DEF MoveNew, IInv, Runs, NamesBelow, Ours, At, Goto, Keep, transaction
<1>3. Between'
  BY DEF MoveNew, IInv, Between, At, transaction, Anytime, Opening
<1>4. Installing'
  BY DEF MoveNew, IInv, Installing, Found, Stages, Progress, Working, Ours, Committed,
     NewReceipt, At, Goto, Keep, transaction, Forward
<1>5. Uninstalling'
  BY DEF MoveNew, IInv, Uninstalling, Ours, At, transaction, Anytime, Removing
<1> QED BY <1>1, <1>2, <1>3, <1>4, <1>5 DEF IInv

LEMMA VerifyPreserves ==
  ASSUME IInv, Verify
  PROVE  IInv'
<1>0. /\ run' \in RunRecords /\ run'.release = run.release
      /\ \/ run'.pc = "program" /\ run'.op = run.op
         \/ run'.pc = "recover" /\ run'.op = "settle"
  <2>1. run \in RunRecords
    BY DEF IInv, TypeOK
  <2>2. CASE run' = [run EXCEPT !.pc = "program"]
    BY <2>1, <2>2 DEF RunRecords, Pcs, Forward
  <2>3. CASE run' = [run EXCEPT !.pc = "recover", !.op = "settle"]
    BY <2>1, <2>3 DEF RunRecords, Pcs, Anytime
  <2> QED BY <2>2, <2>3 DEF Verify, Goto, Settle
<1>1. TypeOK'
  BY <1>0 DEF Verify, IInv, TypeOK, Keep, product, transaction
<1>2. Runs'
  BY <1>0 DEF Verify, IInv, Runs, NamesBelow, Ours, At, Keep, product, transaction
<1>3. Between'
  BY DEF Verify, IInv, Between, At, transaction, Anytime, Opening
<1>4. Installing'
  BY <1>0 DEF Verify, IInv, Installing, Found, Stages, Progress, Working, Ours, Committed,
     NewReceipt, At, Keep, product, transaction, Anytime, Forward
<1>5. Uninstalling'
  BY DEF Verify, IInv, Uninstalling, Ours, At, transaction, Anytime, Removing
<1> QED BY <1>1, <1>2, <1>3, <1>4, <1>5 DEF IInv

LEMMA PutManagerPreserves ==
  ASSUME IInv, PutManager
  PROVE  IInv'
<1>1. TypeOK'
  BY DEF PutManager, IInv, TypeOK, RunRecords, Between, Installing, Stages, Uninstalling, Ours,
     InstallJournals, UninstallJournals, At, Goto, Keep, transaction, Pcs, Anytime, Forward,
     Opening, Removing
<1>2. Runs'
  BY DEF PutManager, IInv, Runs, NamesBelow, Ours, At, Goto, Keep, transaction
<1>3. Between'
  BY DEF PutManager, IInv, Between, At, transaction, Anytime, Opening
<1>4. Installing'
  BY DEF PutManager, IInv, Installing, Found, Stages, Progress, Working, Ours, Committed,
     NewReceipt, At, Goto, Keep, transaction, Forward
<1>5. Uninstalling'
  BY DEF PutManager, IInv, Uninstalling, Ours, At, transaction, Anytime, Removing
<1> QED BY <1>1, <1>2, <1>3, <1>4, <1>5 DEF IInv

LEMMA PutReceiptPreserves ==
  ASSUME IInv, PutReceipt
  PROVE  IInv'
<1>1. TypeOK'
  BY DEF PutReceipt, IInv, TypeOK, RunRecords, Between, Uninstalling, Ours, NewReceipt,
     InstallJournals, UninstallJournals, Receipts, At, Goto, Keep, transaction, Pcs, Anytime,
     Forward, Opening, Removing
<1>2. Runs'
  BY DEF PutReceipt, IInv, TypeOK, Runs, NamesBelow, Between, Installing, Stages, Uninstalling,
     Ours, NewReceipt, InstallJournals, UninstallJournals, At, Goto, Keep, transaction, Anytime,
     Backward, Opening, Removing
<1>3. Between'
  BY DEF PutReceipt, IInv, Between, At, transaction, Anytime, Opening
<1>4. Installing'
  BY DEF PutReceipt, IInv, Installing, Found, Stages, Progress, Working, Ours, Committed,
     NewReceipt, At, Goto, Keep, transaction, Forward
<1>5. Uninstalling'
  BY DEF PutReceipt, IInv, Uninstalling, Ours, At, transaction, Anytime, Removing
<1> QED BY <1>1, <1>2, <1>3, <1>4, <1>5 DEF IInv

LEMMA PutPointerPreserves ==
  ASSUME IInv, PutPointer
  PROVE  IInv'
<1>0. run' \in RunRecords /\ run'.pc = "recover" /\ run'.op = "settle" /\ run'.release = run.release
  BY DEF PutPointer, Settle, IInv, TypeOK, RunRecords, Pcs, Anytime
<1>1. TypeOK'
  BY <1>0 DEF PutPointer, IInv, TypeOK, Between, Uninstalling, Ours, NewReceipt,
     InstallJournals, UninstallJournals, Receipts, At, Keep, transaction, Anytime, Opening,
     Removing
<1>2. Runs'
  BY <1>0 DEF PutPointer, IInv, Runs, NamesBelow, Ours, At, Keep, transaction
<1>3. Between'
  BY DEF PutPointer, IInv, Between, At, transaction, Anytime, Opening
<1>4. Installing'
  BY <1>0 DEF PutPointer, IInv, Installing, Found, Stages, Progress, Ours, Committed,
     NewReceipt, At, Keep, transaction, Anytime, Forward, Backward
<1>5. Uninstalling'
  BY DEF PutPointer, IInv, Uninstalling, Ours, At, transaction, Anytime, Removing
<1> QED BY <1>1, <1>2, <1>3, <1>4, <1>5 DEF IInv

LEMMA FailPreserves ==
  ASSUME IInv, Fail
  PROVE  IInv'
<1>0. run' \in RunRecords /\ run'.pc = "recover" /\ run'.op = "settle" /\ run'.release = run.release
  BY DEF Fail, Settle, IInv, TypeOK, RunRecords, Pcs, Anytime
<1>1. TypeOK'
  BY <1>0 DEF Fail, IInv, TypeOK, Keep, product, transaction
<1>2. Runs'
  BY <1>0 DEF Fail, IInv, Runs, NamesBelow, Ours, Keep, product, transaction
<1>3. Between'
  BY DEF Fail, IInv, Between, transaction, Anytime, Opening
<1>4. Installing'
  BY DEF Fail, IInv, Installing, Found, Stages, Progress, Working, Ours, Committed, NewReceipt,
     Keep, Settle, product, transaction, Anytime, Forward
<1>5. Uninstalling'
  BY DEF Fail, IInv, Uninstalling, Ours, transaction, Anytime, Removing
<1> QED BY <1>1, <1>2, <1>3, <1>4, <1>5 DEF IInv

-----------------------------------------------------------------------------
(*****************************************************************************)
(* Uninstall.                                                                *)
(*****************************************************************************)
LEMMA ValidatePreserves ==
  ASSUME IInv, Validate
  PROVE  IInv'
<1>1. CASE Managed /\ target # None /\ run.op = "uninstall"
  <2>1. run' = [run EXCEPT !.pc = "mkdir", !.config = config]
    BY <1>1 DEF Validate
  <2>2. run' \in RunRecords /\ run'.pc = "mkdir" /\ run'.op = run.op
    BY <2>1 DEF IInv, TypeOK, RunRecords, Pcs, Removing
  <2>3. /\ journal' = [kind |-> "UNINSTALL", receipt |-> pointer]
        /\ pointer \in Receipts /\ before' = product
    BY <1>1 DEF Validate, Managed, IInv, TypeOK
  <2>4. journal' \in UninstallJournals /\ journal'.kind = "UNINSTALL" /\ journal'.receipt = pointer
    BY <2>3 DEF UninstallJournals
  <2>5. TypeOK'
    BY <2>2 DEF Validate, IInv, TypeOK, Managed, UninstallJournals, product
  <2>6. Runs'
    BY <2>2, <2>4, NoneAssumption DEF Validate, IInv, Runs, NamesBelow, Installing, Stages,
       Uninstalling, Ours, At, product, Anytime, Removing
  <2>7. Between'
    BY <2>4, NoneAssumption DEF Between
  <2>8. Installing'
    BY DEF Validate, IInv, Installing, Stages, Ours, At, Anytime, Forward, Backward
  <2>9. Uninstalling'
    BY <2>2 DEF Validate, IInv, TypeOK, Between, Installing, Stages, Uninstalling, Ours,
       InstallJournals, UninstallJournals, At, product, Anytime, Removing
  <2> QED BY <2>5, <2>6, <2>7, <2>8, <2>9 DEF IInv
<1>2. CASE ~(Managed /\ target # None /\ run.op = "uninstall")
  <2>1. run' = Idle /\ journal' = journal /\ before' = before
    BY <1>2 DEF Validate, End
  <2>2. TypeOK'
    BY <2>1 DEF Validate, IInv, TypeOK, RunRecords, product, Pcs, Anytime, Idle
  <2>3. Runs'
    BY <2>1 DEF Validate, IInv, Runs, NamesBelow, product, Idle
  <2>4. Between'
    BY NoneAssumption DEF Validate, IInv, TypeOK, Between, Managed, UninstallJournals, End,
       product, Anytime, Opening, Idle
  <2>5. Installing'
    BY DEF Validate, IInv, Installing, Stages, Ours, At, Anytime, Forward, Backward
  <2>6. Uninstalling'
    BY <2>1 DEF Validate, IInv, Uninstalling, Ours, product, Anytime, Idle
  <2> QED BY <2>2, <2>3, <2>4, <2>5, <2>6 DEF IInv
<1> QED BY <1>1, <1>2

LEMMA MakeTransactionPreserves ==
  ASSUME IInv, MakeTransaction
  PROVE  IInv'
<1>1. TypeOK'
  BY DEF MakeTransaction, IInv, TypeOK, RunRecords, Goto, Keep, product, Pcs, Removing
<1>2. Runs'
  BY DEF MakeTransaction, IInv, Runs, NamesBelow, Ours, At, Goto, Keep, product
<1>3. Between'
  BY DEF MakeTransaction, IInv, Between, At, Anytime, Opening
<1>4. Installing'
  BY DEF MakeTransaction, IInv, Installing, Stages, Ours, At, Anytime, Forward, Backward
<1>5. Uninstalling'
  BY DEF MakeTransaction, IInv, Uninstalling, Ours, At, Goto, Keep, product, Removing
<1> QED BY <1>1, <1>2, <1>3, <1>4, <1>5 DEF IInv

LEMMA WithdrawPreserves ==
  ASSUME IInv, Withdraw
  PROVE  IInv'
<1>1. CASE target' = None /\ withdrawn' = target /\ Goto("purge")
  <2>1. run' \in RunRecords /\ run'.pc = "purge" /\ run'.op = run.op /\ run'.release = run.release
    BY <1>1 DEF Goto, IInv, TypeOK, RunRecords, Pcs, Removing
  <2>2. TypeOK'
    BY <2>1 DEF Withdraw, IInv, TypeOK, Keep
  <2>3. Runs'
    BY <1>1, <2>1 DEF Withdraw, IInv, Runs, NamesBelow, Ours, At, Keep
  <2>4. Between'
    BY DEF Withdraw, IInv, Between, At, Anytime, Opening
  <2>5. Installing'
    BY DEF Withdraw, IInv, Installing, Stages, Ours, At, Anytime, Forward, Backward
  <2>6. Uninstalling'
    BY <1>1, <2>1 DEF Withdraw, IInv, Uninstalling, Ours, Keep, Removing
  <2> QED BY <2>2, <2>3, <2>4, <2>5, <2>6 DEF IInv
<1>2. CASE /\ UNCHANGED target /\ withdrawn' = None
           /\ run' = [run EXCEPT !.pc = "unlink", !.op = "withdraw"]
  <2>1. /\ run' \in RunRecords /\ run'.release = run.release
        /\ run'.pc = "unlink" /\ run'.op = "withdraw"
    BY <1>2 DEF IInv, TypeOK, RunRecords, Pcs, Anytime
  <2>2. TypeOK'
    BY <2>1 DEF Withdraw, IInv, TypeOK, Keep
  <2>3. Runs'
    BY <2>1 DEF Withdraw, IInv, Runs, NamesBelow, Ours, At, Keep
  <2>4. Between'
    BY DEF Withdraw, IInv, Between, At, Anytime, Opening
  <2>5. Installing'
    BY DEF Withdraw, IInv, Installing, Stages, Ours, At, Anytime, Forward, Backward
  <2>6. Uninstalling'
    BY <1>2 DEF Withdraw, IInv, Uninstalling, Ours, Keep
  <2> QED BY <2>2, <2>3, <2>4, <2>5, <2>6 DEF IInv
<1> QED BY <1>1, <1>2 DEF Withdraw

LEMMA PurgePreserves ==
  ASSUME IInv, Purge
  PROVE  IInv'
<1>1. TypeOK'
  BY DEF Purge, IInv, TypeOK, RunRecords, Goto, Keep, End, Idle, product, Pcs, Anytime, Removing
<1>2. Runs'
  BY DEF Purge, IInv, TypeOK, RunRecords, Runs, NamesBelow, Ours, At, Goto, Keep, End, Idle,
     product
<1>3. Between'
  BY DEF Purge, IInv, Between, At, Anytime, Opening
<1>4. Installing'
  BY DEF Purge, IInv, Installing, Stages, Ours, At, Anytime, Forward, Backward
<1>5. Uninstalling'
  BY DEF Purge, IInv, TypeOK, RunRecords, Uninstalling, Ours, At, Goto, Keep, End, Idle,
     product, Anytime, Removing
<1> QED BY <1>1, <1>2, <1>3, <1>4, <1>5 DEF IInv

LEMMA PurgedPreserves ==
  ASSUME IInv, Purged
  PROVE  IInv'
<1>1. CASE config # run.config /\ End /\ UNCHANGED withdrawn
  <2>1. run' = Idle
    BY <1>1 DEF End
  <2>2. TypeOK'
    BY <1>1 DEF Purged, IInv, TypeOK, RunRecords, Keep, End, product, Pcs, Anytime, Idle
  <2>3. Runs'
    BY <2>1 DEF Purged, IInv, Runs, NamesBelow, Keep, Idle, product
  <2>4. Between'
    BY <1>1 DEF Purged, IInv, Between, End, product, Anytime, Opening, Idle
  <2>5. Installing'
    BY DEF Purged, IInv, Installing, Stages, Ours, At, Anytime, Forward, Backward
  <2>6. Uninstalling'
    BY <2>1 DEF Purged, IInv, Uninstalling, Ours, Keep, Idle, product, Anytime
  <2> QED BY <2>2, <2>3, <2>4, <2>5, <2>6 DEF IInv
<1>2. CASE /\ config = run.config /\ withdrawn' = None
           /\ run' = [run EXCEPT !.pc = "unlink", !.op = "withdraw"]
  <2>1. /\ run' \in RunRecords /\ run'.release = run.release
        /\ run'.pc = "unlink" /\ run'.op = "withdraw"
    BY <1>2 DEF IInv, TypeOK, RunRecords, Pcs, Anytime
  <2>2. TypeOK'
    BY <2>1 DEF Purged, IInv, TypeOK, Keep, product
  <2>3. Runs'
    BY <1>2 DEF Purged, IInv, Runs, NamesBelow, Ours, At, Keep, product
  <2>4. Between'
    BY DEF Purged, IInv, Between, At, Anytime, Opening
  <2>5. Installing'
    BY DEF Purged, IInv, Installing, Stages, Ours, At, Anytime, Forward, Backward
  <2>6. Uninstalling'
    BY <1>2 DEF Purged, IInv, Uninstalling, Ours, Keep, product
  <2> QED BY <2>2, <2>3, <2>4, <2>5, <2>6 DEF IInv
<1> QED BY <1>1, <1>2 DEF Purged

LEMMA FinishPreserves ==
  ASSUME IInv, Finish
  PROVE  IInv'
<1>1. TypeOK'
  BY DEF Finish, IInv, TypeOK, RunRecords, Goto, Keep, product, Pcs
<1>2. Runs'
  BY DEF Finish, IInv, Runs, NamesBelow, Ours, At, Goto, Keep, product
<1>3. Between'
  BY DEF Finish, IInv, Between, At, Anytime, Opening
<1>4. Installing'
  BY DEF Finish, IInv, Installing, Stages, Ours, At, Anytime, Forward, Backward
<1>5. Uninstalling'
  BY DEF Finish, IInv, Uninstalling, Ours, At, Goto, Keep, product
<1> QED BY <1>1, <1>2, <1>3, <1>4, <1>5 DEF IInv

-----------------------------------------------------------------------------
(*****************************************************************************)
(* The user and crashes.                                                     *)
(*****************************************************************************)
LEMMA EditConfigPreserves ==
  ASSUME IInv, EditConfig
  PROVE  IInv'
<1>1. TypeOK'
  BY DEF EditConfig, IInv, TypeOK, product, transaction
<1>2. Runs'
  BY DEF EditConfig, IInv, Runs, NamesBelow, Ours, product, transaction
<1>3. Between'
  BY DEF EditConfig, IInv, Between, product, transaction
<1>4. Installing'
  BY DEF EditConfig, IInv, Installing, Found, Stages, Progress, Working, Ours, Committed,
     NewReceipt, product, transaction
<1>5. Uninstalling'
  BY DEF EditConfig, IInv, Uninstalling, Ours, product, transaction
<1> QED BY <1>1, <1>2, <1>3, <1>4, <1>5 DEF IInv

LEMMA GiveUpPreserves ==
  ASSUME IInv, GiveUp
  PROVE  IInv'
<1>1. TypeOK'
  BY DEF GiveUp, IInv, TypeOK, RunRecords, Keep, End, Idle, product, transaction, Pcs, Anytime
<1>2. Runs'
  BY DEF GiveUp, IInv, Runs, NamesBelow, Keep, End, Idle, product
<1>3. Between'
  BY DEF GiveUp, IInv, Between, End, Idle, product, transaction, Anytime, Opening
<1>4. Installing'
  BY DEF GiveUp, IInv, Installing, Found, Stages, Progress, Working, Ours, Committed,
     NewReceipt, Keep, End, Idle, product, transaction, Anytime, Forward, Backward
<1>5. Uninstalling'
  BY DEF GiveUp, IInv, Uninstalling, Ours, Keep, End, Idle, product, transaction, Anytime
<1> QED BY <1>1, <1>2, <1>3, <1>4, <1>5 DEF IInv

LEMMA CrashPreserves ==
  ASSUME IInv, Crash
  PROVE  IInv'
<1>1. TypeOK'
  BY DEF Crash, IInv, TypeOK, RunRecords, Stagings, Removed, Keep, End, Idle, product, Pcs,
     Anytime
<1>2. Runs'
  BY DEF Crash, IInv, Runs, NamesBelow, Keep, End, Idle, product
<1>3. Between'
  BY DEF Crash, IInv, Between, End, Idle, product, Anytime, Opening
<1>4. Installing'
  BY DEF Crash, IInv, Installing, Found, Stages, Progress, Working, Ours, Committed, NewReceipt,
     At, Keep, End, Idle, product, Anytime, Forward, Backward
<1>5. Uninstalling'
  BY DEF Crash, IInv, Uninstalling, Ours, Keep, End, Idle, product, Anytime
<1> QED BY <1>1, <1>2, <1>3, <1>4, <1>5 DEF IInv

-----------------------------------------------------------------------------
(***************************************************************************)
(* The theorems.                                                           *)
(***************************************************************************)
\* The invariant holds at first and in every step.
LEMMA InitHolds == Init => IInv
<1> SUFFICES ASSUME Init PROVE IInv
  OBVIOUS
<1>1. TypeOK
  BY DEF Init, TypeOK, RunRecords, Idle, Pcs, Anytime
<1>2. Runs /\ Between
  BY DEF Init, Runs, NamesBelow, Between, Consistent, Idle, Anytime, Opening
<1>3. Installing /\ Uninstalling
  BY DEF Init, Installing, Uninstalling, Ours
<1> QED BY <1>1, <1>2, <1>3 DEF IInv

LEMMA BeginsAreBegin ==
  ASSUME (\E release \in Releases : Install(release)) \/ Uninstall
  PROVE  \E op \in Operations, release \in Releases \union {None} :
           (op = "install" => release \in Releases) /\ Begin(op, release)
BY DEF Install, Uninstall, Operations

LEMMA StepPreserves == ASSUME IInv, [Next]_vars PROVE IInv'
<1>1. CASE (\E release \in Releases : Install(release)) \/ Uninstall
  BY <1>1, BeginsAreBegin, BeginPreserves
<1>2. CASE UNCHANGED vars
  BY <1>2 DEF vars, product, transaction, IInv, TypeOK, Runs, NamesBelow, Between, Installing,
     Found, Stages, Progress, Working, Uninstalling, Ours, NewReceipt, Committed
<1>3. CASE Recover \/ RestorePointer \/ RemoveReceipt \/ RestoreManager \/ SetAside
           \/ RestoreTarget \/ ClearStaging \/ Unlink
  BY <1>3, RecoverPreserves, RestorePointerPreserves, RemoveReceiptPreserves,
     RestoreManagerPreserves, SetAsidePreserves, RestoreTargetPreserves, ClearStagingPreserves,
     UnlinkPreserves
<1>4. CASE Stage \/ Judge \/ WriteJournal \/ MoveOld \/ MoveNew \/ Verify
           \/ PutManager \/ PutReceipt \/ PutPointer \/ Fail
  BY <1>4, StagePreserves, JudgePreserves, WriteJournalPreserves, MoveOldPreserves,
     MoveNewPreserves, VerifyPreserves, PutManagerPreserves, PutReceiptPreserves,
     PutPointerPreserves, FailPreserves
<1>5. CASE Validate \/ MakeTransaction \/ Withdraw \/ Purge \/ Purged \/ Finish
  BY <1>5, ValidatePreserves, MakeTransactionPreserves, WithdrawPreserves,
     PurgePreserves, PurgedPreserves, FinishPreserves
<1>6. CASE EditConfig \/ GiveUp \/ Crash
  BY <1>6, EditConfigPreserves, GiveUpPreserves, CrashPreserves
<1> QED BY <1>1, <1>2, <1>3, <1>4, <1>5, <1>6 DEF Next

\* What holds of every state of an installation.
THEOREM InstallInvariant == Spec => []IInv
<1> QED BY InitHolds, StepPreserves, PTL DEF Spec

\* Variables hold values of their types: names of releases, receipts of such names, and a
\* journal and a staging of the form that recovery reads.
THEOREM InstallTyped == Spec => []TypeOK
<1>1. IInv => TypeOK
  BY DEF IInv
<1> QED BY <1>1, InstallInvariant, PTL

\* Outside a transaction the active receipt describes what is installed.
THEOREM InstallSettled == Spec => []SettledIsManaged
<1>1. IInv => SettledIsManaged
  BY DEF IInv, Between, Consistent, SettledIsManaged, Managed
<1> QED BY <1>1, InstallInvariant, PTL

\* Until the new pointer commits, the tree and the manager that were there have a whole copy.
THEOREM InstallKeepsPriorBytes == Spec => []PriorBytesKept
<1>1. IInv => PriorBytesKept
  BY DEF IInv, Installing, Found, Progress, Working, Committed, PriorBytesKept
<1> QED BY <1>1, InstallInvariant, PTL

\* Only Unlink ends a transaction, and it changes nothing else.
LEMMA OnlyUnlinkEnds ==
  ASSUME IInv, [Next]_vars, journal # None, journal' = None
  PROVE  Unlink
<1>1. ~Validate
  BY Situation DEF Validate, At
<1>2. ~WriteJournal
  BY Situation DEF WriteJournal, At, Opening
<1> QED BY <1>1, <1>2 DEF Next, vars, transaction, Install, Uninstall, Begin, Recover,
     RestorePointer, RemoveReceipt, RestoreManager, SetAside, RestoreTarget, ClearStaging,
     Stage, Judge, MoveOld, MoveNew, Verify, PutManager, PutReceipt, PutPointer, Fail,
     MakeTransaction, Withdraw, Purge, Purged, Finish, EditConfig, GiveUp, Crash

\* However often they die or fail, an install and an uninstall end with all of their changes
\* or with none.
THEOREM InstallAllOrNothing == Spec => AllOrNothing
<1>1. ASSUME IInv, [Next]_vars, journal # None, journal' = None
      PROVE  product' \in {before, After}
  <2>1. At("unlink") /\ product' = product
    BY <1>1, OnlyUnlinkEnds DEF Unlink
  <2>2. CASE Ours("INSTALL")
    <3>1. Committed \/ product = before
      BY <1>1, <2>1, <2>2 DEF IInv, Installing, Progress, At
    <3>2. Committed => receipts = before[3] \union {NewReceipt}
      BY <1>1, <2>2 DEF IInv, Installing, Progress, Committed
    <3> QED BY <2>1, <2>2, <3>1, <3>2 DEF Committed, After, Ours, product
  <2>3. CASE Ours("UNINSTALL")
    <3>1. /\ before = <<before[1], manager, receipts, pointer>>
          /\ target \in {None, before[1]}
      BY <1>1, <2>3 DEF IInv, Uninstalling
    <3>2. After = <<None, manager, receipts, pointer>>
      BY <2>3, <3>1 DEF After, Ours
    <3> QED BY <2>1, <3>1, <3>2 DEF product
  <2> QED BY <1>1, <2>2, <2>3, Situation
<1>2. IInv /\ [Next]_vars =>
        [journal # None /\ journal' = None => product' \in {before, After}]_vars
  BY <1>1
<1> QED BY <1>2, InstallInvariant, PTL DEF Spec, AllOrNothing

\* No recovery brings back the pointer that a committed install replaced, nor a tree that
\* was withdrawn.
THEOREM InstallGoesForward == Spec => CommittedGoesForward
<1>1. ASSUME IInv, [Next]_vars, Ours("INSTALL"), Committed
      PROVE  pointer' = pointer /\ target' = target
  <2>1. /\ run.pc \notin Forward \union Backward
    <3>1. pointer = NewReceipt /\ NewReceipt \in receipts
      BY <1>1 DEF Committed
    <3>2. journal.oldPointer # NewReceipt
      BY <1>1, <3>1, NoneAssumption, Situation DEF IInv, TypeOK, Installing, Found, Consistent,
         NewReceipt, InstallJournals
    <3> QED BY <1>1, <3>1, <3>2 DEF IInv, Installing, Progress
  <2>2. run.pc \notin Removing
    BY <1>1, Situation
  <2> QED BY <1>1, <2>1, <2>2 DEF Next, vars, product, Install, Uninstall, Begin, Recover,
       RestorePointer, RemoveReceipt, RestoreManager, SetAside, RestoreTarget, ClearStaging,
       Unlink, Stage, Judge, WriteJournal, MoveOld, MoveNew, Verify, PutManager, PutReceipt,
       PutPointer, Fail, Validate, MakeTransaction, Withdraw, Purge, Purged, Finish,
       EditConfig, GiveUp, Crash, At, Forward, Backward, Removing
<1>2. ASSUME IInv, [Next]_vars, Ours("UNINSTALL"), target = None
      PROVE  target' = None
  <2>1. run.pc \notin Forward \union Backward
    BY <1>2, Situation
  <2> QED BY <1>2, <2>1 DEF Next, vars, product, Install, Uninstall, Begin, Recover,
       RestorePointer, RemoveReceipt, RestoreManager, SetAside, RestoreTarget, ClearStaging,
       Unlink, Stage, Judge, WriteJournal, MoveOld, MoveNew, Verify, PutManager, PutReceipt,
       PutPointer, Fail, Validate, MakeTransaction, Withdraw, Purge, Purged, Finish,
       EditConfig, GiveUp, Crash, At, Forward, Backward
<1>3. IInv /\ [Next]_vars =>
        [/\ Ours("INSTALL") /\ Committed => pointer' = pointer /\ target' = target
         /\ Ours("UNINSTALL") /\ target = None => target' = None]_vars
  BY <1>1, <1>2
<1> QED BY <1>3, InstallInvariant, PTL DEF Spec, CommittedGoesForward
=============================================================================
