-------------------------- MODULE PreparationProofs --------------------------
(***************************************************************************)
(* Theorems about Preparation: for any requests, calls and loops, and      *)
(* however files are replaced, removed or half written meanwhile, what is  *)
(* loaded is one whole preparation, and what is started is what was        *)
(* confirmed, once.                                                        *)
(***************************************************************************)
EXTENDS Preparation, FiniteSetTheorems, TLAPS

Profiles == {"non_git", "existing_git"}
Preparations == [plan : DOMAIN Requests, loop : Tokens, profile : Profiles]
Kept == Names \ {"confirmation"}
Contents == {Documents(p)[n] : p \in Preparations, n \in Names}
Receipts ==
  [loop : Tokens, boundary : Contents, manifest : Contents, bundle : Contents,
   issued : Nat, expires : Nat]
Values == {Absent, Torn} \union Contents \union Receipts

Loads == {"ask", "sign"}
Starts == {"check", "blobs", "capture", "create"}
CallStates ==
  [pc : {"idle", "mkdir", "write", "list", "read"} \union Loads \union Starts,
   phase : {"none", "review", "confirm", "start", "reload"}, todo : Seq(Names),
   out : [Names -> Values], got : [Names -> Values], at : Nat,
   baseline : {Absent} \union Profiles]
Loops ==
  [loop : Tokens, plan : DOMAIN Requests, index : Contents, bundle : Contents,
   issued : Nat, baseline : Profiles]

TypeOK ==
  /\ calls \in [Calls -> CallStates] /\ there \in BOOLEAN /\ files \in [Names -> Values]
  /\ roots \in [Tokens -> [blobs : SUBSET ((DOMAIN Requests) \X Contents), loops : SUBSET Loops]]
  /\ profile \in Profiles /\ clock \in Nat
  /\ made \in SUBSET Preparations /\ agreed \in SUBSET Receipts

\* What a file may hold once it is written, after preparations M and confirmations A.
Written(n, M, A) == IF n = "confirmation" THEN A ELSE {Documents(p)[n] : p \in M}
Genuine == \A n \in Names : files[n] \in {Absent, Torn} \union Written(n, made, agreed)

\* What was loaded: the documents of one preparation, and a confirmation or none.
Complete(f, M) == \E p \in M : [f EXCEPT !["confirmation"] = Absent] = Documents(p)

\* What a call in state s has in hand, when R are the stores.
Writing(s, M) ==
  s.pc \in {"mkdir", "write"} =>
    /\ s.todo # <<>> /\ s.todo \in Seq(Kept)
    /\ \E p \in M : s.out = Documents(p)
Reading(s, M, A) ==
  s.pc = "read" =>
    /\ s.todo # <<>>
    /\ \A n \in Kept : s.got[n] \in Written(n, M, A) \/ \E i \in DOMAIN s.todo : s.todo[i] = n
Holding(s, M, A) ==
  /\ s.got["confirmation"] \in {Absent} \union A
  /\ s.pc \in Loads \union Starts => Complete(s.got, M) /\ Matches(s.got)
Starting(s, A, R) ==
  /\ s.pc \in Starts =>
       s.got["confirmation"] \in A /\ Binds(s.got["confirmation"], s.got, s.at)
  /\ s.pc \in {"capture", "create"} => Blobs(s) \in R[s.got["manifest"].loop].blobs
  /\ s.pc = "create" => s.baseline = s.got["manifest"].profile
Sound(s, M, A, R) ==
  Writing(s, M) /\ Reading(s, M, A) /\ Holding(s, M, A) /\ Starting(s, A, R)

\* What a loop of token t, in a store with these blobs, was created from.
Founded(loop, t, blobs, A) ==
  /\ loop.loop = t /\ <<loop.plan, loop.index>> \in blobs
  /\ \E a \in A : /\ loop.bundle = a.bundle /\ loop.loop = a.loop
                  /\ loop.issued \in a.issued .. a.expires
  /\ loop.baseline = loop.bundle["manifest"].profile
  /\ CapabilityPasses(Plan(loop.plan), loop.baseline)
Rooted ==
  \A t \in Tokens :
    /\ roots[t].loops = {} \/ \E loop \in Loops : roots[t].loops = {loop}
    /\ \A loop \in roots[t].loops : Founded(loop, t, roots[t].blobs, agreed)

IInv ==
  /\ TypeOK /\ Genuine
  /\ \A c \in Calls : Sound(calls[c], made, agreed, roots)
  /\ Rooted

-----------------------------------------------------------------------------
(***************************************************************************)
(* Documents.                                                              *)
(***************************************************************************)
LEMMA DocumentsOf ==
  ASSUME NEW p \in Preparations
  PROVE  /\ Documents(p) \in [Names -> Contents]
         /\ Documents(p)["confirmation"] = Absent
         /\ Documents(p)["manifest"].loop = p.loop
         /\ Documents(p)["manifest"].profile = p.profile
         /\ Documents(p)["plan"] = p.plan
         /\ Documents(p)["bundle"] = [n \in Names \ {"bundle", "confirmation"} |-> Documents(p)[n]]
         /\ DOMAIN Documents(p) = Names
<1> DEFINE index == Index(p.plan, p.loop, p.profile)
           manifest == Manifest(p, index)
           reports == Reports(p.plan, index, p.profile)
           boundary == Boundary(manifest, reports)
           f == [n \in Names |->
                   CASE n = "manifest" -> manifest
                     [] n = "boundary" -> boundary
                     [] n = "plan" -> p.plan
                     [] n = "index" -> index
                     [] n = "reports" -> reports
                     [] OTHER -> Absent]
<1>1. Documents(p) = [f EXCEPT !["bundle"] = Bundle(f)]
  BY DEF Documents
<1>2. manifest.loop = p.loop /\ manifest.profile = p.profile
  BY DEF Manifest
<1> HIDE DEF index, manifest, reports, boundary
<1>3. /\ f["confirmation"] = Absent /\ f["manifest"] = manifest /\ f["plan"] = p.plan
      /\ DOMAIN f = Names
  BY DEF Names
<1>4. Bundle(f) = [n \in Names \ {"bundle", "confirmation"} |-> f[n]]
  BY DEF Bundle, Restrict
<1> HIDE DEF f
<1>5. /\ DOMAIN Documents(p) = Names /\ Documents(p)["bundle"] = Bundle(f)
      /\ Documents(p) = [n \in Names |-> Documents(p)[n]]
      /\ \A n \in Names : n # "bundle" => Documents(p)[n] = f[n]
  BY <1>1, <1>3 DEF Names
<1>6. Documents(p) \in [Names -> Contents]
  BY <1>5 DEF Contents
<1>7. Documents(p)["bundle"] = [n \in Names \ {"bundle", "confirmation"} |-> Documents(p)[n]]
  BY <1>4, <1>5
<1>8. {"confirmation", "manifest", "plan"} \subseteq Names \ {"bundle"}
  BY DEF Names
<1> QED BY <1>2, <1>3, <1>5, <1>6, <1>7, <1>8

\* Files that match one another, with the bundle of a preparation, are that preparation.
LEMMA MatchingIsComplete ==
  ASSUME TypeOK, NEW f \in [Names -> Values], Matches(f),
         f["bundle"] \in Written("bundle", made, agreed)
  PROVE  Complete(f, made)
<1>1. PICK p \in made : f["bundle"] = Documents(p)["bundle"]
  BY DEF Written
<1>2. p \in Preparations
  BY DEF TypeOK
<1>3. f["bundle"] = [n \in Names \ {"bundle", "confirmation"} |-> f[n]]
  BY DEF Matches, BundleMatches, Bundle, Restrict
<1>4. Documents(p)["bundle"] = [n \in Names \ {"bundle", "confirmation"} |-> Documents(p)[n]]
  BY <1>2, DocumentsOf
<1>5. \A n \in Names \ {"bundle", "confirmation"} : f[n] = Documents(p)[n]
  BY <1>1, <1>3, <1>4
<1>6. Documents(p)["confirmation"] = Absent /\ Documents(p) \in [Names -> Contents]
  BY <1>2, DocumentsOf
<1>7. \A n \in Names : [f EXCEPT !["confirmation"] = Absent][n] = Documents(p)[n]
  BY <1>1, <1>5, <1>6
<1>8. [f EXCEPT !["confirmation"] = Absent] = Documents(p)
  BY <1>6, <1>7
<1> QED BY <1>8 DEF Complete

\* What a complete set of files says of its loop.
LEMMA CompleteTypes ==
  ASSUME TypeOK, NEW f \in [Names -> Values], Complete(f, made)
  PROVE  /\ f["manifest"].loop \in Tokens /\ f["manifest"].profile \in Profiles
         /\ f["plan"] \in DOMAIN Requests /\ f["index"] \in Contents
         /\ f["manifest"] \in Contents /\ f["boundary"] \in Contents /\ f["bundle"] \in Contents
         /\ f["bundle"]["manifest"] = f["manifest"]
<1>1. PICK p \in made : [f EXCEPT !["confirmation"] = Absent] = Documents(p)
  BY DEF Complete
<1>2. p \in Preparations
  BY DEF TypeOK
<1>3. \A n \in Kept : f[n] = Documents(p)[n]
  BY <1>1 DEF Kept
<1>4. {"manifest", "plan", "index", "boundary", "bundle"} \subseteq Kept /\ Kept \subseteq Names
  BY DEF Kept, Names
<1>5. "manifest" \in Names \ {"bundle", "confirmation"}
  BY DEF Names
<1>6. p.loop \in Tokens /\ p.profile \in Profiles /\ p.plan \in DOMAIN Requests
  BY <1>2 DEF Preparations
<1>7. /\ Documents(p) \in [Names -> Contents]
      /\ Documents(p)["manifest"].loop = p.loop /\ Documents(p)["plan"] = p.plan
      /\ Documents(p)["manifest"].profile = p.profile
      /\ Documents(p)["bundle"] = [n \in Names \ {"bundle", "confirmation"} |-> Documents(p)[n]]
  BY <1>2, DocumentsOf
<1> QED BY <1>3, <1>4, <1>5, <1>6, <1>7

-----------------------------------------------------------------------------
(***************************************************************************)
(* The calls.                                                              *)
(***************************************************************************)
LEMMA IdleSound ==
  ASSUME NEW M, NEW A, NEW R
  PROVE  Idle \in CallStates /\ Sound(Idle, M, A, R)
<1>1. NoFiles \in [Names -> Values] /\ NoFiles["confirmation"] = Absent
  BY DEF NoFiles, Values, Names
<1>2. <<>> \in Seq(Names)
  OBVIOUS
<1>3. Idle \in CallStates
  BY <1>1, <1>2 DEF Idle, CallStates
<1> QED BY <1>1, <1>3 DEF Idle, Sound, Writing, Reading, Holding, Starting, Loads, Starts

\* What a call has in hand stays sound as others prepare, confirm and store.
LEMMA SoundStays ==
  ASSUME NEW M, NEW A, NEW R, NEW M2, NEW A2, NEW R2, NEW s \in CallStates,
         Sound(s, M, A, R), M \subseteq M2, A \subseteq A2, M \subseteq Preparations,
         \A t \in Tokens : R[t].blobs \subseteq R2[t].blobs
  PROVE  Sound(s, M2, A2, R2)
<1>1. Writing(s, M2)
  BY DEF Sound, Writing
<1>2. Reading(s, M2, A2)
  BY DEF Sound, Reading, Written
<1>3. Holding(s, M2, A2)
  BY DEF Sound, Holding, Complete
<1>4. s.pc \in {"capture", "create"} => s.got["manifest"].loop \in Tokens
  <2> SUFFICES ASSUME s.pc \in {"capture", "create"} PROVE s.got["manifest"].loop \in Tokens
    OBVIOUS
  <2>1. PICK p \in M : [s.got EXCEPT !["confirmation"] = Absent] = Documents(p)
    BY DEF Sound, Holding, Complete, Starts
  <2>2. s.got \in [Names -> Values]
    BY DEF CallStates
  <2>3. s.got["manifest"] = Documents(p)["manifest"]
    BY <2>1, <2>2 DEF Names
  <2>4. p \in Preparations /\ p.loop \in Tokens
    BY DEF Preparations
  <2>5. Documents(p)["manifest"].loop = p.loop
    BY <2>4, DocumentsOf
  <2> QED BY <2>3, <2>4, <2>5
<1>5. Starting(s, A2, R2)
  BY <1>4 DEF Sound, Starting
<1> QED BY <1>1, <1>2, <1>3, <1>5 DEF Sound

\* One call moves on to s.
LEMMA CallStep ==
  ASSUME IInv, NEW c \in Calls, NEW s \in CallStates, Goto(c, s), TypeOK',
         made \subseteq made', agreed \subseteq agreed',
         \A t \in Tokens : roots[t].blobs \subseteq roots'[t].blobs,
         Sound(s, made', agreed', roots'), Genuine', Rooted'
  PROVE  IInv'
<1>1. ASSUME NEW d \in Calls PROVE Sound(calls'[d], made', agreed', roots')
  <2>1. calls \in [Calls -> CallStates] /\ made \subseteq Preparations
    BY DEF IInv, TypeOK
  <2>2. CASE d = c
    BY <2>1, <2>2 DEF Goto
  <2>3. CASE d # c
    <3>1. calls'[d] = calls[d] /\ calls[d] \in CallStates
      BY <2>1, <2>3 DEF Goto
    <3>2. Sound(calls[d], made, agreed, roots)
      BY DEF IInv
    <3>3. Sound(calls[d], made', agreed', roots')
      BY <2>1, <3>1, <3>2, SoundStays
    <3> QED BY <3>1, <3>3
  <2> QED BY <2>2, <2>3
<1> QED BY <1>1 DEF IInv

LEMMA QuietStep ==
  ASSUME IInv, NEW c \in Calls, NEW s \in CallStates, Goto(c, s),
         UNCHANGED <<roots, made, agreed, profile, clock>>,
         there' \in BOOLEAN, files' \in [Names -> Values], Genuine',
         Sound(s, made, agreed, roots)
  PROVE  IInv'
<1>1. TypeOK'
  BY DEF IInv, TypeOK, Goto
<1>2. Rooted'
  BY DEF IInv, Rooted
<1> QED BY <1>1, <1>2, CallStep

\* ... and leaves the files.
LEMMA ReadingStep ==
  ASSUME IInv, NEW c \in Calls, NEW s \in CallStates, Goto(c, s), NoWrite, Quiet,
         Sound(s, made, agreed, roots)
  PROVE  IInv'
<1>1. UNCHANGED <<there, files, roots, made, agreed, profile, clock>>
  BY DEF NoWrite, Quiet, User
<1>2. Genuine'
  BY <1>1 DEF IInv, Genuine
<1> QED BY <1>1, <1>2, QuietStep DEF IInv, TypeOK

LEMMA EndPreserves ==
  ASSUME IInv, NEW c \in Calls, End(c), NoWrite, Quiet
  PROVE  IInv'
  BY IdleSound, ReadingStep DEF End

\* The state of a call.
LEMMA CallState ==
  ASSUME IInv, NEW c \in Calls
  PROVE  /\ calls[c] \in CallStates /\ Sound(calls[c], made, agreed, roots)
         /\ calls[c].got \in [Names -> Values] /\ calls[c].todo \in Seq(Names)
         /\ calls[c].at \in Nat /\ calls[c].got["confirmation"] \in {Absent} \union agreed
         /\ calls[c].pc \in Loads \union Starts =>
              Complete(calls[c].got, made) /\ Matches(calls[c].got)
<1>1. calls[c] \in CallStates /\ Sound(calls[c], made, agreed, roots)
  BY DEF IInv, TypeOK
<1> QED BY <1>1 DEF CallStates, Sound, Holding

\* A call begins to load.
LEMMA LoadSound ==
  ASSUME IInv, NEW c \in Calls, NEW phase \in {"review", "confirm", "start", "reload"}
  PROVE  /\ Load(c, phase) \in CallStates /\ Sound(Load(c, phase), made, agreed, roots)
         /\ Load(c, phase).got["confirmation"] = Absent /\ Load(c, phase).pc = "list"
<1>1. NoFiles \in [Names -> Values] /\ NoFiles["confirmation"] = Absent
  BY DEF NoFiles, Values, Names
<1>2. /\ Load(c, phase) \in CallStates /\ Load(c, phase).pc = "list"
      /\ Load(c, phase).got["confirmation"] = Absent
  BY <1>1, CallState DEF Load, CallStates
<1> QED BY <1>2 DEF Sound, Writing, Reading, Holding, Starting, Loads, Starts

-----------------------------------------------------------------------------
(***************************************************************************)
(* The steps of PREPARE.                                                   *)
(***************************************************************************)
LEMMA TailOf ==
  ASSUME NEW S, NEW q \in Seq(S), q # <<>>
  PROVE  /\ Head(q) \in S /\ Tail(q) \in Seq(S) /\ (Tail(q) # <<>> <=> Len(q) # 1)
         /\ \A i \in DOMAIN q : q[i] = Head(q) \/ \E j \in DOMAIN Tail(q) : Tail(q)[j] = q[i]
<1>1. Head(q) \in S /\ Tail(q) \in Seq(S) /\ (Tail(q) # <<>> <=> Len(q) # 1)
  <2>1. Head(q) \in S /\ Tail(q) \in Seq(S) /\ Len(Tail(q)) = Len(q) - 1 /\ Len(q) \in Nat
    OBVIOUS
  <2>2. ASSUME NEW t \in Seq(S) PROVE t = <<>> <=> Len(t) = 0
    OBVIOUS
  <2>3. Len(q) # 1 <=> Len(q) - 1 # 0
    BY <2>1
  <2> QED BY <2>1, <2>2, <2>3
<1>2. ASSUME NEW i \in DOMAIN q, i # 1
      PROVE  i - 1 \in DOMAIN Tail(q) /\ Tail(q)[i - 1] = q[i]
  BY <1>2
<1>3. Head(q) = q[1]
  OBVIOUS
<1> QED BY <1>1, <1>2, <1>3

LEMMA Unchanged ==
  ASSUME IInv, UNCHANGED <<calls, there, files, roots, made, agreed>>,
         profile' \in Profiles, clock' \in Nat
  PROVE  IInv'
<1>1. TypeOK'
  BY DEF IInv, TypeOK
<1>2. Genuine' /\ Rooted'
  BY DEF IInv, Genuine, Rooted
<1> QED BY <1>1, <1>2 DEF IInv

LEMMA PreparePreserves ==
  ASSUME IInv, NEW c \in Calls, NEW r \in DOMAIN Requests, NEW t \in Tokens, Prepare(c, r, t)
  PROVE  IInv'
<1> DEFINE p == [plan |-> r, loop |-> t, profile |-> profile]
           s == [Idle EXCEPT !.pc = "mkdir", !.out = Documents(p), !.todo = WriteOrder]
<1>1. UNCHANGED <<there, files, roots, agreed, profile, clock>>
  BY DEF Prepare, NoWrite, User
<1>2. CASE Refusal(Requests[r], profile) # ""
  BY <1>1, <1>2, Unchanged DEF Prepare, IInv, TypeOK
<1>3. CASE Refusal(Requests[r], profile) = ""
  <2>1. Goto(c, s) /\ made' = made \union {p}
    BY <1>3 DEF Prepare
  <2>2. p \in Preparations
    BY DEF Preparations, IInv, TypeOK
  <2>3. WriteOrder \in Seq(Kept) /\ WriteOrder \in Seq(Names) /\ WriteOrder # <<>>
    BY DEF WriteOrder, Kept, Names
  <2>4. Documents(p) \in [Names -> Values]
    BY <2>2, DocumentsOf DEF Values
  <2>5. Idle \in CallStates /\ Idle.got["confirmation"] = Absent
    BY IdleSound DEF Idle, NoFiles, Names
  <2> HIDE DEF p
  <2>6. /\ s \in CallStates /\ s.pc = "mkdir" /\ s.out = Documents(p) /\ s.todo = WriteOrder
        /\ s.got["confirmation"] = Absent
    BY <2>3, <2>4, <2>5 DEF CallStates
  <2> HIDE DEF s
  <2>7. Sound(s, made', agreed', roots')
    BY <2>1, <2>3, <2>6 DEF Sound, Writing, Reading, Holding, Starting, Loads, Starts
  <2>8. TypeOK'
    BY <1>1, <2>1, <2>2, <2>6 DEF IInv, TypeOK, Goto
  <2>9. Genuine'
    BY <1>1, <2>1 DEF IInv, Genuine, Written
  <2>10. Rooted'
    BY <1>1 DEF IInv, Rooted
  <2> QED BY <1>1, <2>1, <2>6, <2>7, <2>8, <2>9, <2>10, CallStep
<1> QED BY <1>2, <1>3

LEMMA MakeDirectoryPreserves ==
  ASSUME IInv, NEW c \in Calls, MakeDirectory(c) PROVE IInv'
<1> DEFINE s == [calls[c] EXCEPT !.pc = "write"]
<1>1. UNCHANGED <<files, roots, made, agreed, profile, clock>> /\ calls[c].pc = "mkdir"
  BY DEF MakeDirectory, Quiet, User
<1>2. Genuine' /\ files' \in [Names -> Values]
  BY <1>1 DEF IInv, Genuine, TypeOK
<1>3. CASE files = NoFiles
  <2>1. there' = TRUE /\ Goto(c, s)
    BY <1>3 DEF MakeDirectory, Step
  <2>2. /\ s \in CallStates /\ s.pc = "write" /\ s.todo = calls[c].todo
        /\ s.out = calls[c].out /\ s.got = calls[c].got
    BY CallState DEF CallStates
  <2>3. Writing(calls[c], made) /\ calls[c].got["confirmation"] \in {Absent} \union agreed
    BY CallState DEF Sound
  <2> HIDE DEF s
  <2>4. Sound(s, made, agreed, roots)
    BY <1>1, <2>2, <2>3 DEF Sound, Writing, Reading, Holding, Starting, Loads, Starts
  <2> QED BY <1>1, <1>2, <2>1, <2>2, <2>4, QuietStep
<1>4. CASE files # NoFiles
  <2>1. there' = there /\ Goto(c, Idle)
    BY <1>4 DEF MakeDirectory, End
  <2> QED BY <1>1, <1>2, <2>1, IdleSound, QuietStep DEF IInv, TypeOK
<1> QED BY <1>3, <1>4

\* A document is written whole, under its own name.
LEMMA WriteDocumentPreserves ==
  ASSUME IInv, NEW c \in Calls, WriteDocument(c) PROVE IInv'
<1> DEFINE s == calls[c]
           n == Head(s.todo)
           next == IF Len(s.todo) = 1 THEN Idle ELSE [s EXCEPT !.todo = Tail(@)]
<1>1. /\ UNCHANGED <<there, roots, made, agreed, profile, clock>> /\ there' \in BOOLEAN
      /\ s.pc = "write" /\ Write(c, n, s.out[n], next)
  BY DEF WriteDocument, Quiet, User, IInv, TypeOK
<1>2. /\ s \in CallStates /\ s.todo # <<>> /\ s.todo \in Seq(Kept)
      /\ \E p \in made : s.out = Documents(p)
      /\ s.got["confirmation"] \in {Absent} \union agreed
  BY <1>1, CallState DEF Sound, Writing
<1>3. n \in Kept
  BY <1>2
<1>4. next \in CallStates /\ Sound(next, made, agreed, roots)
  <2>1. CASE Len(s.todo) = 1
    BY <2>1, IdleSound
  <2>2. CASE Len(s.todo) # 1
    <3> DEFINE u == [s EXCEPT !.todo = Tail(s.todo)]
    <3>1. Tail(s.todo) \in Seq(Kept) /\ Tail(s.todo) # <<>> /\ Tail(s.todo) \in Seq(Names)
      BY <1>2, <2>2, CallState, TailOf
    <3>2. /\ u \in CallStates /\ u.pc = "write" /\ u.todo = Tail(s.todo)
          /\ u.out = s.out /\ u.got = s.got
      BY <1>1, <1>2, <3>1 DEF CallStates
    <3> HIDE DEF u, s
    <3>3. Sound(u, made, agreed, roots)
      BY <1>2, <3>1, <3>2 DEF Sound, Writing, Reading, Holding, Starting, Loads, Starts
    <3>4. next = u
      BY <2>2 DEF u
    <3> QED BY <3>2, <3>3, <3>4
  <2> QED BY <2>1, <2>2
<1>5. PICK p \in made : s.out = Documents(p)
  BY <1>2
<1>6. p \in Preparations
  BY DEF IInv, TypeOK
<1>7. n \in Names /\ n # "confirmation"
  BY <1>3 DEF Kept
<1>8. s.out[n] \in Written(n, made, agreed) /\ s.out[n] \in Values
  BY <1>2, <1>5, <1>7 DEF Written, CallStates
<1> HIDE DEF next, n, s
<1>9. CASE there /\ files[n] = Absent
  <2>1. files' = [files EXCEPT ![n] = s.out[n]] /\ Goto(c, next)
    BY <1>1, <1>9 DEF Write
  <2>2. files' \in [Names -> Values] /\ Genuine'
    BY <1>1, <1>7, <1>8, <2>1 DEF IInv, TypeOK, Genuine, Written
  <2> QED BY <1>1, <1>4, <2>1, <2>2, QuietStep
<1>10. CASE ~(there /\ files[n] = Absent)
  <2>1. UNCHANGED files /\ Goto(c, Idle)
    BY <1>1, <1>10 DEF Write, End
  <2>2. files' \in [Names -> Values] /\ Genuine'
    BY <1>1, <2>1 DEF IInv, TypeOK, Genuine
  <2> QED BY <1>1, <2>1, <2>2, IdleSound, QuietStep
<1> QED BY <1>9, <1>10

-----------------------------------------------------------------------------
(***************************************************************************)
(* The steps of a load.                                                    *)
(***************************************************************************)
LEMMA ListPreserves == ASSUME IInv, NEW c \in Calls, List(c) PROVE IInv'
<1>1. NoWrite /\ Quiet /\ calls[c].pc = "list"
  BY DEF List
<1>2. CASE End(c)
  BY <1>1, <1>2, EndPreserves
<1>3. ASSUME NEW todo \in {ReadOrder, Append(ReadOrder, "confirmation")},
             Goto(c, [calls[c] EXCEPT !.pc = "read", !.todo = todo])
      PROVE  IInv'
  <2> DEFINE s == [calls[c] EXCEPT !.pc = "read", !.todo = todo]
  <2>1. todo \in Seq(Names) /\ todo # <<>>
    <3>1. ReadOrder \in Seq(Names) /\ ReadOrder # <<>> /\ "confirmation" \in Names
      BY DEF ReadOrder, Names
    <3> QED BY <3>1
  <2>2. \A n \in Kept : \E i \in DOMAIN todo : todo[i] = n
    <3>1. DOMAIN ReadOrder = 1..6 /\ 1..6 \subseteq DOMAIN todo
          /\ \A i \in 1..6 : todo[i] = ReadOrder[i]
      BY DEF ReadOrder
    <3>2. \A n \in Kept : \E i \in 1..6 : ReadOrder[i] = n
      BY DEF ReadOrder, Kept, Names
    <3> QED BY <3>1, <3>2
  <2>3. /\ s \in CallStates /\ s.pc = "read" /\ s.todo = todo /\ s.got = calls[c].got
    BY <2>1, CallState DEF CallStates
  <2>4. s.got["confirmation"] \in {Absent} \union agreed
    BY <2>3, CallState
  <2>5. Goto(c, s)
    BY <1>3
  <2> HIDE DEF s
  <2>6. Sound(s, made, agreed, roots)
    BY <2>1, <2>2, <2>3, <2>4 DEF Sound, Writing, Reading, Holding, Starting, Loads, Starts
  <2> QED BY <1>1, <2>3, <2>5, <2>6, ReadingStep
<1> QED BY <1>2, <1>3 DEF List

\* What follows a load that succeeded.
LEMMA LoadedSound ==
  ASSUME IInv, NEW s \in CallStates, s.pc = "read", Accepted(s), Complete(s.got, made),
         s.got["confirmation"] \in {Absent} \union agreed
  PROVE  Loaded(s) \in CallStates /\ Sound(Loaded(s), made, agreed, roots)
<1>1. Matches(s.got) /\ clock \in Nat
  BY DEF Accepted, IInv, TypeOK
<1>2. CASE s.phase = "review"
  <2> DEFINE u == [s EXCEPT !.pc = "ask"]
  <2>1. u \in CallStates /\ u.pc = "ask" /\ u.got = s.got
    BY DEF CallStates, Loads
  <2>2. Loaded(s) = u
    BY <1>2 DEF Loaded
  <2> HIDE DEF u
  <2>3. Sound(u, made, agreed, roots)
    BY <1>1, <2>1 DEF Sound, Writing, Reading, Holding, Starting, Starts
  <2> QED BY <2>1, <2>2, <2>3
<1>3. CASE s.phase = "confirm" /\ s.got["confirmation"] = Absent
  <2> DEFINE u == [s EXCEPT !.pc = "sign", !.at = clock]
  <2>1. u \in CallStates /\ u.pc = "sign" /\ u.got = s.got
    BY <1>1 DEF CallStates, Loads
  <2>2. Loaded(s) = u
    BY <1>3 DEF Loaded
  <2> HIDE DEF u
  <2>3. Sound(u, made, agreed, roots)
    BY <1>1, <2>1 DEF Sound, Writing, Reading, Holding, Starting, Starts
  <2> QED BY <2>1, <2>2, <2>3
<1>4. CASE s.phase = "start"
  <2> DEFINE u == [s EXCEPT !.pc = "check", !.at = clock]
  <2>1. u \in CallStates /\ u.pc = "check" /\ u.got = s.got /\ u.at = clock
    BY <1>1 DEF CallStates, Starts
  <2>2. Loaded(s) = u
    BY <1>4 DEF Loaded
  <2> HIDE DEF u
  <2>3. s.got["confirmation"] \in agreed /\ Binds(s.got["confirmation"], s.got, clock)
    BY <1>4 DEF Accepted
  <2>4. Sound(u, made, agreed, roots)
    BY <1>1, <2>1, <2>3 DEF Sound, Writing, Reading, Holding, Starting, Starts
  <2> QED BY <2>1, <2>2, <2>4
<1>5. CASE /\ s.phase # "review" /\ s.phase # "start"
           /\ ~(s.phase = "confirm" /\ s.got["confirmation"] = Absent)
  BY <1>5, IdleSound DEF Loaded
<1> QED BY <1>2, <1>3, <1>4, <1>5

\* A file is read as it is then; the last one is followed by the checks.
LEMMA ReadPreserves == ASSUME IInv, NEW c \in Calls, Read(c) PROVE IInv'
<1> DEFINE s == calls[c]
           n == Head(s.todo)
           read == [s EXCEPT !.got[n] = files[n], !.todo = Tail(@)]
<1>1. NoWrite /\ Quiet /\ s.pc = "read"
  BY DEF Read
<1>2. /\ s \in CallStates /\ s.got \in [Names -> Values] /\ s.todo \in Seq(Names)
      /\ s.todo # <<>> /\ s.got["confirmation"] \in {Absent} \union agreed
      /\ \A m \in Kept : \/ s.got[m] \in Written(m, made, agreed)
                         \/ \E i \in DOMAIN s.todo : s.todo[i] = m
  BY <1>1, CallState DEF Sound, Reading
<1>3. /\ n \in Names /\ Tail(s.todo) \in Seq(Names)
      /\ \A i \in DOMAIN s.todo :
           s.todo[i] = n \/ \E j \in DOMAIN Tail(s.todo) : Tail(s.todo)[j] = s.todo[i]
  BY <1>2, TailOf
<1>4. CASE files[n] = Absent \/ files[n] = Torn
  BY <1>1, <1>4, EndPreserves DEF Read
<1>5. CASE files[n] # Absent /\ files[n] # Torn
  <2>1. files[n] \in Written(n, made, agreed) /\ files[n] \in Values
    BY <1>3, <1>5 DEF IInv, Genuine, TypeOK
  <2>2. /\ read \in CallStates /\ read.pc = "read" /\ read.todo = Tail(s.todo)
        /\ read.got \in [Names -> Values] /\ read.got[n] = files[n]
        /\ \A m \in Names : m # n => read.got[m] = s.got[m]
    <3> DEFINE got == [s.got EXCEPT ![n] = files[n]]
    <3>1. /\ got \in [Names -> Values] /\ got[n] = files[n]
          /\ \A m \in Names : m # n => got[m] = s.got[m]
      BY <1>2, <1>3, <2>1
    <3>2. read = [s EXCEPT !.got = got, !.todo = Tail(s.todo)]
      BY <1>2 DEF CallStates
    <3> HIDE DEF got, n, read
    <3> QED BY <1>1, <1>2, <1>3, <3>1, <3>2 DEF CallStates
  <2>3. Goto(c, IF read.todo # <<>> THEN read ELSE IF Accepted(read) THEN Loaded(read) ELSE Idle)
    BY <1>5 DEF Read
  <2> HIDE DEF read, n, s
  <2>4. \A m \in Kept : \/ read.got[m] \in Written(m, made, agreed)
                        \/ \E i \in DOMAIN read.todo : read.todo[i] = m
    BY <1>2, <1>3, <2>1, <2>2 DEF Kept
  <2>5. read.got["confirmation"] \in {Absent} \union agreed
    BY <1>2, <2>1, <2>2 DEF Written, Names
  <2>6. CASE read.todo # <<>>
    <3>1. Sound(read, made, agreed, roots)
      BY <2>2, <2>4, <2>5, <2>6 DEF Sound, Writing, Reading, Holding, Starting, Loads, Starts
    <3>2. Goto(c, read)
      BY <2>3, <2>6
    <3> QED BY <1>1, <2>2, <3>1, <3>2, ReadingStep
  <2>7. CASE read.todo = <<>> /\ Accepted(read)
    <3>1. read.got["bundle"] \in Written("bundle", made, agreed)
      BY <2>4, <2>7 DEF Kept, Names
    <3>2. Complete(read.got, made)
      BY <2>2, <2>7, <3>1, MatchingIsComplete DEF Accepted, IInv
    <3>3. Loaded(read) \in CallStates /\ Sound(Loaded(read), made, agreed, roots)
      BY <2>2, <2>5, <2>7, <3>2, LoadedSound
    <3>4. Goto(c, Loaded(read))
      BY <2>3, <2>7
    <3> QED BY <1>1, <3>3, <3>4, ReadingStep
  <2>8. CASE read.todo = <<>> /\ ~Accepted(read)
    <3>1. Goto(c, Idle)
      BY <2>3, <2>8
    <3> QED BY <1>1, <3>1, IdleSound, ReadingStep
  <2> QED BY <2>6, <2>7, <2>8
<1> QED BY <1>4, <1>5

-----------------------------------------------------------------------------
(***************************************************************************)
(* The steps of CONFIRM and START.                                         *)
(***************************************************************************)
LEMMA ConfirmPreserves == ASSUME IInv, NEW c \in Calls, Confirm(c) PROVE IInv'
  BY LoadSound, ReadingStep DEF Confirm

LEMMA StartPreserves == ASSUME IInv, NEW c \in Calls, Start(c) PROVE IInv'
  BY LoadSound, ReadingStep DEF Start

LEMMA AskPreserves == ASSUME IInv, NEW c \in Calls, Ask(c) PROVE IInv'
<1>1. NoWrite /\ Quiet
  BY DEF Ask
<1>2. CASE Goto(c, Load(c, "confirm"))
  BY <1>1, <1>2, LoadSound, ReadingStep
<1>3. CASE End(c)
  BY <1>1, <1>3, EndPreserves
<1> QED BY <1>2, <1>3 DEF Ask

\* The receipt that is written is the one that was agreed on.
LEMMA SignPreserves == ASSUME IInv, NEW c \in Calls, Sign(c) PROVE IInv'
<1> DEFINE s == calls[c]
           receipt == Receipt(s.got, s.at)
           next == [Load(c, "reload") EXCEPT !.at = 0]
<1>1. /\ UNCHANGED <<there, roots, made, profile, clock>> /\ s.pc = "sign"
      /\ Write(c, "confirmation", receipt, next)
      /\ agreed' = (IF there /\ files["confirmation"] = Absent THEN agreed \union {receipt}
                    ELSE agreed)
  BY DEF Sign, User
<1>2. s.at \in Nat /\ s.got \in [Names -> Values] /\ Complete(s.got, made)
  BY <1>1, CallState DEF Loads
<1>3. receipt \in Receipts
  <2>1. s.at + Validity \in Nat
    BY <1>2, PreparationAssumption
  <2>2. /\ s.got["manifest"].loop \in Tokens /\ s.got["boundary"] \in Contents
        /\ s.got["manifest"] \in Contents /\ s.got["bundle"] \in Contents
    BY <1>2, CompleteTypes DEF IInv
  <2> QED BY <1>2, <2>1, <2>2 DEF Receipt, Receipts
<1>4. /\ next \in CallStates /\ next.pc = "list" /\ next.got["confirmation"] = Absent
  BY LoadSound DEF CallStates
<1>5. Rooted'
  BY <1>1 DEF IInv, Rooted, Founded
<1> HIDE DEF next, receipt, s
<1>6. CASE there /\ files["confirmation"] = Absent
  <2>1. /\ files' = [files EXCEPT !["confirmation"] = receipt] /\ Goto(c, next)
        /\ agreed' = agreed \union {receipt}
    BY <1>1, <1>6 DEF Write
  <2>2. Sound(next, made', agreed', roots')
    BY <1>4 DEF Sound, Writing, Reading, Holding, Starting, Loads, Starts
  <2>3. TypeOK'
    BY <1>1, <1>3, <1>4, <2>1 DEF IInv, TypeOK, Goto, Values
  <2>4. Genuine'
    BY <1>1, <2>1 DEF IInv, TypeOK, Genuine, Written
  <2> QED BY <1>1, <1>4, <1>5, <2>1, <2>2, <2>3, <2>4, CallStep
<1>7. CASE ~(there /\ files["confirmation"] = Absent)
  <2>1. UNCHANGED <<files, agreed>> /\ Goto(c, Idle)
    BY <1>1, <1>7 DEF Write, End
  <2>2. Genuine'
    BY <1>1, <2>1 DEF IInv, Genuine
  <2> QED BY <1>1, <2>1, <2>2, IdleSound, QuietStep DEF IInv, TypeOK
<1> QED BY <1>6, <1>7

LEMMA CheckPreserves == ASSUME IInv, NEW c \in Calls, Check(c) PROVE IInv'
<1> DEFINE u == [calls[c] EXCEPT !.pc = "blobs"]
<1>1. NoWrite /\ Quiet /\ calls[c].pc = "check" /\ (Goto(c, u) \/ End(c))
  BY DEF Check, Step
<1>2. u \in CallStates /\ u.pc = "blobs" /\ u.got = calls[c].got /\ u.at = calls[c].at
  BY CallState DEF CallStates, Starts
<1>3. Holding(calls[c], made, agreed) /\ Starting(calls[c], agreed, roots)
  BY CallState DEF Sound
<1> HIDE DEF u
<1>4. Sound(u, made, agreed, roots)
  BY <1>1, <1>2, <1>3 DEF Sound, Writing, Reading, Holding, Starting, Starts
<1> QED BY <1>1, <1>2, <1>4, EndPreserves, ReadingStep

LEMMA PutBlobsPreserves == ASSUME IInv, NEW c \in Calls, PutBlobs(c) PROVE IInv'
<1> DEFINE s == calls[c]
           t == s.got["manifest"].loop
           u == [s EXCEPT !.pc = "capture"]
           root == [roots[t] EXCEPT !.blobs = @ \union {Blobs(s)}]
<1>1. /\ UNCHANGED <<there, files, made, agreed, profile, clock>> /\ s.pc = "blobs"
      /\ roots' = [roots EXCEPT ![t] = root] /\ Goto(c, u)
  BY DEF PutBlobs, Step, PutRoot, Root, NoWrite, User
<1>2. /\ s.got \in [Names -> Values] /\ s \in CallStates
      /\ Holding(s, made, agreed) /\ Starting(s, agreed, roots) /\ Complete(s.got, made)
  BY <1>1, CallState DEF Sound, Starts
<1>3. t \in Tokens /\ Blobs(s) \in (DOMAIN Requests) \X Contents
  BY <1>2, CompleteTypes DEF IInv, Blobs
<1>4. roots[t] \in [blobs : SUBSET ((DOMAIN Requests) \X Contents), loops : SUBSET Loops]
  BY <1>3 DEF IInv, TypeOK
<1>5. u \in CallStates /\ u.pc = "capture" /\ u.got = s.got /\ u.at = s.at /\ Blobs(u) = Blobs(s)
  BY <1>2 DEF CallStates, Starts, Blobs
<1>6. /\ root \in [blobs : SUBSET ((DOMAIN Requests) \X Contents), loops : SUBSET Loops]
      /\ root.blobs = roots[t].blobs \union {Blobs(s)} /\ root.loops = roots[t].loops
  BY <1>3, <1>4
<1> HIDE DEF root, u, t
<1>7. /\ roots' \in [Tokens -> [blobs : SUBSET ((DOMAIN Requests) \X Contents),
                                loops : SUBSET Loops]]
      /\ roots'[t] = root /\ \A k \in Tokens : k # t => roots'[k] = roots[k]
  BY <1>1, <1>3, <1>6 DEF IInv, TypeOK
<1>8. \A k \in Tokens : roots[k].blobs \subseteq roots'[k].blobs /\ roots'[k].loops = roots[k].loops
  BY <1>6, <1>7
<1>9. Sound(u, made', agreed', roots')
  <2>1. Blobs(u) \in roots'[u.got["manifest"].loop].blobs
    BY <1>5, <1>6, <1>7 DEF t
  <2> QED BY <1>1, <1>2, <1>5, <2>1 DEF Sound, Writing, Reading, Holding, Starting, Starts
<1>10. TypeOK'
  BY <1>1, <1>5, <1>7 DEF IInv, TypeOK, Goto
<1>11. Genuine'
  BY <1>1 DEF IInv, Genuine
<1>12. Rooted'
  BY <1>1, <1>8 DEF IInv, Rooted, Founded
<1> QED BY <1>1, <1>5, <1>8, <1>9, <1>10, <1>11, <1>12, CallStep

LEMMA CapturePreserves == ASSUME IInv, NEW c \in Calls, Capture(c) PROVE IInv'
<1> DEFINE s == calls[c]
           u == [s EXCEPT !.pc = "create", !.baseline = profile]
<1>1. /\ NoWrite /\ Quiet /\ s.pc = "capture"
      /\ End(c) \/ (Goto(c, u) /\ profile = s.got["manifest"].profile)
  BY DEF Capture
<1>2. s \in CallStates /\ Holding(s, made, agreed) /\ Starting(s, agreed, roots)
  BY CallState DEF Sound
<1>3. /\ u \in CallStates /\ u.pc = "create" /\ u.got = s.got /\ u.at = s.at
      /\ u.baseline = profile /\ Blobs(u) = Blobs(s)
  BY <1>2 DEF CallStates, Starts, Blobs, IInv, TypeOK
<1> HIDE DEF u, s
<1>4. profile = s.got["manifest"].profile => Sound(u, made, agreed, roots)
  BY <1>1, <1>2, <1>3 DEF Sound, Writing, Reading, Holding, Starting, Starts
<1> QED BY <1>1, <1>3, <1>4, EndPreserves, ReadingStep

\* A loop is created from what was loaded, and only when there is none.
LEMMA CreatePreserves == ASSUME IInv, NEW c \in Calls, Create(c) PROVE IInv'
<1> DEFINE s == calls[c]
           t == s.got["manifest"].loop
           a == s.got["confirmation"]
           loop == Command(s)
<1>1. /\ UNCHANGED <<there, files, made, agreed, profile, clock>> /\ s.pc = "create"
      /\ Goto(c, Idle)
  BY DEF Create, End, NoWrite, User
<1>2. /\ s.got \in [Names -> Values] /\ s \in CallStates /\ s.at \in Nat
      /\ Complete(s.got, made) /\ Matches(s.got)
      /\ a \in agreed /\ Binds(a, s.got, s.at) /\ Blobs(s) \in roots[t].blobs
      /\ s.baseline = s.got["manifest"].profile
  BY <1>1, CallState DEF Sound, Starting, Starts
<1>3. /\ t \in Tokens /\ s.got["manifest"].profile \in Profiles
      /\ s.got["plan"] \in DOMAIN Requests /\ s.got["index"] \in Contents
      /\ s.got["bundle"] \in Contents /\ s.got["bundle"]["manifest"] = s.got["manifest"]
  BY <1>2, CompleteTypes DEF IInv
<1>4. CASE \E l \in roots[t].loops : l.loop = loop.loop
  <2>1. UNCHANGED roots
    BY <1>4 DEF Create, Root
  <2>2. Genuine'
    BY <1>1 DEF IInv, Genuine
  <2> QED BY <1>1, <2>1, <2>2, IdleSound, QuietStep DEF IInv, TypeOK
<1>5. CASE ~\E l \in roots[t].loops : l.loop = loop.loop
  <2> DEFINE root == [roots[t] EXCEPT !.loops = @ \union {loop}]
  <2>1. roots' = [roots EXCEPT ![t] = root]
    BY <1>5 DEF Create, Root, PutRoot
  <2>2. /\ loop \in Loops /\ loop.loop = t /\ <<loop.plan, loop.index>> = Blobs(s)
        /\ loop.bundle = s.got["bundle"] /\ loop.issued = s.at /\ loop.plan = s.got["plan"]
        /\ loop.baseline = s.got["manifest"].profile
    BY <1>2, <1>3 DEF Command, Loops, Blobs
  <2>3. roots[t] \in [blobs : SUBSET ((DOMAIN Requests) \X Contents), loops : SUBSET Loops]
    BY <1>3 DEF IInv, TypeOK
  <2>4. roots[t].loops = {}
    <3>1. \A l \in roots[t].loops : l.loop = t
      BY <1>3 DEF IInv, Rooted, Founded
    <3>2. \A l \in roots[t].loops : FALSE
      BY <3>1, <1>5, <2>2
    <3> QED BY <3>2
  <2>5. Founded(loop, t, roots[t].blobs, agreed)
    <3>1. a \in Receipts
      BY <1>2 DEF IInv, TypeOK
    <3>2. loop.issued \in a.issued .. a.expires /\ loop.loop = a.loop /\ loop.bundle = a.bundle
      BY <1>2, <2>2, <3>1 DEF Binds, Receipts
    <3>3. CapabilityPasses(Plan(loop.plan), loop.baseline)
      BY <1>2, <2>2 DEF Matches, ReportsMatch
    <3> QED BY <1>2, <1>3, <2>2, <3>2, <3>3 DEF Founded
  <2> HIDE DEF loop, t, s, a
  <2>6. /\ root \in [blobs : SUBSET ((DOMAIN Requests) \X Contents), loops : SUBSET Loops]
        /\ root.blobs = roots[t].blobs /\ root.loops = {loop}
    BY <2>2, <2>3, <2>4
  <2> HIDE DEF root
  <2>7. /\ roots' \in [Tokens -> [blobs : SUBSET ((DOMAIN Requests) \X Contents),
                                  loops : SUBSET Loops]]
        /\ roots'[t] = root /\ \A k \in Tokens : k # t => roots'[k] = roots[k]
    BY <1>3, <2>1, <2>6 DEF IInv, TypeOK
  <2>8. \A k \in Tokens : roots[k].blobs \subseteq roots'[k].blobs
    BY <2>6, <2>7
  <2>9. TypeOK'
    BY <1>1, <2>7, IdleSound DEF IInv, TypeOK, Goto
  <2>10. Genuine'
    BY <1>1 DEF IInv, Genuine
  <2>11. Rooted'
    <3>1. ASSUME NEW k \in Tokens
          PROVE  /\ roots'[k].loops = {} \/ \E l \in Loops : roots'[k].loops = {l}
                 /\ \A l \in roots'[k].loops : Founded(l, k, roots'[k].blobs, agreed')
      <4>1. CASE k = t
        BY <1>1, <2>2, <2>5, <2>6, <2>7, <4>1
      <4>2. CASE k # t
        BY <1>1, <2>7, <4>2 DEF IInv, Rooted
      <4> QED BY <4>1, <4>2
    <3> QED BY <3>1 DEF Rooted
  <2> QED BY <1>1, <2>8, <2>9, <2>10, <2>11, IdleSound, CallStep
<1> QED BY <1>4, <1>5

-----------------------------------------------------------------------------
(***************************************************************************)
(* The user, the clock and crashes.                                        *)
(***************************************************************************)
LEMMA EditPreserves ==
  ASSUME IInv, UNCHANGED <<calls, roots, profile, clock, made, agreed>>,
         there' \in BOOLEAN, files' \in [Names -> Values], Genuine'
  PROVE  IInv'
<1>1. TypeOK'
  BY DEF IInv, TypeOK
<1>2. Rooted'
  BY DEF IInv, Rooted
<1> QED BY <1>1, <1>2 DEF IInv

LEMMA ReplaceFilePreserves == ASSUME IInv, NEW n \in Names, ReplaceFile(n) PROVE IInv'
<1>1. UNCHANGED <<calls, there, roots, profile, clock, made, agreed>>
  BY DEF ReplaceFile, CanEdit
<1>2. PICK version \in Versions(n) : files' = [files EXCEPT ![n] = version]
  BY DEF ReplaceFile
<1>3. version \in {Absent} \union Written(n, made, agreed)
  <2>1. CASE n = "confirmation"
    <3>1. \A p \in made : Documents(p)[n] = Absent
      BY <2>1, DocumentsOf DEF IInv, TypeOK
    <3> QED BY <1>2, <2>1, <3>1 DEF Versions, Written
  <2>2. CASE n # "confirmation"
    BY <1>2, <2>2 DEF Versions, Written
  <2> QED BY <2>1, <2>2
<1>4. version \in Values
  <2>1. \A p \in made : Documents(p)[n] \in Contents
    BY DocumentsOf DEF IInv, TypeOK
  <2> QED BY <1>3, <2>1 DEF Written, Values, IInv, TypeOK
<1>5. files' \in [Names -> Values] /\ Genuine'
  BY <1>1, <1>2, <1>3, <1>4 DEF IInv, TypeOK, Genuine
<1> QED BY <1>1, <1>5, EditPreserves DEF IInv, TypeOK

LEMMA RemoveDirectoryPreserves == ASSUME IInv, RemoveDirectory PROVE IInv'
<1>1. /\ UNCHANGED <<calls, roots, profile, clock, made, agreed>>
      /\ there' = FALSE /\ files' = NoFiles
  BY DEF RemoveDirectory, CanEdit
<1>2. files' \in [Names -> Values] /\ Genuine'
  BY <1>1 DEF NoFiles, Values, Genuine
<1> QED BY <1>1, <1>2, EditPreserves

LEMMA ChangeGitPreserves == ASSUME IInv, ChangeGit PROVE IInv'
  BY Unchanged DEF ChangeGit, NoWrite, IInv, TypeOK, Profiles

LEMMA TickPreserves == ASSUME IInv, Tick PROVE IInv'
  BY Unchanged DEF Tick, NoWrite, IInv, TypeOK

\* A call that dies leaves at most a torn file.
LEMMA CrashPreserves == ASSUME IInv, NEW c \in Calls, Crash(c) PROVE IInv'
<1> DEFINE n == IF calls[c].pc = "sign" THEN "confirmation" ELSE Head(calls[c].todo)
<1>1. /\ UNCHANGED <<there, roots, made, agreed, profile, clock>> /\ Goto(c, Idle)
      /\ \/ UNCHANGED files
         \/ calls[c].pc \in {"write", "sign"} /\ files' = [files EXCEPT ![n] = Torn]
  BY DEF Crash, Quiet, User, End
<1>2. CASE UNCHANGED files
  <2>1. Genuine'
    BY <1>1, <1>2 DEF IInv, Genuine
  <2> QED BY <1>1, <1>2, <2>1, IdleSound, QuietStep DEF IInv, TypeOK
<1>3. CASE calls[c].pc \in {"write", "sign"} /\ files' = [files EXCEPT ![n] = Torn]
  <2>1. files' \in [Names -> Values] /\ Genuine'
    <3> HIDE DEF n
    <3> QED BY <1>1, <1>3 DEF IInv, TypeOK, Genuine, Values
  <2> QED BY <1>1, <2>1, IdleSound, QuietStep DEF IInv, TypeOK
<1> QED BY <1>1, <1>2, <1>3

LEMMA InitSatisfies == ASSUME Init PROVE IInv
<1>1. NoFiles \in [Names -> Values]
  BY DEF NoFiles, Values
<1>2. calls \in [Calls -> CallStates]
  BY IdleSound DEF Init
<1>3. TypeOK
  BY <1>1, <1>2 DEF Init, TypeOK, Profiles
<1>4. Genuine
  BY DEF Init, Genuine, NoFiles
<1>5. \A c \in Calls : Sound(calls[c], made, agreed, roots)
  BY IdleSound DEF Init
<1>6. Rooted
  BY DEF Init, Rooted
<1> QED BY <1>3, <1>4, <1>5, <1>6 DEF IInv

LEMMA StepPreserves == ASSUME IInv, [Next]_vars PROVE IInv'
<1>1. ASSUME NEW c \in Calls, Begin(c) PROVE IInv'
  BY <1>1, PreparePreserves, ConfirmPreserves, StartPreserves DEF Begin
<1>2. ASSUME NEW c \in Calls, Continue(c) PROVE IInv'
  BY <1>2, MakeDirectoryPreserves, WriteDocumentPreserves, ListPreserves, ReadPreserves,
     AskPreserves, SignPreserves, CheckPreserves, PutBlobsPreserves, CapturePreserves,
     CreatePreserves
  DEF Continue
<1>3. CASE UNCHANGED vars
  BY <1>3, Unchanged DEF vars, IInv, TypeOK
<1> QED BY <1>1, <1>2, <1>3, CrashPreserves, ReplaceFilePreserves, RemoveDirectoryPreserves,
           ChangeGitPreserves, TickPreserves
        DEF Next

-----------------------------------------------------------------------------
\* Every file is genuine or torn, and what each call has in hand is what its checks let
\* through, whatever happens to the directory meanwhile.
THEOREM PreparationInvariant == Spec => []IInv
  BY InitSatisfies, StepPreserves, PTL DEF Spec

\* The documents that load_prepared lets through are those of one preparation.
THEOREM PreparationLoaded == Spec => []LoadedIsOnePreparation
<1>1. IInv => LoadedIsOnePreparation
  <2> SUFFICES ASSUME IInv, NEW c \in Calls,
                      calls[c].pc \in {"ask", "sign", "check", "blobs", "capture", "create"}
               PROVE  Complete(calls[c].got, made)
    BY DEF LoadedIsOnePreparation, Complete
  <2> QED BY CallState DEF Loads, Starts
<1> QED BY <1>1, PreparationInvariant, PTL

\* A loop is created for exactly what a user confirmed, while the confirmation lasted.
THEOREM PreparationConfirmed == Spec => []StartedIsConfirmed
<1>1. IInv => StartedIsConfirmed
  BY DEF IInv, Rooted, Founded, StartedIsConfirmed
<1> QED BY <1>1, PreparationInvariant, PTL

\* Calls that overlap or are repeated create one loop of a preparation, under its token,
\* with its plan and index stored.
THEOREM PreparationOnce == Spec => []StartedOnce
<1>1. IInv => StartedOnce
  <2> SUFFICES ASSUME IInv, NEW t \in Tokens
               PROVE  /\ Cardinality(roots[t].loops) <= 1
                      /\ \A loop \in roots[t].loops :
                           loop.loop = t /\ <<loop.plan, loop.index>> \in roots[t].blobs
    BY DEF StartedOnce
  <2>1. \A loop \in roots[t].loops : Founded(loop, t, roots[t].blobs, agreed)
    BY DEF IInv, Rooted
  <2>2. CASE roots[t].loops = {}
    BY <2>1, <2>2, FS_EmptySet
  <2>3. CASE \E loop \in Loops : roots[t].loops = {loop}
    <3>1. PICK loop \in Loops : roots[t].loops = {loop}
      BY <2>3
    <3>2. Cardinality({loop}) = 1
      BY FS_Singleton
    <3> QED BY <2>1, <3>1, <3>2 DEF Founded
  <2> QED BY <2>2, <2>3 DEF IInv, Rooted
<1> QED BY <1>1, PreparationInvariant, PTL

\* The goals skipped at run time are those that the confirmed report shows as skipped, and
\* a goal that must be done finds what it needs.
THEOREM PreparationSkips == Spec => []SkipsWereConfirmed
<1>1. IInv => SkipsWereConfirmed
  <2> SUFFICES ASSUME IInv, NEW t \in Tokens, NEW loop \in roots[t].loops,
                      Plan(loop.plan).schema = "v2",
                      NEW i \in DOMAIN Plan(loop.plan).goals
               PROVE  LET plan  == Plan(loop.plan)
                          goal  == plan.goals[i]
                          shown == Feasibility(plan, goal, loop.bundle["manifest"].profile)
                      IN  /\ goal.gate = "worker" =>
                               (Skipped(plan, goal, loop.baseline)
                                  <=> shown = "OPTIONAL_UNAVAILABLE")
                          /\ goal.requirement = "required" =>
                               Unavailable(plan, goal, loop.baseline) = {}
    BY DEF SkipsWereConfirmed
  <2> DEFINE plan == Plan(loop.plan)
             goal == plan.goals[i]
  <2>1. /\ loop.baseline = loop.bundle["manifest"].profile /\ loop.plan \in DOMAIN Requests
        /\ CapabilityPasses(plan, loop.baseline)
    <3>1. Founded(loop, t, roots[t].blobs, agreed) /\ roots[t].loops \subseteq Loops
      BY DEF IInv, TypeOK, Rooted
    <3> QED BY <3>1 DEF Founded, Loops
  <2>2. goal.requirement \in {"required", "optional"}
    BY <2>1, RequestsAssumption DEF Plan
  <2>3. Feasibility(plan, goal, loop.baseline) # "BLOCKED"
    BY <2>1 DEF CapabilityPasses
  <2> HIDE DEF plan, goal
  <2>4. plan.schema = "v2"
    BY DEF plan
  <2>5. Unavailable(plan, goal, loop.baseline) = {}
          <=> Needed(goal) \subseteq Available(plan, loop.baseline)
    BY DEF Unavailable
  <2>6. /\ goal.gate = "worker" =>
             (Skipped(plan, goal, loop.baseline)
                <=> Feasibility(plan, goal, loop.baseline) = "OPTIONAL_UNAVAILABLE")
        /\ goal.requirement = "required" => Unavailable(plan, goal, loop.baseline) = {}
    BY <2>2, <2>3, <2>4, <2>5 DEF Feasibility, Skipped
  <2> QED BY <2>1, <2>6 DEF goal, plan
<1> QED BY <1>1, PreparationInvariant, PTL
=============================================================================
