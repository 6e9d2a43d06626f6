------------------------- MODULE MediaCleanupProofs -------------------------
(***************************************************************************)
(* Proofs about MediaCleanup, for any number of files, orders and          *)
(* overlapping runs of the job, and any age that protects a file.          *)
(***************************************************************************)
EXTENDS MediaCleanup, TLAPS

\* The history is true: a file counts as named exactly while some order names it.
HistoryIsTrue == \A f \in Files : since[f] = Never <=> f \notin Shown(photos)

\* A file that the references of a run lack has not been named since before the run began.
KnowsReferences(j) ==
  job[j].pc \in {"list", "check", "unlink"} =>
    \A f \in Files \ job[j].referenced : since[f] = Never \/ since[f] >= job[j].current

\* What a run is about to unlink was old enough, and named by nobody, when it was looked at.
UnlinksOrphans(j) ==
  job[j].pc = "unlink" =>
    /\ ~job[j].dry
    /\ \A f \in Files : f = First(job[j].todo) =>
         /\ f \notin job[j].referenced
         /\ file[f].is # "none"
         /\ OnDisk(f) => job[j].current - file[f].mtime >= MinAge

\* A run read the time before it read the references, and both before it looks at a file.
Right(j) == job[j].current <= clock /\ KnowsReferences(j) /\ UnlinksOrphans(j)

\* The inductive invariant.
IInv == TypeOK /\ HistoryIsTrue /\ \A j \in Jobs : Right(j)

-----------------------------------------------------------------------------

LEMMA TypeInit == Init => TypeOK
  BY TimesAssumption, BoundsAssumption DEF Init, TypeOK, File, Job, Idle, Never

\* Every step keeps the types.
LEMMA TypeStep == TypeOK /\ [Next]_vars => TypeOK'
<1> SUFFICES ASSUME TypeOK, [Next]_vars PROVE TypeOK'
  OBVIOUS
<1> USE TimesAssumption, BoundsAssumption
<1>1. ASSUME NEW f \in Files, OpenFile(f) PROVE TypeOK'
  <2>1. clock \in Nat
    BY DEF TypeOK
  <2>2. [is |-> "open", mtime |-> clock] \in File
    BY <2>1 DEF File
  <2> QED BY <1>1, <2>2 DEF TypeOK, OpenFile
<1>2. ASSUME NEW f \in Files, StoreFile(f) PROVE TypeOK'
  <2>1. [file[f] EXCEPT !.is = "whole"] \in File
    BY DEF TypeOK, File
  <2> QED BY <1>2, <2>1 DEF TypeOK, StoreFile
<1>3. ASSUME NEW o \in Orders, SavePhotos(o) PROVE TypeOK'
  BY <1>3 DEF TypeOK, SavePhotos, Never
<1>4. ASSUME NEW j \in Jobs, NEW r \in Job, Step(j, r) PROVE job' \in [Jobs -> Job]
  BY <1>4 DEF Step, TypeOK
<1>5. Idle \in Job
  BY DEF Idle, Job
<1>6. ASSUME NEW j \in Jobs, NEW dry \in BOOLEAN, Start(j, dry) PROVE TypeOK'
  <2>1. clock \in Nat
    BY DEF TypeOK
  <2>2. [Idle EXCEPT !.pc = "collect", !.dry = dry, !.current = clock] \in Job
    BY <2>1 DEF Idle, Job
  <2>3. job' \in [Jobs -> Job]
    BY <1>4, <1>6, <2>2 DEF Start
  <2> QED BY <1>6, <2>3 DEF TypeOK, Start, Step
<1>7. ASSUME NEW j \in Jobs, Collect(j) PROVE TypeOK'
  <2>1. Shown(photos) \in SUBSET Files /\ job[j] \in Job
    BY DEF TypeOK, Shown
  <2>2. [job[j] EXCEPT !.pc = "list", !.referenced = Shown(photos)] \in Job
    BY <2>1 DEF Job
  <2>3. job' \in [Jobs -> Job]
    BY <1>4, <1>7, <2>2 DEF Collect
  <2> QED BY <1>7, <2>3 DEF TypeOK, Collect, Step
<1>8. ASSUME NEW j \in Jobs, List(j) PROVE TypeOK'
  <2>1. [job[j] EXCEPT !.pc = "check", !.todo = {f \in Files : OnDisk(f)}] \in Job
    BY DEF Job, TypeOK
  <2>2. job' \in [Jobs -> Job]
    BY <1>4, <1>8, <2>1 DEF List
  <2> QED BY <1>8, <2>2 DEF TypeOK, List, Step
<1>9. ASSUME NEW j \in Jobs, NEW f PROVE /\ [job[j] EXCEPT !.pc = "unlink"] \in Job
                                         /\ [job[j] EXCEPT !.todo = @ \ {f}] \in Job
                                         /\ [job[j] EXCEPT !.pc = "check", !.todo = @ \ {f}] \in Job
  BY DEF Job, TypeOK
<1>10. ASSUME NEW j \in Jobs, Check(j) PROVE TypeOK'
  <2>1. job' \in [Jobs -> Job]
    BY <1>4, <1>5, <1>9, <1>10 DEF Check
  <2> QED BY <1>10, <2>1 DEF TypeOK, Check, Step
<1>11. ASSUME NEW j \in Jobs, Unlink(j) PROVE TypeOK'
  <2>1. job' \in [Jobs -> Job]
    BY <1>4, <1>5, <1>9, <1>11 DEF Unlink
  <2>2. [is |-> "gone", mtime |-> 0] \in File
    BY DEF File
  <2>3. file' \in [Files -> File]
    BY <1>11, <2>2 DEF Unlink, TypeOK
  <2> QED BY <1>11, <2>1, <2>3 DEF TypeOK, Unlink, Step
<1>12. ASSUME NEW j \in Jobs, Crash(j) PROVE TypeOK'
  <2>1. job' \in [Jobs -> Job]
    BY <1>4, <1>5, <1>12 DEF Crash
  <2> QED BY <1>12, <2>1 DEF TypeOK, Crash, Step
<1>13. CASE Tick
  BY <1>13 DEF TypeOK, Tick
<1>14. CASE UNCHANGED vars
  BY <1>14 DEF TypeOK, vars
<1> QED
  BY <1>1, <1>2, <1>3, <1>6, <1>7, <1>8, <1>10, <1>11, <1>12, <1>13, <1>14 DEF Next, JobStep

\* The clock, the files, the orders and the jobs keep their types for ever.
THEOREM TypeCorrect == Spec => []TypeOK
  BY TypeInit, TypeStep, PTL DEF Spec

-----------------------------------------------------------------------------

LEMMA InvInit == Init => IInv
<1> SUFFICES ASSUME Init PROVE IInv
  OBVIOUS
<1>1. HistoryIsTrue
  BY DEF Init, HistoryIsTrue, Shown
<1>2. \A j \in Jobs : Right(j)
  BY DEF Init, Right, KnowsReferences, UnlinksOrphans, Idle
<1> QED BY <1>1, <1>2, TypeInit DEF IInv

\* The history stays true.
LEMMA HistoryStep == IInv /\ [Next]_vars => HistoryIsTrue'
<1> SUFFICES ASSUME IInv, [Next]_vars PROVE HistoryIsTrue'
  OBVIOUS
<1>t. TypeOK /\ HistoryIsTrue
  BY DEF IInv
<1>1. ASSUME NEW o \in Orders, SavePhotos(o) PROVE HistoryIsTrue'
  <2>1. /\ since' = [f \in Files |-> IF f \notin Shown(photos') THEN Never
                                     ELSE IF since[f] = Never THEN clock ELSE since[f]]
        /\ clock # Never
    BY <1>1, <1>t, TimesAssumption DEF SavePhotos, TypeOK, Never
  <2> QED BY <1>t, <2>1 DEF HistoryIsTrue, Shown
<1>2. CASE UNCHANGED <<photos, since>>
  BY <1>2, <1>t DEF HistoryIsTrue, Shown
<1>3. ASSUME NEW j \in Jobs, (\E dry \in BOOLEAN : Start(j, dry)) \/ JobStep(j) \/ Crash(j)
      PROVE UNCHANGED <<photos, since>>
  BY <1>3 DEF Start, JobStep, Collect, List, Check, Unlink, Crash, Step
<1>4. ASSUME NEW f \in Files, OpenFile(f) \/ StoreFile(f) PROVE UNCHANGED <<photos, since>>
  BY <1>4 DEF OpenFile, StoreFile
<1>5. ASSUME Tick \/ UNCHANGED vars PROVE UNCHANGED <<photos, since>>
  BY <1>5 DEF Tick, vars
<1> QED BY <1>1, <1>2, <1>3, <1>4, <1>5 DEF Next

\* What others do keeps a run right: time passes, files come and go, and an order begins
\* to name a file only now, which is not before the run began.
LEMMA RightKept ==
  ASSUME TypeOK, TypeOK', NEW j \in Jobs, Right(j), job'[j] = job[j], clock' >= clock,
         \A f \in Files : \/ since'[f] = since[f] \/ since'[f] = Never
                          \/ since[f] = Never /\ since'[f] = clock,
         \A f \in Files : /\ OnDisk(f)' => \/ OnDisk(f) /\ file'[f].mtime = file[f].mtime
                                           \/ file[f].is = "none"
                          /\ file'[f].is = "none" => file[f].is = "none"
  PROVE Right(j)'
<1>1. job[j].current \in Nat /\ clock \in Nat /\ clock' \in Nat
  BY TimesAssumption DEF TypeOK, Job
<1>2. job'[j].current <= clock'
  BY <1>1 DEF Right
<1>3. KnowsReferences(j)'
  <2> SUFFICES ASSUME job[j].pc \in {"list", "check", "unlink"}, NEW f \in Files \ job[j].referenced
               PROVE since'[f] = Never \/ since'[f] >= job[j].current
    BY DEF KnowsReferences
  <2>1. since[f] = Never \/ since[f] >= job[j].current
    BY DEF Right, KnowsReferences
  <2>2. clock >= job[j].current
    BY <1>1 DEF Right
  <2> QED BY <2>1, <2>2
<1>4. UnlinksOrphans(j)'
  <2> SUFFICES ASSUME job[j].pc = "unlink"
               PROVE /\ ~job[j].dry
                     /\ \A f \in Files : f = First(job[j].todo) =>
                          /\ f \notin job[j].referenced
                          /\ file'[f].is # "none"
                          /\ OnDisk(f)' => job[j].current - file'[f].mtime >= MinAge
    BY DEF UnlinksOrphans
  <2> QED BY DEF Right, UnlinksOrphans
<1> QED BY <1>2, <1>3, <1>4 DEF Right

\* A step of one run leaves the other runs as they are.
LEMMA OthersKept ==
  ASSUME TypeOK, NEW i \in Jobs, NEW j \in Jobs, i # j, NEW r, Step(i, r)
  PROVE job'[j] = job[j]
  BY DEF Step, TypeOK

\* What a run does with the files: it removes some.
LEMMA FilesOfJob ==
  ASSUME TypeOK, NEW j \in Jobs, (\E dry \in BOOLEAN : Start(j, dry)) \/ JobStep(j) \/ Crash(j)
  PROVE \A f \in Files : file'[f] = file[f] \/ file'[f] = [is |-> "gone", mtime |-> 0]
<1>1. CASE UNCHANGED file
  BY <1>1
<1>2. CASE Unlink(j)
  BY <1>2 DEF Unlink, TypeOK
<1> QED BY <1>1, <1>2 DEF Start, JobStep, Collect, List, Check, Crash

\* A run keeps itself right.
LEMMA OwnStep ==
  ASSUME IInv, TypeOK', NEW j \in Jobs,
         (\E dry \in BOOLEAN : Start(j, dry)) \/ JobStep(j) \/ Crash(j)
  PROVE Right(j)'
<1>t. /\ TypeOK /\ HistoryIsTrue /\ Right(j) /\ job[j] \in Job
      /\ clock \in Nat /\ job[j].current \in Nat
  BY TimesAssumption DEF IInv, TypeOK, Job
<1>1. ASSUME NEW r, Step(j, r) PROVE job'[j] = r /\ UNCHANGED <<clock, photos, since>>
  BY <1>1, <1>t DEF Step, TypeOK
<1>2. ASSUME Step(j, Idle) PROVE Right(j)'
  <2>1. job'[j] = Idle /\ clock' = clock
    BY <1>1, <1>2
  <2> QED BY <2>1, <1>t DEF Right, KnowsReferences, UnlinksOrphans, Idle
<1>3. ASSUME NEW dry \in BOOLEAN, Start(j, dry) PROVE Right(j)'
  <2>1. job'[j] = [Idle EXCEPT !.pc = "collect", !.dry = dry, !.current = clock] /\ clock' = clock
    BY <1>1, <1>3 DEF Start
  <2>2. job'[j].pc = "collect" /\ job'[j].current = clock
    BY <2>1 DEF Idle
  <2> QED BY <2>1, <2>2, <1>t DEF Right, KnowsReferences, UnlinksOrphans
<1>4. CASE Collect(j)
  <2>1. /\ job'[j] = [job[j] EXCEPT !.pc = "list", !.referenced = Shown(photos)]
        /\ UNCHANGED <<clock, since>>
    BY <1>1, <1>4 DEF Collect
  <2>2. job'[j].pc = "list" /\ job'[j].current = job[j].current /\ job'[j].referenced = Shown(photos)
    BY <2>1, <1>t DEF Job
  <2>3. KnowsReferences(j)'
    BY <2>1, <2>2, <1>t DEF KnowsReferences, HistoryIsTrue
  <2> QED BY <2>1, <2>2, <2>3, <1>t DEF Right, UnlinksOrphans
<1>5. ASSUME UNCHANGED <<clock, since>>, job'[j].pc \in {"list", "check", "unlink"},
             job[j].pc \in {"list", "check", "unlink"},
             job'[j].current = job[j].current, job'[j].referenced = job[j].referenced
      PROVE job'[j].current <= clock' /\ KnowsReferences(j)'
  BY <1>5, <1>t DEF Right, KnowsReferences
<1>6. CASE List(j)
  <2>1. /\ job'[j] = [job[j] EXCEPT !.pc = "check", !.todo = {f \in Files : OnDisk(f)}]
        /\ UNCHANGED <<clock, since>>
    BY <1>1, <1>6 DEF List
  <2>2. /\ job'[j].pc = "check" /\ job'[j].current = job[j].current
        /\ job'[j].referenced = job[j].referenced
    BY <2>1, <1>t DEF Job
  <2> QED BY <2>1, <2>2, <1>5, <1>6 DEF Right, UnlinksOrphans, List
<1>7. CASE Check(j)
  <2> DEFINE f == First(job[j].todo)
  <2>1. CASE job[j].todo = {}
    BY <2>1, <1>2, <1>7 DEF Check
  <2>2. CASE job[j].todo # {} /\ Removable(j, f) /\ ~job[j].dry
    <3>1. /\ job'[j] = [job[j] EXCEPT !.pc = "unlink"]
          /\ UNCHANGED <<clock, since, file>>
      BY <1>1, <1>7, <2>2 DEF Check
    <3>2. /\ job'[j].pc = "unlink" /\ job'[j].current = job[j].current /\ job'[j].dry = job[j].dry
          /\ job'[j].referenced = job[j].referenced /\ job'[j].todo = job[j].todo
      BY <3>1, <1>t DEF Job
    <3>3. UnlinksOrphans(j)'
      BY <3>1, <3>2, <2>2 DEF UnlinksOrphans, Removable, OnDisk
    <3> QED BY <3>1, <3>2, <3>3, <1>5, <1>7 DEF Right, Check
  <2>3. CASE job[j].todo # {} /\ ~(Removable(j, f) /\ ~job[j].dry)
    <3>1. job'[j] = [job[j] EXCEPT !.todo = @ \ {f}] /\ UNCHANGED <<clock, since>>
      BY <1>1, <1>7, <2>3 DEF Check
    <3>2. /\ job'[j].pc = "check" /\ job'[j].current = job[j].current
          /\ job'[j].referenced = job[j].referenced
      BY <3>1, <1>t, <1>7 DEF Job, Check
    <3> QED BY <3>1, <3>2, <1>5, <1>7 DEF Right, UnlinksOrphans, Check
  <2> QED BY <2>1, <2>2, <2>3
<1>8. CASE Unlink(j)
  <2> DEFINE f == First(job[j].todo)
  <2>1. CASE f \in Stuck /\ OnDisk(f)
    BY <2>1, <1>2, <1>8 DEF Unlink
  <2>2. CASE ~(f \in Stuck /\ OnDisk(f))
    <3>1. /\ job'[j] = [job[j] EXCEPT !.pc = "check", !.todo = @ \ {f}]
          /\ UNCHANGED <<clock, since>>
      BY <1>1, <1>8, <2>2 DEF Unlink
    <3>2. /\ job'[j].pc = "check" /\ job'[j].current = job[j].current
          /\ job'[j].referenced = job[j].referenced
      BY <3>1, <1>t DEF Job
    <3> QED BY <3>1, <3>2, <1>5, <1>8 DEF Right, UnlinksOrphans, Unlink
  <2> QED BY <2>1, <2>2
<1>9. CASE Crash(j)
  BY <1>2, <1>9 DEF Crash
<1> QED BY <1>3, <1>4, <1>6, <1>7, <1>8, <1>9 DEF JobStep

\* Every step keeps every run right.
LEMMA RightStep ==
  ASSUME IInv, [Next]_vars, TypeOK', NEW j \in Jobs
  PROVE Right(j)'
<1>t. TypeOK /\ Right(j) /\ clock \in Nat
  BY TimesAssumption DEF IInv, TypeOK
<1>1. ASSUME NEW f \in Files, OpenFile(f) PROVE Right(j)'
  <2>1. \A g \in Files : /\ OnDisk(g)' => \/ OnDisk(g) /\ file'[g].mtime = file[g].mtime
                                          \/ file[g].is = "none"
                         /\ file'[g].is = "none" => file[g].is = "none"
    BY <1>1, <1>t DEF OpenFile, OnDisk, TypeOK
  <2> QED BY <1>1, <1>t, <2>1, RightKept DEF OpenFile
<1>2. ASSUME NEW f \in Files, StoreFile(f) PROVE Right(j)'
  <2>1. \A g \in Files : /\ OnDisk(g)' => OnDisk(g) /\ file'[g].mtime = file[g].mtime
                         /\ file'[g].is = "none" => file[g].is = "none"
    BY <1>2, <1>t DEF StoreFile, OnDisk, TypeOK, File
  <2> QED BY <1>2, <1>t, <2>1, RightKept DEF StoreFile
<1>3. ASSUME NEW o \in Orders, SavePhotos(o) PROVE Right(j)'
  <2>1. \A f \in Files : \/ since'[f] = since[f] \/ since'[f] = Never
                         \/ since[f] = Never /\ since'[f] = clock
    BY <1>3 DEF SavePhotos
  <2> QED BY <1>3, <1>t, <2>1, RightKept DEF SavePhotos, OnDisk
<1>4. ASSUME NEW i \in Jobs, (\E dry \in BOOLEAN : Start(i, dry)) \/ JobStep(i) \/ Crash(i)
      PROVE Right(j)'
  <2>1. CASE i = j
    BY <1>4, <2>1, OwnStep
  <2>2. CASE i # j
    <3>1. \E r : Step(i, r)
      BY <1>4 DEF Start, JobStep, Collect, List, Check, Unlink, Crash
    <3>2. job'[j] = job[j] /\ UNCHANGED <<clock, since>>
      BY <3>1, <2>2, <1>t, OthersKept DEF Step
    <3>3. \A f \in Files : file'[f] = file[f] \/ file'[f] = [is |-> "gone", mtime |-> 0]
      BY <1>4, <1>t, FilesOfJob
    <3>4. \A f \in Files : /\ OnDisk(f)' => OnDisk(f) /\ file'[f].mtime = file[f].mtime
                           /\ file'[f].is = "none" => file[f].is = "none"
      BY <3>3 DEF OnDisk
    <3> QED BY <3>2, <3>4, <1>t, RightKept
  <2> QED BY <2>1, <2>2
<1>5. CASE Tick
  BY <1>5, <1>t, RightKept DEF Tick, OnDisk
<1>6. CASE UNCHANGED vars
  BY <1>6, <1>t, RightKept DEF vars, OnDisk
<1> QED BY <1>1, <1>2, <1>3, <1>4, <1>5, <1>6 DEF Next

LEMMA InvStep == IInv /\ [Next]_vars => IInv'
<1> SUFFICES ASSUME IInv, [Next]_vars PROVE IInv'
  OBVIOUS
<1>1. TypeOK'
  BY TypeStep DEF IInv
<1>2. \A j \in Jobs : Right(j)'
  BY <1>1, RightStep
<1> QED BY <1>1, <1>2, HistoryStep DEF IInv

\* The history is true, and every run knows what it must about the references it read.
THEOREM Invariance == Spec => []IInv
  BY InvInit, InvStep, PTL DEF Spec

-----------------------------------------------------------------------------

\* A file leaves the disk only by Unlink, of a run that removes, that found it old enough
\* and whose references lack it.
LEMMA WhoRemoves ==
  ASSUME IInv, [Next]_vars, NEW f \in Files, Removes(f)
  PROVE \E j \in Jobs : /\ job[j].pc = "unlink" /\ job'[j] # job[j] /\ ~job[j].dry
                        /\ since[f] = Never \/ since[f] >= job[j].current
                        /\ job[j].current - file[f].mtime >= MinAge
<1>t. TypeOK
  BY DEF IInv
<1>1. file'[f] # file[f]
  BY DEF Removes, OnDisk
<1>2. ASSUME NEW g \in Files, OpenFile(g) \/ StoreFile(g) PROVE ~Removes(f)
  <2>1. CASE OpenFile(g)
    BY <2>1, <1>1, <1>t DEF OpenFile, Removes, TypeOK
  <2>2. CASE StoreFile(g)
    BY <2>2, <1>1, <1>t DEF StoreFile, Removes, TypeOK, File
  <2> QED BY <1>2, <2>1, <2>2
<1>3. PICK j \in Jobs : Unlink(j)
  BY <1>1, <1>2 DEF Next, SavePhotos, Start, JobStep, Collect, List, Check, Crash, Tick, vars
<1>4. f = First(job[j].todo) /\ OnDisk(f) /\ f \notin Stuck
  BY <1>1, <1>3, <1>t DEF Unlink, TypeOK
<1>5. job[j].pc = "unlink" /\ job[j] \in Job
  BY <1>3, <1>t DEF Unlink, TypeOK
<1>6. job'[j] = [job[j] EXCEPT !.pc = "check", !.todo = @ \ {f}]
  BY <1>3, <1>4, <1>t DEF Unlink, Step, TypeOK
<1>7. job'[j] # job[j]
  BY <1>5, <1>6 DEF Job
<1>8. /\ ~job[j].dry /\ f \notin job[j].referenced
      /\ job[j].current - file[f].mtime >= MinAge
  BY <1>4, <1>5 DEF IInv, Right, UnlinksOrphans
<1>9. since[f] = Never \/ since[f] >= job[j].current
  BY <1>5, <1>8 DEF IInv, Right, KnowsReferences
<1> QED BY <1>5, <1>7, <1>8, <1>9

\* However many runs overlap and whatever is saved meanwhile, a run that is no dry run
\* removes a file only if no order has shown it since before the run began.
THEOREM UsedFilesStay == Spec => UsedFileStays
<1> DEFINE Due == \A f \in Files : Removes(f) =>
              \E j \in Jobs : /\ job[j].pc = "unlink" /\ job'[j] # job[j] /\ ~job[j].dry
                              /\ since[f] = Never \/ since[f] >= job[j].current
<1>1. IInv /\ [Next]_vars => [Due]_vars
  BY WhoRemoves
<1> QED BY <1>1, Invariance, PTL DEF Spec, UsedFileStays

\* Whose order is saved within MinAge after his upload keeps the file.
THEOREM PromptReferencesStay == Spec => PromptReferenceStays
<1> DEFINE Prompt == \A f \in Files : Removes(f) => \/ since[f] = Never
                                                    \/ since[f] >= file[f].mtime + MinAge
<1>1. IInv /\ [Next]_vars => [Prompt]_vars
  <2> SUFFICES ASSUME IInv, [Next]_vars, NEW f \in Files, Removes(f), since[f] # Never
               PROVE since[f] >= file[f].mtime + MinAge
    OBVIOUS
  <2>1. PICK j \in Jobs : /\ since[f] >= job[j].current
                          /\ job[j].current - file[f].mtime >= MinAge
    BY WhoRemoves
  <2>2. since[f] \in Nat /\ job[j].current \in Nat /\ file[f].mtime \in Nat /\ MinAge \in Nat
    BY TimesAssumption DEF IInv, TypeOK, Job, File
  <2> QED BY <2>1, <2>2
<1> QED BY <1>1, Invariance, PTL DEF Spec, PromptReferenceStays
=============================================================================
