---------------------------- MODULE MediaCleanup ----------------------------
(***************************************************************************)
(* Uploaded images, the orders that name them and the job that removes the *)
(* others (api/v1/uploads/services.py, api/v1/uploads/cleanup.py,          *)
(* scripts/cleanup_media.py).                                              *)
(*                                                                         *)
(* A file is written by a request, an order is saved by another one, and   *)
(* the job, which cron starts and which may overlap with itself, collects  *)
(* the references once and then looks at the files one after another.      *)
(* Nothing locks the files or the orders: only the age of a file keeps the *)
(* job away from an upload whose order is not saved yet.                   *)
(*                                                                         *)
(* Files are numbered in the order in which sorted() lists them.           *)
(***************************************************************************)
EXTENDS Integers, FiniteSets

CONSTANTS Files, Orders,
          Jobs,        \* the processes cron starts
          Stuck,       \* files that cannot be removed: unlink raises
          MinAge,      \* min_age_seconds, in ticks
          MaxPhotos,   \* bound: how many photos an order has
          MaxCrashes,  \* bound: how many runs of the job are killed
          MaxTime      \* bound: where the clock stops

ASSUME FilesAssumption == Files \subseteq Nat /\ Stuck \subseteq Files
ASSUME TimesAssumption == MinAge \in Nat \ {0} /\ MaxTime \in Nat
ASSUME BoundsAssumption == MaxPhotos \in Nat /\ MaxCrashes \in Nat

VARIABLES clock,
          file,      \* images/<uuid>.webp, with its mtime
          photos,    \* the files that Order.photos names under the prefix of the uploads, with or
                     \* without a query; a URL with a host in front does not count as naming one
          job,       \* the runs of cleanup_orphans
          crashes,   \* how many runs have been killed
          since      \* history: since when orders have named a file without a break

vars == <<clock, file, photos, job, crashes, since>>

-----------------------------------------------------------------------------

Never == -1

\* A file that is "open" is being written, or its writer has died.
File == [is : {"none", "open", "whole", "gone"}, mtime : Nat]

Job == [pc : {"idle", "collect", "list", "check", "unlink"}, current : Nat, dry : BOOLEAN,
        referenced : SUBSET Files, todo : SUBSET Files]

Idle == [pc |-> "idle", current |-> 0, dry |-> FALSE, referenced |-> {}, todo |-> {}]

TypeOK == /\ clock \in 0 .. MaxTime
          /\ file \in [Files -> File]
          /\ photos \in [Orders -> SUBSET Files]
          /\ job \in [Jobs -> Job]
          /\ crashes \in 0 .. MaxCrashes
          /\ since \in [Files -> Nat \cup {Never}]

Init == /\ clock = 0
        /\ file = [f \in Files |-> [is |-> "none", mtime |-> 0]]
        /\ photos = [o \in Orders |-> {}]
        /\ job = [j \in Jobs |-> Idle]
        /\ crashes = 0
        /\ since = [f \in Files |-> Never]

OnDisk(f) == file[f].is \in {"open", "whole"}

-----------------------------------------------------------------------------
(***************************************************************************)
(* ImageUploadService                                                      *)
(***************************************************************************)

\* _process_and_store: image.save creates the file.  A file that is not yet as old as
\* MinAge when the clock stops would show nothing (bound).
OpenFile(f) == /\ file[f].is = "none"
               /\ clock <= MaxTime - MinAge
               /\ file' = [file EXCEPT ![f] = [is |-> "open", mtime |-> clock]]
               /\ UNCHANGED <<clock, photos, job, crashes, since>>

\* It is written within a tick, and its URL is returned.
StoreFile(f) == /\ file[f] = [is |-> "open", mtime |-> clock]
                /\ file' = [file EXCEPT ![f].is = "whole"]
                /\ UNCHANGED <<clock, photos, job, crashes, since>>

-----------------------------------------------------------------------------
(***************************************************************************)
(* Orders                                                                  *)
(***************************************************************************)

\* What the orders show, and _collect_references reads.
Shown(ps) == UNION {ps[o] : o \in Orders}

\* An order is created, changed or deleted (with its customer).  Clients know the URL of a
\* file from the answer to its upload.
SavePhotos(o) ==
  \E new \in SUBSET {f \in Files : file[f].is \in {"whole", "gone"}} :
    /\ new # photos[o] /\ Cardinality(new) <= MaxPhotos
    /\ photos' = [photos EXCEPT ![o] = new]
    /\ since' = [f \in Files |-> IF f \notin Shown(photos') THEN Never
                                 ELSE IF since[f] = Never THEN clock ELSE since[f]]
    /\ UNCHANGED <<clock, file, job, crashes>>

-----------------------------------------------------------------------------
(***************************************************************************)
(* MediaCleanupService.cleanup_orphans                                     *)
(***************************************************************************)

Step(j, r) == /\ job' = [job EXCEPT ![j] = r]
              /\ UNCHANGED <<clock, photos, since>>

\* The time is read before the references are.
Start(j, dry) == /\ job[j].pc = "idle"
                 /\ Step(j, [Idle EXCEPT !.pc = "collect", !.dry = dry, !.current = clock])
                 /\ UNCHANGED <<file, crashes>>

\* _collect_references: one SELECT.
Collect(j) == /\ job[j].pc = "collect"
              /\ Step(j, [job[j] EXCEPT !.pc = "list", !.referenced = Shown(photos)])
              /\ UNCHANGED <<file, crashes>>

\* Mutant of List: the time is read only now.
ListThenTime(j) ==
  /\ job[j].pc = "list"
  /\ Step(j, [job[j] EXCEPT !.pc = "check", !.current = clock, !.todo = {f \in Files : OnDisk(f)}])
  /\ UNCHANGED <<file, crashes>>

\* sorted(rglob): the files there are now; without a directory there is nothing to do.
List(j) == /\ job[j].pc = "list"
           /\ Step(j, [job[j] EXCEPT !.pc = "check", !.todo = {f \in Files : OnDisk(f)}])
           /\ UNCHANGED <<file, crashes>>

First(todo) == CHOOSE f \in todo : \A g \in todo : f <= g

\* Mutant of Removable: what a broken upload has left does not count.
RemovableWhole(j, f) == /\ file[f].is = "whole"
                        /\ job[j].current - file[f].mtime >= MinAge
                        /\ f \notin job[j].referenced

\* A file that is still there, old enough, and was not referenced.
Removable(j, f) == /\ OnDisk(f)
                   /\ job[j].current - file[f].mtime >= MinAge
                   /\ f \notin job[j].referenced

\* Mutant of Check: a dry run removes.
CheckNotDry(j) ==
  /\ job[j].pc = "check"
  /\ IF job[j].todo = {} THEN Step(j, Idle)
     ELSE LET f == First(job[j].todo)
          IN IF Removable(j, f) THEN Step(j, [job[j] EXCEPT !.pc = "unlink"])
             ELSE Step(j, [job[j] EXCEPT !.todo = @ \ {f}])
  /\ UNCHANGED <<file, crashes>>

\* One turn of the loop up to path.unlink.
Check(j) ==
  /\ job[j].pc = "check"
  /\ IF job[j].todo = {} THEN Step(j, Idle)
     ELSE LET f == First(job[j].todo)
          IN IF Removable(j, f) /\ ~job[j].dry
             THEN Step(j, [job[j] EXCEPT !.pc = "unlink"])
             ELSE Step(j, [job[j] EXCEPT !.todo = @ \ {f}])
  /\ UNCHANGED <<file, crashes>>

\* path.unlink(missing_ok=True).  What it raises ends the run.
Unlink(j) ==
  LET f == First(job[j].todo)
  IN /\ job[j].pc = "unlink"
     /\ IF f \in Stuck /\ OnDisk(f)
        THEN Step(j, Idle) /\ UNCHANGED file
        ELSE /\ Step(j, [job[j] EXCEPT !.pc = "check", !.todo = @ \ {f}])
             /\ file' = IF OnDisk(f) THEN [file EXCEPT ![f] = [is |-> "gone", mtime |-> 0]] ELSE file
     /\ UNCHANGED crashes

\* The process is killed; what it has removed stays removed.
Crash(j) == /\ job[j].pc # "idle"
            /\ crashes < MaxCrashes
            /\ crashes' = crashes + 1
            /\ Step(j, Idle)
            /\ UNCHANGED file

Tick == /\ clock < MaxTime
        /\ clock' = clock + 1
        /\ UNCHANGED <<file, photos, job, crashes, since>>

JobStep(j) == Collect(j) \/ List(j) \/ Check(j) \/ Unlink(j)

Next == \/ \E f \in Files : OpenFile(f) \/ StoreFile(f)
        \/ \E o \in Orders : SavePhotos(o)
        \/ \E j \in Jobs : (\E dry \in BOOLEAN : Start(j, dry)) \/ JobStep(j) \/ Crash(j)
        \/ Tick

Spec == Init /\ [][Next]_vars

\* Cron starts a run that removes again and again, and a run that is not killed goes on.
Fairness == /\ WF_vars(Tick)
            /\ \A j \in Jobs : SF_vars(Start(j, FALSE)) /\ WF_vars(JobStep(j))

FairSpec == Spec /\ Fairness

-----------------------------------------------------------------------------
(***************************************************************************)
(* Properties                                                              *)
(***************************************************************************)

Removes(f) == OnDisk(f) /\ file'[f].is = "gone"

\* "Fresh files are left alone: the upload may have come before the order was saved"
\* (cleanup.py:17).  Whose order is saved within MinAge keeps his file for as long as
\* some order shows it, however the job is interleaved with the saving.
PromptReferenceStays ==
  [][\A f \in Files : Removes(f) => \/ since[f] = Never
                                    \/ since[f] >= file[f].mtime + MinAge]_vars

\* Only a run that is not a dry one removes, and only what no order has shown since
\* before the run began.
UsedFileStays ==
  [][\A f \in Files : Removes(f) =>
       \E j \in Jobs : /\ job[j].pc = "unlink" /\ job'[j] # job[j] /\ ~job[j].dry
                       /\ since[f] = Never \/ since[f] >= job[j].current]_vars

\* The job removes what nobody shows: a file, whole or not, does not stay on the disk for
\* ever while no order shows it - unless it, or one that is listed before it, cannot be
\* removed, for that ends every run.
OrphansGo ==
  \A f \in Files : (\A g \in Stuck : f < g)
                   => []<>(~OnDisk(f) \/ f \in Shown(photos))
=============================================================================
