------------------------------ MODULE Watcher -------------------------------
(***************************************************************************)
(* The update loop of OpenWatch (src/internal/updater/watcher.go and       *)
(* rollback.go) with the container and image operations it calls           *)
(* (src/internal/docker).  A pass is one goroutine that lists the          *)
(* containers and processes them one by one: a scheduled tick, or an       *)
(* update that the HTTP API asked for.  Every call that leaves the process *)
(* is a step of its own, so that passes, the engine, the publishers and    *)
(* the end of the process interleave with it; what a pass does between two *)
(* such calls is one step.                                                 *)
(***************************************************************************)
EXTENDS DockerEngine

CONSTANTS
  Passes,          \* goroutines that can run a pass at the same time
  Self,            \* containers that IsSelf recognises as OpenWatch
  Skipped,         \* containers whose policy says Skip
  NotifyOnly,      \* containers whose policy says NotifyOnly
  RollbackOn,      \* containers whose policy says Rollback
  CleanupOn,       \* containers whose policy says Cleanup
  IncludeStopped,  \* cfg.IncludeStopped
  MaxFaults        \* bound: number of failures of the environment

ASSUME WatcherAssumption ==
  /\ Self \cup Skipped \cup NotifyOnly \cup RollbackOn \cup CleanupOn \subseteq Names
  /\ IncludeStopped \in BOOLEAN
  /\ MaxFaults \in Nat

VARIABLES
  daemon,   \* the process: "running", "stopping" (ctx cancelled) or "exited"
  store,    \* the state store
  pc,       \* pc[p]: the call that pass p makes next
  job,      \* job[p]: what pass p has left to do
  work,     \* work[p]: the locals of processContainer
  notice,   \* notice[n]: see NoticeKinds
  faults    \* how many failures happened (bounded by MaxFaults)

INSTANCE StateStore

passVars == <<pc, job, work>>
vars == <<engineVars, registryVars, daemon, store, passVars, notice, faults>>

(***************************************************************************)
(* kind: a tick of the scheduler, an update of all containers or of one    *)
(* container asked for by the API.  want: the containers it is for.  todo: *)
(* the snapshots that are still to be processed.  seen: the names listed.  *)
(***************************************************************************)
Kinds == {"none", "tick", "all", "one"}
Snapshots == [name: Names, id: Nat, ref: Refs, image: Images]
Jobs == [kind: Kinds, want: SUBSET Names, todo: SUBSET Snapshots, seen: SUBSET Names]
NoJob == [kind |-> "none", want |-> {}, todo |-> {}, seen |-> {}]

\* name, id, ref and image are the snapshot, image doubling as
\* previousImageID; new is newContainerID.
Works == [name: Names \cup {NoName}, id: Nat, ref: Refs \cup {NoImage},
          image: Images \cup {NoImage}, new: Nat, rollback: BOOLEAN]
NoWork == [name |-> NoName, id |-> 0, ref |-> NoImage, image |-> NoImage,
           new |-> 0, rollback |-> FALSE]

\* Where a pass is from MarkUpdating to the report that ends the update.
UpdatePcs == {"pull", "stop", "kill", "remove", "create", "start", "health",
              "success", "unhealthy", "failed", "rbFailed", "rbDone"}
Pcs == UpdatePcs \cup {"idle", "list", "next", "check", "cleanup"}

(***************************************************************************)
(* What the operator was told since OpenWatch last began to take container *)
(* n down: nothing, an UPDATE_FAILED or ROLLBACK_FAILED event, or no event *)
(* because the process ended first; "operator" when the operator removed   *)
(* the container.                                                          *)
(***************************************************************************)
NoticeKinds == {"none", "sent", "lost", "operator"}

WatcherTypeOK ==
  /\ daemon \in {"running", "stopping", "exited"}
  /\ store \in Stores
  /\ pc \in [Passes -> Pcs]
  /\ job \in [Passes -> Jobs]
  /\ work \in [Passes -> Works]
  /\ notice \in [Names -> NoticeKinds]
  /\ faults \in 0 .. MaxFaults

WatcherInit ==
  /\ daemon = "running"
  /\ store = EmptyStore
  /\ pc = [p \in Passes |-> "idle"]
  /\ job = [p \in Passes |-> NoJob]
  /\ work = [p \in Passes |-> NoWork]
  /\ notice = [n \in Names |-> "none"]
  /\ faults = 0

-----------------------------------------------------------------------------
\* Outcomes of a call.  The scheduler's context is cancelled by a signal;
\* the API's passes run under context.Background(), which never is.

Cancelled(p) == daemon = "stopping" /\ job[p].kind = "tick"

Fault == faults < MaxFaults /\ faults' = faults + 1

\* A call that takes the context.
CallOk(p) == ~Cancelled(p) /\ UNCHANGED faults
CallFails(p) == (Cancelled(p) /\ UNCHANGED faults) \/ (~Cancelled(p) /\ Fault)

\* The container an update is for is held by the pass from MarkUpdating on.
Held(p, n) == work[p].name = n /\ pc[p] \in UpdatePcs

Goto(p, l) == pc' = [pc EXCEPT ![p] = l]

\* Recreate returned an error: to processContainer, or to performRollback.
FailedIgnored(p) == "health"
FailedRollbackIgnored(p) == IF work[p].rollback THEN "rbDone" ELSE "failed"
Failed(p) == IF work[p].rollback THEN "rbFailed" ELSE "failed"

\* The engine refuses a call on the pass's container ID.
RefusedIgnored(p) == "create"
Refused(p) == Failed(p)

\* The container that Recreate replaces, and what it creates the new one
\* from: the pull's reference, or the previous image when rolling back.
Target(p) == IF work[p].rollback THEN work[p].new ELSE work[p].id
NewRefPulled(p) == work[p].ref
NewRef(p) == IF work[p].rollback THEN work[p].image ELSE work[p].ref

\* processContainer returns.
Done(p) ==
  /\ Goto(p, "next")
  /\ work' = [work EXCEPT ![p] = NoWork]

-----------------------------------------------------------------------------
\* A pass begins, lists, takes the next container, and ends.

Begin(p, kind, want) ==
  /\ pc[p] = "idle"
  /\ Goto(p, "list")
  /\ job' = [job EXCEPT ![p] = [NoJob EXCEPT !.kind = kind, !.want = want]]

EndPassKeepingJob(p) == Goto(p, "idle") /\ UNCHANGED job
EndPass(p) ==
  /\ Goto(p, "idle")
  /\ job' = [job EXCEPT ![p] = NoJob]

Listable(n) == IF IncludeStopped THEN Present(n) ELSE Running(n)

Snapshot(n) == [name |-> n, id |-> ctr[n].id, ref |-> ctr[n].ref,
                image |-> ctr[n].image]

\* The list call fails, or lists the containers and inspects each; a failed
\* inspect drops the container from the result.
List(p) ==
  /\ pc[p] = "list"
  /\ \/ /\ CallFails(p)
        /\ EndPass(p)
     \/ \E dropped \in SUBSET {n \in Names : Listable(n)} :
          LET listed == {n \in Names : Listable(n)} \ dropped IN
          /\ IF dropped = {} THEN CallOk(p) ELSE CallFails(p)
          /\ job' = [job EXCEPT ![p].seen = listed,
                                ![p].todo = {Snapshot(n) : n \in listed \cap job[p].want}]
          /\ Goto(p, "next")
  /\ UNCHANGED <<engineVars, registryVars, daemon, store, work, notice>>

\* The loop over the listed containers, in whatever order the engine gave.
TakeNext(p) ==
  /\ pc[p] = "next"
  /\ \E s \in job[p].todo :
       /\ job' = [job EXCEPT ![p].todo = @ \ {s}]
       /\ work' = [work EXCEPT ![p] = [name |-> s.name, id |-> s.id, ref |-> s.ref,
                                       image |-> s.image, new |-> 0, rollback |-> FALSE]]
  /\ Goto(p, "check")
  /\ UNCHANGED <<engineVars, registryVars, daemon, store, notice, faults>>

\* The loop is over: a pass over all containers prunes the store.
FinishPass(p) ==
  /\ pc[p] = "next"
  /\ job[p].todo = {}
  /\ EndPass(p)
  /\ store' = IF job[p].kind = "one" THEN store ELSE Prune(store, job[p].seen)
  /\ UNCHANGED <<engineVars, registryVars, daemon, work, notice, faults>>

-----------------------------------------------------------------------------
\* processContainer up to the decision to update.

SkipSelf(p) ==
  /\ pc[p] = "check"
  /\ work[p].name \in Self
  /\ Done(p)
  /\ UNCHANGED <<engineVars, registryVars, daemon, store, job, notice, faults>>

\* The registry serves another image than the container runs, or than its
\* reference names on this host.
OutdatedTag(p) == work[p].ref \in Tags /\ remote[work[p].ref] # tag[work[p].ref]
Outdated(p) == work[p].ref \in Tags /\ remote[work[p].ref] # work[p].image

\* The ways a check ends without an update, with the status it leaves.  A
\* reference that is an image ID parses as a repository that the registry
\* does not have, so its check always fails; so does one whose context is
\* cancelled before the image is inspected.
CheckEnds(p, status) ==
  LET n == work[p].name IN
  \/ /\ n \in Skipped
     /\ status = "unknown"
     /\ UNCHANGED faults
  \/ /\ n \notin Skipped
     /\ status = "unknown"
     /\ CallFails(p) \/ (work[p].ref \notin Tags /\ UNCHANGED faults)
  \/ /\ n \notin Skipped
     /\ work[p].ref \in Tags
     /\ ~Outdated(p)
     /\ status = "up_to_date"
     /\ UNCHANGED faults
  \/ /\ n \in NotifyOnly \ Skipped
     /\ Outdated(p)
     /\ status = "up_to_date"
     /\ UNCHANGED faults

Check(p) ==
  /\ pc[p] = "check"
  /\ work[p].name \notin Self
  /\ \E status \in Statuses :
       /\ CheckEnds(p, status)
       /\ store' = MarkChecked(store, work[p].name, status)
  /\ Done(p)
  /\ UNCHANGED <<engineVars, registryVars, daemon, job, notice>>

\* The containers whose policy lets processContainer update them.
UpdatableByLabel == Names \ (Self \cup Skipped)
Updatable == Names \ (Self \cup Skipped \cup NotifyOnly)

\* MarkUpdating and UPDATE_STARTED, then the pull.
StartUpdate(p) ==
  /\ pc[p] = "check"
  /\ work[p].name \in Updatable
  /\ Outdated(p)
  /\ store' = MarkUpdating(store, work[p].name)
  /\ Goto(p, "pull")
  /\ UNCHANGED <<engineVars, registryVars, daemon, job, work, notice, faults>>

-----------------------------------------------------------------------------
\* The calls of an update.  A call that fails may still have had its effect:
\* its answer was lost.

\* An error in the middle of a pull comes as a message of the stream that
\* PullImage drains without reading: it looks like a success.
PullErrorUnread(p) == ~Cancelled(p) /\ Fault

PullImage(p) ==
  /\ pc[p] = "pull"
  /\ \/ CallOk(p) /\ Pull(work[p].ref) /\ Goto(p, "stop")
     \/ CallFails(p) /\ Pull(work[p].ref) /\ Goto(p, "failed")
     \/ CallFails(p) /\ UNCHANGED <<images, tag>> /\ Goto(p, "failed")
     \/ PullErrorUnread(p) /\ UNCHANGED <<images, tag>> /\ Goto(p, "stop")
  /\ UNCHANGED <<ctr, gen, registryVars, daemon, store, job, work, notice>>

\* A stop on a live ID begins the outage of the container.
OutageBegins(n) == notice' = [notice EXCEPT ![n] = "none"]

\* StopAndRemove: stop, and look whether the process is gone.  A failed stop is
\* an error when it is gone or the look fails too, as it does under a cancelled
\* context, and leads to a kill when the process is seen running.  That branch
\* is also the stop that returns early with the process still running; when the
\* look fails then, the removal is refused, with the outcome of a failed stop.
StopContainer(p) ==
  LET n == work[p].name IN
  /\ pc[p] = "stop"
  /\ IF HasId(n, Target(p))
     THEN /\ \/ /\ CallOk(p)
                /\ ctr' = Stop(n)
                /\ Goto(p, "remove")
             \/ /\ CallFails(p)
                /\ ctr' \in {ctr, Stop(n)}
                /\ \/ Goto(p, Failed(p))
                   \/ ctr'[n].st = "running" /\ ~Cancelled(p) /\ Goto(p, "kill")
          /\ OutageBegins(n)
     ELSE /\ Goto(p, Refused(p))
          /\ UNCHANGED <<ctr, notice, faults>>
  /\ UNCHANGED <<gen, images, tag, registryVars, daemon, store, job, work>>

KillContainer(p) ==
  LET n == work[p].name IN
  /\ pc[p] = "kill"
  /\ IF HasId(n, Target(p)) /\ Running(n)
     THEN \/ CallOk(p) /\ ctr' = Stop(n) /\ Goto(p, "remove")
          \/ CallFails(p) /\ ctr' \in {ctr, Stop(n)} /\ Goto(p, Failed(p))
     ELSE /\ Goto(p, Refused(p))
          /\ UNCHANGED <<ctr, faults>>
  /\ UNCHANGED <<gen, images, tag, registryVars, daemon, store, job, work, notice>>

\* Removal without force: refused while the process runs.
RemoveContainer(p) ==
  LET n == work[p].name IN
  /\ pc[p] = "remove"
  /\ IF HasId(n, Target(p)) /\ ~Running(n)
     THEN \/ CallOk(p) /\ ctr' = Remove(n) /\ Goto(p, "create")
          \/ CallFails(p) /\ ctr' \in {ctr, Remove(n)} /\ Goto(p, Failed(p))
     ELSE /\ Goto(p, Refused(p))
          /\ UNCHANGED <<ctr, faults>>
  /\ UNCHANGED <<gen, images, tag, registryVars, daemon, store, job, work, notice>>

\* Refused when the name is taken or the image is not in the store.
CreateContainer(p) ==
  LET n == work[p].name IN
  /\ pc[p] = "create"
  /\ IF ~Present(n) /\ Resolve(NewRef(p)) \in images
     THEN \/ /\ CallOk(p)
             /\ Create(n, NewRef(p))
             /\ work' = [work EXCEPT ![p].new = gen[n] + 1]
             /\ Goto(p, "start")
          \/ /\ CallFails(p)
             /\ Create(n, NewRef(p)) \/ UNCHANGED <<ctr, gen>>
             /\ Goto(p, Failed(p))
             /\ UNCHANGED work
     ELSE /\ Goto(p, Failed(p))
          /\ UNCHANGED <<ctr, gen, work, faults>>
  /\ UNCHANGED <<images, tag, registryVars, daemon, store, job, notice>>

\* Connecting the remaining networks, which fails like a start without
\* effect, and the start.  A rolled-back container is not waited for.
StartContainer(p) ==
  LET n == work[p].name IN
  /\ pc[p] = "start"
  /\ IF HasId(n, work[p].new)
     THEN \/ /\ CallOk(p)
             /\ ctr' = Start(n)
             /\ Goto(p, IF work[p].rollback THEN "rbDone" ELSE "health")
          \/ CallFails(p) /\ ctr' \in {ctr, Start(n)} /\ Goto(p, Failed(p))
     ELSE /\ Goto(p, Failed(p))
          /\ UNCHANGED <<ctr, faults>>
  /\ UNCHANGED <<gen, images, tag, registryVars, daemon, store, job, work, notice>>

-----------------------------------------------------------------------------
\* waitForHealthy.

\* No HEALTHCHECK, or the verdict is healthy.
HealthPasses(p) ==
  LET n == work[p].name IN
  /\ pc[p] = "health"
  /\ HasId(n, work[p].new)
  /\ n \notin Checked \/ (Running(n) /\ ctr[n].health = "healthy")
  /\ CallOk(p)
  /\ Goto(p, "success")
  /\ UNCHANGED <<engineVars, registryVars, daemon, store, job, work, notice>>

\* No verdict came before the deadline; only images in Flaky take that long.
DeadlineNever(n) == FALSE
DeadlinePasses(n) == ctr[n].health = "starting" /\ ctr[n].image \in Flaky

\* The container is gone, its process ended, the verdict is unhealthy, the
\* deadline passed, or an inspect failed.
HealthFails(p) ==
  LET n == work[p].name IN
  /\ pc[p] = "health"
  /\ \/ CallFails(p)
     \/ /\ \/ ~HasId(n, work[p].new)
           \/ /\ n \in Checked
              /\ \/ ~Running(n)
                 \/ ctr[n].health = "unhealthy"
                 \/ DeadlinePasses(n)
        /\ UNCHANGED faults
  /\ Goto(p, "unhealthy")
  /\ UNCHANGED <<engineVars, registryVars, daemon, store, job, work, notice>>

\* handleHealthFailure: leave the container as it is, or roll back.
HandleHealthFailure(p) ==
  LET n == work[p].name IN
  /\ pc[p] = "unhealthy"
  /\ IF n \in RollbackOn
     THEN /\ work' = [work EXCEPT ![p].rollback = TRUE]
          /\ Goto(p, "stop")
          /\ UNCHANGED store
     ELSE /\ store' = MarkChecked(store, n, "unknown")
          /\ Done(p)
  /\ UNCHANGED <<engineVars, registryVars, daemon, job, notice, faults>>

-----------------------------------------------------------------------------
\* The reports that end an update.

\* UPDATE_FAILED or ROLLBACK_FAILED
ReportFailure(p) ==
  /\ pc[p] \in {"failed", "rbFailed"}
  /\ store' = MarkChecked(store, work[p].name, "unknown")
  /\ notice' = [notice EXCEPT ![work[p].name] = "sent"]
  /\ Done(p)
  /\ UNCHANGED <<engineVars, registryVars, daemon, job, faults>>

\* ROLLBACK_SUCCESS
ReportRollback(p) ==
  /\ pc[p] = "rbDone"
  /\ store' = MarkChecked(store, work[p].name, "up_to_date")
  /\ Done(p)
  /\ UNCHANGED <<engineVars, registryVars, daemon, job, notice, faults>>

\* UPDATE_SUCCESS
ReportSuccess(p) ==
  /\ pc[p] = "success"
  /\ store' = MarkUpdated(store, work[p].name)
  /\ IF work[p].name \in CleanupOn THEN Goto(p, "cleanup") /\ UNCHANGED work
                                   ELSE Done(p)
  /\ UNCHANGED <<engineVars, registryVars, daemon, job, notice, faults>>

\* The previous image is removed; a failure is only logged.
Cleanup(p) ==
  /\ pc[p] = "cleanup"
  /\ \/ /\ CallFails(p) \/ (~Removable(work[p].image) /\ UNCHANGED faults)
        /\ UNCHANGED <<images, tag>>
     \/ /\ CallOk(p)
        /\ Removable(work[p].image)
        /\ RemoveImage(work[p].image)
  /\ Done(p)
  /\ UNCHANGED <<ctr, gen, registryVars, daemon, store, job, notice>>

PassStep(p) ==
  \/ List(p) \/ TakeNext(p) \/ FinishPass(p)
  \/ SkipSelf(p) \/ Check(p) \/ StartUpdate(p)
  \/ PullImage(p) \/ StopContainer(p) \/ KillContainer(p) \/ RemoveContainer(p)
  \/ CreateContainer(p) \/ StartContainer(p)
  \/ HealthPasses(p) \/ HealthFails(p) \/ HandleHealthFailure(p)
  \/ ReportFailure(p) \/ ReportRollback(p) \/ ReportSuccess(p) \/ Cleanup(p)
=============================================================================
