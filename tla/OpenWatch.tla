------------------------------ MODULE OpenWatch ------------------------------
(***************************************************************************)
(* The daemon as a whole: the scheduler (Run, runInterval, runCron), the   *)
(* HTTP API's two update handlers (src/internal/api/server.go), signals    *)
(* and the end of the process (src/cmd/openwatch/main.go), composed with   *)
(* the passes of Watcher and the environment of DockerEngine.              *)
(***************************************************************************)
EXTENDS Watcher

CONSTANTS
  Cron,       \* OPENWATCH_SCHEDULE is set: runCron instead of runInterval
  API,        \* OPENWATCH_HTTP_API is set
  MayStop,    \* signals and crashes happen
  Operator    \* the operator removes containers (each removal is a fault)

ASSUME OpenWatchAssumption == {Cron, API, MayStop, Operator} \subseteq BOOLEAN

TickActive == \E p \in Passes : job[p].kind = "tick"

Init == EngineInit /\ WatcherInit

\* runInterval runs ticks one after another; robfig/cron starts each job in
\* a goroutine of its own whether or not the previous one has returned.  The
\* select of runInterval may take a tick although the context is cancelled, and
\* cron fires until Stop: every call of such a tick fails (Cancelled).
StartTick(p) ==
  /\ daemon # "exited"
  /\ Cron \/ ~TickActive
  /\ Begin(p, "tick", Names)
  /\ UNCHANGED <<engineVars, registryVars, daemon, store, work, notice, faults>>

\* POST /api/v1/update.  The listener is open until Serve has seen the
\* cancellation, and a request that it took may reach its handler after that;
\* the pass does not know the cancelled context.
HandleUpdateAll(p) ==
  /\ API
  /\ daemon # "exited"
  /\ Begin(p, "all", Names)
  /\ UNCHANGED <<engineVars, registryVars, daemon, store, work, notice, faults>>

\* POST /api/v1/update/{name}: 404 unless the store has the name.
HandleUpdateByName(p, n) ==
  /\ API
  /\ daemon # "exited"
  /\ Has(store, n)
  /\ Begin(p, "one", {n})
  /\ UNCHANGED <<engineVars, registryVars, daemon, store, work, notice, faults>>

\* A signal (or the API's listener failing) cancels the context.
Shutdown ==
  /\ MayStop
  /\ daemon = "running"
  /\ daemon' = "stopping"
  /\ UNCHANGED <<engineVars, registryVars, store, passVars, notice, faults>>

\* The process ends: its passes and its store are gone.
ProcessEnds ==
  /\ daemon' = "exited"
  /\ store' = EmptyStore
  /\ pc' = [p \in Passes |-> "idle"]
  /\ job' = [p \in Passes |-> NoJob]
  /\ work' = [p \in Passes |-> NoWork]
  /\ notice' = [n \in Names |->
                  IF \E p \in Passes : Held(p, n) THEN "lost" ELSE notice[n]]
  /\ UNCHANGED <<engineVars, registryVars>>

\* Run returns once no tick is active, and main with it: nothing waits for
\* the passes that the API started.
Exit ==
  /\ daemon = "stopping"
  /\ ~TickActive
  /\ ProcessEnds
  /\ UNCHANGED faults

\* The process is killed.
Crash ==
  /\ MayStop
  /\ daemon # "exited"
  /\ Fault
  /\ ProcessEnds

\* "restart: unless-stopped"
Restart ==
  /\ daemon = "exited"
  /\ daemon' = "running"
  /\ UNCHANGED <<engineVars, registryVars, store, passVars, notice, faults>>

OperatorRemoves(n) ==
  /\ Operator
  /\ Present(n)
  /\ Fault
  /\ ctr' = Remove(n)
  /\ notice' = [notice EXCEPT ![n] = "operator"]
  /\ UNCHANGED <<gen, images, tag, registryVars, daemon, store, passVars>>

PassNext(p) ==
  \/ StartTick(p)
  \/ HandleUpdateAll(p)
  \/ \E n \in Names : HandleUpdateByName(p, n)
  \/ PassStep(p)

DaemonNext == Shutdown \/ Exit \/ Crash \/ Restart

EnvironmentNext ==
  \/ \E n \in Names : OperatorRemoves(n)
  \/ /\ \/ \E n \in Names : HealthVerdict(n) \/ ProcessExits(n)
        \/ \E t \in Tags, i \in Images : Publish(t, i)
     /\ UNCHANGED <<daemon, store, passVars, notice, faults>>

Next ==
  \/ \E p \in Passes : PassNext(p)
  \/ DaemonNext
  \/ EnvironmentNext

Spec == Init /\ [][Next]_vars

-----------------------------------------------------------------------------
(***************************************************************************)
(* Fairness: a goroutine that can run runs, and the calls it waits for     *)
(* return (the SDK's client sets no deadline, the engine answers); the     *)
(* scheduler fires again and again; a cancelled Run does not choose the    *)
(* tick for ever (its select is random, and Stop ends cron), so that Exit  *)
(* is strongly fair; the process is restarted; the probe of a container    *)
(* whose image is not in Flaky reaches its verdict.  Nothing is assumed of *)
(* the probes of the images in Flaky, the API's clients, the publishers,   *)
(* signals, faults or operators.                                           *)
(***************************************************************************)
Fairness ==
  /\ \A p \in Passes : WF_vars(PassStep(p))
  /\ WF_vars(\E p \in Passes : StartTick(p))
  /\ SF_vars(Exit)
  /\ WF_vars(Restart)
  /\ \A n \in Names :
       WF_vars(/\ ctr[n].image \notin Flaky
               /\ HealthVerdict(n)
               /\ UNCHANGED <<daemon, store, passVars, notice, faults>>)

FairSpec == Spec /\ Fairness

-----------------------------------------------------------------------------
\* Type correctness of the engine, the registry and the daemon.
TypeOK == EngineTypeOK /\ WatcherTypeOK

(***************************************************************************)
(* The API's "updating" is never left behind (state.go: StatusUpdating):   *)
(* an entry says "updating" only while some pass is between MarkUpdating   *)
(* and the report that ends its update, whichever way the update fails.    *)
(***************************************************************************)
UpdatingMeansInFlight ==
  \A n \in Names : store[n].status = "updating" => \E p \in Passes : Held(p, n)

(***************************************************************************)
(* Recreate leaves a gap in which the name is free (container.go: remove,  *)
(* then create).  However many passes work on one container, at most one   *)
(* of them is in its gap, and no container has the name then: a create     *)
(* never collides with the container that another pass made.               *)
(***************************************************************************)
GapIsExclusive ==
  \A p \in Passes : pc[p] = "create" =>
    /\ ~Present(work[p].name)
    /\ \A q \in Passes \ {p} : pc[q] = "create" => work[q].name # work[p].name

\* n is not running, and not because its process ended by itself.
Down(n) == ctr[n].st \in {"absent", "created", "stopped"}

(***************************************************************************)
(* No silent outage: a container that OpenWatch took down is either still  *)
(* being worked on by a pass, or an UPDATE_FAILED or ROLLBACK_FAILED event *)
(* was sent since it went down, or the process ended in the middle.        *)
(***************************************************************************)
OutageIsReported ==
  \A n \in Names : Down(n) =>
    (\E p \in Passes : Held(p, n)) \/ notice[n] # "none"

(***************************************************************************)
(* watcher.go, at previousImageID: the rollback target survives until the  *)
(* update is over, so that a rollback can create a container from it.  (It *)
(* need not for a container that the operator removed meanwhile.)          *)
(***************************************************************************)
RollbackTargetKept ==
  \A p \in Passes : pc[p] \in UpdatePcs /\ notice[work[p].name] # "operator" =>
    work[p].image \in images

(***************************************************************************)
(* The API sees an update live (MarkUpdating): as long as a pass holds a   *)
(* container, its entry says "updating".                                   *)
(***************************************************************************)
InFlightIsVisible ==
  \A p \in Passes : pc[p] \in UpdatePcs => store[work[p].name].status = "updating"

(***************************************************************************)
(* Containers that the policy excludes from updates, OpenWatch itself and  *)
(* notify_only ones included, keep their container and its image whatever  *)
(* is updated and cleaned up around them (watcher.go: the early returns of *)
(* processContainer; image.go: RemoveImage never forces), and are never    *)
(* down, unless the operator took them away.                               *)
(***************************************************************************)
ExcludedAreKept ==
  \A n \in Self \cup Skipped \cup NotifyOnly :
    \/ ~Down(n) /\ ctr[n].id = 1 /\ ctr[n].image \in images
    \/ notice[n] = "operator"

(***************************************************************************)
(* last_updated is never taken back while the container stays tracked.     *)
(***************************************************************************)
LastUpdatedKept ==
  [][\A n \in Names : store[n].updated /\ Has(store, n)' => store'[n].updated]_vars

(***************************************************************************)
(* When ROLLBACK_SUCCESS is sent the name belongs to the container that    *)
(* the rollback created, from the image that ran before the update, unless *)
(* the operator removed it meanwhile.                                      *)
(***************************************************************************)
RollbackRestores ==
  [][\A p \in Passes : LET n == work[p].name IN
       ReportRollback(p) /\ notice[n] # "operator" =>
         HasId(n, work[p].new) /\ ctr[n].image = work[p].image]_vars

(***************************************************************************)
(* Every update comes to an end: the API never shows "updating" for ever   *)
(* (StatusUpdating is left by one of the reports, or with the process).    *)
(***************************************************************************)
UpdatesEnd ==
  \A n \in Names : store[n].status = "updating" ~> store[n].status # "updating"

(***************************************************************************)
(* Run: a cancelled context ends every tick, so the process exits.         *)
(***************************************************************************)
ShutdownEnds == daemon = "stopping" ~> daemon = "exited"

(***************************************************************************)
(* README "recreates any container whose image has moved to a new digest": *)
(* once the publishers stop, with a release that works, every container    *)
(* that OpenWatch may update runs it for ever.                             *)
(***************************************************************************)
ReleasesArrive ==
  \A n \in Updatable :
    <>[](remote[TagOf[n]] \notin Flaky => ctr[n].image = remote[TagOf[n]])

(***************************************************************************)
(* A failed update is tried again (processContainer only reports a failure *)
(* and returns): whatever failed before and however often the process was  *)
(* stopped or killed, if it runs for ever in the end, every container that *)
(* it may update and can still see runs the release for ever, also one     *)
(* that an update left stopped or created.  Out of reach are one that is   *)
(* not listed, having been removed, and one that a rollback created, whose *)
(* reference no registry serves.                                           *)
(***************************************************************************)
FailuresAreRetried ==
  <>[](daemon = "running") => \A n \in Updatable :
    <>[](\/ remote[TagOf[n]] \in Flaky
         \/ ctr[n].image = remote[TagOf[n]]
         \/ ~Listable(n)
         \/ ctr[n].ref \notin Tags)

(***************************************************************************)
(* What all this amounts to for a container, seen from outside: ServiceSlot *)
(* with the name being updated while some pass holds it, and otherwise in  *)
(* service or left behind as the operator was told.                        *)
(***************************************************************************)
InUpdate(n) == \E p \in Passes : Held(p, n)
Service(n) == IF InUpdate(n) THEN "updating"
              ELSE IF Down(n) THEN notice[n] ELSE "serving"

Slot == INSTANCE ServiceSlot
          WITH Managed <- Names \ (Self \cup Skipped \cup NotifyOnly),
               Containers <- Nat \X (Images \cup {NoImage}),
               service <- [n \in Names |-> Service(n)],
               container <- [n \in Names |-> <<ctr[n].id, ctr[n].image>>]

ServesOrTells == Slot!Spec

-----------------------------------------------------------------------------
(***************************************************************************)
(* What the repository's comments and documentation say, and the code does *)
(* not do: each of these is violated.                                      *)
(***************************************************************************)

\* README, Events: UPDATE_FAILED means "Pull or recreate step failed"; so when
\* UPDATE_SUCCESS is sent instead, the pull brought the container a new image.
UpdatedIsNew ==
  [][\A p \in Passes : LET n == work[p].name IN
       ReportSuccess(p) /\ HasId(n, work[p].new) => ctr[n].image # work[p].image]_vars
=============================================================================
