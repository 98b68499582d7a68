--------------------------- MODULE OnePassProofs ---------------------------
(***************************************************************************)
(* What the policy excludes is kept, for any number of passes; and what    *)
(* OpenWatch guarantees while its passes do not overlap: the rollback's    *)
(* image, the visible status, and the container that a rollback brings     *)
(* back.  When two passes overlap none of these three holds.  Passes never *)
(* overlap with an interval schedule and no HTTP API; with either, they do *)
(* not as long as cron's jobs and the API's requests leave them time.      *)
(***************************************************************************)
EXTENDS OpenWatchProofs

Excluded == Self \cup Skipped \cup NotifyOnly

\* The engine never loses the image of a container that exists.
ImagesInUseKept == \A n \in Names : Present(n) => ctr[n].image \in images

LEMMA ImagesInUseInit == Init => ImagesInUseKept
BY DEF Init, EngineInit, ImagesInUseKept

LEMMA ImagesInUseStep == TypeInv /\ ImagesInUseKept /\ [Next]_vars => ImagesInUseKept'
<1>. SUFFICES ASSUME TypeInv, ImagesInUseKept, [Next]_vars PROVE ImagesInUseKept'
  OBVIOUS
<1>. USE DEF ImagesInUseKept, Present, TypeInv, TypeOK, EngineTypeOK
<1>1. CASE UNCHANGED <<ctr, images>>
  BY <1>1
<1>2. ASSUME NEW p \in Passes, PullImage(p) PROVE ImagesInUseKept'
  BY <1>2 DEF PullImage, Pull
<1>3. ASSUME NEW p \in Passes, StopContainer(p) \/ KillContainer(p) \/ RemoveContainer(p)
      PROVE ImagesInUseKept'
  <2>1. \E n \in Names : ctr' \in {ctr, Stop(n), Remove(n)}
    BY <1>3 DEF StopContainer, KillContainer, RemoveContainer, WorkWellFormed, UpdatePcs
  <2>2. images' = images
    BY <1>3 DEF StopContainer, KillContainer, RemoveContainer
  <2>3. QED BY <2>1, <2>2 DEF Stop, Remove, Absent, Running, Containers
<1>4. ASSUME NEW p \in Passes, CreateContainer(p) PROVE ImagesInUseKept'
  BY <1>4 DEF CreateContainer, Create
<1>5. ASSUME NEW p \in Passes, StartContainer(p) PROVE ImagesInUseKept'
  BY <1>5 DEF StartContainer, Start, HasId, Containers
<1>6. ASSUME NEW p \in Passes, Cleanup(p) PROVE ImagesInUseKept'
  BY <1>6 DEF Cleanup, RemoveImage, Removable, InUse
<1>7. ASSUME NEW n \in Names, HealthVerdict(n) \/ ProcessExits(n) \/ OperatorRemoves(n)
      PROVE ImagesInUseKept'
  BY <1>7 DEF HealthVerdict, ProcessExits, OperatorRemoves, Running, Remove, Absent, Containers
<1>8. QED
  BY <1>1, <1>2, <1>3, <1>4, <1>5, <1>6, <1>7 DEF Next, PassNext, PassStep, DaemonNext,
     EnvironmentNext, StartTick, HandleUpdateAll, HandleUpdateByName, List, TakeNext, FinishPass,
     SkipSelf, Check, StartUpdate, HealthPasses, HealthFails, HandleHealthFailure, ReportFailure,
     ReportRollback, ReportSuccess, Shutdown, Exit, Crash, Restart, ProcessEnds, Publish,
     engineVars, vars

LEMMA ImagesInUse == Spec => [](TypeInv /\ ImagesInUseKept)
BY TypeInit, TypeStep, ImagesInUseInit, ImagesInUseStep, PTL DEF Spec

-----------------------------------------------------------------------------
\* No pass ever holds an excluded container, so it is up, in its first
\* generation, unless the operator took it away.
ExcludedInv ==
  \A n \in Excluded :
    /\ \A p \in Passes : ~Held(p, n)
    /\ \/ Down(n) /\ notice[n] = "operator"
       \/ ~Down(n) /\ ctr[n].id = 1

LEMMA ExcludedStep == TypeInv /\ ExcludedInv /\ [Next]_vars => ExcludedInv'
<1>. SUFFICES ASSUME TypeInv, ExcludedInv, [Next]_vars, NEW n \in Excluded
              PROVE  /\ \A p \in Passes : ~Held(p, n)'
                     /\ \/ Down(n)' /\ notice'[n] = "operator"
                        \/ ~Down(n)' /\ ctr'[n].id = 1
  BY DEF ExcludedInv
<1>1. n \in Names \ Updatable
  BY WatcherAssumption DEF Excluded, Updatable
<1>2. ASSUME NEW p \in Passes, PassNext(p)
      PROVE  /\ \A q \in Passes : ~Held(q, n)'
             /\ ctr'[n] = ctr[n]
             /\ Service(n)' = Service(n)
  <2>1. ~Held(p, n)'
    BY <1>1, <1>2, HolderStep DEF ExcludedInv
  <2>2. \A q \in Passes \ {p} : ~Held(q, n)'
    BY <1>2, OtherPasses DEF ExcludedInv, Held
  <2>3. QED BY <1>1, <1>2, <2>1, <2>2, OthersKept DEF ExcludedInv
<1>3. CASE DaemonNext \/ EnvironmentNext \/ UNCHANGED vars
  <2>. USE DEF Held, Down, ExcludedInv, UpdatePcs, TypeInv, TypeOK, EngineTypeOK, WatcherTypeOK
  <2>1. CASE UNCHANGED <<pc, work, ctr, notice>>
    BY <2>1
  <2>2. CASE ProcessEnds
    BY <2>2, <1>1 DEF ProcessEnds, engineVars
  <2>3. ASSUME NEW m \in Names, OperatorRemoves(m)
        PROVE  /\ \A p \in Passes : ~Held(p, n)'
               /\ \/ Down(n)' /\ notice'[n] = "operator"
                  \/ ~Down(n)' /\ ctr'[n].id = 1
    BY <2>3, <1>1 DEF OperatorRemoves, Remove, Absent, passVars
  <2>4. ASSUME NEW m \in Names, HealthVerdict(m) \/ ProcessExits(m), UNCHANGED <<passVars, notice>>
        PROVE  /\ \A p \in Passes : ~Held(p, n)'
               /\ \/ Down(n)' /\ notice'[n] = "operator"
                  \/ ~Down(n)' /\ ctr'[n].id = 1
    <3>1. ctr'[n].id = ctr[n].id /\ (Down(n)' <=> Down(n))
      BY <2>4, <1>1 DEF HealthVerdict, ProcessExits, Running, Containers
    <3>2. UNCHANGED <<pc, work, notice>>
      BY <2>4 DEF passVars
    <3>. HIDE DEF Down
    <3>3. QED BY <3>1, <3>2
  <2>5. QED
    BY <1>3, <2>1, <2>2, <2>3, <2>4 DEF DaemonNext, EnvironmentNext, Shutdown, Exit, Crash, Restart,
       Publish, passVars, engineVars, vars
<1>4. CASE \E p \in Passes : PassNext(p)
  <2>1. \A p \in Passes : ~Held(p, n) /\ ~Held(p, n)'
    BY <1>2, <1>4 DEF ExcludedInv
  <2>2. ctr'[n] = ctr[n] /\ Service(n)' = Service(n)
    BY <1>2, <1>4
  <2>3. QED BY <2>1, <2>2 DEF Service, InUpdate, Down, ExcludedInv
<1>5. QED BY <1>3, <1>4 DEF Next

(***************************************************************************)
(* Whatever is updated, rolled back and cleaned up around them, OpenWatch  *)
(* itself, skipped and notify_only containers keep running the container   *)
(* and the image they have, for any number of passes                       *)
(* (processContainer's early returns, RemoveImage).                        *)
(***************************************************************************)
THEOREM ExcludedKept == Spec => []ExcludedAreKept
<1>1. Init => ExcludedInv
  BY WatcherAssumption DEF Init, EngineInit, WatcherInit, ExcludedInv, Excluded, Held, UpdatePcs, Down
<1>2. ImagesInUseKept /\ ExcludedInv => ExcludedAreKept
  BY WatcherAssumption DEF ExcludedInv, ExcludedAreKept, Excluded, ImagesInUseKept, Present, Down
<1>3. QED
  BY <1>1, <1>2, ExcludedStep, ImagesInUse, PTL DEF Spec

-----------------------------------------------------------------------------
(***************************************************************************)
(* One pass at a time.                                                     *)
(***************************************************************************)
NoOverlap == \A p, q \in Passes : pc[p] # "idle" /\ pc[q] # "idle" => p = q

\* A step of one pass finds the others idle, and leaves them so.
LEMMA Alone ==
  ASSUME TypeInv, NoOverlap, NoOverlap', NEW p \in Passes, PassNext(p), NEW q \in Passes \ {p}
  PROVE  /\ pc[q] = "idle" /\ pc'[q] = "idle"
         /\ job'[q] = job[q] /\ work'[q] = work[q]
<1>1. pc'[q] = pc[q] /\ job'[q] = job[q] /\ work'[q] = work[q]
  BY OtherPasses
<1>2. pc[p] # "idle" \/ pc'[p] # "idle"
  <2>1. CASE \/ StartTick(p) \/ HandleUpdateAll(p) \/ \E n \in Names : HandleUpdateByName(p, n)
    BY <2>1 DEF StartTick, HandleUpdateAll, HandleUpdateByName, Begin, Goto, TypeInv, TypeOK,
                WatcherTypeOK
  <2>2. CASE PassStep(p)
    BY <2>2 DEF PassStep, List, TakeNext, FinishPass, SkipSelf, Check, StartUpdate, PullImage,
       StopContainer, KillContainer, RemoveContainer, CreateContainer, StartContainer,
       HealthPasses, HealthFails, HandleHealthFailure, ReportFailure, ReportRollback,
       ReportSuccess, Cleanup
  <2>3. QED BY <2>1, <2>2 DEF PassNext
<1>3. QED BY <1>1, <1>2 DEF NoOverlap

\* A step of a pass that is under way leaves it of the same kind, or ends it.
LEMMA KindStep ==
  ASSUME TypeInv, NEW p \in Passes, PassStep(p)
  PROVE  /\ pc[p] # "idle"
         /\ pc'[p] # "idle" => job'[p].kind = job[p].kind
<1>. USE DEF TypeInv, TypeOK, WatcherTypeOK
<1>1. CASE List(p)
  <2>1. CASE EndPass(p)
    BY <1>1, <2>1 DEF List, EndPass, Goto, NoJob
  <2>2. CASE /\ \E todo, seen : job' = [job EXCEPT ![p].seen = seen, ![p].todo = todo]
             /\ Goto(p, "next")
    BY <1>1, <2>2 DEF List, Goto, Jobs
  <2>3. QED BY <1>1, <2>1, <2>2, Zenon DEF List
<1>2. CASE TakeNext(p)
  BY <1>2 DEF TakeNext, Goto, Jobs
<1>3. CASE FinishPass(p)
  BY <1>3 DEF FinishPass, EndPass, Goto, NoJob
<1>4. CASE UNCHANGED job /\ ~(List(p) \/ TakeNext(p) \/ FinishPass(p))
  BY <1>4 DEF PassStep, SkipSelf, Check, StartUpdate, PullImage, StopContainer, KillContainer,
     RemoveContainer, CreateContainer, StartContainer, HealthPasses, HealthFails,
     HandleHealthFailure, ReportFailure, ReportRollback, ReportSuccess, Cleanup, Done, Goto,
     Failed, Refused
<1>5. QED
  BY <1>1, <1>2, <1>3, <1>4 DEF PassStep, SkipSelf, Check, StartUpdate, PullImage, StopContainer,
     KillContainer, RemoveContainer, CreateContainer, StartContainer, HealthPasses, HealthFails,
     HandleHealthFailure, ReportFailure, ReportRollback, ReportSuccess, Cleanup

\* With an interval schedule and no API every pass is a tick.
TicksOnly ==
  /\ NoOverlap
  /\ \A p \in Passes : pc[p] # "idle" => job[p].kind = "tick"

(***************************************************************************)
(* runInterval runs its ticks one after another, so that without the API   *)
(* passes never overlap, however many goroutines there are.                *)
(***************************************************************************)
THEOREM IntervalIsSerial == ASSUME ~Cron, ~API PROVE Spec => []NoOverlap
<1>1. Init => TicksOnly
  BY DEF Init, WatcherInit, TicksOnly, NoOverlap
<1>2. TypeInv /\ TicksOnly /\ [Next]_vars => TicksOnly'
  <2>. SUFFICES ASSUME TypeInv, TicksOnly, [Next]_vars PROVE TicksOnly'
    OBVIOUS
  <2>. USE DEF TicksOnly, NoOverlap
  <2>1. ASSUME NEW p \in Passes, StartTick(p) PROVE TicksOnly'
    <3>1. \A q \in Passes : pc[q] = "idle"
      BY <2>1 DEF StartTick, TickActive
    <3>2. pc' = [pc EXCEPT ![p] = "list"] /\ job'[p].kind = "tick"
      BY <2>1 DEF StartTick, Begin, Goto, NoJob, TypeInv, TypeOK, WatcherTypeOK
    <3>3. QED BY <3>1, <3>2 DEF TypeInv, TypeOK, WatcherTypeOK
  <2>2. ASSUME NEW p \in Passes, PassStep(p) PROVE TicksOnly'
    <3>1. \A q \in Passes \ {p} : pc'[q] = pc[q] /\ job'[q] = job[q]
      BY <2>2, OtherPasses DEF PassNext
    <3>2. pc[p] # "idle" /\ (pc'[p] # "idle" => job'[p].kind = job[p].kind)
      BY <2>2, KindStep
    <3>3. QED BY <3>1, <3>2
  <2>3. CASE UNCHANGED <<pc, job>>
    BY <2>3
  <2>4. CASE ProcessEnds
    BY <2>4 DEF ProcessEnds
  <2>5. QED
    BY <2>1, <2>2, <2>3, <2>4 DEF Next, PassNext, HandleUpdateAll, HandleUpdateByName, DaemonNext,
       EnvironmentNext, Shutdown, Exit, Crash, Restart, OperatorRemoves, passVars, vars
<1>3. TicksOnly => NoOverlap
  BY DEF TicksOnly
<1>4. QED BY <1>1, <1>2, <1>3, TypeInit, TypeStep, PTL DEF Spec

LEMMA VisibleStep ==
  TypeInv /\ InFlightIsVisible /\ NoOverlap /\ NoOverlap' /\ [Next]_vars => InFlightIsVisible'
<1>. SUFFICES ASSUME TypeInv, InFlightIsVisible, NoOverlap, NoOverlap', [Next]_vars,
                     NEW p \in Passes, pc'[p] \in UpdatePcs
              PROVE  store'[work'[p].name].status = "updating"
  BY DEF InFlightIsVisible
<1>. USE DEF TypeInv, TypeOK, WatcherTypeOK, InFlightIsVisible
<1>1. CASE UNCHANGED <<pc, work, store>>
  BY <1>1
<1>2. CASE StartUpdate(p)
  BY <1>2 DEF StartUpdate, MarkUpdating, Updatable, Stores
<1>3. CASE \/ PullImage(p) \/ StopContainer(p) \/ KillContainer(p) \/ RemoveContainer(p)
           \/ CreateContainer(p) \/ StartContainer(p) \/ HealthPasses(p) \/ HealthFails(p)
  <2>1. pc[p] \in UpdatePcs /\ store' = store /\ work'[p].name = work[p].name
    BY <1>3 DEF PullImage, StopContainer, KillContainer, RemoveContainer, CreateContainer,
                StartContainer, HealthPasses, HealthFails, UpdatePcs, Works
  <2>2. QED BY <2>1
<1>4. CASE HandleHealthFailure(p)
  BY <1>4 DEF HandleHealthFailure, Done, Goto, UpdatePcs, Works
<1>5. CASE \/ StartTick(p) \/ HandleUpdateAll(p) \/ (\E n \in Names : HandleUpdateByName(p, n))
           \/ List(p) \/ TakeNext(p) \/ FinishPass(p) \/ SkipSelf(p) \/ Check(p)
           \/ ReportFailure(p) \/ ReportRollback(p) \/ ReportSuccess(p) \/ Cleanup(p)
  BY <1>5 DEF StartTick, HandleUpdateAll, HandleUpdateByName, Begin, List, EndPass, TakeNext,
     FinishPass, SkipSelf, Check, ReportFailure, ReportRollback, ReportSuccess, Cleanup, Done,
     Goto, UpdatePcs
<1>6. CASE ProcessEnds
  BY <1>6 DEF ProcessEnds, UpdatePcs
<1>7. (\E q \in Passes : PassNext(q)) => PassNext(p)
  BY Alone DEF UpdatePcs
<1>8. QED
  BY <1>1, <1>2, <1>3, <1>4, <1>5, <1>6, <1>7 DEF Next, PassNext, PassStep, DaemonNext,
     EnvironmentNext, Shutdown, Exit, Crash, Restart, OperatorRemoves, passVars, vars

(***************************************************************************)
(* While passes do not overlap the API shows every update that is under    *)
(* way (MarkUpdating to the report that ends it).                          *)
(***************************************************************************)
THEOREM InFlightVisible == Spec /\ []NoOverlap => []InFlightIsVisible
<1>1. Init => InFlightIsVisible
  BY DEF Init, WatcherInit, InFlightIsVisible, UpdatePcs
<1>2. QED
  BY <1>1, VisibleStep, TypeInit, TypeStep, PTL DEF Spec

-----------------------------------------------------------------------------
\* Container n is still the one of id and img, unless the operator took it.
StillThere(n, id, img) ==
  \/ notice[n] = "operator" /\ ~Present(n)
  \/ HasId(n, id) /\ ctr[n].image = img

\* The snapshots that pass p has not come to yet are true, and of other
\* containers than the one it works on.
TodoTrue(p) ==
  /\ pc[p] = "idle" => job[p].todo = {}
  /\ \A s \in job[p].todo : StillThere(s.name, s.id, s.image)
  /\ \A s, u \in job[p].todo : s.name = u.name => s = u
  /\ pc[p] \notin {"idle", "list", "next"} => \A s \in job[p].todo : s.name # work[p].name

\* What pass p knows of the image that its container ran before the update:
\* until the stop the container uses it, and after it nothing removes it.
BeforeStop(p) == pc[p] \in {"check", "pull"} \/ (pc[p] = "stop" /\ ~work[p].rollback)
AfterStop == {"kill", "remove", "create", "start", "health", "success", "unhealthy",
              "rbFailed", "rbDone"}

TargetKnown(p) ==
  /\ pc[p] \in {"check", "pull"} => ~work[p].rollback
  /\ BeforeStop(p) => StillThere(work[p].name, work[p].id, work[p].image)
  /\ pc[p] \in AfterStop => work[p].image \in images
  /\ pc[p] = "stop" /\ work[p].rollback => work[p].image \in images
  /\ pc[p] = "failed" => work[p].image \in images \/ notice[work[p].name] = "operator"

\* What a rollback has created is what ran before.
Restored(p) ==
  pc[p] = "rbDone" \/ (pc[p] = "start" /\ work[p].rollback) =>
    \/ notice[work[p].name] = "operator"
    \/ HasId(work[p].name, work[p].new) /\ ctr[work[p].name].image = work[p].image

OnePassInv == \A p \in Passes : TodoTrue(p) /\ TargetKnown(p) /\ Restored(p)

\* The start of a pass, its listing and its end.
LEMMA PassBoundsStep ==
  ASSUME TypeInv, ImagesInUseKept, OnePassInv, NEW p \in Passes,
         \/ StartTick(p) \/ HandleUpdateAll(p) \/ (\E n \in Names : HandleUpdateByName(p, n))
         \/ List(p) \/ FinishPass(p)
  PROVE  TodoTrue(p)' /\ TargetKnown(p)' /\ Restored(p)'
<1>. USE DEF TypeInv, TypeOK, WatcherTypeOK, OnePassInv
<1>1. pc'[p] \in {"idle", "list", "next"} /\ UNCHANGED <<engineVars, notice>>
  BY DEF StartTick, HandleUpdateAll, HandleUpdateByName, Begin, List, FinishPass, EndPass, Goto
<1>2. TargetKnown(p)' /\ Restored(p)'
  BY <1>1 DEF TargetKnown, BeforeStop, AfterStop, Restored
<1>3. CASE job'[p].todo = {}
  BY <1>1, <1>2, <1>3 DEF TodoTrue
<1>4. ASSUME NEW listed, listed \subseteq {n \in Names : Listable(n)},
             job'[p].todo = {Snapshot(n) : n \in listed}, pc'[p] # "idle"
      PROVE  TodoTrue(p)'
  <2>1. \A s \in job'[p].todo : \E n \in Names : s = Snapshot(n) /\ Present(n)
    BY <1>4 DEF Listable, Present, Running
  <2>2. \A s \in job'[p].todo : StillThere(s.name, s.id, s.image)'
    BY <1>1, <2>1 DEF StillThere, HasId, Snapshot, Present, engineVars
  <2>3. \A s, u \in job'[p].todo : s.name = u.name => s = u
    BY <2>1 DEF Snapshot
  <2>4. QED BY <1>1, <1>4, <2>2, <2>3 DEF TodoTrue
<1>5. CASE FinishPass(p)
  BY <1>3, <1>5 DEF FinishPass, EndPass, NoJob
<1>6. CASE List(p)
  <2>1. CASE EndPass(p)
    BY <1>3, <2>1 DEF EndPass, NoJob
  <2>2. CASE \E dropped \in SUBSET {n \in Names : Listable(n)} :
               LET listed == {n \in Names : Listable(n)} \ dropped IN
               /\ job' = [job EXCEPT ![p].seen = listed,
                                     ![p].todo = {Snapshot(n) : n \in listed \cap job[p].want}]
               /\ Goto(p, "next")
    <3>1. PICK listed \in SUBSET {n \in Names : Listable(n)} :
            job' = [job EXCEPT ![p].seen = listed,
                               ![p].todo = {Snapshot(n) : n \in listed \cap job[p].want}]
      BY <2>2
    <3>2. job'[p].todo = {Snapshot(n) : n \in listed \cap job[p].want}
      BY <3>1, Zenon DEF Jobs
    <3>3. pc'[p] # "idle"
      BY <2>2 DEF Goto
    <3>4. QED BY <1>2, <1>4, <3>2, <3>3
  <2>3. QED BY <1>6, <2>1, <2>2, Zenon DEF List
<1>7. CASE StartTick(p) \/ HandleUpdateAll(p) \/ (\E n \in Names : HandleUpdateByName(p, n))
  BY <1>3, <1>7 DEF StartTick, HandleUpdateAll, HandleUpdateByName, Begin, NoJob
<1>8. QED BY <1>2, <1>5, <1>6, <1>7

\* What a pass does with its container leaves the others as listed.
LEMMA TodoKept ==
  ASSUME TypeInv, OnePassInv, NEW p \in Passes, PassNext(p),
         pc[p] \notin {"idle", "list", "next"}, pc'[p] # "idle", job' = job,
         pc'[p] = "next" \/ work'[p].name = work[p].name
  PROVE  TodoTrue(p)'
<1>. USE DEF TypeInv, TypeOK, WatcherTypeOK, OnePassInv
<1>1. \A s \in job[p].todo : s.name \in Names /\ s.name # work[p].name
  BY DEF TodoTrue, Jobs, Snapshots
<1>2. \A s \in job[p].todo : ctr'[s.name] = ctr[s.name] /\ notice'[s.name] = notice[s.name]
  <2>1. \A s \in job[p].todo : ~Held(p, s.name) /\ ~Held(p, s.name)'
    BY <1>1 DEF Held, UpdatePcs
  <2>2. QED BY <1>1, <2>1, OthersKept
<1>3. \A s \in job[p].todo : StillThere(s.name, s.id, s.image)'
  BY <1>1, <1>2 DEF TodoTrue, StillThere, HasId, Present
<1>4. QED BY <1>1, <1>3 DEF TodoTrue

\* The steps of a pass up to the stop.
LEMMA BeforeStopStep ==
  ASSUME TypeInv, ImagesInUseKept, OnePassInv, NEW p \in Passes, PassNext(p),
         TakeNext(p) \/ StartUpdate(p) \/ PullImage(p)
  PROVE  TodoTrue(p)' /\ TargetKnown(p)' /\ Restored(p)'
<1>. USE DEF TypeInv, TypeOK, WatcherTypeOK, OnePassInv
<1>1. CASE TakeNext(p)
  <2>1. UNCHANGED <<engineVars, notice>> /\ pc'[p] = "check"
    BY <1>1 DEF TakeNext, Goto
  <2>2. PICK s \in job[p].todo :
          /\ job'[p].todo = job[p].todo \ {s}
          /\ work'[p].name = s.name /\ work'[p].id = s.id /\ work'[p].image = s.image
          /\ ~work'[p].rollback
    BY <1>1 DEF TakeNext, Jobs
  <2>3. TodoTrue(p)'
    BY <2>1, <2>2 DEF TodoTrue, StillThere, HasId, Present, engineVars
  <2>4. TargetKnown(p)' /\ Restored(p)'
    BY <2>1, <2>2 DEF TodoTrue, TargetKnown, BeforeStop, AfterStop, Restored, StillThere, HasId,
                      Present, engineVars
  <2>5. QED BY <2>3, <2>4
<1>2. CASE StartUpdate(p)
  <2>1. /\ pc[p] = "check" /\ pc'[p] = "pull"
        /\ UNCHANGED <<ctr, images, job, work, notice>>
    BY <1>2 DEF StartUpdate, Goto, engineVars
  <2>2. TodoTrue(p)'
    BY <2>1, TodoKept
  <2>3. QED
    BY <2>1, <2>2 DEF TargetKnown, BeforeStop, AfterStop, Restored, StillThere, HasId, Present
<1>3. CASE PullImage(p)
  <2>1. /\ pc[p] = "pull" /\ pc'[p] \in {"stop", "failed"}
        /\ UNCHANGED <<ctr, job, work, notice>>
        /\ images \subseteq images'
    BY <1>3 DEF PullImage, Pull, Goto
  <2>2. TodoTrue(p)'
    BY <2>1, TodoKept
  <2>3. StillThere(work[p].name, work[p].id, work[p].image)
    BY <2>1 DEF TargetKnown, BeforeStop
  <2>4. work[p].image \in images \/ notice[work[p].name] = "operator"
    BY <2>1, <2>3 DEF StillThere, HasId, ImagesInUseKept, WorkWellFormed, UpdatePcs
  <2>5. ~work[p].rollback
    BY <2>1 DEF TargetKnown
  <2>6. QED
    BY <2>1, <2>2, <2>3, <2>4, <2>5 DEF TargetKnown, BeforeStop, AfterStop, Restored, StillThere,
       HasId, Present
<1>4. QED BY <1>1, <1>2, <1>3

\* The stop: the last moment at which the container keeps its image in use.
LEMMA StopStep ==
  ASSUME TypeInv, ImagesInUseKept, OnePassInv, NEW p \in Passes, PassNext(p), StopContainer(p)
  PROVE  TodoTrue(p)' /\ TargetKnown(p)' /\ Restored(p)'
<1>. USE DEF TypeInv, TypeOK, WatcherTypeOK, OnePassInv
<1>1. /\ pc[p] = "stop" /\ UNCHANGED <<images, job, work>>
      /\ pc'[p] \in {"remove", "kill", Failed(p)}
      /\ ~HasId(work[p].name, Target(p)) => pc'[p] = Failed(p) /\ UNCHANGED notice
  BY DEF StopContainer, Goto, Refused
<1>2. TodoTrue(p)'
  <2>1. pc'[p] # "idle"
    BY <1>1 DEF Failed
  <2>2. QED BY <1>1, <2>1, TodoKept
<1>3. CASE work[p].rollback
  BY <1>1, <1>2, <1>3 DEF TargetKnown, BeforeStop, AfterStop, Restored, Failed
<1>4. CASE ~work[p].rollback
  <2>1. StillThere(work[p].name, work[p].id, work[p].image)
    BY <1>1, <1>4 DEF TargetKnown, BeforeStop
  <2>2. \/ work[p].image \in images
        \/ pc'[p] = "failed" /\ notice'[work[p].name] = "operator"
    BY <1>1, <1>4, <2>1 DEF StillThere, HasId, Target, Failed, ImagesInUseKept, WorkWellFormed,
                            UpdatePcs
  <2>3. QED
    BY <1>1, <1>2, <1>4, <2>2 DEF TargetKnown, BeforeStop, AfterStop, Restored, Failed
<1>5. QED BY <1>3, <1>4

\* From the stop to the start of the new container the previous image stays.
LEMMA AfterStopStep ==
  ASSUME TypeInv, OnePassInv, NEW p \in Passes, PassNext(p),
         \/ KillContainer(p) \/ RemoveContainer(p) \/ CreateContainer(p) \/ StartContainer(p)
         \/ HealthPasses(p) \/ HealthFails(p) \/ HandleHealthFailure(p)
  PROVE  TodoTrue(p)' /\ TargetKnown(p)' /\ Restored(p)'
<1>. USE DEF TypeInv, TypeOK, WatcherTypeOK, OnePassInv
<1>1. /\ pc[p] \in AfterStop
      /\ UNCHANGED <<images, job>>
      /\ \/ pc'[p] = "next"
         \/ /\ work'[p].name = work[p].name /\ work'[p].image = work[p].image
            /\ \/ pc'[p] \in AfterStop \cup {"failed"}
               \/ pc'[p] = "stop" /\ work'[p].rollback
  BY DEF KillContainer, RemoveContainer, CreateContainer, StartContainer, HealthPasses, HealthFails,
         HandleHealthFailure, Done, Goto, Failed, Refused, AfterStop, Works, engineVars
<1>2. TodoTrue(p)'
  BY <1>1, TodoKept DEF AfterStop
<1>3. TargetKnown(p)'
  BY <1>1 DEF TargetKnown, BeforeStop, AfterStop
<1>4. CASE CreateContainer(p)
  <2>1. CASE pc'[p] = "start" /\ work[p].rollback
    <3>1. /\ work[p].name \in Names /\ work[p].image \in Images
          /\ Create(work[p].name, work[p].image)
          /\ work' = [work EXCEPT ![p].new = gen[work[p].name] + 1]
      BY <1>4, <2>1 DEF CreateContainer, Goto, Failed, NewRef, WorkWellFormed, UpdatePcs
    <3>2. Resolve(work[p].image) = work[p].image
      BY <3>1, EngineAssumption DEF Resolve
    <3>3. QED
      BY <1>2, <1>3, <3>1, <3>2 DEF Restored, Create, HasId, Present, EngineTypeOK, Works
  <2>2. CASE ~(pc'[p] = "start" /\ work[p].rollback)
    <3>1. pc'[p] # "rbDone" /\ work'[p].rollback = work[p].rollback
      BY <1>4 DEF CreateContainer, Goto, Failed, Works
    <3>2. QED BY <1>2, <1>3, <2>2, <3>1 DEF Restored
  <2>3. QED BY <2>1, <2>2
<1>5. CASE StartContainer(p)
  <2>1. CASE pc'[p] = "rbDone"
    <3>1. /\ work[p].rollback /\ pc[p] = "start" /\ work[p].name \in Names
          /\ HasId(work[p].name, work[p].new)
          /\ ctr' = Start(work[p].name)
          /\ UNCHANGED <<work, notice>>
      BY <1>5, <2>1 DEF StartContainer, Goto, Failed, WorkWellFormed, UpdatePcs
    <3>2. HasId(work[p].name, work[p].new)' /\ ctr'[work[p].name].image = ctr[work[p].name].image
      BY <3>1 DEF Start, HasId, Present, EngineTypeOK, Containers
    <3>3. QED BY <1>2, <1>3, <3>1, <3>2 DEF Restored
  <2>2. CASE pc'[p] # "rbDone"
    BY <1>2, <1>3, <1>5, <2>2 DEF StartContainer, Goto, Failed, Restored
  <2>3. QED BY <2>1, <2>2
<1>6. CASE \/ KillContainer(p) \/ RemoveContainer(p) \/ HealthPasses(p) \/ HealthFails(p)
           \/ HandleHealthFailure(p)
  <2>1. pc'[p] \notin {"start", "rbDone"}
    BY <1>6 DEF KillContainer, RemoveContainer, HealthPasses, HealthFails, HandleHealthFailure,
                Done, Goto, Failed, Refused
  <2>2. QED BY <1>2, <1>3, <2>1 DEF Restored
<1>7. QED BY <1>4, <1>5, <1>6

\* The steps that end with a container.
LEMMA DoneStep ==
  ASSUME TypeInv, OnePassInv, NEW p \in Passes, PassNext(p),
         \/ SkipSelf(p) \/ Check(p) \/ ReportFailure(p) \/ ReportRollback(p) \/ ReportSuccess(p)
         \/ Cleanup(p)
  PROVE  TodoTrue(p)' /\ TargetKnown(p)' /\ Restored(p)'
<1>. USE DEF TypeInv, TypeOK, WatcherTypeOK
<1>1. /\ pc[p] \notin {"idle", "list", "next"} /\ UNCHANGED job
      /\ pc'[p] = "next" \/ (pc'[p] = "cleanup" /\ UNCHANGED work)
  BY DEF SkipSelf, Check, ReportFailure, ReportRollback, ReportSuccess, Cleanup, Done, Goto
<1>2. TodoTrue(p)'
  BY <1>1, TodoKept
<1>3. QED
  BY <1>1, <1>2 DEF TargetKnown, BeforeStop, AfterStop, Restored

\* The end of the process and its restart, the engine, the publishers and the
\* operator.
LEMMA OutsideStep ==
  TypeInv /\ OnePassInv /\ (DaemonNext \/ EnvironmentNext \/ UNCHANGED vars) => OnePassInv'
<1>. SUFFICES ASSUME TypeInv, OnePassInv, DaemonNext \/ EnvironmentNext \/ UNCHANGED vars,
                     NEW p \in Passes
              PROVE  TodoTrue(p)' /\ TargetKnown(p)' /\ Restored(p)'
  BY DEF OnePassInv
<1>. USE DEF TypeInv, TypeOK, WatcherTypeOK, OnePassInv
<1>1. CASE ProcessEnds
  BY <1>1 DEF ProcessEnds, NoJob, TodoTrue, TargetKnown, BeforeStop, AfterStop, Restored
<1>2. CASE /\ UNCHANGED <<passVars, images>>
           /\ \A n \in Names : \A id, img :
                /\ StillThere(n, id, img) => StillThere(n, id, img)'
                /\ notice[n] = "operator" => notice'[n] = "operator"
                /\ notice'[n] = "operator" \/
                   (HasId(n, id) /\ ctr[n].image = img => (HasId(n, id) /\ ctr[n].image = img)')
  <2>1. UNCHANGED <<pc, job, work, images>>
    BY <1>2 DEF passVars
  <2>2. \A s \in job[p].todo : s.name \in Names
    BY DEF Jobs, Snapshots
  <2>3. TodoTrue(p)'
    BY <1>2, <2>1, <2>2 DEF TodoTrue
  <2>4. pc[p] \in UpdatePcs \cup {"check"} => work[p].name \in Names
    BY DEF WorkWellFormed
  <2>5. TargetKnown(p)'
    BY <1>2, <2>1, <2>4 DEF TargetKnown, BeforeStop, UpdatePcs
  <2>6. Restored(p)'
    BY <1>2, <2>1, <2>4 DEF Restored, UpdatePcs
  <2>7. QED BY <2>3, <2>5, <2>6
<1>3. ASSUME NEW m \in Names, OperatorRemoves(m)
      PROVE  TodoTrue(p)' /\ TargetKnown(p)' /\ Restored(p)'
  BY <1>2, <1>3 DEF OperatorRemoves, Remove, Absent, StillThere, HasId, Present, EngineTypeOK
<1>4. ASSUME NEW m \in Names, HealthVerdict(m) \/ ProcessExits(m), UNCHANGED <<passVars, notice>>
      PROVE  TodoTrue(p)' /\ TargetKnown(p)' /\ Restored(p)'
  <2>1. \A n \in Names : /\ ctr'[n].id = ctr[n].id
                         /\ ctr'[n].image = ctr[n].image
                         /\ Present(n)' <=> Present(n)
    BY <1>4 DEF HealthVerdict, ProcessExits, Running, Present, EngineTypeOK, Containers
  <2>2. images' = images
    BY <1>4 DEF HealthVerdict, ProcessExits
  <2>3. QED BY <1>2, <1>4, <2>1, <2>2 DEF StillThere, HasId
<1>5. CASE UNCHANGED <<passVars, notice, ctr, images>>
  BY <1>2, <1>5 DEF StillThere, HasId, Present
<1>6. QED
  BY <1>1, <1>3, <1>4, <1>5 DEF DaemonNext, EnvironmentNext, Shutdown, Exit, Crash, Restart,
     Publish, engineVars, vars

LEMMA OnePassStep ==
  TypeInv /\ ImagesInUseKept /\ OnePassInv /\ NoOverlap /\ NoOverlap' /\ [Next]_vars => OnePassInv'
<1>. SUFFICES ASSUME TypeInv, ImagesInUseKept, OnePassInv, NoOverlap, NoOverlap', [Next]_vars
              PROVE  OnePassInv'
  OBVIOUS
<1>1. ASSUME NEW p \in Passes, PassNext(p)
      PROVE  OnePassInv'
  <2>1. TodoTrue(p)' /\ TargetKnown(p)' /\ Restored(p)'
    BY <1>1, PassBoundsStep, BeforeStopStep, StopStep, AfterStopStep, DoneStep
       DEF PassNext, PassStep
  <2>2. ASSUME NEW q \in Passes \ {p}
        PROVE  TodoTrue(q)' /\ TargetKnown(q)' /\ Restored(q)'
    <3>1. pc[q] = "idle" /\ pc'[q] = "idle" /\ job'[q] = job[q]
      BY <1>1, Alone
    <3>2. job'[q].todo = {}
      BY <3>1 DEF OnePassInv, TodoTrue
    <3>3. QED BY <3>1, <3>2 DEF TodoTrue, TargetKnown, BeforeStop, AfterStop, Restored
  <2>3. QED BY <2>1, <2>2 DEF OnePassInv
<1>2. QED
  BY <1>1, OutsideStep DEF Next

LEMMA OnePassInvariant ==
  Spec /\ []NoOverlap => [](TypeInv /\ ImagesInUseKept /\ OnePassInv)
<1>1. Init => OnePassInv
  BY DEF Init, WatcherInit, NoJob, OnePassInv, TodoTrue, TargetKnown, BeforeStop, AfterStop, Restored
<1>2. QED
  BY <1>1, OnePassStep, ImagesInUse, PTL DEF Spec

(***************************************************************************)
(* While passes do not overlap, the image captured before an update is in  *)
(* the store until the update is over (previousImageID): the container     *)
(* itself keeps it in use until the stop, and nothing is cleaned up after. *)
(***************************************************************************)
THEOREM RollbackTargetIsKept == Spec /\ []NoOverlap => []RollbackTargetKept
<1>1. TypeInv /\ ImagesInUseKept /\ OnePassInv => RollbackTargetKept
  BY DEF OnePassInv, TargetKnown, BeforeStop, AfterStop, StillThere, HasId, ImagesInUseKept,
         WorkWellFormed, TypeInv, RollbackTargetKept, UpdatePcs
<1>2. QED BY <1>1, OnePassInvariant, PTL

(***************************************************************************)
(* While passes do not overlap, ROLLBACK_SUCCESS is sent for the container *)
(* that the rollback created, from the image that ran before               *)
(* (performRollback).                                                      *)
(***************************************************************************)
THEOREM RollbackIsExact == Spec /\ []NoOverlap => RollbackRestores
<1>1. OnePassInv => [\A p \in Passes : LET n == work[p].name IN
          ReportRollback(p) /\ notice[n] # "operator" =>
            HasId(n, work[p].new) /\ ctr[n].image = work[p].image]_vars
  BY DEF OnePassInv, Restored, ReportRollback
<1>2. QED BY <1>1, OnePassInvariant, PTL DEF RollbackRestores

(***************************************************************************)
(* All three hold for ever with an interval schedule and no API.           *)
(***************************************************************************)
COROLLARY IntervalIsSafe ==
  ASSUME ~Cron, ~API
  PROVE  Spec => /\ []InFlightIsVisible
                 /\ []RollbackTargetKept
                 /\ RollbackRestores
BY IntervalIsSerial, InFlightVisible, RollbackTargetIsKept, RollbackIsExact, PTL
=============================================================================
