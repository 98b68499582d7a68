--------------------------- MODULE OpenWatchProofs ---------------------------
(***************************************************************************)
(* Proofs that the properties of OpenWatch hold for every set of           *)
(* containers, tags, images and passes, every policy and every bound, and  *)
(* that it implements ServiceSlot.                                         *)
(***************************************************************************)
EXTENDS OpenWatch, TLAPS

\* A container that exists has a reference and an image.
ContainersWellFormed ==
  \A n \in Names : Present(n) => ctr[n].ref \in Refs /\ ctr[n].image \in Images

\* So does the snapshot that a pass works on, and only a tag is pulled.
WorkWellFormed ==
  \A p \in Passes : pc[p] \in UpdatePcs \cup {"check", "cleanup"} =>
    /\ work[p].name \in Names
    /\ work[p].ref \in Refs
    /\ work[p].image \in Images
    /\ pc[p] = "pull" => work[p].ref \in Tags

TypeInv == TypeOK /\ ContainersWellFormed /\ WorkWellFormed

(***************************************************************************)
(* TypeOK is not inductive: that a create gives a container an image, and  *)
(* that a pull has a reference to pull, rests on what the containers and   *)
(* the passes' locals hold while they are in use.  TypeInv adds that; it   *)
(* holds initially.                                                        *)
(***************************************************************************)
LEMMA TypeInit == Init => TypeInv
BY EngineAssumption, WatcherAssumption
DEF Init, EngineInit, WatcherInit, TypeInv, TypeOK, EngineTypeOK, WatcherTypeOK,
    Containers, States, HealthStates, Refs, Stores, Statuses, EmptyStore, NoEntry,
    Pcs, UpdatePcs, Jobs, NoJob, Kinds, Works, NoWork, NoticeKinds,
    ContainersWellFormed, WorkWellFormed, Present

\* Steps that leave the engine and the registry alone.
LEMMA EngineUntouched ==
  ASSUME TypeInv, UNCHANGED <<engineVars, registryVars>>
  PROVE  EngineTypeOK' /\ ContainersWellFormed'
BY DEF TypeInv, TypeOK, EngineTypeOK, ContainersWellFormed, Present, engineVars, registryVars

\* The effects of the calls on a container keep it well-formed.
LEMMA StopOrRemove ==
  ASSUME TypeInv, NEW n \in Names, ctr' \in {ctr, Stop(n), Remove(n)}
  PROVE  ctr' \in [Names -> Containers] /\ ContainersWellFormed'
<1>. USE DEF TypeInv, TypeOK, EngineTypeOK, Present
<1>1. CASE ctr' = ctr
  BY <1>1 DEF ContainersWellFormed
<1>2. CASE ctr' = Stop(n)
  BY <1>2 DEF Stop, Running, ContainersWellFormed, Containers, States, HealthStates
<1>3. CASE ctr' = Remove(n)
  BY <1>3 DEF Remove, Absent, ContainersWellFormed, Containers, States, HealthStates
<1>4. QED BY <1>1, <1>2, <1>3

\* A start of a container that exists keeps all containers well-formed.
LEMMA StartPresent ==
  ASSUME TypeInv, NEW n \in Names, Present(n), ctr' = Start(n)
  PROVE  ctr' \in [Names -> Containers] /\ ContainersWellFormed'
<1>. USE DEF TypeInv, TypeOK, EngineTypeOK, Present
<1>1. ctr[n].ref \in Refs /\ ctr[n].image \in Images
  BY DEF ContainersWellFormed
<1>. DEFINE health == IF n \in Checked THEN "starting" ELSE "none"
            started == [ctr[n] EXCEPT !.st = "running", !.health = health]
<1>2. ctr' = [ctr EXCEPT ![n] = started]
  BY DEF Start
<1>3. started \in Containers /\ started.ref = ctr[n].ref /\ started.image = ctr[n].image
  <2>1. health \in HealthStates
    BY DEF HealthStates
  <2>. HIDE DEF health
  <2>2. QED BY <2>1 DEF Containers, States
<1>. HIDE DEF started
<1>4. QED BY <1>1, <1>2, <1>3 DEF ContainersWellFormed

\* A pass that moves on with what it holds.
LEMMA GotoType ==
  ASSUME TypeInv, NEW p \in Passes, NEW l \in Pcs \ {"pull"}, Goto(p, l), UNCHANGED work,
         pc[p] \in UpdatePcs \cup {"check", "cleanup"}
  PROVE  pc' \in [Passes -> Pcs] /\ work' \in [Passes -> Works] /\ WorkWellFormed'
BY DEF TypeInv, TypeOK, WatcherTypeOK, WorkWellFormed, Goto

\* A pass that is done with a container.
LEMMA DoneType ==
  ASSUME TypeInv, NEW p \in Passes, Done(p)
  PROVE  pc' \in [Passes -> Pcs] /\ work' \in [Passes -> Works] /\ WorkWellFormed'
BY DEF TypeInv, TypeOK, WatcherTypeOK, WorkWellFormed, Done, Goto, Pcs, UpdatePcs, Works, NoWork

\* The store's methods keep it a store.
LEMMA StoreType ==
  ASSUME store \in Stores, NEW n \in Names
  PROVE  /\ \A s \in Statuses : MarkChecked(store, n, s) \in Stores
         /\ MarkUpdating(store, n) \in Stores
         /\ MarkUpdated(store, n) \in Stores
         /\ \A keep : Prune(store, keep) \in Stores
BY DEF Stores, Statuses, MarkChecked, MarkUpdating, MarkUpdated, Prune, NoEntry

\* The outcomes of a call.
LEMMA FaultType ==
  ASSUME TypeInv, NEW p \in Passes, CallOk(p) \/ CallFails(p) \/ Fault \/ UNCHANGED faults
  PROVE  faults' \in 0 .. MaxFaults
BY WatcherAssumption DEF TypeInv, TypeOK, WatcherTypeOK, CallOk, CallFails, Fault

\* A pull, lost answers included, keeps the image store and the tags typed.
LEMMA PullType ==
  ASSUME TypeInv, NEW p \in Passes, PullImage(p) PROVE TypeInv'
<1>. USE DEF PullImage, PullErrorUnread, TypeInv, TypeOK
<1>1. EngineTypeOK'
  BY DEF EngineTypeOK, Pull, WorkWellFormed, UpdatePcs, registryVars
<1>2. ContainersWellFormed'
  BY DEF ContainersWellFormed, Present
<1>3. WatcherTypeOK'
  BY WatcherAssumption DEF WatcherTypeOK, Goto, Pcs, UpdatePcs, CallOk, CallFails, Fault
<1>4. WorkWellFormed'
  BY DEF WatcherTypeOK, WorkWellFormed, Goto, UpdatePcs
<1>5. QED BY <1>1, <1>2, <1>3, <1>4

\* A container is created from an image that the reference resolves to.
LEMMA CreateType ==
  ASSUME TypeInv, NEW p \in Passes, CreateContainer(p) PROVE TypeInv'
<1>. USE DEF CreateContainer, TypeInv, TypeOK
<1>1. EngineTypeOK'
  BY EngineAssumption DEF EngineTypeOK, Create, WorkWellFormed, registryVars, Containers, States, HealthStates, Refs, UpdatePcs, NewRef, Resolve
<1>2. ContainersWellFormed'
  BY EngineAssumption DEF EngineTypeOK, ContainersWellFormed, Present, Create, WorkWellFormed, Refs, UpdatePcs, NewRef, Resolve
<1>3. WatcherTypeOK'
  BY WatcherAssumption DEF EngineTypeOK, WatcherTypeOK, Goto, Pcs, UpdatePcs, CallOk, CallFails, Fault, Works, Failed, WorkWellFormed
<1>4. WorkWellFormed'
  BY DEF WatcherTypeOK, WorkWellFormed, Goto, UpdatePcs, Failed, Works
<1>5. QED BY <1>1, <1>2, <1>3, <1>4

\* What a listing takes down of each container is a snapshot.
LEMMA ListType ==
  ASSUME TypeInv, NEW p \in Passes, List(p) PROVE TypeInv'
<1>. USE DEF List, TypeInv, TypeOK
<1>1. EngineTypeOK'
  BY DEF EngineTypeOK, engineVars, registryVars
<1>2. ContainersWellFormed'
  BY DEF ContainersWellFormed, Present, engineVars
<1>3. WatcherTypeOK'
  <2>1. \A n \in Names : Listable(n) => Snapshot(n) \in Snapshots
    BY DEF Snapshots, Snapshot, Listable, ContainersWellFormed, Present, Running, EngineTypeOK, Containers
  <2>2. job' \in [Passes -> Jobs]
    <3>1. CASE EndPass(p)
      BY <3>1 DEF WatcherTypeOK, Jobs, NoJob, EndPass, Kinds
    <3>2. CASE ~EndPass(p)
      <4>. DEFINE listable == {n \in Names : Listable(n)}
      <4>1. PICK dropped \in SUBSET listable :
              job' = [job EXCEPT ![p].seen = listable \ dropped,
                        ![p].todo = {Snapshot(n) : n \in (listable \ dropped) \cap job[p].want}]
        BY <3>2
      <4>. DEFINE seen == listable \ dropped
                  todo == {Snapshot(n) : n \in seen \cap job[p].want}
      <4>2. job[p] \in Jobs /\ job \in [Passes -> Jobs]
        BY DEF WatcherTypeOK
      <4>3. seen \in SUBSET Names
        OBVIOUS
      <4>4. todo \in SUBSET Snapshots
        BY <2>1
      <4>5. [job[p] EXCEPT !.seen = seen, !.todo = todo] \in Jobs
        <5>. HIDE DEF seen, todo
        <5>. QED BY <4>2, <4>3, <4>4 DEF Jobs
      <4>6. job' = [job EXCEPT ![p] = [job[p] EXCEPT !.seen = seen, !.todo = todo]]
        BY <4>1, <4>2
      <4>. HIDE DEF seen, todo
      <4>7. QED BY <4>2, <4>5, <4>6
    <3>3. QED BY <3>1, <3>2
  <2>3. QED BY <2>2, WatcherAssumption DEF WatcherTypeOK, Goto, Pcs, UpdatePcs, CallOk, CallFails, Fault, EndPass
<1>4. WorkWellFormed'
  BY DEF WatcherTypeOK, WorkWellFormed, Goto, UpdatePcs, EndPass
<1>5. QED BY <1>1, <1>2, <1>3, <1>4

\* The loop hands a snapshot to processContainer and ends with NoJob.
LEMMA LoopType ==
  ASSUME TypeInv, NEW p \in Passes, TakeNext(p) \/ FinishPass(p) PROVE TypeInv'
<1>1. EngineTypeOK' /\ ContainersWellFormed'
  BY EngineUntouched DEF TakeNext, FinishPass
<1>2. CASE TakeNext(p)
  <2>. USE <1>2 DEF TakeNext, TypeInv, TypeOK, WatcherTypeOK
  <2>1. PICK s \in job[p].todo :
          /\ job' = [job EXCEPT ![p].todo = @ \ {s}]
          /\ work' = [work EXCEPT ![p] = [name |-> s.name, id |-> s.id, ref |-> s.ref,
                                         image |-> s.image, new |-> 0, rollback |-> FALSE]]
    OBVIOUS
  <2>2. s \in Snapshots
    BY <2>1 DEF Jobs
  <2>3. job' \in [Passes -> Jobs]
    BY <2>1 DEF Jobs
  <2>4. pc' \in [Passes -> Pcs] /\ work' \in [Passes -> Works]
    BY <2>1, <2>2 DEF Goto, Pcs, Snapshots, Works
  <2>5. WorkWellFormed'
    BY <2>1, <2>2 DEF WorkWellFormed, Goto, Snapshots, UpdatePcs
  <2>6. QED BY <1>1, <2>3, <2>4, <2>5
<1>3. CASE FinishPass(p)
  <2>1. store' \in Stores
    BY <1>3, StoreType DEF FinishPass, TypeInv, TypeOK, WatcherTypeOK, Stores, Prune, Statuses, NoEntry
  <2>2. WatcherTypeOK' /\ WorkWellFormed'
    BY <1>3, <2>1 DEF FinishPass, EndPass, TypeInv, TypeOK, WatcherTypeOK, WorkWellFormed,
                      Goto, Jobs, NoJob, Kinds, Pcs, UpdatePcs
  <2>3. QED BY <1>1, <2>2 DEF TypeInv, TypeOK
<1>4. QED BY <1>2, <1>3

\* An update starts only with a reference that is a tag, so it can be pulled.
LEMMA CheckType ==
  ASSUME TypeInv, NEW p \in Passes, SkipSelf(p) \/ Check(p) \/ StartUpdate(p)
  PROVE  TypeInv'
<1>. USE DEF SkipSelf, Check, StartUpdate
<1>1. EngineTypeOK' /\ ContainersWellFormed'
  BY EngineUntouched
<1>2. work[p].name \in Names
  BY DEF TypeInv, WorkWellFormed
<1>3. store' \in Stores
  BY <1>2, StoreType DEF TypeInv, TypeOK, WatcherTypeOK
<1>4. faults' \in 0 .. MaxFaults
  BY FaultType DEF CheckEnds
<1>5. pc' \in [Passes -> Pcs] /\ work' \in [Passes -> Works] /\ WorkWellFormed'
  BY DoneType DEF TypeInv, TypeOK, WatcherTypeOK, WorkWellFormed, Outdated, Goto, Pcs, UpdatePcs
<1>6. QED BY <1>1, <1>3, <1>4, <1>5 DEF TypeInv, TypeOK, WatcherTypeOK

\* The stop, the kill, the removal and the start keep the types.
LEMMA ReplaceType ==
  ASSUME TypeInv, NEW p \in Passes,
         \/ StopContainer(p) \/ KillContainer(p) \/ RemoveContainer(p) \/ StartContainer(p)
  PROVE  TypeInv'
<1>. USE DEF StopContainer, KillContainer, RemoveContainer, StartContainer
<1>1. pc[p] \in UpdatePcs /\ work[p].name \in Names
  BY DEF TypeInv, WorkWellFormed, UpdatePcs
<1>2. EngineTypeOK' /\ ContainersWellFormed'
  <2>. DEFINE n == work[p].name
  <2>1. \/ ctr' \in {ctr, Stop(n), Remove(n)}
        \/ Present(n) /\ ctr' = Start(n)
    BY DEF HasId
  <2>2. n \in Names
    BY <1>1
  <2>. HIDE DEF n
  <2>3. ctr' \in [Names -> Containers] /\ ContainersWellFormed'
    BY <2>1, <2>2, StopOrRemove, StartPresent
  <2>4. QED BY <2>3 DEF TypeInv, TypeOK, EngineTypeOK, registryVars
<1>3. faults' \in 0 .. MaxFaults
  BY FaultType
<1>4. \E l \in Pcs \ {"pull"} : Goto(p, l)
  BY DEF Pcs, UpdatePcs, Failed, Refused
<1>5. pc' \in [Passes -> Pcs] /\ work' \in [Passes -> Works] /\ WorkWellFormed'
  BY <1>1, <1>4, GotoType
<1>6. notice' \in [Names -> NoticeKinds]
  BY DEF OutageBegins, TypeInv, TypeOK, WatcherTypeOK, NoticeKinds
<1>7. QED BY <1>2, <1>3, <1>5, <1>6 DEF TypeInv, TypeOK, WatcherTypeOK

\* The health wait and its handling keep the types.
LEMMA HealthType ==
  ASSUME TypeInv, NEW p \in Passes,
         HealthPasses(p) \/ HealthFails(p) \/ HandleHealthFailure(p)
  PROVE  TypeInv'
<1>. USE DEF HealthPasses, HealthFails, HandleHealthFailure
<1>1. EngineTypeOK' /\ ContainersWellFormed'
  BY EngineUntouched
<1>2. pc[p] \in UpdatePcs /\ work[p].name \in Names
  BY DEF TypeInv, WorkWellFormed, UpdatePcs
<1>3. faults' \in 0 .. MaxFaults
  BY FaultType
<1>4. store' \in Stores
  BY <1>2, StoreType DEF TypeInv, TypeOK, WatcherTypeOK, Statuses
<1>5. pc' \in [Passes -> Pcs] /\ work' \in [Passes -> Works] /\ WorkWellFormed'
  <2>1. CASE Done(p)
    BY <2>1, DoneType
  <2>2. CASE UNCHANGED work /\ ~Done(p)
    BY <1>2, <2>2, GotoType DEF Pcs, UpdatePcs
  <2>3. CASE work' = [work EXCEPT ![p].rollback = TRUE] /\ Goto(p, "stop")
    BY <1>2, <2>3 DEF TypeInv, TypeOK, WatcherTypeOK, WorkWellFormed, Works, Goto, Pcs, UpdatePcs
  <2>4. QED BY <2>1, <2>2, <2>3
<1>6. QED BY <1>1, <1>3, <1>4, <1>5 DEF TypeInv, TypeOK, WatcherTypeOK

\* The reports that end an update keep the types.
LEMMA ReportType ==
  ASSUME TypeInv, NEW p \in Passes,
         ReportFailure(p) \/ ReportRollback(p) \/ ReportSuccess(p)
  PROVE  TypeInv'
<1>. USE DEF ReportFailure, ReportRollback, ReportSuccess
<1>1. EngineTypeOK' /\ ContainersWellFormed'
  BY EngineUntouched
<1>2. pc[p] \in UpdatePcs /\ work[p].name \in Names
  BY DEF TypeInv, WorkWellFormed, UpdatePcs
<1>3. store' \in Stores
  BY <1>2, StoreType DEF TypeInv, TypeOK, WatcherTypeOK, Statuses
<1>4. pc' \in [Passes -> Pcs] /\ work' \in [Passes -> Works] /\ WorkWellFormed'
  BY <1>2, DoneType, GotoType DEF Pcs
<1>5. notice' \in [Names -> NoticeKinds]
  BY DEF TypeInv, TypeOK, WatcherTypeOK, NoticeKinds
<1>6. QED BY <1>1, <1>3, <1>4, <1>5 DEF TypeInv, TypeOK, WatcherTypeOK

\* The removal of the previous image keeps the types.
LEMMA CleanupType ==
  ASSUME TypeInv, NEW p \in Passes, Cleanup(p) PROVE TypeInv'
<1>. USE DEF Cleanup
<1>1. EngineTypeOK' /\ ContainersWellFormed'
  BY DEF TypeInv, TypeOK, EngineTypeOK, ContainersWellFormed, Present, RemoveImage, registryVars
<1>2. faults' \in 0 .. MaxFaults
  BY FaultType
<1>3. pc' \in [Passes -> Pcs] /\ work' \in [Passes -> Works] /\ WorkWellFormed'
  BY DoneType
<1>4. QED BY <1>1, <1>2, <1>3 DEF TypeInv, TypeOK, WatcherTypeOK

\* Signals, the end of the process and its restart keep the types.
LEMMA DaemonType ==
  ASSUME TypeInv, DaemonNext PROVE TypeInv'
<1>1. EngineTypeOK' /\ ContainersWellFormed'
  BY EngineUntouched DEF DaemonNext, Shutdown, Exit, Crash, Restart, ProcessEnds
<1>2. WatcherTypeOK' /\ WorkWellFormed'
  <2>1. CASE Shutdown \/ Restart
    BY <2>1 DEF Shutdown, Restart, passVars, TypeInv, TypeOK, WatcherTypeOK, WorkWellFormed
  <2>2. CASE Exit \/ Crash
    <3>1. faults' \in 0 .. MaxFaults
      BY <2>2, WatcherAssumption DEF Exit, Crash, Fault, TypeInv, TypeOK, WatcherTypeOK
    <3>2. ProcessEnds
      BY <2>2 DEF Exit, Crash
    <3>3. QED BY <3>1, <3>2 DEF ProcessEnds, TypeInv, TypeOK, WatcherTypeOK, WorkWellFormed,
            Stores, EmptyStore, NoEntry, Statuses, Pcs, UpdatePcs, Jobs, NoJob, Kinds,
            Works, NoWork, NoticeKinds
  <2>3. QED BY <2>1, <2>2 DEF DaemonNext
<1>3. QED BY <1>1, <1>2 DEF TypeInv, TypeOK

\* Probes, exits, publishers and operators keep the types.
LEMMA EnvironmentType ==
  ASSUME TypeInv, EnvironmentNext PROVE TypeInv'
<1>. USE DEF TypeInv, TypeOK
<1>1. CASE \E n \in Names : OperatorRemoves(n)
  <2>1. PICK n \in Names : OperatorRemoves(n)
    BY <1>1
  <2>2. EngineTypeOK' /\ ContainersWellFormed'
    BY <2>1, StopOrRemove DEF OperatorRemoves, EngineTypeOK, registryVars
  <2>3. WatcherTypeOK' /\ WorkWellFormed'
    BY <2>1, WatcherAssumption DEF OperatorRemoves, WatcherTypeOK, WorkWellFormed, passVars, Fault, NoticeKinds
  <2>4. QED BY <2>2, <2>3
<1>2. CASE UNCHANGED <<daemon, store, passVars, notice, faults>>
  <2>1. WatcherTypeOK' /\ WorkWellFormed'
    BY <1>2 DEF WatcherTypeOK, WorkWellFormed, passVars
  <2>2. EngineTypeOK' /\ ContainersWellFormed'
    <3>1. CASE \E n \in Names : HealthVerdict(n) \/ ProcessExits(n)
      BY <3>1 DEF HealthVerdict, ProcessExits, EngineTypeOK, ContainersWellFormed, Present,
                  Containers, States, HealthStates, registryVars, Running
    <3>2. CASE \E t \in Tags, i \in Images : Publish(t, i)
      BY <3>2, EngineAssumption DEF Publish, EngineTypeOK, ContainersWellFormed, Present, engineVars
    <3>3. CASE \E n \in Names : OperatorRemoves(n)
      BY <3>3, <1>2 DEF OperatorRemoves, Fault, WatcherTypeOK
    <3>4. QED BY <3>1, <3>2, <3>3 DEF EnvironmentNext
  <2>3. QED BY <2>1, <2>2
<1>3. QED BY <1>1, <1>2 DEF EnvironmentNext

\* A pass begins with a typed job.
LEMMA BeginType ==
  ASSUME TypeInv, NEW p \in Passes,
         \/ StartTick(p) \/ HandleUpdateAll(p) \/ \E n \in Names : HandleUpdateByName(p, n)
  PROVE  TypeInv'
<1>1. EngineTypeOK' /\ ContainersWellFormed'
  BY EngineUntouched DEF StartTick, HandleUpdateAll, HandleUpdateByName
<1>2. PICK kind \in Kinds, want \in SUBSET Names :
        Begin(p, kind, want) /\ UNCHANGED <<daemon, store, work, notice, faults>>
  BY DEF StartTick, HandleUpdateAll, HandleUpdateByName, Kinds
<1>3. WatcherTypeOK' /\ WorkWellFormed'
  BY <1>2 DEF Begin, Goto, TypeInv, TypeOK, WatcherTypeOK, WorkWellFormed, Jobs, NoJob, Pcs, UpdatePcs
<1>4. QED BY <1>1, <1>3 DEF TypeInv, TypeOK

\* TypeInv is preserved by every step.
THEOREM TypeStep == TypeInv /\ [Next]_vars => TypeInv'
<1>. SUFFICES ASSUME TypeInv, [Next]_vars PROVE TypeInv'
  OBVIOUS
<1>1. CASE UNCHANGED vars
  BY <1>1, EngineUntouched DEF vars, passVars, TypeInv, TypeOK, WatcherTypeOK, WorkWellFormed
<1>2. CASE \E p \in Passes : PassNext(p)
  BY <1>2, BeginType, ListType, LoopType, CheckType, PullType, ReplaceType, CreateType,
     HealthType, ReportType, CleanupType DEF PassNext, PassStep
<1>3. CASE DaemonNext
  BY <1>3, DaemonType
<1>4. CASE EnvironmentNext
  BY <1>4, EnvironmentType
<1>5. QED BY <1>1, <1>2, <1>3, <1>4 DEF Next

\* The engine, the store and the passes always hold values of their types.
THEOREM TypeCorrect == Spec => []TypeOK
<1>1. TypeInv => TypeOK
  BY DEF TypeInv
<1>2. QED BY <1>1, TypeInit, TypeStep, PTL DEF Spec

-----------------------------------------------------------------------------
\* A step of one pass leaves the locals of the others alone.
LEMMA OtherPasses ==
  ASSUME TypeInv, NEW p \in Passes, PassNext(p)
  PROVE  \A q \in Passes \ {p} : pc'[q] = pc[q] /\ job'[q] = job[q] /\ work'[q] = work[q]
<1>. USE DEF TypeInv, TypeOK, WatcherTypeOK, Goto, Done, EndPass, Begin
<1>1. CASE \/ StartTick(p) \/ HandleUpdateAll(p) \/ \E n \in Names : HandleUpdateByName(p, n)
           \/ List(p) \/ TakeNext(p) \/ FinishPass(p)
           \/ SkipSelf(p) \/ Check(p) \/ StartUpdate(p)
  BY <1>1 DEF StartTick, HandleUpdateAll, HandleUpdateByName, List, TakeNext, FinishPass,
              SkipSelf, Check, StartUpdate
<1>2. CASE \/ PullImage(p) \/ StopContainer(p) \/ KillContainer(p) \/ RemoveContainer(p)
           \/ CreateContainer(p) \/ StartContainer(p)
  BY <1>2 DEF PullImage, StopContainer, KillContainer, RemoveContainer, CreateContainer,
              StartContainer
<1>3. CASE \/ HealthPasses(p) \/ HealthFails(p) \/ HandleHealthFailure(p)
           \/ ReportFailure(p) \/ ReportRollback(p) \/ ReportSuccess(p) \/ Cleanup(p)
  BY <1>3 DEF HealthPasses, HealthFails, HandleHealthFailure, ReportFailure, ReportRollback,
              ReportSuccess, Cleanup
<1>4. QED BY <1>1, <1>2, <1>3 DEF PassNext, PassStep

\* An entry becomes "updating" only in the hands of the pass that does it.
LEMMA UpdatingByHolder ==
  ASSUME TypeInv, NEW p \in Passes, PassNext(p), NEW n \in Names,
         store'[n].status = "updating"
  PROVE  store[n].status = "updating" \/ Held(p, n)'
<1>. USE DEF TypeInv, TypeOK, WatcherTypeOK, Stores
<1>1. CASE UNCHANGED store
  BY <1>1
<1>2. CASE StartUpdate(p)
  BY <1>2 DEF StartUpdate, MarkUpdating, Held, Goto, UpdatePcs
<1>3. CASE FinishPass(p)
  BY <1>3 DEF FinishPass, Prune, NoEntry
<1>4. CASE Check(p)
  BY <1>4 DEF Check, CheckEnds, MarkChecked
<1>5. CASE ReportFailure(p) \/ ReportRollback(p) \/ ReportSuccess(p) \/ HandleHealthFailure(p)
  BY <1>5 DEF ReportFailure, ReportRollback, ReportSuccess, HandleHealthFailure,
              MarkChecked, MarkUpdated
<1>6. QED
  BY <1>1, <1>2, <1>3, <1>4, <1>5 DEF PassNext, PassStep, StartTick, HandleUpdateAll,
     HandleUpdateByName, List, TakeNext, SkipSelf, PullImage, StopContainer, KillContainer,
     RemoveContainer, CreateContainer, StartContainer, HealthPasses, HealthFails, Cleanup

\* A pass lets go of a container only with a report, which ends "updating".
LEMMA HolderReports ==
  ASSUME TypeInv, NEW p \in Passes, PassNext(p), NEW n \in Names, Held(p, n)
  PROVE  Held(p, n)' \/ store'[n].status # "updating"
<1>. USE DEF TypeInv, TypeOK, WatcherTypeOK, Held, UpdatePcs
<1>1. CASE \/ PullImage(p) \/ StopContainer(p) \/ KillContainer(p) \/ RemoveContainer(p)
           \/ CreateContainer(p) \/ StartContainer(p) \/ HealthPasses(p) \/ HealthFails(p)
  BY <1>1 DEF PullImage, StopContainer, KillContainer, RemoveContainer, CreateContainer,
              StartContainer, HealthPasses, HealthFails, Goto, Failed, Refused, Works
<1>2. CASE HandleHealthFailure(p)
  BY <1>2 DEF HandleHealthFailure, MarkChecked, Stores, Goto, Works
<1>3. CASE ReportFailure(p) \/ ReportRollback(p) \/ ReportSuccess(p)
  BY <1>3 DEF ReportFailure, ReportRollback, ReportSuccess, MarkChecked, MarkUpdated, Stores
<1>4. QED
  BY <1>1, <1>2, <1>3 DEF PassNext, PassStep, StartTick, HandleUpdateAll, HandleUpdateByName,
     Begin, List, TakeNext, FinishPass, SkipSelf, Check, StartUpdate, Cleanup

\* The holder of an entry that says "updating" still holds it after a step of
\* any pass, or the entry has a new holder, or it says "updating" no more.
LEMMA UpdatingStep ==
  ASSUME TypeInv, UpdatingMeansInFlight, [Next]_vars PROVE UpdatingMeansInFlight'
<1>1. CASE UNCHANGED vars
  BY <1>1 DEF vars, passVars, UpdatingMeansInFlight, Held
<1>2. CASE \E p \in Passes : PassNext(p)
  <2>1. PICK p \in Passes : PassNext(p)
    BY <1>2
  <2>2. SUFFICES ASSUME NEW n \in Names, store'[n].status = "updating"
                 PROVE  \E q \in Passes : Held(q, n)'
    BY DEF UpdatingMeansInFlight
  <2>3. CASE Held(p, n)'
    BY <2>3
  <2>4. CASE store[n].status = "updating" /\ ~Held(p, n)'
    <3>1. PICK q \in Passes : Held(q, n)
      BY <2>4 DEF UpdatingMeansInFlight
    <3>2. q # p
      BY <2>1, <2>2, <2>4, <3>1, HolderReports
    <3>3. QED BY <2>1, <3>1, <3>2, OtherPasses DEF Held
  <2>5. QED BY <2>1, <2>2, <2>3, <2>4, UpdatingByHolder
<1>3. CASE DaemonNext
  BY <1>3 DEF DaemonNext, Shutdown, Exit, Crash, Restart, ProcessEnds, passVars,
              UpdatingMeansInFlight, Held, EmptyStore, NoEntry
<1>4. CASE EnvironmentNext
  BY <1>4 DEF EnvironmentNext, OperatorRemoves, passVars, UpdatingMeansInFlight, Held
<1>5. QED BY <1>1, <1>2, <1>3, <1>4 DEF Next

\* An entry says "updating" only while a pass holds the container, however
\* many passes work on it and whatever fails.
THEOREM UpdatingIsHeld == Spec => []UpdatingMeansInFlight
<1>1. Init => UpdatingMeansInFlight
  BY DEF Init, WatcherInit, EmptyStore, NoEntry, UpdatingMeansInFlight
<1>2. QED BY <1>1, TypeInit, TypeStep, UpdatingStep, PTL DEF Spec

-----------------------------------------------------------------------------
\* Which steps of a pass touch the containers.
LEMMA GapStepOfPass ==
  ASSUME TypeInv, GapIsExclusive, NEW p \in Passes, PassNext(p) PROVE GapIsExclusive'
<1>1. SUFFICES ASSUME NEW q \in Passes, pc'[q] = "create"
               PROVE  /\ ~Present(work[q].name)'
                      /\ \A r \in Passes \ {q} : pc'[r] = "create" => work'[r].name # work'[q].name
  BY DEF GapIsExclusive
<1>. USE DEF TypeInv, TypeOK, WatcherTypeOK, EngineTypeOK, WorkWellFormed, UpdatePcs, Present, GapIsExclusive
<1>2. CASE RemoveContainer(p)
  <2>. DEFINE n == work[p].name
  <2>1. UNCHANGED work /\ n \in Names
    BY <1>2 DEF RemoveContainer
  <2>2. CASE pc'[p] = "create"
    <3>1. HasId(n, Target(p)) /\ ctr' = Remove(n)
      BY <1>2, <2>2 DEF RemoveContainer, Goto, Failed, Refused
    <3>2. ~Present(n)' /\ \A m \in Names \ {n} : ctr'[m] = ctr[m]
      BY <2>1, <3>1 DEF Remove, Absent
    <3>3. \A r \in Passes \ {p} : pc'[r] = "create" => work[r].name # n
      BY <1>2, <3>1, OtherPasses DEF HasId
    <3>4. QED BY <1>1, <1>2, <2>1, <3>2, <3>3, OtherPasses
  <2>3. CASE pc'[p] # "create"
    <3>1. \A m \in Names : ctr'[m] = ctr[m] \/ ctr'[m] = Absent
      BY <1>2 DEF RemoveContainer, Remove
    <3>2. QED BY <1>1, <2>1, <2>3, <3>1, OtherPasses DEF Absent
  <2>4. QED BY <2>2, <2>3
<1>3. CASE CreateContainer(p)
  <2>. DEFINE n == work[p].name
  <2>1. pc[p] = "create" /\ pc'[p] # "create" /\ n \in Names
    BY <1>3 DEF CreateContainer, Goto, Failed
  <2>2. \A m \in Names \ {n} : ctr'[m] = ctr[m]
    BY <1>3 DEF CreateContainer, Create
  <2>3. \A r \in Passes \ {p} : pc[r] = "create" => work[r].name # n
    BY <2>1
  <2>4. QED BY <1>1, <2>1, <2>2, <2>3, OtherPasses
<1>4. CASE StopContainer(p) \/ KillContainer(p) \/ StartContainer(p)
  <2>1. pc'[p] # "create" /\ UNCHANGED work
    BY <1>4 DEF StopContainer, KillContainer, StartContainer, Goto, Failed, Refused
  <2>2. \A m \in Names : ctr'[m].st = "absent" <=> ctr[m].st = "absent"
    <3>. DEFINE n == work[p].name
    <3>1. ctr' \in {ctr, Stop(n)} \/ (Present(n) /\ ctr' = Start(n))
      BY <1>4 DEF StopContainer, KillContainer, StartContainer, HasId
    <3>2. QED BY <3>1 DEF Stop, Start, Running, Containers
  <2>3. QED BY <1>1, <2>1, <2>2, OtherPasses
<1>5. CASE UNCHANGED ctr
  <2>1. CASE pc'[p] # "create"
    BY <1>1, <1>5, <2>1, OtherPasses
  <2>2. CASE RemoveContainer(p) \/ CreateContainer(p)
    BY <1>2, <1>3, <2>2
  <2>3. CASE pc'[p] = "create" /\ ~RemoveContainer(p) /\ ~CreateContainer(p)
    BY <2>3 DEF PassNext, PassStep, StartTick, HandleUpdateAll, HandleUpdateByName, Begin, List,
       TakeNext, FinishPass, EndPass, SkipSelf, Check, StartUpdate, Done, PullImage, StopContainer,
       KillContainer, StartContainer, HealthPasses, HealthFails, HandleHealthFailure,
       ReportFailure, ReportRollback, ReportSuccess, Cleanup, Goto, Failed, Refused
  <2>4. QED BY <2>1, <2>2, <2>3
<1>6. QED
  BY <1>2, <1>3, <1>4, <1>5 DEF PassNext, PassStep, StartTick, HandleUpdateAll,
     HandleUpdateByName, List, TakeNext, FinishPass, SkipSelf, Check, StartUpdate, PullImage,
     HealthPasses, HealthFails, HandleHealthFailure, ReportFailure, ReportRollback,
     ReportSuccess, Cleanup, engineVars

\* Only a removal by the pass itself brings it into its gap, and no other step
\* makes a container appear under a name.
LEMMA GapStep ==
  ASSUME TypeInv, GapIsExclusive, [Next]_vars PROVE GapIsExclusive'
<1>. USE DEF GapIsExclusive, Present
<1>1. CASE UNCHANGED vars
  BY <1>1 DEF vars, passVars, engineVars
<1>2. CASE \E p \in Passes : PassNext(p)
  BY <1>2, GapStepOfPass
<1>3. CASE DaemonNext
  BY <1>3 DEF DaemonNext, Shutdown, Exit, Crash, Restart, ProcessEnds, passVars, engineVars
<1>4. CASE EnvironmentNext
  <2>1. UNCHANGED passVars
    BY <1>4 DEF EnvironmentNext, OperatorRemoves
  <2>2. \A n \in Names : ctr[n].st = "absent" => ctr'[n].st = "absent"
    BY <1>4 DEF EnvironmentNext, OperatorRemoves, HealthVerdict, ProcessExits, Publish, Running,
                Remove, Absent, engineVars, TypeInv, TypeOK, EngineTypeOK, Containers
  <2>3. \A p \in Passes : pc[p] = "create" => work[p].name \in Names
    BY DEF TypeInv, WorkWellFormed, UpdatePcs
  <2>4. QED BY <2>1, <2>2, <2>3 DEF passVars
<1>5. QED BY <1>1, <1>2, <1>3, <1>4 DEF Next

\* At most one pass is in the gap of a container, whose name is free then.
THEOREM GapExclusive == Spec => []GapIsExclusive
<1>1. Init => GapIsExclusive
  BY DEF Init, WatcherInit, GapIsExclusive
<1>2. QED BY <1>1, TypeInit, TypeStep, GapStep, PTL DEF Spec

-----------------------------------------------------------------------------
(***************************************************************************)
(* OutageIsReported is not inductive: a pass whose container has started   *)
(* still holds it, but will not report an outage that another pass begins. *)
(* What is preserved is that a container that is down and was not reported *)
(* belongs to a pass between the stop and the start, or to one that is     *)
(* about to report the failure.                                            *)
(***************************************************************************)
Replacing(p, n) ==
  /\ work[p].name = n
  /\ pc[p] \in {"kill", "remove", "create", "start", "failed", "rbFailed"}

OutageInv ==
  \A n \in Names : Down(n) => (\E p \in Passes : Replacing(p, n)) \/ notice[n] # "none"

\* What a step of pass p does to the outage of n.
LEMMA OutageOfPass ==
  ASSUME TypeInv, NEW p \in Passes, PassNext(p), NEW n \in Names
  PROVE  /\ Down(n)' => Down(n) \/ Replacing(p, n)'
         /\ notice[n] # "none" => notice'[n] # "none" \/ Replacing(p, n)'  \/ ~Down(n)'
         /\ Replacing(p, n) => Replacing(p, n)' \/ ~Down(n)' \/ notice'[n] # "none"
<1>. USE DEF TypeInv, TypeOK, WatcherTypeOK, EngineTypeOK, Down, Replacing
<1>1. CASE StopContainer(p)
  BY <1>1 DEF StopContainer, Goto, Failed, Refused, Stop, Running, OutageBegins, HasId, Present
<1>2. CASE KillContainer(p)
  BY <1>2 DEF KillContainer, Goto, Failed, Refused, Stop, Running, HasId, Present
<1>3. CASE RemoveContainer(p)
  BY <1>3 DEF RemoveContainer, Goto, Failed, Refused, Remove, Absent
<1>4. CASE CreateContainer(p)
  BY <1>4 DEF CreateContainer, Create, Goto, Failed, Present, Works
<1>5. CASE StartContainer(p)
  <2>. DEFINE m == work[p].name
  <2>1. /\ UNCHANGED <<work, notice>>
        /\ pc[p] = "start"
        /\ \/ pc'[p] \in {"failed", "rbFailed"}
           \/ pc'[p] \in {"rbDone", "health"} /\ HasId(m, work[p].new) /\ ctr' = Start(m)
        /\ ctr' = ctr \/ ctr' = Start(m)
    BY <1>5 DEF StartContainer, Goto, Failed
  <2>2. ctr' = Start(m) => /\ m = n => ctr'[n].st = "running"
                           /\ m # n => ctr'[n] = ctr[n]
    <3>. DEFINE health == IF m \in Checked THEN "starting" ELSE "none"
    <3>1. Start(m) = [ctr EXCEPT ![m].st = "running", ![m].health = health]
      BY DEF Start
    <3>. HIDE DEF health, m
    <3>2. QED BY <3>1 DEF Containers
  <2>3. QED BY <2>1, <2>2
<1>6. CASE ReportFailure(p)
  BY <1>6 DEF ReportFailure, engineVars
<1>7. CASE /\ UNCHANGED <<ctr, notice>>
           /\ pc[p] \notin {"kill", "remove", "create", "start", "failed", "rbFailed"}
  BY <1>7
<1>8. QED
  BY <1>1, <1>2, <1>3, <1>4, <1>5, <1>6, <1>7 DEF PassNext, PassStep, StartTick, HandleUpdateAll,
     HandleUpdateByName, Begin, List, TakeNext, FinishPass, SkipSelf, Check, StartUpdate,
     PullImage, HealthPasses, HealthFails, HandleHealthFailure, ReportRollback, ReportSuccess,
     Cleanup, engineVars

\* OutageInv is inductive.
LEMMA OutageStep ==
  ASSUME TypeInv, OutageInv, [Next]_vars PROVE OutageInv'
<1>1. SUFFICES ASSUME NEW n \in Names, Down(n)', notice'[n] = "none"
               PROVE  \E p \in Passes : Replacing(p, n)'
  BY DEF OutageInv
<1>. USE DEF TypeInv, TypeOK, WatcherTypeOK, EngineTypeOK
<1>2. CASE UNCHANGED vars
  BY <1>1, <1>2 DEF vars, passVars, engineVars, OutageInv, Down, Replacing
<1>3. CASE \E p \in Passes : PassNext(p)
  <2>1. PICK p \in Passes : PassNext(p)
    BY <1>3
  <2>2. CASE Replacing(p, n)'
    BY <2>2
  <2>3. CASE ~Replacing(p, n)'
    <3>1. Down(n) /\ notice[n] = "none"
      BY <1>1, <2>1, <2>3, OutageOfPass
    <3>2. PICK q \in Passes : Replacing(q, n)
      BY <3>1 DEF OutageInv
    <3>3. q # p
      BY <1>1, <2>1, <2>3, <3>2, OutageOfPass
    <3>4. QED BY <2>1, <3>2, <3>3, OtherPasses DEF Replacing
  <2>4. QED BY <2>2, <2>3
<1>4. CASE DaemonNext
  <2>1. CASE UNCHANGED <<passVars, notice>> /\ UNCHANGED ctr
    BY <1>1, <2>1 DEF passVars, OutageInv, Down, Replacing
  <2>2. CASE ProcessEnds
    <3>1. Down(n) /\ notice[n] = "none" /\ ~ \E p \in Passes : Held(p, n)
      BY <1>1, <2>2 DEF ProcessEnds, Down, engineVars
    <3>2. QED BY <3>1 DEF OutageInv, Replacing, Held, UpdatePcs
  <2>3. QED BY <1>4, <2>1, <2>2 DEF DaemonNext, Shutdown, Exit, Crash, Restart, engineVars
<1>5. CASE EnvironmentNext
  <2>1. UNCHANGED passVars
    BY <1>5 DEF EnvironmentNext, OperatorRemoves
  <2>2. Down(n) /\ notice[n] = "none"
    <3>1. CASE \E m \in Names : OperatorRemoves(m)
      BY <1>1, <3>1 DEF OperatorRemoves, Remove, Down
    <3>2. CASE UNCHANGED notice /\ \E m \in Names : HealthVerdict(m) \/ ProcessExits(m)
      BY <1>1, <3>2 DEF HealthVerdict, ProcessExits, Running, Down, Containers
    <3>3. CASE UNCHANGED notice /\ UNCHANGED ctr
      BY <1>1, <3>3 DEF Down
    <3>4. QED BY <1>5, <3>1, <3>2, <3>3 DEF EnvironmentNext, Publish, engineVars
  <2>3. QED BY <2>1, <2>2 DEF OutageInv, passVars, Replacing
<1>6. QED BY <1>2, <1>3, <1>4, <1>5 DEF Next

\* A container that OpenWatch took down is held by a pass, or was reported.
THEOREM OutageReported == Spec => []OutageIsReported
<1>1. Init => OutageInv
  BY DEF Init, EngineInit, OutageInv, Down
<1>2. OutageInv => OutageIsReported
  BY DEF OutageInv, OutageIsReported, Replacing, Held, UpdatePcs
<1>3. QED BY <1>1, <1>2, TypeInit, TypeStep, OutageStep, PTL DEF Spec

-----------------------------------------------------------------------------
\* last_updated survives every step that keeps the entry.
THEOREM LastUpdatedIsKept == Spec => LastUpdatedKept
<1>1. ASSUME TypeInv, [Next]_vars, NEW n \in Names, store[n].updated, Has(store, n)'
      PROVE  store'[n].updated
  <2>. USE <1>1 DEF TypeInv, TypeOK, WatcherTypeOK, Stores
  <2>1. CASE UNCHANGED store
    BY <2>1
  <2>2. CASE ProcessEnds
    BY <2>2 DEF ProcessEnds, EmptyStore, NoEntry, Has
  <2>3. ASSUME NEW p \in Passes, PassNext(p), store' # store PROVE store'[n].updated
    <3>1. CASE FinishPass(p)
      BY <3>1, <2>3 DEF FinishPass, Prune, NoEntry, Has
    <3>2. CASE ~FinishPass(p)
      <4>1. PICK m : \/ \E s : store' = MarkChecked(store, m, s)
                     \/ store' = MarkUpdating(store, m)
                     \/ store' = MarkUpdated(store, m)
        BY <2>3, <3>2 DEF PassNext, PassStep, StartTick, HandleUpdateAll, HandleUpdateByName,
           List, TakeNext, SkipSelf, Check, StartUpdate, PullImage, StopContainer, KillContainer,
           RemoveContainer, CreateContainer, StartContainer, HealthPasses, HealthFails,
           HandleHealthFailure, ReportFailure, ReportRollback, ReportSuccess, Cleanup
      <4>2. QED BY <4>1 DEF MarkChecked, MarkUpdating, MarkUpdated
    <3>3. QED BY <3>1, <3>2
  <2>4. QED
    BY <2>1, <2>2, <2>3 DEF Next, DaemonNext, Shutdown, Exit, Crash, Restart, EnvironmentNext,
       OperatorRemoves, vars
<1>2. TypeInv /\ [Next]_vars => \A n \in Names : store[n].updated /\ Has(store, n)' => store'[n].updated
  BY <1>1
<1>3. QED BY <1>2, TypeInit, TypeStep, PTL DEF Spec, LastUpdatedKept

-----------------------------------------------------------------------------
(***************************************************************************)
(* OpenWatch implements ServiceSlot, for every set of containers and       *)
(* passes: the initial states map to initial states, and every step to a   *)
(* step of one name, to the end of all updates, or to a stutter.           *)
(***************************************************************************)

\* ServiceSlot's variables, as OpenWatch implements them.
service == [n \in Names |-> Service(n)]
container == [n \in Names |-> <<ctr[n].id, ctr[n].image>>]

\* Outside an update a container is in service or its outage has a reason.
Accounted == \A n \in Names : Service(n) \in {"updating"} \cup Slot!Outcomes

LEMMA ServiceAccounted == TypeInv /\ OutageIsReported => Accounted
BY DEF Accounted, Service, InUpdate, OutageIsReported, Slot!Outcomes, Slot!LeftBehind,
       NoticeKinds, TypeInv, TypeOK, WatcherTypeOK

\* A step of pass p leaves the containers that p does not hold, before the
\* step or after it, as they are, and what is known of them.
LEMMA OthersKept ==
  ASSUME TypeInv, NEW p \in Passes, PassNext(p), NEW n \in Names, ~Held(p, n), ~Held(p, n)'
  PROVE  Service(n)' = Service(n) /\ ctr'[n] = ctr[n] /\ notice'[n] = notice[n]
<1>. USE DEF TypeInv, TypeOK, WatcherTypeOK, EngineTypeOK, WorkWellFormed
<1>1. ctr'[n] = ctr[n] /\ notice'[n] = notice[n]
  <2>1. CASE UNCHANGED <<ctr, notice>>
    BY <2>1
  <2>2. CASE \/ StopContainer(p) \/ KillContainer(p) \/ RemoveContainer(p)
             \/ CreateContainer(p) \/ StartContainer(p) \/ ReportFailure(p)
    <3>1. pc[p] \in UpdatePcs /\ work[p].name # n /\ work[p].name \in Names
      BY <2>2 DEF StopContainer, KillContainer, RemoveContainer, CreateContainer, StartContainer,
                  ReportFailure, UpdatePcs, Held
    <3>2. QED
      BY <2>2, <3>1 DEF StopContainer, KillContainer, RemoveContainer, CreateContainer,
         StartContainer, ReportFailure, engineVars, OutageBegins, Stop, Remove, Create, Start
  <2>3. QED
    BY <2>1, <2>2 DEF PassNext, PassStep, StartTick, HandleUpdateAll, HandleUpdateByName, List,
       TakeNext, FinishPass, SkipSelf, Check, StartUpdate, PullImage, HealthPasses, HealthFails,
       HandleHealthFailure, ReportRollback, ReportSuccess, Cleanup, engineVars
<1>2. InUpdate(n)' <=> InUpdate(n)
  BY OtherPasses DEF InUpdate, Held
<1>3. QED BY <1>1, <1>2 DEF Service, Down

\* What a step of pass p does to the container it holds before it or after it.
LEMMA HolderStep ==
  ASSUME TypeInv, NEW p \in Passes, PassNext(p), NEW m \in Names
  PROVE  /\ ~Held(p, m) /\ Held(p, m)' => m \in Updatable /\ UNCHANGED ctr
         /\ Held(p, m) /\ ~Held(p, m)' => UNCHANGED ctr
         /\ Held(p, m) => \A n \in Names : Held(p, n)' => n = m
<1>. USE DEF TypeInv, TypeOK, WatcherTypeOK, Held, UpdatePcs
<1>1. CASE \/ PullImage(p) \/ StopContainer(p) \/ KillContainer(p) \/ RemoveContainer(p)
           \/ CreateContainer(p) \/ StartContainer(p) \/ HealthPasses(p) \/ HealthFails(p)
  BY <1>1 DEF PullImage, StopContainer, KillContainer, RemoveContainer, CreateContainer,
              StartContainer, HealthPasses, HealthFails, Goto, Failed, Refused, Works
<1>2. CASE HandleHealthFailure(p) \/ ReportFailure(p) \/ ReportRollback(p) \/ ReportSuccess(p)
  BY <1>2 DEF HandleHealthFailure, ReportFailure, ReportRollback, ReportSuccess, Done, Goto,
              Works, NoWork, engineVars
<1>3. CASE StartUpdate(p)
  BY <1>3 DEF StartUpdate, Goto, engineVars, WorkWellFormed
<1>4. QED
  BY <1>1, <1>2, <1>3 DEF PassNext, PassStep, StartTick, HandleUpdateAll, HandleUpdateByName,
     Begin, List, TakeNext, FinishPass, EndPass, SkipSelf, Check, Cleanup, Done, Goto

\* The steps of a pass: an update begins, replaces the container or ends.
LEMMA PassRefines ==
  ASSUME TypeInv, TypeInv', Accounted', NEW p \in Passes, PassNext(p)
  PROVE  [Slot!Next]_(Slot!vars)
<1>. DEFINE Now(n) == Held(p, n)
            Then(n) == Held(p, n)'
<1>1. CASE \A n \in Names : ~Now(n) /\ ~Then(n)
  <2>1. service' = service /\ container' = container
    BY <1>1, OthersKept DEF service, container
  <2>2. QED BY <2>1 DEF Slot!vars, service, container
<1>2. ASSUME NEW m \in Names, Now(m) \/ Then(m)
      PROVE  [Slot!Next]_(Slot!vars)
  <2>1. \A n \in Names \ {m} : ~Now(n) /\ ~Then(n)
    BY <1>2, HolderStep DEF Held
  <2>2. \A n \in Names \ {m} : service'[n] = service[n] /\ container'[n] = container[n]
    BY <2>1, OthersKept DEF service, container
  <2>3. container' \in [Names -> Nat \X (Images \cup {NoImage})]
    BY DEF container, TypeInv, TypeOK, EngineTypeOK, Containers
  <2>4. CASE Now(m) /\ Then(m)
    <3>1. service' = service
      BY <2>2, <2>4 DEF service, Service, InUpdate
    <3>2. service[m] = "updating"
      BY <2>4 DEF service, Service, InUpdate
    <3>3. Slot!Replace(m)
      BY <2>2, <2>3, <3>1, <3>2 DEF Slot!Replace, Slot!OnlyAt, service, container
    <3>4. QED BY <3>3 DEF Slot!Next
  <2>5. CASE Now(m) /\ ~Then(m)
    <3>1. container' = container
      BY <2>5, HolderStep DEF container
    <3>2. service[m] = "updating"
      BY <2>5 DEF service, Service, InUpdate
    <3>3. service'[m] = "updating" \/ service'[m] \in Slot!Outcomes
      BY DEF service, Accounted
    <3>4. service' = service \/ Slot!Finish(m)
      BY <2>2, <3>1, <3>2, <3>3 DEF Slot!Finish, service, container
    <3>5. QED BY <3>1, <3>4 DEF Slot!Next, Slot!vars, service, container
  <2>6. CASE ~Now(m) /\ Then(m)
    <3>1. container' = container /\ m \in Updatable
      BY <2>6, HolderStep DEF container
    <3>2. service'[m] = "updating"
      BY <2>6 DEF service, Service, InUpdate
    <3>3. service' = service \/ Slot!Begin(m)
      BY <2>2, <3>1, <3>2 DEF Slot!Begin, Updatable, service, container
    <3>4. QED BY <3>1, <3>3 DEF Slot!Next, Slot!vars, service, container
  <2>7. QED BY <1>2, <2>4, <2>5, <2>6
<1>3. QED BY <1>1, <1>2

\* The process ends: every update is abandoned, and nothing else changes.
LEMMA DaemonRefines ==
  ASSUME TypeInv, TypeInv', Accounted', DaemonNext PROVE [Slot!Next]_(Slot!vars)
<1>1. CASE UNCHANGED <<ctr, passVars, notice>>
  BY <1>1 DEF Slot!vars, service, container, Service, InUpdate, Held, Down, passVars
<1>2. CASE ProcessEnds
  <2>1. container' = container
    BY <1>2 DEF ProcessEnds, container, engineVars
  <2>2. \A n \in Names : ~InUpdate(n)'
    BY <1>2 DEF ProcessEnds, InUpdate, Held, UpdatePcs
  <2>3. service' \in [Names -> Slot!Outcomes]
    BY <2>2 DEF service, Accounted, Service, Slot!Outcomes, Slot!LeftBehind, NoticeKinds,
                TypeInv, TypeOK, WatcherTypeOK, Down
  <2>4. \A n \in Names : service[n] # "updating" => service'[n] = service[n]
    BY <1>2, <2>2 DEF ProcessEnds, service, Service, InUpdate, Down, engineVars, TypeInv, TypeOK,
                      WatcherTypeOK
  <2>5. Slot!Abandon
    BY <2>1, <2>3, <2>4 DEF Slot!Abandon, service, container
  <2>6. QED BY <2>5 DEF Slot!Next
<1>3. QED BY <1>1, <1>2 DEF DaemonNext, Shutdown, Exit, Crash, Restart, engineVars

\* Of the environment only the operator changes what is under a name.
LEMMA EnvironmentRefines ==
  ASSUME TypeInv, TypeInv', EnvironmentNext PROVE [Slot!Next]_(Slot!vars)
<1>. USE DEF service, container, Service, InUpdate, Held, Down
<1>1. CASE \E n \in Names : OperatorRemoves(n)
  <2>1. PICK m \in Names : OperatorRemoves(m)
    BY <1>1
  <2>2. container' \in [Names -> Nat \X (Images \cup {NoImage})]
    BY DEF TypeInv, TypeOK, EngineTypeOK, Containers
  <2>3. \A n \in Names \ {m} : service'[n] = service[n] /\ container'[n] = container[n]
    BY <2>1 DEF OperatorRemoves, Remove, passVars, TypeInv, TypeOK, WatcherTypeOK, EngineTypeOK
  <2>4. service'[m] = IF service[m] = "updating" THEN "updating" ELSE "operator"
    BY <2>1 DEF OperatorRemoves, Remove, Absent, passVars, TypeInv, TypeOK, WatcherTypeOK,
                EngineTypeOK, NoticeKinds
  <2>. HIDE DEF service, container, Service
  <2>5. service' = [service EXCEPT ![m] = IF @ = "updating" THEN @ ELSE "operator"]
    BY <2>3, <2>4 DEF service
  <2>6. Slot!TakenAway(m)
    BY <2>2, <2>3, <2>5 DEF Slot!TakenAway, Slot!OnlyAt, service, container
  <2>7. QED BY <2>6 DEF Slot!Next
<1>2. CASE UNCHANGED <<passVars, notice>> /\ \E m \in Names : HealthVerdict(m) \/ ProcessExits(m)
  <2>1. UNCHANGED <<pc, work, notice>>
    BY <1>2 DEF passVars
  <2>2. \A n \in Names : /\ ctr'[n].id = ctr[n].id
                         /\ ctr'[n].image = ctr[n].image
                         /\ Down(n)' <=> Down(n)
    BY <1>2 DEF HealthVerdict, ProcessExits, Running, TypeInv, TypeOK, EngineTypeOK, Containers
  <2>3. service' = service /\ container' = container
    BY <2>1, <2>2
  <2>4. QED BY <2>3 DEF Slot!vars
<1>3. CASE UNCHANGED <<ctr, passVars, notice>>
  BY <1>3 DEF Slot!vars, passVars
<1>4. QED BY <1>1, <1>2, <1>3 DEF EnvironmentNext, Publish, engineVars

(***************************************************************************)
(* The update loop, its API and its process implement ServiceSlot: seen    *)
(* from outside, a container changes only while it is being updated, only  *)
(* containers whose policy allows it are, and each update ends in service  *)
(* or with its outage accounted for (processContainer, StopAndRemove,      *)
(* Recreate, performRollback).                                             *)
(***************************************************************************)
THEOREM OpenWatchImplementsServiceSlot == Spec => ServesOrTells
<1>1. Init => Slot!Init
  BY TypeInit DEF Init, EngineInit, WatcherInit, Slot!Init, Service, InUpdate, Held, UpdatePcs,
     Down, TypeInv, TypeOK, EngineTypeOK, Containers
<1>2. TypeInv /\ TypeInv' /\ Accounted' /\ [Next]_vars => [Slot!Next]_(Slot!vars)
  <2>1. UNCHANGED vars => UNCHANGED Slot!vars
    BY DEF vars, passVars, engineVars, Slot!vars, Service, InUpdate, Held, Down
  <2>2. QED BY <2>1, PassRefines, DaemonRefines, EnvironmentRefines DEF Next
<1>3. Spec => []OutageIsReported
  BY OutageReported
<1>4. QED
  BY <1>1, <1>2, <1>3, TypeInit, TypeStep, ServiceAccounted, PTL DEF Spec, ServesOrTells, Slot!Spec
=============================================================================
