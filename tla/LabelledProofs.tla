--------------------------- MODULE LabelledProofs ---------------------------
(***************************************************************************)
(* Labels are obeyed, for any labels and configuration and any number of   *)
(* passes.                                                                 *)
(***************************************************************************)
EXTENDS LabelledOpenWatch, OnePassProofs

\* The policies of Watcher are those that the labels and the configuration give.
FromLabels ==
  /\ Self = LabelledSelf
  /\ Skipped = LabelledSkipped
  /\ NotifyOnly = LabelledNotifyOnly
  /\ RollbackOn = LabelledRollbackOn

(***************************************************************************)
(* Only a pass that rolls back creates a container from an image ID, and a *)
(* pass rolls back only what the policy lets it.                           *)
(***************************************************************************)
RollbackInv ==
  /\ \A p \in Passes :
       /\ work[p].rollback => work[p].name \in RollbackOn
       /\ pc[p] \in UpdatePcs => work[p].ref \in Tags
  /\ \A n \in Names : ctr[n].ref \in Images => n \in RollbackOn

LEMMA RollbackInit == Init => RollbackInv
BY EngineAssumption DEF Init, EngineInit, WatcherInit, NoWork, UpdatePcs, RollbackInv

\* What a pass does to its own locals.
LEMMA LocalsStep ==
  ASSUME TypeInv, RollbackInv, NEW p \in Passes, PassNext(p)
  PROVE  /\ work'[p].rollback => work'[p].name \in RollbackOn
         /\ pc'[p] \in UpdatePcs => work'[p].ref \in Tags
<1>. USE DEF TypeInv, TypeOK, WatcherTypeOK, RollbackInv, Goto, Works
<1>1. CASE \/ StartTick(p) \/ HandleUpdateAll(p) \/ \E n \in Names : HandleUpdateByName(p, n)
           \/ List(p) \/ FinishPass(p)
  BY <1>1 DEF StartTick, HandleUpdateAll, HandleUpdateByName, Begin, List, FinishPass, EndPass,
              UpdatePcs
<1>2. CASE TakeNext(p)
  BY <1>2 DEF TakeNext, UpdatePcs
<1>3. CASE Done(p)
  BY <1>3 DEF Done, NoWork, UpdatePcs
<1>4. CASE StartUpdate(p)
  BY <1>4 DEF StartUpdate, Outdated
<1>5. CASE \/ PullImage(p) \/ StopContainer(p) \/ KillContainer(p) \/ RemoveContainer(p)
           \/ StartContainer(p) \/ HealthPasses(p) \/ HealthFails(p)
  <2>1. pc[p] \in UpdatePcs /\ work' = work
    BY <1>5 DEF PullImage, StopContainer, KillContainer, RemoveContainer, StartContainer,
                HealthPasses, HealthFails, UpdatePcs
  <2>2. QED BY <2>1
<1>6. CASE CreateContainer(p)
  BY <1>6 DEF CreateContainer, UpdatePcs
<1>7. CASE HandleHealthFailure(p)
  BY <1>3, <1>7 DEF HandleHealthFailure, UpdatePcs
<1>8. CASE ReportSuccess(p)
  BY <1>3, <1>8 DEF ReportSuccess, UpdatePcs
<1>9. QED
  BY <1>1, <1>2, <1>3, <1>4, <1>5, <1>6, <1>7, <1>8
     DEF PassNext, PassStep, SkipSelf, Check, ReportFailure, ReportRollback, Cleanup

\* What a pass does to the containers.
LEMMA RefsStep ==
  ASSUME TypeInv, RollbackInv, NEW p \in Passes, PassNext(p)
  PROVE  \A n \in Names : ctr'[n].ref \in Images => n \in RollbackOn
<1>. USE EngineAssumption DEF TypeInv, TypeOK, EngineTypeOK, RollbackInv
<1>1. CASE UNCHANGED ctr
  BY <1>1
<1>2. ASSUME NEW m \in Names, ctr' \in {Stop(m), Remove(m), Start(m)}
      PROVE  \A n \in Names : ctr'[n].ref \in Images => n \in RollbackOn
  <2>1. CASE ctr' = Stop(m)
    BY <2>1 DEF Stop, Containers
  <2>2. CASE ctr' = Remove(m)
    BY <2>2 DEF Remove, Absent
  <2>3. CASE ctr' = Start(m)
    BY <2>3 DEF Start, Containers
  <2>4. QED BY <1>2, <2>1, <2>2, <2>3
<1>3. CASE CreateContainer(p) /\ ~UNCHANGED ctr
  <2>1. /\ work[p].name \in Names
        /\ ctr' = [ctr EXCEPT ![work[p].name] =
                     [id |-> gen[work[p].name] + 1, ref |-> NewRef(p),
                      image |-> Resolve(NewRef(p)), st |-> "created", health |-> "none"]]
    BY <1>3 DEF CreateContainer, Create, WorkWellFormed, UpdatePcs
  <2>2. NewRef(p) \in Images => work[p].name \in RollbackOn
    BY <1>3 DEF NewRef, CreateContainer, UpdatePcs
  <2>3. QED BY <2>1, <2>2
<1>4. QED
  <2>1. CASE StopContainer(p) \/ KillContainer(p) \/ RemoveContainer(p) \/ StartContainer(p)
    <3>1. work[p].name \in Names
      BY <2>1 DEF WorkWellFormed, StopContainer, KillContainer, RemoveContainer, StartContainer,
                  UpdatePcs
    <3>2. QED
      BY <1>1, <1>2, <2>1, <3>1 DEF StopContainer, KillContainer, RemoveContainer, StartContainer
  <2>2. QED
    BY <1>1, <1>3, <2>1
       DEF PassNext, PassStep, StartTick, HandleUpdateAll, HandleUpdateByName, List, TakeNext,
           FinishPass, SkipSelf, Check, StartUpdate, PullImage, HealthPasses, HealthFails,
           HandleHealthFailure, ReportFailure, ReportRollback, ReportSuccess, Cleanup, engineVars

LEMMA RollbackStep == TypeInv /\ RollbackInv /\ [Next]_vars => RollbackInv'
<1>. SUFFICES ASSUME TypeInv, RollbackInv, [Next]_vars PROVE RollbackInv'
  OBVIOUS
<1>1. ASSUME NEW p \in Passes, PassNext(p) PROVE RollbackInv'
  BY <1>1, LocalsStep, RefsStep, OtherPasses DEF RollbackInv
<1>2. CASE DaemonNext \/ EnvironmentNext \/ UNCHANGED vars
  <2>1. /\ UNCHANGED <<pc, work>> \/ ProcessEnds
        /\ \A n \in Names : ctr'[n].ref \in {ctr[n].ref, NoImage}
    <3>. USE DEF TypeInv, TypeOK, EngineTypeOK
    <3>1. CASE UNCHANGED <<pc, work, ctr>> \/ ProcessEnds
      BY <3>1 DEF ProcessEnds, engineVars
    <3>2. ASSUME NEW m \in Names, OperatorRemoves(m) PROVE <2>1!:
      BY <3>2 DEF OperatorRemoves, Remove, Absent, passVars
    <3>3. ASSUME NEW m \in Names, HealthVerdict(m) \/ ProcessExits(m), UNCHANGED passVars
          PROVE  <2>1!:
      BY <3>3 DEF HealthVerdict, ProcessExits, Containers, passVars
    <3>4. QED
      BY <1>2, <3>1, <3>2, <3>3 DEF DaemonNext, EnvironmentNext, Shutdown, Exit, Crash, Restart,
         Publish, passVars, engineVars, vars
  <2>2. \A p \in Passes :
          /\ work'[p].rollback => work'[p].name \in RollbackOn
          /\ pc'[p] \in UpdatePcs => work'[p].ref \in Tags
    BY <2>1 DEF ProcessEnds, NoWork, UpdatePcs, RollbackInv
  <2>3. QED BY <2>1, <2>2, EngineAssumption DEF RollbackInv
<1>3. QED BY <1>1, <1>2 DEF Next

\* What the labels ask for is what the policies exclude.
LEMMA LabelsExclude ==
  ASSUME FromLabels, NEW n \in Names
  PROVE  /\ \/ Labels[n].enable = "false"
            \/ Config.label_enable /\ Labels[n].enable = "unset"
            \/ Labels[n].notify_only = "true"
            \/ Labels[n].self = "true"
            => n \in Self \cup Skipped \cup NotifyOnly
         /\ Labels[n].rollback = "false" => n \notin RollbackOn
BY DEF FromLabels, LabelledSelf, LabelledSkipped, LabelledNotifyOnly, LabelledRollbackOn,
       PolicyOf, ResolvePolicy, Skips, IsSelf, Overrides, SaysTrue, SaysFalse

(***************************************************************************)
(* policy.go and rollback.go: whatever the labels and the configuration    *)
(* are, and however many passes, faults and restarts there are, a          *)
(* container that is labelled to be left alone is never replaced, and one  *)
(* that opts out of rollbacks never runs a rolled-back container.          *)
(***************************************************************************)
THEOREM LabelsAreObeyed == ASSUME FromLabels PROVE Spec => []LabelsObeyed
<1>1. ExcludedAreKept /\ RollbackInv => LabelsObeyed
  BY LabelsExclude, WatcherAssumption DEF ExcludedAreKept, RollbackInv, LabelsObeyed
<1>2. Spec => []RollbackInv
  BY RollbackInit, RollbackStep, TypeInit, TypeStep, PTL DEF Spec
<1>3. QED BY <1>1, <1>2, ExcludedKept, PTL
=============================================================================
