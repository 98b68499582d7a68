-------------------------- MODULE LabelledOpenWatch --------------------------
(***************************************************************************)
(* OpenWatch with the policies of Watcher resolved from labels: an         *)
(* instance gives Self, Skipped, NotifyOnly, RollbackOn and CleanupOn the  *)
(* values that are defined here.                                           *)
(***************************************************************************)
EXTENDS OpenWatch, Policy

CONSTANTS
  Config,      \* the fields of the configuration that policies start from
  Labels,      \* Labels[n]: the labels of container n
  SelfNamed    \* containers whose name or ID IsSelf recognises

ASSUME LabelledAssumption ==
  /\ Config \in Configs
  /\ Labels \in [Names -> Labelled]
  /\ SelfNamed \subseteq Names

PolicyOf(n) == ResolvePolicy(Config, Labels[n])

LabelledSelf == {n \in Names : IsSelf(n \in SelfNamed, Labels[n])}
LabelledSkipped == {n \in Names : PolicyOf(n).Skip}
LabelledNotifyOnly == {n \in Names : PolicyOf(n).NotifyOnly}
LabelledRollbackOn == {n \in Names : PolicyOf(n).Rollback}
LabelledCleanupOn == {n \in Names : PolicyOf(n).Cleanup}

(***************************************************************************)
(* README, Container labels and OPENWATCH_LABEL_ENABLE, over any sequence  *)
(* of releases, faults and restarts: a container that is labelled to be    *)
(* left alone, or not opted in where that is required, is never replaced,  *)
(* and one that opts out of rollbacks never runs a rolled-back container.  *)
(***************************************************************************)
LabelsObeyed ==
  \A n \in Names :
    /\ \/ Labels[n].enable = "false"
       \/ Config.label_enable /\ Labels[n].enable = "unset"
       \/ Labels[n].notify_only = "true"
       \/ Labels[n].self = "true"
       => ctr[n].id = 1 \/ notice[n] = "operator"
    /\ Labels[n].rollback = "false" => ctr[n].ref \notin Images
=============================================================================
