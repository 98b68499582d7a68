----------------------------- MODULE MCLabelled -----------------------------
(***************************************************************************)
(* A small instance of LabelledOpenWatch for TLC: with opt-in, rollbacks   *)
(* and clean-up configured, a container that is opted in without           *)
(* rollbacks, one only to be notified about, one without labels, and       *)
(* OpenWatch itself.                                                       *)
(***************************************************************************)
EXTENDS LabelledOpenWatch, TLC

\* Model values, given in the configuration.
CONSTANTS a, b, k, s, t

MCTagOf == [n \in Names |-> t]

MCConfig == [label_enable |-> TRUE, rollback_on_failure |-> TRUE, cleanup |-> TRUE]

NoLabels == [enable |-> "unset", self |-> "unset", rollback |-> "unset",
             cleanup |-> "unset", notify_only |-> "unset"]

MCLabels == (a :> [NoLabels EXCEPT !.enable = "true", !.rollback = "false"]) @@
            (b :> [NoLabels EXCEPT !.enable = "true", !.notify_only = "true"]) @@
            (k :> NoLabels) @@
            (s :> [NoLabels EXCEPT !.enable = "tRUE", !.self = "true"])

MCSelf == LabelledSelf
MCSkipped == LabelledSkipped
MCNotifyOnly == LabelledNotifyOnly
MCRollbackOn == LabelledRollbackOn
MCCleanupOn == LabelledCleanupOn
=============================================================================
