------------------------------- MODULE Policy -------------------------------
(***************************************************************************)
(* What a container's labels and the configuration make of its policy      *)
(* (src/internal/updater/policy.go) and whether it is OpenWatch itself     *)
(* (IsSelf, src/internal/docker/container.go).  A label's value stands for *)
(* all that are treated alike: the words in some mixture of cases, of      *)
(* which strconv.ParseBool knows few, and the digits, which only it knows. *)
(***************************************************************************)

Words == {"true", "tRUE", "false", "fALSE"}
LabelValues == Words \cup {"1", "0", "other", "unset"}

Labelled == [enable: LabelValues, self: LabelValues, rollback: LabelValues,
             cleanup: LabelValues, notify_only: LabelValues]

Configs == [label_enable: BOOLEAN, rollback_on_failure: BOOLEAN, cleanup: BOOLEAN]

\* strings.EqualFold with LabelValueTrue and LabelValueFalse.
SaysTrue(v) == v \in {"true", "tRUE"}
SaysFalse(v) == v \in {"false", "fALSE"}

\* strconv.ParseBool; what it cannot parse leaves the configured value.
Overrides(v, configured) ==
  CASE v \in {"true", "1"} -> TRUE [] v \in {"false", "0"} -> FALSE [] OTHER -> configured

\* named: its name or its ID say so.
IsSelf(named, labels) == named \/ SaysTrue(labels.self)

\* An explicit openwatch.enable decides, and else the opt-in switch.
SkipsOptOut(config, labels) == SaysFalse(labels.enable)
Skips(config, labels) ==
  SaysFalse(labels.enable) \/ (config.label_enable /\ ~SaysTrue(labels.enable))

ResolvePolicy(config, labels) ==
  [Skip |-> Skips(config, labels),
   NotifyOnly |-> SaysTrue(labels.notify_only),
   Rollback |-> Overrides(labels.rollback, config.rollback_on_failure),
   Cleanup |-> Overrides(labels.cleanup, config.cleanup)]
=============================================================================
