----------------------------- MODULE HealthWait -----------------------------
(***************************************************************************)
(* waitForHealthy (src/internal/updater/rollback.go) with a clock: the     *)
(* poll loop that decides whether an update succeeded.  Watcher has it as  *)
(* the two outcomes HealthPasses and HealthFails; here are the polls, the  *)
(* deadline and the container's life in between.  Time is in seconds.      *)
(***************************************************************************)
EXTENDS Integers

CONSTANTS
  Timeout,         \* cfg.HealthcheckTimeout, which may be zero or negative
  DefaultTimeout,  \* config.DefaultHealthcheckTimeout
  PollInterval,    \* healthPollInterval
  MaxLatency,      \* bound: how long a call, or the next line, takes
  MaxNow           \* bound: the clock stops here in TLC's runs

ASSUME HealthWaitAssumption ==
  /\ Timeout \in Int
  /\ {DefaultTimeout, PollInterval} \subseteq Nat \ {0}
  /\ {MaxLatency, MaxNow} \subseteq Nat

VARIABLES
  now,        \* the clock
  at,         \* when the function reached the line it is at
  pc,         \* "initial", "poll", "judge", "sleep" or "done"
  deadline,   \* time.Now() + timeout
  result,     \* what the function returned
  cancelled,  \* the context is done
  st,         \* the container: "running", "restarting", "exited" or "gone"
  health,     \* its verdict: "starting", "healthy" or "unhealthy"
  since       \* when it last became healthy

vars == <<now, at, pc, deadline, result, cancelled, st, health, since>>
codeVars == <<at, pc, deadline, result>>
containerVars == <<st, health, since>>

Results == {"none", "ok", "unhealthy", "exited", "timeout", "error"}

TypeOK ==
  /\ {now, at, since} \subseteq Nat
  /\ deadline \in Int
  /\ pc \in {"initial", "poll", "judge", "sleep", "done"}
  /\ result \in Results
  /\ cancelled \in BOOLEAN
  /\ st \in {"running", "restarting", "exited", "gone"}
  /\ health \in {"starting", "healthy", "unhealthy"}

Init ==
  /\ now = 0
  /\ at = 0
  /\ pc = "initial"
  /\ deadline = 0
  /\ result = "none"
  /\ cancelled = FALSE
  /\ st = "running"
  /\ health = "starting"
  /\ since = 0

\* A timeout that is not positive degrades to the default.
BudgetUnchecked == Timeout
Budget == IF Timeout <= 0 THEN DefaultTimeout ELSE Timeout

Goto(l) == pc' = l /\ at' = now /\ UNCHANGED result
Return(r) == pc' = "done" /\ at' = now /\ result' = r

\* The first inspect.  (A container without HEALTHCHECK ends here, with
\* errNoHealthcheck: Watcher's HealthPasses.)
InitialInspect ==
  /\ pc = "initial"
  /\ \/ st # "gone" /\ ~cancelled /\ Goto("poll") /\ deadline' = now + Budget
     \/ (st = "gone" \/ cancelled) /\ Return("error") /\ UNCHANGED deadline
  /\ UNCHANGED <<now, cancelled, containerVars>>

\* One turn of the loop up to the verdict.
Poll ==
  /\ pc = "poll"
  /\ \/ (st = "gone" \/ cancelled) /\ Return("error")
     \/ ~cancelled /\ st = "exited" /\ Return("exited")
     \/ /\ ~cancelled
        /\ st \in {"running", "restarting"}
        /\ \/ health = "healthy" /\ Return("ok")
           \/ health = "unhealthy" /\ Return("unhealthy")
           \/ health = "starting" /\ Goto("judge")
  /\ UNCHANGED <<deadline, now, cancelled, containerVars>>

\* time.Now().After(deadline)
OverdueNever == FALSE
OverdueSoon == now + PollInterval > deadline
Overdue == now > deadline

Judge ==
  /\ pc = "judge"
  /\ IF Overdue THEN Return("timeout") ELSE Goto("sleep")
  /\ UNCHANGED <<deadline, now, cancelled, containerVars>>

\* The select on ctx.Done() and time.After(healthPollInterval).
Wake ==
  /\ pc = "sleep"
  /\ \/ cancelled /\ Return("error")
     \/ now >= at + PollInterval /\ Goto("poll")
  /\ UNCHANGED <<deadline, now, cancelled, containerVars>>

Code == InitialInspect \/ Poll \/ Judge \/ Wake

\* The latest time at which the function leaves the line it is at.
Leaves == IF pc = "sleep" THEN at + PollInterval ELSE at + MaxLatency

Clock ==
  /\ pc # "done"
  /\ now < MaxNow
  /\ now < Leaves
  /\ now' = now + 1
  /\ UNCHANGED <<codeVars, cancelled, containerVars>>

Cancel ==
  /\ pc # "done"
  /\ ~cancelled
  /\ cancelled' = TRUE
  /\ UNCHANGED <<now, codeVars, containerVars>>

\* The engine: a verdict; a crash with or without a restart policy, which
\* starts the verdict over; a removal by someone else.
Container ==
  /\ pc # "done"
  /\ \/ /\ st = "running" /\ health # "healthy"
        /\ st' = st /\ health' = "healthy" /\ since' = now
     \/ /\ st = "running" /\ health # "unhealthy"
        /\ st' = st /\ health' = "unhealthy" /\ since' = since
     \/ /\ st = "running"
        /\ st' \in {"restarting", "exited", "gone"} /\ health' = "starting" /\ since' = since
     \/ /\ st = "restarting"
        /\ st' = "running" /\ health' = health /\ since' = since
  /\ UNCHANGED <<now, codeVars, cancelled>>

Returned == pc = "done" /\ UNCHANGED vars

Next == Code \/ Clock \/ Cancel \/ Container \/ Returned

Spec == Init /\ [][Next]_vars

\* The loop's goroutine and the clock go on.
FairSpec == Spec /\ WF_vars(Code) /\ WF_vars(Clock)

-----------------------------------------------------------------------------
(***************************************************************************)
(* The budget is kept: past the deadline the function waits for at most    *)
(* one poll interval and the latency of one poll and its judgement,        *)
(* whatever the container does and however small the timeout.              *)
(***************************************************************************)
BudgetKept ==
  pc \in {"poll", "judge", "sleep"} => now <= deadline + PollInterval + 2 * MaxLatency

(***************************************************************************)
(* No update is rolled back for being late although it was in time: when   *)
(* the function times out, the container was not healthy yet when the last *)
(* poll before the deadline looked, a latency before the deadline.         *)
(***************************************************************************)
NoFalseTimeout ==
  result = "timeout" /\ st = "running" /\ health = "healthy" => since + MaxLatency > deadline

(***************************************************************************)
(* The budget is granted: a "timeout" is never returned before it is over, *)
(* also when the configured timeout is not positive.                       *)
(***************************************************************************)
BudgetGranted ==
  result = "timeout" => at > (IF Timeout > 0 THEN Timeout ELSE DefaultTimeout)

(***************************************************************************)
(* The wait ends, even for a container that restarts for ever.             *)
(***************************************************************************)
WaitEnds == <>(pc = "done")
=============================================================================
