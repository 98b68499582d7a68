------------------------------- MODULE Daemon -------------------------------
(***************************************************************************)
(* The process (src/cmd/openwatch/main.go) with the scheduler that Run     *)
(* drives (src/internal/updater/watcher.go), the API and the notifier.     *)
(* What a pass does to containers, and the store, is in Watcher; here a    *)
(* pass works and notifies, and what matters is when it starts and how it  *)
(* ends.                                                                   *)
(***************************************************************************)
EXTENDS ApiServer, Notifier

CONSTANTS
  Ticks,   \* bound: the ticks that the scheduler begins
  Callers  \* bound: the passes whose events are followed, one at a time

\* A pass that a request starts is identified with the request.
Passes == Ticks \cup Requests

ASSUME DaemonAssumption == Callers \subseteq Passes /\ Ticks \cap Requests = {}

VARIABLES
  config,   \* cron: OPENWATCH_SCHEDULE is set; parses: cron can parse it;
            \* api: OPENWATCH_HTTP_API
  main,     \* "starting", "running", "stopped", or "fatal" (status 1)
  ctx,      \* "live" or "cancelled"
  run,      \* Run: "off", "waiting" in its select, "ticking" (runInterval calls
            \* tick), "draining" (runCron waits for its jobs), "returned" or
            \* "failed"
  due,      \* whether the ticker's channel, with room for one, holds a tick
  pass      \* pass[g]: "unstarted", "work", "done", or "lost"

mainVars == <<config, main, ctx, run, due>>
vars == <<mainVars, pass, apiVars, notifierVars>>

Active(g) == pass[g] = "work"
TickActive == \E t \in Ticks : Active(t)

Init ==
  /\ config \in [cron: BOOLEAN, parses: BOOLEAN, api: BOOLEAN]
  /\ ~config.cron => config.parses
  /\ main = "starting"
  /\ ctx = "live"
  /\ run = "off"
  /\ due = FALSE
  /\ pass = [g \in Passes |-> "unstarted"]
  /\ caller \in Callers
  /\ ApiInit
  /\ NotifierInit

-----------------------------------------------------------------------------
\* main up to Run: each of its steps may be fatal, and so is a schedule that
\* Run cannot parse, which it looks at after the API was started.
StartFails ==
  /\ main = "starting"
  /\ main' = "fatal"
  /\ UNCHANGED <<config, ctx, run, due, pass, apiVars, notifierVars>>

Start ==
  /\ main = "starting"
  /\ main' = "running"
  /\ run' = IF config.cron /\ ~config.parses THEN "failed" ELSE "waiting"
  /\ serve' = IF config.api THEN "listen" ELSE "off"
  /\ UNCHANGED <<config, ctx, due, pass, errCh, request, notifierVars>>

\* A first signal cancels the context; the goroutine reads no second one.
Signal ==
  /\ main = "running"
  /\ ctx' = "cancelled"
  /\ UNCHANGED <<config, main, run, due, pass, apiVars, notifierVars>>

\* What main's goroutine does when Serve returns an error.
LogOnly == ctx
Cancel == "cancelled"

ServeFailed ==
  /\ main = "running"
  /\ serve = "failed"
  /\ ctx' = Cancel
  /\ UNCHANGED <<config, main, run, due, pass, apiVars, notifierVars>>

-----------------------------------------------------------------------------
\* Run.

StartPass(g) ==
  /\ pass[g] = "unstarted"
  /\ pass' = [pass EXCEPT ![g] = "work"]

\* The next tick, of those the bound leaves.
StartTick ==
  \E t \in Ticks :
    /\ StartPass(t)
    /\ t = CHOOSE u \in Ticks : pass[u] = "unstarted"

\* A tick that the channel has no room for is dropped.
TickerFires ==
  /\ run \in {"waiting", "ticking"}
  /\ ~config.cron
  /\ \E t \in Ticks : pass[t] = "unstarted"
  /\ due' = TRUE
  /\ UNCHANGED <<config, main, ctx, run, pass, apiVars, notifierVars>>

\* runInterval's select may take the tick although the context is cancelled.
\* It calls tick, or, calling it on a goroutine, goes on at once.
CallTickAsync == "waiting"
CallTick == "ticking"

IntervalTick ==
  /\ run = "waiting"
  /\ due
  /\ due' = FALSE
  /\ run' = CallTick
  /\ StartTick
  /\ UNCHANGED <<config, main, ctx, apiVars, notifierVars>>

IntervalTickReturns ==
  /\ run = "ticking"
  /\ ~TickActive
  /\ run' = "waiting"
  /\ UNCHANGED <<config, main, ctx, due, pass, apiVars, notifierVars>>

\* robfig/cron starts a job without looking at those that run.
CronFires ==
  /\ run = "waiting"
  /\ config.cron
  /\ StartTick
  /\ UNCHANGED <<mainVars, apiVars, notifierVars>>

\* runCron stops the cron runner and waits for its jobs, or only stops it.
StopCronOnly == "returned"
StopCron == IF config.cron THEN "draining" ELSE "returned"

RunCancelled ==
  /\ run = "waiting"
  /\ ctx = "cancelled"
  /\ run' = StopCron
  /\ UNCHANGED <<config, main, ctx, due, pass, apiVars, notifierVars>>

CronDrained ==
  /\ run = "draining"
  /\ ~TickActive
  /\ run' = "returned"
  /\ UNCHANGED <<config, main, ctx, due, pass, apiVars, notifierVars>>

\* main returns with Run and takes everything down.
Exit ==
  /\ main = "running"
  /\ run \in {"returned", "failed"}
  /\ main' = IF run = "failed" THEN "fatal" ELSE "stopped"
  /\ pass' = [g \in Passes |-> IF Active(g) THEN "lost" ELSE pass[g]]
  /\ due' = FALSE
  /\ ApiEnds
  /\ NotifierEnds
  /\ UNCHANGED <<config, ctx, run>>

-----------------------------------------------------------------------------
\* A pass.

\* An update is under way and its events are sent.
Emit(g) ==
  /\ Active(g)
  /\ Notify(g)
  /\ UNCHANGED <<pass, mainVars, apiVars>>

\* The containers are processed, or could not be listed.
Finish(g) ==
  /\ Active(g)
  /\ ~Waiting(g)
  /\ pass' = [pass EXCEPT ![g] = "done"]
  /\ UNCHANGED <<mainVars, apiVars, notifierVars>>

-----------------------------------------------------------------------------
\* The handlers, with what they ask of the watcher: TriggerAll, and
\* TriggerByName, which may not find the name in the store.

TriggerNothing(r) == UNCHANGED pass
Trigger(r) == StartPass(r)

Handle(r) ==
  /\ \/ CallsWatcher(r) /\ Trigger(r)
     \/ (NotFound(r) \/ WritesAccepted(r) \/ AnswersAtOnce(r)) /\ UNCHANGED pass
  /\ UNCHANGED <<mainVars, notifierVars>>

ServeStep ==
  /\ \/ Listen \/ ServeFails
     \/ ctx = "cancelled" /\ ServeCancelled
     \/ \E timeIsUp \in BOOLEAN : ServeStops(timeIsUp)
  /\ UNCHANGED <<mainVars, pass, notifierVars>>

\* Clients, the network and the provider.
Outside ==
  \/ /\ (\E r \in Requests : Arrives(r)) \/ AcceptFails
     /\ UNCHANGED <<mainVars, pass, notifierVars>>
  \/ NotifierStep /\ UNCHANGED <<mainVars, pass, apiVars>>

RunStep ==
  \/ IntervalTick \/ IntervalTickReturns \/ RunCancelled \/ CronDrained

Ended == main \in {"stopped", "fatal"} /\ UNCHANGED vars

Next ==
  \/ StartFails \/ Start \/ Signal \/ ServeFailed \/ Exit
  \/ TickerFires \/ CronFires \/ RunStep
  \/ \E g \in Passes : Emit(g) \/ Finish(g)
  \/ \E r \in Requests : Handle(r)
  \/ ServeStep
  \/ Outside
  \/ Ended

(***************************************************************************)
(* A goroutine that can run runs, the calls to the engine return, and time *)
(* passes, so that Notify's timer fires.  Nothing is assumed of signals,   *)
(* clients, the ticker and the provider: it may never answer.              *)
(***************************************************************************)
Fairness ==
  /\ WF_vars(ServeFailed) /\ WF_vars(Exit) /\ WF_vars(RunStep) /\ WF_vars(ServeStep)
  /\ \A g \in Passes : WF_vars(Finish(g))
  /\ \A r \in Requests : WF_vars(Handle(r))
  /\ \A e \in Events :
       /\ WF_vars((Receive(e) \/ TimesOut(e)) /\ UNCHANGED <<mainVars, pass, apiVars>>)
       /\ WF_vars(Put(e) /\ UNCHANGED <<mainVars, pass, apiVars>>)

Spec == Init /\ [][Next]_vars /\ Fairness

-----------------------------------------------------------------------------
(***************************************************************************)
(* Passes begin and the process ends as PassSchedule has it: main.go, Run, *)
(* runInterval, runCron and the handlers, whatever the ticker, signals,    *)
(* clients and the listener do.                                            *)
(***************************************************************************)
ActiveOf(bound) == {g \in bound : Active(g)}

Schedule == INSTANCE PassSchedule
              WITH schedule <- IF ~config.cron THEN "interval"
                               ELSE IF config.parses THEN "cron" ELSE "invalid",
                   phase <- IF main # "running" THEN "down"
                            ELSE IF ctx = "live" THEN "up" ELSE "cancelled",
                   ticks <- ActiveOf(Ticks),
                   asked <- ActiveOf(Requests)

FollowsSchedule == Schedule!Spec

\* Type correctness of the process, the API and the notifier.
TypeOK ==
  /\ config \in [cron: BOOLEAN, parses: BOOLEAN, api: BOOLEAN]
  /\ main \in {"starting", "running", "stopped", "fatal"}
  /\ ctx \in {"live", "cancelled"}
  /\ run \in {"off", "waiting", "ticking", "draining", "returned", "failed"}
  /\ due \in BOOLEAN
  /\ pass \in [Passes -> {"unstarted", "work", "done", "lost"}]
  /\ serve \in {"off", "listen", "select", "shutdown", "stopped", "failed"}
  /\ errCh \in {"none", "empty", "error"}
  /\ request \in [Requests -> {"unsent", "cut"} \cup InFlight \cup Answers]
  /\ caller \in Passes
  /\ sending \in [Events -> {"none", "busy", "holding", "ok", "errors"}]
  /\ result \in [Events -> {"none", "waiting", "lost"} \cup Returned]
  /\ arrived \in Seq(Events)

(***************************************************************************)
(* watcher.go, runInterval: a tick begins only after the previous one has  *)
(* returned, also when the ticker fires during it and after a cancellation *)
(* that the select overlooks; with cron they may overlap (OpenWatch,       *)
(* StartTick).                                                             *)
(***************************************************************************)
TicksDoNotOverlap ==
  ~config.cron => \A t, u \in Ticks : Active(t) /\ Active(u) => t = u

(***************************************************************************)
(* watcher.go, runCron: Stop "blocks until any in-flight tick finishes",   *)
(* and runInterval calls tick itself: the process never ends in the middle *)
(* of a tick (OpenWatch, Exit), whichever of the scheduler, the signal and *)
(* the API ends it.                                                        *)
(***************************************************************************)
TicksDrain == \A t \in Ticks : pass[t] # "lost"

(***************************************************************************)
(* server.go, handleUpdateAll: "202 Accepted means we have taken           *)
(* responsibility for this work": the pass of an accepted request was      *)
(* started, and a request that was refused, or found nothing, started none.*)
(***************************************************************************)
AcceptedIsStarted ==
  \A r \in Requests :
    /\ request[r] = "accepted" => pass[r] # "unstarted"
    /\ request[r] \in Answers \ {"accepted"} => pass[r] = "unstarted"

(***************************************************************************)
(* shoutrrr.go, Notify: nil means that the provider has the event; then it *)
(* has it before every later event of the same pass.  Only an event whose  *)
(* Notify timed out or failed can be overtaken by the one that follows it. *)
(***************************************************************************)
Before(d, e) == \E i, j \in DOMAIN arrived : i < j /\ arrived[i] = d /\ arrived[j] = e

NilMeansInOrder ==
  \A d \in Events : result[d] = "nil" =>
    /\ d \in Arrived
    /\ \A e \in Arrived : e > d => Before(d, e)

(***************************************************************************)
(* shoutrrr.go, Notify: "the goroutine never blocks on send even if we     *)
(* time out first".  No goroutine stays behind with the answer of a        *)
(* provider that answered too late.                                        *)
(***************************************************************************)
SendersEnd == []<>(\A e \in Events : sending[e] # "holding")

(***************************************************************************)
(* README, Events: "a slow or dead notification provider cannot stall the  *)
(* update loop".  A pass ends although the provider may never answer it.   *)
(***************************************************************************)
PassesEnd == Active(caller) ~> ~Active(caller)

(***************************************************************************)
(* main.go: a signal ends the process, whatever the passes, the API, its   *)
(* clients and the provider are doing.                                     *)
(***************************************************************************)
CancelEnds == ctx = "cancelled" ~> main # "running"

(***************************************************************************)
(* main.go: "either a watcher crash or a signal tears the whole daemon     *)
(* down", and so does an API whose port is taken or whose listener fails:  *)
(* no daemon runs on without the API that was asked for.                   *)
(***************************************************************************)
ListenerFailureEnds == serve = "failed" ~> main # "running"
=============================================================================
