---------------------------- MODULE DaemonProofs ----------------------------
(***************************************************************************)
(* Proofs about the process, for any number of ticks, requests and events. *)
(***************************************************************************)
EXTENDS Daemon, TLAPS

\* What Run is doing says which ticks are active.
RunInv ==
  /\ TicksDrain
  /\ main = "starting" => run = "off"
  /\ due \/ run = "ticking" => ~config.cron
  /\ run \in {"off", "returned", "failed"} => ~TickActive
  /\ ~config.cron /\ run # "ticking" => ~TickActive

\* How far a request and its pass have come together.
RequestInv ==
  \A r \in Requests :
    /\ request[r] \in {"accepting", "accepted"} => pass[r] # "unstarted"
    /\ request[r] \notin {"accepting", "accepted", "cut"} => pass[r] = "unstarted"

IInv == TypeOK /\ RunInv /\ TicksDoNotOverlap /\ RequestInv

LEMMA InitIInv == Init => IInv
<1>. SUFFICES ASSUME Init PROVE IInv
  OBVIOUS
<1>1. TypeOK
  <2>1. arrived \in Seq(Events)
    BY DEF Init, NotifierInit
  <2>2. pass \in [Passes -> {"unstarted", "work", "done", "lost"}]
    BY DEF Init
  <2>3. request \in [Requests -> {"unsent", "cut"} \cup InFlight \cup Answers]
    BY DEF Init, ApiInit
  <2>4. /\ sending \in [Events -> {"none", "busy", "holding", "ok", "errors"}]
        /\ result \in [Events -> {"none", "waiting", "lost"} \cup Returned]
    BY DEF Init, NotifierInit
  <2>5. QED
    BY <2>1, <2>2, <2>3, <2>4, DaemonAssumption DEF Init, TypeOK, ApiInit
<1>2. RunInv /\ TicksDoNotOverlap
  BY DEF Init, RunInv, TicksDrain, TicksDoNotOverlap, TickActive, Active, Passes
<1>3. RequestInv
  BY DEF Init, RequestInv, ApiInit, Passes
<1>4. QED BY <1>1, <1>2, <1>3 DEF IInv

-----------------------------------------------------------------------------
\* Steps of the API and the notifier that leave the passes alone.

LEMMA NotifierType ==
  ASSUME TypeOK,
         NotifierStep \/ NotifierEnds \/ \E g \in Passes : Notify(g)
  PROVE  /\ caller' = caller
         /\ sending' \in [Events -> {"none", "busy", "holding", "ok", "errors"}]
         /\ result' \in [Events -> {"none", "waiting", "lost"} \cup Returned]
         /\ arrived' \in Seq(Events)
<1>1. CASE NotifierStep
  <2>1. PICK e \in Events : Arrive(e) \/ SendReturns(e) \/ Put(e) \/ Receive(e) \/ TimesOut(e)
    BY <1>1 DEF NotifierStep
  <2>2. CASE Arrive(e)
    BY <2>2 DEF TypeOK, Arrive
  <2>3. CASE SendReturns(e) \/ Put(e)
    BY <2>3 DEF TypeOK, SendReturns, Put
  <2>4. CASE Receive(e) \/ TimesOut(e)
    BY <2>4 DEF TypeOK, Receive, TimesOut, OutcomeOf, Returned
  <2>5. QED BY <2>1, <2>2, <2>3, <2>4
<1>2. CASE NotifierEnds
  BY <1>2 DEF TypeOK, NotifierEnds
<1>3. CASE \E g \in Passes : Notify(g)
  BY <1>3 DEF TypeOK, Notify, AfterSend
<1>4. QED BY <1>1, <1>2, <1>3

\* A request before and after a step of the API that does not call the watcher.
ApiStep ==
  \/ Listen \/ AcceptFails \/ ServeFails \/ ServeCancelled
  \/ \E timeIsUp \in BOOLEAN : ServeStops(timeIsUp)
  \/ \E r \in Requests : Arrives(r) \/ NotFound(r) \/ WritesAccepted(r) \/ AnswersAtOnce(r)

LEMMA ApiType ==
  ASSUME TypeOK, ApiStep \/ \E r \in Requests : CallsWatcher(r)
  PROVE  /\ serve' \in {"off", "listen", "select", "shutdown", "stopped", "failed"}
         /\ errCh' \in {"none", "empty", "error"}
         /\ request' \in [Requests -> {"unsent", "cut"} \cup InFlight \cup Answers]
<1>1. CASE Listen \/ AcceptFails \/ ServeFails \/ ServeCancelled
           \/ \E timeIsUp \in BOOLEAN : ServeStops(timeIsUp)
  BY <1>1 DEF TypeOK, Listen, AcceptFails, ServeFails, ServeCancelled, ServeStops
<1>2. ASSUME NEW r \in Requests,
             Arrives(r) \/ NotFound(r) \/ WritesAccepted(r) \/ AnswersAtOnce(r) \/ CallsWatcher(r)
      PROVE  /\ request' \in [Requests -> {"unsent", "cut"} \cup InFlight \cup Answers]
             /\ UNCHANGED <<serve, errCh>>
  BY <1>2 DEF TypeOK, Arrives, NotFound, WritesAccepted, AnswersAtOnce, CallsWatcher,
              InFlight, Answers
<1>3. QED BY <1>1, <1>2 DEF ApiStep, TypeOK

LEMMA ApiKeepsRequests ==
  ASSUME TypeOK, RequestInv, ApiStep, UNCHANGED pass
  PROVE  RequestInv'
<1>1. CASE UNCHANGED request
  BY <1>1 DEF RequestInv
<1>2. ASSUME NEW r \in Requests,
             Arrives(r) \/ NotFound(r) \/ WritesAccepted(r) \/ AnswersAtOnce(r)
      PROVE  RequestInv'
  BY <1>2 DEF RequestInv, TypeOK, Arrives, NotFound, WritesAccepted, AnswersAtOnce
<1>3. QED
  BY <1>1, <1>2 DEF ApiStep, Listen, AcceptFails, ServeFails, ServeCancelled, ServeStops

-----------------------------------------------------------------------------
\* A pass ends, or is not touched: no tick becomes active.
LEMMA NoNewTick ==
  ASSUME TypeOK, TicksDoNotOverlap, config' = config,
         pass' \in [Passes -> {"unstarted", "work", "done", "lost"}],
         \A t \in Ticks : pass'[t] = "work" => pass[t] = "work"
  PROVE  TicksDoNotOverlap' /\ (TickActive' => TickActive)
BY DEF TicksDoNotOverlap, TickActive, Active, Passes

\* main: starting, the signal, and a listener that failed.
LEMMA MainStep ==
  ASSUME IInv, StartFails \/ Start \/ Signal \/ ServeFailed
  PROVE  IInv'
<1>. USE DEF IInv
<1>1. TypeOK'
  BY DEF TypeOK, StartFails, Start, Signal, ServeFailed, Cancel, apiVars, notifierVars
<1>2. RunInv' /\ TicksDoNotOverlap'
  BY DEF RunInv, TicksDrain, TicksDoNotOverlap, TickActive, Active,
         StartFails, Start, Signal, ServeFailed
<1>3. RequestInv'
  BY DEF RequestInv, StartFails, Start, Signal, ServeFailed, apiVars
<1>4. QED BY <1>1, <1>2, <1>3

\* A tick begins while none is active, or on a cron schedule.
LEMMA TickBegins == ASSUME IInv, IntervalTick \/ CronFires PROVE IInv'
<1>. USE DEF IInv
<1>1. PICK t \in Ticks : pass[t] = "unstarted" /\ pass' = [pass EXCEPT ![t] = "work"]
  BY DEF IntervalTick, CronFires, StartTick, StartPass
<1>2. TypeOK'
  BY <1>1 DEF TypeOK, Passes, IntervalTick, CronFires, CallTick, mainVars, apiVars, notifierVars
<1>3. RequestInv'
  BY <1>1, DaemonAssumption DEF RequestInv, TypeOK, Passes, IntervalTick, CronFires, apiVars
<1>4. /\ \A u \in Ticks : pass'[u] = IF u = t THEN "work" ELSE pass[u]
      /\ config' = config /\ main' = main
  BY <1>1 DEF TypeOK, Passes, IntervalTick, CronFires, mainVars
<1>5. CASE IntervalTick /\ ~config.cron
  <2>1. run = "waiting" /\ run' = "ticking" /\ ~TickActive
    BY <1>5 DEF IntervalTick, CallTick, RunInv
  <2>2. QED
    BY <1>2, <1>3, <1>4, <1>5, <2>1 DEF RunInv, TicksDrain, TicksDoNotOverlap, TickActive, Active
<1>6. CASE CronFires
  <2>1. run = "waiting" /\ run' = "waiting" /\ config.cron
    BY <1>6 DEF CronFires, mainVars
  <2>2. main # "starting" /\ ~due /\ ~due'
    BY <1>6, <2>1 DEF RunInv, CronFires, mainVars
  <2>3. TicksDrain'
    BY <1>4 DEF RunInv, TicksDrain
  <2>4. QED
    BY <1>2, <1>3, <1>4, <2>1, <2>2, <2>3 DEF RunInv, TicksDoNotOverlap
<1>7. QED
  BY <1>5, <1>6 DEF IntervalTick, RunInv

\* The rest of Run: the select, the end of a tick, the drain.
LEMMA RunGoesOn ==
  ASSUME IInv, TickerFires \/ IntervalTickReturns \/ RunCancelled \/ CronDrained
  PROVE  IInv'
<1>. USE DEF IInv
<1>1. /\ UNCHANGED <<config, main, ctx, pass, apiVars, notifierVars>>
      /\ run' \in {run, "waiting", "draining", "returned"}
      /\ due' \in BOOLEAN
  BY DEF TypeOK, TickerFires, IntervalTickReturns, RunCancelled, StopCron, CronDrained
<1>2. TypeOK'
  BY <1>1 DEF TypeOK, apiVars, notifierVars
<1>3. RequestInv' /\ TicksDoNotOverlap' /\ TicksDrain'
  BY <1>1 DEF RequestInv, TicksDoNotOverlap, RunInv, TicksDrain, Active, apiVars
<1>4. RunInv'
  BY <1>1, <1>3 DEF RunInv, TickActive, Active, TickerFires, IntervalTickReturns,
                    RunCancelled, StopCron, CronDrained
<1>5. QED BY <1>2, <1>3, <1>4

\* The process ends when Run has returned, and no tick is active then.
LEMMA ExitStep == ASSUME IInv, Exit PROVE IInv'
<1>. USE DEF IInv
<1>1. ~TickActive /\ run' = run /\ config' = config /\ main' \in {"fatal", "stopped"} /\ ~due'
  BY DEF RunInv, Exit
<1>2. /\ pass' \in [Passes -> {"unstarted", "work", "done", "lost"}]
      /\ \A g \in Passes : pass'[g] = IF pass[g] = "work" THEN "lost" ELSE pass[g]
  BY DEF TypeOK, Exit, Active
<1>3. TypeOK'
  <2>1. /\ serve' = "off" /\ errCh' = "none"
        /\ request' \in [Requests -> {"unsent", "cut"} \cup InFlight \cup Answers]
    BY DEF TypeOK, Exit, ApiEnds
  <2>2. QED
    BY <1>1, <1>2, <2>1, NotifierType DEF TypeOK, Exit
<1>4. RunInv' /\ TicksDoNotOverlap'
  BY <1>1, <1>2 DEF RunInv, TicksDrain, TicksDoNotOverlap, TickActive, Active, Passes
<1>5. RequestInv'
  BY <1>2 DEF RequestInv, TypeOK, Passes, Exit, ApiEnds, InFlight
<1>6. QED BY <1>3, <1>4, <1>5

\* A pass notifies or ends.
LEMMA PassStep ==
  ASSUME IInv, NEW g \in Passes, Emit(g) \/ Finish(g)
  PROVE  IInv'
<1>. USE DEF IInv
<1>1. UNCHANGED <<mainVars, apiVars>>
  BY DEF Emit, Finish
<1>2. /\ pass' \in [Passes -> {"unstarted", "work", "done", "lost"}]
      /\ \A h \in Passes : (pass'[h] = pass[h]) \/ (pass[h] = "work" /\ pass'[h] = "done")
  <2>1. CASE UNCHANGED pass
    BY <2>1 DEF TypeOK
  <2>2. CASE pass[g] = "work" /\ pass' = [pass EXCEPT ![g] = "done"]
    BY <2>2 DEF TypeOK
  <2>3. QED BY <2>1, <2>2 DEF Emit, Finish, Active
<1>3. TypeOK'
  <2>1. CASE UNCHANGED notifierVars
    BY <1>1, <1>2, <2>1 DEF TypeOK, mainVars, apiVars, notifierVars
  <2>2. CASE Notify(g)
    <3>1. /\ caller' = caller
          /\ sending' \in [Events -> {"none", "busy", "holding", "ok", "errors"}]
          /\ result' \in [Events -> {"none", "waiting", "lost"} \cup Returned]
          /\ arrived' \in Seq(Events)
      BY <2>2, NotifierType
    <3>2. QED BY <1>1, <1>2, <3>1 DEF TypeOK, mainVars, apiVars
  <2>3. QED BY <2>1, <2>2 DEF Emit, Finish
<1>4. TicksDoNotOverlap' /\ (TickActive' => TickActive)
  BY <1>1, <1>2, NoNewTick DEF mainVars, Passes
<1>5. RunInv'
  BY <1>1, <1>2, <1>4 DEF RunInv, TicksDrain, Passes, mainVars
<1>6. RequestInv'
  BY <1>1, <1>2 DEF RequestInv, Passes, apiVars
<1>7. QED BY <1>3, <1>4, <1>5, <1>6

\* The requests and the API; the clients and the provider.
LEMMA ApiServes ==
  ASSUME IInv,
         \/ ServeStep
         \/ \E r \in Requests : Arrives(r) /\ UNCHANGED <<mainVars, pass, notifierVars>>
         \/ AcceptFails /\ UNCHANGED <<mainVars, pass, notifierVars>>
         \/ \E r \in Requests :
              /\ NotFound(r) \/ WritesAccepted(r) \/ AnswersAtOnce(r)
              /\ UNCHANGED <<mainVars, pass, notifierVars>>
  PROVE  IInv'
<1>. USE DEF IInv
<1>1. ApiStep /\ UNCHANGED <<mainVars, pass, notifierVars>>
  BY DEF ApiStep, ServeStep
<1>2. /\ serve' \in {"off", "listen", "select", "shutdown", "stopped", "failed"}
      /\ errCh' \in {"none", "empty", "error"}
      /\ request' \in [Requests -> {"unsent", "cut"} \cup InFlight \cup Answers]
  BY <1>1, ApiType
<1>3. TypeOK'
  BY <1>1, <1>2 DEF TypeOK, mainVars, notifierVars
<1>4. RequestInv'
  BY <1>1, ApiKeepsRequests
<1>5. RunInv' /\ TicksDoNotOverlap'
  BY <1>1 DEF RunInv, TicksDrain, TicksDoNotOverlap, TickActive, Active, mainVars
<1>6. QED BY <1>3, <1>4, <1>5

\* A request that asks the watcher starts its pass with the same step.
LEMMA Accepts ==
  ASSUME IInv, NEW r \in Requests, CallsWatcher(r), Trigger(r),
         UNCHANGED <<mainVars, notifierVars>>
  PROVE  IInv'
<1>. USE DEF IInv
<1>1. /\ serve' \in {"off", "listen", "select", "shutdown", "stopped", "failed"}
      /\ errCh' \in {"none", "empty", "error"}
      /\ request' \in [Requests -> {"unsent", "cut"} \cup InFlight \cup Answers]
  BY ApiType
<1>2. /\ pass' \in [Passes -> {"unstarted", "work", "done", "lost"}]
      /\ \A g \in Passes : pass'[g] = IF g = r THEN "work" ELSE pass[g]
  BY DEF Trigger, StartPass, TypeOK, Passes
<1>3. TypeOK'
  BY <1>1, <1>2 DEF TypeOK, mainVars, notifierVars
<1>4. \A t \in Ticks : pass'[t] = pass[t]
  BY <1>2, DaemonAssumption DEF Passes
<1>5. RunInv' /\ TicksDoNotOverlap'
  BY <1>4 DEF RunInv, TicksDrain, TicksDoNotOverlap, TickActive, Active, mainVars
<1>6. RequestInv'
  BY <1>2 DEF RequestInv, TypeOK, CallsWatcher, Passes
<1>7. QED BY <1>3, <1>5, <1>6

\* The provider and the goroutines that send.
LEMMA Sends ==
  ASSUME IInv, NotifierStep, UNCHANGED <<mainVars, pass, apiVars>>
  PROVE  IInv'
<1>. USE DEF IInv
<1>1. TypeOK'
  BY NotifierType DEF TypeOK, mainVars, apiVars
<1>2. RequestInv' /\ RunInv' /\ TicksDoNotOverlap'
  BY DEF RequestInv, RunInv, TicksDrain, TicksDoNotOverlap, TickActive, Active, mainVars, apiVars
<1>3. QED BY <1>1, <1>2

LEMMA Stutters == ASSUME IInv, UNCHANGED vars PROVE IInv'
BY DEF IInv, TypeOK, RequestInv, RunInv, TicksDrain, TicksDoNotOverlap, TickActive, Active,
       vars, mainVars, apiVars, notifierVars

LEMMA NextIInv == ASSUME IInv, [Next]_vars PROVE IInv'
<1>1. CASE StartFails \/ Start \/ Signal \/ ServeFailed
  BY <1>1, MainStep
<1>2. CASE Exit
  BY <1>2, ExitStep
<1>3. CASE IntervalTick \/ CronFires
  BY <1>3, TickBegins
<1>4. CASE TickerFires \/ IntervalTickReturns \/ RunCancelled \/ CronDrained
  BY <1>4, RunGoesOn
<1>5. CASE \E g \in Passes : Emit(g) \/ Finish(g)
  BY <1>5, PassStep
<1>6. CASE \E r \in Requests : Handle(r)
  <2>1. PICK r \in Requests : Handle(r)
    BY <1>6
  <2>2. CASE CallsWatcher(r) /\ Trigger(r)
    BY <2>1, <2>2, Accepts DEF Handle
  <2>3. CASE NotFound(r) \/ WritesAccepted(r) \/ AnswersAtOnce(r)
    <3>1. CASE UNCHANGED pass
      BY <2>1, <2>3, <3>1, ApiServes DEF Handle
    <3>2. QED BY <2>1, <2>2, <3>1 DEF Handle
  <2>4. QED BY <2>1, <2>2, <2>3 DEF Handle
<1>7. CASE ServeStep
  BY <1>7, ApiServes
<1>8. CASE Outside
  BY <1>8, ApiServes, Sends DEF Outside
<1>9. CASE Ended \/ UNCHANGED vars
  BY <1>9, Stutters DEF Ended
<1>10. QED
  BY <1>1, <1>2, <1>3, <1>4, <1>5, <1>6, <1>7, <1>8, <1>9 DEF Next, RunStep

-----------------------------------------------------------------------------
\* Every reachable state satisfies the inductive invariant.
THEOREM DaemonInvariant == Spec => []IInv
BY InitIInv, NextIInv, PTL DEF Spec

\* main.go: the variables of the process, the API and the notifier keep their
\* types.
THEOREM DaemonTypes == Spec => []TypeOK
<1>1. IInv => TypeOK
  BY DEF IInv
<1>2. QED BY <1>1, DaemonInvariant, PTL

\* watcher.go, runInterval: however many ticks there are, two are never active
\* together on an interval schedule.
THEOREM IntervalTicksAreSerial == Spec => []TicksDoNotOverlap
<1>1. IInv => TicksDoNotOverlap
  BY DEF IInv
<1>2. QED BY <1>1, DaemonInvariant, PTL

\* watcher.go, runCron and runInterval: the process never ends during a tick.
THEOREM NoTickIsLost == Spec => []TicksDrain
<1>1. IInv => TicksDrain
  BY DEF IInv, RunInv
<1>2. QED BY <1>1, DaemonInvariant, PTL

\* server.go, handleUpdateAll: a 202 stands for a pass that was started, and any
\* other answer for none.
THEOREM AcceptedPassStarted == Spec => []AcceptedIsStarted
<1>1. IInv => AcceptedIsStarted
  BY DEF IInv, RequestInv, AcceptedIsStarted, Answers
<1>2. QED BY <1>1, DaemonInvariant, PTL

-----------------------------------------------------------------------------
(***************************************************************************)
(* The order of the events.  Events are numbered in the order of their     *)
(* calls, and a call begins when those before it have returned: nothing    *)
(* with a later number can be with the provider while a call waits.        *)
(***************************************************************************)
CallsInOrder ==
  \A e \in Events :
    /\ result[e] = "none" => sending[e] = "none" /\ e \notin Arrived
    /\ result[e] # "none" =>
         \A d \in Events : d < e => result[d] \notin {"none", "waiting"}

OkHasArrived == \A e \in Events : sending[e] = "ok" => e \in Arrived

OrderInv == CallsInOrder /\ OkHasArrived /\ NilMeansInOrder

LEMMA InitOrder == Init => OrderInv
BY DEF Init, NotifierInit, OrderInv, CallsInOrder, OkHasArrived, NilMeansInOrder, Arrived

LEMMA ArrivedEvents == ASSUME TypeOK PROVE Arrived \subseteq Events
BY DEF TypeOK, Arrived

\* What has arrived stays, in its order; what arrives comes after it.
LEMMA Appended ==
  ASSUME NEW e \in Events, arrived \in Seq(Events), arrived' = Append(arrived, e)
  PROVE  /\ Arrived' = Arrived \cup {e}
         /\ \A c, d : Before(c, d) => Before(c, d)'
         /\ \A d \in Arrived : Before(d, e)'
<1>. DEFINE n == Len(arrived)
<1>1. /\ n \in Nat /\ DOMAIN arrived = 1 .. n /\ DOMAIN arrived' = 1 .. n + 1
      /\ arrived'[n + 1] = e
      /\ \A i \in 1 .. n : arrived'[i] = arrived[i]
  OBVIOUS
<1>. HIDE DEF n
<1>2. Arrived' = Arrived \cup {e}
  BY <1>1 DEF Arrived
<1>3. ASSUME NEW c, NEW d, Before(c, d) PROVE Before(c, d)'
  BY <1>1, <1>3 DEF Before
<1>4. ASSUME NEW d \in Arrived PROVE Before(d, e)'
  <2>1. PICK i \in 1 .. n : arrived[i] = d
    BY <1>1 DEF Arrived
  <2>2. i < n + 1 /\ i \in DOMAIN arrived' /\ n + 1 \in DOMAIN arrived' /\ arrived'[i] = d
    BY <1>1, <2>1
  <2>3. QED BY <1>1, <2>2 DEF Before
<1>5. QED BY <1>2, <1>3, <1>4

LEMMA ArriveOrder ==
  ASSUME TypeOK, OrderInv, NEW e \in Events, Arrive(e)
  PROVE  OrderInv'
<1>1. /\ sending' = sending /\ result' = result /\ e \notin Arrived
      /\ sending[e] # "none"
  BY DEF Arrive
<1>2. /\ Arrived' = Arrived \cup {e}
      /\ \A c, d : Before(c, d) => Before(c, d)'
      /\ \A d \in Arrived : Before(d, e)'
  BY Appended DEF TypeOK, Arrive
<1>3. CallsInOrder'
  BY <1>1, <1>2 DEF OrderInv, CallsInOrder
<1>4. OkHasArrived'
  BY <1>1, <1>2 DEF OrderInv, OkHasArrived
<1>5. ASSUME NEW d \in Events, result[d] = "nil", NEW f \in Arrived', f > d
      PROVE  d \in Arrived' /\ Before(d, f)'
  <2>1. d \in Arrived
    BY <1>5 DEF OrderInv, NilMeansInOrder
  <2>2. CASE f \in Arrived
    BY <1>2, <1>5, <2>1, <2>2 DEF OrderInv, NilMeansInOrder
  <2>3. CASE f = e
    BY <1>2, <2>1, <2>3
  <2>4. QED BY <1>2, <2>1, <2>2, <2>3
<1>6. NilMeansInOrder'
  BY <1>1, <1>2, <1>5 DEF OrderInv, NilMeansInOrder
<1>7. QED BY <1>3, <1>4, <1>6 DEF OrderInv

\* The steps that leave the provider alone.
LEMMA SendOrder ==
  ASSUME TypeOK, OrderInv, NEW e \in Events, SendReturns(e) \/ Put(e)
  PROVE  OrderInv'
<1>1. /\ result' = result /\ arrived' = arrived /\ sending[e] # "none"
      /\ \A d \in Events : d # e => sending'[d] = sending[d]
      /\ sending'[e] = "ok" => e \in Arrived
  BY DEF TypeOK, SendReturns, Put
<1>2. Arrived' = Arrived /\ \A c, d : Before(c, d)' = Before(c, d)
  BY <1>1 DEF Arrived, Before
<1>3. CallsInOrder'
  BY <1>1, <1>2 DEF OrderInv, CallsInOrder
<1>4. OkHasArrived' /\ NilMeansInOrder'
  BY <1>1, <1>2 DEF OrderInv, OkHasArrived, NilMeansInOrder
<1>5. QED BY <1>3, <1>4 DEF OrderInv

LEMMA ReturnOrder ==
  ASSUME TypeOK, OrderInv, NEW e \in Events, Receive(e) \/ TimesOut(e)
  PROVE  OrderInv'
<1>1. /\ sending' = sending /\ arrived' = arrived /\ result[e] = "waiting"
      /\ \A d \in Events : d # e => result'[d] = result[d]
      /\ result'[e] \in Returned
      /\ result'[e] = "nil" => sending[e] = "ok"
  BY DEF TypeOK, Receive, TimesOut, OutcomeOf, Returned
<1>2. Arrived' = Arrived /\ \A c, d : Before(c, d)' = Before(c, d)
  BY <1>1 DEF Arrived, Before
<1>3. \A d \in Events : d > e => d \notin Arrived
  BY <1>1 DEF OrderInv, CallsInOrder, Events
<1>4. CallsInOrder'
  BY <1>1, <1>2 DEF OrderInv, CallsInOrder, Returned
<1>5. OkHasArrived'
  BY <1>1, <1>2 DEF OrderInv, OkHasArrived
<1>6. ASSUME NEW d \in Events, result'[d] = "nil"
      PROVE  d \in Arrived /\ \A f \in Arrived : f > d => Before(d, f)
  <2>1. CASE d = e
    <3>1. e \in Arrived
      BY <1>1, <1>6, <2>1 DEF OrderInv, OkHasArrived
    <3>2. ASSUME NEW f \in Arrived PROVE ~(f > e)
      BY <1>3, ArrivedEvents
    <3>3. QED BY <2>1, <3>1, <3>2
  <2>2. CASE d # e
    BY <1>1, <1>6, <2>2 DEF OrderInv, NilMeansInOrder
  <2>3. QED BY <2>1, <2>2
<1>7. NilMeansInOrder'
  BY <1>2, <1>6 DEF NilMeansInOrder
<1>8. QED BY <1>4, <1>5, <1>7 DEF OrderInv

LEMMA NotifyOrder ==
  ASSUME TypeOK, OrderInv, NEW g \in Passes, Notify(g)
  PROVE  OrderInv'
<1>1. PICK e \in Events :
        /\ result[e] = "none"
        /\ \A d \in 1 .. e - 1 : result[d] # "none"
        /\ sending' = [sending EXCEPT ![e] = "busy"]
        /\ result' = [result EXCEPT ![e] = "waiting"]
  BY DEF Notify, AfterSend
<1>2. arrived' = arrived /\ \A d \in Events : result[d] # "waiting"
  BY DEF Notify, Waiting
<1>3. /\ \A d \in Events : sending'[d] = IF d = e THEN "busy" ELSE sending[d]
      /\ \A d \in Events : result'[d] = IF d = e THEN "waiting" ELSE result[d]
  BY <1>1 DEF TypeOK
<1>4. Arrived' = Arrived /\ \A c, d : Before(c, d)' = Before(c, d)
  BY <1>2 DEF Arrived, Before
<1>5. \A d \in Events : d < e => result[d] # "none"
  BY <1>1 DEF Events
<1>6. \A d \in Events : d > e => result[d] = "none"
  BY <1>1 DEF OrderInv, CallsInOrder, Events
<1>7. CallsInOrder'
  <2>1. ASSUME NEW f \in Events, NEW d \in Events, result'[f] # "none", d < f
        PROVE  result'[d] \notin {"none", "waiting"}
    <3>1. CASE f = e
      BY <1>2, <1>3, <1>5, <2>1, <3>1 DEF Events
    <3>2. CASE f # e
      <4>1. f < e
        BY <1>3, <1>6, <2>1, <3>2 DEF Events
      <4>2. d # e
        BY <2>1, <4>1 DEF Events
      <4>3. QED BY <1>3, <2>1, <3>2, <4>2 DEF OrderInv, CallsInOrder
    <3>3. QED BY <3>1, <3>2
  <2>2. QED BY <1>3, <1>4, <2>1 DEF OrderInv, CallsInOrder
<1>8. OkHasArrived' /\ NilMeansInOrder'
  BY <1>3, <1>4 DEF OrderInv, OkHasArrived, NilMeansInOrder
<1>9. QED BY <1>7, <1>8 DEF OrderInv

LEMMA EndOrder == ASSUME TypeOK, OrderInv, NotifierEnds PROVE OrderInv'
<1>1. /\ arrived' = arrived
      /\ \A e \in Events : sending'[e] = "none"
      /\ \A e \in Events : result'[e] = IF result[e] = "waiting" THEN "lost" ELSE result[e]
  BY DEF NotifierEnds
<1>2. Arrived' = Arrived /\ \A c, d : Before(c, d)' = Before(c, d)
  BY <1>1 DEF Arrived, Before
<1>3. CallsInOrder'
  BY <1>1, <1>2 DEF OrderInv, CallsInOrder
<1>4. OkHasArrived' /\ NilMeansInOrder'
  BY <1>1, <1>2 DEF OrderInv, OkHasArrived, NilMeansInOrder
<1>5. QED BY <1>3, <1>4 DEF OrderInv

LEMMA NextOrder == ASSUME TypeOK, OrderInv, [Next]_vars PROVE OrderInv'
<1>1. CASE UNCHANGED notifierVars
  BY <1>1 DEF notifierVars, OrderInv, CallsInOrder, OkHasArrived, NilMeansInOrder, Arrived, Before
<1>2. CASE NotifierStep
  BY <1>2, ArriveOrder, SendOrder, ReturnOrder DEF NotifierStep
<1>3. CASE NotifierEnds
  BY <1>3, EndOrder
<1>4. CASE \E g \in Passes : Notify(g)
  BY <1>4, NotifyOrder
<1>5. UNCHANGED notifierVars \/ NotifierStep \/ NotifierEnds \/ \E g \in Passes : Notify(g)
  BY DEF Next, vars, StartFails, Start, Signal, ServeFailed, Exit, TickerFires, CronFires,
         RunStep, IntervalTick, IntervalTickReturns, RunCancelled, CronDrained, Emit, Finish,
         Handle, ServeStep, Outside, Ended
<1>6. QED BY <1>1, <1>2, <1>3, <1>4, <1>5

\* shoutrrr.go, Notify: whatever times out and however late the provider is, an
\* event whose Notify returned nil is with the provider before every later one.
THEOREM NilIsInOrder == Spec => []NilMeansInOrder
<1>1. OrderInv => NilMeansInOrder
  BY DEF OrderInv
<1>2. QED
  BY <1>1, InitOrder, NextOrder, DaemonTypes, PTL DEF Spec
-----------------------------------------------------------------------------
(***************************************************************************)
(* The process against PassSchedule.                                       *)
(***************************************************************************)
\* Nothing of the process outlasts main or precedes it.
OutsideMain ==
  main # "running" =>
    /\ run \in {"off", "returned", "failed"}
    /\ \A g \in Passes : ~Active(g)
    /\ serve = "off" /\ errCh # "empty"
    /\ \A r \in Requests : request[r] \notin InFlight

\* Run returns because the context is cancelled, or because its schedule is bad.
WhyReturned ==
  /\ main = "starting" => ctx = "live"
  /\ ~config.cron => config.parses
  /\ run \in {"draining", "returned"} => ctx = "cancelled"
  /\ run = "failed" => ~config.parses
  /\ ~config.parses => run \in {"off", "failed"}

ScheduleInv == OutsideMain /\ WhyReturned

\* The API takes a request only while it listens, and it does only under main.
LEMMA ApiUnderMain ==
  ASSUME TypeOK, OutsideMain, ApiStep, UNCHANGED <<main, run, pass>>
  PROVE  OutsideMain'
<1>. USE DEF OutsideMain, Active
<1>1. CASE Listen \/ AcceptFails \/ ServeFails \/ ServeCancelled
           \/ \E timeIsUp \in BOOLEAN : ServeStops(timeIsUp)
  BY <1>1 DEF Listen, AcceptFails, ServeFails, ServeCancelled, ServeStops
<1>2. ASSUME NEW r \in Requests,
             Arrives(r) \/ NotFound(r) \/ WritesAccepted(r) \/ AnswersAtOnce(r)
      PROVE  OutsideMain'
  BY <1>2 DEF TypeOK, Arrives, NotFound, WritesAccepted, AnswersAtOnce, InFlight
<1>3. QED BY <1>1, <1>2 DEF ApiStep

LEMMA ScheduleInvStep ==
  IInv /\ ScheduleInv /\ [Next]_vars => ScheduleInv'
<1>. SUFFICES ASSUME IInv, ScheduleInv, [Next]_vars PROVE ScheduleInv'
  OBVIOUS
<1>. USE DEF ScheduleInv
<1>1. CASE StartFails \/ Start \/ Signal \/ ServeFailed
  BY <1>1 DEF IInv, RunInv, OutsideMain, WhyReturned, Active, StartFails, Start, Signal, ServeFailed,
              Cancel, apiVars
<1>2. CASE Exit
  <2>1. OutsideMain'
    BY <1>2 DEF IInv, TypeOK, OutsideMain, Active, Exit, ApiEnds, InFlight
  <2>2. WhyReturned'
    BY <1>2 DEF WhyReturned, Exit
  <2>3. QED BY <2>1, <2>2
<1>3. CASE IntervalTick \/ CronFires
  BY <1>3 DEF OutsideMain, WhyReturned, IntervalTick, CallTick, CronFires, mainVars
<1>4. CASE TickerFires \/ IntervalTickReturns \/ RunCancelled \/ CronDrained
  BY <1>4 DEF OutsideMain, WhyReturned, Active, TickerFires, IntervalTickReturns, RunCancelled,
              StopCron, CronDrained, apiVars
<1>5. ASSUME NEW g \in Passes, Emit(g) \/ Finish(g) PROVE ScheduleInv'
  BY <1>5 DEF OutsideMain, WhyReturned, Emit, Finish, mainVars, apiVars
<1>6. ASSUME NEW r \in Requests, Handle(r) PROVE ScheduleInv'
  <2>1. WhyReturned'
    BY <1>6 DEF WhyReturned, Handle, mainVars
  <2>2. CASE CallsWatcher(r) /\ Trigger(r)
    <3>1. main = "running" /\ main' = main
      BY <1>6, <2>2 DEF OutsideMain, Handle, CallsWatcher, InFlight, mainVars
    <3>2. QED BY <2>1, <3>1 DEF OutsideMain
  <2>3. CASE (NotFound(r) \/ WritesAccepted(r) \/ AnswersAtOnce(r)) /\ UNCHANGED pass
    BY <1>6, <2>1, <2>3, ApiUnderMain DEF IInv, Handle, ApiStep, mainVars
  <2>4. QED BY <1>6, <2>2, <2>3 DEF Handle
<1>7. CASE ServeStep \/ Outside
  <2>1. UNCHANGED <<mainVars, pass>> /\ (ApiStep \/ UNCHANGED apiVars)
    BY <1>7 DEF ServeStep, Outside, ApiStep
  <2>2. WhyReturned'
    BY <2>1 DEF WhyReturned, mainVars
  <2>3. OutsideMain'
    <3>1. CASE ApiStep
      BY <2>1, <3>1, ApiUnderMain DEF IInv, mainVars
    <3>2. CASE UNCHANGED apiVars
      BY <2>1, <3>2 DEF OutsideMain, Active, mainVars, apiVars
    <3>3. QED BY <2>1, <3>1, <3>2
  <2>4. QED BY <2>2, <2>3
<1>8. CASE Ended \/ UNCHANGED vars
  BY <1>8 DEF Ended, vars, mainVars, apiVars, OutsideMain, WhyReturned, Active
<1>9. QED
  BY <1>1, <1>2, <1>3, <1>4, <1>5, <1>6, <1>7, <1>8 DEF Next, RunStep

schedule == IF ~config.cron THEN "interval" ELSE IF config.parses THEN "cron" ELSE "invalid"
phase == IF main # "running" THEN "down" ELSE IF ctx = "live" THEN "up" ELSE "cancelled"
ticks == ActiveOf(Ticks)
asked == ActiveOf(Requests)

LEMMA ScheduleStep ==
  IInv /\ ScheduleInv /\ [Next]_vars => [Schedule!Next]_(Schedule!vars)
<1>. SUFFICES ASSUME IInv, ScheduleInv, [Next]_vars PROVE [Schedule!Next]_(Schedule!vars)
  OBVIOUS
<1>0. /\ UNCHANGED <<main, ctx, config>> => UNCHANGED <<schedule, phase>>
      /\ UNCHANGED pass => UNCHANGED <<ticks, asked>>
  BY DEF schedule, phase, ticks, asked, ActiveOf, Active
<1>. USE DEF schedule, phase, ticks, asked
<1>1. CASE UNCHANGED <<main, ctx, config, pass>>
  BY <1>0, <1>1 DEF Schedule!vars
<1>2. CASE StartFails \/ Start \/ Signal \/ ServeFailed
  <2>1. UNCHANGED <<config, pass>>
    BY <1>2 DEF StartFails, Start, Signal, ServeFailed
  <2>2. \/ phase = "down" /\ phase' = "up"
        \/ phase = "up" /\ phase' = "cancelled"
        \/ phase' = phase
    BY <1>2 DEF ScheduleInv, WhyReturned, IInv, TypeOK, StartFails, Start, Signal, ServeFailed, Cancel
  <2>3. UNCHANGED <<schedule, ticks, asked>>
    BY <1>0, <2>1
  <2>4. QED BY <2>2, <2>3 DEF Schedule!Next, Schedule!Start, Schedule!Cancel, Schedule!vars
<1>3. CASE Exit
  <2>1. ticks = {} /\ ticks' = {} /\ asked' = {}
    BY <1>3, DaemonAssumption DEF IInv, RunInv, Exit, TickActive, Active, ActiveOf, Passes
  <2>2. phase = "cancelled" \/ (phase = "up" /\ schedule = "invalid")
    BY <1>3 DEF ScheduleInv, WhyReturned, IInv, TypeOK, Exit
  <2>3. phase' = "down" /\ schedule' = schedule
    BY <1>3 DEF Exit
  <2>4. QED BY <2>1, <2>2, <2>3 DEF Schedule!Next, Schedule!Exit
<1>4. CASE IntervalTick \/ CronFires
  <2>1. PICK t \in Ticks : pass[t] = "unstarted" /\ pass' = [pass EXCEPT ![t] = "work"]
    BY <1>4 DEF IntervalTick, CronFires, StartTick, StartPass
  <2>2. ticks' = ticks \cup {t} /\ asked' = asked /\ t \notin ticks \cup asked
    BY <2>1, DaemonAssumption DEF IInv, TypeOK, ActiveOf, Active, Passes
  <2>3. phase # "down" /\ UNCHANGED <<schedule, phase>>
    BY <1>0, <1>4 DEF ScheduleInv, OutsideMain, IntervalTick, CronFires, mainVars
  <2>4. schedule = "cron" \/ (schedule = "interval" /\ ticks = {})
    BY <1>4 DEF ScheduleInv, WhyReturned, IInv, RunInv, IntervalTick, CronFires, TickActive, ActiveOf
  <2>5. Schedule!BeginTick(t)
    BY <2>2, <2>3, <2>4 DEF Schedule!BeginTick
  <2>6. QED BY <2>5 DEF Schedule!Next, Passes
<1>5. ASSUME NEW r \in Requests, CallsWatcher(r), Trigger(r), UNCHANGED mainVars
      PROVE  [Schedule!Next]_(Schedule!vars)
  <2>1. pass[r] = "unstarted" /\ pass' = [pass EXCEPT ![r] = "work"]
    BY <1>5 DEF Trigger, StartPass
  <2>2. asked' = asked \cup {r} /\ ticks' = ticks /\ r \notin ticks \cup asked
    BY <2>1, DaemonAssumption DEF IInv, TypeOK, ActiveOf, Active, Passes
  <2>3. phase # "down" /\ UNCHANGED <<schedule, phase>>
    BY <1>0, <1>5 DEF ScheduleInv, OutsideMain, CallsWatcher, InFlight, mainVars
  <2>4. Schedule!BeginAsked(r)
    BY <2>2, <2>3 DEF Schedule!BeginAsked
  <2>5. QED BY <2>4 DEF Schedule!Next, Passes
<1>6. ASSUME NEW g \in Passes, Finish(g) PROVE [Schedule!Next]_(Schedule!vars)
  <2>1. ticks' = ticks \ {g} /\ asked' = asked \ {g} /\ g \in ticks \cup asked
    BY <1>6 DEF IInv, TypeOK, Finish, ActiveOf, Active, Passes
  <2>2. UNCHANGED <<schedule, phase>>
    BY <1>0, <1>6 DEF Finish, mainVars
  <2>3. QED BY <2>1, <2>2 DEF Schedule!Next, Schedule!End
<1>7. CASE \E g \in Passes : Emit(g)
  BY <1>1, <1>7 DEF Emit, mainVars
<1>8. CASE \E r \in Requests : Handle(r)
  BY <1>1, <1>5, <1>8 DEF Handle, mainVars
<1>9. CASE \/ TickerFires \/ IntervalTickReturns \/ RunCancelled \/ CronDrained
           \/ ServeStep \/ Outside \/ Ended \/ UNCHANGED vars
  BY <1>1, <1>9 DEF TickerFires, IntervalTickReturns, RunCancelled, CronDrained, ServeStep, Outside,
     Ended, vars, mainVars
<1>10. QED
  BY <1>2, <1>3, <1>4, <1>6, <1>7, <1>8, <1>9 DEF Next, RunStep

(***************************************************************************)
(* The process, with main, both schedulers and the API in full, implements *)
(* the schedule that OpenWatch implements too: for any number of ticks and *)
(* requests, passes begin only under a running main, ticks of runInterval  *)
(* one at a time, and main returns in no tick's middle and only when the   *)
(* context was cancelled or cron could not parse the schedule.             *)
(***************************************************************************)
THEOREM DaemonFollowsSchedule == Spec => FollowsSchedule
<1>1. Init => Schedule!Init /\ ScheduleInv
  BY DEF Init, ApiInit, Schedule!Init, ActiveOf, Active, Passes, ScheduleInv, OutsideMain,
         WhyReturned, InFlight
<1>2. QED
  BY <1>1, DaemonInvariant, ScheduleInvStep, ScheduleStep, PTL DEF Spec, FollowsSchedule, Schedule!Spec
=============================================================================
