------------------------------ MODULE Notifier ------------------------------
(***************************************************************************)
(* How events reach the operator (src/internal/notify/shoutrrr.go): Notify *)
(* sends on a goroutine of its own and waits for its answer for at most    *)
(* notifyTimeout.  The provider, and shoutrrr's router with a timeout of   *)
(* its own, are outside src/.  A time limit is a step that can happen at   *)
(* any moment of the wait: the provider answers as late as it likes.  The  *)
(* module follows the events of one goroutine, whichever that is: the      *)
(* calls of others share nothing with its own.                             *)
(***************************************************************************)
EXTENDS Naturals, Sequences

CONSTANT MaxEvents   \* bound: how many events are sent

ASSUME NotifierAssumption == MaxEvents \in Nat

Events == 1 .. MaxEvents

VARIABLES
  caller,   \* the goroutine whose events are followed
  sending,  \* sending[e], for its e-th event: the goroutine that sends it:
            \* "none", "busy" in Send, "holding" its errors, or what it put into
            \* the channel: "ok" or "errors"
  result,   \* result[e]: "none", "waiting", or what Notify returned: "nil",
            \* "failed" or "timeout"; "lost" with the process
  arrived   \* the events that reached the provider, in order

notifierVars == <<caller, sending, result, arrived>>

NotifierInit ==
  /\ sending = [e \in Events |-> "none"]
  /\ result = [e \in Events |-> "none"]
  /\ arrived = <<>>

Returned == {"nil", "failed", "timeout"}

Arrived == {arrived[i] : i \in DOMAIN arrived}

\* Goroutine c is in a call of Notify.
Waiting(c) == c = caller /\ \E e \in Events : result[e] = "waiting"

\* The call begins; without the wait, it is over at once.
AfterSendAsync == "nil"
AfterSend == "waiting"

Notify(c) ==
  /\ c = caller
  /\ ~Waiting(c)
  /\ \E e \in Events :
       /\ result[e] = "none"
       /\ \A d \in 1 .. e - 1 : result[d] # "none"
       /\ sending' = [sending EXCEPT ![e] = "busy"]
       /\ result' = [result EXCEPT ![e] = AfterSend]
  /\ UNCHANGED <<caller, arrived>>

\* The provider takes the event: while the router waits for it, or after the
\* router gave up, whose request is still under way.
Arrive(e) ==
  /\ sending[e] \in {"busy", "holding", "errors"}
  /\ e \notin Arrived
  /\ arrived' = Append(arrived, e)
  /\ UNCHANGED <<caller, sending, result>>

\* Send returns.
SendReturns(e) ==
  /\ sending[e] = "busy"
  /\ sending' = [sending EXCEPT ![e] = "holding"]
  /\ UNCHANGED <<caller, result, arrived>>

\* The channel has a slot for the errors whether or not Notify still waits for
\* them; an unbuffered one has none once it does not.
RoomUnbuffered(e) == result[e] = "waiting"
Room(e) == TRUE

\* The goroutine puts the errors into the channel and ends: no errors, or those
\* of a provider that refused, could not be reached, or was too slow for the
\* router (and may have the event nevertheless).
Put(e) ==
  /\ sending[e] = "holding"
  /\ Room(e)
  /\ \E s \in {"errors"} \cup (IF e \in Arrived THEN {"ok"} ELSE {}) :
       sending' = [sending EXCEPT ![e] = s]
  /\ UNCHANGED <<caller, result, arrived>>

\* How the errors of the services are counted.
OutcomeOfIgnored(s) == "nil"
OutcomeOf(s) == IF s = "ok" THEN "nil" ELSE "failed"

\* The select of Notify.
Receive(e) ==
  /\ result[e] = "waiting"
  /\ sending[e] \in {"ok", "errors"}
  /\ result' = [result EXCEPT ![e] = OutcomeOf(sending[e])]
  /\ UNCHANGED <<caller, sending, arrived>>

TimeoutNever(e) == FALSE
TimeIsUp(e) == TRUE

TimesOut(e) ==
  /\ result[e] = "waiting"
  /\ TimeIsUp(e)
  /\ result' = [result EXCEPT ![e] = "timeout"]
  /\ UNCHANGED <<caller, sending, arrived>>

NotifierStep == \E e \in Events : Arrive(e) \/ SendReturns(e) \/ Put(e) \/ Receive(e) \/ TimesOut(e)

\* The process ends, with its goroutines.
NotifierEnds ==
  /\ sending' = [e \in Events |-> "none"]
  /\ result' = [e \in Events |-> IF result[e] = "waiting" THEN "lost" ELSE result[e]]
  /\ UNCHANGED <<caller, arrived>>

=============================================================================
