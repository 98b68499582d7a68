----------------------------- MODULE ServiceSlot -----------------------------
(***************************************************************************)
(* What OpenWatch promises for each container name, whatever its passes do *)
(* in between: the container under a name changes only while the name is   *)
(* being updated, only names that may be managed are, and an update ends   *)
(* with a container in service or with the operator told, or able to see,  *)
(* why there is none.  OpenWatch implements this specification.            *)
(***************************************************************************)
CONSTANTS
  Names,      \* container names
  Managed,    \* names that may be updated
  Containers  \* what can be under a name

VARIABLES
  service,    \* service[n]: "serving", "updating", or how it was left behind
  container   \* container[n]: the container called n

vars == <<service, container>>

\* An event was sent, the process ended first, or the operator took it away.
LeftBehind == {"sent", "lost", "operator"}
Outcomes == {"serving"} \cup LeftBehind

Init ==
  /\ service = [n \in Names |-> "serving"]
  /\ container \in [Names -> Containers]

\* Nothing but the container under n changes.
OnlyAt(n) ==
  /\ container' \in [Names -> Containers]
  /\ \A m \in Names \ {n} : container'[m] = container[m]

\* An update of n begins, replaces the container any number of times (itself
\* and its rollback), and ends.
Begin(n) ==
  /\ n \in Managed
  /\ service[n] # "updating"
  /\ service' = [service EXCEPT ![n] = "updating"]
  /\ UNCHANGED container

Replace(n) ==
  /\ service[n] = "updating"
  /\ OnlyAt(n)
  /\ UNCHANGED service

Finish(n) ==
  /\ service[n] = "updating"
  /\ \E outcome \in Outcomes : service' = [service EXCEPT ![n] = outcome]
  /\ UNCHANGED container

\* The process ends, and every update with it.
Abandon ==
  /\ service' \in [Names -> Outcomes]
  /\ \A n \in Names : service[n] # "updating" => service'[n] = service[n]
  /\ UNCHANGED container

\* The operator takes the container away, during an update or outside one.
TakenAway(n) ==
  /\ OnlyAt(n)
  /\ service' = [service EXCEPT ![n] = IF @ = "updating" THEN @ ELSE "operator"]

Next ==
  \/ \E n \in Names : Begin(n) \/ Replace(n) \/ Finish(n) \/ TakenAway(n)
  \/ Abandon

Spec == Init /\ [][Next]_vars
=============================================================================
