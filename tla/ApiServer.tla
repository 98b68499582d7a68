------------------------------ MODULE ApiServer ------------------------------
(***************************************************************************)
(* The HTTP API (src/internal/api/server.go): Serve with its listener, its *)
(* goroutine and its bounded shutdown, and the handlers.  What a handler   *)
(* asks of the watcher is a parameter: Daemon, which composes the two,     *)
(* provides it.  net/http is outside src/.                                 *)
(***************************************************************************)
CONSTANT Requests   \* HTTP requests

VARIABLES
  serve,    \* Serve: "off", "listen", "select", "shutdown", "stopped" (it
            \* returned nil) or "failed" (it returned an error)
  errCh,    \* the channel of the goroutine that accepts connections:
            \* "none" (no goroutine, or one that ended), "empty" or "error"
  request   \* request[r]: "unsent", what it asks for ("update", "updateByName"
            \* or "other") while its handler has not decided, "accepting" once
            \* it asked the watcher, or the answer: "accepted",
            \* "notFound", "other answer"; "cut" when there will be none

apiVars == <<serve, errCh, request>>

Answers == {"accepted", "notFound", "other answer"}
InFlight == {"update", "updateByName", "other", "accepting"}

ApiInit ==
  /\ serve = "off"
  /\ errCh = "none"
  /\ request = [r \in Requests |-> "unsent"]

\* The port is taken, or the goroutine starts to accept connections.
Listen ==
  /\ serve = "listen"
  /\ \/ serve' = "failed" /\ UNCHANGED errCh
     \/ serve' = "select" /\ errCh' = "empty"
  /\ UNCHANGED request

\* On a new connection, or on one that is kept alive when accepting has failed.
Arrives(r) ==
  /\ errCh # "none" /\ serve \in {"select", "failed"}
  /\ request[r] = "unsent"
  /\ \E asks \in {"update", "updateByName", "other"} : request' = [request EXCEPT ![r] = asks]
  /\ UNCHANGED <<serve, errCh>>

\* handleUpdateAll and handleUpdateByName up to the call of the watcher, which
\* finds the container or not.
CallsWatcher(r) ==
  /\ request[r] \in {"update", "updateByName"}
  /\ request' = [request EXCEPT ![r] = "accepting"]
  /\ UNCHANGED <<serve, errCh>>

NotFound(r) ==
  /\ request[r] = "updateByName"
  /\ request' = [request EXCEPT ![r] = "notFound"]
  /\ UNCHANGED <<serve, errCh>>

\* The 202, after the call; and the answers without one: the reading endpoints,
\* wrong methods, wrong paths and an empty name.
WritesAccepted(r) ==
  /\ request[r] = "accepting"
  /\ request' = [request EXCEPT ![r] = "accepted"]
  /\ UNCHANGED <<serve, errCh>>

AnswersAtOnce(r) ==
  /\ request[r] = "other"
  /\ request' = [request EXCEPT ![r] = "other answer"]
  /\ UNCHANGED <<serve, errCh>>

\* Accepting fails for good.
AcceptFails ==
  /\ errCh = "empty"
  /\ errCh' = "error"
  /\ UNCHANGED <<serve, request>>

\* The select of Serve, one case or the other when both are ready: Shutdown
\* closes the listener, which ends the goroutine with ErrServerClosed.
ServeCancelled ==
  /\ serve = "select"
  /\ serve' = "shutdown"
  /\ errCh' = IF errCh = "empty" THEN "none" ELSE errCh
  /\ UNCHANGED request

ServeFails ==
  /\ serve = "select"
  /\ errCh = "error"
  /\ serve' = "failed"
  /\ UNCHANGED <<errCh, request>>

\* Shutdown waits for the requests in flight, until shutdownTimeout.
ServeStops(timeIsUp) ==
  /\ serve = "shutdown"
  /\ timeIsUp \/ \A r \in Requests : request[r] \notin InFlight
  /\ serve' = "stopped"
  /\ UNCHANGED <<errCh, request>>

\* The process ends: connections are closed with whatever they carry.
ApiEnds ==
  /\ serve' = "off"
  /\ errCh' = "none"
  /\ request' = [r \in Requests |-> IF request[r] \in InFlight THEN "cut" ELSE request[r]]
=============================================================================
