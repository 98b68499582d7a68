---------------------------- MODULE PassSchedule -----------------------------
(***************************************************************************)
(* Abstract: when passes may begin and when the process may end, for       *)
(* whoever knows the daemon as a schedule, requests and a signal.  Daemon  *)
(* implements it with main, both schedulers, the API and its listener.     *)
(***************************************************************************)
CONSTANT Passes  \* goroutines that can run a pass

VARIABLES
  schedule,  \* "interval", "cron", or "invalid", which cron cannot parse
  phase,     \* the process: "down", "up", or "cancelled", its context being so
  ticks,     \* the passes that the scheduler began and that still run
  asked      \* the passes that the API began and that still run

vars == <<schedule, phase, ticks, asked>>

Init ==
  /\ schedule \in {"interval", "cron", "invalid"}
  /\ phase \in {"down", "up"}
  /\ ticks = {}
  /\ asked = {}

Start ==
  /\ phase = "down"
  /\ phase' = "up"
  /\ UNCHANGED <<schedule, ticks, asked>>

\* With an interval a tick begins only after the previous one has ended; also
\* when the context has been cancelled, which its select may overlook.
BeginTick(p) ==
  /\ phase # "down"
  /\ p \notin ticks \cup asked
  /\ schedule = "cron" \/ (schedule = "interval" /\ ticks = {})
  /\ ticks' = ticks \cup {p}
  /\ UNCHANGED <<schedule, phase, asked>>

\* A request may reach its handler until the process is gone.
BeginAsked(p) ==
  /\ phase # "down"
  /\ p \notin ticks \cup asked
  /\ asked' = asked \cup {p}
  /\ UNCHANGED <<schedule, phase, ticks>>

End(p) ==
  /\ p \in ticks \cup asked
  /\ ticks' = ticks \ {p}
  /\ asked' = asked \ {p}
  /\ UNCHANGED <<schedule, phase>>

\* A signal, or a listener that fails.
Cancel ==
  /\ phase = "up"
  /\ phase' = "cancelled"
  /\ UNCHANGED <<schedule, ticks, asked>>

\* The process returns from main in no tick's middle, and not of its own accord
\* unless it has no schedule; the passes that the API began are cut.
Exit ==
  /\ phase = "cancelled" \/ (phase = "up" /\ schedule = "invalid")
  /\ ticks = {}
  /\ phase' = "down"
  /\ asked' = {}
  /\ UNCHANGED <<schedule, ticks>>

Next ==
  \/ Start \/ Cancel \/ Exit
  \/ \E p \in Passes : BeginTick(p) \/ BeginAsked(p) \/ End(p)

Spec == Init /\ [][Next]_vars
==============================================================================
