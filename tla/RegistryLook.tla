---------------------------- MODULE RegistryLook ----------------------------
(***************************************************************************)
(* What a comparison with the registry promises, whatever requests it      *)
(* takes: at one moment while it runs it looks at the release that the tag *)
(* points at, and its verdict is about that release.  Watcher's StartUpdate *)
(* and CheckEnds are built on this; ManifestCheck implements it.           *)
(***************************************************************************)
CONSTANTS
  Releases,  \* what the tag can point at
  Local      \* the release that the container runs

VARIABLES
  tag,       \* the release that the registry serves now
  seen,      \* the release that the look found: {} until then
  verdict    \* what the comparison found

vars == <<tag, seen, verdict>>

About(r) == IF r = Local THEN "up_to_date" ELSE "outdated"

Init == tag \in Releases /\ seen = {} /\ verdict = "none"

Move == tag' \in Releases /\ UNCHANGED <<seen, verdict>>

\* The verdict may take more requests, which no longer depend on the tag.
Look ==
  /\ seen = {} /\ verdict = "none"
  /\ seen' = {tag}
  /\ verdict' \in {"none", About(tag)}
  /\ UNCHANGED tag

Decide ==
  /\ verdict = "none"
  /\ \E r \in seen : verdict' = About(r)
  /\ UNCHANGED <<tag, seen>>

Fail ==
  /\ verdict = "none"
  /\ verdict' = "failed"
  /\ seen' = {}
  /\ UNCHANGED tag

Next == Move \/ Look \/ Decide \/ Fail

Spec == Init /\ [][Next]_vars
=============================================================================
