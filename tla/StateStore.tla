----------------------------- MODULE StateStore -----------------------------
(***************************************************************************)
(* The in-memory store that the watcher writes and the HTTP API reads      *)
(* (src/internal/updater/state.go).  Every method of the Go type holds the *)
(* store's lock from its first to its last line, so each is one step.  An  *)
(* entry keeps the status and whether last_updated was ever stamped; the   *)
(* name is the key, and the other timestamps and the image are left out.   *)
(***************************************************************************)

CONSTANT Names   \* the container names that entries are kept under

\* A name without an entry has status "untracked".
Statuses == {"untracked", "up_to_date", "updating", "unknown"}

NoEntry == [status |-> "untracked", updated |-> FALSE]

Stores == [Names -> [status: Statuses, updated: BOOLEAN]]

EmptyStore == [n \in Names |-> NoEntry]

Has(store, n) == store[n].status # "untracked"

\* MarkChecked with the reset of last_updated that an entry rebuilt from
\* scratch, instead of copied from the map, would bring.
MarkCheckedFresh(store, n, s) ==
  [store EXCEPT ![n] = [status |-> s, updated |-> FALSE]]

\* MarkChecked that spares the entry of an update in flight, as a guard against
\* the check of another pass would: the update's own failures are lost too.
MarkCheckedSparing(store, n, s) ==
  [store EXCEPT ![n].status = IF @ = "updating" THEN @ ELSE s]

\* A check of n ended with status s; last_updated is kept.
MarkChecked(store, n, s) == [store EXCEPT ![n].status = s]

\* The call that announces an update, left out.
MarkUpdatingNot(store, n) == store

\* A pull of n is about to start.
MarkUpdating(store, n) == [store EXCEPT ![n].status = "updating"]

\* The metric's "success" where the status' "up_to_date" belongs.
MarkUpdatedSuccess(store, n) ==
  [store EXCEPT ![n] = [status |-> "success", updated |-> TRUE]]

\* An update of n succeeded.
MarkUpdated(store, n) ==
  [store EXCEPT ![n] = [status |-> "up_to_date", updated |-> TRUE]]

\* Drop the entries that the latest listing did not see.
Prune(store, keep) ==
  [n \in Names |-> IF n \in keep THEN store[n] ELSE NoEntry]
=============================================================================
