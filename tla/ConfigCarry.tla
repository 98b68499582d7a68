----------------------------- MODULE ConfigCarry -----------------------------
(***************************************************************************)
(* How the configuration of a container is carried through its updates:    *)
(* Recreate's reconciliation of the image-inherited fields                 *)
(* (src/internal/docker/reconcile.go, container.go), update after update,  *)
(* until a rollback ends the sequence (src/internal/updater/rollback.go).  *)
(* The environment is modelled entry by entry; one field stands for Cmd,   *)
(* Entrypoint, WorkingDir and User, which are compared and taken as a      *)
(* whole.                                                                  *)
(***************************************************************************)
EXTENDS Naturals, Sequences, FiniteSets, SequencesExt

CONSTANTS
  Keys,       \* names of environment variables
  Defaults,   \* values that images give
  Own,        \* values that no image gives
  Unset,      \* an entry "KEY" without "=", which unsets KEY
  UserValues, \* what the entries of the user's environment may hold
  UserCmds,   \* what the user's command may be, Unset for none
  MaxEntries  \* bound: length of the environment of an image and of a user

ASSUME ConfigCarryAssumption ==
  /\ Own \cap Defaults = {}
  /\ Unset \notin Own \cup Defaults
  /\ UserValues \cup UserCmds \subseteq Own \cup Defaults \cup {Unset}
  /\ MaxEntries \in Nat

VARIABLES
  user,     \* the environment that the user asked for
  userCmd,  \* the command that the user asked for, or Unset
  image,    \* the image of the container: its environment and command
  env,      \* the container's Config.Env
  cmd,      \* the container's Config.Cmd
  final,    \* whether a rollback ended the sequence of updates
  blind,    \* whether an image inspect failed in some update so far
  met       \* what the user set to a value that an updated image had as default:
            \* keys, and whether the command

vars == <<user, userCmd, image, env, cmd, final, blind, met>>

Entries(values) == [key: Keys, value: values]
Distinct(s) == \A i, j \in DOMAIN s : s[i].key = s[j].key => i = j
ImageConfigs == [env: {s \in BoundedSeq(Entries(Defaults), MaxEntries) : Distinct(s)},
                 cmd: Defaults]

KeysOf(s) == {s[i].key : i \in DOMAIN s}

\* envToMap, and what a process sees: the last entry of a key wins.  A key
\* without entry, or whose last entry has no value, is Unset.
ValueOf(s, k) ==
  IF k \in KeysOf(s)
  THEN s[CHOOSE i \in DOMAIN s : /\ s[i].key = k
                                 /\ \A j \in DOMAIN s : s[j].key = k => j <= i].value
  ELSE Unset

\* The n-th of a finite set of positions, and the entries at such positions, in
\* their order: a SelectSeq that proofs can reason about.
Nth(positions, n) ==
  CHOOSE i \in positions : Cardinality({j \in positions : j <= i}) = n

Pick(s, positions) == [n \in 1 .. Cardinality(positions) |-> s[Nth(positions, n)]]

\* The entries of s for other keys.
Without(s, keys) == Pick(s, {i \in DOMAIN s : s[i].key \notin keys})

-----------------------------------------------------------------------------
\* reconcileEnv.

\* The entries that the old image does not explain.
UserEntriesAll(container, old) == container
UserEntries(container, old) ==
  Pick(container, {i \in DOMAIN container :
                     /\ container[i].value # Unset
                     /\ ValueOf(old, container[i].key) # container[i].value})

\* userOrder: one entry for each key, where the key appeared first.
FirstOfEach(s) == Pick(s, {i \in DOMAIN s : \A j \in 1 .. i - 1 : s[j].key # s[i].key})

\* Taking the first of several entries of a key instead of the last.
ReconcileEnvFirst(container, old, new) ==
  LET mine == FirstOfEach(UserEntries(container, old))
      Overridden(e) == IF \E i \in DOMAIN mine : mine[i].key = e.key
                       THEN mine[CHOOSE i \in DOMAIN mine : mine[i].key = e.key] ELSE e
  IN  [i \in DOMAIN new |-> Overridden(new[i])]
      \o Without(mine, KeysOf(new))

ReconcileEnv(container, old, new) ==
  LET mine == UserEntries(container, old)
      added == Without(FirstOfEach(mine), KeysOf(new))
      Overridden(e) ==
        IF e.key \in KeysOf(mine) THEN [e EXCEPT !.value = ValueOf(mine, e.key)] ELSE e
  IN  [i \in DOMAIN new |-> Overridden(new[i])] \o [i \in DOMAIN added |-> Overridden(added[i])]

\* reconcileSlice and reconcileScalar.
ReconcileValueKept(container, old, new) == container
ReconcileValue(container, old, new) == IF container = old THEN new ELSE container

-----------------------------------------------------------------------------
\* The engine adds the image's entries for keys that a new container's
\* configuration does not mention.
Merge(config, img) == config \o Without(img, KeysOf(config))

Init ==
  /\ user \in BoundedSeq(Entries(UserValues), MaxEntries)
  /\ userCmd \in UserCmds
  /\ image \in ImageConfigs
  /\ env = Merge(user, image.env)
  /\ cmd = IF userCmd = Unset THEN image.cmd ELSE userCmd
  /\ final = FALSE
  /\ blind = FALSE
  /\ met = [keys |-> {}, cmd |-> FALSE]

\* Recreate for an update, both image inspects succeeding.
Update(new) ==
  /\ env' = Merge(ReconcileEnv(env, image.env, new.env), new.env)
  /\ cmd' = ReconcileValue(cmd, image.cmd, new.cmd)
  /\ met' = [keys |-> met.keys \cup {k \in KeysOf(user) : ValueOf(user, k) = ValueOf(image.env, k)},
             cmd |-> met.cmd \/ userCmd = image.cmd]
  /\ UNCHANGED blind

\* One of them failing: the configuration is copied as it is.
UpdateBlind(new) ==
  /\ env' = Merge(env, new.env)
  /\ blind' = TRUE
  /\ UNCHANGED <<cmd, met>>

Recreate(new) ==
  /\ ~final
  /\ Update(new) \/ UpdateBlind(new)
  /\ image' = new
  /\ UNCHANGED <<user, userCmd, final>>

\* An update that is rolled back leaves the container that the rollback
\* creates, from the configuration captured before the update: performRollback
\* clears ImageID, so the inspect of the old image fails and the captured one is
\* copied as it is; without that, it would be reconciled.
RestoredReconciled == ReconcileEnv(env, image.env, image.env)
Restored == env

\* The container is created from an image ID, which is never updated.
Rollback ==
  /\ ~final
  /\ env' = Merge(Restored, image.env)
  /\ final' = TRUE
  /\ UNCHANGED <<user, userCmd, image, cmd, blind, met>>

NeverUpdatedAgain == final /\ UNCHANGED vars

Next == (\E new \in ImageConfigs : Recreate(new)) \/ Rollback \/ NeverUpdatedAgain

Spec == Init /\ [][Next]_vars

-----------------------------------------------------------------------------
(***************************************************************************)
(* container.go, Recreate: "User overrides (envs / cmds / etc. that differ *)
(* from the old image's baseline) are still preserved".  What the user     *)
(* gave a value is what the container sees after any sequence of updates   *)
(* and a rollback, as long as no image on the way had the same value as    *)
(* its default.                                                            *)
(***************************************************************************)
OverridesKept ==
  /\ \A k \in KeysOf(user) \ met.keys :
       ValueOf(user, k) # Unset => ValueOf(env, k) = ValueOf(user, k)
  /\ userCmd # Unset /\ ~met.cmd => cmd = userCmd

\* All the values that the user gave to k.
Given(k) == {user[i].value : i \in {j \in DOMAIN user : user[j].key = k}}

(***************************************************************************)
(* container.go, Recreate: "only the inherited values are refreshed".  As  *)
(* long as no inspect failed, a value that the container sees comes from   *)
(* the user or from the image it runs, never from an earlier image: also   *)
(* where the user's value was once a default, or the user unset the key.   *)
(***************************************************************************)
NothingStale ==
  ~blind =>
    /\ \A k \in Keys : ValueOf(env, k) \in Given(k) \cup {ValueOf(image.env, k)}
    /\ cmd \in {userCmd, image.cmd}

(***************************************************************************)
(* rollback.go, performRollback: "a fresh container from the captured      *)
(* pre-update config".  After a rollback the container has exactly the     *)
(* configuration it had before the update, entry by entry.                 *)
(***************************************************************************)
RollbackExact == [][Rollback => UNCHANGED <<env, cmd, image>>]_vars
=============================================================================
