---------------------------- MODULE ManifestCheck ----------------------------
(***************************************************************************)
(* One comparison of a container's image with the registry: the HEAD and   *)
(* GET requests of src/internal/registry/digest.go, with their tokens,     *)
(* challenges and retries, in the order in which processContainer          *)
(* (src/internal/updater/watcher.go) makes them, while a publisher moves   *)
(* the tag.  Watcher has the comparison as one atomic step: AtomicLook is  *)
(* what that abstraction rests on.                                         *)
(***************************************************************************)
EXTENDS Naturals, FiniteSets

CONSTANTS
  Releases,     \* what the tag points at, over time
  MultiArch,    \* the releases that are a manifest list
  Local,        \* the release that the container runs
  DockerHub,    \* isDockerHub(ref.Registry)
  MaxMoves      \* bound: how often the publisher moves the tag

\* The digests that can identify a release: of the manifest list, of the
\* manifest for our platform, of the image config.
KindsOf(r) == IF r \in MultiArch THEN {"index", "manifest", "config"}
                                 ELSE {"manifest", "config"}
TopKind(r) == IF r \in MultiArch THEN "index" ELSE "manifest"

ASSUME ManifestCheckAssumption ==
  /\ MultiArch \subseteq Releases
  /\ Local \in Releases
  /\ DockerHub \in BOOLEAN
  /\ MaxMoves \in Nat

VARIABLES
  tag,       \* the release that the registry serves now
  moves,     \* how often it changed (bounded by MaxMoves)
  served,    \* the releases it served since the check began
  phase,     \* the request that is under way: "head", "top", "leaf"; or "done"
  step,      \* its next call: "token", "send", "challenge", "retry"
  top,       \* the release of the manifest that the GET by tag returned
  ids,       \* the identifiers fetched, as <<release, kind>>
  verdict,   \* what the check found
  recorded,  \* the identifiers of Local that the engine recorded
  sends      \* whether the registry sends Docker-Content-Digest

settings == <<recorded, sends>>
vars == <<tag, moves, served, phase, step, top, ids, verdict, settings>>
registryVars == <<tag, moves, served>>

Ids == Releases \X {"index", "manifest", "config"}
LocalIds == {Local} \X recorded

\* The engine records the digests of RepoDigests and the image's ID, which is
\* its config in the classic store and the pulled digest in containerd's.  A
\* registry that sends no digest is known by what the bodies name: with
\* nothing of that recorded, no comparison is possible.
Comparable ==
  /\ recorded # {}
  /\ sends \/ recorded \cap (IF Local \in MultiArch THEN {"manifest", "config"}
                                                    ELSE {"config"}) # {}

TypeOK ==
  /\ tag \in Releases
  /\ moves \in 0 .. MaxMoves
  /\ served \subseteq Releases
  /\ phase \in {"head", "top", "leaf", "done"}
  /\ step \in {"token", "send", "challenge", "retry"}
  /\ top \in Releases
  /\ ids \subseteq Ids
  /\ verdict \in {"none", "up_to_date", "outdated", "failed"}
  /\ recorded \subseteq KindsOf(Local)
  /\ sends \in BOOLEAN

\* Docker Hub's token is fetched before the first request.
FirstStep == IF DockerHub THEN "token" ELSE "send"

Init ==
  /\ tag \in Releases
  /\ moves = 0
  /\ served = {tag}
  /\ phase = "head"
  /\ step = FirstStep
  /\ top = Local
  /\ ids = {}
  /\ verdict = "none"
  /\ recorded \in SUBSET KindsOf(Local)
  /\ sends \in BOOLEAN
  /\ Comparable

-----------------------------------------------------------------------------
Ask(ph) == phase' = ph /\ step' = FirstStep /\ UNCHANGED verdict

Conclude(v) == phase' = "done" /\ verdict' = v /\ UNCHANGED step

\* A failed HEAD leaves the decision to the GET, a failed GET ends the check.
Fails ==
  /\ IF phase = "head" THEN Ask("top") ELSE Conclude("failed")
  /\ UNCHANGED <<registryVars, top, ids>>

\* identifiersIntersect
Compare(remoteIDs) ==
  Conclude(IF remoteIDs \cap LocalIds # {} THEN "up_to_date" ELSE "outdated")

\* The Docker-Content-Digest header of an answer.
Header(r, kind) == IF sends THEN {<<r, kind>>} ELSE {}

\* The release whose platform manifest the second GET returns: it asks for
\* the digest that the list names, not for the tag.
LeafByTag == tag
Leaf == top

\* The digest of the HEAD's answer identifies the container's image.  An answer
\* without digest identifies nothing, or anything.
HeadMatchesLoose == Header(tag, TopKind(tag)) \subseteq LocalIds
HeadMatches == Header(tag, TopKind(tag)) \cap LocalIds # {}

\* What a manifest list identifies: itself, unless that is forgotten, and the
\* manifest it names for the platform.
ListIdsOfPlatform(r) == {<<r, "manifest">>}
ListIds(r) == Header(r, "index") \cup {<<r, "manifest">>}

\* A 200 to the HEAD, to the GET by tag, and to the GET of the platform's
\* manifest that a manifest list leads to.
AnswerHead ==
  /\ phase = "head"
  /\ IF HeadMatches THEN Conclude("up_to_date") ELSE Ask("top")
  /\ UNCHANGED <<registryVars, top, ids>>

AnswerTop ==
  /\ phase = "top"
  /\ top' = tag
  /\ IF tag \in MultiArch
     THEN /\ ids' = ListIds(tag)
          /\ Ask("leaf")
     ELSE /\ ids' = Header(tag, "manifest") \cup {<<tag, "config">>}
          /\ Compare(ids')
  /\ UNCHANGED registryVars

AnswerLeaf ==
  /\ phase = "leaf"
  /\ ids' = ids \cup Header(Leaf, "manifest") \cup {<<Leaf, "config">>}
  /\ Compare(ids')
  /\ UNCHANGED <<registryVars, top>>

Answer == AnswerHead \/ AnswerTop \/ AnswerLeaf

\* fetchDockerHubToken: without a token the request is sent unauthenticated.
Token ==
  /\ phase # "done"
  /\ step = "token"
  /\ step' \in {"retry", "send"}
  /\ UNCHANGED <<registryVars, phase, top, ids, verdict>>

\* A request without token: answered, refused, or challenged by a 401 or 429
\* that names a token endpoint.
Send ==
  /\ phase # "done"
  /\ step = "send"
  /\ \/ Answer
     \/ Fails
     \/ step' = "challenge" /\ UNCHANGED <<registryVars, phase, top, ids, verdict>>

\* fetchBearerToken
Challenge ==
  /\ phase # "done"
  /\ step = "challenge"
  /\ \/ Fails
     \/ step' = "retry" /\ UNCHANGED <<registryVars, phase, top, ids, verdict>>

\* The request with a token.  A refusal is final, a second challenge too.
RefusesAgain ==
  Fails \/ (step' = "challenge" /\ UNCHANGED <<registryVars, phase, top, ids, verdict>>)
Refuses == Fails

Retry == phase # "done" /\ step = "retry" /\ (Answer \/ Refuses)

Publish ==
  /\ phase # "done"
  /\ moves < MaxMoves
  /\ tag' \in Releases \ {tag}
  /\ moves' = moves + 1
  /\ served' = served \cup {tag'}
  /\ UNCHANGED <<phase, step, top, ids, verdict, settings>>

Requests == (Token \/ Send \/ Challenge \/ Retry) /\ UNCHANGED settings

Returned == phase = "done" /\ UNCHANGED vars

Next == Requests \/ Publish \/ Returned

Spec == Init /\ [][Next]_vars

\* The HTTP client's timeout ends every request.
FairSpec == Spec /\ WF_vars(Requests)

-----------------------------------------------------------------------------
(***************************************************************************)
(* The verdict is as good as one atomic look at the registry: "up to date" *)
(* only if the registry served the container's release while the check     *)
(* ran, "outdated" only if it served another one.                          *)
(***************************************************************************)
VerdictSound ==
  /\ verdict = "up_to_date" => Local \in served
  /\ verdict = "outdated" => served # {Local}

(***************************************************************************)
(* However many requests, tokens and retries a comparison takes, it comes  *)
(* to one look at the registry (RegistryLook): the release it found then   *)
(* is the one that the HEAD or the GET by tag answered for.                *)
(***************************************************************************)
Atomic == INSTANCE RegistryLook
            WITH seen <- IF phase = "leaf" \/ verdict \in {"up_to_date", "outdated"}
                         THEN {top} ELSE {}

AtomicLook == Atomic!Spec

(***************************************************************************)
(* The identifiers that are compared belong to one release, also when the  *)
(* tag moves between the GET of the manifest list and the GET of the       *)
(* platform's manifest: an index of one release next to a config of        *)
(* another would match containers of either.                               *)
(***************************************************************************)
OneRelease == \A i, j \in ids : i[1] = j[1]

(***************************************************************************)
(* A check ends: challenges are answered once per request.                 *)
(***************************************************************************)
CheckEnds == <>(phase = "done")

=============================================================================
