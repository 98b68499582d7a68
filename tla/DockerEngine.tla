---------------------------- MODULE DockerEngine ----------------------------
(***************************************************************************)
(* The Docker Engine and the image registry as OpenWatch uses them through *)
(* the Docker SDK (src/internal/docker) and HTTP (src/internal/registry).  *)
(* Both are outside src/: this module models what the calls in src/ rely   *)
(* on.  Each container name has at most one container; a container is      *)
(* identified by its name and a generation number, which stands for the    *)
(* Docker container ID (a new one for every create).                       *)
(***************************************************************************)
EXTENDS Naturals, FiniteSets

CONSTANTS
  Names,        \* container names
  Tags,         \* image references that a registry serves, "repo:tag"
  Images,       \* image IDs ("sha256:..."), one per published manifest
  NoImage,      \* no image: an absent container, an untagged tag
  NoName,       \* no container: a pass between two containers
  TagOf,        \* the reference each container was first created from
  InitImage,    \* the image every tag points at initially
  Checked,      \* containers whose config carries a HEALTHCHECK
  Flaky,        \* images whose containers may fail, hang or exit
  MaxPublish    \* bound: number of times a publisher moves a tag

\* A reference is a tag or an image ID, never both: rollback recreates a
\* container "from" an image ID, which no registry serves.
ASSUME EngineAssumption ==
  /\ Tags \cap Images = {}
  /\ NoImage \notin Tags \cup Images
  /\ NoName \notin Names
  /\ TagOf \in [Names -> Tags]
  /\ InitImage \in Images
  /\ MaxPublish \in Nat

VARIABLES
  ctr,          \* ctr[n]: the container called n
  gen,          \* gen[n]: generation of the last container called n
  images,       \* the local image store
  tag,          \* tag[t]: the local image that t names
  remote,       \* remote[t]: the image that the registry serves for t
  publishes     \* how many times a tag was moved (bounded by MaxPublish)

engineVars == <<ctr, gen, images, tag>>
registryVars == <<remote, publishes>>

Refs == Tags \cup Images
States == {"absent", "created", "running", "stopped", "exited"}
HealthStates == {"none", "starting", "healthy", "unhealthy"}

\* "stopped" is a stop that OpenWatch asked for; "exited" is the process
\* ending by itself.
Containers == [id: Nat, ref: Refs \cup {NoImage}, image: Images \cup {NoImage},
               st: States, health: HealthStates]

Absent == [id |-> 0, ref |-> NoImage, image |-> NoImage,
           st |-> "absent", health |-> "none"]

EngineTypeOK ==
  /\ ctr \in [Names -> Containers]
  /\ gen \in [Names -> Nat]
  /\ images \subseteq Images
  /\ tag \in [Tags -> Images \cup {NoImage}]
  /\ remote \in [Tags -> Images]
  /\ publishes \in 0 .. MaxPublish

EngineInit ==
  /\ ctr = [n \in Names |-> [id |-> 1, ref |-> TagOf[n], image |-> InitImage,
                             st |-> "running",
                             health |-> IF n \in Checked THEN "healthy" ELSE "none"]]
  /\ gen = [n \in Names |-> 1]
  /\ images = {InitImage}
  /\ tag = [t \in Tags |-> InitImage]
  /\ remote = [t \in Tags |-> InitImage]
  /\ publishes = 0

-----------------------------------------------------------------------------
\* Queries.

Present(n) == ctr[n].st # "absent"
Running(n) == ctr[n].st = "running"

\* The ID i still names a container: the container called n of generation i.
HasId(n, i) == Present(n) /\ ctr[n].id = i

Resolve(ref) == IF ref \in Tags THEN tag[ref] ELSE ref

InUse(i) == \E n \in Names : ctr[n].image = i

-----------------------------------------------------------------------------
\* Effects of the calls on the container called n.

\* POST /containers/{id}/stop or /kill: a no-op unless the process runs.
Stop(n) ==
  IF Running(n) THEN [ctr EXCEPT ![n].st = "stopped", ![n].health = "none"]
                ELSE ctr

\* DELETE /containers/{id}
Remove(n) == [ctr EXCEPT ![n] = Absent]

\* POST /containers/create
Create(n, ref) ==
  /\ ctr' = [ctr EXCEPT ![n] = [id |-> gen[n] + 1, ref |-> ref,
                                image |-> Resolve(ref), st |-> "created",
                                health |-> "none"]]
  /\ gen' = [gen EXCEPT ![n] = @ + 1]

\* POST /containers/{id}/start
Start(n) ==
  [ctr EXCEPT ![n].st = "running",
              ![n].health = IF n \in Checked THEN "starting" ELSE "none"]

\* POST /images/create: fetch what the registry serves now and move the tag;
\* the image the tag had before stays in the store, untagged.
Pull(t) ==
  /\ images' = images \cup {remote[t]}
  /\ tag' = [tag EXCEPT ![t] = remote[t]]

\* With force: the engine refuses nothing.
RemovableForced(i) == TRUE

\* DELETE /images/{id} without force: refused while a container, running or
\* not, was created from the image or two tags name it.
Removable(i) == ~InUse(i) /\ Cardinality({t \in Tags : tag[t] = i}) <= 1

RemoveImage(i) ==
  /\ images' = images \ {i}
  /\ tag' = [t \in Tags |-> IF tag[t] = i THEN NoImage ELSE tag[t]]

-----------------------------------------------------------------------------
\* What happens without OpenWatch.

\* The engine's health probe reaches a verdict.
HealthVerdict(n) ==
  /\ Running(n)
  /\ ctr[n].health = "starting"
  /\ \E h \in {"healthy"} \cup (IF ctr[n].image \in Flaky THEN {"unhealthy"} ELSE {}) :
       ctr' = [ctr EXCEPT ![n].health = h]
  /\ UNCHANGED <<gen, images, tag, registryVars>>

\* The process of a container ends by itself.
ProcessExits(n) ==
  /\ Running(n)
  /\ ctr[n].image \in Flaky
  /\ ctr' = [ctr EXCEPT ![n].st = "exited", ![n].health = "none"]
  /\ UNCHANGED <<gen, images, tag, registryVars>>

\* A publisher moves tag t to image i in the registry.
Publish(t, i) ==
  /\ publishes < MaxPublish
  /\ i # remote[t]
  /\ remote' = [remote EXCEPT ![t] = i]
  /\ publishes' = publishes + 1
  /\ UNCHANGED engineVars
=============================================================================
