----------------------------- MODULE Credentials -----------------------------
(***************************************************************************)
(* The look-up of a registry's credentials (src/internal/registry/auth.go) *)
(* that starts each check, beside an operator who runs docker login and    *)
(* docker logout.  LoadAuth reads config.json once and then asks the       *)
(* programs that it names, one after the other: the two can change in      *)
(* between.  The docker command and the programs are outside src/.         *)
(***************************************************************************)
EXTENDS Naturals, Sequences

CONSTANTS
  Hosts,      \* registries, as resolver.Parse names them
  Hub,        \* Docker Hub, which the docker command knows by other names
  Ecr,        \* the hosts that have the shape of an ECR registry
  Keys,       \* the keys config.json and the programs use: <<host, form>>
  MaxLogins   \* bound: how often an operator logs in

\* How a key names its host: "name", exactly; "url", with a scheme; "path", with
\* something after it; and for the Hub "index" (https://index.docker.io/v1/) and
\* "docker" (docker.io).
Forms == {"name", "url", "path", "index", "docker"}

ASSUME CredentialsAssumption ==
  /\ Hub \in Hosts /\ Ecr \subseteq Hosts /\ Hub \notin Ecr
  /\ Keys \subseteq Hosts \X Forms
  /\ MaxLogins \in Nat

VARIABLES
  config,   \* env: both of OPENWATCH_REGISTRY_USER and _PASSWORD are set;
            \* credsStore: whether config.json names one; credHelpers: the keys
            \* it names a program for
  auths,    \* auths[k] in config.json: a login, Empty or None
  stored,   \* stored[p][k]: the login that the program of k in credHelpers
            \* ("helper") or the credsStore ("store") has, or None
  cli,      \* the key a docker login ("login") or logout ("logout") has dealt
            \* with in its program and not yet in config.json, or <<>>
  logins,   \* how many logins there were
  at,       \* LoadAuth: "idle", "load", or "ask"
  host,     \* its argument
  file,     \* config.json as it was read, or <<>>
  todo,     \* the questions left for the programs: [of, key]
  got,      \* what it returned: Nothing yet, a login, FromEnv, FromAws or Anonymous
  since,    \* history: the logins that were valid at some time since it began
  steady    \* history: since then, a docker login for the host was in force,
            \* nothing of the host changed, and nothing failed

operatorVars == <<config, auths, stored, cli, logins>>
lookVars == <<at, host, file, todo, got, since, steady>>
vars == <<operatorVars, lookVars>>

Login(k, n) == <<k, n>>
Logins == {Login(k, n) : k \in Keys, n \in 0 .. MaxLogins}
HostOf(login) == login[1][1]

\* What is not a login: no entry, an entry without credentials, and the rest of
\* what LoadAuth may return.
None == <<>>
Empty == <<"empty">>
Nothing == <<"nothing">>
Anonymous == <<"anonymous">>
FromEnv == <<"environment">>
FromAws == <<"aws">>

\* The key under which docker login files the credentials of a host.
CliKey(h) == IF h = Hub THEN <<h, "index">> ELSE <<h, "name">>

\* docker login can also be told the Hub's own name, which is then another key.
LoginKeys == Keys \cap ({CliKey(h) : h \in Hosts} \cup {<<Hub, "name">>})

\* Where docker login puts them.
Place(k) ==
  IF k \in config.credHelpers THEN "helper" ELSE IF config.credsStore THEN "store" ELSE "file"

Valid ==
  Logins \cap ({auths[k] : k \in Keys}
               \cup {stored[Place(k)][k] : k \in {j \in Keys : Place(j) # "file"}})

HasLogin(k) ==
  /\ k \in Keys
  /\ \/ auths[k] \in Logins
     \/ Place(k) # "file" /\ stored[Place(k)][k] \in Logins

\* Plain entries may be there from before a program was configured.
Init ==
  /\ config \in [env : BOOLEAN, credsStore : BOOLEAN, credHelpers : SUBSET LoginKeys]
  /\ \E old \in SUBSET Keys :
       auths = [k \in Keys |-> IF k \in old THEN Login(k, 0) ELSE None]
  /\ stored = [p \in {"helper", "store"} |-> [k \in Keys |-> None]]
  /\ cli = <<>>
  /\ logins = 0
  /\ at = "idle"
  /\ host \in Hosts
  /\ file = <<>>
  /\ todo = <<>>
  /\ got = Nothing
  /\ since = {}
  /\ steady = FALSE

-----------------------------------------------------------------------------
\* The operator.

\* What a change of key k means for the look-up that is under way.
Witnessed(k) ==
  /\ UNCHANGED <<config, at, host, file, todo, got>>
  /\ since' = IF at = "idle" THEN since ELSE since \cup Valid'
  /\ steady' = (steady /\ (at = "idle" \/ k[1] # host))

\* docker login, into config.json, or into a program first: the entry of
\* config.json then holds no credentials.
LoginPlain(k) ==
  /\ cli = <<>> /\ Place(k) = "file"
  /\ logins < MaxLogins
  /\ logins' = logins + 1
  /\ auths' = [auths EXCEPT ![k] = Login(k, logins')]
  /\ UNCHANGED <<stored, cli>>
  /\ Witnessed(k)

LoginStores(k) ==
  /\ cli = <<>> /\ Place(k) # "file"
  /\ logins < MaxLogins
  /\ logins' = logins + 1
  /\ stored' = [stored EXCEPT ![Place(k)][k] = Login(k, logins')]
  /\ cli' = <<"login", k>>
  /\ UNCHANGED auths
  /\ Witnessed(k)

LogoutErases(k) ==
  /\ cli = <<>> /\ HasLogin(k)
  /\ stored' = IF Place(k) = "file" THEN stored ELSE [stored EXCEPT ![Place(k)][k] = None]
  /\ cli' = <<"logout", k>>
  /\ UNCHANGED <<auths, logins>>
  /\ Witnessed(k)

CliWritesFile ==
  /\ cli # <<>>
  /\ auths' = [auths EXCEPT ![cli[2]] = IF cli[1] = "login" THEN Empty ELSE None]
  /\ cli' = <<>>
  /\ UNCHANGED <<stored, logins>>
  /\ Witnessed(cli[2])

Operator ==
  \/ \E k \in LoginKeys : LoginPlain(k) \/ LoginStores(k) \/ LogoutErases(k)
  \/ CliWritesFile

-----------------------------------------------------------------------------
\* LoadAuth.

\* The names of the Docker Hub that are tried besides its own, for the Hub only.
AliasesEverywhere(h) == <<<<Hub, "index">>, <<Hub, "docker">>>>
Aliases(h) == IF h = Hub THEN <<<<Hub, "index">>, <<Hub, "docker">>>> ELSE <<>>

Begin(h) ==
  /\ at = "idle"
  /\ at' = "load"
  /\ host' = h
  /\ got' = Nothing
  /\ since' = Valid
  /\ steady' = (HasLogin(CliKey(h)) /\ (cli = <<>> \/ cli[2][1] # h))
  /\ UNCHANGED <<operatorVars, file, todo>>

Return(auth) == at' = "idle" /\ todo' = <<>> /\ got' = auth

FromEnvironment ==
  /\ at = "load"
  /\ config.env
  /\ Return(FromEnv)
  /\ UNCHANGED <<operatorVars, host, file, since, steady>>

\* An ECR token; its failure is an error, which processContainer takes for
\* anonymous access.
FromEcr ==
  /\ at = "load"
  /\ ~config.env
  /\ host \in Ecr
  /\ \E auth \in {FromAws, Anonymous} : Return(auth)
  /\ UNCHANGED <<operatorVars, host, file, since, steady>>

\* config.json is read at every look-up, or once.
ReadFileOnce == IF file = <<>> THEN auths ELSE file
ReadFile == auths

\* The questions: the host's own program, and the store, under every name.
Question(program, k) == [of |-> program, key |-> k]
StoreNamesCanonical(h) == <<<<h, "name">>>>
StoreNames(h) == <<<<h, "name">>>> \o Aliases(h)

HelperQuestions ==
  IF <<host, "name">> \in config.credHelpers THEN <<Question("helper", <<host, "name">>)>> ELSE <<>>

StoreQuestions ==
  IF config.credsStore
  THEN [i \in DOMAIN StoreNames(host) |-> Question("store", StoreNames(host)[i])] ELSE <<>>

ReadConfig ==
  /\ at = "load"
  /\ ~config.env /\ host \notin Ecr
  /\ file' = ReadFile
  /\ todo' = HelperQuestions \o StoreQuestions
  /\ at' = "ask"
  /\ UNCHANGED <<operatorVars, host, got, since, steady>>

\* No home directory, no file, or one that cannot be read or parsed.
ReadFails ==
  /\ at = "load"
  /\ ~config.env /\ host \notin Ecr
  /\ Return(Anonymous)
  /\ steady' = FALSE
  /\ UNCHANGED <<operatorVars, host, file, since>>

\* A program has the login, or has none, or fails, which is the same as none.
Answer(q) == IF q.key \in Keys THEN stored[q.of][q.key] ELSE None

ProgramAnswers ==
  /\ at = "ask" /\ todo # <<>>
  /\ IF Answer(Head(todo)) \in Logins
     THEN Return(Answer(Head(todo)))
     ELSE todo' = Tail(todo) /\ UNCHANGED <<at, got>>
  /\ UNCHANGED <<operatorVars, host, file, since, steady>>

ProgramFails ==
  /\ at = "ask" /\ todo # <<>>
  /\ todo' = Tail(todo)
  /\ steady' = FALSE
  /\ UNCHANGED <<operatorVars, at, host, file, got, since>>

\* lookupAuth: the first of the exact keys that is there, or else any key with
\* the same host, of which the iteration over the map comes first to an
\* arbitrary one.
Candidates(h) == <<<<h, "name">>, <<h, "url">>>> \o Aliases(h)
Present(k) == k \in Keys /\ file[k] # None
IsFirst(k) ==
  \E i \in DOMAIN Candidates(host) :
    /\ k = Candidates(host)[i] /\ Present(k)
    /\ \A j \in 1 .. i - 1 : ~Present(Candidates(host)[j])
SameHost(k) == k[1] = host /\ k[2] = "path" /\ Present(k)

\* An entry without user name and password is no login.
GivenRaw(entry) == entry
Given(entry) == IF entry = Empty THEN Anonymous ELSE entry

LookUp ==
  /\ at = "ask" /\ todo = <<>>
  /\ \/ \E k \in Keys : IsFirst(k) /\ Return(Given(file[k]))
     \/ /\ ~\E k \in Keys : IsFirst(k)
        /\ \/ \E k \in Keys : SameHost(k) /\ Return(Given(file[k]))
           \/ (~\E k \in Keys : SameHost(k)) /\ Return(Anonymous)
  /\ UNCHANGED <<operatorVars, host, file, since, steady>>

LoadAuth ==
  \/ FromEnvironment \/ FromEcr \/ ReadConfig \/ ReadFails
  \/ ProgramAnswers \/ ProgramFails \/ LookUp

Next == Operator \/ (\E h \in Hosts : Begin(h)) \/ LoadAuth

Spec == Init /\ [][Next]_vars

-----------------------------------------------------------------------------
\* Type correctness.
TypeOK ==
  /\ config \in [env : BOOLEAN, credsStore : BOOLEAN, credHelpers : SUBSET (Hosts \X Forms)]
  /\ auths \in [Keys -> Logins \cup {None, Empty}]
  /\ stored \in [{"helper", "store"} -> [Keys -> Logins \cup {None}]]
  /\ cli = <<>> \/ cli \in {"login", "logout"} \X Keys
  /\ logins \in 0 .. MaxLogins
  /\ at \in {"idle", "load", "ask"}
  /\ host \in Hosts
  /\ file = <<>> \/ file \in [Keys -> Logins \cup {None, Empty}]
  /\ todo \in Seq([of : {"helper", "store"}, key : Hosts \X Forms])
  /\ got \in {Nothing, FromEnv, FromAws, Anonymous} \cup Logins
  /\ since \subseteq Logins
  /\ steady \in BOOLEAN

(***************************************************************************)
(* auth.go, loadDockerConfigAuth and lookupAuth: the names under which the *)
(* programs and the file are searched are the registry's own.  What they   *)
(* hold for the Docker Hub under one of its other names, or for any other  *)
(* registry, is never sent to another.                                     *)
(***************************************************************************)
OwnHost == got \in Logins => HostOf(got) = host

(***************************************************************************)
(* auth.go, loadDockerConfigAuth: whatever a docker login or logout does   *)
(* while it runs, the credentials returned were in force at some time of   *)
(* that very look-up: nobody is asked to restart OpenWatch after a logout. *)
(***************************************************************************)
NotRevoked == got \in Logins => got \in since

(***************************************************************************)
(* README, Registries: "Any host you've already authenticated to with      *)
(* docker login will Just Work".  A look-up that no failure and no change  *)
(* of the host's own entries disturbs returns the credentials of that very *)
(* docker login, whether a program of the host's own, the store or the     *)
(* file has them, and whatever older or hand-written entries lie beside;   *)
(* for the Docker Hub, which has several names, those of a login for it.   *)
(* This is what LoadAuth's order of search is for.  The credentials of the *)
(* environment and ECR's tokens come before any docker login, and a program *)
(* of the Docker Hub's own is not found: docker files it under a name that *)
(* LoadAuth does not try in credHelpers.                                   *)
(***************************************************************************)
Current(k) ==
  IF Place(k) # "file" /\ stored[Place(k)][k] \in Logins THEN stored[Place(k)][k] ELSE auths[k]

CurrentLogins(h) ==
  IF h = Hub THEN Logins \cap {Current(k) : k \in {j \in Keys : j[1] = Hub}}
             ELSE {Current(CliKey(h))}

HubProgram == host = Hub /\ CliKey(Hub) \in config.credHelpers

LoginIsUsed ==
  [][/\ at # "idle" /\ at' = "idle"
     /\ steady'
     /\ ~config.env /\ host \notin Ecr /\ ~HubProgram
     => got' \in CurrentLogins(host)]_vars
=============================================================================
