-------------------------- MODULE CredentialsProofs --------------------------
(***************************************************************************)
(* Proofs about the credentials, for any registries, any keys and any      *)
(* number of logins.                                                       *)
(***************************************************************************)
EXTENDS Credentials, TLAPS

\* The logins under a key, and those of a host.
LoginsOf(k) == {Login(k, n) : n \in 0 .. MaxLogins}
HostLogins(h) == UNION {LoginsOf(k) : k \in {j \in Keys : j[1] = h}}

Returned == {Nothing, FromEnv, FromAws, Anonymous}

\* What is filed under a key was filed for it; what is asked of a program, and
\* what it gave, is for the host.
KeyInv ==
  /\ \A k \in Keys : auths[k] \in {None, Empty} \cup LoginsOf(k)
  /\ \A p \in {"helper", "store"} : \A k \in Keys : stored[p][k] \in {None} \cup LoginsOf(k)
  /\ \A k \in Keys : at = "ask" => file[k] \in {None, Empty} \cup LoginsOf(k)
  /\ \A i \in DOMAIN todo : todo[i].key[1] = host
  /\ at # "ask" => todo = <<>>
  /\ got \in Returned \cup HostLogins(host)

IInv == TypeOK /\ KeyInv

\* What is not a login is none.
LEMMA NotLogins ==
  /\ None \notin Logins /\ Empty \notin Logins /\ Returned \cap Logins = {}
BY DEF None, Empty, Nothing, Anonymous, FromEnv, FromAws, Returned, Logins, Login

LEMMA LoginsOfHost ==
  ASSUME NEW k \in Keys
  PROVE  /\ LoginsOf(k) \subseteq Logins
         /\ LoginsOf(k) \subseteq HostLogins(k[1])
BY DEF LoginsOf, Logins, HostLogins

LEMMA HostOfLogin == ASSUME NEW h, NEW l \in HostLogins(h) PROVE HostOf(l) = h
BY DEF HostLogins, LoginsOf, Login, HostOf

LEMMA InitIInv == Init => IInv
<1>. SUFFICES ASSUME Init PROVE IInv
  OBVIOUS
<1>1. PICK old \in SUBSET Keys : auths = [k \in Keys |-> IF k \in old THEN Login(k, 0) ELSE None]
  BY DEF Init
<1>2. 0 \in 0 .. MaxLogins
  BY CredentialsAssumption
<1>3. \A k \in Keys : auths[k] \in {None} \cup LoginsOf(k)
  BY <1>1, <1>2 DEF LoginsOf
<1>4. auths \in [Keys -> Logins \cup {None, Empty}]
  BY <1>1, <1>2 DEF Logins
<1>5. config \in [env : BOOLEAN, credsStore : BOOLEAN, credHelpers : SUBSET (Hosts \X Forms)]
  BY CredentialsAssumption DEF Init, LoginKeys
<1>6. todo = <<>> /\ todo \in Seq([of : {"helper", "store"}, key : Hosts \X Forms])
  BY DEF Init
<1>7. stored \in [{"helper", "store"} -> [Keys -> Logins \cup {None}]]
  BY DEF Init
<1>8. TypeOK
  BY <1>2, <1>4, <1>5, <1>6, <1>7, NotLogins DEF Init, TypeOK
<1>9. KeyInv
  BY <1>3, <1>6 DEF Init, KeyInv, Returned
<1>10. QED BY <1>8, <1>9 DEF IInv

-----------------------------------------------------------------------------
\* A new login is filed under its key.
LEMMA NewLogin ==
  ASSUME TypeOK, NEW k \in Keys, logins < MaxLogins, logins' = logins + 1
  PROVE  Login(k, logins') \in LoginsOf(k) /\ logins' \in 0 .. MaxLogins
BY CredentialsAssumption DEF TypeOK, LoginsOf

LEMMA OperatorStep == ASSUME IInv, Operator PROVE IInv'
<1>. USE DEF IInv
<1>0. LoginKeys \subseteq Keys
  BY DEF LoginKeys
<1>1. UNCHANGED <<config, at, host, file, todo, got>> /\ steady' \in BOOLEAN
  BY DEF Operator, LoginPlain, LoginStores, LogoutErases, CliWritesFile, Witnessed
<1>2. since' \subseteq Logins
  BY DEF TypeOK, Valid, Operator, LoginPlain, LoginStores, LogoutErases, CliWritesFile, Witnessed
<1>3. /\ auths' \in [Keys -> Logins \cup {None, Empty}]
      /\ stored' \in [{"helper", "store"} -> [Keys -> Logins \cup {None}]]
      /\ logins' \in 0 .. MaxLogins
      /\ cli' = <<>> \/ cli' \in {"login", "logout"} \X Keys
      /\ \A j \in Keys : auths'[j] \in {None, Empty} \cup LoginsOf(j)
      /\ \A p \in {"helper", "store"} : \A j \in Keys : stored'[p][j] \in {None} \cup LoginsOf(j)
  <2>1. ASSUME NEW k \in Keys, LoginPlain(k) PROVE <1>3!:
    <3>1. Login(k, logins') \in LoginsOf(k) /\ logins' \in 0 .. MaxLogins
      BY <2>1, NewLogin DEF LoginPlain
    <3>2. QED
      BY <2>1, <3>1, LoginsOfHost DEF TypeOK, KeyInv, LoginPlain
  <2>2. ASSUME NEW k \in Keys, LoginStores(k) PROVE <1>3!:
    <3>1. Login(k, logins') \in LoginsOf(k) /\ logins' \in 0 .. MaxLogins
      BY <2>2, NewLogin DEF LoginStores
    <3>2. Place(k) \in {"helper", "store"}
      BY <2>2 DEF LoginStores, Place
    <3>3. QED
      BY <2>2, <3>1, <3>2, LoginsOfHost DEF TypeOK, KeyInv, LoginStores
  <2>3. ASSUME NEW k \in Keys, LogoutErases(k) PROVE <1>3!:
    <3>1. Place(k) # "file" => Place(k) \in {"helper", "store"}
      BY DEF Place
    <3>2. QED
      BY <2>3, <3>1 DEF TypeOK, KeyInv, LogoutErases
  <2>4. ASSUME CliWritesFile PROVE <1>3!:
    BY <2>4 DEF TypeOK, KeyInv, CliWritesFile
  <2>5. QED BY <1>0, <2>1, <2>2, <2>3, <2>4 DEF Operator
<1>4. TypeOK'
  BY <1>1, <1>2, <1>3 DEF TypeOK
<1>5. KeyInv'
  BY <1>1, <1>3 DEF KeyInv
<1>6. QED BY <1>4, <1>5

-----------------------------------------------------------------------------
\* The return of a value that is no login, or a login of the host.
LEMMA Returns ==
  ASSUME IInv, NEW auth \in Returned \cup HostLogins(host), Return(auth),
         UNCHANGED <<operatorVars, host, file, since>>, steady' \in BOOLEAN
  PROVE  IInv'
<1>. USE DEF IInv
<1>1. auth \in Returned \cup Logins
  BY LoginsOfHost DEF HostLogins
<1>2. TypeOK'
  <2>1. todo' \in Seq([of : {"helper", "store"}, key : Hosts \X Forms])
    BY DEF Return
  <2>2. QED
    BY <1>1, <2>1 DEF TypeOK, Return, Returned, operatorVars
<1>3. KeyInv'
  BY DEF KeyInv, Return, operatorVars
<1>4. QED BY <1>2, <1>3

\* Sequences over a set.
LEMMA Items == ASSUME NEW S, NEW s \in Seq(S) PROVE \A i \in DOMAIN s : s[i] \in S
OBVIOUS

LEMMA HeadAndTail ==
  ASSUME NEW S, NEW s \in Seq(S), s # <<>>
  PROVE  /\ Head(s) \in S /\ Head(s) = s[1] /\ 1 \in DOMAIN s
         /\ Tail(s) \in Seq(S)
         /\ \A i \in DOMAIN Tail(s) : i + 1 \in DOMAIN s /\ Tail(s)[i] = s[i + 1]
OBVIOUS

LEMMA Widened == ASSUME NEW S, NEW T, S \subseteq T, NEW s \in Seq(S) PROVE s \in Seq(T)
OBVIOUS

LEMMA Mapped ==
  ASSUME NEW S, NEW T, NEW s \in Seq(S), NEW q, q \in [DOMAIN s -> T] PROVE q \in Seq(T)
OBVIOUS

LEMMA OneItem == ASSUME NEW S, NEW a \in S PROVE <<a>> \in Seq(S)
OBVIOUS

\* The names that are tried for a host are names of that host.
NamesOf(h) == {k \in Hosts \X Forms : k[1] = h}

LEMMA NamesOfHost ==
  ASSUME NEW h \in Hosts
  PROVE  StoreNames(h) \in Seq(NamesOf(h)) /\ Candidates(h) \in Seq(NamesOf(h))
<1>1. Aliases(h) \in Seq(NamesOf(h))
  <2>1. CASE h = Hub
    <3>1. <<Hub, "index">> \in NamesOf(h) /\ <<Hub, "docker">> \in NamesOf(h)
      BY <2>1, CredentialsAssumption DEF NamesOf, Forms
    <3>2. QED BY <2>1, <3>1 DEF Aliases
  <2>2. CASE h # Hub
    BY <2>2 DEF Aliases
  <2>3. QED BY <2>1, <2>2
<1>2. <<h, "name">> \in NamesOf(h) /\ <<h, "url">> \in NamesOf(h)
  BY DEF NamesOf, Forms
<1>3. <<<<h, "name">>>> \in Seq(NamesOf(h)) /\ <<<<h, "name">>, <<h, "url">>>> \in Seq(NamesOf(h))
  BY <1>2
<1>4. QED BY <1>1, <1>3 DEF StoreNames, Candidates

LEMMA FirstPart ==
  ASSUME NEW S, NEW a \in Seq(S), NEW b \in Seq(S), NEW i \in DOMAIN a
  PROVE  i \in DOMAIN (a \o b) /\ (a \o b)[i] = a[i]
OBVIOUS

LEMMA SecondPart ==
  ASSUME NEW S, NEW a \in Seq(S), NEW b \in Seq(S), NEW i \in DOMAIN b
  PROVE  \E j \in DOMAIN (a \o b) : (a \o b)[j] = b[i]
<1>1. Len(a) + i \in DOMAIN (a \o b) /\ (a \o b)[Len(a) + i] = b[i]
  OBVIOUS
<1>2. QED BY <1>1

LEMMA StoreAsksOfHost ==
  ASSUME host \in Hosts
  PROVE  StoreQuestions \in Seq([of : {"helper", "store"}, key : NamesOf(host)])
<1>. DEFINE Q == [of : {"helper", "store"}, key : NamesOf(host)]
<1>1. /\ StoreNames(host) \in Seq(NamesOf(host))
      /\ \A i \in DOMAIN StoreNames(host) : Question("store", StoreNames(host)[i]) \in Q
  BY NamesOfHost, Items DEF Question
<1>2. [i \in DOMAIN StoreNames(host) |-> Question("store", StoreNames(host)[i])]
        \in [DOMAIN StoreNames(host) -> Q]
  BY <1>1
<1>3. [i \in DOMAIN StoreNames(host) |-> Question("store", StoreNames(host)[i])] \in Seq(Q)
  BY <1>1, <1>2, Mapped, Zenon
<1>4. QED BY <1>3 DEF StoreQuestions

\* The programs are asked about the host only.
LEMMA QuestionsOfHost ==
  ASSUME TypeOK
  PROVE  HelperQuestions \o StoreQuestions \in Seq([of : {"helper", "store"}, key : NamesOf(host)])
<1>. DEFINE Q == [of : {"helper", "store"}, key : NamesOf(host)]
<1>1. host \in Hosts
  BY DEF TypeOK
<1>2. HelperQuestions \in Seq(Q)
  <2>1. Question("helper", <<host, "name">>) \in Q
    BY <1>1 DEF Question, NamesOf, Forms
  <2>2. <<Question("helper", <<host, "name">>)>> \in Seq(Q)
    BY <2>1, OneItem
  <2>3. <<>> \in Seq(Q)
    OBVIOUS
  <2>4. QED BY <2>2, <2>3, Zenon DEF HelperQuestions
<1>3. StoreQuestions \in Seq(Q)
  BY <1>1, StoreAsksOfHost
<1>4. QED BY <1>2, <1>3

LEMMA QuestionsTyped ==
  ASSUME TypeOK, NEW q, q = HelperQuestions \o StoreQuestions
  PROVE  /\ q \in Seq([of : {"helper", "store"}, key : Hosts \X Forms])
         /\ \A i \in DOMAIN q : q[i].key[1] = host
<1>. DEFINE Q == [of : {"helper", "store"}, key : NamesOf(host)]
            T == [of : {"helper", "store"}, key : Hosts \X Forms]
<1>1. q \in Seq(Q)
  BY QuestionsOfHost
<1>2. Q \subseteq T /\ \A x \in Q : x.key[1] = host
  BY DEF NamesOf
<1>3. q \in Seq(T) /\ \A i \in DOMAIN q : q[i] \in Q
  <2>. HIDE DEF Q, T
  <2>1. QED BY <1>1, <1>2, Widened, Items
<1>4. QED BY <1>2, <1>3

LEMMA BeginStep == ASSUME IInv, NEW h \in Hosts, Begin(h) PROVE IInv'
<1>. USE DEF IInv
<1>1. Valid \subseteq Logins
  BY DEF Valid
<1>2. TypeOK'
  BY <1>1 DEF TypeOK, Begin, HasLogin, operatorVars
<1>3. KeyInv'
  BY DEF KeyInv, Begin, Returned, operatorVars
<1>4. QED BY <1>2, <1>3

LEMMA ReadStep == ASSUME IInv, ReadConfig PROVE IInv'
<1>. USE DEF IInv
<1>1. /\ UNCHANGED <<config, auths, stored, cli, logins, host, got, since, steady>>
      /\ at' = "ask" /\ file' = auths
  BY DEF ReadConfig, ReadFile, operatorVars
<1>2. /\ todo' \in Seq([of : {"helper", "store"}, key : Hosts \X Forms])
      /\ \A i \in DOMAIN todo' : todo'[i].key[1] = host
  <2>1. todo' = HelperQuestions \o StoreQuestions /\ TypeOK
    BY DEF ReadConfig
  <2>2. QED BY <2>1, QuestionsTyped, Zenon
<1>3. TypeOK'
  BY <1>1, <1>2 DEF TypeOK
<1>4. KeyInv'
  BY <1>1, <1>2 DEF KeyInv
<1>5. QED BY <1>3, <1>4

LEMMA ProgramStep == ASSUME IInv, ProgramAnswers \/ ProgramFails PROVE IInv'
<1>. USE DEF IInv
<1>1. /\ Head(todo) \in [of : {"helper", "store"}, key : Hosts \X Forms]
      /\ Head(todo).key[1] = host
      /\ Tail(todo) \in Seq([of : {"helper", "store"}, key : Hosts \X Forms])
      /\ \A i \in DOMAIN Tail(todo) : Tail(todo)[i].key[1] = host
  <2>1. todo # <<>> /\ todo \in Seq([of : {"helper", "store"}, key : Hosts \X Forms])
    BY DEF TypeOK, ProgramAnswers, ProgramFails
  <2>2. \A i \in DOMAIN todo : todo[i].key[1] = host
    BY DEF KeyInv
  <2>3. /\ Head(todo) \in [of : {"helper", "store"}, key : Hosts \X Forms]
        /\ Head(todo) = todo[1] /\ 1 \in DOMAIN todo
        /\ Tail(todo) \in Seq([of : {"helper", "store"}, key : Hosts \X Forms])
        /\ \A i \in DOMAIN Tail(todo) : i + 1 \in DOMAIN todo /\ Tail(todo)[i] = todo[i + 1]
    BY <2>1, HeadAndTail, Zenon
  <2>4. QED BY <2>2, <2>3
<1>2. CASE ProgramAnswers /\ Answer(Head(todo)) \in Logins
  <2>1. Answer(Head(todo)) \in HostLogins(host)
    BY <1>1, <1>2, NotLogins, LoginsOfHost DEF KeyInv, Answer
  <2>2. QED
    BY <1>2, <2>1, Returns DEF ProgramAnswers, TypeOK
<1>3. CASE \/ ProgramAnswers /\ Answer(Head(todo)) \notin Logins
           \/ ProgramFails
  <2>1. /\ UNCHANGED <<config, auths, stored, cli, logins, at, host, file, got, since>>
        /\ at = "ask" /\ todo' = Tail(todo) /\ steady' \in BOOLEAN
    BY <1>3 DEF ProgramAnswers, ProgramFails, TypeOK, operatorVars
  <2>2. QED
    BY <1>1, <2>1 DEF TypeOK, KeyInv
<1>4. QED BY <1>2, <1>3

LEMMA LookUpStep == ASSUME IInv, LookUp PROVE IInv'
<1>. USE DEF IInv
<1>1. Anonymous \in Returned
  BY DEF Returned
<1>2. host \in Hosts /\ steady' \in BOOLEAN /\ UNCHANGED <<operatorVars, host, file, since>>
  BY DEF TypeOK, LookUp
<1>3. ASSUME NEW k \in Keys, IsFirst(k) \/ SameHost(k), Return(Given(file[k])) PROVE IInv'
  <2>1. k[1] = host
    <3>1. \A i \in DOMAIN Candidates(host) : Candidates(host)[i] \in NamesOf(host)
      BY <1>2, NamesOfHost, Items
    <3>2. QED BY <1>3, <3>1 DEF IsFirst, SameHost, NamesOf
  <2>2. file[k] \in {Empty} \cup LoginsOf(k)
    BY <1>3 DEF IsFirst, SameHost, Present, KeyInv, LookUp
  <2>3. Given(file[k]) \in Returned \cup HostLogins(host)
    BY <1>1, <2>1, <2>2, LoginsOfHost DEF Given
  <2>4. QED BY <1>2, <1>3, <2>3, Returns
<1>4. QED
  BY <1>1, <1>2, <1>3, Returns DEF LookUp

LEMMA NextIInv == ASSUME IInv, [Next]_vars PROVE IInv'
<1>. USE DEF IInv
<1>1. CASE Operator
  BY <1>1, OperatorStep
<1>2. CASE \E h \in Hosts : Begin(h)
  BY <1>2, BeginStep
<1>3. CASE FromEnvironment \/ FromEcr \/ ReadFails
  <2>1. \A auth \in Returned : Return(auth) => IInv'
    BY <1>3, Returns DEF FromEnvironment, FromEcr, ReadFails, TypeOK
  <2>2. QED
    BY <1>3, <2>1 DEF FromEnvironment, FromEcr, ReadFails, Returned
<1>4. CASE ReadConfig
  BY <1>4, ReadStep
<1>5. CASE ProgramAnswers \/ ProgramFails
  BY <1>5, ProgramStep
<1>6. CASE LookUp
  BY <1>6, LookUpStep
<1>7. CASE UNCHANGED vars
  BY <1>7 DEF TypeOK, KeyInv, vars, operatorVars, lookVars
<1>8. QED
  BY <1>1, <1>2, <1>3, <1>4, <1>5, <1>6, <1>7 DEF Next, LoadAuth

-----------------------------------------------------------------------------
\* auth.go: every variable keeps its type; what LoadAuth returns is the
\* environment's, a token of ECR, nothing, or a login, and never an entry
\* without credentials.
THEOREM CredentialsTypes == Spec => []TypeOK
<1>1. IInv => TypeOK
  BY DEF IInv
<1>2. QED BY <1>1, InitIInv, NextIInv, PTL DEF Spec

\* auth.go, lookupAuth and the aliases: for any set of registries and keys, what
\* is filed for one registry is returned for no other.
THEOREM NeverAnothersLogin == Spec => []OwnHost
<1>1. IInv => OwnHost
  BY NotLogins, HostOfLogin DEF IInv, KeyInv, OwnHost
<1>2. QED BY <1>1, InitIInv, NextIInv, PTL DEF Spec

-----------------------------------------------------------------------------
(***************************************************************************)
(* What is returned was in force since the look-up began: a program holds  *)
(* only logins that are in force, what is in force while a look-up runs is *)
(* noted in since, and so is what the file held when it was read.          *)
(***************************************************************************)
SinceInv ==
  /\ \A p \in {"helper", "store"} : \A k \in Keys : stored[p][k] \in Logins => p = Place(k)
  /\ at # "idle" => Valid \subseteq since
  /\ at = "ask" => \A k \in Keys : file[k] \in Logins => file[k] \in since
  /\ NotRevoked

LEMMA InitSince == Init => SinceInv
BY NotLogins DEF Init, SinceInv, NotRevoked, Returned

LEMMA InForce ==
  ASSUME NEW k \in Keys
  PROVE  /\ auths[k] \in Logins => auths[k] \in Valid
         /\ \A p \in {"helper", "store"} :
              stored[p][k] \in Logins /\ p = Place(k) => stored[p][k] \in Valid
BY DEF Valid

LEMMA OperatorSince == ASSUME TypeOK, SinceInv, Operator PROVE SinceInv'
<1>1. /\ UNCHANGED <<config, at, host, file, todo, got>>
      /\ since' = IF at = "idle" THEN since ELSE since \cup Valid'
  BY DEF Operator, LoginPlain, LoginStores, LogoutErases, CliWritesFile, Witnessed
<1>2. \A k : Place(k)' = Place(k)
  BY <1>1 DEF Place
<1>3. ASSUME NEW p \in {"helper", "store"}, NEW k \in Keys, stored'[p][k] \in Logins
      PROVE  p = Place(k)
  <2>1. CASE UNCHANGED stored
    BY <1>3, <2>1 DEF SinceInv
  <2>2. CASE \E j \in LoginKeys : LoginStores(j)
    <3>1. PICK j \in Keys : stored' = [stored EXCEPT ![Place(j)][j] = Login(j, logins')]
      BY <2>2 DEF LoginStores, LoginKeys
    <3>2. CASE p = Place(j) /\ k = j
      BY <3>2
    <3>3. CASE ~(p = Place(j) /\ k = j)
      <4>1. stored'[p][k] = stored[p][k]
        BY <3>1, <3>3 DEF TypeOK
      <4>2. QED BY <1>3, <4>1 DEF SinceInv
    <3>4. QED BY <3>2, <3>3
  <2>3. CASE \E j \in LoginKeys : LogoutErases(j)
    <3>1. PICK j \in Keys :
            stored' = stored \/ stored' = [stored EXCEPT ![Place(j)][j] = None]
      BY <2>3 DEF LogoutErases, LoginKeys
    <3>2. CASE p = Place(j) /\ k = j
      <4>1. stored'[p][k] = stored[p][k] \/ stored'[p][k] = None
        BY <3>1, <3>2 DEF TypeOK
      <4>2. QED BY <1>3, <4>1, NotLogins DEF SinceInv
    <3>3. CASE ~(p = Place(j) /\ k = j)
      <4>1. stored'[p][k] = stored[p][k]
        BY <3>1, <3>3 DEF TypeOK
      <4>2. QED BY <1>3, <4>1 DEF SinceInv
    <3>4. QED BY <3>2, <3>3
  <2>4. QED BY <2>1, <2>2, <2>3 DEF Operator, LoginPlain, CliWritesFile
<1>4. since \subseteq since' /\ (at' # "idle" => Valid' \subseteq since')
  BY <1>1
<1>5. QED BY <1>1, <1>2, <1>3, <1>4 DEF SinceInv, NotRevoked

\* A look-up returns no login, or one that was in force since it began.
LEMMA ReturnsSince ==
  ASSUME SinceInv, NEW auth, auth \in Logins => auth \in since, Return(auth),
         UNCHANGED <<operatorVars, host, file, since>>
  PROVE  SinceInv'
BY DEF SinceInv, NotRevoked, Return, Place, operatorVars

LEMMA LoadSince == ASSUME IInv, SinceInv, LoadAuth PROVE SinceInv'
<1>1. CASE FromEnvironment \/ FromEcr \/ ReadFails
  BY <1>1, ReturnsSince, NotLogins
     DEF FromEnvironment, FromEcr, ReadFails, Returned
<1>2. CASE ReadConfig
  <2>1. UNCHANGED <<operatorVars, got, since>> /\ at # "idle" /\ file' = auths
    BY <1>2 DEF ReadConfig, ReadFile
  <2>2. Valid' = Valid /\ \A k : Place(k)' = Place(k)
    BY <2>1 DEF Valid, Place, operatorVars
  <2>3. \A k \in Keys : auths[k] \in Logins => auths[k] \in since
    BY <2>1, InForce DEF SinceInv
  <2>4. QED BY <2>1, <2>2, <2>3 DEF SinceInv, NotRevoked, operatorVars
<1>3. CASE ProgramAnswers /\ Answer(Head(todo)) \in Logins
  <2>1. Head(todo) \in [of : {"helper", "store"}, key : Hosts \X Forms]
    BY <1>3, HeadAndTail, Zenon DEF IInv, TypeOK, ProgramAnswers
  <2>2. PICK q \in [of : {"helper", "store"}, key : Hosts \X Forms] : q = Head(todo)
    BY <2>1
  <2>3. q.key \in Keys /\ Answer(q) = stored[q.of][q.key] /\ q.of \in {"helper", "store"}
    BY <1>3, <2>2, NotLogins DEF Answer
  <2>4. Answer(q) \in since
    BY <1>3, <2>2, <2>3, InForce DEF SinceInv, ProgramAnswers
  <2>5. QED BY <1>3, <2>2, <2>4, ReturnsSince DEF ProgramAnswers
<1>4. CASE \/ ProgramAnswers /\ Answer(Head(todo)) \notin Logins
           \/ ProgramFails
  <2>1. UNCHANGED <<operatorVars, at, file, got, since>>
    BY <1>4 DEF ProgramAnswers, ProgramFails
  <2>2. QED BY <2>1 DEF SinceInv, NotRevoked, Valid, Place, operatorVars
<1>5. CASE LookUp
  <2>1. ASSUME NEW k \in Keys PROVE Given(file[k]) \in Logins => Given(file[k]) \in since
    BY <1>5, NotLogins DEF SinceInv, LookUp, Given, Returned
  <2>2. QED
    BY <1>5, <2>1, ReturnsSince, NotLogins DEF LookUp, Returned
<1>6. QED BY <1>1, <1>2, <1>3, <1>4, <1>5 DEF LoadAuth

LEMMA NextSince == ASSUME IInv, SinceInv, [Next]_vars PROVE SinceInv'
<1>1. CASE Operator
  BY <1>1, OperatorSince DEF IInv
<1>2. CASE \E h \in Hosts : Begin(h)
  <2>1. UNCHANGED operatorVars /\ at' = "load" /\ got' = Nothing /\ since' = Valid
    BY <1>2 DEF Begin
  <2>2. Valid' = Valid /\ (\A k : Place(k)' = Place(k)) /\ Nothing \notin Logins
    BY <2>1, NotLogins DEF Valid, Place, operatorVars, Returned
  <2>3. QED BY <2>1, <2>2 DEF SinceInv, NotRevoked, operatorVars
<1>3. CASE LoadAuth
  BY <1>3, LoadSince
<1>4. CASE UNCHANGED vars
  BY <1>4 DEF SinceInv, NotRevoked, Valid, Place, vars, operatorVars, lookVars
<1>5. QED BY <1>1, <1>2, <1>3, <1>4 DEF Next

\* auth.go, loadDockerConfigAuth: however a docker login or logout falls into a
\* look-up, with any keys and programs, the credentials that it returns were in
\* force at some time of it.
THEOREM NoneRevoked == Spec => []NotRevoked
<1>1. SinceInv => NotRevoked
  BY DEF SinceInv
<1>2. QED
  BY <1>1, InitIInv, InitSince, NextIInv, NextSince, PTL DEF Spec

-----------------------------------------------------------------------------
(***************************************************************************)
(* A login is used.  An entry without credentials stands in config.json    *)
(* for a login that a program has, unless a logout is under way, and a     *)
(* program has only what docker login put there.  So while nothing of the  *)
(* host changes or fails, the file as it was read is the file, and each    *)
(* login that a program has for the host is still to be asked for.         *)
(***************************************************************************)
LoginsFiled ==
  /\ \A k \in Keys : auths[k] = Empty =>
       /\ k \in LoginKeys
       /\ Place(k) # "file"
       /\ stored[Place(k)][k] \in Logins \/ cli = <<"logout", k>>
  /\ cli # <<>> =>
       /\ cli[2] \in LoginKeys
       /\ cli[1] = "login" => Place(cli[2]) # "file" /\ stored[Place(cli[2])][cli[2]] \in Logins
  /\ \A p \in {"helper", "store"} : \A k \in Keys : stored[p][k] \in Logins =>
       k \in LoginKeys /\ p = Place(k)

HasStored(k) == Place(k) # "file" /\ stored[Place(k)][k] \in Logins

FileIsFresh == \A k \in Keys : k[1] = host => file[k] = auths[k]

StillAsked ==
  \A k \in Keys : k[1] = host /\ HasStored(k) =>
    \E i \in DOMAIN todo : todo[i] = Question(Place(k), k)

HostIsLoggedIn == HasLogin(CliKey(host)) /\ (cli = <<>> \/ cli[2][1] # host)

UsedInv ==
  /\ LoginsFiled
  /\ at # "idle" /\ steady => HostIsLoggedIn
  /\ at = "ask" /\ steady /\ ~HubProgram => FileIsFresh /\ StillAsked

LEMMA InitUsed == Init => UsedInv
<1>. SUFFICES ASSUME Init PROVE UsedInv
  OBVIOUS
<1>1. PICK old \in SUBSET Keys : auths = [k \in Keys |-> IF k \in old THEN Login(k, 0) ELSE None]
  BY DEF Init
<1>2. 0 \in 0 .. MaxLogins
  BY CredentialsAssumption
<1>3. \A k \in Keys : Login(k, 0) # Empty
  BY <1>2, NotLogins DEF Logins
<1>4. None # Empty
  BY DEF None, Empty
<1>5. \A k \in Keys : auths[k] # Empty
  BY <1>1, <1>3, <1>4
<1>6. cli = <<>> /\ at = "idle"
  BY DEF Init
<1>7. \A p \in {"helper", "store"} : \A k \in Keys : stored[p][k] \notin Logins
  BY NotLogins DEF Init
<1>8. QED BY <1>5, <1>6, <1>7 DEF UsedInv, LoginsFiled

\* Where a login of a key is.
LEMMA PlaceOf ==
  ASSUME NEW k, Place(k) # "file"
  PROVE  /\ Place(k) \in {"helper", "store"}
         /\ Place(k) = "helper" => k \in config.credHelpers
         /\ Place(k) = "store" => config.credsStore
BY DEF Place

LEMMA OperatorFiled == ASSUME TypeOK, LoginsFiled, Operator PROVE LoginsFiled'
<1>1. config' = config
  BY DEF Operator, LoginPlain, LoginStores, LogoutErases, CliWritesFile, Witnessed
<1>2. \A k : Place(k)' = Place(k)
  BY <1>1 DEF Place
<1>3. LoginKeys \subseteq Keys
  BY DEF LoginKeys
<1>4. ASSUME NEW k \in LoginKeys, LoginPlain(k) PROVE LoginsFiled'
  <2>1. /\ cli = <<>> /\ cli' = <<>> /\ stored' = stored
        /\ auths' = [auths EXCEPT ![k] = Login(k, logins')] /\ logins' \in 0 .. MaxLogins
    BY <1>4, CredentialsAssumption DEF LoginPlain, TypeOK
  <2>2. Login(k, logins') # Empty
    BY <1>3, <2>1, NotLogins DEF Logins
  <2>3. \A j \in Keys : auths'[j] = Empty => auths[j] = Empty
    BY <1>3, <2>1, <2>2 DEF TypeOK
  <2>4. QED BY <1>2, <2>1, <2>3 DEF LoginsFiled
<1>5. ASSUME NEW k \in LoginKeys, LoginStores(k) PROVE LoginsFiled'
  <2>1. /\ cli = <<>> /\ cli' = <<"login", k>> /\ auths' = auths /\ Place(k) # "file"
        /\ stored' = [stored EXCEPT ![Place(k)][k] = Login(k, logins')] /\ logins' \in 0 .. MaxLogins
    BY <1>5, CredentialsAssumption DEF LoginStores, TypeOK
  <2>2. Login(k, logins') \in Logins
    BY <1>3, <2>1 DEF Logins
  <2>3. stored'[Place(k)][k] \in Logins
    BY <1>3, <2>1, <2>2, PlaceOf DEF TypeOK
  <2>4. \A j \in Keys : Place(j) # "file" /\ stored[Place(j)][j] \in Logins => stored'[Place(j)][j] \in Logins
    BY <1>3, <2>1, <2>2, PlaceOf DEF TypeOK
  <2>5. \A j : cli # <<"logout", j>>
    BY <2>1
  <2>6. \A j \in Keys : auths'[j] = Empty =>
          j \in LoginKeys /\ Place(j) # "file" /\ stored'[Place(j)][j] \in Logins
    BY <2>1, <2>4, <2>5 DEF LoginsFiled
  <2>7. cli'[1] = "login" /\ cli'[2] = k
    BY <2>1
  <2>8. ASSUME NEW p \in {"helper", "store"}, NEW j \in Keys, stored'[p][j] \in Logins
        PROVE  j \in LoginKeys /\ p = Place(j)
    <3>1. CASE j = k /\ p = Place(k)
      BY <3>1
    <3>2. CASE ~(j = k /\ p = Place(k))
      <4>1. stored'[p][j] = stored[p][j]
        BY <1>3, <2>1, <3>2, PlaceOf DEF TypeOK
      <4>2. QED BY <2>8, <4>1 DEF LoginsFiled
    <3>3. QED BY <3>1, <3>2
  <2>9. QED BY <1>2, <2>1, <2>3, <2>6, <2>7, <2>8 DEF LoginsFiled
<1>6. ASSUME NEW k \in LoginKeys, LogoutErases(k) PROVE LoginsFiled'
  <2>1. /\ cli = <<>> /\ cli' = <<"logout", k>> /\ auths' = auths
        /\ stored' = IF Place(k) = "file" THEN stored ELSE [stored EXCEPT ![Place(k)][k] = None]
    BY <1>6 DEF LogoutErases
  <2>2. \A j \in Keys : j # k /\ Place(j) # "file" => stored'[Place(j)][j] = stored[Place(j)][j]
    BY <1>3, <2>1, PlaceOf DEF TypeOK
  <2>3. \A j : cli # <<"logout", j>>
    BY <2>1
  <2>4. \A j \in Keys : auths'[j] = Empty =>
          /\ j \in LoginKeys /\ Place(j) # "file"
          /\ stored'[Place(j)][j] \in Logins \/ j = k
    BY <2>1, <2>2, <2>3 DEF LoginsFiled
  <2>5. cli'[1] = "logout" /\ cli'[2] = k
    BY <2>1
  <2>6. ASSUME NEW p \in {"helper", "store"}, NEW j \in Keys, stored'[p][j] \in Logins
        PROVE  j \in LoginKeys /\ p = Place(j)
    <3>1. stored'[p][j] \in {stored[p][j], None}
      BY <1>3, <2>1, PlaceOf DEF TypeOK
    <3>2. QED BY <2>6, <3>1, NotLogins DEF LoginsFiled
  <2>7. QED BY <1>2, <2>1, <2>4, <2>5, <2>6 DEF LoginsFiled
<1>7. ASSUME CliWritesFile PROVE LoginsFiled'
  <2>1. /\ cli # <<>> /\ cli' = <<>> /\ stored' = stored
        /\ auths' = [auths EXCEPT ![cli[2]] = IF cli[1] = "login" THEN Empty ELSE None]
        /\ cli \in {"login", "logout"} \X Keys
    BY <1>7 DEF CliWritesFile, TypeOK
  <2>2. PICK word \in {"login", "logout"}, k \in Keys : cli = <<word, k>>
    BY <2>1
  <2>3. /\ cli[1] = word /\ cli[2] = k /\ k \in LoginKeys
        /\ word = "login" => Place(k) # "file" /\ stored[Place(k)][k] \in Logins
    BY <2>1, <2>2 DEF LoginsFiled
  <2>4. ASSUME NEW j \in Keys, auths'[j] = Empty
        PROVE  j \in LoginKeys /\ Place(j) # "file" /\ stored[Place(j)][j] \in Logins
    <3>1. CASE j = k
      <4>1. auths'[j] = IF word = "login" THEN Empty ELSE None
        BY <2>1, <2>3, <3>1 DEF TypeOK
      <4>2. word = "login"
        BY <2>4, <4>1 DEF None, Empty
      <4>3. QED BY <2>3, <3>1, <4>2
    <3>2. CASE j # k
      <4>1. auths[j] = Empty
        BY <2>1, <2>3, <2>4, <3>2 DEF TypeOK
      <4>2. cli # <<"logout", j>>
        BY <2>2, <3>2
      <4>3. QED BY <4>1, <4>2 DEF LoginsFiled
    <3>3. QED BY <3>1, <3>2
  <2>5. QED BY <1>2, <2>1, <2>4 DEF LoginsFiled
<1>8. QED BY <1>4, <1>5, <1>6, <1>7 DEF Operator

\* What a step of the operator for another host leaves alone.
LEMMA OtherHostsKey ==
  ASSUME TypeOK, NEW h, Operator, steady', at # "idle", h = host
  PROVE  /\ steady
         /\ \A k \in Keys : k[1] = h =>
              auths'[k] = auths[k] /\ \A p \in {"helper", "store"} : stored'[p][k] = stored[p][k]
         /\ cli' = <<>> \/ cli'[2][1] # h
<1>1. ASSUME NEW k, k \in Keys, Witnessed(k)
      PROVE  steady /\ k[1] # h
  BY <1>1 DEF Witnessed
<1>2. LoginKeys \subseteq Keys
  BY DEF LoginKeys
<1>3. ASSUME NEW k \in LoginKeys, LoginPlain(k) \/ LoginStores(k) \/ LogoutErases(k)
      PROVE  /\ steady
             /\ \A j \in Keys : j[1] = h =>
                  auths'[j] = auths[j] /\ \A p \in {"helper", "store"} : stored'[p][j] = stored[p][j]
             /\ cli' = <<>> \/ cli'[2][1] # h
  <2>1. steady /\ k[1] # h
    BY <1>1, <1>2, <1>3 DEF LoginPlain, LoginStores, LogoutErases
  <2>2. cli' = <<>> \/ cli'[2] = k
    BY <1>3 DEF LoginPlain, LoginStores, LogoutErases
  <2>3. \/ UNCHANGED stored
        \/ \E v : stored' = [stored EXCEPT ![Place(k)][k] = v] /\ Place(k) \in {"helper", "store"}
    BY <1>3, PlaceOf DEF LoginPlain, LoginStores, LogoutErases
  <2>4. UNCHANGED auths \/ \E v : auths' = [auths EXCEPT ![k] = v]
    BY <1>3 DEF LoginPlain, LoginStores, LogoutErases
  <2>5. \A j \in Keys : j[1] = h => auths'[j] = auths[j]
    BY <2>1, <2>4 DEF TypeOK
  <2>6. \A j \in Keys : j[1] = h => \A p \in {"helper", "store"} : stored'[p][j] = stored[p][j]
    <3>1. SUFFICES ASSUME NEW j \in Keys, j[1] = h, NEW p \in {"helper", "store"}
                   PROVE  stored'[p][j] = stored[p][j]
      OBVIOUS
    <3>2. j # k
      BY <2>1, <3>1
    <3>3. CASE \E v : stored' = [stored EXCEPT ![Place(k)][k] = v]
      <4>1. PICK v : stored' = [stored EXCEPT ![Place(k)][k] = v]
        BY <3>3
      <4>2. stored \in [{"helper", "store"} -> [Keys -> Logins \cup {None}]]
        BY DEF TypeOK
      <4>3. QED BY <3>2, <4>1, <4>2
    <3>4. QED BY <2>3, <3>3
  <2>7. QED BY <2>1, <2>2, <2>5, <2>6
<1>4. ASSUME CliWritesFile
      PROVE  /\ steady
             /\ \A j \in Keys : j[1] = h =>
                  auths'[j] = auths[j] /\ \A p \in {"helper", "store"} : stored'[p][j] = stored[p][j]
             /\ cli' = <<>> \/ cli'[2][1] # h
  <2>1. cli[2] \in Keys /\ stored' = stored /\ cli' = <<>> /\ Witnessed(cli[2])
    BY <1>4 DEF CliWritesFile, TypeOK
  <2>2. steady /\ cli[2][1] # h
    BY <1>1, <2>1
  <2>3. \A j \in Keys : j[1] = h => auths'[j] = auths[j]
    BY <1>4, <2>1, <2>2 DEF CliWritesFile, TypeOK
  <2>4. QED BY <2>1, <2>2, <2>3
<1>5. QED BY <1>3, <1>4 DEF Operator

LEMMA CliKeyOf ==
  ASSUME NEW h
  PROVE  CliKey(h)[1] = h /\ CliKey(h) \in {<<h, "name">>, <<h, "index">>}
BY DEF CliKey

LEMMA QuestionKeys ==
  ASSUME TypeOK, NEW i \in DOMAIN todo
  PROVE  todo[i].of \in {"helper", "store"} /\ todo[i].key \in Hosts \X Forms
<1>1. todo[i] \in [of : {"helper", "store"}, key : Hosts \X Forms]
  BY Items DEF TypeOK
<1>2. QED BY <1>1

LEMMA OperatorUsed == ASSUME IInv, UsedInv, Operator PROVE UsedInv'
<1>1. UNCHANGED <<config, at, host, file, todo, got>>
  BY DEF Operator, LoginPlain, LoginStores, LogoutErases, CliWritesFile, Witnessed
<1>2. LoginsFiled'
  BY OperatorFiled DEF IInv, UsedInv
<1>3. steady' => steady
  BY DEF Operator, LoginPlain, LoginStores, LogoutErases, CliWritesFile, Witnessed
<1>4. HubProgram' = HubProgram /\ \A k : Place(k)' = Place(k)
  BY <1>1 DEF HubProgram, CliKey, Place
<1>6. ASSUME at # "idle", steady'
      PROVE  /\ steady
             /\ \A k \in Keys : k[1] = host =>
                  auths'[k] = auths[k] /\ \A p \in {"helper", "store"} : stored'[p][k] = stored[p][k]
             /\ cli' = <<>> \/ cli'[2][1] # host
  BY <1>6, OtherHostsKey DEF IInv
<1>7. ASSUME at # "idle", steady' PROVE HostIsLoggedIn'
  <2>1. HasLogin(CliKey(host))
    BY <1>6, <1>7 DEF UsedInv, HostIsLoggedIn
  <2>2. PICK k : k = CliKey(host)
    OBVIOUS
  <2>3. k[1] = host /\ Place(k)' = Place(k) /\ CliKey(host)' = k
    BY <1>1, <2>2, CliKeyOf DEF Place, CliKey
  <2>4. k \in Keys /\ (auths[k] \in Logins \/ (Place(k) # "file" /\ stored[Place(k)][k] \in Logins))
    BY <2>1, <2>2 DEF HasLogin
  <2>5. HasLogin(k)'
    BY <1>6, <1>7, <2>3, <2>4, PlaceOf DEF HasLogin
  <2>6. QED BY <1>1, <1>6, <1>7, <2>3, <2>5 DEF HostIsLoggedIn
<1>8. ASSUME at = "ask", steady', ~HubProgram PROVE FileIsFresh' /\ StillAsked'
  <2>1. FileIsFresh /\ StillAsked
    BY <1>6, <1>8 DEF UsedInv
  <2>2. FileIsFresh'
    BY <1>1, <1>6, <1>8, <2>1 DEF FileIsFresh
  <2>3. \A k \in Keys : k[1] = host /\ HasStored(k)' => HasStored(k)
    BY <1>4, <1>6, <1>8, PlaceOf DEF HasStored
  <2>4. QED BY <1>1, <1>4, <2>1, <2>2, <2>3 DEF StillAsked, Question
<1>9. QED BY <1>1, <1>2, <1>4, <1>7, <1>8 DEF UsedInv

\* The questions are the right ones: what a program has of a key of the host
\* that docker login files is asked for.
LEMMA Asked ==
  ASSUME TypeOK, ~HubProgram, NEW k \in Keys, k \in {CliKey(host), <<host, "name">>},
         Place(k) # "file"
  PROVE  \E i \in DOMAIN (HelperQuestions \o StoreQuestions) :
           (HelperQuestions \o StoreQuestions)[i] = Question(Place(k), k)
<1>. DEFINE Q == [of : {"helper", "store"}, key : NamesOf(host)]
<1>1. host \in Hosts
  BY DEF TypeOK
<1>2. k = <<host, "name">> \/ (host = Hub /\ k = <<Hub, "index">>)
  BY DEF CliKey
<1>3. StoreNames(host) \in Seq(NamesOf(host))
  BY <1>1, NamesOfHost
<1>4. \E i \in DOMAIN StoreNames(host) : StoreNames(host)[i] = k
  <2>1. CASE k = <<host, "name">>
    <3>1. 1 \in DOMAIN StoreNames(host) /\ StoreNames(host)[1] = k
      BY <1>3, <2>1 DEF StoreNames, Aliases
    <3>2. QED BY <3>1
  <2>2. CASE host = Hub /\ k = <<Hub, "index">>
    <3>1. <<<<host, "name">>>> \in Seq(NamesOf(host))
      BY <1>1, OneItem DEF NamesOf, Forms
    <3>2. Aliases(host) \in Seq(NamesOf(host)) /\ 1 \in DOMAIN Aliases(host) /\ Aliases(host)[1] = k
      <4>1. Aliases(host) = <<<<Hub, "index">>, <<Hub, "docker">>>>
        BY <2>2 DEF Aliases
      <4>2. <<Hub, "index">> \in NamesOf(host) /\ <<Hub, "docker">> \in NamesOf(host)
        BY <1>1, <2>2 DEF NamesOf, Forms
      <4>3. QED BY <2>2, <4>1, <4>2
    <3>3. \E j \in DOMAIN StoreNames(host) : StoreNames(host)[j] = Aliases(host)[1]
      <4>. DEFINE a == <<<<host, "name">>>>
                  b == Aliases(host)
      <4>1. a \in Seq(NamesOf(host)) /\ b \in Seq(NamesOf(host)) /\ 1 \in DOMAIN b
        BY <3>1, <3>2
      <4>2. \E j \in DOMAIN (a \o b) : (a \o b)[j] = b[1]
        <5>. HIDE DEF a, b
        <5>1. QED BY <4>1, SecondPart
      <4>3. QED BY <4>2 DEF StoreNames
    <3>4. QED BY <3>2, <3>3
  <2>3. QED BY <1>2, <2>1, <2>2
<1>5. HelperQuestions \in Seq(Q)
  <2>1. Question("helper", <<host, "name">>) \in Q
    BY <1>1 DEF Question, NamesOf, Forms
  <2>2. <<Question("helper", <<host, "name">>)>> \in Seq(Q)
    BY <2>1, OneItem
  <2>3. <<>> \in Seq(Q)
    OBVIOUS
  <2>4. QED BY <2>2, <2>3, Zenon DEF HelperQuestions
<1>6. CASE Place(k) = "helper"
  <2>1. k \in config.credHelpers
    BY <1>6, PlaceOf
  <2>2. k = <<host, "name">>
    BY <1>2, <2>1 DEF HubProgram, CliKey
  <2>3. HelperQuestions = <<Question("helper", k)>>
    BY <2>1, <2>2 DEF HelperQuestions
  <2>4. 1 \in DOMAIN HelperQuestions /\ HelperQuestions[1] = Question("helper", k)
    BY <2>3
  <2>5. StoreQuestions \in Seq(Q)
    BY <1>1, StoreAsksOfHost
  <2>6. 1 \in DOMAIN (HelperQuestions \o StoreQuestions)
        /\ (HelperQuestions \o StoreQuestions)[1] = HelperQuestions[1]
    <3>. HIDE DEF Q
    <3>1. QED BY <1>5, <2>4, <2>5, FirstPart
  <2>7. QED BY <1>6, <2>4, <2>6
<1>7. CASE Place(k) = "store"
  <2>1. StoreQuestions = [i \in DOMAIN StoreNames(host) |-> Question("store", StoreNames(host)[i])]
    BY <1>7, PlaceOf DEF StoreQuestions
  <2>2. PICK i \in DOMAIN StoreNames(host) : StoreNames(host)[i] = k
    BY <1>4
  <2>3. i \in DOMAIN StoreQuestions /\ StoreQuestions[i] = Question("store", k)
    BY <2>1, <2>2
  <2>4. StoreQuestions \in Seq(Q)
    BY <1>1, StoreAsksOfHost
  <2>5. \E j \in DOMAIN (HelperQuestions \o StoreQuestions) :
          (HelperQuestions \o StoreQuestions)[j] = StoreQuestions[i]
    <3>. HIDE DEF Q
    <3>1. QED BY <1>5, <2>3, <2>4, SecondPart
  <2>6. QED BY <1>7, <2>3, <2>5
<1>8. QED BY <1>6, <1>7, PlaceOf

LEMMA BeginUsed == ASSUME IInv, UsedInv, NEW h \in Hosts, Begin(h) PROVE UsedInv'
<1>1. UNCHANGED operatorVars /\ at' = "load" /\ host' = h /\ got' = Nothing
  BY DEF Begin
<1>2. LoginsFiled'
  BY <1>1 DEF UsedInv, LoginsFiled, Place, operatorVars
<1>3. steady' => HostIsLoggedIn'
  <2>1. steady' => HasLogin(CliKey(h)) /\ (cli = <<>> \/ cli[2][1] # h)
    BY DEF Begin
  <2>2. CliKey(host)' = CliKey(h)
    BY <1>1 DEF CliKey
  <2>3. HasLogin(CliKey(h))' = HasLogin(CliKey(h))
    BY <1>1 DEF HasLogin, Place, operatorVars
  <2>4. QED BY <1>1, <2>1, <2>2, <2>3 DEF HostIsLoggedIn, operatorVars
<1>4. QED BY <1>1, <1>2, <1>3 DEF UsedInv

\* The file is read, and a login that a program has for the host is one of docker
\* login, for which ReadConfig asks.
LEMMA ReadUsed == ASSUME IInv, UsedInv, ReadConfig PROVE UsedInv'
<1>1. /\ UNCHANGED <<config, auths, stored, cli, logins, host, got, since, steady>>
      /\ at = "load" /\ at' = "ask" /\ file' = auths
      /\ todo' = HelperQuestions \o StoreQuestions
  BY DEF ReadConfig, ReadFile, operatorVars
<1>2. LoginsFiled'
  BY <1>1 DEF UsedInv, LoginsFiled, Place
<1>3. HubProgram' = HubProgram /\ \A k : Place(k)' = Place(k)
  BY <1>1 DEF CliKey, HubProgram, Place
<1>4. steady => HostIsLoggedIn'
  BY <1>1 DEF UsedInv, HostIsLoggedIn, HasLogin, Place, CliKey
<1>5. FileIsFresh'
  BY <1>1 DEF FileIsFresh
<1>6. ASSUME ~HubProgram PROVE StillAsked'
  <2>1. SUFFICES ASSUME NEW k \in Keys, k[1] = host, HasStored(k)
                 PROVE  \E i \in DOMAIN todo' : todo'[i] = Question(Place(k), k)
    BY <1>1, <1>3 DEF StillAsked, HasStored, Question
  <2>2. Place(k) # "file" /\ k \in LoginKeys
    BY <2>1, PlaceOf DEF HasStored, UsedInv, LoginsFiled
  <2>3. k \in {CliKey(host), <<host, "name">>}
    BY <2>1, <2>2, CliKeyOf DEF LoginKeys
  <2>4. QED BY <1>1, <1>6, <2>2, <2>3, Asked DEF IInv
<1>7. QED BY <1>1, <1>2, <1>3, <1>4, <1>5, <1>6 DEF UsedInv

\* A return ends the look-up.
LEMMA ReturnsUsed ==
  ASSUME UsedInv, NEW auth, Return(auth), UNCHANGED <<operatorVars, host>>
  PROVE  UsedInv'
<1>1. at' = "idle"
  BY DEF Return
<1>2. LoginsFiled'
  BY DEF UsedInv, LoginsFiled, Place, operatorVars
<1>3. QED BY <1>1, <1>2 DEF UsedInv

\* A program that is asked and has no login was not asked for one that a program
\* has; the others are asked later.
LEMMA ProgramUsed == ASSUME IInv, UsedInv, ProgramAnswers PROVE UsedInv'
<1>. DEFINE T == [of : {"helper", "store"}, key : Hosts \X Forms]
<1>1. /\ UNCHANGED <<operatorVars, host, file, steady>> /\ at = "ask" /\ todo # <<>>
      /\ todo \in Seq(T)
  BY DEF ProgramAnswers, IInv, TypeOK
<1>2. CASE Answer(Head(todo)) \in Logins
  BY <1>1, <1>2, ReturnsUsed DEF ProgramAnswers
<1>3. CASE Answer(Head(todo)) \notin Logins
  <2>1. todo' = Tail(todo) /\ UNCHANGED <<at, got>>
    BY <1>3 DEF ProgramAnswers
  <2>2. \A k : HasStored(k)' = HasStored(k) /\ Place(k)' = Place(k)
    BY <1>1 DEF HasStored, Place, operatorVars
  <2>3. StillAsked => StillAsked'
    <3>1. SUFFICES ASSUME NEW k \in Keys, HasStored(k), NEW i \in DOMAIN todo,
                          todo[i] = Question(Place(k), k)
                   PROVE  \E j \in DOMAIN todo' : todo'[j] = Question(Place(k), k)
      BY <1>1, <2>2 DEF StillAsked, Question
    <3>2. Answer(todo[i]) = stored[Place(k)][k]
      BY <3>1 DEF Answer, Question
    <3>3. Head(todo) = todo[1] /\ i # 1
      BY <1>1, <1>3, <3>1, <3>2 DEF HasStored
    <3>4. i - 1 \in DOMAIN Tail(todo) /\ Tail(todo)[i - 1] = todo[i]
      <4>. HIDE DEF T
      <4>1. QED BY <1>1, <3>1, <3>3
    <3>5. QED BY <2>1, <3>1, <3>4
  <2>4. FileIsFresh => FileIsFresh'
    BY <1>1 DEF FileIsFresh, operatorVars
  <2>5. LoginsFiled' /\ HubProgram' = HubProgram /\ (HostIsLoggedIn => HostIsLoggedIn')
    BY <1>1 DEF UsedInv, LoginsFiled, Place, HubProgram, CliKey, HostIsLoggedIn, HasLogin, operatorVars
  <2>6. QED BY <1>1, <2>1, <2>3, <2>4, <2>5 DEF UsedInv
<1>4. QED BY <1>2, <1>3

\* Of the exact keys there is a first one, if docker login's is there.
LEMMA SomeFirst ==
  ASSUME host \in Hosts, Present(CliKey(host))
  PROVE  \E k \in Keys : IsFirst(k)
<1>. DEFINE c == Candidates(host)
<1>1. c[1] = <<host, "name">> /\ 1 \in DOMAIN c
  BY DEF Candidates, Aliases
<1>2. CASE Present(<<host, "name">>)
  <2>1. <<host, "name">> \in Keys /\ \A j \in 1 .. 1 - 1 : ~Present(c[j])
    BY <1>2 DEF Present
  <2>2. IsFirst(<<host, "name">>)
    BY <1>1, <1>2, <2>1 DEF IsFirst
  <2>3. QED BY <2>1, <2>2
<1>3. CASE ~Present(<<host, "name">>)
  <2>1. host = Hub /\ Present(<<Hub, "index">>)
    BY <1>3 DEF CliKey
  <2>2. /\ c[2] = <<host, "url">> /\ c[3] = <<Hub, "index">>
        /\ 2 \in DOMAIN c /\ 3 \in DOMAIN c
    BY <2>1 DEF Candidates, Aliases
  <2>3. CASE Present(<<host, "url">>)
    <3>1. \A j \in 1 .. 2 - 1 : ~Present(c[j])
      BY <1>1, <1>3
    <3>2. IsFirst(<<host, "url">>)
      BY <2>2, <2>3, <3>1 DEF IsFirst
    <3>3. QED BY <2>3, <3>2 DEF Present
  <2>4. CASE ~Present(<<host, "url">>)
    <3>1. \A j \in 1 .. 3 - 1 : ~Present(c[j])
      <4>1. \A j \in 1 .. 3 - 1 : j = 1 \/ j = 2
        OBVIOUS
      <4>2. QED BY <1>1, <1>3, <2>2, <2>4, <4>1
    <3>2. IsFirst(<<Hub, "index">>)
      BY <2>1, <2>2, <3>1 DEF IsFirst
    <3>3. QED BY <2>1, <3>2 DEF Present
  <2>5. QED BY <2>3, <2>4
<1>4. QED BY <1>2, <1>3

LEMMA NextUsed == ASSUME IInv, UsedInv, [Next]_vars PROVE UsedInv'
<1>1. CASE Operator
  BY <1>1, OperatorUsed
<1>2. CASE \E h \in Hosts : Begin(h)
  BY <1>2, BeginUsed
<1>3. CASE FromEnvironment
  BY <1>3, ReturnsUsed DEF FromEnvironment
<1>4. CASE FromEcr
  BY <1>4, ReturnsUsed DEF FromEcr
<1>5. CASE ReadFails
  <2>1. UNCHANGED <<operatorVars, host>> /\ Return(Anonymous)
    BY <1>5 DEF ReadFails
  <2>2. QED BY <2>1, ReturnsUsed
<1>6. CASE ReadConfig
  BY <1>6, ReadUsed
<1>7. CASE ProgramAnswers
  BY <1>7, ProgramUsed
<1>8. CASE ProgramFails
  <2>1. UNCHANGED <<operatorVars, at, host, file, got>> /\ steady' = FALSE
    BY <1>8 DEF ProgramFails
  <2>2. LoginsFiled'
    BY <2>1 DEF UsedInv, LoginsFiled, Place, operatorVars
  <2>3. QED BY <2>1, <2>2 DEF UsedInv
<1>9. CASE LookUp
  <2>1. UNCHANGED <<operatorVars, host>> /\ \E auth : Return(auth)
    BY <1>9 DEF LookUp
  <2>2. QED BY <2>1, ReturnsUsed
<1>10. CASE UNCHANGED vars
  BY <1>10 DEF UsedInv, LoginsFiled, Place, HostIsLoggedIn, HasLogin, CliKey, HubProgram,
               HasStored, FileIsFresh, StillAsked, vars, operatorVars, lookVars
<1>11. QED
  BY <1>1, <1>2, <1>3, <1>4, <1>5, <1>6, <1>7, <1>8, <1>9, <1>10 DEF Next, LoadAuth

\* What a program has of the host is what docker login put there last: that is
\* what an answer gives.
LEMMA AnswerInForce ==
  ASSUME IInv, UsedInv, at = "ask", todo # <<>>, Answer(Head(todo)) \in Logins
  PROVE  Answer(Head(todo)) \in CurrentLogins(host)
<1>1. todo \in Seq([of : {"helper", "store"}, key : Hosts \X Forms])
  BY DEF IInv, TypeOK
<1>2. 1 \in DOMAIN todo /\ Head(todo) = todo[1]
  BY <1>1, HeadAndTail
<1>3. PICK k : k = Head(todo).key
  OBVIOUS
<1>4. Head(todo).of \in {"helper", "store"} /\ k[1] = host
  BY <1>2, <1>3, QuestionKeys DEF IInv, KeyInv
<1>5. k \in Keys /\ Answer(Head(todo)) = stored[Head(todo).of][k]
  BY <1>3, NotLogins DEF Answer
<1>6. k \in LoginKeys /\ Head(todo).of = Place(k)
  BY <1>4, <1>5 DEF UsedInv, LoginsFiled
<1>7. Answer(Head(todo)) = Current(k)
  BY <1>4, <1>5, <1>6 DEF Current
<1>8. CASE host = Hub
  BY <1>4, <1>5, <1>7, <1>8 DEF CurrentLogins
<1>9. CASE host # Hub
  <2>1. k = CliKey(host)
    BY <1>4, <1>6, <1>9 DEF LoginKeys, CliKey
  <2>2. QED BY <1>7, <1>9, <2>1 DEF CurrentLogins
<1>10. QED BY <1>8, <1>9

\* With nothing left to ask, no program has a login of the host, so the file has
\* docker login's, and it is found.
LEMMA LookUpInForce ==
  ASSUME IInv, UsedInv, LookUp, steady, ~HubProgram
  PROVE  got' \in CurrentLogins(host)
<1>1. at = "ask" /\ todo = <<>> /\ host \in Hosts
  BY DEF LookUp, IInv, TypeOK
<1>2. FileIsFresh /\ StillAsked /\ HostIsLoggedIn /\ LoginsFiled
  BY <1>1 DEF UsedInv
<1>3. ASSUME NEW k \in Keys, k[1] = host
      PROVE  ~HasStored(k) /\ file[k] = auths[k] /\ file[k] # Empty
  <2>1. ~HasStored(k)
    BY <1>1, <1>2, <1>3 DEF StillAsked
  <2>2. cli # <<"logout", k>>
    <3>1. CASE cli = <<>>
      BY <3>1
    <3>2. CASE cli[2][1] # host
      BY <1>3, <3>2
    <3>3. QED BY <1>2, <3>1, <3>2 DEF HostIsLoggedIn
  <2>3. auths[k] # Empty
    BY <1>2, <2>1, <2>2 DEF LoginsFiled, HasStored
  <2>4. QED BY <1>2, <1>3, <2>1, <2>3 DEF FileIsFresh
<1>4. CliKey(host) \in Keys /\ CliKey(host)[1] = host /\ file[CliKey(host)] \in Logins
  <2>1. PICK k : k = CliKey(host)
    OBVIOUS
  <2>2. k \in Keys /\ k[1] = host /\ (auths[k] \in Logins \/ HasStored(k))
    BY <1>2, <2>1, CliKeyOf DEF HostIsLoggedIn, HasLogin, HasStored
  <2>3. QED BY <1>3, <2>1, <2>2
<1>5. Present(CliKey(host))
  BY <1>4, NotLogins DEF Present
<1>6. PICK k \in Keys : IsFirst(k) /\ Return(Given(file[k]))
  BY <1>1, <1>5, SomeFirst DEF LookUp
<1>7. k[1] = host /\ file[k] # None
  <2>1. \A i \in DOMAIN Candidates(host) : Candidates(host)[i] \in NamesOf(host)
    BY <1>1, NamesOfHost, Items
  <2>2. QED BY <1>6, <2>1 DEF IsFirst, Present, NamesOf
<1>8. file[k] \in Logins
  BY <1>1, <1>3, <1>7, LoginsOfHost DEF IInv, KeyInv
<1>9. got' = file[k] /\ Current(k) = file[k]
  BY <1>3, <1>6, <1>7 DEF Return, Given, Current, HasStored
<1>10. CASE host = Hub
  BY <1>7, <1>8, <1>9, <1>10 DEF CurrentLogins
<1>11. CASE host # Hub
  <2>1. CliKey(host) = <<host, "name">>
    BY <1>11 DEF CliKey
  <2>2. Candidates(host)[1] = <<host, "name">>
    BY <1>11 DEF Candidates, Aliases
  <2>3. PICK i \in DOMAIN Candidates(host) :
          k = Candidates(host)[i] /\ \A j \in 1 .. i - 1 : ~Present(Candidates(host)[j])
    BY <1>6 DEF IsFirst
  <2>4. i \in Nat /\ i >= 1
    <3>1. Candidates(host) \in Seq(NamesOf(host))
      BY <1>1, NamesOfHost
    <3>2. QED BY <2>3, <3>1
  <2>5. i = 1
    BY <1>5, <2>1, <2>2, <2>3, <2>4
  <2>6. QED BY <1>9, <1>11, <2>1, <2>2, <2>3, <2>5 DEF CurrentLogins
<1>12. QED BY <1>10, <1>11

(***************************************************************************)
(* "Any host you've already authenticated to with docker login will Just   *)
(* Work" (README, Registries), for any registries, keys and programs.  A   *)
(* look-up that began with a docker login for its host in force and that   *)
(* no failure and no change of the host's entries disturbed returns that   *)
(* login, or for the Docker Hub a login in force under one of its names.   *)
(* Exempt are look-ups that the environment's credentials or ECR decide,   *)
(* and a program of the Docker Hub's own.                                  *)
(***************************************************************************)
THEOREM LoginsAreUsed == Spec => LoginIsUsed
<1>. DEFINE Used ==
       /\ at # "idle" /\ at' = "idle" /\ steady' /\ ~config.env /\ host \notin Ecr /\ ~HubProgram
       => got' \in CurrentLogins(host)
<1>1. IInv /\ UsedInv /\ [Next]_vars => [Used]_vars
  <2>. SUFFICES ASSUME IInv, UsedInv, Next, at # "idle", at' = "idle", steady', ~config.env,
                       host \notin Ecr, ~HubProgram
                PROVE  got' \in CurrentLogins(host)
    OBVIOUS
  <2>1. CASE ProgramAnswers
    <3>1. Answer(Head(todo)) \in Logins /\ got' = Answer(Head(todo))
      BY <2>1 DEF ProgramAnswers, Return
    <3>2. QED BY <2>1, <3>1, AnswerInForce DEF ProgramAnswers
  <2>2. CASE LookUp
    <3>1. steady
      BY <2>2 DEF LookUp
    <3>2. QED BY <2>2, <3>1, LookUpInForce
  <2>3. ~(Operator \/ \E h \in Hosts : Begin(h))
    BY DEF Operator, LoginPlain, LoginStores, LogoutErases, CliWritesFile, Witnessed, Begin
  <2>4. ~(FromEnvironment \/ FromEcr \/ ReadFails \/ ReadConfig \/ ProgramFails)
    BY DEF FromEnvironment, FromEcr, ReadFails, ReadConfig, ProgramFails
  <2>5. QED BY <2>1, <2>2, <2>3, <2>4 DEF Next, LoadAuth
<1>2. QED
  BY <1>1, InitIInv, InitUsed, NextIInv, NextUsed, PTL DEF Spec, LoginIsUsed
=============================================================================
