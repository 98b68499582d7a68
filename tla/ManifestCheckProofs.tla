------------------------- MODULE ManifestCheckProofs -------------------------
(***************************************************************************)
(* Proofs about the comparison with the registry, for every set of         *)
(* releases, every registry and every set of local identifiers that can be *)
(* compared.                                                               *)
(***************************************************************************)
EXTENDS ManifestCheck, TLAPS

\* What has been fetched so far at each request.
FetchedInv ==
  /\ Comparable
  /\ tag \in served
  /\ phase \in {"head", "top"} => ids = {} /\ verdict = "none"
  /\ phase = "leaf" =>
       /\ top \in served \cap MultiArch
       /\ ids = Header(top, "index") \cup {<<top, "manifest">>}
       /\ verdict = "none"

IInv == TypeOK /\ FetchedInv /\ VerdictSound /\ OneRelease

\* All identifiers of the local release that a check fetches meet those
\* that the engine recorded.
LEMMA LocalMeets ==
  ASSUME TypeOK, Comparable
  PROVE
  /\ Local \in MultiArch =>
       (Header(Local, "index") \cup Header(Local, "manifest")
          \cup {<<Local, "manifest">>, <<Local, "config">>}) \cap LocalIds # {}
  /\ Local \notin MultiArch =>
       (Header(Local, "manifest") \cup {<<Local, "config">>}) \cap LocalIds # {}
<1>1. CASE Local \in MultiArch
  <2>1. PICK k \in recorded : sends \/ k \in {"manifest", "config"}
    BY <1>1 DEF Comparable
  <2>2. k \in {"index", "manifest", "config"}
    BY <1>1 DEF TypeOK, KindsOf
  <2>3. <<Local, k>> \in LocalIds
    BY DEF LocalIds
  <2>4. <<Local, k>> \in Header(Local, "index") \cup Header(Local, "manifest")
                          \cup {<<Local, "manifest">>, <<Local, "config">>}
    BY <2>1, <2>2 DEF Header
  <2>5. QED BY <1>1, <2>3, <2>4
<1>2. CASE Local \notin MultiArch
  <2>1. PICK k \in recorded : sends \/ k = "config"
    BY <1>2 DEF Comparable
  <2>2. k \in {"manifest", "config"}
    BY <1>2 DEF TypeOK, KindsOf
  <2>3. <<Local, k>> \in LocalIds
    BY DEF LocalIds
  <2>4. <<Local, k>> \in Header(Local, "manifest") \cup {<<Local, "config">>}
    BY <2>1, <2>2 DEF Header
  <2>5. QED BY <1>2, <2>3, <2>4
<1>3. QED BY <1>1, <1>2

\* No step changes what was recorded and what the registry sends.
LEMMA SettingsKept ==
  ASSUME IInv, UNCHANGED settings
  PROVE  /\ Comparable'
         /\ recorded' = recorded /\ recorded' \subseteq KindsOf(Local)
         /\ sends' = sends /\ sends' \in BOOLEAN
BY DEF IInv, TypeOK, FetchedInv, settings, Comparable

\* Nothing has been fetched initially.
LEMMA InitIInv == Init => IInv
BY ManifestCheckAssumption
DEF Init, IInv, TypeOK, FirstStep, FetchedInv, VerdictSound, OneRelease

\* An answer to the HEAD ends the check as up to date only if its digest is
\* the local one; the tag is one of the releases served.
LEMMA HeadStep == ASSUME IInv, AnswerHead, UNCHANGED settings PROVE IInv'
<1>. /\ Comparable'
     /\ recorded' = recorded /\ recorded' \subseteq KindsOf(Local)
     /\ sends' = sends /\ sends' \in BOOLEAN
  BY SettingsKept
<1>1. TypeOK'
  BY DEF IInv, TypeOK, AnswerHead, Conclude, Ask, FirstStep, registryVars
<1>2. FetchedInv' /\ OneRelease'
  BY DEF IInv, FetchedInv, OneRelease, AnswerHead, Conclude, Ask, registryVars
<1>3. VerdictSound'
  BY DEF IInv, FetchedInv, VerdictSound, AnswerHead, HeadMatches, Conclude, Ask,
         registryVars, Header, LocalIds
<1>4. QED BY <1>1, <1>2, <1>3 DEF IInv

\* An answer to the GET by tag: a plain manifest is compared, a manifest list
\* leads to the GET of the manifest it names.
LEMMA TopStep == ASSUME IInv, AnswerTop, UNCHANGED settings PROVE IInv'
<1>. /\ Comparable'
     /\ recorded' = recorded /\ recorded' \subseteq KindsOf(Local)
     /\ sends' = sends /\ sends' \in BOOLEAN
  BY SettingsKept
<1>. USE DEF IInv
<1>1. TypeOK'
  BY DEF TypeOK, AnswerTop, ListIds, Compare, Conclude, Ask, FirstStep, registryVars, Ids, Header
<1>2. OneRelease'
  BY DEF OneRelease, AnswerTop, ListIds, Header
<1>3. FetchedInv'
  <2>1. CASE tag \in MultiArch
    BY <2>1 DEF FetchedInv, AnswerTop, ListIds, Ask, registryVars, Header
  <2>2. CASE tag \notin MultiArch
    BY <2>2 DEF FetchedInv, AnswerTop, Compare, Conclude, registryVars
  <2>3. QED BY <2>1, <2>2
<1>4. VerdictSound'
  <2>1. CASE tag \in MultiArch
    BY <2>1 DEF VerdictSound, FetchedInv, AnswerTop, Ask, registryVars
  <2>2. CASE tag \notin MultiArch
    <3>1. /\ ids' = Header(tag, "manifest") \cup {<<tag, "config">>}
          /\ verdict' = IF ids' \cap LocalIds # {} THEN "up_to_date" ELSE "outdated"
          /\ served' = served /\ tag \in served
      BY <2>2 DEF AnswerTop, Compare, Conclude, registryVars, FetchedInv
    <3>2. ids' \cap LocalIds # {} => tag = Local
      BY <3>1 DEF Header, LocalIds
    <3>3. ids' \cap LocalIds = {} => tag # Local
      BY <2>2, <3>1, LocalMeets DEF FetchedInv
    <3>4. QED BY <3>1, <3>2, <3>3 DEF VerdictSound
  <2>3. QED BY <2>1, <2>2
<1>5. QED BY <1>1, <1>2, <1>3, <1>4

\* The manifest that a list names belongs to the release of the list, so the
\* comparison is with that release although the tag may have moved.
LEMMA LeafStep == ASSUME IInv, AnswerLeaf, UNCHANGED settings PROVE IInv'
<1>. /\ Comparable'
     /\ recorded' = recorded /\ recorded' \subseteq KindsOf(Local)
     /\ sends' = sends /\ sends' \in BOOLEAN
  BY SettingsKept
<1>. USE DEF IInv
<1>1. TypeOK'
  BY DEF TypeOK, AnswerLeaf, Leaf, Compare, Conclude, registryVars, Ids, Header
<1>2. OneRelease'
  BY DEF FetchedInv, OneRelease, AnswerLeaf, Leaf, Header
<1>3. FetchedInv'
  BY DEF FetchedInv, AnswerLeaf, Compare, Conclude, registryVars
<1>4. VerdictSound'
  <2>1. /\ ids' = Header(top, "index") \cup {<<top, "manifest">>}
                    \cup Header(top, "manifest") \cup {<<top, "config">>}
        /\ verdict' = IF ids' \cap LocalIds # {} THEN "up_to_date" ELSE "outdated"
        /\ served' = served /\ top \in served \cap MultiArch
    BY DEF AnswerLeaf, Leaf, Compare, Conclude, registryVars, FetchedInv
  <2>2. ids' \cap LocalIds # {} => top = Local
    BY <2>1 DEF Header, LocalIds
  <2>3. ids' \cap LocalIds = {} => top # Local
    BY <2>1, LocalMeets DEF FetchedInv
  <2>4. QED BY <2>1, <2>2, <2>3 DEF VerdictSound
<1>5. QED BY <1>1, <1>2, <1>3, <1>4

\* A failure keeps what was fetched before.
LEMMA FailStep == ASSUME IInv, Fails, UNCHANGED settings PROVE IInv'
<1>. /\ Comparable'
     /\ recorded' = recorded /\ recorded' \subseteq KindsOf(Local)
     /\ sends' = sends /\ sends' \in BOOLEAN
  BY SettingsKept
<1>1. TypeOK'
  BY DEF IInv, TypeOK, Fails, Conclude, Ask, FirstStep, registryVars
<1>2. FetchedInv' /\ OneRelease' /\ VerdictSound'
  BY DEF IInv, FetchedInv, OneRelease, VerdictSound, Fails, Conclude, Ask, registryVars
<1>3. QED BY <1>1, <1>2 DEF IInv

\* IInv is inductive: no request, token, challenge or move of the tag breaks
\* it.
LEMMA NextStep == IInv /\ [Next]_vars => IInv'
<1>. SUFFICES ASSUME IInv, [Next]_vars PROVE IInv'
  OBVIOUS
<1>1. CASE Answer /\ UNCHANGED settings
  BY <1>1, HeadStep, TopStep, LeafStep DEF Answer
<1>2. CASE Fails /\ UNCHANGED settings
  BY <1>2, FailStep
<1>3. CASE /\ phase # "done"
           /\ step' \in {"send", "challenge", "retry"}
           /\ UNCHANGED <<registryVars, phase, top, ids, verdict, settings>>
  BY <1>3 DEF IInv, TypeOK, FetchedInv, VerdictSound, OneRelease, registryVars, settings,
              Comparable, Header
<1>4. CASE Publish
  <2>1. TypeOK'
    BY <1>4, ManifestCheckAssumption DEF Publish, IInv, TypeOK, settings
  <2>2. FetchedInv' /\ VerdictSound' /\ OneRelease'
    BY <1>4 DEF Publish, IInv, TypeOK, FetchedInv, VerdictSound, OneRelease, settings, Comparable,
                Header
  <2>3. QED BY <2>1, <2>2 DEF IInv
<1>5. CASE UNCHANGED vars
  BY <1>5 DEF vars, settings, IInv, TypeOK, FetchedInv, Comparable, Header, VerdictSound, OneRelease
<1>6. QED
  BY <1>1, <1>2, <1>3, <1>4, <1>5
  DEF Next, Requests, Token, Send, Challenge, Retry, Refuses, Returned

\* The verdict is as good as one atomic look at the registry.
THEOREM VerdictIsSound == Spec => []VerdictSound
<1>1. IInv => VerdictSound
  BY DEF IInv
<1>2. QED BY <1>1, InitIInv, NextStep, PTL DEF Spec

\* The identifiers that are compared belong to one release.
THEOREM IdsOfOneRelease == Spec => []OneRelease
<1>1. IInv => OneRelease
  BY DEF IInv
<1>2. QED BY <1>1, InitIInv, NextStep, PTL DEF Spec

-----------------------------------------------------------------------------
\* Until a GET by tag is answered, top is the release that a HEAD can match.
TopInv == phase = "head" => top = Local

LEMMA TopStays == TopInv /\ [Next]_vars => TopInv'
BY DEF TopInv, Next, Requests, Token, Send, Challenge, Retry, Refuses, Returned, Publish, Answer,
       AnswerHead, AnswerTop, AnswerLeaf, Compare, Conclude, Ask, Fails, registryVars, vars

\* The answers look at the registry or decide, and a failure is a failure.
LEMMA AnswerIsLook ==
  ASSUME IInv, TopInv, Answer, UNCHANGED settings PROVE [Atomic!Next]_(Atomic!vars)
<1>. DEFINE seen == IF phase = "leaf" \/ verdict \in {"up_to_date", "outdated"} THEN {top} ELSE {}
<1>. USE DEF IInv, FetchedInv, registryVars
<1>1. CASE AnswerHead
  <2>1. CASE HeadMatches
    <3>1. tag = Local
      BY <2>1 DEF HeadMatches, Header, LocalIds
    <3>2. verdict' = "up_to_date" /\ seen = {} /\ seen' = {tag} /\ tag' = tag /\ verdict = "none"
      BY <1>1, <2>1, <3>1 DEF AnswerHead, Conclude, TopInv
    <3>3. Atomic!Look
      BY <3>1, <3>2 DEF Atomic!Look, Atomic!About
    <3>4. QED BY <3>3 DEF Atomic!Next
  <2>2. CASE ~HeadMatches
    BY <1>1, <2>2 DEF AnswerHead, Ask, Atomic!vars
  <2>3. QED BY <2>1, <2>2
<1>2. CASE AnswerTop
  <2>1. seen = {} /\ verdict = "none" /\ tag' = tag /\ seen' = {tag}
    BY <1>2 DEF AnswerTop, Ask, Compare, Conclude
  <2>2. verdict' \in {"none", Atomic!About(tag)}
    <3>1. CASE tag \in MultiArch
      BY <1>2, <3>1 DEF AnswerTop, Ask
    <3>2. CASE tag \notin MultiArch
      <4>1. /\ ids' = Header(tag, "manifest") \cup {<<tag, "config">>}
            /\ verdict' = IF ids' \cap LocalIds # {} THEN "up_to_date" ELSE "outdated"
        BY <1>2, <3>2 DEF AnswerTop, Compare, Conclude
      <4>2. ids' \cap LocalIds # {} <=> tag = Local
        BY <3>2, <4>1, LocalMeets DEF Header, LocalIds
      <4>3. QED BY <4>1, <4>2 DEF Atomic!About
    <3>3. QED BY <3>1, <3>2
  <2>3. Atomic!Look
    BY <2>1, <2>2 DEF Atomic!Look
  <2>4. QED BY <2>3 DEF Atomic!Next
<1>3. CASE AnswerLeaf
  <2>1. /\ ids' = Header(top, "index") \cup {<<top, "manifest">>}
                    \cup Header(top, "manifest") \cup {<<top, "config">>}
        /\ verdict' = IF ids' \cap LocalIds # {} THEN "up_to_date" ELSE "outdated"
        /\ tag' = tag /\ top' = top /\ top \in MultiArch
        /\ verdict = "none" /\ seen = {top} /\ seen' = {top}
    BY <1>3 DEF AnswerLeaf, Leaf, Compare, Conclude
  <2>2. ids' \cap LocalIds # {} <=> top = Local
    BY <2>1, LocalMeets DEF Header, LocalIds
  <2>3. Atomic!Decide
    BY <2>1, <2>2 DEF Atomic!Decide, Atomic!About
  <2>4. QED BY <2>3 DEF Atomic!Next
<1>4. QED BY <1>1, <1>2, <1>3 DEF Answer

(***************************************************************************)
(* A comparison implements RegistryLook for every set of releases, every   *)
(* kind of registry and every set of local identifiers: update decisions   *)
(* are about one release that the tag pointed at while the check ran       *)
(* (digest.go: FetchRemoteIdentifiers; watcher.go: identifiersIntersect).  *)
(***************************************************************************)
THEOREM CheckIsAtomicLook == Spec => AtomicLook
<1>1. Init => Atomic!Init /\ TopInv
  BY DEF Init, Atomic!Init, TopInv
<1>2. IInv /\ TopInv /\ [Next]_vars => [Atomic!Next]_(Atomic!vars)
  <2>. SUFFICES ASSUME IInv, TopInv, [Next]_vars PROVE [Atomic!Next]_(Atomic!vars)
    OBVIOUS
  <2>1. CASE Answer /\ UNCHANGED settings
    BY <2>1, AnswerIsLook
  <2>2. CASE phase # "done" /\ Fails
    BY <2>2 DEF Fails, Ask, Conclude, registryVars, IInv, FetchedInv, TypeOK,
                Atomic!Next, Atomic!Fail, Atomic!vars
  <2>3. CASE UNCHANGED <<registryVars, phase, top, ids, verdict>>
    BY <2>3 DEF registryVars, Atomic!vars
  <2>4. CASE Publish
    BY <2>4 DEF Publish, Atomic!Next, Atomic!Move
  <2>5. CASE UNCHANGED vars
    BY <2>5 DEF vars, Atomic!vars
  <2>6. QED
    BY <2>1, <2>2, <2>3, <2>4, <2>5
    DEF Next, Requests, Token, Send, Challenge, Retry, Refuses, Returned
<1>3. QED
  BY <1>1, <1>2, InitIInv, NextStep, TopStays, PTL DEF Spec, AtomicLook, Atomic!Spec
=============================================================================
