----------------------------- MODULE CertsProofs -----------------------------
(***************************************************************************)
(* Theorems about Certs, for any domains, requests and numbers of mishaps: *)
(* typing, the certificate in memory, the two files, handshakes and        *)
(* second orders.                                                          *)
(***************************************************************************)
EXTENDS Certs, FiniteSetTheorems, TLAPS

\* The next step, order by order.
LEMMA Steps ==
  ASSUME Next
  PROVE  \/ \E k \in Order : \/ CheckExisting(k) \/ PublishTXT(k) \/ PublishFails(k)
                             \/ Validate(k) \/ ValidateFails(k) \/ ClearTXT(k)
                             \/ Issue(k) \/ IssueFails(k) \/ WriteCert(k) \/ WriteKey(k)
                             \/ LockAndCopyChain(k) \/ CopyKey(k)
         \/ LoadExisting \/ SelfSign \/ HubTick \/ DuckTick \/ Hello \/ SendChain \/ Sign
         \/ \E k \in Poster : Post(k)
         \/ Age \/ Crash
BY DEF Next, Task, OrderStep, Succeeds, OrderFails, LocalStep, Install, Fallback, Handshake

LEMMA Orders == /\ {Main, HubLoop, DuckLoop} \subseteq Order /\ Poster \subseteq Order
                /\ None \notin Order
BY CertsAssumption DEF Order

\* There is a number to spare.
LEMMA SpareNumber == Spare # {}
<1> SUFFICES ASSUME Spare = {} PROVE FALSE
  OBVIOUS
<1>1. Cardinality(Spare) = 0
  BY FS_EmptySet
<1>2. Cardinality(Poster) \in Nat
  BY FS_CardinalityType, CertsAssumption
<1> QED
  BY <1>1, <1>2, CertsAssumption

\* A new pair is one of the pairs.
LEMMA FreshPairType ==
  ASSUME TypeOK, NEW d \in Domain \cup {Self}
  PROVE  /\ FreshPair(d) \in Pair /\ FreshPair(d).of = d /\ FreshPair(d).made = ages
<1> DEFINE free == {n \in Spare : [of |-> d, made |-> ages, n |-> n] \notin InUse}
           N == CHOOSE n \in Spare : free # {} => n \in free
<1>1. N \in Spare
  BY SpareNumber
<1>2. ages \in 0..MaxMishaps
  BY CertsAssumption DEF TypeOK
<1>3. FreshPair(d) = [of |-> d, made |-> ages, n |-> N]
  BY DEF FreshPair
<1> QED
  BY <1>1, <1>2, <1>3 DEF Pair

-----------------------------------------------------------------------------
(* Typing *)

\* The domains a start or an order goes on with are domains, or none.
LEMMA DomainsType ==
  ASSUME TypeOK
  PROVE  /\ FirstDomain(hub, duck) \in Domain \cup {None}
         /\ StartAt(hub, duck) \in [Order -> Place]
         /\ StartDom(hub, duck) \in [Order -> Domain \cup {None}]
         /\ \A k \in Order : NextDomain(k) \in Domain \cup {None}
BY DEF TypeOK, FirstDomain, StartAt, StartDom, NextDomain, Domain, Place

\* An order that fails moves, and only it.
LEMMA FailsType ==
  ASSUME TypeOK, NEW k \in Order, Fails(k)
  PROVE  /\ at' \in [Order -> Place] /\ dom' \in [Order -> Domain \cup {None}]
         /\ crossed' \subseteq Order
BY DomainsType DEF TypeOK, Fails, Goes, Place

\* What an order has in hand when it begins, or when it is issued, is a pair.
LEMMA BeginType ==
  ASSUME TypeOK, NEW k \in Order, NEW d \in Domain \cup {None}, Begin(k, d)
  PROVE  TypeOK'
<1>1. at' \in [Order -> Place] /\ dom' \in [Order -> Domain \cup {None}]
  BY DEF Begin, TypeOK, Goes, Place
<1>2. got' \in [Order -> Pair \cup {None}]
  BY DEF Begin, TypeOK
<1>3. crossed' \subseteq Order
  BY DEF Begin, TypeOK, Other
<1> QED
  BY <1>1, <1>2, <1>3 DEF Begin, TypeOK, setup, files, served, counters

\* A domain is configured where a loop or a request runs, and known where an
\* order is under way.
HasDomain ==
  /\ at[HubLoop] # "off" => hub # None /\ at[HubLoop] # "check"
  /\ \A k \in Poster \cup {DuckLoop} : at[k] # "off" => duck # None
  /\ at[Main] = "check" => dom[Main] # None
  /\ \A k \in Order : at[k] \in {"publish", "validate", "clear", "clearFailed", "issue"}
       => dom[k] # None
Typing == TypeOK /\ HasDomain

LEMMA InitTyped == Init => Typing
<1> SUFFICES ASSUME Init PROVE Typing
  OBVIOUS
<1> USE CertsAssumption
<1>1. hub \in HubDomain \cup {None} /\ duck \in DuckDomain \cup {None} /\ asked \in DuckDomain
  BY DEF Init
<1>2. /\ at \in [Order -> Place] /\ dom \in [Order -> Domain \cup {None}]
      /\ got \in [Order -> Pair \cup {None}]
  BY <1>1 DEF Init, StartAt, StartDom, FirstDomain, NoPair, Place, Domain
<1>3. /\ {cert, key, chain, priv} \subseteq Pair \cup {None}
      /\ hs \in [at : {"idle", "asked", "chain"}, chain : Pair \cup {None}]
      /\ txt \in [Domain -> Order \cup {None}] /\ fresh \in Domain \cup {None}
  BY DEF Init, NoHandshake
<1>4. posts \in 0..MaxPosts /\ ages \in 0..mishaps /\ mishaps \in 0..MaxMishaps
  BY DEF Init
<1>5. /\ {stored, torn} \subseteq BOOLEAN
      /\ crossed \subseteq Order /\ marred \subseteq Order /\ seen \subseteq Pair \cup {None}
  BY DEF Init
<1>6. HasDomain
  BY <1>1, Orders DEF Init, StartAt, StartDom, FirstDomain, HasDomain, Order
<1> QED
  BY <1>1, <1>2, <1>3, <1>4, <1>5, <1>6 DEF TypeOK, Typing

LEMMA StepTyped == Typing /\ [Next]_vars => TypeOK'
<1> SUFFICES ASSUME TypeOK, HasDomain, [Next]_vars PROVE TypeOK'
  BY DEF Typing
<1> USE CertsAssumption, Orders
<1>0. duck \in Domain \cup {None} /\ hub \in Domain \cup {None}
  BY DEF TypeOK, Domain
<1>a. DuckDomain \subseteq Domain
  BY DEF Domain
<1>1. CASE UNCHANGED vars
  BY <1>1 DEF vars, TypeOK, setup, files, served, orders, counters, histories
<1>2. ASSUME NEW k \in Order, CheckExisting(k) PROVE TypeOK'
  <2>1. dom[k] \in Domain \cup {None}
    BY DEF TypeOK
  <2> QED
    BY <1>0, <1>2, <2>1, BeginType DEF CheckExisting
<1>3. ASSUME NEW k \in Order, PublishTXT(k) PROVE TypeOK'
  BY <1>3 DEF TypeOK, PublishTXT, Goes, Place, setup, files, served, counters, histories
<1>4. ASSUME NEW k \in Order, PublishFails(k) PROVE TypeOK'
  <2>1. Fails(k)
    BY <1>4 DEF PublishFails
  <2>2. txt' \in [Domain -> Order \cup {None}]
    BY <1>4 DEF TypeOK, PublishFails
  <2>3. mishaps' \in 0..MaxMishaps /\ ages \in 0..mishaps'
    BY <1>4 DEF TypeOK, PublishFails, Mishap
  <2> QED
    BY <1>4, <2>1, <2>2, <2>3, FailsType DEF TypeOK, PublishFails, setup, files, served
<1>5. ASSUME NEW k \in Order, Validate(k) PROVE TypeOK'
  BY <1>5 DEF TypeOK, Validate, Goes, Place, setup, files, served, counters, histories
<1>6. ASSUME NEW k \in Order, ValidateFails(k) PROVE TypeOK'
  <2>1. mishaps' \in 0..MaxMishaps /\ ages \in 0..mishaps'
    BY <1>6 DEF TypeOK, ValidateFails, Mishap
  <2> QED
    BY <1>6, <2>1 DEF TypeOK, ValidateFails, Goes, Place, setup, files, served, histories
<1>7. ASSUME NEW k \in Order, ClearTXT(k) PROVE TypeOK'
  <2>1. mishaps' \in 0..MaxMishaps /\ ages \in 0..mishaps'
    BY <1>7 DEF TypeOK, ClearTXT, Mishap
  <2>2. txt' \in [Domain -> Order \cup {None}]
    BY <1>7 DEF TypeOK, ClearTXT
  <2>3. /\ at' \in [Order -> Place] /\ dom' \in [Order -> Domain \cup {None}]
        /\ crossed' \subseteq Order
    <3>1. CASE at[k] = "clear"
      BY <1>7, <3>1 DEF TypeOK, ClearTXT, Goes, Place
    <3>2. CASE at[k] # "clear"
      BY <1>7, <3>2, FailsType DEF ClearTXT
    <3> QED
      BY <3>1, <3>2
  <2> QED
    BY <1>7, <2>1, <2>2, <2>3 DEF TypeOK, ClearTXT, setup, files, served
<1>8. ASSUME NEW k \in Order, Issue(k) PROVE TypeOK'
  <2>0. dom[k] \in Domain
    BY <1>8 DEF TypeOK, HasDomain, Issue
  <2>1. FreshPair(dom[k]) \in Pair
    BY <2>0, FreshPairType
  <2>2. got' \in [Order -> Pair \cup {None}]
    BY <1>8, <2>1 DEF TypeOK, Issue
  <2>3. at' \in [Order -> Place]
    BY <1>8 DEF TypeOK, Issue, Goes, Place
  <2> QED
    BY <1>8, <2>0, <2>2, <2>3 DEF TypeOK, Issue, Certifies, setup, files, served, counters
<1>9. ASSUME NEW k \in Order, IssueFails(k) PROVE TypeOK'
  <2>1. Fails(k)
    BY <1>9 DEF IssueFails
  <2>2. mishaps' \in 0..MaxMishaps /\ ages \in 0..mishaps'
    BY <1>9 DEF TypeOK, IssueFails, Mishap
  <2>3. fresh' \in Domain \cup {None} /\ stored' \in BOOLEAN
    BY <1>9 DEF TypeOK, IssueFails, Certifies
  <2> QED
    BY <1>9, <2>1, <2>2, <2>3, FailsType DEF TypeOK, IssueFails, setup, files, served
<1>10. ASSUME NEW k \in Order, WriteCert(k) PROVE TypeOK'
  <2>1. mishaps' \in 0..MaxMishaps /\ ages \in 0..mishaps'
    BY <1>10 DEF TypeOK, WriteCert, Mishap
  <2>2. cert' \in Pair \cup {None} /\ stored' \in BOOLEAN /\ marred' \subseteq Order
    BY <1>10 DEF TypeOK, WriteCert, Between
  <2> QED
    BY <1>10, <2>1, <2>2 DEF TypeOK, WriteCert, Goes, Place, setup, served
<1>11. ASSUME NEW k \in Order, WriteKey(k) PROVE TypeOK'
  <2>1. mishaps' \in 0..MaxMishaps /\ ages \in 0..mishaps'
    BY <1>11 DEF TypeOK, WriteKey, Mishap
  <2>2. key' \in Pair \cup {None} /\ marred' \subseteq Order
    BY <1>11 DEF TypeOK, WriteKey
  <2>3. stored' \in BOOLEAN /\ torn' \in BOOLEAN
    <3>1. torn' = (k \in marred) \/ torn' = TRUE
      BY <1>11 DEF WriteKey
    <3>2. \/ stored' = (k \notin marred /\ got[k].of = fresh /\ ~Old(got[k]))
          \/ stored' = (stored /\ key' = key)
      BY <1>11 DEF WriteKey
    <3>3. (k \in marred) \in BOOLEAN
      OBVIOUS
    <3>4. (k \notin marred /\ got[k].of = fresh /\ ~Old(got[k])) \in BOOLEAN
      BY Zenon
    <3>5. (stored /\ key' = key) \in BOOLEAN
      BY Zenon
    <3>6. torn' \in BOOLEAN
      BY <3>1, <3>3, Zenon
    <3>7. stored' \in BOOLEAN
      BY <3>2, <3>4, <3>5, Zenon
    <3> QED
      BY <3>6, <3>7
  <2> QED
    BY <1>11, <2>1, <2>2, <2>3 DEF TypeOK, WriteKey, Goes, Place, setup, served
<1>12. ASSUME NEW k \in Order, LockAndCopyChain(k) PROVE TypeOK'
  <2>1. seen' \subseteq Pair \cup {None}
    BY <1>12 DEF TypeOK, LockAndCopyChain
  <2> QED
    BY <1>12, <2>1 DEF TypeOK, LockAndCopyChain, Goes, Place, setup, files, counters
<1>13. ASSUME NEW k \in Order, CopyKey(k) PROVE TypeOK'
  <2>1. at' \in [Order -> Place]
    BY <1>13 DEF TypeOK, CopyKey, AfterInstall, Started, Order, Place
  <2>2. /\ got' \in [Order -> Pair \cup {None}] /\ dom' \in [Order -> Domain \cup {None}]
        /\ priv' \in Pair \cup {None} /\ crossed' \subseteq Order
    BY <1>13 DEF TypeOK, CopyKey
  <2>3. /\ UNCHANGED <<hub, duck, asked, cert, key, chain, txt, hs, posts, ages, mishaps>>
        /\ UNCHANGED <<fresh, stored, marred, torn, seen>>
    BY <1>13 DEF CopyKey, setup, files, counters
  <2> QED
    BY <2>1, <2>2, <2>3 DEF TypeOK
<1>14. CASE LoadExisting
  <2>1. cert \in Pair
    BY <1>14 DEF TypeOK, LoadExisting, Matching
  <2> QED
    BY <1>14, <2>1 DEF TypeOK, LoadExisting, Goes, Place, setup, files, served, counters, histories
<1>15. CASE SelfSign
  <2>1. FreshPair(Self) \in Pair
    BY FreshPairType
  <2> QED
    BY <1>15, <2>1 DEF TypeOK, SelfSign, Goes, Place, setup, files, served, counters, histories
<1>16. CASE HubTick
  BY <1>0, <1>1, <1>16, BeginType DEF HubTick
<1>17. CASE DuckTick
  BY <1>0, <1>17, BeginType DEF DuckTick
<1>18. CASE Hello \/ SendChain
  BY <1>18 DEF TypeOK, Hello, SendChain, setup, files, served, orders, counters, histories
<1>19. CASE Sign
  BY <1>19 DEF TypeOK, Sign, NoHandshake, setup, files, served, orders, counters
<1>20. ASSUME NEW k \in Poster, Post(k) PROVE TypeOK'
  <2>1. posts' \in 0..MaxPosts
    BY <1>20 DEF TypeOK, Post
  <2> QED
    BY <1>20, <2>1 DEF TypeOK, Post, Goes, Place, files, served, histories
<1>21. CASE Age
  <2>1. mishaps' \in 0..MaxMishaps /\ ages' \in 0..mishaps'
    BY <1>21 DEF TypeOK, Age, Mishap
  <2> QED
    BY <1>21, <2>1 DEF TypeOK, Age, setup, files, served, orders
<1>22. CASE Crash
  <2>1. mishaps' \in 0..MaxMishaps /\ ages \in 0..mishaps'
    BY <1>22 DEF TypeOK, Crash, Mishap
  <2>2. /\ at' \in [Order -> Place] /\ dom' \in [Order -> Domain \cup {None}]
        /\ got' \in [Order -> Pair \cup {None}]
    BY <1>22, DomainsType DEF Crash, NoPair
  <2>3. /\ hs' \in [at : {"idle", "asked", "chain"}, chain : Pair \cup {None}]
        /\ {stored', torn'} \subseteq BOOLEAN
        /\ crossed' \subseteq Order /\ marred' \subseteq Order /\ seen' \subseteq Pair
    BY <1>22 DEF TypeOK, Crash, NoHandshake
  <2>4. {cert', key', chain', priv'} \subseteq Pair \cup {None}
    BY <1>22 DEF TypeOK, Crash, Between
  <2> QED
    BY <1>22, <2>1, <2>2, <2>3, <2>4 DEF TypeOK, Crash, setup
<1> QED
  BY <1>1, <1>2, <1>3, <1>4, <1>5, <1>6, <1>7, <1>8, <1>9, <1>10, <1>11, <1>12, <1>13, <1>14,
     <1>15, <1>16, <1>17, <1>18, <1>19, <1>20, <1>21, <1>22, Steps

LEMMA StepDomains == Typing /\ [Next]_vars => HasDomain'
<1> SUFFICES ASSUME TypeOK, TypeOK', HasDomain, [Next]_vars PROVE HasDomain'
  BY StepTyped DEF Typing
<1> USE CertsAssumption, Orders
<1>a. \A k \in Poster : k # Main /\ k # HubLoop /\ k # DuckLoop
  OBVIOUS
<1>1. ASSUME UNCHANGED <<at, dom, hub, duck>> PROVE HasDomain'
  BY <1>1 DEF HasDomain
<1>2. ASSUME NEW k \in Order, NEW d \in Domain, Begin(k, d), at[k] # "off" PROVE HasDomain'
  <2>1. /\ dom' = [dom EXCEPT ![k] = d] /\ hub' = hub /\ duck' = duck
        /\ \E p \in {"install", "publish"} : at' = [at EXCEPT ![k] = p]
    BY <1>2 DEF Begin, Goes, setup
  <2> QED
    BY <1>a, <1>2, <2>1 DEF TypeOK, HasDomain
<1>3. ASSUME NEW k \in Order, Fails(k), UNCHANGED setup, at[k] # "off" PROVE HasDomain'
  <2>1. /\ hub' = hub /\ duck' = duck
        /\ dom' = [dom EXCEPT ![k] = NextDomain(k)]
        /\ \/ k = Main /\ NextDomain(k) # None /\ at' = [at EXCEPT ![k] = "check"]
           \/ \E p \in {"existing", "off", "waiting"} : at' = [at EXCEPT ![k] = p]
    BY <1>3 DEF Fails, Goes, NextDomain, setup
  <2> QED
    BY <1>a, <1>3, <2>1 DEF TypeOK, HasDomain
<1>4. ASSUME NEW k \in Order, NEW p \in Place \ {"off", "check"}, at' = [at EXCEPT ![k] = p],
             UNCHANGED <<dom, hub, duck>>, at[k] # "off",
             p \in {"publish", "validate", "clear", "clearFailed", "issue"} => dom[k] # None
      PROVE  HasDomain'
  BY <1>a, <1>4 DEF TypeOK, HasDomain
<1>5. CASE UNCHANGED vars
  BY <1>1, <1>5 DEF vars, setup, orders
<1>6. ASSUME NEW k \in Order, CheckExisting(k) PROVE HasDomain'
  <2>1. PICK d \in Domain : d = IF k = Main THEN dom[k] ELSE duck
    BY <1>6 DEF TypeOK, HasDomain, CheckExisting, Domain, Order
  <2> QED
    BY <1>2, <1>6, <2>1 DEF CheckExisting
<1>7. ASSUME NEW k \in Order, PublishTXT(k) PROVE HasDomain'
  BY <1>4, <1>7 DEF HasDomain, PublishTXT, Goes, Place, setup
<1>8. ASSUME NEW k \in Order, PublishFails(k) PROVE HasDomain'
  BY <1>3, <1>8 DEF PublishFails
<1>9. ASSUME NEW k \in Order, Validate(k) PROVE HasDomain'
  BY <1>4, <1>9 DEF HasDomain, Validate, Goes, Place, setup
<1>10. ASSUME NEW k \in Order, ValidateFails(k) PROVE HasDomain'
  BY <1>4, <1>10 DEF HasDomain, ValidateFails, Goes, Place, setup
<1>11. ASSUME NEW k \in Order, ClearTXT(k) PROVE HasDomain'
  <2>1. CASE at[k] = "clear"
    BY <1>4, <1>11, <2>1 DEF HasDomain, ClearTXT, Goes, Place, setup
  <2>2. CASE at[k] # "clear"
    BY <1>3, <1>11, <2>2 DEF ClearTXT
  <2> QED
    BY <2>1, <2>2
<1>12. ASSUME NEW k \in Order, Issue(k) PROVE HasDomain'
  BY <1>4, <1>12 DEF HasDomain, Issue, Goes, Place, setup
<1>13. ASSUME NEW k \in Order, IssueFails(k) PROVE HasDomain'
  BY <1>3, <1>13 DEF IssueFails
<1>14. ASSUME NEW k \in Order, WriteCert(k) PROVE HasDomain'
  BY <1>4, <1>14 DEF WriteCert, Goes, Place, setup
<1>15. ASSUME NEW k \in Order, WriteKey(k) PROVE HasDomain'
  BY <1>4, <1>15 DEF WriteKey, Goes, Place, setup
<1>16. ASSUME NEW k \in Order, LockAndCopyChain(k) PROVE HasDomain'
  BY <1>4, <1>16 DEF LockAndCopyChain, Goes, Place, setup
<1>17. ASSUME NEW k \in Order, CopyKey(k) PROVE HasDomain'
  <2>1. at' = AfterInstall(k) /\ hub' = hub /\ duck' = duck /\ dom' = [dom EXCEPT ![k] = None]
        /\ at[k] = "priv"
    BY <1>17 DEF CopyKey, setup
  <2>2. CASE k = Main
    BY <1>a, <2>1, <2>2 DEF TypeOK, HasDomain, AfterInstall, Started, Order
  <2>3. CASE k # Main
    <3>1. \E p \in {"waiting", "off"} : at' = [at EXCEPT ![k] = p]
      BY <2>1, <2>3 DEF AfterInstall, Order
    <3> QED
      BY <1>a, <2>1, <2>3, <3>1 DEF TypeOK, HasDomain
  <2> QED
    BY <2>2, <2>3
<1>18. CASE LoadExisting
  BY <1>4, <1>18 DEF LoadExisting, Goes, Place, setup
<1>19. CASE SelfSign
  BY <1>4, <1>19 DEF SelfSign, Goes, Place, setup
<1>20. CASE HubTick
  <2>1. hub \in Domain /\ at[HubLoop] # "off"
    BY <1>20 DEF TypeOK, HasDomain, HubTick, Domain
  <2> QED
    BY <1>2, <1>5, <1>20, <2>1 DEF HubTick
<1>21. CASE DuckTick
  <2>1. duck \in Domain /\ at[DuckLoop] # "off"
    BY <1>21 DEF TypeOK, HasDomain, DuckTick, Domain
  <2> QED
    BY <1>2, <1>21, <2>1 DEF DuckTick
<1>22. ASSUME Hello \/ SendChain \/ Sign \/ Age PROVE HasDomain'
  BY <1>1, <1>22 DEF Hello, SendChain, Sign, Age, setup, orders
<1>23. ASSUME NEW k \in Poster, Post(k) PROVE HasDomain'
  <2>1. asked # None
    BY DEF TypeOK, Domain
  <2> QED
    BY <1>a, <1>23, <2>1 DEF TypeOK, HasDomain, Post, Goes
<1>24. CASE Crash
  BY <1>a, <1>24 DEF TypeOK, HasDomain, Crash, StartAt, StartDom, FirstDomain, setup, Order
<1> QED
  BY <1>5, <1>6, <1>7, <1>8, <1>9, <1>10, <1>11, <1>12, <1>13, <1>14, <1>15, <1>16, <1>17,
     <1>18, <1>19, <1>20, <1>21, <1>22, <1>23, <1>24, Steps

\* Every reachable state is well typed, and whoever orders has a domain to order for.
THEOREM TypeCorrect == Spec => []Typing
<1>1. Typing /\ [Next]_vars => Typing'
  BY StepTyped, StepDomains DEF Typing
<1> QED
  BY <1>1, InitTyped, PTL DEF Spec

-----------------------------------------------------------------------------
(* The steps, seen by what they do to the certificates *)

InFlight == {"publish", "validate", "clear", "clearFailed", "issue"}

\* An order asks the network and goes on, or gives up.
Asks(k) ==
  /\ at[k] \in InFlight
  /\ \E p \in InFlight \cup {"check", "existing", "off", "waiting"} :
       /\ at' = [at EXCEPT ![k] = p]
       /\ p \in {"check", "existing"} => k = Main
       /\ p \in {"off", "waiting"} => k # Main
       /\ p \in InFlight => dom' = dom
       /\ crossed' = IF p \in InFlight THEN crossed ELSE crossed \ {k}
  /\ \A j \in Order \ {k} : dom'[j] = dom[j]
  /\ stored' = FALSE \/ UNCHANGED <<fresh, stored>>
  /\ UNCHANGED <<files, served, got, hs, ages, marred, torn, seen>>

\* An order looks at the files.
Looks(k, d) == at[k] \in {"waiting", "check"} /\ Begin(k, d)

LEMMA Kinds ==
  ASSUME Typing, Next
  PROVE  \/ \E k \in Order : \/ Asks(k) \/ Issue(k) \/ WriteCert(k) \/ WriteKey(k)
                             \/ LockAndCopyChain(k) \/ CopyKey(k)
                             \/ \E d \in Domain : Looks(k, d)
         \/ LoadExisting \/ SelfSign \/ Hello \/ SendChain \/ Sign
         \/ \E k \in Poster : Post(k)
         \/ Age \/ Crash \/ UNCHANGED vars
<1> DEFINE Goal == \/ \E k \in Order : \/ Asks(k) \/ Issue(k) \/ WriteCert(k) \/ WriteKey(k)
                                       \/ LockAndCopyChain(k) \/ CopyKey(k)
                                       \/ \E d \in Domain : Looks(k, d)
                   \/ LoadExisting \/ SelfSign \/ Hello \/ SendChain \/ Sign
                   \/ \E k \in Poster : Post(k)
                   \/ Age \/ Crash \/ UNCHANGED vars
<1> USE CertsAssumption, Orders
<1>0. TypeOK /\ HasDomain
  BY DEF Typing
<1>1. ASSUME NEW k \in Order, NEW p \in InFlight, at[k] \in InFlight,
             at' = [at EXCEPT ![k] = p],
             UNCHANGED <<dom, got, files, served, hs, ages, histories>>
      PROVE  Asks(k)
  BY <1>1 DEF Asks, InFlight, histories
<1>2. ASSUME NEW k \in Order, at[k] \in InFlight, Fails(k),
             stored' = FALSE \/ UNCHANGED <<fresh, stored>>,
             UNCHANGED <<got, files, served, hs, ages, marred, torn, seen>>
      PROVE  Asks(k)
  <2>1. \A j \in Order \ {k} : dom'[j] = dom[j]
    BY <1>0, <1>2 DEF Fails, TypeOK
  <2>2. \E p \in {"check", "existing", "off", "waiting"} :
           /\ at' = [at EXCEPT ![k] = p]
           /\ p \in {"check", "existing"} => k = Main
           /\ p \in {"off", "waiting"} => k # Main
           /\ crossed' = crossed \ {k}
    BY <1>2 DEF Fails, Goes, NextDomain
  <2> QED
    BY <1>2, <2>1, <2>2 DEF Asks, InFlight
<1>3. ASSUME NEW k \in Order, PublishTXT(k) PROVE Asks(k)
  BY <1>1, <1>3 DEF PublishTXT, Goes, InFlight, counters
<1>4. ASSUME NEW k \in Order, PublishFails(k) PROVE Asks(k)
  BY <1>2, <1>4 DEF PublishFails, InFlight
<1>5. ASSUME NEW k \in Order, Validate(k) PROVE Asks(k)
  BY <1>1, <1>5 DEF Validate, Goes, InFlight, counters
<1>6. ASSUME NEW k \in Order, ValidateFails(k) PROVE Asks(k)
  BY <1>1, <1>6 DEF ValidateFails, Goes, InFlight
<1>7. ASSUME NEW k \in Order, ClearTXT(k) PROVE Asks(k)
  <2>1. CASE at[k] = "clear"
    BY <1>1, <1>7, <2>1 DEF ClearTXT, Goes, InFlight, histories
  <2>2. CASE at[k] # "clear"
    BY <1>2, <1>7, <2>2 DEF ClearTXT, InFlight
  <2> QED
    BY <2>1, <2>2
<1>8. ASSUME NEW k \in Order, IssueFails(k) PROVE Asks(k)
  BY <1>2, <1>8 DEF IssueFails, Certifies, InFlight
<1>9. ASSUME NEW k \in Order, CheckExisting(k) PROVE \E d \in Domain : Looks(k, d)
  BY <1>0, <1>9 DEF CheckExisting, Looks, TypeOK, HasDomain, Domain, Order
<1>10. ASSUME HubTick PROVE UNCHANGED vars \/ \E d \in Domain : Looks(HubLoop, d)
  BY <1>0, <1>10 DEF HubTick, Looks, TypeOK, HasDomain, Domain
<1>11. ASSUME DuckTick PROVE \E d \in Domain : Looks(DuckLoop, d)
  BY <1>0, <1>11 DEF DuckTick, Looks, TypeOK, HasDomain, Domain
<1> HIDE CertsAssumption
<1> QED
  BY <1>3, <1>4, <1>5, <1>6, <1>7, <1>8, <1>9, <1>10, <1>11, Steps

-----------------------------------------------------------------------------
(* The certificate in memory *)

\* One order at most is between the two halves of the copy; it has a pair, and
\* the chain is of that pair.
Installing ==
  /\ \A k \in Order : at[k] \in {"writeCert", "writeKey", "install", "priv"} => got[k] # None
  /\ \A j, k \in Order : at[j] = "priv" /\ at[k] = "priv" => j = k
  /\ \A k \in Order : at[k] = "priv" => chain = got[k]
Whole ==
  /\ ~TlsLocked => chain = priv
  /\ Up => chain # None

\* A step of an order that has nothing to do with the certificate in memory.
LEMMA Elsewhere ==
  ASSUME Typing, Installing, Whole, NEW k \in Order, NEW p \in Place \ {"priv"},
         at' = [at EXCEPT ![k] = p], at[k] # "priv", at[k] # "off",
         k = Main => p # "off",
         p \in {"writeCert", "writeKey", "install"} => got'[k] # None,
         \A j \in Order \ {k} : got'[j] = got[j],
         UNCHANGED served
  PROVE  Installing' /\ Whole'
<1> USE Orders
<1>1. \A j \in Order : at'[j] = IF j = k THEN p ELSE at[j]
  BY DEF Typing, TypeOK
<1>2. chain' = chain /\ priv' = priv
  BY DEF served
<1>3. Installing'
  BY <1>1, <1>2 DEF Installing
<1>4. (TlsLocked' <=> TlsLocked) /\ (Up' => Up)
  BY <1>1 DEF TlsLocked, Up
<1> QED
  BY <1>2, <1>3, <1>4 DEF Whole

LEMMA InitWhole == Init => Installing /\ Whole
<1> SUFFICES ASSUME Init PROVE Installing /\ Whole
  OBVIOUS
<1>1. \A k \in Order : at[k] \in {"off", "existing", "check"}
  BY DEF Init, StartAt
<1>2. at[Main] # "off"
  BY Orders DEF Init, StartAt
<1> QED
  BY <1>1, <1>2 DEF Init, Installing, Whole, TlsLocked, Up

LEMMA StepWhole ==
  ASSUME Typing, Installing, Whole, [Next]_vars
  PROVE  Installing' /\ Whole'
<1> USE CertsAssumption, Orders
<1>0. TypeOK /\ None \notin Pair
  BY NoneIsNoPair DEF Typing
<1>1. ASSUME UNCHANGED <<at, got, served>> PROVE Installing' /\ Whole'
  BY <1>1 DEF Installing, Whole, TlsLocked, Up, served
<1> HIDE CertsAssumption
<1>2. CASE UNCHANGED vars
  BY <1>1, <1>2 DEF vars, orders
<1>3. ASSUME NEW k \in Order, Asks(k) PROVE Installing' /\ Whole'
  BY <1>3, Elsewhere DEF Asks, InFlight, Place
<1>4. ASSUME NEW k \in Order, NEW d \in Domain, Looks(k, d) PROVE Installing' /\ Whole'
  <2>1. PICK p \in {"install", "publish"} : at' = [at EXCEPT ![k] = p]
                                            /\ (p = "install" => got'[k] # None)
    BY <1>0, <1>4 DEF Looks, Begin, OnDisk, ValidOnDisk, Matching, Goes, TypeOK
  <2>2. \A j \in Order \ {k} : got'[j] = got[j]
    BY <1>0, <1>4 DEF Looks, Begin, TypeOK
  <2> QED
    BY <1>4, <2>1, <2>2, Elsewhere DEF Looks, Begin, Place
<1>5. ASSUME NEW k \in Order, Issue(k) PROVE Installing' /\ Whole'
  <2>0. dom[k] \in Domain
    BY <1>0, <1>5, CertsAssumption DEF Typing, HasDomain, TypeOK, Issue
  <2>1. FreshPair(dom[k]) # None
    BY <1>0, <2>0, FreshPairType
  <2>2. got'[k] # None /\ \A j \in Order \ {k} : got'[j] = got[j]
    BY <1>0, <1>5, <2>1 DEF Issue, TypeOK
  <2> QED
    BY <1>5, <2>2, Elsewhere DEF Issue, Goes, Place
<1>6. ASSUME NEW k \in Order, WriteCert(k) PROVE Installing' /\ Whole'
  BY <1>6, Elsewhere DEF WriteCert, Goes, Place, Installing
<1>7. ASSUME NEW k \in Order, WriteKey(k) PROVE Installing' /\ Whole'
  BY <1>7, Elsewhere DEF WriteKey, Goes, Place, Installing
<1>8. ASSUME NEW k \in Order, LockAndCopyChain(k) PROVE Installing' /\ Whole'
  <2>1. \A j \in Order : at[j] # "priv" /\ at'[j] = IF j = k THEN "priv" ELSE at[j]
    BY <1>0, <1>8 DEF LockAndCopyChain, MayReplace, TlsLocked, Goes, TypeOK
  <2>2. chain' = got[k] /\ got' = got /\ got[k] # None
    BY <1>8 DEF LockAndCopyChain, Installing
  <2>3. Installing'
    BY <2>1, <2>2 DEF Installing
  <2> QED
    BY <2>1, <2>2, <2>3 DEF Whole, TlsLocked
<1>9. ASSUME NEW k \in Order, CopyKey(k) PROVE Installing' /\ Whole'
  <2>1. priv' = got[k] /\ chain' = chain /\ at[k] = "priv" /\ chain # None /\ chain = got[k]
    BY <1>9 DEF CopyKey, Installing
  <2>2. \A j \in Order : at'[j] \in {"off", "waiting"} \/ (at'[j] = at[j] /\ j # k)
    BY <1>0, <1>9, CertsAssumption DEF CopyKey, AfterInstall, Started, TypeOK, Order
  <2>3. \A j \in Order : at'[j] # "priv"
    BY <2>1, <2>2 DEF Installing
  <2>4. \A j \in Order : at'[j] \notin {"off", "waiting"} => got'[j] = got[j] /\ at'[j] = at[j]
    BY <1>0, <1>9, <2>2 DEF CopyKey, TypeOK
  <2>5. Installing'
    BY <2>3, <2>4 DEF Installing
  <2> QED
    BY <2>1, <2>3, <2>5 DEF Whole, TlsLocked
<1>10. CASE LoadExisting
  <2>1. got'[Main] # None /\ \A j \in Order \ {Main} : got'[j] = got[j]
    BY <1>0, <1>10 DEF LoadExisting, Matching, TypeOK
  <2> QED
    BY <1>10, <2>1, Elsewhere DEF LoadExisting, Goes, Place
<1>11. CASE SelfSign
  <2>1. FreshPair(Self) # None
    BY <1>0, FreshPairType
  <2>2. got'[Main] # None /\ \A j \in Order \ {Main} : got'[j] = got[j]
    BY <1>0, <1>11, <2>1 DEF SelfSign, TypeOK
  <2> QED
    BY <1>11, <2>2, Elsewhere DEF SelfSign, Goes, Place
<1>12. CASE Hello \/ SendChain \/ Sign \/ Age
  BY <1>1, <1>12 DEF Hello, SendChain, Sign, Age, orders
<1>13. ASSUME NEW k \in Poster, Post(k) PROVE Installing' /\ Whole'
  <2>1. k # Main
    BY CertsAssumption
  <2>2. \A j \in Order : at'[j] = IF j = k THEN "check" ELSE at[j]
    BY <1>0, <1>13 DEF Post, Goes, TypeOK
  <2>3. chain' = chain /\ priv' = priv /\ got' = got /\ at[k] = "off"
    BY <1>13 DEF Post, served
  <2>4. Installing'
    BY <2>2, <2>3 DEF Installing
  <2>5. (TlsLocked' <=> TlsLocked) /\ (Up' <=> Up)
    BY <2>1, <2>2, <2>3 DEF TlsLocked, Up
  <2> QED
    BY <2>3, <2>4, <2>5 DEF Whole
<1>14. CASE Crash
  <2>1. \A j \in Order : at'[j] \in {"off", "existing", "check"}
    BY <1>14 DEF Crash, StartAt
  <2>2. at'[Main] # "off"
    BY <1>14 DEF Crash, StartAt
  <2>3. chain' = None /\ priv' = None
    BY <1>14 DEF Crash
  <2> QED
    BY <2>1, <2>2, <2>3 DEF Installing, Whole, TlsLocked, Up
<1> QED
  BY <1>2, <1>3, <1>4, <1>5, <1>6, <1>7, <1>8, <1>9, <1>10, <1>11, <1>12, <1>13, <1>14, Kinds

\* The certificate in memory and its key are of one pair whenever the lock is free.
THEOREM ServesWhole == Spec => []ServedWhole
<1>1. Init => Typing /\ Installing /\ Whole
  BY InitTyped, InitWhole
<1>2. Typing /\ Installing /\ Whole /\ [Next]_vars => (Typing /\ Installing /\ Whole)'
  BY StepTyped, StepDomains, StepWhole DEF Typing
<1>3. Typing /\ Installing /\ Whole => ServedWhole
  BY DEF Typing, Whole, ServedWhole
<1> QED
  BY <1>1, <1>2, <1>3, PTL DEF Spec

-----------------------------------------------------------------------------
(* Handshakes *)

\* The certificate and the key in memory, also between the two halves of the copy,
\* and the chain a handshake has sent were put in place since it began, or were then.
InSight ==
  /\ hs.at # "idle" => chain \in seen /\ priv \in seen
  /\ hs.at = "chain" => hs.chain \in seen

LEMMA StepInSight ==
  ASSUME Typing, Installing, Whole, InSight, [Next]_vars
  PROVE  InSight'
<1>0. TypeOK
  BY DEF Typing
<1>1. ASSUME UNCHANGED <<hs, served, seen>> PROVE InSight'
  BY <1>1 DEF InSight, served
<1>2. CASE UNCHANGED vars
  BY <1>1, <1>2 DEF vars, histories
<1>3. ASSUME NEW k \in Order, Asks(k) PROVE InSight'
  BY <1>1, <1>3 DEF Asks
<1>4. ASSUME NEW k \in Order, NEW d \in Domain, Looks(k, d) PROVE InSight'
  BY <1>1, <1>4 DEF Looks, Begin
<1>5. ASSUME NEW k \in Order, Issue(k) \/ WriteCert(k) \/ WriteKey(k) PROVE InSight'
  BY <1>1, <1>5 DEF Issue, WriteCert, WriteKey
<1>6. ASSUME NEW k \in Order, LockAndCopyChain(k) PROVE InSight'
  BY <1>6 DEF LockAndCopyChain, InSight
<1>7. ASSUME NEW k \in Order, CopyKey(k) PROVE InSight'
  <2>1. priv' = chain
    BY <1>7 DEF CopyKey, Installing
  <2> QED
    BY <1>7, <2>1 DEF CopyKey, InSight
<1>8. CASE LoadExisting \/ SelfSign \/ Age
  BY <1>1, <1>8 DEF LoadExisting, SelfSign, Age, histories
<1>9. CASE Hello
  <2>1. chain = priv
    BY <1>9 DEF Hello, MayRead, Whole
  <2> QED
    BY <1>9, <2>1 DEF Hello, InSight, served
<1>10. CASE SendChain
  BY <1>10 DEF SendChain, InSight, served, histories
<1>11. CASE Sign \/ Crash
  BY <1>11 DEF Sign, Crash, NoHandshake, InSight
<1>12. ASSUME NEW k \in Poster, Post(k) PROVE InSight'
  BY <1>1, <1>12 DEF Post, histories
<1> QED
  BY <1>2, <1>3, <1>4, <1>5, <1>6, <1>7, <1>8, <1>9, <1>10, <1>11, <1>12, Kinds

\* A handshake sends a chain and signs with a key that were both in place since it
\* began, also one during which certificates were replaced.
THEOREM SignsWithItsKey == Spec => HandshakeMatches
<1>1. Init => Typing /\ Installing /\ Whole /\ InSight
  BY InitTyped, InitWhole DEF Init, NoHandshake, InSight
<1>2. Typing /\ Installing /\ Whole /\ InSight /\ [Next]_vars
        => (Typing /\ Installing /\ Whole /\ InSight)'
  BY StepTyped, StepDomains, StepWhole, StepInSight DEF Typing
<1>3. InSight => [Sign => hs.chain \in seen /\ priv \in seen]_vars
  BY DEF InSight, Sign
<1> QED
  BY <1>1, <1>2, <1>3, PTL DEF Spec, HandshakeMatches

-----------------------------------------------------------------------------
(* The start of the server *)

\* As long as the server is starting no loop and no request runs.
Alone == at[Main] # "off" => \A j \in Order \ {Main} : at[j] = "off"

\* The release of the lock.
LEMMA Releases ==
  ASSUME Typing, Alone, NEW k \in Order, CopyKey(k)
  PROVE  /\ \A j \in Order : at'[j] \in {"off", "waiting"} \/ (at'[j] = at[j] /\ j # k)
         /\ at'[Main] = "off" /\ at[k] = "priv"
<1> USE Orders
<1>0. TypeOK
  BY DEF Typing
<1>1. at' = AfterInstall(k) /\ at[k] = "priv"
  BY DEF CopyKey
<1>2. CASE k = Main
  BY <1>0, <1>1, <1>2, CertsAssumption DEF AfterInstall, Started, TypeOK, Order
<1>3. CASE k # Main
  <2>1. at[Main] = "off"
    BY <1>1, <1>3 DEF Alone
  <2>2. \E p \in {"waiting", "off"} : at' = [at EXCEPT ![k] = p]
    BY <1>1, <1>3 DEF AfterInstall, Order
  <2> QED
    BY <1>0, <1>1, <1>3, <2>1, <2>2 DEF TypeOK
<1> QED
  BY <1>2, <1>3

LEMMA InitAlone == Init => Alone
BY Orders DEF Init, StartAt, Alone

LEMMA StepAlone ==
  ASSUME Typing, Alone, [Next]_vars
  PROVE  Alone'
<1> USE Orders
<1>0. TypeOK
  BY DEF Typing
<1>1. ASSUME at' = at PROVE Alone'
  BY <1>1 DEF Alone
<1>2. ASSUME NEW k \in Order, NEW p \in Place, at' = [at EXCEPT ![k] = p],
             at[k] # "off", k = Main => p # "off"
      PROVE  Alone'
  <2>1. \A j \in Order : at'[j] = IF j = k THEN p ELSE at[j]
    BY <1>0, <1>2 DEF TypeOK
  <2> QED
    BY <1>2, <2>1 DEF Alone
<1>3. CASE UNCHANGED vars
  BY <1>1, <1>3 DEF vars, orders
<1>4. ASSUME NEW k \in Order, Asks(k) PROVE Alone'
  BY <1>2, <1>4 DEF Asks, InFlight, Place
<1>5. ASSUME NEW k \in Order, NEW d \in Domain, Looks(k, d) PROVE Alone'
  <2>1. \E p \in {"install", "publish"} : at' = [at EXCEPT ![k] = p]
    BY <1>5 DEF Looks, Begin, Goes
  <2> QED
    BY <1>2, <1>5, <2>1 DEF Looks, Place
<1>6. ASSUME NEW k \in Order, Issue(k) \/ WriteCert(k) \/ WriteKey(k) \/ LockAndCopyChain(k)
      PROVE  Alone'
  BY <1>2, <1>6 DEF Issue, WriteCert, WriteKey, LockAndCopyChain, Goes, Place
<1>7. ASSUME NEW k \in Order, CopyKey(k) PROVE Alone'
  BY <1>7, Releases DEF Alone
<1>8. CASE LoadExisting \/ SelfSign
  BY <1>2, <1>8 DEF LoadExisting, SelfSign, Goes, Place
<1>9. CASE Hello \/ SendChain \/ Sign \/ Age
  BY <1>1, <1>9 DEF Hello, SendChain, Sign, Age, orders
<1>10. ASSUME NEW k \in Poster, Post(k) PROVE Alone'
  <2>1. at[Main] = "off" /\ k # Main /\ at' = [at EXCEPT ![k] = "check"]
    BY <1>10, CertsAssumption DEF Post, Up, Goes
  <2> QED
    BY <1>0, <2>1 DEF Alone, TypeOK
<1>11. CASE Crash
  BY <1>11 DEF Crash, StartAt, Alone
<1> QED
  BY <1>3, <1>4, <1>5, <1>6, <1>7, <1>8, <1>9, <1>10, <1>11, Kinds

-----------------------------------------------------------------------------
(* The two files *)

\* An order that is about to write its key finds the certificate it wrote, unless
\* it is marred; and once the start is past its look at the files they belong
\* together whenever nobody is between them.
Writing ==
  /\ \A k \in Order : at[k] = "writeKey" /\ k \notin marred => cert = got[k]
  /\ /\ at[Main] \in {"install", "priv", "off"} /\ ~torn
     /\ \A k \in Order : at[k] # "writeKey"
     => cert = key

LEMMA StepWriting ==
  ASSUME Typing, Alone, Writing, [Next]_vars
  PROVE  Writing'
<1> USE Orders
<1>0. TypeOK
  BY DEF Typing
<1> DEFINE Past == {"install", "priv", "off"}
<1>1. ASSUME UNCHANGED <<files, marred, torn>>,
             at'[Main] \in Past => at[Main] \in Past \/ cert = key,
             \A j \in Order : /\ at'[j] = "writeKey" <=> at[j] = "writeKey"
                              /\ at[j] = "writeKey" => got'[j] = got[j]
      PROVE  Writing'
  BY <1>1 DEF Writing, files
<1>2. ASSUME UNCHANGED <<files, marred, torn>>, NEW k \in Order, NEW p \in Place \ {"writeKey"},
             at' = [at EXCEPT ![k] = p], at[k] # "writeKey",
             k = Main /\ p \in Past => at[Main] \in Past \/ cert = key,
             \A j \in Order \ {k} : got'[j] = got[j]
      PROVE  Writing'
  <2>1. \A j \in Order : at'[j] = IF j = k THEN p ELSE at[j]
    BY <1>0, <1>2 DEF TypeOK
  <2> QED
    BY <1>1, <1>2, <2>1
<1>3. CASE UNCHANGED vars
  BY <1>1, <1>3 DEF vars, orders, histories
<1>4. ASSUME NEW k \in Order, Asks(k) PROVE Writing'
  BY <1>2, <1>4 DEF Asks, InFlight, Place
<1>5. ASSUME NEW k \in Order, NEW d \in Domain, Looks(k, d) PROVE Writing'
  <2>1. PICK p \in {"install", "publish"} : /\ at' = [at EXCEPT ![k] = p]
                                            /\ p = "install" => cert = key
    BY <1>5 DEF Looks, Begin, Goes, OnDisk, ValidOnDisk, Matching
  <2>2. \A j \in Order \ {k} : got'[j] = got[j]
    BY <1>0, <1>5 DEF Looks, Begin, TypeOK
  <2> QED
    BY <1>2, <1>5, <2>1, <2>2 DEF Looks, Begin, Place
<1>6. ASSUME NEW k \in Order, Issue(k) PROVE Writing'
  <2>1. \A j \in Order \ {k} : got'[j] = got[j]
    BY <1>0, <1>6 DEF Issue, TypeOK
  <2> QED
    BY <1>2, <1>6, <2>1 DEF Issue, Goes, Place
<1>7. ASSUME NEW k \in Order, WriteCert(k) PROVE Writing'
  <2>1. \A j \in Order : at'[j] = IF j = k THEN "writeKey" ELSE at[j]
    BY <1>0, <1>7 DEF WriteCert, Goes, TypeOK
  <2>2. \A j \in Order \ {k} : at[j] = "writeKey" /\ j \notin marred'
                                 => j \notin marred /\ cert' = cert
    BY <1>7 DEF WriteCert, Between
  <2>3. k \notin marred' => cert' = got[k]
    BY <1>7 DEF WriteCert
  <2>4. got' = got
    BY <1>7 DEF WriteCert
  <2> QED
    BY <2>1, <2>2, <2>3, <2>4 DEF Writing
<1>8. ASSUME NEW k \in Order, WriteKey(k) PROVE Writing'
  <2>1. \A j \in Order : at'[j] = IF j = k THEN "install" ELSE at[j]
    BY <1>0, <1>8 DEF WriteKey, Goes, TypeOK
  <2>2. /\ cert' = cert /\ got' = got /\ at[k] = "writeKey"
        /\ \A j \in Order \ {k} : j \notin marred' => j \notin marred
    BY <1>8 DEF WriteKey
  <2>3. ~torn' => key' = got[k] /\ k \notin marred
    BY <1>8 DEF WriteKey
  <2>4. ~torn' => cert' = key'
    BY <2>2, <2>3 DEF Writing
  <2> QED
    BY <2>1, <2>2, <2>4 DEF Writing
<1>9. ASSUME NEW k \in Order, LockAndCopyChain(k) PROVE Writing'
  BY <1>2, <1>9 DEF LockAndCopyChain, Goes, Place
<1>10. ASSUME NEW k \in Order, CopyKey(k) PROVE Writing'
  <2>1. UNCHANGED <<files, marred, torn>> /\ at[k] = "priv"
    BY <1>10 DEF CopyKey
  <2>2. \A j \in Order : at[j] = "writeKey" => at'[j] = "writeKey"
    <3>1. CASE k = Main
      BY <2>1, <3>1 DEF Alone
    <3>2. CASE k # Main
      <4>1. \E p \in {"waiting", "off"} : at' = [at EXCEPT ![k] = p]
        BY <1>10, <3>2 DEF CopyKey, AfterInstall, Order
      <4> QED
        BY <1>0, <2>1, <4>1 DEF TypeOK
    <3> QED
      BY <3>1, <3>2
  <2>3. \A j \in Order : at'[j] = "writeKey" => at[j] = "writeKey"
    BY <1>10, Releases
  <2>4. \A j \in Order \ {k} : got'[j] = got[j]
    BY <1>0, <1>10 DEF CopyKey, TypeOK
  <2>5. at[Main] \in Past
    BY <2>1 DEF Alone
  <2> QED
    BY <1>1, <2>1, <2>2, <2>3, <2>4, <2>5
<1>11. CASE LoadExisting \/ SelfSign
  <2>1. \A j \in Order \ {Main} : got'[j] = got[j]
    BY <1>0, <1>11 DEF LoadExisting, SelfSign, TypeOK
  <2> QED
    BY <1>2, <1>11, <2>1 DEF LoadExisting, SelfSign, Matching, Goes, Place, histories
<1>12. CASE Hello \/ SendChain \/ Sign \/ Age
  BY <1>1, <1>12 DEF Hello, SendChain, Sign, Age, orders, histories
<1>13. ASSUME NEW k \in Poster, Post(k) PROVE Writing'
  BY <1>2, <1>13, CertsAssumption DEF Post, Goes, Place, histories
<1>14. CASE Crash
  BY <1>14 DEF Crash, StartAt, Writing
<1> QED
  BY <1>3, <1>4, <1>5, <1>6, <1>7, <1>8, <1>9, <1>10, <1>11, <1>12, <1>13, <1>14, Kinds

\* The two files belong together once the server is up, also after a crash between
\* them, unless the last order to write them could not write both or was written into.
THEOREM FilesBelong == Spec => []FilesMatch
<1>1. Init => Typing /\ Alone /\ Writing
  BY InitTyped, InitAlone DEF Init, StartAt, Writing
<1>2. Typing /\ Alone /\ Writing /\ [Next]_vars => (Typing /\ Alone /\ Writing)'
  BY StepTyped, StepDomains, StepAlone, StepWriting DEF Typing
<1>3. Writing => FilesMatch
  BY DEF Writing, FilesMatch, Up, Between
<1> QED
  BY <1>1, <1>2, <1>3, PTL DEF Spec

-----------------------------------------------------------------------------
(* Second orders *)

\* Two orders that are under way at once know it.
Single == \A j, k \in Order : Ordering(j) /\ Ordering(k) /\ j # k => j \in crossed

\* The certificate issued last is on disk if it was stored, and no order that
\* crossed none asks for another.
Kept ==
  /\ stored => ValidOnDisk(fresh)
  /\ \A k \in Order : at[k] \in InFlight /\ k \notin crossed => ~(stored /\ dom[k] = fresh)

LEMMA StepSingle ==
  ASSUME Typing, Alone, Single, [Next]_vars
  PROVE  Single'
<1> USE Orders
<1>0. TypeOK
  BY DEF Typing
<1>1. ASSUME crossed' = crossed, \A j \in Order : Ordering(j)' => Ordering(j)
      PROVE  Single'
  BY <1>1 DEF Single
<1>2. ASSUME crossed' = crossed, NEW k \in Order, Ordering(k), NEW p \in Place,
             at' = [at EXCEPT ![k] = p]
      PROVE  Single'
  BY <1>0, <1>1, <1>2 DEF Ordering, TypeOK
<1>3. CASE UNCHANGED vars
  BY <1>1, <1>3 DEF vars, orders, histories, Ordering
<1>4. ASSUME NEW k \in Order, Asks(k) PROVE Single'
  <2>1. PICK p \in InFlight \cup {"check", "existing", "off", "waiting"} :
          /\ at' = [at EXCEPT ![k] = p] /\ (p = "existing" => k = Main)
          /\ crossed' = IF p \in InFlight THEN crossed ELSE crossed \ {k}
    BY <1>4 DEF Asks
  <2>2. \A j \in Order : at'[j] = IF j = k THEN p ELSE at[j]
    BY <1>0, <2>1 DEF TypeOK
  <2>3. CASE p \in InFlight
    BY <1>2, <1>4, <2>1, <2>3 DEF Asks, InFlight, Place, Ordering
  <2>4. CASE p = "existing"
    <3>1. \A j \in Order \ {k} : at[j] = "off"
      BY <1>4, <2>1, <2>4 DEF Alone, Asks, InFlight
    <3> QED
      BY <2>2, <3>1 DEF Single, Ordering
  <2>5. CASE p \in {"check", "off", "waiting"}
    BY <2>1, <2>2, <2>5 DEF Single, Ordering
  <2> QED
    BY <2>3, <2>4, <2>5
<1>5. ASSUME NEW k \in Order, NEW d \in Domain, Looks(k, d) PROVE Single'
  <2>1. \E p \in {"install", "publish"} : at' = [at EXCEPT ![k] = p]
    BY <1>5 DEF Looks, Begin, Goes
  <2>2. \A j \in Order \ {k} : at'[j] = at[j]
    BY <1>0, <2>1 DEF TypeOK
  <2>3. /\ crossed \subseteq crossed'
        /\ \A j \in Order \ {k} : Ordering(j) => j \in crossed' /\ k \in crossed'
    BY <1>5 DEF Looks, Begin, Other
  <2> QED
    BY <2>2, <2>3 DEF Single, Ordering
<1>6. ASSUME NEW k \in Order, Issue(k) \/ WriteCert(k) \/ WriteKey(k) \/ LockAndCopyChain(k)
      PROVE  Single'
  BY <1>2, <1>6 DEF Issue, WriteCert, WriteKey, LockAndCopyChain, Goes, Place, Ordering
<1>7. ASSUME NEW k \in Order, CopyKey(k) PROVE Single'
  <2>1. /\ \A j \in Order : at'[j] \in {"off", "waiting"} \/ (at'[j] = at[j] /\ j # k)
        /\ crossed' = crossed \ {k}
    BY <1>7, Releases DEF CopyKey
  <2> QED
    BY <2>1 DEF Single, Ordering
<1>8. CASE LoadExisting \/ SelfSign
  BY <1>2, <1>8 DEF LoadExisting, SelfSign, Goes, Place, Ordering, histories
<1>9. CASE Hello \/ SendChain \/ Sign \/ Age
  BY <1>1, <1>9 DEF Hello, SendChain, Sign, Age, orders, histories, Ordering
<1>10. ASSUME NEW k \in Poster, Post(k) PROVE Single'
  <2>1. \A j \in Order : at'[j] = IF j = k THEN "check" ELSE at[j]
    BY <1>0, <1>10 DEF Post, Goes, TypeOK
  <2> QED
    BY <1>1, <1>10, <2>1 DEF Post, histories, Ordering
<1>11. CASE Crash
  BY <1>11 DEF Crash, StartAt, Single, Ordering
<1> QED
  BY <1>3, <1>4, <1>5, <1>6, <1>7, <1>8, <1>9, <1>10, <1>11, Kinds

LEMMA StepKept ==
  ASSUME Typing, Installing, Writing, Single, Kept, [Next]_vars
  PROVE  Kept'
<1> USE Orders
<1>0. TypeOK /\ ages \in Nat
  BY CertsAssumption DEF Typing, TypeOK
\* A step that writes no file, and after which no more orders ask.
<1>1. ASSUME UNCHANGED <<files, ages>>, stored' = FALSE \/ UNCHANGED <<fresh, stored>>,
             \A j \in Order : at'[j] \in InFlight /\ j \notin crossed'
               => at[j] \in InFlight /\ dom'[j] = dom[j] /\ j \notin crossed
      PROVE  Kept'
  <2>1. ValidOnDisk(fresh) /\ fresh' = fresh => ValidOnDisk(fresh)'
    BY <1>1 DEF ValidOnDisk, Matching, Old, files
  <2> QED
    BY <1>1, <2>1 DEF Kept
<1>2. ASSUME UNCHANGED <<files, ages, fresh, stored, dom, crossed>>,
             NEW k \in Order, NEW p \in Place \ InFlight,
             at' = [at EXCEPT ![k] = p]
      PROVE  Kept'
  <2>1. \A j \in Order : at'[j] = IF j = k THEN p ELSE at[j]
    BY <1>0, <1>2 DEF TypeOK
  <2> QED
    BY <1>1, <1>2, <2>1
<1>3. CASE UNCHANGED vars
  BY <1>1, <1>3 DEF vars, orders, histories, counters
<1>4. ASSUME NEW k \in Order, Asks(k) PROVE Kept'
  <2>1. PICK p \in InFlight \cup {"check", "existing", "off", "waiting"} :
          /\ at' = [at EXCEPT ![k] = p] /\ (p \in InFlight => dom' = dom)
          /\ crossed' = IF p \in InFlight THEN crossed ELSE crossed \ {k}
    BY <1>4 DEF Asks
  <2>2. \A j \in Order : at'[j] = IF j = k THEN p ELSE at[j]
    BY <1>0, <2>1 DEF TypeOK
  <2>3. \A j \in Order : at'[j] \in InFlight /\ j \notin crossed'
          => at[j] \in InFlight /\ dom'[j] = dom[j] /\ j \notin crossed
    BY <1>4, <2>1, <2>2 DEF Asks, InFlight
  <2> QED
    BY <1>1, <1>4, <2>3 DEF Asks
<1>5. ASSUME NEW k \in Order, NEW d \in Domain, Looks(k, d) PROVE Kept'
  <2>1. /\ UNCHANGED <<files, ages, fresh, stored>> /\ crossed \subseteq crossed'
        /\ dom' = [dom EXCEPT ![k] = d]
    BY <1>5 DEF Looks, Begin, counters
  <2>2. PICK p \in {"install", "publish"} :
          at' = [at EXCEPT ![k] = p] /\ (p = "publish" => ~ValidOnDisk(d))
    BY <1>5 DEF Looks, Begin, OnDisk, Goes
  <2>3. \A j \in Order : at'[j] = IF j = k THEN p ELSE at[j]
    BY <1>0, <2>2 DEF TypeOK
  <2>4. \A j \in Order : dom'[j] = IF j = k THEN d ELSE dom[j]
    BY <1>0, <2>1 DEF TypeOK
  <2>5. ValidOnDisk(fresh) => ValidOnDisk(fresh)'
    BY <2>1 DEF ValidOnDisk, Matching, Old, files
  <2>6. at'[k] \in InFlight => ~(stored /\ d = fresh)
    BY <2>2, <2>3 DEF Kept, InFlight
  <2> QED
    BY <2>1, <2>3, <2>4, <2>5, <2>6 DEF Kept
<1>6. ASSUME NEW k \in Order, Issue(k) PROVE Kept'
  BY <1>6 DEF Issue, Certifies, Kept
<1>7. ASSUME NEW k \in Order, WriteCert(k) PROVE Kept'
  <2>1. UNCHANGED <<ages, fresh, crossed, dom, key>> /\ stored' = (stored /\ cert' = cert)
    BY <1>7 DEF WriteCert
  <2>2. \A j \in Order : at'[j] = IF j = k THEN "writeKey" ELSE at[j]
    BY <1>0, <1>7 DEF WriteCert, Goes, TypeOK
  <2>3. stored' => ValidOnDisk(fresh)'
    BY <2>1 DEF Kept, ValidOnDisk, Matching, Old
  <2>4. \A j \in Order : at'[j] \in InFlight => at[j] \in InFlight
    BY <2>2 DEF InFlight
  <2> QED
    BY <2>1, <2>3, <2>4 DEF Kept
<1>8. ASSUME NEW k \in Order, WriteKey(k) PROVE Kept'
  <2>1. UNCHANGED <<ages, fresh, crossed, got, dom, cert>> /\ at[k] = "writeKey"
    BY <1>8 DEF WriteKey
  <2>2. \A j \in Order : at'[j] = IF j = k THEN "install" ELSE at[j]
    BY <1>0, <1>8 DEF WriteKey, Goes, TypeOK
  <2>3. ASSUME stored' PROVE ValidOnDisk(fresh)'
    <3>1. CASE stored /\ key' = key
      BY <2>1, <3>1 DEF Kept, ValidOnDisk, Matching, Old
    <3>2. CASE key' = got[k] /\ k \notin marred /\ got[k].of = fresh /\ ~Old(got[k])
      <4>1. cert = got[k] /\ got[k] # None
        BY <2>1, <3>2 DEF Writing, Installing
      <4> QED
        BY <2>1, <3>2, <4>1 DEF ValidOnDisk, Matching, Old
    <3> QED
      BY <1>8, <2>3, <3>1, <3>2 DEF WriteKey
  <2>4. \A j \in Order : at'[j] \in InFlight => j \in crossed'
    BY <2>1, <2>2 DEF Single, Ordering, InFlight
  <2> QED
    BY <2>3, <2>4 DEF Kept
<1>9. ASSUME NEW k \in Order, LockAndCopyChain(k) PROVE Kept'
  BY <1>2, <1>9 DEF LockAndCopyChain, Goes, Place, InFlight, counters
<1>10. ASSUME NEW k \in Order, CopyKey(k) PROVE Kept'
  <2>1. /\ UNCHANGED <<files, ages, fresh, stored>> /\ at[k] = "priv"
        /\ crossed' = crossed \ {k} /\ dom' = [dom EXCEPT ![k] = None]
    BY <1>10 DEF CopyKey, counters
  <2>2. \A j \in Order : at'[j] \in {"off", "waiting"} \/ (j # k /\ at'[j] = at[j])
    BY <1>0, <1>10, CertsAssumption DEF CopyKey, AfterInstall, Started, TypeOK, Order
  <2>3. \A j \in Order \ {k} : dom'[j] = dom[j]
    BY <1>0, <2>1 DEF TypeOK
  <2> QED
    BY <1>1, <2>1, <2>2, <2>3 DEF InFlight
<1>11. CASE LoadExisting \/ SelfSign
  BY <1>2, <1>11 DEF LoadExisting, SelfSign, Goes, Place, InFlight, counters, histories
<1>12. CASE Hello \/ SendChain \/ Sign
  BY <1>1, <1>12 DEF Hello, SendChain, Sign, orders, histories, counters
<1>13. CASE Age
  BY <1>13 DEF Age, Kept
<1>14. ASSUME NEW k \in Poster, Post(k) PROVE Kept'
  BY <1>2, <1>14 DEF Post, Goes, Place, InFlight, histories
<1>15. CASE Crash
  <2>1. /\ UNCHANGED <<ages, fresh>>
        /\ stored' => stored /\ cert' = cert /\ key' = key
    BY <1>15 DEF Crash
  <2>2. \A j \in Order : at'[j] \notin InFlight
    BY <1>15 DEF Crash, StartAt, InFlight
  <2>3. stored' => ValidOnDisk(fresh)'
    BY <2>1 DEF Kept, ValidOnDisk, Matching, Old
  <2> QED
    BY <2>2, <2>3 DEF Kept
<1> QED
  BY <1>3, <1>4, <1>5, <1>6, <1>7, <1>8, <1>9, <1>10, <1>11, <1>12, <1>13, <1>14, <1>15, Kinds

\* The authority is not asked for the certificate issued last once both files have
\* it, also after crashes, failures and other orders' writes, but by an order that
\* crossed another one.
THEOREM OrdersOnce == Spec => NoSecondOrder
<1> DEFINE Inv == /\ Typing /\ Installing /\ Whole /\ Alone /\ Writing /\ Single /\ Kept
<1>1. Init => Inv
  BY InitTyped, InitWhole, InitAlone, Orders
     DEF Init, StartAt, Writing, Single, Ordering, Kept, InFlight
<1>2. Inv /\ [Next]_vars => Inv'
  BY StepTyped, StepDomains, StepWhole, StepAlone, StepWriting, StepSingle, StepKept DEF Typing
<1>3. Inv => [\A k \in Order : (Issue(k) \/ IssueFails(k)) /\ dom[k] = fresh
                => ~stored \/ k \in crossed]_vars
  BY DEF Issue, IssueFails, Kept, InFlight
<1> QED
  BY <1>1, <1>2, <1>3, PTL DEF Spec, NoSecondOrder
=============================================================================
