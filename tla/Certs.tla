-------------------------------- MODULE Certs --------------------------------
(***************************************************************************)
(* The TLS certificates of the server: acme_duckdns.go, acme_cloudhub.go,  *)
(* tls_helper.go and the places of main.go that use them.  One pair of     *)
(* files and one certificate in memory serve two domains, DuckDNS's and    *)
(* the Cloud Hub's.  Orders for a certificate run in the start of the      *)
(* server, in one loop per domain and in the goroutine POST /api/duckdns   *)
(* leaves behind; no lock keeps two of them apart.  A step is a call to    *)
(* the network or a file, or one half of a copy of the certificate that    *)
(* handshakes read without the lock.                                       *)
(***************************************************************************)
EXTENDS Naturals, FiniteSets

CONSTANTS
  HubDomain, DuckDomain, \* names a certificate can be ordered for
  Poster,      \* goroutines of POST /api/duckdns
  Setups,      \* hub and DuckDNS domain an appliance may be set up with, and the
               \* DuckDNS domain its operator may ask for later
  Spare,       \* numbers that tell the pairs of one domain apart, used again when free
  None, Self,  \* nothing; the issuer of a self-signed certificate
  Main, HubLoop, DuckLoop,
  Visited,     \* bound: the hub domains, or None, of the appliances clients connect to
  MaxPosts,    \* bound: requests
  MaxMishaps   \* bound: times the certificates come within 30 days of their end,
               \* the process dies and starts again, a call to the network or the
               \* write of a file fails, all together

Order == {Main, HubLoop, DuckLoop} \cup Poster
Domain == HubDomain \cup DuckDomain

\* A certificate and its key: issued for a domain, or self-signed, so long ago.
Pair == [of : Domain \cup {Self}, made : 0..MaxMishaps, n : Spare]

ASSUME CertsAssumption ==
  /\ HubDomain \cap DuckDomain = {} /\ {None, Self} \cap (Domain \cup Order) = {}
  /\ Setups \subseteq (HubDomain \cup {None}) \X (DuckDomain \cup {None}) \X DuckDomain
  /\ Visited \subseteq HubDomain \cup {None}
  /\ None # Self /\ Main # HubLoop /\ Main # DuckLoop /\ HubLoop # DuckLoop
  /\ {Main, HubLoop, DuckLoop} \cap Poster = {}
  /\ IsFiniteSet(Spare) /\ IsFiniteSet(Poster)
  /\ Cardinality(Spare) >= Cardinality(Poster) + 8
  /\ MaxPosts \in Nat /\ MaxMishaps \in Nat
ASSUME NoneIsNoPair == None \notin Pair

VARIABLES
  hub, duck,   \* the configured domains
  asked,       \* the domain of the requests to come
  cert, key,   \* the two files: the pair each belongs to
  chain, priv, \* currentTLSCert: its certificate chain and its private key
  at, dom, got,\* per order: where it is, its domain, the pair it was issued
  txt,         \* the order whose challenge is in a domain's TXT record, None for
               \* an empty record and for the challenge of an order that has ended
  hs,          \* a handshake: where it is and the chain it has read
  posts, ages, mishaps,
  fresh,       \* history: the domain certified last, None once that is two months ago
  stored,      \* history: both files were written with the certificate issued last,
               \* and no write has touched them since
  crossed,     \* history: the orders that another was under way with
  marred,      \* history: the orders whose certificate was not written, or is not in
               \* its file any more, before their key is written
  torn,        \* history: the last key written since the start was a marred order's,
               \* or was not written whole
  seen         \* history: the pairs put in place since the handshake began, with the one
               \* that was, but for those that are not in use any more

counters == <<posts, ages, mishaps>>
setup == <<hub, duck, asked>>
files == <<cert, key>>
served == <<chain, priv>>
orders == <<at, dom, got>>
histories == <<fresh, stored, crossed, marred, torn, seen>>
vars == <<setup, files, served, orders, txt, hs, counters, histories>>

\* In the last place the order holds tlsMu.
Place == {"off", "waiting", "check", "publish", "validate", "clear", "clearFailed",
          "issue", "writeCert", "writeKey", "install", "existing", "priv"}
Old(i) == i.made < ages
Ordering(k) == at[k] \notin {"off", "waiting", "check"}

TypeOK ==
  /\ hub \in HubDomain \cup {None} /\ duck \in DuckDomain \cup {None} /\ asked \in DuckDomain
  /\ {cert, key, chain, priv} \subseteq Pair \cup {None}
  /\ at \in [Order -> Place] /\ dom \in [Order -> Domain \cup {None}]
  /\ got \in [Order -> Pair \cup {None}]
  /\ txt \in [Domain -> Order \cup {None}]
  /\ hs \in [at : {"idle", "asked", "chain"}, chain : Pair \cup {None}]
  /\ posts \in 0..MaxPosts /\ ages \in 0..mishaps /\ mishaps \in 0..MaxMishaps
  /\ fresh \in Domain \cup {None} /\ {stored, torn} \subseteq BOOLEAN
  /\ crossed \subseteq Order /\ marred \subseteq Order /\ seen \subseteq Pair \cup {None}

\* EnsureTLSCertificates tries the hub's domain first.
FirstDomain(h, d) == IF h # None THEN h ELSE d
\* Main alone runs, before there is a server or a loop.
StartAt(h, d) ==
  [k \in Order |-> IF k # Main THEN "off"
                   ELSE IF FirstDomain(h, d) = None THEN "existing" ELSE "check"]
StartDom(h, d) == [k \in Order |-> IF k = Main THEN FirstDomain(h, d) ELSE None]
NoPair == [k \in Order |-> None]
NoHandshake == [at |-> "idle", chain |-> None]

Init ==
  /\ \E s \in Setups : hub = s[1] /\ duck = s[2] /\ asked = s[3]
  /\ cert = None /\ key = None
  /\ at = StartAt(hub, duck) /\ dom = StartDom(hub, duck) /\ got = NoPair
  /\ chain = None /\ priv = None /\ hs = NoHandshake
  /\ txt = [d \in Domain |-> None]
  /\ posts = 0 /\ ages = 0 /\ mishaps = 0
  /\ fresh = None /\ stored = FALSE /\ torn = FALSE
  /\ crossed = {} /\ marred = {} /\ seen = {}

Goes(k, place) == at' = [at EXCEPT ![k] = place]

\* What calls ObtainOrRenew goes on after an error: the start with the next
\* domain and then with what is on disk, a loop with its ticker.
NextDomain(k) == IF k = Main /\ dom[k] = hub THEN duck ELSE None
Fails(k) ==
  /\ dom' = [dom EXCEPT ![k] = NextDomain(k)]
  /\ Goes(k, IF NextDomain(k) # None THEN "check"
             ELSE IF k = Main THEN "existing"
             ELSE IF k \in Poster THEN "off" ELSE "waiting")
  /\ crossed' = crossed \ {k}

Other(k) == {j \in Order \ {k} : Ordering(j)}
-----------------------------------------------------------------------------
(* ObtainOrRenewDuckDNSCert and ObtainOrRenewCloudHubCert *)

\* CheckExistingCertValid: the files are a pair, for this domain, officially
\* issued and with at least 30 days left.
Matching_FilesThere == cert # None /\ key # None                          \* mutant
Matching == cert # None /\ cert = key
ValidOnDisk_Expiring(d) == Matching /\ cert.of = d                        \* mutant
ValidOnDisk(d) == Matching /\ cert.of = d /\ ~Old(cert)
OnDisk_Never(d) == FALSE                                                  \* mutant
OnDisk(d) == ValidOnDisk(d)

Begin(k, d) ==
  /\ dom' = [dom EXCEPT ![k] = d]
  /\ IF OnDisk(d)
     THEN got' = [got EXCEPT ![k] = cert] /\ Goes(k, "install")
     ELSE got' = got /\ Goes(k, "publish")
  /\ crossed' = crossed \cup (IF Other(k) = {} THEN {} ELSE Other(k) \cup {k})
  /\ UNCHANGED <<setup, files, served, txt, hs, counters, fresh, stored, marred, torn, seen>>

CheckExisting(k) == at[k] = "check" /\ Begin(k, IF k = Main THEN dom[k] ELSE duck)

Mishap == mishaps < MaxMishaps /\ mishaps' = mishaps + 1

\* AuthorizeOrder and SetDuckDNSTXTRecord or setCloudHubTXTChallenge: the
\* record of the domain is replaced, whoever's challenge was in it.
PublishTXT(k) ==
  /\ at[k] = "publish"
  /\ txt' = [txt EXCEPT ![dom[k]] = k]
  /\ Goes(k, "validate")
  /\ UNCHANGED <<setup, files, served, dom, got, hs, counters, histories>>

\* The authority or the DNS service cannot be reached, or its answer is lost.
PublishFails(k) ==
  /\ at[k] = "publish"
  /\ \E t \in {txt[dom[k]], None} : txt' = [txt EXCEPT ![dom[k]] = t]
  /\ Mishap /\ Fails(k)
  /\ UNCHANGED <<setup, files, served, got, hs, posts, ages, fresh, stored, marred, torn, seen>>

\* Accept and WaitAuthorization: the authority looks the record up.
Validate(k) ==
  /\ at[k] = "validate" /\ txt[dom[k]] = k
  /\ Goes(k, "clear")
  /\ UNCHANGED <<setup, files, served, dom, got, txt, hs, counters, histories>>

\* There is no record, or somebody else's; or the authority gives up.
ValidateFails(k) ==
  /\ at[k] = "validate"
  /\ IF txt[dom[k]] = k THEN Mishap ELSE UNCHANGED mishaps
  /\ Goes(k, "clearFailed")
  /\ UNCHANGED <<setup, files, served, dom, got, txt, hs, posts, ages, histories>>

\* ClearDuckDNSTXTRecord, clearCloudHubTXTChallenge: a failure is ignored, and
\* the challenge left is nobody's.
ClearTXT(k) ==
  /\ at[k] \in {"clear", "clearFailed"}
  /\ \/ txt' = [txt EXCEPT ![dom[k]] = None] /\ UNCHANGED mishaps
     \/ txt' = [txt EXCEPT ![dom[k]] = IF @ = k THEN None ELSE @] /\ Mishap
  /\ IF at[k] = "clear" THEN Goes(k, "issue") /\ UNCHANGED <<dom, crossed>> ELSE Fails(k)
  /\ UNCHANGED <<setup, files, served, got, hs, posts, ages, fresh, stored, marred, torn, seen>>

InUse == {cert, key, chain, priv, hs.chain} \cup {got[k] : k \in Order}
FreshPair(d) ==
  LET free == {n \in Spare : [of |-> d, made |-> ages, n |-> n] \notin InUse} IN
    [of |-> d, made |-> ages, n |-> CHOOSE n \in Spare : free # {} => n \in free]

\* WaitOrder and CreateOrderCert: a certificate for a new key.
Certifies(k) == fresh' = dom[k] /\ stored' = FALSE
Issue(k) ==
  /\ at[k] = "issue"
  /\ got' = [got EXCEPT ![k] = FreshPair(dom[k])]
  /\ Certifies(k)
  /\ Goes(k, "writeCert")
  /\ UNCHANGED <<setup, files, served, dom, txt, hs, counters, crossed, marred, torn, seen>>

\* The authority refuses or cannot be reached, or its answer is lost: then it has
\* issued a certificate that nobody has.
IssueFails(k) ==
  /\ at[k] = "issue" /\ Mishap /\ Fails(k)
  /\ Certifies(k) \/ UNCHANGED <<fresh, stored>>
  /\ UNCHANGED <<setup, files, served, got, txt, hs, posts, ages, marred, torn, seen>>

\* Two writes.  Each empties its file first; their errors are logged or ignored,
\* and the order goes on to the second file and to the certificate in memory.
Between == {j \in Order : at[j] = "writeKey"}
WriteCert(k) ==
  /\ at[k] = "writeCert"
  /\ \/ /\ cert' = got[k] /\ UNCHANGED mishaps
        /\ marred' = Between
     \/ /\ Mishap /\ cert' \in {cert, None}
        /\ marred' = marred \cup {k} \cup (IF cert' = cert THEN {} ELSE Between)
  /\ stored' = (stored /\ cert' = cert)
  /\ Goes(k, "writeKey")
  /\ UNCHANGED <<setup, key, served, dom, got, txt, hs, posts, ages, fresh, crossed, torn, seen>>

WriteKey(k) ==
  /\ at[k] = "writeKey"
  /\ \/ /\ key' = got[k] /\ UNCHANGED mishaps
        /\ torn' = (k \in marred)
        /\ stored' = (k \notin marred /\ got[k].of = fresh /\ ~Old(got[k]))
     \/ /\ Mishap /\ key' \in {key, None}
        /\ torn' = TRUE /\ stored' = (stored /\ key' = key)
  /\ marred' = marred \ {k}
  /\ Goes(k, "install")
  /\ UNCHANGED <<setup, cert, served, dom, got, txt, hs, posts, ages, fresh, crossed, seen>>

-----------------------------------------------------------------------------
(* EnsureTLSCertificates after no order could be made *)

LoadExisting ==
  /\ at[Main] = "existing" /\ Matching
  /\ got' = [got EXCEPT ![Main] = cert]
  /\ Goes(Main, "install")
  /\ UNCHANGED <<setup, files, served, dom, txt, hs, counters, histories>>

SelfSign ==
  /\ at[Main] = "existing" /\ ~Matching
  /\ got' = [got EXCEPT ![Main] = FreshPair(Self)]
  /\ Goes(Main, "writeCert")
  /\ UNCHANGED <<setup, files, served, dom, txt, hs, counters, histories>>

-----------------------------------------------------------------------------
(* currentTLSCert *)

TlsLocked == \E k \in Order : at[k] = "priv"
MayReplace_Unlocked == TRUE                                               \* mutant
MayReplace == ~TlsLocked
LockAndCopyChain(k) ==
  /\ at[k] = "install" /\ MayReplace
  /\ chain' = got[k]
  /\ seen' = IF hs.at = "idle" THEN {} ELSE {got[k]} \cup (seen \cap {priv, hs.chain})
  /\ Goes(k, "priv")
  /\ UNCHANGED <<setup, files, priv, dom, got, txt, hs, counters, fresh, stored, crossed,
                 marred, torn>>

\* The copy is done and the lock released; the start goes on to start the loops
\* of the domains that are configured by then.
Started ==
  [j \in Order |->
     CASE j = Main -> "off"
       [] j = HubLoop -> IF hub # None THEN "waiting" ELSE "off"
       [] j = DuckLoop -> IF duck # None THEN "waiting" ELSE "off"
       [] j \in Poster -> at[j]]
AfterInstall(k) ==
  CASE k = Main -> Started
    [] k \in {HubLoop, DuckLoop} -> [at EXCEPT ![k] = "waiting"]
    [] k \in Poster -> [at EXCEPT ![k] = "off"]

CopyKey(k) ==
  /\ at[k] = "priv"
  /\ priv' = got[k]
  /\ got' = [got EXCEPT ![k] = None] /\ dom' = [dom EXCEPT ![k] = None]
  /\ at' = AfterInstall(k)
  /\ crossed' = crossed \ {k}
  /\ UNCHANGED <<setup, files, chain, txt, hs, counters, fresh, stored, marred, torn, seen>>

\* GetCertificate takes the read lock and returns a pointer: the handshake
\* reads what it points to after the lock is gone.
Up == at[Main] = "off"
MayRead_Unlocked == TRUE                                                   \* mutant
MayRead == ~TlsLocked
Hello ==
  /\ Up /\ hub \in Visited /\ hs.at = "idle" /\ MayRead /\ chain # None
  /\ hs' = [at |-> "asked", chain |-> None]
  /\ seen' = {chain}
  /\ UNCHANGED <<setup, files, served, orders, txt, counters, fresh, stored, crossed, marred,
                 torn>>

SendChain ==
  /\ hs.at = "asked"
  /\ hs' = [at |-> "chain", chain |-> chain]
  /\ UNCHANGED <<setup, files, served, orders, txt, counters, histories>>

Sign ==
  /\ hs.at = "chain"
  /\ hs' = NoHandshake /\ seen' = {}
  /\ UNCHANGED <<setup, files, served, orders, txt, counters, fresh, stored, crossed, marred,
                 torn>>

-----------------------------------------------------------------------------
(* What sets an order going, and what goes wrong *)

\* The hub's loop looks at the files first, DuckDNS's orders in any case.
HubTick ==
  /\ at[HubLoop] = "waiting"
  /\ IF ValidOnDisk(hub) THEN UNCHANGED vars ELSE Begin(HubLoop, hub)
DuckTick == at[DuckLoop] = "waiting" /\ Begin(DuckLoop, duck)

\* POST /api/duckdns, accepted and saved; its goroutine orders.
Post(k) ==
  /\ Up /\ at[k] = "off" /\ posts < MaxPosts
  /\ posts' = posts + 1
  /\ duck' = asked
  /\ Goes(k, "check")
  /\ UNCHANGED <<hub, asked, files, served, dom, got, txt, hs, ages, mishaps, histories>>

\* Two months pass.
Age ==
  /\ Mishap /\ ages' = ages + 1
  /\ fresh' = None /\ stored' = FALSE
  /\ UNCHANGED <<setup, files, served, orders, txt, hs, posts, crossed, marred, torn, seen>>

\* The process dies and starts again; the files and the TXT records stay, but for
\* a file that was being written.
Crash ==
  /\ Mishap
  /\ at' = StartAt(hub, duck) /\ dom' = StartDom(hub, duck) /\ got' = NoPair
  /\ chain' = None /\ priv' = None /\ hs' = NoHandshake
  /\ txt' = [d \in Domain |-> None]
  /\ cert' \in {cert} \cup {None : k \in {j \in Order : at[j] = "writeCert"}}
  /\ key' \in {key} \cup {None : k \in Between}
  /\ stored' = (stored /\ cert' = cert /\ key' = key)
  /\ torn' = FALSE /\ crossed' = {} /\ marred' = {} /\ seen' = {}
  /\ UNCHANGED <<setup, posts, ages, fresh>>

-----------------------------------------------------------------------------
Succeeds(k) == PublishTXT(k) \/ Validate(k) \/ Issue(k)
OrderFails(k) == PublishFails(k) \/ ValidateFails(k) \/ IssueFails(k)
LocalStep(k) == CheckExisting(k) \/ ClearTXT(k) \/ WriteCert(k) \/ WriteKey(k)
Install(k) == LockAndCopyChain(k) \/ CopyKey(k)
OrderStep(k) == Succeeds(k) \/ OrderFails(k) \/ LocalStep(k) \/ Install(k)
Fallback == LoadExisting \/ SelfSign
Handshake == Hello \/ SendChain \/ Sign

\* A goroutine: the start, a loop or that of a request.
Task(k) ==
  \/ OrderStep(k)
  \/ k = Main /\ Fallback
  \/ k = HubLoop /\ HubTick
  \/ k = DuckLoop /\ DuckTick

Next ==
  \/ \E k \in Order : Task(k)
  \/ Handshake
  \/ \E k \in Poster : Post(k)
  \/ Age \/ Crash

Spec == Init /\ [][Next]_vars

\* Goroutines run on, network calls end in their timeouts and tickers tick; the
\* authority and the DNS service can be reached once MaxMishaps is used up.
FairSpec == Spec /\ \A k \in Order : WF_vars(Task(k))

-----------------------------------------------------------------------------
(* Properties *)

\* The certificate in memory and its key are of one pair whenever the lock is
\* free, and are there as soon as the server is up.
ServedWhole == TypeOK /\ (~TlsLocked => chain = priv /\ (Up => chain # None))

\* The two files, written one after the other without a lock, belong together
\* whenever the server is up and no order is between them, whatever a crash has left
\* before the start; unless the last order to write could not write both, or another
\* one wrote its certificate in between.
FilesMatch == Up /\ Between = {} /\ ~torn => cert = key

\* A handshake sends a chain and signs with a key that were both in place at some
\* time since it began: pairs of one certificate where none was put in place
\* meanwhile, and never a part of an older or a half copied one.
HandshakeMatches == [][Sign => hs.chain \in seen /\ priv \in seen]_vars

\* "Reutilizar certificado en caché": the authority, which counts, issues the domain
\* certified last another certificate only where the last one was not stored in
\* both files, or the order crossed another one.
NoSecondOrder ==
  [][\A k \in Order : (Issue(k) \/ IssueFails(k)) /\ dom[k] = fresh => ~stored \/ k \in crossed]_vars

\* A server that was started with one domain configured ends up with an
\* official, current certificate for it and keeps it, whatever failed, died or
\* expired before.
TheDomain == IF hub # None THEN hub ELSE duck
OneLoop == (hub # None /\ duck = None) \/ (hub = None /\ at[DuckLoop] # "off")
Current(i) == i # None /\ i.of = TheDomain /\ ~Old(i)
Certified == <>[](OneLoop => Current(chain) /\ Current(priv))

\* "Probar y Activar": the same of every domain that is configured, also one that
\* was first configured while the server ran.
CertifiedAtOnce == <>[](TheDomain # None => Current(chain) /\ Current(priv))
=============================================================================
