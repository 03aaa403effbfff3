------------------------------ MODULE Tracker ------------------------------
(***************************************************************************)
(* The WebTorrent tracker (tracker.go): which peer is in which swarm, and  *)
(* on which WebSocket it can be reached.  One goroutine per connection     *)
(* runs HandleWebSocket; all of them share two maps under one RWMutex.     *)
(* Offers, answers and scrape replies are written to the sockets of OTHER  *)
(* peers while the read lock is held, and those writes have no deadline: a *)
(* peer that stops reading stalls whoever writes to it.  A goroutine that  *)
(* waits for the write lock keeps new readers out, as Go's RWMutex does.   *)
(* Malformed requests, which change nothing, and the contents of offers    *)
(* are left out.                                                           *)
(***************************************************************************)
EXTENDS Naturals, FiniteSets

CONSTANTS
  Session,    \* WebSocket connections
  PeerId,     \* the peer_id values clients use
  Hash,       \* info hashes
  None,       \* an absent peer_id, info_hash or session
  IdsOf,      \* IdsOf[s]: the peer_ids the client behind s puts in its requests
  MaxOffers,  \* bound: offers in one announce
  Staller     \* the sessions whose client may stop reading for a while

ASSUME TrackerAssumption ==
  /\ None \notin Session /\ None \notin PeerId /\ None \notin Hash
  /\ IdsOf \in [Session -> SUBSET PeerId]
  /\ MaxOffers \in Nat /\ Staller \subseteq Session

VARIABLES
  pc,         \* pc[s]: where the goroutine of s is
  current,    \* current[s]: its currentPeerID
  req,        \* req[s]: the request it is handling
  given,      \* given[s]: the peers its offers have gone to in this announce
  target,     \* target[s]: the peer it is writing to
  swarms,     \* swarms[h][p]: the session registered, None where absent
  swarmKeys,  \* the hashes that are keys of the swarms map
  peers,      \* peers[p]: the hashes of the peers map, empty where absent
  gone,       \* gone[s]: the client has gone away
  stalled,    \* stalled[s]: the client does not read
  member,     \* member[s]: history, the <<hash, id>> that s has announced and not
              \* left: what its client believes it is registered under
  sawEmpty    \* sawEmpty[s]: history, the scrape of s in hand counted nobody

regVars == <<swarms, swarmKeys, peers>>
clientVars == <<gone, stalled>>
vars == <<pc, current, req, given, target, regVars, clientVars, member, sawEmpty>>

Request == [id : PeerId \cup {None}, hash : Hash \cup {None},
            offers : 0..MaxOffers, to : PeerId \cup {None}]
RequestOf(id, h, n, to) == [id |-> id, hash |-> h, offers |-> n, to |-> to]
NoRequest == RequestOf(None, None, 0, None)
Place == {"new", "read", "announce", "reply", "offers", "offering", "scrape", "scraping",
          "signal", "signaling", "removing", "done"}

TypeOK ==
  /\ pc \in [Session -> Place]
  /\ current \in [Session -> PeerId \cup {None}]
  /\ req \in [Session -> Request]
  /\ given \in [Session -> SUBSET PeerId]
  /\ target \in [Session -> PeerId \cup {None}]
  /\ swarms \in [Hash -> [PeerId -> Session \cup {None}]]
  /\ swarmKeys \in SUBSET Hash
  /\ peers \in [PeerId -> SUBSET Hash]
  /\ gone \in [Session -> BOOLEAN] /\ stalled \in [Session -> BOOLEAN]
  /\ member \in [Session -> SUBSET (Hash \X PeerId)]
  /\ sawEmpty \in [Session -> BOOLEAN]

Init ==
  /\ pc = [s \in Session |-> "new"]
  /\ current = [s \in Session |-> None]
  /\ req = [s \in Session |-> NoRequest]
  /\ given = [s \in Session |-> {}]
  /\ target = [s \in Session |-> None]
  /\ swarms = [h \in Hash |-> [p \in PeerId |-> None]]
  /\ swarmKeys = {}
  /\ peers = [p \in PeerId |-> {}]
  /\ gone = [s \in Session |-> FALSE] /\ stalled = [s \in Session |-> FALSE]
  /\ member = [s \in Session |-> {}]
  /\ sawEmpty = [s \in Session |-> FALSE]

-----------------------------------------------------------------------------
(* The RWMutex and the sockets *)

Reading_NotOffers(s) == pc[s] \in {"scraping", "signaling"}            \* mutant
Reading(s) == pc[s] \in {"offering", "scraping", "signaling"}
WantsWrite(s) == pc[s] \in {"announce", "removing"}
CanWrite == \A s \in Session : ~Reading(s)
CanRead == \A s \in Session : ~WantsWrite(s)

\* PeerSession.Send returns: the client reads, or the connection has failed.
SendReturns(s) == ~stalled[s] \/ gone[s] \/ pc[s] = "done"

-----------------------------------------------------------------------------
(* The clients *)

Connect(s) ==
  /\ pc[s] = "new"
  /\ pc' = [pc EXCEPT ![s] = "read"]
  /\ UNCHANGED <<current, req, given, target, regVars, clientVars, member, sawEmpty>>

GoesAway(s) ==
  /\ pc[s] # "new" /\ ~gone[s]
  /\ gone' = [gone EXCEPT ![s] = TRUE]
  /\ UNCHANGED <<pc, current, req, given, target, regVars, stalled, member, sawEmpty>>

Stalls(s) ==
  /\ s \in Staller /\ pc[s] # "new" /\ ~stalled[s] /\ ~gone[s]
  /\ stalled' = [stalled EXCEPT ![s] = TRUE]
  /\ UNCHANGED <<pc, current, req, given, target, regVars, gone, member, sawEmpty>>

ReadsAgain(s) ==
  /\ stalled[s]
  /\ stalled' = [stalled EXCEPT ![s] = FALSE]
  /\ UNCHANGED <<pc, current, req, given, target, regVars, gone, member, sawEmpty>>

-----------------------------------------------------------------------------
(* HandleWebSocket: a request arrives, or the connection fails *)

\* The session takes the peer_id of any request that has one.
Named_AsSent(s, id) == id                                             \* mutant
Named(s, id) == IF id = None THEN current[s] ELSE id

ReceiveAnnounce(s, id, h, n) ==
  /\ pc[s] = "read" /\ ~gone[s]
  /\ current' = [current EXCEPT ![s] = Named(s, id)]
  /\ IF id = None \/ h = None                       \* "missing info_hash or peer_id"
       THEN UNCHANGED <<pc, req>>
       ELSE /\ pc' = [pc EXCEPT ![s] = "announce"]
            /\ req' = [req EXCEPT ![s] = RequestOf(id, h, n, None)]
  /\ UNCHANGED <<given, target, regVars, clientVars, member, sawEmpty>>

ReceiveScrape(s, id, h) ==
  /\ pc[s] = "read" /\ ~gone[s]
  /\ current' = [current EXCEPT ![s] = Named(s, id)]
  /\ pc' = [pc EXCEPT ![s] = "scrape"]
  /\ req' = [req EXCEPT ![s] = RequestOf(id, h, 0, None)]
  /\ UNCHANGED <<given, target, regVars, clientVars, member, sawEmpty>>

\* Any other action, with a to_peer_id, is forwarded.
ReceiveSignal(s, id, h, to) ==
  /\ pc[s] = "read" /\ ~gone[s]
  /\ current' = [current EXCEPT ![s] = Named(s, id)]
  /\ pc' = [pc EXCEPT ![s] = "signal"]
  /\ req' = [req EXCEPT ![s] = RequestOf(id, h, 0, to)]
  /\ UNCHANGED <<given, target, regVars, clientVars, member, sawEmpty>>

\* The request is done with: its locals go, the next message is read.
Returns(s) == pc' = [pc EXCEPT ![s] = "read"] /\ req' = [req EXCEPT ![s] = NoRequest]

HandlerEnds(s) ==
  /\ pc[s] = "read" /\ gone[s]
  /\ pc' = [pc EXCEPT ![s] = IF current[s] = None THEN "done" ELSE "removing"]
  /\ UNCHANGED <<current, req, given, target, regVars, clientVars, member, sawEmpty>>

-----------------------------------------------------------------------------
(* handleAnnounce *)

AnnounceUpdate(s) ==
  LET h == req[s].hash
      p == req[s].id IN
  /\ pc[s] = "announce" /\ CanWrite
  /\ swarms' = [swarms EXCEPT ![h][p] = s]
  /\ swarmKeys' = swarmKeys \cup {h}
  /\ peers' = [peers EXCEPT ![p] = @ \cup {h}]
  /\ member' = [member EXCEPT ![s] = @ \cup {<<h, p>>}]
  /\ pc' = [pc EXCEPT ![s] = "reply"]
  /\ UNCHANGED <<current, req, given, target, clientVars, sawEmpty>>

AnnounceReply(s) ==
  /\ pc[s] = "reply" /\ SendReturns(s)
  /\ IF req[s].offers > 0 THEN pc' = [pc EXCEPT ![s] = "offers"] /\ UNCHANGED req
                           ELSE Returns(s)
  /\ UNCHANGED <<current, given, target, regVars, clientVars, member, sawEmpty>>

-----------------------------------------------------------------------------
(* distributeOffers, under the read lock to its end *)

OffersLock(s) ==
  /\ pc[s] = "offers" /\ CanRead
  /\ pc' = [pc EXCEPT ![s] = "offering"]
  /\ UNCHANGED <<current, req, given, target, regVars, clientVars, member, sawEmpty>>

\* The map is walked in any order; the announcing id and what is past the last
\* offer are left out.
Others(s) == {p \in PeerId : p # req[s].id /\ swarms[req[s].hash][p] # None}

OffersLeft(s) == Cardinality(given[s]) < req[s].offers

OffersPick(s, p) ==
  /\ pc[s] = "offering" /\ target[s] = None
  /\ OffersLeft(s) /\ p \in Others(s) \ given[s]
  /\ target' = [target EXCEPT ![s] = p]
  /\ given' = [given EXCEPT ![s] = @ \cup {p}]
  /\ UNCHANGED <<pc, current, req, regVars, clientVars, member, sawEmpty>>

OffersSend(s) ==
  /\ pc[s] = "offering" /\ target[s] # None
  /\ SendReturns(swarms[req[s].hash][target[s]])
  /\ target' = [target EXCEPT ![s] = None]
  /\ UNCHANGED <<pc, current, req, given, regVars, clientVars, member, sawEmpty>>

AllServed_EveryOffer(s) == ~OffersLeft(s)                             \* mutant
AllServed(s) == ~OffersLeft(s) \/ Others(s) \subseteq given[s]

OffersUnlock(s) ==
  /\ pc[s] = "offering" /\ target[s] = None /\ AllServed(s)
  /\ Returns(s)
  /\ given' = [given EXCEPT ![s] = {}]
  /\ UNCHANGED <<current, target, regVars, clientVars, member, sawEmpty>>

-----------------------------------------------------------------------------
(* handleScrape and forwardSignal, each under the read lock *)

SwarmSize(h) == Cardinality({p \in PeerId : swarms[h][p] # None})

ScrapeLock(s) ==
  /\ pc[s] = "scrape" /\ CanRead
  /\ pc' = [pc EXCEPT ![s] = "scraping"]
  /\ sawEmpty' = [sawEmpty EXCEPT ![s] = SwarmSize(req[s].hash) = 0]
  /\ UNCHANGED <<current, req, given, target, regVars, clientVars, member>>

ScrapeReply(s) ==
  /\ pc[s] = "scraping" /\ SendReturns(s)
  /\ Returns(s)
  /\ sawEmpty' = [sawEmpty EXCEPT ![s] = FALSE]
  /\ UNCHANGED <<current, given, target, regVars, clientVars, member>>

SignalLock(s) ==
  LET h == req[s].hash
      found == swarms[h][req[s].to] # None IN
  /\ pc[s] = "signal" /\ CanRead
  /\ IF found THEN pc' = [pc EXCEPT ![s] = "signaling"] /\ UNCHANGED req ELSE Returns(s)
  /\ UNCHANGED <<current, given, target, regVars, clientVars, member, sawEmpty>>

SignalSend(s) ==
  /\ pc[s] = "signaling" /\ SendReturns(swarms[req[s].hash][req[s].to])
  /\ Returns(s)
  /\ UNCHANGED <<current, given, target, regVars, clientVars, member, sawEmpty>>

-----------------------------------------------------------------------------
(* removePeer, deferred: by peer_id, whatever session is registered there *)

SwarmsWithout_One(p) ==                                               \* mutant
  IF peers[p] = {} THEN swarms ELSE [swarms EXCEPT ![CHOOSE h \in peers[p] : TRUE][p] = None]
SwarmsWithout(p) ==
  [h \in Hash |-> IF h \in peers[p] THEN [swarms[h] EXCEPT ![p] = None] ELSE swarms[h]]

\* A swarm that loses its last peer is deleted.
KeysAfter(p, after) ==
  {h \in swarmKeys : h \in peers[p] => \E q \in PeerId : after[h][q] # None}

PeersWithout_Kept(p) == peers                                         \* mutant
PeersWithout(p) == [peers EXCEPT ![p] = {}]

RemovePeer(s) ==
  LET p == current[s] IN
  /\ pc[s] = "removing" /\ CanWrite
  /\ swarms' = SwarmsWithout(p)
  /\ swarmKeys' = KeysAfter(p, SwarmsWithout(p))
  /\ peers' = PeersWithout(p)
  /\ member' = [member EXCEPT ![s] = {}]
  /\ pc' = [pc EXCEPT ![s] = "done"]
  /\ UNCHANGED <<current, req, given, target, clientVars, sawEmpty>>

-----------------------------------------------------------------------------

Receive(s) ==
  \E id \in IdsOf[s] \cup {None} :
    \/ \E h \in Hash \cup {None}, n \in 0..MaxOffers : ReceiveAnnounce(s, id, h, n)
    \/ \E h \in Hash : ReceiveScrape(s, id, h)
    \/ \E h \in Hash, to \in PeerId : ReceiveSignal(s, id, h, to)

Client(s) == Connect(s) \/ Receive(s) \/ GoesAway(s) \/ Stalls(s)

Handler(s) ==
  \/ AnnounceUpdate(s) \/ OffersLock(s) \/ (\E p \in PeerId : OffersPick(s, p))
  \/ OffersUnlock(s) \/ ScrapeLock(s) \/ SignalLock(s) \/ HandlerEnds(s) \/ RemovePeer(s)
Sending(s) == AnnounceReply(s) \/ OffersSend(s) \/ ScrapeReply(s) \/ SignalSend(s)

Next == \E s \in Session : Client(s) \/ ReadsAgain(s) \/ Handler(s) \/ Sending(s)

Spec == Init /\ [][Next]_vars

\* Goroutines run; a client that stalls reads again some day, and each time it
\* reads, what was waiting to be written moves on.
FairSpec ==
  /\ Spec
  /\ \A s \in Session : WF_vars(Handler(s)) /\ WF_vars(ReadsAgain(s)) /\ SF_vars(Sending(s))

-----------------------------------------------------------------------------
(* Properties *)

\* The state is well typed and the two maps tell the same story, whatever
\* announces and disconnections overlap, and no swarm is kept empty: removePeer
\* finds what to delete in one map by walking the other.
IndexConsistent ==
  /\ TypeOK
  /\ \A h \in Hash, p \in PeerId : swarms[h][p] # None <=> h \in peers[p]
  /\ swarmKeys = {h \in Hash : \E p \in PeerId : swarms[h][p] # None}

\* A client that keeps to one peer_id per connection leaves nothing behind: no
\* registration leads to a connection whose handler has ended.
OneIdEach == \A s \in Session : \A p, q \in IdsOf[s] : p = q
NoGhosts ==
  OneIdEach =>
    \A h \in Hash, p \in PeerId :
      swarms[h][p] # None => pc[swarms[h][p]] \notin {"new", "done"}

\* The offers of one announce go to distinct peers other than the announcer, at
\* most one per offer, and to peers that are STILL in the swarm while the later
\* ones are being written: the read lock spans the whole distribution.
OffersToMembers ==
  \A s \in Session : pc[s] = "offering" =>
    /\ \A p \in given[s] : p # req[s].id /\ swarms[req[s].hash][p] # None
    /\ Cardinality(given[s]) <= req[s].offers
    /\ target[s] # None => target[s] \in given[s]

\* The promise of the tracker, SwarmRegistry: whoever ends is out of every swarm
\* it has joined under its peer_id, in one step and for good, although removePeer
\* walks the swarms of one map only, and takes nobody out whose peer_id it has
\* not named itself.
Registry == INSTANCE SwarmRegistry WITH
  members <- swarms, ended <- {s \in Session : pc[s] = "done"}
ImplementsSwarms == Registry!Spec

\* Once every client that stalls reads again, every announce is registered and
\* answered: neither the offers of other peers nor disconnections keep the
\* write lock away for ever.
AnnounceAnswered ==
  \A s \in Session : (pc[s] = "announce") ~> (pc[s] = "read" \/ pc[s] = "offers")

\* A scrape by a connected client counts the client itself once it has
\* announced, as the tracker's test expects of its scrape after an announce.
ScrapeCountsAnnounced ==
  \A s \in Session, h \in Hash :
    sawEmpty[s] /\ req[s].hash = h => \A p \in PeerId : <<h, p>> \notin member[s]
=============================================================================
