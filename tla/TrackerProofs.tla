--------------------------- MODULE TrackerProofs ---------------------------
(***************************************************************************)
(* What Tracker promises for any number of sessions, peers and hashes: the *)
(* typing invariant, the agreement of its two maps, the promise of         *)
(* SwarmRegistry, no registration left behind by a client that keeps to    *)
(* one peer_id per connection, and offers that go only to members of the   *)
(* swarm.                                                                  *)
(***************************************************************************)
EXTENDS Tracker, FiniteSetTheorems, TLAPS

\* What the goroutine of s knows of its request at each point.
Announcing(s) == pc[s] \in {"announce", "reply", "offers", "offering"}
Asking(s) == pc[s] \in {"scrape", "scraping", "signal", "signaling"}
RequestShape ==
  \A s \in Session :
    /\ current[s] \in IdsOf[s] \cup {None}
    /\ Announcing(s) => /\ req[s].hash \in Hash
                        /\ req[s].id \in IdsOf[s]
                        /\ req[s].id = current[s]
    /\ Asking(s) => req[s].hash \in Hash
    /\ pc[s] = "removing" => current[s] # None

Typing == TypeOK /\ RequestShape

LEMMA InitTyping == Init => Typing
  BY TrackerAssumption
  DEF Init, Typing, TypeOK, RequestShape, Announcing, Asking, Request, RequestOf, NoRequest,
      Place

LEMMA TypeStep == Typing /\ [Next]_vars => TypeOK'
<1> SUFFICES ASSUME Typing, [Next]_vars PROVE TypeOK'
  OBVIOUS
<1> USE TrackerAssumption DEF TypeOK, regVars, clientVars, Returns
<1>0. /\ NoRequest \in Request /\ TypeOK /\ RequestShape
      /\ 0 \in 0..MaxOffers
      /\ {"read", "announce", "reply", "offers", "offering", "scrape", "scraping", "signal",
           "signaling", "removing", "done"} \subseteq Place
  BY DEF Request, NoRequest, RequestOf, Typing, Place
<1>1. ASSUME NEW s \in Session, Connect(s) \/ GoesAway(s) \/ Stalls(s) \/ ReadsAgain(s)
      PROVE  TypeOK'
  <2>1. CASE Connect(s)     BY <1>0, <2>1 DEF Connect
  <2>2. CASE GoesAway(s)    BY <1>0, <2>2 DEF GoesAway
  <2>3. CASE Stalls(s)      BY <1>0, <2>3 DEF Stalls
  <2>4. CASE ReadsAgain(s)  BY <1>0, <2>4 DEF ReadsAgain
  <2> QED BY <1>1, <2>1, <2>2, <2>3, <2>4
<1>2. ASSUME NEW s \in Session, Receive(s)
      PROVE  TypeOK'
  <2>0. PICK id \in IdsOf[s] \cup {None} :
           \/ \E h \in Hash \cup {None}, n \in 0..MaxOffers : ReceiveAnnounce(s, id, h, n)
           \/ \E h \in Hash : ReceiveScrape(s, id, h)
           \/ \E h \in Hash, to \in PeerId : ReceiveSignal(s, id, h, to)
    BY <1>2 DEF Receive
  <2>1. id \in PeerId \cup {None} /\ Named(s, id) \in PeerId \cup {None}
    BY <1>0 DEF Named
  <2>2. \A h \in Hash \cup {None}, n \in 0..MaxOffers, to \in PeerId \cup {None} :
          RequestOf(id, h, n, to) \in Request
    BY <2>1 DEF Request, RequestOf
  <2>3. ASSUME NEW h \in Hash \cup {None}, NEW n \in 0..MaxOffers, ReceiveAnnounce(s, id, h, n)
        PROVE  TypeOK'
    <3>1. CASE id = None \/ h = None
      BY <1>0, <2>1, <2>3, <3>1 DEF ReceiveAnnounce
    <3>2. CASE ~(id = None \/ h = None)
      <4>1. /\ current' = [current EXCEPT ![s] = Named(s, id)]
            /\ pc' = [pc EXCEPT ![s] = "announce"]
            /\ req' = [req EXCEPT ![s] = RequestOf(id, h, n, None)]
            /\ UNCHANGED <<given, target, regVars, clientVars, member, sawEmpty>>
        BY <2>3, <3>2 DEF ReceiveAnnounce
      <4>2. RequestOf(id, h, n, None) \in Request
        BY <2>2
      <4> QED BY <1>0, <2>1, <4>1, <4>2
    <3> QED BY <3>1, <3>2
  <2>4. ASSUME NEW h \in Hash, ReceiveScrape(s, id, h)
        PROVE  TypeOK'
    BY <1>0, <2>1, <2>2, <2>4 DEF ReceiveScrape
  <2>5. ASSUME NEW h \in Hash, NEW to \in PeerId, ReceiveSignal(s, id, h, to)
        PROVE  TypeOK'
    BY <1>0, <2>1, <2>2, <2>5 DEF ReceiveSignal
  <2> QED BY <2>0, <2>3, <2>4, <2>5
<1>3. ASSUME NEW s \in Session, AnnounceUpdate(s)
      PROVE  TypeOK'
  <2>1. req[s].hash \in Hash /\ req[s].id \in PeerId
    BY <1>0, <1>3 DEF AnnounceUpdate, RequestShape, Announcing
  <2> QED BY <1>0, <1>3, <2>1 DEF AnnounceUpdate
<1>4. ASSUME NEW s \in Session, AnnounceReply(s)
      PROVE  TypeOK'
  BY <1>0, <1>4 DEF AnnounceReply
<1>5. ASSUME NEW s \in Session, OffersLock(s) \/ OffersSend(s) \/ OffersUnlock(s)
      PROVE  TypeOK'
  <2>1. CASE OffersLock(s)    BY <1>0, <2>1 DEF OffersLock
  <2>2. CASE OffersSend(s)    BY <1>0, <2>2 DEF OffersSend
  <2>3. CASE OffersUnlock(s)  BY <1>0, <2>3 DEF OffersUnlock
  <2> QED BY <1>5, <2>1, <2>2, <2>3
<1>6. ASSUME NEW s \in Session, NEW p \in PeerId, OffersPick(s, p)
      PROVE  TypeOK'
  BY <1>0, <1>6 DEF OffersPick
<1>7. ASSUME NEW s \in Session, ScrapeLock(s) \/ ScrapeReply(s)
      PROVE  TypeOK'
  <2>1. CASE ScrapeLock(s)   BY <1>0, <2>1 DEF ScrapeLock
  <2>2. CASE ScrapeReply(s)  BY <1>0, <2>2 DEF ScrapeReply
  <2> QED BY <1>7, <2>1, <2>2
<1>8. ASSUME NEW s \in Session, SignalLock(s) \/ SignalSend(s)
      PROVE  TypeOK'
  <2>1. /\ \/ pc' = [pc EXCEPT ![s] = "read"] /\ req' = [req EXCEPT ![s] = NoRequest]
           \/ pc' = [pc EXCEPT ![s] = "signaling"] /\ req' = req
        /\ UNCHANGED <<current, given, target, regVars, clientVars, member, sawEmpty>>
    BY <1>8 DEF SignalLock, SignalSend
  <2>2. pc' \in [Session -> Place] /\ req' \in [Session -> Request]
    <3>1. CASE pc' = [pc EXCEPT ![s] = "read"] /\ req' = [req EXCEPT ![s] = NoRequest]
      BY <1>0, <3>1
    <3>2. CASE pc' = [pc EXCEPT ![s] = "signaling"] /\ req' = req
      BY <1>0, <3>2
    <3> QED BY <2>1, <3>1, <3>2
  <2> QED BY <1>0, <2>1, <2>2
<1>9. ASSUME NEW s \in Session, HandlerEnds(s)
      PROVE  TypeOK'
  BY <1>0, <1>9 DEF HandlerEnds
<1>10. ASSUME NEW s \in Session, RemovePeer(s)
       PROVE  TypeOK'
  BY <1>0, <1>10 DEF RemovePeer, SwarmsWithout, KeysAfter, PeersWithout
<1>11. CASE UNCHANGED vars
  BY <1>0, <1>11 DEF vars
<1> QED
  BY <1>1, <1>2, <1>3, <1>4, <1>5, <1>6, <1>7, <1>8, <1>9, <1>10, <1>11
  DEF Next, Client, Handler, Sending

LEMMA ShapeStep == Typing /\ [Next]_vars => RequestShape'
<1> SUFFICES ASSUME Typing, [Next]_vars PROVE RequestShape'
  OBVIOUS
<1> USE TrackerAssumption DEF RequestShape, Announcing, Asking
<1>0. /\ pc \in [Session -> Place] /\ current \in [Session -> PeerId \cup {None}]
      /\ req \in [Session -> Request] /\ RequestShape
  BY DEF Typing, TypeOK
<1>1. ASSUME NEW s \in Session, Receive(s)
      PROVE  RequestShape'
  <2>0. PICK id \in IdsOf[s] \cup {None} :
           \/ \E h \in Hash \cup {None}, n \in 0..MaxOffers : ReceiveAnnounce(s, id, h, n)
           \/ \E h \in Hash : ReceiveScrape(s, id, h)
           \/ \E h \in Hash, to \in PeerId : ReceiveSignal(s, id, h, to)
    BY <1>1 DEF Receive
  <2>1. Named(s, id) \in IdsOf[s] \cup {None} /\ (id # None => Named(s, id) = id)
    BY <1>0 DEF Named
  <2>2. ASSUME NEW h \in Hash \cup {None}, NEW n \in 0..MaxOffers, ReceiveAnnounce(s, id, h, n)
        PROVE  RequestShape'
    BY <1>0, <2>1, <2>2 DEF ReceiveAnnounce, RequestOf
  <2>3. ASSUME NEW h \in Hash, ReceiveScrape(s, id, h)
        PROVE  RequestShape'
    BY <1>0, <2>1, <2>3 DEF ReceiveScrape, RequestOf
  <2>4. ASSUME NEW h \in Hash, NEW to \in PeerId, ReceiveSignal(s, id, h, to)
        PROVE  RequestShape'
    BY <1>0, <2>1, <2>4 DEF ReceiveSignal, RequestOf
  <2> QED BY <2>0, <2>2, <2>3, <2>4
<1>2. ASSUME NEW s \in Session, Connect(s) \/ HandlerEnds(s)
      PROVE  RequestShape'
  BY <1>0, <1>2 DEF Connect, HandlerEnds
<1>3. ASSUME NEW s \in Session,
             AnnounceReply(s) \/ OffersUnlock(s) \/ ScrapeReply(s) \/ SignalLock(s) \/ SignalSend(s)
      PROVE  RequestShape'
  <2>1. /\ current' = current
        /\ \/ Returns(s)
           \/ AnnounceReply(s) /\ pc' = [pc EXCEPT ![s] = "offers"] /\ req' = req
           \/ SignalLock(s) /\ pc' = [pc EXCEPT ![s] = "signaling"] /\ req' = req
    BY <1>3 DEF AnnounceReply, OffersUnlock, ScrapeReply, SignalLock, SignalSend
  <2>2. CASE Returns(s)
    BY <1>0, <2>1, <2>2 DEF Returns
  <2>3. CASE AnnounceReply(s) /\ pc' = [pc EXCEPT ![s] = "offers"] /\ req' = req
    BY <1>0, <2>1, <2>3 DEF AnnounceReply
  <2>4. CASE SignalLock(s) /\ pc' = [pc EXCEPT ![s] = "signaling"] /\ req' = req
    BY <1>0, <2>1, <2>4 DEF SignalLock
  <2> QED BY <2>1, <2>2, <2>3, <2>4
<1>4. ASSUME NEW s \in Session, AnnounceUpdate(s) \/ OffersLock(s) \/ ScrapeLock(s) \/ RemovePeer(s)
      PROVE  RequestShape'
  BY <1>0, <1>4 DEF AnnounceUpdate, OffersLock, ScrapeLock, RemovePeer
<1>5. ASSUME UNCHANGED <<pc, current, req>>
      PROVE  RequestShape'
  BY <1>0, <1>5
<1>6. ASSUME NEW s \in Session, GoesAway(s) \/ Stalls(s) \/ ReadsAgain(s) \/ OffersSend(s)
      PROVE  UNCHANGED <<pc, current, req>>
  BY <1>6 DEF GoesAway, Stalls, ReadsAgain, OffersSend
<1>7. ASSUME NEW s \in Session, NEW p \in PeerId, OffersPick(s, p)
      PROVE  UNCHANGED <<pc, current, req>>
  BY <1>7 DEF OffersPick
<1>8. CASE UNCHANGED vars
  BY <1>5, <1>8 DEF vars
<1> QED
  BY <1>1, <1>2, <1>3, <1>4, <1>5, <1>6, <1>7, <1>8 DEF Next, Client, Handler, Sending

LEMMA TypingStep == Typing /\ [Next]_vars => Typing'
  BY TypeStep, ShapeStep DEF Typing

(* Typing: every handler keeps the tracker's maps, and its own locals,     *)
(* within their types, and knows its request where it uses it.             *)
THEOREM TypeCorrect == Spec => []TypeOK
<1>1. Typing => TypeOK
  BY DEF Typing
<1> QED
  BY InitTyping, TypingStep, <1>1, PTL DEF Spec

LEMMA TypingAlways == Spec => []Typing
  BY InitTyping, TypingStep, PTL DEF Spec

-----------------------------------------------------------------------------

LEMMA InitIndex == Init => IndexConsistent
<1>1. Init => TypeOK
  BY InitTyping DEF Typing
<1> QED
  BY <1>1, TrackerAssumption DEF Init, IndexConsistent

LEMMA IndexStep == Typing /\ IndexConsistent /\ [Next]_vars => IndexConsistent'
<1> DEFINE MapsAgree ==
             /\ \A h \in Hash, p \in PeerId : swarms[h][p] # None <=> h \in peers[p]
             /\ swarmKeys = {h \in Hash : \E p \in PeerId : swarms[h][p] # None}
<1> SUFFICES ASSUME Typing, MapsAgree, [Next]_vars PROVE MapsAgree'
  BY TypingStep DEF Typing, IndexConsistent
<1> USE TrackerAssumption DEF Typing, TypeOK
<1>1. ASSUME NEW s \in Session, AnnounceUpdate(s)
      PROVE  MapsAgree'
  <2>1. req[s].hash \in Hash /\ req[s].id \in PeerId
    BY <1>1 DEF AnnounceUpdate, RequestShape, Announcing
  <2> DEFINE h0 == req[s].hash
             p0 == req[s].id
  <2>2. /\ swarms' = [swarms EXCEPT ![h0][p0] = s]
        /\ swarmKeys' = swarmKeys \cup {h0}
        /\ peers' = [peers EXCEPT ![p0] = @ \cup {h0}]
    BY <1>1 DEF AnnounceUpdate
  <2>3. \A h \in Hash, p \in PeerId :
          /\ swarms'[h][p] = IF h = h0 /\ p = p0 THEN s ELSE swarms[h][p]
          /\ h \in peers'[p] <=> (h \in peers[p] \/ (h = h0 /\ p = p0))
    BY <2>1, <2>2
  <2> HIDE DEF h0, p0
  <2>4. ASSUME NEW h \in Hash, NEW p \in PeerId
        PROVE  swarms'[h][p] # None <=> h \in peers'[p]
    BY <2>3
  <2>5. swarmKeys' = {h \in Hash : \E p \in PeerId : swarms'[h][p] # None}
    BY <2>1, <2>2, <2>3 DEF h0, p0
  <2> QED BY <2>4, <2>5
<1>2. ASSUME NEW s \in Session, RemovePeer(s)
      PROVE  MapsAgree'
  <2> DEFINE p0 == current[s]
  <2>1. p0 \in PeerId
    BY <1>2 DEF RemovePeer, RequestShape
  <2>2. /\ swarms' = SwarmsWithout(p0)
        /\ swarmKeys' = KeysAfter(p0, SwarmsWithout(p0))
        /\ peers' = PeersWithout(p0)
    BY <1>2 DEF RemovePeer
  <2> HIDE DEF p0
  <2>3. \A h \in Hash, p \in PeerId :
          /\ swarms'[h][p] = IF p = p0 THEN None ELSE swarms[h][p]
          /\ h \in peers'[p] <=> (h \in peers[p] /\ p # p0)
    BY <2>1, <2>2 DEF SwarmsWithout, PeersWithout
  <2>4. ASSUME NEW h \in Hash, NEW p \in PeerId
        PROVE  swarms'[h][p] # None <=> h \in peers'[p]
    BY <2>3
  <2>5. swarmKeys' = {h \in swarmKeys : h \in peers[p0] => \E q \in PeerId : swarms'[h][q] # None}
    BY <2>2 DEF KeysAfter
  <2>6. swarmKeys' = {h \in Hash : \E p \in PeerId : swarms'[h][p] # None}
    BY <2>1, <2>3, <2>5
  <2> QED BY <2>4, <2>6
<1>3. ASSUME UNCHANGED regVars
      PROVE  MapsAgree'
  BY <1>3 DEF regVars
<1>4. ASSUME NEW s \in Session, Client(s) \/ ReadsAgain(s) \/ Sending(s)
      PROVE  UNCHANGED regVars
  BY <1>4 DEF Client, Connect, Receive, ReceiveAnnounce, ReceiveScrape, ReceiveSignal, GoesAway,
     Stalls, ReadsAgain, Sending, AnnounceReply, OffersSend, ScrapeReply, SignalSend, regVars
<1>5. ASSUME NEW s \in Session, Handler(s), ~AnnounceUpdate(s), ~RemovePeer(s)
      PROVE  UNCHANGED regVars
  BY <1>5 DEF Handler, OffersLock, OffersPick, OffersUnlock, ScrapeLock, SignalLock,
     HandlerEnds, regVars
<1>6. CASE UNCHANGED vars
  BY <1>6, <1>3 DEF vars
<1> QED
  BY <1>1, <1>2, <1>3, <1>4, <1>5, <1>6 DEF Next

(* Typing apart, the two maps agree and no swarm is kept empty, for any number of        *)
(* connections announcing and leaving at the same time.                    *)
THEOREM IndexesAgree == Spec => []IndexConsistent
  BY TypingAlways, InitIndex, IndexStep, PTL DEF Spec

-----------------------------------------------------------------------------

LEMMA InitImplements == Init => Registry!Init
  BY DEF Init, Registry!Init

LEMMA StepImplements ==
  Typing /\ IndexConsistent /\ [Next]_vars => [Registry!Next]_(Registry!registry)
<1> SUFFICES ASSUME Typing, IndexConsistent, [Next]_vars
             PROVE  Registry!Next \/ UNCHANGED Registry!registry
  OBVIOUS
<1> DEFINE Ended == {s \in Session : pc[s] = "done"}
<1>0. /\ pc \in [Session -> Place]
      /\ swarms \in [Hash -> [PeerId -> Session \cup {None}]]
      /\ peers \in [PeerId -> SUBSET Hash] /\ RequestShape
  BY DEF Typing, TypeOK
<1>1. ASSUME NEW s \in Session, AnnounceUpdate(s)
      PROVE  Registry!Next
  <2>1. PICK h \in Hash, p \in IdsOf[s] : h = req[s].hash /\ p = req[s].id
    BY <1>1 DEF AnnounceUpdate, Typing, RequestShape, Announcing
  <2>2. /\ swarms' = [swarms EXCEPT ![h][p] = s]
        /\ pc[s] = "announce" /\ pc' = [pc EXCEPT ![s] = "reply"]
    BY <1>1, <2>1 DEF AnnounceUpdate
  <2>3. s \notin Ended /\ Ended' = Ended
    BY <1>0, <2>2
  <2>4. Registry!Join(s, h, p)
    BY <2>2, <2>3 DEF Registry!Join
  <2> QED BY <2>4 DEF Registry!Next
<1>2. ASSUME NEW s \in Session, RemovePeer(s)
      PROVE  Registry!Next
  <2>0. PICK p \in IdsOf[s] : p = current[s]
    BY <1>2 DEF RemovePeer, Typing, RequestShape
  <2>1. p \in PeerId
    BY TrackerAssumption
  <2>2. /\ swarms' = SwarmsWithout(p)
        /\ pc[s] = "removing" /\ pc' = [pc EXCEPT ![s] = "done"]
    BY <1>2, <2>0 DEF RemovePeer
  <2>3. ASSUME NEW h \in Hash, h \notin peers[p]
        PROVE  swarms[h] = [swarms[h] EXCEPT ![p] = None]
    <3>1. swarms[h][p] = None
      BY <2>1, <2>3 DEF IndexConsistent
    <3> QED BY <1>0, <3>1
  <2>4. swarms' = [h \in Hash |-> [swarms[h] EXCEPT ![p] = None]]
    BY <2>2, <2>3 DEF SwarmsWithout
  <2>5. s \notin Ended /\ Ended' = Ended \cup {s}
    BY <1>0, <2>2
  <2>6. Registry!LeaveAs(s, p)
    BY <2>4, <2>5 DEF Registry!LeaveAs
  <2> QED BY <2>6 DEF Registry!Next
<1>3. ASSUME NEW s \in Session, HandlerEnds(s)
      PROVE  Registry!Next \/ UNCHANGED Registry!registry
  <2>1. swarms' = swarms /\ pc[s] = "read"
    BY <1>3 DEF HandlerEnds, regVars
  <2>2. CASE pc' = [pc EXCEPT ![s] = "done"]
    <3>1. s \notin Ended /\ Ended' = Ended \cup {s}
      BY <1>0, <2>1, <2>2
    <3> QED BY <2>1, <3>1 DEF Registry!Next, Registry!LeaveUnnamed
  <2>3. CASE pc' = [pc EXCEPT ![s] = "removing"]
    <3>1. Ended' = Ended
      BY <1>0, <2>1, <2>3
    <3> QED BY <2>1, <3>1 DEF Registry!registry
  <2> QED BY <1>3, <2>2, <2>3 DEF HandlerEnds
<1>4. ASSUME swarms' = swarms,
             \/ pc' = pc
             \/ \E s \in Session, q \in Place \ {"done"} :
                  pc[s] # "done" /\ pc' = [pc EXCEPT ![s] = q]
      PROVE  UNCHANGED Registry!registry
  <2>1. Ended' = Ended
    BY <1>0, <1>4
  <2> QED BY <1>4, <2>1 DEF Registry!registry
<1>5. ASSUME NEW s \in Session, Client(s) \/ ReadsAgain(s)
      PROVE  UNCHANGED Registry!registry
  <2>1. /\ swarms' = swarms
        /\ \/ pc' = pc
           \/ /\ pc[s] \in {"new", "read"}
              /\ \E q \in {"read", "announce", "scrape", "signal"} : pc' = [pc EXCEPT ![s] = q]
    BY <1>5 DEF Client, Connect, Receive, ReceiveAnnounce, ReceiveScrape, ReceiveSignal,
       GoesAway, Stalls, ReadsAgain, regVars
  <2> QED BY <1>4, <2>1 DEF Place
<1>6. ASSUME NEW s \in Session,
             \/ OffersLock(s) \/ OffersUnlock(s) \/ ScrapeLock(s) \/ SignalLock(s) \/ Sending(s)
             \/ \E q \in PeerId : OffersPick(s, q)
      PROVE  UNCHANGED Registry!registry
  <2>1. /\ swarms' = swarms
        /\ \/ pc' = pc
           \/ /\ pc[s] # "done"
              /\ \E q \in {"read", "offers", "offering", "scraping", "signaling"} :
                   pc' = [pc EXCEPT ![s] = q]
    BY <1>6 DEF OffersLock, OffersUnlock, OffersPick, ScrapeLock, SignalLock, Sending,
       AnnounceReply, OffersSend, ScrapeReply, SignalSend, Returns, regVars
  <2> QED BY <1>4, <2>1 DEF Place
<1>7. CASE UNCHANGED vars
  BY <1>4, <1>7 DEF vars, regVars
<1> QED
  BY <1>1, <1>2, <1>3, <1>5, <1>6, <1>7 DEF Next, Handler

(* The tracker keeps the promise of SwarmRegistry: AnnounceUpdate joins,   *)
(* RemovePeer leaves every swarm at once although it walks the swarms of   *)
(* peers[p] only, which is where IndexConsistent is needed, and everything *)
(* else is a stutter.                                                      *)
THEOREM Implements == Spec => ImplementsSwarms
  BY TypingAlways, IndexesAgree, InitImplements, StepImplements, PTL
  DEF Spec, Registry!Spec, ImplementsSwarms

-----------------------------------------------------------------------------

\* A registered session is alive and is known by the peer_id it is under.
Registered ==
  OneIdEach =>
    \A h \in Hash, p \in PeerId :
      swarms[h][p] # None => /\ pc[swarms[h][p]] \notin {"new", "done"}
                             /\ current[swarms[h][p]] = p

LEMMA InitRegistered == Init => Registered
  BY TrackerAssumption DEF Init, Registered

LEMMA RegisteredStep == Typing /\ IndexConsistent /\ Registered /\ [Next]_vars => Registered'
<1> SUFFICES ASSUME Typing, IndexConsistent, Registered, OneIdEach, [Next]_vars,
                    NEW h \in Hash, NEW p \in PeerId, swarms'[h][p] # None
             PROVE  /\ pc'[swarms'[h][p]] \notin {"new", "done"}
                    /\ current'[swarms'[h][p]] = p
  BY DEF Registered, OneIdEach
<1> DEFINE Goal == /\ pc'[swarms'[h][p]] \notin {"new", "done"}
                   /\ current'[swarms'[h][p]] = p
           t == swarms[h][p]
<1>0. /\ pc \in [Session -> Place] /\ current \in [Session -> PeerId \cup {None}]
      /\ swarms \in [Hash -> [PeerId -> Session \cup {None}]]
      /\ peers \in [PeerId -> SUBSET Hash]
      /\ t # None => t \in Session /\ pc[t] \notin {"new", "done"} /\ current[t] = p
  BY DEF Typing, TypeOK, Registered
<1>1. ASSUME NEW s \in Session, Receive(s)
      PROVE  Goal
  <2>1. PICK id \in IdsOf[s] \cup {None} :
           /\ current' = [current EXCEPT ![s] = Named(s, id)]
           /\ UNCHANGED swarms
           /\ \/ pc' = pc
              \/ \E q \in {"announce", "scrape", "signal"} : pc' = [pc EXCEPT ![s] = q]
    BY <1>1 DEF Receive, ReceiveAnnounce, ReceiveScrape, ReceiveSignal, regVars
  <2>2. current[s] # None => Named(s, id) = current[s]
    BY TrackerAssumption DEF Named, OneIdEach, Typing, RequestShape
  <2> QED BY <1>0, <2>1, <2>2, TrackerAssumption
<1>2. ASSUME NEW s \in Session, AnnounceUpdate(s)
      PROVE  Goal
  <2>1. req[s].hash \in Hash /\ req[s].id \in PeerId /\ req[s].id = current[s]
    BY <1>2, TrackerAssumption DEF AnnounceUpdate, Typing, RequestShape, Announcing
  <2>2. swarms'[h][p] = IF h = req[s].hash /\ p = req[s].id THEN s ELSE t
    BY <1>0, <1>2, <2>1 DEF AnnounceUpdate
  <2>3. pc' = [pc EXCEPT ![s] = "reply"] /\ current' = current
    BY <1>2 DEF AnnounceUpdate
  <2> QED BY <1>0, <2>1, <2>2, <2>3
<1>3. ASSUME NEW s \in Session, RemovePeer(s)
      PROVE  Goal
  <2>1. current[s] \in PeerId
    BY <1>3 DEF RemovePeer, Typing, TypeOK, RequestShape
  <2>2. swarms'[h][p] = IF p = current[s] THEN None ELSE t
    BY <1>0, <1>3, <2>1 DEF RemovePeer, SwarmsWithout, IndexConsistent
  <2>3. t # s
    BY <1>0, <2>2
  <2>4. pc' = [pc EXCEPT ![s] = "done"] /\ current' = current
    BY <1>3 DEF RemovePeer
  <2> QED BY <1>0, <2>2, <2>3, <2>4
<1>4. ASSUME UNCHANGED <<swarms, current>>,
             \/ pc' = pc
             \/ \E s \in Session, q \in Place \ {"new", "done"} : pc' = [pc EXCEPT ![s] = q]
             \/ \E s \in Session : current[s] = None /\ pc' = [pc EXCEPT ![s] = "done"]
      PROVE  Goal
  BY <1>0, <1>4, TrackerAssumption
<1>5. ASSUME NEW s \in Session, HandlerEnds(s)
      PROVE  Goal
  BY <1>4, <1>5 DEF HandlerEnds, regVars, Place
<1>6. ASSUME NEW s \in Session, Connect(s) \/ GoesAway(s) \/ Stalls(s) \/ ReadsAgain(s)
      PROVE  Goal
  BY <1>4, <1>6 DEF Connect, GoesAway, Stalls, ReadsAgain, regVars, Place
<1>7. ASSUME NEW s \in Session,
             \/ OffersLock(s) \/ OffersUnlock(s) \/ ScrapeLock(s) \/ SignalLock(s) \/ Sending(s)
             \/ \E q \in PeerId : OffersPick(s, q)
      PROVE  Goal
  <2>1. /\ UNCHANGED <<swarms, current>>
        /\ \/ pc' = pc
           \/ \E q \in {"read", "offers", "offering", "scraping", "signaling"} :
                pc' = [pc EXCEPT ![s] = q]
    BY <1>7 DEF OffersLock, OffersUnlock, OffersPick, ScrapeLock, SignalLock, Sending,
       AnnounceReply, OffersSend, ScrapeReply, SignalSend, Returns, regVars
  <2> QED BY <1>4, <2>1 DEF Place
<1>8. CASE UNCHANGED vars
  BY <1>4, <1>8 DEF vars, regVars
<1> QED
  BY <1>1, <1>2, <1>3, <1>5, <1>6, <1>7, <1>8 DEF Next, Client, Handler

(* Whoever keeps to one peer_id per connection leaves no registration      *)
(* behind: removePeer, which knows the last peer_id only, is then enough.  *)
THEOREM GhostFree == Spec => []NoGhosts
<1>1. Typing /\ Registered => NoGhosts
  BY DEF Registered, NoGhosts
<1> QED
  BY TypingAlways, IndexesAgree, InitRegistered, RegisteredStep, <1>1, PTL DEF Spec

-----------------------------------------------------------------------------

\* A distribution in progress: what has been given so far is in the swarm.
Distribution ==
  \A s \in Session :
    /\ IsFiniteSet(given[s])
    /\ pc[s] # "offering" => given[s] = {} /\ target[s] = None
    /\ pc[s] = "offering" =>
         /\ \A p \in given[s] : p # req[s].id /\ swarms[req[s].hash][p] # None
         /\ Cardinality(given[s]) <= req[s].offers
         /\ target[s] # None => target[s] \in given[s]

LEMMA InitDistribution == Init => Distribution
  BY FS_EmptySet DEF Init, Distribution

LEMMA DistributionStep == Typing /\ Distribution /\ [Next]_vars => Distribution'
<1> SUFFICES ASSUME Typing, Distribution, [Next]_vars PROVE Distribution'
  OBVIOUS
<1>0. /\ pc \in [Session -> Place] /\ given \in [Session -> SUBSET PeerId]
      /\ target \in [Session -> PeerId \cup {None}] /\ req \in [Session -> Request]
      /\ Distribution
      /\ \A s \in Session : req[s].offers \in Nat
  BY TrackerAssumption DEF Typing, TypeOK, Request
<1> USE DEF Distribution
<1>1. ASSUME NEW s \in Session, AnnounceUpdate(s) \/ RemovePeer(s)
      PROVE  Distribution'
  <2>1. \A t \in Session : pc[t] # "offering"
    BY <1>1 DEF AnnounceUpdate, RemovePeer, CanWrite, Reading
  <2>2. /\ UNCHANGED <<given, target, req>>
        /\ pc' = [pc EXCEPT ![s] = "reply"] \/ pc' = [pc EXCEPT ![s] = "done"]
    BY <1>1 DEF AnnounceUpdate, RemovePeer
  <2> QED BY <1>0, <2>1, <2>2
<1>2. ASSUME NEW s \in Session, OffersLock(s)
      PROVE  Distribution'
  <2>1. /\ UNCHANGED <<given, target, req, swarms>>
        /\ pc[s] = "offers" /\ pc' = [pc EXCEPT ![s] = "offering"]
    BY <1>2 DEF OffersLock, regVars
  <2> QED BY <1>0, <2>1, FS_EmptySet
<1>3. ASSUME NEW s \in Session, NEW p \in PeerId, OffersPick(s, p)
      PROVE  Distribution'
  <2>1. /\ UNCHANGED <<pc, req, swarms>>
        /\ target' = [target EXCEPT ![s] = p]
        /\ given' = [given EXCEPT ![s] = @ \cup {p}]
        /\ pc[s] = "offering" /\ Cardinality(given[s]) < req[s].offers
        /\ p # req[s].id /\ swarms[req[s].hash][p] # None
    BY <1>3 DEF OffersPick, OffersLeft, Others, regVars
  <2>2. /\ IsFiniteSet(given[s] \cup {p})
        /\ Cardinality(given[s] \cup {p}) <= Cardinality(given[s]) + 1
        /\ Cardinality(given[s]) \in Nat /\ Cardinality(given[s] \cup {p}) \in Nat
    <3>1. IsFiniteSet(given[s])
      BY <1>0
    <3> DEFINE G == given[s]
    <3>2. /\ IsFiniteSet(G \cup {p})
          /\ Cardinality(G \cup {p}) = IF p \in G THEN Cardinality(G) ELSE Cardinality(G) + 1
      BY <3>1, FS_AddElement
    <3>3. Cardinality(G) \in Nat
      BY <3>1, FS_CardinalityType
    <3> QED BY <3>2, <3>3
  <2>3. Cardinality(given[s] \cup {p}) <= req[s].offers
    BY <1>0, <2>1, <2>2
  <2> QED BY <1>0, <2>1, <2>2, <2>3
<1>4. ASSUME NEW s \in Session, OffersSend(s)
      PROVE  Distribution'
  <2>1. /\ UNCHANGED <<pc, req, swarms, given>>
        /\ target' = [target EXCEPT ![s] = None]
    BY <1>4 DEF OffersSend, regVars
  <2> QED BY <1>0, <2>1
<1>5. ASSUME NEW s \in Session, OffersUnlock(s)
      PROVE  Distribution'
  <2>1. /\ UNCHANGED <<swarms, target>> /\ target[s] = None
        /\ given' = [given EXCEPT ![s] = {}]
        /\ pc' = [pc EXCEPT ![s] = "read"] /\ req' = [req EXCEPT ![s] = NoRequest]
    BY <1>5 DEF OffersUnlock, Returns, regVars
  <2> QED BY <1>0, <2>1, FS_EmptySet
<1>6. ASSUME UNCHANGED <<pc, req, given, target, swarms>>
      PROVE  Distribution'
  BY <1>0, <1>6
<1>8. ASSUME NEW s \in Session, Receive(s)
      PROVE  Distribution'
  <2>1. /\ UNCHANGED <<given, target, swarms>> /\ pc[s] = "read"
        /\ \/ UNCHANGED <<pc, req>>
           \/ pc' = [pc EXCEPT ![s] = "announce"] \/ pc' = [pc EXCEPT ![s] = "scrape"]
           \/ pc' = [pc EXCEPT ![s] = "signal"]
        /\ \A t \in Session \ {s} : req'[t] = req[t]
    BY <1>0, <1>8 DEF Receive, ReceiveAnnounce, ReceiveScrape, ReceiveSignal, regVars
  <2> QED BY <1>0, <2>1
<1>9. ASSUME NEW s \in Session, HandlerEnds(s) \/ Connect(s) \/ ScrapeLock(s)
      PROVE  Distribution'
  <2>1. /\ UNCHANGED <<given, target, swarms, req>> /\ pc[s] # "offering"
        /\ \E q \in {"read", "removing", "done", "scraping"} : pc' = [pc EXCEPT ![s] = q]
    BY <1>9 DEF HandlerEnds, Connect, ScrapeLock, regVars
  <2> QED BY <1>0, <2>1
<1>10. ASSUME NEW s \in Session,
              AnnounceReply(s) \/ ScrapeReply(s) \/ SignalLock(s) \/ SignalSend(s)
       PROVE  Distribution'
  <2>1. /\ UNCHANGED <<given, target, swarms>> /\ pc[s] # "offering"
        /\ \E q \in {"read", "offers", "signaling"} : pc' = [pc EXCEPT ![s] = q]
        /\ req' = req \/ req' = [req EXCEPT ![s] = NoRequest]
    BY <1>10 DEF AnnounceReply, ScrapeReply, SignalLock, SignalSend, Returns, regVars
  <2> QED BY <1>0, <2>1
<1>11. ASSUME NEW s \in Session, GoesAway(s) \/ Stalls(s) \/ ReadsAgain(s)
       PROVE  Distribution'
  BY <1>6, <1>11 DEF GoesAway, Stalls, ReadsAgain, regVars
<1>12. CASE UNCHANGED vars
  BY <1>6, <1>12 DEF vars, regVars
<1> QED
  BY <1>1, <1>2, <1>3, <1>4, <1>5, <1>8, <1>9, <1>10, <1>11, <1>12
  DEF Next, Client, Handler, Sending

(* The read lock does its work: whatever announces and disconnections wait *)
(* meanwhile, the offers of an announce reach members of the swarm only.   *)
THEOREM OffersReachMembers == Spec => []OffersToMembers
<1>1. Distribution => OffersToMembers
  BY DEF Distribution, OffersToMembers
<1> QED
  BY TypingAlways, InitDistribution, DistributionStep, <1>1, PTL DEF Spec
=============================================================================
