--------------------------- MODULE RingRelayProofs ---------------------------
(***************************************************************************)
(* Theorems about RingRelay, for any number of connections, ports and      *)
(* addresses: the active lists, the routes and whom a reply reaches.  And  *)
(* about RingPorts, for any width of a port number and any two bounds: the *)
(* ring that is built, and when none is.                                   *)
(***************************************************************************)
EXTENDS RingRelay, SequenceTheorems, TLAPS

(* Active lists *)

\* Where nothing is there twice, the first place of an element is its place.
LEMMA OnlyPlace ==
  ASSUME NEW S, NEW s \in Seq(S), IsInjective(s), NEW i \in 1..Len(s)
  PROVE  RemoveFirst(s, s[i]) = RemoveAt(s, i)
<1> DEFINE I == {j \in 1..Len(s) : s[j] = s[i]}
<1>1. Len(s) \in Nat /\ DOMAIN s = 1..Len(s)
  BY LenProperties
<1>2. SelectInSeq(s, LAMBDA v : v = s[i]) = IF I # {} THEN Min(I) ELSE 0
  BY DEF SelectInSeq
<1>3. I = {i}
  BY <1>1 DEF IsInjective
<1>4. Min(I) = i
  BY <1>1, <1>3 DEF Min
<1> QED
  BY <1>2, <1>3, <1>4 DEF RemoveFirst

\* What RemoveAt leaves.
LEMMA RemovesAt ==
  ASSUME NEW S, NEW s \in Seq(S), NEW i \in 1..Len(s)
  PROVE  /\ RemoveAt(s, i) \in Seq(S)
         /\ Len(RemoveAt(s, i)) = Len(s) - 1
         /\ \A j \in 1..Len(s) - 1 : RemoveAt(s, i)[j] = IF j < i THEN s[j] ELSE s[j + 1]
<1> DEFINE a == SubSeq(s, 1, i - 1)
           b == SubSeq(s, i + 1, Len(s))
<1>1. Len(s) \in Nat /\ \A j \in 1..Len(s) : s[j] \in S
  BY LenProperties, ElementOfSeq
<1>2. /\ a \in Seq(S) /\ Len(a) = i - 1 /\ \A j \in 1..i - 1 : a[j] = s[j]
  <2>1. \A j \in 1..i - 1 : s[j] \in S
    BY <1>1
  <2>2. /\ a \in Seq(S) /\ Len(a) = IF 1 <= i - 1 THEN i - 1 - 1 + 1 ELSE 0
        /\ \A j \in 1..i - 1 - 1 + 1 : a[j] = s[1 + j - 1]
    BY <1>1, <2>1, SubSeqProperties
  <2> QED
    BY <2>2
<1>3. /\ b \in Seq(S) /\ Len(b) = Len(s) - i /\ \A j \in 1..Len(s) - i : b[j] = s[i + j]
  <2>1. \A j \in i + 1..Len(s) : s[j] \in S
    BY <1>1
  <2>2. /\ b \in Seq(S)
        /\ Len(b) = IF i + 1 <= Len(s) THEN Len(s) - (i + 1) + 1 ELSE 0
        /\ \A j \in 1..Len(s) - (i + 1) + 1 : b[j] = s[(i + 1) + j - 1]
    BY <1>1, <2>1, SubSeqProperties
  <2> QED
    BY <1>1, <2>2
<1>4. /\ a \o b \in Seq(S) /\ Len(a \o b) = Len(a) + Len(b)
      /\ \A j \in 1..Len(a) + Len(b) : (a \o b)[j] = IF j <= Len(a) THEN a[j] ELSE b[j - Len(a)]
  BY <1>2, <1>3, ConcatProperties
<1> HIDE DEF a, b
<1>5. ASSUME NEW j \in 1..Len(s) - 1
      PROVE  (a \o b)[j] = IF j < i THEN s[j] ELSE s[j + 1]
  <2>1. CASE j < i
    BY <1>1, <1>2, <1>3, <1>4, <2>1
  <2>2. CASE ~(j < i)
    <3>1. j - (i - 1) \in 1..Len(s) - i /\ i + (j - (i - 1)) = j + 1
      BY <1>1, <2>2
    <3>2. (a \o b)[j] = b[j - (i - 1)]
      BY <1>1, <1>2, <1>3, <1>4, <2>2
    <3> QED
      BY <1>3, <2>2, <3>1, <3>2
  <2> QED
    BY <2>1, <2>2
<1>6. RemoveAt(s, i) = a \o b
  BY DEF RemoveAt, a, b
<1> QED
  BY <1>1, <1>2, <1>3, <1>4, <1>5, <1>6

\* unregisterVirtual takes a connection out of a list it is in once, and nobody else.
LEMMA RemovesOne ==
  ASSUME NEW S, NEW s \in Seq(S), IsInjective(s), NEW c \in ToSet(s)
  PROVE  /\ RemoveFirst(s, c) \in Seq(S) /\ IsInjective(RemoveFirst(s, c))
         /\ ToSet(RemoveFirst(s, c)) = ToSet(s) \ {c}
<1> DEFINE n == Len(s)
<1>1. n \in Nat /\ DOMAIN s = 1..n /\ \A j, k \in 1..n : s[j] = s[k] => j = k
  BY LenProperties DEF IsInjective
<1>2. PICK i \in 1..n : s[i] = c
  BY <1>1 DEF ToSet
<1> DEFINE r == RemoveAt(s, i)
<1>3. /\ r \in Seq(S) /\ Len(r) = n - 1
      /\ \A j \in 1..n - 1 : r[j] = IF j < i THEN s[j] ELSE s[j + 1]
  BY RemovesAt
<1>4. RemoveFirst(s, c) = r
  BY <1>2, OnlyPlace
<1>5. DOMAIN r = 1..n - 1
  BY <1>3, LenProperties
<1> HIDE DEF r, n
<1>6. IsInjective(r)
  <2> SUFFICES ASSUME NEW j \in 1..n - 1, NEW k \in 1..n - 1, r[j] = r[k] PROVE j = k
    BY <1>5 DEF IsInjective
  <2> DEFINE f(x) == IF x < i THEN x ELSE x + 1
  <2>1. f(j) \in 1..n /\ f(k) \in 1..n
    BY <1>1
  <2>2. s[f(j)] = s[f(k)]
    BY <1>3
  <2>3. f(j) = f(k)
    BY <1>1, <2>1, <2>2
  <2> QED
    BY <1>1, <2>3
<1>7. ASSUME NEW x \in ToSet(r) PROVE x \in ToSet(s) \ {c}
  <2>1. PICK j \in 1..n - 1 : r[j] = x
    BY <1>5 DEF ToSet
  <2>2. CASE j < i
    BY <1>1, <1>2, <1>3, <2>1, <2>2 DEF ToSet
  <2>3. CASE ~(j < i)
    <3>1. j + 1 \in 1..n /\ j + 1 # i /\ x = s[j + 1]
      BY <1>1, <1>3, <2>1, <2>3
    <3> QED
      BY <1>1, <1>2, <3>1 DEF ToSet
  <2> QED
    BY <2>2, <2>3
<1>8. ASSUME NEW x \in ToSet(s) \ {c} PROVE x \in ToSet(r)
  <2>1. PICK j \in 1..n : s[j] = x /\ j # i
    BY <1>1, <1>2 DEF ToSet
  <2>2. CASE j < i
    <3>1. j \in 1..n - 1 /\ r[j] = x
      BY <1>1, <1>3, <2>1, <2>2
    <3> QED
      BY <1>5, <3>1 DEF ToSet
  <2>3. CASE ~(j < i)
    <3>1. j - 1 \in 1..n - 1 /\ ~(j - 1 < i) /\ (j - 1) + 1 = j
      BY <1>1, <2>1, <2>3
    <3>2. r[j - 1] = x
      BY <1>3, <2>1, <3>1
    <3> QED
      BY <1>5, <3>1, <3>2 DEF ToSet
  <2> QED
    BY <2>2, <2>3
<1> QED
  BY <1>3, <1>4, <1>6, <1>7, <1>8

\* AllocatePacketConn appends a connection that is not in the list.
LEMMA AppendsOne ==
  ASSUME NEW S, NEW s \in Seq(S), IsInjective(s), NEW c \in S, c \notin ToSet(s)
  PROVE  /\ Append(s, c) \in Seq(S) /\ IsInjective(Append(s, c))
         /\ ToSet(Append(s, c)) = ToSet(s) \cup {c}
<1> DEFINE n == Len(s)
           r == Append(s, c)
<1>1. n \in Nat /\ DOMAIN s = 1..n /\ \A j, k \in 1..n : s[j] = s[k] => j = k
  BY LenProperties DEF IsInjective
<1>2. /\ r \in Seq(S) /\ Len(r) = n + 1 /\ r[n + 1] = c
      /\ \A j \in 1..n : r[j] = s[j]
  BY AppendProperties
<1>3. DOMAIN r = 1..n + 1
  BY <1>2, LenProperties
<1>4. \A j \in 1..n : s[j] # c
  BY <1>1 DEF ToSet
<1> HIDE DEF r, n
<1>5. IsInjective(r)
  <2> SUFFICES ASSUME NEW j \in 1..n + 1, NEW k \in 1..n + 1, r[j] = r[k] PROVE j = k
    BY <1>3 DEF IsInjective
  <2>1. \A x \in 1..n + 1 : x \in 1..n \/ x = n + 1
    BY <1>1
  <2> QED
    BY <1>1, <1>2, <1>4, <2>1
<1>6. \A x : x \in ToSet(r) <=> x \in ToSet(s) \/ x = c
  <2>1. \A x \in 1..n + 1 : x \in 1..n \/ x = n + 1
    BY <1>1
  <2>2. 1..n \subseteq 1..n + 1 /\ n + 1 \in 1..n + 1
    BY <1>1
  <2> QED
    BY <1>1, <1>2, <1>3, <2>1, <2>2 DEF ToSet
<1>7. ToSet(r) = ToSet(s) \cup {c}
  BY <1>6
<1> QED
  BY <1>2, <1>5, <1>7 DEF r

LEMMA EndsAreIn ==
  ASSUME NEW S, NEW s \in Seq(S), s # <<>>
  PROVE  Head(s) \in ToSet(s) /\ Last(s) \in ToSet(s) /\ ToSet(s) \subseteq S
<1>1. Len(s) \in Nat \ {0} /\ DOMAIN s = 1..Len(s)
  BY LenProperties, EmptySeq
<1>2. Head(s) = s[1] /\ 1 \in 1..Len(s) /\ Len(s) \in 1..Len(s)
  BY <1>1
<1> QED
  BY <1>1, <1>2, ElementOfSeq DEF ToSet, Last

-----------------------------------------------------------------------------
(* Typing *)

LEMMA Steps ==
  ASSUME Next
  PROVE  \/ AllocateRefused \/ ShutdownStarts \/ ShutdownNode \/ ShutdownConn
         \/ ShutdownUnlock \/ ShutdownDone
         \/ \E c \in Conn : \/ Allocate(c) \/ TakeInbound(c) \/ WriteRegister(c)
                            \/ CloseMark(c) \/ CloseUnregister(c) \/ CloseChannel(c)
                            \/ \E ip \in Ip : RegisterPermission(c, ip)
                            \/ \E a \in Peer : WriteCheck(c, a)
         \/ \E p \in Port : \/ DeliverCheck(p) \/ DeliverSend(p) \/ DeliverRecorded(p)
                            \/ ReaderStops(p)
                            \/ \E a \in Peer : ReadPacket(p, a)
BY DEF Next, ShutdownStep, ConnStep, ReaderStep, Deliver

\* Who is not free has a port, whoever handles a packet handles it for somebody,
\* and the shutdown holds the mutex of a port.
Placed ==
  /\ \A c \in Conn : phase[c] # "free" => home[c] # 0
  /\ \A c \in Conn : writer[c] # None => phase[c] # "free"
  /\ \A p \in Port : reader[p].pc \in {"found", "send"} => reader[p].to # None
  /\ closer.pc \in {"conns", "unregister"} => closer.port \in Port

\* The active connections of a port, as ActiveWellFormed has them.
Active == \A p \in Port : /\ IsInjective(active[p])
                         /\ ToSet(active[p]) = {c \in Conn : Live(c) /\ home[c] = p}
Typing == TypeOK /\ Placed /\ Active

LEMMA NextIndexType == \A i \in Port : NextIndex(i) \in Port
<1> SUFFICES ASSUME NEW i \in Port PROVE NextIndex(i) \in Port
  OBVIOUS
<1>1. RingSize \in Nat \ {0} /\ i \in Nat
  BY RingAssumption DEF Port
<1>2. i % RingSize \in 0..RingSize - 1
  BY <1>1
<1> QED
  BY <1>1, <1>2 DEF NextIndex, Port

LEMMA InitTyped == Init => Typing
<1> SUFFICES ASSUME Init PROVE Typing
  OBVIOUS
<1> USE RingAssumption
<1>1. 1 \in Port /\ 0 \in 0..MaxRefusals /\ 0 \in 0..ChanCap /\ 0 \in 0..RingSize + 1
  BY DEF Port
<1>2. active \in [Port -> Seq(Conn)]
  BY EmptySeq DEF Init
<1>3. reader \in [Port -> ReaderAt] /\ closer \in CloserAt
  BY <1>1 DEF Init, ReaderAt, CloserAt
<1>4. routes \in [Port -> [Key -> Conn \cup {None}]] /\ lastWriter \in [Port -> [Peer -> Conn \cup {None}]]
  BY DEF Init
<1>5. TypeOK
  BY <1>1, <1>2, <1>3, <1>4 DEF Init, TypeOK
<1> QED
  BY <1>5 DEF Init, Typing, Placed, Active, Live, IsInjective, ToSet

LEMMA StepTyped ==
  ASSUME Typing, [Next]_vars
  PROVE  TypeOK' /\ Placed'
<1> USE RingAssumption
<1>0. TypeOK /\ Placed
  BY DEF Typing
<1>b. \A c \in Conn : phase[c] # "free" => home[c] \in Port
  BY <1>0 DEF TypeOK, Placed
<1>c. \A p \in Port : p # 0
  BY DEF Port
<1>1. CASE UNCHANGED vars
  BY <1>0, <1>1 DEF vars, genVars, connVars, nodeVars, TypeOK, Placed
<1>2. CASE AllocateRefused
  <2>1. current' \in Port /\ refusals' \in 0..MaxRefusals
    BY <1>0, <1>2, NextIndexType DEF AllocateRefused, TypeOK
  <2> QED
    BY <1>0, <1>2, <2>1 DEF AllocateRefused, TypeOK, Placed, connVars, nodeVars
<1>3. CASE ShutdownStarts \/ ShutdownUnlock \/ ShutdownDone
  <2>1. closer' \in CloserAt /\ closer'.pc \in {"node", "done"}
    <3>1. closer \in CloserAt /\ 1 \in 0..RingSize + 1
      BY <1>0 DEF TypeOK
    <3>2. CASE ShutdownUnlock
      <4>1. closer.port \in 1..RingSize
        BY <1>0, <3>2 DEF ShutdownUnlock, Placed, Port
      <4>2. closer.port + 1 \in 0..RingSize + 1
        BY <4>1
      <4> QED
        BY <3>1, <3>2, <4>2 DEF ShutdownUnlock, CloserAt
    <3> QED
      BY <1>3, <3>1, <3>2 DEF ShutdownStarts, ShutdownDone, CloserAt
  <2> QED
    BY <1>0, <1>3, <2>1 DEF ShutdownStarts, ShutdownUnlock, ShutdownDone, TypeOK, Placed,
       genVars, connVars, nodeVars
<1>4. CASE ShutdownNode
  <2>1. closer' \in CloserAt /\ closer'.port \in Port
    BY <1>0, <1>4 DEF ShutdownNode, CloserAt, TypeOK
  <2> QED
    BY <1>0, <1>4, <2>1 DEF ShutdownNode, TypeOK, Placed, genVars, connVars
<1>5. CASE ShutdownConn
  <2> DEFINE v == Head(active[closer.port])
  <2>1. closer.port \in Port /\ active[closer.port] # <<>>
    BY <1>0, <1>5 DEF ShutdownConn, Placed
  <2>2. v \in Conn /\ v \in ToSet(active[closer.port])
    BY <1>0, <2>1, EndsAreIn DEF TypeOK
  <2>3. closer' \in CloserAt /\ closer'.port \in Port
    BY <1>0, <1>5, <2>1, <2>2 DEF ShutdownConn, CloserAt, TypeOK
  <2>4. phase' = [phase EXCEPT ![v] = "marked"] /\ overlapped' \subseteq Conn
    BY <1>0, <1>5, <2>2 DEF ShutdownConn, TypeOK, AfterMark
  <2>5. home[v] # 0
    BY <1>c, <2>1, <2>2 DEF Typing, Active
  <2> HIDE DEF v
  <2> QED
    BY <1>0, <1>5, <2>2, <2>3, <2>4, <2>5 DEF ShutdownConn, TypeOK, Placed, genVars, nodeVars
<1>6. ASSUME NEW c \in Conn, Allocate(c) PROVE TypeOK' /\ Placed'
  <2>1. current \in Port /\ current' \in Port
    BY <1>0, <1>6, NextIndexType DEF Allocate, TypeOK
  <2>2. active' \in [Port -> Seq(Conn)]
    <3>1. Append(active[current], c) \in Seq(Conn)
      BY <1>0, <2>1, AppendProperties DEF TypeOK
    <3> QED
      BY <1>0, <1>6, <3>1 DEF Allocate, TypeOK
  <2>3. /\ home' = [home EXCEPT ![c] = current] /\ phase' = [phase EXCEPT ![c] = "open"]
        /\ sock' \in [Port -> {"none", "open", "closed"}]
    BY <1>0, <1>6 DEF Allocate, TypeOK
  <2> QED
    BY <1>0, <1>6, <1>c, <2>1, <2>2, <2>3 DEF Allocate, TypeOK, Placed
<1>7. ASSUME NEW c \in Conn, TakeInbound(c) PROVE TypeOK' /\ Placed'
  <2>1. inbound' \in [Conn -> 0..ChanCap]
    BY <1>0, <1>7 DEF TakeInbound, TypeOK
  <2> QED
    BY <1>0, <1>7, <2>1 DEF TakeInbound, TypeOK, Placed, genVars, nodeVars
<1>8. ASSUME NEW c \in Conn, NEW ip \in Ip, RegisterPermission(c, ip) PROVE TypeOK' /\ Placed'
  <2>1. home[c] \in Port /\ active[home[c]] # <<>> /\ ip \in Key
    BY <1>8, <1>b DEF RegisterPermission, Key
  <2>2. Last(active[home[c]]) \in Conn
    BY <1>0, <2>1, EndsAreIn DEF TypeOK
  <2>3. routes' \in [Port -> [Key -> Conn \cup {None}]]
    BY <1>0, <1>8, <2>1, <2>2 DEF RegisterPermission, TypeOK
  <2> QED
    BY <1>0, <1>8, <2>3 DEF RegisterPermission, TypeOK, Placed, genVars, connVars
<1>9. ASSUME NEW c \in Conn, NEW a \in Peer, WriteCheck(c, a) PROVE TypeOK' /\ Placed'
  BY <1>0, <1>9 DEF WriteCheck, TypeOK, Placed, genVars, connVars, nodeVars
<1>10. ASSUME NEW c \in Conn, WriteRegister(c) PROVE TypeOK' /\ Placed'
  <2>1. home[c] \in Port /\ writer[c] \in Peer /\ writer[c] \in Key /\ IpOf[writer[c]] \in Key
    BY <1>0, <1>10, <1>b DEF WriteRegister, TypeOK, Placed, Key
  <2>2. routes' \in [Port -> [Key -> Conn \cup {None}]]
    BY <1>0, <1>10, <2>1 DEF WriteRegister, WithRoute, TypeOK
  <2>3. /\ lastWriter' \in [Port -> [Peer -> Conn \cup {None}]]
        /\ writer' = [writer EXCEPT ![c] = None]
    BY <1>0, <1>10, <2>1 DEF WriteRegister, TypeOK
  <2> QED
    BY <1>0, <1>10, <2>2, <2>3 DEF WriteRegister, TypeOK, Placed, genVars, connVars
<1>11. ASSUME NEW c \in Conn, CloseMark(c) PROVE TypeOK' /\ Placed'
  BY <1>0, <1>11 DEF CloseMark, AfterMark, TypeOK, Placed, genVars, nodeVars
<1>12. ASSUME NEW c \in Conn, CloseUnregister(c) PROVE TypeOK' /\ Placed'
  <2>1. home[c] \in Port
    BY <1>12, <1>b DEF CloseUnregister
  <2>2. c \in ToSet(active[home[c]])
    BY <1>12, <2>1 DEF CloseUnregister, Typing, Active, Live
  <2>3. RemoveFirst(active[home[c]], c) \in Seq(Conn)
    BY <1>0, <2>1, <2>2, RemovesOne DEF TypeOK, Typing, Active
  <2>4. active' \in [Port -> Seq(Conn)]
    BY <1>0, <1>12, <2>3 DEF CloseUnregister, WithoutConn, TypeOK
  <2>5. routes' \in [Port -> [Key -> Conn \cup {None}]]
    BY <1>0, <1>12, <2>1 DEF CloseUnregister, WithoutRoutes, TypeOK
  <2> QED
    BY <1>0, <1>12, <2>4, <2>5 DEF CloseUnregister, TypeOK, Placed, genVars
<1>13. ASSUME NEW c \in Conn, CloseChannel(c) PROVE TypeOK' /\ Placed'
  BY <1>0, <1>13 DEF CloseChannel, TypeOK, Placed, genVars, nodeVars
<1>14. ASSUME NEW p \in Port, DeliverCheck(p) PROVE TypeOK' /\ Placed'
  <2>1. reader[p] \in ReaderAt
    BY <1>0 DEF TypeOK
  <2>2. /\ reader' \in [Port -> ReaderAt] /\ \A q \in Port \ {p} : reader'[q] = reader[q]
        /\ reader'[p].pc \in {"found", "send"} => reader'[p].to # None
    BY <1>0, <1>14, <2>1 DEF DeliverCheck, ReaderAt, TypeOK, Placed
  <2> QED
    BY <1>0, <1>14, <2>2 DEF DeliverCheck, TypeOK, Placed, genVars, connVars, nodeVars
<1>15. ASSUME NEW p \in Port, DeliverSend(p) PROVE TypeOK' /\ Placed'
  <2>1. reader[p] \in ReaderAt
    BY <1>0 DEF TypeOK
  <2>2. /\ reader' \in [Port -> ReaderAt] /\ \A q \in Port \ {p} : reader'[q] = reader[q]
        /\ reader'[p].pc \in {"read", "record"}
    BY <1>0, <1>15, <2>1 DEF DeliverSend, ReaderAt, TypeOK
  <2>3. reader[p].to \in Conn
    BY <1>0, <1>15, <2>1 DEF DeliverSend, ReaderAt, Placed
  <2>4. inbound' \in [Conn -> 0..ChanCap] /\ crashed' \in BOOLEAN
    <3> DEFINE c == reader[p].to
               m == IF phase[c] # "closed" /\ inbound[c] < ChanCap THEN inbound[c] + 1
                                                                 ELSE inbound[c]
    <3>1. inbound[c] \in 0..ChanCap /\ ChanCap \in Nat
      BY <1>0, <2>3 DEF TypeOK
    <3>2. m \in 0..ChanCap
      BY <3>1
    <3>3. inbound' = [inbound EXCEPT ![c] = m]
      BY <1>15 DEF DeliverSend
    <3>4. crashed' \in BOOLEAN
      BY <1>15 DEF DeliverSend
    <3>5. c \in Conn /\ inbound \in [Conn -> 0..ChanCap]
      BY <1>0, <2>3 DEF TypeOK
    <3> HIDE DEF m, c
    <3>6. [inbound EXCEPT ![c] = m] \in [Conn -> 0..ChanCap]
      BY <3>2, <3>5
    <3> QED
      BY <3>3, <3>4, <3>5, <3>6
  <2> QED
    BY <1>0, <1>15, <2>2, <2>4 DEF DeliverSend, TypeOK, Placed, genVars, nodeVars
<1>16. ASSUME NEW p \in Port, ReaderStops(p) \/ DeliverRecorded(p) PROVE TypeOK' /\ Placed'
  <2>1. reader[p] \in ReaderAt
    BY <1>0 DEF TypeOK
  <2>2. /\ reader' \in [Port -> ReaderAt] /\ \A q \in Port \ {p} : reader'[q] = reader[q]
        /\ reader'[p].pc \in {"stopped", "read"}
    <3>1. PICK at \in {"stopped", "read"} : reader' = [reader EXCEPT ![p].pc = at]
      BY <1>16 DEF ReaderStops, DeliverRecorded
    <3>2. [reader[p] EXCEPT !.pc = at] \in ReaderAt
      BY <2>1 DEF ReaderAt
    <3> QED
      BY <1>0, <2>1, <3>1, <3>2 DEF TypeOK, ReaderAt
  <2> QED
    BY <1>0, <1>16, <2>2 DEF ReaderStops, DeliverRecorded, TypeOK, Placed, genVars, connVars, nodeVars
<1>17. ASSUME NEW p \in Port, NEW a \in Peer, ReadPacket(p, a) PROVE TypeOK' /\ Placed'
  <2>1. reader[p] \in ReaderAt /\ FindTarget(p, a) \in Conn \cup {None}
    <3>1. active[p] # <<>> => Last(active[p]) \in Conn
      BY <1>0, EndsAreIn DEF TypeOK
    <3> QED
      BY <1>0, <3>1 DEF TypeOK, FindTarget, Key
  <2>2. /\ reader' \in [Port -> ReaderAt] /\ \A q \in Port \ {p} : reader'[q] = reader[q]
        /\ reader'[p].pc \in {"found", "send"} => reader'[p].to # None
    BY <1>0, <1>17, <2>1 DEF ReadPacket, ReaderAt, TypeOK, Placed
  <2> QED
    BY <1>0, <1>17, <2>2 DEF ReadPacket, TypeOK, Placed, genVars, connVars, nodeVars
<1> QED
  BY <1>1, <1>2, <1>3, <1>4, <1>5, <1>6, <1>7, <1>8, <1>9, <1>10, <1>11, <1>12, <1>13,
     <1>14, <1>15, <1>16, <1>17, Steps

-----------------------------------------------------------------------------
(* The active lists *)

LEMMA StepActive ==
  ASSUME Typing, [Next]_vars
  PROVE  Active'
<1> USE RingAssumption
<1>0. TypeOK /\ Placed /\ Active
  BY DEF Typing
<1>b. \A c \in Conn : phase[c] # "free" => home[c] \in Port
  BY <1>0 DEF TypeOK, Placed
<1>1. ASSUME UNCHANGED <<active, home>>, \A c \in Conn : Live(c)' <=> Live(c) PROVE Active'
  BY <1>0, <1>1 DEF Active
<1>2. ASSUME UNCHANGED <<active, home, phase>> PROVE Active'
  BY <1>1, <1>2 DEF Live
<1>3. CASE UNCHANGED vars
  BY <1>2, <1>3 DEF vars, connVars, nodeVars
<1>4. CASE \/ AllocateRefused \/ ShutdownStarts \/ ShutdownNode \/ ShutdownUnlock \/ ShutdownDone
  BY <1>2, <1>4 DEF AllocateRefused, ShutdownStarts, ShutdownNode, ShutdownUnlock, ShutdownDone,
     connVars, nodeVars
<1>5. CASE ShutdownConn
  <2> DEFINE v == Head(active[closer.port])
  <2>1. v \in ToSet(active[closer.port]) /\ closer.port \in Port
    BY <1>0, <1>5, EndsAreIn DEF ShutdownConn, Placed, TypeOK
  <2>2. v \in Conn /\ Live(v)
    BY <1>0, <2>1 DEF Active
  <2>3. phase' = [phase EXCEPT ![v] = "marked"] /\ UNCHANGED <<active, home>>
    BY <1>5 DEF ShutdownConn, nodeVars
  <2> HIDE DEF v
  <2> QED
    BY <1>0, <1>1, <2>2, <2>3 DEF Live, TypeOK
<1>6. ASSUME NEW c \in Conn, Allocate(c) PROVE Active'
  <2>1. /\ active' = [active EXCEPT ![current] = Append(active[current], c)]
        /\ home' = [home EXCEPT ![c] = current] /\ phase' = [phase EXCEPT ![c] = "open"]
        /\ current \in Port /\ phase[c] = "free"
    BY <1>0, <1>6 DEF Allocate, TypeOK
  <2>2. c \notin ToSet(active[current])
    BY <1>0, <2>1 DEF Active, Live
  <2>3. /\ IsInjective(Append(active[current], c))
        /\ ToSet(Append(active[current], c)) = ToSet(active[current]) \cup {c}
    BY <1>0, <2>1, <2>2, AppendsOne DEF Active, TypeOK
  <2>4. \A d \in Conn : /\ home'[d] = IF d = c THEN current ELSE home[d]
                        /\ Live(d)' <=> Live(d) \/ d = c
    BY <1>0, <2>1 DEF Live, TypeOK
  <2>5. active'[current] = Append(active[current], c)
        /\ \A p \in Port \ {current} : active'[p] = active[p]
    BY <1>0, <2>1 DEF TypeOK
  <2>6. ToSet(active'[current]) = {d \in Conn : Live(d)' /\ home'[d] = current}
    BY <1>0, <2>1, <2>3, <2>4, <2>5 DEF Active
  <2>7. ASSUME NEW p \in Port, p # current
        PROVE  ToSet(active'[p]) = {d \in Conn : Live(d)' /\ home'[d] = p}
    <3>1. \A d \in Conn : Live(d)' /\ home'[d] = p <=> Live(d) /\ home[d] = p
      BY <2>1, <2>4, <2>7 DEF Live
    <3> QED
      BY <1>0, <2>5, <2>7, <3>1 DEF Active
  <2> QED
    BY <1>0, <2>3, <2>5, <2>6, <2>7 DEF Active
<1>7. ASSUME NEW c \in Conn, TakeInbound(c) \/ WriteRegister(c) PROVE Active'
  BY <1>2, <1>7 DEF TakeInbound, WriteRegister, nodeVars, connVars
<1>8. ASSUME NEW c \in Conn, NEW ip \in Ip, RegisterPermission(c, ip) PROVE Active'
  BY <1>2, <1>8 DEF RegisterPermission, connVars
<1>9. ASSUME NEW c \in Conn, NEW a \in Peer, WriteCheck(c, a) PROVE Active'
  BY <1>2, <1>9 DEF WriteCheck, connVars, nodeVars
<1>10. ASSUME NEW c \in Conn, CloseMark(c) \/ CloseChannel(c) PROVE Active'
  BY <1>0, <1>1, <1>10 DEF CloseMark, CloseChannel, Live, TypeOK, nodeVars
<1>11. ASSUME NEW c \in Conn, CloseUnregister(c) PROVE Active'
  <2> DEFINE p == home[c]
  <2>1. /\ active' = [active EXCEPT ![p] = RemoveFirst(active[p], c)]
        /\ phase' = [phase EXCEPT ![c] = "unregistered"]
        /\ phase[c] = "marked" /\ home' = home /\ p \in Port
    BY <1>11, <1>b DEF CloseUnregister, WithoutConn
  <2>2. c \in ToSet(active[p])
    BY <1>0, <2>1 DEF Active, Live
  <2>3. /\ IsInjective(RemoveFirst(active[p], c))
        /\ ToSet(RemoveFirst(active[p], c)) = ToSet(active[p]) \ {c}
    BY <1>0, <2>1, <2>2, RemovesOne DEF Active, TypeOK
  <2>4. \A d \in Conn : Live(d)' <=> Live(d) /\ d # c
    BY <1>0, <2>1 DEF Live, TypeOK
  <2>5. active'[p] = RemoveFirst(active[p], c) /\ \A q \in Port \ {p} : active'[q] = active[q]
    BY <1>0, <2>1 DEF TypeOK
  <2>6. ToSet(active'[p]) = {d \in Conn : Live(d)' /\ home'[d] = p}
    BY <1>0, <2>1, <2>3, <2>4, <2>5 DEF Active
  <2>7. ASSUME NEW q \in Port, q # p
        PROVE  ToSet(active'[q]) = {d \in Conn : Live(d)' /\ home'[d] = q}
    <3>1. \A d \in Conn : Live(d)' /\ home'[d] = q <=> Live(d) /\ home[d] = q
      BY <2>1, <2>4, <2>7
    <3> QED
      BY <1>0, <2>5, <2>7, <3>1 DEF Active
  <2> QED
    BY <1>0, <2>3, <2>5, <2>6, <2>7 DEF Active
<1>12. ASSUME NEW p \in Port,
              DeliverCheck(p) \/ DeliverSend(p) \/ DeliverRecorded(p) \/ ReaderStops(p)
       PROVE  Active'
  BY <1>2, <1>12 DEF DeliverCheck, DeliverSend, DeliverRecorded, ReaderStops, connVars, nodeVars
<1>13. ASSUME NEW p \in Port, NEW a \in Peer, ReadPacket(p, a) PROVE Active'
  BY <1>2, <1>13 DEF ReadPacket, connVars, nodeVars
<1> QED
  BY <1>3, <1>4, <1>5, <1>6, <1>7, <1>8, <1>9, <1>10, <1>11, <1>12, <1>13, Steps

-----------------------------------------------------------------------------
(* The order of the shutdown *)

\* ShutdownOrderly, and the port that is being emptied has no socket to read from.
Orderly ==
  /\ ShutdownOrderly
  /\ closer.pc \in {"conns", "unregister"} => sock[closer.port] # "open"

LEMMA StepOrderly ==
  ASSUME Typing, Orderly, [Next]_vars
  PROVE  Orderly'
<1> USE RingAssumption
<1>0. TypeOK /\ Placed /\ Active
  BY DEF Typing
<1>n. /\ closer.port \in Nat /\ \A p \in Port : p \in Nat /\ p >= 1
      /\ closer.pc \in {"idle", "node", "conns", "unregister", "done"}
  BY <1>0 DEF TypeOK, CloserAt, Port
<1>1. ASSUME UNCHANGED <<active, sock, closer>> PROVE Orderly'
  BY <1>1 DEF Orderly, ShutdownOrderly
<1>2. CASE UNCHANGED vars
  BY <1>1, <1>2 DEF vars, nodeVars
<1>3. CASE AllocateRefused
  BY <1>1, <1>3 DEF AllocateRefused, nodeVars
<1>4. CASE ShutdownStarts
  <2>1. closer'.pc = "node" /\ closer'.port = 1
    BY <1>0, <1>4 DEF ShutdownStarts, TypeOK, CloserAt
  <2> QED
    BY <1>n, <2>1 DEF Orderly, ShutdownOrderly
<1>5. CASE ShutdownNode
  <2>1. /\ closer.pc = "node" /\ closer'.pc = "conns" /\ closer'.port = closer.port
        /\ closer.port \in Port /\ active' = active
        /\ \A p \in Port : /\ p # closer.port => sock'[p] = sock[p]
                           /\ p = closer.port => sock'[p] # "open"
    BY <1>0, <1>5 DEF ShutdownNode, TypeOK, CloserAt
  <2> QED
    BY <1>n, <2>1 DEF Orderly, ShutdownOrderly
<1>6. CASE ShutdownConn
  <2>1. /\ closer.pc = "conns" /\ closer'.pc = "unregister" /\ closer'.port = closer.port
        /\ closer'.conn = Head(active[closer.port])
        /\ active[closer.port] # <<>> /\ UNCHANGED <<active, sock>>
    BY <1>0, <1>6 DEF ShutdownConn, TypeOK, CloserAt, nodeVars
  <2>2. Head(active[closer.port]) \in ToSet(active[closer.port])
    BY <1>0, <2>1, EndsAreIn DEF TypeOK, Placed
  <2> QED
    BY <2>1, <2>2 DEF Orderly, ShutdownOrderly
<1>7. CASE ShutdownUnlock
  <2>1. /\ closer.pc = "conns" /\ closer'.pc = "node" /\ closer'.port = closer.port + 1
        /\ active[closer.port] = <<>> /\ UNCHANGED <<active, sock>>
    BY <1>0, <1>7 DEF ShutdownUnlock, TypeOK, CloserAt, nodeVars
  <2>2. \A p \in Port : p < closer.port + 1 => p < closer.port \/ p = closer.port
    BY <1>n
  <2> QED
    BY <2>1, <2>2 DEF Orderly, ShutdownOrderly
<1>8. CASE ShutdownDone
  <2>1. closer'.pc = "done"
    BY <1>0, <1>8 DEF ShutdownDone, TypeOK, CloserAt
  <2> QED
    BY <2>1 DEF Orderly, ShutdownOrderly
<1>9. ASSUME NEW c \in Conn, Allocate(c) PROVE Orderly'
  BY <1>9 DEF Allocate, GeneratorUnlocked, Orderly, ShutdownOrderly
<1>10. ASSUME NEW c \in Conn, \/ TakeInbound(c) \/ WriteRegister(c) \/ CloseMark(c)
                              \/ CloseChannel(c)
       PROVE  Orderly'
  BY <1>1, <1>10 DEF TakeInbound, WriteRegister, CloseMark, CloseChannel, nodeVars
<1>11. ASSUME NEW c \in Conn, CloseUnregister(c) PROVE Orderly'
  <2>1. /\ active' = [active EXCEPT ![home[c]] = RemoveFirst(active[home[c]], c)]
        /\ UNCHANGED <<sock, closer>> /\ phase[c] = "marked"
        /\ closer.pc \in {"conns", "unregister"} => closer.port # home[c]
    BY <1>11 DEF CloseUnregister, WithoutConn, NodeUnlocked
  <2>2. home[c] \in Port /\ c \in ToSet(active[home[c]])
    BY <1>0, <2>1 DEF TypeOK, Placed, Active, Live
  <2>3. active[home[c]] # <<>>
    BY <2>2 DEF ToSet
  <2>4. \A p \in Port : p # home[c] => active'[p] = active[p]
    BY <1>0, <2>1, <2>2 DEF TypeOK
  <2>5. closer.pc = "unregister" => closer.port \in Port
    BY <1>0 DEF Placed
  <2> QED
    BY <2>1, <2>3, <2>4, <2>5 DEF Orderly, ShutdownOrderly
<1>12. ASSUME NEW c \in Conn, NEW ip \in Ip, RegisterPermission(c, ip) PROVE Orderly'
  BY <1>1, <1>12 DEF RegisterPermission
<1>13. ASSUME NEW c \in Conn, NEW a \in Peer, WriteCheck(c, a) PROVE Orderly'
  BY <1>1, <1>13 DEF WriteCheck, nodeVars
<1>14. ASSUME NEW p \in Port,
              DeliverCheck(p) \/ DeliverSend(p) \/ DeliverRecorded(p) \/ ReaderStops(p)
       PROVE  Orderly'
  BY <1>1, <1>14 DEF DeliverCheck, DeliverSend, DeliverRecorded, ReaderStops, nodeVars
<1>15. ASSUME NEW p \in Port, NEW a \in Peer, ReadPacket(p, a) PROVE Orderly'
  BY <1>1, <1>15 DEF ReadPacket, nodeVars
<1> QED
  BY <1>2, <1>3, <1>4, <1>5, <1>6, <1>7, <1>8, <1>9, <1>10, <1>11, <1>12, <1>13, <1>14, <1>15,
     Steps

\* The active connections of a port are, without repetition, those allocated on
\* it whose Close has not unregistered them yet; the shutdown leaves none behind
\* it, and what it waits for does not go away.
THEOREM ListsWellFormed == Spec => []ActiveWellFormed
<1>1. Typing /\ Orderly /\ [Next]_vars => (Typing /\ Orderly)'
  BY StepTyped, StepActive, StepOrderly DEF Typing
<1>2. Typing /\ Orderly => ActiveWellFormed
  BY DEF Typing, Active, Orderly, ActiveWellFormed
<1>3. Init => Orderly
  BY DEF Init, Orderly, ShutdownOrderly
<1> QED
  BY <1>1, <1>2, <1>3, InitTyped, PTL DEF Spec

-----------------------------------------------------------------------------
(* Whom a reply reaches *)

\* Who wrote to an address last is of the port and, as long as it is active, the
\* route of the address leads to it.
Remembered ==
  \A p \in Port, a \in Peer :
    LET c == lastWriter[p][a] IN
      c # None => /\ phase[c] # "free" /\ home[c] = p
                  /\ Live(c) => routes[p][a] = c

LEMMA StepRemembered ==
  ASSUME Typing, Remembered, [Next]_vars
  PROVE  Remembered'
<1> USE RingAssumption
<1>0. TypeOK /\ Placed /\ Active
  BY DEF Typing
<1>a. \A p \in Port, a \in Peer : lastWriter[p][a] # None => lastWriter[p][a] \in Conn
  BY <1>0 DEF TypeOK
<1>1. ASSUME UNCHANGED <<lastWriter, home>>,
             \A c \in Conn : (phase[c] # "free" => phase'[c] # "free" /\ (Live(c)' => Live(c))),
             \A p \in Port, a \in Peer : LET c == lastWriter[p][a] IN
               c # None /\ routes[p][a] = c /\ Live(c)' => routes'[p][a] = c
      PROVE  Remembered'
  BY <1>1, <1>a DEF Remembered
<1>2. ASSUME UNCHANGED <<lastWriter, home, phase, routes>> PROVE Remembered'
  BY <1>1, <1>2 DEF Live
<1>3. CASE UNCHANGED vars
  BY <1>2, <1>3 DEF vars, connVars, nodeVars
<1>4. CASE \/ AllocateRefused \/ ShutdownStarts \/ ShutdownNode \/ ShutdownUnlock \/ ShutdownDone
  BY <1>2, <1>4 DEF AllocateRefused, ShutdownStarts, ShutdownNode, ShutdownUnlock, ShutdownDone,
     connVars, nodeVars
<1>5. CASE ShutdownConn
  <2> DEFINE v == Head(active[closer.port])
  <2>1. v \in ToSet(active[closer.port]) /\ closer.port \in Port
    BY <1>0, <1>5, EndsAreIn DEF ShutdownConn, Placed, TypeOK
  <2>2. v \in Conn /\ Live(v)
    BY <1>0, <2>1 DEF Active
  <2>3. phase' = [phase EXCEPT ![v] = "marked"] /\ UNCHANGED <<routes, home, lastWriter>>
    BY <1>5 DEF ShutdownConn, nodeVars
  <2> HIDE DEF v
  <2> QED
    BY <1>0, <1>1, <2>2, <2>3 DEF Live, TypeOK
<1>6. ASSUME NEW c \in Conn, Allocate(c) PROVE Remembered'
  BY <1>0, <1>a, <1>6 DEF Allocate, Remembered, Live, TypeOK
<1>7. ASSUME NEW c \in Conn, TakeInbound(c) PROVE Remembered'
  BY <1>2, <1>7 DEF TakeInbound, nodeVars
<1>8. ASSUME NEW c \in Conn, NEW ip \in Ip, RegisterPermission(c, ip) PROVE Remembered'
  <2>1. /\ \A p \in Port, a \in Peer : routes'[p][a] = routes[p][a]
    <3>1. routes' = [routes EXCEPT ![home[c]][ip] = Last(active[home[c]])]
      BY <1>8 DEF RegisterPermission
    <3>2. \A a \in Peer : a # ip
      OBVIOUS
    <3> QED
      BY <1>0, <3>1, <3>2 DEF TypeOK, Key
  <2> QED
    BY <1>1, <1>8, <2>1 DEF RegisterPermission, connVars, Live
<1>9. ASSUME NEW c \in Conn, NEW a \in Peer, WriteCheck(c, a) PROVE Remembered'
  BY <1>2, <1>9 DEF WriteCheck, connVars, nodeVars
<1>10. ASSUME NEW c \in Conn, WriteRegister(c) PROVE Remembered'
  <2> DEFINE w == writer[c]
             q == home[c]
  <2>1. w \in Peer /\ phase[c] # "free" /\ q \in Port /\ IpOf[w] \in Ip
    BY <1>0, <1>10 DEF WriteRegister, TypeOK, Placed
  <2>2. /\ routes' = [routes EXCEPT ![q] = [routes[q] EXCEPT ![w] = c, ![IpOf[w]] = c]]
        /\ lastWriter' = [lastWriter EXCEPT ![q][w] = c] /\ UNCHANGED <<home, phase>>
    BY <1>10 DEF WriteRegister, WithRoute, connVars
  <2> HIDE DEF w, q
  <2>3. \A p \in Port, a \in Peer :
          /\ lastWriter'[p][a] = IF p = q /\ a = w THEN c ELSE lastWriter[p][a]
          /\ routes'[p][a] = IF p = q /\ a = w THEN c ELSE routes[p][a]
    BY <1>0, <2>1, <2>2 DEF TypeOK, Key
  <2> QED
    BY <2>1, <2>2, <2>3 DEF Remembered, Live, q
<1>11. ASSUME NEW c \in Conn, CloseMark(c) \/ CloseChannel(c) PROVE Remembered'
  BY <1>0, <1>1, <1>11 DEF CloseMark, CloseChannel, Live, TypeOK, nodeVars
<1>12. ASSUME NEW c \in Conn, CloseUnregister(c) PROVE Remembered'
  <2>1. /\ phase' = [phase EXCEPT ![c] = "unregistered"] /\ UNCHANGED <<home, lastWriter>>
        /\ routes' = [routes EXCEPT ![home[c]] = WithoutRoutes(routes[home[c]], c)]
    BY <1>12 DEF CloseUnregister
  <2>2. \A d \in Conn : Live(d)' => Live(d) /\ d # c
    BY <1>0, <2>1 DEF Live, TypeOK
  <2>3. \A p \in Port, a \in Peer : routes[p][a] # c => routes'[p][a] = routes[p][a]
    BY <1>0, <2>1 DEF TypeOK, WithoutRoutes, Key
  <2>4. \A d \in Conn : phase[d] # "free" => phase'[d] # "free"
    BY <1>0, <2>1 DEF TypeOK
  <2> QED
    BY <1>a, <1>1, <2>1, <2>2, <2>3, <2>4
<1>13. ASSUME NEW p \in Port,
              DeliverCheck(p) \/ DeliverSend(p) \/ DeliverRecorded(p) \/ ReaderStops(p)
       PROVE  Remembered'
  BY <1>2, <1>13 DEF DeliverCheck, DeliverSend, DeliverRecorded, ReaderStops, connVars, nodeVars
<1>14. ASSUME NEW p \in Port, NEW a \in Peer, ReadPacket(p, a) PROVE Remembered'
  BY <1>2, <1>14 DEF ReadPacket, connVars, nodeVars
<1> QED
  BY <1>3, <1>4, <1>5, <1>6, <1>7, <1>8, <1>9, <1>10, <1>11, <1>12, <1>13, <1>14, Steps

\* What a peer sends back reaches the client that wrote to that address last, as
\* long as that client is active.
THEOREM RepliesReach == Spec => []RepliesReachLastWriter
<1>1. Init => Typing /\ Remembered
  BY InitTyped DEF Init, Remembered
<1>2. Typing /\ Remembered /\ [Next]_vars => (Typing /\ Remembered)'
  BY StepTyped, StepActive, StepRemembered DEF Typing
<1>3. Typing /\ Remembered => RepliesReachLastWriter
  BY DEF Remembered, RepliesReachLastWriter, FindTarget
<1> QED
  BY <1>1, <1>2, <1>3, PTL DEF Spec

-----------------------------------------------------------------------------
(* What an overlap with Close can do *)

\* Routes and packets in hand lead to connections that are open, or were closed
\* with a packet in somebody's hands.
Routed ==
  \A p \in Port, k \in Key :
    LET c == routes[p][k] IN c # None => home[c] = p /\ (Live(c) \/ c \in overlapped)
InHand ==
  /\ \A c \in overlapped : phase[c] # "free"
  /\ \A c \in Conn : writer[c] # None => phase[c] = "open" \/ c \in overlapped
  /\ \A p \in Port : reader[p].to # None =>
       LET c == reader[p].to IN
         phase[c] # "free" /\ (reader[p].pc = "send" => phase[c] = "open" \/ c \in overlapped)
  /\ crashed => overlapped # {}
Harmless == Routed /\ InHand

LEMMA FoundIsAllocated ==
  ASSUME Typing, Harmless, NEW p \in Port, NEW a \in Peer, FindTarget(p, a) # None
  PROVE  FindTarget(p, a) \in Conn /\ phase[FindTarget(p, a)] # "free"
<1>0. TypeOK /\ Active /\ a \in Key /\ IpOf[a] \in Key
  BY RingAssumption DEF Typing, Key
<1>1. active[p] # <<>> => Last(active[p]) \in Conn /\ phase[Last(active[p])] # "free"
  <2>1. active[p] # <<>> => Last(active[p]) \in ToSet(active[p])
    BY <1>0, EndsAreIn DEF TypeOK
  <2> QED
    BY <1>0, <2>1 DEF Active, Live
<1>2. \A k \in Key : routes[p][k] # None => routes[p][k] \in Conn /\ phase[routes[p][k]] # "free"
  <2>1. \A k \in Key : routes[p][k] \in Conn \cup {None}
    BY <1>0 DEF TypeOK
  <2>2. \A c \in overlapped : phase[c] # "free"
    BY DEF Harmless, InHand
  <2> QED
    BY <2>1, <2>2 DEF Harmless, Routed, Live
<1> QED
  BY <1>0, <1>1, <1>2 DEF FindTarget

\* The mark of Close, whoever sets it.
LEMMA MarkHarmless ==
  ASSUME Typing, Harmless, NEW v \in Conn, Live(v),
         phase' = [phase EXCEPT ![v] = "marked"], overlapped' = AfterMark(v),
         UNCHANGED <<home, routes, writer, reader, crashed>>
  PROVE  Harmless'
<1>0. TypeOK /\ overlapped \subseteq Conn
  BY DEF Typing, TypeOK
<1>1. /\ \A c \in Conn : phase'[c] = IF c = v THEN "marked" ELSE phase[c]
      /\ \A c \in Conn : Live(c) => Live(c)'
  BY <1>0 DEF Live, TypeOK
<1>2. overlapped \subseteq overlapped' /\ overlapped' \subseteq overlapped \cup {v}
  BY DEF AfterMark
<1>3. Handled(v) => v \in overlapped'
  BY DEF AfterMark
<1>4. Routed'
  BY <1>0, <1>1, <1>2 DEF Harmless, Routed, TypeOK
<1>5. \A c \in overlapped' : phase'[c] # "free"
  BY <1>0, <1>1, <1>2 DEF Harmless, InHand
<1>6. \A c \in Conn : writer'[c] # None => phase'[c] = "open" \/ c \in overlapped'
  BY <1>1, <1>2, <1>3 DEF Harmless, InHand, Handled
<1>7. ASSUME NEW p \in Port, reader'[p].to # None
      PROVE  LET c == reader'[p].to IN
               phase'[c] # "free" /\ (reader'[p].pc = "send" => phase'[c] = "open" \/ c \in overlapped')
  <2>1. reader[p].to \in Conn
    BY <1>0, <1>7 DEF TypeOK, ReaderAt
  <2>2. reader[p].to = v => v \in overlapped'
    BY <1>3 DEF Handled
  <2> QED
    BY <1>1, <1>2, <1>7, <2>1, <2>2 DEF Harmless, InHand
<1>8. crashed' => overlapped' # {}
  BY <1>2 DEF Harmless, InHand
<1> QED
  BY <1>4, <1>5, <1>6, <1>7, <1>8 DEF Harmless, InHand

LEMMA StepHarmless ==
  ASSUME Typing, Harmless, [Next]_vars
  PROVE  Harmless'
<1> USE RingAssumption
<1>0. TypeOK /\ Placed /\ Active
  BY DEF Typing
<1>a. \A p \in Port : reader[p] \in ReaderAt
  BY <1>0 DEF TypeOK
<1>b. \A c \in Conn : phase[c] # "free" => home[c] \in Port
  BY <1>0 DEF TypeOK, Placed
<1>1. ASSUME UNCHANGED <<home, phase, routes, writer, reader, crashed, overlapped>> PROVE Harmless'
  BY <1>1 DEF Harmless, Routed, InHand, Live
\* A step of the reader of one port.
<1>2. ASSUME NEW p \in Port, UNCHANGED <<home, phase, routes, writer, overlapped>>,
             NEW r \in ReaderAt, reader' = [reader EXCEPT ![p] = r],
             r.to # None => /\ phase[r.to] # "free"
                            /\ r.pc = "send" => phase[r.to] = "open" \/ r.to \in overlapped,
             crashed' => overlapped # {}
      PROVE  Harmless'
  <2>1. \A q \in Port : reader'[q] = IF q = p THEN r ELSE reader[q]
    BY <1>0, <1>2 DEF TypeOK
  <2> QED
    BY <1>2, <2>1 DEF Harmless, Routed, InHand, Live
<1>3. CASE UNCHANGED vars
  BY <1>1, <1>3 DEF vars, connVars, nodeVars
<1>4. CASE \/ AllocateRefused \/ ShutdownStarts \/ ShutdownNode \/ ShutdownUnlock \/ ShutdownDone
  BY <1>1, <1>4 DEF AllocateRefused, ShutdownStarts, ShutdownNode, ShutdownUnlock, ShutdownDone,
     connVars, nodeVars
<1>5. CASE ShutdownConn
  <2> DEFINE v == Head(active[closer.port])
  <2>1. v \in ToSet(active[closer.port]) /\ closer.port \in Port
    BY <1>0, <1>5, EndsAreIn DEF ShutdownConn, Placed, TypeOK
  <2>2. v \in Conn /\ Live(v)
    BY <1>0, <2>1 DEF Active
  <2>3. /\ phase' = [phase EXCEPT ![v] = "marked"] /\ overlapped' = AfterMark(v)
        /\ UNCHANGED <<home, routes, writer, reader, crashed>>
    BY <1>5 DEF ShutdownConn, nodeVars
  <2> HIDE DEF v
  <2> QED
    BY <2>2, <2>3, MarkHarmless
<1>6. ASSUME NEW c \in Conn, Allocate(c) PROVE Harmless'
  <2>1. /\ home' = [home EXCEPT ![c] = current] /\ phase' = [phase EXCEPT ![c] = "open"]
        /\ phase[c] = "free" /\ UNCHANGED <<routes, writer, reader, crashed, overlapped>>
    BY <1>6 DEF Allocate
  <2>2. /\ \A d \in Conn : phase'[d] = IF d = c THEN "open" ELSE phase[d]
        /\ \A d \in Conn : home'[d] = IF d = c THEN current ELSE home[d]
        /\ \A d \in Conn : Live(d)' <=> Live(d) \/ d = c
    BY <1>0, <2>1 DEF Live, TypeOK
  <2>3. c \notin overlapped /\ \A p \in Port, k \in Key : routes[p][k] # c
    <3>1. c \notin overlapped /\ ~Live(c) /\ c # None
      BY <2>1 DEF Harmless, InHand, Live
    <3> QED
      BY <3>1 DEF Harmless, Routed
  <2>4. Routed'
    BY <1>0, <2>1, <2>2, <2>3 DEF Harmless, Routed, TypeOK
  <2>5. InHand'
    BY <1>0, <1>a, <2>1, <2>2 DEF Harmless, InHand, TypeOK, ReaderAt
  <2> QED
    BY <2>4, <2>5 DEF Harmless
<1>7. ASSUME NEW c \in Conn, TakeInbound(c) PROVE Harmless'
  BY <1>1, <1>7 DEF TakeInbound, nodeVars
<1>8. ASSUME NEW c \in Conn, NEW ip \in Ip, RegisterPermission(c, ip) PROVE Harmless'
  <2> DEFINE q == home[c]
             v == Last(active[q])
  <2>1. /\ q \in Port /\ active[q] # <<>> /\ routes' = [routes EXCEPT ![q][ip] = v]
        /\ UNCHANGED <<home, phase, writer, reader, crashed, overlapped>>
    BY <1>8, <1>b DEF RegisterPermission, connVars
  <2>2. v \in ToSet(active[q])
    BY <1>0, <2>1, EndsAreIn DEF TypeOK
  <2>3. v \in Conn /\ Live(v) /\ home[v] = q
    BY <1>0, <2>1, <2>2 DEF Active
  <2> HIDE DEF v
  <2>4. \A p \in Port, k \in Key : routes'[p][k] = IF p = q /\ k = ip THEN v ELSE routes[p][k]
    BY <1>0, <2>1 DEF TypeOK, Key
  <2> QED
    BY <2>1, <2>3, <2>4 DEF Harmless, Routed, InHand, Live
<1>9. ASSUME NEW c \in Conn, NEW a \in Peer, WriteCheck(c, a) PROVE Harmless'
  <2>1. /\ phase[c] = "open" /\ writer' = [writer EXCEPT ![c] = a]
        /\ UNCHANGED <<home, phase, routes, reader, crashed, overlapped>>
    BY <1>9 DEF WriteCheck, ClosedFlag, connVars, nodeVars
  <2> QED
    BY <1>0, <2>1 DEF Harmless, Routed, InHand, Live, TypeOK
<1>10. ASSUME NEW c \in Conn, WriteRegister(c) PROVE Harmless'
  <2> DEFINE w == writer[c]
             q == home[c]
  <2>1. w \in Peer /\ q \in Port /\ IpOf[w] \in Ip /\ (Live(c) \/ c \in overlapped)
    BY <1>0, <1>10 DEF WriteRegister, TypeOK, Placed, Harmless, InHand, Live
  <2>2. /\ routes' = [routes EXCEPT ![q] = [routes[q] EXCEPT ![w] = c, ![IpOf[w]] = c]]
        /\ writer' = [writer EXCEPT ![c] = None]
        /\ UNCHANGED <<home, phase, reader, crashed, overlapped>>
    BY <1>10 DEF WriteRegister, WithRoute, connVars
  <2> HIDE DEF w
  <2>3. \A p \in Port, k \in Key :
          routes'[p][k] = IF p = q /\ k \in {w, IpOf[w]} THEN c ELSE routes[p][k]
    BY <1>0, <2>1, <2>2 DEF TypeOK, Key
  <2>4. Routed'
    BY <2>1, <2>2, <2>3 DEF Harmless, Routed, Live
  <2> QED
    BY <1>0, <2>2, <2>4 DEF Harmless, InHand, TypeOK
<1>11. ASSUME NEW c \in Conn, CloseMark(c) PROVE Harmless'
  BY <1>11, MarkHarmless DEF CloseMark, Live, nodeVars
<1>12. ASSUME NEW c \in Conn, CloseChannel(c) PROVE Harmless'
  BY <1>0, <1>12 DEF CloseChannel, Harmless, Routed, InHand, Live, TypeOK, nodeVars
<1>13. ASSUME NEW c \in Conn, CloseUnregister(c) PROVE Harmless'
  <2>1. /\ phase' = [phase EXCEPT ![c] = "unregistered"] /\ phase[c] = "marked"
        /\ UNCHANGED <<home, writer, reader, crashed, overlapped>>
        /\ routes' = [routes EXCEPT ![home[c]] = WithoutRoutes(routes[home[c]], c)]
    BY <1>13 DEF CloseUnregister
  <2>2. \A d \in Conn : /\ phase'[d] = IF d = c THEN "unregistered" ELSE phase[d]
                        /\ d # c => (Live(d)' <=> Live(d))
    BY <1>0, <2>1 DEF Live, TypeOK
  <2>3. \A p \in Port, k \in Key :
          routes'[p][k] = IF p = home[c] /\ routes[p][k] = c THEN None ELSE routes[p][k]
    BY <1>0, <2>1 DEF TypeOK, WithoutRoutes
  <2>4. \A p \in Port, k \in Key : routes'[p][k] # None =>
          routes'[p][k] = routes[p][k] /\ routes[p][k] \in Conn /\ routes[p][k] # c
    BY <1>0, <2>3 DEF Harmless, Routed, TypeOK
  <2>5. Routed'
    BY <2>1, <2>2, <2>4 DEF Harmless, Routed
  <2>6. InHand'
    BY <1>0, <1>a, <2>1, <2>2 DEF Harmless, InHand, TypeOK, ReaderAt
  <2> QED
    BY <2>5, <2>6 DEF Harmless
<1>14. ASSUME NEW p \in Port, DeliverCheck(p) PROVE Harmless'
  <2> DEFINE r == IF ClosedFlag(reader[p].to) THEN [pc |-> "read", to |-> None]
                                              ELSE [reader[p] EXCEPT !.pc = "send"]
  <2>1. r \in ReaderAt /\ (r.to # None => r.to = reader[p].to /\ ~ClosedFlag(reader[p].to))
    BY <1>a DEF ReaderAt
  <2>2. reader' = [reader EXCEPT ![p] = r] /\ UNCHANGED <<home, phase, routes, writer, crashed, overlapped>>
    BY <1>14 DEF DeliverCheck, connVars, nodeVars
  <2> HIDE DEF r
  <2>3. r.to # None => phase[r.to] = "open"
    BY <1>0, <2>1 DEF ClosedFlag, Harmless, InHand
  <2> QED
    BY <1>2, <2>1, <2>2, <2>3 DEF Harmless, InHand
<1>15. ASSUME NEW p \in Port, DeliverSend(p) PROVE Harmless'
  <2> PICK at \in {"read", "record"} : reader' = [reader EXCEPT ![p] = [pc |-> at, to |-> None]]
    BY <1>15 DEF DeliverSend
  <2>1. UNCHANGED <<home, phase, routes, writer, overlapped>>
    BY <1>15 DEF DeliverSend, nodeVars
  <2>2. [pc |-> at, to |-> None] \in ReaderAt
    BY DEF ReaderAt
  <2>3. crashed' => overlapped # {}
    <3>1. reader[p].to # None /\ reader[p].pc = "send"
      BY <1>0, <1>15 DEF DeliverSend, Placed
    <3> QED
      BY <1>15, <3>1 DEF DeliverSend, Harmless, InHand
  <2> QED
    BY <1>2, <2>1, <2>2, <2>3
<1>16. ASSUME NEW p \in Port, ReaderStops(p) \/ DeliverRecorded(p) PROVE Harmless'
  <2> PICK at \in {"stopped", "read"} : reader' = [reader EXCEPT ![p].pc = at]
    BY <1>16 DEF ReaderStops, DeliverRecorded
  <2> DEFINE r == [reader[p] EXCEPT !.pc = at]
  <2>1. r \in ReaderAt /\ r.to = reader[p].to /\ r.pc = at
    BY <1>a DEF ReaderAt
  <2>2. reader' = [reader EXCEPT ![p] = r] /\ UNCHANGED <<home, phase, routes, writer, crashed, overlapped>>
    BY <1>16 DEF ReaderStops, DeliverRecorded, connVars, nodeVars
  <2> HIDE DEF r
  <2> QED
    BY <1>2, <2>1, <2>2 DEF Harmless, InHand
<1>17. ASSUME NEW p \in Port, NEW a \in Peer, ReadPacket(p, a) PROVE Harmless'
  <2> DEFINE r == IF FindTarget(p, a) = None THEN reader[p]
                  ELSE [pc |-> "found", to |-> FindTarget(p, a)]
  <2>1. r \in ReaderAt
    BY <1>a, FoundIsAllocated DEF ReaderAt
  <2>2. reader' = [reader EXCEPT ![p] = r] /\ UNCHANGED <<home, phase, routes, writer, crashed, overlapped>>
    BY <1>17 DEF ReadPacket, connVars, nodeVars
  <2>3. r.to # None => /\ phase[r.to] # "free"
                       /\ r.pc = "send" => phase[r.to] = "open" \/ r.to \in overlapped
    BY FoundIsAllocated DEF Harmless, InHand
  <2> HIDE DEF r
  <2> QED
    BY <1>2, <2>1, <2>2, <2>3 DEF Harmless, InHand
<1> QED
  BY <1>3, <1>4, <1>5, <1>6, <1>7, <1>8, <1>9, <1>10, <1>11, <1>12, <1>13, <1>14, <1>15,
     <1>16, <1>17, Steps

\* A Close that overlaps nobody's work on a packet of its connection leaves no
\* stale route and cannot make the process panic.
THEOREM OnlyOverlapsDo == Spec => []OnlyOverlapsHarm
<1>1. Init => Typing /\ Harmless
  BY InitTyped DEF Init, Harmless, Routed, InHand
<1>2. Typing /\ Harmless /\ [Next]_vars => (Typing /\ Harmless)'
  BY StepTyped, StepActive, StepHarmless DEF Typing
<1>3. Harmless => OnlyOverlapsHarm
  BY DEF Harmless, Routed, InHand, OnlyOverlapsHarm
<1> QED
  BY <1>1, <1>2, <1>3, PTL DEF Spec

-----------------------------------------------------------------------------
(* How the ring is built *)

CONSTANTS PortBits, ConfiguredPorts
VARIABLES minPort, maxPort, port, nodes, pc
Ring == INSTANCE RingPorts

\* The loop has appended a node for each port below the counter; of the bounds
\* the lower comes first, and 0 is refused before the loop.
Building ==
  /\ minPort <= maxPort
  /\ pc = "new" => nodes = [p \in Ring!Port |-> 0]
  /\ pc = "building" => minPort <= port /\ port <= maxPort + 1
  /\ pc = "building" => \A p \in Ring!Port : nodes[p] = IF p \in minPort..(port - 1) THEN 1 ELSE 0

\* Under a last port that is the largest number the counter never gets past it.
Endless == maxPort = Ring!MaxUint => pc # "built"

PortsInv ==
  Ring!TypeOK /\ Endless /\ (maxPort < Ring!MaxUint => Building /\ Ring!RingExact)

LEMMA PortNumbers ==
  ASSUME 2^PortBits \in Nat \ {0}
  PROVE  /\ Ring!MaxUint \in Nat /\ 2^PortBits = Ring!MaxUint + 1
         /\ \A p \in Ring!Port : /\ p \in Nat /\ Ring!NextPort(p) \in Ring!Port
                                 /\ p < Ring!MaxUint => Ring!NextPort(p) = p + 1
<1>1. Ring!MaxUint \in Nat /\ 2^PortBits = Ring!MaxUint + 1
  BY DEF Ring!MaxUint
<1> HIDE DEF Ring!MaxUint
<1> DEFINE m == 2^PortBits
<1>2. \A p \in Ring!Port : p \in Nat /\ p <= Ring!MaxUint /\ (p + 1) % m \in 0..(m - 1)
  BY <1>1 DEF Ring!Port
<1>3. \A p \in Ring!Port : p < Ring!MaxUint => (p + 1) % m = p + 1
  BY <1>1, <1>2
<1> QED
  BY <1>1, <1>2, <1>3 DEF Ring!NextPort, Ring!Port

LEMMA PortsStep ==
  ASSUME 2^PortBits \in Nat \ {0}, PortsInv, [Ring!Next]_Ring!vars
  PROVE  PortsInv'
<1>0. /\ Ring!MaxUint \in Nat
      /\ \A p \in Ring!Port : /\ p \in Nat /\ Ring!NextPort(p) \in Ring!Port
                              /\ p < Ring!MaxUint => Ring!NextPort(p) = p + 1
      /\ \A p : p \in Ring!Port <=> p \in 0..Ring!MaxUint
  BY PortNumbers DEF Ring!Port
<1> USE <1>0 DEF PortsInv, Ring!TypeOK, Endless, Building, Ring!RingExact, Ring!InLoop
<1>1. CASE Ring!Validate
  BY <1>1 DEF Ring!Validate
<1>2. CASE Ring!AppendNode
  <2>1. /\ pc = "building" /\ port <= maxPort /\ port' = Ring!NextPort(port)
        /\ UNCHANGED <<minPort, maxPort, pc>>
        /\ nodes' = [nodes EXCEPT ![port] = IF @ = 2 THEN 2 ELSE @ + 1]
    BY <1>2 DEF Ring!AppendNode
  <2>2. Ring!TypeOK' /\ Endless'
    BY <2>1
  <2>3. ASSUME maxPort < Ring!MaxUint PROVE Building' /\ Ring!RingExact'
    <3>1. port' = port + 1 /\ nodes[port] = 0
      BY <2>1, <2>3
    <3>2. \A p \in Ring!Port : nodes'[p] = IF p = port THEN 1 ELSE nodes[p]
      BY <2>1, <3>1
    <3>3. \A p \in Ring!Port : nodes'[p] = IF p \in minPort..(port' - 1) THEN 1 ELSE 0
      BY <2>1, <2>3, <3>1, <3>2
    <3> QED
      BY <2>1, <2>3, <3>1, <3>3
  <2> QED
    BY <2>1, <2>2, <2>3
<1>3. CASE Ring!LeaveLoop
  <2>1. /\ pc = "building" /\ ~(port <= maxPort) /\ pc' = "built"
        /\ UNCHANGED <<minPort, maxPort, port, nodes>>
    BY <1>3 DEF Ring!LeaveLoop
  <2>2. maxPort < Ring!MaxUint
    BY <2>1
  <2>3. port = maxPort + 1
    BY <2>1, <2>2
  <2> QED
    BY <2>1, <2>2, <2>3
<1>4. CASE UNCHANGED Ring!vars
  BY <1>4 DEF Ring!vars
<1> QED
  BY <1>1, <1>2, <1>3, <1>4 DEF Ring!Next, Ring!Settled

LEMMA PortsStart ==
  ASSUME 2^PortBits \in Nat \ {0}, ConfiguredPorts \subseteq Ring!Port, Ring!Init
  PROVE  PortsInv
<1>1. /\ Ring!MaxUint \in Nat /\ \A p \in Ring!Port : p \in Nat
      /\ \A p : p \in Ring!Port <=> p \in 0..Ring!MaxUint
  BY PortNumbers DEF Ring!Port
<1>2. minPort \in Ring!Port /\ maxPort \in Ring!Port /\ minPort <= maxPort
  BY <1>1 DEF Ring!Init, Ring!OrderedBounds
<1> QED
  BY <1>1, <1>2 DEF Ring!Init, PortsInv, Ring!TypeOK, Endless, Building, Ring!RingExact

\* Whatever two ports are configured, in whatever order, and whatever the width of
\* a port number: a ring that gets built has one node for each port of the range,
\* and none besides.
THEOREM RingIsExact ==
  ASSUME 2^PortBits \in Nat \ {0}, ConfiguredPorts \subseteq Ring!Port
  PROVE  Ring!Spec => []Ring!RingExact
<1>1. PortsInv => Ring!RingExact
  <2>1. Ring!MaxUint \in Nat /\ \A p : p \in Ring!Port <=> p \in 0..Ring!MaxUint
    BY PortNumbers DEF Ring!Port
  <2>2. Ring!TypeOK => maxPort < Ring!MaxUint \/ maxPort = Ring!MaxUint
    BY <2>1 DEF Ring!TypeOK
  <2> QED
    BY <2>2 DEF PortsInv, Endless, Ring!RingExact
<1> QED
  BY <1>1, PortsStart, PortsStep, PTL DEF Ring!Spec

\* The ring is never built where the last port is the largest port number, the
\* default of -max-port: whoever allocates first stays in the loop.
THEOREM NeverBuilt ==
  ASSUME 2^PortBits \in Nat \ {0}, ConfiguredPorts \subseteq Ring!Port
  PROVE  Ring!Spec => [](maxPort = Ring!MaxUint => pc # "built")
<1>1. PortsInv => (maxPort = Ring!MaxUint => pc # "built")
  BY DEF PortsInv, Endless
<1> QED
  BY <1>1, PortsStart, PortsStep, PTL DEF Ring!Spec
=============================================================================
