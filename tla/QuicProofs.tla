----------------------------- MODULE QuicProofs -----------------------------
(***************************************************************************)
(* The safety properties of the QUIC link, for any settings, dead timeout  *)
(* and longest pause.  The heartbeat's bounds rest on counting intervals   *)
(* and pings together; that both ends relay in one mode rests on the       *)
(* preface, which is echoed only if both ends use lanes.                   *)
(*                                                                         *)
(* And those of the server's replay cache, for any capacity, window and    *)
(* set of nonces.  That queue and map agree rests on the queue holding no  *)
(* nonce twice, so that a popped pair always is the entry's own.           *)
(*                                                                         *)
(* And the strict order of lane mode, for any credit and capacity.  It     *)
(* rests on output, queue, hand and stream, one after the other, being the *)
(* datagrams taken, in order.                                              *)
(***************************************************************************)
EXTENDS QuicLink, ReplayCache, Lanes, FiniteSetTheorems, SequenceTheorems, TLAPS

LanesAt(end) == ParseStreamLanes(setting[end])

\* The time since the server was heard is matched by pings and late ticks, but
\* for the tick that is due; a tick that is not due has been found in time.
HeartbeatInv ==
    /\ age <= DeadAfter + 1 + late /\ (~due => age <= DeadAfter)
    /\ age <= unanswered + late + 1 /\ (~due => age <= unanswered + late)

\* What the ends know of each other's mode.
ModeInv ==
    /\ clientAt = "open" => LanesAt("client") = 1
    /\ clientAt = "relay" => LanesAt("client") = 0 \/ (LanesAt("client") = 1 /\ echo)
    /\ echo => LanesAt("client") = 1 /\ LanesAt("server") = 1
    /\ serverAt = "accept" => LanesAt("server") = 1
    /\ serverAt = "relay" => LanesAt("server") = 0 \/ (LanesAt("server") = 1 /\ echo)

IInv == LinkTypeOK /\ HeartbeatInv /\ ModeInv

\* The constants are numbers.
LEMMA Constants == DeadAfter \in Nat \ {0} /\ MaxDelay \in Nat \ {0} /\ MaxLate \in Nat
BY LinkAssumption

\* The initial states satisfy the invariant.
LEMMA InitIInv == LinkInit => IInv
<1> SUFFICES ASSUME LinkInit PROVE IInv
  OBVIOUS
<1>1. LinkTypeOK
  <2>1. delay \in 1..MaxDelay /\ age \in Nat /\ unanswered \in Nat /\ late \in 0..MaxLate
    BY Constants DEF LinkInit
  <2> QED
    BY <2>1, Zenon DEF LinkInit, LinkTypeOK
<1>2. HeartbeatInv
  BY Constants DEF LinkInit, HeartbeatInv
<1>3. ModeInv
  BY DEF LinkInit, ModeInv
<1> QED
  BY <1>1, <1>2, <1>3 DEF IInv

\* Every step keeps the types.
LEMMA TypeStep ==
    ASSUME LinkTypeOK, [LinkNext]_linkVars
    PROVE  LinkTypeOK'
<1> USE Constants DEF LinkTypeOK, environment, heartbeat
<1>0. Drop /\ delay' = delay /\ UNCHANGED environment => LinkTypeOK'
  <2> SUFFICES ASSUME Drop, delay' = delay, UNCHANGED environment PROVE LinkTypeOK'
    OBVIOUS
  <2>1. age' \in Nat /\ unanswered' \in Nat /\ late' \in 0..MaxLate
    BY DEF Drop
  <2> QED
    BY <2>1, Zenon DEF Drop
<1>1. CASE Dial
  BY <1>1 DEF Dial
<1>2. CASE DialFails
  BY <1>0, <1>2 DEF DialFails
<1>3. CASE Authenticated
  <2>1. CASE Drop /\ delay' = delay /\ UNCHANGED environment
    BY <1>0, <2>1
  <2>2. CASE /\ clientAt' = "relay" /\ delay' = 1 /\ age' \in {0, 1} /\ due' = TRUE
             /\ UNCHANGED <<environment, serverAt, reply, echo, unanswered, late, stalled>>
    <3>1. delay' \in 1..MaxDelay /\ age' \in Nat
      BY <2>2
    <3> QED
      BY <2>2, <3>1
  <2>3. CASE /\ clientAt' = "open" /\ delay' = 1
             /\ UNCHANGED <<environment, serverAt, reply, echo, heartbeat>>
    BY <2>3
  <2> QED
    BY <1>3, <2>1, <2>2, <2>3 DEF Authenticated
<1>4. CASE Opened
  BY <1>4 DEF Opened
<1>5. CASE SeesClose
  BY <1>0, <1>5 DEF SeesClose
<1>6. CASE IdleTimeout
  BY <1>0, <1>6 DEF IdleTimeout
<1>7. CASE ClientError
  BY <1>0, <1>7 DEF ClientError
<1>8. CASE Wake
  BY <1>8 DEF Wake
<1>9. CASE HeartbeatTimeout
  BY <1>0, <1>9 DEF HeartbeatTimeout
<1>10. CASE Ping
  <2>1. unanswered' \in Nat
    BY <1>10 DEF Ping
  <2> QED
    BY <1>10, <2>1 DEF Ping
<1>11. CASE Interval
  BY <1>11 DEF Interval
<1>23. CASE LateTick
  <2>1. age' \in Nat /\ late' \in 0..MaxLate
    BY <1>23 DEF LateTick
  <2> QED
    BY <1>23, <2>1 DEF LateTick
<1>12. CASE ServerDatagram
  BY <1>12 DEF ServerDatagram
<1>13. CASE Stall
  BY <1>13 DEF Stall
<1>14. CASE Authenticate
  BY <1>14 DEF Authenticate, ChooseMode
<1>15. CASE AcceptLane
  BY <1>15 DEF AcceptLane
<1>16. CASE AuthenticationTimeout \/ LaneTimeout
  BY <1>16 DEF AuthenticationTimeout, LaneTimeout
<1>17. CASE ServerError
  BY <1>17 DEF ServerError
<1>18. CASE ServerIdle
  BY <1>18 DEF ServerIdle
<1>19. CASE PathChanges
  BY <1>19 DEF PathChanges
<1>20. CASE ServerStops
  BY <1>20 DEF ServerStops
<1>21. CASE ServerStarts
  BY <1>21 DEF ServerStarts
<1>22. CASE UNCHANGED linkVars
  BY <1>22 DEF linkVars
<1> QED
  BY <1>1, <1>2, <1>3, <1>4, <1>5, <1>6, <1>7, <1>8, <1>9, <1>10, <1>11,
     <1>12, <1>13, <1>14, <1>15, <1>16, <1>17, <1>18, <1>19, <1>20, <1>21, <1>22, <1>23
     DEF LinkNext, ClientStep, ServerStep

\* Every step keeps the count of intervals below the counts of pings and of
\* DeadAfter.
LEMMA HeartbeatStep ==
    ASSUME LinkTypeOK, HeartbeatInv, [LinkNext]_linkVars
    PROVE  HeartbeatInv'
<1> USE Constants DEF HeartbeatInv
<1>1. CASE UNCHANGED <<age, due, unanswered, late>>
  BY <1>1
<1>2. CASE Drop
  BY <1>2 DEF Drop
<1>3. CASE Authenticated
  <2>1. CASE age' \in {0, 1} /\ due' = TRUE /\ unanswered' = unanswered /\ late' = late
    BY <2>1 DEF LinkTypeOK
  <2> QED
    BY <1>1, <1>2, <1>3, <2>1 DEF Authenticated, heartbeat
<1>4. CASE Ping
  BY <1>4 DEF Ping, Dead, LinkTypeOK
<1>5. CASE Interval
  BY <1>5 DEF Interval, TickReady, LinkTypeOK
<1>6. CASE ServerDatagram
  BY <1>6 DEF ServerDatagram, LinkTypeOK
<1>7. CASE LateTick
  BY <1>7 DEF LateTick, TickReady, LinkTypeOK
<1> QED
  <2>1. CASE DialFails \/ SeesClose \/ IdleTimeout \/ ClientError \/ HeartbeatTimeout
    BY <1>2, <2>1 DEF DialFails, SeesClose, IdleTimeout, ClientError, HeartbeatTimeout
  <2>2. CASE Dial \/ Opened \/ Wake \/ Stall
    BY <1>1, <2>2 DEF Dial, Opened, Wake, Stall, heartbeat
  <2>3. CASE ServerStep \/ ServerError \/ ServerIdle
    BY <1>1, <2>3 DEF ServerStep, Authenticate, AuthenticationTimeout, AcceptLane, LaneTimeout,
       ServerError, ServerIdle, heartbeat
  <2>4. CASE PathChanges \/ ServerStops \/ ServerStarts \/ UNCHANGED linkVars
    BY <1>1, <2>4 DEF PathChanges, ServerStops, ServerStarts, linkVars, heartbeat
  <2> QED
    BY <1>3, <1>4, <1>5, <1>6, <1>7, <2>1, <2>2, <2>3, <2>4 DEF LinkNext, ClientStep

\* No step changes the settings.
LEMMA SettingStep ==
    ASSUME [LinkNext]_linkVars
    PROVE  setting' = setting
BY DEF LinkNext, ClientStep, ServerStep, Dial, DialFails, Authenticated, Opened, SeesClose,
       IdleTimeout, ClientError, Wake, HeartbeatTimeout, Ping, Interval, LateTick,
       ServerDatagram, Stall, Authenticate, AuthenticationTimeout, AcceptLane, LaneTimeout, ServerError, ServerIdle, PathChanges,
       ServerStops, ServerStarts, environment, linkVars

\* Every step keeps what the ends know of each other's mode.
LEMMA ModeStep ==
    ASSUME LinkTypeOK, ModeInv, [LinkNext]_linkVars
    PROVE  ModeInv'
<1> USE SettingStep DEF ModeInv, LanesAt
<1>1. CASE UNCHANGED <<clientAt, serverAt, echo>>
  BY <1>1
<1>2. CASE Drop
  BY <1>2 DEF Drop
<1>3. CASE Dial
  BY <1>3 DEF Dial
<1>4. CASE Authenticated
  <2>1. CASE clientAt' = "relay" /\ LanesAt("client") = 0 /\ UNCHANGED <<serverAt, echo>>
    BY <2>1
  <2>2. CASE clientAt' = "open" /\ LanesAt("client") = 1 /\ UNCHANGED <<serverAt, echo>>
    BY <2>2
  <2> QED
    BY <1>2, <1>4, <2>1, <2>2 DEF Authenticated
<1>5. CASE Opened
  BY <1>5 DEF Opened
<1>6. CASE Wake
  BY <1>6 DEF Wake
<1>7. CASE Authenticate
  BY <1>7 DEF Authenticate, ChooseMode
<1>8. CASE AcceptLane
  BY <1>8 DEF AcceptLane
<1>9. CASE AuthenticationTimeout \/ LaneTimeout \/ ServerError \/ ServerIdle \/ ServerStops
  BY <1>9 DEF AuthenticationTimeout, LaneTimeout, ServerError, ServerIdle, ServerStops
<1> QED
  <2>1. CASE DialFails \/ SeesClose \/ IdleTimeout \/ ClientError \/ HeartbeatTimeout
    BY <1>2, <2>1 DEF DialFails, SeesClose, IdleTimeout, ClientError, HeartbeatTimeout
  <2>2. CASE Ping \/ Interval \/ LateTick \/ ServerDatagram \/ Stall
    BY <1>1, <2>2 DEF Ping, Interval, LateTick, ServerDatagram, Stall
  <2>3. CASE PathChanges \/ ServerStarts \/ UNCHANGED linkVars
    BY <1>1, <2>3 DEF PathChanges, ServerStarts, linkVars
  <2> QED
    BY <1>3, <1>4, <1>5, <1>6, <1>7, <1>8, <1>9, <2>1, <2>2, <2>3 DEF LinkNext, ClientStep, ServerStep

\* The invariant is inductive.
LEMMA Invariance == LinkSpec => []IInv
<1>1. IInv /\ [LinkNext]_linkVars => IInv'
  BY TypeStep, HeartbeatStep, ModeStep DEF IInv
<1> QED
  BY <1>1, InitIInv, PTL DEF LinkSpec

\* The link's variables keep their types, whatever the settings.
THEOREM TypeCorrect == LinkSpec => []LinkTypeOK
<1>1. IInv => LinkTypeOK
  BY DEF IInv
<1> QED
  BY <1>1, Invariance, PTL

\* In datagram mode a carrier from which nothing is heard is given up within
\* one interval of CARRIER_DEAD_TIMEOUT and of the lateness of the ticks, also
\* while the sending half waits.
THEOREM Noticed == LinkSpec => []DeadCarrierNoticed
<1>1. IInv => DeadCarrierNoticed
  BY DEF IInv, HeartbeatInv, DeadCarrierNoticed
<1> QED
  BY <1>1, Invariance, PTL

\* Two ends that relay over one connection use the same mode, whatever their
\* settings of SMART_QUIC_STREAM_LANES.
THEOREM OneMode == LinkSpec => []ModesAgree
<1>1. IInv => ModesAgree
  BY DEF IInv, ModeInv, ModesAgree, LanesAt
<1> QED
  BY <1>1, Invariance, PTL

\* The heartbeat ends a session only after DeadAfter unanswered pings in a
\* row, less one for every interval its ticks were late.
THEOREM Tolerance == LinkSpec => HeartbeatTolerant
<1>1. IInv /\ [LinkNext]_linkVars => [HeartbeatTimeout => unanswered + late >= DeadAfter]_linkVars
  BY Constants DEF IInv, LinkTypeOK, HeartbeatInv, HeartbeatTimeout, Dead
<1> QED
  BY <1>1, Invariance, PTL DEF LinkSpec, HeartbeatTolerant

-----------------------------------------------------------------------------
\* The replay cache

\* The order of the natural numbers as a relation.
Below == {ss \in Nat \X Nat : ss[1] < ss[2]}

\* A set of natural numbers that is not empty has a least element.
LEMMA LeastNat ==
  ASSUME NEW T, T \subseteq Nat, T # {}
  PROVE \E x \in T : \A y \in T : x <= y
<1>1. Below = OpToRel(<,Nat)
  BY DEF OpToRel, Below
<1>2. IsWellFoundedOn(Below, Nat)
  BY <1>1, NatLessThanWellFounded
<1>3. PICK x \in T : \A y \in T : ~ (<<y, x>> \in Below)
  BY <1>2, WFMin
<1>4. ASSUME NEW y \in T PROVE x <= y
  <2>1. x \in Nat /\ y \in Nat /\ <<y, x>> \in Nat \X Nat /\ <<y, x>> \notin Below
    BY <1>3
  <2>2. ~(y < x)
    BY <2>1 DEF Below
  <2> QED BY <2>1, <2>2
<1> QED BY <1>4

\* Queue and map hold the same pairs, and the queue holds none of them twice.
QueueIsMap ==
    /\ \A i \in 1..Len(order) :
        order[i].nonce \in DOMAIN entries /\ order[i].expires = entries[order[i].nonce]
    /\ \A n \in DOMAIN entries : \E i \in 1..Len(order) : order[i].nonce = n
    /\ \A i, j \in 1..Len(order) : order[i].nonce = order[j].nonce => i = j

\* An accepted envelope that is not excused is in the map until its timestamp
\* is out of the window.
Remembered ==
    \A n \in accepted \ excused :
        /\ stamp[n] # 0
        /\ \/ n \in DOMAIN entries /\ entries[n] > stamp[n] + AuthWindow
           \/ now > stamp[n] + AuthWindow

\* The inductive invariant of the cache.
CacheInv ==
    /\ CacheTypeOK /\ now > MaxSkew
    /\ QueueIsMap /\ DOMAIN entries \subseteq accepted
    /\ Remembered /\ AcceptedOnce

\* The queue holds pairs of a nonce and a time.
LEMMA QueuePair ==
  ASSUME CacheTypeOK, NEW i \in 1..Len(order)
  PROVE  /\ order[i] \in [nonce : Nonces, expires : Nat]
         /\ order[i].nonce \in Nonces /\ order[i].expires \in Nat
         /\ order[i] = [nonce |-> order[i].nonce, expires |-> order[i].expires]
<1>1. order[i] \in [nonce : Nonces, expires : Nat]
  BY ElementOfSeq DEF CacheTypeOK
<1> QED BY <1>1

\* The expiry loop ends, and has popped only pairs that are out of time.
LEMMA ExpiredChosen ==
  ASSUME CacheTypeOK
  PROVE  Expired \in 0..Len(order) /\ \A i \in 1..Expired : order[i].expires <= now
<1> DEFINE T == {k \in 0..Len(order) : k < Len(order) => order[k + 1].expires > now}
<1>1. Len(order) \in T /\ T \subseteq Nat
  BY DEF CacheTypeOK
<1>2. PICK k \in T : \A j \in T : k <= j
  BY <1>1, LeastNat
<1>3. k \in 0..Len(order) /\ (k < Len(order) => order[k + 1].expires > now)
  OBVIOUS
<1>4. ASSUME NEW i \in 1..k PROVE order[i].expires <= now
  <2>1. i - 1 \notin T /\ i - 1 \in 0..Len(order) /\ i - 1 < Len(order)
    BY <1>2, <1>3 DEF CacheTypeOK
  <2>2. ~(order[i - 1 + 1].expires > now)
    BY <2>1
  <2>3. i \in 1..Len(order) /\ i - 1 + 1 = i
    BY <1>3 DEF CacheTypeOK
  <2>4. order[i].expires \in Nat /\ now \in Nat
    BY <2>3, QueuePair DEF CacheTypeOK
  <2> QED BY <2>2, <2>3, <2>4
<1> QED BY <1>3, <1>4 DEF Expired

\* When k pairs are popped, the map has the nonces of the others: none is left
\* without a pair, and no pair without its entry.
LEMMA RemainingIs ==
  ASSUME CacheTypeOK, QueueIsMap, NEW k \in 0..Len(order)
  PROVE  Remaining(k) = {order[i].nonce : i \in (k + 1)..Len(order)}
<1>1. ASSUME NEW n \in DOMAIN entries, NEW i \in 1..Len(order)
      PROVE  order[i].nonce = n <=> order[i] = [nonce |-> n, expires |-> entries[n]]
  <2>1. /\ order[i] = [nonce |-> order[i].nonce, expires |-> order[i].expires]
        /\ order[i].expires = entries[order[i].nonce]
    BY QueuePair DEF QueueIsMap
  <2> QED BY <2>1
<1>2. ASSUME NEW n \in Remaining(k) PROVE \E i \in (k + 1)..Len(order) : order[i].nonce = n
  <2>1. n \in DOMAIN entries /\ n \notin Covered(k)
    BY DEF Remaining
  <2>2. PICK i \in 1..Len(order) : order[i].nonce = n
    BY <2>1 DEF QueueIsMap
  <2>3. i \notin 1..k
    BY <1>1, <2>1, <2>2 DEF Covered
  <2> QED BY <2>2, <2>3
<1>3. ASSUME NEW i \in (k + 1)..Len(order) PROVE order[i].nonce \in Remaining(k)
  <2>1. i \in 1..Len(order) /\ i \notin 1..k
    OBVIOUS
  <2>2. order[i].nonce \in DOMAIN entries
    BY <2>1 DEF QueueIsMap
  <2>3. ASSUME NEW j \in 1..k, order[j] = [nonce |-> order[i].nonce, expires |-> entries[order[i].nonce]]
        PROVE  FALSE
    <3>1. j \in 1..Len(order) /\ order[j].nonce = order[i].nonce
      BY <2>3
    <3> QED BY <2>1, <3>1 DEF QueueIsMap
  <2> QED BY <2>2, <2>3 DEF Remaining, Covered
<1> QED BY <1>2, <1>3

\* Map and queue have the same length after any number of pops.
LEMMA RemainingCount ==
  ASSUME CacheTypeOK, QueueIsMap, NEW k \in 0..Len(order)
  PROVE  Cardinality(Remaining(k)) = Len(order) - k
<1> DEFINE S == (k + 1)..Len(order)
           f == [i \in S |-> order[i].nonce]
<1>1. IsFiniteSet(S) /\ Cardinality(S) = Len(order) - k
  <2>1. Len(order) \in Nat /\ Len(order) \in Int /\ k + 1 \in Int
    BY DEF CacheTypeOK
  <2>2. /\ IsFiniteSet(S)
        /\ Cardinality(S) = IF k + 1 > Len(order) THEN 0 ELSE Len(order) - (k + 1) + 1
    BY <2>1, FS_Interval
  <2> QED BY <2>1, <2>2
<1>2. Remaining(k) = {f[i] : i \in S}
  BY RemainingIs
<1>3. \A i, j \in S : f[i] = f[j] => i = j
  BY DEF QueueIsMap
<1> HIDE DEF f, S
<1>4. f \in Bijection(S, Remaining(k))
  BY <1>2, <1>3, f = [i \in S |-> f[i]] DEF f, Bijection, Injection, Surjection, IsInjective
<1> QED BY <1>1, <1>4, FS_Bijection DEF ExistsBijection

\* The eviction loop ends with room for one more.
LEMMA EvictedChosen ==
  ASSUME CacheTypeOK, QueueIsMap
  PROVE  Evicted \in Expired..Len(order) /\ Len(order) - Evicted < Capacity
<1> DEFINE T == {k \in Expired..Len(order) : Cardinality(Remaining(k)) < Capacity \/ k = Len(order)}
<1>1. Expired \in 0..Len(order)
  BY ExpiredChosen
<1>2. Len(order) \in T /\ T \subseteq Nat
  BY <1>1 DEF CacheTypeOK
<1>3. PICK k \in T : \A j \in T : k <= j
  BY <1>2, LeastNat
<1>4. k \in Expired..Len(order) /\ (Cardinality(Remaining(k)) < Capacity \/ k = Len(order))
  OBVIOUS
<1>5. ASSUME NEW j \in Expired..(k - 1) PROVE Cardinality(Remaining(j)) >= Capacity
  <2>1. j \notin T /\ j \in Expired..Len(order) /\ j # Len(order)
    BY <1>1, <1>3, <1>4
  <2>2. ~(Cardinality(Remaining(j)) < Capacity)
    BY <2>1
  <2>3. Cardinality(Remaining(j)) \in Nat
    BY <1>1, <2>1, RemainingCount
  <2> QED BY <2>2, <2>3, CacheAssumption
<1>6. /\ Evicted \in Expired..Len(order)
      /\ Cardinality(Remaining(Evicted)) < Capacity \/ Evicted = Len(order)
  BY <1>4, <1>5 DEF Evicted
<1> QED BY <1>1, <1>6, RemainingCount, CacheAssumption DEF CacheTypeOK

\* What the queue is made of.
Pairs == [nonce : Nonces, expires : Nat]

\* The queue after k pops.
LEMMA PoppedQueue ==
  ASSUME CacheTypeOK, NEW k \in 0..Len(order)
  PROVE  /\ SubSeq(order, k + 1, Len(order)) \in Seq(Pairs)
         /\ Len(SubSeq(order, k + 1, Len(order))) = Len(order) - k
         /\ \A i \in 1..(Len(order) - k) : SubSeq(order, k + 1, Len(order))[i] = order[i + k]
<1>1. Len(order) \in Nat /\ order \in Seq(Pairs)
  BY DEF CacheTypeOK, Pairs
<1>2. \A i \in (k + 1)..Len(order) : order[i] \in Pairs
  BY <1>1, ElementOfSeq
<1>3. /\ SubSeq(order, k + 1, Len(order)) \in Seq(Pairs)
      /\ Len(SubSeq(order, k + 1, Len(order))) =
            IF k + 1 <= Len(order) THEN Len(order) - (k + 1) + 1 ELSE 0
      /\ \A i \in 1..(Len(order) - (k + 1) + 1) :
            SubSeq(order, k + 1, Len(order))[i] = order[(k + 1) + i - 1]
  BY <1>1, <1>2, SubSeqProperties
<1> QED BY <1>1, <1>3

\* The pairs that are not popped are still a queue and a map that agree.
LEMMA PopAgrees ==
  ASSUME CacheTypeOK, QueueIsMap, NEW k \in 0..Len(order), Pop(k)
  PROVE  /\ QueueIsMap'
         /\ entries' \in [DOMAIN entries' -> Nat] /\ DOMAIN entries' \subseteq DOMAIN entries
         /\ order' \in Seq(Pairs) /\ Len(order') <= Capacity
<1>1. DOMAIN entries' = Remaining(k) /\ \A n \in Remaining(k) : entries'[n] = entries[n]
  BY DEF Pop
<1>2. /\ order' \in Seq(Pairs) /\ Len(order') = Len(order) - k
      /\ \A i \in 1..Len(order') : order'[i] = order[i + k] /\ i + k \in (k + 1)..Len(order)
  BY PoppedQueue DEF Pop
<1>3. Remaining(k) = {order[i].nonce : i \in (k + 1)..Len(order)} /\ Remaining(k) \subseteq DOMAIN entries
  BY RemainingIs DEF Remaining
<1>4. ASSUME NEW i \in 1..Len(order')
      PROVE  order'[i].nonce \in DOMAIN entries' /\ order'[i].expires = entries'[order'[i].nonce]
  <2>1. order'[i] = order[i + k] /\ i + k \in 1..Len(order) /\ order[i + k].nonce \in Remaining(k)
    BY <1>2, <1>3
  <2>2. order[i + k].expires = entries[order[i + k].nonce]
    BY <2>1 DEF QueueIsMap
  <2> QED BY <1>1, <2>1, <2>2
<1>5. ASSUME NEW n \in DOMAIN entries' PROVE \E i \in 1..Len(order') : order'[i].nonce = n
  <2>1. PICK j \in (k + 1)..Len(order) : order[j].nonce = n
    BY <1>1, <1>3
  <2>2. j - k \in 1..Len(order') /\ order'[j - k] = order[j]
    BY <1>2, j - k + k = j
  <2> QED BY <2>1, <2>2
<1>6. ASSUME NEW i \in 1..Len(order'), NEW j \in 1..Len(order'), order'[i].nonce = order'[j].nonce
      PROVE  i = j
  <2>1. i + k \in 1..Len(order) /\ j + k \in 1..Len(order) /\ order[i + k].nonce = order[j + k].nonce
    BY <1>2, <1>6
  <2>2. i + k = j + k
    BY <2>1 DEF QueueIsMap
  <2> QED BY <2>2, <1>2
<1>7. Len(order') <= Capacity
  BY <1>2, CacheAssumption DEF CacheTypeOK
<1>8. entries' \in [DOMAIN entries' -> Nat]
  BY <1>1, <1>3 DEF CacheTypeOK, Pop
<1> QED BY <1>1, <1>2, <1>3, <1>4, <1>5, <1>6, <1>7, <1>8 DEF QueueIsMap

\* The same with a new pair at the end of the queue and in the map.
LEMMA PopInsertAgrees ==
  ASSUME CacheTypeOK, QueueIsMap, NEW k \in 0..Len(order), Len(order) - k < Capacity,
         NEW n \in Nonces, n \notin Remaining(k), PopInsert(k, n)
  PROVE  /\ QueueIsMap'
         /\ entries' \in [DOMAIN entries' -> Nat] /\ DOMAIN entries' = Remaining(k) \cup {n}
         /\ order' \in Seq(Pairs) /\ Len(order') <= Capacity
<1> DEFINE popped == SubSeq(order, k + 1, Len(order))
           new == [nonce |-> n, expires |-> Expiry]
<1>1. /\ DOMAIN entries' = Remaining(k) \cup {n} /\ entries'[n] = Expiry
      /\ \A m \in Remaining(k) : entries'[m] = entries[m]
  BY DEF PopInsert
<1>2. /\ popped \in Seq(Pairs) /\ Len(popped) = Len(order) - k /\ Len(order) \in Nat
      /\ \A i \in 1..Len(popped) : popped[i] = order[i + k] /\ i + k \in (k + 1)..Len(order)
  <2>1. Len(order) \in Nat
    BY DEF CacheTypeOK
  <2>2. /\ popped \in Seq(Pairs) /\ Len(popped) = Len(order) - k
        /\ \A i \in 1..(Len(order) - k) : popped[i] = order[i + k]
    BY PoppedQueue
  <2> HIDE DEF popped
  <2> QED BY <2>1, <2>2
<1>3. Expiry \in Nat /\ new \in Pairs
  BY CacheAssumption DEF Expiry, Pairs, CacheTypeOK
<1> HIDE DEF popped, new
<1>4. /\ order' = Append(popped, new) /\ order' \in Seq(Pairs) /\ Len(order') = Len(popped) + 1
      /\ \A i \in 1..Len(popped) : order'[i] = popped[i]
      /\ order'[Len(popped) + 1] = new
  <2>1. order' = Append(popped, new)
    BY DEF PopInsert, popped, new
  <2> QED BY <2>1, <1>2, <1>3, AppendProperties
<1>5. Remaining(k) = {order[i].nonce : i \in (k + 1)..Len(order)} /\ Remaining(k) \subseteq DOMAIN entries
  BY RemainingIs DEF Remaining
<1>6. new.nonce = n /\ new.expires = Expiry
  BY DEF new
<1>7. ASSUME NEW i \in 1..Len(popped)
      PROVE  /\ order'[i].nonce \in Remaining(k) /\ order'[i] = order[i + k]
             /\ order'[i].expires = entries'[order'[i].nonce]
  <2>1. order'[i] = order[i + k] /\ i + k \in 1..Len(order) /\ order[i + k].nonce \in Remaining(k)
    BY <1>2, <1>4, <1>5
  <2>2. order[i + k].expires = entries[order[i + k].nonce]
    BY <2>1 DEF QueueIsMap
  <2> QED BY <1>1, <2>1, <2>2
<1>8. \A i \in 1..Len(order') : i \in 1..Len(popped) \/ i = Len(popped) + 1
  BY <1>2, <1>4
<1>9. ASSUME NEW i \in 1..Len(order')
      PROVE  order'[i].nonce \in DOMAIN entries' /\ order'[i].expires = entries'[order'[i].nonce]
  BY <1>1, <1>4, <1>6, <1>7, <1>8
<1>10. ASSUME NEW m \in DOMAIN entries' PROVE \E i \in 1..Len(order') : order'[i].nonce = m
  <2>1. CASE m = n
    BY <2>1, <1>2, <1>4, <1>6
  <2>2. CASE m \in Remaining(k)
    <3>1. PICK j \in (k + 1)..Len(order) : order[j].nonce = m
      BY <1>5, <2>2
    <3>2. j - k \in 1..Len(popped) /\ j - k + k = j
      BY <1>2
    <3>3. j - k \in 1..Len(order') /\ order'[j - k] = order[j]
      BY <1>2, <1>4, <1>7, <3>2
    <3> QED BY <3>1, <3>3
  <2> QED BY <1>1, <2>1, <2>2
<1>11. ASSUME NEW i \in 1..Len(order'), NEW j \in 1..Len(order'), order'[i].nonce = order'[j].nonce
       PROVE  i = j
  <2>1. CASE i \in 1..Len(popped) /\ j \in 1..Len(popped)
    <3>1. order[i + k].nonce = order[j + k].nonce
      BY <1>7, <1>11, <2>1
    <3>2. i + k \in 1..Len(order) /\ j + k \in 1..Len(order)
      BY <1>2, <2>1
    <3>3. i + k = j + k
      BY <3>1, <3>2 DEF QueueIsMap
    <3> QED BY <3>3, <1>2
  <2> QED BY <1>4, <1>6, <1>7, <1>8, <1>11, <2>1
<1>12. Len(order') <= Capacity
  BY <1>2, <1>4, CacheAssumption
<1>13. entries' \in [DOMAIN entries' -> Nat]
  BY <1>1, <1>3, <1>5 DEF CacheTypeOK, PopInsert
<1> QED BY <1>1, <1>4, <1>9, <1>10, <1>11, <1>12, <1>13 DEF QueueIsMap

\* A new cache satisfies the invariant.
LEMMA CacheInitially == CacheInit => CacheInv
<1> SUFFICES ASSUME CacheInit PROVE CacheInv
  OBVIOUS
<1>1. order = <<>> /\ Len(order) = 0 /\ DOMAIN entries = {} /\ accepted = {} /\ again = {}
  BY DEF CacheInit
<1>2. CacheTypeOK /\ now > MaxSkew
  BY <1>1, CacheAssumption DEF CacheInit, CacheTypeOK
<1> QED BY <1>1, <1>2 DEF CacheInv, QueueIsMap, Remembered, AcceptedOnce

\* A live entry survives the expiry loop.
LEMMA LiveRemains ==
  ASSUME CacheTypeOK, QueueIsMap, NEW n \in DOMAIN entries, entries[n] > now
  PROVE  n \in Remaining(Expired)
<1>1. PICK i \in 1..Len(order) : order[i].nonce = n
  BY DEF QueueIsMap
<1>2. order[i].expires = entries[n]
  BY <1>1 DEF QueueIsMap
<1>3. i \notin 1..Expired
  <2>1. entries[n] \in Nat /\ now \in Nat
    BY DEF CacheTypeOK
  <2> QED BY <1>2, <2>1, ExpiredChosen
<1> QED BY <1>1, <1>3, ExpiredChosen, RemainingIs

\* A replay is refused: only expired pairs go.
LEMMA RefusedStep ==
  ASSUME CacheInv, NEW n \in Nonces, n \in Remaining(Expired), Pop(Expired),
         UNCHANGED <<now, stamp, accepted, again, excused>>
  PROVE  CacheInv'
<1> USE DEF CacheInv
<1>1. Expired \in 0..Len(order)
  BY ExpiredChosen
<1>2. /\ QueueIsMap'
      /\ entries' \in [DOMAIN entries' -> Nat] /\ DOMAIN entries' \subseteq DOMAIN entries
      /\ order' \in Seq(Pairs) /\ Len(order') <= Capacity
  BY <1>1, PopAgrees
<1>3. CacheTypeOK'
  BY <1>2 DEF CacheTypeOK, Pairs
<1>4. ASSUME NEW m \in accepted \ excused
      PROVE  /\ stamp[m] # 0
             /\ \/ m \in DOMAIN entries' /\ entries'[m] > stamp[m] + AuthWindow
                \/ now > stamp[m] + AuthWindow
  <2>1. stamp[m] \in Nat /\ now \in Nat /\ stamp[m] # 0 /\ m \in Nonces
    BY DEF CacheTypeOK, Remembered
  <2>2. ASSUME m \in DOMAIN entries, entries[m] > stamp[m] + AuthWindow, ~(now > stamp[m] + AuthWindow)
        PROVE  m \in DOMAIN entries' /\ entries'[m] = entries[m]
    <3>1. entries[m] \in Nat
      BY <2>2 DEF CacheTypeOK
    <3>2. entries[m] > now
      BY <2>1, <2>2, <3>1, CacheAssumption
    <3>3. m \in Remaining(Expired)
      BY <2>2, <3>2, LiveRemains
    <3> QED BY <3>3 DEF Pop
  <2> QED BY <2>1, <2>2 DEF Remembered
<1> QED BY <1>2, <1>3, <1>4 DEF Remembered, AcceptedOnce

\* An envelope is accepted: its pair stays until its timestamp is out of the
\* window, or else it is excused.
LEMMA AcceptedStep ==
  ASSUME CacheInv, NEW n \in Nonces, n \notin Remaining(Expired), PopInsert(Evicted, n),
         stamp[n] # 0, now <= stamp[n] + AuthWindow,
         accepted' = accepted \cup {n},
         again' = again \cup (accepted \cap {n}),
         excused' = excused \cup (Remaining(Expired) \ Remaining(Evicted))
                            \cup (IF stamp[n] > now THEN {n} ELSE {}),
         UNCHANGED <<now, stamp>>
  PROVE  CacheInv'
<1> USE DEF CacheInv
<1>1. Expired \in 0..Len(order) /\ Evicted \in Expired..Len(order) /\ Len(order) - Evicted < Capacity
  BY ExpiredChosen, EvictedChosen
<1>2. Evicted \in 0..Len(order) /\ Len(order) \in Nat
  BY <1>1 DEF CacheTypeOK
<1>3. Remaining(Evicted) \subseteq Remaining(Expired) /\ Remaining(Expired) \subseteq DOMAIN entries
  BY <1>1, <1>2, RemainingIs DEF Remaining
<1>4. /\ QueueIsMap'
      /\ entries' \in [DOMAIN entries' -> Nat] /\ DOMAIN entries' = Remaining(Evicted) \cup {n}
      /\ order' \in Seq(Pairs) /\ Len(order') <= Capacity
  BY <1>1, <1>2, <1>3, PopInsertAgrees
<1>5. CacheTypeOK'
  <2>1. DOMAIN entries' \subseteq Nonces /\ excused' \subseteq Nonces
    BY <1>3, <1>4 DEF CacheTypeOK
  <2> QED BY <1>4, <2>1 DEF CacheTypeOK, Pairs
<1>6. DOMAIN entries' \subseteq accepted'
  BY <1>3, <1>4
<1>7. ASSUME NEW m \in accepted \ excused, ~(now > stamp[m] + AuthWindow)
      PROVE  /\ m \in Remaining(Expired) /\ entries[m] > stamp[m] + AuthWindow
             /\ stamp[m] # 0
  <2>1. stamp[m] \in Nat /\ now \in Nat /\ stamp[m] # 0 /\ m \in Nonces
    BY DEF CacheTypeOK, Remembered
  <2>2. m \in DOMAIN entries /\ entries[m] > stamp[m] + AuthWindow
    BY <1>7 DEF Remembered
  <2>3. entries[m] \in Nat
    BY <2>2 DEF CacheTypeOK
  <2>4. entries[m] > now
    BY <1>7, <2>1, <2>2, <2>3, CacheAssumption
  <2> QED BY <2>1, <2>2, <2>4, LiveRemains
<1>8. n \in accepted => n \in excused
  <2>1. stamp[n] \in Nat /\ now \in Nat
    BY DEF CacheTypeOK
  <2>2. ~(now > stamp[n] + AuthWindow)
    BY <2>1, CacheAssumption
  <2> QED BY <1>7, <2>2
<1>9. AcceptedOnce'
  BY <1>8 DEF AcceptedOnce
<1>10. ASSUME NEW m \in accepted' \ excused'
       PROVE  /\ stamp[m] # 0
              /\ \/ m \in DOMAIN entries' /\ entries'[m] > stamp[m] + AuthWindow
                 \/ now > stamp[m] + AuthWindow
  <2>1. CASE m = n
    <3>1. stamp[n] \in Nat /\ now \in Nat /\ ~(stamp[n] > now)
      BY <2>1 DEF CacheTypeOK
    <3>2. entries'[n] = now + AuthWindow + 1
      BY DEF PopInsert, Expiry
    <3>3. entries'[n] > stamp[n] + AuthWindow
      BY <3>1, <3>2, CacheAssumption
    <3> QED BY <2>1, <3>3, <1>4
  <2>2. CASE m # n
    <3>1. m \in accepted \ excused /\ m \notin Remaining(Expired) \ Remaining(Evicted)
      BY <2>2
    <3>2. CASE ~(now > stamp[m] + AuthWindow)
      <4>1. m \in Remaining(Evicted) /\ entries[m] > stamp[m] + AuthWindow /\ stamp[m] # 0
        BY <3>1, <3>2, <1>7
      <4>2. entries'[m] = entries[m]
        BY <2>2, <4>1 DEF PopInsert
      <4> QED BY <4>1, <4>2, <1>4
    <3>3. CASE now > stamp[m] + AuthWindow
      BY <3>1, <3>3 DEF Remembered
    <3> QED BY <3>2, <3>3
  <2> QED BY <2>1, <2>2
<1> QED BY <1>4, <1>5, <1>6, <1>9, <1>10 DEF Remembered

\* Every step keeps the invariant, also when the clock is set back and the queue
\* is no longer sorted.
LEMMA CacheStep == CacheInv /\ [CacheNext]_cacheVars => CacheInv'
<1> SUFFICES ASSUME CacheInv, [CacheNext]_cacheVars PROVE CacheInv'
  OBVIOUS
<1>1. ASSUME NEW n \in Nonces, NEW genuine \in BOOLEAN, VerifyEnvelope(n, genuine) PROVE CacheInv'
  <2>0. CASE ~genuine
    BY <1>1, <2>0 DEF VerifyEnvelope, Prove, CacheInv, CacheTypeOK, QueueIsMap, Remembered, AcceptedOnce
  <2> SUFFICES ASSUME genuine PROVE CacheInv'
    BY <2>0
  <2>1. /\ stamp[n] # 0 /\ Absolute(now - stamp[n]) <= AuthWindow
        /\ CheckAndInsert(n) /\ UNCHANGED <<now, stamp>>
        /\ IF Known(n) THEN UNCHANGED <<accepted, again>> ELSE Claims(n)
    BY <1>1 DEF VerifyEnvelope, Prove
  <2>2. now <= stamp[n] + AuthWindow
    <3>1. now \in Nat /\ stamp[n] \in Nat
      BY DEF CacheInv, CacheTypeOK
    <3> QED BY <2>1, <3>1, CacheAssumption DEF Absolute
  <2>3. CASE n \in Remaining(Expired)
    BY <2>1, <2>3, RefusedStep DEF CheckAndInsert, Known
  <2>4. CASE n \notin Remaining(Expired)
    BY <2>1, <2>2, <2>4, AcceptedStep DEF CheckAndInsert, Known, Claims
  <2> QED BY <2>3, <2>4
<1>2. ASSUME NEW n \in Nonces, AuthenticateClient(n) PROVE CacheInv'
  <2>1. PICK t \in (now - MaxSkew)..(now + MaxSkew) : MakeEnvelope(n, t)
    BY <1>2 DEF AuthenticateClient
  <2>2. t \in Nat
    BY CacheAssumption DEF CacheInv, CacheTypeOK
  <2>3. UNCHANGED <<entries, order, now, accepted, again, excused>>
    BY <2>1 DEF MakeEnvelope
  <2>4. stamp[n] = 0 /\ stamp' \in [Nonces -> Nat] /\ \A m \in Nonces \ {n} : stamp'[m] = stamp[m]
    BY <2>1, <2>2 DEF MakeEnvelope, CacheInv, CacheTypeOK
  <2>5. CacheTypeOK' /\ QueueIsMap' /\ AcceptedOnce'
    BY <2>3, <2>4 DEF CacheInv, CacheTypeOK, QueueIsMap, AcceptedOnce
  <2>6. Remembered'
    BY <2>3, <2>4 DEF CacheInv, CacheTypeOK, Remembered
  <2> QED BY <2>3, <2>5, <2>6 DEF CacheInv
<1>3. CASE Second
  <2>1. UNCHANGED <<entries, order, stamp, accepted, again, excused>> /\ now' = now + 1
    BY <1>3 DEF Second
  <2>2. now \in Nat /\ now' \in Nat /\ now' > MaxSkew
    BY <2>1, CacheAssumption DEF CacheInv, CacheTypeOK
  <2>3. CacheTypeOK' /\ QueueIsMap' /\ AcceptedOnce'
    BY <2>1, <2>2 DEF CacheInv, CacheTypeOK, QueueIsMap, AcceptedOnce
  <2>4. ASSUME NEW m \in accepted PROVE stamp[m] \in Nat
    BY DEF CacheInv, CacheTypeOK
  <2>5. Remembered'
    BY <2>1, <2>2, <2>4, CacheAssumption DEF CacheInv, Remembered
  <2> QED BY <2>1, <2>2, <2>3, <2>5 DEF CacheInv
<1>4. CASE SetBack
  <2>1. /\ UNCHANGED <<entries, order, stamp, accepted, again>> /\ now' = now - 1
        /\ now > MaxSkew + 1 /\ excused' = Nonces
    BY <1>4 DEF SetBack
  <2>2. now' \in Nat /\ now' > MaxSkew
    BY <2>1, CacheAssumption DEF CacheInv, CacheTypeOK
  <2>3. CacheTypeOK' /\ QueueIsMap' /\ AcceptedOnce'
    BY <2>1, <2>2 DEF CacheInv, CacheTypeOK, QueueIsMap, AcceptedOnce
  <2>4. Remembered'
    BY <2>1 DEF CacheInv, CacheTypeOK, Remembered
  <2> QED BY <2>1, <2>2, <2>3, <2>4 DEF CacheInv
<1>5. CASE UNCHANGED cacheVars
  BY <1>5 DEF cacheVars, CacheInv, CacheTypeOK, QueueIsMap, Remembered, AcceptedOnce
<1> QED BY <1>1, <1>2, <1>3, <1>4, <1>5 DEF CacheNext

\* The invariant contains the properties of the cache.
LEMMA CacheImplies == CacheInv => CacheTypeOK /\ CacheAgrees /\ AcceptedOnce
<1> SUFFICES ASSUME CacheInv PROVE CacheAgrees
  BY DEF CacheInv
<1>1. CacheTypeOK /\ QueueIsMap /\ 0 \in 0..Len(order) /\ Len(order) \in Nat
  BY DEF CacheInv, CacheTypeOK
<1>2. Remaining(0) = DOMAIN entries
  BY DEF Remaining, Covered
<1>3. Cardinality(DOMAIN entries) = Len(order) - 0
  BY <1>1, <1>2, RemainingCount
<1>4. {order[i].nonce : i \in 1..Len(order)} = DOMAIN entries
  <2>1. Remaining(0) = {order[i].nonce : i \in (0 + 1)..Len(order)}
    BY <1>1, RemainingIs
  <2>2. 0 + 1 = 1
    OBVIOUS
  <2> QED BY <1>2, <2>1, <2>2, Zenon
<1>5. Len(order) = Cardinality(DOMAIN entries)
  BY <1>1, <1>3
<1>6. \A i \in 1..Len(order) : order[i].expires = entries[order[i].nonce]
  BY <1>1 DEF QueueIsMap
<1>7. DOMAIN entries \subseteq accepted
  BY DEF CacheInv
<1> QED BY <1>4, <1>5, <1>6, <1>7, Zenon DEF CacheAgrees

\* The replay cache stays within its capacity.
THEOREM CacheTypeCorrect == CacheSpec => []CacheTypeOK
BY CacheInitially, CacheStep, CacheImplies, PTL DEF CacheSpec

\* check_and_insert keeps queue and map in agreement, whatever the capacity, the
\* window, and the clock do, and only accepted envelopes occupy the cache.
THEOREM CacheAgreement == CacheSpec => []CacheAgrees
BY CacheInitially, CacheStep, CacheImplies, PTL DEF CacheSpec

\* verify_envelope accepts an envelope once, but for the exceptions the code
\* leaves open.
THEOREM EnvelopesOnce == CacheSpec => []AcceptedOnce
BY CacheInitially, CacheStep, CacheImplies, PTL DEF CacheSpec

-----------------------------------------------------------------------------

\* The datagrams of one direction in order: put out, queued, in the reader's
\* hand, in the stream; `written' of them in all.
Ordered(out, channel, held, lane, written) ==
    /\ out \in Seq(Nat) /\ channel \in Seq(Nat) /\ lane \in Seq(Nat)
    /\ \A i \in 1..Len(out) : out[i] = i
    /\ \A i \in 1..Len(channel) : channel[i] = Len(out) + i
    /\ \/ /\ held = 0
          /\ \A i \in 1..Len(lane) : lane[i] = Len(out) + Len(channel) + i
          /\ written = Len(out) + Len(channel) + Len(lane)
       \/ /\ held = Len(out) + Len(channel) + 1
          /\ \A i \in 1..Len(lane) : lane[i] = Len(out) + Len(channel) + 1 + i
          /\ written = Len(out) + Len(channel) + 1 + Len(lane)

\* What an end has written: all it has taken, but for the one it is writing.
Written(e) == IF writing[e] THEN taken[e] - 1 ELSE taken[e]

\* The direction that ends at e.
InOrder(e) ==
    Ordered(output[e], queue[e], hand[e][0], stream[Other(e)][0], Written(Other(e)))

\* The types of the loops, streams and queues, and the bounds of the last two.
LaneTypes ==
    /\ taken \in [Ends -> 0..MaxTaken] /\ writing \in [Ends -> BOOLEAN] /\ nextLane \in [Ends -> {0}]
    /\ stream \in [Ends -> [{0} -> Seq(Nat)]] /\ hand \in [Ends -> [{0} -> Nat]]
    /\ queue \in [Ends -> Seq(Nat)] /\ output \in [Ends -> Seq(Nat)]
    /\ \A e \in Ends : Len(stream[e][0]) <= LaneCredit /\ Len(queue[e]) <= QueueCapacity

\* The inductive invariant of lane mode: each direction is in order.
LanesInv == LaneTypes /\ \A e \in Ends : InOrder(e)

\* "Keep the product mode strictly ordered" (quic_relay.rs:48): what an end has
\* put out is what the other has taken from its socket, from the first on, in that
\* order, nothing skipped and nothing twice.
LanesOrdered ==
    \A e \in Ends :
        /\ Len(output[e]) <= taken[Other(e)]
        /\ \A i \in 1..Len(output[e]) : output[e][i] = i

\* MAX_STREAM_LANES is 1: there is one lane, and after it comes itself.
LEMMA OneLane == 0..(LaneCount - 1) = {0} /\ \A l \in {0} : (l + 1) % LaneCount = 0
BY DEF LaneCount

\* A connection begins with nothing taken, under way or put out.
LEMMA LanesInitially == LanesInit => LanesInv
<1>. SUFFICES ASSUME LanesInit PROVE LanesInv
  OBVIOUS
<1>1. LaneTypes
  BY OneLane, LaneAssumption DEF LanesInit, LaneTypes, Ends
<1>2. ASSUME NEW e \in Ends PROVE InOrder(e)
  <2>1. Ordered(<<>>, <<>>, 0, <<>>, 0)
    BY DEF Ordered
  <2>2. Written(Other(e)) = 0
    BY DEF LanesInit, Written, Other, Ends
  <2>. QED  BY <2>1, <2>2, OneLane DEF LanesInit, InOrder, Other, Ends
<1>. QED  BY <1>1, <1>2 DEF LanesInv

\* A direction in order: what is put out or in hand is among what was written.
LEMMA OrderedTypes ==
    ASSUME NEW out, NEW channel, NEW held, NEW lane, NEW written,
           Ordered(out, channel, held, lane, written)
    PROVE  /\ Len(out) \in Nat /\ Len(channel) \in Nat /\ Len(lane) \in Nat
           /\ written \in Nat /\ held \in Nat /\ held <= written /\ Len(out) <= written
<1>1. Len(out) \in Nat /\ Len(channel) \in Nat /\ Len(lane) \in Nat
  BY DEF Ordered
<1>. QED  BY <1>1 DEF Ordered

\* write_stream_datagram appends the datagram whose turn it is.
LEMMA OrderedWrite ==
    ASSUME NEW out, NEW channel, NEW held, NEW lane, NEW written,
           Ordered(out, channel, held, lane, written)
    PROVE  Ordered(out, channel, held, Append(lane, written + 1), written + 1)
<1>1. lane \in Seq(Nat) /\ written + 1 \in Nat
  BY OrderedTypes DEF Ordered
<1>. DEFINE longer == Append(lane, written + 1)
<1>2. /\ longer \in Seq(Nat) /\ Len(longer) = Len(lane) + 1
      /\ \A i \in 1..Len(lane) : longer[i] = lane[i]
      /\ longer[Len(lane) + 1] = written + 1
  BY <1>1, AppendProperties
<1>. HIDE DEF longer
<1>3. \A i \in 1..Len(longer) : i \in 1..Len(lane) \/ i = Len(lane) + 1
  BY <1>2, OrderedTypes
<1>. SUFFICES Ordered(out, channel, held, longer, written + 1)
  BY DEF longer
<1>4. CASE /\ held = 0
           /\ \A i \in 1..Len(lane) : lane[i] = Len(out) + Len(channel) + i
           /\ written = Len(out) + Len(channel) + Len(lane)
  <2>1. \A i \in 1..Len(longer) : longer[i] = Len(out) + Len(channel) + i
    <3>1. Len(out) \in Nat /\ Len(channel) \in Nat /\ Len(lane) \in Nat
      BY OrderedTypes
    <3>2. written + 1 = Len(out) + Len(channel) + (Len(lane) + 1)
      BY <1>4, <3>1
    <3>3. \A i \in 1..Len(lane) : longer[i] = Len(out) + Len(channel) + i
      BY <1>2, <1>4
    <3>. QED  BY <1>2, <1>3, <3>2, <3>3
  <2>2. written + 1 = Len(out) + Len(channel) + Len(longer)
    BY <1>2, <1>4, OrderedTypes
  <2>3. out \in Seq(Nat) /\ channel \in Seq(Nat) /\ (\A i \in 1..Len(out) : out[i] = i)
        /\ \A i \in 1..Len(channel) : channel[i] = Len(out) + i
    BY DEF Ordered
  <2>. QED  BY <1>2, <1>4, <2>1, <2>2, <2>3 DEF Ordered
<1>5. CASE /\ held = Len(out) + Len(channel) + 1
           /\ \A i \in 1..Len(lane) : lane[i] = Len(out) + Len(channel) + 1 + i
           /\ written = Len(out) + Len(channel) + 1 + Len(lane)
  <2>1. \A i \in 1..Len(longer) : longer[i] = Len(out) + Len(channel) + 1 + i
    <3>1. Len(out) \in Nat /\ Len(channel) \in Nat /\ Len(lane) \in Nat
      BY OrderedTypes
    <3>2. written + 1 = Len(out) + Len(channel) + 1 + (Len(lane) + 1)
      BY <1>5, <3>1
    <3>3. \A i \in 1..Len(lane) : longer[i] = Len(out) + Len(channel) + 1 + i
      BY <1>2, <1>5
    <3>. QED  BY <1>2, <1>3, <3>2, <3>3
  <2>2. written + 1 = Len(out) + Len(channel) + 1 + Len(longer)
    BY <1>2, <1>5, OrderedTypes
  <2>3. out \in Seq(Nat) /\ channel \in Seq(Nat) /\ (\A i \in 1..Len(out) : out[i] = i)
        /\ \A i \in 1..Len(channel) : channel[i] = Len(out) + i
    BY DEF Ordered
  <2>. QED  BY <1>2, <1>5, <2>1, <2>2, <2>3 DEF Ordered
<1>. QED  BY <1>4, <1>5 DEF Ordered

\* read_stream_datagram takes the first of the stream into the hand.
LEMMA OrderedRead ==
    ASSUME NEW out, NEW channel, NEW lane, NEW written,
           Ordered(out, channel, 0, lane, written), lane # <<>>
    PROVE  Ordered(out, channel, Head(lane), Tail(lane), written)
<1>1. /\ lane \in Seq(Nat) /\ \A i \in 1..Len(lane) : lane[i] = Len(out) + Len(channel) + i
      /\ written = Len(out) + Len(channel) + Len(lane)
  BY OrderedTypes DEF Ordered
<1>. DEFINE rest == Tail(lane)
<1>2. /\ rest \in Seq(Nat) /\ Len(rest) = Len(lane) - 1 /\ Head(lane) = lane[1]
      /\ \A i \in 1..Len(rest) : rest[i] = lane[i + 1]
  BY <1>1, HeadTailProperties
<1>3. Len(lane) \in Nat \ {0}
  BY <1>1
<1>. HIDE DEF rest
<1>4. Head(lane) = Len(out) + Len(channel) + 1
  BY <1>1, <1>2, <1>3
<1>5. \A i \in 1..Len(rest) : rest[i] = Len(out) + Len(channel) + 1 + i
  BY <1>1, <1>2, <1>3, OrderedTypes
<1>6. written = Len(out) + Len(channel) + 1 + Len(rest)
  BY <1>1, <1>2, <1>3, OrderedTypes
<1>. QED  BY <1>2, <1>4, <1>5, <1>6 DEF Ordered, rest

\* tx.send puts the datagram in hand behind those queued.
LEMMA OrderedEnqueue ==
    ASSUME NEW out, NEW channel, NEW held, NEW lane, NEW written,
           Ordered(out, channel, held, lane, written), held # 0
    PROVE  Ordered(out, Append(channel, held), 0, lane, written)
<1>1. /\ channel \in Seq(Nat) /\ held \in Nat /\ held = Len(out) + Len(channel) + 1
      /\ \A i \in 1..Len(lane) : lane[i] = Len(out) + Len(channel) + 1 + i
      /\ written = Len(out) + Len(channel) + 1 + Len(lane)
      /\ \A i \in 1..Len(channel) : channel[i] = Len(out) + i
  BY OrderedTypes DEF Ordered
<1>. DEFINE longer == Append(channel, held)
<1>2. /\ longer \in Seq(Nat) /\ Len(longer) = Len(channel) + 1
      /\ \A i \in 1..Len(channel) : longer[i] = channel[i]
      /\ longer[Len(channel) + 1] = held
  BY <1>1, AppendProperties
<1>. HIDE DEF longer
<1>3. \A i \in 1..Len(longer) : i \in 1..Len(channel) \/ i = Len(channel) + 1
  BY <1>2, OrderedTypes
<1>4. \A i \in 1..Len(longer) : longer[i] = Len(out) + i
  <2>1. Len(out) \in Nat /\ Len(channel) \in Nat
    BY OrderedTypes
  <2>2. held = Len(out) + (Len(channel) + 1)
    BY <1>1, <2>1
  <2>3. \A i \in 1..Len(channel) : longer[i] = Len(out) + i
    BY <1>1, <1>2
  <2>. QED  BY <1>2, <1>3, <2>2, <2>3
<1>5. Len(out) + Len(channel) + 1 = Len(out) + Len(longer)
  BY <1>2, OrderedTypes
<1>6. /\ \A i \in 1..Len(lane) : lane[i] = Len(out) + Len(longer) + i
      /\ written = Len(out) + Len(longer) + Len(lane)
  BY <1>1, <1>5
<1>. QED  BY <1>2, <1>4, <1>6 DEF Ordered, longer

\* The loop moves the first of the queue to its socket.
LEMMA OrderedPutOut ==
    ASSUME NEW out, NEW channel, NEW held, NEW lane, NEW written,
           Ordered(out, channel, held, lane, written), channel # <<>>
    PROVE  Ordered(Append(out, Head(channel)), Tail(channel), held, lane, written)
<1>1. /\ out \in Seq(Nat) /\ channel \in Seq(Nat)
      /\ \A i \in 1..Len(out) : out[i] = i
      /\ \A i \in 1..Len(channel) : channel[i] = Len(out) + i
  BY DEF Ordered
<1>. DEFINE rest == Tail(channel)
            longer == Append(out, Head(channel))
<1>2. /\ rest \in Seq(Nat) /\ Len(rest) = Len(channel) - 1 /\ Head(channel) = channel[1]
      /\ \A i \in 1..Len(rest) : rest[i] = channel[i + 1]
  BY <1>1, HeadTailProperties
<1>3. Len(channel) \in Nat \ {0} /\ Len(out) \in Nat
  BY <1>1
<1>4. Head(channel) = Len(out) + 1 /\ Head(channel) \in Nat
  BY <1>1, <1>2, <1>3
<1>5. /\ longer \in Seq(Nat) /\ Len(longer) = Len(out) + 1
      /\ \A i \in 1..Len(out) : longer[i] = out[i]
      /\ longer[Len(out) + 1] = Head(channel)
  BY <1>1, <1>4, AppendProperties
<1>. HIDE DEF rest, longer
<1>6. \A i \in 1..Len(longer) : i \in 1..Len(out) \/ i = Len(out) + 1
  BY <1>3, <1>5
<1>7. \A i \in 1..Len(longer) : longer[i] = i
  BY <1>1, <1>4, <1>5, <1>6
<1>8. \A i \in 1..Len(rest) : rest[i] = Len(longer) + i
  BY <1>1, <1>2, <1>3, <1>5
<1>9. Len(longer) + Len(rest) = Len(out) + Len(channel)
  BY <1>2, <1>3, <1>5
<1>. QED  BY <1>2, <1>5, <1>7, <1>8, <1>9 DEF Ordered, rest, longer

\* Every step of a loop or reader keeps both directions in order: it works on one
\* and leaves the other as it is.
LEMMA LanesStep == LanesInv /\ [LanesNext]_laneVars => LanesInv'
<1>. SUFFICES ASSUME LanesInv, [LanesNext]_laneVars PROVE LanesInv'
  OBVIOUS
<1>. USE LaneAssumption
<1>0. /\ taken \in [Ends -> 0..MaxTaken] /\ writing \in [Ends -> BOOLEAN] /\ nextLane \in [Ends -> {0}]
      /\ stream \in [Ends -> [{0} -> Seq(Nat)]] /\ hand \in [Ends -> [{0} -> Nat]]
      /\ queue \in [Ends -> Seq(Nat)] /\ output \in [Ends -> Seq(Nat)]
  BY DEF LanesInv, LaneTypes
<1>1. \A e \in Ends : Other(e) \in Ends /\ Other(Other(e)) = e /\ Other(e) # e
  BY DEF Ends, Other
<1>2. ASSUME NEW e \in Ends, Take(e) PROVE LanesInv'
  <2>1. /\ ~writing[e] /\ taken[e] < MaxTaken
        /\ taken' = [taken EXCEPT ![e] = taken[e] + 1] /\ writing' = [writing EXCEPT ![e] = TRUE]
        /\ UNCHANGED <<nextLane, stream, hand, queue, output>>
    BY <1>2 DEF Take
  <2>2. LaneTypes'
    <3>1. taken' \in [Ends -> 0..MaxTaken]
      BY <1>0, <2>1
    <3>2. writing' \in [Ends -> BOOLEAN]
      BY <1>0, <2>1
    <3>. QED  BY <2>1, <3>1, <3>2 DEF LanesInv, LaneTypes
  <2>3. \A x \in Ends : Written(x)' = Written(x)
    <3>1. \A x \in Ends : x # e => taken'[x] = taken[x] /\ writing'[x] = writing[x]
      BY <1>0, <2>1
    <3>2. taken'[e] = taken[e] + 1 /\ taken[e] \in Nat
      BY <1>0, <2>1
    <3>3. writing'[e] = TRUE
      BY <1>0, <2>1
    <3>4. Written(e)' = taken[e] + 1 - 1
      BY <3>2, <3>3 DEF Written
    <3>5. Written(e) = taken[e]
      BY <2>1 DEF Written
    <3>. QED  BY <3>1, <3>2, <3>4, <3>5 DEF Written
  <2>4. \A x \in Ends : InOrder(x)'
    BY <1>1, <2>1, <2>3 DEF LanesInv, InOrder
  <2>. QED  BY <2>2, <2>4 DEF LanesInv
<1>3. ASSUME NEW e \in Ends, Write(e) PROVE LanesInv'
  <2>1. /\ writing[e] /\ Len(stream[e][0]) < LaneCredit
        /\ stream' = [stream EXCEPT ![e] = [stream[e] EXCEPT ![0] = Append(stream[e][0], taken[e])]]
        /\ writing' = [writing EXCEPT ![e] = FALSE]
        /\ nextLane' = [nextLane EXCEPT ![e] = 0]
        /\ UNCHANGED <<taken, hand, queue, output>>
    BY <1>0, <1>3, OneLane DEF Write
  <2>2. /\ stream'[e][0] = Append(stream[e][0], taken[e]) /\ stream'[Other(e)] = stream[Other(e)]
        /\ stream' \in [Ends -> [{0} -> Seq(Nat)]] /\ Len(stream'[e][0]) = Len(stream[e][0]) + 1
    <3>1. stream[e][0] \in Seq(Nat) /\ taken[e] \in Nat /\ stream[e] \in [{0} -> Seq(Nat)]
      BY <1>0
    <3>2. Append(stream[e][0], taken[e]) \in Seq(Nat) /\ Len(Append(stream[e][0], taken[e])) = Len(stream[e][0]) + 1
      BY <3>1, AppendProperties
    <3>. DEFINE lane == Append(stream[e][0], taken[e])
                lanes == [stream[e] EXCEPT ![0] = lane]
    <3>. HIDE DEF lane
    <3>3. lanes \in [{0} -> Seq(Nat)] /\ lanes[0] = lane
      BY <3>1, <3>2 DEF lane
    <3>. HIDE DEF lanes
    <3>4. stream' = [stream EXCEPT ![e] = lanes]
      BY <2>1 DEF lanes, lane
    <3>5. stream'[e] = lanes /\ stream'[Other(e)] = stream[Other(e)] /\ stream' \in [Ends -> [{0} -> Seq(Nat)]]
      BY <1>0, <1>1, <3>3, <3>4
    <3>. QED  BY <3>2, <3>3, <3>5 DEF lane
  <2>3. LaneTypes'
    <3>1. writing' \in [Ends -> BOOLEAN]
      BY <1>0, <2>1
    <3>2. nextLane' \in [Ends -> {0}]
      BY <1>0, <2>1
    <3>3. ASSUME NEW x \in Ends PROVE Len(stream'[x][0]) <= LaneCredit
      <4>1. Len(stream[e][0]) \in Nat
        BY <1>0
      <4>. QED  BY <1>1, <2>1, <2>2, <4>1 DEF LanesInv, LaneTypes, Ends, Other
    <3>. QED  BY <2>1, <2>2, <3>1, <3>2, <3>3 DEF LanesInv, LaneTypes
  <2>4. InOrder(Other(e))'
    <3>1. writing'[e] = FALSE
      BY <1>0, <2>1
    <3>2. Written(e) = taken[e] - 1
      BY <2>1 DEF Written
    <3>3. taken[e] \in Nat
      BY <1>0
    <3>4. Written(e)' = Written(e) + 1 /\ Written(e) + 1 = taken[e]
      BY <2>1, <3>1, <3>2, <3>3 DEF Written
    <3>5. Ordered(output[Other(e)], queue[Other(e)], hand[Other(e)][0], stream[e][0], Written(e))
      BY <1>1 DEF LanesInv, InOrder
    <3>6. Ordered(output[Other(e)], queue[Other(e)], hand[Other(e)][0], Append(stream[e][0], Written(e) + 1), Written(e) + 1)
      BY <3>5, OrderedWrite
    <3>. QED  BY <1>1, <2>1, <2>2, <3>4, <3>6 DEF InOrder
  <2>5. InOrder(e)'
    <3>1. writing'[Other(e)] = writing[Other(e)]
      BY <1>0, <1>1, <2>1
    <3>2. Written(Other(e))' = Written(Other(e))
      BY <2>1, <3>1 DEF Written
    <3>. QED  BY <2>1, <2>2, <3>2 DEF LanesInv, InOrder
  <2>. QED  BY <2>3, <2>4, <2>5 DEF LanesInv, Ends, Other
<1>4. ASSUME NEW e \in Ends, ReadLane(e, 0) PROVE LanesInv'
  <2>. DEFINE o == Other(e)
  <2>1. /\ hand[e][0] = 0 /\ stream[o][0] # <<>>
        /\ hand' = [hand EXCEPT ![e] = [hand[e] EXCEPT ![0] = Head(stream[o][0])]]
        /\ stream' = [stream EXCEPT ![o] = [stream[o] EXCEPT ![0] = Tail(stream[o][0])]]
        /\ UNCHANGED <<taken, writing, nextLane, queue, output>>
    BY <1>0, <1>1, <1>4 DEF ReadLane
  <2>2. o \in Ends /\ o # e /\ Other(o) = e
    BY <1>1
  <2>. HIDE DEF o
  <2>3. /\ stream[o][0] \in Seq(Nat) /\ Head(stream[o][0]) \in Nat /\ Tail(stream[o][0]) \in Seq(Nat)
        /\ Len(Tail(stream[o][0])) = Len(stream[o][0]) - 1
    <3>1. stream[o][0] \in Seq(Nat)
      BY <1>0, <2>2
    <3>. QED  BY <2>1, <3>1, HeadTailProperties
  <2>4. /\ stream'[o][0] = Tail(stream[o][0]) /\ stream'[e] = stream[e]
        /\ stream' \in [Ends -> [{0} -> Seq(Nat)]]
    <3>. DEFINE lanes == [stream[o] EXCEPT ![0] = Tail(stream[o][0])]
    <3>1. lanes \in [{0} -> Seq(Nat)] /\ lanes[0] = Tail(stream[o][0])
      BY <1>0, <2>2, <2>3
    <3>. HIDE DEF lanes
    <3>2. stream' = [stream EXCEPT ![o] = lanes]
      BY <2>1 DEF lanes
    <3>. QED  BY <1>0, <2>2, <3>1, <3>2
  <2>5. /\ hand'[e][0] = Head(stream[o][0]) /\ hand'[o] = hand[o]
        /\ hand' \in [Ends -> [{0} -> Nat]]
    <3>. DEFINE hands == [hand[e] EXCEPT ![0] = Head(stream[o][0])]
    <3>1. hands \in [{0} -> Nat] /\ hands[0] = Head(stream[o][0])
      BY <1>0, <2>2, <2>3
    <3>. HIDE DEF hands
    <3>2. hand' = [hand EXCEPT ![e] = hands]
      BY <2>1 DEF hands
    <3>. QED  BY <1>0, <2>2, <3>1, <3>2
  <2>6. LaneTypes'
    <3>3. ASSUME NEW x \in Ends PROVE Len(stream'[x][0]) <= LaneCredit
      <4>1. Len(stream[o][0]) \in Nat /\ Len(stream[o][0]) <= LaneCredit /\ Len(stream[e][0]) <= LaneCredit
        <5>1. \A y \in Ends : Len(stream[y][0]) <= LaneCredit
          BY DEF LanesInv, LaneTypes
        <5>2. Len(stream[o][0]) \in Nat
          BY <2>3
        <5>. QED  BY <2>2, <5>1, <5>2
      <4>2. x = e \/ x = o
        BY DEF o, Ends, Other
      <4>3. CASE x = e
        BY <2>4, <4>1, <4>3
      <4>4. CASE x = o
        <5>1. Len(stream'[o][0]) = Len(stream[o][0]) - 1
          BY <2>3, <2>4
        <5>. QED  BY <4>1, <4>4, <5>1, LaneAssumption
      <4>. QED  BY <4>2, <4>3, <4>4
    <3>. QED  BY <2>1, <2>4, <2>5, <3>3 DEF LanesInv, LaneTypes
  <2>7. InOrder(e)'
    <3>1. Ordered(output[e], queue[e], 0, stream[o][0], Written(o))
      BY <2>1 DEF LanesInv, InOrder, Written, o
    <3>2. Ordered(output[e], queue[e], Head(stream[o][0]), Tail(stream[o][0]), Written(o))
      BY <2>1, <3>1, OrderedRead
    <3>. QED  BY <2>1, <2>4, <2>5, <3>2 DEF InOrder, Written, o
  <2>8. InOrder(o)'
    BY <2>1, <2>2, <2>4, <2>5 DEF LanesInv, InOrder, Written
  <2>. QED  BY <2>6, <2>7, <2>8 DEF LanesInv, Ends, Other, o
<1>5. ASSUME NEW e \in Ends, Enqueue(e, 0) PROVE LanesInv'
  <2>1. /\ hand[e][0] # 0 /\ Len(queue[e]) < QueueCapacity
        /\ queue' = [queue EXCEPT ![e] = Append(queue[e], hand[e][0])]
        /\ hand' = [hand EXCEPT ![e] = [hand[e] EXCEPT ![0] = 0]]
        /\ UNCHANGED <<taken, writing, nextLane, stream, output>>
    BY <1>0, <1>5 DEF Enqueue
  <2>2. /\ Append(queue[e], hand[e][0]) \in Seq(Nat) /\ Len(queue[e]) \in Nat
        /\ Len(Append(queue[e], hand[e][0])) = Len(queue[e]) + 1
    <3>1. queue[e] \in Seq(Nat) /\ hand[e][0] \in Nat
      BY <1>0
    <3>. QED  BY <3>1, AppendProperties
  <2>3. /\ queue'[e] = Append(queue[e], hand[e][0]) /\ queue'[Other(e)] = queue[Other(e)]
        /\ queue' \in [Ends -> Seq(Nat)]
    BY <1>0, <1>1, <2>1, <2>2
  <2>4. hand'[e][0] = 0 /\ hand'[Other(e)] = hand[Other(e)] /\ hand' \in [Ends -> [{0} -> Nat]]
    <3>. DEFINE hands == [hand[e] EXCEPT ![0] = 0]
    <3>1. hands \in [{0} -> Nat] /\ hands[0] = 0
      BY <1>0
    <3>. HIDE DEF hands
    <3>2. hand' = [hand EXCEPT ![e] = hands]
      BY <2>1 DEF hands
    <3>. QED  BY <1>0, <1>1, <3>1, <3>2
  <2>5. LaneTypes'
    <3>1. ASSUME NEW x \in Ends PROVE Len(queue'[x]) <= QueueCapacity
      <4>1. x = e \/ x = Other(e)
        BY DEF Ends, Other
      <4>2. Len(queue[x]) <= QueueCapacity
        BY DEF LanesInv, LaneTypes
      <4>. QED  BY <2>1, <2>2, <2>3, <4>1, <4>2
    <3>. QED  BY <2>1, <2>3, <2>4, <3>1 DEF LanesInv, LaneTypes
  <2>6. InOrder(e)'
    <3>1. Ordered(output[e], queue[e], hand[e][0], stream[Other(e)][0], Written(Other(e)))
      BY DEF LanesInv, InOrder, Written
    <3>2. Ordered(output[e], Append(queue[e], hand[e][0]), 0, stream[Other(e)][0], Written(Other(e)))
      BY <2>1, <3>1, OrderedEnqueue
    <3>. QED  BY <2>1, <2>3, <2>4, <3>2 DEF InOrder, Written
  <2>7. InOrder(Other(e))'
    BY <1>1, <2>1, <2>3, <2>4 DEF LanesInv, InOrder, Written
  <2>. QED  BY <2>5, <2>6, <2>7 DEF LanesInv, Ends, Other
<1>6. ASSUME NEW e \in Ends, PutOut(e) PROVE LanesInv'
  <2>1. /\ queue[e] # <<>>
        /\ output' = [output EXCEPT ![e] = Append(output[e], Head(queue[e]))]
        /\ queue' = [queue EXCEPT ![e] = Tail(queue[e])]
        /\ UNCHANGED <<taken, writing, nextLane, stream, hand>>
    BY <1>6 DEF PutOut
  <2>2. /\ Head(queue[e]) \in Nat /\ Tail(queue[e]) \in Seq(Nat) /\ Len(queue[e]) \in Nat
        /\ Len(Tail(queue[e])) = Len(queue[e]) - 1
    <3>1. queue[e] \in Seq(Nat)
      BY <1>0
    <3>. QED  BY <2>1, <3>1, HeadTailProperties
  <2>3. Append(output[e], Head(queue[e])) \in Seq(Nat)
    <3>1. output[e] \in Seq(Nat)
      BY <1>0
    <3>. QED  BY <2>2, <3>1, AppendProperties
  <2>4. /\ queue'[e] = Tail(queue[e]) /\ queue'[Other(e)] = queue[Other(e)]
        /\ queue' \in [Ends -> Seq(Nat)]
    BY <1>0, <1>1, <2>1, <2>2
  <2>5. /\ output'[e] = Append(output[e], Head(queue[e])) /\ output'[Other(e)] = output[Other(e)]
        /\ output' \in [Ends -> Seq(Nat)]
    BY <1>0, <1>1, <2>1, <2>3
  <2>6. LaneTypes'
    <3>1. ASSUME NEW x \in Ends PROVE Len(queue'[x]) <= QueueCapacity
      <4>1. x = e \/ x = Other(e)
        BY DEF Ends, Other
      <4>2. Len(queue[x]) <= QueueCapacity
        BY DEF LanesInv, LaneTypes
      <4>. QED  BY <2>2, <2>4, <4>1, <4>2
    <3>. QED  BY <2>1, <2>4, <2>5, <3>1 DEF LanesInv, LaneTypes
  <2>7. InOrder(e)'
    <3>1. Ordered(output[e], queue[e], hand[e][0], stream[Other(e)][0], Written(Other(e)))
      BY DEF LanesInv, InOrder, Written
    <3>2. Ordered(Append(output[e], Head(queue[e])), Tail(queue[e]), hand[e][0], stream[Other(e)][0], Written(Other(e)))
      BY <2>1, <3>1, OrderedPutOut
    <3>. QED  BY <2>1, <2>4, <2>5, <3>2 DEF InOrder, Written
  <2>8. InOrder(Other(e))'
    BY <1>1, <2>1, <2>4, <2>5 DEF LanesInv, InOrder, Written
  <2>. QED  BY <2>6, <2>7, <2>8 DEF LanesInv, Ends, Other
<1>7. CASE UNCHANGED laneVars
  BY <1>7 DEF laneVars, LanesInv, LaneTypes, InOrder, Written
<1>. QED  BY <1>2, <1>3, <1>4, <1>5, <1>6, <1>7, OneLane DEF LanesNext, Move

\* A direction in order gives the types and the order of the output.
LEMMA LanesImplies == LanesInv => LanesTypeOK /\ LanesOrdered
<1>. SUFFICES ASSUME LanesInv PROVE LanesTypeOK /\ LanesOrdered
  OBVIOUS
<1>1. ASSUME NEW e \in Ends
      PROVE  /\ hand[e][0] \in 0..taken[Other(e)] /\ Len(output[e]) <= taken[Other(e)]
             /\ \A i \in 1..Len(output[e]) : output[e][i] = i
  <2>1. Ordered(output[e], queue[e], hand[e][0], stream[Other(e)][0], Written(Other(e)))
    BY DEF LanesInv, InOrder
  <2>2. /\ hand[e][0] \in Nat /\ hand[e][0] <= Written(Other(e)) /\ Len(output[e]) \in Nat
        /\ Len(output[e]) <= Written(Other(e)) /\ Written(Other(e)) \in Nat
    BY <2>1, OrderedTypes
  <2>3. taken[Other(e)] \in Nat
    BY DEF LanesInv, LaneTypes, Ends, Other
  <2>4. Written(Other(e)) <= taken[Other(e)]
    <3>1. CASE writing[Other(e)]
      <4>1. Written(Other(e)) = taken[Other(e)] - 1
        BY <3>1 DEF Written
      <4>. QED  BY <2>3, <4>1
    <3>2. CASE ~writing[Other(e)]
      <4>1. Written(Other(e)) = taken[Other(e)]
        BY <3>2 DEF Written
      <4>. QED  BY <2>3, <4>1
    <3>. QED  BY <3>1, <3>2
  <2>5. \A i \in 1..Len(output[e]) : output[e][i] = i
    BY <2>1 DEF Ordered
  <2>6. hand[e][0] <= taken[Other(e)] /\ Len(output[e]) <= taken[Other(e)]
    BY <2>2, <2>3, <2>4
  <2>7. hand[e][0] \in 0..taken[Other(e)]
    BY <2>2, <2>3, <2>6
  <2>. QED  BY <2>5, <2>6, <2>7
<1>2. LanesTypeOK
  BY <1>1, OneLane DEF LanesTypeOK, LanesInv, LaneTypes
<1>. QED  BY <1>1, <1>2 DEF LanesOrdered

\* Loops, streams and queue keep their types; a stream never exceeds its credit,
\* the channel never its capacity, whatever the two are.
THEOREM LanesTypeCorrect == LanesSpec => []LanesTypeOK
<1>. QED  BY LanesInitially, LanesStep, LanesImplies, PTL DEF LanesSpec

\* Lane mode is strictly ordered, for every credit, capacity and number of
\* datagrams: the loops, the streams, the readers and the queues, however they
\* interleave, reorder, lose and repeat nothing.
THEOREM LanesKeepOrder == LanesSpec => []LanesOrdered
<1>. QED  BY LanesInitially, LanesStep, LanesImplies, PTL DEF LanesSpec

=============================================================================
