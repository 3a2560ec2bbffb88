---------------------------- MODULE CarrierProofs ----------------------------
(***************************************************************************)
(* Datagram mode of the QUIC relay, for any number of fragments, groups,   *)
(* datagrams and connections.  The invariant follows a fragment: it is     *)
(* under way, or in the group of its message, or gone, and never two of    *)
(* these.  So a complete group leaves nothing behind that could complete   *)
(* a second time, and a datagram that did not come out either lacks a      *)
(* fragment or has all of them under way or in its group.                  *)
(***************************************************************************)
EXTENDS Carrier, FiniteSetTheorems, SequenceTheorems, TLAPS

\* The fragment i of message m, if the message has c of them.
FragmentOf(m, i, c) == [message |-> m, index |-> i, count |-> c, part |-> <<carries[m], i>>]

\* Counters and histories; every datagram of the upstream is sent once.
Sends ==
    /\ message \in Nat /\ session \in Nat /\ localPeer \in BOOLEAN
    /\ offered \subseteq Payloads
    /\ Cardinality(offered) \in Nat /\ offered = 1..Cardinality(offered)
    /\ carries \in Seq(Payloads) /\ Len(carries) = message
    /\ \A m \in 1..message : carries[m] \in offered
    /\ \A m, k \in 1..message : carries[m] = carries[k] => m = k
    /\ DOMAIN delivered \subseteq offered /\ \A d \in DOMAIN delivered : delivered[d] = 1
    /\ wanting \subseteq 1..message

\* What is under way belongs to one message and has not been put out.
Flying ==
    /\ \A f \in network :
        /\ f.message \in 1..message /\ f.count \in 1..MaxFragments /\ f.index \in 0..(f.count - 1)
        /\ f = FragmentOf(f.message, f.index, f.count)
        /\ carries[f.message] \notin DOMAIN delivered
    /\ \A f, h \in network : f.message = h.message => f.count = h.count

\* The groups of the client are incomplete and hold parts of one message.
Assembling ==
    /\ IsFiniteSet(DOMAIN groups) /\ Cardinality(DOMAIN groups) <= MaxGroups
    /\ DOMAIN groups \subseteq 1..message
    /\ \A m \in DOMAIN groups :
        /\ groups[m].age \in 0..(CarrierTtl + 1) /\ groups[m].count \in 1..MaxFragments
        /\ DOMAIN groups[m].parts \subseteq 0..(groups[m].count - 1)
        /\ DOMAIN groups[m].parts # 0..(groups[m].count - 1)
        /\ \A i \in DOMAIN groups[m].parts : groups[m].parts[i] = <<carries[m], i>>
    /\ \A f \in network : f.message \in DOMAIN groups =>
        groups[f.message].count = f.count /\ f.index \notin DOMAIN groups[f.message].parts

\* All fragments of m are under way or in its group.
Whole(m) ==
    \E c \in 1..MaxFragments : \A i \in 0..(c - 1) :
        \/ FragmentOf(m, i, c) \in network
        \/ m \in DOMAIN groups /\ groups[m].count = c /\ i \in DOMAIN groups[m].parts

\* Every message of the connection lacks a fragment, came out, or is still whole.
Accounted == \A m \in 1..message : m \in wanting \/ carries[m] \in DOMAIN delivered \/ Whole(m)

\* The inductive invariant of the relay.
CarrierInv == Sends /\ Flying /\ Assembling /\ Accounted

\* A first connection satisfies the invariant.
LEMMA CarrierInitially == CarrierInit => CarrierInv
<1>. SUFFICES ASSUME CarrierInit PROVE CarrierInv
  OBVIOUS
<1>. USE CarrierAssumption DEF CarrierInit
<1>1. Cardinality(offered) = 0
  BY FS_EmptySet
<1>2. Sends
  <2>1. DOMAIN delivered = {}
    BY DEF EmptyBag, SetToBag
  <2>2. offered = 1..Cardinality(offered)
    BY <1>1
  <2>3. carries \in Seq(Payloads) /\ Len(carries) = message
    OBVIOUS
  <2>4. \A m \in 1..message : FALSE
    OBVIOUS
  <2>5. session \in Nat /\ message \in Nat /\ Cardinality(offered) \in Nat
    BY <1>1
  <2>6. localPeer \in BOOLEAN
    OBVIOUS
  <2>. QED  BY <2>1, <2>2, <2>3, <2>4, <2>5, <2>6 DEF Sends
<1>3. Flying
  BY DEF Flying
<1>4. Assembling
  <2>1. DOMAIN groups = {}
    OBVIOUS
  <2>2. IsFiniteSet(DOMAIN groups) /\ Cardinality(DOMAIN groups) = 0
    BY <2>1, FS_EmptySet
  <2>. QED  BY <2>1, <2>2 DEF Assembling
<1>5. Accounted
  BY DEF Accounted
<1>. QED  BY <1>2, <1>3, <1>4, <1>5 DEF CarrierInv

\* A datagram is cut into the fragments of a message of its own.
LEMMA SendCarrierStep ==
    ASSUME CarrierInv, NEW d \in Payloads, NEW count \in 1..MaxFragments, SendCarrier(d, count)
    PROVE  CarrierInv'
<1>. USE CarrierAssumption
<1>0. PICK n : n = message + 1
  OBVIOUS
<1>. DEFINE cut(i) == [message |-> n, index |-> i, count |-> count, part |-> <<d, i>>]
<1>1. /\ offered' = offered \cup {d} /\ carries' = Append(carries, d) /\ message' = message + 1
      /\ network' = network \cup {cut(i) : i \in 0..(count - 1)}
      /\ groups' = groups /\ localPeer' = localPeer /\ session' = session
      /\ delivered' = delivered /\ wanting' = wanting /\ d = Cardinality(offered) + 1
  BY <1>0 DEF SendCarrier
<1>2. message \in Nat /\ carries \in Seq(Payloads) /\ Len(carries) = message
  BY DEF CarrierInv, Sends
<1>3. /\ Len(carries') = message + 1
      /\ carries' \in Seq(Payloads)
      /\ carries'[message + 1] = d
      /\ \A m \in 1..message : carries'[m] = carries[m]
  BY <1>1, <1>2, AppendProperties
<1>4. d \notin offered
  BY <1>1 DEF CarrierInv, Sends
<1>5. Sends'
  <2>1. Cardinality(offered') = d /\ offered' = 1..d
    <3>1. offered' = 1..d
      BY <1>1 DEF CarrierInv, Sends
    <3>2. 1 \in Int /\ d \in Int
      BY DEF Payloads
    <3>3. Cardinality(1..d) = IF 1 > d THEN 0 ELSE d - 1 + 1
      BY <3>2, FS_Interval
    <3>. QED  BY <3>1, <3>3 DEF Payloads
  <2>2. \A m \in 1..message' : carries'[m] \in offered'
    BY <1>1, <1>2, <1>3 DEF CarrierInv, Sends
  <2>3. \A m, k \in 1..message' : carries'[m] = carries'[k] => m = k
    BY <1>1, <1>2, <1>3, <1>4 DEF CarrierInv, Sends
  <2>4. wanting' \subseteq 1..message'
    BY <1>1, <1>2 DEF CarrierInv, Sends
  <2>5. /\ message' \in Nat /\ session' \in Nat /\ localPeer' \in BOOLEAN
        /\ offered' \subseteq Payloads /\ DOMAIN delivered' \subseteq offered'
        /\ \A e \in DOMAIN delivered' : delivered'[e] = 1
    BY <1>1 DEF CarrierInv, Sends
  <2>6. Cardinality(offered') \in Nat
    BY <2>1 DEF Payloads
  <2>. QED  BY <1>1, <1>3, <2>1, <2>2, <2>3, <2>4, <2>5, <2>6 DEF Sends
<1>6. \A f \in network' : f \in network \/ \E i \in 0..(count - 1) : f = cut(i)
  BY <1>1
<1>7. \A i \in 0..(count - 1) : /\ cut(i).message = n /\ cut(i).index = i /\ cut(i).count = count
                                /\ cut(i) = FragmentOf(n, i, count)'
  <2>. SUFFICES ASSUME NEW i \in 0..(count - 1)
                PROVE  /\ cut(i).message = n /\ cut(i).index = i /\ cut(i).count = count
                       /\ cut(i) = FragmentOf(n, i, count)'
    OBVIOUS
  <2>. QED  BY <1>0, <1>3 DEF FragmentOf
<1>8. \A f \in network : f.message \in 1..message
  BY DEF CarrierInv, Flying
<1>. HIDE DEF cut
<1>9. \A m \in 1..message : carries[m] = carries'[m] /\ m \in 1..(message + 1) /\ m # message + 1
  BY <1>2, <1>3
<1>10. ASSUME NEW m \in 1..message, NEW i, NEW c
       PROVE  FragmentOf(m, i, c)' = FragmentOf(m, i, c)
  BY <1>9 DEF FragmentOf
<1>11. Flying'
  <2>1. ASSUME NEW f \in network'
        PROVE  /\ f.message \in 1..message' /\ f.count \in 1..MaxFragments /\ f.index \in 0..(f.count - 1)
               /\ (f = FragmentOf(f.message, f.index, f.count))'
               /\ carries'[f.message] \notin DOMAIN delivered'
    <3>1. CASE f \in network
      <4>1. /\ f.message \in 1..message /\ f.count \in 1..MaxFragments /\ f.index \in 0..(f.count - 1)
            /\ f = FragmentOf(f.message, f.index, f.count)
            /\ carries[f.message] \notin DOMAIN delivered
        BY <3>1 DEF CarrierInv, Flying
      <4>2. FragmentOf(f.message, f.index, f.count)' = FragmentOf(f.message, f.index, f.count)
        BY <1>9, <4>1 DEF FragmentOf
      <4>. QED  BY <4>1, <4>2, <1>1, <1>9
    <3>2. CASE \E i \in 0..(count - 1) : f = cut(i)
      <4>1. PICK i \in 0..(count - 1) : f = cut(i)
        BY <3>2
      <4>2. /\ f.message = n /\ f.index = i /\ f.count = count
            /\ f = FragmentOf(n, i, count)'
        BY <1>7, <4>1
      <4>3. d \notin DOMAIN delivered
        BY <1>4 DEF CarrierInv, Sends
      <4>4. carries'[f.message] \notin DOMAIN delivered'
        BY <1>0, <1>1, <1>3, <4>2, <4>3
      <4>5. f.message \in 1..message'
        BY <1>0, <1>1, <1>2, <4>2
      <4>6. (f = FragmentOf(f.message, f.index, f.count))'
        BY <4>2 DEF FragmentOf
      <4>. QED  BY <4>2, <4>4, <4>5, <4>6
    <3>. QED  BY <1>6, <3>1, <3>2
  <2>2. ASSUME NEW f \in network', NEW h \in network', f.message = h.message
        PROVE  f.count = h.count
    <3>1. CASE f \in network /\ h \in network
      BY <2>2, <3>1 DEF CarrierInv, Flying
    <3>2. CASE f \notin network /\ h \notin network
      BY <1>6, <1>7, <3>2
    <3>3. CASE f \in network /\ h \notin network
      BY <1>0, <1>2, <1>6, <1>7, <1>8, <2>2, <3>3
    <3>4. CASE f \notin network /\ h \in network
      BY <1>0, <1>2, <1>6, <1>7, <1>8, <2>2, <3>4
    <3>. QED  BY <3>1, <3>2, <3>3, <3>4
  <2>. QED  BY <2>1, <2>2 DEF Flying
<1>12. Assembling'
  <2>1. /\ IsFiniteSet(DOMAIN groups') /\ Cardinality(DOMAIN groups') <= MaxGroups
        /\ DOMAIN groups' \subseteq 1..message'
    BY <1>1, <1>9 DEF CarrierInv, Assembling
  <2>2. \A m \in DOMAIN groups' :
        /\ groups'[m].age \in 0..(CarrierTtl + 1) /\ groups'[m].count \in 1..MaxFragments
        /\ DOMAIN groups'[m].parts \subseteq 0..(groups'[m].count - 1)
        /\ DOMAIN groups'[m].parts # 0..(groups'[m].count - 1)
    BY <1>1 DEF CarrierInv, Assembling
  <2>3. \A m \in DOMAIN groups' : \A i \in DOMAIN groups'[m].parts : groups'[m].parts[i] = <<carries'[m], i>>
    <3>1. ASSUME NEW m \in DOMAIN groups, NEW i \in DOMAIN groups[m].parts
          PROVE  groups[m].parts[i] = <<carries'[m], i>>
      <4>1. groups[m].parts[i] = <<carries[m], i>> /\ m \in 1..message
        BY DEF CarrierInv, Assembling
      <4>. QED  BY <4>1, <1>9
    <3>. QED  BY <1>1, <3>1
  <2>4. \A f \in network' : f.message \in DOMAIN groups' =>
            groups'[f.message].count = f.count /\ f.index \notin DOMAIN groups'[f.message].parts
    <3>1. \A f \in network' : f.message \in DOMAIN groups => f \in network
      BY <1>0, <1>6, <1>7, <1>9 DEF CarrierInv, Assembling
    <3>. QED  BY <1>1, <3>1 DEF CarrierInv, Assembling
  <2>. QED  BY <2>1, <2>2, <2>3, <2>4 DEF Assembling
<1>13. Accounted'
  <2>. SUFFICES ASSUME NEW m \in 1..message'
                PROVE  m \in wanting' \/ carries'[m] \in DOMAIN delivered' \/ Whole(m)'
    BY DEF Accounted
  <2>1. CASE m \in 1..message
    <3>1. CASE m \in wanting \/ carries[m] \in DOMAIN delivered
      BY <1>1, <1>9, <2>1, <3>1
    <3>2. CASE Whole(m)
      <4>1. PICK c \in 1..MaxFragments : \A i \in 0..(c - 1) :
                \/ FragmentOf(m, i, c) \in network
                \/ m \in DOMAIN groups /\ groups[m].count = c /\ i \in DOMAIN groups[m].parts
        BY <3>2 DEF Whole
      <4>2. \A i \in 0..(c - 1) :
                \/ FragmentOf(m, i, c)' \in network'
                \/ m \in DOMAIN groups' /\ groups'[m].count = c /\ i \in DOMAIN groups'[m].parts
        BY <1>1, <1>10, <2>1, <4>1
      <4>. QED  BY <4>2 DEF Whole
    <3>. QED  BY <2>1, <3>1, <3>2 DEF CarrierInv, Accounted
  <2>2. CASE m = message + 1
    <3>1. \A i \in 0..(count - 1) : FragmentOf(m, i, count)' \in network'
      BY <1>0, <1>1, <1>7, <2>2
    <3>. QED  BY <3>1 DEF Whole
  <2>. QED  BY <1>1, <1>2, <2>1, <2>2
<1>. QED  BY <1>5, <1>11, <1>12, <1>13 DEF CarrierInv

\* A new connection starts with nothing under way, so that its message numbers
\* meet no fragments of the one before.
LEMMA NewSessionStep ==
    ASSUME CarrierInv, NewSession
    PROVE  CarrierInv'
<1>. USE CarrierAssumption DEF NewSession
<1>1. Sends'
  <2>1. carries' \in Seq(Payloads) /\ Len(carries') = message'
    OBVIOUS
  <2>2. \A m \in 1..message' : FALSE
    OBVIOUS
  <2>3. session' \in Nat /\ message' \in Nat
    BY DEF CarrierInv, Sends
  <2>5. localPeer' \in BOOLEAN
    OBVIOUS
  <2>4. /\ offered' \subseteq Payloads
        /\ Cardinality(offered') \in Nat /\ offered' = 1..Cardinality(offered')
        /\ DOMAIN delivered' \subseteq offered' /\ \A d \in DOMAIN delivered' : delivered'[d] = 1
    BY DEF CarrierInv, Sends
  <2>. QED  BY <2>1, <2>2, <2>3, <2>4, <2>5 DEF Sends
<1>2. Flying'
  BY DEF Flying
<1>3. Assembling'
  <2>1. DOMAIN groups' = {}
    OBVIOUS
  <2>2. IsFiniteSet(DOMAIN groups') /\ Cardinality(DOMAIN groups') = 0
    BY <2>1, FS_EmptySet
  <2>. QED  BY <2>1, <2>2 DEF Assembling
<1>4. Accounted'
  BY DEF Accounted
<1>. QED  BY <1>1, <1>2, <1>3, <1>4 DEF CarrierInv

\* The client learns its peer.
LEMMA LocalDatagramStep ==
    ASSUME CarrierInv, LocalDatagram
    PROVE  CarrierInv'
<1>. USE DEF LocalDatagram
<1>1. Sends'
  BY DEF CarrierInv, Sends
<1>2. Flying'
  BY DEF CarrierInv, Flying, FragmentOf
<1>3. Assembling'
  BY DEF CarrierInv, Assembling
<1>4. Accounted'
  BY DEF CarrierInv, Accounted, Whole, FragmentOf
<1>. QED  BY <1>1, <1>2, <1>3, <1>4 DEF CarrierInv

\* A fragment is lost.
LEMMA LoseStep ==
    ASSUME CarrierInv, NEW f \in network, Lose(f)
    PROVE  CarrierInv'
<1>. USE DEF Lose
<1>1. f.message \in 1..message
  BY DEF CarrierInv, Flying
<1>2. Sends'
  BY <1>1 DEF CarrierInv, Sends
<1>3. Flying'
  BY DEF CarrierInv, Flying, FragmentOf
<1>4. Assembling'
  BY DEF CarrierInv, Assembling
<1>5. Accounted'
  <2>. SUFFICES ASSUME NEW m \in 1..message, m # f.message, Whole(m)
                PROVE  Whole(m)'
    BY DEF CarrierInv, Accounted
  <2>1. PICK c \in 1..MaxFragments : \A i \in 0..(c - 1) :
            \/ FragmentOf(m, i, c) \in network
            \/ m \in DOMAIN groups /\ groups[m].count = c /\ i \in DOMAIN groups[m].parts
    BY DEF Whole
  <2>2. \A i \in 0..(c - 1) : FragmentOf(m, i, c).message = m /\ FragmentOf(m, i, c)' = FragmentOf(m, i, c)
    BY DEF FragmentOf
  <2>. QED  BY <2>1, <2>2 DEF Whole
<1>. QED  BY <1>2, <1>3, <1>4, <1>5 DEF CarrierInv

\* Time passes for the groups.
LEMMA GroupsAgeStep ==
    ASSUME CarrierInv, GroupsAge
    PROVE  CarrierInv'
<1>. USE CarrierAssumption
<1>1. /\ message' = message /\ network' = network /\ localPeer' = localPeer /\ session' = session
      /\ offered' = offered /\ carries' = carries /\ delivered' = delivered /\ wanting' = wanting
      /\ DOMAIN groups' = DOMAIN groups
  BY DEF GroupsAge
<1>2. ASSUME NEW m \in DOMAIN groups
      PROVE  /\ groups'[m].age \in 0..(CarrierTtl + 1)
             /\ groups'[m].count = groups[m].count /\ groups'[m].parts = groups[m].parts
  <2>1. groups'[m] = [age |-> IF groups[m].age > CarrierTtl THEN groups[m].age ELSE groups[m].age + 1,
                      count |-> groups[m].count, parts |-> groups[m].parts]
    BY DEF GroupsAge
  <2>2. groups[m].age \in 0..(CarrierTtl + 1)
    BY DEF CarrierInv, Assembling
  <2>3. groups'[m].count = groups[m].count /\ groups'[m].parts = groups[m].parts
    BY <2>1
  <2>4. groups'[m].age = IF groups[m].age > CarrierTtl THEN groups[m].age ELSE groups[m].age + 1
    BY <2>1
  <2>. QED  BY <2>2, <2>3, <2>4
<1>3. Sends'
  BY <1>1 DEF CarrierInv, Sends
<1>4. Flying'
  BY <1>1 DEF CarrierInv, Flying, FragmentOf
<1>5. Assembling'
  BY <1>1, <1>2 DEF CarrierInv, Assembling
<1>6. Accounted'
  <2>. SUFFICES ASSUME NEW m \in 1..message, Whole(m)
                PROVE  Whole(m)'
    BY <1>1 DEF CarrierInv, Accounted
  <2>1. PICK c \in 1..MaxFragments : \A i \in 0..(c - 1) :
            \/ FragmentOf(m, i, c) \in network
            \/ m \in DOMAIN groups /\ groups[m].count = c /\ i \in DOMAIN groups[m].parts
    BY DEF Whole
  <2>2. \A i \in 0..(c - 1) : FragmentOf(m, i, c)' = FragmentOf(m, i, c)
    BY <1>1 DEF FragmentOf
  <2>3. \A i \in 0..(c - 1) :
            \/ FragmentOf(m, i, c)' \in network'
            \/ m \in DOMAIN groups' /\ groups'[m].count = c /\ i \in DOMAIN groups'[m].parts
    BY <1>1, <1>2, <2>1, <2>2
  <2>. QED  BY <2>3 DEF Whole
<1>. QED  BY <1>3, <1>4, <1>5, <1>6 DEF CarrierInv

\* A fragment joins parts of its own message, none of which is under way.
LEMMA PushedGroup ==
    ASSUME CarrierInv, NEW f \in network, ~Unacceptable(f)
    PROVE  /\ WithPart(f).age \in 0..(CarrierTtl + 1) /\ WithPart(f).count = f.count
           /\ DOMAIN WithPart(f).parts \subseteq 0..(f.count - 1)
           /\ \A i \in DOMAIN WithPart(f).parts : WithPart(f).parts[i] = <<carries[f.message], i>>
           /\ DOMAIN WithPart(f).parts = DOMAIN Group(f).parts \cup {f.index}
           /\ WithPart(f).parts = [i \in DOMAIN WithPart(f).parts |-> WithPart(f).parts[i]]
           /\ \A h \in network : h.message = f.message => h.index \notin DOMAIN Group(f).parts
<1>. USE CarrierAssumption
<1>0. /\ f.message \in 1..message /\ f.count \in 1..MaxFragments /\ f.index \in 0..(f.count - 1)
      /\ f = FragmentOf(f.message, f.index, f.count)
  BY DEF CarrierInv, Flying
<1>1. f.part = <<carries[f.message], f.index>>
  <2>1. FragmentOf(f.message, f.index, f.count).part = <<carries[f.message], f.index>>
    BY DEF FragmentOf
  <2>. QED  BY <1>0, <2>1
<1>2. /\ Group(f).age \in 0..(CarrierTtl + 1) /\ Group(f).count = f.count
      /\ DOMAIN Group(f).parts \subseteq 0..(f.count - 1)
      /\ \A i \in DOMAIN Group(f).parts : Group(f).parts[i] = <<carries[f.message], i>>
      /\ \A h \in network : h.message = f.message => h.index \notin DOMAIN Group(f).parts
  <2>1. CASE f.message \in Live
    <3>1. Group(f) = groups[f.message] /\ f.message \in DOMAIN groups
      BY <2>1 DEF Group, Live
    <3>2. groups[f.message].count = f.count
      BY <3>1 DEF CarrierInv, Assembling
    <3>. QED  BY <3>1, <3>2 DEF CarrierInv, Assembling
  <2>2. CASE f.message \notin Live
    <3>1. Group(f) = [age |-> 0, count |-> f.count, parts |-> [i \in {} |-> 0]]
      BY <2>2 DEF Group
    <3>2. Group(f).age = 0 /\ Group(f).count = f.count /\ Group(f).parts = [i \in {} |-> 0]
      BY <3>1
    <3>3. DOMAIN Group(f).parts = {}
      BY <3>2
    <3>. QED  BY <3>2, <3>3
  <2>. QED  BY <2>1, <2>2
<1>. DEFINE P == Group(f).parts
            D == DOMAIN P \cup {f.index}
<1>3. WithPart(f) = [age |-> Group(f).age, count |-> Group(f).count,
                     parts |-> [i \in D |-> IF i \in DOMAIN P THEN P[i] ELSE f.part]]
  BY DEF WithPart
<1>. HIDE DEF D, P
<1>4. /\ WithPart(f).age = Group(f).age /\ WithPart(f).count = Group(f).count
      /\ WithPart(f).parts = [i \in D |-> IF i \in DOMAIN P THEN P[i] ELSE f.part]
  BY <1>3
<1>5. DOMAIN WithPart(f).parts = D /\ \A i \in D : WithPart(f).parts[i] = IF i \in DOMAIN P THEN P[i] ELSE f.part
  BY <1>4
<1>6. \A i \in D : WithPart(f).parts[i] = <<carries[f.message], i>>
  BY <1>1, <1>2, <1>5 DEF D, P
<1>7. D \subseteq 0..(f.count - 1)
  BY <1>0, <1>2 DEF D, P
<1>8. WithPart(f).parts = [i \in DOMAIN WithPart(f).parts |-> WithPart(f).parts[i]]
  BY <1>4
<1>. QED  BY <1>2, <1>4, <1>5, <1>6, <1>7, <1>8 DEF D, P

\* A complete group is one datagram, of which nothing is under way any more.
LEMMA CompletedGroup ==
    ASSUME CarrierInv, NEW f \in network, ~Unacceptable(f), Complete(WithPart(f))
    PROVE  /\ Joined(WithPart(f)) = carries[f.message]
           /\ \A h \in network \ {f} : h.message # f.message
<1>. USE CarrierAssumption
<1>0. /\ f.message \in 1..message /\ f.count \in 1..MaxFragments /\ f.index \in 0..(f.count - 1)
      /\ f = FragmentOf(f.message, f.index, f.count) /\ carries[f.message] \in Payloads
  BY DEF CarrierInv, Flying, Sends
<1>. DEFINE g == WithPart(f)
<1>1. /\ g.count = f.count /\ DOMAIN g.parts = 0..(f.count - 1)
      /\ \A i \in DOMAIN g.parts : g.parts[i] = <<carries[f.message], i>>
      /\ g.parts = [i \in DOMAIN g.parts |-> g.parts[i]]
      /\ DOMAIN g.parts = DOMAIN Group(f).parts \cup {f.index}
      /\ \A h \in network : h.message = f.message => h.index \notin DOMAIN Group(f).parts
  BY PushedGroup DEF Complete
<1>. HIDE DEF g
<1>2. g.parts = [i \in 0..(g.count - 1) |-> <<carries[f.message], i>>]
  BY <1>1
<1>3. Joined(g) = carries[f.message]
  <2>1. Joined(g) = g.parts[0][1]
    BY <1>0, <1>2 DEF Joined
  <2>2. g.parts[0] = <<carries[f.message], 0>>
    BY <1>0, <1>1
  <2>. QED  BY <2>1, <2>2
<1>4. ASSUME NEW h \in network, h # f, h.message = f.message PROVE FALSE
  <2>1. h.count = f.count /\ h.index \in 0..(f.count - 1) /\ h = FragmentOf(h.message, h.index, h.count)
    BY <1>4 DEF CarrierInv, Flying
  <2>2. h.index = f.index
    BY <1>1, <1>4, <2>1
  <2>. QED  BY <1>0, <1>4, <2>1, <2>2
<1>. QED  BY <1>3, <1>4 DEF g

\* The groups that are alive are at most MAX_CARRIER_GROUPS.
LEMMA LiveFinite ==
    ASSUME CarrierInv
    PROVE  /\ IsFiniteSet(Live) /\ Cardinality(Live) \in Nat /\ Cardinality(Live) <= MaxGroups
           /\ Live \subseteq DOMAIN groups
<1>. USE CarrierAssumption
<1>1. Live \subseteq DOMAIN groups
  BY DEF Live
<1>2. IsFiniteSet(DOMAIN groups) /\ Cardinality(DOMAIN groups) <= MaxGroups
  BY DEF CarrierInv, Assembling
<1>3. IsFiniteSet(Live) /\ Cardinality(Live) <= Cardinality(DOMAIN groups)
  BY <1>1, <1>2, FS_Subset
<1>4. Cardinality(Live) \in Nat /\ Cardinality(DOMAIN groups) \in Nat
  BY <1>2, <1>3, FS_CardinalityType
<1>. QED  BY <1>1, <1>2, <1>3, <1>4

\* push keeps the invariant, and what it puts out was offered and never put out
\* before.
LEMMA PushStep ==
    ASSUME CarrierInv, NEW f \in network, Push(f)
    PROVE  /\ CarrierInv'
           /\ Complete(WithPart(f)) /\ localPeer =>
                /\ delivered' = delivered (+) SetToBag({carries[f.message]})
                /\ carries[f.message] \in offered \ DOMAIN delivered
<1>. USE CarrierAssumption
<1>. DEFINE g == WithPart(f)
            kept == IF Complete(g) THEN Live \ {f.message} ELSE Live \cup {f.message}
            m0 == f.message
<1>0. /\ m0 \in 1..message /\ f.count \in 1..MaxFragments /\ f.index \in 0..(f.count - 1)
      /\ f = FragmentOf(m0, f.index, f.count) /\ carries[m0] \in offered \ DOMAIN delivered
  BY DEF CarrierInv, Flying, Sends
<1>1. /\ ~Unacceptable(f) /\ network' = network \ {f}
      /\ groups' = [m \in kept |-> IF m = m0 THEN g ELSE groups[m]]
      /\ delivered' = IF Complete(g) /\ localPeer THEN delivered (+) SetToBag({Joined(g)}) ELSE delivered
      /\ wanting' = wanting \cup (DOMAIN groups \ Live)
                            \cup (IF Complete(g) /\ ~localPeer THEN {m0} ELSE {})
      /\ message' = message /\ localPeer' = localPeer /\ session' = session
      /\ offered' = offered /\ carries' = carries
  BY DEF Push
<1>2. /\ g.age \in 0..(CarrierTtl + 1) /\ g.count = f.count
      /\ DOMAIN g.parts \subseteq 0..(f.count - 1)
      /\ \A i \in DOMAIN g.parts : g.parts[i] = <<carries[m0], i>>
      /\ DOMAIN g.parts = DOMAIN Group(f).parts \cup {f.index}
      /\ \A h \in network : h.message = m0 => h.index \notin DOMAIN Group(f).parts
  BY <1>1, PushedGroup
<1>3. Complete(g) => Joined(g) = carries[m0] /\ \A h \in network' : h.message # m0
  BY <1>1, CompletedGroup
<1>4. Live \subseteq DOMAIN groups /\ IsFiniteSet(Live) /\ Cardinality(Live) \in Nat /\ Cardinality(Live) <= MaxGroups
  BY LiveFinite
<1>5. m0 \in Live => Group(f) = groups[m0]
  BY DEF Group
<1>6. m0 \notin Live => Cardinality(Live) < MaxGroups
  BY <1>1 DEF Unacceptable, Fits
<1>7. Complete(g) <=> DOMAIN g.parts = 0..(f.count - 1)
  BY <1>2 DEF Complete
<1>9. ASSUME NEW h \in network, h.message = m0, h.index = f.index PROVE h = f
  <2>1. h.count = f.count /\ h = FragmentOf(h.message, h.index, h.count)
    BY <1>9 DEF CarrierInv, Flying
  <2>. QED  BY <1>0, <1>9, <2>1
<1>10. DOMAIN groups' = kept
  BY <1>1
<1>11. \A m \in kept : groups'[m] = IF m = m0 THEN g ELSE groups[m]
  BY <1>1
<1>12. DOMAIN delivered' = IF Complete(g) /\ localPeer THEN DOMAIN delivered \cup {carries[m0]} ELSE DOMAIN delivered
  BY <1>1, <1>3 DEF (+), SetToBag
<1>13. Complete(g) => m0 \notin kept
  OBVIOUS
<1>14. ~Complete(g) => m0 \in kept
  OBVIOUS
<1>15. kept \subseteq DOMAIN groups \cup {m0} /\ \A m \in Live : m # m0 => m \in kept
  BY <1>4
<1>16. \A m \in kept : m # m0 => m \in Live /\ m \in DOMAIN groups
  BY <1>4
<1>17. IsFiniteSet(kept) /\ Cardinality(kept) <= MaxGroups
  <2>1. CASE Complete(g)
    <3>1. kept \subseteq Live
      BY <2>1
    <3>2. IsFiniteSet(kept) /\ Cardinality(kept) <= Cardinality(Live)
      BY <1>4, <3>1, FS_Subset
    <3>3. Cardinality(kept) \in Nat
      BY <3>2, FS_CardinalityType
    <3>. QED  BY <1>4, <3>2, <3>3
  <2>2. CASE ~Complete(g)
    <3>1. IsFiniteSet(kept) /\ Cardinality(kept) = IF m0 \in Live THEN Cardinality(Live) ELSE Cardinality(Live) + 1
      BY <1>4, <2>2, FS_AddElement
    <3>. QED  BY <1>4, <1>6, <3>1
  <2>. QED  BY <2>1, <2>2
<1>. HIDE DEF g, kept, m0
<1>20. Sends'
  <2>1. DOMAIN delivered' \subseteq offered'
    BY <1>0, <1>1, <1>12 DEF CarrierInv, Sends
  <2>2. wanting' \subseteq 1..message'
    BY <1>0, <1>1, <1>4 DEF CarrierInv, Sends, Assembling
  <2>3. \A d \in DOMAIN delivered' : delivered'[d] = 1
    <3>1. ASSUME Complete(g), localPeer, NEW d \in DOMAIN delivered' PROVE delivered'[d] = 1
      <4>1. delivered' = delivered (+) SetToBag({carries[m0]})
        BY <1>1, <1>3, <3>1
      <4>2. delivered'[d] = (IF d \in DOMAIN delivered THEN delivered[d] ELSE 0)
                                + (IF d \in {carries[m0]} THEN 1 ELSE 0)
        BY <1>12, <3>1, <4>1 DEF (+), SetToBag
      <4>. QED  BY <1>0, <1>12, <3>1, <4>2 DEF CarrierInv, Sends
    <3>. QED  BY <1>1, <3>1 DEF CarrierInv, Sends
  <2>. QED  BY <1>1, <2>1, <2>2, <2>3 DEF CarrierInv, Sends
<1>21. Flying'
  <2>1. ASSUME NEW h \in network'
        PROVE  /\ h.message \in 1..message' /\ h.count \in 1..MaxFragments /\ h.index \in 0..(h.count - 1)
               /\ h = FragmentOf(h.message, h.index, h.count)'
               /\ carries'[h.message] \notin DOMAIN delivered'
    <3>1. /\ h \in network
          /\ h.message \in 1..message /\ h.count \in 1..MaxFragments /\ h.index \in 0..(h.count - 1)
          /\ h = FragmentOf(h.message, h.index, h.count) /\ carries[h.message] \notin DOMAIN delivered
      BY <1>1 DEF CarrierInv, Flying
    <3>2. Complete(g) => carries[h.message] # carries[m0]
      BY <1>0, <1>3, <3>1 DEF CarrierInv, Sends
    <3>3. FragmentOf(h.message, h.index, h.count)' = FragmentOf(h.message, h.index, h.count)
      BY <1>1 DEF FragmentOf
    <3>. QED  BY <1>1, <1>12, <3>1, <3>2, <3>3
  <2>2. \A h, k \in network' : h.message = k.message => h.count = k.count
    BY <1>1 DEF CarrierInv, Flying
  <2>. QED  BY <2>1, <2>2 DEF Flying
<1>22. Assembling'
  <2>1. DOMAIN groups' \subseteq 1..message'
    BY <1>0, <1>1, <1>10, <1>15 DEF CarrierInv, Assembling
  <2>2. ASSUME NEW m \in kept
        PROVE  /\ groups'[m].age \in 0..(CarrierTtl + 1) /\ groups'[m].count \in 1..MaxFragments
               /\ DOMAIN groups'[m].parts \subseteq 0..(groups'[m].count - 1)
               /\ DOMAIN groups'[m].parts # 0..(groups'[m].count - 1)
               /\ \A i \in DOMAIN groups'[m].parts : groups'[m].parts[i] = <<carries'[m], i>>
    <3>1. CASE m = m0
      <4>1. groups'[m] = g /\ ~Complete(g)
        BY <1>11, <1>13, <3>1
      <4>. QED  BY <1>0, <1>1, <1>2, <1>7, <3>1, <4>1
    <3>2. CASE m # m0
      <4>1. groups'[m] = groups[m] /\ m \in DOMAIN groups
        BY <1>11, <1>16, <3>2
      <4>. QED  BY <1>1, <4>1 DEF CarrierInv, Assembling
    <3>. QED  BY <3>1, <3>2
  <2>3. ASSUME NEW h \in network', h.message \in kept
        PROVE  groups'[h.message].count = h.count /\ h.index \notin DOMAIN groups'[h.message].parts
    <3>0. h \in network /\ h # f
      BY <1>1
    <3>1. CASE h.message = m0
      <4>1. groups'[m0] = g
        BY <1>11, <2>3, <3>1
      <4>2. h.count = f.count
        BY <3>0, <3>1 DEF CarrierInv, Flying, m0
      <4>3. h.index # f.index
        BY <1>9, <3>0, <3>1
      <4>. QED  BY <1>2, <3>0, <3>1, <4>1, <4>2, <4>3
    <3>2. CASE h.message # m0
      <4>1. groups'[h.message] = groups[h.message] /\ h.message \in DOMAIN groups
        BY <1>11, <1>16, <2>3, <3>2
      <4>. QED  BY <3>0, <4>1 DEF CarrierInv, Assembling
    <3>. QED  BY <3>1, <3>2
  <2>. QED  BY <1>10, <1>17, <2>1, <2>2, <2>3 DEF Assembling
<1>23. Accounted'
  <2>. SUFFICES ASSUME NEW m \in 1..message, m \notin wanting', carries[m] \notin DOMAIN delivered'
                PROVE  Whole(m)'
    BY <1>1 DEF Accounted
  <2>1. m \notin wanting /\ carries[m] \notin DOMAIN delivered /\ (m \in DOMAIN groups => m \in Live)
    BY <1>1, <1>12
  <2>2. PICK c \in 1..MaxFragments : \A i \in 0..(c - 1) :
            \/ FragmentOf(m, i, c) \in network
            \/ m \in DOMAIN groups /\ groups[m].count = c /\ i \in DOMAIN groups[m].parts
    BY <2>1 DEF CarrierInv, Accounted, Whole
  <2>3. \A i \in 0..(c - 1) : /\ FragmentOf(m, i, c).message = m /\ FragmentOf(m, i, c).index = i
                              /\ FragmentOf(m, i, c).count = c
    BY DEF FragmentOf
  <2>4. CASE m = m0
    <3>1. ~Complete(g)
      BY <1>1, <1>12, <2>4
    <3>2. m \in DOMAIN groups' /\ groups'[m] = g
      BY <1>10, <1>11, <1>14, <2>4, <3>1
    <3>3. ASSUME NEW i \in 0..(c - 1), FragmentOf(m, i, c) \in network
          PROVE  c = f.count
      BY <2>3, <2>4, <3>3 DEF CarrierInv, Flying, m0
    <3>4. ASSUME NEW i \in 0..(c - 1), m \in DOMAIN groups, groups[m].count = c, i \in DOMAIN groups[m].parts
          PROVE  c = f.count /\ i \in DOMAIN g.parts
      <4>1. groups[m].count = f.count
        BY <2>4, <3>4 DEF CarrierInv, Assembling, m0
      <4>2. Group(f) = groups[m]
        BY <1>5, <2>1, <2>4, <3>4
      <4>. QED  BY <1>2, <3>4, <4>1, <4>2
    <3>5. ASSUME NEW i \in 0..(c - 1), FragmentOf(m, i, c) \in network, FragmentOf(m, i, c) \notin network'
          PROVE  i \in DOMAIN g.parts
      <4>1. FragmentOf(m, i, c) = f
        BY <1>1, <3>5
      <4>2. f.index = i
        BY <2>3, <4>1
      <4>. QED  BY <1>2, <4>2
    <3>6. ASSUME NEW i \in 0..(c - 1)
          PROVE  \/ FragmentOf(m, i, c)' \in network'
                 \/ m \in DOMAIN groups' /\ groups'[m].count = c /\ i \in DOMAIN groups'[m].parts
      <4>1. FragmentOf(m, i, c)' = FragmentOf(m, i, c)
        BY <1>1 DEF FragmentOf
      <4>. QED  BY <1>2, <2>2, <3>2, <3>3, <3>4, <3>5, <4>1
    <3>. QED  BY <3>6 DEF Whole
  <2>5. CASE m # m0
    <3>1. m \in DOMAIN groups => m \in DOMAIN groups' /\ groups'[m] = groups[m]
      BY <1>10, <1>11, <1>15, <2>1, <2>5
    <3>2. \A i \in 0..(c - 1) : FragmentOf(m, i, c) # f
      BY <2>3, <2>5 DEF m0
    <3>3. ASSUME NEW i \in 0..(c - 1)
          PROVE  \/ FragmentOf(m, i, c)' \in network'
                 \/ m \in DOMAIN groups' /\ groups'[m].count = c /\ i \in DOMAIN groups'[m].parts
      <4>1. FragmentOf(m, i, c)' = FragmentOf(m, i, c)
        BY <1>1 DEF FragmentOf
      <4>. QED  BY <1>1, <2>2, <3>1, <3>2, <4>1
    <3>. QED  BY <3>3 DEF Whole
  <2>. QED  BY <2>4, <2>5
<1>24. Complete(g) /\ localPeer => /\ delivered' = delivered (+) SetToBag({carries[m0]})
                                   /\ carries[m0] \in offered \ DOMAIN delivered
  BY <1>0, <1>1, <1>3
<1>. QED  BY <1>20, <1>21, <1>22, <1>23, <1>24 DEF CarrierInv, g, m0

\* Every step keeps the invariant.
LEMMA CarrierStep == CarrierInv /\ [CarrierNext]_carrierVars => CarrierInv'
<1>. SUFFICES ASSUME CarrierInv, [CarrierNext]_carrierVars PROVE CarrierInv'
  OBVIOUS
<1>1. CASE \E d \in Payloads, count \in 1..MaxFragments : SendCarrier(d, count)
  BY <1>1, SendCarrierStep
<1>2. ASSUME NEW f \in network, Lose(f) \/ Push(f) \/ PushFails(f)
      PROVE  CarrierInv'
  <2>1. CASE Lose(f)
    BY <2>1, LoseStep
  <2>2. CASE Push(f)
    BY <2>2, PushStep
  <2>3. CASE PushFails(f)
    BY <2>3, NewSessionStep DEF PushFails
  <2>. QED  BY <1>2, <2>1, <2>2, <2>3
<1>3. CASE LinkFails
  BY <1>3, NewSessionStep DEF LinkFails
<1>4. CASE LocalDatagram
  BY <1>4, LocalDatagramStep
<1>5. CASE GroupsAge
  BY <1>5, GroupsAgeStep
<1>6. CASE UNCHANGED carrierVars
  <2>. USE <1>6 DEF carrierVars
  <2>1. Sends'
    BY DEF CarrierInv, Sends
  <2>2. Flying'
    BY DEF CarrierInv, Flying, FragmentOf
  <2>3. Assembling'
    BY DEF CarrierInv, Assembling
  <2>4. Accounted'
    BY DEF CarrierInv, Accounted, Whole, FragmentOf
  <2>. QED  BY <2>1, <2>2, <2>3, <2>4 DEF CarrierInv
<1>. QED  BY <1>1, <1>2, <1>3, <1>4, <1>5, <1>6 DEF CarrierNext

\* The invariant contains the bound on the table and explains every loss.
LEMMA CarrierImplies == CarrierInv => CarrierTypeOK /\ LossesExplained
<1>. SUFFICES ASSUME CarrierInv PROVE CarrierTypeOK /\ LossesExplained
  OBVIOUS
<1>. USE CarrierAssumption
<1>1. CarrierTypeOK
  <2>1. \A f \in network : f.index < f.count
    BY DEF CarrierInv, Flying
  <2>2. \A m \in DOMAIN groups : groups[m].age <= CarrierTtl + 1
    BY DEF CarrierInv, Assembling
  <2>. QED  BY <2>1, <2>2 DEF CarrierTypeOK, CarrierInv, Sends, Assembling
<1>2. NothingElseIsLost
  <2>. SUFFICES ASSUME NEW m \in 1..message, m \notin wanting, carries[m] \notin DOMAIN delivered
                PROVE  \E f \in network : f.message = m
    BY DEF NothingElseIsLost, BagIn, BagToSet, CarrierInv, Sends
  <2>1. PICK c \in 1..MaxFragments : \A i \in 0..(c - 1) :
            \/ FragmentOf(m, i, c) \in network
            \/ m \in DOMAIN groups /\ groups[m].count = c /\ i \in DOMAIN groups[m].parts
    BY DEF CarrierInv, Accounted, Whole
  <2>2. \E i \in 0..(c - 1) : FragmentOf(m, i, c) \in network
    <3>. SUFFICES ASSUME \A i \in 0..(c - 1) : FragmentOf(m, i, c) \notin network PROVE FALSE
      OBVIOUS
    <3>1. 0 \in 0..(c - 1)
      OBVIOUS
    <3>2. m \in DOMAIN groups /\ groups[m].count = c
      BY <2>1, <3>1
    <3>3. 0..(c - 1) \subseteq DOMAIN groups[m].parts
      BY <2>1
    <3>. QED  BY <3>2, <3>3 DEF CarrierInv, Assembling
  <2>3. \A i : FragmentOf(m, i, c).message = m
    BY DEF FragmentOf
  <2>. QED  BY <2>2, <2>3
<1>3. EndsOnlyWhenFull
  <2>. SUFFICES ASSUME NEW f \in network, Unacceptable(f)
                PROVE  Cardinality(Live) = MaxGroups /\ f.message \notin Live
    BY DEF EndsOnlyWhenFull
  <2>1. Group(f).count = f.count
    <3>1. CASE f.message \in Live
      BY <3>1 DEF Group, Live, CarrierInv, Assembling
    <3>2. CASE f.message \notin Live
      <4>1. Group(f) = [age |-> 0, count |-> f.count, parts |-> [i \in {} |-> 0]]
        BY <3>2 DEF Group
      <4>. QED  BY <4>1
    <3>. QED  BY <3>1, <3>2
  <2>2. f.message \notin Live /\ ~(Cardinality(Live) < MaxGroups)
    BY <2>1 DEF Unacceptable, Fits
  <2>. QED  BY <2>2, LiveFinite
<1>. QED  BY <1>1, <1>2, <1>3 DEF LossesExplained

\* A step of the relay is a step of the channel, or none.
LEMMA CarrierStepOfChannel ==
    ASSUME CarrierInv, [CarrierNext]_carrierVars
    PROVE  [Channel!Next]_(Channel!vars)
<1>1. ASSUME NEW d \in Payloads, NEW count \in 1..MaxFragments, SendCarrier(d, count)
      PROVE  Channel!Next
  <2>1. d \notin offered
    BY <1>1 DEF SendCarrier, CarrierInv, Sends
  <2>2. Channel!Send(d)
    BY <1>1 DEF SendCarrier, Channel!Send
  <2>. QED  BY <2>1, <2>2 DEF Channel!Next
<1>2. ASSUME NEW f \in network, Push(f)
      PROVE  Channel!Next \/ UNCHANGED Channel!vars
  <2>1. CASE Complete(WithPart(f)) /\ localPeer
    <3>1. /\ delivered' = delivered (+) SetToBag({carries[f.message]})
          /\ carries[f.message] \in offered \ DOMAIN delivered
      BY <1>2, <2>1, PushStep
    <3>2. offered' = offered
      BY <1>2 DEF Push
    <3>4. delivered' = [d \in DOMAIN delivered \cup {carries[f.message]} |->
                            IF d \in {carries[f.message]} THEN 1 ELSE delivered[d]]
      BY <3>1 DEF (+), SetToBag, CarrierInv, Sends
    <3>3. Channel!Deliver({carries[f.message]})
      BY <3>1, <3>2, <3>4 DEF Channel!Deliver
    <3>. QED  BY <3>1, <3>3 DEF Channel!Next
  <2>2. CASE ~(Complete(WithPart(f)) /\ localPeer)
    BY <1>2, <2>2 DEF Push, Channel!vars
  <2>. QED  BY <2>1, <2>2
<1>3. ASSUME NEW f \in network, Lose(f) PROVE UNCHANGED Channel!vars
  BY <1>3 DEF Lose, Channel!vars
<1>4. NewSession => UNCHANGED Channel!vars
  BY DEF NewSession, Channel!vars
<1>5. LocalDatagram \/ GroupsAge \/ UNCHANGED carrierVars => UNCHANGED Channel!vars
  BY DEF LocalDatagram, GroupsAge, carrierVars, Channel!vars
<1>. QED  BY <1>1, <1>2, <1>3, <1>4, <1>5 DEF CarrierNext, PushFails, LinkFails

\* The table of incomplete datagrams stays within MAX_CARRIER_GROUPS.
THEOREM CarrierTypeCorrect == CarrierSpec => []CarrierTypeOK
<1>. QED  BY CarrierInitially, CarrierStep, CarrierImplies, PTL DEF CarrierSpec

\* The relay loses a datagram or a session only for the reasons the code names,
\* whatever the number of fragments, of groups and of connections.
THEOREM CarrierLosses == CarrierSpec => []LossesExplained
<1>. QED  BY CarrierInitially, CarrierStep, CarrierImplies, PTL DEF CarrierSpec

\* Fragmentation, reassembly and reconnection implement the datagram channel:
\* what comes out was put in, whole and unmixed, each at most once.
THEOREM CarrierImplementsChannel == CarrierSpec => CarrierIsChannel
<1>1. CarrierInit => Channel!Init
  BY DEF CarrierInit, Channel!Init, EmptyBag, SetToBag
<1>2. CarrierInv /\ [CarrierNext]_carrierVars => [Channel!Next]_(Channel!vars)
  BY CarrierStepOfChannel
<1>. QED  BY <1>1, <1>2, CarrierInitially, CarrierStep, PTL DEF CarrierSpec, CarrierIsChannel, Channel!Spec

=============================================================================
