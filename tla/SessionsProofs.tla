--------------------------- MODULE SessionsProofs ---------------------------
(***************************************************************************)
(* The session table's invariants, for any number of devices and any       *)
(* limits.  That the sessions of a device never coexist rests on the order *)
(* of the receive handler: the others are removed before the new one is    *)
(* counted and inserted.  That an established session stays needs one fact *)
(* about the network: no frame belongs to a session that has not started.  *)
(***************************************************************************)
EXTENDS ServerSessions, FiniteSetTheorems, TLAPS

Ids == Keys \X (1..MaxStarts)

\* No frame is younger than its device's running client.
FlightPast == \A f \in flight : f.session <= client[f.key].session

IInv ==
    /\ TypeOK
    /\ SessionsBounded
    /\ IsFiniteSet(DOMAIN sessions)
    /\ FlightPast

\* The constants are numbers.
LEMMA Constants ==
    /\ MaxSessions \in Nat \ {0} /\ PerDevice \in Nat \ {0}
    /\ TakeoverMax \in Nat \ {0} /\ IdleAfter \in Nat \ {0}
    /\ MaxStarts \in Nat /\ MaxFailures \in Nat /\ MaxUpstream \in Nat
BY SessionsAssumption

\* Resetting the idle time of an entry keeps the table's ids and entries.
LEMMA RefreshTable ==
    ASSUME TypeOK, NEW id \in DOMAIN sessions
    PROVE  /\ DOMAIN Refreshed(sessions, id) = DOMAIN sessions
           /\ \A i \in DOMAIN sessions : Refreshed(sessions, id)[i] \in Entry
           /\ \A i \in DOMAIN sessions \ {id} : Refreshed(sessions, id)[i] = sessions[i]
<1>1. sessions[id] \in Entry
  BY DEF TypeOK
<1>2. [sessions[id] EXCEPT !.idle = 0] \in Entry
  BY <1>1, Constants DEF Entry
<1> QED
  BY <1>2 DEF Refreshed, TypeOK

\* What a frame of an unknown session leaves in the table: the sessions of the
\* other devices, untouched, and perhaps the new one.
LEMMA NewTable ==
    ASSUME TypeOK, NEW f \in Frame, NewSession(f)
    PROVE  LET kept == {i \in DOMAIN sessions : i[1] # f.key}
               id == <<f.key, f.session>>
           IN /\ \A i \in kept : sessions'[i] = sessions[i]
              /\ \/ DOMAIN sessions' = kept
                 \/ /\ DOMAIN sessions' = kept \cup {id}
                    /\ Cardinality(kept) < MaxSessions
                    /\ sessions'[id] = NewEntry
<1> DEFINE kept == {i \in DOMAIN sessions : i[1] # f.key}
           id == <<f.key, f.session>>
           table == [i \in kept |-> sessions[i]]
<1>1. DOMAIN sessions \ Superseded(f) = kept
  BY DEF Superseded, SessionsOf
<1>2. Restrict(sessions, DOMAIN sessions \ Superseded(f)) = table
  BY <1>1 DEF Restrict
<1>3. DOMAIN table = kept /\ \A i \in kept : table[i] = sessions[i]
  OBVIOUS
<1>4. id \notin kept
  OBVIOUS
<1>5. \/ sessions' = table
      \/ /\ sessions' = Inserted(table, id, NewEntry)
         /\ Cardinality(DOMAIN table) < MaxSessions
  BY <1>2 DEF NewSession
<1>6. CASE sessions' = table
  BY <1>3, <1>6
<1>7. CASE /\ sessions' = Inserted(table, id, NewEntry)
           /\ Cardinality(DOMAIN table) < MaxSessions
  <2>1. DOMAIN sessions' = {id} \cup kept
    BY <1>3, <1>7 DEF Inserted
  <2>2. sessions'[id] = NewEntry
    BY <1>3, <1>7 DEF Inserted
  <2>3. \A i \in kept : sessions'[i] = sessions[i]
    BY <1>3, <1>4, <1>7 DEF Inserted
  <2> QED
    BY <1>3, <1>7, <2>1, <2>2, <2>3
<1> QED
  BY <1>5, <1>6, <1>7

\* An empty table satisfies the invariant.
LEMMA InitIInv == Init => IInv
<1> SUFFICES ASSUME Init PROVE IInv
  OBVIOUS
<1>1. DOMAIN sessions = {}
  BY DEF Init
<1>2. IsFiniteSet(DOMAIN sessions) /\ Cardinality(DOMAIN sessions) = 0
  BY <1>1, FS_EmptySet
<1>3. client \in [Keys -> [session : 0..MaxStarts, seq : 1..(TakeoverMax + 1)]]
  BY Constants DEF Init
<1>4. TypeOK
  BY <1>1, <1>3, Constants DEF Init, TypeOK
<1>5. SessionsBounded
  BY <1>1, <1>2, Constants DEF SessionsBounded
<1>6. FlightPast
  BY DEF Init, FlightPast
<1> QED
  BY <1>2, <1>4, <1>5, <1>6 DEF IInv

\* A smaller table, or one with the same ids, is still bounded.
LEMMA Shrinks ==
    ASSUME SessionsBounded, IsFiniteSet(DOMAIN sessions),
           DOMAIN sessions' \subseteq DOMAIN sessions
    PROVE  SessionsBounded' /\ IsFiniteSet(DOMAIN sessions')
<1>1. /\ IsFiniteSet(DOMAIN sessions')
      /\ Cardinality(DOMAIN sessions') <= Cardinality(DOMAIN sessions)
  BY FS_Subset
<1>2. Cardinality(DOMAIN sessions) \in Nat /\ Cardinality(DOMAIN sessions') \in Nat
  BY <1>1, FS_CardinalityType
<1> QED
  BY <1>1, <1>2, Constants DEF SessionsBounded

\* The receive handler keeps the table well formed.
LEMMA HandlerTable ==
    ASSUME TypeOK, SessionsBounded, IsFiniteSet(DOMAIN sessions),
           NEW f \in Frame, KnownSession(f) \/ NewSession(f) \/ Refuse(f)
    PROVE  /\ SessionsBounded' /\ IsFiniteSet(DOMAIN sessions')
           /\ DOMAIN sessions' \subseteq Ids
           /\ \A i \in DOMAIN sessions' : sessions'[i] \in Entry
<1>1. DOMAIN sessions \subseteq Ids /\ \A i \in DOMAIN sessions : sessions[i] \in Entry
  BY DEF TypeOK, Ids
<1>2. CASE KnownSession(f)
  <2>1. /\ DOMAIN sessions' = DOMAIN sessions
        /\ \A i \in DOMAIN sessions : sessions'[i] \in Entry
    BY <1>2, RefreshTable DEF KnownSession
  <2> QED
    BY <1>1, <2>1, Shrinks
<1>3. CASE Refuse(f)
  BY <1>1, <1>3, Shrinks DEF Refuse
<1>4. CASE NewSession(f)
  <2> DEFINE kept == {i \in DOMAIN sessions : i[1] # f.key}
             id == <<f.key, f.session>>
  <2>1. /\ \A i \in kept : sessions'[i] = sessions[i]
        /\ \/ DOMAIN sessions' = kept
           \/ /\ DOMAIN sessions' = kept \cup {id}
              /\ Cardinality(kept) < MaxSessions
              /\ sessions'[id] = NewEntry
    BY <1>4, NewTable
  <2>2. NewEntry \in Entry
    BY Constants DEF Entry, NewEntry
  <2>3. kept \subseteq DOMAIN sessions /\ id \in Ids /\ id \notin kept
    BY DEF Frame, Ids
  <2>4. IsFiniteSet(kept)
    BY <2>3, FS_Subset
  <2>5. Cardinality(kept) \in Nat
    BY <2>4, FS_CardinalityType
  <2>6. CASE DOMAIN sessions' = kept
    BY <1>1, <2>1, <2>3, <2>6, Shrinks
  <2>7. CASE /\ DOMAIN sessions' = kept \cup {id}
             /\ Cardinality(kept) < MaxSessions
             /\ sessions'[id] = NewEntry
    <3>1. /\ IsFiniteSet(kept \cup {id})
          /\ Cardinality(kept \cup {id}) = Cardinality(kept) + 1
      <4> HIDE DEF kept, id
      <4> QED
        BY <2>3, <2>4, FS_AddElement
    <3>2. Cardinality(DOMAIN sessions') <= MaxSessions
      <4> HIDE DEF kept, id
      <4> QED
        BY <2>5, <2>7, <3>1, Constants
    <3>3. \A i \in kept : i[1] # f.key
      OBVIOUS
    <3>4. \A i, j \in DOMAIN sessions' : i[1] = j[1] => i = j
      <4> SUFFICES ASSUME NEW i \in DOMAIN sessions', NEW j \in DOMAIN sessions', i[1] = j[1]
                   PROVE  i = j
        OBVIOUS
      <4>1. id[1] = f.key
        OBVIOUS
      <4>2. i \in kept \cup {id} /\ j \in kept \cup {id}
        BY <2>7
      <4>3. i \in kept /\ j \in kept => i = j
        BY DEF SessionsBounded
      <4> HIDE DEF kept, id
      <4> QED
        BY <3>3, <4>1, <4>2, <4>3
    <3>5. SessionsBounded'
      BY <3>2, <3>4 DEF SessionsBounded
    <3>6. DOMAIN sessions' \subseteq Ids
      BY <1>1, <2>3, <2>7
    <3>7. \A i \in DOMAIN sessions' : sessions'[i] \in Entry
      <4> HIDE DEF id
      <4> QED
        BY <1>1, <2>1, <2>2, <2>3, <2>7
    <3> QED
      <4> HIDE DEF kept, id
      <4> QED
        BY <2>7, <3>1, <3>5, <3>6, <3>7
  <2> QED
    BY <2>1, <2>6, <2>7
<1> QED
  BY <1>2, <1>3, <1>4

\* Every step preserves IInv.
LEMMA NextIInv == IInv /\ [Next]_vars => IInv'
<1> SUFFICES ASSUME IInv, [Next]_vars PROVE IInv'
  OBVIOUS
<1>0. /\ TypeOK /\ SessionsBounded /\ IsFiniteSet(DOMAIN sessions) /\ FlightPast
  BY DEF IInv
<1>t. /\ DOMAIN sessions \subseteq Ids /\ \A i \in DOMAIN sessions : sessions[i] \in Entry
      /\ client \in [Keys -> [session : 0..MaxStarts, seq : 1..(TakeoverMax + 1)]]
      /\ flight \subseteq Frame /\ failures \in 0..MaxFailures /\ upstream \in 0..MaxUpstream
  BY <1>0 DEF TypeOK, Ids
<1>1. ASSUME NEW k \in Keys, ClientStart(k)
      PROVE  IInv'
  <2>1. client[k].session \in 0..MaxStarts /\ client[k].session < MaxStarts
    BY <1>1, <1>t DEF ClientStart
  <2>2. [session |-> client[k].session + 1, seq |-> 1]
            \in [session : 0..MaxStarts, seq : 1..(TakeoverMax + 1)]
    BY <2>1, Constants
  <2>3. client' = [client EXCEPT ![k] = [session |-> client[k].session + 1, seq |-> 1]]
    BY <1>1 DEF ClientStart
  <2>4. client' \in [Keys -> [session : 0..MaxStarts, seq : 1..(TakeoverMax + 1)]]
    BY <1>t, <2>2, <2>3
  <2>5. UNCHANGED <<sessions, flight, failures, upstream>>
    BY <1>1 DEF ClientStart
  <2>6. TypeOK'
    BY <1>0, <2>4, <2>5 DEF TypeOK
  <2>7. \A f \in flight : f.key \in Keys /\ f.session \in Nat /\ f.session <= client[f.key].session
    BY <1>0, <1>t DEF FlightPast, Frame
  <2>8. \A j \in Keys : client'[j].session >= client[j].session
    BY <1>t, <2>1, <2>3
  <2>9. \A j \in Keys : client'[j].session \in Nat /\ client[j].session \in Nat
    BY <1>t, <2>4
  <2>10. FlightPast'
    BY <2>5, <2>7, <2>8, <2>9 DEF FlightPast
  <2> QED
    BY <1>0, <2>5, <2>6, <2>10 DEF IInv, SessionsBounded
<1>2. ASSUME NEW k \in Keys, ClientSend(k)
      PROVE  IInv'
  <2> DEFINE f == [key |-> k, session |-> client[k].session, seq |-> client[k].seq]
  <2>1. client[k].session \in 1..MaxStarts /\ client[k].seq \in 1..(TakeoverMax + 1)
    BY <1>2, <1>t, Constants DEF ClientSend
  <2>2. f \in Frame
    BY <2>1 DEF Frame
  <2>3. flight' = flight \cup {f} /\ UNCHANGED <<sessions, failures, upstream>>
    BY <1>2 DEF ClientSend
  <2>4. client' = [client EXCEPT ![k].seq = IF @ > TakeoverMax THEN @ ELSE @ + 1]
    BY <1>2 DEF ClientSend
  <2>5. client' \in [Keys -> [session : 0..MaxStarts, seq : 1..(TakeoverMax + 1)]]
    BY <1>t, <2>1, <2>4, Constants
  <2>6. \A j \in Keys : client'[j].session = client[j].session
    BY <1>t, <2>4
  <2>7. TypeOK'
    BY <1>0, <2>2, <2>3, <2>5 DEF TypeOK
  <2>8. FlightPast'
    <3>1. \A g \in flight : g.key \in Keys /\ g.session <= client[g.key].session
      BY <1>0, <1>t DEF FlightPast, Frame
    <3>2. f.session <= client'[f.key].session
      BY <2>1, <2>6
    <3> HIDE DEF f
    <3> QED
      BY <2>3, <2>6, <3>1, <3>2 DEF FlightPast
  <2> QED
    BY <1>0, <2>3, <2>7, <2>8 DEF IInv, SessionsBounded
<1>3. ASSUME NEW f \in flight, Lose(f)
      PROVE  IInv'
  BY <1>0, <1>3 DEF IInv, TypeOK, SessionsBounded, FlightPast, Lose
<1>4. ASSUME NEW f \in flight, NEW again \in BOOLEAN, Deliver(f, again)
      PROVE  IInv'
  <2>1. f \in Frame
    BY <1>t
  <2>2. /\ SessionsBounded' /\ IsFiniteSet(DOMAIN sessions')
        /\ DOMAIN sessions' \subseteq Ids
        /\ \A i \in DOMAIN sessions' : sessions'[i] \in Entry
    BY <1>0, <1>4, <2>1, HandlerTable DEF Deliver
  <2>3. flight' \subseteq flight /\ UNCHANGED <<client, failures, upstream>>
    BY <1>4 DEF Deliver
  <2>4. TypeOK'
    BY <1>0, <2>2, <2>3 DEF TypeOK, Ids
  <2>5. FlightPast'
    BY <1>0, <2>3 DEF FlightPast
  <2> QED
    BY <2>2, <2>4, <2>5 DEF IInv
<1>5. ASSUME NEW id \in DOMAIN sessions, UpstreamRecv(id)
      PROVE  IInv'
  <2>1. /\ DOMAIN sessions' = DOMAIN sessions
        /\ \A i \in DOMAIN sessions : sessions'[i] \in Entry
    BY <1>0, <1>5, RefreshTable DEF UpstreamRecv
  <2>2. upstream' \in 0..MaxUpstream /\ UNCHANGED <<client, flight, failures>>
    BY <1>t, <1>5, Constants DEF UpstreamRecv
  <2>3. SessionsBounded' /\ IsFiniteSet(DOMAIN sessions')
    BY <1>0, <2>1, Shrinks
  <2> QED
    BY <1>0, <2>1, <2>2, <2>3 DEF IInv, TypeOK, FlightPast
<1>6. ASSUME NEW id \in DOMAIN sessions, TaskEnds(id)
      PROVE  IInv'
  <2>1. [sessions[id] EXCEPT !.finished = TRUE] \in Entry
    BY <1>t DEF Entry
  <2>2. sessions' = [sessions EXCEPT ![id].finished = TRUE]
    BY <1>6 DEF TaskEnds
  <2>3. /\ DOMAIN sessions' = DOMAIN sessions
        /\ \A i \in DOMAIN sessions : sessions'[i] \in Entry
    BY <1>t, <2>1, <2>2
  <2>4. failures' \in 0..MaxFailures /\ UNCHANGED <<client, flight, upstream>>
    BY <1>t, <1>6, Constants DEF TaskEnds
  <2>5. SessionsBounded' /\ IsFiniteSet(DOMAIN sessions')
    BY <1>0, <2>3, Shrinks
  <2> QED
    BY <1>0, <2>3, <2>4, <2>5 DEF IInv, TypeOK, FlightPast
<1>7. CASE ServerRestart
  <2>1. DOMAIN sessions' = {}
    BY <1>7 DEF ServerRestart
  <2>2. failures' \in 0..MaxFailures /\ UNCHANGED <<client, flight, upstream>>
    BY <1>t, <1>7, Constants DEF ServerRestart
  <2>3. SessionsBounded' /\ IsFiniteSet(DOMAIN sessions')
    BY <1>0, <2>1, Shrinks
  <2> QED
    BY <1>0, <2>1, <2>2, <2>3 DEF IInv, TypeOK, FlightPast
<1>8. CASE Cleanup
  <2>1. /\ DOMAIN sessions' \subseteq DOMAIN sessions
        /\ \A i \in DOMAIN sessions' : sessions'[i] = sessions[i]
        /\ UNCHANGED <<client, flight, failures, upstream>>
    BY <1>8 DEF Cleanup, Restrict
  <2>2. SessionsBounded' /\ IsFiniteSet(DOMAIN sessions')
    BY <1>0, <2>1, Shrinks
  <2> QED
    BY <1>0, <2>1, <2>2 DEF IInv, TypeOK, FlightPast
<1>9. CASE Tick
  <2>1. /\ DOMAIN sessions' = DOMAIN sessions
        /\ \A i \in DOMAIN sessions : sessions'[i] =
                [sessions[i] EXCEPT !.idle = IF @ = IdleAfter THEN @ ELSE @ + 1]
        /\ UNCHANGED <<client, flight, failures, upstream>>
    BY <1>9 DEF Tick
  <2>2. ASSUME NEW i \in DOMAIN sessions
        PROVE  [sessions[i] EXCEPT !.idle = IF @ = IdleAfter THEN @ ELSE @ + 1] \in Entry
    <3>1. sessions[i] \in Entry
      BY <1>t
    <3> QED
      BY <3>1, Constants DEF Entry
  <2>3. SessionsBounded' /\ IsFiniteSet(DOMAIN sessions')
    BY <1>0, <2>1, Shrinks
  <2> QED
    BY <1>0, <2>1, <2>2, <2>3 DEF IInv, TypeOK, FlightPast
<1>10. CASE UNCHANGED vars
  BY <1>0, <1>10 DEF IInv, TypeOK, SessionsBounded, FlightPast, vars
<1> QED
  BY <1>1, <1>2, <1>3, <1>4, <1>5, <1>6, <1>7, <1>8, <1>9, <1>10 DEF Next

\* The inductive invariant holds throughout.
THEOREM Inductive == Spec => []IInv
BY InitIInv, NextIInv, PTL DEF Spec

\* The entries of the session table keep their shape and ids.
THEOREM TypeCorrect == Spec => []TypeOK
<1>1. IInv => TypeOK
  BY DEF IInv
<1> QED
  BY <1>1, Inductive, PTL

\* A device never has two sessions, and the table never exceeds its limit,
\* for any number of devices, clients and network behaviours.
THEOREM Bounded == Spec => []SessionsBounded
<1>1. IInv => SessionsBounded
  BY DEF IInv
<1> QED
  BY <1>1, Inductive, PTL

\* A frame of one device changes no entry of another.
LEMMA IsolationStep ==
    ASSUME IInv, NEW f \in flight, NEW again \in BOOLEAN, Deliver(f, again),
           NEW id \in DOMAIN sessions, id[1] # f.key
    PROVE  id \in DOMAIN sessions' /\ sessions'[id] = sessions[id]
<1>1. TypeOK /\ f \in Frame
  BY DEF IInv, TypeOK
<1>2. CASE KnownSession(f)
  <2>1. id # <<f.key, f.session>>
    OBVIOUS
  <2> QED
    BY <1>1, <1>2, <2>1, RefreshTable DEF KnownSession
<1>3. CASE NewSession(f)
  <2> DEFINE kept == {i \in DOMAIN sessions : i[1] # f.key}
  <2>1. /\ \A i \in kept : sessions'[i] = sessions[i]
        /\ kept \subseteq DOMAIN sessions'
    BY <1>1, <1>3, NewTable
  <2> QED
    BY <2>1
<1>4. CASE Refuse(f)
  BY <1>4 DEF Refuse
<1> QED
  BY <1>2, <1>3, <1>4 DEF Deliver

\* Devices do not disturb each other's sessions, in a full table either.
THEOREM Isolation == Spec => DevicesIsolated
<1>1. IInv /\ [Next]_vars =>
        [\A f \in flight : (\E again \in BOOLEAN : Deliver(f, again)) =>
            \A id \in DOMAIN sessions : id[1] # f.key =>
                id \in DOMAIN sessions' /\ sessions'[id] = sessions[id]]_vars
  BY IsolationStep
<1> QED
  BY <1>1, Inductive, PTL DEF Spec, DevicesIsolated

\* The step of a frame that finds the newest session of its device established.
LEMMA EstablishedHandler ==
    ASSUME IInv, NEW k \in Keys, Established(k),
           NEW f \in flight, NEW again \in BOOLEAN, Deliver(f, again)
    PROVE  Current(k) \in DOMAIN sessions'
<1>1. TypeOK /\ f \in Frame /\ f.session <= client[f.key].session
  BY DEF IInv, TypeOK, FlightPast
<1>2. CASE f.key # k
  <2>1. Current(k) \in DOMAIN sessions /\ Current(k)[1] = k
    BY DEF Established, Current
  <2> QED
    BY <1>2, <2>1, IsolationStep
<1>3. CASE f.key = k
  <2>1. Current(k) = <<k, client[k].session>> /\ Current(k) \in DOMAIN sessions
    BY DEF Established, Current
  <2>2. CASE KnownSession(f)
    BY <1>1, <2>1, <2>2, RefreshTable DEF KnownSession
  <2>3. CASE NewSession(f)
    <3>1. <<f.key, f.session>> \notin DOMAIN sessions
      BY <2>3 DEF NewSession
    <3>2. f.session # client[k].session
      BY <1>3, <2>1, <3>1
    <3>3. f.session \in Nat /\ client[k].session \in Nat /\ f.seq \in Nat
      BY <1>1 DEF TypeOK, Frame
    <3>4. f.session < client[k].session
      BY <1>1, <1>3, <3>2, <3>3
    <3>5. f.seq > TakeoverMax
      BY <1>3, <3>4 DEF Established
    <3>6. Current(k) \in SessionsOf(f.key)
      BY <1>3, <2>1 DEF SessionsOf
    <3>7. ~MayTakeOver(f)
      BY <3>3, <3>5, <3>6, Constants DEF MayTakeOver
    <3> QED
      BY <2>3, <3>7 DEF NewSession
  <2>4. CASE Refuse(f)
    BY <2>1, <2>4 DEF Refuse
  <2> QED
    BY <2>2, <2>3, <2>4 DEF Deliver
<1> QED
  BY <1>2, <1>3

\* An established session ends by idleness, the end of its task or a restart,
\* never by a late frame of an earlier session of the same device.
THEOREM Stays == Spec => EstablishedStays
<1> DEFINE Keeps == \A k \in Keys : Established(k) /\ ~ServerRestart =>
                Current(k) \in DOMAIN sessions' \/ Expired(Current(k)) \/ client[k]' # client[k]
<1>1. ASSUME IInv, Next PROVE Keeps
  <2> SUFFICES ASSUME NEW k \in Keys, Established(k), ~ServerRestart, ~Expired(Current(k))
               PROVE  Current(k) \in DOMAIN sessions'
    OBVIOUS
  <2>1. TypeOK /\ Current(k) \in DOMAIN sessions
    BY <1>1 DEF IInv, Established
  <2>2. ASSUME NEW j \in Keys, ClientStart(j) \/ ClientSend(j)
        PROVE  Current(k) \in DOMAIN sessions'
    BY <2>1, <2>2 DEF ClientStart, ClientSend
  <2>3. ASSUME NEW f \in flight, Lose(f)
        PROVE  Current(k) \in DOMAIN sessions'
    BY <2>1, <2>3 DEF Lose
  <2>4. ASSUME NEW f \in flight, NEW again \in BOOLEAN, Deliver(f, again)
        PROVE  Current(k) \in DOMAIN sessions'
    BY <1>1, <2>4, EstablishedHandler
  <2>5. ASSUME NEW id \in DOMAIN sessions, UpstreamRecv(id) \/ TaskEnds(id)
        PROVE  Current(k) \in DOMAIN sessions'
    BY <2>1, <2>5 DEF UpstreamRecv, TaskEnds, Refreshed
  <2>6. CASE Cleanup
    BY <2>1, <2>6 DEF Cleanup, Restrict
  <2>7. CASE Tick
    BY <2>1, <2>7 DEF Tick
  <2> QED
    BY <1>1, <2>2, <2>3, <2>4, <2>5, <2>6, <2>7 DEF Next
<1>2. IInv /\ [Next]_vars => [Keeps]_vars
  BY <1>1
<1> QED
  BY <1>2, Inductive, PTL DEF Spec, EstablishedStays

=============================================================================
