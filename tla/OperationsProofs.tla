-------------------------- MODULE OperationsProofs --------------------------
(***************************************************************************)
(* The programs around the tunnel: balancer, supervisor, controller.       *)
(*                                                                         *)
(* The balancer's safety properties hold for any number of upstreams and   *)
(* of clients at once.  That a refused client was failed by every upstream *)
(* rests on the second round: whatever the flags do, it skips nothing, and *)
(* its places (start + offset) % N reach every upstream.                   *)
(*                                                                         *)
(* The supervisor's restarts are justified for every FAILURE_LIMIT, as its *)
(* counter never exceeds the failures in a row; the controller's verdict   *)
(* is right for every set of configurations.                               *)
(***************************************************************************)
EXTENDS Balancer, Supervisor, Planner, FiniteSetTheorems, TLAPS

\* A handler in its second round has failed at every place before its own.
SecondRound(h) ==
    h.at # "refused" /\ h.round = 2 =>
        \A j \in Upstreams : j < h.offset => (h.start + j) % N \in h.failed

WalkInv == RefusedAfterAll /\ \A c \in Clients : SecondRound(handler[c])

\* The clients that upstream u is relaying.
Relayed(u) == {c \in Clients : handler[c].at = "relay" /\ Index(handler[c]) = u}

\* There are upstreams, and finitely many clients.
LEMMA Constants == N \in Nat /\ N > 1 /\ 0 \in Upstreams /\ IsFiniteSet(Clients)
BY BalanceAssumption DEF Upstreams

\* A place of the walk is an upstream.
LEMMA IndexType == ASSUME NEW h \in Handlers PROVE Index(h) \in Upstreams
<1>1. h.start + h.offset \in Nat
  BY Constants DEF Handlers, Upstreams
<1> QED
  BY <1>1, Constants DEF Index, Upstreams

\* The places of one round reach every upstream.
LEMMA RoundReachesAll ==
    ASSUME NEW s \in Upstreams, NEW u \in Upstreams
    PROVE  \E j \in Upstreams : (s + j) % N = u
<1>1. u % N = u /\ (u + N) % N = u
  BY Constants DEF Upstreams
<1>2. CASE s <= u
  <2>1. u - s \in Upstreams /\ s + (u - s) = u
    BY <1>2, Constants DEF Upstreams
  <2> QED
    BY <1>1, <2>1
<1>3. CASE s > u
  <2>1. u + N - s \in Upstreams /\ s + (u + N - s) = u + N
    BY <1>3, Constants DEF Upstreams
  <2> QED
    BY <1>1, <2>1
<1> QED
  BY <1>2, <1>3, Constants DEF Upstreams

\* The next place of a walk is a handler's state.
LEMMA NextPlaceType == ASSUME NEW h \in Handlers PROVE NextPlace(h) \in Handlers
BY Constants DEF NextPlace, Place, Handlers, Upstreams

-----------------------------------------------------------------------------

IInv == BalanceTypeOK /\ WalkInv /\ ActiveCounts

\* Counting one relay more or less: what the counter of its upstream and the
\* counters of the others have to do.
LEMMA CountStep ==
    ASSUME BalanceTypeOK, BalanceTypeOK', ActiveCounts, NEW c \in Clients, NEW d \in {-1, 1},
           \A v \in Upstreams :
               active'[v] = IF v = Index(handler[c]) THEN active[v] + d ELSE active[v],
           \A e \in Clients \ {c} : handler'[e] = handler[e],
           d = 1 => /\ handler[c].at # "relay" /\ handler'[c].at = "relay"
                    /\ Index(handler'[c]) = Index(handler[c]),
           d = -1 => handler[c].at = "relay" /\ handler'[c].at # "relay"
    PROVE  ActiveCounts'
<1> DEFINE u == Index(handler[c])
<1>1. u \in Upstreams
  BY IndexType DEF BalanceTypeOK
<1>2. SUFFICES ASSUME NEW v \in Upstreams
               PROVE  active'[v] = Cardinality(Relayed(v)')
  BY DEF ActiveCounts, Relayed
<1>3. active[v] = Cardinality(Relayed(v)) /\ IsFiniteSet(Relayed(v))
  BY Constants, FS_Subset DEF ActiveCounts, Relayed
<1>4. CASE v # u
  <2>1. Relayed(v)' = Relayed(v)
    BY <1>4 DEF Relayed, Index
  <2>2. active'[v] = active[v]
    BY <1>4 DEF BalanceTypeOK
  <2> QED
    BY <1>3, <2>1, <2>2
<1>5. CASE v = u /\ d = 1
  <2>1. Relayed(v)' = Relayed(v) \cup {c} /\ c \notin Relayed(v)
    BY <1>5 DEF Relayed, Index
  <2>2. Cardinality(Relayed(v)') = Cardinality(Relayed(v)) + 1
    BY <1>3, <2>1, FS_AddElement
  <2>3. active'[v] = active[v] + 1
    BY <1>1, <1>5 DEF BalanceTypeOK
  <2> QED
    BY <1>3, <2>2, <2>3
<1>6. CASE v = u /\ d = -1
  <2>1. Relayed(v)' = Relayed(v) \ {c} /\ c \in Relayed(v)
    BY <1>6 DEF Relayed, Index
  <2>2. Cardinality(Relayed(v)') = Cardinality(Relayed(v)) - 1
    BY <1>3, <2>1, FS_RemoveElement
  <2>3. active'[v] = active[v] - 1
    BY <1>1, <1>6 DEF BalanceTypeOK
  <2> QED
    BY <1>3, <2>2, <2>3
<1> QED
  BY <1>4, <1>5, <1>6

\* A step that leaves `active' and the set of relays alone keeps the count.
LEMMA CountSame ==
    ASSUME ActiveCounts, active' = active,
           \A c \in Clients : /\ handler'[c].at = "relay" <=> handler[c].at = "relay"
                              /\ handler[c].at = "relay" => handler'[c] = handler[c]
    PROVE  ActiveCounts'
<1>1. \A u \in Upstreams : Relayed(u)' = Relayed(u)
  BY DEF Relayed, Index
<1> QED
  BY <1>1 DEF ActiveCounts, Relayed

-----------------------------------------------------------------------------

\* Every step keeps the types; a counter is lowered only where it counts the
\* relay that ends.
LEMMA TypeStep ==
    ASSUME BalanceTypeOK, ActiveCounts, [BalanceNext]_balanceVars
    PROVE  BalanceTypeOK'
<1> USE DEF BalanceTypeOK
<1>0. Idle \in Handlers
  BY Constants DEF Idle, Handlers
<1>1. ASSUME NEW c \in Clients, Accept(c) \/ BadRequest(c) PROVE BalanceTypeOK'
  <2>1. CASE Accept(c)
    BY <2>1 DEF Accept, Goto, Handlers
  <2>2. CASE BadRequest(c)
    BY <1>0, <2>2 DEF BadRequest, Goto, Handlers
  <2> QED
    BY <1>1, <2>1, <2>2
<1>2. ASSUME NEW c \in Clients, Request(c) PROVE BalanceTypeOK'
  <2>1. (cursor + 1) % N \in Upstreams
    BY Constants DEF Upstreams
  <2>2. [at |-> "walk", start |-> cursor, round |-> 1, offset |-> 0, failed |-> {}] \in Handlers
    BY Constants DEF Handlers
  <2> QED
    BY <1>2, <2>1, <2>2 DEF Request
<1>3. ASSUME NEW c \in Clients, Visit(c) PROVE BalanceTypeOK'
  <2>1. handler[c] \in Handlers /\ NextPlace(handler[c]) \in Handlers
    BY NextPlaceType
  <2>2. [handler[c] EXCEPT !.at = "connect"] \in Handlers
    BY <2>1 DEF Handlers
  <2> QED
    BY <1>3, <2>1, <2>2 DEF Visit
<1>4. ASSUME NEW c \in Clients,
             HangUp(c) \/ \E answer \in {"ok", "error", "hung"} : Connect(c, answer)
      PROVE  BalanceTypeOK'
  BY <1>4 DEF Connect, HangUp, Goto, Handlers
<1>5. ASSUME NEW c \in Clients, StoreError(c) PROVE BalanceTypeOK'
  <2>1. handler[c] \in Handlers /\ Index(handler[c]) \in Upstreams
    BY IndexType
  <2>2. [handler[c] EXCEPT !.failed = @ \cup {Index(handler[c])}] \in Handlers
    BY <2>1 DEF Handlers
  <2> QED
    BY <1>5, <2>1, <2>2, NextPlaceType DEF StoreError
<1>6. ASSUME NEW c \in Clients, StoreOk(c) PROVE BalanceTypeOK'
  BY <1>6, IndexType DEF StoreOk, Goto, Handlers
<1>7. ASSUME NEW c \in Clients, Respond(c) PROVE BalanceTypeOK'
  BY <1>7, IndexType DEF Respond, Goto, Handlers
<1>8. ASSUME NEW c \in Clients, Gone(c) \/ Refuse(c) PROVE BalanceTypeOK'
  BY <1>0, <1>8 DEF Gone, Refuse
<1>9. ASSUME NEW c \in Clients, Finish(c) PROVE BalanceTypeOK'
  <2> DEFINE u == Index(handler[c])
  <2>1. u \in Upstreams /\ active[u] = Cardinality(Relayed(u))
    BY IndexType DEF ActiveCounts, Relayed
  <2>2. IsFiniteSet(Relayed(u)) /\ c \in Relayed(u)
    BY <1>9, Constants, FS_Subset DEF Relayed, Finish
  <2>3. active[u] # 0
    BY <2>1, <2>2, FS_EmptySet
  <2>4. active[u] - 1 \in Nat
    BY <2>1, <2>3
  <2> QED
    BY <1>0, <1>9, <2>1, <2>4 DEF Finish
<1>10. CASE Probe \/ ProbeHangUp
  <2>0. CASE ProbeHangUp
    BY <2>0 DEF ProbeHangUp
  <2>1. CASE ProbeTick
    BY <2>1, Constants DEF ProbeTick
  <2>2. CASE ProbeConnect
    BY <2>2 DEF ProbeConnect
  <2>3. CASE ProbeStore
    <3>1. healthy' \in [Upstreams -> BOOLEAN]
      BY <2>3 DEF ProbeStore
    <3>2. prober.index + 1 < N => prober.index + 1 \in Upstreams
      BY Constants DEF Upstreams
    <3>3. prober' \in [at : {"tick", "connect", "hung", "ok", "error"}, index : Upstreams]
      BY <2>3, <3>2, Constants DEF ProbeStore
    <3> QED
      BY <2>3, <3>1, <3>3 DEF ProbeStore
  <2> QED
    BY <1>10, <2>0, <2>1, <2>2, <2>3 DEF Probe
<1>11. ASSUME NEW u \in Upstreams, NEW x \in {"up", "failing", "silent"}, Change(u, x)
       PROVE  BalanceTypeOK'
  BY <1>11 DEF Change
<1>12. CASE UNCHANGED balanceVars
  BY <1>12 DEF balanceVars
<1> QED
  BY <1>1, <1>2, <1>3, <1>4, <1>5, <1>6, <1>7, <1>8, <1>9, <1>10, <1>11, <1>12
     DEF BalanceNext, Handle

\* The failure of a connection takes a handler on: it has failed at every place
\* before its next one, or, at the end of the second round, at every upstream.
LEMMA WalkOn ==
    ASSUME NEW h \in Handlers, h.at # "refused", SecondRound(h),
           h.round = 2 => Index(h) \in h.failed
    PROVE  LET g == NextPlace(h) IN
           SecondRound(g) /\ (g.at = "refused" => g.failed = Upstreams)
<1> DEFINE g == NextPlace(h)
<1>1. CASE h.offset + 1 < N
  <2>1. g = Place(h, "walk", h.round, h.offset + 1)
    BY <1>1 DEF NextPlace
  <2>2. g.at = "walk" /\ g.round = h.round /\ g.offset = h.offset + 1
        /\ g.start = h.start /\ g.failed = h.failed
    BY <2>1 DEF Place
  <2>3. ASSUME h.round = 2, NEW j \in Upstreams, j < h.offset + 1
        PROVE  (h.start + j) % N \in h.failed
    <3>1. j < h.offset \/ j = h.offset
      BY <2>3, Constants DEF Handlers, Upstreams
    <3> QED
      BY <2>3, <3>1 DEF SecondRound, Index
  <2> QED
    BY <2>2, <2>3 DEF SecondRound
<1>2. CASE ~(h.offset + 1 < N) /\ h.round = 1
  <2>1. g.at = "walk" /\ g.round = 2 /\ g.offset = 0
    BY <1>2 DEF NextPlace, Place
  <2> QED
    BY <2>1, Constants DEF SecondRound, Upstreams
<1>3. CASE ~(h.offset + 1 < N) /\ h.round = 2
  <2>1. g.at = "refused" /\ g.failed = h.failed
    BY <1>3 DEF NextPlace, Place
  <2>2. h.offset = N - 1 /\ h.start \in Upstreams /\ h.failed \subseteq Upstreams
    BY <1>3, Constants DEF Handlers, Upstreams
  <2>3. ASSUME NEW j \in Upstreams PROVE (h.start + j) % N \in h.failed
    <3>1. j < h.offset \/ j = h.offset
      BY <2>2, Constants DEF Upstreams
    <3> QED
      BY <1>3, <3>1 DEF SecondRound, Index
  <2>4. \A u \in Upstreams : u \in h.failed
    BY <2>2, <2>3, RoundReachesAll
  <2> QED
    BY <2>1, <2>2, <2>4 DEF SecondRound
<1> QED
  BY <1>1, <1>2, <1>3 DEF Handlers

\* Every step keeps the walks right.
LEMMA WalkStep ==
    ASSUME BalanceTypeOK, WalkInv, [BalanceNext]_balanceVars
    PROVE  WalkInv'
<1> DEFINE Good(h) == SecondRound(h) /\ (h.at = "refused" => h.failed = Upstreams)
<1>1. \A c \in Clients : Good(handler[c]) /\ handler[c] \in Handlers
  BY DEF WalkInv, RefusedAfterAll, BalanceTypeOK
<1>2. SUFFICES \A c \in Clients : Good(handler'[c])
  BY DEF WalkInv, RefusedAfterAll
<1>3. ASSUME NEW c \in Clients, NEW g, Good(g), handler' = [handler EXCEPT ![c] = g]
      PROVE  \A e \in Clients : Good(handler'[e])
  BY <1>1, <1>3 DEF BalanceTypeOK
<1>4. Good(Idle)
  BY DEF SecondRound, Idle
<1>5. ASSUME NEW c \in Clients, NEW at \in {"greeting", "idle", "connect", "hung", "ok", "error", "chosen", "relay"},
             handler[c].at # "refused"
      PROVE  Good([handler[c] EXCEPT !.at = at])
  BY <1>1, <1>5 DEF SecondRound, Handlers
<1>6. ASSUME NEW c \in Clients, NEW at \in {"greeting", "idle", "connect", "hung", "ok", "error", "chosen", "relay"},
             handler[c].at # "refused", Goto(c, at)
      PROVE  \A e \in Clients : Good(handler'[e])
  BY <1>3, <1>5, <1>6 DEF Goto
<1>7. ASSUME NEW c \in Clients,
             \/ Accept(c) \/ BadRequest(c) \/ HangUp(c) \/ StoreOk(c) \/ Respond(c)
             \/ \E answer \in {"ok", "error", "hung"} : Connect(c, answer)
      PROVE  \A e \in Clients : Good(handler'[e])
  BY <1>6, <1>7 DEF Accept, BadRequest, HangUp, StoreOk, Respond, Connect
<1>8. ASSUME NEW c \in Clients, Gone(c) \/ Finish(c) \/ Refuse(c)
      PROVE  \A e \in Clients : Good(handler'[e])
  BY <1>3, <1>4, <1>8 DEF Gone, Finish, Refuse
<1>9. ASSUME NEW c \in Clients, Request(c) PROVE \A e \in Clients : Good(handler'[e])
  <2> DEFINE g == [at |-> "walk", start |-> cursor, round |-> 1, offset |-> 0, failed |-> {}]
  <2>1. Good(g)
    BY DEF SecondRound
  <2> QED
    BY <1>3, <1>9, <2>1 DEF Request
<1>10. ASSUME NEW c \in Clients, Visit(c) PROVE \A e \in Clients : Good(handler'[e])
  <2> DEFINE h == handler[c]
  <2>1. CASE h.round = 1 /\ ~healthy[Index(h)]
    <3>1. Good(NextPlace(h))
      BY <1>1, <1>10, <2>1, WalkOn DEF Visit
    <3> QED
      BY <1>3, <1>10, <2>1, <3>1 DEF Visit
  <2>2. CASE ~(h.round = 1 /\ ~healthy[Index(h)])
    BY <1>3, <1>5, <1>10, <2>2 DEF Visit
  <2> QED
    BY <2>1, <2>2
<1>11. ASSUME NEW c \in Clients, StoreError(c) PROVE \A e \in Clients : Good(handler'[e])
  <2> DEFINE h == [handler[c] EXCEPT !.failed = @ \cup {Index(handler[c])}]
  <2>1. Index(handler[c]) \in Upstreams
    BY <1>1, IndexType
  <2>2. /\ h \in Handlers /\ h.at = "error"
        /\ h.start = handler[c].start /\ h.offset = handler[c].offset
        /\ h.round = handler[c].round
        /\ h.failed = handler[c].failed \cup {Index(handler[c])}
    BY <1>1, <1>11, <2>1 DEF Handlers, StoreError
  <2>3. SecondRound(h) /\ Index(h) \in h.failed
    BY <1>1, <1>11, <2>2 DEF SecondRound, Index, StoreError
  <2>4. Good(NextPlace(h))
    BY <2>2, <2>3, WalkOn
  <2> QED
    BY <1>3, <1>11, <2>4 DEF StoreError
<1>12. ASSUME UNCHANGED handler PROVE \A e \in Clients : Good(handler'[e])
  BY <1>1, <1>12
<1>13. CASE Probe \/ ProbeHangUp \/ UNCHANGED balanceVars
  BY <1>12, <1>13 DEF Probe, ProbeTick, ProbeConnect, ProbeStore, ProbeHangUp, balanceVars
<1>14. CASE \E u \in Upstreams, x \in {"up", "failing", "silent"} : Change(u, x)
  BY <1>12, <1>14 DEF Change
<1> QED
  BY <1>7, <1>8, <1>9, <1>10, <1>11, <1>13, <1>14 DEF BalanceNext, Handle

\* Every step keeps the counts.
LEMMA ActiveStep ==
    ASSUME BalanceTypeOK, BalanceTypeOK', ActiveCounts, [BalanceNext]_balanceVars
    PROVE  ActiveCounts'
<1>1. \A c \in Clients : handler[c] \in Handlers
  BY DEF BalanceTypeOK
<1>2. ASSUME NEW c \in Clients, NEW g, handler' = [handler EXCEPT ![c] = g],
             handler[c].at # "relay", g.at # "relay", active' = active
      PROVE  ActiveCounts'
  <2>1. \A e \in Clients \ {c} : handler'[e] = handler[e]
    BY <1>2 DEF BalanceTypeOK
  <2>2. handler'[c] = g
    BY <1>2 DEF BalanceTypeOK
  <2> QED
    BY <1>2, <2>1, <2>2, CountSame
<1>3. ASSUME NEW c \in Clients, NEW at \in {"greeting", "idle", "hung", "ok", "error", "chosen"},
             Goto(c, at), handler[c].at # "relay", active' = active
      PROVE  ActiveCounts'
  <2>1. [handler[c] EXCEPT !.at = at].at # "relay"
    BY <1>1 DEF Handlers
  <2> QED
    BY <1>2, <1>3, <2>1 DEF Goto
<1>4. ASSUME NEW c \in Clients,
             \/ Accept(c) \/ BadRequest(c) \/ HangUp(c) \/ StoreOk(c)
             \/ \E answer \in {"ok", "error", "hung"} : Connect(c, answer)
      PROVE  ActiveCounts'
  BY <1>3, <1>4 DEF Accept, BadRequest, HangUp, StoreOk, Connect
<1>5. ASSUME NEW c \in Clients, Request(c) PROVE ActiveCounts'
  <2> DEFINE g == [at |-> "walk", start |-> cursor, round |-> 1, offset |-> 0, failed |-> {}]
  <2>1. g.at # "relay" /\ handler[c].at # "relay" /\ active' = active
    BY <1>5 DEF Request
  <2>2. handler' = [handler EXCEPT ![c] = g]
    BY <1>5 DEF Request
  <2> HIDE DEF g
  <2> QED
    BY <1>2, <2>1, <2>2
<1>6. ASSUME NEW h \in Handlers PROVE NextPlace(h).at # "relay"
  BY DEF NextPlace, Place
<1>7. ASSUME NEW c \in Clients, Visit(c) PROVE ActiveCounts'
  <2>1. [handler[c] EXCEPT !.at = "connect"].at # "relay"
    BY <1>1 DEF Handlers
  <2> QED
    BY <1>1, <1>2, <1>6, <1>7, <2>1 DEF Visit
<1>8. ASSUME NEW c \in Clients, StoreError(c) PROVE ActiveCounts'
  <2> DEFINE h == [handler[c] EXCEPT !.failed = @ \cup {Index(handler[c])}]
  <2>1. Index(handler[c]) \in Upstreams
    BY <1>1, IndexType
  <2>2. h \in Handlers
    BY <1>1, <2>1 DEF Handlers
  <2> QED
    BY <1>2, <1>6, <1>8, <2>2 DEF StoreError
<1>9. ASSUME NEW c \in Clients, Gone(c) \/ Refuse(c) PROVE ActiveCounts'
  <2>1. Idle.at # "relay"
    BY DEF Idle
  <2> QED
    BY <1>2, <1>9, <2>1 DEF Gone, Refuse
<1>10. ASSUME NEW c \in Clients, Respond(c) PROVE ActiveCounts'
  <2>1. /\ handler'[c].at = "relay" /\ Index(handler'[c]) = Index(handler[c])
        /\ \A e \in Clients \ {c} : handler'[e] = handler[e]
    BY <1>1, <1>10 DEF Respond, Goto, Index, Handlers, BalanceTypeOK
  <2>2. handler[c].at # "relay"
    BY <1>10 DEF Respond
  <2>3. \A v \in Upstreams :
            active'[v] = IF v = Index(handler[c]) THEN active[v] + 1 ELSE active[v]
    BY <1>10 DEF Respond, BalanceTypeOK
  <2> QED
    BY <2>1, <2>2, <2>3, CountStep
<1>11. ASSUME NEW c \in Clients, Finish(c) PROVE ActiveCounts'
  <2>1. /\ handler[c].at = "relay" /\ handler'[c].at # "relay"
        /\ \A e \in Clients \ {c} : handler'[e] = handler[e]
    BY <1>11 DEF Finish, Idle, BalanceTypeOK
  <2>2. \A v \in Upstreams :
            active'[v] = IF v = Index(handler[c]) THEN active[v] + (-1) ELSE active[v]
    BY <1>11 DEF Finish, BalanceTypeOK
  <2> QED
    BY <2>1, <2>2, CountStep
<1>12. ASSUME UNCHANGED <<active, handler>> PROVE ActiveCounts'
  BY <1>12 DEF ActiveCounts, Index
<1>13. CASE Probe \/ ProbeHangUp \/ UNCHANGED balanceVars
  BY <1>12, <1>13 DEF Probe, ProbeTick, ProbeConnect, ProbeStore, ProbeHangUp, balanceVars
<1>14. CASE \E u \in Upstreams, x \in {"up", "failing", "silent"} : Change(u, x)
  BY <1>12, <1>14 DEF Change
<1> QED
  BY <1>4, <1>5, <1>7, <1>8, <1>9, <1>10, <1>11, <1>13, <1>14 DEF BalanceNext, Handle

-----------------------------------------------------------------------------

\* The invariant holds of the initial states.
LEMMA InitIInv == BalanceInit => IInv
<1> SUFFICES ASSUME BalanceInit PROVE IInv
  OBVIOUS
<1>1. BalanceTypeOK
  BY Constants DEF BalanceInit, BalanceTypeOK, Handlers, Idle
<1>2. \A c \in Clients : handler[c] = Idle
  BY DEF BalanceInit
<1>3. WalkInv
  BY <1>2 DEF WalkInv, RefusedAfterAll, SecondRound, Idle
<1>4. ASSUME NEW u \in Upstreams PROVE active[u] = Cardinality(Relayed(u))
  <2>1. Relayed(u) = {}
    BY <1>2 DEF Relayed, Idle
  <2> QED
    BY <2>1, FS_EmptySet DEF BalanceInit
<1> QED
  BY <1>1, <1>3, <1>4 DEF IInv, ActiveCounts, Relayed

\* The invariant holds of every state.
LEMMA Invariance == BalanceSpec => []IInv
<1>1. IInv /\ [BalanceNext]_balanceVars => IInv'
  BY TypeStep, WalkStep, ActiveStep DEF IInv
<1> QED
  BY <1>1, InitIInv, PTL DEF BalanceSpec

\* The balancer's fields keep their ranges; `active' never wraps below zero.
THEOREM TypeCorrect == BalanceSpec => []BalanceTypeOK
BY Invariance, PTL DEF IInv

\* handle_balanced_client refuses a client only after every upstream failed
\* it, for any number of upstreams and of clients that change the flags.
THEOREM Refusals == BalanceSpec => []RefusedAfterAll
BY Invariance, PTL DEF IInv, WalkInv

\* `active' is the number of relays of its upstream.
THEOREM Counts == BalanceSpec => []ActiveCounts
BY Invariance, PTL DEF IInv

-----------------------------------------------------------------------------
\* The supervisor

\* While it probes, the loop has counted no more failures than there were in a
\* row.
CountIsHonest == loopAt \in {"look", "probe"} => failures <= streak

\* The inductive invariant of the supervisor.
SupervisorInv == SupervisorTypeOK /\ RestartsJustified /\ CountIsHonest

\* The supervisor starts with nothing counted.
LEMMA SupervisorInitially == SupervisorInit => SupervisorInv
BY SupervisorAssumption DEF SupervisorInit, SupervisorInv, SupervisorTypeOK, RestartsJustified, CountIsHonest

\* No step of the loop or of its surroundings breaks the invariant: a good probe
\* and an inactive path reset the counter together with the streak.
LEMMA SupervisorStep == SupervisorInv /\ [SupervisorNext]_supervisorVars => SupervisorInv'
<1> SUFFICES ASSUME SupervisorInv, [SupervisorNext]_supervisorVars PROVE SupervisorInv'
  OBVIOUS
<1> USE SupervisorAssumption DEF SupervisorInv, SupervisorTypeOK, RestartsJustified, CountIsHonest
<1>1. CASE Look
  BY <1>1 DEF Look
<1>2. CASE ProbePath
  BY <1>2 DEF ProbePath, Longer
<1>3. CASE RestartCarrier
  BY <1>3 DEF RestartCarrier
<1>4. CASE RestartClient
  BY <1>4 DEF RestartClient
<1>5. CASE CheckRebuild
  BY <1>5 DEF CheckRebuild, Longer
<1>6. ASSUME NEW part \in {"carrier", "client"}, GetsStuck(part) PROVE SupervisorInv'
  BY <1>6 DEF GetsStuck
<1>7. CASE OutageChanges
  BY <1>7 DEF OutageChanges
<1>8. CASE SelectionChanges
  BY <1>8 DEF SelectionChanges
<1>9. CASE UNCHANGED supervisorVars
  BY <1>9 DEF supervisorVars
<1> QED BY <1>1, <1>2, <1>3, <1>4, <1>5, <1>6, <1>7, <1>8, <1>9 DEF SupervisorNext, Supervise

\* The counter of the supervisor's loop stays within one of FAILURE_LIMIT.
THEOREM SupervisorTypeCorrect == SupervisorSpec => []SupervisorTypeOK
BY SupervisorInitially, SupervisorStep, PTL DEF SupervisorSpec, SupervisorInv

\* recover() runs only after FAILURE_LIMIT failed probes in a row, whatever
\* the limit is and however outages and changes of the path are interleaved.
THEOREM SupervisorJustified == SupervisorSpec => []RestartsJustified
BY SupervisorInitially, SupervisorStep, PTL DEF SupervisorSpec, SupervisorInv

-----------------------------------------------------------------------------
\* The controller

\* apply_overrides gives every module what the override, or else the profile,
\* says.
LEMMA OverriddenObeys ==
  ASSUME NEW c \in Configs
  PROVE  /\ Overridden(c) \subseteq ModuleIds
         /\ \A m \in ModuleIds :
              LET setting == IF m \in DOMAIN c.overrides THEN c.overrides[m] ELSE "Auto" IN
              m \in Overridden(c) <=> CASE setting = "Enabled" -> TRUE
                                        [] setting = "Disabled" -> FALSE
                                        [] setting = "Auto" -> m \in ProfileDefaults(c.profile)
<1>1. ProfileDefaults(c.profile) \subseteq ModuleIds
  BY PlannerAssumption DEF Profiles, ProfileDefaults, ModuleIds, Usual
<1>2. Overridden(c) \subseteq ModuleIds
  BY <1>1, PlannerAssumption DEF Overridden
<1>3. ASSUME NEW m \in ModuleIds
      PROVE  LET setting == IF m \in DOMAIN c.overrides THEN c.overrides[m] ELSE "Auto" IN
              m \in Overridden(c) <=> CASE setting = "Enabled" -> TRUE
                                        [] setting = "Disabled" -> FALSE
                                        [] setting = "Auto" -> m \in ProfileDefaults(c.profile)
  <2>1. CASE m \notin DOMAIN c.overrides
    BY <2>1 DEF Overridden
  <2>2. CASE m \in DOMAIN c.overrides /\ c.overrides[m] = "Enabled"
    BY <2>2 DEF Overridden
  <2>3. CASE m \in DOMAIN c.overrides /\ c.overrides[m] = "Disabled"
    BY <2>3 DEF Overridden
  <2>4. CASE m \in DOMAIN c.overrides /\ c.overrides[m] = "Auto"
    BY <2>4 DEF Overridden
  <2> QED BY <2>1, <2>2, <2>3, <2>4, PlannerAssumption
<1> QED BY <1>2, <1>3

\* The sequence of checks in resolve_modules refuses exactly what breaks one of
\* the rules.
LEMMA RulesObeyed ==
  ASSUME NEW c \in Configs
  PROVE  ResolveError(c) = "none" <=> Sound(c) /\ Obeys(c, Overridden(c))
<1>1. ScalarError(c) = "none" <=> Sound(c)
  BY PlannerAssumption DEF ScalarError, Sound
<1>2. RuleError(c.profile, Overridden(c)) = "none" <=> Obeys(c, Overridden(c))
  BY OverriddenObeys DEF RuleError, Obeys
<1> QED BY <1>1, <1>2 DEF ResolveError

\* A refusal is none of the outcomes of a plan.
LEMMA ErrorsAreErrors ==
  ASSUME NEW c \in Configs, ResolveError(c) # "none"
  PROVE  ResolveError(c) \notin {"Probe", "planned", "conflicts"}
BY DEF ResolveError, ScalarError, RuleError

\* The defaults of every profile pass the checks.
LEMMA DefaultsObey ==
  ASSUME NEW c \in Configs, Sound(c), DOMAIN c.overrides = {}
  PROVE  ResolveError(c) = "none"
<1>1. Overridden(c) = ProfileDefaults(c.profile)
  BY DEF Overridden
<1>2. ScalarError(c) = "none"
  BY PlannerAssumption DEF ScalarError, Sound
<1>3. RuleError(c.profile, ProfileDefaults(c.profile)) = "none"
  <2>1. CASE c.profile = "Standard"
    BY <2>1 DEF RuleError, ProfileDefaults, Usual, Dependencies
  <2>2. CASE c.profile = "Enhanced"
    BY <2>2 DEF RuleError, ProfileDefaults, Usual, Dependencies
  <2>3. CASE c.profile = "LowResource"
    BY <2>3 DEF RuleError, ProfileDefaults, Usual, Dependencies
  <2>4. CASE c.profile = "Laboratory"
    BY <2>4 DEF RuleError, ProfileDefaults, Usual, Dependencies
  <2> QED BY <2>1, <2>2, <2>3, <2>4, PlannerAssumption DEF Profiles
<1> QED BY <1>1, <1>2, <1>3 DEF ResolveError

\* If any set of modules obeys a sound configuration, resolve_modules accepts it
\* and the plan has exactly this set.
THEOREM ObeysIsUnique ==
  ASSUME NEW c \in Configs, NEW S \in SUBSET ModuleIds, Sound(c), Obeys(c, S)
  PROVE  ResolveError(c) = "none" /\ S = Overridden(c)
<1>1. ASSUME NEW m \in ModuleIds PROVE m \in S <=> m \in Overridden(c)
  BY OverriddenObeys DEF Obeys
<1>2. S = Overridden(c)
  BY <1>1, OverriddenObeys
<1> QED BY <1>2, RulesObeyed

\* What a configuration that was accepted can end in.
Probed == {"Probe", "planned", "conflicts"}

\* Of every requested binding that is no longer to be probed, the verdict is
\* that of a probe.
VerdictOn(p) == IF p \in conflicts THEN p \in wasTaken ELSE p \in wasFree

\* The inductive invariant of the controller.
PlannerInv ==
    /\ PlannerTypeOK
    /\ config \in Configs
    /\ todo \in {<<"udp", "tcp">>, <<"tcp">>, <<>>}
    /\ outcome = "none" <=> plannerAt # "end"
    /\ plannerAt = "end" /\ outcome \notin Probed =>
        outcome = ResolveError(config) /\ conflicts = {}
    /\ plannerAt = "resolve" => conflicts = {}
    /\ plannerAt \in {"probe", "bound"} \/ outcome \in Probed =>
        /\ ResolveError(config) = "none" /\ modules = Overridden(config)
        /\ todo = <<"udp", "tcp">> => conflicts = {}
        /\ todo = <<"tcp">> => "tcp" \notin conflicts
        /\ todo # <<"udp", "tcp">> /\ {"Tuic", "Masque"} \cap modules # {} => VerdictOn("udp")
        /\ todo = <<>> => VerdictOn("tcp")
    /\ outcome \in {"planned", "conflicts"} => todo = <<>>
    /\ plannerAt \in {"probe", "bound"} =>
        occupied \subseteq wasTaken /\ Protocols \ occupied \subseteq wasFree

\* The controller starts with nothing resolved.
LEMMA PlannerInitially == PlannerInit => PlannerInv
<1> SUFFICES ASSUME PlannerInit PROVE PlannerInv
  OBVIOUS
<1>1. PlannerTypeOK
  <2>1. config.profile \in Profiles
    BY PlannerAssumption DEF PlannerInit
  <2>2. \A i \in 1..Len(todo) : todo[i] \in Protocols
    BY DEF PlannerInit
  <2> QED BY <2>1, <2>2 DEF PlannerInit, PlannerTypeOK
<1> QED BY <1>1 DEF PlannerInit, PlannerInv, Probed

\* Every step keeps the invariant: a binding leaves `todo' with a verdict that
\* was true when its socket was bound or refused.
LEMMA PlannerStep == PlannerInv /\ [PlannerNext]_planVars => PlannerInv'
<1> SUFFICES ASSUME PlannerInv, [PlannerNext]_planVars PROVE PlannerInv'
  OBVIOUS
<1> USE PlannerAssumption DEF PlannerInv, PlannerTypeOK, Probed, VerdictOn, Protocols
<1>1. CASE Resolve
  <2>1. CASE ResolveError(config) = "none"
    <3>1. /\ plannerAt' = "probe" /\ modules' = Overridden(config)
          /\ todo' = IF {"Tuic", "Masque"} \cap modules' # {} THEN <<"udp", "tcp">> ELSE <<"tcp">>
          /\ wasFree' = Protocols \ occupied /\ wasTaken' = occupied
          /\ UNCHANGED <<outcome, config, conflicts, occupied>>
          /\ outcome = "none" /\ conflicts = {}
      BY <1>1, <2>1 DEF Resolve, RequestedBindings
    <3>2. modules' \subseteq ModuleIds
      BY <3>1, OverriddenObeys
    <3>3. todo' \in {<<"udp", "tcp">>, <<"tcp">>}
      BY <3>1
    <3>4. \A i \in 1..Len(todo') : todo'[i] \in Protocols
      BY <3>3
    <3> QED BY <2>1, <3>1, <3>2, <3>3, <3>4
  <2>2. CASE ResolveError(config) # "none"
    BY <1>1, <2>2, ErrorsAreErrors DEF Resolve
  <2> QED BY <2>1, <2>2
<1>2. CASE ProbeBinds
  BY <1>2 DEF ProbeBinds
<1>3. CASE ProbeDrops
  <2>1. CASE todo = <<"udp", "tcp">>
    <3>1. Head(todo) = "udp" /\ Tail(todo) = <<"tcp">>
      BY <2>1
    <3> QED BY <1>3, <2>1, <3>1 DEF ProbeDrops
  <2>2. CASE todo = <<"tcp">>
    <3>1. Head(todo) = "tcp" /\ Tail(todo) = <<>>
      BY <2>2
    <3> QED BY <1>3, <2>2, <3>1 DEF ProbeDrops
  <2> QED BY <1>3, <2>1, <2>2 DEF ProbeDrops
<1>4. CASE ProbeConflict
  <2>1. CASE todo = <<"udp", "tcp">>
    <3>1. Head(todo) = "udp" /\ Tail(todo) = <<"tcp">>
      BY <2>1
    <3> QED BY <1>4, <2>1, <3>1 DEF ProbeConflict
  <2>2. CASE todo = <<"tcp">>
    <3>1. Head(todo) = "tcp" /\ Tail(todo) = <<>>
      BY <2>2
    <3> QED BY <1>4, <2>2, <3>1 DEF ProbeConflict
  <2> QED BY <1>4, <2>1, <2>2 DEF ProbeConflict
<1>5. CASE ProbeError
  BY <1>5 DEF ProbeError
<1>6. CASE Report
  BY <1>6 DEF Report
<1>7. ASSUME NEW p \in Protocols, OtherProgram(p) PROVE PlannerInv'
  BY <1>7 DEF OtherProgram
<1>8. CASE UNCHANGED planVars
  BY <1>8 DEF planVars
<1> QED BY <1>1, <1>2, <1>3, <1>4, <1>5, <1>6, <1>7, <1>8 DEF PlannerNext

\* The invariant says that the verdict is right.
LEMMA PlannerVerdict == PlannerInv => VerdictRight
<1> SUFFICES ASSUME PlannerInv PROVE VerdictRight
  OBVIOUS
<1>1. PlanObeysConfig
  BY RulesObeyed, ErrorsAreErrors DEF PlannerInv, PlannerTypeOK, PlanObeysConfig, Probed
<1>2. DefaultsDeployable
  BY DefaultsObey DEF PlannerInv, PlannerTypeOK, DefaultsDeployable, Probed
<1>3. PortsReported
  BY DEF RequestedBindings, PlannerInv, PlannerTypeOK, PortsReported, Probed, VerdictOn
<1> QED BY <1>1, <1>2, <1>3 DEF VerdictRight

\* The controller holds only a port it was to probe.
THEOREM PlannerTypeCorrect == PlannerSpec => []PlannerTypeOK
<1>1. PlannerInv => PlannerTypeOK
  BY DEF PlannerInv
<1> QED BY PlannerInitially, PlannerStep, <1>1, PTL DEF PlannerSpec

\* What the controller prints is right for every set of configurations: modules
\* as configured, refusals only of what cannot be satisfied, conflicts as probing
\* can find them.
THEOREM PlannerIsRight == PlannerSpec => []VerdictRight
BY PlannerInitially, PlannerStep, PlannerVerdict, PTL DEF PlannerSpec

=============================================================================
