------------------------------ MODULE Balancer ------------------------------
(***************************************************************************)
(* The SOCKS balancer (`balance').  Every accepted client is a task that   *)
(* walks over the upstreams, first over those marked healthy and then over *)
(* all of them, until one connects; another task probes the upstreams one  *)
(* after the other.  All tasks read and write the health flags, and every  *)
(* await is a point at which the others go on.                             *)
(*                                                                         *)
(* An upstream is "up", "failing" (a connection attempt ends in an error:  *)
(* refused, timed out, rejected) or "silent": it accepts the connection    *)
(* and answers nothing, which socks_connect waits for without a limit.     *)
(* What an upstream is like when it is asked decides over the connection:  *)
(* one that fell silent stays so, also when the upstream is up again.      *)
(* The cursor matters modulo the number of upstreams.                      *)
(***************************************************************************)
EXTENDS Integers, FiniteSets

CONSTANTS
    N,          \* number of upstreams
    Clients     \* client connections that may be open at once

ASSUME BalanceAssumption == N \in Nat /\ N >= 2 /\ IsFiniteSet(Clients)

Upstreams == 0..(N - 1)

VARIABLES
    healthy,    \* BalanceUpstream.healthy
    active,     \* BalanceUpstream.active
    cursor,
    handler,    \* the task of a client
    prober,     \* the probe task
    condition   \* what the upstreams are like (environment)

balanceVars == <<healthy, active, cursor, handler, prober, condition>>

\* The state of a task; `failed' is history: the upstreams that failed for its
\* client.
Handlers == [at : {"idle", "greeting", "walk", "connect", "hung", "ok", "error",
                   "chosen", "relay", "refused"},
             start : Upstreams, round : {1, 2}, offset : Upstreams,
             failed : SUBSET Upstreams]

Idle == [at |-> "idle", start |-> 0, round |-> 1, offset |-> 0, failed |-> {}]

BalanceInit ==
    /\ healthy = [u \in Upstreams |-> TRUE]
    /\ active = [u \in Upstreams |-> 0]
    /\ cursor = 0
    /\ handler = [c \in Clients |-> Idle]
    /\ prober = [at |-> "tick", index |-> 0]
    /\ condition \in [Upstreams -> {"up", "failing", "silent"}]

-----------------------------------------------------------------------------
\* handle_balanced_client

Goto(c, at) == handler' = [handler EXCEPT ![c].at = at]

\* The upstream at the handler's place in its walk.
Index(h) == (h.start + h.offset) % N

\* The handler at another place of the code or of its walk.
Place(h, at, round, offset) ==
    [at |-> at, start |-> h.start, round |-> round, offset |-> offset, failed |-> h.failed]

MutantNextPlace(h) ==
    IF h.offset + 1 < N THEN Place(h, "walk", h.round, h.offset + 1)
    ELSE Place(h, "refused", h.round, h.offset)

\* The next place of the walk: two rounds, and then nothing was chosen.
NextPlace(h) ==
    IF h.offset + 1 < N THEN Place(h, "walk", h.round, h.offset + 1)
    ELSE IF h.round = 1 THEN Place(h, "walk", 2, 0)
    ELSE Place(h, "refused", h.round, h.offset)

Accept(c) ==
    /\ handler[c].at = "idle"
    /\ Goto(c, "greeting")
    /\ UNCHANGED <<healthy, active, cursor, prober, condition>>

\* A greeting or request that is not a SOCKS5 CONNECT without authentication,
\* or a client that goes away.
BadRequest(c) ==
    /\ handler[c].at = "greeting"
    /\ Goto(c, "idle")
    /\ UNCHANGED <<healthy, active, cursor, prober, condition>>

Request(c) ==
    /\ handler[c].at = "greeting"
    /\ handler' = [handler EXCEPT ![c] =
            [at |-> "walk", start |-> cursor, round |-> 1, offset |-> 0, failed |-> {}]]
    /\ cursor' = (cursor + 1) % N
    /\ UNCHANGED <<healthy, active, prober, condition>>

\* The loop looks at one upstream: it is skipped, or socks_connect begins.
Visit(c) ==
    LET h == handler[c] IN
    /\ h.at = "walk"
    /\ handler' = [handler EXCEPT ![c] =
            IF h.round = 1 /\ ~healthy[Index(h)] THEN NextPlace(h)
            ELSE [h EXCEPT !.at = "connect"]]
    /\ UNCHANGED <<healthy, active, cursor, prober, condition>>

\* What becomes of socks_connect at an upstream: it returns, or hangs in a read
\* without a limit.  An upstream that is up reports an error when it cannot
\* reach the target.
Answers(u) ==
    CASE condition[u] = "up" -> {"ok", "error"}
      [] condition[u] = "failing" -> {"error"}
      [] OTHER -> {"hung"}

Connect(c, answer) ==
    /\ handler[c].at = "connect"
    /\ answer \in Answers(Index(handler[c]))
    /\ Goto(c, answer)
    /\ UNCHANGED <<healthy, active, cursor, prober, condition>>

\* The upstream closes the connection after all: the read ends in an error.
HangUp(c) ==
    /\ handler[c].at = "hung"
    /\ Goto(c, "error")
    /\ UNCHANGED <<healthy, active, cursor, prober, condition>>

MutantStoreError(c) ==
    LET h == handler[c] IN
    /\ h.at = "error"
    /\ healthy' = [healthy EXCEPT ![Index(h)] = FALSE]
    /\ handler' = [handler EXCEPT ![c].at = "walk"]
    /\ UNCHANGED <<active, cursor, prober, condition>>

StoreError(c) ==
    LET h == handler[c] IN
    /\ h.at = "error"
    /\ healthy' = [healthy EXCEPT ![Index(h)] = FALSE]
    /\ handler' = [handler EXCEPT ![c] = NextPlace([h EXCEPT !.failed = @ \cup {Index(h)}])]
    /\ UNCHANGED <<active, cursor, prober, condition>>

StoreOk(c) ==
    /\ handler[c].at = "ok"
    /\ healthy' = [healthy EXCEPT ![Index(handler[c])] = TRUE]
    /\ Goto(c, "chosen")
    /\ UNCHANGED <<active, cursor, prober, condition>>

\* The response reaches the client and the relay begins.
Respond(c) ==
    /\ handler[c].at = "chosen"
    /\ active' = [active EXCEPT ![Index(handler[c])] = @ + 1]
    /\ Goto(c, "relay")
    /\ UNCHANGED <<healthy, cursor, prober, condition>>

\* The client is gone when its response is written.
Gone(c) ==
    /\ handler[c].at = "chosen"
    /\ handler' = [handler EXCEPT ![c] = Idle]
    /\ UNCHANGED <<healthy, active, cursor, prober, condition>>

\* copy_bidirectional returns, with an error or without.
Finish(c) ==
    /\ handler[c].at = "relay"
    /\ active' = [active EXCEPT ![Index(handler[c])] = @ - 1]
    /\ handler' = [handler EXCEPT ![c] = Idle]
    /\ UNCHANGED <<healthy, cursor, prober, condition>>

\* No upstream was chosen: the client gets the failure reply.
Refuse(c) ==
    /\ handler[c].at = "refused"
    /\ handler' = [handler EXCEPT ![c] = Idle]
    /\ UNCHANGED <<healthy, active, cursor, prober, condition>>

-----------------------------------------------------------------------------
\* The probe task of balance()

\* interval.tick()
ProbeTick ==
    /\ prober.at = "tick"
    /\ prober' = [at |-> "connect", index |-> 0]
    /\ UNCHANGED <<healthy, active, cursor, handler, condition>>

\* socks_connect returns or hangs; the target of the probe can be reached.
ProbeConnect ==
    /\ prober.at = "connect"
    /\ prober' = [prober EXCEPT !.at = CASE condition[prober.index] = "up" -> "ok"
                                         [] condition[prober.index] = "failing" -> "error"
                                         [] OTHER -> "hung"]
    /\ UNCHANGED <<healthy, active, cursor, handler, condition>>

ProbeHangUp ==
    /\ prober.at = "hung"
    /\ prober' = [prober EXCEPT !.at = "error"]
    /\ UNCHANGED <<healthy, active, cursor, handler, condition>>

MutantProbeStore ==
    /\ prober.at \in {"ok", "error"}
    /\ healthy' = [healthy EXCEPT ![prober.index] = @ \/ prober.at = "ok"]
    /\ prober' = IF prober.index + 1 < N THEN [at |-> "connect", index |-> prober.index + 1]
                 ELSE [at |-> "tick", index |-> 0]
    /\ UNCHANGED <<active, cursor, handler, condition>>

\* The outcome is stored, whatever the handlers found meanwhile.
ProbeStore ==
    /\ prober.at \in {"ok", "error"}
    /\ healthy' = [healthy EXCEPT ![prober.index] = (prober.at = "ok")]
    /\ prober' = IF prober.index + 1 < N THEN [at |-> "connect", index |-> prober.index + 1]
                 ELSE [at |-> "tick", index |-> 0]
    /\ UNCHANGED <<active, cursor, handler, condition>>

\* An upstream fails, falls silent or recovers.
Change(u, s) ==
    /\ condition[u] # s
    /\ condition' = [condition EXCEPT ![u] = s]
    /\ UNCHANGED <<healthy, active, cursor, handler, prober>>

-----------------------------------------------------------------------------

\* The steps a handler takes by itself.
Handle(c) ==
    \/ Visit(c) \/ (\E answer \in {"ok", "error", "hung"} : Connect(c, answer))
    \/ StoreError(c) \/ StoreOk(c) \/ Respond(c) \/ Refuse(c)

Probe == ProbeTick \/ ProbeConnect \/ ProbeStore

BalanceNext ==
    \/ \E c \in Clients :
        Accept(c) \/ BadRequest(c) \/ Request(c) \/ Handle(c) \/ HangUp(c) \/ Gone(c) \/ Finish(c)
    \/ Probe \/ ProbeHangUp
    \/ \E u \in Upstreams, s \in {"up", "failing", "silent"} : Change(u, s)

\* The runtime polls every task whose await is over.
BalanceFairness == WF_balanceVars(Probe) /\ \A c \in Clients : WF_balanceVars(Handle(c))

BalanceSpec == BalanceInit /\ [][BalanceNext]_balanceVars /\ BalanceFairness

-----------------------------------------------------------------------------

\* The fields keep their ranges: fetch_sub on `active' never wraps below zero.
BalanceTypeOK ==
    /\ healthy \in [Upstreams -> BOOLEAN]
    /\ active \in [Upstreams -> Nat]
    /\ cursor \in Upstreams
    /\ handler \in [Clients -> Handlers]
    /\ prober \in [at : {"tick", "connect", "hung", "ok", "error"}, index : Upstreams]
    /\ condition \in [Upstreams -> {"up", "failing", "silent"}]

\* handle_balanced_client refuses a client only after a connection of this
\* client failed at every upstream, although the flags it skips upstreams by
\* are changed by the probe and by other clients while it walks.
RefusedAfterAll == \A c \in Clients : handler[c].at = "refused" => handler[c].failed = Upstreams

\* `active' counts the clients an upstream is relaying, through clients that
\* vanish before their response and relays that end in an error.
ActiveCounts ==
    \A u \in Upstreams :
        active[u] = Cardinality({c \in Clients : handler[c].at = "relay" /\ Index(handler[c]) = u})

\* The flags follow the upstreams, over every late result of the probe and of
\* the handlers: an upstream that stays up is marked healthy again and again
\* (a client with an unreachable target marks it unhealthy in between), and
\* one that keeps failing is in the end marked unhealthy for good.  Only a probe
\* that hangs for ever, at whichever upstream, ends that for all of them.
HealthFollows ==
    []<>(prober.at # "hung") => \A u \in Upstreams :
        /\ <>[](condition[u] = "up") => []<>healthy[u]
        /\ <>[](condition[u] = "failing") => <>[]~healthy[u]

\* Every CONNECT is answered, by a relay or by a refusal, unless one of the
\* client's connections hangs for ever, whatever the flags and the upstreams do
\* meanwhile.
RequestsAnswered ==
    \A c \in Clients :
        []<>(handler[c].at # "hung") =>
            (handler[c].at = "walk" ~> handler[c].at \in {"relay", "refused", "idle"})

=============================================================================
