------------------------------ MODULE QuicLink ------------------------------
(***************************************************************************)
(* The life of a QUIC relay connection: the client's reconnect loop, the   *)
(* server's task for the client's current connection, the choice between   *)
(* datagram mode and the stream lane, and the client's heartbeat, over a   *)
(* path and a server process that come and go.  What is relayed is in      *)
(* Carrier (datagram mode) and Lanes (lane mode).                          *)
(*                                                                         *)
(* Time is counted in heartbeat intervals of 2 s, and only the heartbeat   *)
(* is timed.  `age' is the time since last_server_activity in intervals,   *)
(* rounded up, so `elapsed() > CARRIER_DEAD_TIMEOUT' is age > DeadAfter.   *)
(* QUIC's idle timeout (20 s) can fire whenever the other end cannot be    *)
(* heard; keep-alives (2 s) prevent it otherwise.  A round trip over a     *)
(* path that is up is shorter than the 5 s the server waits for a stream.  *)
(* A connection the client has left is of no further concern to it: the    *)
(* server's task for it holds nothing that the next one shares.            *)
(***************************************************************************)
EXTENDS Integers

CONSTANTS
    Settings,   \* values of SMART_QUIC_STREAM_LANES: "unset" or a number
    DeadAfter,  \* CARRIER_DEAD_TIMEOUT in heartbeat intervals
    MaxDelay,   \* longest pause before reconnecting
    MaxLate     \* bound on the intervals a silence is longer than its ticks

ASSUME LinkAssumption ==
    DeadAfter \in Nat \ {0} /\ MaxDelay \in Nat \ {0} /\ MaxLate \in Nat

VARIABLES
    setting,    \* the variable's value at "client" and "server"
    admits,     \* whether the server's keyring and clock accept the device
    path,       \* whether packets get through (environment)
    listening,  \* whether the server process runs (environment)
    clientAt,   \* where run_client is
    serverAt,   \* where the task of run_server is
    reply,      \* "OK" was sent on the authentication stream
    echo,       \* the server's preface was sent on the lane
    delay,
    age, due,   \* last_server_activity; the heartbeat's tick is due
    unanswered, \* history: pings sent since the last server datagram
    late,       \* history: intervals since then lost to ticks polled late
    stalled     \* the send half waits in send_datagram_wait

linkVars == <<setting, admits, path, listening, clientAt, serverAt, reply, echo, delay,
              age, due, unanswered, late, stalled>>
environment == <<setting, admits, path, listening>>
heartbeat == <<age, due, unanswered, late, stalled>>

\* parse_stream_lanes
ParseStreamLanes(value) ==
    CASE value = "unset" -> 0
      [] value = "1" -> 1               \* MAX_STREAM_LANES
      [] OTHER -> -1                    \* an error

LinkInit ==
    /\ setting \in [{"client", "server"} -> Settings]
    /\ admits \in BOOLEAN /\ path \in BOOLEAN /\ listening \in BOOLEAN
    /\ clientAt = "dial" /\ serverAt = "none"
    /\ reply = FALSE /\ echo = FALSE
    /\ delay = 1
    /\ age = 0 /\ due = FALSE /\ unanswered = 0 /\ late = 0 /\ stalled = FALSE

-----------------------------------------------------------------------------
\* run_client

\* The attempt or the session ends in an error.
Drop ==
    /\ clientAt' = "sleep" /\ serverAt' = "none"
    /\ reply' = FALSE /\ echo' = FALSE
    /\ age' = 0 /\ due' = FALSE /\ unanswered' = 0 /\ late' = 0 /\ stalled' = FALSE

Connected == clientAt \in {"authenticate", "open", "relay"}

Dial ==
    /\ clientAt = "dial" /\ path /\ listening
    /\ clientAt' = "authenticate" /\ serverAt' = "authenticate"
    /\ UNCHANGED <<environment, reply, echo, delay, heartbeat>>

DialFails ==
    /\ clientAt = "dial" /\ ~(path /\ listening)
    /\ Drop
    /\ UNCHANGED <<environment, delay>>

MutantAuthenticated ==
    /\ clientAt = "authenticate" /\ path /\ (reply \/ serverAt = "closed")
    /\ delay' = 1
    /\ \/ /\ ParseStreamLanes(setting["client"]) = -1 \/ ~reply
          /\ Drop
       \/ /\ reply /\ ParseStreamLanes(setting["client"]) = 0
          /\ clientAt' = "relay" /\ age' \in {0, 1} /\ due' = TRUE
          /\ UNCHANGED <<serverAt, reply, echo, unanswered, late, stalled>>
       \/ /\ reply /\ ParseStreamLanes(setting["client"]) = 1
          /\ clientAt' = "open"
          /\ UNCHANGED <<serverAt, reply, echo, heartbeat>>
    /\ UNCHANGED environment

\* authenticate_client returns; the lanes are read, the pause is reset, and
\* the session begins.  The first tick of the heartbeat is due at once, and
\* may find the time since the session began to be just more than none.
Authenticated ==
    /\ clientAt = "authenticate" /\ reply /\ path
    /\ \/ /\ ParseStreamLanes(setting["client"]) = -1
          /\ Drop
          /\ delay' = delay
       \/ /\ ParseStreamLanes(setting["client"]) = 0
          /\ clientAt' = "relay" /\ delay' = 1
          /\ age' \in {0, 1} /\ due' = TRUE
          /\ UNCHANGED <<serverAt, reply, echo, unanswered, late, stalled>>
       \/ /\ ParseStreamLanes(setting["client"]) = 1
          /\ clientAt' = "open" /\ delay' = 1
          /\ UNCHANGED <<serverAt, reply, echo, heartbeat>>
    /\ UNCHANGED environment

MutantOpened ==
    /\ clientAt = "open" /\ path
    /\ clientAt' = "relay"
    /\ UNCHANGED <<environment, serverAt, reply, echo, delay, heartbeat>>

\* The client's preface is answered on every lane.
Opened ==
    /\ clientAt = "open" /\ echo /\ path
    /\ clientAt' = "relay"
    /\ UNCHANGED <<environment, serverAt, reply, echo, delay, heartbeat>>

\* The server closed the connection and its last packet arrives ...
SeesClose ==
    /\ Connected /\ serverAt = "closed" /\ path
    /\ Drop
    /\ UNCHANGED <<environment, delay>>

\* ... or nothing arrives for too long.
IdleTimeout ==
    /\ Connected /\ (~path \/ serverAt \in {"gone", "closed"})
    /\ Drop
    /\ UNCHANGED <<environment, delay>>

\* A session ends by itself: a fragment the reassembly refuses, a datagram
\* larger than the path's new limit, a reader that ends.
ClientError ==
    /\ clientAt = "relay"
    /\ Drop
    /\ UNCHANGED <<environment, delay>>

MutantWake ==
    /\ clientAt = "sleep" /\ delay < MaxDelay
    /\ clientAt' = "dial"
    /\ delay' = 2 * delay
    /\ UNCHANGED <<environment, serverAt, reply, echo, heartbeat>>

\* time::sleep(delay) is over.
Wake ==
    /\ clientAt = "sleep"
    /\ clientAt' = "dial"
    /\ delay' = IF 2 * delay < MaxDelay THEN 2 * delay ELSE MaxDelay
    /\ UNCHANGED <<environment, serverAt, reply, echo, heartbeat>>

-----------------------------------------------------------------------------
\* The two halves of relay_client_session

Beating == clientAt = "relay" /\ ParseStreamLanes(setting["client"]) = 0

MutantTickReady == Beating /\ due /\ ~stalled

\* The select of the receiving half gets to its tick, whatever the sending
\* half is waiting for.
TickReady == Beating /\ due

MutantDead == age >= DeadAfter

Dead == age > DeadAfter

HeartbeatTimeout ==
    /\ TickReady /\ Dead
    /\ Drop
    /\ UNCHANGED <<environment, delay>>

Ping ==
    /\ TickReady /\ ~Dead
    /\ due' = FALSE /\ unanswered' = unanswered + 1
    /\ UNCHANGED <<environment, clientAt, serverAt, reply, echo, delay, age, late, stalled>>

\* An interval passes.
Interval ==
    /\ Beating /\ ~TickReady
    /\ age' = age + 1 /\ due' = TRUE
    /\ UNCHANGED <<environment, clientAt, serverAt, reply, echo, delay, unanswered, late, stalled>>

\* The select does not get to a tick that is ready, busy with a datagram or not
\* scheduled.  With MissedTickBehavior::Delay the ticks after it come as much
\* later, and so together the delays of a silence make up an interval.
LateTick ==
    /\ TickReady /\ late < MaxLate
    /\ age' = age + 1 /\ late' = late + 1
    /\ UNCHANGED <<environment, clientAt, serverAt, reply, echo, delay, due, unanswered, stalled>>

\* A PONG or a fragment arrives.
ServerDatagram ==
    /\ Beating /\ path /\ serverAt = "relay"
    /\ age' = 0 /\ unanswered' = 0 /\ late' = 0
    /\ UNCHANGED <<environment, clientAt, serverAt, reply, echo, delay, due, stalled>>

\* send_datagram_wait begins to wait for room, or goes on.
Stall ==
    /\ Beating
    /\ stalled' = ~stalled
    /\ UNCHANGED <<environment, clientAt, serverAt, reply, echo, delay, age, due, unanswered, late>>

-----------------------------------------------------------------------------
\* The task of run_server

\* What follows an authentication.  A task that ends at once closes the
\* connection, and "OK" may be lost with it.
ChooseMode ==
    \/ /\ ParseStreamLanes(setting["server"]) = -1
       /\ serverAt' = "closed" /\ reply' \in BOOLEAN
    \/ /\ ParseStreamLanes(setting["server"]) = 0
       /\ serverAt' = "relay" /\ reply' = TRUE
    \/ /\ ParseStreamLanes(setting["server"]) = 1
       /\ serverAt' = "accept" /\ reply' = TRUE

\* authenticate_server returns.
Authenticate ==
    /\ serverAt = "authenticate" /\ path
    /\ \/ admits /\ ChooseMode
       \/ ~admits /\ serverAt' = "closed" /\ reply' = FALSE
    /\ UNCHANGED <<environment, clientAt, echo, delay, heartbeat>>

\* The 5 s for the authentication stream are over.
AuthenticationTimeout ==
    /\ serverAt = "authenticate" /\ ~path
    /\ serverAt' = "closed"
    /\ UNCHANGED <<environment, clientAt, reply, echo, delay, heartbeat>>

\* The lane arrives and its preface is echoed.
AcceptLane ==
    /\ serverAt = "accept" /\ clientAt = "open" /\ path
    /\ serverAt' = "relay" /\ echo' = TRUE
    /\ UNCHANGED <<environment, clientAt, reply, delay, heartbeat>>

\* The 5 s for a lane are over.
LaneTimeout ==
    /\ serverAt = "accept" /\ (~path \/ clientAt = "relay")
    /\ serverAt' = "closed"
    /\ UNCHANGED <<environment, clientAt, reply, echo, delay, heartbeat>>

\* relay_connection or relay_laned_connection fails, over something the
\* client's session sent or an upstream answered to it.
ServerError ==
    /\ serverAt = "relay" /\ clientAt = "relay"
    /\ serverAt' = "closed"
    /\ UNCHANGED <<environment, clientAt, reply, echo, delay, heartbeat>>

\* The server's idle timeout.
ServerIdle ==
    /\ serverAt \in {"authenticate", "accept", "relay"} /\ ~path
    /\ serverAt' = "gone"
    /\ UNCHANGED <<environment, clientAt, reply, echo, delay, heartbeat>>

-----------------------------------------------------------------------------
\* The environment

PathChanges ==
    /\ path' = ~path
    /\ UNCHANGED <<setting, admits, listening, clientAt, serverAt, reply, echo, delay, heartbeat>>

\* The process is killed: its connections are forgotten without a word.
ServerStops ==
    /\ listening
    /\ listening' = FALSE
    /\ serverAt' = IF serverAt = "none" THEN "none" ELSE "gone"
    /\ UNCHANGED <<setting, admits, path, clientAt, reply, echo, delay, heartbeat>>

ServerStarts ==
    /\ ~listening
    /\ listening' = TRUE
    /\ UNCHANGED <<setting, admits, path, clientAt, serverAt, reply, echo, delay, heartbeat>>

\* What the two programs do without further events.
ClientStep == Dial \/ DialFails \/ Authenticated \/ Opened \/ SeesClose \/ IdleTimeout \/ Wake
ServerStep == Authenticate \/ AuthenticationTimeout \/ AcceptLane \/ LaneTimeout

LinkNext ==
    \/ ClientStep \/ ClientError
    \/ HeartbeatTimeout \/ Ping \/ Interval \/ LateTick \/ ServerDatagram \/ Stall
    \/ ServerStep \/ ServerError \/ ServerIdle
    \/ PathChanges \/ ServerStops \/ ServerStarts

\* Timers expire, and what is sent over a path that is up is handled.
LinkFairness == WF_linkVars(ClientStep) /\ WF_linkVars(ServerStep)

LinkSpec == LinkInit /\ [][LinkNext]_linkVars /\ LinkFairness

-----------------------------------------------------------------------------

\* The variables keep their types, and the pause its range.
LinkTypeOK ==
    /\ setting \in [{"client", "server"} -> Settings]
    /\ admits \in BOOLEAN /\ path \in BOOLEAN /\ listening \in BOOLEAN
    /\ reply \in BOOLEAN /\ echo \in BOOLEAN /\ due \in BOOLEAN /\ stalled \in BOOLEAN
    /\ clientAt \in {"dial", "authenticate", "open", "relay", "sleep"}
    /\ serverAt \in {"none", "authenticate", "accept", "relay", "closed", "gone"}
    /\ delay \in 1..MaxDelay /\ age \in Nat /\ unanswered \in Nat /\ late \in 0..MaxLate

\* "QUIC send backpressure must never ... prevent the liveness timer from
\* running" (quic_relay.rs:582): in datagram mode a carrier from which nothing
\* is heard is given up within one interval of DeadAfter and of the lateness of
\* the ticks, also while the sending half is stalled.
DeadCarrierNoticed == age <= DeadAfter + 1 + late

\* Two ends that relay over one connection do so in the same mode, whatever
\* their settings: otherwise each would discard what the other sends, and the
\* keep-alives of QUIC would keep the connection up.
ModesAgree ==
    clientAt = "relay" /\ serverAt = "relay" => ParseStreamLanes(setting["client"]) = ParseStreamLanes(setting["server"])

\* "A missing PONG alone is not proof that the path is dead"
\* (quic_relay.rs:54): the heartbeat ends a session only when at least
\* DeadAfter pings in a row went unanswered, less one for every interval that
\* late ticks took out of the silence.
HeartbeatTolerant == [][HeartbeatTimeout => unanswered + late >= DeadAfter]_linkVars

\* "automatic reconnect after QUIC server restart"
\* (tests/integration_quic_relay.sh:80): with one setting at both ends and a
\* device the server admits, the client relays again and again once the path
\* and the server stay up, however they failed before.
Reconnects ==
    (setting["client"] = setting["server"] /\ admits /\ <>[](path /\ listening))
        => []<>(clientAt = "relay")

\* A client the server does not admit backs off to the longest pause: only a
\* session that was authenticated resets `delay'.
RejectedBacksOff == ~admits => <>[](delay = MaxDelay)

=============================================================================
