--------------------------- MODULE ServerSessions ---------------------------
(***************************************************************************)
(* The session table of the tunnel server.  A device (a key) runs one      *)
(* client at a time; every start of the client draws a new session number  *)
(* and counts its frames from 1.  The server keeps an entry per            *)
(* <<key, session>>, lets a young session replace the others of its key,   *)
(* refuses new sessions when the table is full, and every five seconds     *)
(* drops the entries that were idle too long or whose task has ended.      *)
(*                                                                         *)
(* Random session numbers never repeat: here they count the starts of a    *)
(* client, which orders the sessions of a key by age.  Sequence numbers    *)
(* above TakeoverMax are all the same to the table and are saturated.  A   *)
(* packet shed by the task's bounded queue is one the network lost after   *)
(* the table saw it, so the queue is left out.                             *)
(***************************************************************************)
EXTENDS Integers, FiniteSets, Functions

CONSTANTS
    Keys,           \* device keys of the keyring
    MaxSessions,    \* --max-sessions
    PerDevice,      \* MAX_V2_SESSIONS_PER_DEVICE                       (16)
    TakeoverMax,    \* SESSION_TAKEOVER_MAX_SEQUENCE                    (32)
    IdleAfter,      \* --session-idle-secs, in ticks
    MaxStarts,      \* bound: starts of a client
    MaxFailures,    \* bound: server restarts and tasks that end
    MaxUpstream     \* bound: datagrams from the upstream

ASSUME SessionsAssumption ==
    /\ MaxSessions \in Nat \ {0} /\ PerDevice \in Nat \ {0}
    /\ TakeoverMax \in Nat \ {0} /\ IdleAfter \in Nat \ {0}
    /\ {MaxStarts, MaxFailures, MaxUpstream} \subseteq Nat

VARIABLES
    sessions,   \* the table: <<key, session>> -> idle time, task finished
    client,     \* the running client of a key: session (0: none yet), next sequence
    flight,     \* frames in the network
    failures,
    upstream

vars == <<sessions, client, flight, failures, upstream>>

Frame == [key : Keys, session : 1..MaxStarts, seq : 1..(TakeoverMax + 1)]

Entry == [idle : 0..IdleAfter, finished : BOOLEAN]

Init ==
    /\ sessions = <<>>
    /\ client = [k \in Keys |-> [session |-> 0, seq |-> 1]]
    /\ flight = {}
    /\ failures = 0 /\ upstream = 0

-----------------------------------------------------------------------------
\* The clients and the network

\* client() starts, or starts again after the process ended.
ClientStart(k) ==
    /\ client[k].session < MaxStarts
    /\ client' = [client EXCEPT ![k] = [session |-> @.session + 1, seq |-> 1]]
    /\ UNCHANGED <<sessions, flight, failures, upstream>>

\* The client sends a frame: data, or the report it sends every two seconds.
ClientSend(k) ==
    LET c == client[k] IN
    /\ c.session > 0
    /\ flight' = flight \cup {[key |-> k, session |-> c.session, seq |-> c.seq]}
    /\ client' = [client EXCEPT ![k].seq = IF @ > TakeoverMax THEN @ ELSE @ + 1]
    /\ UNCHANGED <<sessions, failures, upstream>>

Lose(f) ==
    /\ f \in flight
    /\ flight' = flight \ {f}
    /\ UNCHANGED <<sessions, client, failures, upstream>>

-----------------------------------------------------------------------------
\* The server

SessionsOf(k) == {id \in DOMAIN sessions : id[1] = k}

MutantMayTakeOver(f) == TRUE

\* superseded_sessions returns Some.
MayTakeOver(f) == SessionsOf(f.key) = {} \/ f.seq <= TakeoverMax

MutantSuperseded(f) == DOMAIN sessions

\* The sessions that give way to a new session of the same key.
Superseded(f) == SessionsOf(f.key)

NewEntry == [idle |-> 0, finished |-> FALSE]

Inserted(table, id, entry) ==
    [i \in DOMAIN table \cup {id} |-> IF i = id THEN entry ELSE table[i]]

Refreshed(table, id) == [table EXCEPT ![id].idle = 0]

\* A frame for a known session.
KnownSession(f) ==
    /\ <<f.key, f.session>> \in DOMAIN sessions
    /\ sessions' = Refreshed(sessions, <<f.key, f.session>>)

MutantNewSession(f) ==
    LET id == <<f.key, f.session>>
        kept == Restrict(sessions, DOMAIN sessions \ Superseded(f))
    IN /\ id \notin DOMAIN sessions
       /\ MayTakeOver(f)
       /\ sessions' = Inserted(kept, id, NewEntry)

\* The first frame of an unknown session: it replaces the other sessions of
\* its key, which are gone even if there is no room for the new one.
NewSession(f) ==
    LET id == <<f.key, f.session>>
        kept == Restrict(sessions, DOMAIN sessions \ Superseded(f))
        fits == /\ Cardinality(DOMAIN kept) < MaxSessions
                /\ Cardinality({i \in DOMAIN kept : i[1] = f.key}) < PerDevice
    IN /\ id \notin DOMAIN sessions
       /\ MayTakeOver(f)
       /\ sessions' = IF fits THEN Inserted(kept, id, NewEntry) ELSE kept

\* A frame of an unknown session that may not replace the known one.
Refuse(f) ==
    /\ <<f.key, f.session>> \notin DOMAIN sessions
    /\ ~MayTakeOver(f)
    /\ UNCHANGED sessions

\* The server's socket yields a frame; the network may deliver it again.
Deliver(f, again) ==
    /\ f \in flight
    /\ flight' = IF again THEN flight ELSE flight \ {f}
    /\ KnownSession(f) \/ NewSession(f) \/ Refuse(f)
    /\ UNCHANGED <<client, failures, upstream>>

\* The upstream socket of a session yields a datagram.
UpstreamRecv(id) ==
    /\ upstream < MaxUpstream
    /\ ~sessions[id].finished
    /\ sessions' = Refreshed(sessions, id)
    /\ upstream' = upstream + 1
    /\ UNCHANGED <<client, flight, failures>>

\* run_server_session returns.
TaskEnds(id) ==
    /\ failures < MaxFailures
    /\ ~sessions[id].finished
    /\ sessions' = [sessions EXCEPT ![id].finished = TRUE]
    /\ failures' = failures + 1
    /\ UNCHANGED <<client, flight, upstream>>

\* The server process is started again; nothing is persisted.
ServerRestart ==
    /\ failures < MaxFailures
    /\ sessions' = <<>>
    /\ failures' = failures + 1
    /\ UNCHANGED <<client, flight, upstream>>

MutantExpired(id) == sessions[id].idle >= IdleAfter

Expired(id) == sessions[id].finished \/ sessions[id].idle >= IdleAfter

\* The cleanup timer fires.
Cleanup ==
    /\ sessions' = Restrict(sessions, {id \in DOMAIN sessions : ~Expired(id)})
    /\ UNCHANGED <<client, flight, failures, upstream>>

Tick ==
    /\ sessions' = [id \in DOMAIN sessions |->
            [sessions[id] EXCEPT !.idle = IF @ = IdleAfter THEN @ ELSE @ + 1]]
    /\ UNCHANGED <<client, flight, failures, upstream>>

Next ==
    \/ \E k \in Keys : ClientStart(k) \/ ClientSend(k)
    \/ \E f \in flight : Lose(f) \/ \E again \in BOOLEAN : Deliver(f, again)
    \/ \E id \in DOMAIN sessions : UpstreamRecv(id) \/ TaskEnds(id)
    \/ ServerRestart \/ Cleanup \/ Tick

Spec == Init /\ [][Next]_vars

Current(k) == <<k, client[k].session>>

\* Timers keep firing, clients keep sending reports, the network is rid of a
\* frame some day, and it does not lose every frame of a client.
Fairness ==
    /\ WF_vars(Tick) /\ WF_vars(Cleanup)
    /\ \A k \in Keys :
        /\ WF_vars(ClientSend(k))
        /\ SF_vars(\E f \in flight : <<f.key, f.session>> = Current(k) /\ Deliver(f, FALSE))
    /\ \A f \in Frame : WF_vars(Lose(f) \/ Deliver(f, FALSE))

FairSpec == Spec /\ Fairness

-----------------------------------------------------------------------------

\* The table holds sessions that some client started, and the frames in flight
\* are ones that a client sent.
TypeOK ==
    /\ DOMAIN sessions \subseteq Keys \X (1..MaxStarts)
    /\ \A id \in DOMAIN sessions : sessions[id] \in Entry
    /\ client \in [Keys -> [session : 0..MaxStarts, seq : 1..(TakeoverMax + 1)]]
    /\ flight \subseteq Frame
    /\ failures \in 0..MaxFailures
    /\ upstream \in 0..MaxUpstream

\* A device never has two sessions at the server, so two upstream sockets
\* never answer one device, and the table never exceeds --max-sessions.
SessionsBounded ==
    /\ Cardinality(DOMAIN sessions) <= MaxSessions
    /\ \A id, other \in DOMAIN sessions : id[1] = other[1] => id = other

Established(k) ==
    /\ Current(k) \in DOMAIN sessions
    /\ \A f \in flight :
        f.key = k /\ f.session < client[k].session => f.seq > TakeoverMax

\* Once the newest session of a device is established and the first
\* TakeoverMax frames of its earlier sessions have left the network, only
\* idleness or the end of its task removes it: later frames of the earlier
\* sessions do not replace it, however often the network repeats them.
EstablishedStays ==
    [][\A k \in Keys : Established(k) /\ ~ServerRestart =>
        Current(k) \in DOMAIN sessions' \/ Expired(Current(k)) \/ client[k]' # client[k]]_vars

\* The sessions of one device are nothing to the others: a frame of a device,
\* even one that finds the table full, changes no entry of another device.
DevicesIsolated ==
    [][\A f \in flight : (\E again \in BOOLEAN : Deliver(f, again)) =>
        \A id \in DOMAIN sessions : id[1] # f.key =>
            id \in DOMAIN sessions' /\ sessions'[id] = sessions[id]]_vars

Served(k) == Current(k) \in DOMAIN sessions /\ ~sessions[Current(k)].finished
NoRoom(k) == Cardinality(DOMAIN sessions \ SessionsOf(k)) >= MaxSessions

\* A running client is served again and again, whatever was lost, repeated or
\* left over from its earlier sessions, unless other devices fill the table.
ClientsServed == \A k \in Keys : [](client[k].session > 0 => <>(Served(k) \/ NoRoom(k)))

\* "new_device_session_replaces_old_but_late_old_frames_cannot_take_over":
\* no frame of an earlier session replaces the newest session of a device.
LateFramesCannotTakeOver ==
    [][\A k \in Keys : client[k].session > 0 /\ Current(k) \in DOMAIN sessions =>
        \A s \in 1..(client[k].session - 1) :
            <<k, s>> \in DOMAIN sessions' => <<k, s>> \in DOMAIN sessions]_vars

=============================================================================
