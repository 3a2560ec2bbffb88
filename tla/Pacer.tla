------------------------------- MODULE Pacer --------------------------------
(***************************************************************************)
(* The token bucket every tunnel frame passes before it is sent.  At the   *)
(* server one Pacer behind a fair mutex serves all sessions, a session     *)
(* holds the mutex while it sleeps in wait(), and the session's task can   *)
(* be aborted at any await; a client is the case of a single task.         *)
(*                                                                         *)
(* The unit of time is what it takes to refill one byte.  The clock is     *)
(* kept relative: `age' is the time since `updated', saturated where the   *)
(* bucket is full, and `remaining' what is left of the sleep.              *)
(***************************************************************************)
EXTENDS Integers, Sequences, SequencesExt

CONSTANTS
    Tasks,          \* the tasks that send
    FrameSizes,     \* sizes of encoded frames, in bytes
    Batch,          \* bytes_per_second * 0.004
    Floor           \* HEADER + SHARD + TAG

MaxFrame == CHOOSE b \in FrameSizes : \A c \in FrameSizes : c <= b

ASSUME PacerAssumption ==
    /\ FrameSizes \subseteq Nat \ {0}
    /\ MaxFrame \in FrameSizes /\ \A b \in FrameSizes : b <= MaxFrame
    /\ Batch \in Nat \ {0}
    /\ Floor \in Nat \ {0}

Capacity == IF Batch < Floor THEN Floor ELSE Batch

VARIABLES
    tokens,     \* self.tokens
    age,        \* time since self.updated
    queue,      \* tasks that hold (the first) or await the mutex, with their bytes
    sleeping,   \* the first task is in time::sleep
    remaining,  \* until the sleep ends
    excess      \* history: most bytes granted in any interval up to now, beyond
                \* the ones the rate allows for that interval

vars == <<tokens, age, queue, sleeping, remaining, excess>>

AgeMax == Capacity + MaxFrame

Init ==
    /\ tokens = Capacity
    /\ age = 0
    /\ queue = <<>>
    /\ sleeping = FALSE
    /\ remaining = 0
    /\ excess = 0

\* A task wants to send: it locks the mutex, first come first served.
Lock(t, b) ==
    /\ \A i \in DOMAIN queue : queue[i].task # t
    /\ queue' = Append(queue, [task |-> t, bytes |-> b])
    /\ UNCHANGED <<tokens, age, sleeping, remaining, excess>>

Refilled == IF tokens + age > Capacity THEN Capacity ELSE tokens + age

\* The holder gets its bytes out of a bucket of `available' and unlocks.
Grant(available) ==
    /\ tokens' = available - Head(queue).bytes
    /\ age' = 0
    /\ queue' = Tail(queue)
    /\ excess' = excess + Head(queue).bytes

\* wait(), the bucket holds enough.
WaitEnough ==
    /\ queue # <<>> /\ ~sleeping
    /\ Refilled >= Head(queue).bytes
    /\ Grant(Refilled)
    /\ UNCHANGED <<sleeping, remaining>>

MutantWaitSleep ==
    /\ queue # <<>> /\ ~sleeping
    /\ Refilled < Head(queue).bytes
    /\ tokens' = Refilled /\ age' = 0
    /\ sleeping' = TRUE
    /\ remaining' = Head(queue).bytes - Refilled
    /\ UNCHANGED <<queue, excess>>

\* wait(), it does not: sleep until the bucket would be full.
WaitSleep ==
    /\ queue # <<>> /\ ~sleeping
    /\ Refilled < Head(queue).bytes
    /\ tokens' = Refilled /\ age' = 0
    /\ sleeping' = TRUE
    /\ remaining' = Capacity - Refilled
    /\ UNCHANGED <<queue, excess>>

MutantWaitWake ==
    /\ sleeping /\ remaining = 0
    /\ Capacity >= Head(queue).bytes
    /\ Grant(Capacity)
    /\ sleeping' = FALSE
    /\ UNCHANGED remaining

\* The sleep is over, perhaps later than asked for.
WaitWake ==
    /\ sleeping /\ remaining = 0
    /\ Grant(Capacity)
    /\ sleeping' = FALSE
    /\ UNCHANGED remaining

\* The task of a superseded or expired session is aborted: its place in the
\* queue, and the mutex if it holds it, are given up; tokens and updated stay
\* as wait() left them before its await.
Abort(i) ==
    /\ queue' = RemoveAt(queue, i)
    /\ sleeping' = (sleeping /\ i > 1)
    /\ remaining' = IF i > 1 THEN remaining ELSE 0
    /\ UNCHANGED <<tokens, age, excess>>

Tick ==
    /\ age' = IF age = AgeMax THEN age ELSE age + 1
    /\ remaining' = IF remaining = 0 THEN 0 ELSE remaining - 1
    /\ excess' = IF excess = 0 THEN 0 ELSE excess - 1
    /\ UNCHANGED <<tokens, queue, sleeping>>

Next ==
    \/ \E t \in Tasks, b \in FrameSizes : Lock(t, b)
    \/ WaitEnough \/ WaitSleep \/ WaitWake
    \/ \E i \in DOMAIN queue : Abort(i)
    \/ Tick

Spec == Init /\ [][Next]_vars

\* Time passes, sleeps end, and the holder of the mutex is scheduled.
FairSpec == Spec /\ WF_vars(Tick) /\ WF_vars(WaitEnough \/ WaitSleep) /\ WF_vars(WaitWake)

-----------------------------------------------------------------------------

\* The bucket never holds more than its capacity and is never overdrawn by more
\* than one frame.
TypeOK ==
    /\ tokens \in Int /\ tokens <= Capacity /\ tokens + MaxFrame >= 0
    /\ age \in 0..AgeMax
    /\ queue \in Seq([task : Tasks, bytes : FrameSizes])
    /\ sleeping \in BOOLEAN
    /\ remaining \in Nat
    /\ excess \in Nat

\* The pacer keeps to the rate over every interval, whatever the sessions ask
\* for, however late a sleep ends and whenever a task is aborted in its sleep:
\* no interval carries more than a bucket (or one larger frame) beyond the rate.
KeepsRate == excess <= Capacity \/ excess <= MaxFrame

Waiting(t) == \E i \in DOMAIN queue : queue[i].task = t

\* Nobody waits for ever: a task that asked for the pacer gets it or is
\* aborted, though others ask again and sleep with the mutex held.
EveryoneServed == \A t \in Tasks : Waiting(t) ~> ~Waiting(t)

\* "The floor guarantees that one maximum-size frame always fits": the bucket
\* is never overdrawn.
FrameFits == tokens >= 0

=============================================================================
