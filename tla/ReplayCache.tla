----------------------------- MODULE ReplayCache -----------------------------
(***************************************************************************)
(* The check of authentication envelopes in the QUIC server: an envelope   *)
(* is accepted while its timestamp is within AuthWindow of the server's    *)
(* clock and its nonce is not in the bounded cache all connections share.  *)
(* The cache is a map from nonces to expiry times and a queue of the same  *)
(* pairs in the order of insertion.                                        *)
(*                                                                         *)
(* An envelope is its nonce and its timestamp; whether shape, device and   *)
(* proof are good is the input `genuine'.  The lock around the check makes *)
(* it one step.  Clocks are in seconds and may be set back.                *)
(***************************************************************************)
EXTENDS Integers, Sequences, FiniteSets

CONSTANTS
    Capacity,       \* ReplayCache.capacity
    AuthWindow,     \* DEFAULT_AUTH_WINDOW_SECS
    Nonces,
    MaxSkew,        \* how far the clocks of clients are off (environment)
    MaxTime         \* bound on the server's clock

ASSUME CacheAssumption ==
    /\ Capacity \in Nat \ {0}                   \* ReplayCache::new
    /\ AuthWindow \in Nat /\ MaxSkew \in Nat /\ MaxTime \in Nat

VARIABLES
    entries,        \* nonce |-> expires_at
    order,          \* <<[nonce, expires], ...>>, oldest first
    now,            \* the server's clock
    stamp,          \* timestamp of the envelope with a nonce; 0: not made
    accepted,       \* history: nonces verify_envelope accepted
    again,          \* history: nonces it accepted more than once
    excused         \* history: see AcceptedOnce

cacheVars == <<entries, order, now, stamp, accepted, again, excused>>

CacheInit ==
    /\ entries = [n \in {} |-> 0]
    /\ order = <<>>
    /\ now = MaxSkew + 1
    /\ stamp = [n \in Nonces |-> 0]
    /\ accepted = {} /\ again = {} /\ excused = {}

-----------------------------------------------------------------------------

\* The nonces whose entries the first k pairs of the queue account for.
Covered(k) == {n \in DOMAIN entries : \E i \in 1..k : order[i] = [nonce |-> n, expires |-> entries[n]]}

\* How many pairs the expiry loop pops: it stops at the first live one.
Expired == CHOOSE k \in 0..Len(order) :
    /\ \A i \in 1..k : order[i].expires <= now
    /\ k < Len(order) => order[k + 1].expires > now

Remaining(k) == DOMAIN entries \ Covered(k)

\* How many are popped when the eviction loop has made room as well.
Evicted == CHOOSE k \in Expired..Len(order) :
    /\ Cardinality(Remaining(k)) < Capacity \/ k = Len(order)
    /\ \A j \in Expired..(k - 1) : Cardinality(Remaining(j)) >= Capacity

Pop(k) ==
    /\ entries' = [n \in Remaining(k) |-> entries[n]]
    /\ order' = SubSeq(order, k + 1, Len(order))

MutantExpiry == now + AuthWindow

Expiry == now + AuthWindow + 1

PopInsert(k, nonce) ==
    /\ entries' = [n \in Remaining(k) \cup {nonce} |-> IF n = nonce THEN Expiry ELSE entries[n]]
    /\ order' = Append(SubSeq(order, k + 1, Len(order)), [nonce |-> nonce, expires |-> Expiry])

\* check_and_insert returns false.
Known(n) == n \in Remaining(Expired)

CheckAndInsert(n) ==
    \/ /\ Known(n)
       /\ Pop(Expired)
       /\ UNCHANGED excused
    \/ /\ ~Known(n)
       /\ PopInsert(Evicted, n)
       /\ excused' = excused \cup (Remaining(Expired) \ Remaining(Evicted))
                             \cup (IF stamp[n] > now THEN {n} ELSE {})

\* verify_envelope returns Ok, which is history.
Claims(n) ==
    /\ accepted' = accepted \cup {n}
    /\ again' = again \cup (accepted \cap {n})

MutantProve(n, genuine) ==
    /\ CheckAndInsert(n)
    /\ IF genuine /\ ~Known(n) THEN Claims(n) ELSE UNCHANGED <<accepted, again>>

\* The proof is compared, and only then the cache is asked.
Prove(n, genuine) ==
    \/ /\ ~genuine
       /\ UNCHANGED <<entries, order, accepted, again, excused>>
    \/ /\ genuine /\ CheckAndInsert(n)
       /\ IF Known(n) THEN UNCHANGED <<accepted, again>> ELSE Claims(n)

Absolute(i) == IF i < 0 THEN -i ELSE i

\* verify_envelope, of an envelope a client made or of one that only bears its
\* nonce and timestamp.
VerifyEnvelope(n, genuine) ==
    /\ stamp[n] # 0
    /\ Absolute(now - stamp[n]) <= AuthWindow
    /\ Prove(n, genuine)
    /\ UNCHANGED <<now, stamp>>

\* make_envelope, with the client's time t
MakeEnvelope(n, t) ==
    /\ stamp[n] = 0
    /\ stamp' = [stamp EXCEPT ![n] = t]
    /\ UNCHANGED <<entries, order, now, accepted, again, excused>>

\* A client draws a fresh nonce and proves itself; its clock is off by at most
\* MaxSkew.
AuthenticateClient(n) == \E t \in (now - MaxSkew)..(now + MaxSkew) : MakeEnvelope(n, t)

Second ==
    /\ now < MaxTime
    /\ now' = now + 1
    /\ UNCHANGED <<entries, order, stamp, accepted, again, excused>>

\* The server's clock is set back; unix_time is not monotonic.
SetBack ==
    /\ now > MaxSkew + 1
    /\ now' = now - 1
    /\ excused' = Nonces
    /\ UNCHANGED <<entries, order, stamp, accepted, again>>

CacheNext ==
    \/ \E n \in Nonces, genuine \in BOOLEAN : VerifyEnvelope(n, genuine)
    \/ \E n \in Nonces : AuthenticateClient(n)
    \/ Second \/ SetBack

CacheSpec == CacheInit /\ [][CacheNext]_cacheVars

-----------------------------------------------------------------------------

\* The variables keep their types, and the cache its capacity.
CacheTypeOK ==
    /\ DOMAIN entries \subseteq Nonces /\ entries \in [DOMAIN entries -> Nat]
    /\ order \in Seq([nonce : Nonces, expires : Nat]) /\ Len(order) <= Capacity
    /\ now \in Nat /\ stamp \in [Nonces -> Nat]
    /\ accepted \subseteq Nonces /\ again \subseteq Nonces /\ excused \subseteq Nonces

\* Queue and map of ReplayCache hold the same pairs, each once, also when the
\* clock is set back and the queue is no longer sorted by expiry: the two loops
\* of check_and_insert never leave an entry that nothing will expire, nor a
\* queue that grows beyond the map.  And "unauthenticated packets must not
\* poison the cache" (quic_auth.rs:134): only an accepted envelope occupies a
\* nonce, so none is refused as a replay before it was accepted once.
CacheAgrees ==
    /\ {order[i].nonce : i \in 1..Len(order)} = DOMAIN entries
    /\ \A i \in 1..Len(order) : order[i].expires = entries[order[i].nonce]
    /\ Len(order) = Cardinality(DOMAIN entries)
    /\ DOMAIN entries \subseteq accepted

\* verify_envelope accepts an envelope once.  The exceptions are the ones the
\* code leaves open: the entry was evicted for lack of capacity, the envelope
\* was stamped later than the server's clock, or that clock was set back.
AcceptedOnce == again \subseteq excused

=============================================================================
