--------------------------- MODULE RevisionProofs ---------------------------
(***************************************************************************)
(* The pointer always names a validated revision, for any number of        *)
(* transactions, faults and crashes.  The argument: create_new makes the   *)
(* temporary file a lock, so what a transaction renames over `current' is  *)
(* what it wrote; and a revision that was ever current is settled, since   *)
(* only a commit that has not reached the pointer is moved back.           *)
(***************************************************************************)
EXTENDS Revision, TLAPS

\* r's commit() got as far as the pointer: r stays under revisions/ for good.
Settled(r) ==
    /\ r \in revisions
    /\ state[r] \in {"committed", "rolled_back", "dead"}
    /\ content[r] = checked[r]

\* Between create_new and the rename a transaction owns the temporary file.
Owner(t) == step[t] \in {"write", "swap"}

StepsOK ==
    \A t \in Txns :
        /\ step[t] # "idle" => state[t] \in {"validated", "committed"}
        /\ step[t] = "restore" => state[t] = "validated"
        /\ step[t] # "idle" /\ state[t] = "validated" => t \in revisions
        /\ step[t] # "idle" /\ state[t] = "committed" => previous[t] # None
        /\ state[t] \in {"validated", "committed", "rolled_back"} => content[t] = checked[t]
        /\ state[t] \in {"new", "candidate"} => t \notin revisions

OwnerOK ==
    /\ \A t \in Txns : Owner(t) => temporary.exists
    /\ \A t \in Txns : step[t] = "swap" => temporary.names = NewCurrent(t)
    /\ \A t, u \in Txns : Owner(t) /\ Owner(u) => t = u

SettledOK ==
    /\ current # None => Settled(current)
    /\ \A t \in Txns : previous[t] # None => Settled(previous[t])

IInv == TypeOK /\ StepsOK /\ OwnerOK /\ SettledOK

-----------------------------------------------------------------------------

\* The empty directory satisfies the invariant.
LEMMA InitIInv == Init => IInv
  BY RevisionAssumption
     DEF Init, IInv, TypeOK, StepsOK, OwnerOK, SettledOK, Owner, Absent

\* Staging and validating touch one candidate, which is no settled revision.
LEMMA CandidateStep ==
  ASSUME IInv, NEW t \in Txns,
         Begin(t) \/ Validate(t) \/ \E a \in Artifacts : Stage(t, a)
  PROVE  IInv'
<1>1. TypeOK'
  BY RevisionAssumption
     DEF IInv, TypeOK, StepsOK, Begin, Validate, Stage, Enter, dirs, pointer
<1>2. StepsOK'
  BY DEF IInv, TypeOK, StepsOK, Begin, Validate, Stage, Enter, dirs, pointer
<1>3. OwnerOK'
  BY DEF IInv, TypeOK, StepsOK, OwnerOK, Owner, NewCurrent, Begin, Validate, Stage,
         Enter, dirs, pointer
<1>4. SettledOK'
  BY DEF IInv, TypeOK, StepsOK, SettledOK, Settled, Begin, Validate, Stage, Enter,
         dirs, pointer
<1> QED BY <1>1, <1>2, <1>3, <1>4 DEF IInv

\* The moves of commit() and rollback() around write_pointer().
LEMMA MoveStep ==
  ASSUME IInv, NEW t \in Txns,
         MoveCandidate(t) \/ StartRollback(t) \/ Restore(t) \/ RestoreFails(t)
  PROVE  IInv'
<1>1. TypeOK'
  BY RevisionAssumption
     DEF IInv, TypeOK, MoveCandidate, StartRollback, Restore, RestoreFails, Goto, Fault,
         dirs, pointer
<1>2. StepsOK'
  BY DEF IInv, TypeOK, StepsOK, MoveCandidate, StartRollback, Restore, RestoreFails,
         Goto, dirs, pointer
<1>3. OwnerOK'
  BY DEF IInv, TypeOK, OwnerOK, Owner, NewCurrent, MoveCandidate, StartRollback,
         Restore, RestoreFails, Goto, dirs, pointer
<1>4. SettledOK'
  BY DEF IInv, TypeOK, StepsOK, SettledOK, Settled, MoveCandidate, StartRollback,
         Restore, RestoreFails, Goto, dirs, pointer
<1> QED BY <1>1, <1>2, <1>3, <1>4 DEF IInv

\* write_pointer(): create_new excludes every other transaction until the
\* rename, which makes current a revision that is settled from then on.
LEMMA PointerStep ==
  ASSUME IInv, NEW t \in Txns,
         CreateTemporary(t) \/ WriteTemporary(t) \/ SwapPointer(t) \/ PointerFails(t)
  PROVE  IInv'
<1>1. TypeOK'
  <2>0. NewCurrent(t) \in Txns \cup {None}
    BY DEF IInv, TypeOK, NewCurrent
  <2>1. CASE CreateTemporary(t)
    <3>1. step' \in [Txns -> {"idle", "create", "write", "swap", "restore"}]
      BY <2>1 DEF IInv, TypeOK, CreateTemporary, OnError, Goto
    <3>2. temporary' \in [exists : BOOLEAN, names : Txns \cup {None}]
      <4>1. temporary' = temporary \/ temporary' = [exists |-> TRUE, names |-> None]
        BY <2>1 DEF CreateTemporary
      <4>2. [exists |-> TRUE, names |-> None] \in [exists : BOOLEAN, names : Txns \cup {None}]
        OBVIOUS
      <4> QED BY <4>1, <4>2, Zenon DEF IInv, TypeOK
    <3> QED BY <2>1, <3>1, <3>2 DEF IInv, TypeOK, CreateTemporary, dirs
  <2>2. CASE WriteTemporary(t)
    BY <2>0, <2>2 DEF IInv, TypeOK, WriteTemporary, Goto, dirs
  <2>3. CASE SwapPointer(t)
    BY <2>3 DEF IInv, TypeOK, SwapPointer, Absent, Goto, Enter, dirs
  <2>4. CASE PointerFails(t)
    BY <2>4, RevisionAssumption
       DEF IInv, TypeOK, PointerFails, OnError, Goto, Fault, dirs, pointer
  <2> QED BY <2>1, <2>2, <2>3, <2>4
<1>2. StepsOK'
  BY DEF IInv, TypeOK, StepsOK, CreateTemporary, WriteTemporary, SwapPointer,
         PointerFails, OnError, Goto, Enter, dirs, pointer
<1>3. OwnerOK'
  BY DEF IInv, TypeOK, OwnerOK, Owner, NewCurrent, CreateTemporary, WriteTemporary,
         SwapPointer, PointerFails, OnError, Absent, Goto, Enter, dirs, pointer
<1>4. SettledOK'
  <2>1. CASE SwapPointer(t)
    <3>1. ASSUME NEW r, r = NewCurrent(t) PROVE r # None => Settled(r)'
      BY <2>1, <3>1 DEF IInv, TypeOK, StepsOK, SettledOK, Settled, NewCurrent, SwapPointer,
                  Enter, Goto, dirs
    <3>2. current' = NewCurrent(t)
      BY <2>1 DEF IInv, OwnerOK, SwapPointer
    <3> QED
      BY <2>1, <3>1, <3>2
         DEF IInv, TypeOK, StepsOK, SettledOK, Settled, SwapPointer, Enter, dirs
  <2>2. CASE ~ SwapPointer(t)
    BY <2>2 DEF IInv, SettledOK, Settled, CreateTemporary, WriteTemporary,
                PointerFails, dirs, pointer
  <2> QED BY <2>1, <2>2
<1> QED BY <1>1, <1>2, <1>3, <1>4 DEF IInv

\* A crash releases nothing but the claim of its own transaction.
LEMMA CrashStep ==
  ASSUME IInv, NEW t \in Txns, Crash(t)
  PROVE  IInv'
<1>1. TypeOK'
  BY RevisionAssumption DEF IInv, TypeOK, Crash, Goto, Enter, Fault, dirs, pointer
<1>2. StepsOK'
  BY DEF IInv, TypeOK, StepsOK, Crash, Goto, Enter, dirs, pointer
<1>3. OwnerOK'
  BY DEF IInv, TypeOK, OwnerOK, Owner, NewCurrent, Crash, Goto, Enter, dirs, pointer
<1>4. SettledOK'
  BY DEF IInv, TypeOK, SettledOK, Settled, Crash, Enter, dirs, pointer
<1> QED BY <1>1, <1>2, <1>3, <1>4 DEF IInv

\* IInv is inductive: no call, failure or crash leaves it.
LEMMA NextIInv == IInv /\ [Next]_vars => IInv'
<1> SUFFICES ASSUME IInv, [Next]_vars PROVE IInv'
  OBVIOUS
<1>1. CASE UNCHANGED vars
  BY <1>1 DEF IInv, TypeOK, StepsOK, OwnerOK, SettledOK, Settled, Owner, NewCurrent, vars
<1>2. ASSUME NEW t \in Txns,
             \/ Begin(t) \/ Validate(t) \/ \E a \in Artifacts : Stage(t, a)
             \/ StartRollback(t) \/ Work(t)
             \/ PointerFails(t) \/ RestoreFails(t) \/ Crash(t)
      PROVE  IInv'
  BY <1>2, CandidateStep, MoveStep, PointerStep, CrashStep DEF Work
<1> QED BY <1>1, <1>2 DEF Next

\* What holds in every state of transactions that share a directory.
THEOREM Inductive == Spec => []IInv
<1>1. Init => IInv
  BY InitIInv
<1>2. IInv /\ [Next]_vars => IInv'
  BY NextIInv
<1> QED BY <1>1, <1>2, PTL DEF Spec

\* commit() and rollback(), with any calls failing and any process dying:
\* the pointer names a revision that is complete and as validated.
THEOREM PointerValid == Spec => []CurrentIsValidated
<1>1. IInv => CurrentIsValidated
  BY DEF IInv, SettledOK, Settled, CurrentIsValidated
<1> QED BY <1>1, Inductive, PTL

\* write_pointer() returns Ok only to the transaction whose pointer it put in
\* place, however many run at once.
THEOREM OwnSwap == Spec => SwapIsOwn
<1> DEFINE Own == \A t \in Txns : state[t] # state'[t] /\ state'[t] \in {"committed", "rolled_back"}
                        => current' = NewCurrent(t)
<1>1. IInv /\ [Next]_vars => [Own]_vars
  <2> SUFFICES ASSUME IInv, Next, NEW t \in Txns,
                      state[t] # state'[t], state'[t] \in {"committed", "rolled_back"}
               PROVE  current' = NewCurrent(t)
    OBVIOUS
  <2>1. PICK u \in Txns :
             \/ Begin(u) \/ Validate(u) \/ \E a \in Artifacts : Stage(u, a)
             \/ StartRollback(u) \/ Work(u)
             \/ PointerFails(u) \/ RestoreFails(u) \/ Crash(u)
    BY DEF Next
  <2>2. SwapPointer(t)
    BY <2>1 DEF IInv, TypeOK, Begin, Validate, Stage, StartRollback, Work, MoveCandidate,
                CreateTemporary, WriteTemporary, SwapPointer, PointerFails, Restore,
                RestoreFails, Crash, Enter
  <2> QED BY <2>2 DEF IInv, OwnerOK, SwapPointer
<1> QED BY <1>1, Inductive, PTL DEF Spec, SwapIsOwn

=============================================================================
