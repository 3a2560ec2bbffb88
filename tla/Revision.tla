------------------------------ MODULE Revision ------------------------------
(***************************************************************************)
(* Revision transactions of the controller on a shared directory: each     *)
(* transaction stages artifacts in a candidate directory, validates it,    *)
(* moves it under revisions/ and swings the pointer file `current' to it,  *)
(* and may later swing the pointer back.  Several transactions (threads or *)
(* processes) run at once, every call of the file system is a step of its  *)
(* own and may fail, and a process may die between any two of them.        *)
(*                                                                         *)
(* A transaction's name is its revision id.  The content of a directory is *)
(* the set of artifacts in it.  The pointer is replaced by rename, as on   *)
(* Unix.                                                                   *)
(***************************************************************************)
EXTENDS Integers, FiniteSets

CONSTANTS
    Txns,           \* transactions, named by their revision ids
    Artifacts,      \* artifact names
    None,           \* no revision
    MaxFaults       \* bound: failing calls and crashes

ASSUME RevisionAssumption == None \notin Txns /\ MaxFaults \in Nat

VARIABLES
    candidates,     \* directories under candidates/
    revisions,      \* directories under revisions/
    content,        \* artifacts in the directory of a transaction
    current,        \* the revision the pointer file names
    temporary,      \* `.current.tmp': whether it exists, and what it names
    state,          \* TransactionState, "new" before begin(), "dead" after a crash
    previous,       \* the `previous' of a transaction
    step,           \* the call in commit() or rollback() that comes next
    checked,        \* history: the content that was validated
    faults

vars == <<candidates, revisions, content, current, temporary, state, previous,
          step, checked, faults>>
dirs == <<candidates, revisions, content>>
pointer == <<current, temporary>>

Absent == [exists |-> FALSE, names |-> None]

Init ==
    /\ candidates = {} /\ revisions = {}
    /\ content = [t \in Txns |-> {}]
    /\ current = None
    /\ temporary = Absent
    /\ state = [t \in Txns |-> "new"]
    /\ previous = [t \in Txns |-> None]
    /\ step = [t \in Txns |-> "idle"]
    /\ checked = [t \in Txns |-> {}]
    /\ faults = 0

Goto(t, s) == step' = [step EXCEPT ![t] = s]

Enter(t, s) == state' = [state EXCEPT ![t] = s]

Fault == faults < MaxFaults /\ faults' = faults + 1

-----------------------------------------------------------------------------

\* begin(): the caller passes the revision it found active.
Begin(t) ==
    /\ state[t] = "new"
    /\ candidates' = candidates \cup {t}
    /\ previous' = [previous EXCEPT ![t] = current]
    /\ Enter(t, "candidate")
    /\ UNCHANGED <<revisions, content, pointer, step, checked, faults>>

MutantStage(t, a) ==
    /\ state[t] \in {"candidate", "validated"} /\ step[t] = "idle"
    /\ content' = [content EXCEPT ![t] = @ \cup {a}]
    /\ UNCHANGED <<candidates, revisions, pointer, state, previous, step, checked, faults>>

\* stage(): the artifact appears by rename, whole or not at all.
Stage(t, a) ==
    /\ state[t] = "candidate" /\ step[t] = "idle"
    /\ content' = [content EXCEPT ![t] = @ \cup {a}]
    /\ UNCHANGED <<candidates, revisions, pointer, state, previous, step, checked, faults>>

\* validate(), when the validator accepts the candidate.
Validate(t) ==
    /\ state[t] = "candidate" /\ step[t] = "idle"
    /\ Enter(t, "validated")
    /\ checked' = [checked EXCEPT ![t] = content[t]]
    /\ UNCHANGED <<dirs, pointer, previous, step, faults>>

\* commit(), the candidate becomes a revision.  A failing rename returns with
\* nothing changed.
MoveCandidate(t) ==
    /\ state[t] = "validated" /\ step[t] = "idle"
    /\ t \in candidates
    /\ candidates' = candidates \ {t}
    /\ revisions' = revisions \cup {t}
    /\ Goto(t, "create")
    /\ UNCHANGED <<content, pointer, state, previous, checked, faults>>

\* rollback(), up to the pointer: the previous revision must be there.
StartRollback(t) ==
    /\ state[t] = "committed" /\ step[t] = "idle"
    /\ previous[t] # None /\ previous[t] \in revisions
    /\ Goto(t, "create")
    /\ UNCHANGED <<dirs, pointer, state, previous, checked, faults>>

-----------------------------------------------------------------------------
\* write_pointer()

\* The revision a transaction is about to make current.
NewCurrent(t) == IF state[t] = "validated" THEN t ELSE previous[t]

\* How commit() and rollback() go on when write_pointer() returns an error.
OnError(t) == Goto(t, IF state[t] = "validated" THEN "restore" ELSE "idle")

MutantCreateTemporary(t) ==
    /\ step[t] = "create"
    /\ temporary' = [exists |-> TRUE, names |-> None]
    /\ Goto(t, "write")
    /\ UNCHANGED <<dirs, current, state, previous, checked, faults>>

\* create_new succeeds only if there is no such file yet.
CreateTemporary(t) ==
    /\ step[t] = "create"
    /\ IF temporary.exists
       THEN OnError(t) /\ UNCHANGED temporary
       ELSE temporary' = [exists |-> TRUE, names |-> None] /\ Goto(t, "write")
    /\ UNCHANGED <<dirs, current, state, previous, checked, faults>>

\* write_all and sync_all.
WriteTemporary(t) ==
    /\ step[t] = "write"
    /\ temporary' = [exists |-> TRUE, names |-> NewCurrent(t)]
    /\ Goto(t, "swap")
    /\ UNCHANGED <<dirs, current, state, previous, checked, faults>>

\* The rename that replaces `current', and the rest of commit() or rollback().
SwapPointer(t) ==
    /\ step[t] = "swap"
    /\ current' = temporary.names
    /\ temporary' = Absent
    /\ Enter(t, IF state[t] = "validated" THEN "committed" ELSE "rolled_back")
    /\ Goto(t, "idle")
    /\ UNCHANGED <<dirs, previous, checked, faults>>

\* A call of write_pointer() fails.
PointerFails(t) ==
    /\ step[t] \in {"create", "write", "swap"}
    /\ Fault
    /\ OnError(t)
    /\ UNCHANGED <<dirs, pointer, state, previous, checked>>

\* commit() moves the revision back to where it came from; whether that
\* succeeds is not looked at.
Restore(t) ==
    /\ step[t] = "restore"
    /\ revisions' = revisions \ {t}
    /\ candidates' = candidates \cup {t}
    /\ Goto(t, "idle")
    /\ UNCHANGED <<content, pointer, state, previous, checked, faults>>

RestoreFails(t) ==
    /\ step[t] = "restore"
    /\ Fault
    /\ Goto(t, "idle")
    /\ UNCHANGED <<dirs, pointer, state, previous, checked>>

-----------------------------------------------------------------------------

\* The process of a transaction dies; the directory stays as it is.
Crash(t) ==
    /\ state[t] \notin {"new", "dead"}
    /\ Fault
    /\ Enter(t, "dead")
    /\ Goto(t, "idle")
    /\ UNCHANGED <<dirs, pointer, previous, checked>>

Work(t) ==
    \/ MoveCandidate(t)
    \/ CreateTemporary(t) \/ WriteTemporary(t) \/ SwapPointer(t) \/ Restore(t)

Next ==
    \E t \in Txns :
        \/ Begin(t) \/ Validate(t) \/ \E a \in Artifacts : Stage(t, a)
        \/ StartRollback(t)
        \/ Work(t)
        \/ PointerFails(t) \/ RestoreFails(t) \/ Crash(t)

Spec == Init /\ [][Next]_vars

\* A caller whose commit() failed calls it again, and calls return.
FairSpec == Spec /\ \A t \in Txns : WF_vars(Work(t))

-----------------------------------------------------------------------------

\* The fields keep their ranges, and no directory is in two places.
TypeOK ==
    /\ candidates \subseteq Txns /\ revisions \subseteq Txns
    /\ candidates \cap revisions = {}
    /\ content \in [Txns -> SUBSET Artifacts]
    /\ checked \in [Txns -> SUBSET Artifacts]
    /\ current \in Txns \cup {None}
    /\ temporary \in [exists : BOOLEAN, names : Txns \cup {None}]
    /\ previous \in [Txns -> Txns \cup {None}]
    /\ state \in [Txns -> {"new", "candidate", "validated", "committed", "rolled_back", "dead"}]
    /\ step \in [Txns -> {"idle", "create", "write", "swap", "restore"}]
    /\ faults \in 0..MaxFaults

\* Whatever fails or dies and however transactions interleave, the pointer
\* names a revision that is there, complete, and exactly as validated.
CurrentIsValidated ==
    current # None => current \in revisions /\ content[current] = checked[current]

\* A transaction that reports success did what it says: the pointer it put in
\* place is the one it wrote, not one a concurrent transaction left half made.
SwapIsOwn ==
    [][\A t \in Txns : state[t] # state'[t] /\ state'[t] \in {"committed", "rolled_back"}
            => current' = NewCurrent(t)]_vars

\* "Restore the candidate so a caller may correct the underlying I/O failure
\* and retry safely": once the calls no longer fail, commit() succeeds.
RetrySucceeds == \A t \in Txns : state[t] = "validated" ~> state[t] \in {"committed", "rolled_back", "dead"}

=============================================================================
