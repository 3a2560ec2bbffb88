----------------------------- MODULE Supervisor -----------------------------
(***************************************************************************)
(* The router's supervisor (openwrt-smart-fec-supervisor.sh): a loop that  *)
(* probes the path end to end while it is the selected one and, when the   *)
(* probe has failed often enough, restarts the QUIC carrier and the FEC    *)
(* client, each of which may be stuck in a way only a restart ends (lanes  *)
(* saturated in both directions, a client that waits for a preface).       *)
(*                                                                         *)
(* The pauses of the loop are left out: between two steps anything may     *)
(* happen.  A probe also fails while the world beyond the router does.     *)
(***************************************************************************)
EXTENDS Integers

CONSTANTS
    FailureLimit,   \* FAILURE_LIMIT
    MaxFaults       \* bound on the times carrier or client get stuck

ASSUME SupervisorAssumption == FailureLimit \in Nat \ {0} /\ MaxFaults \in Nat

VARIABLES
    loopAt,         \* where the loop is
    failures,
    direct,         \* the carrier itself is the path (SMART_QUIC_LOCAL_PORT=3333)
    selected,       \* smart_path_active (environment)
    outage,         \* the world beyond the router fails (environment)
    stuck,          \* which of "carrier" and "client" are stuck (environment)
    faults,         \* how often one got stuck
    streak          \* history: failed probes since the last good one and since
                    \* the path was last seen inactive, at most FailureLimit

supervisorVars == <<loopAt, failures, direct, selected, outage, stuck, faults, streak>>

SupervisorInit ==
    /\ loopAt = "look" /\ failures = 0
    /\ direct \in BOOLEAN /\ selected \in BOOLEAN /\ outage \in BOOLEAN
    /\ stuck = {} /\ faults = 0 /\ streak = 0

\* What probe() finds.
PathWorks == ~outage /\ stuck \subseteq (IF direct THEN {"client"} ELSE {})

Longer(n) == IF n < FailureLimit THEN n + 1 ELSE n

-----------------------------------------------------------------------------

MutantLook ==
    /\ loopAt = "look"
    /\ IF selected THEN loopAt' = "probe" /\ UNCHANGED <<failures, streak>>
       ELSE loopAt' = "look" /\ streak' = 0 /\ UNCHANGED failures
    /\ UNCHANGED <<direct, selected, outage, stuck, faults>>

\* A round begins: nothing is probed while another path is selected.
Look ==
    /\ loopAt = "look"
    /\ IF selected THEN loopAt' = "probe" /\ UNCHANGED <<failures, streak>>
       ELSE loopAt' = "look" /\ failures' = 0 /\ streak' = 0
    /\ UNCHANGED <<direct, selected, outage, stuck, faults>>

\* The probe of the round, and what follows from it.
ProbePath ==
    /\ loopAt = "probe"
    /\ IF PathWorks
       THEN loopAt' = "look" /\ failures' = 0 /\ streak' = 0
       ELSE /\ failures' = failures + 1 /\ streak' = Longer(streak)
            /\ loopAt' = IF failures' < FailureLimit THEN "look" ELSE "recover"
    /\ UNCHANGED <<direct, selected, outage, stuck, faults>>

MutantRestartCarrier ==
    /\ loopAt = "recover"
    /\ stuck' = stuck \ {"carrier"}
    /\ loopAt' = "check"
    /\ UNCHANGED <<failures, direct, selected, outage, faults, streak>>

\* recover() restarts the carrier ...
RestartCarrier ==
    /\ loopAt = "recover"
    /\ stuck' = stuck \ {"carrier"}
    /\ loopAt' = IF direct THEN "check" ELSE "client"
    /\ UNCHANGED <<failures, direct, selected, outage, faults, streak>>

\* ... and, unless the carrier is the whole path, the FEC client.
RestartClient ==
    /\ loopAt = "client"
    /\ stuck' = stuck \ {"client"}
    /\ loopAt' = "check"
    /\ UNCHANGED <<failures, direct, selected, outage, faults, streak>>

\* The probe after the rebuild; if it fails, one more failure is enough for
\* the next rebuild.
CheckRebuild ==
    /\ loopAt = "check"
    /\ loopAt' = "look"
    /\ IF PathWorks THEN failures' = 0 /\ streak' = 0
       ELSE failures' = FailureLimit /\ streak' = Longer(streak)
    /\ UNCHANGED <<direct, selected, outage, stuck, faults>>

-----------------------------------------------------------------------------
\* The environment

GetsStuck(part) ==
    /\ faults < MaxFaults
    /\ stuck' = stuck \cup {part} /\ faults' = faults + 1
    /\ UNCHANGED <<loopAt, failures, direct, selected, outage, streak>>

OutageChanges ==
    /\ outage' = ~outage
    /\ UNCHANGED <<loopAt, failures, direct, selected, stuck, faults, streak>>

SelectionChanges ==
    /\ selected' = ~selected
    /\ UNCHANGED <<loopAt, failures, direct, outage, stuck, faults, streak>>

Supervise == Look \/ ProbePath \/ RestartCarrier \/ RestartClient \/ CheckRebuild

SupervisorNext ==
    \/ Supervise
    \/ \E part \in {"carrier", "client"} : GetsStuck(part)
    \/ OutageChanges \/ SelectionChanges

\* The loop goes on: every command in it has a time limit or returns.
SupervisorSpec ==
    SupervisorInit /\ [][SupervisorNext]_supervisorVars /\ WF_supervisorVars(Supervise)

-----------------------------------------------------------------------------

\* The counter stays within one of FAILURE_LIMIT, however long an outage is.
SupervisorTypeOK ==
    /\ loopAt \in {"look", "probe", "recover", "client", "check"}
    /\ failures \in 0..(FailureLimit + 1) /\ streak \in 0..FailureLimit
    /\ {direct, selected, outage} \subseteq BOOLEAN
    /\ stuck \subseteq {"carrier", "client"} /\ faults \in 0..MaxFaults

\* recover() tears down sessions only after FAILURE_LIMIT probes in a row that
\* failed while the path was selected: failures from before a good probe or a
\* change of the path never add up to a restart.
RestartsJustified == loopAt \in {"recover", "client", "check"} => streak = FailureLimit

\* Once the path stays selected and the world beyond it is well, whatever got
\* stuck is in the end restarted and the path works for good, in either
\* configuration, and also if earlier rebuilds came to nothing.
StuckIsRebuilt == <>[](selected /\ ~outage) => <>[]PathWorks

=============================================================================
