----------------------------- MODULE MCPrograms -----------------------------
(***************************************************************************)
(* The programs of the repository that stand beside the tunnel, one model  *)
(* for all: like main(), which runs the subcommand it is given, a behaviour *)
(* picks one program and then takes that program's steps.                  *)
(***************************************************************************)
EXTENDS Balancer, ReplayCache, QuicLink, Carrier, Lanes, SessionRestart, Planner,
        Supervisor

CONSTANT MaxSequence

MCSequences == 1..MaxSequence

\* All profiles with at most two overrides, and all errors of the scalars.
MCOverrides == UNION {[{a, b} -> {"Enabled", "Disabled"}] : a, b \in ModuleIds} \cup {<<>>}

MCConfigs ==
    {[schema |-> 1, bandwidth |-> 30, tcp |-> 443, udp |-> 443, profile |-> p, overrides |-> o] :
        p \in Profiles, o \in MCOverrides}
    \cup {[schema |-> s, bandwidth |-> b, tcp |-> t, udp |-> u, profile |-> "Standard",
           overrides |-> <<>>] : s \in {1, 2}, b \in {0, 30}, t, u \in {0, 443}}

VARIABLE program

programVars == <<balanceVars, cacheVars, linkVars, carrierVars, laneVars, restartVars, planVars,
                 supervisorVars>>

Programs == {"balance", "authenticate", "connect", "datagrams", "lanes", "restart", "plan",
             "supervise"}

\* The programs that do not run rest in one initial state.
MCInit ==
    /\ program \in Programs
    /\ BalanceInit
    /\ program # "balance" => \A u \in Upstreams : condition[u] = "up"
    /\ LinkInit
    /\ program # "connect" =>
        /\ setting = [e \in {"client", "server"} |-> IF e = "client" THEN "1" ELSE "unset"]
        /\ admits /\ path /\ listening
    /\ CacheInit /\ CarrierInit /\ LanesInit /\ RestartInit
    /\ PlannerInit
    /\ program # "plan" =>
        occupied = {} /\ config.profile = "Laboratory" /\ config.overrides = <<>>
    /\ SupervisorInit
    /\ program # "supervise" => ~direct /\ selected /\ ~outage

MCNext ==
    \/ /\ program = "balance" /\ BalanceNext
       /\ UNCHANGED <<cacheVars, linkVars, carrierVars, laneVars, restartVars, planVars,
                      supervisorVars>>
    \/ /\ program = "authenticate" /\ CacheNext
       /\ UNCHANGED <<balanceVars, linkVars, carrierVars, laneVars, restartVars,
                      planVars, supervisorVars>>
    \/ /\ program = "connect" /\ LinkNext
       /\ UNCHANGED <<balanceVars, cacheVars, carrierVars, laneVars, restartVars,
                      planVars, supervisorVars>>
    \/ /\ program = "datagrams" /\ CarrierNext
       /\ UNCHANGED <<balanceVars, cacheVars, linkVars, laneVars, restartVars, planVars,
                      supervisorVars>>
    \/ /\ program = "lanes" /\ LanesNext
       /\ UNCHANGED <<balanceVars, cacheVars, linkVars, carrierVars, restartVars,
                      planVars, supervisorVars>>
    \/ /\ program = "restart" /\ RestartNext
       /\ UNCHANGED <<balanceVars, cacheVars, linkVars, carrierVars, laneVars, planVars,
                      supervisorVars>>
    \/ /\ program = "plan" /\ PlannerNext
       /\ UNCHANGED <<balanceVars, cacheVars, linkVars, carrierVars, laneVars,
                      restartVars, supervisorVars>>
    \/ /\ program = "supervise" /\ SupervisorNext
       /\ UNCHANGED <<balanceVars, cacheVars, linkVars, carrierVars, laneVars,
                      restartVars, planVars>>

MCSpec ==
    /\ MCInit /\ [][MCNext /\ UNCHANGED program]_<<program, programVars>>
    /\ WF_balanceVars(program = "balance" /\ Probe)
    /\ \A c \in Clients : WF_balanceVars(program = "balance" /\ Handle(c))
    /\ WF_linkVars(program = "connect" /\ ClientStep)
    /\ WF_linkVars(program = "connect" /\ ServerStep)
    /\ \A e \in Ends : WF_laneVars(program = "lanes" /\ Move(e))
    /\ WF_supervisorVars(program = "supervise" /\ Supervise)

\* The variables of every program keep their types, and its tables, queues and
\* counters the bounds the code gives them.
ProgramsTypeOK ==
    /\ BalanceTypeOK /\ CacheTypeOK /\ LinkTypeOK /\ CarrierTypeOK /\ LanesTypeOK
    /\ RestartTypeOK /\ PlannerTypeOK /\ SupervisorTypeOK

=============================================================================
