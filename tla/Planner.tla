------------------------------- MODULE Planner -------------------------------
(***************************************************************************)
(* The deployment controller (smart-gateway-controller): it resolves the   *)
(* configuration, probes the ports the plan would bind, one by one, by     *)
(* binding and closing a socket, and prints a plan or fails.  Meanwhile    *)
(* other programs bind and release the same ports.  The plan's actions     *)
(* follow from the modules and the bindings and are not carried out.       *)
(***************************************************************************)
EXTENDS ProductConfig, Sequences

CONSTANT Configs        \* configurations the controller is started with

ASSUME PlannerAssumption == \A c \in Configs :
    /\ c.schema \in Nat /\ c.bandwidth \in Nat /\ c.tcp \in Nat /\ c.udp \in Nat
    /\ c.profile \in Profiles /\ DOMAIN c.overrides \subseteq ModuleIds
    /\ \A m \in DOMAIN c.overrides : c.overrides[m] \in {"Enabled", "Disabled", "Auto"}

Protocols == {"udp", "tcp"}

VARIABLES
    config,
    plannerAt,      \* where the controller is
    outcome,        \* the error, "conflicts" or "planned"
    modules,        \* DeploymentPlan.modules
    todo,           \* bindings still to be probed
    conflicts,      \* DeploymentPlan.conflicts
    occupied,       \* ports other programs hold (environment)
    wasFree,        \* history: ports that were free since the probes began
    wasTaken        \* history: ports that were taken since then

planVars == <<config, plannerAt, outcome, modules, todo, conflicts, occupied, wasFree, wasTaken>>

PlannerInit ==
    /\ config \in Configs
    /\ plannerAt = "resolve" /\ outcome = "none"
    /\ modules = {} /\ todo = <<>> /\ conflicts = {}
    /\ occupied \in SUBSET Protocols
    /\ wasFree = {} /\ wasTaken = {}

-----------------------------------------------------------------------------

\* requested_bindings
RequestedBindings(enabled) ==
    IF {"Tuic", "Masque"} \cap enabled # {} THEN <<"udp", "tcp">> ELSE <<"tcp">>

Resolve ==
    LET error == ResolveError(config) IN
    /\ plannerAt = "resolve"
    /\ IF error = "none"
       THEN /\ plannerAt' = "probe" /\ modules' = Overridden(config)
            /\ todo' = RequestedBindings(modules')
            /\ wasFree' = Protocols \ occupied /\ wasTaken' = occupied
            /\ UNCHANGED outcome
       ELSE /\ plannerAt' = "end" /\ outcome' = error
            /\ UNCHANGED <<modules, todo, wasFree, wasTaken>>
    /\ UNCHANGED <<config, conflicts, occupied>>

\* SocketProbe: bind succeeds ...
ProbeBinds ==
    /\ plannerAt = "probe" /\ todo # <<>> /\ Head(todo) \notin occupied
    /\ plannerAt' = "bound"
    /\ UNCHANGED <<config, outcome, modules, todo, conflicts, occupied, wasFree, wasTaken>>

\* ... and the socket is dropped,
ProbeDrops ==
    /\ plannerAt = "bound"
    /\ plannerAt' = "probe" /\ todo' = Tail(todo)
    /\ UNCHANGED <<config, outcome, modules, conflicts, occupied, wasFree, wasTaken>>

\* or the address is in use,
ProbeConflict ==
    /\ plannerAt = "probe" /\ todo # <<>> /\ Head(todo) \in occupied
    /\ conflicts' = conflicts \cup {Head(todo)} /\ todo' = Tail(todo)
    /\ UNCHANGED <<config, plannerAt, outcome, modules, occupied, wasFree, wasTaken>>

\* or bind fails in another way: no permission, no such address.
ProbeError ==
    /\ plannerAt = "probe" /\ todo # <<>>
    /\ plannerAt' = "end" /\ outcome' = "Probe"
    /\ UNCHANGED <<config, modules, todo, conflicts, occupied, wasFree, wasTaken>>

\* The plan is printed; main() fails if it has conflicts.
Report ==
    /\ plannerAt = "probe" /\ todo = <<>>
    /\ plannerAt' = "end"
    /\ outcome' = IF conflicts = {} THEN "planned" ELSE "conflicts"
    /\ UNCHANGED <<config, modules, todo, conflicts, occupied, wasFree, wasTaken>>

\* Another program binds a port the probe does not hold, or releases one.
OtherProgram(p) ==
    /\ plannerAt \in {"probe", "bound"}
    /\ ~(plannerAt = "bound" /\ p = Head(todo))
    /\ occupied' = IF p \in occupied THEN occupied \ {p} ELSE occupied \cup {p}
    /\ wasFree' = wasFree \cup (occupied \cap {p})
    /\ wasTaken' = wasTaken \cup ({p} \ occupied)
    /\ UNCHANGED <<config, plannerAt, outcome, modules, todo, conflicts>>

PlannerNext ==
    \/ Resolve \/ ProbeBinds \/ ProbeDrops \/ ProbeConflict \/ ProbeError \/ Report
    \/ \E p \in Protocols : OtherProgram(p)

PlannerSpec == PlannerInit /\ [][PlannerNext]_planVars

-----------------------------------------------------------------------------

\* The controller's variables keep their types, and the port it holds is one
\* it was to probe.
PlannerTypeOK ==
    /\ config.profile \in Profiles
    /\ plannerAt \in {"resolve", "probe", "bound", "end"}
    /\ modules \subseteq ModuleIds
    /\ {conflicts, occupied, wasFree, wasTaken} \subseteq SUBSET Protocols
    /\ \A i \in 1..Len(todo) : todo[i] \in Protocols
    /\ plannerAt = "bound" => todo # <<>> /\ Head(todo) \notin occupied

\* What a plan may enable, said without regard to the order of the checks:
\* what the operator fixed is as fixed, everything else as in the profile,
\* dependencies are present, one transport at most, nothing experimental
\* outside the laboratory.
Obeys(c, enabled) ==
    /\ \A m \in ModuleIds :
        LET setting == IF m \in DOMAIN c.overrides THEN c.overrides[m] ELSE "Auto" IN
        m \in enabled <=> CASE setting = "Enabled" -> TRUE
                            [] setting = "Disabled" -> FALSE
                            [] setting = "Auto" -> m \in ProfileDefaults(c.profile)
    /\ \A m \in enabled : Dependencies(m) \subseteq enabled
    /\ "Tuic" \notin enabled \/ "Masque" \notin enabled
    /\ enabled \cap {"Masque", "DnsDoq"} # {} => c.profile = "Laboratory"

Sound(c) == c.schema = 1 /\ c.bandwidth > 0 /\ c.tcp > 0 /\ c.udp > 0

\* resolve_modules accepts a configuration exactly when some set of modules
\* obeys it, and the plan then has this set: no combination of overrides slips
\* through the sequence of checks, and none is refused without need.
PlanObeysConfig ==
    /\ plannerAt # "resolve" /\ outcome \in {"none", "Probe", "planned", "conflicts"}
        => Sound(config) /\ Obeys(config, modules)
    /\ outcome \notin {"none", "Probe", "planned", "conflicts"}
        => ~(Sound(config) /\ Obeys(config, Overridden(config)))

\* Every profile is deployable as it is: without overrides its defaults obey
\* the rules of resolve_modules, which are written down elsewhere.
DefaultsDeployable ==
    Sound(config) /\ DOMAIN config.overrides = {}
        => outcome \in {"none", "Probe", "planned", "conflicts"}

\* The verdict on the ports is as good as probing can make it: a port that was
\* taken all the while is reported, and one that was free all the while is
\* not, whatever other programs do to the other port.
PortsReported ==
    outcome \in {"planned", "conflicts"} =>
        \A i \in 1..Len(RequestedBindings(modules)) :
            LET p == RequestedBindings(modules)[i] IN
            IF p \in conflicts THEN p \in wasTaken ELSE p \in wasFree

\* What the controller prints is right: the modules are those the configuration
\* asks for, a configuration is refused only if nothing can satisfy it, and the
\* conflicts are those that probing can find.
VerdictRight == PlanObeysConfig /\ DefaultsDeployable /\ PortsReported

=============================================================================
