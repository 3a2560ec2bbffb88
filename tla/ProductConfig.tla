---------------------------- MODULE ProductConfig ----------------------------
(***************************************************************************)
(* Which modules a product configuration enables: the defaults of its      *)
(* profile, the operator's overrides, and the rules resolve_modules checks *)
(* one after the other.  An error is its kind; which of several missing    *)
(* dependencies is named in it is left out.                                *)
(***************************************************************************)
EXTENDS Integers, FiniteSets

Profiles == {"Standard", "Enhanced", "LowResource", "Laboratory"}

ModuleIds == {"Tuic", "Masque", "AdaptiveFec", "Pmtu", "DirectEgress", "MultiWarp",
              "StableGoogleEgress", "DnsDoh", "DnsDotFallback", "DnsDoq",
              "Observability", "AutomaticRollback"}

Dependencies(m) ==
    CASE m = "AdaptiveFec" -> {"Tuic", "Pmtu"}
      [] m \in {"MultiWarp", "StableGoogleEgress", "DnsDoq"} -> {"DirectEgress"}
      [] m = "DnsDotFallback" -> {"DnsDoh"}
      [] OTHER -> {}

\* Modules every profile but the experimental one has.
Usual == {"Tuic", "AdaptiveFec", "Pmtu", "DirectEgress", "DnsDoh", "AutomaticRollback"}

ProfileDefaults(profile) ==
    CASE profile = "Standard" -> Usual \cup {"DnsDotFallback", "Observability"}
      [] profile = "Enhanced" -> Usual \cup {"DnsDotFallback", "Observability",
                                             "MultiWarp", "StableGoogleEgress"}
      [] profile = "LowResource" -> Usual
      [] profile = "Laboratory" -> {"Masque", "Pmtu", "DirectEgress", "DnsDoh", "DnsDoq",
                                    "Observability", "AutomaticRollback"}

\* The defaults with the operator's overrides (config.modules) applied.
Overridden(c) ==
    LET Set(setting) == {m \in DOMAIN c.overrides : c.overrides[m] = setting}
    IN  (ProfileDefaults(c.profile) \cup Set("Enabled")) \ Set("Disabled")

\* validate_scalar_fields
ScalarError(c) ==
    IF c.schema # 1 THEN "UnsupportedSchema"
    ELSE IF c.bandwidth = 0 THEN "ZeroBandwidth"
    ELSE IF c.tcp = 0 \/ c.udp = 0 THEN "UnsafePublicPort"
    ELSE "none"

MutantRuleError(profile, resolved) ==
    IF {"Tuic", "Masque"} \subseteq resolved THEN "ConflictingTransports"
    ELSE IF "Masque" \in resolved /\ profile # "Laboratory"
    THEN "ExperimentalModuleOutsideLaboratory"
    ELSE IF \E m \in resolved : ~(Dependencies(m) \subseteq resolved) THEN "MissingDependency"
    ELSE "none"

\* The rules on the resolved set, in the order of the code.
RuleError(profile, resolved) ==
    IF {"Tuic", "Masque"} \subseteq resolved THEN "ConflictingTransports"
    ELSE IF {"Masque", "DnsDoq"} \cap resolved # {} /\ profile # "Laboratory"
    THEN "ExperimentalModuleOutsideLaboratory"
    ELSE IF \E m \in resolved : ~(Dependencies(m) \subseteq resolved) THEN "MissingDependency"
    ELSE "none"

ResolveError(c) ==
    IF ScalarError(c) # "none" THEN ScalarError(c)
    ELSE RuleError(c.profile, Overridden(c))

=============================================================================
