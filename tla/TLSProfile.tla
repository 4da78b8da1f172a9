------------------------------- MODULE TLSProfile ------------------------------
(***************************************************************************)
(* From the APIServer's tlsSecurityProfile to the TLS settings of the      *)
(* collector: internal/pkg/tlsresolver writes them to a ConfigMap, the     *)
(* environment of the collector, which collector_tls.go applies.  A suite  *)
(* stands for those of its kind; versions are 10 to 13.                    *)
(***************************************************************************)
EXTENDS Integers

Absent == "none"
Unset == 0

Suites == {"aead", "cbc", "tls13", "unsupported"}
Groups == {"x25519", "p256", "unsupported"}
Versions == {10, 11, 12, 13}
Specs == [min : Versions \cup {Unset}, suites : SUBSET Suites, groups : SUBSET Groups]

\* configv1.TLSProfiles
AllGroups == {"x25519", "p256"}
Presets ==
  [Old |-> [min |-> 10, suites |-> {"aead", "cbc", "tls13", "unsupported"}, groups |-> AllGroups],
   Intermediate |-> [min |-> 12, suites |-> {"aead", "tls13"}, groups |-> AllGroups],
   Modern |-> [min |-> 13, suites |-> {"tls13"}, groups |-> AllGroups]]

\* A profile: its type, and with "Custom" its spec, or none.
NoSpec == [min |-> Unset, suites |-> {}, groups |-> {}]
Profile(type, given, spec) == [type |-> type, given |-> given, spec |-> spec]

\* What the APIServer "cluster" may hold: nothing, a profile without a type, or a profile.
Clusters ==
  {Profile(t, FALSE, NoSpec) : t \in {Absent, "Empty", "Custom", "Unknown"} \cup DOMAIN Presets}
  \cup {Profile("Custom", TRUE, s) : s \in Specs}

\* fetchTLSProfile, when the resource can be read or is not there.
Fetched(cluster) ==
  IF cluster.type \in {Absent, "Empty"} THEN Profile("Intermediate", FALSE, NoSpec) ELSE cluster

\* crypto.SecureTLSConfig of an empty config.
Base == [min |-> 12, suites |-> {"aead", "tls13"}, curves |-> {}]

Supported(names) == names \ {"unsupported"}

\* profileToTLSConfig: what it returns alongside an error is used as well.
Converted(profile) ==
  LET spec == IF profile.type \in DOMAIN Presets THEN Presets[profile.type] ELSE profile.spec
  IN IF profile.type = "Unknown" \/ (profile.type = "Custom" /\ ~profile.given)
     THEN [min |-> Unset, suites |-> {}, curves |-> {}, err |-> TRUE]
     ELSE [min |-> spec.min, suites |-> Supported(spec.suites), curves |-> Supported(spec.groups),
           err |-> spec.min = Unset]

Override(new, old, unset) == IF new = unset THEN old ELSE new

\* Mutant: an error leaves the profile aside.
ComposeAllOrNothing(profile) ==
  LET c == Converted(profile) IN
  IF c.err THEN Base ELSE [min |-> c.min, suites |-> c.suites, curves |-> c.curves]

\* Mutant: no defaults beneath a profile.
ComposeBare(profile) ==
  LET c == Converted(profile) IN [min |-> c.min, suites |-> c.suites, curves |-> c.curves]

\* ComposeTLSConfig
Compose(profile) ==
  LET c == Converted(profile) IN
  [min |-> Override(c.min, Base.min, Unset), suites |-> Override(c.suites, Base.suites, {}),
   curves |-> Override(c.curves, Base.curves, {})]

\* ConfigToEnvMap, and applyConfigMap: the entries replace those there were.
Env(config) ==
  [minVersion |-> config.min, suites |-> config.suites, curves |-> config.curves]

\* tlsprofile.Apply on a config with certificates only.  The suites of TLS 1.3 are
\* filtered out, and none apply from 1.3 on; an empty list is Go's default.
Applied(env) ==
  [min |-> env.minVersion,
   suites |-> IF env.minVersion = 13 THEN {} ELSE env.suites \ {"tls13"},
   curves |-> env.curves]

\* buildCollectorTLSConfig, when the key pair loads.
CollectorConfig(cluster) == Applied(Env(Compose(Fetched(cluster))))

\* What crypto/tls offers below TLS 1.3: its own list when it has none.
Offered(config) ==
  IF config.min = 13 THEN {} ELSE IF config.suites = {} THEN {"aead", "cbc"} ELSE config.suites

\* The collector has the version of the cluster's profile, its curves and, where the
\* profile leaves TLS below 1.3 and a suite for it, exactly its suites, all through the
\* conversion, the ConfigMap and the environment; of a profile that can only partly be
\* resolved it has the parts that can.
ProfileHonoured(cluster) ==
  LET profile == Fetched(cluster)
      spec == IF profile.type \in DOMAIN Presets THEN Presets[profile.type] ELSE profile.spec
      config == CollectorConfig(cluster)
      suites == Supported(spec.suites) \ {"tls13"}
  IN /\ spec.min # Unset => config.min = spec.min
     /\ Supported(spec.groups) # {} => config.curves = Supported(spec.groups)
     /\ (config.min < 13 /\ suites # {}) => Offered(config) = suites

\* "The resulting ConfigMap is always populated with concrete values" (resolve.go): a
\* version and suites; and a version below TLS 1.2 only for a cluster of the profile Old
\* or with a custom profile of that very version.
ResolvedIsConcrete(cluster) ==
  LET env == Env(Compose(Fetched(cluster))) IN
  /\ env.minVersion # Unset /\ env.suites # {}
  /\ env.minVersion < 12 =>
       \/ cluster.type = "Old" /\ env.minVersion = Presets["Old"].min
       \/ cluster.type = "Custom" /\ env.minVersion = cluster.spec.min
================================================================================
