---------------------------- MODULE Authorization ----------------------------
(***************************************************************************)
(* The pure rules of the gateway (tela.core): what a valid configuration   *)
(* is, how a server's raw tools become the tools it exposes, who may call  *)
(* them, and which profile a client is bound to.  Names are opaque; a      *)
(* partial function stands for a dict, "unset" for None.                   *)
(*                                                                         *)
(* A configuration is [servers, profiles, mode, secrets].  A server is     *)
(* [prefix, exclude, nested, family, overrides, default]; an override is   *)
(* [family, posture]; a profile is [capabilities, overrides, default],     *)
(* its overrides a function of <<family, raw name>>.  A raw tool is a name *)
(* with its annotations [ro, de].  A resolved tool is                      *)
(* [name, raw, server, family, posture].                                   *)
(***************************************************************************)
EXTENDS Naturals, FiniteSets

CONSTANTS
  Exposed(_, _),   \* the name a prefix and a raw name make together
  Reserved         \* the names that begin with tela_ or tela.

\* The tools of a gateway that is itself a downstream server.
_CHILD_TELA_BUILTINS == {"tela_list_providers", "tela_list_profiles"}

-----------------------------------------------------------------------------
(* Tools *)

PostureOrder == [none |-> 0, read_only |-> 1, read_write |-> 2, destructive |-> 3]
Postures == {"none", "read_only", "read_write", "destructive"}
posture_le(a, b) == PostureOrder[a] <= PostureOrder[b]

\* A per-tool override of the server, then the server's family, then its name.
resolve_family(raw, s, name) ==
  IF raw \in DOMAIN s.overrides /\ s.overrides[raw].family # "unset" THEN s.overrides[raw].family
  ELSE IF s.family # "unset" THEN s.family ELSE name

\* readOnlyHint and destructiveHint: the most restrictive wins; "unset" is unclassified.
posture_from_annotations(a) ==
  CASE a.de = "true" -> "destructive"
    [] a.de # "true" /\ a.ro = "true" -> "read_only"
    [] a.de # "true" /\ a.ro = "false" -> "read_write"
    [] OTHER -> "unset"

classify_tool(raw, s, a) ==
  IF raw \in DOMAIN s.overrides /\ s.overrides[raw].posture # "unset" THEN s.overrides[raw].posture
  ELSE posture_from_annotations(a)

\* The raw names that are kept: exclude_tools and, for a nested gateway, its own tools go.
Kept(s, offer) ==
  DOMAIN offer \ (s.exclude \cup IF s.nested THEN _CHILD_TELA_BUILTINS ELSE {})

\* resolve_tools raises: a name it would expose is reserved.
Raises(s, offer) == \E raw \in Kept(s, offer) : Exposed(s.prefix, raw) \in Reserved

\* resolve_tools: the exposed name is prefixed, every rule matches raw names.
resolve_tools(name, s, offer) ==
  { [name |-> Exposed(s.prefix, raw), raw |-> raw, server |-> name,
     family |-> resolve_family(raw, s, name),
     posture |-> classify_tool(raw, s, offer[raw])] : raw \in Kept(s, offer) }

\* detect_conflicts: two servers expose one name.
detect_conflicts(all) ==
  \E a, b \in DOMAIN all : a # b /\ \E t \in all[a], u \in all[b] : t.name = u.name

-----------------------------------------------------------------------------
(* Enforcement *)

check_family_admission(family, profile) == family \in DOMAIN profile.capabilities

\* "unset" when the profile says nothing about the tool.
check_tool_override(raw, family, profile) ==
  IF <<family, raw>> \in DOMAIN profile.overrides THEN profile.overrides[<<family, raw>>]
  ELSE "unset"

\* An unclassified tool takes the server's default, unless that is none.
check_posture(posture, ceiling, default) ==
  LET effective == IF posture # "unset" THEN posture ELSE default
  IN  IF effective = "none" /\ posture = "unset" THEN "TOOL_UNCLASSIFIED"
      ELSE IF posture_le(effective, ceiling) THEN "allow" ELSE "AUTHZ_DENY"

\* Mutant: an override that allows the tool skips the ceiling.
EnforceOverrideAllows(tool, profile, default) ==
  CASE ~check_family_admission(tool.family, profile) -> "AUTHZ_DENY"
    [] check_tool_override(tool.raw, tool.family, profile) = "allow" -> "allow"
    [] OTHER -> check_posture(tool.posture, profile.capabilities[tool.family], default)

\* Family, then override, then ceiling; an override that allows does not lift the ceiling.
enforce(tool, profile, default) ==
  IF ~check_family_admission(tool.family, profile) THEN "AUTHZ_DENY"
  ELSE IF check_tool_override(tool.raw, tool.family, profile) = "deny" THEN "AUTHZ_DENY"
  ELSE check_posture(tool.posture, profile.capabilities[tool.family], default)

\* explain_authorization: the stage that decides, for a token already accepted.
explain_authorization(tool, profile, default) ==
  IF ~check_family_admission(tool.family, profile) THEN "family_admission"
  ELSE IF check_tool_override(tool.raw, tool.family, profile) = "deny" THEN "tool_override"
  ELSE IF check_posture(tool.posture, profile.capabilities[tool.family], default) # "allow"
         THEN "posture_ceiling" ELSE "allowed"

\* The default posture of the tool's server; none for one the configuration no longer has.
DefaultPosture(config, server) ==
  IF server \in DOMAIN config.servers THEN config.servers[server].default ELSE "none"

\* filter_tools_for_profile, over a registry: server to set of resolved tools.
filter_tools_for_profile(registry, config, profile) ==
  { t \in UNION { registry[s] : s \in DOMAIN registry } :
      enforce(t, profile, DefaultPosture(config, t.server)) = "allow" }

-----------------------------------------------------------------------------
(* Configuration and identity *)

\* What the models of ServerConfig, ProfileConfig and TelaConfig let through.
IsServer(s) ==
  /\ s.default \in Postures
  /\ \A raw \in DOMAIN s.overrides : s.overrides[raw].posture \in Postures \cup {"unset"}
IsProfile(p) ==
  /\ \A family \in DOMAIN p.capabilities : p.capabilities[family] \in Postures
  /\ \A x \in DOMAIN p.overrides : p.overrides[x] \in {"allow", "deny"}
IsConfig(c) ==
  /\ IsFiniteSet(DOMAIN c.servers) /\ \A s \in DOMAIN c.servers : IsServer(c.servers[s])
  /\ IsFiniteSet(DOMAIN c.profiles) /\ \A p \in DOMAIN c.profiles : IsProfile(c.profiles[p])

Defaults(config) == { p \in DOMAIN config.profiles : config.profiles[p].default }

\* resolve_open_mode_default_profile: the CLI's choice, else the only default; "unset" is an error.
resolve_open_mode_default_profile(config, cli) ==
  IF cli # "unset" THEN IF cli \in DOMAIN config.profiles THEN cli ELSE "unset"
  ELSE IF Cardinality(Defaults(config)) = 1 THEN CHOOSE p \in Defaults(config) : TRUE
  ELSE "unset"

\* validate_config accepts, in what a property can tell apart.
Valid(config, cli) ==
  /\ config.mode = "open" => resolve_open_mode_default_profile(config, cli) # "unset"
  /\ config.mode = "token" => config.secrets # {}
  /\ \A s \in DOMAIN config.servers :
       config.servers[s].nested => config.servers[s].prefix # ""

\* validate_token: any secret may have signed it, and it has not expired.
validate_token(token, secrets) == token.secret \in secrets /\ ~token.expired

\* Mutant: the profile of a valid token is not looked up.
BindingTrusts(config, default, secrets, token) ==
  IF config.mode = "open" THEN default
  ELSE IF validate_token(token, secrets) THEN token.profile ELSE "unset"

\* The profile handle_initialize binds, or "unset" when it rejects.  A client's own wishes are
\* ignored in open mode; in token mode the token names the profile.
Binding(config, default, secrets, token) ==
  IF config.mode = "open" THEN default
  ELSE IF validate_token(token, secrets) /\ token.profile \in DOMAIN config.profiles
         THEN token.profile ELSE "unset"

-----------------------------------------------------------------------------
(* What all of this amounts to, said once without the steps: profile may    *)
(* use the raw tool raw of server s.                                        *)

MayUse(config, profile, s, raw, offer) ==
  LET srv == config.servers[s]
      p   == config.profiles[profile]
      fam == resolve_family(raw, srv, s)
      own == classify_tool(raw, srv, offer[raw])
  IN  /\ raw \in Kept(srv, offer)
      /\ fam \in DOMAIN p.capabilities
      /\ <<fam, raw>> \in DOMAIN p.overrides => p.overrides[<<fam, raw>>] = "allow"
      /\ \E x \in Postures :
           /\ own = x \/ (own = "unset" /\ srv.default = x /\ x # "none")
           /\ PostureOrder[x] <= PostureOrder[p.capabilities[fam]]
=============================================================================
