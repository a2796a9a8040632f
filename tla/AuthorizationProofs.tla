-------------------------- MODULE AuthorizationProofs --------------------------
(***************************************************************************)
(* Proofs about the rules of Authorization, for any configuration that the *)
(* models accept, any tools and any names.                                 *)
(***************************************************************************)
EXTENDS Authorization, TLAPS

\* Whatever a server advertises, a tool is unclassified or has a posture (classify_tool).
LEMMA Classified ==
  ASSUME NEW raw, NEW s, NEW a, IsServer(s)
  PROVE  classify_tool(raw, s, a) \in Postures \cup {"unset"}
<1>1. posture_from_annotations(a) \in Postures \cup {"unset"}
  <2>1. CASE a.de = "true"
    BY <2>1 DEF posture_from_annotations, Postures
  <2>2. CASE a.de # "true" /\ a.ro = "true"
    BY <2>2 DEF posture_from_annotations, Postures
  <2>3. CASE a.de # "true" /\ a.ro = "false"
    BY <2>3 DEF posture_from_annotations, Postures
  <2>4. CASE ~(a.de = "true") /\ ~(a.de # "true" /\ a.ro = "true") /\ ~(a.de # "true" /\ a.ro = "false")
    BY <2>4 DEF posture_from_annotations
  <2>5. QED
    BY <2>1, <2>2, <2>3, <2>4
<1>2. QED
  BY <1>1 DEF classify_tool, IsServer

\* The posture that counts for a tool: its own, or its server's default.
LEMMA Effective ==
  ASSUME NEW own \in Postures \cup {"unset"}, NEW default \in Postures, NEW ceiling \in Postures
  PROVE  check_posture(own, ceiling, default) = "allow" <=>
           \E x \in Postures :
             /\ own = x \/ (own = "unset" /\ default = x /\ x # "none")
             /\ PostureOrder[x] <= PostureOrder[ceiling]
<1>1. CASE own = "unset" /\ default = "none"
  BY <1>1 DEF check_posture, Postures
<1>2. CASE own = "unset" /\ default # "none"
  BY <1>2 DEF check_posture, Postures, posture_le
<1>3. CASE own # "unset"
  BY <1>3 DEF check_posture, Postures, posture_le
<1>4. QED
  BY <1>1, <1>2, <1>3

\* A tool of server s, as resolve_tools makes it from what s advertises as raw.
ToolFor(config, s, raw, offer) ==
  [name |-> Exposed(config.servers[s].prefix, raw), raw |-> raw, server |-> s,
   family |-> resolve_family(raw, config.servers[s], s),
   posture |-> classify_tool(raw, config.servers[s], offer[raw])]

\* The stages of enforce, family, override, ceiling, together allow exactly what the profile, the
\* server and the tool's own classification grant: none of them lets through what another forbids.
THEOREM EnforceIsMayUse ==
  ASSUME NEW config, IsConfig(config), NEW s \in DOMAIN config.servers,
         NEW p \in DOMAIN config.profiles, NEW offer, NEW raw \in Kept(config.servers[s], offer)
  PROVE  enforce(ToolFor(config, s, raw, offer), config.profiles[p], DefaultPosture(config, s)) = "allow"
           <=> MayUse(config, p, s, raw, offer)
<1> DEFINE srv     == config.servers[s]
           profile == config.profiles[p]
           fam     == resolve_family(raw, srv, s)
           own     == classify_tool(raw, srv, offer[raw])
           t       == ToolFor(config, s, raw, offer)
<1>1. t.raw = raw /\ t.family = fam /\ t.posture = own /\ t.server = s
  BY DEF ToolFor
<1>2. IsServer(srv) /\ IsProfile(profile) /\ DefaultPosture(config, s) = srv.default
  BY DEF IsConfig, DefaultPosture
<1>3. own \in Postures \cup {"unset"} /\ srv.default \in Postures
  BY <1>2, Classified DEF IsServer
<1> HIDE DEF srv, profile, own, t, fam
<1>4. CASE fam \notin DOMAIN profile.capabilities
  <2>1. enforce(t, profile, srv.default) # "allow"
    BY <1>1, <1>4 DEF enforce, check_family_admission
  <2>2. ~MayUse(config, p, s, raw, offer)
    BY <1>4 DEF MayUse, srv, profile, fam
  <2>3. QED
    BY <1>2, <2>1, <2>2 DEF t, profile
<1>5. CASE fam \in DOMAIN profile.capabilities
  <2> DEFINE denied == check_tool_override(raw, fam, profile) = "deny"
  <2>1. denied <=> ~(<<fam, raw>> \in DOMAIN profile.overrides => profile.overrides[<<fam, raw>>] = "allow")
    BY <1>2 DEF check_tool_override, IsProfile
  <2>2. enforce(t, profile, srv.default) = "allow"
          <=> ~denied /\ check_posture(own, profile.capabilities[fam], srv.default) = "allow"
    BY <1>1, <1>5 DEF enforce, check_family_admission
  <2>3. profile.capabilities[fam] \in Postures
    BY <1>2, <1>5 DEF IsProfile
  <2> HIDE DEF denied
  <2>4. MayUse(config, p, s, raw, offer)
          <=> ~denied /\ check_posture(own, profile.capabilities[fam], srv.default) = "allow"
    <3>1. MayUse(config, p, s, raw, offer) <=>
            /\ ~denied
            /\ \E x \in Postures :
                 /\ own = x \/ (own = "unset" /\ srv.default = x /\ x # "none")
                 /\ PostureOrder[x] <= PostureOrder[profile.capabilities[fam]]
      BY <1>5, <2>1 DEF MayUse, srv, profile, fam, own
    <3>2. QED
      BY <1>3, <2>3, <3>1, Effective
  <2>5. QED
    BY <1>2, <2>2, <2>4 DEF t, profile
<1>6. QED
  BY <1>4, <1>5

\* The explain endpoint says "allowed" for exactly what a call is allowed (explain_authorization
\* repeats the stages of enforce).
THEOREM ExplainAgrees ==
  ASSUME NEW tool, NEW profile, NEW default
  PROVE  explain_authorization(tool, profile, default) = "allowed"
           <=> enforce(tool, profile, default) = "allow"
<1>1. CASE ~check_family_admission(tool.family, profile)
  BY <1>1 DEF explain_authorization, enforce
<1>2. CASE /\ check_family_admission(tool.family, profile)
           /\ check_tool_override(tool.raw, tool.family, profile) = "deny"
  BY <1>2 DEF explain_authorization, enforce
<1>3. CASE /\ check_family_admission(tool.family, profile)
           /\ check_tool_override(tool.raw, tool.family, profile) # "deny"
  BY <1>3 DEF explain_authorization, enforce
<1>4. QED
  BY <1>1, <1>2, <1>3

\* No override lifts a ceiling: what a profile may call, it may call without its overrides (enforce
\* goes on to check_posture after an "allow").
THEOREM OverrideNeverLifts ==
  ASSUME NEW tool, NEW profile, NEW default, enforce(tool, profile, default) = "allow",
         NEW plain, plain.capabilities = profile.capabilities, DOMAIN plain.overrides = {}
  PROVE  enforce(tool, plain, default) = "allow"
<1>1. /\ check_family_admission(tool.family, profile)
      /\ check_posture(tool.posture, profile.capabilities[tool.family], default) = "allow"
  BY DEF enforce
<1>2. check_family_admission(tool.family, plain)
  BY <1>1 DEF check_family_admission
<1>3. check_tool_override(tool.raw, tool.family, plain) = "unset"
  BY DEF check_tool_override
<1>4. QED
  BY <1>1, <1>2, <1>3 DEF enforce

\* tools/list shows a profile exactly the raw tools it may use, when the registry is what
\* resolve_tools makes of the configuration in force (filter_tools_for_profile).
THEOREM FilterIsMayUse ==
  ASSUME NEW config, IsConfig(config), NEW p \in DOMAIN config.profiles, NEW offer, NEW registry,
         \A s \in DOMAIN registry :
           /\ s \in DOMAIN config.servers
           /\ registry[s] = resolve_tools(s, config.servers[s], offer[s])
  PROVE  { <<t.server, t.raw>> : t \in filter_tools_for_profile(registry, config, config.profiles[p]) } =
           UNION { { <<s, raw>> : raw \in { r \in DOMAIN offer[s] : MayUse(config, p, s, r, offer[s]) } } :
                   s \in DOMAIN registry }
<1> DEFINE shown   == filter_tools_for_profile(registry, config, config.profiles[p])
           granted == UNION { { <<s, raw>> : raw \in { r \in DOMAIN offer[s] :
                                  MayUse(config, p, s, r, offer[s]) } } : s \in DOMAIN registry }
<1>1. ASSUME NEW t \in shown PROVE <<t.server, t.raw>> \in granted
  <2>1. PICK s \in DOMAIN registry : t \in registry[s]
    BY <1>1 DEF filter_tools_for_profile
  <2>2. PICK raw \in Kept(config.servers[s], offer[s]) : t = ToolFor(config, s, raw, offer[s])
    BY <2>1 DEF resolve_tools, ToolFor
  <2>3. t.server = s /\ t.raw = raw
    BY <2>2 DEF ToolFor
  <2>4. enforce(t, config.profiles[p], DefaultPosture(config, s)) = "allow"
    BY <1>1, <2>3 DEF filter_tools_for_profile
  <2>5. MayUse(config, p, s, raw, offer[s])
    BY <2>2, <2>4, EnforceIsMayUse
  <2>6. raw \in DOMAIN offer[s]
    BY DEF Kept
  <2>7. QED
    BY <2>3, <2>5, <2>6
<1>2. ASSUME NEW s \in DOMAIN registry, NEW raw \in DOMAIN offer[s], MayUse(config, p, s, raw, offer[s])
      PROVE  \E t \in shown : <<s, raw>> = <<t.server, t.raw>>
  <2> DEFINE t == ToolFor(config, s, raw, offer[s])
  <2>1. raw \in Kept(config.servers[s], offer[s])
    BY <1>2 DEF MayUse
  <2>2. t \in registry[s]
    BY <2>1 DEF resolve_tools, ToolFor
  <2>3. t.server = s /\ t.raw = raw
    BY DEF ToolFor
  <2>4. enforce(t, config.profiles[p], DefaultPosture(config, s)) = "allow"
    BY <1>2, <2>1, EnforceIsMayUse
  <2> HIDE DEF t
  <2>5. t \in shown
    BY <2>2, <2>3, <2>4 DEF filter_tools_for_profile
  <2>6. QED
    BY <2>3, <2>5
<1> HIDE DEF shown
<1>3. granted \subseteq { <<t.server, t.raw>> : t \in shown }
  BY <1>2
<1>4. { <<t.server, t.raw>> : t \in shown } \subseteq granted
  BY <1>1
<1>5. QED
  BY <1>3, <1>4 DEF shown
=============================================================================
