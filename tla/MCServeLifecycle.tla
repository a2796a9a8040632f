--------------------------- MODULE MCServeLifecycle ---------------------------
EXTENDS ServeLifecycle, TLC, Sequences

\* A prefix and a raw name, joined.
MCExposed(prefix, raw) == prefix \o raw
MCReserved == {"tela_list_profiles"}

Ann(ro, de) == [ro |-> ro, de |-> de]
MCOffer == [a |-> [edit |-> Ann("unset", "unset")],
            b |-> [edit |-> Ann("true", "true"), tela_list_profiles |-> Ann("unset", "unset")]]

A(posture) ==
  [prefix |-> "", exclude |-> {}, nested |-> FALSE, family |-> "unset", default |-> "read_write",
   overrides |-> [edit |-> [family |-> "work", posture |-> posture]]]
B(prefix, exclude, nested) ==
  [prefix |-> prefix, exclude |-> exclude, nested |-> nested, family |-> "unset", default |-> "none",
   overrides |-> [x \in {} |-> ""]]
File(srvs, mode, secs, profiles) ==
  [servers |-> srvs, mode |-> mode, secrets |-> secs, profiles |-> profiles]

\* dev may edit on a if its ceiling says so, and is denied what b offers; ops may use b, and is
\* allowed edit on a by an override, under a ceiling that may forbid it.
Dev(cap) == [capabilities |-> [work |-> cap, b |-> "destructive"],
             overrides |-> (<<"b", "edit">> :> "deny"), default |-> TRUE]
Ops(default) == [capabilities |-> [work |-> "read_write", b |-> "destructive"],
                 overrides |-> (<<"work", "edit">> :> "allow"), default |-> default]
Both(cap) == [dev |-> Dev(cap), ops |-> Ops(FALSE)]

\* strict drops a server and a profile, reclassifies edit and asks for tokens; clash and nested
\* load but cannot be served in full; broken does not load.
MCContent ==
  [base   |-> File([a |-> A("unset"), b |-> B("b_", {}, TRUE)], "open", {}, Both("read_only")),
   strict |-> File([a |-> A("destructive")], "token", {"k1"}, [ops |-> Ops(FALSE)]),
   clash  |-> File([a |-> A("unset"), b |-> B("", {"tela_list_profiles"}, FALSE)], "open", {},
                   Both("read_write")),
   nested |-> File([b |-> B("", {"edit"}, FALSE)], "open", {}, Both("read_only")),
   broken |-> File([a |-> A("unset")], "token", {}, Both("read_only"))]
MCFiles == DOMAIN MCContent
MCDeployed == {"strict", "clash", "nested"}
MCTokens == { [secret |-> "k1", expired |-> FALSE, profile |-> "ops"],
              [secret |-> "k1", expired |-> TRUE, profile |-> "ops"],
              [secret |-> "k1", expired |-> FALSE, profile |-> "gone"] }
=============================================================================
