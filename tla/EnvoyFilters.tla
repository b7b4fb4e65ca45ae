---------------------------- MODULE EnvoyFilters ----------------------------
(***************************************************************************)
(* The EnvoyFilters this extension generates for one shoot, and what Envoy *)
(* does with them: pkg/envoyfilters, the validation of the ExtensionSpec   *)
(* in pkg/controller/actuator.go and the short shoot ID of pkg/helper.     *)
(*                                                                         *)
(* Names keep only what the matchers can tell apart.  A name is the        *)
(* sequence of its parts between dashes, so "shoot--bar--foo" is           *)
(* <<"shoot", "", "bar", "", "foo">>.  A CIDR is the string the user       *)
(* wrote; Covers says which addresses Envoy matches for the prefix and     *)
(* length the code derives from it (Envoy ignores the host bits).          *)
(*                                                                         *)
(* A definition introduced as a "Variant" is a plausible bug that a run    *)
(* must notice when it takes the place of the definition after it.         *)
(***************************************************************************)
EXTENDS Naturals, SequencesExt

CONSTANTS
    Addr,            \* IP addresses
    Covers,          \* [CIDRs net.ParseCIDR accepts -> sets of addresses]
    AnyV4, AnyV6,    \* 0.0.0.0/0 and ::/0
    IngressDomain,   \* the seed's ingress domain, "" if it has none
    NoRule           \* the ExtensionSpec whose Rule is nil

Cidr == DOMAIN Covers

ASSUME CoversAssumption ==
    /\ Covers \in [Cidr -> SUBSET Addr]
    /\ {AnyV4, AnyV6} \subseteq Cidr
    /\ Covers[AnyV4] \cup Covers[AnyV6] = Addr

-----------------------------------------------------------------------------
(* Rules *)

\* The spellings of the keywords that the specs and the tests use.
Spellings ==
    [allow            |-> {"ALLOW", "Allow", "allow"},
     deny             |-> {"DENY", "Deny", "deny"},
     remote_ip        |-> {"REMOTE_IP", "remote_ip"},
     direct_remote_ip |-> {"DIRECT_REMOTE_IP", "direct_remote_ip"},
     source_ip        |-> {"SOURCE_IP", "source_ip"}]

SourceTypes == {"remote_ip", "direct_remote_ip", "source_ip"}

\* strings.ToLower on a keyword.
ToLower(word) ==
    IF \E w \in DOMAIN Spellings : word \in Spellings[w]
    THEN CHOOSE w \in DOMAIN Spellings : word \in Spellings[w]
    ELSE word

\* strings.ToUpper on an action.
ToUpper(action) ==
    IF action \in Spellings.allow THEN "ALLOW"
    ELSE IF action \in Spellings.deny THEN "DENY"
    ELSE action

\* ValidateExtensionSpec; max = 0 means no limit.
ValidateExtensionSpec(rule, max) ==
    /\ rule # NoRule
    /\ ToLower(rule.action) \in {"allow", "deny"}
    /\ ToLower(rule.type) \in SourceTypes
    /\ rule.cidrs # <<>>
    /\ max > 0 => Len(rule.cidrs) <= max
    /\ ToSet(rule.cidrs) \subseteq Cidr

-----------------------------------------------------------------------------
(* The filters *)

\* "shoot-" or "shoot--" is cut off the technical ID.
ComputeShortShootID(technicalID) ==
    CASE Len(technicalID) = 1 \/ technicalID[1] # "shoot" -> technicalID
      [] Len(technicalID) = 2 /\ technicalID[1] = "shoot" -> Tail(technicalID)
      [] Len(technicalID) > 2 /\ technicalID[1] = "shoot" ->
            SubSeq(technicalID, IF technicalID[2] = "" THEN 3 ELSE 2, Len(technicalID))

Principal(type, cidr) == [type |-> type, cidr |-> cidr]

\* Variant: the always allowed CIDRs get the type of the rule.
PrincipalsOfOneType(rule, alwaysAllowed) ==
    {Principal(ToLower(rule.type), c) :
        c \in (ToSet(rule.cidrs) \cup IF rule.action = "ALLOW" THEN alwaysAllowed ELSE {})
               \cap Cidr}

\* Variant: the always allowed CIDRs are left out.
PrincipalsOfRuleOnly(rule, alwaysAllowed) ==
    {Principal(ToLower(rule.type), c) : c \in ToSet(rule.cidrs) \cap Cidr}

\* ruleCIDRsToPrincipal; CIDRs that do not parse are skipped.
RuleCIDRsToPrincipal(rule, alwaysAllowed) ==
    {Principal(ToLower(rule.type), c) : c \in ToSet(rule.cidrs) \cap Cidr}
    \cup IF rule.action = "ALLOW"
         THEN {Principal("remote_ip", c) : c \in alwaysAllowed \cap Cidr}
         ELSE {}

\* Variant: IPv6 is forgotten.
EveryoneV4 == {Principal("remote_ip", AnyV4)}

\* The principals of the policies for the traffic of the other shoots.
Everyone == {Principal("remote_ip", AnyV4), Principal("remote_ip", AnyV6)}

\* A policy applies when its permission matches (or, if negated, does not)
\* and one of its principals does.
Policy(permission, negated, principals) ==
    [permission |-> permission, negated |-> negated, principals |-> principals]

\* Variant: without the inverse policy.
OwnPolicyOnly(permission, principals) == {Policy(permission, FALSE, principals)}

\* The pair "<shoot>-inverse" and "<shoot>" of the shared filter chains.
ShootPolicies(permission, principals) ==
    {Policy(permission, TRUE, Everyone), Policy(permission, FALSE, principals)}

CreateAPIConfigPatchFromRule(rule, hosts, alwaysAllowed) ==
    [chain    |-> <<"sni", hosts[1]>>,
     action   |-> ToUpper(rule.action),
     policies |-> {Policy([on |-> "any"], FALSE,
                          RuleCIDRsToPrincipal(rule, alwaysAllowed))}]

CreateIngressConfigPatchFromRule(rule, shootID, alwaysAllowed) ==
    [chain    |-> <<"sni", "*", IngressDomain>>,
     action   |-> "ALLOW",
     policies |-> ShootPolicies(
                      [on |-> "requested_server_name", suffix |-> shootID],
                      RuleCIDRsToPrincipal(rule, alwaysAllowed))]

BuildProxyEnvoyFilterSpec(port, technicalID, rule, alwaysAllowed) ==
    [chain    |-> <<"listener", port>>,
     action   |-> "ALLOW",
     policies |-> ShootPolicies(
                      [on |-> "header", contains |-> technicalID],
                      RuleCIDRsToPrincipal(rule, alwaysAllowed))]

BuildVPNEnvoyFilterSpec(technicalID, rule, alwaysAllowed) ==
    BuildProxyEnvoyFilterSpec("8132", technicalID, rule, alwaysAllowed)

BuildHTTPProxyEnvoyFilterSpec(technicalID, rule, alwaysAllowed) ==
    BuildProxyEnvoyFilterSpec("8443", technicalID, rule, alwaysAllowed)

-----------------------------------------------------------------------------
(* Envoy's RBAC filter (external).  A connection has the three addresses   *)
(* a rule can name, the requested server name below the ingress domain as  *)
(* parts between dashes, and the destination header as labels between dots.*)
(* The suffix a filter looks for starts with a dash, so at least one part   *)
(* precedes the shoot ID: a strict suffix.                                  *)

\* The matched string starts and ends with a dot: an inner label, whole.
HasInnerLabel(labels, label) ==
    \E i \in 1 .. Len(labels) : 1 < i /\ i < Len(labels) /\ labels[i] = label

PermissionMatches(permission, conn) ==
    \/ permission.on = "any"
    \/ /\ permission.on = "requested_server_name"
       /\ IsStrictSuffix(permission.suffix, conn.serverName)
    \/ /\ permission.on = "header"
       /\ HasInnerLabel(conn.header, permission.contains)

PolicyMatches(policy, conn) ==
    /\ PermissionMatches(policy.permission, conn) # policy.negated
    /\ \E p \in policy.principals : conn[p.type] \in Covers[p.cidr]

\* An ALLOW filter admits what some policy matches, a DENY filter the rest.
Admits(filter, conn) ==
    (filter.action = "ALLOW") = (\E p \in filter.policies : PolicyMatches(p, conn))

-----------------------------------------------------------------------------
(* What a rule means, as a reference for the filters *)

Listed(rule, conn) ==
    \E c \in ToSet(rule.cidrs) \cap Cidr : conn[ToLower(rule.type)] \in Covers[c]

FromAlwaysAllowed(alwaysAllowed, conn) ==
    \E c \in alwaysAllowed \cap Cidr : conn.remote_ip \in Covers[c]

\* ALLOW: the listed sources and the always allowed ones; DENY: all others.
RuleAdmits(rule, alwaysAllowed, conn) ==
    IF ToLower(rule.action) = "allow"
    THEN Listed(rule, conn) \/ FromAlwaysAllowed(alwaysAllowed, conn)
    ELSE ~ Listed(rule, conn)
=============================================================================
