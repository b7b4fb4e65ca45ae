-------------------------- MODULE FilterSemantics ---------------------------
(***************************************************************************)
(* The generated filters against the meaning of a rule, over bounded       *)
(* inputs.  A behaviour picks a shoot's rule and always allowed CIDRs,      *)
(* builds the shoot's four filters, and then lets connections to the       *)
(* endpoints of that shoot or of another one arrive at them.               *)
(***************************************************************************)
EXTENDS EnvoyFilters

CONSTANTS
    Shoots,
    TechnicalID,     \* [Shoots -> parts of the technical ID]
    Rules,           \* ACL rules a user may write
    AllowedSets,     \* sets of always allowed CIDRs
    Blocks,          \* [CIDRs -> addresses of the block of that CIDR]
    None

ASSUME BlocksAssumption == Blocks \in [Cidr -> SUBSET Addr]

\* A technical ID has at least one part.
ASSUME TechnicalIDAssumption == TechnicalID \in [Shoots -> Seq(STRING) \ {<<>>}]

VARIABLES
    shoot,           \* the shoot whose filters are built
    rule, allowed,   \* what they are built from, NoRule before
    conn             \* the connection last seen, None before

vars == <<shoot, rule, allowed, conn>>

Kinds == {"api", "ingress", "vpn", "http-proxy"}
SharedKinds == Kinds \ {"api"}

\* A connection to shoot s: host of its API server, <prefix>-<short ID> below
\* the ingress domain, or the in-cluster name of one of its services.
ConnTo(s, source, direct, remote) ==
    [source_ip        |-> source,
     direct_remote_ip |-> direct,
     remote_ip        |-> remote,
     target           |-> s,
     serverName       |-> <<"gu">> \o ComputeShortShootID(TechnicalID[s]),
     header           |-> << <<"kube", "apiserver">>, TechnicalID[s], <<"svc">> >>]

Filter(s, kind, r, always) ==
    LET id == TechnicalID[s] IN
    CASE kind = "api"        -> CreateAPIConfigPatchFromRule(r, <<"api">>, always)
      [] kind = "ingress"    ->
            CreateIngressConfigPatchFromRule(r, ComputeShortShootID(id), always)
      [] kind = "vpn"        -> BuildVPNEnvoyFilterSpec(id, r, always)
      [] kind = "http-proxy" -> BuildHTTPProxyEnvoyFilterSpec(id, r, always)

Init ==
    /\ shoot \in Shoots
    /\ rule = NoRule
    /\ allowed = {}
    /\ conn = None

\* The controller builds filters only from a rule it accepts.
Build ==
    /\ rule = NoRule
    /\ rule' \in {r \in Rules : ValidateExtensionSpec(r, 0)}
    /\ allowed' \in AllowedSets
    /\ UNCHANGED <<shoot, conn>>

Connect ==
    /\ rule # NoRule
    /\ conn = None
    /\ \E s \in Shoots, source, direct, remote \in Addr :
          conn' = ConnTo(s, source, direct, remote)
    /\ UNCHANGED <<shoot, rule, allowed>>

Next == Build \/ Connect

Spec == Init /\ [][Next]_vars

-----------------------------------------------------------------------------
Passes(kind) == Admits(Filter(shoot, kind, rule, allowed), conn)

\* An ALLOW rule means the same on every path to the shoot: of the traffic
\* addressed to it, each filter admits the listed sources and the always
\* allowed ones and nothing else.  A DENY rule means it on the API path.
OwnTrafficFollowsRule ==
    conn # None /\ conn.target = shoot =>
        \A kind \in Kinds :
            (rule.action = "ALLOW" \/ (kind = "api" /\ ToLower(rule.action) = "deny"))
            => (Passes(kind) <=> RuleAdmits(rule, allowed, conn))

InBlocks(cidrs, address) == \E c \in cidrs \cap Cidr : address \in Blocks[c]

\* "Cidrs contains a list of CIDR blocks to which the ACL rule applies"
\* (envoyfilters.go:21): the rule applies to the addresses of those blocks,
\* whatever host bits they are written with, after the conversion into prefix
\* and length (envoyfilters.go:348).
RuleAppliesToItsBlocks ==
    conn # None /\ conn.target = shoot /\ rule.action = "ALLOW" =>
        \A kind \in Kinds :
            Passes(kind) <=> \/ InBlocks(ToSet(rule.cidrs), conn[ToLower(rule.type)])
                             \/ InBlocks(allowed, conn.remote_ip)

\* The filters in the shared chains leave the traffic of the other shoots
\* alone, from whatever address, when no short ID ends with another.
ForeignTrafficUntouched ==
    conn # None /\ conn.target # shoot =>
        \A kind \in SharedKinds : Passes(kind)

\* The always allowed CIDRs pass whatever the spelling of the action: "if the
\* rule has action ALLOW we need to insert the node CIDR range to not block
\* cluster-internal communication" (envoyfilters.go:327).
AlwaysAllowedForEverySpelling ==
    conn # None /\ conn.target = shoot /\ ToLower(rule.action) = "allow" =>
        \A kind \in Kinds : FromAlwaysAllowed(allowed, conn) => Passes(kind)

\* "Action defines if the rule is a DENY or an ALLOW rule" (envoyfilters.go:24)
\* on every path: a listed source of a DENY rule does not reach the shoot.
DenyRuleDenies ==
    conn # None /\ conn.target = shoot /\ ToLower(rule.action) = "deny" =>
        \A kind \in Kinds : Passes(kind) => ~ Listed(rule, conn)
=============================================================================
