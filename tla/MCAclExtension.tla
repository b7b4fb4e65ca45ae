--------------------------- MODULE MCAclExtension ---------------------------
(* Values for the constants of AclExtension; each configuration lets other  *)
(* inputs change and keeps the rest at one value.                           *)
EXTENDS AclRefinement

MCAddr == {"home", "node", "other6"}

MCCovers ==
    [c \in {"0.0.0.0/0", "::/0", "home/32", "nodes/24", "nodes/20", "egress1/32",
            "egress2/32", "seedegress/32", "seed/16", "extra/32"} |->
        CASE c = "0.0.0.0/0" -> {"home", "node"}
          [] c = "::/0"      -> {"other6"}
          [] c = "home/32"   -> {"home"}
          [] OTHER           -> {"node"}]

\* One Deployment for each zone, one in each namespace for "both".
Home ==
    [l \in Selectors |-> CASE l = "zone-a" -> <<"istio-ingress">>
                           [] l = "zone-b" -> <<"istio-ingress--b">>
                           [] l = "both"   -> <<"istio-ingress", "istio-ingress--b">>]
FixedDeployments == [l \in Selectors |-> {Home[l]}]
\* Those of zone-a come and go, move, or are two in one namespace.
MovingDeployments ==
    [l \in Selectors |->
        IF l = "zone-a"
        THEN {Home[l], <<>>, <<"istio-ingress--b">>, <<"istio-ingress", "istio-ingress">>}
        ELSE {Home[l]}]

Valid == [action |-> "ALLOW", type |-> "remote_ip", cidrs |-> <<"home/32">>]
Other == [action |-> "DENY", type |-> "source_ip", cidrs |-> <<"home/32">>]
BadCIDR == [Valid EXCEPT !.cidrs = <<"home/32", "home/33">>]

Up(s) == [hibernated |-> FALSE, advertised |-> <<"api." \o s>>, nodes |-> {"nodes/24"}]
Moved(s) == [Up(s) EXCEPT !.advertised = <<"api2." \o s>>]
Grown(s) == [Up(s) EXCEPT !.nodes = {"nodes/20"}]
Starting(s) == [Up(s) EXCEPT !.advertised = <<>>, !.nodes = {}]
Hibernated(s) == [Up(s) EXCEPT !.hibernated = TRUE]

NoKey == [hasKey |-> FALSE, cidrs |-> <<>>]
SeedEgress == [hasKey |-> TRUE, cidrs |-> <<"seedegress/32">>]
Garbled == [hasKey |-> TRUE, cidrs |-> <<"">>]

\* Value sets: one member keeps an input fixed.
OneConfig == {Valid}
SomeConfigs == {Valid, BadCIDR, Malformed}
OnlyUp == [s \in Shoots |-> {Up(s)}]
UpOrHibernated == [s \in Shoots |-> {Up(s), Hibernated(s)}]
AllClusters == [s \in Shoots |-> {Up(s), Moved(s), Grown(s), Starting(s), Hibernated(s)}]
OneGateway == {"zone-a"}
GatewayOrNone == {"zone-a", None}
TwoSelectors == {"zone-a", "zone-b"}
TwoGateways == {"zone-a", "zone-b", None}
AllGateways == {"zone-a", "zone-b", "both", None}
OneEgress == { <<"egress1/32">> }
TwoEgress == { <<"egress1/32">>, <<"egress2/32">> }
AllEgress == { <<"egress1/32", "egress2/32">>, <<"egress2/32", "egress1/32">>,
               <<"egress2/32">>, <<"egress2/32", "egress2/32">>, None }
OnlyVIP == {"VIP"}
OnlyProxy == {"Proxy"}
AllServices == {"NotFound", "VIP", "Proxy"}
NoShootInfo == {None}
RepairedShootInfo == {SeedEgress, Garbled}
AllShootInfos == {None, NoKey, SeedEgress, Garbled}
NoIngress == {None}
OnlyIngress == {"zone-a"}
AllIngress == {"zone-a", None}
NoAdditional == {{}}
OneAdditional == {{"extra/32"}}
TwoAdditional == {{}, {"extra/32"}}
=============================================================================
