--------------------------- MODULE MCSeedTraffic ----------------------------
(* Two shoots on one seed that share a gateway, and one with all its inputs. *)
EXTENDS MCAclExtension, SeedTraffic

\* Shoots foo and foo-bar of project bar.
MCTechnicalID ==
    [s \in Shoots |-> IF s = "foo" THEN <<"shoot", "", "bar", "", "foo">>
                                   ELSE <<"shoot", "", "bar", "", "foo", "bar">>]

\* Where the runs that let all inputs change begin: a shoot as usual, one that
\* hibernates, one on a managed seed behind a proxy load balancer.
Situation(c, g, x, info) ==
    /\ cluster = c /\ gateway = [s \in Shoots |-> g]
    /\ deployments = Home
    /\ infra = [s \in Shoots |-> <<"egress1/32", "egress2/32">>]
    /\ service = [ns \in Namespaces |-> x] /\ shootInfo = info
    /\ ingressGateway = "zone-a"

SituationInit ==
    /\ Init
    /\ \/ Situation([s \in Shoots |-> Up(s)], "zone-a", "VIP", None)
       \/ Situation([s \in Shoots |-> Hibernated(s)], None, "VIP", None)
       \/ Situation([s \in Shoots |-> Up(s)], "zone-b", "Proxy", SeedEgress)

SituationSpec == SituationInit /\ [][Next]_vars

\* Where the shoots begin that share a gateway.
SharedInit == Init /\ gateway = [s \in Shoots |-> "zone-a"]

SharedSpec == SharedInit /\ [][Next]_vars
=============================================================================
