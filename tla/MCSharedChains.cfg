SPECIFICATION SharedSpec
CONSTANTS
    Shoots = {"foo", "foo-bar"}
    Workerless = {}
    SeedNetworks = {"seed/16"}
    Namespaces = {"istio-ingress", "istio-ingress--b"}
    Selectors = {"zone-a", "zone-b", "both"}
    ProviderConfigs <- OneConfig
    ClusterStates <- OnlyUp
    Gateways <- TwoSelectors
    EgressLists <- OneEgress
    ServiceStates <- OnlyVIP
    ShootInfos <- NoShootInfo
    IngressGateways <- OnlyIngress
    AdditionalCIDRs <- NoAdditional
    MaxAllowedCIDRs = 0
    MaxConcurrent = 1
    MaxChanges = 3
    MaxFaults = 0
    DeploymentLists <- FixedDeployments
    Addr <- MCAddr
    Covers <- MCCovers
    AnyV4 = "0.0.0.0/0"
    AnyV6 = "::/0"
    IngressDomain = "ingress.seed"
    NoRule = NoRule
    Malformed = Malformed
    None = None
    TechnicalID <- MCTechnicalID
CHECK_DEADLOCK FALSE
INVARIANTS
    OthersUnaffected
    RuleEnforcedOnSeed
