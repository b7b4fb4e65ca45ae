SPECIFICATION SituationSpec
CONSTANTS
    Shoots = {"foo"}
    Workerless = {}
    SeedNetworks = {"seed/16"}
    Namespaces = {"istio-ingress", "istio-ingress--b"}
    Selectors = {"zone-a", "zone-b", "both"}
    ProviderConfigs <- OneConfig
    ClusterStates <- AllClusters
    Gateways <- AllGateways
    EgressLists <- AllEgress
    ServiceStates <- AllServices
    ShootInfos <- AllShootInfos
    IngressGateways <- AllIngress
    AdditionalCIDRs <- OneAdditional
    MaxAllowedCIDRs = 0
    MaxConcurrent = 1
    MaxChanges = 3
    MaxFaults = 0
    DeploymentLists <- MovingDeployments
    Addr <- MCAddr
    Covers <- MCCovers
    AnyV4 = "0.0.0.0/0"
    AnyV6 = "::/0"
    IngressDomain = "ingress.seed"
    NoRule = NoRule
    Malformed = Malformed
    None = None
    TechnicalID <- MCTechnicalID
CHECK_DEADLOCK FALSE
INVARIANTS
    UpToDateWhenSettled
    ProtectedWhereExposed
