SPECIFICATION FairSpec
CONSTANTS
    Shoots = {"s"}
    Workerless = {}
    SeedNetworks = {"seed/16"}
    Namespaces = {"istio-ingress", "istio-ingress--b"}
    Selectors = {"zone-a", "zone-b", "both"}
    ProviderConfigs <- OneConfig
    ClusterStates <- UpOrHibernated
    Gateways <- GatewayOrNone
    EgressLists <- OneEgress
    ServiceStates <- OnlyProxy
    ShootInfos <- RepairedShootInfo
    IngressGateways <- NoIngress
    AdditionalCIDRs <- TwoAdditional
    MaxAllowedCIDRs = 0
    MaxConcurrent = 1
    MaxChanges = 3
    MaxFaults = 1
    DeploymentLists <- FixedDeployments
    Addr <- MCAddr
    Covers <- MCCovers
    AnyV4 = "0.0.0.0/0"
    AnyV6 = "::/0"
    IngressDomain = "ingress.seed"
    NoRule = NoRule
    Malformed = Malformed
    None = None
CHECK_DEADLOCK FALSE
INVARIANT
    UpToDateWhenSettled
PROPERTIES
    EventuallySettled
    EventuallyInstalled
    DeletionCompletes
