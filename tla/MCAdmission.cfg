SPECIFICATION FairGardenSpec
CONSTANTS
    Shoots = {"s"}
    Workerless = {}
    SeedNetworks = {"seed/16"}
    Namespaces = {"istio-ingress", "istio-ingress--b"}
    Selectors = {"zone-a", "zone-b", "both"}
    ProviderConfigs <- EditedConfigs
    ClusterStates <- OnlyUp
    Gateways <- OneGateway
    EgressLists <- OneEgress
    ServiceStates <- OnlyVIP
    ShootInfos <- NoShootInfo
    IngressGateways <- NoIngress
    AdditionalCIDRs <- NoAdditional
    MaxAllowedCIDRs = 0
    MaxConcurrent = 1
    MaxChanges = 1
    MaxFaults = 1
    DeploymentLists <- FixedDeployments
    Addr <- MCAddr
    Covers <- MCCovers
    AnyV4 = "0.0.0.0/0"
    AnyV6 = "::/0"
    IngressDomain = "ingress.seed"
    NoRule = NoRule
    Malformed = Malformed
    None = None
    DefaultLimit = 2
    ChartLimits <- MCChartLimits
    MaxEdits = 3
CHECK_DEADLOCK FALSE
INVARIANTS
    GardenTypeOK
    AdmittedRulesDeploy
    FiltersWithinLimits
PROPERTIES
    SeedFollowsShoot
