SPECIFICATION Spec
CONSTANTS
    None = None
    NoRule = NoRule
    Addr <- MCAddr
    Covers <- MCCovers
    AnyV4 <- MCAnyV4
    AnyV6 <- MCAnyV6
    V4Bits = 2
    MappedPrefix <- MCMappedPrefix
    Blocks <- MCBlocks
    IngressDomain = "ingress.seed"
    Shoots <- MCShoots
    TechnicalID <- MCTechnicalID
    Rules <- MappedRules
    AllowedSets <- MCAllowedSets
CHECK_DEADLOCK FALSE
INVARIANTS
    RuleAppliesToItsBlocks
