SPECIFICATION Spec
CONSTANTS
    Configs <- MCConfigs
    Loads = {0, 1, 2, 5}
    WeightUnit = 10
    MaxOverloads = 4
INVARIANTS DomainsProvisioned SharesWithinCap DrrEntitlement
CHECK_DEADLOCK FALSE
