CONSTANTS
    Releases = {"el10"}
    MaxByHand = 0
SPECIFICATION ProvisionSpec
INVARIANTS ProposedCanBeInstalled
CHECK_DEADLOCK FALSE
