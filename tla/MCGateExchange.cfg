SPECIFICATION ExchangeSpec
CONSTANTS
    Hooks = {h1}
    Proposals <- MCProposals
    Policies <- MCPolicies
    Fallback <- Open
    None = None
    Unusable = Unusable
    Verdict <- MCVerdict
    Observes <- MCObserves
    Oversized <- MCOversized
    Builds = {1, 2}
    Protocol <- MCProtocol
    Peers <- MCPeers
    MaxTurn = 1
    MaxEpoch = 2
    MaxSetup = 2
    MaxFaults = 1
INVARIANTS
    PolicyDecides
    SilenceIsCurrent
    VerdictIsReference
