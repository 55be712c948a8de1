CONSTANTS
    h1 = h1
    h2 = h2
    n1 = n1
    n2 = n2
    a1 = a1
    Handlers <- MCHandlers
    Namespaces <- MCNamespaces
    DisabledNamespaces = {n2}
    Identities <- MCIdentities
    PodObjects <- MCPodObjects
    AgentImageSigs <- MCAgentImageSigs
    Mode = "label"
    MatchExact = FALSE
    MaxIds = 2
    MaxRestarts = 1

SPECIFICATION Spec

PROPERTY ReviewsAnswered
