SPECIFICATION FairSpec
CONSTANTS
    n1 = n1
    n2 = n2
    n3 = n3
    fido = fido
    fsx = fsx
    c1 = c1
    h1 = h1
    SystemName = SystemName
    NoInet = NoInet
    DomainOf <- Networks
    Node <- ThreeNodes
    Domain <- Domains
    Config <- Configs
    HostlessConfig <- Hostless
    Listings <- MayBeListed
    DatesOf <- Dates
INVARIANTS OutdatedNoticed 
PROPERTIES NewNodeScheduled
CHECK_DEADLOCK FALSE
