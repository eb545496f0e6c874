SPECIFICATION MCSpec
CONSTANTS
    foh = foh  mon = mon  sim = sim  c1 = c1  c2 = c2  None = None
    Clients <- TwoClients
    Ids <- AllIds
    Virtual <- SimOnly
    Configured <- RealIds
    Links <- AllLinks
    DeviceEdits <- EveryDevice
    LinkEdits <- EveryLink
    Reloads <- NoReload
    MaxAdapters = 2
INVARIANTS TypesHold ListenersMatch RegistryAgrees MappingsAgree
PROPERTIES NeverUpstream
