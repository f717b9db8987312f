SPECIFICATION FairSpec
CONSTANTS
  Upstreams = {"u"}
  Addresses = {"a"}
  Weights = {1, 2}
  MaxListed = 2
  Policies = {"strict", "lax"}
  Manifests <- MCManifests
  Boot <- BootManifest
  MaxEdits = 2
INVARIANTS
  RegistryServesActive
  HealthIsEarned
PROPERTIES
  HealthSurvivesReload
  EveryAddressProbed
  EditTakesEffect
