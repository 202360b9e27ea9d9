SPECIFICATION Spec
CONSTANTS
  People = {ana, ben}
  InstallOptions <- Installs
  UninstallOptions <- Uninstalls
  RunNamespaces = {"wren-runs", "team"}
  Tags = {"dev", "v1"}
  MaxCommands = 4
  MaxConcurrent = 2
SYMMETRY Symmetry
INVARIANTS
  TypeOK
  InstalledIsServed
PROPERTIES
  InstallConverges
  TokenIsKept
  UninstallLeavesNothing
CHECK_DEADLOCK FALSE
