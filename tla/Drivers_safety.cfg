\* Three drivers and two connections; settings are passed to duckdb(), and drivers in use are not shut down.
SPECIFICATION Spec
CONSTANTS
  d1 = d1  d2 = d2  d3 = d3  c1 = c1  c2 = c2
  Drv = {d1, d2, d3}
  Conn = {c1, c2}
  Name <- MC_Name
  Mem = "memory"
  Target <- MC_Target
  Setting = {"rw", "ro"}
  SettingsAtConnect = FALSE
  ShutsDownInUse = FALSE
  None = None
SYMMETRY Symmetry
INVARIANT TypeOK
INVARIANT OneWriter
INVARIANT RegistryKnowsLive
INVARIANT RegistryUsable
INVARIANT SettingsApply
INVARIANT IInv
PROPERTY OnlyRefusalKeeps
PROPERTY ImplementsSharedFiles
