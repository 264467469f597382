\* R code shuts a driver down while its instance has connections.
SPECIFICATION Spec
CONSTANTS
  d1 = d1  d2 = d2  d3 = d3  c1 = c1  c2 = c2
  Drv = {d1, d2, d3}
  Conn = {c1, c2}
  Name <- MC_Name
  Mem = "memory"
  Target <- MC_Target
  Setting = {"rw", "ro"}
  SettingsAtConnect = FALSE
  ShutsDownInUse = TRUE
  None = None
SYMMETRY Symmetry
INVARIANT OneWriter
