SPECIFICATION FairSpec
CONSTANTS
  Field = {logic_e, logic_f}
  LogicF = logic_f
  Value = {v0, v1}
  Default = v0
  WriteGap = 3
  Polling = TRUE
PROPERTIES
  ConfiguredWhole
  RequestCompletes
