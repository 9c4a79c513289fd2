SPECIFICATION ThermalSpec
CONSTANTS
  Target = 450
  NMin = 4
  NMax = 8
  NLow = 4
  NMid = 5
  Fixed = 60
  Loads <- MCLoads
  MaxChanges = 3
INVARIANTS
  ThermalTypeOK
  NoOscillation
PROPERTIES
  HeatIsObeyed
  Settles
