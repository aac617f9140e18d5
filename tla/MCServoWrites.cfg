\* Clients that leave room for each other, mode switches between bus halves.
CONSTANTS
  j1 = j1  cr = cr  led = led  power = power
  on = on  off = off  low = low  high = high  none = none
  Joints <- MCJoints
  Devices <- MCDevices
  Items <- MCItems
  Values <- MCValues
  Gains <- MCGains
  Batches <- MCBatches
  TableWrites <- MCTableWrites
  FileGain = low
  None = none
  MaxGroups = 2
  MaxRestarts = 1
  Crowded = FALSE
  Overlap = FALSE
SPECIFICATION Spec
INVARIANTS WritesInForce GainsInForce
PROPERTIES GainsReachServos
