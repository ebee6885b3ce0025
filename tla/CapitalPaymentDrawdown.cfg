SPECIFICATION Spec
CONSTANTS
  s1 = s1
  r1 = r1
  r2 = r2
  v1 = v1
  x1 = x1
  x2 = x2
  l1 = l1
  sec1 = sec1
  NoRequest = NoRequest
  NoSecurity = NoSecurity
  NoReserve = NoReserve
  Subs <- OneSub
  Reds <- TwoReds
  Reserves <- OneReserve
  Lots <- OneLot
  Executions <- TwoExecutions
  Securities <- OneSecurity
  Amounts <- FundAmounts
  UnitAmounts <- UnitByUnit
  Prices <- FundPrices
  GenesisUnits = 20
  GenesisCash = 20
  MaxObservations = 2
  MaxEpoch = 2
  MaxVersion = 6
PROPERTY PaymentIsDrawdownFree
CHECK_DEADLOCK FALSE
