SPECIFICATION FairSpec

CONSTANTS
  Order = {"order1", "order2"}
  Symbol = {"AAPL"}
  Quantity <- MCQuantity
  Price <- MCPrice
  MaxInt = 1000
  MaxGross = 7
  MaxPosition = 4
  MaxDailyLoss = 5
  InboxSize = 1
  MaxEvents = 4
  MaxCrashes = 1

INVARIANTS
  AverageRounds
  BreachAnnounced

PROPERTY
  ShutdownEnds

CHECK_DEADLOCK FALSE
