CONSTANTS
  None = None
  q1 = q1
  q2 = q2
  Operations <- Everything
  Callers = {"member", "officer"}
  Keys = {"k1", "k2", "k3", "k4", "k5"}
  Facts <- AllFacts
  Kind <- KindOf
  Caller <- CallerOf
  Key <- KeyOf
  FactOf <- SaysWhat
  Needs <- Withdraws
  Officers = {"officer"}
  Requests <- TwoRequests
  MaxSends = 3
  MaxFaults = 1
  MaxDay = 3
  Circles = {1, 2}
  Channels = {1}
  ReplayWindow = 1
  FutureSkew = 0
  MaxNow = 2
  MaxPresses = 1
  MaxChanges = 1
SPECIFICATION Either
SYMMETRY Symmetric
INVARIANTS
  RowsAreTyped
  AnswersStand
  WhatACommandLeaves
PROPERTIES
  RecordedBeforeTold
  KeepsItsPromise
CHECK_DEADLOCK FALSE
