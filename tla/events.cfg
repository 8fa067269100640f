SPECIFICATION Spec
CONSTANTS
  o1 = o1
  o2 = o2
  agg = agg
  NoAggregator = none
  Op = {o1, o2}
  Callers = {c1}
  Listeners = {l1, l2}
  Deploys = {o2}
  Aggregator <- OneAggregator
  LookBack = 1
  MaxBlock = 3
  MaxRuns = 2
INVARIANT AggregatorOfTransaction
PROPERTY ImplementsSettlement
CHECK_DEADLOCK FALSE
