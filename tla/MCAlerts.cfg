CONSTANTS
  condition = condition
  event = event
  composite = composite
  g1 = g1
  ErrorKey = error
  Rules = {condition, event, composite}
  Events = {event}
  Composites = {composite}
  Delayed = {condition}
  Groups = {g1}
  All = g1
  SourcesOf <- MCSourcesOf
  MaxChanges = 2
  MaxOps = 1
  MaxFaults = 1
SPECIFICATION FairSpec
INVARIANTS
  AlertsInv
PROPERTIES
  EventFiresOnce
  PassKeepsOperatorsWork
  BoardFollowsTelemetry
