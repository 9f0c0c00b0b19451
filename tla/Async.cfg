SPECIFICATION Spec
CONSTANTS
  Writers = {w1}
  Slots = {s1, s2}
  Cells = {c1}
  Null = Null
  Shapes <- TheShapes
  Delays <- TheDelays
  Wrap = 2
  MaxNested = 1
INVARIANTS SlotsPartition SweepExact
PROPERTIES PromiseDelivered
