SPECIFICATION ReadingsSpec
CONSTANTS
  Nodes = {x, y}
  Fields = {battery}
  Keys = {k, l}
  k = k
  l = l
  battery = battery
  Sightings <- SomeSightings
  Times = {1, 2}
  WarmLimit = 1
  SightingCap = 3
  SparkPoints = 1
  NodeLimit = 1
  SampleCap = 2
  EventCap = 3
INVARIANTS ReadingsTypeOK RowCovers ViewComplete SeriesBacked AnswersCurrent
PROPERTY DurableKeeps
SYMMETRY Symmetry
