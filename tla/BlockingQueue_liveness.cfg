\* Two producers and two consumers, two cells: a sleeper can be passed over
\* by a consumer that was never asleep, and the heap runs out.
CONSTANTS
  Producers = {p1, p2}
  Consumers = {c1, c2}
  Node = {n1, n2}
  Data = {d1}
  NULL = NULL
SPECIFICATION FairSpec
PROPERTIES HeadIsTaken PushReturns
