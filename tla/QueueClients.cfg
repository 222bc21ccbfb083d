CONSTANTS
  Producers = {p1, p2, p3}
  Values = {v1, v2}
  NoItem = NoItem
SPECIFICATION ClientSpec
INVARIANT NoOvertakenItem
PROPERTY KickServed
