CONSTANTS
  p1 = p1
  a1 = a1
  a2 = a2
  Page = {p1}
  Click = {a1, a2}
  PageOf <- OnePage
  Pins = {0, 1}
  Buttons <- TwoButtons
  Uris <- SomeUris
  NoClick = NoClick
  NoAnswer = NoAnswer
  Lost = Lost
  LongBits = 4
  IdxBits = 4
  ValueBits = 3
SPECIFICATION Spec
INVARIANTS
  TypeOK
  ShownIsTrue
  OutputsAsNamed
PROPERTIES
  ClickSetsItsPin
  ClickNotDropped
  ClickIsServed
CHECK_DEADLOCK FALSE
