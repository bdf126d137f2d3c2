CONSTANTS
  Producers = {p1, p2}
  Consumers = {c1, c2}
  Nodes = {n1, n2, n3}
  Blank = Blank
  Nil = Nil
SPECIFICATION QSpec
SYMMETRY Symmetry
INVARIANTS
  QTypeOK
  ListIntact
  NoNilDereference
  EmptyAnswerIsTrue
  LengthAccountsForAll
PROPERTIES
  ImplementsTaskQueue
  PointersMoveForward
