\* All call sequences on a graph of up to four nodes, with every order in which
\* the searches may take the nodes.
CONSTANTS
  Ids = {a, b, c, d}
  MaxParallel = 1
SPECIFICATION SearchSpec
SYMMETRY Symmetry
INVARIANTS
  AddEdgeKeepsAcyclic
  ReadyWaitsForAll
  SearchesAgree
