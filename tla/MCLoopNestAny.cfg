CONSTANTS
  Inputs <- AllInputs
  Graphs <- MCGraphs
  Sizes = {5, 6}
  MCPrunings = {"Eager"}
  MCMatTypes = {"VertexInduced", "EdgeInduced", "EdgeInducedIEP"}
SPECIFICATION Spec
INVARIANT CountsAnyPattern
