CONSTANTS
  Inputs <- MCInputs
  Graphs <- MCGraphs
  Sizes = {3, 4, 5}
  MCPrunings = {"None", "Static", "Eager", "Online"}
  MCMatTypes = {"VertexInduced", "EdgeInduced", "EdgeInducedIEP"}
SPECIFICATION Spec
INVARIANTS TypeOK OperandsDeclared BoundedRowsSuffice BuildsProgram CountsSubgraphs SetsAsPlanned
