SPECIFICATION Spec
CONSTANTS
  Cells = 3
  LastCluster = 5
  root_cluster = 2
  a = a
  b = b
  Names = {a, b}
  Here = "here"
  Marks = {"old", "x", "y"}
  Inputs <- Texts
  Sizes = {0, 2}
SYMMETRY Either
PROPERTIES AppendsAtEnd
