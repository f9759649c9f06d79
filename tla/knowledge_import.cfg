SPECIFICATION Spec
CONSTANTS
  Workers = {w1, w2}
  subject = subject
  vn1 = vn1
  vn2 = vn2
  char1 = char1
  char2 = char2
  Records = {subject, vn1, vn2, char1, char2}
  Split = {subject}
  Works = {subject, vn1, vn2}
  Nested <- MCNested
  Changing = {subject, char1}
  Answer <- MCAnswer
  MaxImports = 3
  MaxFailures = 1
INVARIANTS OneEntity ShownAsObserved NestedInGraph
PROPERTY SoloImportShows
CHECK_DEADLOCK FALSE
