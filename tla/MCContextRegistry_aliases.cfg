SPECIFICATION Spec
CONSTANTS
  Types = {t1, t2}
  References = {n1, n2, n3}
  Predicates = {p1}
  Values = {v1, v2}
  spelling = v1
  Spelling = v2
  Normal <- MCNormal
  Links = {l1}
  Blank = Blank
  None = None
  InitialTables <- OnlyNew
  MaxEntities = 2
  MaxRows = 2
CONSTRAINT FewRows
PROPERTY AliasesDoNotMove
