SPECIFICATION Spec
CONSTANTS
  c1 = c1
  c2 = c2
  c3 = c3
  bad = bad
  operation = operation
  schema = schema
  h1 = h1
  h2 = h2
  h3 = h3
  h4 = h4
  Contents = {c1, c2, c3, bad}
  Bad = {bad}
  Items = {operation, schema}
  ItemsOf <- MCItemsOf
  DetailOf <- MCDetailOf
  Views <- MCViews
  Hashes = {h1, h2, h3, h4}
  Hash <- MCHash
  Procs = {p1, p2}
  TTL = 1
  MaxEntries = 2
  MaxTime = 2
  Nothing = Nothing
SYMMETRY Alike
VIEW Seen
INVARIANTS
  TypeOK
  AnswersMatch
  ViewsAgree
  ViewsAreDeclared
  EntryLastsItsTime
