CONSTANTS
  Specs = {a, b}
  Nothing = Nothing
SPECIFICATION Spec
INVARIANT RecoversFrom410
