CONSTANTS
  a = a
  b = b
  Consoles <- TwoConsoles
  Fields <- Strengths
  Values = {2}
  Blank = Blank
  Defaults <- Literals
  Stored <- Row
  MaxSaves = 2
  MaxOpens = 1
  MaxEdits = 2
SPECIFICATION Spec
SYMMETRY Interchangeable
INVARIANTS
  FreshFormsAgree
PROPERTY
  UntouchedStays
