\* Three slots, so that index and count wrap apart; both notifications set,
\* nested two deep.
CONSTANTS
  Capacity = 3
  Items = {a, b}
  NULL = NULL
  OnPut = TRUE
  OnGet = TRUE
  MaxNested = 2
SPECIFICATION Spec
INVARIANT TypeOK
PROPERTIES ImplementsFifo NotifiedAfterChange
