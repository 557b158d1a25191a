SPECIFICATION Spec
CONSTANTS
  Balances = {100}
  Percents = {1}
  Prices = {9, 10, 40}
  Scale = 10000
  Relative = 1000
INVARIANT ValidInputsAreSized
