CONSTANTS
  SMs = {6, 10, 20}
  Quotas = {200, 500}
  Rates = {0, 2, 4}
  Asked = {6, 7, 10, 13, 20, 24}
  RoundBys = {0, 5, 10}
  Drift = 4
  MaxRows = 4

SPECIFICATION StoreSpec

INVARIANTS
  Interpolates
