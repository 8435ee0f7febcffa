SPECIFICATION Spec
CONSTANTS
  Ids = {o1, o2, o3}
  Prices = {1, 2, 3}
  Quantities = {0, 1, 2}
  PoolCapacity = 2
  kMinPrice = 1
  kMaxPrice = 2
  kCompactMinSize = 4
  WordBits = 1
SYMMETRY Symmetry
INVARIANTS Uncrossed StoreSound ChurnBounded FillCountExact ViewsExact
PROPERTIES StorageRefines
