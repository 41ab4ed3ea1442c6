SPECIFICATION Spec
CONSTANTS
  Packs = {p1, p2}
  red = red
  blue = blue
  Traits <- MCTraits
  Files = {f1}
  Uploads = {u1}
  Saves = {s1}
  Opens = {o1}
  Activations = {a1, a2}
  Renders = {r1}
  None = None
  MaxBegun = 5
  MaxNamed = 1
INVARIANTS PrizesPictured OneValueActive CachedPictureFits
SYMMETRY Interchangeable
CHECK_DEADLOCK FALSE
