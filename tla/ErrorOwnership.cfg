\* Two threads, three handles and two slices; one error that needs no slice.
CONSTANTS
  Ok = Ok
  Threads = {t1, t2}
  Handles = {h1, h2, h3}
  Slices = {s1, s2}
  Inlines = {e1}
SPECIFICATION Spec
INVARIANTS SlicesExact NoErrorDropped
