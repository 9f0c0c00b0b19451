SPECIFICATION Spec
CONSTANTS
  Tasks = {t1, t2}
  Pointers = {p1, p2, p3, p4}
  Cells = {c1, c2}
  Null = Null
PROPERTIES Ownership
