SPECIFICATION Spec
CONSTANTS
    dept = dept
    area = area
    cargo = cargo
    deptCargo = deptCargo
    Departamentos = {dept}
    Areas = {area}
    Cargos = {}
    Parent <- SmallTree
    Typologies = {t1, t2}
    Users = {u1}
    Requests = {r1, r2}
    None = None
    MaxLeases = 1
SYMMETRY Symmetry
INVARIANTS
    NoDanglingReference
CHECK_DEADLOCK FALSE
