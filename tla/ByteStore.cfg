SPECIFICATION Spec
CONSTANTS
    shared = shared  own = own  x = x  y = y  q1 = q1  q2 = q2  q3 = q3
    Missing = Missing  Nobody = Nobody
    Paths = {shared, own}  Contents = {x, y}  Publishers = {q1, q2, q3}
    Writes <- MCWrites  MaxBoots = 2
INVARIANTS AckedDurable
PROPERTIES Implements
CHECK_DEADLOCK FALSE
