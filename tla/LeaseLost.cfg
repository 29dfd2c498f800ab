\* A holder that loses its connection, and a successor.
CONSTANTS
    Workers = {w1, w2}
    Backends = {"postgres"}
SPECIFICATION Spec
INVARIANT SoleController
