\* Two sessions opened, reset, closed, observed and worked on in any order.
CONSTANTS
    Sessions = {s1, s2}
    Values = {v1, v2}
    None = None
    Objects = {1, 2, 3, 4, 5}
    Fixture = 1
SPECIFICATION Spec
INVARIANTS NoSharedObjects
PROPERTIES ImplementsIsolation
