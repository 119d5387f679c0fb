\* Two Creates of one name that both found no active version.
SPECIFICATION Spec
CONSTANTS
  System = System
  NoPreset = NoPreset
  c1 = c1
  a1 = a1
  a2 = a2
  r1 = r1
  Callers = {c1}
  Admins = {a1, a2}
  Creators = {a1, a2}
  Requests = {r1}
  CallerOf <- MCCallerOf
  MaxVersion = 3
INVARIANT
  OneActiveVersion
