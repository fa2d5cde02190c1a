CONSTANTS
  ka = ka
  kb = kb
  kc = kc
  kd = kd
  t1 = t1
  t2 = t2
  NoKey = NoKey
  Threads = {t1, t2}
  Keys <- MCKeys
  KeyOf <- MCKeyOf
  Homes <- MCHomes
  Rows = 3
  Slots = 4
  Serialised = TRUE
SPECIFICATION Spec
INVARIANT IndexIntact
PROPERTY AnswersExact
PROPERTY CallsReturn
