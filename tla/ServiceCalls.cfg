SPECIFICATION FairSpec
CONSTANTS
  w1 = w1  w2 = w2  w3 = w3  t1 = t1
  Nobody = Nobody  NoTable = NoTable
  Waiter = {w1, w2, w3}
  Absent = {w1}
  Table = {t1}
  Tick = {1, 2}
  ServerOf <- MCServerOf
  Named = {Nobody, w1}
  Zone <- MCZone
  MaxCalls = 2
  MaxOdd = 1
INVARIANTS TypeOK PassedOnce WithinReach
PROPERTIES AnsweredStays CallsEnd
