SPECIFICATION Spec
CONSTANTS
  Students = {s1, s2}
  Classes = {"c1"}
  Sections = {1, 2}
  ClassOf <- OneClass
  NoSection = 0
  Keep = Keep
  Capacities = {1}
  Unlimited = 9
  Requests = {r1}
  AdmissionTests = {TRUE, FALSE}
  MaxGenerations = 1
SYMMETRY AnyStudent
INVARIANTS TypeOK SeatsKept NobodyInDeletedSection
PROPERTIES SeatsByRank OnlyLastOverflows
CHECK_DEADLOCK FALSE
