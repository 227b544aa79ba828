SPECIFICATION EnrollingSpec
CONSTANTS
  Students = {s1, s2, s3}
  Classes = {"c1"}
  Sections = {1, 2}
  ClassOf <- OneClass
  NoSection = 0
  Keep = Keep
  Capacities = {1}
  Unlimited = 9
  Requests = {r1, r2}
  AdmissionTests = {FALSE}
  MaxGenerations = 0
SYMMETRY AnyStudent
INVARIANT OvershootBounded
CHECK_DEADLOCK FALSE
