\* An approval and a rejection of one request, both begun while it was pending.
SPECIFICATION Spec
CONSTANTS
  Ann = Ann
  ann = ann
  bob = bob
  e1 = e1
  e2 = e2
  s1 = s1
  Username = {Ann, ann, bob}
  Email = {e1, e2}
  Subject = {s1}
  NoValue = NoValue
  Client = {c1, c2}
  MaxUser = 2
  MaxRequest = 2
  AdminRow <- MCAdminRow
  InLowerCase <- MCInLowerCase
PROPERTIES
  DecisionIsFinal
CHECK_DEADLOCK FALSE
