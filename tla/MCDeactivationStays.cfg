\* An edit of a user that began before the deactivation.
SPECIFICATION Spec
CONSTANTS
  Ann = Ann
  ann = ann
  bob = bob
  e1 = e1
  e2 = e2
  s1 = s1
  Username = {Ann, ann, bob}
  Email = {e1, e2}
  Subject = {s1}
  NoValue = NoValue
  Client = {c1, c2}
  MaxUser = 2
  MaxRequest = 2
  AdminRow <- MCAdminRow
  InLowerCase <- MCInLowerCase
PROPERTIES
  DeactivationStays
CHECK_DEADLOCK FALSE
