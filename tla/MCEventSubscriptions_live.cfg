SPECIFICATION FairSpec
CONSTANTS
  Tasks = {t1}
  MaxEvents = 3
  Principals = {p}
  Urls = {u1}
  MaxSubscriptions = 1
  MaxPending = 2
  MaxCallbacks = 1
  MaxAttempts = 2
  MaxAdmissions = 1
  MaxRegrants = 0
  MaxLapses = 1
  MaxCrashes = 1
PROPERTY DeliveriesSettle
