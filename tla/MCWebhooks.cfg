SPECIFICATION MCSpec
CONSTANTS
  h1 = h1
  h2 = h2
  s1 = s1
  product = product
  Webhook = {h1, h2}
  Subscription = {s1}
  Gone = Gone
  Event = {tracked}
  ProductEvent = {product}
  Alert = {alert}
  NoEvent = NoEvent
  Tick = {t1, t2}
  MaxAttempts = 2
  Threshold = 1
  MaxFailures = 1
  MaxServed = 2
  MaxCrashes = 1
  Admin = {a1, a2}
  UrlOf <- MCUrlOf
  Filter <- MCFilter
  MaxChanges = 3
CHECK_DEADLOCK FALSE
INVARIANTS
  NoAttemptForgotten
  RetryFollowsFailure
  RegisteredIsListed
PROPERTY EventReachesActiveWebhooks
