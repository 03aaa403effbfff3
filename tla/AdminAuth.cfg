\* Two logins at a time from one address, with changes of the password.
SPECIFICATION AuthFairSpec
CONSTANTS
  None = None
  k1 = k1 k2 = k2 k3 = k3 a1 = a1 a2 = a2 t1 = t1 t2 = t2
  good = good empty = empty admin = admin alpine = alpine
  Worker = {k1, k2}
  Ip = {a1}
  SessionToken = {t1}
  Password = {good, empty, admin, alpine}
  First = good
  NoPassword = empty DefaultAdmin = admin DefaultAlpine = alpine
  MaxLoginFailures = 2
  Lockout = 1
  Duration = 1
  Changes = TRUE
INVARIANTS SessionsOfThePassword LockoutTight
PROPERTY ExpiredPurged
\* Once every token has been given out nothing is left to happen.
CHECK_DEADLOCK FALSE
