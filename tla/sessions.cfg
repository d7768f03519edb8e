SPECIFICATION Spec
CONSTANTS
  Tokens = {t1, t2}
  Links = {l1, l2}
  Calls = {c1, c2, c3}
  MaxPasswords = 3
  MaxSuspensions = 2
SYMMETRY Perms
INVARIANTS LinkSetsPasswordOnce OldPasswordsSessionsEnd SuspensionEndsSessions
CHECK_DEADLOCK FALSE
