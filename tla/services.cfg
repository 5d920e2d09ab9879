\* Two vault workers and three operations on one path with two failures; two notifications
\* with two failures; three changes of two users' permissions with two failing syncs; two
\* lookups of two keys with two rotations; two calls of two tasks with a failure of
\* docker, files or controller; four changes of temperature with two of containers.
SPECIFICATION ServicesFairSpec
CONSTANTS
  None = None
  Absent = Absent
  VaultWorker = {v1, v2}
  Path = {note}
  MaxVaultOps = 3
  MaxVaultFailures = 2
  MaxNotifications = 2
  MaxNotifyFailures = 2
  User = {u1, u2}
  Permission = {api, web}
  MaxChanges = 3
  MaxSyncFailures = 2
  Kid = {k1, k2}
  Caller = {r1, r2}
  MaxRotations = 2
  RunTask = {t1, t2}
  MaxRunCalls = 2
  MaxRunFailures = 1
  Role = {runner, inference}
  MaxHeat = 4
  MaxDockerEvents = 2
INVARIANTS
  ServicesTypeOK
  NotificationIsAccountedFor
  VaultFileIsWhole
  NeverRefusedInBetween
  ExpiredKeyIsNotUsed
  CallsOfATaskAreApart
  HotStopsTheWork
PROPERTIES
  DroppedOnlyForAnother
  CopyFollowsTable
  CacheNeverGoesBack
  PublishedKeyIsKnown
CHECK_DEADLOCK FALSE
