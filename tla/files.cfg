\* Two agents that share a registry edit one file, look leases up and hold them,
\* one may die; a patch is applied beside them.
SPECIFICATION EditSpec
CONSTANTS
  Procs = {1, 2}
  NoProc = 0
  RegistryOf <- SharedRegistry
  Lease = 1
  CanTimeOut = TRUE
  CrashPoints = {"idle", "try", "read", "remove", "unlink", "held", "replace", "drop"}
  MaxAcquires = 3
  MaxRenewals = 1
  MaxCrashes = 1
  Workloads <- AllWorkloads
  Window = 1
  Patches <- SomePatches
INVARIANTS Exclusive PatchAllOrNothing
PROPERTIES AcquireReturns PreImageKept
CHECK_DEADLOCK FALSE
