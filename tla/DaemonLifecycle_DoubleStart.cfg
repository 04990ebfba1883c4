\* daemon_double_start: two CLI invocations and two daemon processes.
CONSTANTS
    Procs = {d1, d2}
    CLIs = {u1, u2}
    None = None
SPECIFICATION Spec
INVARIANT SingleInstance
