SPECIFICATION SharedSpec
INVARIANT FreedByLastOut
CHECK_DEADLOCK FALSE
