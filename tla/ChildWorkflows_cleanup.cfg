SPECIFICATION ChildrenSpec
INVARIANT RunsIndependently
CHECK_DEADLOCK FALSE
