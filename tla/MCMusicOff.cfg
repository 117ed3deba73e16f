CONSTANT MaxJobs = 1
SPECIFICATION Spec
INVARIANT OffStopsMusic
