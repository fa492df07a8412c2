SPECIFICATION FairSpec
CONSTANT MaxRetries = 3
INVARIANT ReturnedWritesAreDone
