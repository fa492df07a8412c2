SPECIFICATION Spec
CONSTANT MaxRetries = 3
INVARIANT RepeatIsNoOp
