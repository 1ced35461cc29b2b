SPECIFICATION Spec
CONSTANT Setups <- Remainder
INVARIANT IndexInRange
