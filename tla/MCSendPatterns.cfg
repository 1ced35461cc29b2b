SPECIFICATION Spec
CONSTANT Setups <- Small
INVARIANTS BytesArePermutation CompletionOrder PatternIsPermutation
