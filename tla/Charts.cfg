SPECIFICATION Spec
INVARIANTS Readable JavaAboveRedis CommonPointConfirmed PowerLaw
PROPERTIES SameColors FallsWithContention
