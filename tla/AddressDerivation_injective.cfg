\* from_public_keys over two keys, key lists of up to 2 keys (repeats and
\* both orders included), 0..2 signatures, every version and hash mode.
\* No deadlock check: the behaviour is one call of a pure function.
CONSTANTS
  Keys = {k1, k2}
  MaxKeys = 2
  MaxSigs = 2
  NoKey = NoKey
SPECIFICATION Spec
INVARIANT DerivationInjective
CHECK_DEADLOCK FALSE
