CONSTANTS
    MaxFragments = 1
    Headers <- FnPtrHeaders
SPECIFICATION Spec
INVARIANT TokensAsSpecified
