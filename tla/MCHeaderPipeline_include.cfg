CONSTANTS
    MaxFragments = 1
    Headers <- QuotedIncludeHeaders
SPECIFICATION Spec
INVARIANT TokensAsSpecified
