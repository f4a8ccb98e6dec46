CONSTANTS
    MaxFragments = 3
    Headers <- MCHeaders
SPECIFICATION Spec
INVARIANT TypeOK
INVARIANT RoundTrip
INVARIANT EndifErrorIffUnbalancedPrefix
INVARIANT SealedRecordsBalanced
INVARIANT TokensAsSpecified
INVARIANT EmittedRoundTrip
