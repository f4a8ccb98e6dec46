CONSTANTS
    c1 = c1
    c2 = c2
    s1 = s1
    s2 = s2
    s3 = s3
    v1 = v1
    v2 = v2
    p1 = p1
    o1 = o1
    o2 = o2
    a1 = a1
    a2 = a2
    a3 = a3
    Closures = {c1, c2}
    Subs = {s1, s2, s3}
    Vars = {v1, v2}
    PcVars = {p1}
    Empty = Empty
    NullHandle = NullHandle
    NoLimit = NoLimit
    NoOptions = NoOptions
    CloseErr <- MCCloseErr
    Histories = {0, 1, 2}
    Limits = {NoLimit, 1}
    BuilderDefault <- MCBuilderDefault
    None = None
    Slots = {o1, o2}
    Values = {a1, a2, a3}
    Bytes = {0, 255}
    MaxLen = 2
    Alignments <- MCAlignments
SPECIFICATION MCSpec
INVARIANT TypeOK
INVARIANT ClosureAccounting
PROPERTY CheckMeansSubscribed
PROPERTY ImplementsClosureOwnership
INVARIANT OwnedValueAccounting
INVARIANT CopyWithinBuffer
INVARIANT AlignmentMismatchNamed
