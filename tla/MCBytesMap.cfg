CONSTANTS
    m1 = m1
    m2 = m2
    h1 = h1
    k1 = k1
    k2 = k2
    v1 = v1
    v2 = v2
    NullBytes = NullBytes
    Slots = {m1, m2}
    Handles = {h1}
    Keys = {k1, k2}
    Vals = {v1, v2}
SPECIFICATION Spec
INVARIANT TypeOK
PROPERTY GetThroughAttachment
PROPERTY FromAttachmentSnapshot
PROPERTY AttachmentRoundTrip
SYMMETRY Symmetry
