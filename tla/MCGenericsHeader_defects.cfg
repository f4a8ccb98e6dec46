CONSTANTS
    t1 = t1
    t2 = t2
    Types = {t1, t2}
    Headers <- DefectHeaders
SPECIFICATION Spec
INVARIANT GeneratedHeaderAsSpecified
