CONSTANTS
    f1 = f1
    f2 = f2
    a = a
    b = b
    Files = {f1, f2}
    Ids = {a, b}
    Rules <- MCRules
    Guides <- MCGuides
    RecordSeqs <- MCRecordSeqs
SYMMETRY FileSymmetry
SPECIFICATION Spec
INVARIANT TypeOK
INVARIANT ExclusivityPrecedence
INVARIANT NoDeclarationDropped
