CONSTANTS
    f1 = f1
    f2 = f2
    Files = {f1, f2}
    Headers <- MCHeaders
    Rules <- MCRules
    Guides <- MCGuides
SPECIFICATION Spec
INVARIANT RoutedAsSpecified
