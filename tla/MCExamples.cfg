SPECIFICATION Spec
CONSTANTS
    Nothing = Nothing
INVARIANTS
    LegalPrograms
    NoneStranded
    DevicesFollow
    LoopReported
