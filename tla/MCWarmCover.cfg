SPECIFICATION Spec
CONSTANTS
    Interactions <- MCInteractions
    ClassName <- MCClassName
    AreaHeadroom <- MCAreaHeadroom
    AreaQuantum = 16
    HeightHeadroom <- MCHeightHeadroom
    HeightMinSlack = 2
    HeightMaxSlack = 6
    HeightQuantum = 4
    SlotHeadroom <- MCSlotHeadroom
    SlotQuantum = 8
    Dumps <- MCDumps
    Registries <- MCRegistries
    ClassFlags <- MCClassFlags
INVARIANTS
    TypeOK
    SelectionCovers
    NoColdProve
    PlannedCapsAdmit
    ForeignClassNeverServed
