SPECIFICATION Spec
CONSTANTS
    Index = {1, 2}
    KernelPage <- MCKernelPage
    UserPage <- MCUserPage
    LowAlias <- MCLowAlias
    Frame = {1, 2, 3, 4, 5, 6}
    Phys = {p, q}
INVARIANTS TranslatesUntilReuse ProtectionUntilReuse FreedTablesUnneeded NoStaleTranslation
CHECK_DEADLOCK FALSE
SYMMETRY PhysSymmetry
