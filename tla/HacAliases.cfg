SPECIFICATION Spec
CONSTANTS
    Instances <- TheInstances
    Formals <- TheFormals
    Relaxed <- TheRelaxed
    TypeOf <- TheTypeOf
    PortTypes <- ThePortTypes
    None = 0
    Internal <- TheInternal
    Statements <- TheStatements
    MaxStatements = 4
INVARIANT NoSpuriousAlias NoAliasMissed IdsPartition PortAliasesExact ErrorsJustified NoErrorMissed
CHECK_DEADLOCK FALSE
