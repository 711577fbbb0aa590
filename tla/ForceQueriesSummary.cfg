CONSTANTS
    qa = qa
    qb = qb
    qc = qc
    text = text
    any = any
    error = error
    none = none
    main = main
    library = library
    noFile = noFile
    Query <- TwoQueries
    Plain <- PlainTypes
    Faulty = {error}
    Any = any
    None = none
    File = {main, library}
    NoFile = noFile
    Programs <- DefaultExport
    MaxDepth = 1
SPECIFICATION Spec
INVARIANT VerdictReachesAFile
CHECK_DEADLOCK FALSE
