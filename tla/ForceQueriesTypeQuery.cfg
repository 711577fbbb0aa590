CONSTANTS
    qa = qa
    qb = qb
    qc = qc
    text = text
    any = any
    error = error
    none = none
    main = main
    library = library
    noFile = noFile
    Query <- ThreeQueries
    Plain <- PlainTypes
    Faulty = {error}
    Any = any
    None = none
    File = {main, library}
    NoFile = noFile
    Programs <- TypeQueryOfParameter
    MaxDepth = 1
SPECIFICATION Spec
INVARIANT ForceCachePurity
CHECK_DEADLOCK FALSE
