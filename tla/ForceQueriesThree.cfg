CONSTANTS
    qa = qa
    qb = qb
    qc = qc
    text = text
    any = any
    error = error
    none = none
    main = main
    library = library
    noFile = noFile
    Query <- ThreeQueries
    Plain <- PlainTypes
    Faulty = {error}
    Any = any
    None = none
    File = {main, library}
    NoFile = noFile
    Programs <- Three
    MaxDepth = 1
SPECIFICATION FairSpec
INVARIANTS CachePurity CallsUnwind VerdictIsHonest ProgramIsWorstFile
PROPERTIES ReadyAnswersStay DemandsReturn
CHECK_DEADLOCK FALSE
