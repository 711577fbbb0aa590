CONSTANTS
    a = a
    b = b
    b_backslash = b_backslash
    strict = strict
    loose = loose
    good = good
    bad = bad
    spoil = spoil
    start = start
    Path <- Paths
    normalize_path <- Normal
    Text = {good, bad}
    Options = {strict, loose}
    Target = {"semanticDiagnosticsSync", "quickinfo"}
    Navigation = {"quickinfo"}
    NotOpen = notOpen
    NoOutput = noOutput
    Claimed <- Claims
    Request <- Requests
    TextEdit = {spoil}
    Splice <- Spliced
    Outside = outside
    Position = {start}
    Inside <- IsInside
    Names <- Named
    OnDisk = onDisk
    Malformed = malformed
    NoFile = noFile
    Unknown = unknown
    MaxRequests = 3
    None = none
    MaxLength = 3
SPECIFICATION EditorSpec
INVARIANTS SnapshotIsCurrent CoordinatesRoundTripIfEdited ChangesAreTheClientsIfEdited ResponsesAreComplete ViewsAgree AnswersMatchView
PROPERTIES AnswersAreCurrent RequestsAreAnswered
CHECK_DEADLOCK FALSE
