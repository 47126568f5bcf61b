SPECIFICATION FormatsSpec
CONSTANTS
    None = None
    MaxSigned = 127
    MaxUnsigned = 255
    ShortDigits = 2
    MaxNesting = 60
    Methods <- MCMethods
    Names <- MCNames
    Parameters <- MCParameters
    Batches <- MCBatches
    Results <- MCResults
    Complaints <- MCComplaints
    Foreign <- MCForeign
    Doubles <- MCDoubles
    Stod <- MCStod
    Shown <- MCShown
    SubmitBlock <- MCSubmitBlock
    Blocks <- MCBlocks
    HashSize = 2
INVARIANTS
    CallsReachTheirMethod
    ResultsComeBack
    RepliesMatchRequests
    BatchRunsFirstCallOnly
    SubmittedBlocksArrive
CHECK_DEADLOCK FALSE
