SPECIFICATION JSpec
CONSTANTS
    Gaps <- MCGaps
    Printed <- MCPrinted
    Noise <- MCNoise
INVARIANTS JTypeOK StringsKept StringEndsRight SkipsWholeValue ClosesWhatItOpens StatsExact MinifyKeepsTokens
PROPERTY LoopsReturn
