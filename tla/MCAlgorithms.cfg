SPECIFICATION Spec
CONSTANTS
    Pcs = {32768, 32770}
    ArmRegs = {0, 13, 15}
    ThumbRegs = {1, 15}
    ThumbHigh = {16, 143, 191, 240}
    A64Low = {0, 993, 65535, 32}
    MaxCells = 11
    SizeLimit = 64
    MaxKey = 5
    MaxPackets = 2
    TrampolinePages = {1}
CHECK_DEADLOCK FALSE
INVARIANTS GenericIsSafe RunsAsOriginal WritesExactly PayloadSound TreeOrdered LinkerFound SymbolsLead TrampolineFits CallRestores AnswersFresh PrintsRight
