SPECIFICATION Spec
CONSTANTS
    Configs <- PartialConfigs
    MaxPage = 3
    MaxBrigade = 2
    Eos = Eos
    Page = Page
    Pre = Pre
    App = App
    Stream = Stream
    Null = Null
INVARIANT CompleteAfterPhase4
