SPECIFICATION Spec
CONSTANTS
    Configs <- MCConfigs
    MaxPage = 3
    MaxBrigade = 2
    Eos = Eos
    Page = Page
    Pre = Pre
    App = App
    Stream = Stream
    Null = Null
INVARIANTS InspectedFirst WholeResponse AuditedWhenRelevant
PROPERTY PhasesInOrder
