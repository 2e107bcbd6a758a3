SPECIFICATION FairSpec
CONSTANTS
    Sup = "supervisor"
    DirectUnit = {"confsyncer"}
    Cep = {"cep"}
    Preproc = {"preprocman"}
    Collector = {}
    Syncer = {"histsyncer1", "histsyncer2"}
    Worker = {"connector"}
    Plain = {"taskmanager"}
    Level <- MCLevel
    LastLevel = 5
    Reporter <- MCReporter
    Mortal = {"histsyncer1", "preprocman"}
    MaxCrashes = 1
    HaChanges = {"running"}
CHECK_DEADLOCK FALSE
INVARIANT StartOrder
INVARIANT CepServesSyncers
INVARIANT WorkersLast
PROPERTY ShutdownEnds
PROPERTY StartupEnds
