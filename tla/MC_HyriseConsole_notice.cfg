CONSTANTS
    Files <- MCFiles
    ScriptCmd <- MCScriptCmd
    StartupArgs = {"none", "usage", "a", "x"}
    ReplLines = {"", "sel", "ect;", "begin;", "commit;", "begin;missing;", "reset", "txinfo", "exit", "script a", "script d", "script x"}
    MaxReplLines = 4
    MaxSignals = 2
    MaxOpenFiles = 2
    MaxTxns = 3
SPECIFICATION Spec
CHECK_DEADLOCK FALSE
PROPERTY CommitNoticeTrue
