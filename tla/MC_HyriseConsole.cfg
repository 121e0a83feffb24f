CONSTANTS
    Files <- MCFiles
    ScriptCmd <- MCScriptCmd
    StartupArgs = {"none", "usage", "a", "x"}
    ReplLines = {"", "sel", "ect;", "begin;", "commit;", "begin;missing;", "reset", "txinfo", "exit", "script a", "script d", "script x",
                 "setting scheduler on", "pintool", "wait x", "load_plugin p"}
    MaxReplLines = 4
    MaxSignals = 2
    MaxOpenFiles = 2
    MaxTxns = 3
SPECIFICATION LiveSpec
INVARIANT TypeOK
PROPERTIES NoLineAfterQuit ScriptsFinish
CHECK_DEADLOCK FALSE
