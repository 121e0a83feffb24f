-------------------------- MODULE MC_HyriseConsole --------------------------
EXTENDS HyriseConsole, TLC

\* Three scripts: "a" runs "b" (a SELECT split over two lines) and then "c",
\* which opens a transaction and quits; "d" runs itself.
MCFiles ==
    ("a" :> <<"script b", "script c", "select;">>) @@
    ("b" :> <<"sel", "ect;">>) @@
    ("c" :> <<"begin;", "exit">>) @@
    ("d" :> <<"script d">>)

MCScriptCmd ==
    ("script a" :> "a") @@ ("script b" :> "b") @@ ("script c" :> "c") @@
    ("script d" :> "d") @@ ("script x" :> "x")
====
