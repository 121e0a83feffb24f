--------------------------- MODULE HyriseConsole ---------------------------
(***************************************************************************)
(* The Hyrise SQL console (src/hyrise/src/bin/console/console.cpp): main's *)
(* startup and REPL loop, Console::read, _eval, _eval_command, _eval_sql,   *)
(* _exec_script (scripts may run scripts), the SIGINT handler that jumps   *)
(* back into main with siglongjmp, and the explicit transaction context    *)
(* the console keeps between statements.                                    *)
(*                                                                         *)
(* A line of input is a string of a small vocabulary.  The SQL parser and  *)
(* the pipeline belong to the Hyrise library, which is not part of this    *)
(* repository: `Parsed` gives the statements a text parses into, and a     *)
(* pipeline runs them one at a time against the engine's set of open       *)
(* transactions.  Printing, history and logging are left out; _verbose,   *)
(* which decides whether a line is echoed, is kept.                        *)
(***************************************************************************)
EXTENDS Naturals, Sequences, SequencesExt

CONSTANTS
    Files,          \* script file name -> its lines (the files that exist)
    ScriptCmd,      \* a "script <file>" input line -> the file it names
    StartupArgs,    \* argv: "none" (argc 1), "usage" (argc > 2) or a file
    ReplLines,      \* the lines a user may type
    MaxReplLines,   \* lines readline returns before end of input
    MaxSignals,     \* SIGINTs delivered in one run
    MaxOpenFiles,   \* script streams that can be open at once (fd limit)
    MaxTxns         \* transaction ids the engine can hand out

VARIABLES
    pc,         \* main: "start", "startup", "repl", "exit", "done", "crash"
    jmpSet,     \* sigsetjmp(jmp_env) has run
    frames,     \* running _exec_script calls, innermost last
    multiline,  \* _multiline_input, as the lines it holds
    verbose,    \* _verbose
    ctx,        \* _explicitly_created_transaction_context (0 = nullptr)
    open,       \* the engine's open transactions
    pipe,       \* the SQL pipeline being executed by _eval_sql
    replLines,  \* lines read by readline so far
    signals,    \* SIGINTs delivered so far
    stopping    \* a Quit, or an Error of the startup script, is on its way out

vars == <<pc, jmpSet, frames, multiline, verbose, ctx, open, pipe,
          replLines, signals, stopping>>

NoTxn == 0
Codes == {"Ok", "Error", "Quit", "Multiline"}
NoPipe == [on |-> FALSE, stmts |-> <<>>, pctx |-> NoTxn, n |-> 0, clear |-> FALSE]

(***************************************************************************)
(* The SQL vocabulary.  A line ending in ';' holds whole statements; "sel" *)
(* and "ect;" are the two halves of one SELECT split over two lines.       *)
(* "missing" is a statement that parses but fails when executed (a table   *)
(* that does not exist).                                                    *)
(***************************************************************************)
StmtsOf == [l \in {"begin;", "commit;", "select;", "missing;", "begin;missing;"} |->
              CASE l = "begin;" -> <<"begin">>
                [] l = "commit;" -> <<"commit">>
                [] l = "select;" -> <<"select">>
                [] l = "missing;" -> <<"missing">>
                [] OTHER -> <<"begin", "missing">>]

EndsWithSemicolon(l) == l \in DOMAIN StmtsOf \cup {"ect;"}

\* hsql::SQLParser::parse on the lines joined by '\n': {statements}, or {}
\* when the text is not valid SQL.  Blank lines are white space.
RECURSIVE ParseWords(_)
ParseWords(w) ==
    IF w = <<>> THEN {<<>>}
    ELSE IF Head(w) \in DOMAIN StmtsOf
         THEN {StmtsOf[Head(w)] \o r : r \in ParseWords(Tail(w))}
    ELSE IF Head(w) = "sel" /\ Len(w) > 1 /\ w[2] = "ect;"
         THEN {<<"select">> \o r : r \in ParseWords(Tail(Tail(w)))}
    ELSE {}

Parsed(text) == ParseWords(SelectSeq(text, LAMBDA l : l # ""))

\* The lines of the commands that set up the engine or the process (see
\* ConfigCmd): the command and the shape of its argument.
ConfigLines ==
    ("setting scheduler on" :> [cmd |-> "setting", arg |-> "on"]) @@
    ("setting cache" :> [cmd |-> "setting", arg |-> "other"]) @@
    ("pintool on" :> [cmd |-> "pintool", arg |-> "on"]) @@
    ("pintool" :> [cmd |-> "pintool", arg |-> "none"]) @@
    ("wait 1" :> [cmd |-> "wait", arg |-> "num"]) @@
    ("wait x" :> [cmd |-> "wait", arg |-> "nan"]) @@
    ("cores x" :> [cmd |-> "cores", arg |-> "nan"]) @@
    ("load_plugin p" :> [cmd |-> "load_plugin", arg |-> "other"]) @@
    ("unload_plugin p" :> [cmd |-> "unload_plugin", arg |-> "other"]) @@
    ("python s" :> [cmd |-> "python", arg |-> "other"])

\* The registered command a line starts with (Console::Console registers
\* them; _eval looks up the first word).
CommandOf(l) ==
    IF l \in {"exit", "quit", "reset", "txinfo"} THEN l
    ELSE IF l \in DOMAIN ScriptCmd THEN "script"
    ELSE IF l \in DOMAIN ConfigLines THEN "config"
    ELSE "none"

(***************************************************************************)
(* Returning a code to the caller of _eval: the loop of the innermost      *)
(* _exec_script (fr is the frame stack with the line already taken), or    *)
(* main's REPL loop, which leaves the loop on Quit.                        *)
(***************************************************************************)
Return(fr, code) ==
    /\ frames' = IF fr = <<>> THEN fr ELSE [fr EXCEPT ![Len(fr)].code = code]
    /\ pc' = IF fr = <<>> /\ code = "Quit" THEN "exit" ELSE pc
    /\ stopping' = (stopping \/ code = "Quit" \/ (code = "Error" /\ pc = "startup"))

\* A statement run in a context the engine has already finished trips the
\* engine's transaction-phase assertion, which ends the process.
Stale(c) == c # NoTxn /\ c \notin open

\* Console::_eval_sql up to the pipeline's execution, with
\* _initialize_pipeline: a text that does not parse is an Error; otherwise
\* the pipeline takes the console's context and starts running.
EvalSql(text, clear, fr) ==
    \/ /\ Parsed(text) = {}
       /\ multiline' = IF clear THEN <<>> ELSE multiline
       /\ Return(fr, "Error")
       /\ UNCHANGED <<pipe, ctx, open, verbose, jmpSet>>
    \/ /\ Parsed(text) # {}
       /\ Stale(ctx)
       /\ pc' = "crash"
       /\ UNCHANGED <<frames, multiline, pipe, ctx, open, verbose, jmpSet, stopping>>
    \/ /\ Parsed(text) # {}
       /\ ~Stale(ctx)
       /\ \E s \in Parsed(text) :
            pipe' = [on |-> TRUE, stmts |-> s, pctx |-> ctx, n |-> Len(s), clear |-> clear]
       /\ frames' = fr
       /\ UNCHANGED <<pc, multiline, ctx, open, verbose, jmpSet, stopping>>

\* Console::_rollback: roll back the console's transaction, if any.
Rollback == open \ {ctx}

\* Mutant: no descriptor limit, so a script that runs itself never fails.
ExecScriptNoLimit(f, fr) ==
    \/ /\ f \in DOMAIN Files
       /\ frames' = Append(fr, [file |-> f, pos |-> 1, code |-> "Ok"])
       /\ verbose' = TRUE
       /\ UNCHANGED <<pc, stopping, multiline, pipe, ctx, open, jmpSet>>
    \/ /\ f \notin DOMAIN Files
       /\ Return(fr, "Error")
       /\ UNCHANGED <<verbose, multiline, pipe, ctx, open, jmpSet>>

\* Console::_exec_script: open the file (an Error if it does not exist or
\* no descriptor is left), set _verbose and run its lines (ScriptLine).
ExecScript(f, fr) ==
    \/ /\ f \in DOMAIN Files /\ Len(fr) < MaxOpenFiles
       /\ frames' = Append(fr, [file |-> f, pos |-> 1, code |-> "Ok"])
       /\ verbose' = TRUE
       /\ UNCHANGED <<pc, stopping, multiline, pipe, ctx, open, jmpSet>>
    \/ /\ ~(f \in DOMAIN Files /\ Len(fr) < MaxOpenFiles)
       /\ Return(fr, "Error")
       /\ UNCHANGED <<verbose, multiline, pipe, ctx, open, jmpSet>>

\* Console::_exit.
ExitCmd(fr) ==
    /\ Return(fr, "Quit")
    /\ UNCHANGED <<verbose, multiline, pipe, ctx, open, jmpSet>>

\* Console::_print_transaction_info: an Error in auto-commit mode.
PrintTransactionInfo(fr) ==
    /\ Return(fr, IF ctx = NoTxn THEN "Error" ELSE "Ok")
    /\ UNCHANGED <<verbose, multiline, pipe, ctx, open, jmpSet>>

\* Console::_reset: _rollback, then Hyrise::reset drops the whole engine
\* state.  The context pointer itself is left as it is.
ResetCmd(fr) ==
    \/ /\ Stale(ctx)
       /\ pc' = "crash"
       /\ UNCHANGED <<frames, multiline, pipe, ctx, open, verbose, jmpSet, stopping>>
    \/ /\ ~Stale(ctx)
       /\ open' = {}   \* Rollback, then the engine is rebuilt empty
       /\ Return(fr, "Ok")
       /\ UNCHANGED <<verbose, multiline, pipe, ctx, jmpSet>>

(***************************************************************************)
(* The commands that set up the engine or the process.  What they set (the *)
(* scheduler, the plugins, the core count, the tracing flags, which        *)
(* nothing in this repository reads) is left out; what remains is the code *)
(* each returns to _eval, or the end of the process when an exception      *)
(* escapes: nothing between the command and main catches one.  A line is  *)
(* the command and the shape of its argument: "none" (no argument), "on", *)
(* "off", "num", "nan" (not a number) or "other".                          *)
(***************************************************************************)
\* _change_runtime_setting: "scheduler on" or "scheduler off" swaps the
\* scheduler; any other value or property is reported and returns 1.
SettingCmd(a) == IF a \in {"on", "off"} THEN {"Ok"} ELSE {"Error"}

\* _pintool, _iotop, _iostat, _vtune, _coreutil: one argument, "on" or
\* "off", sets the flag; anything else prints the usage.
FlagCmd(a) == IF a \in {"on", "off"} THEN {"Ok"} ELSE {"Error"}

\* _wait, _cores: one argument, which boost::lexical_cast converts; a value
\* that is not a number throws bad_lexical_cast.
WaitCmd(a) ==
    IF a = "none" THEN {"Error"} ELSE IF a = "nan" THEN {"crash"} ELSE {"Ok"}

\* _load_plugin, _unload_plugin: one argument, passed to the plugin manager
\* (Hyrise library code, not in this repository), which loads or stops the
\* plugin or fails an assertion, an exception; unloading also clears the
\* plan caches.
PluginCmd(a) == IF a = "none" THEN {"Error"} ELSE {"Ok", "crash"}

\* _python: one argument; the result of system() is only printed.
PythonCmd(a) == IF a = "none" THEN {"Error"} ELSE {"Ok"}

ConfigOutcomes(c) ==
    CASE c.cmd = "setting" -> SettingCmd(c.arg)
      [] c.cmd \in {"wait", "cores"} -> WaitCmd(c.arg)
      [] c.cmd \in {"load_plugin", "unload_plugin"} -> PluginCmd(c.arg)
      [] c.cmd = "python" -> PythonCmd(c.arg)
      [] OTHER -> FlagCmd(c.arg)

\* One of these commands: its code goes back to _eval, or an escaping
\* exception ends the process through std::terminate.
ConfigCmd(l, fr) ==
    \E o \in ConfigOutcomes(ConfigLines[l]) :
        \/ /\ o = "crash"
           /\ pc' = "crash"
           /\ UNCHANGED <<frames, multiline, pipe, ctx, open, verbose, jmpSet, stopping>>
        \/ /\ o # "crash"
           /\ Return(fr, o)
           /\ UNCHANGED <<verbose, multiline, pipe, ctx, open, jmpSet>>

\* Console::_eval_command: call the command registered for the first word.
EvalCommand(l, fr) ==
    CASE CommandOf(l) \in {"exit", "quit"} -> ExitCmd(fr)
      [] CommandOf(l) = "txinfo" -> PrintTransactionInfo(fr)
      [] CommandOf(l) = "reset" -> ResetCmd(fr)
      [] CommandOf(l) = "script" -> ExecScript(ScriptCmd[l], fr)
      [] CommandOf(l) = "config" -> ConfigCmd(l, fr)

(***************************************************************************)
(* Console::_eval.  Empty input outside a multiline statement does nothing. *)
(* Otherwise the line is echoed (to the console only when _verbose), then: *)
(* a command or a valid statement outside multiline mode runs at once; a   *)
(* line ending in ';' runs the buffered text with it; anything else is     *)
(* buffered.  `input.back()` on an empty line inside a multiline statement *)
(* reads before the string: a build with assertions aborts, otherwise the  *)
(* byte read is not ';' and the empty line is buffered.                    *)
(***************************************************************************)
Eval(l, fr) ==
    \/ /\ l = "" /\ multiline = <<>>
       /\ Return(fr, "Ok")
       /\ UNCHANGED <<verbose, multiline, pipe, ctx, open, jmpSet>>
    \/ /\ ~(l = "" /\ multiline = <<>>)
       /\ \/ /\ multiline = <<>> /\ CommandOf(l) # "none"
             /\ EvalCommand(l, fr)
          \/ /\ multiline = <<>> /\ CommandOf(l) = "none" /\ Parsed(<<l>>) # {}
             /\ EvalSql(<<l>>, FALSE, fr)
          \/ /\ ~(multiline = <<>> /\ (CommandOf(l) # "none" \/ Parsed(<<l>>) # {}))
             /\ \/ /\ l = ""
                   /\ pc' = "crash"
                   /\ UNCHANGED <<frames, multiline, pipe, ctx, open, verbose, jmpSet, stopping>>
                \/ /\ EndsWithSemicolon(l)
                   /\ EvalSql(multiline \o <<l>>, TRUE, fr)
                \/ /\ ~EndsWithSemicolon(l)
                   /\ multiline' = Append(multiline, l)
                   /\ Return(fr, "Multiline")
                   /\ UNCHANGED <<verbose, pipe, ctx, open, jmpSet>>

(***************************************************************************)
(* The pipeline (SQLPipeline::get_result_tables, called by _eval_sql)     *)
(* runs one statement per step, so that a SIGINT can fall between two.     *)
(* BEGIN inside a transaction, and COMMIT outside one, throw               *)
(* InvalidInputException, as "missing" does.                               *)
(***************************************************************************)
FreeTxn == CHOOSE t \in 1..MaxTxns : t \notin open \cup {ctx, pipe.pctx}

StmtFails(s) ==
    \/ s = "missing"
    \/ s = "begin" /\ pipe.pctx # NoTxn
    \/ s = "commit" /\ pipe.pctx = NoTxn

\* The caller's side of the end of _eval_sql: _eval clears the multiline
\* buffer after _eval_sql returns when it ran the buffered text.
EndSql(code) ==
    /\ pipe' = NoPipe
    /\ multiline' = IF pipe.clear THEN <<>> ELSE multiline
    /\ Return(frames, code)

PipelineStep ==
    /\ pipe.on /\ pipe.stmts # <<>> /\ ~StmtFails(Head(pipe.stmts))
    /\ LET s == Head(pipe.stmts) IN
         /\ pipe' = [pipe EXCEPT
                       !.stmts = Tail(@),
                       !.pctx = CASE s = "begin" -> FreeTxn
                                  [] s = "commit" -> NoTxn
                                  [] OTHER -> @]
         /\ open' = CASE s = "begin" -> open \cup {FreeTxn}
                      [] s = "commit" -> open \ {pipe.pctx}
                      [] OTHER -> open
    /\ UNCHANGED <<pc, jmpSet, frames, multiline, verbose, ctx, replLines,
                   signals, stopping>>

\* The InvalidInputException handler of _eval_sql: the rest of the
\* pipeline is not run, and the console takes over the pipeline's context.
PipelineFail ==
    /\ pipe.on /\ pipe.stmts # <<>> /\ StmtFails(Head(pipe.stmts))
    /\ ctx' = pipe.pctx
    /\ EndSql("Error")
    /\ UNCHANGED <<jmpSet, verbose, open, replLines, signals>>

\* The end of a successful _eval_sql: store the pipeline's context.
PipelineFinish ==
    /\ pipe.on /\ pipe.stmts = <<>>
    /\ ctx' = pipe.pctx
    /\ EndSql("Ok")
    /\ UNCHANGED <<jmpSet, verbose, open, replLines, signals>>

(***************************************************************************)
(* _exec_script's loop: take the next line while the last code was neither *)
(* Error nor Quit; at the end of the file or on such a code, clear         *)
(* _verbose and return the last code to the caller.                         *)
(***************************************************************************)
Top == Last(frames)

\* Mutant: the loop continues only while the last code is Ok.
ScriptLineWhileOk ==
    /\ pc \in {"startup", "repl"} /\ frames # <<>> /\ ~pipe.on
    /\ Top.pos <= Len(Files[Top.file]) /\ Top.code = "Ok"
    /\ Eval(Files[Top.file][Top.pos], [frames EXCEPT ![Len(frames)].pos = @ + 1])
    /\ UNCHANGED <<replLines, signals>>

ScriptLine ==
    /\ pc \in {"startup", "repl"} /\ frames # <<>> /\ ~pipe.on
    /\ Top.pos <= Len(Files[Top.file]) /\ Top.code \notin {"Error", "Quit"}
    /\ Eval(Files[Top.file][Top.pos], [frames EXCEPT ![Len(frames)].pos = @ + 1])
    /\ UNCHANGED <<replLines, signals>>

\* Mutant: _exec_script returns Ok whatever its last line returned.
ScriptEndReturnsOk ==
    /\ pc \in {"startup", "repl"} /\ frames # <<>> /\ ~pipe.on
    /\ Top.pos > Len(Files[Top.file]) \/ Top.code \in {"Error", "Quit"}
    /\ verbose' = FALSE
    /\ IF Len(frames) = 1 /\ pc = "startup"
         THEN /\ frames' = <<>>
              /\ jmpSet' = TRUE
              /\ pc' = "repl"
              /\ UNCHANGED stopping
         ELSE /\ Return(Front(frames), "Ok")
              /\ UNCHANGED jmpSet
    /\ UNCHANGED <<multiline, ctx, open, pipe, replLines, signals>>

ScriptEnd ==
    /\ pc \in {"startup", "repl"} /\ frames # <<>> /\ ~pipe.on
    /\ Top.pos > Len(Files[Top.file]) \/ Top.code \in {"Error", "Quit"}
    /\ verbose' = FALSE
    /\ IF Len(frames) = 1 /\ pc = "startup"
         \* main: execute_script returned; an Error becomes Quit, then
         \* sigsetjmp, and the REPL loop runs unless the code is Quit.
         THEN LET rc == IF Top.code = "Error" THEN "Quit" ELSE Top.code IN
              /\ frames' = <<>>
              /\ jmpSet' = TRUE
              /\ pc' = IF rc = "Quit" THEN "exit" ELSE "repl"
              /\ stopping' = (stopping \/ rc = "Quit")
         ELSE /\ Return(Front(frames), Top.code)
              /\ UNCHANGED jmpSet
    /\ UNCHANGED <<multiline, ctx, open, pipe, replLines, signals>>

(***************************************************************************)
(* main up to the REPL loop: argc > 2 prints the usage and quits; argc 2   *)
(* runs the startup script (ScriptLine, ScriptEnd); argc 1 goes straight   *)
(* to sigsetjmp and the loop.  SIGINT is bound before all of this.          *)
(***************************************************************************)
MainStart(arg) ==
    /\ pc = "start"
    /\ \/ /\ arg \in DOMAIN Files
          /\ frames' = <<[file |-> arg, pos |-> 1, code |-> "Ok"]>>
          /\ verbose' = TRUE
          /\ pc' = "startup"
          /\ UNCHANGED <<jmpSet, stopping>>
       \/ /\ arg \notin DOMAIN Files
          /\ jmpSet' = TRUE
          /\ pc' = IF arg = "none" THEN "repl" ELSE "exit"
          /\ stopping' = (arg # "none")
          /\ UNCHANGED <<frames, verbose>>
    /\ UNCHANGED <<multiline, ctx, open, pipe, replLines, signals>>

\* Console::read: readline returns NULL at the end of input (Quit), or a
\* line, which _eval evaluates.
ReplRead ==
    /\ pc = "repl" /\ frames = <<>> /\ ~pipe.on
    /\ \/ /\ Return(<<>>, "Quit")
          /\ UNCHANGED <<jmpSet, multiline, verbose, ctx, open, pipe, replLines>>
       \/ /\ replLines < MaxReplLines
          /\ replLines' = replLines + 1
          /\ \E l \in ReplLines : Eval(l, <<>>)
    /\ UNCHANGED signals

\* Console::handle_signal: reset the multiline buffer, the prompt and
\* _verbose, and siglongjmp to main's sigsetjmp, abandoning the scripts
\* and the pipeline that were running.  Before sigsetjmp has run, jmp_env
\* is the zero-filled global and the jump does not return to main.
HandleSignal ==
    /\ pc \in {"start", "startup", "repl"} /\ signals < MaxSignals
    /\ signals' = signals + 1
    /\ IF jmpSet
         THEN /\ pc' = "repl"
              /\ multiline' = <<>>
              /\ verbose' = FALSE
              /\ frames' = <<>>
              /\ pipe' = NoPipe
              /\ stopping' = FALSE
         ELSE /\ pc' = "crash"
              /\ UNCHANGED <<multiline, verbose, frames, pipe, stopping>>
    /\ UNCHANGED <<jmpSet, ctx, open, replLines>>

\* main returns; the static Console's destructor rolls back its transaction.
Exit ==
    /\ pc = "exit"
    /\ pc' = IF Stale(ctx) THEN "crash" ELSE "done"
    /\ open' = Rollback
    /\ UNCHANGED <<jmpSet, frames, multiline, verbose, ctx, pipe, replLines,
                   signals, stopping>>

Init ==
    /\ pc = "start"
    /\ jmpSet = FALSE
    /\ frames = <<>>
    /\ multiline = <<>>
    /\ verbose = FALSE
    /\ ctx = NoTxn
    /\ open = {}
    /\ pipe = NoPipe
    /\ replLines = 0
    /\ signals = 0
    /\ stopping = FALSE

Next ==
    \/ \E a \in StartupArgs : MainStart(a)
    \/ ScriptLine
    \/ ScriptEnd
    \/ ReplRead
    \/ PipelineStep
    \/ PipelineFail
    \/ PipelineFinish
    \/ HandleSignal
    \/ Exit

Spec == Init /\ [][Next]_vars

\* The script loop and the pipeline run without waiting for the user.
Fairness == WF_vars(ScriptLine \/ ScriptEnd \/ PipelineStep \/ PipelineFail \/ PipelineFinish)

LiveSpec == Spec /\ Fairness

(***************************************************************************)
(* Properties                                                               *)
(***************************************************************************)
Lines == ReplLines \cup UNION {{Files[f][i] : i \in DOMAIN Files[f]} : f \in DOMAIN Files}

TypeOK ==
    /\ pc \in {"start", "startup", "repl", "exit", "done", "crash"}
    /\ jmpSet \in BOOLEAN /\ verbose \in BOOLEAN /\ stopping \in BOOLEAN
    /\ frames \in Seq([file : DOMAIN Files, pos : Nat, code : Codes])
    /\ Len(frames) <= MaxOpenFiles
    /\ multiline \in Seq(Lines)
    /\ ctx \in 0..MaxTxns /\ open \subseteq 1..MaxTxns
    /\ pipe.on \in BOOLEAN /\ pipe.pctx \in 0..MaxTxns
    /\ replLines \in 0..MaxReplLines /\ signals \in 0..MaxSignals

\* A line is taken from the terminal or from a running script.
LineTaken ==
    \/ replLines' > replLines
    \/ \E i \in 1..Len(frames) :
         i <= Len(frames') /\ frames'[i].file = frames[i].file /\ frames'[i].pos > frames[i].pos

\* Once any line has returned Quit ("exit" in a script or at the prompt),
\* or a line of the startup script has failed, the console reads no further
\* line, from any script or from the terminal, unless a Ctrl+C jumps back
\* into the REPL.  The code is carried out through every nested
\* _exec_script, _eval_command, read and main.
NoLineAfterQuit == [][stopping => ~LineTaken]_vars

\* Every script the console starts returns to its caller: a script that
\* runs itself ends when no descriptor is left (_exec_script's open fails).
ScriptsFinish == (frames # <<>>) ~> (frames = <<>> \/ pc = "crash")

\* handle_signal's comment: Ctrl+C resets the console; it never ends it.
\* SIGINT is bound in main before the startup script runs, jmp_env is set
\* only after it.
InterruptNeverKills == [][signals' > signals => pc' # "crash"]_vars

\* Between statements, the console's transaction context is exactly the
\* engine's open transaction (none in auto-commit mode): every transaction
\* a statement opened is one the console will commit, roll back on reset or
\* roll back in its destructor, and the context it passes to the next
\* pipeline is still open.
ConsoleTracksTransaction ==
    (pc \in {"startup", "repl"} /\ ~pipe.on) =>
        open = IF ctx = NoTxn THEN {} ELSE {ctx}

\* _eval_sql's error path prints "All previous statements have been
\* committed." when the console was in auto-commit mode and the pipeline
\* had more than one statement: after such a step no transaction of the
\* pipeline is left open.
CommitNoticeTrue ==
    [][(pipe.on /\ ~pipe'.on /\ pipe.stmts # <<>> /\ pipe'.stmts = <<>>
        /\ ctx = NoTxn /\ pipe.n > 1 /\ signals' = signals) => ctx' = NoTxn]_vars
====
