-------------------------------- MODULE Startup --------------------------------
(***************************************************************************)
(* The process as src/main.c builds it in this commit: the listening       *)
(* socket of src/game.c, the console of src/console.c, which reads lines   *)
(* in a worker thread of libuv, and the log of src/log.c, which both       *)
(* threads write without a lock.                                           *)
(*                                                                         *)
(* A call of log_log takes five steps between which the other thread may   *)
(* run.  libuv is modelled from how it is called: a bind to an address in  *)
(* use fails in listen, a connection that the callback does not accept     *)
(* stops the polling of the socket, and uv_run returns when no handle and  *)
(* no request is active.                                                   *)
(***************************************************************************)
EXTENDS Integers, Sequences

CONSTANTS MaxLines,     \* bound on the lines that are typed
          MaxClients,   \* bound on the clients that connect
          MaxClock      \* bound on the seconds that pass

ASSUME StartupAssumption == {MaxLines, MaxClients, MaxClock} \subseteq Nat

Threads == {"main", "worker"}

VARIABLES
    main,       \* how far main() is
    ret,        \* its ret
    socket,     \* "none", "bound", "in_use" or "listening"
    polling,    \* libuv looks for connections
    backlog,    \* clients in the queue of the socket
    seen,       \* calls of ptGameServerOnNewConnection for a connection
    console,    \* how far ptConsoleThread is
    eof,        \* the console's input has ended
    lines, history,         \* lines typed, and lines in the history
    clock,      \* the time of day
    logging,    \* how far each thread is in log_log
    time,       \* the t of each thread's call
    lt,         \* what localtime returns a pointer to
    stderr,     \* what was written since the last line ended, and its end
    shared      \* threads whose call another one overlapped

startVars == << main, ret, socket, polling, backlog, seen, console, eof, lines, history, clock,
                logging, time, lt, stderr, shared >>
mainVars    == << main, ret >>
socketVars  == << socket, polling, backlog, seen >>
consoleVars == << console, eof, lines, history >>
logVars     == << logging, time, lt, stderr, shared >>

StartupStart == /\ ret = 0
                /\ socket = "none" /\ polling = FALSE /\ backlog = 0 /\ seen = 0
                /\ console = "none" /\ eof = FALSE /\ lines = 0 /\ history = 0
                /\ clock = 0
                /\ logging = [t \in Threads |-> "no"]
                /\ time = [t \in Threads |-> 0]
                /\ lt = 0
                /\ stderr = << >>
                /\ shared = {}

StartupInit == main = "start" /\ StartupStart

\* The process is not there.
StartupIdle == main = "none" /\ StartupStart

-----------------------------------------------------------------------------
(* log.c: no lock is set, the level is the lowest, and there is no file.   *)

\* The call of log_log by a thread; threads of calls that overlap are shared.
Log(t) ==
    LET others == {u \in Threads \ {t} : logging[u] # "no"} IN
    /\ logging' = [logging EXCEPT ![t] = "time"]
    /\ shared' = IF others = {} THEN shared \ {t} ELSE shared \cup others \cup {t}
    /\ UNCHANGED << time, lt, stderr >>

NotLogging(t) == logging[t] = "no"

Then(t, from, to) == logging[t] = from /\ logging' = [logging EXCEPT ![t] = to]

\* What is written after a newline begins a line.
Write(t, piece, stamp) ==
    LET line == IF stderr # << >> /\ stderr[Len(stderr)].piece = "newline" THEN << >> ELSE stderr
    IN  stderr' = Append(line, [by |-> t, piece |-> piece, stamp |-> stamp])

LogTime(t) == Then(t, "time", "localtime") /\ time' = [time EXCEPT ![t] = clock]
              /\ UNCHANGED << lt, stderr, shared >>

\* A mutant of LogLocaltime that looks the time up only once.
LogLocaltime_once(t) == Then(t, "localtime", "prefix") /\ lt' = (IF lt = 0 THEN time[t] ELSE lt)
                        /\ UNCHANGED << time, stderr, shared >>

\* localtime has one structure for all its callers.
LogLocaltime(t) == Then(t, "localtime", "prefix") /\ lt' = time[t]
                   /\ UNCHANGED << time, stderr, shared >>

LogPrefix(t)  == Then(t, "prefix", "message") /\ Write(t, "prefix", lt)
                 /\ UNCHANGED << time, lt, shared >>

LogMessage(t) == Then(t, "message", "newline") /\ Write(t, "message", 0)
                 /\ UNCHANGED << time, lt, shared >>

LogNewline(t) == Then(t, "newline", "no") /\ Write(t, "newline", 0)
                 /\ UNCHANGED << time, lt, shared >>

log_log(t) == /\ \/ LogTime(t) \/ LogLocaltime(t) \/ LogPrefix(t) \/ LogMessage(t) \/ LogNewline(t)
              /\ UNCHANGED << mainVars, socketVars, consoleVars, clock >>

Tick == /\ clock < MaxClock
        /\ main # "none"
        /\ clock' = clock + 1
        /\ UNCHANGED << mainVars, socketVars, consoleVars, logVars >>

-----------------------------------------------------------------------------
(* main() and ptGameInitialize: each call of log_log ends a step.          *)

Main(from, to) == main = from /\ NotLogging("main") /\ main' = to

Start == /\ Main("start", "initialize_server")
         /\ Log("main")
         /\ UNCHANGED << ret, socketVars, consoleVars, clock >>

\* uv_tcp_init and uv_tcp_bind succeed, or one of them fails at once; an address
\* in use is found out later.
ptGameInitializeServer ==
    \/ /\ Main("initialize_server", "listen")
       /\ socket' \in {"bound", "in_use"}
       /\ UNCHANGED << ret, logVars >>
    \/ /\ Main("initialize_server", "fail")
       /\ ret' = -1
       /\ Log("main")
       /\ UNCHANGED socket

\* A mutant of InitializeServer that goes on after any error.
InitializeServer_unchecked ==
    /\ Main("initialize_server", "listen")
    /\ socket' \in {"none", "bound", "in_use"}
    /\ UNCHANGED << ret, polling, backlog, seen, consoleVars, clock, logVars >>

InitializeServer ==
    ptGameInitializeServer /\ UNCHANGED << polling, backlog, seen, consoleVars, clock >>

\* ptGameServerListen: the error is logged by it, and by ptGameInitialize, which
\* stores the outcome of the comparison in ret: main takes 1 for a success.
ptGameServerListen ==
    \/ /\ Main("listen", "console")
       /\ socket = "bound"
       /\ socket' = "listening" /\ polling' = TRUE
       /\ UNCHANGED << ret, logVars >>
    \/ /\ Main("listen", "listen_failed")
       /\ Log("main")
       /\ UNCHANGED << ret, socket, polling >>

Listen == ptGameServerListen /\ UNCHANGED << backlog, seen, consoleVars, clock >>

ListenFailed == /\ Main("listen_failed", "console")
                /\ ret' = 1
                /\ Log("main")
                /\ UNCHANGED << socketVars, consoleVars, clock >>

\* "Game initialization failed."
Fail == /\ Main("fail", "return")
        /\ Log("main")
        /\ UNCHANGED << ret, socketVars, consoleVars, clock >>

ptConsoleInitialize == /\ Main("console", "run")
                       /\ console' = "prompt"
                       /\ UNCHANGED << ret, socketVars, eof, lines, history, clock, logVars >>

\* uv_run returns.
RunEnds == /\ Main("run", "return")
           /\ socket # "listening"
           /\ console = "done"
           /\ UNCHANGED << ret, socketVars, consoleVars, clock, logVars >>

Return == /\ Main("return", "exited")
          /\ UNCHANGED << ret, socketVars, consoleVars, clock, logVars >>

-----------------------------------------------------------------------------
(* What libuv calls in the loop, and the clients.                          *)

Connect == /\ socket = "listening"
           /\ seen + backlog < MaxClients
           /\ backlog' = backlog + 1
           /\ UNCHANGED << mainVars, socket, polling, seen, consoleVars, clock, logVars >>

\* A connection that is not accepted: libuv waits for that.
ptGameServerOnNewConnection ==
    /\ main = "run" /\ NotLogging("main")
    /\ polling /\ backlog > 0
    /\ backlog' = backlog - 1
    /\ \/ seen' = seen + 1 /\ polling' = FALSE /\ UNCHANGED logVars
       \/ Log("main") /\ UNCHANGED << seen, polling >>
    /\ UNCHANGED << mainVars, socket, consoleVars, clock >>

ptConsoleAfterThread ==
    /\ main = "run" /\ NotLogging("main")
    /\ console = "ended"
    /\ console' = "done"
    /\ UNCHANGED << mainVars, socketVars, eof, lines, history, clock, logVars >>

-----------------------------------------------------------------------------
(* ptConsoleThread.                                                        *)

\* A line is typed, and logged; an empty one is not kept.
ReadLine == /\ console = "prompt" /\ NotLogging("worker")
            /\ lines < MaxLines /\ ~ eof
            /\ lines' = lines + 1
            /\ console' \in {"prompt", "history"}
            /\ Log("worker")
            /\ UNCHANGED << mainVars, socketVars, eof, history, clock >>

\* linenoiseHistoryAdd and linenoiseHistorySave.
SaveHistory == /\ console = "history" /\ NotLogging("worker")
               /\ history' = history + 1
               /\ console' = "prompt"
               /\ UNCHANGED << mainVars, socketVars, eof, lines, clock, logVars >>

EndOfInput == /\ console \in {"prompt", "history"}
              /\ ~ eof
              /\ eof' = TRUE
              /\ UNCHANGED << mainVars, socketVars, console, lines, history, clock, logVars >>

\* A mutant of ConsoleEnds that asks again.
ConsoleEnds_again == /\ console = "prompt" /\ NotLogging("worker")
                     /\ eof
                     /\ UNCHANGED startVars

\* linenoise returns NULL.
ConsoleEnds == /\ console = "prompt" /\ NotLogging("worker")
               /\ eof
               /\ console' = "ended"
               /\ UNCHANGED << mainVars, socketVars, eof, lines, history, clock, logVars >>

-----------------------------------------------------------------------------
MainStep == Start \/ InitializeServer \/ Listen \/ ListenFailed \/ Fail \/ ptConsoleInitialize
            \/ RunEnds \/ Return \/ ptConsoleAfterThread \/ log_log("main")

WorkerStep == SaveHistory \/ ConsoleEnds \/ log_log("worker")

StartupNext == MainStep \/ WorkerStep \/ ptGameServerOnNewConnection \/ Connect \/ ReadLine
               \/ EndOfInput \/ Tick

\* The process by itself, or no process.
StartupSpec == (StartupInit \/ StartupIdle) /\ [][StartupNext]_startVars

-----------------------------------------------------------------------------
(* Properties.                                                             *)

StartupTypeOK ==
    /\ main \in {"none", "start", "initialize_server", "listen", "listen_failed", "fail",
                 "console", "run", "return", "exited"}
    /\ ret \in {-1, 0, 1}
    /\ socket \in {"none", "bound", "in_use", "listening"} /\ polling \in BOOLEAN
    /\ {backlog, seen} \subseteq 0 .. MaxClients
    /\ console \in {"none", "prompt", "history", "ended", "done"} /\ eof \in BOOLEAN
    /\ {lines, history} \subseteq 0 .. MaxLines
    /\ {clock, lt} \cup {time[t] : t \in Threads} \subseteq 0 .. MaxClock
    /\ shared \subseteq Threads

\* The log has no lock (log.c:59): a line is written in one piece, with the time
\* at which its message was logged, if no other thread logged meanwhile
\* (log.c:92-119).
LinesAreWhole ==
    stderr # << >> =>
    LET end == stderr[Len(stderr)] IN
    end.piece = "newline" /\ logging[end.by] = "no" /\ end.by \notin shared =>
        stderr = << [by |-> end.by, piece |-> "prefix", stamp |-> time[end.by]],
                    [by |-> end.by, piece |-> "message", stamp |-> 0], end >>

\* The loop runs without a listener only when listen itself failed, which main
\* takes for success: it is reported by the exit code alone, and a process that
\* ended never reports success.  Of all the clients the callback sees one
\* (game.c:120-126 and :165).
RunsAsItReports ==
    /\ StartupTypeOK
    /\ main = "run" => socket # "none" /\ (socket # "listening" <=> ret = 1)
    /\ main = "exited" => ret # 0
    /\ seen <= 1 /\ (seen = 1 => ~ polling)

\* Without a listener the process ends when the console's input does, for
\* nothing else keeps the loop alive; with one it runs for ever.
EndsWithConsole == (main = "run" /\ eof /\ socket # "listening") ~> (main = "exited")

-----------------------------------------------------------------------------
(* The inductive invariant of ProcessProofs.                               *)

Pieces == [by : Threads, piece : {"prefix", "message", "newline"}, stamp : 0 .. MaxClock]

LogTypeOK ==
    /\ logging \in [Threads -> {"no", "time", "localtime", "prefix", "message", "newline"}]
    /\ time \in [Threads -> 0 .. MaxClock] /\ clock \in 0 .. MaxClock /\ lt \in 0 .. MaxClock
    /\ stderr \in Seq(Pieces)
    /\ shared \subseteq Threads

\* A thread in a call that no other call overlapped.
Alone(t) == logging[t] # "no" /\ t \notin shared

LineEnded == stderr # << >> => stderr[Len(stderr)].piece = "newline"

Prefix(t)  == [by |-> t, piece |-> "prefix", stamp |-> time[t]]
Message(t) == [by |-> t, piece |-> "message", stamp |-> 0]

\* How much of the line of a thread that is alone has been written.
AloneSoFar(t) ==
    /\ \A u \in Threads \ {t} : logging[u] = "no"
    /\ logging[t] \in {"time", "localtime", "prefix"} => LineEnded
    /\ logging[t] = "prefix"  => lt = time[t]
    /\ logging[t] = "message" => stderr = << Prefix(t) >>
    /\ logging[t] = "newline" => stderr = << Prefix(t), Message(t) >>

LogIInv == /\ LogTypeOK
           /\ \A t \in Threads : Alone(t) => AloneSoFar(t)
           /\ (\A t \in Threads : logging[t] = "no") => LineEnded
           /\ LinesAreWhole

\* What ret and the socket are where main() is.
ReportedSoFar ==
    /\ main \in {"none", "start", "initialize_server"} => ret = 0 /\ socket = "none"
    /\ main \in {"listen", "listen_failed"} => ret = 0 /\ socket \in {"bound", "in_use"}
    /\ main \in {"console", "run"} => \/ socket = "listening" /\ ret = 0
                                      \/ socket \in {"bound", "in_use"} /\ ret = 1
    /\ main \in {"fail", "return", "exited"} => ret # 0 /\ socket # "listening"

MainIInv == /\ StartupTypeOK /\ LogTypeOK
            /\ ReportedSoFar
            /\ polling \/ seen # 0 \/ backlog # 0 => socket = "listening"
            /\ seen + backlog <= MaxClients
            /\ seen <= 1 /\ (seen = 1 => ~ polling)
            /\ (IF console = "history" THEN history + 1 ELSE history) <= lines

StartupIInv == LogIInv /\ MainIInv

=============================================================================
