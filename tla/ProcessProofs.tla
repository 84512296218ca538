---------------------------- MODULE ProcessProofs ----------------------------
(***************************************************************************)
(* Theorems about the process: of Startup, for any number of lines and     *)
(* clients and any time, the lines of the log, which two threads write     *)
(* without a lock, and what the process reports of its start; and of       *)
(* Hooks, for any events and callbacks, any number of registrations, any   *)
(* depth of events inside of events and any number of allocations that     *)
(* fail.  And about getopt, for any command line, any options of the       *)
(* program and long options: however it permutes argv, it returns what was *)
(* typed.                                                                  *)
(***************************************************************************)
EXTENDS Getopt, Startup, Hooks, DataProofs, SequenceTheorems

-----------------------------------------------------------------------------
(* Startup: the log. *)

LEMMA AppendTuples ==
    ASSUME NEW S, NEW q \in S, NEW p \in S, NEW r \in S
    PROVE  Append(<< q >>, r) = << q, r >> /\ Append(<< q, p >>, r) = << q, p, r >>
<1> DEFINE a == Append(<< q >>, r)
           b == Append(<< q, p >>, r)
<1>1. /\ << q >> \in Seq(S) /\ Len(<< q >>) = 1 /\ << q, p >> \in Seq(S) /\ Len(<< q, p >>) = 2
      /\ << q, r >> \in Seq(S) /\ Len(<< q, r >>) = 2
      /\ << q, p, r >> \in Seq(S) /\ Len(<< q, p, r >>) = 3
  OBVIOUS
<1>2. a \in Seq(S) /\ Len(a) = 2 /\ a[1] = q /\ a[2] = r
  BY <1>1
<1>3. b \in Seq(S) /\ Len(b) = 3 /\ b[1] = q /\ b[2] = p /\ b[3] = r
  BY <1>1
<1> HIDE DEF a, b
<1>4. a = << q, r >>
  BY <1>1, <1>2
<1>5. b = << q, p, r >>
  BY <1>1, <1>3
<1> QED BY <1>4, <1>5 DEF a, b

\* What was written is the end of the line, or a line of its own.
LEMMA Written ==
    ASSUME LogTypeOK, NEW t \in Threads, NEW piece \in {"prefix", "message", "newline"},
           NEW stamp \in 0 .. MaxClock, Write(t, piece, stamp),
           NEW r, r = [by |-> t, piece |-> piece, stamp |-> stamp]
    PROVE  /\ stderr' \in Seq(Pieces) /\ stderr' # << >> /\ stderr'[Len(stderr')] = r
           /\ LineEnded => stderr' = << r >>
           /\ \A q \in Pieces : stderr = << q >> /\ q.piece # "newline" => stderr' = << q, r >>
           /\ \A q, p \in Pieces :
                 stderr = << q, p >> /\ p.piece # "newline" => stderr' = << q, p, r >>
<1> DEFINE ended == stderr # << >> /\ stderr[Len(stderr)].piece = "newline"
           line  == IF ended THEN << >> ELSE stderr
<1>1. stderr' = Append(line, r)
  BY DEF Write
<1>2. r \in Pieces /\ stderr \in Seq(Pieces)
  BY DEF Pieces, LogTypeOK
<1>3. line \in Seq(Pieces)
  BY <1>2
<1>4. LineEnded => line = << >>
  BY DEF LineEnded
<1>5. ASSUME NEW q \in Pieces, stderr = << q >>, q.piece # "newline" PROVE line = << q >>
  BY <1>5
<1>6. ASSUME NEW q \in Pieces, NEW p \in Pieces, stderr = << q, p >>, p.piece # "newline" PROVE line = << q, p >>
  BY <1>6
<1> HIDE DEF line
<1>7. /\ stderr' \in Seq(Pieces) /\ stderr' # << >> /\ stderr'[Len(stderr')] = r
  BY <1>1, <1>2, <1>3
<1>8. LineEnded => stderr' = << r >>
  BY <1>1, <1>4
<1>9. ASSUME NEW q \in Pieces, stderr = << q >>, q.piece # "newline" PROVE stderr' = << q, r >>
  <2>1. line = << q >>
    BY <1>5, <1>9
  <2> QED BY <1>1, <1>2, <2>1, AppendTuples
<1>10. ASSUME NEW q \in Pieces, NEW p \in Pieces, stderr = << q, p >>, p.piece # "newline" PROVE stderr' = << q, p, r >>
  <2>1. line = << q, p >>
    BY <1>6, <1>10
  <2> QED BY <1>1, <1>2, <2>1, AppendTuples
<1> QED BY <1>7, <1>8, <1>9, <1>10

\* A call that begins leaves what was written alone, and is alone, or shares with
\* every thread that is in a call.
LEMMA LogKeeps ==
    ASSUME LogIInv, NEW t \in Threads, logging[t] = "no", Log(t), UNCHANGED clock
    PROVE  LogIInv'
<1> USE DEF LogIInv, Log
<1> DEFINE others == {u \in Threads \ {t} : logging[u] # "no"}
<1>1. LogTypeOK'
  BY DEF LogTypeOK
<1>2. /\ logging' = [logging EXCEPT ![t] = "time"] 
      /\ \A u \in Threads : logging'[u] = IF u = t THEN "time" ELSE logging[u]
      /\ UNCHANGED << time, lt, stderr >>
  BY DEF LogTypeOK
<1>3. ASSUME NEW u \in Threads, Alone(u)' PROVE AloneSoFar(u)'
  <2>1. u = t /\ others = {}
    <3>1. CASE others # {}
      BY <1>2, <1>3, <3>1 DEF Alone
    <3>2. CASE others = {} /\ u # t
      BY <1>2, <1>3, <3>2 DEF Alone
    <3> QED BY <3>1, <3>2
  <2>2. \A v \in Threads : logging[v] = "no"
    BY <2>1
  <2>3. LineEnded'
    BY <1>2, <2>2 DEF LineEnded
  <2> QED BY <1>2, <2>1, <2>2, <2>3 DEF AloneSoFar
<1>4. ~ \A u \in Threads : logging'[u] = "no"
  BY <1>2
<1>5. LinesAreWhole'
  <2> SUFFICES ASSUME stderr # << >>, NEW end, end = stderr[Len(stderr)],
                      end.piece = "newline", logging'[end.by] = "no", end.by \notin shared'
               PROVE  stderr = << [by |-> end.by, piece |-> "prefix", stamp |-> time[end.by]],
                                  [by |-> end.by, piece |-> "message", stamp |-> 0], end >>
    BY <1>2 DEF LinesAreWhole
  <2>1. end \in Pieces
    BY DEF LogTypeOK
  <2>2. end.by \in Threads
    BY <2>1 DEF Pieces
  <2>3. end.by # t /\ logging[end.by] = "no"
    BY <1>2, <2>2
  <2>4. end.by \notin shared
    BY <2>3
  <2> QED BY <2>3, <2>4 DEF LinesAreWhole
<1> QED BY <1>1, <1>3, <1>4, <1>5

\* While a thread that is alone writes its line no other one writes.
LEMMA LogStepKeeps ==
    ASSUME LogIInv, NEW t \in Threads,
           LogTime(t) \/ LogLocaltime(t) \/ LogPrefix(t) \/ LogMessage(t) \/ LogNewline(t),
           UNCHANGED clock
    PROVE  LogIInv'
<1> USE DEF LogIInv, Then
<1>1. PICK from \in {"time", "localtime", "prefix", "message", "newline"},
           to \in {"no", "localtime", "prefix", "message", "newline"} :
         /\ logging[t] = from /\ logging' = [logging EXCEPT ![t] = to]
         /\ UNCHANGED shared
  BY DEF LogTime, LogLocaltime, LogPrefix, LogMessage, LogNewline
<1>2. \A u \in Threads : logging'[u] = IF u = t THEN to ELSE logging[u]
  BY <1>1 DEF LogTypeOK
<1>3. ASSUME NEW u \in Threads, Alone(u)', u # t PROVE FALSE
  <2>1. Alone(u)
    BY <1>1, <1>2, <1>3 DEF Alone
  <2>2. logging[t] = "no"
    BY <1>3, <2>1 DEF AloneSoFar
  <2> QED BY <1>1, <2>2
<1>4. Alone(t)' => Alone(t) /\ \A u \in Threads \ {t} : logging'[u] = "no"
  BY <1>1, <1>2 DEF Alone, AloneSoFar
<1>5. SUFFICES
               /\ LogTypeOK'
               /\ Alone(t)' => AloneSoFar(t)'
               /\ (\A u \in Threads : logging'[u] = "no") => LineEnded'
               /\ LinesAreWhole'
  BY <1>3
<1>6. ASSUME stderr' = stderr,
             \A u \in Threads \ {t} : time'[u] = time[u],
             to # "no"
      PROVE  LinesAreWhole' /\ ~ \A u \in Threads : logging'[u] = "no"
  <2> SUFFICES ASSUME stderr # << >>, NEW end, end = stderr[Len(stderr)],
                      end.piece = "newline", logging'[end.by] = "no", end.by \notin shared'
               PROVE  stderr = << [by |-> end.by, piece |-> "prefix", stamp |-> time'[end.by]],
                                  [by |-> end.by, piece |-> "message", stamp |-> 0], end >>
    BY <1>2, <1>6 DEF LinesAreWhole
  <2>1. end \in Pieces
    BY DEF LogTypeOK
  <2>2. end.by \in Threads
    BY <2>1 DEF Pieces
  <2>3. end.by # t /\ logging[end.by] = "no" /\ end.by \notin shared
    BY <1>1, <1>2, <1>6, <2>2
  <2> QED BY <1>6, <2>2, <2>3 DEF LinesAreWhole
<1>7. CASE LogTime(t)
  <2>1. /\ logging[t] = "time" /\ logging' = [logging EXCEPT ![t] = "localtime"]
        /\ time' = [time EXCEPT ![t] = clock] /\ UNCHANGED << lt, stderr, shared >>
    BY <1>7 DEF LogTime
  <2>2. logging'[t] = "localtime" /\ to # "no"
    BY <1>1, <1>2, <2>1
  <2>3. LogTypeOK'
    BY <2>1 DEF LogTypeOK
  <2>4. \A u \in Threads \ {t} : time'[u] = time[u]
    BY <2>1 DEF LogTypeOK
  <2>5. Alone(t)' => AloneSoFar(t)'
    BY <1>4, <2>1, <2>2 DEF AloneSoFar, LineEnded
  <2> QED BY <1>6, <2>1, <2>2, <2>3, <2>4, <2>5
<1>8. CASE LogLocaltime(t)
  <2>1. /\ logging[t] = "localtime" /\ logging' = [logging EXCEPT ![t] = "prefix"]
        /\ lt' = time[t] /\ UNCHANGED << time, stderr, shared >>
    BY <1>8 DEF LogLocaltime
  <2>2. logging'[t] = "prefix" /\ to # "no"
    BY <1>1, <1>2, <2>1 DEF LogTypeOK
  <2>3. LogTypeOK'
    BY <2>1 DEF LogTypeOK
  <2>4. Alone(t)' => AloneSoFar(t)'
    BY <1>4, <2>1, <2>2 DEF AloneSoFar, LineEnded
  <2> QED BY <1>6, <2>1, <2>2, <2>3, <2>4
<1>9. ASSUME NEW piece \in {"prefix", "message"}, NEW stamp \in 0 .. MaxClock,
             Write(t, piece, stamp), UNCHANGED << time, lt, shared >>, to # "no"
      PROVE  LogTypeOK' /\ LinesAreWhole' /\ ~ \A u \in Threads : logging'[u] = "no"
  <2>1. /\ stderr' \in Seq(Pieces) /\ stderr' # << >>
        /\ stderr'[Len(stderr')] = [by |-> t, piece |-> piece, stamp |-> stamp]
    BY <1>9, Written
  <2>2. LogTypeOK'
    BY <1>1, <1>9, <2>1 DEF LogTypeOK
  <2>3. LinesAreWhole'
    BY <2>1 DEF LinesAreWhole
  <2>4. ~ \A u \in Threads : logging'[u] = "no"
    BY <1>2, <1>9
  <2> QED BY <2>2, <2>3, <2>4
<1>10. CASE LogPrefix(t)
  <2>1. /\ logging[t] = "prefix" /\ logging' = [logging EXCEPT ![t] = "message"]
        /\ Write(t, "prefix", lt) /\ UNCHANGED << time, lt, shared >>
    BY <1>10 DEF LogPrefix
  <2>2. logging'[t] = "message" /\ to # "no"
    BY <1>1, <1>2, <2>1 DEF LogTypeOK
  <2>3. lt \in 0 .. MaxClock
    BY DEF LogTypeOK
  <2> DEFINE r == [by |-> t, piece |-> "prefix", stamp |-> lt]
  <2>6. r = [by |-> t, piece |-> "prefix", stamp |-> lt]
    OBVIOUS
  <2> HIDE DEF r
  <2>4. LineEnded => stderr' = << r >>
    BY <2>1, <2>3, <2>6, Written
  <2>5. Alone(t)' => AloneSoFar(t)'
    BY <1>4, <2>1, <2>2, <2>4, <2>6 DEF AloneSoFar, Prefix
  <2> QED BY <1>9, <2>1, <2>2, <2>3, <2>5
<1>11. CASE LogMessage(t)
  <2>1. /\ logging[t] = "message" /\ logging' = [logging EXCEPT ![t] = "newline"]
        /\ Write(t, "message", 0) /\ UNCHANGED << time, lt, shared >>
    BY <1>11 DEF LogMessage
  <2>2. logging'[t] = "newline" /\ to # "no"
    BY <1>1, <1>2, <2>1 DEF LogTypeOK
  <2>3. 0 \in 0 .. MaxClock
    BY StartupAssumption
  <2>4. Message(t) = [by |-> t, piece |-> "message", stamp |-> 0]
    BY DEF Message
  <2>5. Prefix(t) \in Pieces /\ Prefix(t).piece # "newline"
    BY DEF Prefix, Pieces, LogTypeOK
  <2>6. Alone(t)' => AloneSoFar(t)'
    <3>1. Alone(t) => stderr = << Prefix(t) >>
      BY <2>1 DEF AloneSoFar
    <3>2. Alone(t)' => stderr' = << Prefix(t), Message(t) >>
      BY <1>4, <2>1, <2>3, <2>4, <2>5, <3>1, Written
    <3> QED BY <1>4, <2>1, <2>2, <3>2 DEF AloneSoFar, Prefix, Message
  <2> QED BY <1>9, <2>1, <2>2, <2>3, <2>6
<1>12. CASE LogNewline(t)
  <2>1. /\ logging[t] = "newline" /\ logging' = [logging EXCEPT ![t] = "no"]
        /\ Write(t, "newline", 0) /\ UNCHANGED << time, lt, shared >>
    BY <1>12 DEF LogNewline
  <2>2. logging'[t] = "no"
    BY <1>1, <1>2, <2>1 DEF LogTypeOK
  <2>3. 0 \in 0 .. MaxClock
    BY StartupAssumption
  <2> DEFINE end == [by |-> t, piece |-> "newline", stamp |-> 0]
  <2>10. end = [by |-> t, piece |-> "newline", stamp |-> 0]
    OBVIOUS
  <2> HIDE DEF end
  <2>4. /\ stderr' \in Seq(Pieces) /\ stderr' # << >> /\ stderr'[Len(stderr')] = end
        /\ \A q, p \in Pieces :
              stderr = << q, p >> /\ p.piece # "newline" => stderr' = << q, p, end >>
    BY <2>1, <2>3, <2>10, Written
  <2>5. LogTypeOK'
    BY <2>1, <2>4 DEF LogTypeOK
  <2>6. t \notin shared => stderr' = << Prefix(t), Message(t), end >>
    <3>1. t \notin shared => stderr = << Prefix(t), Message(t) >>
      BY <2>1 DEF Alone, AloneSoFar
    <3>2. Prefix(t) \in Pieces /\ Message(t) \in Pieces /\ Message(t).piece # "newline"
      BY <2>3 DEF Message, Prefix, Pieces, LogTypeOK
    <3> QED BY <2>4, <3>1, <3>2
  <2>7. LinesAreWhole'
    BY <2>1, <2>4, <2>6, <2>10 DEF LinesAreWhole, Prefix, Message
  <2>8. LineEnded'
    BY <2>4, <2>10 DEF LineEnded
  <2>9. ~ Alone(t)'
    BY <2>2 DEF Alone
  <2> QED BY <2>5, <2>7, <2>8, <2>9
<1> QED BY <1>7, <1>8, <1>10, <1>11, <1>12

\* A step that logs nothing.
LEMMA QuietKeeps ==
    ASSUME LogIInv, UNCHANGED logVars, clock' \in 0 .. MaxClock
    PROVE  LogIInv'
BY DEF LogIInv, LogTypeOK, logVars, Alone, AloneSoFar, LineEnded, LinesAreWhole, Prefix, Message

\* Every step calls log_log, goes on in a call of it, or logs nothing.
LEMMA LogNext ==
    ASSUME LogIInv, StartupNext
    PROVE  LogIInv'
<1> DEFINE Quiet == UNCHANGED logVars /\ clock' \in 0 .. MaxClock
           Logs == \E t \in Threads : logging[t] = "no" /\ Log(t) /\ UNCHANGED clock
           Steps == \E t \in Threads :
                       /\ LogTime(t) \/ LogLocaltime(t) \/ LogPrefix(t) \/ LogMessage(t)
                          \/ LogNewline(t)
                       /\ UNCHANGED clock
<1>1. clock \in 0 .. MaxClock
  BY DEF LogIInv, LogTypeOK
<1>2. ASSUME Start \/ InitializeServer \/ Listen \/ ListenFailed \/ Fail PROVE Quiet \/ Logs
  BY <1>1, <1>2 DEF Start, InitializeServer, ptGameInitializeServer, Listen, ptGameServerListen,
                    ListenFailed, Fail, Main, NotLogging, Threads
<1>3. ASSUME ptConsoleInitialize \/ RunEnds \/ Return \/ ptConsoleAfterThread PROVE Quiet
  BY <1>1, <1>3 DEF ptConsoleInitialize, RunEnds, Return, ptConsoleAfterThread
<1>4. ASSUME ptGameServerOnNewConnection \/ Connect \/ ReadLine \/ EndOfInput PROVE Quiet \/ Logs
  BY <1>1, <1>4 DEF ptGameServerOnNewConnection, Connect, ReadLine, EndOfInput, NotLogging, Threads
<1>5. ASSUME Tick PROVE Quiet
  BY <1>1, <1>5, StartupAssumption DEF Tick
<1>6. ASSUME log_log("main") \/ log_log("worker") PROVE Steps
  BY <1>6 DEF log_log, Threads
<1>7. ASSUME SaveHistory \/ ConsoleEnds PROVE Quiet
  BY <1>1, <1>7 DEF SaveHistory, ConsoleEnds
<1>8. Quiet \/ Logs \/ Steps
  BY <1>2, <1>3, <1>4, <1>5, <1>6, <1>7 DEF StartupNext, MainStep, WorkerStep
<1>9. CASE Quiet
  BY <1>9, QuietKeeps
<1>10. CASE Logs
  BY <1>10, LogKeeps
<1>11. CASE Steps
  BY <1>11, LogStepKeeps
<1> QED BY <1>8, <1>9, <1>10, <1>11

-----------------------------------------------------------------------------
(* Startup: main(), the socket and the console. *)

\* StartupTypeOK, one variable at a time.
TypeByVariable ==
    /\ main \in {"none", "start", "initialize_server", "listen", "listen_failed", "fail",
                 "console", "run", "return", "exited"}
    /\ ret = -1 \/ ret = 0 \/ ret = 1
    /\ socket \in {"none", "bound", "in_use", "listening"} /\ polling \in BOOLEAN
    /\ backlog \in 0 .. MaxClients /\ seen \in 0 .. MaxClients
    /\ console \in {"none", "prompt", "history", "ended", "done"} /\ eof \in BOOLEAN
    /\ lines \in 0 .. MaxLines /\ history \in 0 .. MaxLines
    /\ clock \in 0 .. MaxClock /\ lt \in 0 .. MaxClock
    /\ \A t \in Threads : time[t] \in 0 .. MaxClock
    /\ shared \subseteq Threads

LEMMA TypeIsByVariable ==
    (StartupTypeOK <=> TypeByVariable) /\ (StartupTypeOK' <=> TypeByVariable')
BY DEF StartupTypeOK, TypeByVariable

LEMMA MainNext ==
    ASSUME MainIInv, LogTypeOK', StartupNext
    PROVE  MainIInv'
<1> USE StartupAssumption DEF TypeByVariable, MainIInv, ReportedSoFar, Main, mainVars, socketVars, consoleVars
<1>0. TypeByVariable /\ (TypeByVariable' => StartupTypeOK')
  BY TypeIsByVariable
<1>1. /\ clock' \in 0 .. MaxClock /\ lt' \in 0 .. MaxClock /\ shared' \subseteq Threads
      /\ \A t \in Threads : time'[t] \in 0 .. MaxClock
  BY DEF LogTypeOK
<1>2. ASSUME Start \/ InitializeServer PROVE MainIInv'
  BY <1>0, <1>1, <1>2 DEF Start, InitializeServer, ptGameInitializeServer
<1>3. ASSUME Listen PROVE MainIInv'
  <2>1. CASE main' = "console"
    <3>1. /\ main = "listen" /\ socket' = "listening" /\ polling' = TRUE /\ seen = 0 /\ ret' = 0
          /\ UNCHANGED << ret, backlog, seen, consoleVars, clock, logVars >>
      BY <1>3, <2>1 DEF Listen, ptGameServerListen
    <3>2. polling' \in BOOLEAN /\ (polling' \/ seen' # 0 \/ backlog' # 0 => socket' = "listening")
          /\ (seen' = 1 => ~ polling')
      BY <3>1
    <3>3. TypeByVariable'
      BY <1>0, <1>1, <2>1, <3>1, <3>2
    <3>4. ReportedSoFar'
      BY <2>1, <3>1
    <3> QED BY <1>0, <2>1, <3>1, <3>2, <3>3, <3>4
  <2>2. CASE main' = "listen_failed"
    <3>1. main = "listen" /\ UNCHANGED << ret, socket, polling, backlog, seen, consoleVars, clock >>
      BY <1>3, <2>2 DEF Listen, ptGameServerListen
    <3> QED BY <1>0, <1>1, <2>2, <3>1
  <2> QED BY <1>3, <2>1, <2>2 DEF Listen, ptGameServerListen
<1>10. ASSUME ListenFailed PROVE MainIInv'
  BY <1>0, <1>1, <1>10 DEF ListenFailed
<1>4. ASSUME Fail \/ ptConsoleInitialize PROVE MainIInv'
  BY <1>0, <1>1, <1>4 DEF Fail, ptConsoleInitialize
<1>5. ASSUME RunEnds \/ Return PROVE MainIInv'
  BY <1>0, <1>1, <1>5 DEF RunEnds, Return
<1>6. ASSUME ptGameServerOnNewConnection PROVE MainIInv'
  <2>1. /\ polling /\ backlog > 0 /\ backlog' = backlog - 1 /\ seen \in 0 .. MaxClients
        /\ UNCHANGED << main, ret, socket, console, eof, lines, history, clock >>
        /\ \/ seen' = seen + 1 /\ polling' = FALSE
           \/ seen' = seen /\ polling' = polling
    BY <1>0, <1>6 DEF ptGameServerOnNewConnection
  <2>2. socket = "listening" /\ seen \in Nat /\ seen <= 1 /\ seen # 1
    BY <2>1
  <2>3. seen = 0 /\ backlog \in 0 .. MaxClients
    BY <1>0, <2>2
  <2>4. CASE seen' = seen + 1 /\ polling' = FALSE
    <3>1. seen' = 1 /\ backlog' \in 0 .. MaxClients /\ seen' + backlog' <= MaxClients
          /\ seen' \in 0 .. MaxClients
      BY <2>1, <2>3, <2>4
    <3>2. polling' \in BOOLEAN /\ (seen' = 1 => ~ polling')
      BY <2>4
    <3>3. TypeByVariable'
      BY <1>0, <1>1, <2>1, <3>1, <3>2
    <3> QED BY <1>0, <2>1, <2>2, <3>1, <3>2, <3>3
  <2>5. CASE seen' = seen /\ polling' = polling
    <3>1. seen' = 0 /\ backlog' \in 0 .. MaxClients /\ seen' + backlog' <= MaxClients
          /\ seen' \in 0 .. MaxClients
      BY <2>1, <2>3, <2>5
    <3>2. polling' \in BOOLEAN
      BY <1>0, <2>5
    <3>3. TypeByVariable'
      BY <1>0, <1>1, <2>1, <3>1, <3>2
    <3> QED BY <1>0, <2>1, <2>2, <3>1, <3>3
  <2> QED BY <2>1, <2>4, <2>5
<1>11. ASSUME Connect PROVE MainIInv'
  BY <1>0, <1>1, <1>11 DEF Connect
<1>7. ASSUME ReadLine PROVE MainIInv'
  BY <1>0, <1>1, <1>7 DEF ReadLine
<1>12. ASSUME EndOfInput PROVE MainIInv'
  BY <1>0, <1>1, <1>12 DEF EndOfInput
<1>8. ASSUME SaveHistory \/ ConsoleEnds \/ ptConsoleAfterThread PROVE MainIInv'
  BY <1>0, <1>1, <1>8 DEF SaveHistory, ConsoleEnds, ptConsoleAfterThread
<1>9. ASSUME log_log("main") \/ log_log("worker") \/ Tick PROVE MainIInv'
  BY <1>0, <1>1, <1>9 DEF log_log, Tick
<1> QED BY <1>2, <1>3, <1>4, <1>5, <1>6, <1>7, <1>8, <1>9, <1>10, <1>11,
           <1>12 DEF StartupNext, MainStep, WorkerStep

-----------------------------------------------------------------------------
(* The theorems about Startup. *)

LEMMA InitStartupIInv == StartupInit \/ StartupIdle => StartupIInv
<1> SUFFICES ASSUME StartupInit \/ StartupIdle PROVE StartupIInv
  OBVIOUS
<1> USE StartupAssumption DEF StartupInit, StartupIdle, StartupStart
<1>1. << >> \in Seq(Pieces) /\ 0 \in 0 .. MaxClock
  OBVIOUS
<1>2. LogTypeOK
  BY <1>1 DEF LogTypeOK
<1>3. LogIInv
  BY <1>2 DEF LogIInv, Alone, LineEnded, LinesAreWhole
<1>4. StartupTypeOK
  <2>1. /\ ret = 0 /\ socket = "none" /\ polling = FALSE /\ backlog = 0 /\ seen = 0
        /\ console = "none" /\ eof = FALSE /\ lines = 0 /\ history = 0 /\ clock = 0 /\ lt = 0
        /\ shared = {} /\ (main = "start" \/ main = "none")
    OBVIOUS
  <2>2. polling \in BOOLEAN /\ eof \in BOOLEAN
    BY <2>1
  <2>3. \A t \in Threads : time[t] = 0
    OBVIOUS
  <2>4. 0 \in 0 .. MaxClients /\ 0 \in 0 .. MaxLines
    OBVIOUS
  <2>5. TypeByVariable
    BY <1>1, <2>1, <2>2, <2>3, <2>4 DEF TypeByVariable
  <2> QED BY <2>5, TypeIsByVariable
<1>5. MainIInv
  <2>1. ReportedSoFar
    BY DEF ReportedSoFar
  <2>2. seen + backlog <= MaxClients
    OBVIOUS
  <2>3. (IF console = "history" THEN history + 1 ELSE history) <= lines
    OBVIOUS
  <2>4. ~ (polling \/ seen # 0 \/ backlog # 0)
    OBVIOUS
  <2>5. seen <= 1 /\ seen # 1
    OBVIOUS
  <2> QED BY <1>2, <1>4, <2>1, <2>2, <2>3, <2>4, <2>5 DEF MainIInv
<1> QED BY <1>3, <1>5 DEF StartupIInv

LEMMA StartupInvariance == StartupSpec => []StartupIInv
<1>1. StartupIInv /\ [StartupNext]_startVars => StartupIInv'
  <2> SUFFICES ASSUME StartupIInv, [StartupNext]_startVars PROVE StartupIInv'
    OBVIOUS
  <2>1. CASE StartupNext
    <3>1. LogIInv'
      BY <2>1, LogNext DEF StartupIInv
    <3>2. MainIInv'
      BY <2>1, <3>1, MainNext DEF StartupIInv, LogIInv
    <3> QED BY <3>1, <3>2 DEF StartupIInv
  <2>2. CASE UNCHANGED startVars
    <3>1. LogIInv'
      BY <2>2, QuietKeeps DEF StartupIInv, LogIInv, LogTypeOK, startVars, logVars
    <3>2. MainIInv'
      BY <2>2, <3>1 DEF StartupIInv, LogIInv, MainIInv, StartupTypeOK, ReportedSoFar, startVars
    <3> QED BY <3>1, <3>2 DEF StartupIInv
  <2> QED BY <2>1, <2>2
<1> QED BY <1>1, InitStartupIInv, PTL DEF StartupSpec

\* The log has no lock, and localtime one structure for both threads: still a line
\* is written in one piece, with the time at which its message was logged, if no
\* other thread called log_log meanwhile (log.c:92-119).
THEOREM UnsharedLinesAreWhole == StartupSpec => []LinesAreWhole
<1>1. StartupIInv => LinesAreWhole
  BY DEF StartupIInv, LogIInv
<1> QED BY <1>1, StartupInvariance, PTL

\* The loop runs without a listener only when listen itself failed, which main takes
\* for success and reports by its exit code alone; a process that ended never
\* reports success; and the callback sees one of all the clients (game.c:120-126
\* and :165).
THEOREM StartIsReported == StartupSpec => []RunsAsItReports
<1>1. StartupIInv => RunsAsItReports
  BY DEF StartupIInv, MainIInv, RunsAsItReports, ReportedSoFar
<1> QED BY <1>1, StartupInvariance, PTL


-----------------------------------------------------------------------------
(* Hooks: the callbacks among the first elements of a sequence. *)

LEMMA CountSteps ==
    ASSUME NEW s, NEW k \in Nat
    PROVE  /\ Count(s, k) \in Nat
           /\ Count(s, 0) = 0
           /\ Count(s, k + 1) = IF s[k + 1] # NoCallback THEN Count(s, k) + 1 ELSE Count(s, k)
<1> DEFINE N(n) == {j \in 1 .. n : s[j] # NoCallback}
<1>1. ASSUME NEW n \in Nat PROVE IsFiniteSet(N(n))
  <2>1. IsFiniteSet(1 .. n)
    BY FS_Interval
  <2>2. N(n) \subseteq 1 .. n
    OBVIOUS
  <2> HIDE DEF N
  <2> QED BY <2>1, <2>2, FS_Subset
<1>2. Count(s, k) \in Nat
  <2> HIDE DEF N
  <2>1. Cardinality(N(k)) \in Nat
    BY <1>1, FS_CardinalityType
  <2> QED BY <2>1 DEF Count, N
<1>3. Count(s, 0) = 0
  <2>1. {j \in 1 .. 0 : s[j] # NoCallback} = {}
    OBVIOUS
  <2> QED BY <2>1, FS_EmptySet DEF Count
<1>4. k + 1 \notin N(k)
  OBVIOUS
<1>5. CASE s[k + 1] # NoCallback
  <2>1. N(k + 1) = N(k) \cup {k + 1}
    BY <1>5
  <2> HIDE DEF N
  <2>2. Cardinality(N(k + 1)) = Cardinality(N(k)) + 1
    BY <1>1, <1>4, <2>1, FS_AddElement
  <2> QED BY <1>2, <1>3, <1>5, <2>2 DEF Count, N
<1>6. CASE s[k + 1] = NoCallback
  <2>1. N(k + 1) = N(k)
    BY <1>6
  <2> QED BY <1>2, <1>3, <1>6, <2>1 DEF Count
<1> QED BY <1>2, <1>3, <1>5, <1>6

LEMMA CountGrows ==
    ASSUME NEW s, NEW k \in Nat, NEW j \in 1 .. k
    PROVE  Count(s, j) \in Nat /\ Count(s, j) <= Count(s, k)
<1> DEFINE N(n) == {i \in 1 .. n : s[i] # NoCallback}
<1>1. ASSUME NEW n \in Nat PROVE IsFiniteSet(N(n))
  <2>1. IsFiniteSet(1 .. n)
    BY FS_Interval
  <2>2. N(n) \subseteq 1 .. n
    OBVIOUS
  <2> HIDE DEF N
  <2> QED BY <2>1, <2>2, FS_Subset
<1>2. N(j) \subseteq N(k) /\ j \in Nat
  OBVIOUS
<1> HIDE DEF N
<1>3. Cardinality(N(j)) \in Nat /\ Cardinality(N(j)) <= Cardinality(N(k))
  BY <1>1, <1>2, FS_Subset, FS_CardinalityType
<1> QED BY <1>3 DEF Count, N

\* Elements that are appended do not matter for those before them.
LEMMA CallsLocal ==
    ASSUME NEW called, NEW s, NEW t, NEW k \in Nat, \A j \in 1 .. k : s[j] = t[j],
           Calls(called, s, k)
    PROVE  Calls(called, t, k)
<1>1. ASSUME NEW n \in 0 .. k PROVE Count(s, n) = Count(t, n)
  <2>1. {j \in 1 .. n : s[j] # NoCallback} = {j \in 1 .. n : t[j] # NoCallback}
    OBVIOUS
  <2> QED BY <2>1 DEF Count
<1>2. \A n \in 1 .. k : n \in 0 .. k
  OBVIOUS
<1>3. k \in 0 .. k
  OBVIOUS
<1> QED BY <1>1, <1>2, <1>3 DEF Calls

\* A round of the loop calls one callback more, or skips NULL.
LEMMA CallsOneMore ==
    ASSUME NEW S, NEW called \in Seq(S), NEW s, NEW k \in Nat, Calls(called, s, k),
           NEW c \in S, s[k + 1] = c, c # NoCallback
    PROVE  Calls(Append(called, c), s, k + 1)
<1>1. Len(called) = Count(s, k) /\ Count(s, k) \in Nat /\ Count(s, k + 1) = Count(s, k) + 1
  BY CountSteps DEF Calls
<1>2. Len(Append(called, c)) = Count(s, k + 1)
  BY <1>1
<1>3. ASSUME NEW j \in 1 .. k + 1, s[j] # NoCallback
      PROVE  Append(called, c)[Count(s, j)] = s[j]
  <2>1. CASE j = k + 1
    BY <1>1, <2>1
  <2>2. CASE j \in 1 .. k
    <3>1. Count(s, j) \in 1 .. Len(called)
      <4>1. Count(s, j) \in Nat /\ Count(s, j) <= Count(s, k)
        BY <2>2, CountGrows
      <4>2. Count(s, j) # 0
        <5>1. j - 1 \in Nat /\ (j - 1) + 1 = j
          BY <2>2
        <5>2. Count(s, (j - 1) + 1) = Count(s, j - 1) + 1 /\ Count(s, j - 1) \in Nat
          BY ZenonT(30), <1>3, <5>1, CountSteps
        <5> QED BY <5>1, <5>2
      <4> QED BY <1>1, <4>1, <4>2
    <3>2. called[Count(s, j)] = s[j]
      BY <1>3, <2>2 DEF Calls
    <3> QED BY <3>1, <3>2
  <2>3. j = k + 1 \/ j \in 1 .. k
    OBVIOUS
  <2> QED BY <2>1, <2>2, <2>3
<1> QED BY <1>2, <1>3 DEF Calls

LEMMA CallsSkipNull ==
    ASSUME NEW called, NEW s, NEW k \in Nat, Calls(called, s, k), s[k + 1] = NoCallback
    PROVE  Calls(called, s, k + 1)
<1>1. Count(s, k + 1) = Count(s, k)
  BY CountSteps
<1>2. \A j \in 1 .. k + 1 : s[j] # NoCallback => j \in 1 .. k
  OBVIOUS
<1> QED BY <1>1, <1>2 DEF Calls

LEMMA NothingCalled ==
    ASSUME NEW s
    PROVE  Calls(<< >>, s, 0)
BY CountSteps DEF Calls

-----------------------------------------------------------------------------
(* Hooks: the vectors. *)

LEMMA NonNull ==
    ASSUME NEW n \in Nat \ {0}, NEW data, DOMAIN data = 0 .. n - 1
    PROVE  data # NULL
<1>1. 0 \in DOMAIN data /\ DOMAIN NULL = {}
  BY DEF NULL
<1> QED BY <1>1

\* Growing keeps the elements, or loses the memory.
LEMMA ReallocHolds ==
    ASSUME NEW vector, NEW s, Holds(vector, s), NEW ok \in BOOLEAN,
           ok => vector.data # NULL \/ vector.size = 0,
           NEW room, room = vector_realloc(vector, ok)
    PROVE  /\ Holds(room, s)
           /\ room.size = vector.size /\ room.size < room.capacity
           /\ IF ok THEN room.data # NULL ELSE room.data = NULL
<1> DEFINE data == IF ok THEN [k \in 0 .. 2 * vector.capacity - 1 |->
                          IF k \in DOMAIN vector.data THEN vector.data[k] ELSE Junk] ELSE NULL
<1>1. /\ vector = [size |-> vector.size, capacity |-> vector.capacity, data |-> vector.data]
      /\ vector.size = Len(s) /\ vector.size \in Nat
      /\ vector.capacity \in Nat \ {0} /\ vector.size <= vector.capacity
  BY DEF Holds
<1>2. room = [size |-> vector.size, capacity |-> 2 * vector.capacity, data |-> data]
  BY <1>1 DEF vector_realloc
<1>3. room.size = vector.size /\ room.capacity = 2 * vector.capacity /\ room.data = data
  BY <1>2
<1>4. CASE ok
  <2>1. DOMAIN data = 0 .. 2 * vector.capacity - 1 /\ 2 * vector.capacity \in Nat \ {0}
    BY <1>1, <1>4
  <2>2. data # NULL
    BY <2>1, NonNull
  <2>3. ASSUME NEW k \in 1 .. vector.size PROVE data[k - 1] = s[k]
    <3>1. vector.data # NULL
      BY <1>1, <1>4, <2>3
    <3>2. k - 1 \in DOMAIN vector.data /\ vector.data[k - 1] = s[k]
      BY <1>1, <2>3, <3>1 DEF Holds
    <3> QED BY <1>1, <1>4, <3>2
  <2>4. data = [k \in 0 .. 2 * vector.capacity - 1 |-> data[k]]
    BY <1>4
  <2> HIDE DEF data
  <2>5. room = [size |-> room.size, capacity |-> room.capacity, data |-> room.data]
    BY <1>2, <1>3
  <2>6. room.capacity \in Nat \ {0} /\ room.size < room.capacity
    BY <1>1, <1>3
  <2>7. Holds(room, s)
    <3>1. room.data = [k \in 0 .. room.capacity - 1 |-> room.data[k]]
      BY <1>3, <2>4
    <3>2. \A k \in 1 .. room.size : room.data[k - 1] = s[k]
      BY <1>3, <2>3
    <3>3. room.data # NULL /\ room.size = Len(s) /\ room.size <= room.capacity
      BY <1>1, <1>3, <2>2, <2>6
    <3> QED BY <2>5, <2>6, <3>1, <3>2, <3>3 DEF Holds
  <2> QED BY <1>3, <1>4, <2>2, <2>6, <2>7
<1>5. CASE ~ ok
  BY <1>1, <1>2, <1>3, <1>5 DEF Holds
<1> QED BY <1>4, <1>5

LEMMA NewHolds ==
    ASSUME NEW ok \in BOOLEAN
    PROVE  /\ Holds(vector_new(ok), << >>)
           /\ ok => vector_new(ok).data # NULL
<1> DEFINE empty == [size |-> 0, capacity |-> VECTOR_INITIAL_CAPACITY, data |-> NULL]
<1>1. Holds(empty, << >>) /\ empty.size = 0
  BY DEF Holds, VECTOR_INITIAL_CAPACITY
<1>2. vector_new(ok) = vector_realloc(empty, ok)
  BY DEF vector_new
<1> HIDE DEF empty
<1> QED BY <1>1, <1>2, ReallocHolds

\* An element is pushed, or lost with the memory of all, or kills the process.
LEMMA PushHolds ==
    ASSUME NEW S, NEW vector, NEW s \in Seq(S), Holds(vector, s), NEW c \in S, NEW ok \in BOOLEAN,
           Full(vector) \/ ok,
           NEW push, push = vector_push_back(vector, c, ok)
    PROVE  \/ push.res = "ok" /\ vector.data # NULL /\ push.vec.data # NULL
              /\ Holds(push.vec, Append(s, c))
           \/ push.res = "error" /\ ~ ok /\ Holds(push.vec, s)
           \/ push.res = "crash" /\ vector.data = NULL /\ Holds(push.vec, s) /\ push.vec.data = NULL
<1> DEFINE room == IF Full(vector) THEN vector_realloc(vector, ok) ELSE vector
           set  == vector_set(room, vector.size, c)
<1>1. push = IF Full(vector) /\ ~ ok THEN [res |-> "error", vec |-> room]
             ELSE [set EXCEPT !.vec.size = IF set.res = "ok" THEN @ + 1 ELSE @]
  BY DEF vector_push_back
<1>2. vector.size \in Nat /\ vector.size = Len(s) /\ vector.capacity \in Nat
  BY DEF Holds
<1>3. CASE Full(vector) /\ ~ ok
  <2>1. Holds(room, s)
    BY <1>3, ReallocHolds
  <2> HIDE DEF room
  <2> QED BY <1>1, <1>3, <2>1
<1>4. CASE ~ (Full(vector) /\ ~ ok)
  <2>1. /\ Holds(room, s) /\ room.size = vector.size /\ room.size < room.capacity
        /\ room.data = NULL <=> vector.data = NULL
    <3>1. CASE Full(vector)
      <4>1. vector.data # NULL /\ ok
        BY <1>2, <1>4, <3>1 DEF Full, Holds
      <4>2. room = vector_realloc(vector, ok)
        BY <3>1
      <4> HIDE DEF room
      <4> QED BY <4>1, <4>2, ReallocHolds
    <3>2. CASE ~ Full(vector)
      BY <1>2, <3>2 DEF Full
    <3> QED BY <3>1, <3>2
  <2>2. push = [set EXCEPT !.vec.size = IF set.res = "ok" THEN @ + 1 ELSE @]
    BY <1>1, <1>4
  <2>3. set = vector_set(room, vector.size, c)
    OBVIOUS
  <2> HIDE DEF room, set
  <2>4. CASE room.data = NULL
    <3>1. vector.size \notin DOMAIN room.data
      BY <2>4 DEF NULL
    <3>2. set = [res |-> "crash", vec |-> room]
      BY <1>2, <2>1, <2>3, <3>1 DEF vector_set
    <3>3. push = [res |-> "crash", vec |-> [room EXCEPT !.size = @]]
      BY <2>2, <3>2
    <3>4. room = [size |-> room.size, capacity |-> room.capacity, data |-> room.data]
      BY <2>1 DEF Holds
    <3>5. [room EXCEPT !.size = @] = room
      BY <3>4
    <3> QED BY <2>1, <2>4, <3>3, <3>5
  <2>5. CASE room.data # NULL
    <3> DEFINE data == [room.data EXCEPT ![room.size] = c]
               t    == Append(s, c)
    <3>1. /\ room = [size |-> room.size, capacity |-> room.capacity, data |-> room.data]
          /\ room.data = [k \in 0 .. room.capacity - 1 |-> room.data[k]]
          /\ \A k \in 1 .. room.size : room.data[k - 1] = s[k]
          /\ room.size \in 0 .. room.capacity - 1 /\ room.capacity \in Nat \ {0}
          /\ room.size = Len(s)
      BY <1>2, <2>1, <2>5 DEF Holds
    <3>2. vector.size = room.size /\ room.size \in DOMAIN room.data
      BY <2>1, <3>1
    <3>3. set = [res |-> "ok", vec |-> [room EXCEPT !.data[room.size] = c]]
      BY <1>2, <2>3, <3>2 DEF vector_set
    <3>4. [room EXCEPT !.data[room.size] = c] =
             [size |-> room.size, capacity |-> room.capacity, data |-> data]
      <4>1. [room EXCEPT !.data[room.size] = c] = [room EXCEPT !.data = data]
        OBVIOUS
      <4> HIDE DEF data
      <4> QED BY <3>1, <4>1
    <3>5. push = [res |-> "ok", vec |-> [size |-> room.size + 1, capacity |-> room.capacity, data |-> data]]
      BY ZenonT(30), <2>2, <3>3, <3>4
    <3>6. DOMAIN data = 0 .. room.capacity - 1 /\ data = [k \in 0 .. room.capacity - 1 |-> data[k]]
      BY <3>1
    <3>7. data # NULL
      BY <3>1, <3>6, NonNull
    <3>8. Len(t) = room.size + 1 /\ \A k \in 1 .. room.size + 1 : data[k - 1] = t[k]
      <4>1. Len(t) = room.size + 1
        BY <3>1
      <4>2. ASSUME NEW k \in 1 .. room.size, k # room.size + 1 PROVE data[k - 1] = t[k]
        <5>1. k - 1 \in 0 .. room.capacity - 1 /\ k - 1 # room.size /\ k \in 1 .. Len(s)
          BY <3>1
        <5>2. t[k] = s[k]
          BY <5>1
        <5>3. data[k - 1] = room.data[k - 1]
          BY <3>1, <5>1
        <5> QED BY <3>1, <5>2, <5>3
      <4>3. data[room.size] = c /\ t[room.size + 1] = c
        BY <3>1
      <4>4. \A k \in 1 .. room.size + 1 :
               \/ k # room.size + 1 /\ k \in 1 .. room.size
               \/ k = room.size + 1 /\ k - 1 = room.size
        BY <3>1
      <4> HIDE DEF data, t
      <4> QED BY <4>1, <4>2, <4>3, <4>4
    <3> HIDE DEF data, t
    <3>9. Holds(push.vec, t)
      <4>1. /\ push.vec.size = room.size + 1 /\ push.vec.capacity = room.capacity
            /\ push.vec.data = data
            /\ push.vec = [size |-> push.vec.size, capacity |-> push.vec.capacity,
                           data |-> push.vec.data]
        BY <3>5
      <4>2. room.size + 1 \in Nat /\ room.size + 1 <= room.capacity
        BY <3>1
      <4> QED BY <3>1, <3>6, <3>7, <3>8, <4>1, <4>2 DEF Holds
    <3> QED BY <2>1, <2>5, <3>5, <3>7, <3>9 DEF t
  <2> QED BY <2>4, <2>5
<1> QED BY <1>3, <1>4

\* A round of the loop finds the next element, or no memory.
LEMMA GetHolds ==
    ASSUME NEW vector, NEW s, Holds(vector, s), NEW i \in Nat, i < vector.size,
           NEW get, get = vector_get(vector, i, NoCallback)
    PROVE  IF vector.data = NULL THEN get = [res |-> "crash"]
           ELSE get = [res |-> "ok", element |-> s[i + 1]]
<1>1. vector.size \in Nat /\ vector.capacity \in Nat \ {0} /\ vector.size <= vector.capacity
  BY DEF Holds
<1>2. CASE vector.data = NULL
  <2>1. i \notin DOMAIN vector.data
    BY <1>2 DEF NULL
  <2> QED BY <1>1, <1>2, <2>1 DEF vector_get
<1>3. CASE vector.data # NULL
  <2>1. i \in DOMAIN vector.data
    BY <1>1, <1>3 DEF Holds
  <2>2. i + 1 \in 1 .. vector.size /\ (i + 1) - 1 = i
    BY <1>1
  <2>3. vector.data[i] = s[i + 1]
    BY <1>3, <2>2 DEF Holds
  <2> QED BY <1>1, <1>3, <2>1, <2>3 DEF vector_get
<1> QED BY <1>2, <1>3

-----------------------------------------------------------------------------
(* Hooks: the invariant of a state. *)

Elems == Callbacks \cup {NoCallback}

\* What IInv says of the vectors, the registrations and the faults.
VectorsSound ==
    /\ up \in BOOLEAN /\ lost \in BOOLEAN /\ faults \in 0 .. MaxFaults
    /\ registered \in [Events -> Seq(Elems)]
    /\ IF Ready
       THEN /\ vec = [e \in Events |-> vec[e]]
            /\ \A e \in Events : Holds(vec[e], registered[e])
            /\ faults = 0 => \A e \in Events : vec[e].data # NULL
       ELSE up /\ frames = << >> /\ registered = [e \in Events |-> << >>]
    /\ faults = 0 => up /\ ~ lost

\* And of the calls.
CallsSound == /\ frames \in Seq(FrameType) /\ Len(frames) <= MaxDepth
              /\ up => \A d \in DOMAIN frames : CallSound(d)
              /\ CalledInOrder

LEMMA HoldsType ==
    ASSUME NEW vector, NEW s, Holds(vector, s)
    PROVE  /\ vector.size \in 0 .. vector.capacity
           /\ DOMAIN vector.data \in {{}, 0 .. vector.capacity - 1}
BY DEF Holds, NULL

LEMMA IInvParts ==
    (IInv <=> VectorsSound /\ CallsSound) /\ (IInv' <=> VectorsSound' /\ CallsSound')
<1>1. IInv <=> VectorsSound /\ CallsSound
  <2>1. ASSUME VectorsSound, Ready PROVE TypeOK!2
    BY <2>1, HoldsType DEF VectorsSound
  <2> QED BY <2>1 DEF IInv, VectorsSound, CallsSound, TypeOK, Elems
<1>2. IInv' <=> VectorsSound' /\ CallsSound'
  <2>1. ASSUME VectorsSound', Ready' PROVE TypeOK!2'
    BY <2>1, HoldsType DEF VectorsSound
  <2> QED BY <2>1 DEF IInv, VectorsSound, CallsSound, TypeOK, Elems
<1> QED BY <1>1, <1>2

LEMMA FrameHasType ==
    ASSUME frames \in Seq(FrameType), NEW d \in DOMAIN frames
    PROVE  /\ frames[d] \in FrameType /\ frames[d].event \in Events /\ frames[d].i \in Nat
           /\ frames[d].called \in Seq(Callbacks)
           /\ frames[d].refused \in Nat /\ frames[d].done \in BOOLEAN
<1>1. frames[d] \in FrameType
  OBVIOUS
<1> QED BY <1>1 DEF FrameType

\* While the process lives, CalledInOrder follows from what each call has called.
LEMMA OrderFollows ==
    ASSUME \A d \in DOMAIN frames : CallSound(d)
    PROVE  CalledInOrder
<1> SUFFICES ASSUME NEW d \in DOMAIN frames,
                    NEW frame, frame = frames[d], NEW all, all = registered[frame.event]
             PROVE  /\ \E k \in 0 .. Len(all) : Calls(frame.called, all, k)
                    /\ frame.refused # 0 => Len(frame.called) = frame.refused
                    /\ d = Len(frames) /\ frame.done /\ frame.refused = 0 =>
                          Calls(frame.called, all, Len(all))
  BY DEF CalledInOrder
<1>1. /\ frame.i \in 0 .. Len(all)
      /\ Calls(frame.called, all, frame.i)
      /\ frame.refused # 0 => Len(frame.called) = frame.refused
      /\ frame.done /\ frame.refused = 0 => frame.i = Len(all)
  BY DEF CallSound
<1> QED BY <1>1

\* The same in the state after a step.
LEMMA OrderFollowsNext ==
    ASSUME \A d \in DOMAIN frames' : CallSound(d)'
    PROVE  CalledInOrder'
<1> SUFFICES ASSUME NEW d \in DOMAIN frames',
                    NEW frame, frame = frames'[d], NEW all, all = registered'[frame.event]
             PROVE  /\ \E k \in 0 .. Len(all) : Calls(frame.called, all, k)
                    /\ frame.refused # 0 => Len(frame.called) = frame.refused
                    /\ d = Len(frames') /\ frame.done /\ frame.refused = 0 =>
                          Calls(frame.called, all, Len(all))
  BY DEF CalledInOrder
<1>1. /\ frame.i \in 0 .. Len(all)
      /\ Calls(frame.called, all, frame.i)
      /\ frame.refused # 0 => Len(frame.called) = frame.refused
      /\ frame.done /\ frame.refused = 0 => frame.i = Len(all)
  BY DEF CallSound
<1> QED BY <1>1

-----------------------------------------------------------------------------
(* Hooks: the steps. *)

LEMMA InitIInv == HooksInit => IInv
<1> SUFFICES ASSUME HooksInit PROVE IInv
  OBVIOUS
<1>1. << >> \in Seq(FrameType) /\ << >> \in Seq(Elems) /\ DOMAIN << >> = {}
  OBVIOUS
<1>2. VectorsSound
  <2>1. up \in BOOLEAN /\ lost \in BOOLEAN /\ up /\ ~ lost
    BY DEF HooksInit
  <2>2. faults \in 0 .. MaxFaults
    BY HooksAssumption DEF HooksInit
  <2>3. ~ Ready /\ frames = << >> /\ registered = [e \in Events |-> << >>]
    BY DEF HooksInit, Ready
  <2>4. registered \in [Events -> Seq(Elems)]
    BY <1>1, <2>3
  <2> QED BY <2>1, <2>2, <2>3, <2>4 DEF VectorsSound
<1>3. CallsSound
  BY <1>1, HooksAssumption DEF HooksInit, CallsSound, CalledInOrder
<1> QED BY <1>2, <1>3, IInvParts

LEMMA ContextKeeps ==
    ASSUME IInv, NEW ok \in [Events -> BOOLEAN], hook_context_new(ok)
    PROVE  IInv'
<1> DEFINE failed == {e \in Events : ~ ok[e]}
<1>1. VectorsSound /\ CallsSound
  BY IInvParts
<1>2. /\ ~ Ready /\ faults' = faults + Cardinality(failed) /\ faults' <= MaxFaults
      /\ vec' = [e \in Events |-> vector_new(ok[e])]
      /\ UNCHANGED << up, frames, registered, lost >>
  BY DEF hook_context_new
<1>3. IsFiniteSet(failed)
  BY HooksAssumption, FS_Subset
<1> HIDE DEF failed
<1>4. Cardinality(failed) \in Nat /\ (Cardinality(failed) = 0 => failed = {})
  BY <1>3, FS_CardinalityType, FS_EmptySet
<1>5. faults \in Nat /\ MaxFaults \in Nat
  BY <1>1, HooksAssumption DEF VectorsSound
<1>6. faults' \in 0 .. MaxFaults /\ (faults' = 0 => faults = 0 /\ failed = {})
  BY <1>2, <1>4, <1>5
<1>7. \A e \in Events : /\ vec'[e] = vector_new(ok[e]) /\ registered[e] = << >>
                        /\ Holds(vector_new(ok[e]), << >>)
                        /\ ok[e] => vector_new(ok[e]).data # NULL
  BY <1>1, <1>2, NewHolds DEF VectorsSound
<1>8. /\ vec' = [e \in Events |-> vec'[e]]
      /\ \A e \in Events : Holds(vec'[e], registered'[e])
      /\ faults' = 0 => \A e \in Events : vec'[e].data # NULL
  BY <1>2, <1>6, <1>7 DEF failed
<1>9. VectorsSound'
  BY <1>1, <1>2, <1>6, <1>8 DEF VectorsSound
<1>10. CallsSound'
  BY <1>1, <1>2 DEF CallsSound, CallSound, CalledInOrder
<1> QED BY <1>9, <1>10, IInvParts

LEMMA ContextFailsKeeps ==
    ASSUME IInv, ContextFails
    PROVE  IInv'
<1>1. VectorsSound /\ CallsSound
  BY IInvParts
<1>2. faults' = faults + 1 /\ faults' <= MaxFaults /\ ~ Ready /\ UNCHANGED << up, vec, frames, registered, lost >>
  BY DEF ContextFails, Allocate
<1>3. VectorsSound'
  BY <1>1, <1>2, HooksAssumption DEF VectorsSound, Ready
<1>4. CallsSound'
  BY <1>1, <1>2 DEF CallsSound, CallSound, CalledInOrder
<1> QED BY <1>3, <1>4, IInvParts

LEMMA DeregisterKeeps ==
    ASSUME IInv, NEW event \in Events, NEW callback, Deregister(event, callback)
    PROVE  IInv'
<1>1. VectorsSound /\ CallsSound
  BY IInvParts
<1>2. vec' = [vec EXCEPT ![event] = vec[event]] /\ UNCHANGED << up, frames, registered, lost, faults >>
  BY DEF Deregister, vector_delete
<1>3. vec' = vec
  BY <1>1, <1>2 DEF VectorsSound, Deregister
<1>4. VectorsSound'
  BY <1>1, <1>2, <1>3 DEF VectorsSound, Ready
<1>5. CallsSound'
  BY <1>1, <1>2 DEF CallsSound, CallSound, CalledInOrder
<1> QED BY <1>4, <1>5, IInvParts

LEMMA RegisterKeeps ==
    ASSUME IInv, NEW event \in Events, NEW callback \in Elems, NEW ok \in BOOLEAN,
           Register(event, callback, ok)
    PROVE  IInv'
<1> DEFINE push == vector_push_back(vec[event], callback, ok)
<1>1. VectorsSound /\ CallsSound
  BY IInvParts
<1>2. /\ up /\ Ready /\ Running
      /\ Full(vec[event]) \/ ok
      /\ Allocate(ok)
      /\ up' = (push.res # "crash")
      /\ vec' = [vec EXCEPT ![event] = push.vec]
      /\ registered' = IF push.res = "ok"
                       THEN [registered EXCEPT ![event] = Append(@, callback)]
                       ELSE registered
      /\ lost' = (lost \/ push.res = "error")
      /\ UNCHANGED frames
  BY DEF Register
<1>3. /\ vec = [e \in Events |-> vec[e]]
      /\ \A e \in Events : Holds(vec[e], registered[e])
      /\ faults = 0 => \A e \in Events : vec[e].data # NULL
      /\ registered \in [Events -> Seq(Elems)]
  BY <1>1, <1>2 DEF VectorsSound
<1>4. \/ push.res = "ok" /\ vec[event].data # NULL /\ push.vec.data # NULL
         /\ Holds(push.vec, Append(registered[event], callback))
      \/ push.res = "error" /\ ~ ok /\ Holds(push.vec, registered[event])
      \/ push.res = "crash" /\ vec[event].data = NULL /\ Holds(push.vec, registered[event])
         /\ push.vec.data = NULL
  BY <1>2, <1>3, PushHolds
<1> HIDE DEF push
<1>5. /\ faults' \in 0 .. MaxFaults
      /\ faults' = 0 => faults = 0 /\ ok
  BY <1>1, <1>2, HooksAssumption DEF VectorsSound, Allocate
<1>6. /\ vec' = [e \in Events |-> vec'[e]]
      /\ \A e \in Events : vec'[e] = IF e = event THEN push.vec ELSE vec[e]
      /\ \A e \in Events : registered'[e] =
            IF e = event /\ push.res = "ok" THEN Append(registered[e], callback) ELSE registered[e]
      /\ registered' \in [Events -> Seq(Elems)]
  <2>1. Append(registered[event], callback) \in Seq(Elems)
    BY <1>3
  <2>2. vec' = [e \in Events |-> IF e = event THEN push.vec ELSE vec[e]]
    BY <1>2, <1>3
  <2>3. CASE push.res = "ok"
    BY <1>2, <1>3, <2>1, <2>2, <2>3
  <2>4. CASE push.res # "ok"
    BY <1>2, <1>3, <2>2, <2>4
  <2> QED BY <2>3, <2>4
<1>7. \A e \in Events : Holds(vec'[e], registered'[e])
  BY <1>3, <1>4, <1>6
<1>8. faults' = 0 => push.res = "ok" /\ \A e \in Events : vec'[e].data # NULL
  BY <1>3, <1>4, <1>5, <1>6
<1>9. Ready'
  <2>1. DOMAIN vec' = Events /\ event \in Events /\ DOMAIN << >> = {}
    BY <1>6
  <2> QED BY <2>1 DEF Ready
<1>10. VectorsSound'
  <2>1. up' \in BOOLEAN /\ lost' \in BOOLEAN
    BY <1>2
  <2>2. faults' = 0 => up' /\ ~ lost'
    <3>1. faults = 0 => ~ lost
      BY <1>1 DEF VectorsSound
    <3> QED BY <1>2, <1>5, <1>8, <3>1
  <2> QED BY <1>5, <1>6, <1>7, <1>8, <1>9, <2>1, <2>2 DEF VectorsSound
<1>11. CASE push.res = "ok"
  <2>1. \A d \in DOMAIN frames : /\ frames[d].event \in Events /\ frames[d].i \in Nat
                                 /\ frames[d].done \in BOOLEAN
    BY <1>1, FrameHasType DEF CallsSound
  <2>2. ASSUME NEW d \in DOMAIN frames PROVE CallSound(d)'
    <3> DEFINE e   == frames[d].event
               all == registered[e]
               allNext == registered'[e]
    <3>1. CallSound(d)
      BY <1>1, <1>2, <2>2 DEF CallsSound
    <3>2. ~ frames[d].done
      <4>1. frames[d].done => d = Len(frames)
        BY <3>1 DEF CallSound
      <4>2. ~ frames[Len(frames)].done
        BY <1>1, <1>2, <2>2 DEF Running, Last, CallsSound
      <4> QED BY <4>1, <4>2
    <3>3. e \in Events /\ all \in Seq(Elems) /\ frames[d].i \in 0 .. Len(all)
      BY <1>3, <2>1, <3>1 DEF CallSound
    <3>4. /\ frames[d].i \in 0 .. Len(allNext)
          /\ \A j \in 1 .. frames[d].i : all[j] = allNext[j]
      <4>1. CASE e = event
        <5>1. allNext = Append(all, callback)
          BY <1>6, <1>11, <3>3, <4>1
        <5> HIDE DEF all, allNext
        <5> QED BY <3>3, <5>1
      <4>2. CASE e # event
        <5>1. allNext = all
          BY <1>6, <3>3, <4>2
        <5> HIDE DEF all, allNext
        <5> QED BY <3>3, <5>1
      <4> QED BY <4>1, <4>2
    <3>5. Calls(frames[d].called, all, frames[d].i)
      BY <3>1 DEF CallSound
    <3>6. Calls(frames[d].called, allNext, frames[d].i)
      <4> HIDE DEF all, allNext
      <4> QED BY <2>1, <3>4, <3>5, CallsLocal
    <3> QED BY <1>2, <3>1, <3>2, <3>4, <3>6 DEF CallSound
  <2>3. CallsSound'
    BY <1>1, <1>2, <2>2, OrderFollowsNext DEF CallsSound
  <2> QED BY <1>10, <2>3, IInvParts
<1>12. CASE push.res # "ok"
  <2>1. UNCHANGED << frames, registered >>
    BY <1>2, <1>12
  <2>2. CallsSound'
    BY <1>1, <1>2, <2>1 DEF CallsSound, CallSound, CalledInOrder
  <2> QED BY <1>10, <2>2, IInvParts
<1> QED BY <1>11, <1>12

\* A step that changes only the top call, or takes it away, leaves the vectors.
LEMMA VectorsKept ==
    ASSUME VectorsSound, Ready, up' = up, UNCHANGED << vec, registered, lost, faults >>
    PROVE  VectorsSound'
BY DEF VectorsSound, Ready

LEMMA AnnounceKeeps ==
    ASSUME IInv, NEW event \in Events, Announce(event)
    PROVE  IInv'
<1>1. VectorsSound /\ CallsSound
  BY IInvParts
<1> DEFINE new == [event |-> event, i |-> 0, called |-> << >>, done |-> FALSE, refused |-> 0]
<1>2. /\ up /\ Ready /\ Running /\ Len(frames) < MaxDepth
      /\ frames' = Append(frames, new)
      /\ UNCHANGED << up, vec, registered, lost, faults >>
  BY DEF Announce
<1>3. VectorsSound'
  BY <1>1, <1>2, VectorsKept
<1>4. new \in FrameType
  BY DEF FrameType
<1>5. frames \in Seq(FrameType)
  BY <1>1 DEF CallsSound
<1>6. /\ new.event = event /\ new.i = 0 /\ new.called = << >> /\ ~ new.done /\ new.refused = 0
  OBVIOUS
<1> HIDE DEF new
<1>7. /\ frames' \in Seq(FrameType) /\ Len(frames') = Len(frames) + 1
      /\ \A d \in 1 .. Len(frames) : frames'[d] = frames[d]
      /\ frames'[Len(frames) + 1] = new
  BY <1>2, <1>4, <1>5
<1>8. ASSUME NEW d \in DOMAIN frames' PROVE CallSound(d)'
  <2>1. CASE d = Len(frames) + 1
    <3>1. registered[event] \in Seq(Elems)
      BY <1>1 DEF VectorsSound
    <3>2. 0 \in 0 .. Len(registered[event])
      BY <3>1
    <3>3. Calls(<< >>, registered[event], 0)
      BY NothingCalled
    <3> QED BY <1>2, <1>6, <1>7, <2>1, <3>2, <3>3 DEF CallSound
  <2>2. CASE d # Len(frames) + 1
    <3>1. d \in 1 .. Len(frames) /\ d \in DOMAIN frames
      BY <1>5, <1>7, <2>2
    <3>2. CallSound(d)
      BY <1>1, <1>2, <3>1 DEF CallsSound
    <3>3. ~ frames[d].done
      <4>1. frames[d].done => d = Len(frames)
        BY <3>2 DEF CallSound
      <4>2. ~ frames[Len(frames)].done
        BY <1>2, <1>5, <3>1 DEF Running, Last
      <4> QED BY <4>1, <4>2
    <3> QED BY <1>2, <1>7, <3>1, <3>2, <3>3 DEF CallSound
  <2> QED BY <2>1, <2>2
<1>9. CallsSound'
  BY <1>1, <1>2, <1>5, <1>7, <1>8, HooksAssumption, OrderFollowsNext DEF CallsSound
<1> QED BY <1>3, <1>9, IInvParts

\* The calls below the top one.
LEMMA FrontFrames ==
    ASSUME frames \in Seq(FrameType), frames # << >>,
           NEW front, front = SubSeq(frames, 1, Len(frames) - 1)
    PROVE  /\ front \in Seq(FrameType) /\ Len(front) = Len(frames) - 1
           /\ \A d \in 1 .. Len(frames) - 1 : front[d] = frames[d]
<1>1. Len(frames) \in Nat \ {0} /\ \A d \in 1 .. Len(frames) - 1 : frames[d] \in FrameType
  OBVIOUS
<1>2. /\ front \in Seq(FrameType)
      /\ Len(front) = IF 1 <= Len(frames) - 1 THEN (Len(frames) - 1) - 1 + 1 ELSE 0
      /\ \A d \in 1 .. (Len(frames) - 1) - 1 + 1 : front[d] = frames[1 + d - 1]
  <2>1. 1 \in Int /\ Len(frames) - 1 \in Int
    BY <1>1
  <2> QED BY <1>1, <2>1, SubSeqProperties
<1>3. \A d \in 1 .. Len(frames) - 1 : d \in 1 .. (Len(frames) - 1) - 1 + 1 /\ 1 + d - 1 = d
  BY <1>1
<1>4. Len(front) = Len(frames) - 1
  <2>1. \A n \in Nat \ {0} : (IF 1 <= n - 1 THEN (n - 1) - 1 + 1 ELSE 0) = n - 1
    OBVIOUS
  <2> DEFINE length == Len(front)
  <2>2. length = IF 1 <= Len(frames) - 1 THEN (Len(frames) - 1) - 1 + 1 ELSE 0
    BY <1>2
  <2> HIDE DEF length
  <2>3. length = Len(frames) - 1
    BY <1>1, <2>1, <2>2, Zenon
  <2> QED BY <2>3 DEF length
<1>5. ASSUME NEW d \in 1 .. Len(frames) - 1 PROVE front[d] = frames[d]
  <2>1. front[d] = frames[1 + d - 1]
    BY <1>2, <1>3
  <2> QED BY <1>3, <2>1
<1> QED BY <1>2, <1>4, <1>5

LEMMA TopReplaced ==
    ASSUME frames \in Seq(FrameType), frames # << >>, NEW f \in FrameType, ReplaceTop(f)
    PROVE  /\ frames' \in Seq(FrameType) /\ Len(frames') = Len(frames) /\ frames' # << >>
           /\ Len(frames) \in Nat \ {0}
           /\ \A d \in 1 .. Len(frames) : frames'[d] = IF d = Len(frames) THEN f ELSE frames[d]
<1> DEFINE front == SubSeq(frames, 1, Len(frames) - 1)
<1>1. Len(frames) \in Nat \ {0}
  OBVIOUS
<1>2. /\ front \in Seq(FrameType) /\ Len(front) = Len(frames) - 1
      /\ \A d \in 1 .. Len(frames) - 1 : front[d] = frames[d]
  BY FrontFrames
<1>3. frames' = Append(front, f)
  BY DEF ReplaceTop, Front
<1> HIDE DEF front
<1> QED BY <1>1, <1>2, <1>3

\* A call from its fields, and one field of it changed: kept opaque, so that
\* several changes are made one after the other.
Call(e, i, called, done, refused) ==
    [event |-> e, i |-> i, called |-> called, done |-> done, refused |-> refused]

WithI(f, x)       == [f EXCEPT !.i = x]
WithCalled(f, x)  == [f EXCEPT !.called = x]
WithDone(f, x)    == [f EXCEPT !.done = x]
WithRefused(f, x) == [f EXCEPT !.refused = x]

LEMMA ChangedField ==
    ASSUME NEW e, NEW i, NEW called, NEW done, NEW refused, NEW x
    PROVE  /\ WithI(Call(e, i, called, done, refused), x) = Call(e, x, called, done, refused)
           /\ WithCalled(Call(e, i, called, done, refused), x) = Call(e, i, x, done, refused)
           /\ WithDone(Call(e, i, called, done, refused), x) = Call(e, i, called, x, refused)
           /\ WithRefused(Call(e, i, called, done, refused), x) = Call(e, i, called, done, x)
BY DEF Call, WithI, WithCalled, WithDone, WithRefused

LEMMA ChangedFields ==
    ASSUME NEW e, NEW i, NEW called, NEW done, NEW refused, NEW f,
           f = [event |-> e, i |-> i, called |-> called, done |-> done, refused |-> refused],
           NEW i2, NEW called2, NEW done2, NEW refused2
    PROVE  [f EXCEPT !.i = i2, !.called = called2, !.done = done2, !.refused = refused2] =
                 [event |-> e, i |-> i2, called |-> called2, done |-> done2, refused |-> refused2]
<1>1. [f EXCEPT !.i = i2, !.called = called2, !.done = done2, !.refused = refused2]
         = WithRefused(WithDone(WithCalled(WithI(f, i2), called2), done2), refused2)
  BY DEF WithI, WithCalled, WithDone, WithRefused
<1>2. f = Call(e, i, called, done, refused)
  BY DEF Call
<1>3. WithI(f, i2) = Call(e, i2, called, done, refused)
  BY <1>2, ChangedField
<1>4. WithCalled(WithI(f, i2), called2) = Call(e, i2, called2, done, refused)
  BY <1>3, ChangedField
<1>5. WithDone(WithCalled(WithI(f, i2), called2), done2) = Call(e, i2, called2, done2, refused)
  BY <1>4, ChangedField
<1>6. WithRefused(WithDone(WithCalled(WithI(f, i2), called2), done2), refused2) =
         Call(e, i2, called2, done2, refused2)
  BY <1>5, ChangedField
<1> QED BY <1>1, <1>6 DEF Call

LEMMA ChangedDone ==
    ASSUME NEW e, NEW i, NEW called, NEW done, NEW refused, NEW f, NEW done2,
           f = [event |-> e, i |-> i, called |-> called, done |-> done, refused |-> refused]
    PROVE  [f EXCEPT !.done = done2] =
              [event |-> e, i |-> i, called |-> called, done |-> done2, refused |-> refused]
OBVIOUS

\* The conditions on the top call, as it is after a round.
TopSound(f) ==
    LET all == registered[f.event] IN
    /\ f.i \in 0 .. Len(all)
    /\ Calls(f.called, all, f.i)
    /\ ~ f.done => f.refused = 0
    /\ f.refused # 0 => Len(f.called) = f.refused
    /\ f.done /\ f.refused = 0 => f.i = Len(all)

LEMMA TopKeeps ==
    ASSUME CallsSound, up, frames # << >>, NEW f \in FrameType, ReplaceTop(f),
           UNCHANGED registered, TopSound(f)
    PROVE  CallsSound'
<1>1. /\ frames' \in Seq(FrameType) /\ Len(frames') = Len(frames) /\ frames' # << >>
      /\ Len(frames) \in Nat \ {0} /\ frames \in Seq(FrameType)
      /\ \A d \in 1 .. Len(frames) : frames'[d] = IF d = Len(frames) THEN f ELSE frames[d]
  BY TopReplaced DEF CallsSound
<1>2. ASSUME NEW d \in DOMAIN frames' PROVE CallSound(d)'
  <2>1. d \in DOMAIN frames /\ d \in 1 .. Len(frames)
    BY <1>1
  <2>2. CASE d = Len(frames)
    BY <1>1, <2>1, <2>2 DEF TopSound, CallSound
  <2>3. CASE d # Len(frames)
    <3>1. CallSound(d) /\ frames'[d] = frames[d]
      BY <1>1, <2>1, <2>3 DEF CallsSound
    <3> QED BY <1>1, <3>1 DEF CallSound
  <2> QED BY <2>2, <2>3
<1> QED BY <1>1, <1>2, OrderFollowsNext DEF CallsSound

\* Before a round, the top call is sound and not done.
LEMMA TopBefore ==
    ASSUME VectorsSound, CallsSound, up, frames # << >>, ~ Top.done
    PROVE  /\ Top \in FrameType /\ TopSound(Top) /\ Top.refused = 0 /\ Ready
           /\ Top = [event |-> Top.event, i |-> Top.i, called |-> Top.called, done |-> Top.done,
                     refused |-> Top.refused]
           /\ Holds(vec[Top.event], registered[Top.event])
           /\ registered[Top.event] \in Seq(Elems)
<1>1. frames \in Seq(FrameType) /\ Len(frames) \in DOMAIN frames /\ Top = frames[Len(frames)]
  BY DEF CallsSound, Top, Last
<1>2. Top \in FrameType /\ CallSound(Len(frames))
  BY <1>1 DEF CallsSound
<1>3. TopSound(Top) /\ Top.refused = 0
  BY <1>1, <1>2 DEF CallSound, TopSound
<1>4. Ready /\ Top.event \in Events
  BY <1>2 DEF VectorsSound, FrameType
<1>5. Top = [event |-> Top.event, i |-> Top.i, called |-> Top.called, done |-> Top.done,
             refused |-> Top.refused]
  BY <1>2 DEF FrameType
<1> QED BY <1>2, <1>3, <1>4, <1>5 DEF VectorsSound

LEMMA CallNextKeeps ==
    ASSUME IInv, NEW cb_ret \in {-1, 0}, CallNext(cb_ret)
    PROVE  IInv'
<1>1. VectorsSound /\ CallsSound
  BY IInvParts
<1> DEFINE get  == vector_get(vec[Top.event], Top.i, NoCallback)
           all  == registered[Top.event]
           more == [Top EXCEPT !.i = @ + 1, !.called = Append(@, get.element), !.done = cb_ret < 0,
                               !.refused = IF cb_ret < 0 THEN Len(Top.called) + 1 ELSE 0]
           next == [Top EXCEPT !.i = @ + 1]
<1>2. /\ up /\ frames # << >> /\ ~ Top.done
      /\ Top.i < vec[Top.event].size
      /\ up' = (get.res # "crash" /\ get.element # Junk)
      /\ IF up' /\ get.element # NoCallback THEN ReplaceTop(more) ELSE ReplaceTop(next)
      /\ UNCHANGED << vec, registered, lost, faults >>
  BY DEF CallNext
<1>3. /\ Top \in FrameType /\ TopSound(Top) /\ Top.refused = 0 /\ Ready
      /\ Top = [event |-> Top.event, i |-> Top.i, called |-> Top.called, done |-> Top.done,
                refused |-> Top.refused]
      /\ Holds(vec[Top.event], all) /\ all \in Seq(Elems)
  BY <1>1, <1>2, TopBefore
<1>4. Top.i \in Nat /\ Top.event \in Events /\ Top.called \in Seq(Callbacks)
      /\ vec[Top.event].size = Len(all) /\ Calls(Top.called, all, Top.i)
  BY <1>3 DEF FrameType, TopSound, Holds
<1>5. IF vec[Top.event].data = NULL THEN get = [res |-> "crash"]
      ELSE get = [res |-> "ok", element |-> all[Top.i + 1]]
  BY <1>2, <1>3, <1>4, GetHolds
<1>6. Top.i + 1 \in 0 .. Len(all) /\ all[Top.i + 1] \in Elems
  BY <1>2, <1>3, <1>4
<1>7. next = [event |-> Top.event, i |-> Top.i + 1, called |-> Top.called, done |-> Top.done,
              refused |-> Top.refused]
  BY <1>3
<1>8. next \in FrameType
  BY <1>3, <1>4, <1>7 DEF FrameType
<1>9. CASE vec[Top.event].data = NULL
  <2>1. ~ up' /\ up' = FALSE /\ ReplaceTop(next)
    <3>1. get.res = "crash"
      BY <1>5, <1>9
    <3> HIDE DEF get, next
    <3> QED BY <1>2, <3>1
  <2>2. VectorsSound'
    <3>1. faults # 0
      BY <1>1, <1>3, <1>4, <1>9 DEF VectorsSound
    <3> QED BY <1>1, <1>2, <1>3, <2>1, <3>1 DEF VectorsSound, Ready
  <2>3. /\ frames' \in Seq(FrameType) /\ Len(frames') = Len(frames) /\ frames' # << >>
        /\ Len(frames) \in Nat \ {0} /\ frames \in Seq(FrameType)
        /\ \A d \in 1 .. Len(frames) : frames'[d] = IF d = Len(frames) THEN next ELSE frames[d]
    <3> HIDE DEF next
    <3> QED BY <1>1, <1>2, <1>8, <2>1, TopReplaced DEF CallsSound
  <2>4. CalledInOrder'
    <3>1. /\ next.event = Top.event /\ next.called = Top.called /\ next.refused = 0 /\ ~ next.done
      BY <1>2, <1>3, <1>7
    <3>2. Top.i \in 0 .. Len(all)
      BY <1>3 DEF TopSound
    <3> HIDE DEF next
    <3> SUFFICES ASSUME NEW d \in DOMAIN frames',
                        NEW frame, frame = frames'[d],
                        NEW regs, regs = registered[frame.event]
                 PROVE  /\ \E k \in 0 .. Len(regs) : Calls(frame.called, regs, k)
                        /\ frame.refused # 0 => Len(frame.called) = frame.refused
                        /\ d = Len(frames') /\ frame.done /\ frame.refused = 0 =>
                              Calls(frame.called, regs, Len(regs))
      BY <1>2 DEF CalledInOrder
    <3>3. d \in 1 .. Len(frames) /\ d \in DOMAIN frames
      BY <2>3
    <3>4. CASE d = Len(frames)
      <4>1. frame = next
        BY <2>3, <3>3, <3>4
      <4> QED BY <1>4, <3>1, <3>2, <4>1
    <3>5. CASE d # Len(frames)
      <4>1. frame = frames[d]
        BY <2>3, <3>3, <3>5
      <4> QED BY <1>1, <2>3, <3>3, <3>5, <4>1 DEF CallsSound, CalledInOrder
    <3> QED BY <3>4, <3>5
  <2>5. CallsSound'
    BY <1>1, <2>1, <2>3, <2>4 DEF CallsSound
  <2> QED BY <2>2, <2>5, IInvParts
<1>10. CASE vec[Top.event].data # NULL
  <2>1. get.res = "ok" /\ get.element = all[Top.i + 1]
    BY <1>5, <1>10
  <2>2. up' = TRUE /\ up = TRUE
    BY <1>1, <1>2, <1>6, <2>1, HooksAssumption DEF Elems, VectorsSound
  <2>3. VectorsSound'
    BY <1>1, <1>2, <1>3, <2>2, VectorsKept
  <2>4. CASE all[Top.i + 1] = NoCallback
    <3>1. ReplaceTop(next)
      BY <1>2, <2>1, <2>4
    <3>2. Calls(Top.called, all, Top.i + 1)
      <4> HIDE DEF all
      <4> QED BY <1>4, <2>4, CallsSkipNull
    <3>3. TopSound(next)
      BY <1>2, <1>3, <1>6, <1>7, <3>2 DEF TopSound
    <3>4. CallsSound'
      <4> HIDE DEF next
      <4> QED BY <1>1, <1>2, <1>8, <3>1, <3>3, TopKeeps
    <3> QED BY <2>3, <3>4, IInvParts
  <2>5. CASE all[Top.i + 1] # NoCallback
    <3> DEFINE c == all[Top.i + 1]
               refused == IF cb_ret < 0 THEN Len(Top.called) + 1 ELSE 0
    <3>1. ReplaceTop(more) /\ c \in Callbacks
      BY <1>2, <1>6, <2>1, <2>2, <2>5 DEF Elems
    <3>2. more = [event |-> Top.event, i |-> Top.i + 1, called |-> Append(Top.called, c),
                  done |-> cb_ret < 0, refused |-> refused]
      <4>1. get.element = c /\ more = [Top EXCEPT !.i = Top.i + 1, !.called = Append(Top.called, get.element),
                                       !.done = cb_ret < 0, !.refused = refused]
        BY <2>1
      <4> HIDE DEF get, more, c, refused
      <4> QED BY <1>3, <4>1, ChangedFields
    <3>3. refused \in Nat /\ Append(Top.called, c) \in Seq(Callbacks) /\ (cb_ret < 0) \in BOOLEAN
          /\ Len(Append(Top.called, c)) = Len(Top.called) + 1
      BY <1>4, <3>1
    <3>4. more \in FrameType
      <4> DEFINE fails == cb_ret < 0
      <4>1. fails \in BOOLEAN /\ more = [event |-> Top.event, i |-> Top.i + 1,
               called |-> Append(Top.called, c), done |-> fails, refused |-> refused]
        BY <3>2
      <4> HIDE DEF more, c, refused, fails
      <4> QED BY <1>4, <3>3, <4>1 DEF FrameType
    <3>5. Calls(Append(Top.called, c), all, Top.i + 1)
      <4>1. all[Top.i + 1] = c
        OBVIOUS
      <4> HIDE DEF all, c
      <4> QED BY <1>4, <2>5, <3>1, <4>1, CallsOneMore
    <3>6. TopSound(more)
      <4>1. refused # 0 <=> cb_ret < 0
        BY <1>4
      <4>2. refused # 0 => refused = Len(Top.called) + 1
        OBVIOUS
      <4>3. /\ more.event = Top.event /\ more.i = Top.i + 1 /\ more.called = Append(Top.called, c)
            /\ more.done <=> cb_ret < 0
            /\ more.refused = refused
        BY <3>2
      <4> HIDE DEF more, refused, c
      <4> QED BY <1>6, <3>3, <3>5, <4>1, <4>2, <4>3 DEF TopSound
    <3>7. CallsSound'
      <4> HIDE DEF more
      <4> QED BY <1>1, <1>2, <3>1, <3>4, <3>6, TopKeeps
    <3> QED BY <2>3, <3>7, IInvParts
  <2> QED BY <2>4, <2>5
<1> QED BY <1>9, <1>10

LEMMA LoopEndsKeeps ==
    ASSUME IInv, LoopEnds
    PROVE  IInv'
<1>1. VectorsSound /\ CallsSound
  BY IInvParts
<1> DEFINE f == [Top EXCEPT !.done = TRUE]
<1>2. /\ up /\ frames # << >> /\ ~ Top.done /\ Top.i >= vec[Top.event].size
      /\ ReplaceTop(f) /\ UNCHANGED << up, vec, registered, lost, faults >>
  BY DEF LoopEnds
<1>3. /\ Top \in FrameType /\ TopSound(Top) /\ Top.refused = 0 /\ Ready
      /\ Top = [event |-> Top.event, i |-> Top.i, called |-> Top.called, done |-> Top.done,
                refused |-> Top.refused]
      /\ Holds(vec[Top.event], registered[Top.event])
      /\ registered[Top.event] \in Seq(Elems)
  BY <1>1, <1>2, TopBefore
<1>4. f = [event |-> Top.event, i |-> Top.i, called |-> Top.called, done |-> TRUE,
           refused |-> Top.refused]
  <2> DEFINE yes == TRUE
  <2>1. f = [Top EXCEPT !.done = yes]
    OBVIOUS
  <2> HIDE DEF yes, f
  <2>2. f = [event |-> Top.event, i |-> Top.i, called |-> Top.called, done |-> yes,
             refused |-> Top.refused]
    BY <1>3, <2>1, ChangedDone
  <2> QED BY <2>2 DEF yes
<1>5. f \in FrameType
  BY <1>3, <1>4 DEF FrameType
<1>6. Top.i = Len(registered[Top.event])
  BY <1>2, <1>3 DEF TopSound, Holds
<1>7. TopSound(f)
  BY <1>3, <1>4, <1>6 DEF TopSound
<1> HIDE DEF f
<1>8. CallsSound'
  BY <1>1, <1>2, <1>5, <1>7, TopKeeps
<1>9. VectorsSound'
  BY <1>1, <1>2, <1>3, VectorsKept
<1> QED BY <1>8, <1>9, IInvParts

LEMMA ReturnKeeps ==
    ASSUME IInv, HookReturns
    PROVE  IInv'
<1>1. VectorsSound /\ CallsSound
  BY IInvParts
<1>2. up /\ frames # << >> /\ Top.done /\ UNCHANGED << up, vec, registered, lost, faults >>
      /\ frames' = SubSeq(frames, 1, Len(frames) - 1)
  BY DEF HookReturns, Front
<1>3. frames \in Seq(FrameType) /\ Len(frames) \in Nat \ {0} /\ Len(frames) <= MaxDepth
  BY <1>1, <1>2 DEF CallsSound
<1>4. /\ frames' \in Seq(FrameType) /\ Len(frames') = Len(frames) - 1
      /\ \A d \in 1 .. Len(frames) - 1 : frames'[d] = frames[d]
  BY <1>2, <1>3, FrontFrames
<1>5. ASSUME NEW d \in DOMAIN frames' PROVE CallSound(d)'
  <2>1. d \in DOMAIN frames /\ d \in 1 .. Len(frames) - 1 /\ d # Len(frames)
    BY <1>3, <1>4
  <2>2. CallSound(d) /\ frames'[d] = frames[d]
    BY <1>1, <1>2, <1>4, <2>1 DEF CallsSound
  <2>3. ~ frames[d].done
    BY <2>1, <2>2 DEF CallSound
  <2> QED BY <1>2, <2>2, <2>3 DEF CallSound
<1>6. CallsSound'
  BY <1>3, <1>4, <1>5, HooksAssumption, OrderFollowsNext DEF CallsSound
<1>7. VectorsSound'
  BY <1>1, <1>2, VectorsKept DEF VectorsSound
<1> QED BY <1>6, <1>7, IInvParts

LEMMA StutterKeeps ==
    ASSUME IInv, UNCHANGED hooksVars
    PROVE  IInv'
<1>1. VectorsSound /\ CallsSound
  BY IInvParts
<1>2. VectorsSound'
  BY <1>1 DEF hooksVars, VectorsSound, Ready
<1>3. CallsSound'
  BY <1>1 DEF hooksVars, CallsSound, CallSound, CalledInOrder
<1> QED BY <1>2, <1>3, IInvParts

LEMMA NextKeeps == IInv /\ [HooksNext]_hooksVars => IInv'
<1> SUFFICES ASSUME IInv, [HooksNext]_hooksVars PROVE IInv'
  OBVIOUS
<1>1. ASSUME NEW ok \in [Events -> BOOLEAN], hook_context_new(ok) PROVE IInv'
  BY <1>1, ContextKeeps
<1>2. CASE ContextFails
  BY <1>2, ContextFailsKeeps
<1>3. ASSUME NEW e \in Events, NEW c \in Callbacks \cup {NoCallback}, NEW ok \in BOOLEAN,
             Register(e, c, ok)
      PROVE  IInv'
  BY <1>3, RegisterKeeps DEF Elems
<1>4. ASSUME NEW e \in Events, NEW c, Deregister(e, c) PROVE IInv'
  BY <1>4, DeregisterKeeps
<1>5. ASSUME NEW e \in Events, Announce(e) PROVE IInv'
  BY <1>5, AnnounceKeeps
<1>6. ASSUME NEW cb_ret \in {-1, 0}, CallNext(cb_ret) PROVE IInv'
  BY <1>6, CallNextKeeps
<1>7. CASE LoopEnds
  BY <1>7, LoopEndsKeeps
<1>8. CASE HookReturns
  BY <1>8, ReturnKeeps
<1>9. CASE UNCHANGED hooksVars
  BY <1>9, StutterKeeps
<1> QED BY <1>1, <1>2, <1>3, <1>4, <1>5, <1>6, <1>7, <1>8, <1>9 DEF HooksNext

LEMMA Invariance == HooksSpec => []IInv
BY InitIInv, NextKeeps, PTL DEF HooksSpec

-----------------------------------------------------------------------------
(* The theorems about Hooks. *)

\* Every vector's size is within its capacity and its memory is for the capacity or
\* missing.
THEOREM TypeCorrectness == HooksSpec => []TypeOK
<1>1. IInv => TypeOK
  BY DEF IInv
<1> QED BY <1>1, Invariance, PTL

\* An event reaches its callbacks in the order of their registration, each once, up
\* to the first that returns an error and otherwise all of them, whatever is
\* registered and announced while they run (hook.c:87-105).
THEOREM EventsReachTheirCallbacks == HooksSpec => []CalledInOrder
<1>1. IInv => CalledInOrder
  BY DEF IInv
<1> QED BY <1>1, Invariance, PTL

\* With memory the process survives and no callback is lost, and a vector that has
\* memory holds what was registered, however often it grew and whoever was reading
\* it (vector.c:63-76 and :93-106).
THEOREM CallbacksAreKept == HooksSpec => []NothingLostWithMemory
<1>1. ASSUME IInv PROVE NothingLostWithMemory
  <2>1. VectorsSound
    BY <1>1, IInvParts
  <2>2. ASSUME Ready, NEW e \in Events, vec[e].data # NULL PROVE Elements(e) = registered[e]
    <3>1. Holds(vec[e], registered[e]) /\ registered[e] \in Seq(Elems)
      BY <2>1, <2>2 DEF VectorsSound
    <3>2. Elements(e) = [k \in 1 .. vec[e].size |-> vec[e].data[k - 1]]
      BY <2>2 DEF Elements
    <3>3. /\ vec[e].size = Len(registered[e])
          /\ \A k \in 1 .. vec[e].size : vec[e].data[k - 1] = registered[e][k]
      BY <2>2, <3>1 DEF Holds
    <3>4. registered[e] = [k \in 1 .. Len(registered[e]) |-> registered[e][k]]
      BY <3>1
    <3> QED BY <3>2, <3>3, <3>4
  <2> QED BY <1>1, <2>2 DEF IInv, NothingLostWithMemory
<1> QED BY <1>1, Invariance, PTL

-----------------------------------------------------------------------------
(* Getopt: the exchange of operands and options. *)

\* What exchange is for: the elements of bottom .. middle - 1 and those of middle
\* .. top - 1 have changed places, each in their order.
Rotated(a, bottom, middle, top) ==
    [k \in DOMAIN a |-> IF k \in bottom .. bottom + (top - middle) - 1 THEN a[k + (middle - bottom)]
                        ELSE IF k \in bottom + (top - middle) .. top - 1 THEN a[k - (top - middle)]
                        ELSE a[k]]

\* An array with the bounds of the elements that are still to be exchanged.
Stretches(N, m) == {r \in [argv : [0 .. N -> 0 .. N], bottom : Nat, top : Nat] :
                       /\ r.bottom <= m /\ m <= r.top /\ r.top <= N + 1}

\* A round of exchange leaves to be done what makes the exchange complete.
LEMMA RoundRotates ==
    ASSUME NEW N \in Nat, NEW m \in Nat, NEW r \in Stretches(N, m)
    PROVE  /\ Round(r, m) \in Stretches(N, m)
           /\ Rotated(Round(r, m).argv, Round(r, m).bottom, m, Round(r, m).top)
              = Rotated(r.argv, r.bottom, m, r.top)
           /\ \/ r.bottom = m /\ Round(r, m) = r
              \/ r.top = m /\ Round(r, m) = r
              \/ Round(r, m).top - Round(r, m).bottom < r.top - r.bottom
<1> DEFINE b == r.bottom
           t == r.top
           a == r.argv
<1>1. /\ b \in Nat /\ t \in Nat /\ a \in [0 .. N -> 0 .. N]
      /\ b <= m /\ m <= t /\ t <= N + 1
      /\ r = [argv |-> a, bottom |-> b, top |-> t]
  BY DEF Stretches
<1>2. CASE ~ (t > m /\ m > b)
  <2>1. Round(r, m) = r
    BY <1>2 DEF Round
  <2> QED BY <1>1, <1>2, <2>1
<1>3. CASE t > m /\ m > b /\ t - m > m - b
  <2> DEFINE len == m - b
             c == Swapped(a, b, t - len, len)
  <2>1. Round(r, m) = [argv |-> c, bottom |-> b, top |-> t - len]
    BY <1>1, <1>3 DEF Round
  <2> HIDE DEF b, t, a
  <2>2. len \in Nat \ {0} /\ t - len > m
    BY <1>1, <1>3
  <2>3. DOMAIN c = 0 .. N /\ DOMAIN a = 0 .. N
    BY <1>1 DEF Swapped
  <2>4. ASSUME NEW k \in 0 .. N
        PROVE  c[k] = IF k \in b .. m - 1 THEN a[k - b + (t - len)]
                      ELSE IF k \in t - len .. t - 1 THEN a[k - (t - len) + b] ELSE a[k]
    BY <1>1, <2>3, <2>4 DEF Swapped
  <2>5. c \in [0 .. N -> 0 .. N]
    <3>1. ASSUME NEW k \in 0 .. N PROVE c[k] \in 0 .. N
      <4> DEFINE i == IF k \in b .. m - 1 THEN k - b + (t - len)
                      ELSE IF k \in t - len .. t - 1 THEN k - (t - len) + b ELSE k
      <4>1. i \in 0 .. N
        <5>1. CASE k \in b .. m - 1
          BY <1>1, <1>3, <5>1
        <5>2. CASE ~ (k \in b .. m - 1) /\ k \in t - len .. t - 1
          BY <1>1, <1>3, <5>2
        <5> QED BY <5>1, <5>2
      <4>2. c[k] = a[i]
        BY <2>4
      <4> HIDE DEF i, c
      <4> QED BY <1>1, <4>1, <4>2
    <3>2. c = [k \in 0 .. N |-> c[k]]
      BY <2>3 DEF Swapped
    <3> HIDE DEF c
    <3> QED BY <3>1, <3>2
  <2>6. Rotated(c, b, m, t - len) = Rotated(a, b, m, t)
    <3>1. ASSUME NEW k \in 0 .. N PROVE Rotated(c, b, m, t - len)[k] = Rotated(a, b, m, t)[k]
      <4> HIDE DEF c
      <4>1. Rotated(c, b, m, t - len)[k]
            = IF k \in b .. b + (t - len - m) - 1 THEN c[k + (m - b)]
              ELSE IF k \in b + (t - len - m) .. t - len - 1 THEN c[k - (t - len - m)] ELSE c[k]
        BY <2>3 DEF Rotated
      <4>2. Rotated(a, b, m, t)[k]
            = IF k \in b .. b + (t - m) - 1 THEN a[k + (m - b)]
              ELSE IF k \in b + (t - m) .. t - 1 THEN a[k - (t - m)] ELSE a[k]
        BY <2>3 DEF Rotated
      <4>3. CASE k \in b .. b + (t - len - m) - 1
        <5>1. k + (m - b) \in 0 .. N /\ ~ (k + (m - b) \in b .. m - 1) /\ ~ (k + (m - b) \in t - len .. t - 1)
          BY <1>1, <1>3, <4>3
        <5>2. c[k + (m - b)] = a[k + (m - b)]
          BY <2>4, <5>1
        <5> QED BY <1>1, <1>3, <4>1, <4>2, <4>3, <5>2
      <4>4. CASE k \in b + (t - len - m) .. t - len - 1
        <5>1. k - (t - len - m) \in 0 .. N /\ k - (t - len - m) \in b .. m - 1
          BY <1>1, <1>3, <4>4
        <5>2. c[k - (t - len - m)] = a[k - (t - len - m) - b + (t - len)]
          BY <2>4, <5>1
        <5>3. k - (t - len - m) - b + (t - len) = k + (m - b)
          BY <1>1, <4>4
        <5>4. k \in b .. b + (t - m) - 1
          BY <1>1, <1>3, <4>4
        <5>5. Rotated(c, b, m, t - len)[k] = c[k - (t - len - m)]
          BY <1>1, <1>3, <4>1, <4>4
        <5> QED BY <4>2, <5>2, <5>3, <5>4, <5>5
      <4>5. CASE k \in t - len .. t - 1
        <5>1. ~ (k \in b .. m - 1) /\ ~ (k \in b .. b + (t - m) - 1) /\ k \in b + (t - m) .. t - 1
          BY <1>1, <1>3, <4>5
        <5>2. c[k] = a[k - (t - len) + b]
          BY <2>4, <4>5, <5>1
        <5>3. k - (t - len) + b = k - (t - m)
          BY <1>1, <4>5
        <5>4. Rotated(c, b, m, t - len)[k] = c[k]
          BY <1>1, <1>3, <4>1, <4>5
        <5> QED BY <4>2, <5>1, <5>2, <5>3, <5>4
      <4>6. CASE ~ (k \in b .. t - 1)
        <5>1. k \in Int /\ b \in Int /\ t \in Int /\ m \in Int /\ len \in Int
              /\ b <= m /\ 0 < len /\ m < t - len /\ len = m - b
          BY <1>1, <2>2
        <5> HIDE DEF len
        <5>2. ~ (k \in b .. m - 1) /\ ~ (k \in t - len .. t - 1)
          BY <4>6, <5>1
        <5>3. ~ (k \in b .. b + (t - len - m) - 1) /\ ~ (k \in b + (t - len - m) .. t - len - 1)
          BY <4>6, <5>1
        <5>4. ~ (k \in b .. b + (t - m) - 1) /\ ~ (k \in b + (t - m) .. t - 1)
          BY <4>6, <5>1
        <5>5. c[k] = a[k]
          BY <2>4, <5>2
        <5> QED BY <4>1, <4>2, <5>3, <5>4, <5>5
      <4> QED BY <1>1, <1>3, <4>3, <4>4, <4>5, <4>6
    <3> QED BY <2>3, <3>1 DEF Rotated
  <2>7. Round(r, m).argv = c /\ Round(r, m).bottom = b /\ Round(r, m).top = t - len
    BY <2>1
  <2>8. t - len - b < t - b /\ t - len \in Nat /\ m <= t - len /\ t - len <= N + 1
    BY <1>1, <2>2
  <2>9. Round(r, m) \in Stretches(N, m)
    <3> DEFINE u == t - len
    <3>1. u \in Nat /\ m <= u /\ u <= N + 1
      BY <2>8
    <3> HIDE DEF c, len, u
    <3>2. [argv |-> c, bottom |-> b, top |-> u] \in Stretches(N, m)
      BY <1>1, <2>5, <3>1 DEF Stretches
    <3> QED BY <2>1, <3>2 DEF u
  <2>10. Round(r, m).top - Round(r, m).bottom < r.top - r.bottom
    BY <2>7, <2>8 DEF b, t
  <2>11. Rotated(Round(r, m).argv, Round(r, m).bottom, m, Round(r, m).top)
         = Rotated(r.argv, r.bottom, m, r.top)
    BY <2>6, <2>7 DEF a, b, t
  <2> QED BY <2>9, <2>10, <2>11
<1>4. CASE t > m /\ m > b /\ ~ (t - m > m - b)
  <2> DEFINE len == t - m
             c == Swapped(a, b, m, len)
  <2>1. Round(r, m) = [argv |-> c, bottom |-> b + len, top |-> t]
    BY <1>1, <1>4 DEF Round
  <2> HIDE DEF b, t, a
  <2>2. len \in Nat \ {0} /\ b + len <= m
    BY <1>1, <1>4
  <2>3. DOMAIN c = 0 .. N /\ DOMAIN a = 0 .. N
    BY <1>1 DEF Swapped
  <2>4. ASSUME NEW k \in 0 .. N
        PROVE  c[k] = IF k \in b .. b + len - 1 THEN a[k - b + m]
                      ELSE IF k \in m .. t - 1 THEN a[k - m + b] ELSE a[k]
    BY <1>1, <2>3, <2>4 DEF Swapped
  <2>5. c \in [0 .. N -> 0 .. N]
    <3>1. ASSUME NEW k \in 0 .. N PROVE c[k] \in 0 .. N
      <4> DEFINE i == IF k \in b .. b + len - 1 THEN k - b + m
                      ELSE IF k \in m .. t - 1 THEN k - m + b ELSE k
      <4>1. i \in 0 .. N
        <5>1. CASE k \in b .. b + len - 1
          BY <1>1, <2>2, <5>1
        <5>2. CASE ~ (k \in b .. b + len - 1) /\ k \in m .. t - 1
          BY <1>1, <5>2
        <5> QED BY <5>1, <5>2
      <4>2. c[k] = a[i]
        BY <2>4
      <4> HIDE DEF i, c
      <4> QED BY <1>1, <4>1, <4>2
    <3>2. c = [k \in 0 .. N |-> c[k]]
      BY <2>3 DEF Swapped
    <3> HIDE DEF c
    <3> QED BY <3>1, <3>2
  <2>6. Rotated(c, b + len, m, t) = Rotated(a, b, m, t)
    <3>1. ASSUME NEW k \in 0 .. N PROVE Rotated(c, b + len, m, t)[k] = Rotated(a, b, m, t)[k]
      <4> HIDE DEF c
      <4>1. Rotated(c, b + len, m, t)[k]
            = IF k \in b + len .. b + len + (t - m) - 1 THEN c[k + (m - (b + len))]
              ELSE IF k \in b + len + (t - m) .. t - 1 THEN c[k - (t - m)] ELSE c[k]
        BY <2>3 DEF Rotated
      <4>2. Rotated(a, b, m, t)[k]
            = IF k \in b .. b + (t - m) - 1 THEN a[k + (m - b)]
              ELSE IF k \in b + (t - m) .. t - 1 THEN a[k - (t - m)] ELSE a[k]
        BY <2>3 DEF Rotated
      <4>3. CASE k \in b .. b + len - 1
        <5>1. c[k] = a[k - b + m]
          BY <2>4, <4>3
        <5>2. k - b + m = k + (m - b) /\ k \in b .. b + (t - m) - 1
          BY <1>1, <4>3
        <5>3. Rotated(c, b + len, m, t)[k] = c[k]
          BY <1>1, <1>4, <4>1, <4>3
        <5> QED BY <4>2, <5>1, <5>2, <5>3
      <4>4. CASE k \in b + len .. b + len + (t - m) - 1
        <5> DEFINE i == k + (m - (b + len))
        <5>1. i \in 0 .. N /\ i \in m .. t - 1 /\ ~ (i \in b .. b + len - 1)
          <6>1. b \in Int /\ t \in Int /\ m \in Int /\ len \in Int /\ 0 <= b
                /\ t <= N + 1 /\ b <= m /\ b + len <= m /\ len = t - m
            BY <1>1, <2>2
          <6> HIDE DEF len
          <6>2. i \in Int /\ m <= i /\ i <= t - 1
            BY <4>4, <6>1
          <6> HIDE DEF i
          <6> QED BY <6>1, <6>2
        <5>2. c[i] = a[i - m + b]
          <6> HIDE DEF i
          <6> QED BY <2>4, <5>1
        <5>3. i - m + b = k - (t - m) /\ k \in b + (t - m) .. t - 1 /\ ~ (k \in b .. b + (t - m) - 1)
          BY <1>1, <1>4, <4>4
        <5>4. Rotated(c, b + len, m, t)[k] = c[i]
          BY <4>1, <4>4
        <5> HIDE DEF i
        <5> QED BY <4>2, <5>2, <5>3, <5>4
      <4>5. CASE k \in b + len + (t - m) .. t - 1
        <5> DEFINE i == k - (t - m)
        <5>1. i \in 0 .. N /\ ~ (i \in m .. t - 1) /\ ~ (i \in b .. b + len - 1)
          BY <1>1, <1>4, <4>5
        <5>2. c[i] = a[i]
          <6> HIDE DEF i
          <6> QED BY <2>4, <5>1
        <5>3. k \in b + (t - m) .. t - 1 /\ ~ (k \in b .. b + (t - m) - 1)
              /\ ~ (k \in b + len .. b + len + (t - m) - 1)
          BY <1>1, <1>4, <4>5
        <5> QED BY <4>1, <4>2, <4>5, <5>2, <5>3
      <4>6. CASE ~ (k \in b .. t - 1)
        <5>1. k \in Int /\ b \in Int /\ t \in Int /\ m \in Int /\ len \in Int
              /\ b <= m /\ 0 < len /\ b + len <= m /\ len = t - m
          BY <1>1, <2>2
        <5> HIDE DEF len
        <5>2. ~ (k \in b .. b + len - 1) /\ ~ (k \in m .. t - 1)
          BY <4>6, <5>1
        <5>3. ~ (k \in b + len .. b + len + (t - m) - 1) /\ ~ (k \in b + len + (t - m) .. t - 1)
          BY <4>6, <5>1
        <5>4. ~ (k \in b .. b + (t - m) - 1) /\ ~ (k \in b + (t - m) .. t - 1)
          BY <4>6, <5>1
        <5>5. c[k] = a[k]
          BY <2>4, <5>2
        <5> QED BY <4>1, <4>2, <5>3, <5>4, <5>5
      <4> QED BY <1>1, <1>4, <4>3, <4>4, <4>5, <4>6
    <3> QED BY <2>3, <3>1 DEF Rotated
  <2>7. Round(r, m).argv = c /\ Round(r, m).bottom = b + len /\ Round(r, m).top = t
    BY <2>1
  <2>8. t - (b + len) < t - b /\ b + len \in Nat
    BY <1>1, <2>2
  <2>9. Round(r, m) \in Stretches(N, m)
    <3> DEFINE u == b + len
    <3>1. u \in Nat /\ u <= m
      BY <2>2, <2>8
    <3> HIDE DEF c, len, u
    <3>2. [argv |-> c, bottom |-> u, top |-> t] \in Stretches(N, m)
      BY <1>1, <2>5, <3>1 DEF Stretches
    <3> QED BY <2>1, <3>2 DEF u
  <2>10. Round(r, m).top - Round(r, m).bottom < r.top - r.bottom
    BY <2>7, <2>8 DEF b, t
  <2>11. Rotated(Round(r, m).argv, Round(r, m).bottom, m, Round(r, m).top)
         = Rotated(r.argv, r.bottom, m, r.top)
    BY <2>6, <2>7 DEF a, b, t
  <2> QED BY <2>9, <2>10, <2>11
<1> QED BY <1>2, <1>3, <1>4

\* exchange makes the two stretches change places, whatever their lengths.
THEOREM ExchangeRotates ==
    ASSUME NEW N \in Nat, NEW a \in [0 .. N -> 0 .. N], NEW b \in Nat, NEW m \in Nat, NEW t \in Nat,
           b <= m, m <= t, t <= N + 1
    PROVE  Exchange(a, b, m, t) = Rotated(a, b, m, t)
<1> DEFINE R    == Stretches(N, m)
           base == [argv |-> a, bottom |-> b, top |-> t]
           step == [p \in Nat \X R |-> Round(p[2], m)]
           G(f) == [n \in Nat |-> IF n = 0 THEN base ELSE Round(f[n - 1], m)]
           F    == CHOOSE f : f = G(f)
           Rot(r) == Rotated(r.argv, r.bottom, m, r.top)
<1>1. base \in R
  BY DEF Stretches
<1>2. step \in [Nat \X R -> R]
  BY RoundRotates
<1>3. PICK g : Repeats(g, R, base, step)
  <2> HIDE DEF R, base, step
  <2> QED BY <1>1, <1>2, PrimitiveRecursion
<1>4. g = G(g)
  <2>1. g = [n \in Nat |-> g[n]]
    BY <1>3 DEF Repeats
  <2>2. ASSUME NEW n \in Nat PROVE g[n] = IF n = 0 THEN base ELSE Round(g[n - 1], m)
    <3>1. CASE n = 0
      BY <1>3, <3>1 DEF Repeats
    <3>2. CASE n # 0
      <4>1. n - 1 \in Nat /\ (n - 1) + 1 = n
        BY <3>2
      <4>2. g[n - 1] \in R /\ g[(n - 1) + 1] = step[<< n - 1, g[n - 1] >>]
        BY <1>3, <4>1 DEF Repeats
      <4> HIDE DEF R
      <4>3. g[n] = Round(g[n - 1], m)
        BY <4>1, <4>2
      <4> QED BY <3>2, <4>3
    <3> QED BY <3>1, <3>2
  <2> HIDE DEF base
  <2> QED BY <2>1, <2>2
<1>5. F = G(F)
  <2> HIDE DEF G
  <2> QED BY <1>4
<1>6. F[0] = base /\ \A n \in Nat : F[n + 1] = Round(F[n], m)
  <2> HIDE DEF F
  <2>1. ASSUME NEW n \in Nat PROVE G(F)[n + 1] = Round(F[(n + 1) - 1], m)
    <3> HIDE DEF base
    <3> QED OBVIOUS
  <2>2. G(F)[0] = base
    OBVIOUS
  <2>3. \A n \in Nat : (n + 1) - 1 = n
    OBVIOUS
  <2> HIDE DEF G
  <2> QED BY <1>5, <2>1, <2>2, <2>3
<1>7. Exchange(a, b, m, t) = F[t - b].argv
  BY DEF Exchange
<1> DEFINE Good(n) == /\ F[n] \in R /\ Rot(F[n]) = Rot(base)
                      /\ F[n].bottom = m \/ F[n].top = m \/ F[n].top - F[n].bottom <= t - b - n
           Bad == {n \in Nat : ~ Good(n)}
<1>8. Bad = {}
  <2> SUFFICES ASSUME Bad # {} PROVE FALSE
    OBVIOUS
  <2>1. PICK n \in Bad : \A k \in Bad : n <= k
    <3>1. Bad \in SUBSET Nat
      OBVIOUS
    <3> HIDE DEF Bad
    <3> QED BY <3>1, LeastNatural
  <2>2. n # 0
    <3>1. Good(0)
      <4>1. F[0] = base /\ base \in R /\ base.top - base.bottom <= t - b - 0
        <5> HIDE DEF F, R
        <5> QED BY <1>1, <1>6
      <4> HIDE DEF F, R, Rot, base
      <4> QED BY <4>1
    <3> HIDE DEF Good
    <3> QED BY <3>1
  <2> DEFINE k == n - 1
             x == F[k]
             y == F[n]
  <2>3. k \in Nat /\ k + 1 = n /\ ~ (n <= k)
    <3>1. n \in Nat
      BY <2>1
    <3> QED BY <2>2, <3>1
  <2>4. Good(k)
    <3>1. k \notin Bad
      <4> HIDE DEF Bad, k
      <4> QED BY <2>1, <2>3
    <3> HIDE DEF Good, k
    <3> QED BY <2>3, <3>1
  <2>5. y = Round(x, m)
    <3> HIDE DEF F
    <3> QED BY <1>6, <2>3
  <2>6. x \in R /\ Rot(x) = Rot(base) /\ (x.bottom = m \/ x.top = m \/ x.top - x.bottom <= t - b - k)
    BY <2>4
  <2> HIDE DEF x, y, Bad
  <2>7. /\ y \in R /\ Rot(y) = Rot(x)
        /\ (x.bottom = m /\ y = x) \/ (x.top = m /\ y = x) \/ y.top - y.bottom < x.top - x.bottom
    <3>1. x \in Stretches(N, m)
      BY <2>6
    <3>2. /\ Round(x, m) \in Stretches(N, m)
          /\ Rotated(Round(x, m).argv, Round(x, m).bottom, m, Round(x, m).top)
             = Rotated(x.argv, x.bottom, m, x.top)
          /\ \/ x.bottom = m /\ Round(x, m) = x
             \/ x.top = m /\ Round(x, m) = x
             \/ Round(x, m).top - Round(x, m).bottom < x.top - x.bottom
      BY <3>1, RoundRotates
    <3> QED BY <2>5, <3>2
  <2>8. /\ x.bottom \in Nat /\ x.top \in Nat /\ y.bottom \in Nat /\ y.top \in Nat
        /\ x.bottom <= m /\ m <= x.top /\ y.bottom <= m /\ m <= y.top
    BY <2>6, <2>7 DEF Stretches
  <2>9. y.bottom = m \/ y.top = m \/ y.top - y.bottom <= t - b - n
    <3>1. CASE y = x /\ (x.bottom = m \/ x.top = m)
      BY <3>1
    <3>2. CASE y.top - y.bottom < x.top - x.bottom /\ x.top - x.bottom <= t - b - k
      <4> DEFINE xb == x.bottom
                 xt == x.top
                 yb == y.bottom
                 yt == y.top
      <4>1. xb \in Nat /\ xt \in Nat /\ yb \in Nat /\ yt \in Nat /\ yt - yb < xt - xb /\ xt - xb <= t - b - k
        BY <2>8, <3>2
      <4>2. n \in Nat /\ n = k + 1
        BY <2>3
      <4> DEFINE d == yt - yb  e == xt - xb
      <4> HIDE DEF xb, xt, yb, yt, k
      <4>3. d \in Int /\ e \in Int /\ d < e /\ e <= t - b - k
        BY <4>1
      <4> HIDE DEF d, e
      <4>4. d <= t - b - n
        BY <2>3, <4>2, <4>3
      <4>5. yt - yb <= t - b - n
        BY <4>4 DEF d
      <4> QED BY <4>5 DEF yb, yt
    <3>3. CASE y.top - y.bottom < x.top - x.bottom /\ (x.bottom = m \/ x.top = m)
      <4>1. Round(x, m) = x
        <5>1. ~ (x.top > m /\ m > x.bottom)
          BY <2>8, <3>3
        <5> QED BY <5>1 DEF Round
      <4> QED BY <2>5, <4>1, <3>3
    <3> QED BY <2>6, <2>7, <3>1, <3>2, <3>3
  <2>10. Good(n)
    <3> HIDE DEF R, Rot, F
    <3> QED BY <2>6, <2>7, <2>9 DEF y
  <2>11. ~ Good(n)
    <3> HIDE DEF Good
    <3> QED BY DEF Bad
  <2> QED BY <2>10, <2>11
<1> DEFINE z == F[t - b]
<1>9. z \in R /\ Rot(z) = Rot(base) /\ (z.bottom = m \/ z.top = m \/ z.top - z.bottom <= 0)
  <2>1. t - b \in Nat /\ t - b - (t - b) = 0
    OBVIOUS
  <2>2. Good(t - b)
    <3> HIDE DEF Good
    <3> QED BY <1>8, <2>1
  <2> HIDE DEF F, R, Rot
  <2> QED BY <2>1, <2>2
<1> HIDE DEF F
<1>10. Exchange(a, b, m, t) = z.argv
  BY <1>7
<1> HIDE DEF z
<1>11. /\ z.argv \in [0 .. N -> 0 .. N] /\ z.bottom \in Nat /\ z.top \in Nat
       /\ z.bottom <= m /\ m <= z.top
  BY <1>9 DEF Stretches
<1>12. z.bottom = m \/ z.top = m
  <2> DEFINE p == z.bottom
             q == z.top
  <2>1. p \in Nat /\ q \in Nat /\ p <= m /\ m <= q /\ (p = m \/ q = m \/ q - p <= 0)
    BY <1>9, <1>11
  <2> HIDE DEF p, q
  <2>2. p = m \/ q = m
    BY <2>1
  <2> QED BY <2>2 DEF p, q
<1>13. Rot(z) = z.argv
  <2>1. DOMAIN z.argv = 0 .. N
    BY <1>11
  <2>2. ASSUME NEW k \in 0 .. N PROVE Rotated(z.argv, z.bottom, m, z.top)[k] = z.argv[k]
    <3> DEFINE p == z.bottom
               q == z.top
               e == z.argv
    <3>1. Rotated(e, p, m, q)[k]
          = IF k \in p .. p + (q - m) - 1 THEN e[k + (m - p)]
            ELSE IF k \in p + (q - m) .. q - 1 THEN e[k - (q - m)] ELSE e[k]
      BY <2>1 DEF Rotated
    <3>2. p \in Nat /\ q \in Nat /\ p <= m /\ m <= q /\ (p = m \/ q = m)
      BY <1>11, <1>12
    <3> HIDE DEF p, q, e
    <3>3. CASE p = m
      <4>1. k + (m - p) = k /\ ~ (k \in p + (q - m) .. q - 1)
        BY <3>2, <3>3
      <4> QED BY <3>1, <4>1 DEF p, q, e
    <3>4. CASE q = m
      <4>1. k - (q - m) = k /\ ~ (k \in p .. p + (q - m) - 1)
        BY <3>2, <3>4
      <4> QED BY <3>1, <4>1 DEF p, q, e
    <3> QED BY <3>2, <3>3, <3>4
  <2>3. z.argv = [k \in 0 .. N |-> z.argv[k]]
    BY <1>11
  <2>4. Rot(z) = [k \in 0 .. N |-> Rotated(z.argv, z.bottom, m, z.top)[k]]
    BY <2>1 DEF Rotated
  <2> QED BY <2>2, <2>3, <2>4
<1>14. Rot(base) = Rotated(a, b, m, t)
  OBVIOUS
<1> QED BY <1>9, <1>10, <1>13, <1>14

-----------------------------------------------------------------------------
(* Getopt: what the command line says, place by place. *)

CommandLineOK == typed \in Seq(Seq(STRING)) /\ long \in BOOLEAN

\* The places that what is said at a place may depend on.
Later(at) == {q \in Places : \/ q[1] > at[1]
                             \/ /\ q[1] = at[1] /\ q[2] > at[2]
                                /\ at[1] < argc /\ at[2] <= Len(typed[at[1]])}

\* What getopt returns before the end, and with the end; what is said at a place.
Codes    == Flags \cup WithArgument \cup MayHave \cup {"?", "W"}
            \cup {LongOptions[i].val : i \in DOMAIN LongOptions}
Answers  == [c : Codes \cup {Done}, optarg : Int \X Int]
Readings == [results : Seq(Answers), operands : Seq(Nat)]

LEMMA NotTheEnd == Done \notin Codes
<1>1. Flags \cup WithArgument \cup MayHave \subseteq STRING \ {"W", Done}
  BY GetoptAssumption
<1>2. LongOptions \in Seq([name : Seq(STRING), has_arg : 0 .. 2, val : STRING \ {Done}])
  BY GetoptAssumption
<1>3. ASSUME NEW i \in DOMAIN LongOptions PROVE LongOptions[i].val # Done
  <2> DEFINE V == STRING \ {Done}
  <2>1. LongOptions \in Seq([name : Seq(STRING), has_arg : 0 .. 2, val : V])
    BY <1>2
  <2>2. Done \notin V
    OBVIOUS
  <2> DEFINE O == [name : Seq(STRING), has_arg : 0 .. 2, val : V]
  <2>3. LongOptions[i] \in O
    <3>1. LongOptions \in Seq(O)
      BY <2>1
    <3> HIDE DEF O
    <3> QED BY <3>1
  <2> HIDE DEF V
  <2>4. LongOptions[i].val \in V
    BY <2>3
  <2> QED BY <2>2, <2>4
<1>4. "?" # Done /\ "W" # Done
  BY DEF Done
<1> QED BY <1>1, <1>3, <1>4 DEF Codes

\* An option that is found is one of the program's.
LEMMA FoundIsThere ==
    ASSUME NEW at, NEW W
    PROVE  pfound(at, W) \in DOMAIN LongOptions \cup {0, Ambiguous} /\ 0 \notin DOMAIN LongOptions
           /\ Ambiguous \notin DOMAIN LongOptions /\ DOMAIN LongOptions \subseteq Nat
<1> DEFINE name  == SubSeq(typed[at[1]], at[2], nameend(at) - 1)
           found == {i \in DOMAIN LongOptions : IsPrefix(name, LongOptions[i].name)}
           exact == {i \in found : LongOptions[i].name = name}
<1>1. DOMAIN LongOptions = 1 .. Len(LongOptions) /\ Len(LongOptions) \in Nat
  BY GetoptAssumption
<1>2. ASSUME NEW S \in SUBSET (DOMAIN LongOptions), S # {} PROVE Min(S) \in S
  <2>1. S \in SUBSET Nat
    BY <1>1
  <2>2. \E x \in S : \A y \in S : x =< y
    BY <2>1, <1>2, LeastNatural
  <2> QED BY <2>2 DEF Min
<1>3. found \in SUBSET (DOMAIN LongOptions) /\ exact \in SUBSET (DOMAIN LongOptions)
  OBVIOUS
<1>4. \/ pfound(at, W) \in {0, Ambiguous}
      \/ found # {} /\ pfound(at, W) = Min(found)
      \/ exact # {} /\ pfound(at, W) = Min(exact)
  BY DEF pfound
<1> HIDE DEF found, exact
<1>5. pfound(at, W) \in DOMAIN LongOptions \cup {0, Ambiguous}
  BY <1>2, <1>3, <1>4
<1> QED BY <1>1, <1>5 DEF Ambiguous

\* A name has an end.
LEMMA NameEnds ==
    ASSUME CommandLineOK, NEW i \in 1 .. Len(typed), NEW j \in 1 .. Len(typed[i]) + 1
    PROVE  nameend(<< i, j >>) \in j .. Len(typed[i]) + 1
<1> DEFINE e == typed[i]
           P(k) == k > Len(e) \/ e[k] = "="
           S == {k \in j .. Len(e) + 1 : P(k)}
<1>1. e \in Seq(STRING) /\ Len(e) \in Nat
  BY DEF CommandLineOK
<1> HIDE DEF e
<1>2. S \in SUBSET Nat /\ Len(e) + 1 \in S
  BY <1>1 DEF e
<1>3. PICK k \in S : \A l \in S : k <= l
  <2> HIDE DEF S
  <2> QED BY <1>2, LeastNatural
<1>4. k \in j .. Len(e) + 1 /\ P(k) /\ \A l \in j .. k - 1 : ~ P(l)
  BY <1>1, <1>3
<1>5. \A l \in j .. k - 1 : e[l] # "="
  BY <1>4
<1>6. \E n \in j .. Len(e) + 1 : (n > Len(e) \/ e[n] = "=") /\ \A l \in j .. n - 1 : e[l] # "="
  BY <1>4, <1>5
<1>7. nameend(<< i, j >>) = CHOOSE n \in j .. Len(e) + 1 : (n > Len(e) \/ e[n] = "=") /\ \A l \in j .. n - 1 : e[l] # "="
  BY DEF nameend, e
<1> HIDE DEF P
<1>8. nameend(<< i, j >>) \in j .. Len(e) + 1
  BY <1>6, <1>7
<1> QED BY <1>8 DEF e

\* Induction over the places of the command line, from its end.
LEMMA LaterFirst ==
    ASSUME CommandLineOK, NEW B \in SUBSET Places,
           \A at \in Places : Later(at) \subseteq B => at \in B
    PROVE  B = Places
<1> DEFINE C == Places \ B
           D == {argc - q[1] : q \in C}
<1> SUFFICES ASSUME C # {} PROVE FALSE
  OBVIOUS
<1>1. Len(typed) \in Nat /\ argc = Len(typed) + 1
  BY DEF CommandLineOK, argc
<1>2. \A q \in Places : q = << q[1], q[2] >> /\ q[1] \in 1 .. argc /\ q[2] \in Nat \ {0}
  BY <1>1 DEF Places
<1>3. D \in SUBSET Nat /\ D # {}
  BY <1>1, <1>2
<1>4. PICK d \in D : \A x \in D : d <= x
  <2> HIDE DEF D
  <2> QED BY <1>3, LeastNatural
<1>5. PICK p \in C : d = argc - p[1]
  BY <1>4
<1> DEFINE i == p[1]
<1>6. i \in 1 .. argc /\ \A q \in C : q[1] <= i
  <2>1. i \in 1 .. argc
    BY <1>2, <1>5
  <2>2. ASSUME NEW q \in C PROVE q[1] <= i
    <3>1. argc - q[1] \in D
      OBVIOUS
    <3>2. d <= argc - q[1]
      BY <1>4, <3>1
    <3>3. q[1] \in 1 .. argc
      BY <1>2
    <3> QED BY <1>1, <1>5, <2>1, <3>2, <3>3
  <2> QED BY <2>1, <2>2
<1>7. ASSUME NEW q \in C, q[1] = i PROVE i < argc /\ q[2] <= Len(typed[i])
  <2>1. SUFFICES ASSUME ~ (i < argc /\ q[2] <= Len(typed[i])) PROVE FALSE
    OBVIOUS
  <2>2. ASSUME NEW z \in Later(q) PROVE z \in B
    <3>1. z \in Places /\ z[1] > i
      BY <1>7, <2>1, <2>2 DEF Later
    <3>2. z[1] \in Nat
      BY <1>1, <1>2, <3>1
    <3> QED BY <1>6, <3>1, <3>2
  <2> QED BY <2>2
<1> DEFINE L == Len(typed[i])
           E == {L - q[2] : q \in {r \in C : r[1] = i}}
<1>8. i < argc /\ L \in Nat
  BY <1>1, <1>5, <1>6, <1>7 DEF CommandLineOK
<1> HIDE DEF L
<1>9. E \in SUBSET Nat /\ E # {}
  BY <1>2, <1>5, <1>7, <1>8 DEF L
<1>10. PICK m \in E : \A x \in E : m <= x
  <2> HIDE DEF E
  <2> QED BY <1>9, LeastNatural
<1>11. PICK q \in C : q[1] = i /\ m = L - q[2]
  BY <1>10
<1>12. ASSUME NEW r \in C, r[1] = i PROVE r[2] <= q[2]
  <2>1. L - r[2] \in E
    BY <1>12
  <2>2. L - q[2] <= L - r[2] /\ r[2] \in Nat /\ q[2] \in Nat
    BY <1>2, <1>10, <1>11, <2>1
  <2> HIDE DEF E, C
  <2> QED BY <1>8, <2>2
<1>13. ASSUME NEW z \in Later(q) PROVE z \in B
  <2>1. z \in Places /\ (z[1] > i \/ (z[1] = i /\ z[2] > q[2]))
    BY <1>11 DEF Later
  <2>2. z[1] \in Nat /\ z[2] \in Nat /\ q[2] \in Nat
    BY <1>1, <1>2, <2>1
  <2>3. z \notin C
    BY <1>6, <1>12, <2>1, <2>2
  <2> QED BY <2>1, <2>3
<1> QED BY <1>11, <1>13

LEMMA CommandLine ==
    ASSUME CommandLineOK
    PROVE  /\ Len(typed) \in Nat /\ argc = Len(typed) + 1 /\ argc \in Nat \ {0}
           /\ \A i \in 1 .. Len(typed) : typed[i] \in Seq(STRING) /\ Len(typed[i]) \in Nat
           /\ \A q \in Places : q = << q[1], q[2] >> /\ q[1] \in 1 .. argc /\ q[2] \in Nat \ {0}
           /\ \A i \in 1 .. argc, j \in Nat \ {0} : << i, j >> \in Places
<1>1. /\ Len(typed) \in Nat /\ argc = Len(typed) + 1
      /\ \A i \in 1 .. Len(typed) : typed[i] \in Seq(STRING) /\ Len(typed[i]) \in Nat
  BY DEF CommandLineOK, argc
<1> QED BY <1>1 DEF Places

LEMMA LaterPlaces ==
    ASSUME CommandLineOK, NEW i \in 1 .. argc, NEW j \in Nat \ {0}
    PROVE  /\ \A k \in i + 1 .. argc : << k, 1 >> \in Later(<< i, j >>)
           /\ i < argc /\ j <= Len(typed[i]) => << i, j + 1 >> \in Later(<< i, j >>)
<1>1. argc \in Nat
  BY CommandLine
<1>2. ASSUME NEW k \in i + 1 .. argc PROVE << k, 1 >> \in Later(<< i, j >>)
  <2>1. << k, 1 >> \in Places /\ k > i
    BY <1>1, CommandLine
  <2> QED BY <2>1 DEF Later
<1>3. ASSUME i < argc, j <= Len(typed[i]) PROVE << i, j + 1 >> \in Later(<< i, j >>)
  <2>1. << i, j + 1 >> \in Places /\ j + 1 > j
    BY <1>1, CommandLine
  <2> QED BY <1>3, <2>1 DEF Later
<1> QED BY <1>2, <1>3

LEMMA ReadLongLater ==
    ASSUME NEW f, NEW g, NEW at, NEW o, NEW n \in 1 .. argc, NEW none, argc \in Nat,
           f[<< n, 1 >>] = g[<< n, 1 >>], n < argc => f[<< n + 1, 1 >>] = g[<< n + 1, 1 >>]
    PROVE  ReadLong(f, at, o, n, none) = ReadLong(g, at, o, n, none)
<1>1. n = argc \/ n < argc
  OBVIOUS
<1> QED BY <1>1 DEF ReadLong

\* What is said at a place depends on later places only.
LEMMA ReadLater ==
    ASSUME CommandLineOK, NEW at \in Places, NEW f, NEW g, \A q \in Later(at) : f[q] = g[q]
    PROVE  Read(f, at) = Read(g, at)
<1> DEFINE i == at[1]
           j == at[2]
<1>1. at = << i, j >> /\ i \in 1 .. argc /\ j \in Nat \ {0} /\ argc \in Nat
  BY CommandLine
<1> HIDE DEF i, j
<1>2. \A k \in i + 1 .. argc : f[<< k, 1 >>] = g[<< k, 1 >>]
  BY <1>1, LaterPlaces
<1>3. i < argc /\ j <= Len(typed[i]) => f[<< i, j + 1 >>] = g[<< i, j + 1 >>]
  BY <1>1, LaterPlaces
<1>4. CASE i = argc
  BY <1>4 DEF Read, i
<1>5. CASE i # argc
  <2>1. i < argc /\ i + 1 \in i + 1 .. argc /\ argc \in i + 1 .. argc /\ i \in 1 .. Len(typed)
    BY <1>1, <1>5, CommandLine
  <2>2. f[<< i + 1, 1 >>] = g[<< i + 1, 1 >>] /\ f[<< argc, 1 >>] = g[<< argc, 1 >>]
    BY <1>2, <2>1
  <2>3. ASSUME NEW x, NEW o, NEW n \in i + 1 .. argc, NEW none
        PROVE  ReadLong(f, x, o, n, none) = ReadLong(g, x, o, n, none)
    <3>1. n \in 1 .. argc /\ (n < argc => n + 1 \in i + 1 .. argc)
      BY <1>1
    <3>2. f[<< n, 1 >>] = g[<< n, 1 >>] /\ (n < argc => f[<< n + 1, 1 >>] = g[<< n + 1, 1 >>])
      BY <1>2, <3>1
    <3> QED BY <1>1, <3>1, <3>2, ReadLongLater
  <2>4. CASE j = 1
    <3>1. ReadElement(f, i) = ReadElement(g, i)
      <4>1. ReadLong(f, << i, 3 >>, LongOptions[pfound(<< i, 3 >>, FALSE)], i + 1, NoChar)
            = ReadLong(g, << i, 3 >>, LongOptions[pfound(<< i, 3 >>, FALSE)], i + 1, NoChar)
        BY <2>1, <2>3
      <4>2. ~ NONOPTION_P(i) => f[<< i, 2 >>] = g[<< i, 2 >>]
        <5>1. ~ NONOPTION_P(i) => 1 <= Len(typed[i])
          BY <2>1, CommandLine DEF NONOPTION_P
        <5> QED BY <1>3, <2>1, <2>4, <5>1
      <4> QED BY <2>2, <4>1, <4>2 DEF ReadElement
    <3> QED BY <1>5, <2>4, <3>1 DEF Read, i, j
  <2>5. CASE j # 1 /\ j > Len(typed[i])
    BY <1>5, <2>2, <2>5 DEF Read, i, j
  <2>6. CASE j # 1 /\ ~ (j > Len(typed[i]))
    <3>1. f[<< i, j + 1 >>] = g[<< i, j + 1 >>]
      <4>1. j <= Len(typed[i])
        BY <1>1, <2>1, <2>6, CommandLine
      <4> QED BY <1>3, <2>1, <4>1
    <3>2. ReadChar(f, i, j) = ReadChar(g, i, j)
      <4> DEFINE inside == j < Len(typed[i])
                 after  == IF inside THEN i + 1 ELSE i + 2
                 arg    == IF inside THEN << i, j + 1 >> ELSE << i + 1, 1 >>
                 o      == LongOptions[pfound(arg, TRUE)]
      <4>1. after <= argc => after \in i + 1 .. argc
        BY <1>1, <2>1
      <4>2. ~ (after > argc) => f[<< after, 1 >>] = g[<< after, 1 >>]
                                /\ ReadLong(f, arg, o, after, arg) = ReadLong(g, arg, o, after, arg)
        <5>1. ~ (after > argc) => after <= argc
          BY <1>1
        <5> HIDE DEF after, arg, o
        <5> QED BY <1>2, <2>3, <4>1, <5>1
      <4> QED BY <2>2, <3>1, <4>2 DEF ReadChar
    <3> QED BY <1>5, <2>6, <3>2 DEF Read, i, j
  <2> QED BY <2>4, <2>5, <2>6
<1> QED BY <1>4, <1>5

LEMMA FieldsChange ==
    ASSUME NEW a, NEW b, NEW s, NEW r, r = [results |-> a, operands |-> b]
    PROVE  /\ [r EXCEPT !.results = s] = [results |-> s, operands |-> b]
           /\ [r EXCEPT !.operands = s] = [results |-> a, operands |-> s]
OBVIOUS

LEMMA OptionRead ==
    ASSUME NEW c \in Codes, NEW arg \in Int \X Int, NEW rest \in Readings
    PROVE  /\ Option(c, arg, rest) \in Readings
           /\ Option(c, arg, rest).results = << [c |-> c, optarg |-> arg] >> \o rest.results
           /\ Option(c, arg, rest).operands = rest.operands
<1> DEFINE r == [c |-> c, optarg |-> arg]
           s == << r >> \o rest.results
<1>1. r \in Answers
  BY DEF Answers
<1>2. rest = [results |-> rest.results, operands |-> rest.operands]
      /\ rest.results \in Seq(Answers) /\ rest.operands \in Seq(Nat)
  BY DEF Readings
<1>3. s \in Seq(Answers)
  <2> HIDE DEF r
  <2> QED BY <1>1, <1>2
<1> HIDE DEF s
<1>4. Option(c, arg, rest) = [results |-> s, operands |-> rest.operands]
  <2>1. Option(c, arg, rest) = [rest EXCEPT !.results = s]
    BY DEF Option, s, r
  <2> QED BY <1>2, <2>1, FieldsChange
<1>5. Option(c, arg, rest) \in Readings
  BY <1>2, <1>3, <1>4 DEF Readings
<1> QED BY <1>4, <1>5 DEF s

LEMMA OperandsRead ==
    ASSUME NEW n \in Nat, argc \in Nat, n <= argc
    PROVE  /\ OperandsFrom(n) \in Readings
           /\ OperandsFrom(n).results = << [c |-> Done, optarg |-> NoChar] >>
           /\ OperandsFrom(n).operands = [k \in 1 .. argc - n |-> n + k - 1]
<1> DEFINE r == [c |-> Done, optarg |-> NoChar]
           s == [k \in 1 .. argc - n |-> n + k - 1]
<1>1. << r >> \in Seq(Answers)
  <2>1. r \in Answers
    BY DEF Answers, NoChar
  <2> HIDE DEF r
  <2> QED BY <2>1
<1>2. s \in Seq(Nat)
  <2>1. argc - n \in Nat
    OBVIOUS
  <2>2. \A k \in 1 .. argc - n : n + k - 1 \in Nat
    OBVIOUS
  <2> QED BY <2>1, <2>2
<1> HIDE DEF r, s
<1>3. OperandsFrom(n) = [results |-> << r >>, operands |-> s]
  BY DEF OperandsFrom, r, s
<1>4. OperandsFrom(n) \in Readings
  BY <1>1, <1>2, <1>3 DEF Readings
<1> QED BY <1>3, <1>4 DEF r, s

\* One operand more.
LEMMA OperandRead ==
    ASSUME NEW i \in Nat, NEW rest \in Readings
    PROVE  /\ [rest EXCEPT !.operands = << i >> \o @] \in Readings
           /\ [rest EXCEPT !.operands = << i >> \o @].results = rest.results
           /\ [rest EXCEPT !.operands = << i >> \o @].operands = << i >> \o rest.operands
<1> DEFINE s == << i >> \o rest.operands
           new == [rest EXCEPT !.operands = << i >> \o @]
<1>1. rest = [results |-> rest.results, operands |-> rest.operands]
      /\ rest.results \in Seq(Answers) /\ rest.operands \in Seq(Nat)
  BY DEF Readings
<1>2. s \in Seq(Nat)
  BY <1>1
<1> HIDE DEF s
<1>3. new = [results |-> rest.results, operands |-> s]
  <2> DEFINE x == rest.results
             y == rest.operands
  <2>1. new = [rest EXCEPT !.operands = s] /\ rest = [results |-> x, operands |-> y]
    BY <1>1 DEF s
  <2> HIDE DEF new, x, y
  <2>2. new = [results |-> x, operands |-> s]
    BY <2>1
  <2> QED BY <2>2 DEF x
<1> HIDE DEF new
<1>4. new \in Readings
  BY <1>1, <1>2, <1>3 DEF Readings
<1>5. new.results = rest.results /\ new.operands = << i >> \o rest.operands
  BY <1>3 DEF s
<1> QED BY <1>4, <1>5 DEF new

\* What the long option says that is named at a place.
LEMMA LongRead ==
    ASSUME CommandLineOK, NEW f, NEW i \in 1 .. Len(typed), NEW j \in 1 .. Len(typed[i]) + 1,
           NEW n \in 1 .. argc, NEW none \in Int \X Int,
           f[<< n, 1 >>] \in Readings, n < argc => f[<< n + 1, 1 >>] \in Readings,
           NEW l \in DOMAIN LongOptions
    PROVE  ReadLong(f, << i, j >>, LongOptions[l], n, none) \in Readings
<1> DEFINE o  == LongOptions[l]
           at == << i, j >>
           given == nameend(at) <= Len(typed[at[1]])
<1>1. argc \in Nat
  BY CommandLine
<1>2. o.val \in Codes /\ "?" \in Codes
  BY DEF Codes
<1>3. << at[1], nameend(at) + 1 >> \in Int \X Int /\ << n, 1 >> \in Int \X Int
  <2>1. Len(typed[i]) \in Nat
    BY CommandLine
  <2>2. nameend(at) \in Int
    BY <2>1, NameEnds
  <2> QED BY <1>1, <2>2
<1>4. n = argc \/ n < argc
  BY <1>1
<1> HIDE DEF o, at
<1>5. /\ Option("?", none, f[<< n, 1 >>]) \in Readings
      /\ Option(o.val, << at[1], nameend(at) + 1 >>, f[<< n, 1 >>]) \in Readings
      /\ Option(o.val, none, f[<< n, 1 >>]) \in Readings
  BY <1>2, <1>3, OptionRead
<1>6. n < argc => Option(o.val, << n, 1 >>, f[<< n + 1, 1 >>]) \in Readings
  BY <1>2, <1>3, OptionRead
<1>7. ReadLong(f, at, o, n, none) \in Readings
  BY <1>4, <1>5, <1>6 DEF ReadLong
<1> QED BY <1>7 DEF o, at

\* What is said anywhere is a sequence of options, and one of operands.
LEMMA ReadTyped ==
    ASSUME CommandLineOK, NEW at \in Places, NEW f, \A q \in Later(at) : f[q] \in Readings
    PROVE  Read(f, at) \in Readings
<1> DEFINE i == at[1]
           j == at[2]
<1>1. at = << i, j >> /\ i \in 1 .. argc /\ j \in Nat \ {0} /\ argc \in Nat
  BY CommandLine
<1> HIDE DEF i, j
<1>2. \A k \in i + 1 .. argc : f[<< k, 1 >>] \in Readings
  BY <1>1, LaterPlaces
<1>3. i < argc /\ j <= Len(typed[i]) => f[<< i, j + 1 >>] \in Readings
  BY <1>1, LaterPlaces
<1>4. CASE i = argc
  <2>1. OperandsFrom(argc) \in Readings
    <3>1. argc <= argc
      BY <1>1
    <3> QED BY <1>1, <3>1, OperandsRead
  <2> QED BY <1>4, <2>1 DEF Read, i
<1>5. CASE i # argc
  <2>1. i < argc /\ i + 1 \in i + 1 .. argc /\ argc \in i + 1 .. argc /\ i \in 1 .. Len(typed)
    BY <1>1, <1>5, CommandLine
  <2>2. f[<< i + 1, 1 >>] \in Readings /\ f[<< argc, 1 >>] \in Readings /\ Len(typed[i]) \in Nat
    BY <1>2, <2>1, CommandLine
  <2>3. ASSUME NEW k \in 1 .. Len(typed), NEW m \in 1 .. Len(typed[k]) + 1, NEW o \in DOMAIN LongOptions,
               NEW n \in i + 1 .. argc, NEW none \in Int \X Int
        PROVE  ReadLong(f, << k, m >>, LongOptions[o], n, none) \in Readings
    <3>1. n \in 1 .. argc /\ (n < argc => n + 1 \in i + 1 .. argc)
      BY <1>1
    <3>2. f[<< n, 1 >>] \in Readings /\ (n < argc => f[<< n + 1, 1 >>] \in Readings)
      BY <1>2, <3>1
    <3> QED BY <3>1, <3>2, LongRead
  <2>4. NoChar \in Int \X Int /\ "?" \in Codes /\ "W" \in Codes /\ Flags \cup MayHave \cup WithArgument \subseteq Codes
    BY DEF NoChar, Codes
  <2>5. CASE j = 1
    <3>1. OperandsFrom(i + 1) \in Readings /\ OperandsFrom(i) \in Readings
      <4>1. i \in Nat /\ i + 1 \in Nat /\ i <= argc /\ i + 1 <= argc
        BY <1>1, <2>1
      <4> QED BY <1>1, <4>1, OperandsRead
    <3>2. [f[<< i + 1, 1 >>] EXCEPT !.operands = << i >> \o @] \in Readings
      <4>1. i \in Nat
        BY <1>1
      <4> DEFINE rest == f[<< i + 1, 1 >>]
      <4>2. rest \in Readings
        BY <2>2
      <4> HIDE DEF rest
      <4>3. [rest EXCEPT !.operands = << i >> \o @] \in Readings
        BY <4>1, <4>2, OperandRead
      <4> QED BY <4>3 DEF rest
    <3>3. ~ NONOPTION_P(i) => f[<< i, 2 >>] \in Readings /\ 3 \in 1 .. Len(typed[i]) + 1
      <4>1. ~ NONOPTION_P(i) => 2 <= Len(typed[i])
        BY <2>2 DEF NONOPTION_P
      <4> QED BY <1>3, <2>1, <2>2, <2>5, <4>1
    <3>4. Option("?", NoChar, f[<< i + 1, 1 >>]) \in Readings
      BY <2>2, <2>4, OptionRead
    <3> DEFINE o == pfound(<< i, 3 >>, FALSE)
    <3>5. ~ (o <= 0) /\ ~ NONOPTION_P(i) => ReadLong(f, << i, 3 >>, LongOptions[o], i + 1, NoChar) \in Readings
      <4>1. o \in DOMAIN LongOptions \cup {0, -1}
        BY FoundIsThere DEF Ambiguous
      <4> HIDE DEF o
      <4>2. ~ (o <= 0) => o \in DOMAIN LongOptions
        BY <4>1
      <4> QED BY <2>1, <2>3, <2>4, <3>3, <4>2
    <3>6. ReadElement(f, i) \in Readings
      BY <3>1, <3>2, <3>3, <3>4, <3>5 DEF ReadElement
    <3> QED BY <1>5, <2>5, <3>6 DEF Read, i, j
  <2>6. CASE j # 1 /\ j > Len(typed[i])
    BY <1>5, <2>2, <2>6 DEF Read, i, j
  <2>7. CASE j # 1 /\ ~ (j > Len(typed[i]))
    <3> DEFINE c      == typed[i][j]
               inside == j < Len(typed[i])
               after  == IF inside THEN i + 1 ELSE i + 2
               arg    == IF inside THEN << i, j + 1 >> ELSE << i + 1, 1 >>
               o      == pfound(arg, TRUE)
    <3>1. f[<< i, j + 1 >>] \in Readings
      BY <1>1, <1>3, <2>1, <2>2, <2>7
    <3>2. arg \in Int \X Int
      BY <1>1
    <3>3. ~ (after > argc) => after \in i + 1 .. argc
      BY <1>1, <2>1
    <3>4. ~ (after > argc) => f[<< after, 1 >>] \in Readings
      <4> HIDE DEF after
      <4> QED BY <1>2, <3>3
    <3>5. ~ (after > argc) /\ o > 0 => ReadLong(f, arg, LongOptions[o], after, arg) \in Readings
      <4>1. o \in DOMAIN LongOptions \cup {0, -1}
        BY FoundIsThere DEF Ambiguous
      <4> HIDE DEF o
      <4>2. o > 0 => o \in DOMAIN LongOptions
        BY <4>1
      <4>3. CASE inside
        <5>1. j + 1 \in 1 .. Len(typed[i]) + 1
          BY <1>1, <2>2, <4>3
        <5> HIDE DEF after
        <5>2. arg = << i, j + 1 >>
          BY <4>3
        <5> HIDE DEF arg
        <5> QED BY <2>1, <2>3, <3>2, <3>3, <4>2, <5>1, <5>2
      <4>4. CASE ~ inside
        <5>1. ~ (after > argc) => i + 1 \in 1 .. Len(typed)
          BY <1>1, <4>4, CommandLine
        <5>2. i + 1 \in 1 .. Len(typed) => 1 \in 1 .. Len(typed[i + 1]) + 1
          BY CommandLine
        <5>3. arg = << i + 1, 1 >>
          BY <4>4
        <5> HIDE DEF after, arg
        <5> QED BY <2>3, <3>2, <3>3, <4>2, <5>1, <5>2, <5>3
      <4> QED BY <4>3, <4>4
    <3> HIDE DEF c, arg, after
    <3>6. /\ c \in MayHave => Option(c, arg, f[<< i + 1, 1 >>]) \in Readings
          /\ c \in Flags \cup MayHave => Option(c, NoChar, f[<< i, j + 1 >>]) \in Readings
          /\ Option("?", NoChar, f[<< i, j + 1 >>]) \in Readings
          /\ Option("?", NoChar, f[<< argc, 1 >>]) \in Readings
          /\ (c \in WithArgument \/ c = "W") /\ ~ (after > argc) => Option(c, arg, f[<< after, 1 >>]) \in Readings
      BY <2>2, <2>4, <3>1, <3>2, <3>4, OptionRead
    <3>7. ReadChar(f, i, j) \in Readings
      BY <3>5, <3>6 DEF ReadChar, c, arg, after
    <3> QED BY <1>5, <2>7, <3>7 DEF Read, i, j
  <2> QED BY <2>5, <2>6, <2>7
<1> QED BY <1>4, <1>5

\* A table that has at the places in A what is said there.
Solves(f, A) == f = [q \in Places |-> f[q]] /\ \A q \in A : f[q] = Read(f, q)

\* From a table for some places one for more of them, if what is said at all
\* those depends on the first ones only.
LEMMA SolveMore ==
    ASSUME CommandLineOK, NEW A \in SUBSET Places, NEW N \in SUBSET Places, NEW f, Solves(f, A),
           \A q \in A \cup N : Later(q) \cap N = {}
    PROVE  \E g : Solves(g, A \cup N)
<1> DEFINE g == [q \in Places |-> IF q \in N THEN Read(f, q) ELSE f[q]]
<1>1. ASSUME NEW q \in A \cup N PROVE Read(g, q) = Read(f, q)
  <2>1. q \in Places /\ \A z \in Later(q) : z \in Places /\ z \notin N
    BY DEF Later
  <2>2. \A z \in Later(q) : g[z] = f[z]
    BY <2>1
  <2> HIDE DEF g
  <2> QED BY <2>1, <2>2, ReadLater
<1>2. ASSUME NEW q \in A \cup N PROVE g[q] = Read(f, q)
  <2>1. q \in Places
    OBVIOUS
  <2>2. CASE q \in N
    BY <2>1, <2>2
  <2>3. CASE q \notin N
    <3>1. f[q] = Read(f, q)
      BY <2>3 DEF Solves
    <3>2. g[q] = f[q]
      BY <2>1, <2>3
    <3> QED BY <3>1, <3>2
  <2> QED BY <2>2, <2>3
<1>3. g = [q \in Places |-> g[q]]
  OBVIOUS
<1> HIDE DEF g
<1>4. Solves(g, A \cup N)
  BY <1>1, <1>2, <1>3 DEF Solves
<1> QED BY <1>4

\* The places from one on.
From(i, j) == {q \in Places : q[1] > i \/ (q[1] = i /\ q[2] >= j)}

\* There is a table for the whole command line.
LEMMA SomethingIsSaid ==
    ASSUME CommandLineOK
    PROVE  \E f : Solves(f, Places)
<1> DEFINE B == {at \in Places : \E f : Solves(f, From(at[1], at[2]))}
<1>1. /\ argc \in Nat \ {0}
      /\ \A q \in Places : q = << q[1], q[2] >> /\ q[1] \in 1 .. argc /\ q[2] \in Nat \ {0}
      /\ \A i \in 1 .. argc, j \in Nat \ {0} : << i, j >> \in Places
  BY CommandLine
<1>2. ASSUME NEW at \in Places, Later(at) \subseteq B PROVE at \in B
  <2> DEFINE i == at[1]
             j == at[2]
             A == IF i < argc /\ j <= Len(typed[i]) THEN From(i, j + 1) ELSE From(i + 1, 1)
             N == From(i, j) \ A
  <2>1. at = << i, j >> /\ i \in 1 .. argc /\ j \in Nat \ {0}
    BY <1>1
  <2> HIDE DEF i, j
  <2>2. PICK f : Solves(f, A)
    <3>1. CASE i < argc /\ j <= Len(typed[i])
      <4>1. << i, j + 1 >> \in B
        BY <1>2, <2>1, <3>1, LaterPlaces
      <4>2. \E f : Solves(f, From(i, j + 1))
        BY <4>1
      <4> QED BY <3>1, <4>2
    <3>2. CASE i < argc /\ ~ (j <= Len(typed[i]))
      <4>1. i + 1 \in i + 1 .. argc
        BY <1>1, <2>1, <3>2
      <4>2. << i + 1, 1 >> \in B
        BY <1>2, <2>1, <4>1, LaterPlaces
      <4>3. \E f : Solves(f, From(i + 1, 1))
        BY <4>2
      <4> QED BY <3>2, <4>3
    <3>3. CASE ~ (i < argc)
      <4>1. From(i + 1, 1) = {}
        BY <1>1, <2>1, <3>3 DEF From
      <4> DEFINE f == [q \in Places |-> q]
      <4>2. f = [q \in Places |-> f[q]]
        OBVIOUS
      <4> HIDE DEF f
      <4>3. Solves(f, From(i + 1, 1))
        BY <4>1, <4>2 DEF Solves
      <4> QED BY <3>3, <4>3
    <3> QED BY <3>1, <3>2, <3>3
  <2>3. A \in SUBSET Places /\ N \in SUBSET Places /\ A \cup N = From(i, j)
    BY <1>1, <2>1 DEF From
  <2>4. ASSUME NEW q \in A \cup N, NEW z \in Later(q) PROVE z \notin N
    <3>1. /\ q[1] \in Nat /\ q[2] \in Nat /\ z[1] \in Nat /\ z[2] \in Nat
          /\ z \in Places /\ (z[1] > q[1] \/ (z[1] = q[1] /\ z[2] > q[2] /\ q[1] < argc /\ q[2] <= Len(typed[q[1]])))
          /\ q \in From(i, j)
      BY <1>1, <2>3, <2>4 DEF Later
    <3>2. q[1] > i \/ (q[1] = i /\ q[2] >= j)
      BY <3>1 DEF From
    <3>3. CASE i < argc /\ j <= Len(typed[i])
      <4>1. z[1] > i \/ (z[1] = i /\ z[2] >= j + 1)
        BY <2>1, <3>1, <3>2
      <4>2. z \in From(i, j + 1)
        BY <3>1, <4>1 DEF From
      <4> QED BY <3>3, <4>2
    <3>4. CASE ~ (i < argc /\ j <= Len(typed[i]))
      <4>1. z[1] > i
        <5>1. SUFFICES ASSUME ~ (z[1] > i) PROVE FALSE
          OBVIOUS
        <5>2. q[1] = i /\ z[1] = i /\ q[2] >= j /\ i < argc /\ q[2] <= Len(typed[i])
          BY <2>1, <3>1, <3>2, <5>1
        <5>3. Len(typed[i]) \in Nat
          BY <2>1, <5>2, CommandLine
        <5> QED BY <2>1, <3>1, <3>4, <5>2, <5>3
      <4>2. z[1] >= i + 1 /\ z[2] \in Nat \ {0}
        BY <1>1, <2>1, <3>1, <4>1
      <4>3. z[1] > i + 1 \/ (z[1] = i + 1 /\ z[2] >= 1)
        BY <2>1, <3>1, <4>2
      <4>4. z \in From(i + 1, 1)
        BY <3>1, <4>3 DEF From
      <4> QED BY <3>4, <4>4
    <3> QED BY <3>3, <3>4
  <2> HIDE DEF A, N
  <2>5. \E g : Solves(g, A \cup N)
    BY <2>2, <2>3, <2>4, SolveMore
  <2> QED BY <2>3, <2>5 DEF i, j
<1>3. B = Places
  <2>1. B \in SUBSET Places
    OBVIOUS
  <2> HIDE DEF B
  <2> QED BY <1>2, <2>1, LaterFirst
<1>4. << 1, 1 >> \in Places
  BY <1>1
<1>5. \E f : Solves(f, From(1, 1))
  BY <1>3, <1>4
<1>6. From(1, 1) = Places
  BY <1>1 DEF From
<1> QED BY <1>5, <1>6

\* Says is what its definition says.
LEMMA SaysWhatItReads ==
    ASSUME CommandLineOK, NEW at \in Places
    PROVE  Says[at] = Read(Says, at)
<1> DEFINE G(f) == [q \in Places |-> Read(f, q)]
<1>1. PICK f : Solves(f, Places)
  BY SomethingIsSaid
<1>2. f = G(f)
  BY <1>1 DEF Solves
<1>3. Says = CHOOSE g : g = G(g)
  BY DEF Says
<1>4. Says = G(Says)
  <2> HIDE DEF G
  <2> QED BY <1>2, <1>3
<1>5. G(Says)[at] = Read(Says, at)
  OBVIOUS
<1> HIDE DEF G
<1> QED BY <1>4, <1>5

LEMMA SaysReadings ==
    ASSUME CommandLineOK, NEW at \in Places
    PROVE  Says[at] \in Readings
<1> DEFINE B == {q \in Places : Says[q] \in Readings}
<1>1. ASSUME NEW q \in Places, Later(q) \subseteq B PROVE q \in B
  <2>1. \A z \in Later(q) : Says[z] \in Readings
    BY <1>1
  <2>2. Read(Says, q) \in Readings
    BY <2>1, ReadTyped
  <2> QED BY <2>2, SaysWhatItReads
<1>2. B = Places
  <2>1. B \in SUBSET Places
    OBVIOUS
  <2> HIDE DEF B
  <2> QED BY <1>1, <2>1, LaterFirst
<1> QED BY <1>2

\* The command line says the same as long as it is the same.
LEMMA SaysStays ==
    ASSUME UNCHANGED << typed, ordering, long >>
    PROVE  Says' = Says /\ argc' = argc
<1>1. argc' = argc
  BY DEF argc
<1>2. Places' = Places
  BY DEF Places, argc
<1>3. ASSUME NEW e PROVE NONOPTION_P(e)' = NONOPTION_P(e)
  BY DEF NONOPTION_P
<1>4. ASSUME NEW at PROVE nameend(at)' = nameend(at)
  BY DEF nameend
<1>5. ASSUME NEW at, NEW W PROVE pfound(at, W)' = pfound(at, W)
  BY DEF pfound, nameend
<1>6. ASSUME NEW f, NEW at, NEW o, NEW n, NEW none
      PROVE  ReadLong(f, at, o, n, none)' = ReadLong(f, at, o, n, none)
  BY <1>1, <1>4 DEF ReadLong
<1>7. ASSUME NEW n PROVE OperandsFrom(n)' = OperandsFrom(n)
  BY <1>1 DEF OperandsFrom
<1>8. ASSUME NEW f, NEW i PROVE ReadElement(f, i)' = ReadElement(f, i)
  BY <1>3, <1>5, <1>6, <1>7 DEF ReadElement
<1>9. ASSUME NEW f, NEW i, NEW j PROVE ReadChar(f, i, j)' = ReadChar(f, i, j)
  BY <1>1, <1>5, <1>6 DEF ReadChar
<1>10. ASSUME NEW f, NEW at PROVE Read(f, at)' = Read(f, at)
  BY <1>1, <1>7, <1>8, <1>9 DEF Read
<1>11. Says' = Says
  BY <1>2, <1>10 DEF Says
<1> QED BY <1>1, <1>11

-----------------------------------------------------------------------------
(* Getopt: the operands that are skipped. *)

\* The elements from place x to the one before y.
Block(a, x, y) == [k \in 1 .. y - x |-> a[x + k - 1]]

Arrays(N) == [0 .. N -> 0 .. N]

Everything(a) == {a[k] : k \in DOMAIN a} = DOMAIN a

LEMMA RotatedBlock ==
    ASSUME NEW N \in Nat, NEW a \in Arrays(N), NEW b \in Nat, NEW m \in Nat, NEW t \in Nat,
           b <= m, m <= t, t <= N + 1
    PROVE  /\ Rotated(a, b, m, t) \in Arrays(N)
           /\ Everything(a) => Everything(Rotated(a, b, m, t))
           /\ \A k \in t .. N : Rotated(a, b, m, t)[k] = a[k]
           /\ Block(Rotated(a, b, m, t), b + (t - m), t) = Block(a, b, m)
<1> DEFINE R == Rotated(a, b, m, t)
<1> USE DEF Arrays
<1>1. DOMAIN R = 0 .. N /\ DOMAIN a = 0 .. N
  BY DEF Rotated
<1>2. ASSUME NEW k \in 0 .. N
      PROVE  R[k] = IF k \in b .. b + (t - m) - 1 THEN a[k + (m - b)]
                    ELSE IF k \in b + (t - m) .. t - 1 THEN a[k - (t - m)] ELSE a[k]
  BY <1>1 DEF Rotated
<1>3. R = [k \in 0 .. N |-> R[k]]
  BY <1>1 DEF Rotated
<1> HIDE DEF R
<1>4. ASSUME NEW k \in 0 .. N PROVE R[k] \in 0 .. N
  <2>1. CASE k \in b .. b + (t - m) - 1
    <3>1. k + (m - b) \in 0 .. N /\ R[k] = a[k + (m - b)]
      BY <1>2, <2>1
    <3> QED BY <3>1
  <2>2. CASE ~ (k \in b .. b + (t - m) - 1) /\ k \in b + (t - m) .. t - 1
    <3>1. k - (t - m) \in 0 .. N /\ R[k] = a[k - (t - m)]
      BY <1>2, <2>2
    <3> QED BY <3>1
  <2>3. CASE ~ (k \in b .. b + (t - m) - 1) /\ ~ (k \in b + (t - m) .. t - 1)
    BY <1>2, <2>3
  <2> QED BY <2>1, <2>2, <2>3
<1>5. R \in [0 .. N -> 0 .. N]
  BY <1>3, <1>4
<1>6. ASSUME NEW k \in t .. N PROVE R[k] = a[k]
  <2>1. k \in 0 .. N /\ ~ (k \in b .. b + (t - m) - 1) /\ ~ (k \in b + (t - m) .. t - 1)
    OBVIOUS
  <2> QED BY <1>2, <2>1
<1>7. ASSUME NEW k \in b .. m - 1 PROVE k + (t - m) \in 0 .. N /\ R[k + (t - m)] = a[k]
  <2> DEFINE i == k + (t - m)
  <2>1. i \in 0 .. N /\ i \in b + (t - m) .. t - 1 /\ ~ (i \in b .. b + (t - m) - 1) /\ i - (t - m) = k
    OBVIOUS
  <2> HIDE DEF i
  <2>2. R[i] = a[k]
    BY <1>2, <2>1
  <2> QED BY <2>1, <2>2 DEF i
<1>8. ASSUME NEW k \in m .. t - 1 PROVE k - (m - b) \in 0 .. N /\ R[k - (m - b)] = a[k]
  <2> DEFINE i == k - (m - b)
  <2>1. i \in 0 .. N /\ i \in b .. b + (t - m) - 1 /\ i + (m - b) = k
    OBVIOUS
  <2> HIDE DEF i
  <2>2. R[i] = a[k]
    BY <1>2, <2>1
  <2> QED BY <2>1, <2>2 DEF i
<1>9. ASSUME Everything(a) PROVE Everything(R)
  <2>1. ASSUME NEW x \in 0 .. N PROVE \E i \in 0 .. N : R[i] = x
    <3>1. PICK k \in 0 .. N : a[k] = x
      BY <1>1, <1>9 DEF Everything
    <3>2. CASE k \in b .. m - 1
      BY <1>7, <3>1, <3>2
    <3>3. CASE k \in m .. t - 1
      BY <1>8, <3>1, <3>3
    <3>4. CASE ~ (k \in b .. t - 1)
      <4>1. ~ (k \in b .. b + (t - m) - 1) /\ ~ (k \in b + (t - m) .. t - 1)
        BY <3>4
      <4> QED BY <1>2, <3>1, <4>1
    <3>5. k \in b .. m - 1 \/ k \in m .. t - 1 \/ ~ (k \in b .. t - 1)
      OBVIOUS
    <3> QED BY <3>2, <3>3, <3>4, <3>5
  <2> QED BY <1>1, <1>4, <2>1 DEF Everything
<1>10. Block(R, b + (t - m), t) = Block(a, b, m)
  <2>1. t - (b + (t - m)) = m - b
    OBVIOUS
  <2>2. ASSUME NEW k \in 1 .. m - b PROVE R[b + (t - m) + k - 1] = a[b + k - 1]
    <3>1. b + k - 1 \in b .. m - 1 /\ (b + k - 1) + (t - m) = b + (t - m) + k - 1
      OBVIOUS
    <3>2. R[(b + k - 1) + (t - m)] = a[b + k - 1]
      BY <1>7, <3>1
    <3> QED BY <3>1, <3>2
  <2> QED BY <2>1, <2>2 DEF Block
<1> QED BY <1>5, <1>6, <1>9, <1>10 DEF R

LEMMA BlockTyped ==
    ASSUME NEW N \in Nat, NEW a \in Arrays(N), NEW x \in Nat, NEW y \in Nat, x <= y, y <= N + 1
    PROVE  /\ Block(a, x, y) \in Seq(Nat) /\ Len(Block(a, x, y)) = y - x
           /\ \A k \in 1 .. y - x : Block(a, x, y)[k] = a[x + k - 1]
<1> DEFINE s == Block(a, x, y)
           d == y - x
<1> USE DEF Arrays
<1>1. \A k \in 1 .. d : x + k - 1 \in 0 .. N /\ a[x + k - 1] \in Nat
  OBVIOUS
<1>2. d \in Nat
  OBVIOUS
<1>3. s = [k \in 1 .. d |-> a[x + k - 1]]
  BY DEF Block
<1> HIDE DEF d, s
<1>4. s \in Seq(Nat) /\ Len(s) = d /\ \A k \in 1 .. d : s[k] = a[x + k - 1]
  <2>1. \A k \in 1 .. d : s[k] = a[x + k - 1]
    BY <1>3
  <2>2. s \in [1 .. d -> Nat]
    BY <1>1, <1>3
  <2>3. s \in Seq(Nat) /\ Len(s) = d
    BY <1>2, <2>2
  <2> QED BY <2>1, <2>3
<1> QED BY <1>4 DEF s, d

\* Two blocks in a row.
LEMMA BlocksJoin ==
    ASSUME NEW N \in Nat, NEW a \in Arrays(N), NEW x \in Nat, NEW y \in Nat, NEW z \in Nat,
           x <= y, y <= z, z <= N + 1
    PROVE  Block(a, x, z) = Block(a, x, y) \o Block(a, y, z)
<1> DEFINE s == Block(a, x, y)
           r == Block(a, y, z)
           u == Block(a, x, z)
           d == y - x
           c == z - y
<1>1. y <= N + 1 /\ x <= z
  OBVIOUS
<1>2. s \in Seq(Nat) /\ Len(s) = d
  <2> HIDE DEF s, r, u, d, c
  <2>1. Block(a, x, y) \in Seq(Nat) /\ Len(Block(a, x, y)) = y - x
    BY ZenonT(40), <1>1, BlockTyped
  <2> QED BY <2>1 DEF s, d
<1>3. \A k \in 1 .. d : s[k] = a[x + k - 1]
  BY DEF Block
<1>4. r \in Seq(Nat) /\ Len(r) = c
  <2> HIDE DEF s, r, u, d, c
  <2>1. Block(a, y, z) \in Seq(Nat) /\ Len(Block(a, y, z)) = z - y
    BY ZenonT(40), <1>1, BlockTyped
  <2> QED BY <2>1 DEF r, c
<1>5. \A k \in 1 .. c : r[k] = a[y + k - 1]
  BY DEF Block
<1>6. u \in Seq(Nat) /\ Len(u) = z - x
  <2> HIDE DEF s, r, u, d, c
  <2>1. Block(a, x, z) \in Seq(Nat) /\ Len(Block(a, x, z)) = z - x
    BY ZenonT(40), <1>1, BlockTyped
  <2> QED BY <2>1 DEF u
<1>7. \A k \in 1 .. z - x : u[k] = a[x + k - 1]
  BY DEF Block
<1>8. d \in Nat /\ c \in Nat /\ z - x = d + c /\ y = x + d
  OBVIOUS
<1> HIDE DEF s, r, u, d, c
<1> DEFINE q == s \o r
<1>9. q \in Seq(Nat) /\ Len(q) = d + c
  BY <1>2, <1>4, ConcatProperties
<1>10. \A k \in 1 .. d + c : q[k] = IF k <= d THEN s[k] ELSE r[k - d]
  BY <1>2, <1>4, ConcatProperties
<1> HIDE DEF q
<1>11. ASSUME NEW k \in 1 .. d + c PROVE q[k] = u[k]
  <2>1. q[k] = IF k <= d THEN s[k] ELSE r[k - d]
    BY <1>10
  <2>2. u[k] = a[x + k - 1]
    BY <1>7, <1>8
  <2>3. CASE k <= d
    <3>1. k \in 1 .. d
      BY <1>8, <2>3
    <3> QED BY <1>3, <2>1, <2>2, <2>3, <3>1
  <2>4. CASE ~ (k <= d)
    <3>1. k - d \in 1 .. c /\ y + (k - d) - 1 = x + k - 1
      BY <1>8, <2>4
    <3>2. r[k - d] = a[y + (k - d) - 1]
      BY <1>5, <3>1
    <3> QED BY <2>1, <2>2, <2>4, <3>1, <3>2
  <2> QED BY <2>3, <2>4
<1>12. q = u
  BY <1>6, <1>8, <1>9, <1>11
<1> QED BY <1>12 DEF s, r, u, q

LEMMA BlockGrows ==
    ASSUME NEW N \in Nat, NEW a \in Arrays(N), NEW x \in Nat, NEW y \in Nat, x <= y, y <= N
    PROVE  Block(a, x, y + 1) = Block(a, x, y) \o << a[y] >>
<1> DEFINE w == y + 1
<1>1. y \in Nat /\ w \in Nat /\ y <= w /\ w <= N + 1 /\ w - y = 1 /\ y + 1 - 1 = y /\ 1 \in 1 .. 1
  OBVIOUS
<1> HIDE DEF w
<1>2. Block(a, x, w) = Block(a, x, y) \o Block(a, y, w)
  BY <1>1, BlocksJoin
<1> DEFINE s == Block(a, y, w)
<1>3. s = [k \in 1 .. 1 |-> a[y + k - 1]]
  BY <1>1 DEF Block
<1>4. s = [k \in 1 .. 1 |-> a[y]]
  <2>1. \A k \in 1 .. 1 : y + k - 1 = y
    BY <1>1
  <2> QED BY <1>3, <2>1
<1> HIDE DEF s
<1>5. s = << a[y] >>
  BY <1>4
<1> QED BY <1>2, <1>5 DEF s, w

\* The skipped operands are at first .. last - 1; from optind on nothing has moved.
Sorted(s) ==
    /\ s = [argv |-> s.argv, optind |-> s.optind, first |-> s.first, last |-> s.last]
    /\ s.argv \in Arrays(Len(typed)) /\ Everything(s.argv)
    /\ s.first \in Nat /\ s.last \in Nat /\ s.optind \in Nat
    /\ 1 <= s.first /\ s.first <= s.last /\ s.last <= s.optind /\ s.optind <= argc
    /\ \A k \in s.optind .. Len(typed) : s.argv[k] = k
    /\ ordering # "PERMUTE" => s.first = s.last

\* What was returned and skipped, and what is said from a place on, is all there is.
IsRead(s, res, at) ==
    /\ Scan.results = res \o Says[at].results
    /\ Scan.operands = Block(s.argv, s.first, s.last) \o Says[at].operands

\* The arrays of elements that exchange makes of one.
LEMMA ExchangeSorts ==
    ASSUME CommandLineOK, NEW s, Sorted(s), NEW top \in Nat, s.optind <= top, top <= argc, s.last <= top,
           NEW t, t = [s EXCEPT !.optind = top]
    PROVE  /\ exchange(t) = [argv |-> exchange(t).argv, optind |-> top,
                             first |-> s.first + (top - s.last), last |-> top]
           /\ exchange(t).argv \in Arrays(Len(typed)) /\ Everything(exchange(t).argv)
           /\ \A k \in top .. Len(typed) : exchange(t).argv[k] = k
           /\ Block(exchange(t).argv, s.first + (top - s.last), top) = Block(s.argv, s.first, s.last)
<1> DEFINE N == Len(typed)
           a == s.argv
           b == s.first
           m == s.last
           R == Exchange(a, b, m, top)
<1>1. N \in Nat /\ argc = N + 1
  BY CommandLine
<1>2. a \in Arrays(N) /\ b \in Nat /\ m \in Nat /\ b <= m /\ m <= top /\ top <= N + 1 /\ Everything(a)
  BY <1>1 DEF Sorted
<1>3. t = [argv |-> a, optind |-> top, first |-> b, last |-> m]
  BY DEF Sorted
<1>4. exchange(t) = [argv |-> R, optind |-> top, first |-> b + (top - m), last |-> top]
  <2> HIDE DEF a, b, m
  <2>1. t.argv = a /\ t.optind = top /\ t.first = b /\ t.last = m
    BY <1>3
  <2>2. exchange(t) = [t EXCEPT !.argv = R, !.first = b + (top - m), !.last = top]
    BY <2>1 DEF exchange
  <2> HIDE DEF R
  <2> QED BY <1>3, <2>2
<1>5. \A k \in top .. N : a[k] = k
  <2>1. \A k \in top .. N : k \in s.optind .. N
    BY <1>1 DEF Sorted
  <2> QED BY <2>1 DEF Sorted
<1> HIDE DEF N, a, b, m
<1>6. R = Rotated(a, b, m, top)
  BY <1>1, <1>2, ExchangeRotates DEF Arrays
<1>7. /\ R \in Arrays(N) /\ Everything(R) /\ \A k \in top .. N : R[k] = a[k]
      /\ Block(R, b + (top - m), top) = Block(a, b, m)
  BY <1>1, <1>2, <1>6, RotatedBlock
<1> HIDE DEF R
<1>8. exchange(t).argv = R
  BY <1>4
<1> QED BY <1>4, <1>5, <1>7, <1>8 DEF N, a, b, m

\* Operands that are skipped are said.
LEMMA OperandSaid ==
    ASSUME CommandLineOK, ordering = "PERMUTE", NEW i \in 1 .. Len(typed), NONOPTION_P(i)
    PROVE  /\ Says[<< i, 1 >>].results = Says[<< i + 1, 1 >>].results
           /\ Says[<< i, 1 >>].operands = << i >> \o Says[<< i + 1, 1 >>].operands
<1>1. << i, 1 >> \in Places /\ << i + 1, 1 >> \in Places /\ i # argc /\ i \in Nat
  <2>1. i \in 1 .. argc /\ i + 1 \in 1 .. argc /\ 1 \in Nat \ {0} /\ i # argc
    BY CommandLine
  <2> QED BY <2>1, CommandLine
<1>2. Says[<< i + 1, 1 >>] \in Readings
  BY <1>1, SaysReadings
<1>3. Says[<< i, 1 >>] = Read(Says, << i, 1 >>)
  BY <1>1, SaysWhatItReads
<1>4. << i, 1 >>[1] = i /\ << i, 1 >>[2] = 1
  OBVIOUS
<1>5. Read(Says, << i, 1 >>) = ReadElement(Says, i)
  BY <1>1, <1>4 DEF Read
<1>6. typed[i] # << "-", "-" >>
  <2>1. Len(<< "-", "-" >>) = 2 /\ << "-", "-" >>[1] = "-"
    OBVIOUS
  <2> SUFFICES ASSUME typed[i] = << "-", "-" >> PROVE FALSE
    OBVIOUS
  <2>2. ~ (Len(typed[i]) <= 1) /\ ~ (typed[i][1] # "-")
    BY <2>1
  <2> QED BY <2>2 DEF NONOPTION_P
<1>7. ReadElement(Says, i) = [Says[<< i + 1, 1 >>] EXCEPT !.operands = << i >> \o @]
  BY <1>6, "PERMUTE" # "REQUIRE_ORDER" DEF ReadElement
<1> DEFINE rest == Says[<< i + 1, 1 >>]
<1> HIDE DEF rest
<1>8. rest \in Readings /\ Says[<< i, 1 >>] = [rest EXCEPT !.operands = << i >> \o @]
  BY <1>2, <1>3, <1>5, <1>7 DEF rest
<1>9. Says[<< i, 1 >>].results = rest.results /\ Says[<< i, 1 >>].operands = << i >> \o rest.operands
  BY <1>1, <1>8, OperandRead
<1> QED BY <1>9 DEF rest

\* Three sequences are joined in either order.
LEMMA NumbersAssociate ==
    \A u, v, w \in Seq(Nat) : (u \o v) \o w = u \o (v \o w)
OBVIOUS

LEMMA AnswersAssociate ==
    \A u, v, w \in Seq(Answers) : (u \o v) \o w = u \o (v \o w)
OBVIOUS

\* Permute keeps what is read, and stops at an option or behind all elements.
LEMMA PermuteReads ==
    ASSUME CommandLineOK, ordering = "PERMUTE", NEW s, Sorted(s), NEW res \in Seq(Answers),
           IsRead(s, res, << s.optind, 1 >>)
    PROVE  LET p == Permute(s) IN
           /\ Sorted(p) /\ IsRead(p, res, << p.optind, 1 >>) /\ p.last = p.optind
           /\ p.optind = argc \/ ~ NONOPTION_P(p.optind)
<1> DEFINE N == Len(typed)
           top == s.optind
           moved == IF s.first # s.last /\ s.last # s.optind THEN exchange(s)
                    ELSE IF s.last # s.optind THEN [s EXCEPT !.first = s.optind]
                    ELSE s
           a == moved.argv
           x == moved.first
           OK(k) == /\ k = argc \/ ~ NONOPTION_P(a[k])
                    /\ \A j \in top .. k - 1 : NONOPTION_P(a[j])
           next == CHOOSE k \in top .. argc : OK(k)
<1>1. N \in Nat /\ argc = N + 1 /\ top \in Nat /\ 1 <= top /\ top <= argc
  BY CommandLine DEF Sorted
<1>2. /\ a \in Arrays(N) /\ Everything(a) /\ x \in Nat /\ 1 <= x /\ x <= top
      /\ \A k \in top .. N : a[k] = k
      /\ moved = [argv |-> a, optind |-> top, first |-> x, last |-> moved.last]
      /\ Block(a, x, top) = Block(s.argv, s.first, s.last)
  <2>1. /\ s = [argv |-> s.argv, optind |-> top, first |-> s.first, last |-> s.last]
        /\ s.argv \in Arrays(N) /\ Everything(s.argv)
        /\ s.first \in Nat /\ s.last \in Nat /\ 1 <= s.first /\ s.first <= s.last /\ s.last <= top
        /\ \A k \in top .. N : s.argv[k] = k
    BY DEF Sorted
  <2>2. CASE s.first # s.last /\ s.last # s.optind
    <3>1. moved = exchange(s) /\ s = [s EXCEPT !.optind = top]
      BY <2>1, <2>2
    <3>2. /\ exchange(s) = [argv |-> exchange(s).argv, optind |-> top,
                            first |-> s.first + (top - s.last), last |-> top]
          /\ exchange(s).argv \in Arrays(N) /\ Everything(exchange(s).argv)
          /\ \A k \in top .. N : exchange(s).argv[k] = k
          /\ Block(exchange(s).argv, s.first + (top - s.last), top) = Block(s.argv, s.first, s.last)
      <4>1. top <= top
        BY <1>1
      <4> QED BY <1>1, <2>1, <3>1, <4>1, ExchangeSorts
    <3>3. a = exchange(s).argv /\ x = s.first + (top - s.last) /\ moved.last = top
      BY <3>1, <3>2
    <3>4. x \in Nat /\ 1 <= x /\ x <= top
      <4> HIDE DEF moved, top
      <4> QED BY <1>1, <2>1, <3>3
    <3> HIDE DEF moved
    <3> QED BY <3>1, <3>2, <3>3, <3>4
  <2>3. CASE s.first = s.last /\ s.last # s.optind
    <3>1. moved = [s EXCEPT !.first = top]
      BY <2>3
    <3>2. moved = [argv |-> s.argv, optind |-> top, first |-> top, last |-> s.last]
      <4> HIDE DEF moved, top
      <4> QED BY <2>1, <3>1
    <3> HIDE DEF moved
    <3>3. a = s.argv /\ x = top /\ moved.last = s.last
      BY <3>2
    <3>4. Block(a, x, top) = << >> /\ Block(s.argv, s.first, s.last) = << >>
      <4>1. ASSUME NEW b, NEW y \in Nat PROVE Block(b, y, y) = << >>
        <5>1. y - y = 0
          OBVIOUS
        <5> QED BY <5>1 DEF Block
      <4> HIDE DEF top
      <4> QED BY <1>1, <2>1, <2>3, <3>3, <4>1
    <3> HIDE DEF top
    <3> QED BY <1>1, <2>1, <3>2, <3>3, <3>4
  <2>4. CASE s.last = s.optind
    <3>1. moved = s
      BY <2>4
    <3> HIDE DEF moved
    <3> QED BY <1>1, <2>1, <2>4, <3>1
  <2> QED BY <2>2, <2>3, <2>4
<1>3. Permute(s) = [moved EXCEPT !.optind = next, !.last = next]
  BY DEF Permute
<1> HIDE DEF N, top, moved
<1>4. next \in top .. argc /\ OK(next)
  <2> DEFINE S == {k \in top .. argc : k = argc \/ ~ NONOPTION_P(a[k])}
  <2>1. S \in SUBSET Nat /\ argc \in S
    BY <1>1
  <2>2. PICK k \in S : \A l \in S : k <= l
    <3> HIDE DEF S
    <3> QED BY <2>1, LeastNatural
  <2>3. ASSUME NEW j \in top .. k - 1 PROVE NONOPTION_P(a[j])
    <3>1. j \in top .. argc /\ ~ (k <= j)
      BY <1>1, <2>2
    <3>2. j \notin S
      BY <2>2, <3>1
    <3> QED BY <3>1, <3>2
  <2>4. k \in top .. argc /\ OK(k)
    BY <2>2, <2>3
  <2> HIDE DEF OK
  <2> QED BY <2>4
<1> HIDE DEF next
<1> DEFINE p == Permute(s)
           l == moved.last
<1>5. p = [argv |-> a, optind |-> next, first |-> x, last |-> next]
  <2>1. moved = [argv |-> a, optind |-> top, first |-> x, last |-> l]
    BY <1>2
  <2>2. p = [moved EXCEPT !.optind = next, !.last = next]
    BY <1>3
  <2> HIDE DEF p, a, x, l
  <2> QED BY <2>1, <2>2
<1>6. next \in Nat /\ top <= next /\ next <= argc
  BY <1>1, <1>4
<1>7. \A k \in top .. next - 1 : k \in 1 .. N /\ a[k] = k /\ NONOPTION_P(k)
  <2>1. \A k \in top .. next - 1 : k \in 1 .. N /\ k \in top .. N
    BY <1>1, <1>6
  <2> QED BY <1>2, <1>4, <2>1
<1> HIDE DEF a, x, p
<1> DEFINE Good(n) == /\ Scan.results = res \o Says[<< n, 1 >>].results
                      /\ Scan.operands = Block(a, x, n) \o Says[<< n, 1 >>].operands
           Bad == {n \in Nat : top <= n /\ n <= next /\ ~ Good(n)}
<1>8. Bad = {}
  <2> SUFFICES ASSUME Bad # {} PROVE FALSE
    OBVIOUS
  <2>1. PICK n \in Bad : \A k \in Bad : n <= k
    <3>1. Bad \in SUBSET Nat
      OBVIOUS
    <3> HIDE DEF Bad
    <3> QED BY <3>1, LeastNatural
  <2>2. n # top
    <3>1. Good(top)
      BY <1>2 DEF IsRead, top
    <3>2. ~ Good(n)
      <4> HIDE DEF Good
      <4> QED BY <2>1
    <3>3. n = top => (Good(n) <=> Good(top))
      BY Zenon
    <3> HIDE DEF Good, Bad
    <3> QED BY ZenonT(40), <3>1, <3>2, <3>3
  <2> DEFINE k == n - 1
  <2>13. n \in Nat /\ top <= n /\ n <= next /\ n \in Bad
    BY <2>1
  <2>3. /\ k \in Nat /\ k + 1 = n /\ ~ (n <= k) /\ top <= k /\ k <= next /\ k \in top .. next - 1
    <3> HIDE DEF Bad, Good
    <3> QED BY <1>1, <1>6, <2>13, <2>2
  <2>14. k \notin Bad
    <3> HIDE DEF Bad, k
    <3> QED BY <2>1, <2>3
  <2>4. Good(k)
    <3> HIDE DEF Good, k
    <3>1. k \in Nat /\ top <= k /\ k <= next
      BY ZenonT(40), <2>3
    <3> QED BY <2>14, <3>1
  <2>15. Scan.results = res \o Says[<< k, 1 >>].results
        /\ Scan.operands = Block(a, x, k) \o Says[<< k, 1 >>].operands
    BY <2>4
  <2> HIDE DEF k, Bad
  <2>5. k \in 1 .. N /\ a[k] = k /\ NONOPTION_P(k)
    BY <1>7, <2>3
  <2> DEFINE y == Says[<< k, 1 >>]
             z == Says[<< n, 1 >>]
             b == Block(a, x, k)
  <2>6. y.results = z.results /\ y.operands = << k >> \o z.operands
    <3>1. Says[<< k, 1 >>].results = Says[<< k + 1, 1 >>].results
          /\ Says[<< k, 1 >>].operands = << k >> \o Says[<< k + 1, 1 >>].operands
      BY <2>5, OperandSaid DEF N
    <3> QED BY <2>3, <3>1
  <2>7. z.results \in Seq(Answers) /\ z.operands \in Seq(Nat)
    <3>1. << n, 1 >> \in Places
      <4>1. n \in 1 .. argc /\ 1 \in Nat \ {0}
        BY <1>1, <1>6, <2>13
      <4> QED BY <4>1, CommandLine
    <3>2. z \in Readings
      BY <3>1, SaysReadings
    <3> HIDE DEF z
    <3> QED BY <3>2 DEF Readings
  <2>8. b \in Seq(Nat) /\ Block(a, x, n) = b \o << k >> /\ << k >> \in Seq(Nat)
    <3>1. x <= k /\ k <= N /\ k <= N + 1 /\ x \in Nat /\ k \in Nat
      <4>1. x \in Nat /\ x <= top
        BY <1>2
      <4> QED BY <1>1, <2>3, <2>5, <4>1
    <3>4. a \in Arrays(N) /\ 1 <= x
      BY <1>2
    <3>2. Block(a, x, k + 1) = Block(a, x, k) \o << a[k] >>
      BY <1>1, <3>1, <3>4, BlockGrows
    <3>3. b \in Seq(Nat)
      BY <1>1, <3>1, <3>4, BlockTyped
    <3> QED BY <2>3, <2>5, <3>2, <3>3
  <2>9. Scan.operands = b \o (<< k >> \o z.operands)
    BY <2>15, <2>6
  <2> HIDE DEF b, y, z
  <2>10. (b \o << k >>) \o z.operands = b \o (<< k >> \o z.operands)
    <3> DEFINE w == << k >>  o == z.operands
    <3>1. b \in Seq(Nat) /\ w \in Seq(Nat) /\ o \in Seq(Nat)
      BY <2>7, <2>8
    <3> HIDE DEF w, o
    <3>2. (b \o w) \o o = b \o (w \o o)
      BY <3>1, NumbersAssociate
    <3> QED BY <3>2 DEF w, o
  <2>11. Good(n)
    BY <2>15, <2>6, <2>8, <2>9, <2>10 DEF y, z
  <2>12. ~ Good(n)
    <3> HIDE DEF Good
    <3> QED BY <2>13 DEF Bad
  <2> QED BY <2>11, <2>12
<1>9. Good(next)
  <2>1. next \in Nat /\ top <= next /\ next <= next
    BY <1>1, <1>6
  <2>2. next \notin Bad
    <3> HIDE DEF Bad
    <3> QED BY <1>8
  <2> HIDE DEF Good
  <2> QED BY <2>1, <2>2
<1>10. p.argv = a /\ p.optind = next /\ p.first = x /\ p.last = next
  BY <1>5
<1>11. Sorted(p)
  <2>1. \A k \in next .. N : a[k] = k
    <3>1. \A k \in next .. N : k \in top .. N
      BY <1>1, <1>6
    <3> QED BY <1>2, <3>1
  <2>2. x <= next /\ next <= next
    BY <1>1, <1>2, <1>6
  <2> QED BY <1>2, <1>5, <1>6, <1>10, <2>1, <2>2 DEF Sorted, N
<1>12. IsRead(p, res, << p.optind, 1 >>)
  BY <1>9, <1>10 DEF IsRead
<1>13. next = argc \/ ~ NONOPTION_P(next)
  <2>1. next = argc \/ next \in top .. N
    BY <1>1, <1>6
  <2>2. next = argc \/ ~ NONOPTION_P(a[next])
    BY <1>4
  <2> QED BY <1>2, <2>1, <2>2
<1> QED BY <1>10, <1>11, <1>12, <1>13 DEF p

-----------------------------------------------------------------------------
(* Getopt: a call. *)

Over(res) == res # << >> /\ Last(res).c = Done

\* So far res was returned, and the scan goes on at a place.
ScanOK(s, res, at) ==
    /\ res \in Seq(Answers) /\ ~ Over(res)
    /\ Sorted(s) /\ IsRead(s, res, at)

\* The scan has returned res, and the operands are from place n on.
EndOK(a, n, res) ==
    /\ Over(res) /\ Scan.results = res
    /\ a \in Arrays(Len(typed)) /\ Everything(a)
    /\ n \in 1 .. argc /\ Scan.operands = Block(a, n, argc)

\* optind may move on.
LEMMA SortedOn ==
    ASSUME CommandLineOK, NEW s, Sorted(s), NEW n \in Nat, s.optind <= n, n <= argc
    PROVE  /\ Sorted([s EXCEPT !.optind = n]) /\ [s EXCEPT !.optind = n].optind = n
           /\ [s EXCEPT !.optind = n].argv = s.argv
           /\ \A res, at : IsRead(s, res, at) => IsRead([s EXCEPT !.optind = n], res, at)
<1> DEFINE N == Len(typed)
           t == [s EXCEPT !.optind = n]
           a == s.argv
           b == s.first
           m == s.last
           i == s.optind
<1>1. /\ s = [argv |-> a, optind |-> i, first |-> b, last |-> m]
      /\ a \in Arrays(N) /\ Everything(a) /\ b \in Nat /\ m \in Nat /\ i \in Nat
      /\ 1 <= b /\ b <= m /\ m <= i /\ (ordering # "PERMUTE" => b = m)
      /\ \A k \in i .. N : a[k] = k
  BY DEF Sorted
<1>2. N \in Nat /\ argc = N + 1
  BY CommandLine
<1> HIDE DEF a, b, m, i, N
<1>3. t = [argv |-> a, optind |-> n, first |-> b, last |-> m]
  BY <1>1
<1> HIDE DEF t
<1>4. t.argv = a /\ t.optind = n /\ t.first = b /\ t.last = m
  BY <1>3
<1>5. m <= n
  BY <1>1 DEF i
<1>6. \A k \in n .. N : k \in i .. N
  BY <1>1, <1>2 DEF i
<1>7. Sorted(t)
  <2>1. \A k \in n .. N : a[k] = k
    BY <1>1, <1>6
  <2> QED BY <1>1, <1>3, <1>4, <1>5, <2>1 DEF Sorted, N
<1>8. \A res, at : IsRead(s, res, at) => IsRead(t, res, at)
  BY <1>4 DEF IsRead, a, b, m
<1> QED BY <1>4, <1>7, <1>8 DEF t, a

\* From n on nothing has moved, and there are only operands.
LEMMA OperandsLeft ==
    ASSUME CommandLineOK, NEW a \in Arrays(Len(typed)), NEW x \in Nat, NEW n \in Nat, x <= n, n <= argc,
           \A k \in n .. Len(typed) : a[k] = k
    PROVE  Block(a, x, n) \o OperandsFrom(n).operands = Block(a, x, argc)
<1>1. Len(typed) \in Nat /\ argc = Len(typed) + 1 /\ argc \in Nat
  BY CommandLine
<1>2. OperandsFrom(n).operands = [k \in 1 .. argc - n |-> n + k - 1]
  BY <1>1, OperandsRead
<1>3. OperandsFrom(n).operands = Block(a, n, argc)
  <2>1. ASSUME NEW k \in 1 .. argc - n PROVE a[n + k - 1] = n + k - 1
    <3>1. n + k - 1 \in n .. Len(typed)
      BY <1>1
    <3> QED BY <3>1
  <2> QED BY <1>2, <2>1 DEF Block
<1>4. argc <= Len(typed) + 1
  BY <1>1
<1> DEFINE N == Len(typed)  z == argc
<1>5. N \in Nat /\ a \in Arrays(N) /\ z \in Nat /\ n <= z /\ z <= N + 1
  BY <1>1, <1>4
<1> HIDE DEF N, z
<1>6. Block(a, x, z) = Block(a, x, n) \o Block(a, n, z)
  BY <1>5, BlocksJoin
<1> QED BY <1>3, <1>6 DEF z

\* What is returned last.
LEMMA LastAnswer ==
    ASSUME NEW res \in Seq(Answers), NEW r \in Answers
    PROVE  /\ Append(res, r) \in Seq(Answers) /\ Append(res, r) = res \o << r >>
           /\ Append(res, r) # << >> /\ Last(Append(res, r)) = r
<1> DEFINE z == Append(res, r)
<1>1. z \in Seq(Answers) /\ Len(z) = Len(res) + 1 /\ z[Len(res) + 1] = r /\ Len(res) \in Nat
  OBVIOUS
<1>2. z = res \o << r >>
  BY AppendIsConcat
<1> HIDE DEF z
<1>3. z # << >>
  BY <1>1
<1> QED BY <1>1, <1>2, <1>3 DEF Last, z

\* An option that is said at a place is returned, and the scan goes on behind it.
LEMMA AnswerRead ==
    ASSUME CommandLineOK, NEW s, NEW res, NEW at, ScanOK(s, res, at),
           NEW c \in Codes, NEW arg \in Int \X Int, NEW next \in Places,
           Says[at] = Option(c, arg, Says[next]), NEW t, Sorted(t),
           \A v, w : IsRead(s, v, w) => IsRead(t, v, w)
    PROVE  ScanOK(t, Append(res, [c |-> c, optarg |-> arg]), next)
<1> DEFINE r == [c |-> c, optarg |-> arg]
           y == Says[next]
           z == Append(res, r)
<1>1. res \in Seq(Answers) /\ IsRead(t, res, at)
  BY DEF ScanOK
<1>2. y \in Readings
  BY SaysReadings
<1>3. Says[at].results = << r >> \o y.results /\ Says[at].operands = y.operands
  <2>1. Says[at] = Option(c, arg, y)
    OBVIOUS
  <2> HIDE DEF y
  <2>2. Option(c, arg, y).results = << [c |-> c, optarg |-> arg] >> \o y.results
        /\ Option(c, arg, y).operands = y.operands
    BY <1>2, OptionRead
  <2> QED BY <2>1, <2>2
<1>4. r \in Answers /\ r.c = c
  BY DEF Answers
<1>5. y.results \in Seq(Answers)
  BY <1>2 DEF Readings
<1> HIDE DEF r, y
<1>6. z \in Seq(Answers) /\ z = res \o << r >> /\ z # << >> /\ Last(z) = r
  BY <1>1, <1>4, LastAnswer
<1>7. ~ Over(z)
  BY <1>4, <1>6, NotTheEnd DEF Over
<1>8. res \o (<< r >> \o y.results) = z \o y.results
  <2> DEFINE w == << r >>
             v == y.results
  <2>1. w \in Seq(Answers) /\ v \in Seq(Answers)
    BY <1>4, <1>5
  <2> HIDE DEF w, v
  <2>2. (res \o w) \o v = res \o (w \o v)
    BY ZenonT(40), <1>1, <2>1, AnswersAssociate
  <2> QED BY <1>6, <2>2 DEF w, v
<1> HIDE DEF z
<1>9. IsRead(t, z, next)
  BY <1>1, <1>3, <1>8 DEF IsRead, y
<1> QED BY <1>6, <1>7, <1>9 DEF ScanOK, r, z

TheEnd == [c |-> Done, optarg |-> NoChar]

\* Where only operands are said from n on, the scan may end, as soon as those
\* that were skipped are just before them.
LEMMA EndRead ==
    ASSUME CommandLineOK, NEW s, NEW res, NEW at, ScanOK(s, res, at),
           NEW n \in Nat, n <= argc, Says[at] = OperandsFrom(n),
           NEW a \in Arrays(Len(typed)), Everything(a), NEW x \in Nat, 1 <= x, x <= n,
           Block(a, x, n) = Block(s.argv, s.first, s.last), \A k \in n .. Len(typed) : a[k] = k
    PROVE  EndOK(a, x, Append(res, TheEnd))
<1>1. argc \in Nat
  BY CommandLine
<1>2. /\ Says[at].results = << TheEnd >>
      /\ Says[at].operands = OperandsFrom(n).operands
  BY <1>1, OperandsRead DEF TheEnd
<1>3. Block(a, x, n) \o OperandsFrom(n).operands = Block(a, x, argc)
  BY OperandsLeft
<1>4. res \in Seq(Answers) /\ TheEnd \in Answers /\ TheEnd.c = Done
  BY DEF ScanOK, TheEnd, Answers, NoChar
<1> DEFINE z == Append(res, TheEnd)
<1>5. z = res \o << TheEnd >> /\ z # << >> /\ Last(z) = TheEnd
  BY <1>4, LastAnswer
<1> HIDE DEF z
<1>6. Over(z)
  BY <1>4, <1>5 DEF Over
<1>7. Scan.results = z /\ Scan.operands = Block(a, x, argc)
  BY <1>2, <1>3, <1>5 DEF ScanOK, IsRead
<1>8. x \in 1 .. argc
  BY <1>1
<1> QED BY <1>6, <1>7, <1>8 DEF EndOK, z

\* Before it stops, getopt has the skipped operands just before the others.
LEMMA EndOfOptionsReads ==
    ASSUME CommandLineOK, ordering \in Orderings, NEW p, NEW res, ScanOK(p, res, << p.optind, 1 >>),
           ordering = "PERMUTE" => p.last = p.optind
    PROVE  LET found == EndOfOptions(p) IN
           /\ found = [argv |-> found.argv, optind |-> found.optind,
                       first |-> found.first, last |-> found.last]
           /\ found.optind = argc =>
                EndOK(found.argv, IF found.first # found.last THEN found.first ELSE found.optind,
                      Append(res, TheEnd))
           /\ found.optind # argc =>
                found = p /\ p.optind \in 1 .. Len(typed) /\ p.argv[p.optind] = p.optind
                /\ typed[p.optind] # << "-", "-" >>
<1> DEFINE N == Len(typed)
           a == p.argv
           i == p.optind
           b == p.first
           m == p.last
           found == EndOfOptions(p)
<1>1. N \in Nat /\ argc = N + 1
  BY CommandLine
<1>2. /\ p = [argv |-> a, optind |-> i, first |-> b, last |-> m]
      /\ a \in Arrays(N) /\ Everything(a) /\ b \in Nat /\ m \in Nat /\ i \in Nat
      /\ 1 <= b /\ b <= m /\ m <= i /\ i <= argc
  BY DEF ScanOK, Sorted
<1>3. \A k \in i .. N : a[k] = k
  BY DEF ScanOK, Sorted
<1>4. b # m => m = i
  BY DEF ScanOK, Sorted
<1> HIDE DEF N, a, i, b, m
<1>5. i # argc => i \in 1 .. N /\ a[i] = i
  <2> SUFFICES ASSUME i # argc PROVE i \in 1 .. N /\ a[i] = i
    OBVIOUS
  <2>1. i \in 1 .. N /\ i \in i .. N
    BY <1>1, <1>2
  <2> QED BY <1>3, <2>1
<1>6. CASE i = argc
  <2>1. found = p
    BY <1>6 DEF EndOfOptions, i
  <2> DEFINE x == IF b # m THEN b ELSE i
  <2>2. Says[<< i, 1 >>] = OperandsFrom(i)
    <3>1. << i, 1 >> \in Places
      <4>1. i \in 1 .. argc /\ 1 \in Nat \ {0}
        BY <1>1, <1>6
      <4> QED BY <4>1, CommandLine
    <3>2. Says[<< i, 1 >>] = Read(Says, << i, 1 >>) /\ << i, 1 >>[1] = argc
      BY <1>6, <3>1, SaysWhatItReads
    <3> QED BY <1>6, <3>2 DEF Read
  <2>3. x \in Nat /\ 1 <= x /\ x <= i
    BY <1>2, <1>6, <1>1
  <2>4. Block(a, x, i) = Block(a, b, m)
    <3>1. CASE b # m
      BY <1>4, <3>1
    <3>2. CASE b = m
      <4>1. ASSUME NEW y \in Nat PROVE Block(a, y, y) = << >>
        <5>1. y - y = 0
          OBVIOUS
        <5> QED BY <5>1 DEF Block
      <4> QED BY <1>2, <3>2, <4>1
    <3> QED BY <3>1, <3>2
  <2>5. EndOK(a, x, Append(res, TheEnd))
    <3> HIDE DEF x
    <3>1. i <= argc /\ a \in Arrays(Len(typed)) /\ Everything(a) /\ i \in Nat
          /\ Block(a, x, i) = Block(p.argv, p.first, p.last)
      BY <1>2, <2>4 DEF N, a, b, m
    <3>2. \A k \in i .. Len(typed) : a[k] = k
      BY <1>3 DEF N
    <3>3. ScanOK(p, res, << i, 1 >>)
      BY DEF i
    <3> QED BY <2>2, <2>3, <3>1, <3>2, <3>3, EndRead
  <2> HIDE DEF found
  <2>6. found = [argv |-> found.argv, optind |-> found.optind, first |-> found.first, last |-> found.last]
    BY <1>2, <2>1 DEF a, i, b, m
  <2> QED BY <1>6, <2>1, <2>5, <2>6 DEF a, i, b, m, found
<1>7. CASE i # argc /\ typed[a[i]] = << "-", "-" >>
  <2> DEFINE n == i + 1
             t == [p EXCEPT !.optind = n]
             u == IF t.first # t.last /\ t.last # t.optind THEN exchange(t)
                  ELSE IF t.first = t.last THEN [t EXCEPT !.first = t.optind]
                  ELSE t
             x == u.first
             c == u.argv
  <2>1. found = [u EXCEPT !.last = argc, !.optind = argc]
    BY <1>7 DEF EndOfOptions, i, a
  <2>2. n \in Nat /\ n <= argc /\ i <= n /\ m <= n /\ m # n /\ 1 <= n
    BY <1>1, <1>2, <1>5, <1>7
  <2> HIDE DEF n
  <2>3. t = [argv |-> a, optind |-> n, first |-> b, last |-> m]
    <3> HIDE DEF t
    <3>1. t = [p EXCEPT !.optind = n]
      BY DEF t
    <3> QED BY <1>2, <3>1
  <2>4. /\ u = [argv |-> c, optind |-> n, first |-> x, last |-> u.last]
        /\ c \in Arrays(N) /\ Everything(c) /\ x \in Nat /\ 1 <= x /\ x <= n
        /\ Block(c, x, n) = Block(a, b, m) /\ \A k \in n .. N : c[k] = k
    <3>1. CASE b # m
      <4>1. u = exchange(t)
        BY <2>2, <2>3, <3>1
      <4>2. /\ exchange(t) = [argv |-> exchange(t).argv, optind |-> n,
                              first |-> b + (n - m), last |-> n]
            /\ exchange(t).argv \in Arrays(N) /\ Everything(exchange(t).argv)
            /\ \A k \in n .. N : exchange(t).argv[k] = k
            /\ Block(exchange(t).argv, b + (n - m), n) = Block(a, b, m)
        <5>1. Sorted(p) /\ p.optind <= n /\ p.last <= n
          BY <2>2 DEF ScanOK, i, m
        <5> HIDE DEF t
        <5>2. t = [p EXCEPT !.optind = n]
          BY DEF t
        <5> QED BY <2>2, <5>1, <5>2, ExchangeSorts DEF a, b, m, N
      <4> HIDE DEF u
      <4>3. c = exchange(t).argv /\ x = b + (n - m) /\ u.last = n
        BY <4>1, <4>2
      <4> HIDE DEF c, x
      <4>4. x \in Nat /\ 1 <= x /\ x <= n
        BY <1>2, <2>2, <4>3
      <4> QED BY <4>1, <4>2, <4>3, <4>4
    <3>2. CASE b = m
      <4>1. u = [t EXCEPT !.first = n]
        BY <2>3, <3>2
      <4> HIDE DEF u, t
      <4>2. u = [argv |-> a, optind |-> n, first |-> n, last |-> m]
        BY <2>3, <4>1
      <4>3. c = a /\ x = n /\ u.last = m
        BY <4>2
      <4>4. ASSUME NEW y \in Nat PROVE Block(a, y, y) = << >>
        <5>1. y - y = 0
          OBVIOUS
        <5> QED BY <5>1 DEF Block
      <4>5. Block(a, n, n) = Block(a, b, m)
        BY <1>2, <2>2, <3>2, <4>4
      <4>6. \A k \in n .. N : a[k] = k
        <5>1. \A k \in n .. N : k \in i .. N
          BY <1>1, <1>2, <2>2
        <5> QED BY <1>3, <5>1
      <4> HIDE DEF c, x
      <4>7. x \in Nat /\ 1 <= x /\ x <= n
        BY <2>2, <4>3
      <4> QED BY <1>2, <4>2, <4>3, <4>5, <4>6, <4>7
    <3> QED BY <3>1, <3>2
  <2> HIDE DEF u, t, c, x
  <2>5. found = [argv |-> c, optind |-> argc, first |-> x, last |-> argc]
    <3> DEFINE l == u.last
    <3>1. u = [argv |-> c, optind |-> n, first |-> x, last |-> l]
      BY <2>4
    <3> HIDE DEF l, found
    <3> QED BY <2>1, <3>1
  <2>6. Says[<< i, 1 >>] = OperandsFrom(n)
    <3>1. << i, 1 >> \in Places
      <4>1. i \in 1 .. argc /\ 1 \in Nat \ {0}
        BY <1>1, <1>5, <1>7
      <4> QED BY <4>1, CommandLine
    <3>2. Says[<< i, 1 >>] = Read(Says, << i, 1 >>) /\ << i, 1 >>[1] = i /\ << i, 1 >>[2] = 1
      BY <3>1, SaysWhatItReads
    <3>3. Read(Says, << i, 1 >>) = ReadElement(Says, i)
      BY <1>7, <3>2 DEF Read
    <3> QED BY <1>5, <1>7, <3>2, <3>3 DEF ReadElement, n
  <2>7. EndOK(c, x, Append(res, TheEnd))
    <3>1. c \in Arrays(Len(typed)) /\ Everything(c)
          /\ Block(c, x, n) = Block(p.argv, p.first, p.last)
      BY <2>4 DEF N, a, b, m
    <3>2. \A k \in n .. Len(typed) : c[k] = k
      BY <2>4 DEF N
    <3>3. ScanOK(p, res, << i, 1 >>)
      BY DEF i
    <3>4. x \in Nat /\ 1 <= x /\ x <= n
      BY <2>4
    <3> QED BY <2>2, <2>6, <3>1, <3>2, <3>3, <3>4, EndRead
  <2>8. (IF found.first # found.last THEN found.first ELSE found.optind) = x /\ found.argv = c
        /\ found.optind = argc
        /\ found = [argv |-> found.argv, optind |-> found.optind, first |-> found.first, last |-> found.last]
    <3> HIDE DEF found
    <3> QED BY <2>5
  <2> HIDE DEF found
  <2> QED BY <2>7, <2>8 DEF found
<1>8. CASE i # argc /\ typed[a[i]] # << "-", "-" >>
  <2>1. found = p
    BY <1>8 DEF EndOfOptions, i, a
  <2> HIDE DEF found
  <2>2. found = [argv |-> found.argv, optind |-> found.optind, first |-> found.first, last |-> found.last]
    BY <1>2, <2>1 DEF a, i, b, m
  <2> QED BY <1>5, <1>8, <2>1, <2>2 DEF a, i, N, found
<1> QED BY <1>6, <1>7, <1>8

State == [argv |-> argv, optind |-> optind, first |-> first_nonopt, last |-> last_nonopt]

\* getopt is between two characters of an element.
Inside == nextchar # NoChar /\ nextchar[2] <= Len(typed[nextchar[1]])

Position == IF Inside THEN nextchar ELSE << optind, 1 >>

\* Between two calls.
Scanning ==
    /\ ScanOK(State, results, Position)
    /\ nextchar = NoChar \/ nextchar \in (1 .. Len(typed)) \X (Nat \ {0, 1})
    /\ Inside => nextchar[1] = optind

\* What the command line says, and what is sorted, depends on it only.
LEMMA ScanStays ==
    ASSUME UNCHANGED << typed, ordering, long >>
    PROVE  /\ \A s, res, at : ScanOK(s, res, at)' <=> ScanOK(s, res, at)
           /\ \A a, n, res : EndOK(a, n, res)' <=> EndOK(a, n, res)
<1>1. argc' = argc /\ Scan' = Scan /\ Says' = Says
  BY SaysStays DEF Scan
<1>2. ASSUME NEW s, NEW res, NEW at PROVE ScanOK(s, res, at)' <=> ScanOK(s, res, at)
  <2>1. Sorted(s)' <=> Sorted(s)
    BY <1>1 DEF Sorted
  <2>2. IsRead(s, res, at)' <=> IsRead(s, res, at)
    BY <1>1 DEF IsRead
  <2> QED BY <2>1, <2>2 DEF ScanOK, Over
<1>3. ASSUME NEW a, NEW n, NEW res PROVE EndOK(a, n, res)' <=> EndOK(a, n, res)
  BY <1>1 DEF EndOK, Over
<1> QED BY <1>2, <1>3

\* An answer with which getopt has finished an element.
LEMMA AnswerScans ==
    ASSUME CommandLineOK, UNCHANGED << typed, ordering, long >>,
           NEW s, NEW at, ScanOK(s, results, at), NEW t, Sorted(t),
           \A v, w : IsRead(s, v, w) => IsRead(t, v, w),
           NEW c \in Codes, NEW arg \in Int \X Int, Answer(t, c, arg),
           Says[at] = Option(c, arg, Says[<< t.optind, 1 >>])
    PROVE  Scanning'
<1>1. /\ argv' = t.argv /\ optind' = t.optind /\ first_nonopt' = t.first /\ last_nonopt' = t.last
      /\ results' = Append(results, [c |-> c, optarg |-> arg]) /\ nextchar' = NoChar
  BY DEF Answer, Update, Returns
<1>2. State' = t
  BY <1>1 DEF State, Sorted
<1>3. Position' = << t.optind, 1 >> /\ ~ Inside'
  BY <1>1 DEF Position, Inside
<1>4. << t.optind, 1 >> \in Places
  <2>1. t.optind \in 1 .. argc /\ 1 \in Nat \ {0}
    BY CommandLine DEF Sorted
  <2> QED BY <2>1, CommandLine
<1>5. ScanOK(t, results', << t.optind, 1 >>)
  BY <1>1, <1>4, AnswerRead
<1>6. ScanOK(State', results', Position')
  BY <1>2, <1>3, <1>5
<1>7. ScanOK(State, results, Position)'
  BY <1>6, ScanStays
<1> QED BY <1>1, <1>3, <1>7 DEF Scanning

\* optind moves on, when there is something more.
LEMMA MoveOn ==
    ASSUME CommandLineOK, NEW s, Sorted(s), s.optind < argc
    PROVE  /\ Sorted([s EXCEPT !.optind = @ + 1]) /\ [s EXCEPT !.optind = @ + 1].optind = s.optind + 1
           /\ s.argv[s.optind] = s.optind /\ s.optind \in 1 .. Len(typed)
           /\ \A v, w : IsRead(s, v, w) => IsRead([s EXCEPT !.optind = @ + 1], v, w)
<1> DEFINE i == s.optind
           n == i + 1
<1>1. i \in Nat /\ 1 <= i /\ Len(typed) \in Nat /\ argc = Len(typed) + 1
  BY CommandLine DEF Sorted
<1>2. n \in Nat /\ i <= n /\ n <= argc /\ i \in 1 .. Len(typed) /\ i \in i .. Len(typed)
  BY <1>1
<1>3. [s EXCEPT !.optind = @ + 1] = [s EXCEPT !.optind = n]
  OBVIOUS
<1>4. s.argv[i] = i
  BY <1>2 DEF Sorted
<1> HIDE DEF n
<1>5. /\ Sorted([s EXCEPT !.optind = n]) /\ [s EXCEPT !.optind = n].optind = n
      /\ \A v, w : IsRead(s, v, w) => IsRead([s EXCEPT !.optind = n], v, w)
  BY <1>2, SortedOn
<1> QED BY <1>2, <1>3, <1>4, <1>5 DEF n

\* A long option and its argument.
LEMMA LongScans ==
    ASSUME CommandLineOK, UNCHANGED << typed, ordering, long >>,
           NEW s, NEW at, ScanOK(s, results, at), NEW t, Sorted(t),
           \A v, w : IsRead(s, v, w) => IsRead(t, v, w),
           NEW i \in 1 .. Len(typed), NEW j \in 1 .. Len(typed[i]) + 1, NEW l \in DOMAIN LongOptions,
           NEW none \in Int \X Int, Long(t, << i, j >>, LongOptions[l], none),
           Says[at] = ReadLong(Says, << i, j >>, LongOptions[l], t.optind, none)
    PROVE  Scanning'
<1> DEFINE o == LongOptions[l]
           e == nameend(<< i, j >>)
           n == t.optind
           q == << i, j >>
<1>1. o.val \in Codes /\ "?" \in Codes
  BY DEF Codes
<1>2. e \in Nat /\ << i, e + 1 >> \in Int \X Int
  <2>1. Len(typed[i]) \in Nat
    BY CommandLine
  <2>2. e \in j .. Len(typed[i]) + 1
    BY NameEnds
  <2> HIDE DEF e
  <2> QED BY <2>1, <2>2
<1>3. n \in Nat /\ 1 <= n /\ n <= argc /\ argc \in Nat
  BY CommandLine DEF Sorted
<1>4. q[1] = i /\ q[2] = j
  OBVIOUS
<1> HIDE DEF o, e, n, q
<1>5. /\ Long(t, q, o, none) /\ Says[at] = ReadLong(Says, q, o, n, none)
      /\ e = nameend(q)
  BY DEF o, n, q, e
<1>6. CASE e <= Len(typed[i]) /\ o.has_arg # 0
  <2>1. Answer(t, o.val, << i, e + 1 >>)
    BY <1>4, <1>5, <1>6 DEF Long
  <2>2. Says[at] = Option(o.val, << i, e + 1 >>, Says[<< t.optind, 1 >>])
    BY <1>4, <1>5, <1>6 DEF ReadLong, n
  <2> QED BY <1>1, <1>2, <2>1, <2>2, AnswerScans
<1>7. CASE e <= Len(typed[i]) /\ o.has_arg = 0
  <2>1. Answer(t, "?", none)
    BY <1>4, <1>5, <1>7 DEF Long
  <2>2. Says[at] = Option("?", none, Says[<< t.optind, 1 >>])
    BY <1>4, <1>5, <1>7 DEF ReadLong, n
  <2> QED BY <1>1, <2>1, <2>2, AnswerScans
<1>8. CASE ~ (e <= Len(typed[i])) /\ o.has_arg # 1
  <2>1. Answer(t, o.val, none)
    BY <1>4, <1>5, <1>8 DEF Long
  <2>2. Says[at] = Option(o.val, none, Says[<< t.optind, 1 >>])
    BY <1>4, <1>5, <1>8 DEF ReadLong, n
  <2> QED BY <1>1, <2>1, <2>2, AnswerScans
<1>9. CASE ~ (e <= Len(typed[i])) /\ o.has_arg = 1 /\ n = argc
  <2>1. Answer(t, "?", none)
    BY <1>4, <1>5, <1>9 DEF Long, n
  <2>2. Says[at] = Option("?", none, Says[<< t.optind, 1 >>])
    BY <1>4, <1>5, <1>9 DEF ReadLong, n
  <2> QED BY <1>1, <2>1, <2>2, AnswerScans
<1>10. CASE ~ (e <= Len(typed[i])) /\ o.has_arg = 1 /\ n # argc
  <2> DEFINE u == [t EXCEPT !.optind = @ + 1]
  <2>1. t.optind < argc
    BY <1>3, <1>10 DEF n
  <2>2. Sorted(u) /\ u.optind = n + 1 /\ t.argv[n] = n
        /\ \A v, w : IsRead(t, v, w) => IsRead(u, v, w)
    BY <2>1, MoveOn DEF n
  <2>3. Answer(u, o.val, << n, 1 >>)
    BY <1>4, <1>5, <1>10, <2>2 DEF Long, n
  <2>4. Says[at] = Option(o.val, << n, 1 >>, Says[<< n + 1, 1 >>])
    BY <1>4, <1>5, <1>10 DEF ReadLong
  <2> HIDE DEF u
  <2>5. Says[at] = Option(o.val, << n, 1 >>, Says[<< u.optind, 1 >>])
    BY <2>2, <2>4
  <2>6. << n, 1 >> \in Int \X Int
    BY <1>3
  <2>7. \A v, w : IsRead(s, v, w) => IsRead(u, v, w)
    BY <2>2
  <2> QED BY <1>1, <2>2, <2>3, <2>5, <2>6, <2>7, AnswerScans
<1> QED BY <1>6, <1>7, <1>8, <1>9, <1>10

\* Behind the last character of an element the next element is read.
LEMMA PastTheElement ==
    ASSUME CommandLineOK, NEW i \in 1 .. Len(typed), NEW j \in Nat \ {0, 1}, j > Len(typed[i])
    PROVE  Says[<< i, j >>] = Says[<< i + 1, 1 >>]
<1> DEFINE q == << i, j >>
<1>1. i \in 1 .. argc /\ j \in Nat \ {0} /\ i # argc /\ Len(typed[i]) \in Nat
  BY CommandLine
<1>2. q \in Places /\ q[1] = i /\ q[2] = j
  BY <1>1, CommandLine
<1>3. Says[q] = Read(Says, q)
  BY <1>2, SaysWhatItReads
<1>4. Read(Says, q) = Says[<< q[1] + 1, 1 >>]
  BY <1>1, <1>2 DEF Read
<1> QED BY <1>2, <1>3, <1>4

\* What is said at an option character.
LEMMA CharSaid ==
    ASSUME CommandLineOK, NEW i \in 1 .. Len(typed), NEW j \in Nat \ {0, 1}, j <= Len(typed[i])
    PROVE  Says[<< i, j >>] = ReadChar(Says, i, j)
<1> DEFINE q == << i, j >>
<1>1. i \in 1 .. argc /\ j \in Nat \ {0} /\ i # argc /\ Len(typed[i]) \in Nat
  BY CommandLine
<1>2. q \in Places /\ q[1] = i /\ q[2] = j
  BY <1>1, CommandLine
<1>3. Says[q] = Read(Says, q)
  BY <1>2, SaysWhatItReads
<1>4. Read(Says, q) = ReadChar(Says, i, j)
  BY <1>1, <1>2 DEF Read
<1> QED BY <1>3, <1>4

\* A character without an argument: getopt stays in the element.
LEMMA CharScans ==
    ASSUME CommandLineOK, UNCHANGED << typed, ordering, long >>,
           NEW s, NEW i \in 1 .. Len(typed), NEW j \in Nat \ {0, 1}, j <= Len(typed[i]),
           i = s.optind, ScanOK(s, results, << i, j >>),
           NEW c \in Codes, Says[<< i, j >>] = Option(c, NoChar, Says[<< i, j + 1 >>]),
           nextchar' = << i, j + 1 >>, Returns(c, NoChar),
           Update([s EXCEPT !.optind = IF j = Len(typed[i]) THEN i + 1 ELSE i])
    PROVE  Scanning'
<1> DEFINE n == IF j = Len(typed[i]) THEN i + 1 ELSE i
           t == [s EXCEPT !.optind = n]
           q == << i, j >>
           r == << i, j + 1 >>
<1>1. Len(typed) \in Nat /\ argc = Len(typed) + 1 /\ Len(typed[i]) \in Nat /\ i \in Nat
  BY CommandLine
<1>2. n \in Nat /\ i <= n /\ n <= argc
  BY <1>1
<1>3. Sorted(t) /\ t.optind = n /\ \A v, w : IsRead(s, v, w) => IsRead(t, v, w)
  <2>1. Sorted(s) /\ s.optind <= n
    BY <1>2 DEF ScanOK
  <2> HIDE DEF n
  <2> QED BY <1>2, <2>1, SortedOn
<1>4. r \in Places /\ r[1] = i /\ r[2] = j + 1
  <2>1. i \in 1 .. argc /\ j + 1 \in Nat \ {0}
    BY <1>1
  <2> QED BY <2>1, CommandLine
<1>5. NoChar \in Int \X Int
  BY DEF NoChar
<1>6. ScanOK(t, Append(results, [c |-> c, optarg |-> NoChar]), r)
  <2>1. Sorted(t) /\ \A v, w : IsRead(s, v, w) => IsRead(t, v, w)
    BY <1>3
  <2>2. Says[q] = Option(c, NoChar, Says[r]) /\ ScanOK(s, results, q)
    OBVIOUS
  <2> HIDE DEF t, q, r
  <2> QED BY <1>4, <1>5, <2>1, <2>2, AnswerRead
<1>7. /\ argv' = t.argv /\ optind' = t.optind /\ first_nonopt' = t.first /\ last_nonopt' = t.last
      /\ results' = Append(results, [c |-> c, optarg |-> NoChar]) /\ nextchar' = r
  BY DEF Update, Returns
<1> HIDE DEF t
<1>8. State' = t
  BY <1>3, <1>7 DEF State, Sorted
<1>9. r # NoChar
  BY <1>1, <1>4 DEF NoChar
<1>10. Inside' <=> j + 1 <= Len(typed[i])
  BY <1>4, <1>7, <1>9 DEF Inside
<1>11. Inside' => r[1] = optind'
  <2>1. j + 1 <= Len(typed[i]) => n = i
    BY <1>1
  <2> QED BY <1>3, <1>4, <1>7, <1>10, <2>1
<1>12. Says[Position'] = Says[r]
  <2>1. CASE j + 1 <= Len(typed[i])
    BY <1>7, <1>10, <2>1 DEF Position
  <2>2. CASE ~ (j + 1 <= Len(typed[i]))
    <3>1. n = i + 1
      <4>1. j = Len(typed[i])
        <5> DEFINE end == Len(typed[i])
        <5>1. j \in Nat /\ end \in Nat
          BY <1>1
        <5>3. j <= end /\ ~ (j + 1 <= end)
          BY <2>2
        <5> HIDE DEF end
        <5>2. j = end
          BY <5>1, <5>3
        <5> QED BY <5>2 DEF end
      <4> QED BY <4>1
    <3>2. Position' = << n, 1 >>
      BY <1>3, <1>7, <1>10, <2>2 DEF Position
    <3>3. Says[<< i, j + 1 >>] = Says[<< i + 1, 1 >>]
      <4>1. j + 1 \in Nat \ {0, 1} /\ j + 1 > Len(typed[i])
        BY SMTT(40), <1>1, <2>2
      <4> QED BY <4>1, PastTheElement
    <3> QED BY <3>1, <3>2, <3>3
  <2> QED BY <2>1, <2>2
<1>13. ScanOK(State', results', Position')
  BY <1>6, <1>7, <1>8, <1>12 DEF ScanOK, IsRead
<1>14. ScanOK(State, results, Position)'
  BY <1>13, ScanStays
<1>15. r \in (1 .. Len(typed)) \X (Nat \ {0, 1})
  BY <1>1
<1> QED BY <1>7, <1>11, <1>14, <1>15 DEF Scanning

\* A character with an argument.
LEMMA ArgumentScans ==
    ASSUME CommandLineOK, long => WIsUnambiguous, UNCHANGED << typed, ordering, long >>,
           NEW s, NEW i \in 1 .. Len(typed), NEW j \in Nat \ {0, 1}, j <= Len(typed[i]),
           i = s.optind, ScanOK(s, results, << i, j >>),
           typed[i][j] \in WithArgument \cup MayHave \/ (typed[i][j] = "W" /\ long),
           Argument(s, i, j, IF j = Len(typed[i]) THEN i + 1 ELSE i)
    PROVE  Scanning'
<1> DEFINE c == typed[i][j]
           at == << i, j >>
           final == j = Len(typed[i])
           n == i + 1
           t == [s EXCEPT !.optind = n]
<1>1. Len(typed) \in Nat /\ argc = Len(typed) + 1 /\ Len(typed[i]) \in Nat /\ i \in Nat
  BY CommandLine
<1>2. c \in Codes /\ "?" \in Codes
  BY DEF Codes
<1>3. Says[at] = ReadChar(Says, i, j)
  BY CharSaid
<1>4. Sorted(s) /\ ScanOK(s, results, at)
  BY DEF ScanOK
<1>5. n \in Nat /\ s.optind <= n /\ n <= argc /\ n # i
  BY <1>1
<1>6. Sorted(t) /\ t.optind = n /\ t.argv = s.argv /\ \A v, w : IsRead(s, v, w) => IsRead(t, v, w)
  <2> HIDE DEF n
  <2> QED BY <1>4, <1>5, SortedOn
<1>7. NoChar \in Int \X Int
  BY DEF NoChar
<1>8. /\ WithArgument \cap MayHave = {} /\ Flags \cap WithArgument = {} /\ Flags \cap MayHave = {}
      /\ "W" \notin Flags \cup WithArgument \cup MayHave
  BY GetoptAssumption
<1> HIDE DEF t, at
<1>9. CASE final /\ c \in MayHave
  <2>1. Answer(t, c, NoChar)
    BY <1>9 DEF Argument, t
  <2>2. Says[at] = Option(c, NoChar, Says[<< i, j + 1 >>])
    <3>1. ~ (j < Len(typed[i]))
      BY <1>1, <1>9
    <3> QED BY <1>3, <1>9, <3>1 DEF ReadChar
  <2>3. Says[<< i, j + 1 >>] = Says[<< n, 1 >>]
    <3>1. j + 1 \in Nat \ {0, 1} /\ j + 1 > Len(typed[i])
      BY <1>1, <1>9
    <3> QED BY <3>1, PastTheElement
  <2>4. Says[at] = Option(c, NoChar, Says[<< t.optind, 1 >>])
    BY <1>6, <2>2, <2>3
  <2> QED BY <1>2, <1>4, <1>6, <1>7, <2>1, <2>4, AnswerScans
<1>10. CASE final /\ c \notin MayHave /\ n = argc
  <2>1. Answer(t, "?", NoChar)
    BY <1>5, <1>10 DEF Argument, t
  <2>2. Says[at] = Option("?", NoChar, Says[<< argc, 1 >>])
    <3>1. c \notin Flags \cup MayHave /\ ~ (c \notin WithArgument /\ ~ (c = "W" /\ long))
      BY <1>8, <1>10
    <3>2. i + 2 > argc /\ ~ (j < Len(typed[i]))
      BY <1>1, <1>10
    <3> QED BY <1>3, <3>1, <3>2 DEF ReadChar
  <2>3. Says[at] = Option("?", NoChar, Says[<< t.optind, 1 >>])
    BY <1>6, <1>10, <2>2
  <2> QED BY <1>2, <1>4, <1>6, <1>7, <2>1, <2>3, AnswerScans
<1>11. CASE ~ (final /\ c \in MayHave) /\ ~ (final /\ n = argc)
  <2> DEFINE arg == IF final THEN << n, 1 >> ELSE << i, j + 1 >>
             u == IF final THEN [t EXCEPT !.optind = @ + 1] ELSE t
             after == IF final THEN n + 1 ELSE n
  <2>1. Sorted(u) /\ u.optind = after /\ (\A v, w : IsRead(s, v, w) => IsRead(u, v, w))
        /\ (final => s.argv[n] = n /\ n \in 1 .. Len(typed))
    <3>1. CASE final
      <4>1. t.optind < argc
        BY <1>1, <1>5, <1>6, <1>11, <3>1
      <4>2. Sorted([t EXCEPT !.optind = @ + 1]) /\ [t EXCEPT !.optind = @ + 1].optind = t.optind + 1
            /\ t.argv[t.optind] = t.optind /\ t.optind \in 1 .. Len(typed)
            /\ \A v, w : IsRead(t, v, w) => IsRead([t EXCEPT !.optind = @ + 1], v, w)
        BY <1>6, <4>1, MoveOn
      <4> HIDE DEF n
      <4> QED BY <1>6, <3>1, <4>2
    <3>2. CASE ~ final
      BY <1>6, <3>2
    <3> QED BY <3>1, <3>2
  <2>2. u = [s EXCEPT !.optind = IF final THEN n + 1 ELSE i + 1]
    <3>1. s = [argv |-> s.argv, optind |-> s.optind, first |-> s.first, last |-> s.last]
      BY <1>4 DEF Sorted
    <3>2. t = [argv |-> s.argv, optind |-> n, first |-> s.first, last |-> s.last]
      BY <3>1 DEF t
    <3>3. CASE final
      <4>1. [t EXCEPT !.optind = @ + 1]
            = [argv |-> s.argv, optind |-> n + 1, first |-> s.first, last |-> s.last]
        BY <3>2
      <4>2. [s EXCEPT !.optind = n + 1]
            = [argv |-> s.argv, optind |-> n + 1, first |-> s.first, last |-> s.last]
        BY <3>1
      <4> QED BY <3>3, <4>1, <4>2
    <3>4. CASE ~ final
      BY <3>4 DEF t
    <3> QED BY <3>3, <3>4
  <2> HIDE DEF u
  <2>3. arg \in Int \X Int /\ after \in Nat /\ after <= argc
    <3>1. CASE final
      <4>1. n # argc /\ arg = << n, 1 >> /\ after = n + 1
        BY <1>11, <3>1
      <4> HIDE DEF n, arg, after
      <4> QED BY <1>1, <1>5, <4>1
    <3>2. CASE ~ final
      BY <1>1, <1>5, <3>2
    <3> QED BY <3>1, <3>2
  <2>4. /\ c = "W" => DecodeW(u, arg)
        /\ c # "W" => Answer(u, c, arg)
    BY <1>11, <2>1, <2>2 DEF Argument
  <2>5. /\ c = "W" /\ pfound(arg, TRUE) > 0
             => Says[at] = ReadLong(Says, arg, LongOptions[pfound(arg, TRUE)], after, arg)
        /\ ~ (c = "W" /\ pfound(arg, TRUE) > 0) => Says[at] = Option(c, arg, Says[<< after, 1 >>])
    <3>1. CASE c \in MayHave
      <4>1. j < Len(typed[i]) /\ c # "W"
        BY <1>1, <1>8, <1>11, <3>1
      <4>2. Says[at] = Option(c, << i, j + 1 >>, Says[<< i + 1, 1 >>])
        BY <1>3, <3>1, <4>1 DEF ReadChar
      <4>3. ~ final
        BY <4>1
      <4>4. arg = << i, j + 1 >> /\ after = n
        BY <4>3
      <4> HIDE DEF arg, after
      <4> QED BY <4>1, <4>2, <4>4
    <3>2. CASE c \notin MayHave
      <4>1. c \notin Flags \cup MayHave /\ ~ (c \notin WithArgument /\ ~ (c = "W" /\ long))
        BY <1>8, <3>2
      <4>2. j < Len(typed[i]) <=> ~ final
        BY <1>1
      <4>3. after = (IF j < Len(typed[i]) THEN i + 1 ELSE i + 2)
            /\ arg = IF j < Len(typed[i]) THEN << i, j + 1 >> ELSE << i + 1, 1 >>
        <5>1. CASE final
          <6>1. after = i + 2 /\ arg = << i + 1, 1 >> /\ ~ (j < Len(typed[i]))
            BY <1>1, <4>2, <5>1
          <6> QED BY <6>1
        <5>2. CASE ~ final
          <6>1. after = i + 1 /\ arg = << i, j + 1 >> /\ j < Len(typed[i])
            BY <1>1, <4>2, <5>2
          <6> QED BY <6>1
        <5> QED BY <5>1, <5>2
      <4>4. ~ (after > argc)
        <5> HIDE DEF after
        <5> QED BY <1>1, <2>3
      <4> HIDE DEF after, arg, final
      <4> QED BY <1>3, <3>2, <4>1, <4>3, <4>4 DEF ReadChar
    <3> QED BY <3>1, <3>2
  <2>6. CASE c # "W" \/ pfound(arg, TRUE) = 0
    <3>1. Answer(u, c, arg)
      BY <2>4, <2>6 DEF DecodeW
    <3>2. Says[at] = Option(c, arg, Says[<< u.optind, 1 >>])
      <4> HIDE DEF arg, after
      <4>1. ~ (c = "W" /\ pfound(arg, TRUE) > 0)
        <5> DEFINE o == pfound(arg, TRUE)
        <5>1. o = 0 => ~ (o > 0)
          <6> HIDE DEF o
          <6> QED OBVIOUS
        <5>2. c # "W" \/ o = 0
          BY <2>6
        <5> HIDE DEF o
        <5>3. ~ (c = "W" /\ o > 0)
          BY <5>1, <5>2
        <5> QED BY <5>3 DEF o
      <4> QED BY <2>1, <2>5, <4>1
    <3> HIDE DEF arg
    <3> QED BY <1>2, <1>4, <2>1, <2>3, <3>1, <3>2, AnswerScans
  <2>7. CASE c = "W" /\ pfound(arg, TRUE) # 0
    <3> DEFINE o == pfound(arg, TRUE)
    <3>1. o # Ambiguous
      <4>1. j \in 2 .. Len(typed[i])
        BY <1>1
      <4>2. arg = IF j < Len(typed[i]) THEN << i, j + 1 >> ELSE << i + 1, 1 >>
        BY <1>1
      <4>3. arg[1] # argc
        BY <1>1, <1>11
      <4>4. WIsUnambiguous
        BY <1>8, <2>7
      <4> HIDE DEF arg
      <4> QED BY <2>7, <4>1, <4>2, <4>3, <4>4 DEF WIsUnambiguous
    <3>2. o \in DOMAIN LongOptions /\ o > 0
      <4>1. o \in DOMAIN LongOptions \cup {0, Ambiguous} /\ 0 \notin DOMAIN LongOptions
            /\ DOMAIN LongOptions \subseteq Nat
        BY FoundIsThere
      <4> HIDE DEF o
      <4>2. o \in DOMAIN LongOptions
        BY <2>7, <3>1, <4>1 DEF o
      <4> QED BY <4>1, <4>2
    <3>3. Long(u, arg, LongOptions[o], arg)
      BY <2>4, <2>7, <3>1 DEF DecodeW
    <3>4. Says[at] = ReadLong(Says, arg, LongOptions[o], u.optind, arg)
      BY <2>1, <2>5, <2>7, <3>2
    <3> HIDE DEF o
    <3>5. CASE final
      <4>1. n \in 1 .. Len(typed) /\ 1 \in 1 .. Len(typed[n]) + 1 /\ arg = << n, 1 >>
        <5>1. n \in 1 .. Len(typed)
          BY <2>1, <3>5
        <5>2. Len(typed[n]) \in Nat
          BY <5>1, CommandLine
        <5> QED BY <3>5, <5>1, <5>2
      <4>2. << n, 1 >> \in Int \X Int /\ Long(u, << n, 1 >>, LongOptions[o], << n, 1 >>)
            /\ Says[at] = ReadLong(Says, << n, 1 >>, LongOptions[o], u.optind, << n, 1 >>)
        BY <2>3, <3>3, <3>4, <4>1
      <4> HIDE DEF n
      <4> QED BY <1>4, <2>1, <3>2, <4>1, <4>2, LongScans
    <3>6. CASE ~ final
      <4> DEFINE m == j + 1
      <4>1. m \in 1 .. Len(typed[i]) + 1 /\ arg = << i, m >>
        BY <1>1, <3>6
      <4>2. << i, m >> \in Int \X Int /\ Long(u, << i, m >>, LongOptions[o], << i, m >>)
            /\ Says[at] = ReadLong(Says, << i, m >>, LongOptions[o], u.optind, << i, m >>)
        BY <2>3, <3>3, <3>4, <4>1
      <4> HIDE DEF m
      <4> QED BY <1>4, <2>1, <3>2, <4>1, <4>2, LongScans
    <3> QED BY <3>5, <3>6
  <2> QED BY <2>6, <2>7
<1> QED BY <1>9, <1>10, <1>11

\* An option character, wherever it is.
LEMMA DecodeScans ==
    ASSUME CommandLineOK, long => WIsUnambiguous, UNCHANGED << typed, ordering, long >>,
           NEW s, NEW i \in 1 .. Len(typed), NEW j \in Nat \ {0, 1}, j <= Len(typed[i]),
           i = s.optind, ScanOK(s, results, << i, j >>), Decode(s, i, j)
    PROVE  Scanning'
<1> DEFINE c == typed[i][j]
           at == IF j = Len(typed[i]) THEN i + 1 ELSE i
           taken == c \in WithArgument \cup MayHave \/ (c = "W" /\ long)
<1>1. CASE taken
  <2>1. Argument(s, i, j, at)
    BY <1>1 DEF Decode
  <2> QED BY <1>1, <2>1, ArgumentScans
<1>2. CASE ~ taken
  <2> DEFINE k == IF c \in Flags THEN c ELSE "?"
  <2>1. /\ nextchar' = << i, j + 1 >> /\ Update([s EXCEPT !.optind = at]) /\ Returns(k, NoChar)
    BY <1>2 DEF Decode
  <2>2. k \in Codes
    BY DEF Codes
  <2>3. Says[<< i, j >>] = Option(k, NoChar, Says[<< i, j + 1 >>])
    <3>1. Says[<< i, j >>] = ReadChar(Says, i, j)
      BY CharSaid
    <3>2. c \notin MayHave /\ c \notin WithArgument /\ ~ (c = "W" /\ long)
      BY <1>2
    <3> QED BY <3>1, <3>2 DEF ReadChar
  <2> HIDE DEF k
  <2> QED BY <2>1, <2>2, <2>3, CharScans
<1> QED BY <1>1, <1>2

\* An element that is an option.
LEMMA ElementScans ==
    ASSUME CommandLineOK, long => WIsUnambiguous, UNCHANGED << typed, ordering, long >>,
           NEW s, NEW i \in 1 .. Len(typed), i = s.optind, ScanOK(s, results, << i, 1 >>),
           ~ NONOPTION_P(i), typed[i] # << "-", "-" >>,
           IF long /\ typed[i][2] = "-" THEN DecodeLong(s, << i, 3 >>) ELSE Decode(s, i, 2)
    PROVE  Scanning'
<1>1. Len(typed) \in Nat /\ argc = Len(typed) + 1 /\ typed[i] \in Seq(STRING) /\ Len(typed[i]) \in Nat
      /\ i \in Nat
  BY CommandLine
<1>2. ~ (Len(typed[i]) <= 1) /\ typed[i][1] = "-"
  BY DEF NONOPTION_P
<1>3. Says[<< i, 1 >>] = ReadElement(Says, i)
  <2> DEFINE q == << i, 1 >>
  <2>1. i \in 1 .. argc /\ 1 \in Nat \ {0} /\ i # argc
    BY <1>1
  <2>2. q \in Places /\ q[1] = i /\ q[2] = 1
    BY <2>1, CommandLine
  <2>3. Says[q] = Read(Says, q)
    BY <2>2, SaysWhatItReads
  <2>4. Read(Says, q) = ReadElement(Says, i)
    BY <2>1, <2>2 DEF Read
  <2> QED BY <2>3, <2>4
<1>4. CASE ~ (long /\ typed[i][2] = "-")
  <2>1. Says[<< i, 1 >>] = Says[<< i, 2 >>]
    BY <1>3, <1>4 DEF ReadElement
  <2>2. ScanOK(s, results, << i, 2 >>)
    BY <2>1 DEF ScanOK, IsRead
  <2>3. Decode(s, i, 2)
    BY <1>4
  <2> DEFINE j == 2
  <2>4. j \in Nat \ {0, 1} /\ j <= Len(typed[i])
    BY <1>1, <1>2
  <2>5. ScanOK(s, results, << i, j >>) /\ Decode(s, i, j)
    BY <2>2, <2>3
  <2> HIDE DEF j
  <2> QED BY <2>4, <2>5, DecodeScans
<1>5. CASE long /\ typed[i][2] = "-"
  <2> DEFINE o == pfound(<< i, 3 >>, FALSE)
             t == [s EXCEPT !.optind = @ + 1]
  <2>1. Sorted(s) /\ s.optind < argc
    BY <1>1 DEF ScanOK
  <2>2. Sorted(t) /\ t.optind = i + 1 /\ \A v, w : IsRead(s, v, w) => IsRead(t, v, w)
    BY <2>1, MoveOn
  <2>3. o \in DOMAIN LongOptions \cup {0, Ambiguous} /\ DOMAIN LongOptions \subseteq Nat
        /\ 0 \notin DOMAIN LongOptions
    BY FoundIsThere
  <2>4. DecodeLong(s, << i, 3 >>)
    BY <1>5
  <2>5. NoChar \in Int \X Int /\ "?" \in Codes
    BY DEF NoChar, Codes
  <2>6. CASE o \in {0, Ambiguous}
    <3>1. Answer(t, "?", NoChar)
      BY <2>4, <2>6 DEF DecodeLong
    <3>2. o <= 0
      <4> HIDE DEF o
      <4> QED BY <2>6 DEF Ambiguous
    <3>3. Says[<< i, 1 >>] = Option("?", NoChar, Says[<< i + 1, 1 >>])
      BY <1>2, <1>3, <1>5, <3>2 DEF ReadElement
    <3> HIDE DEF t
    <3>4. Says[<< i, 1 >>] = Option("?", NoChar, Says[<< t.optind, 1 >>])
      BY <2>2, <3>3
    <3> QED BY <2>2, <2>5, <3>1, <3>4, AnswerScans
  <2>7. CASE o \notin {0, Ambiguous}
    <3>1. Long(t, << i, 3 >>, LongOptions[o], NoChar)
      BY <2>4, <2>7 DEF DecodeLong
    <3>2. o \in DOMAIN LongOptions /\ ~ (o <= 0)
      <4> HIDE DEF o
      <4> QED BY <2>3, <2>7
    <3>3. Says[<< i, 1 >>] = ReadLong(Says, << i, 3 >>, LongOptions[o], i + 1, NoChar)
      BY <1>2, <1>3, <1>5, <3>2 DEF ReadElement
    <3> HIDE DEF t, o
    <3> DEFINE m == 3
    <3>4. m \in 1 .. Len(typed[i]) + 1
      BY <1>1, <1>2
    <3>5. Long(t, << i, m >>, LongOptions[o], NoChar)
          /\ Says[<< i, 1 >>] = ReadLong(Says, << i, m >>, LongOptions[o], t.optind, NoChar)
      BY <2>2, <3>1, <3>3
    <3> HIDE DEF m
    <3> QED BY <2>2, <2>5, <3>2, <3>4, <3>5, LongScans
  <2> QED BY <2>6, <2>7
<1> QED BY <1>4, <1>5

\* The scan has ended.
Scanned == EndOK(argv, optind, results)

\* What is true of the scanner between two calls.
GetoptIInv ==
    /\ CommandLineOK /\ ordering \in Orderings /\ (long => WIsUnambiguous)
    /\ Scanning \/ Scanned

LEMMA GetoptStarts ==
    ASSUME GetoptStart, CommandLineOK
    PROVE  /\ Sorted(State) /\ Position = << 1, 1 >> /\ nextchar = NoChar /\ ~ Inside
           /\ optind = 1 /\ Scan \in Readings /\ << 1, 1 >> \in Places
           /\ Block(argv, 1, 1) = << >> /\ State.argv = argv /\ State.first = 1 /\ State.last = 1
<1> DEFINE N == Len(typed)
<1>1. N \in Nat /\ argc = N + 1
  BY CommandLine
<1>2. argv = [k \in 0 .. N |-> k] /\ optind = 1 /\ first_nonopt = 1 /\ last_nonopt = 1 /\ nextchar = NoChar
  BY DEF GetoptStart
<1> HIDE DEF N
<1>3. argv \in Arrays(N) /\ Everything(argv) /\ \A k \in 1 .. N : argv[k] = k
  BY <1>1, <1>2 DEF Arrays, Everything
<1>4. State = [argv |-> argv, optind |-> 1, first |-> 1, last |-> 1]
  BY <1>2 DEF State
<1>5. State.argv = argv /\ State.optind = 1 /\ State.first = 1 /\ State.last = 1
  BY <1>4
<1>6. Sorted(State)
  <2>1. 1 <= argc
    BY <1>1
  <2> QED BY <1>3, <1>4, <1>5, <2>1 DEF Sorted, N
<1>7. << 1, 1 >> \in Places
  <2>1. 1 \in 1 .. argc /\ 1 \in Nat \ {0}
    BY <1>1
  <2> QED BY <2>1, CommandLine
<1>8. Scan \in Readings
  BY <1>7, SaysReadings DEF Scan
<1>9. ~ Inside /\ Position = << 1, 1 >>
  BY <1>2 DEF Inside, Position
<1>10. Block(argv, 1, 1) = << >>
  <2>1. 1 - 1 = 0
    OBVIOUS
  <2> QED BY <2>1 DEF Block
<1> QED BY <1>2, <1>5, <1>6, <1>7, <1>8, <1>9, <1>10

LEMMA GetoptInitHolds == GetoptInit \/ GetoptIdle => GetoptIInv
<1>1. ASSUME GetoptInit PROVE GetoptIInv
  <2>1. CommandLineOK
    <3>1. ASSUME NEW S, S \subseteq Seq(STRING), NEW n, typed \in SeqOf(S, n) PROVE typed \in Seq(Seq(STRING))
      <4>1. PICK m \in 0 .. n : typed \in [1 .. m -> S]
        BY <3>1 DEF SeqOf
      <4>2. typed \in [1 .. m -> Seq(STRING)] /\ m \in Nat
        BY <3>1, <4>1
      <4> QED BY <4>2, IsASeq
    <3>2. Words \subseteq Seq(STRING) /\ LongWords \subseteq Seq(STRING)
      BY GetoptAssumption
    <3> QED BY <1>1, <3>1, <3>2 DEF GetoptInit, CommandLineOK
  <2>2. ordering \in Orderings /\ (long => WIsUnambiguous) /\ GetoptStart /\ results = << >>
    BY <1>1 DEF GetoptInit
  <2>3. /\ Sorted(State) /\ Position = << 1, 1 >> /\ nextchar = NoChar /\ ~ Inside
        /\ Scan \in Readings /\ Block(argv, 1, 1) = << >>
        /\ State.argv = argv /\ State.first = 1 /\ State.last = 1
    BY <2>1, <2>2, GetoptStarts
  <2>4. << >> \in Seq(Answers) /\ ~ Over(<< >>)
    BY DEF Over
  <2>5. IsRead(State, << >>, << 1, 1 >>)
    <3> DEFINE r == Scan.results
               o == Scan.operands
    <3>1. r \in Seq(Answers) /\ o \in Seq(Nat)
      BY <2>3 DEF Readings
    <3> HIDE DEF r, o
    <3>2. r = << >> \o r /\ o = << >> \o o
      BY <3>1
    <3> QED BY <2>3, <3>2 DEF IsRead, Scan, r, o
  <2> QED BY <2>1, <2>2, <2>3, <2>4, <2>5 DEF GetoptIInv, Scanning, ScanOK
<1>2. ASSUME GetoptIdle PROVE GetoptIInv
  <2>1. typed = << >> /\ ordering = "PERMUTE" /\ long = FALSE /\ GetoptStart /\ results = << TheEnd >>
    BY <1>2 DEF GetoptIdle, TheEnd
  <2>2. CommandLineOK /\ Len(typed) = 0 /\ argc = 1
    <3>1. Len(<< >>) = 0 /\ << >> \in Seq(Seq(STRING)) /\ FALSE \in BOOLEAN
      OBVIOUS
    <3>2. CommandLineOK /\ Len(typed) = 0
      BY <2>1, <3>1 DEF CommandLineOK
    <3> QED BY <3>2 DEF argc
  <2>3. /\ optind = 1 /\ Block(argv, 1, 1) = << >> /\ << 1, 1 >> \in Places
        /\ Sorted(State) /\ State.argv = argv
    BY <2>1, <2>2, GetoptStarts
  <2>4. Scan = OperandsFrom(1)
    <3>1. Scan = Read(Says, << 1, 1 >>)
      BY <2>2, <2>3, SaysWhatItReads DEF Scan
    <3> QED BY <2>2, <3>1 DEF Read
  <2>5. OperandsFrom(1).results = << TheEnd >> /\ OperandsFrom(1).operands = << >>
    <3> DEFINE n == 1
    <3>1. n \in Nat /\ argc \in Nat /\ n <= argc
      BY <2>2
    <3>2. argc - n = 0
      BY <2>2
    <3>3. OperandsFrom(n).operands = [k \in 1 .. argc - n |-> n + k - 1]
          /\ OperandsFrom(n).results = << [c |-> Done, optarg |-> NoChar] >>
      <4> HIDE DEF n
      <4> QED BY <3>1, OperandsRead
    <3> QED BY <3>2, <3>3 DEF TheEnd
  <2>6. Over(results)
    <3>1. results # << >> /\ Last(results) = TheEnd
      BY <2>1 DEF Last
    <3> QED BY <3>1 DEF Over, TheEnd
  <2>7. Scanned
    BY <2>1, <2>2, <2>3, <2>4, <2>5, <2>6 DEF Scanned, EndOK, Sorted
  <2> QED BY <2>1, <2>2, <2>7 DEF GetoptIInv, Orderings
<1> QED BY <1>1, <1>2

LEMMA GetoptStepHolds ==
    ASSUME GetoptIInv, getopt
    PROVE  GetoptIInv'
<1>1. /\ CommandLineOK /\ ordering \in Orderings /\ (long => WIsUnambiguous)
      /\ UNCHANGED << typed, ordering, long >>
  BY DEF GetoptIInv, getopt
<1>2. CommandLineOK' /\ (ordering \in Orderings)' /\ (long => WIsUnambiguous)'
  <2>1. argc' = argc
    BY <1>1, SaysStays
  <2>2. ASSUME NEW at PROVE nameend(at)' = nameend(at)
    BY <1>1 DEF nameend
  <2>3. ASSUME NEW at, NEW W PROVE pfound(at, W)' = pfound(at, W)
    BY <1>1 DEF pfound, nameend
  <2>4. WIsUnambiguous' <=> WIsUnambiguous
    BY <1>1, <2>1, <2>3 DEF WIsUnambiguous
  <2> QED BY <1>1, <2>4 DEF CommandLineOK, Orderings
<1>3. ~ Over(results) /\ Scanning
  BY DEF GetoptIInv, getopt, Scanned, EndOK, Ended, Over
<1>4. /\ ScanOK(State, results, Position) /\ Sorted(State)
      /\ nextchar = NoChar \/ nextchar \in (1 .. Len(typed)) \X (Nat \ {0, 1})
      /\ Inside => nextchar[1] = optind
  BY <1>3 DEF Scanning, ScanOK
<1>5. CASE Inside
  <2> DEFINE i == nextchar[1]
             j == nextchar[2]
  <2>1. i \in 1 .. Len(typed) /\ j \in Nat \ {0, 1} /\ nextchar = << i, j >> /\ j <= Len(typed[i])
    BY <1>4, <1>5 DEF Inside
  <2>2. Decode(State, i, j)
    BY <1>5 DEF getopt, Inside, State
  <2>3. i = State.optind /\ ScanOK(State, results, << i, j >>)
    BY <1>4, <1>5, <2>1 DEF State, Position
  <2> HIDE DEF i, j
  <2>4. Scanning'
    BY <1>1, <2>1, <2>2, <2>3, DecodeScans
  <2> QED BY <1>2, <2>4 DEF GetoptIInv
<1>6. CASE ~ Inside
  <2> DEFINE s == State
             p == IF ordering = "PERMUTE" THEN Permute(s) ELSE s
             found == EndOfOptions(p)
             x == IF found.first # found.last THEN found.first ELSE found.optind
             i == p.optind
  <2>1. s.optind = optind /\ ScanOK(s, results, << s.optind, 1 >>)
    BY <1>4, <1>6 DEF State, Position
  <2>2. /\ ScanOK(p, results, << p.optind, 1 >>)
        /\ ordering = "PERMUTE" => p.last = p.optind /\ (p.optind = argc \/ ~ NONOPTION_P(p.optind))
    <3>1. CASE ordering = "PERMUTE"
      <4> HIDE DEF s
      <4>1. Sorted(s) /\ IsRead(s, results, << s.optind, 1 >>) /\ results \in Seq(Answers) /\ ~ Over(results)
        BY <2>1 DEF ScanOK
      <4>2. /\ Sorted(Permute(s)) /\ IsRead(Permute(s), results, << Permute(s).optind, 1 >>)
            /\ Permute(s).last = Permute(s).optind
            /\ Permute(s).optind = argc \/ ~ NONOPTION_P(Permute(s).optind)
        BY <1>1, <3>1, <4>1, PermuteReads
      <4> QED BY <3>1, <4>1, <4>2 DEF ScanOK
    <3>2. CASE ordering # "PERMUTE"
      BY <2>1, <3>2
    <3> QED BY <3>1, <3>2
  <2>3. IF found.optind = argc
        THEN /\ Update([found EXCEPT !.optind = IF found.first # found.last THEN found.first ELSE @])
             /\ Returns(Done, NoChar) /\ UNCHANGED nextchar
        ELSE IF NONOPTION_P(found.argv[found.optind])
        THEN Update(found) /\ Returns(Done, NoChar) /\ UNCHANGED nextchar
        ELSE IF long /\ typed[found.argv[found.optind]][2] = "-"
             THEN DecodeLong(found, << found.argv[found.optind], 3 >>)
             ELSE Decode(found, found.argv[found.optind], 2)
    BY <1>6 DEF getopt, Inside, State
  <2> HIDE DEF s, p
  <2>4. /\ found = [argv |-> found.argv, optind |-> found.optind, first |-> found.first, last |-> found.last]
        /\ found.optind = argc => EndOK(found.argv, x, Append(results, TheEnd))
        /\ found.optind # argc => found = p /\ i \in 1 .. Len(typed) /\ p.argv[i] = i
                                  /\ typed[i] # << "-", "-" >>
    BY <1>1, <2>2, EndOfOptionsReads
  <2> HIDE DEF found
  <2>5. CASE found.optind = argc
    <3>1. argv' = found.argv /\ optind' = x /\ results' = Append(results, TheEnd)
      <4> DEFINE u == [found EXCEPT !.optind = IF found.first # found.last THEN found.first ELSE @]
      <4>1. Update(u) /\ Returns(Done, NoChar)
        BY <2>3, <2>5
      <4>2. u.argv = found.argv /\ u.optind = x
        <5> DEFINE a == found.argv  o == found.optind  b == found.first  m == found.last
        <5>1. found = [argv |-> a, optind |-> o, first |-> b, last |-> m]
          BY <2>4
        <5>2. u = [found EXCEPT !.optind = x]
          OBVIOUS
        <5> HIDE DEF a, o, b, m, u, x
        <5>3. u = [argv |-> a, optind |-> x, first |-> b, last |-> m]
          BY <5>1, <5>2
        <5> QED BY <5>3 DEF a
      <4> HIDE DEF u
      <4> QED BY <4>1, <4>2 DEF Update, Returns, TheEnd
    <3>2. EndOK(argv', optind', results')
      BY <2>4, <2>5, <3>1
    <3>3. Scanned'
      BY <1>1, <3>2, ScanStays DEF Scanned
    <3> QED BY <1>2, <3>3 DEF GetoptIInv
  <2>6. CASE found.optind # argc /\ NONOPTION_P(i)
    <3>1. found = p /\ i \in 1 .. Len(typed) /\ p.argv[i] = i /\ typed[i] # << "-", "-" >>
      BY <2>4, <2>6
    <3>2. Update(p) /\ Returns(Done, NoChar) /\ i # argc
      BY <2>3, <2>6, <3>1
    <3>3. ordering = "REQUIRE_ORDER"
      BY <1>1, <2>2, <2>6, <3>2 DEF Orderings
    <3>4. Says[<< i, 1 >>] = OperandsFrom(i)
      <4> DEFINE q == << i, 1 >>
      <4>1. i \in 1 .. argc /\ 1 \in Nat \ {0}
        BY <1>1, <3>1, CommandLine
      <4>2. q \in Places /\ q[1] = i /\ q[2] = 1
        BY <1>1, <4>1, CommandLine
      <4>3. Says[q] = Read(Says, q)
        BY <1>1, <4>2, SaysWhatItReads
      <4>4. Read(Says, q) = ReadElement(Says, i)
        BY <3>2, <4>2 DEF Read
      <4>5. ReadElement(Says, i) = OperandsFrom(i)
        BY <2>6, <3>1, <3>3 DEF ReadElement
      <4> QED BY <4>3, <4>4, <4>5
    <3>5. /\ p.argv \in Arrays(Len(typed)) /\ Everything(p.argv) /\ p.first = p.last /\ p.first \in Nat
          /\ i \in Nat /\ 1 <= i /\ i <= argc
      BY <2>2, <3>3 DEF ScanOK, Sorted
    <3>6. \A k \in i .. Len(typed) : p.argv[k] = k
      BY <2>2 DEF ScanOK, Sorted
    <3>7. Block(p.argv, i, i) = Block(p.argv, p.first, p.last) /\ i <= i
      <4>1. ASSUME NEW y \in Nat PROVE Block(p.argv, y, y) = << >> /\ y <= y
        <5>1. y - y = 0
          OBVIOUS
        <5> QED BY <5>1 DEF Block
      <4> HIDE DEF i
      <4> QED BY <3>5, <4>1
    <3> DEFINE a == p.argv
    <3>8. a \in Arrays(Len(typed)) /\ Everything(a) /\ Block(a, i, i) = Block(p.argv, p.first, p.last)
          /\ (\A k \in i .. Len(typed) : a[k] = k) /\ ScanOK(p, results, << i, 1 >>)
      BY <2>2, <3>5, <3>6, <3>7
    <3>9. argv' = a /\ optind' = i /\ results' = Append(results, TheEnd)
      BY <3>2 DEF Update, Returns, TheEnd
    <3> HIDE DEF a, i
    <3>10. EndOK(a, i, Append(results, TheEnd))
      BY <1>1, <3>4, <3>5, <3>7, <3>8, EndRead
    <3>11. EndOK(argv', optind', results')
      BY <3>9, <3>10
    <3>12. Scanned'
      BY <1>1, <3>11, ScanStays DEF Scanned
    <3> QED BY <1>2, <3>12 DEF GetoptIInv
  <2>7. CASE found.optind # argc /\ ~ NONOPTION_P(i)
    <3>1. found = p /\ i \in 1 .. Len(typed) /\ p.argv[i] = i /\ typed[i] # << "-", "-" >>
      BY <2>4, <2>7
    <3>2. IF long /\ typed[i][2] = "-" THEN DecodeLong(p, << i, 3 >>) ELSE Decode(p, i, 2)
      BY <2>3, <2>7, <3>1
    <3>3. i = p.optind /\ ScanOK(p, results, << i, 1 >>)
      BY <2>2
    <3> HIDE DEF i
    <3>4. Scanning'
      BY <1>1, <2>7, <3>1, <3>2, <3>3, ElementScans
    <3> QED BY <1>2, <3>4 DEF GetoptIInv
  <2> QED BY <2>5, <2>6, <2>7
<1> QED BY <1>5, <1>6

LEMMA PrefixOfConcat ==
    ASSUME NEW S, NEW r \in Seq(S), NEW s \in Seq(S)
    PROVE  IsPrefix(r, r \o s)
<1> DEFINE z == r \o s
           n == Len(r)
<1>1. z \in Seq(S) /\ Len(z) = n + Len(s) /\ n \in Nat /\ Len(s) \in Nat
      /\ \A i \in 1 .. n + Len(s) : z[i] = IF i <= n THEN r[i] ELSE s[i - n]
  BY ConcatProperties
<1> HIDE DEF z
<1>2. n <= Len(z)
  <2> HIDE DEF n
  <2> QED BY <1>1
<1>3. SubSeq(r, 1, n) = [i \in 1 .. n |-> r[i]] /\ SubSeq(z, 1, n) = [i \in 1 .. n |-> z[i]]
  BY <1>1, <1>2
<1>4. \A i \in 1 .. n : z[i] = r[i]
  <2> HIDE DEF n
  <2> QED BY <1>1
<1> QED BY <1>2, <1>3, <1>4 DEF IsPrefix, z

\* The invariant says what was to be shown.
LEMMA GetoptImplies == GetoptIInv => ScansAsTyped
<1> SUFFICES ASSUME GetoptIInv PROVE ScansAsTyped
  OBVIOUS
<1>1. CommandLineOK
  BY DEF GetoptIInv
<1>2. CASE Scanning
  <2>1. results \in Seq(Answers) /\ ~ Ended /\ Sorted(State) /\ IsRead(State, results, Position)
    BY <1>2 DEF Scanning, ScanOK, Over, Ended
  <2>2. Position \in Places
    <3>1. CASE Inside
      <4>1. nextchar \in (1 .. Len(typed)) \X (Nat \ {0, 1})
        BY <1>2, <3>1 DEF Scanning, Inside
      <4>2. nextchar = << nextchar[1], nextchar[2] >> /\ nextchar[1] \in 1 .. argc /\ nextchar[2] \in Nat \ {0}
        BY <1>1, <4>1, CommandLine
      <4> QED BY <1>1, <3>1, <4>2, CommandLine DEF Position
    <3>2. CASE ~ Inside
      <4>1. optind \in 1 .. argc /\ 1 \in Nat \ {0}
        BY <1>1, <2>1, CommandLine DEF Sorted, State
      <4> QED BY <1>1, <3>2, <4>1, CommandLine DEF Position
    <3> QED BY <3>1, <3>2
  <2> DEFINE r == Says[Position].results
  <2>3. Scan.results = results \o r /\ r \in Seq(Answers)
    BY <1>1, <2>1, <2>2, SaysReadings DEF IsRead, Readings
  <2> HIDE DEF r
  <2>4. IsPrefix(results, Scan.results)
    BY <2>1, <2>3, PrefixOfConcat
  <2>5. {argv[k] : k \in DOMAIN argv} = DOMAIN argv
    BY <2>1 DEF Sorted, State, Everything
  <2> QED BY <2>1, <2>4, <2>5 DEF ScansAsTyped
<1>3. CASE Scanned
  <2>1. /\ results = Scan.results /\ Everything(argv) /\ Scan.operands = Block(argv, optind, argc)
    BY <1>3 DEF Scanned, EndOK
  <2>2. IsPrefix(results, Scan.results)
    BY <2>1 DEF IsPrefix
  <2> QED BY <2>1, <2>2 DEF ScansAsTyped, Everything, Block
<1> QED BY <1>2, <1>3 DEF GetoptIInv

\* getopt returns what was typed and where it was typed, however it permutes argv.
THEOREM GetoptScansAsTyped == GetoptSpec => []ScansAsTyped
<1>1. GetoptInit \/ GetoptIdle => GetoptIInv
  BY GetoptInitHolds
<1>2. GetoptIInv /\ [getopt]_getoptVars => GetoptIInv'
  <2>1. ASSUME GetoptIInv, UNCHANGED getoptVars PROVE GetoptIInv'
    <3>1. UNCHANGED << typed, ordering, long, argv, optind, first_nonopt, last_nonopt, nextchar, results >>
      BY <2>1 DEF getoptVars
    <3>2. argc' = argc
      BY <3>1, SaysStays
    <3>3. ASSUME NEW at, NEW W PROVE pfound(at, W)' = pfound(at, W)
      BY <3>1 DEF pfound, nameend
    <3>4. (long => WIsUnambiguous)'
      BY <2>1, <3>1, <3>2, <3>3 DEF WIsUnambiguous, GetoptIInv
    <3>5. State' = State /\ (Inside' <=> Inside) /\ Position' = Position
      BY <3>1 DEF State, Inside, Position
    <3>6. Scanning => Scanning'
      BY <3>1, <3>5, ScanStays DEF Scanning
    <3>7. Scanned => Scanned'
      BY <3>1, ScanStays DEF Scanned
    <3> QED BY <2>1, <3>1, <3>4, <3>6, <3>7 DEF GetoptIInv, CommandLineOK, Orderings
  <2> QED BY <2>1, GetoptStepHolds
<1> QED BY <1>1, <1>2, GetoptImplies, PTL DEF GetoptSpec

=============================================================================
