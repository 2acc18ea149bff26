-------------------------- MODULE RecorderLifecycle --------------------------
(***************************************************************************)
(* Project_work: the life of one recorder process.  With --all its file of *)
(* statistics is set up first; a session of its own has none.  Then the    *)
(* handler of SIGINT is set and the session loaded or created, with a      *)
(* first query or without.  The main thread runs connect of                *)
(* EstablishConnection, whose lws_service calls ws_service_callback        *)
(* (working.c) with what the connection does; a detached thread waits for  *)
(* the connection and sends the first query; SIGINT ends both.  The file   *)
(* is used by the callback and closed by it and by the signal handler.     *)
(***************************************************************************)
EXTENDS StatRecorder

CONSTANTS
  MaxInterrupts, \* bound: how often SIGINT comes
  MaxMessages    \* bound: how many messages come

ASSUME LifecycleAssumption == MaxInterrupts \in Nat /\ MaxMessages \in Nat

VARIABLES
  mpc,             \* where the main thread is
  wsi,             \* external: the connection, "connecting", "open" or "closed"
  msg,             \* the message the callback has in hand
  open,            \* the file stat_file points to is open
  connection_flag, \* the connection is there
  force_exit,      \* the loop is to end
  tpc,             \* where the detached thread is
  hpc,             \* where the signal handler is
  query,           \* is_there_first_request
  queries,         \* how often the first query was sent
  messages,        \* how many messages came
  interrupts,      \* how often SIGINT came
  failed,          \* history: the connection could not be made
  misuse           \* history: what was done to a file that was closed or not there

mainVars == <<mpc, wsi, msg, messages, failed>>
fileVars == <<open, misuse>>
flagVars == <<connection_flag, force_exit>>
restVars == <<tpc, hpc, query, queries, interrupts>>
vars == <<statVars, mainVars, fileVars, flagVars, restVars>>

Init ==
  /\ StatInit
  /\ mpc \in {"start", "handler"} /\ wsi = "none" /\ msg = [kind |-> "other"]
  /\ open = FALSE
  /\ connection_flag = FALSE /\ force_exit = FALSE
  /\ tpc = "none" /\ hpc = "idle"
  /\ query = FALSE /\ queries = 0 /\ messages = 0 /\ interrupts = 0
  /\ failed = FALSE /\ misuse = {}

HasFile == stat_file # NoFile

\* fclose(stat_file): the pointer stays, whatever becomes of the file.
CloseFile ==
  /\ HasFile
  /\ open' = FALSE
  /\ misuse' = IF open THEN misuse ELSE misuse \cup {"fclose"}

\* The process ends with all its threads.
End == mpc' = "ended" /\ tpc' = "none" /\ hpc' = "idle"
-----------------------------------------------------------------------------
\* main, with --all: the statistics are set up and the file of the day is opened.
Start ==
  /\ mpc = "start"
  /\ Construct
  /\ open' = (stat_file' # NoFile)
  /\ mpc' = "handler"
  /\ UNCHANGED <<wsi, msg, messages, failed, misuse, flagVars, restVars>>

\* run_process: the handler is set,
SetHandler ==
  /\ mpc = "handler"
  /\ mpc' = "setup"
  /\ UNCHANGED <<statVars, wsi, msg, messages, failed, fileVars, flagVars, restVars>>

\* the session is loaded or created, with a first query or without,
Setup ==
  /\ mpc = "setup"
  /\ query' \in BOOLEAN
  /\ mpc' = "connect"
  /\ UNCHANGED <<statVars, wsi, msg, messages, failed, fileVars, flagVars, tpc, hpc, queries,
                 interrupts>>

\* or exit(0), where the records, the record or the address are not to be had; load_record
\* returns nothing where it succeeds, and LoadSession may exit then, too.
SetupFails ==
  /\ mpc = "setup"
  /\ End
  /\ UNCHANGED <<statVars, wsi, msg, messages, failed, fileVars, flagVars, query, queries,
                 interrupts>>

\* connect: the connection is begun, the thread started and detached,
Connect ==
  /\ mpc = "connect"
  /\ wsi' = "connecting"
  /\ tpc' = "poll"
  /\ mpc' = "loop"
  /\ UNCHANGED <<statVars, msg, messages, failed, fileVars, flagVars, hpc, query, queries,
                 interrupts>>

\* or the context or the connection is not to be had.
ConnectFails ==
  /\ mpc = "connect"
  /\ mpc' = "return"
  /\ UNCHANGED <<statVars, wsi, msg, messages, failed, fileVars, flagVars, restVars>>

\* while(!force_exit) lws_service
LoopTest ==
  /\ mpc = "loop"
  /\ mpc' = IF force_exit THEN "destroy" ELSE "service"
  /\ UNCHANGED <<statVars, wsi, msg, messages, failed, fileVars, flagVars, restVars>>

\* lws_service may find nothing to do in its 10 ms.
NothingToDo ==
  /\ mpc = "service"
  /\ mpc' = "loop"
  /\ UNCHANGED <<statVars, wsi, msg, messages, failed, fileVars, flagVars, restVars>>

\* LWS_CALLBACK_CLIENT_ESTABLISHED
Established ==
  /\ mpc = "service" /\ wsi = "connecting"
  /\ wsi' = "open" /\ connection_flag' = TRUE
  /\ mpc' = "loop"
  /\ UNCHANGED <<statVars, msg, messages, failed, fileVars, force_exit, restVars>>

\* LWS_CALLBACK_CLIENT_CONNECTION_ERROR
ConnectionError ==
  /\ mpc = "service" /\ wsi = "connecting"
  /\ wsi' = "closed" /\ connection_flag' = FALSE /\ failed' = TRUE
  /\ CloseFile
  /\ mpc' = "loop"
  /\ UNCHANGED <<statVars, msg, messages, force_exit, restVars>>

\* LWS_CALLBACK_CLOSED
Closed ==
  /\ mpc = "service" /\ wsi = "open"
  /\ wsi' = "closed" /\ connection_flag' = FALSE
  /\ mpc' = "loop"
  /\ UNCHANGED <<statVars, msg, messages, failed, fileVars, force_exit, restVars>>

\* LWS_CALLBACK_CLIENT_RECEIVE: a new day closes the file and opens another.
Receive(m) ==
  /\ mpc = "service" /\ wsi = "open" /\ messages < MaxMessages
  /\ messages' = messages + 1 /\ msg' = m
  /\ Arrive
  /\ mpc' = IF NewDay THEN "rollover" ELSE "line"
  /\ UNCHANGED <<wsi, failed, fileVars, flagVars, restVars>>

RolloverClose ==
  /\ mpc = "rollover"
  /\ CloseFile
  /\ mpc' = "reopen"
  /\ UNCHANGED <<statVars, wsi, msg, messages, failed, flagVars, restVars>>

\* Mutant: the file of the day is not opened.
RolloverNoOpen ==
  /\ mpc = "reopen"
  /\ mpc' = "line"
  /\ UNCHANGED <<statVars, wsi, msg, messages, failed, fileVars, flagVars, restVars>>

\* fopen may fail, and stat_file is NULL.
RolloverOpen ==
  /\ mpc = "reopen"
  /\ stat_file' \in {global_adress, NoFile} /\ open' = (stat_file' # NoFile)
  /\ mpc' = "line"
  /\ UNCHANGED <<clock, names, quote, lines, last, steady, wsi, msg, messages, failed, misuse,
                 flagVars, restVars>>

\* The message is taken, and fprintf(stat_file, ...) if it gives a line.
WriteLine ==
  /\ mpc = "line" /\ (HasFile \/ ~GivesLine(msg))
  /\ Take(msg)
  /\ misuse' = IF lines' = lines \/ open THEN misuse ELSE misuse \cup {"fprintf"}
  /\ mpc' = "loop"
  /\ UNCHANGED <<wsi, msg, messages, failed, open, flagVars, restVars>>

\* Without --all, or when it could not be opened, stat_file is NULL: the process is killed by
\* its first use.
NullFile ==
  /\ ~HasFile
  /\ \/ mpc = "service" /\ wsi = "connecting"
     \/ mpc = "rollover"
     \/ mpc = "line" /\ GivesLine(msg)
  /\ End
  /\ misuse' = misuse \cup {"null"}
  /\ UNCHANGED <<statVars, wsi, msg, messages, failed, open, flagVars, query, queries,
                 interrupts>>

\* lws_context_destroy; the callback hears of a connection that was open.
Destroy ==
  /\ mpc = "destroy"
  /\ wsi' = "closed"
  /\ connection_flag' = IF wsi = "open" THEN FALSE ELSE connection_flag
  /\ mpc' = "return"
  /\ UNCHANGED <<statVars, msg, messages, failed, fileVars, force_exit, restVars>>

\* connect, run_process and main return.
Return ==
  /\ mpc = "return"
  /\ End
  /\ UNCHANGED <<statVars, wsi, msg, messages, failed, fileVars, flagVars, query, queries,
                 interrupts>>
-----------------------------------------------------------------------------
\* Mutant: the test is the wrong way round.
PollInverted ==
  /\ tpc = "poll" /\ ~connection_flag
  /\ tpc' = "send"
  /\ UNCHANGED <<statVars, mainVars, fileVars, flagVars, hpc, query, queries, interrupts>>

\* pthread_routine: poll the flag,
Poll ==
  /\ tpc = "poll" /\ connection_flag
  /\ tpc' = "send"
  /\ UNCHANGED <<statVars, mainVars, fileVars, flagVars, hpc, query, queries, interrupts>>

\* Mutant: the test is the wrong way round.
SendQueryInverted ==
  /\ tpc = "send"
  /\ queries' = IF query THEN queries ELSE queries + 1
  /\ tpc' = "end"
  /\ UNCHANGED <<statVars, mainVars, fileVars, flagVars, hpc, query, interrupts>>

\* then send the first query, if there is one, over the connection, which may be gone by then.
SendQuery ==
  /\ tpc = "send"
  /\ queries' = IF query THEN queries + 1 ELSE queries
  /\ tpc' = "end"
  /\ UNCHANGED <<statVars, mainVars, fileVars, flagVars, hpc, query, interrupts>>
-----------------------------------------------------------------------------
\* SIGINT, before the handler is set: it kills the process.
InterruptDefault ==
  /\ mpc \in {"start", "handler"} /\ interrupts < MaxInterrupts
  /\ interrupts' = interrupts + 1
  /\ End
  /\ UNCHANGED <<statVars, wsi, msg, messages, failed, fileVars, flagVars, query, queries>>

Handling == mpc \notin {"start", "handler", "ended"}

\* At any moment of any thread after that: the handler closes the file,
Interrupt ==
  /\ Handling /\ hpc = "idle" /\ interrupts < MaxInterrupts
  /\ interrupts' = interrupts + 1
  /\ CloseFile
  /\ hpc' = "closing"
  /\ UNCHANGED <<statVars, mainVars, flagVars, tpc, query, queries>>

\* or is killed by it, if there is none,
InterruptNull ==
  /\ Handling /\ interrupts < MaxInterrupts /\ ~HasFile
  /\ interrupts' = interrupts + 1
  /\ End
  /\ misuse' = misuse \cup {"null"}
  /\ UNCHANGED <<statVars, wsi, msg, messages, failed, open, flagVars, query, queries>>

\* Mutant: the loop is not told.
HandlerSilent ==
  /\ hpc = "closing"
  /\ hpc' = "idle"
  /\ UNCHANGED <<statVars, mainVars, fileVars, flagVars, tpc, query, queries, interrupts>>

\* and tells the loop to end.
HandlerExit ==
  /\ hpc = "closing"
  /\ force_exit' = TRUE
  /\ hpc' = "idle"
  /\ UNCHANGED <<statVars, mainVars, fileVars, connection_flag, tpc, query, queries, interrupts>>

\* An hour passes in the life of the process.
Hour == mpc # "ended" /\ Tick /\ UNCHANGED <<mainVars, fileVars, flagVars, restVars>>
-----------------------------------------------------------------------------
Callback == \/ Established \/ ConnectionError \/ Closed
            \/ (\E m \in Message : Receive(m))
            \/ RolloverClose \/ RolloverOpen \/ WriteLine \/ NullFile
Main     == \/ Start \/ SetHandler \/ Setup \/ SetupFails \/ Connect \/ ConnectFails
            \/ LoopTest \/ NothingToDo \/ Callback \/ Destroy \/ Return
Sender   == Poll \/ SendQuery
Handler  == InterruptDefault \/ Interrupt \/ InterruptNull \/ HandlerExit

Next == Main \/ Sender \/ Handler \/ Hour

\* The threads and a handler that has begun run; signals and messages need not come.
Fairness == WF_vars(Main) /\ WF_vars(Sender) /\ WF_vars(HandlerExit)

Spec     == Init /\ [][Next]_vars
FairSpec == Spec /\ Fairness
-----------------------------------------------------------------------------
\* Every variable has its type.
TypeOK ==
  /\ StatTypeOK
  /\ mpc \in {"start", "handler", "setup", "connect", "loop", "service", "rollover", "reopen",
              "line", "destroy", "return", "ended"}
  /\ wsi \in {"none", "connecting", "open", "closed"} /\ msg \in Message /\ open \in BOOLEAN
  /\ connection_flag \in BOOLEAN /\ force_exit \in BOOLEAN /\ failed \in BOOLEAN
  /\ tpc \in {"none", "poll", "send", "end"} /\ hpc \in {"idle", "closing"}
  /\ query \in BOOLEAN /\ queries \in 0..1
  /\ messages \in 0..MaxMessages /\ interrupts \in 0..MaxInterrupts
  /\ misuse \subseteq {"fclose", "fprintf", "null"}

\* The callback alone never misuses a file that could be opened: its own calls of fclose
\* (working.c:227, 241) never meet, and it prints into an open file.  What goes wrong first
\* is the first interrupt, closing a file (355) that is closed already because the connection
\* had failed (227), or because it met the callback between its fclose and fopen (241-243).
FileSound ==
  [][interrupts = 0 /\ HasFile /\ misuse' # misuse
       => interrupts' = 1 /\ (failed \/ mpc = "reopen")]_vars

\* An interrupt ends the program: the loop sees force_exit (EstablishConnection.cpp:77).
Interruptible == interrupts > 0 ~> mpc = "ended"

\* No query is sent by a session that has none (working.c:325), nor before there is a
\* connection to send it over (320), nor if there never will be one.
QueryOnceConnected == queries > 0 => query /\ wsi \in {"open", "closed"} /\ ~failed

\* Once the connection is made, the query of a session that has one is sent, unless the
\* connection is gone before the thread looks at the flag (the poll of working.c:320 can
\* miss it).
QuerySent == query /\ connection_flag ~> queries > 0 \/ ~connection_flag \/ mpc = "ended"
=============================================================================
