---------------------------- MODULE RecorderProofs ----------------------------
(***************************************************************************)
(* RecorderLifecycle, for any hours of a day, times, prices, messages and  *)
(* interrupts: what is in the file of statistics, in which file it is, and *)
(* who spoils the file.                                                    *)
(***************************************************************************)
EXTENDS RecorderLifecycle, TLAPS

\* Once a price came the last line has it, at the newest time.
LineInv ==
  /\ first_price_appeard => /\ lines # <<>>
                            /\ lines[Len(lines)].price = close_price
                            /\ lines[Len(lines)].stamp = current_servertime
  /\ NoRepeatedTime

\* prev_sec_hour is never behind the last message, and the file, or the name it will be
\* opened under next, is that of the last message's day.
DayInv ==
  /\ last.heard => last.hour <= prev_sec_hour
  /\ HasFile /\ steady => last.day = IF mpc \in {"rollover", "reopen"} THEN global_adress
                                                                       ELSE stat_file
  /\ FileOfTheDay

\* Before an interrupt the file is closed only between the two steps of a new day and after a
\* failed connection.
FileInv ==
  /\ mpc = "start" => ~HasFile
  /\ mpc \in {"start", "handler", "setup", "connect"} => wsi = "none"
  /\ mpc \in {"rollover", "reopen", "line"} => wsi = "open"
  /\ mpc = "reopen" => HasFile
  /\ failed => wsi = "closed"
  /\ HasFile /\ interrupts = 0 => open \/ mpc = "reopen" \/ failed

IInv == TypeOK /\ LineInv /\ DayInv /\ FileInv

\* The first query is sent once, over what is or was a connection.
SenderInv ==
  /\ mpc \in {"start", "handler", "setup", "connect"} =>
       tpc = "none" /\ queries = 0 /\ ~connection_flag
  /\ tpc \in {"poll", "send"} => queries = 0
  /\ connection_flag => wsi = "open"
  /\ tpc = "send" => wsi \in {"open", "closed"} /\ ~failed
  /\ QueryOnceConnected

DayLine == [kind : {"price", "servertime"}, stamp : 1..Stamps,
            price : Prices \cup {NoPrice}, file : 0..Days-1, day : 0..Days-1]
-----------------------------------------------------------------------------
LEMMA TypeInit == ASSUME Init PROVE TypeOK
<1>1. 0 \in 0..Days-1 /\ 0 \in 0..Hours-1 /\ 0 \in 0..Stamps
  BY StatAssumption
<1>2. 0 \in 0..MaxMessages /\ 0 \in 0..MaxInterrupts /\ 0 \in 0..1
  BY LifecycleAssumption
<1>3. first_price_appeard \in BOOLEAN /\ steady \in BOOLEAN
  BY Zenon DEF Init, StatInit
<1>4. open \in BOOLEAN /\ connection_flag \in BOOLEAN
  BY Zenon DEF Init
<1>5. force_exit \in BOOLEAN /\ failed \in BOOLEAN
  BY Zenon DEF Init
<1>6. last \in [day : 0..Days-1, hour : 0..Hours-1, heard : BOOLEAN]
  BY <1>1 DEF Init, StatInit
<1>7. StatTypeOK
  BY <1>1, <1>3, <1>6 DEF Init, StatInit, StatTypeOK, NoFile
<1>8. [kind |-> "other"] \in Message
  BY DEF Message
<1>9. query \in BOOLEAN
  BY Zenon DEF Init
<1> QED
  BY <1>2, <1>4, <1>5, <1>7, <1>8, <1>9 DEF Init, TypeOK

LEMMA InvInit == ASSUME Init PROVE IInv
<1>1. /\ ~first_price_appeard /\ ~last.heard /\ ~HasFile /\ lines = <<>>
  BY DEF Init, StatInit, HasFile, NoFile
<1>2. LineInv
  BY <1>1 DEF LineInv, NoRepeatedTime
<1>3. DayInv
  BY <1>1 DEF DayInv, FileOfTheDay
<1>4. FileInv
  <2>1. wsi = "none" /\ mpc \in {"start", "handler"} /\ ~failed
    BY DEF Init
  <2> QED
    BY <1>1, <2>1 DEF FileInv
<1> QED
  BY <1>2, <1>3, <1>4, TypeInit DEF IInv

-----------------------------------------------------------------------------
\* The steps that leave the statistics alone.
LEMMA QuietTypes ==
  ASSUME TypeOK, UNCHANGED statVars
  PROVE  StatTypeOK' /\ (LineInv => LineInv')
  BY DEF TypeOK, statVars, clock, names, quote, StatTypeOK, LineInv, HasFile, NoRepeatedTime

LEMMA QuietDay ==
  ASSUME DayInv, UNCHANGED statVars,
         HasFile => (mpc' \in {"rollover", "reopen"} <=> mpc \in {"rollover", "reopen"})
  PROVE  DayInv'
  BY DEF DayInv, statVars, clock, names, quote, FileOfTheDay, HasFile

\* A step that also leaves the file and the interrupts alone, and does not begin or end a
\* message of which the file would know.
LEMMA QuietFile ==
  ASSUME FileInv, UNCHANGED <<stat_file, open, interrupts, failed>>,
         mpc' \notin {"start", "rollover", "reopen", "line"} \/ (mpc' = mpc /\ wsi' = wsi),
         mpc' \in {"handler", "setup", "connect"} => wsi' = "none",
         mpc = "reopen" => mpc' = "reopen",
         wsi = "closed" => wsi' = "closed"
  PROVE  FileInv'
  BY DEF FileInv, HasFile

Beginning == SetHandler \/ Setup \/ SetupFails \/ Connect \/ ConnectFails

LEMMA QuietMain ==
  ASSUME IInv,
         Beginning \/ LoopTest \/ NothingToDo \/ Established \/ Closed \/ Destroy \/ Return
  PROVE  IInv'
<1>1. /\ UNCHANGED <<statVars, misuse, open, messages, interrupts, failed, msg>>
      /\ mpc' \in {"setup", "connect", "loop", "destroy", "service", "return", "ended"}
      /\ wsi' \in {wsi, "connecting", "open", "closed"}
      /\ mpc \notin {"rollover", "reopen", "line"}
  BY DEF Beginning, SetHandler, Setup, SetupFails, Connect, ConnectFails, LoopTest, NothingToDo,
         Established, Closed, Destroy, Return, End, fileVars, restVars
<1>2. /\ wsi = "closed" => wsi' = "closed"
      /\ mpc' \in {"setup", "connect"} => wsi' = "none"
  BY DEF Beginning, SetHandler, Setup, SetupFails, Connect, ConnectFails, LoopTest, NothingToDo,
         Established, Closed, Destroy, Return, End, IInv, FileInv
<1>3. UNCHANGED stat_file
  BY <1>1 DEF statVars
<1>4. FileInv'
  BY <1>1, <1>2, <1>3, QuietFile DEF IInv
<1>5. DayInv'
  BY <1>1, QuietDay DEF IInv
<1>6. /\ connection_flag' \in BOOLEAN /\ force_exit' \in BOOLEAN
      /\ tpc' \in {"none", "poll", "send", "end"} /\ hpc' \in {"idle", "closing"}
      /\ queries' \in 0..1
  BY DEF IInv, TypeOK, Beginning, SetHandler, Setup, SetupFails, Connect, ConnectFails, LoopTest,
         NothingToDo, Established, Closed, Destroy, Return, End, flagVars, restVars
<1>7. StatTypeOK' /\ LineInv'
  BY <1>1, QuietTypes DEF IInv
<1>8. query' \in BOOLEAN
  BY DEF IInv, TypeOK, Beginning, SetHandler, Setup, SetupFails, Connect, ConnectFails, LoopTest,
         NothingToDo, Established, Closed, Destroy, Return, restVars
<1>9. TypeOK'
  BY <1>1, <1>6, <1>7, <1>8 DEF IInv, TypeOK
<1> QED
  BY <1>4, <1>5, <1>7, <1>9 DEF IInv

\* The steps that close the file, or lack it.
LEMMA ClosingTypes ==
  ASSUME TypeOK, UNCHANGED <<statVars, msg, messages>>,
         mpc' \in {"loop", "reopen", "ended", mpc}, wsi' \in {"closed", wsi},
         open' \in {FALSE, open},
         misuse' \in {misuse, misuse \cup {"fclose"}, misuse \cup {"null"}},
         connection_flag' \in BOOLEAN, force_exit' \in BOOLEAN, failed' \in BOOLEAN,
         tpc' \in {"none", tpc}, hpc' \in {"idle", "closing"}, queries' = queries, query' = query,
         interrupts' \in 0..MaxInterrupts
  PROVE  TypeOK'
<1>1. StatTypeOK'
  BY QuietTypes
<1>2. open' \in BOOLEAN
  BY DEF TypeOK
<1> QED
  BY <1>1, <1>2 DEF TypeOK

LEMMA CloseConnectionError == ASSUME IInv, ConnectionError PROVE IInv'
<1>1. /\ mpc = "service" /\ mpc' = "loop" /\ wsi = "connecting" /\ wsi' = "closed"
      /\ failed' = TRUE /\ HasFile /\ open' = FALSE
      /\ misuse' = IF open THEN misuse ELSE misuse \cup {"fclose"}
      /\ UNCHANGED <<statVars, msg, messages, force_exit, tpc, hpc, query, queries, interrupts>>
      /\ connection_flag' = FALSE
  BY DEF ConnectionError, CloseFile, restVars
<1>2. TypeOK'
  BY <1>1, ClosingTypes DEF IInv, TypeOK
<1>3. LineInv' /\ DayInv'
  BY <1>1, QuietTypes, QuietDay DEF IInv
<1>4. FileInv'
  <2>1. UNCHANGED stat_file
    BY <1>1 DEF statVars
  <2> QED
    BY <1>1, <2>1 DEF IInv, FileInv, HasFile
<1> QED
  BY <1>2, <1>3, <1>4 DEF IInv

LEMMA CloseRollover == ASSUME IInv, RolloverClose PROVE IInv'
<1>1. /\ mpc = "rollover" /\ mpc' = "reopen" /\ HasFile /\ open' = FALSE
      /\ misuse' = IF open THEN misuse ELSE misuse \cup {"fclose"}
      /\ UNCHANGED <<statVars, msg, messages, wsi, failed, connection_flag, force_exit, tpc, hpc,
                     query, queries, interrupts>>
  BY DEF RolloverClose, CloseFile, restVars, flagVars
<1>2. TypeOK'
  BY <1>1, ClosingTypes DEF IInv, TypeOK
<1>3. LineInv' /\ DayInv'
  BY <1>1, QuietTypes, QuietDay DEF IInv
<1>4. FileInv'
  <2>1. UNCHANGED stat_file
    BY <1>1 DEF statVars
  <2> QED
    BY <1>1, <2>1 DEF IInv, FileInv, HasFile
<1> QED
  BY <1>2, <1>3, <1>4 DEF IInv

\* An interrupt is counted.
LEMMA Counting ==
  ASSUME TypeOK, interrupts < MaxInterrupts, interrupts' = interrupts + 1
  PROVE  interrupts' \in 0..MaxInterrupts /\ interrupts' > 0
  BY LifecycleAssumption DEF TypeOK

LEMMA CloseNull == ASSUME IInv, NullFile \/ InterruptNull \/ InterruptDefault PROVE IInv'
<1>1. /\ ~HasFile \/ interrupts' > 0
      /\ mpc' = "ended" /\ tpc' = "none" /\ hpc' = "idle"
      /\ misuse' \in {misuse, misuse \cup {"null"}}
      /\ interrupts' \in 0..MaxInterrupts /\ (HasFile => mpc \notin {"rollover", "reopen"})
      /\ UNCHANGED <<statVars, msg, messages, wsi, failed, open, connection_flag, force_exit,
                     query, queries>>
  BY Counting DEF NullFile, InterruptNull, InterruptDefault, End, fileVars, flagVars, IInv, TypeOK
<1>2. TypeOK'
  BY <1>1, ClosingTypes DEF IInv, TypeOK
<1>3. LineInv' /\ DayInv'
  BY <1>1, QuietTypes, QuietDay DEF IInv
<1>4. FileInv'
  <2>1. HasFile' => HasFile
    BY <1>1 DEF statVars, HasFile
  <2> QED
    BY <1>1, <2>1 DEF IInv, FileInv
<1> QED
  BY <1>2, <1>3, <1>4 DEF IInv

LEMMA CloseInterrupt == ASSUME IInv, Interrupt PROVE IInv'
<1>1. /\ mpc' = mpc /\ hpc' = "closing" /\ HasFile /\ open' = FALSE /\ mpc # "start"
      /\ misuse' = IF open THEN misuse ELSE misuse \cup {"fclose"}
      /\ UNCHANGED <<statVars, msg, messages, wsi, failed, connection_flag, force_exit, tpc,
                     query, queries>>
      /\ interrupts' = interrupts + 1 /\ interrupts < MaxInterrupts
  BY DEF Interrupt, Handling, CloseFile, mainVars, flagVars
<1>2. interrupts' \in 0..MaxInterrupts /\ interrupts' > 0
  BY <1>1, Counting DEF IInv
<1>3. TypeOK'
  BY <1>1, <1>2, ClosingTypes DEF IInv, TypeOK
<1>4. LineInv' /\ DayInv'
  BY <1>1, QuietTypes, QuietDay DEF IInv
<1>5. FileInv'
  <2>1. HasFile'
    BY <1>1 DEF statVars, HasFile
  <2> QED
    BY <1>1, <1>2, <2>1 DEF IInv, FileInv
<1> QED
  BY <1>3, <1>4, <1>5 DEF IInv

LEMMA QuietThreads == ASSUME IInv, SenderInv, Sender \/ HandlerExit PROVE IInv'
<1>1. UNCHANGED <<statVars, mainVars, fileVars, query, interrupts, connection_flag>>
  BY DEF Sender, Poll, SendQuery, HandlerExit, flagVars
<1>2. /\ force_exit' \in BOOLEAN /\ tpc' \in {"none", "poll", "send", "end"}
      /\ hpc' \in {"idle", "closing"}
  BY DEF IInv, TypeOK, Sender, Poll, SendQuery, HandlerExit, flagVars
<1>3. LineInv' /\ DayInv' /\ StatTypeOK'
  BY <1>1, QuietTypes, QuietDay DEF IInv, mainVars
<1>4. FileInv'
  BY <1>1, QuietFile DEF IInv, FileInv, statVars, mainVars, fileVars
<1>5. queries' \in 0..1
  BY DEF IInv, TypeOK, SenderInv, Sender, Poll, SendQuery, HandlerExit
<1>6. TypeOK'
  BY <1>1, <1>2, <1>3, <1>5 DEF IInv, TypeOK, mainVars, fileVars
<1> QED
  BY <1>3, <1>4, <1>6 DEF IInv

-----------------------------------------------------------------------------
LEMMA SenderStep == ASSUME IInv, SenderInv, [Next]_vars PROVE SenderInv'
<1>1. failed => wsi = "closed"
  BY DEF IInv, FileInv
<1>2. CASE Poll
  BY <1>1, <1>2 DEF Poll, SenderInv, QueryOnceConnected, mainVars, flagVars
<1>3. CASE SendQuery
  BY <1>1, <1>3 DEF SendQuery, SenderInv, QueryOnceConnected, mainVars, flagVars
<1>4. CASE Start \/ SetHandler \/ Setup \/ SetupFails
  BY <1>1, <1>4 DEF Start, SetHandler, Setup, SetupFails, End, SenderInv, QueryOnceConnected,
                    flagVars, restVars
<1>5. CASE Connect \/ ConnectFails
  BY <1>1, <1>5 DEF Connect, ConnectFails, SenderInv, QueryOnceConnected, flagVars, restVars
<1>6. CASE LoopTest \/ NothingToDo \/ Destroy \/ Return
  <2>1. CASE LoopTest \/ NothingToDo
    BY <2>1 DEF LoopTest, NothingToDo, SenderInv, QueryOnceConnected, flagVars, restVars
  <2>2. CASE Destroy
    <3>1. /\ wsi' = "closed" /\ mpc' = "return" /\ UNCHANGED <<failed, tpc, query, queries>>
          /\ connection_flag' = IF wsi = "open" THEN FALSE ELSE connection_flag
      BY <2>2 DEF Destroy, restVars
    <3>2. ~connection_flag'
      BY <3>1 DEF SenderInv
    <3> QED
      BY <3>1, <3>2 DEF SenderInv, QueryOnceConnected
  <2>3. CASE Return
    BY <2>3 DEF Return, End, SenderInv, QueryOnceConnected, flagVars
  <2> QED
    BY <1>6, <2>1, <2>2, <2>3
<1>7. CASE Established \/ ConnectionError \/ Closed
  BY <1>1, <1>7 DEF Established, ConnectionError, Closed, SenderInv, QueryOnceConnected, restVars
<1>8. CASE (\E m \in Message : Receive(m)) \/ RolloverClose \/ RolloverOpen \/ WriteLine
  BY <1>1, <1>8 DEF Receive, RolloverClose, RolloverOpen, WriteLine, SenderInv,
                    QueryOnceConnected, flagVars, restVars
<1>9. CASE NullFile \/ InterruptNull \/ InterruptDefault
  BY <1>1, <1>9 DEF NullFile, InterruptNull, InterruptDefault, End, SenderInv,
                    QueryOnceConnected, flagVars
<1>10. CASE Interrupt \/ HandlerExit
  BY <1>1, <1>10 DEF Interrupt, HandlerExit, SenderInv, QueryOnceConnected, mainVars, flagVars
<1>11. CASE Hour \/ UNCHANGED vars
  BY <1>11 DEF Hour, vars, mainVars, flagVars, restVars, SenderInv, QueryOnceConnected
<1> QED
  BY <1>2, <1>3, <1>4, <1>5, <1>6, <1>7, <1>8, <1>9, <1>10, <1>11
     DEF Next, Main, Callback, Sender, Handler

-----------------------------------------------------------------------------
\* The steps that change the statistics.
LEMMA StatStart == ASSUME IInv, Start PROVE IInv'
<1>1. /\ mpc = "start" /\ mpc' = "handler" /\ open' = (stat_file' # NoFile)
      /\ prev_sec_hour' = 0 /\ global_adress' = day /\ stat_file' \in {day, NoFile}
      /\ last' = [day |-> day, hour |-> hour, heard |-> FALSE]
      /\ UNCHANGED <<day, hour, current_servertime, close_price, first_price_appeard, lines,
                     steady, wsi, msg, messages, failed, misuse, connection_flag, force_exit,
                     tpc, hpc, query, queries, interrupts>>
  BY DEF Start, Construct, clock, quote, flagVars, restVars
<1>2. 0 \in 0..Hours-1 /\ day \in 0..Days-1 /\ hour \in 0..Hours-1
  BY StatAssumption DEF IInv, TypeOK, StatTypeOK
<1>3. last' \in [day : 0..Days-1, hour : 0..Hours-1, heard : BOOLEAN]
  BY <1>1, <1>2
<1>4. open' \in BOOLEAN
  BY <1>1
<1>5. TypeOK'
  BY <1>1, <1>2, <1>3, <1>4 DEF IInv, TypeOK, StatTypeOK
<1>6. LineInv'
  BY <1>1 DEF IInv, LineInv, NoRepeatedTime
<1>7. DayInv'
  BY <1>1 DEF IInv, DayInv, FileOfTheDay, HasFile
<1>8. FileInv'
  BY <1>1 DEF IInv, FileInv, HasFile
<1> QED
  BY <1>5, <1>6, <1>7, <1>8 DEF IInv

LEMMA StatHour == ASSUME IInv, Hour PROVE IInv'
<1>1. /\ UNCHANGED <<prev_sec_hour, global_adress, stat_file, quote, lines, last, steady,
                     mainVars, fileVars, flagVars, restVars>>
      /\ IF hour < Hours - 1 THEN hour' = hour + 1 /\ UNCHANGED day
                             ELSE hour' = 0 /\ day' = day + 1 /\ day' < Days
  BY DEF Hour, Tick, names
<1>2. day' \in 0..Days-1 /\ hour' \in 0..Hours-1
  <2>1. day \in 0..Days-1 /\ hour \in 0..Hours-1
    BY DEF IInv, TypeOK, StatTypeOK
  <2> QED
    BY <1>1, <2>1, StatAssumption
<1>3. TypeOK'
  BY <1>1, <1>2 DEF IInv, TypeOK, StatTypeOK, quote, mainVars, fileVars, flagVars, restVars
<1>4. LineInv'
  BY <1>1 DEF IInv, LineInv, NoRepeatedTime, HasFile, quote
<1>5. DayInv'
  BY <1>1 DEF IInv, DayInv, FileOfTheDay, HasFile, mainVars
<1>6. FileInv'
  BY <1>1 DEF IInv, FileInv, HasFile, mainVars, fileVars, restVars
<1> QED
  BY <1>3, <1>4, <1>5, <1>6 DEF IInv

LEMMA StatReceive == ASSUME IInv, NEW m \in Message, Receive(m) PROVE IInv'
<1>1. /\ mpc = "service" /\ wsi = "open" /\ messages < MaxMessages
      /\ messages' = messages + 1 /\ msg' = m
      /\ last' = [day |-> day, hour |-> hour, heard |-> TRUE]
      /\ steady' = (steady /\ Often)
      /\ mpc' = (IF NewDay THEN "rollover" ELSE "line")
      /\ UNCHANGED <<day, hour, stat_file, current_servertime, close_price,
                     first_price_appeard, lines, wsi, failed, open, misuse, connection_flag,
                     force_exit, tpc, hpc, query, queries, interrupts>>
  BY DEF Receive, Arrive, clock, quote, fileVars, flagVars, restVars
<1>2. /\ NewDay => global_adress' = day /\ prev_sec_hour' = prev_sec_hour
      /\ ~NewDay => prev_sec_hour' = hour /\ global_adress' = global_adress
  BY DEF Receive, Arrive, UpdateTime
<1>3. /\ day \in 0..Days-1 /\ hour \in 0..Hours-1 /\ prev_sec_hour \in 0..Hours-1
      /\ global_adress \in 0..Days-1 /\ Hours \in Nat /\ Days \in Nat
      /\ last \in [day : 0..Days-1, hour : 0..Hours-1, heard : BOOLEAN]
  BY StatAssumption DEF IInv, TypeOK, StatTypeOK
<1>4. messages' \in 0..MaxMessages /\ messages' > 0 /\ messages \in Nat
  BY <1>1, LifecycleAssumption DEF IInv, TypeOK
<1>5. prev_sec_hour' \in 0..Hours-1 /\ global_adress' \in 0..Days-1
  BY <1>2, <1>3
<1>6. last' \in [day : 0..Days-1, hour : 0..Hours-1, heard : BOOLEAN] /\ steady' \in BOOLEAN
  BY <1>1, <1>3
<1>7. StatTypeOK'
  BY <1>1, <1>3, <1>5, <1>6 DEF IInv, TypeOK, StatTypeOK
<1>8. TypeOK'
  BY <1>1, <1>4, <1>7 DEF IInv, TypeOK
<1>9. LineInv'
  BY <1>1 DEF IInv, LineInv, NoRepeatedTime, HasFile
<1>10. FileInv'
  BY <1>1 DEF IInv, FileInv, HasFile
<1>11. last'.hour <= prev_sec_hour'
  <2>1. last'.hour = hour
    BY <1>1
  <2> QED
    BY <1>2, <1>3, <2>1 DEF NewDay
<1>12. ASSUME HasFile, steady, Often, ~NewDay PROVE stat_file = day
  <2>1. last.day = stat_file
    BY <1>1, <1>12 DEF IInv, DayInv
  <2>2. ~(last.heard /\ hour < last.hour)
    <3>1. last.heard => last.hour <= prev_sec_hour
      BY DEF IInv, DayInv
    <3>2. prev_sec_hour <= hour /\ last.hour \in Int
      BY <1>3, <1>12 DEF NewDay
    <3> QED
      BY <1>3, <3>1, <3>2
  <2> QED
    BY <1>12, <2>1, <2>2 DEF Often
<1>13. HasFile' /\ steady' =>
         last'.day = IF mpc' \in {"rollover", "reopen"} THEN global_adress' ELSE stat_file'
  <2>1. last'.day = day
    BY <1>1
  <2>2. CASE NewDay
    BY <1>1, <1>2, <2>1, <2>2
  <2>3. CASE ~NewDay
    BY <1>1, <1>12, <2>1, <2>3 DEF HasFile
  <2> QED
    BY <2>2, <2>3
<1>14. FileOfTheDay'
  BY <1>1 DEF IInv, DayInv, FileOfTheDay
<1> QED
  BY <1>8, <1>9, <1>10, <1>11, <1>13, <1>14 DEF IInv, DayInv

LEMMA StatReopen == ASSUME IInv, RolloverOpen PROVE IInv'
<1>1. /\ mpc = "reopen" /\ mpc' = "line" /\ stat_file' \in {global_adress, NoFile}
      /\ open' = (stat_file' # NoFile)
      /\ UNCHANGED <<day, hour, prev_sec_hour, global_adress, current_servertime, close_price,
                     first_price_appeard, lines, last, steady, wsi, msg, messages, failed,
                     misuse, connection_flag, force_exit, tpc, hpc, query, queries, interrupts>>
  BY DEF RolloverOpen, clock, names, quote, flagVars, restVars
<1>2. open' \in BOOLEAN /\ (HasFile' => HasFile /\ open' /\ stat_file' = global_adress)
  BY <1>1 DEF HasFile, IInv, FileInv
<1>3. TypeOK'
  BY <1>1, <1>2 DEF IInv, TypeOK, StatTypeOK
<1>4. LineInv'
  BY <1>1 DEF IInv, LineInv, NoRepeatedTime
<1>5. DayInv'
  BY <1>1, <1>2 DEF IInv, DayInv, FileOfTheDay
<1>6. FileInv'
  BY <1>1, <1>2 DEF IInv, FileInv
<1> QED
  BY <1>3, <1>4, <1>5, <1>6 DEF IInv

-----------------------------------------------------------------------------
\* What taking a message does to the lines: none, or one more, which goes on.
LEMMA Taking ==
  ASSUME IInv, NEW m \in Message, Take(m), HasFile \/ ~GivesLine(m)
  PROVE  /\ current_servertime' \in 0..Stamps /\ close_price' \in Prices \cup {NoPrice}
         /\ first_price_appeard' \in BOOLEAN
         /\ \/ /\ lines' = lines /\ UNCHANGED <<close_price, first_price_appeard>>
               /\ first_price_appeard => UNCHANGED current_servertime
            \/ \E l \in DayLine :
                 /\ HasFile /\ lines' = Append(lines, l) /\ first_price_appeard'
                 /\ l.file = stat_file /\ l.day = last.day
                 /\ l.price = close_price' /\ l.stamp = current_servertime'
                 /\ l.kind = "servertime" =>
                      /\ first_price_appeard /\ close_price' = close_price
                      /\ l.stamp > current_servertime
<1>1. /\ current_servertime \in 0..Stamps /\ close_price \in Prices \cup {NoPrice}
      /\ first_price_appeard \in BOOLEAN /\ Stamps \in Nat
      /\ stat_file \in {NoFile} \cup 0..Days-1 /\ last.day \in 0..Days-1
  BY StatAssumption DEF IInv, TypeOK, StatTypeOK
<1>2. GivesLine(m) => HasFile
  OBVIOUS
<1>3. HasFile => \A s \in 1..Stamps, p \in Prices \cup {NoPrice} :
        /\ Line("price", s, p) \in DayLine /\ Line("servertime", s, p) \in DayLine
  BY <1>1 DEF HasFile, Line, DayLine
<1>4. CASE TakePrice(m)
  <2>1. m.stamp \in 1..Stamps /\ m.price \in Prices /\ m.kind = "price"
    BY <1>4 DEF TakePrice, Message
  <2> DEFINE l == Line("price", m.stamp, m.price)
  <2>2. HasFile /\ l \in DayLine
    BY <1>2, <1>3, <2>1 DEF GivesLine
  <2>3. /\ lines' = Append(lines, l) /\ first_price_appeard' = TRUE
        /\ current_servertime' = m.stamp /\ close_price' = m.price
    BY <1>4 DEF TakePrice
  <2>4. /\ l.file = stat_file /\ l.day = last.day /\ l.kind = "price"
        /\ l.price = m.price /\ l.stamp = m.stamp
    BY DEF Line
  <2>5. m.stamp \in 0..Stamps
    BY <1>1, <2>1
  <2> HIDE DEF l
  <2> QED
    BY <2>1, <2>2, <2>3, <2>4, <2>5
<1>5. CASE TakeServertime(m)
  <2>1. m.stamp \in 1..Stamps
    BY <1>5 DEF TakeServertime, Message
  <2>2. UNCHANGED <<close_price, first_price_appeard>>
    BY <1>5 DEF TakeServertime
  <2>3. CASE m.stamp > current_servertime /\ first_price_appeard
    <3> DEFINE l == Line("servertime", m.stamp, close_price)
    <3>1. HasFile /\ l \in DayLine
      <4>1. m.kind = "servertime"
        BY <1>5 DEF TakeServertime
      <4> QED
        BY <1>1, <1>2, <1>3, <2>1, <2>3, <4>1 DEF GivesLine
    <3>2. lines' = Append(lines, l) /\ current_servertime' = m.stamp
      BY <1>5, <2>3 DEF TakeServertime
    <3>3. /\ l.file = stat_file /\ l.day = last.day
          /\ l.price = close_price /\ l.stamp = m.stamp
      BY DEF Line
    <3>4. m.stamp \in 0..Stamps
      BY <1>1, <2>1
    <3> HIDE DEF l
    <3> QED
      BY <1>1, <2>2, <2>3, <3>1, <3>2, <3>3, <3>4
  <2>4. CASE ~(m.stamp > current_servertime /\ first_price_appeard)
    <3>1. lines' = lines /\ current_servertime' \in {m.stamp, current_servertime}
      BY <1>5, <2>4 DEF TakeServertime
    <3>2. first_price_appeard => current_servertime' = current_servertime
      BY <1>5, <2>4 DEF TakeServertime
    <3>3. m.stamp \in 0..Stamps
      BY <1>1, <2>1
    <3> QED
      BY <1>1, <1>2, <2>2, <3>1, <3>2, <3>3
  <2> QED
    BY <2>3, <2>4
<1>6. CASE TakeOther(m)
  BY <1>1, <1>2, <1>6 DEF TakeOther, quote
<1> QED
  BY <1>4, <1>5, <1>6 DEF Take

\* A line more keeps what is true of the lines.
LEMMA LineMore ==
  ASSUME IInv, NEW l \in DayLine, lines' = Append(lines, l)
  PROVE  /\ lines' \in Seq(DayLine) /\ lines' # <<>> /\ lines'[Len(lines')] = l
         /\ (l.file = l.day /\ FileOfTheDay /\ steady /\ steady' => FileOfTheDay')
         /\ (l.kind = "servertime" => /\ lines # <<>>
                                      /\ l.price = lines[Len(lines)].price
                                      /\ l.stamp > lines[Len(lines)].stamp)
              => NoRepeatedTime'
<1>1. lines \in Seq(DayLine) /\ NoRepeatedTime
  BY DEF IInv, TypeOK, StatTypeOK, DayLine, LineInv
<1>2. Len(lines) \in Nat /\ Len(lines') = Len(lines) + 1
  BY <1>1
<1>3. lines' \in Seq(DayLine) /\ DOMAIN lines' = 1..Len(lines) + 1
  BY <1>1
<1>4. \A k \in 1..Len(lines) : lines'[k] = lines[k] /\ k \in DOMAIN lines
  BY <1>1
<1>5. lines'[Len(lines) + 1] = l
  BY <1>1
<1>6. ASSUME l.file = l.day, FileOfTheDay, steady PROVE FileOfTheDay'
  <2>1. \A k \in DOMAIN lines' : lines'[k].file = lines'[k].day
    <3> TAKE k \in DOMAIN lines'
    <3>1. CASE k = Len(lines) + 1
      BY <1>5, <1>6, <3>1
    <3>2. CASE k # Len(lines) + 1
      <4>1. k \in 1..Len(lines)
        BY <1>2, <1>3, <3>2
      <4> QED
        BY <1>4, <1>6, <4>1 DEF FileOfTheDay
    <3> QED
      BY <3>1, <3>2
  <2> QED
    BY <2>1 DEF FileOfTheDay
<1>7. ASSUME l.kind = "servertime" => /\ lines # <<>>
                                      /\ l.price = lines[Len(lines)].price
                                      /\ l.stamp > lines[Len(lines)].stamp
      PROVE  NoRepeatedTime'
  <2> SUFFICES ASSUME NEW k \in DOMAIN lines', lines'[k].kind = "servertime"
               PROVE  /\ k > 1 /\ lines'[k].price = lines'[k-1].price
                      /\ lines'[k].stamp > lines'[k-1].stamp
    BY DEF NoRepeatedTime
  <2>1. CASE k = Len(lines) + 1
    <3>1. Len(lines) \in 1..Len(lines)
      BY <1>1, <1>2, <1>5, <1>7, <2>1
    <3>2. lines'[k - 1] = lines[Len(lines)] /\ k > 1
      BY <1>2, <1>4, <2>1, <3>1
    <3> QED
      BY <1>5, <1>7, <2>1, <3>2
  <2>2. CASE k # Len(lines) + 1
    <3>1. k \in 1..Len(lines)
      BY <1>2, <1>3, <2>2
    <3>2. k > 1 /\ lines[k].price = lines[k-1].price /\ lines[k].stamp > lines[k-1].stamp
      BY <1>1, <1>4, <3>1 DEF NoRepeatedTime
    <3>3. k - 1 \in 1..Len(lines)
      BY <1>2, <3>1, <3>2
    <3> QED
      BY <1>4, <3>1, <3>2, <3>3
  <2> QED
    BY <2>1, <2>2
<1>8. lines' # <<>> /\ lines'[Len(lines')] = l
  BY <1>1, <1>2, <1>5
<1> QED
  BY <1>3, <1>6, <1>7, <1>8

LEMMA StatLine == ASSUME IInv, WriteLine PROVE IInv'
<1>1. /\ mpc = "line" /\ mpc' = "loop" /\ Take(msg) /\ (HasFile \/ ~GivesLine(msg))
      /\ misuse' = IF lines' = lines \/ open THEN misuse ELSE misuse \cup {"fprintf"}
      /\ UNCHANGED <<wsi, msg, messages, failed, open, connection_flag, force_exit, tpc, hpc,
                     query, queries, interrupts>>
  BY DEF WriteLine, flagVars, restVars
<1>2. UNCHANGED <<day, hour, prev_sec_hour, global_adress, stat_file, last, steady>>
  BY <1>1 DEF Take, clock, names
<1>3. msg \in Message
  BY DEF IInv, TypeOK
<1>4. /\ current_servertime' \in 0..Stamps /\ close_price' \in Prices \cup {NoPrice}
      /\ first_price_appeard' \in BOOLEAN
      /\ \/ /\ lines' = lines /\ UNCHANGED <<close_price, first_price_appeard>>
            /\ first_price_appeard => UNCHANGED current_servertime
         \/ \E l \in DayLine :
              /\ HasFile /\ lines' = Append(lines, l) /\ first_price_appeard'
              /\ l.file = stat_file /\ l.day = last.day
              /\ l.price = close_price' /\ l.stamp = current_servertime'
              /\ l.kind = "servertime" =>
                   /\ first_price_appeard /\ close_price' = close_price
                   /\ l.stamp > current_servertime
  BY <1>1, <1>3, Taking
<1>5. HasFile' = HasFile
  BY <1>2 DEF HasFile
<1>6. steady /\ HasFile => last.day = stat_file
  BY <1>1 DEF IInv, DayInv
<1>7. lines' \in Seq(DayLine) /\ LineInv' /\ FileOfTheDay'
  <2>1. CASE /\ lines' = lines /\ UNCHANGED <<close_price, first_price_appeard>>
             /\ first_price_appeard => UNCHANGED current_servertime
    BY <1>2, <1>5, <2>1
       DEF IInv, TypeOK, StatTypeOK, DayLine, LineInv, NoRepeatedTime, DayInv, FileOfTheDay
  <2>2. ASSUME NEW l \in DayLine,
               HasFile, lines' = Append(lines, l), first_price_appeard',
               l.file = stat_file, l.day = last.day,
               l.price = close_price', l.stamp = current_servertime',
               l.kind = "servertime" =>
                 /\ first_price_appeard /\ close_price' = close_price
                 /\ l.stamp > current_servertime
        PROVE  lines' \in Seq(DayLine) /\ LineInv' /\ FileOfTheDay'
    <3>1. lines' \in Seq(DayLine) /\ lines' # <<>> /\ lines'[Len(lines')] = l
      BY <2>2, LineMore
    <3>2. l.kind = "servertime" => /\ lines # <<>>
                                   /\ l.price = lines[Len(lines)].price
                                   /\ l.stamp > lines[Len(lines)].stamp
      BY <2>2 DEF IInv, LineInv
    <3>3. NoRepeatedTime'
      BY <2>2, <3>2, LineMore
    <3>4. CASE steady
      <4>1. l.file = l.day /\ FileOfTheDay
        BY <1>6, <2>2, <3>4 DEF IInv, DayInv
      <4> QED
        BY <1>2, <1>5, <2>2, <3>1, <3>3, <3>4, <4>1, LineMore DEF LineInv
    <3>5. CASE ~steady
      <4>1. FileOfTheDay'
        BY <1>2, <3>5 DEF FileOfTheDay
      <4> QED
        BY <1>5, <2>2, <3>1, <3>3, <4>1 DEF LineInv
    <3> QED
      BY <3>4, <3>5
  <2> QED
    BY <1>4, <2>1, <2>2
<1>8. misuse' \subseteq {"fclose", "fprintf", "null"}
  BY <1>1 DEF IInv, TypeOK
<1>9. TypeOK'
  <2>1. /\ day' \in 0..Days-1 /\ hour' \in 0..Hours-1 /\ prev_sec_hour' \in 0..Hours-1
        /\ global_adress' \in 0..Days-1 /\ stat_file' \in {NoFile} \cup 0..Days-1
        /\ last' \in [day : 0..Days-1, hour : 0..Hours-1, heard : BOOLEAN]
        /\ steady' \in BOOLEAN
    BY <1>2 DEF IInv, TypeOK, StatTypeOK
  <2>2. /\ current_servertime' \in 0..Stamps /\ close_price' \in Prices \cup {NoPrice}
        /\ first_price_appeard' \in BOOLEAN
    BY <1>4
  <2>3. StatTypeOK'
    BY <1>7, <2>1, <2>2 DEF StatTypeOK, DayLine
  <2> QED
    BY <1>1, <1>8, <2>3 DEF IInv, TypeOK
<1>10. DayInv'
  BY <1>1, <1>2, <1>5, <1>6, <1>7 DEF IInv, DayInv
<1>11. FileInv'
  BY <1>1, <1>5 DEF IInv, FileInv
<1> QED
  BY <1>7, <1>9, <1>10, <1>11 DEF IInv

-----------------------------------------------------------------------------
LEMMA Step == ASSUME IInv, SenderInv, [Next]_vars PROVE IInv'
<1>1. CASE UNCHANGED vars
  <2>1. UNCHANGED <<statVars, mainVars, fileVars, flagVars, restVars>>
    BY <1>1 DEF vars
  <2>2. LineInv' /\ DayInv' /\ StatTypeOK'
    BY <2>1, QuietTypes, QuietDay DEF IInv, mainVars
  <2>3. FileInv'
    BY <2>1, QuietFile DEF IInv, FileInv, statVars, mainVars, fileVars, restVars
  <2>4. TypeOK'
    BY <2>1, <2>2 DEF IInv, TypeOK, mainVars, fileVars, flagVars, restVars
  <2> QED
    BY <2>2, <2>3, <2>4 DEF IInv
<1>2. CASE Main
  BY <1>2, QuietMain, StatStart, StatReceive, StatReopen, StatLine, CloseConnectionError,
     CloseRollover, CloseNull DEF Main, Callback, Beginning
<1>3. CASE Sender
  BY <1>3, QuietThreads
<1>4. CASE Handler
  BY <1>4, QuietThreads, CloseInterrupt, CloseNull DEF Handler
<1>5. CASE Hour
  BY <1>5, StatHour
<1> QED
  BY <1>1, <1>2, <1>3, <1>4, <1>5 DEF Next

\* RecorderLifecycle keeps its invariant (working.c:221-304, 346-361).
THEOREM Invariance == Spec => [](IInv /\ SenderInv)
<1>1. ASSUME Init PROVE IInv /\ SenderInv
  <2>1. ~connection_flag /\ tpc = "none" /\ queries = 0
    BY <1>1, Zenon DEF Init
  <2> QED
    BY <1>1, <2>1, InvInit DEF SenderInv, QueryOnceConnected
<1>2. IInv /\ SenderInv /\ [Next]_vars => (IInv /\ SenderInv)'
  BY Step, SenderStep
<1> QED
  BY <1>1, <1>2, PTL DEF Spec

\* Every variable has its type.
THEOREM TypeCorrect == Spec => []TypeOK
<1>1. IInv => TypeOK
  BY DEF IInv
<1> QED
  BY <1>1, Invariance, PTL

\* Whatever the hours of a day, the lines are in the files of their days as long as the
\* messages come often enough (StatisticsFileSystem.cpp:117-133).
THEOREM LinesInTheirDays == Spec => []FileOfTheDay
<1>1. IInv => FileOfTheDay
  BY DEF IInv, DayInv
<1> QED
  BY <1>1, Invariance, PTL

\* A server time repeats the price before it at a later time (working.c:278-293).
THEOREM TimesGoOn == Spec => []NoRepeatedTime
<1>1. IInv => NoRepeatedTime
  BY DEF IInv, LineInv
<1> QED
  BY <1>1, Invariance, PTL

\* However many interrupts and messages come, what goes wrong first with a file that could be
\* opened is the first interrupt, where the file is closed already (working.c:227, 241-243,
\* 355).
THEOREM OnlyInterruptsSpoil == Spec => FileSound
<1> DEFINE Misused == misuse' # misuse
           Sound == interrupts' = 1 /\ (failed \/ mpc = "reopen")
<1>1. ASSUME IInv, [Next]_vars, interrupts = 0, HasFile, Misused
      PROVE  Sound
  <2>1. open \/ mpc = "reopen" \/ failed
    BY <1>1 DEF IInv, FileInv
  <2>2. failed => wsi = "closed"
    BY <1>1 DEF IInv, FileInv
  <2>3. mpc \in {"rollover", "line"} => wsi = "open"
    BY <1>1 DEF IInv, FileInv
  <2>4. CASE ConnectionError \/ RolloverClose \/ WriteLine
    BY <1>1, <2>1, <2>2, <2>3, <2>4 DEF ConnectionError, RolloverClose, WriteLine, CloseFile
  <2>5. CASE Interrupt
    BY <1>1, <2>1, <2>5 DEF Interrupt, CloseFile
  <2>6. ~NullFile /\ ~InterruptNull
    BY <1>1 DEF NullFile, InterruptNull
  <2>7. ~(Start \/ Beginning \/ LoopTest \/ NothingToDo \/ Established \/ Closed \/ Destroy
          \/ Return)
    BY <1>1 DEF Start, Beginning, SetHandler, Setup, SetupFails, Connect, ConnectFails, LoopTest,
       NothingToDo, Established, Closed, Destroy, Return, fileVars
  <2>8. ~((\E m \in Message : Receive(m)) \/ RolloverOpen)
    BY <1>1 DEF Receive, RolloverOpen, fileVars
  <2>9. ~(Sender \/ InterruptDefault \/ HandlerExit \/ Hour \/ UNCHANGED vars)
    BY <1>1 DEF Sender, Poll, SendQuery, InterruptDefault, HandlerExit, Hour, fileVars, vars
  <2> QED
    BY <1>1, <2>4, <2>5, <2>6, <2>7, <2>8, <2>9 DEF Next, Main, Callback, Handler, Beginning
<1>2. ASSUME IInv, [Next]_vars
      PROVE  [interrupts = 0 /\ HasFile /\ Misused => Sound]_vars
  BY <1>1, <1>2
<1>3. FileSound <=> [][interrupts = 0 /\ HasFile /\ Misused => Sound]_vars
  BY DEF FileSound
<1> HIDE DEF Misused, Sound
<1> QED
  BY <1>2, <1>3, Invariance, PTL DEF Spec

\* However the connection comes and goes, no query is sent without one, before the connection
\* or without (working.c:319-330).
THEOREM QueryOverConnection == Spec => []QueryOnceConnected
<1>1. SenderInv => QueryOnceConnected
  BY DEF SenderInv
<1> QED
  BY <1>1, Invariance, PTL
=============================================================================
