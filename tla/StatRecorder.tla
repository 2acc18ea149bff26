----------------------------- MODULE StatRecorder -----------------------------
(***************************************************************************)
(* Project_work: the statistics of one asset.  Each message from the quote *)
(* server may append a line to the file of the day (working.c, the RECEIVE *)
(* case of ws_service_callback); StatisticsFileSystem decides from the     *)
(* hour of the local clock whether a new day's file is due.                *)
(*                                                                         *)
(* A server time is a number and a price a model value; what the           *)
(* directories are called is left out, a file's name is its day.           *)
(***************************************************************************)
EXTENDS Integers, Sequences

CONSTANTS
  Hours,    \* the hours of a day: 24
  Days,     \* bound: how many days pass
  Stamps,   \* bound: the largest server time
  Prices,
  NoPrice   \* the empty close_price

ASSUME StatAssumption ==
  /\ Hours \in Nat \ {0} /\ Days \in Nat \ {0} /\ Stamps \in Nat
  /\ NoPrice \notin Prices

VARIABLES
  day, hour,           \* the local clock
  prev_sec_hour,
  global_adress,       \* the day in the file name
  stat_file,           \* the day of the file it was opened for last, NoFile if it is NULL
  current_servertime,  \* 0 is the empty string
  close_price,
  first_price_appeard,
  lines,               \* history: the lines printed, with the file and the day of each
  last,                \* history: when the last message came, or the process started
  steady               \* history: TRUE while the messages come often enough

clock == <<day, hour>>
names == <<prev_sec_hour, global_adress>>
quote == <<current_servertime, close_price, first_price_appeard>>
statVars == <<clock, names, stat_file, quote, lines, last, steady>>

NoFile == -1

\* The three kinds of message: with "time": and "close":, with "servertime":, any other.
Message == [kind : {"price"}, stamp : 1..Stamps, price : Prices]
             \cup [kind : {"servertime"}, stamp : 1..Stamps] \cup [kind : {"other"}]

StatInit ==
  /\ day = 0 /\ hour \in 0..Hours-1
  /\ prev_sec_hour = 0 /\ global_adress = 0 /\ stat_file = NoFile
  /\ current_servertime = 0 /\ close_price = NoPrice /\ first_price_appeard = FALSE
  /\ lines = <<>> /\ last = [day |-> 0, hour |-> 0, heard |-> FALSE] /\ steady = TRUE

\* An hour passes.
Tick ==
  /\ IF hour < Hours - 1 THEN hour' = hour + 1 /\ UNCHANGED day
                         ELSE hour' = 0 /\ day' = day + 1 /\ day' < Days
  /\ UNCHANGED <<names, stat_file, quote, lines, last, steady>>

\* construct_statistics, then main opens the file, which may fail.
Construct ==
  /\ prev_sec_hour' = 0
  /\ global_adress' = day /\ stat_file' \in {day, NoFile}
  /\ last' = [day |-> day, hour |-> hour, heard |-> FALSE]
  /\ UNCHANGED <<clock, quote, lines, steady>>

\* Mutant: only the first hour of a day tells it from the last.
NewDayAtMidnight == hour = 0 /\ prev_sec_hour # 0

\* What update_time returns: is the hour before the one seen last?
NewDay == hour - prev_sec_hour < 0

\* update_time leaves prev_sec_hour as it is when the day changes, so that every message
\* makes the name anew until the hour has caught up.
UpdateTime ==
  IF NewDay THEN global_adress' = day /\ UNCHANGED prev_sec_hour
            ELSE prev_sec_hour' = hour /\ UNCHANGED global_adress

\* Less than a day since the message before; the first one on the day of the start,
\* whose hour prev_sec_hour does not know.
Often == \/ last.day = day
         \/ last.heard /\ last.day + 1 = day /\ hour < last.hour

\* A message comes: the file it needs is found out.
Arrive ==
  /\ UpdateTime
  /\ last' = [day |-> day, hour |-> hour, heard |-> TRUE]
  /\ steady' = (steady /\ Often)
  /\ UNCHANGED <<clock, stat_file, quote, lines>>

Line(kind, stamp, price) ==
  [kind |-> kind, stamp |-> stamp, price |-> price, file |-> stat_file, day |-> last.day]

\* Does the message give a line?
GivesLine(m) ==
  \/ m.kind = "price"
  \/ m.kind = "servertime" /\ first_price_appeard /\ m.stamp > current_servertime

\* A price is printed with its time.
TakePrice(m) ==
  /\ m.kind = "price"
  /\ first_price_appeard' = TRUE
  /\ current_servertime' = m.stamp /\ close_price' = m.price
  /\ lines' = Append(lines, Line("price", m.stamp, m.price))

\* Mutant: the same time is taken again.
TakeServertimeAgain(m) ==
  /\ m.kind = "servertime"
  /\ IF m.stamp >= current_servertime
     THEN /\ current_servertime' = m.stamp
          /\ lines' = IF first_price_appeard
                      THEN Append(lines, Line("servertime", m.stamp, close_price)) ELSE lines
     ELSE UNCHANGED <<current_servertime, lines>>
  /\ UNCHANGED <<close_price, first_price_appeard>>

\* A server time that is new repeats the last price, if there was one.
TakeServertime(m) ==
  /\ m.kind = "servertime"
  /\ IF m.stamp > current_servertime
     THEN /\ current_servertime' = m.stamp
          /\ lines' = IF first_price_appeard
                      THEN Append(lines, Line("servertime", m.stamp, close_price)) ELSE lines
     ELSE UNCHANGED <<current_servertime, lines>>
  /\ UNCHANGED <<close_price, first_price_appeard>>

\* Any other message, or one that is too long.
TakeOther(m) == m.kind = "other" /\ UNCHANGED <<quote, lines>>

Take(m) == /\ TakePrice(m) \/ TakeServertime(m) \/ TakeOther(m)
           /\ UNCHANGED <<clock, names, stat_file, last, steady>>
-----------------------------------------------------------------------------
StatTypeOK ==
  /\ day \in 0..Days-1 /\ hour \in 0..Hours-1 /\ prev_sec_hour \in 0..Hours-1
  /\ global_adress \in 0..Days-1 /\ stat_file \in {NoFile} \cup 0..Days-1
  /\ current_servertime \in 0..Stamps
  /\ close_price \in Prices \cup {NoPrice} /\ first_price_appeard \in BOOLEAN
  /\ lines \in Seq([kind : {"price", "servertime"}, stamp : 1..Stamps,
                    price : Prices \cup {NoPrice}, file : 0..Days-1, day : 0..Days-1])
  /\ last \in [day : 0..Days-1, hour : 0..Hours-1, heard : BOOLEAN] /\ steady \in BOOLEAN

\* A line is written to the file of the day its message came on, as long as messages
\* come often enough.  update_time (StatisticsFileSystem.cpp:117-133) looks at the
\* hour only and construct_statistics (114) forgets it, so a day without messages,
\* or a first message on the next day, leaves the old file in use.
FileOfTheDay == steady => \A k \in DOMAIN lines : lines[k].file = lines[k].day

\* A server time's line repeats the price of the line before it at a later time, whatever
\* files the two are in: no line is written before the first price came (working.c:286), and
\* none for a time that does not go on (278-284).
NoRepeatedTime == \A k \in DOMAIN lines :
  lines[k].kind = "servertime" =>
    /\ k > 1 /\ lines[k].price = lines[k-1].price
    /\ lines[k].stamp > lines[k-1].stamp
=============================================================================
