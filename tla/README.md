# Specifications of 3sem

The repository is a term's collection of C and C++ programs about processes,
threads, signals, sockets and System V IPC, and one larger project, a recorder of
quotations (`Project_work`). The programs share no code, so each is a component
of its own here. This directory holds TLA+ models of those in which something
can come between, the TLC runs that check them, and TLAPS proofs.

    tlc -config KitchenSemSem.cfg MCKitchen.tla     # a run
    tlapm KitchenProofs.tla                         # a proof module

## 1. Inventory

### Modelled

| Component (source) | State | Operations | Actors and how they meet |
|---|---|---|---|
| Kitchen (`washer_machine/`) | three semaphores, two shared memories, two message queues; each process's counters | generate, wash, pass on, dry, remove objects, restart | generator, washer and dryer, three processes; each link is a shared array with a semaphore or a queue |
| Multiplying server (`Client_Server/`) | one queue for requests and replies, one semaphore, the table `threads_used`, a buffer | receive, wait for a thread, scan the table, start a thread; multiply, reply, give back slot and token; request, wait for the reply | clients, the server's main thread and its worker threads |
| Chat over connections (`TCP_chat/`) | a room of two users, the semaphore for the next one, each process's copy of its user | accept, fork, relay, leave, end the room, fall out of the loop; type, hear, be killed; restart | the server, one child per user, two processes per client, by sockets and a semaphore |
| Chat over datagrams (`UDP_chat/`) | the array of users, the datagrams under way, the message in hand and whom it goes to next | receive, register or relay, send to one user after another, fail, overrun; send; lose, overtake; restart | clients and the server, by a network that loses and reorders |
| Statistics of an asset (`Project_work/StatisticsFileSystem.*`, `working.c`) | the hour last seen, the file of the day, the last time and price | construct, update_time, the three kinds of message | the callback and the local clock |
| Connection of a recorder (`Project_work/EstablishConnection.*`, `working.c`) | `connection_flag`, `force_exit`, `stat_file`, `is_there_first_request` | open the file, set the handler, load or create the session, connect, or fail at it; service loop, callback, sender thread, SIGINT handler | main thread, detached thread and handler, by plain global variables |
| One process per asset (`Project_work/working.c`, `--all`) | `current_process_num`, the children | fork or fail, be interrupted, ignore SIGINT, wait; end | parent and children |
| File of records (`Project_work/ConnectionData.*`, `ParseCmdArgs.*`) | the text of the file, each session's place in it | parse options, look for the file, search a name, create, write, give up, load | sessions that run at the same time on one file |
| String over signals (`bit_data_exchg.c`) | pending signals, the bit and character each side is at | send a bit, wait for the answer; receive, answer | child and parent, by SIGUSR1 and SIGUSR2 |
| Matrix product (`hw5_4.c`) | the output matrix | create, serve elements, join, print | main and its threads, without a lock |
| Shared text (`Shared Memory/`) | a semaphore and a memory, of which new ones come after a removal | get both, copy, post; get both, wait, print, remove both | writers and readers, any number at a time |
| Factorial (`Queue_CS_factorial/`) | a queue, of which new ones come after a removal | send, receive, remove; receive, answer | clients and servers that end after one message |
| Ping-pong (`FUPM_THE_.c`) | pending signals | ignore, print, signal, wait | child and parent |
| Chains of processes (`my_prog.c`, `my_prog1.c`) | the processes of the chain | fork, wait, end or become a command | each process and its child |
| Delayed commands (`hw_5b.c`) | the lines read, `is_it_EOF` in each copy | read and fork, test, sleep and become a command | parent and a child per line |
| Counter (`increment.c`) | the counter, the mutex | lock, read, write, unlock, join | two threads and main |
| File search (`find_me.c`) | the stack of calls, `buf` of each | open or be refused, stat, descend, compare, close | one process, and what the working directory holds |

What makes each of them correct, and what is hard about it:

- **Kitchen.** No dish may be lost, doubled, overtaken or dried dirty, the
  dryer's table must not be overrun, the processes must end, and the IPC
  objects, which outlive them, must be left so that the next run works. Both
  consumers read a slot *before* they wait for the semaphore that announces it
  (`dish_washer.h:138`, `dish_dryer.h:26`), so what they read may be old, new or
  the end mark; the dryer removes objects that the washer may still be using
  (`dish_dryer.h:60`); `sem_ini` adds to a semaphore that may hold something
  already (`dish_dryer.h:118`).
- **Server.** Each client must get the product of its own numbers. The server
  receives any type of message from a queue in which its own replies travel; the
  semaphore admits one message more than there are slots; a thread gives its slot
  and its token back in two steps; semaphore and queue survive a restart.
- **TCP chat.** Each user must hear the other, in order, and when a room ends the
  next must be opened. A room can end in four ways (KILL_THIS, exit, a client
  that is gone, a send to a client that is gone), and one of them raises the
  semaphore; a process whose client is gone goes on in the loop of its parent.
- **UDP chat.** Each user must have one place and his own name. Users are known
  by address and port, whatever comes first from there is the name, nothing
  bounds their number or the name's length, and a restart forgets them while they go
  on. A message goes to one user after another, and a server that fails or is
  stopped in between has told some of them only.
- **Recorder.** A line belongs into the file of the day it is written on, the
  times in it must not repeat, and it needs a price; the file must be open when
  it is written and closed once, and there may be none; a SIGINT must end the
  process, whatever it interrupts; a query, if there is one, must go out once there is
  a connection and not before. With `--all` every asset needs a recorder of its own,
  named in a variable that the parent goes on to change; the parent is meant to wait
  for all of them and waits for one.
- **File of records.** What was recorded must be loaded as it was. The result of
  the search for a name goes to a variable that hides the one tested
  (`ConnectionData.cpp:34`, `44`), so that a name that is taken is written over;
  between `access` and `fopen` another session can come (38).
- **Signals.** Two signals of one kind merge and two of different kinds have no
  order, so the bits depend on the answers alone; the length is one signed char.
- **Matrix, counter.** The threads' stretches must be disjoint and cover the
  matrix, whatever the remainder, also with more threads than elements; no round
  of a counter may be lost.
- **Shared text, factorial.** Objects are removed under other users and created
  anew under the same key: a reader must not read a memory without a text, nor
  wait for a semaphore nobody will raise, a client should get its own answer.
- **Ping-pong.** `SIG_IGN` discards a pending signal (36), and then both wait.
- **Chains, delayed commands.** Which process takes which line, and that a chain
  ends from below, follows from what a child inherits.
- **File search.** `stat` is asked with the bare name, that is in the working
  directory (61), and no `opendir` is tested (50): what may be relied on nevertheless?

### Not modelled

| Component | Why not |
|---|---|
| `Split.c` | `strtok` in a loop over one string; no state but the string, nothing to interleave |
| `MemMap.c` | one sequential loop over the bytes of a file |
| `signals.c` | two calls of `signal()` and an empty loop |
| the other options of `Project_work/ParseCmdArgs.*` | they set what a connection is asked for and are handed to the library; the options that decide what a session does (`--load`, `--record`, `--query`, `--all`) are in `RecordFile` and `RecorderLifecycle` |

## 2. Modules

### The kitchen

    KitchenIPC            the IPC objects, dish_t, semop, removal
      DishGenerator       dish_generator.h
      DishWasher          dish_washer.h
        DishDryer         dish_dryer.h
    Kitchen               kitchen.c: the three together, restarts, properties
    DishPipeline          what the kitchen promises, without any IPC
    MCKitchen             Kitchen for TLC
    KitchenProofs         theorems

The links are the constants `GenLink` and `DryLink` (argv[1], argv[2]), the
table is `TableSize` (argv[3]). Each process has a program counter (`gpc`,
`wpc`, `dpc`) that stops wherever another process can come between: at every
semop, message, read of a shared slot and write to one. `washed` and `dried`
are histories of what was worked on, with the end mark written `END`.

- A dish is its number in the order of making, its washing time, and
  `is_it_clean`. `time_to_dry` only feeds a sleep and `is_it_dry` is never read:
  both are left out. Washing times are 0, some time, or `END_OF_THE_DAY`: 0 is
  also what an empty slot holds, and `rand() % 10` can be 0, so the models
  include dishes that look like empty slots.
- The fields of a slot are written in one step, though the code writes them one
  after another. A reader tells only END from the rest before the post, and END
  is one assignment; all else is read after the semaphore.
- `mybuf_output` is an uninitialised local in `generate_dishes_queue`: its
  `is_it_clean` is chosen freely.
- A semop on a removed set fails and nobody looks: it is a step without effect.
- Objects are found again by their key; removing one resets its contents, and
  `removed` says that identifiers held elsewhere are dead. The `...get_access`
  calls of each send find the objects that are there; `NoUseOfRemoved` says that
  they are.
- `Rerun` starts the program again, after a run that ended or, with
  `KillAllowed`, after one that was killed. It keeps what the objects hold.

`DishPipeline` has no processes: dishes are opened, made, washed and dried in
order, at most `TableSize` washed ones wait beside the one in the washer's
hands, and no other day begins before all are dry. `Kitchen!ImplementsPipeline`
maps the two histories, cut at the day's dishes, to it. The end mark that a
consumer may take for a dish is thereby a stuttering step.

### The server

`MultiplyServer` has the main thread (`spc`: down, receive, look, scan), one
worker per slot (`tpc`), the threads that have left their slot but not yet
posted (`posting`), and the clients. A client's two operands are both written
as the client itself: two operands belong together exactly if they are equal,
and then their product is the client's. A reply is a shorter message than a
request, so receiving one overwrites `mtype` and `num_one` only (`msgrcv` copies
the 4 bytes there are). `ServerKill` is the operator's interrupt,
the only end of the server apart from a message of type 255, which can only be
the reply to a client with that process id (`Pid255`). `dropped`, `lost` and
`stolen` are histories. The failure of `pthread_create` and `msgrcv` is left out.
`ServerProofs` holds the theorems.

### The chats

`TCPChat` has the server (`spc`: accept, fork and semop), up to three processes
per room (the two children and the one that child 0 forks when it falls out of
its loop, `Break`), and the clients. What a user types is a sequence (`typed`)
of which the processes of his connection take one after another (`taken`): the
third process shares the connection with child 1. What the server sends is the
sequence `sent`; a client takes all or part of it at once (`Hear`), and `heard`
says that its buffer will never show "exit" again, since it is compared before
it is cut (`TCP_client.c:67`). A send to a client that is gone may kill the
sender (SIGPIPE), or not yet. Texts and names are taken to be longer than two
characters. `TCPProofs` holds the theorems.

`UDPChat` has the server, the set `net` of datagrams under way and the sending
half of the clients; the receiving half only prints. A client is a pair of
address and port, so that the search that compares both can find the wrong one.
A client never ends by itself: the line keeps its newline and is compared with
`:quit` without one. Each `sendto` is a step, after which the server may have failed
and exited (`SendToFails`) or be stopped (`Restart`). What is sent is the kind of the
message, the name and the text; that the text follows the name is wording. A line in
`LongLines` has more than the 99 characters a nickname has room for: `strcpy` of it
writes behind the nickname as a user too many writes behind the array. Then the
server's behaviour is not determined, and the model stops it until a restart. A
nickname itself is at most 98 characters (`UDP_clent.c:61`), which `ChatAssumption` says.
`ChatRoom` is what such a server promises: members under names, and what one says is
told to all others, one by one, before anybody says something else; if it fails in
between, some were told and the others never are. `ImplementsRoom` maps the array
to the members, and the rest of the array to those that have not been told.
`UDPProofs` holds the theorems.

### Project_work

    StatRecorder          the statistics of an asset: variables, clock, callback's RECEIVE case
      RecorderLifecycle   the process: loop, callback, sender, SIGINT
        RecorderProofs    theorems
    RecordFile            the file of records; MCRecordFile for TLC
      RecordProofs        theorems
    AllAssets             the fork loop and the single wait, checked in SmallPrograms

`StatRecorder` has no specification of its own: its operators are parts of the
actions of `RecorderLifecycle`. `Arrive` is `update_time` at the begin of a
message, `Take` one of the three branches at its end; between the two, when the
day is new, the file is closed and opened in two steps, and the signal handler,
which runs in any thread at any time, can come between. A session starts with
`--all` (`mpc = "start"`: the file is set up) or without (`"handler"`: `stat_file`
stays `NoFile`). Then come the handler of SIGINT (before it SIGINT kills), the
session that is loaded or created, with a query or without (`Setup`, or
`SetupFails`), and `connect`, which returns if the context or the connection is not to be
had. Both `fopen` may fail: `stat_file` is `NoFile` again, and its first use kills the
process (`NullFile`, `InterruptNull`). libwebsockets (`wsi`, which callback comes) is
external. A file is named by its day. Messages are complete:
one with a time and no price is not modelled (it makes `working.c:259` read
through a null pointer), as what the quote server may send is not in the
repository.

`RecordFile` writes the file as a sequence of cells, a head with a name, one or
two pieces of data and an end of line, all taken to be of one length, and a
search and a load as what they find in such a sequence. That keeps what goes
wrong: a record written over a longer or shorter one, a place behind the end of a
file that was emptied, two heads that touch, and the name of the line before
that is cut once more when a line has none (`Shorter`). A session may
end at any place before `fclose` and then writes nothing (`GiveUp`: its address cannot be
parsed, `fopen` fails, it is killed). Two histories say whether sessions came between
each other: `current` are those that have looked at the file, by `access` or by the search,
since it was last written; `timely` holds as long as only these cut or write it. The name in hand at each line is a recursive
function over the lines, and the options are folded into a command, as the code
reads both one after another. `RecordProofs` holds the theorems.

### The small programs

    SmallPrograms
      MCBitExchange (BitExchange)   MatrixMultiply    SharedFile    Factorial
      PingPong    ForkChain    DelayedCommands    Increment    AllAssets
      MCFindFile (FindFile)
    SmallProofs                               theorems
    Induction                                 what their inductions rest on

These ten share no state. `SmallPrograms` starts one of them and lets the others
stand, so that one run checks them all; `RunsAlone` proves of all ten that this
changes nothing.

- `BitExchange`: a character is a function from bit numbers to 0 and 1;
  `toParent` and `toChild` are the sets of pending signals (a set, because
  standard signals merge). `CharOf` and `IntOf` are the conversions of the
  length to an unsigned char and back through a signed one.
- `MatrixMultiply`: `output` counts how often each element was stored; the
  values are left out.
- `SharedFile`, `Factorial`: objects are numbered as they are created, so that an
  identifier of a removed one is told from its successor. `shmget` and `shmat`
  are one step; a memory that is removed stays with those who attached it. A
  factorial keeps its lowest byte.
- `PingPong`: a signal that is blocked stays pending though it is ignored (as
  Linux has it), but setting it to be ignored discards it.
- `ForkChain` is both `my_prog` and `my_prog1`; reading the file is left out, and
  so is the unmodelled negative depth. `DelayedCommands`: a line runs, cannot be
  run, or is empty.
- `AllAssets`: a Ctrl-C goes to the parent and to all children, of which a child ends
  when it comes to it; before `sigset` it kills the parent too. A `fork` may fail.
- `FindFile`: the recursive walk as a stack of calls. A `stat` that fails leaves
  its buffer as it was; paths are shorter than the buffer. Any directory, the first one
  too, may be refused to `opendir`, which kills the process in `readdir` (`"refused"`), as
  does a file that is opened as a directory (`"killed"`).

`MC...` modules only add the sets TLC needs. An operator whose comment begins
"Mutant:" is a plausible error in the definition after it; no specification
uses it. It is there to show that a property can fail.

## 3. Runs

No run checks for deadlock: all these programs end, or stop for good when a
client or user no longer comes. That they do not stop too early is said by the
liveness properties.

| Run | Bounds | Result |
|---|---|---|
| `KitchenSemSem` | sem, sem; table of 2; up to 3 dishes; 2 starts | `DishOrder`, `DriedClean`, `TableNotOverrun`, `NoUseOfRemoved`, `CleanExit`, `ImplementsPipeline` hold |
| `KitchenQueueQueue` | queue, queue; table of 1; up to 4 dishes; queues of 2 | `Termination` holds |
| `KitchenWasherHangs` | sem, sem; table of 1; up to 2 dishes | `Termination` is **violated** |
| `KitchenKilled` | queue, sem; table of 1; 2 starts, kills | `TableNotOverrun` is **violated** |
| `ServerRestarts` | 2 threads, 2 clients, one with pid 255; 2 starts | `DropBound`, `OwnProduct`, `QueueKept`, `Answered` hold |
| `ServerWrongProduct` | 2 threads, 2 clients; 1 start | `PrintsProduct` is **violated** |
| `Recorder` | 3 days of 3 hours; 2 times, 1 price; 2 messages, 1 interrupt | `FileOfTheDay`, `NoRepeatedTime`, `QueryOnceConnected`, `FileSound`, `Interruptible`, `QuerySent` hold |
| `RecordFile` | 4 sessions, names `rec`, `rec1` and `log`, ten lists of options | `RecordsKept`, `NeverStale` hold |
| `NameTaken` | 2 sessions, names and options as before | `NameRefused` is **violated** |
| `TCPChat` | 2 rooms, 3 lines in the first and none in the second; 2 kills, 2 starts | `RoomsPaid`, `InOrder`, `NoStray`, `NextRoom` hold |
| `UDPChat` | 4 clients, array of 3, a name and a line each, one of the lines too long for a name; 2 starts | `OverrunByCrowd`, `OwnName`, `ImplementsRoom` hold |
| `SmallPrograms` | 3 bits, all strings of up to 3 characters and one of each length from 4 to 7; 3x3 matrix and 4 threads; 2 writers and 2 readers; 2 clients and 2 servers, inputs 3 and 6; chains of up to 4; files of up to 3 lines; 3 rounds; 3 recorders; three directories, depth 2 | all fourteen properties hold |

The type invariants are proved and not among the properties of the runs, except
`AllTyped`, that of the small programs, which is both.

Why the bounds are enough:

- *Kitchen.* Three dishes and the end mark go round a table of two places
  twice, so that slots are reused, old contents are met, and the end mark comes
  on a used slot. With one place the washer and dryer alternate. The second start
  meets whatever the first left. For the safety properties the proofs remove
  every bound.
- *Server.* Two threads are what the code has. Two clients' requests and a stolen
  reply are three messages, one more than there are slots, which is what the
  semaphore's extra token lets through; the queue has room for all.
- *Recorder.* Three hours distinguish an hour before, at and after
  `prev_sec_hour`; three days allow a day without messages and two midnights; two
  messages can both roll over, and the second repeats, advances or goes back. Of two
  messages the second can repeat a price or bring another one, but not both, so that one
  price is enough. A second interrupt and a third message lie
  beyond the run, not beyond the proofs of its invariants and of `FileSound`.
- *RecordFile.* Two sessions that write, one that writes over, and one that loads;
  one name is another one cut, the third is neither's beginning, and texts have two
  lengths. What needs more sessions, and was false there at first, is told in
  section 4; the proofs remove the bound. For `NameTaken` two sessions are enough.
- *TCPChat.* Three lines are a name, a line, and an end or one more line; two
  rooms have one passing on of the semaphore. A second start and two kills can
  each hit either room. `RoomsPaid`, `InOrder` and `NoStray` are proved for all bounds.
- *UDPChat.* The four clients are of two hosts and two ports, and they are one more than
  the array has places. With three places a message goes to two others, between whom the
  server can fail or be stopped. A line can be relayed, overtake its sender's name, or
  come after a restart. The proofs remove every bound.
- *Small programs.* With three bits a char is 4 for -4 as with eight 128 is -128, so the
  lengths on both sides of the boundary are in the run. 9 elements and 4 threads leave a
  remainder, and with two writers and two readers every removal can meet an
  attached user and a newcomer. 3! fits into a char and 6! does not. Three lines
  are a first, a middle and a last one. Of three nested directories a search
  that starts in the first meets names that are also in the working directory
  and names that are not.

### Fairness

Each process, thread and started handler is scheduled (`WF` on its next
action), as the operating system's scheduler does. Weak fairness suffices in
the kitchen because on each semaphore and queue at most one process waits, so an
enabled wait stays enabled; the server's main thread is alone to take from its
semaphore and the only receiver of type 0. Where several wait for one token
(`TCPChat`, `SharedFile`, `Factorial`, `Increment`) nothing assumes that a
particular one gets it. Nothing external is fair: interrupts, kills, restarts,
requests, users that type or connect, datagrams, messages of the quote server
and the connection need not come, and writers, readers, clients and servers of
the small programs need not be started. Nor does a recorder have to end (`AllAssets`):
its parent forks, fails, or comes to its `wait` (`ForkAll`), and returns from it once
there is a child that ended. In `RecorderLifecycle` the main thread is
fair as a whole, so its service call may find nothing for ever. `UDPChat` and
`RecordFile` have safety properties only, and no fairness.

### What the violations show

- `KitchenWasherHangs`: with the program's own example `sem sem 1` the washer
  reads the slot of the end mark before it is written, enters the loop, washes
  the mark as a dish, and waits for a further one. All dishes are dried all the
  same (`ImplementsPipeline`, and `DishOrder` allows for the mark once). The dryer
  has the same flaw for tables of two places or more. With queues there is none.
- `KitchenKilled`: `sem_ini` adds the places to those a killed run left, and the
  washer overruns the table.
- `ServerWrongProduct`: the server takes one of its own replies for a request.
  The third and fourth field are those of the request before, so that client is
  sent a second reply with a product that is not of its numbers. `OwnProduct`
  shows that this is the only way to a wrong product.
- `NameTaken`: the result of the search goes to a variable that hides the one tested
  (`ConnectionData.cpp:34`, `44`), so that the message "Current name has already been used!
  Cannot make a record." (52) never comes, and the record is written over what follows
  the head of the first one. No other session is needed in between (`timely`).

### What passing properties say that is not obvious

Many of these programs have flaws that no document of the repository denies. The
properties then say how far the flaw reaches, and under which condition there is
none.

- `NoUseOfRemoved`: the dryer may see END before it is posted and remove its
  objects; the washer's last post then fails, unnoticed and without harm. It is
  the only call that can meet a removed object.
- `DropBound`: the one token too many lets exactly one message per start be
  forgotten, since its token never comes back. Over `starts` starts on one
  semaphore at most `(THREADS_AMNT + 1) * starts - THREADS_AMNT` messages go.
- `QueueKept`: a thread whose `msgsnd` fails removes the queue under everybody.
  That happens only after a restart, when the first message of the new server is
  a reply of the old one and the buffer still has process id 0.
- `FileOfTheDay`: `update_time` compares hours, so it is right only while
  messages come less than a day apart, with the first on the day of the start.
- `FileSound`: with a file and without an interrupt the callback misuses nothing,
  though it closes the file in two places and never asks whether it is open. The
  first interrupt closes a closed file only if the connection had failed, or exactly
  between the `fclose` and the `fopen` of a new day. Without a file, as without `--all` or
  when `fopen` fails, the first use kills the process, and nothing is claimed.
- `QueryOnceConnected`, `QuerySent`: no session without a query sends one, none is sent
  before there is a connection or after one that failed, and with a connection it is
  sent, unless that is gone before the thread that polls the flag looks.
- `EachRecorded`: every asset gets its own recorder unless a fork fails or a Ctrl-C
  comes before it is ignored, and the parent does not wait for ever when all recorders
  have ended before it waits. That it waits for all is not so, and not claimed: the `;`
  after the `for` (`working.c:99`) makes it wait once, so that "WAITING DONE!" comes as
  soon as any one recorder has ended (`WaitOnce`).
- `RecordsKept`: records under different names are kept, also if sessions overlap, as long
  as none writes between another's look at the file and its cutting or writing it
  (`timely`). `NeverStale`: a name that is used twice is written over where the search
  stopped, and what follows in the file is damaged. But who loads that name gets a
  whole record of that name or nothing, and of two records never the older. That much
  is claimed only while no recorded name begins like the name loaded or like another one.
  Where sessions do come between each other, at `access` and `fopen` (38) or between search
  and `fclose`, records are lost, and neither property says anything.
- `RoomsPaid`: the semaphore is raised by KILL_THIS alone, so a room that ends in
  any other way is the last one until a restart, and no mishap opens rooms too early.
- `NoStray`: the process that goes on in the server's place (`TCP_server.c:111`)
  needs a client that is killed. A client that leaves with exit is no such one,
  since its process is gone before it can notice.
- `InOrder`: if a stray child 0 forks, two processes read from one user and each
  takes some of his messages; none of these is relayed twice or under a wrong
  name, as the peer is gone.
- `NextRoom`: KILL_THIS opens the next room unless somebody was killed or left
  with exit before: telling him then kills the process before it raises the
  semaphore (119).
- `OverrunByCrowd`: memory is written over only by more users than there are places, or by
  a line that is taken for a name; no loss, overtaking or doubling of addresses takes a
  second place in the array. `OwnName`: a line becomes a name only if something happened
  to its sender's datagrams, or he had spoken to an earlier server. `ImplementsRoom`: also with failures and stops between
  two users all hear the same in the same order, apart from the last message before
  a new start, which only those in front have heard.
- `WholeText`: a reader can only run off the memory if some process got a
  semaphore and a memory of different ages (`Matched`), that is came between the
  two removals. `ReaderReleased`, in `NobodyLeft`: under the same condition nobody
  waits for ever, because the reader that takes the token removes the semaphore.
- `OwnAnswer`: a client that is alone prints its own number, taken back from the
  queue, or the factorial's lowest byte; `ClientsEnd`, in `NobodyLeft`: the removal
  of the queue wakes everybody that still waits.
- `InTurn`, `GoOnInTurn`: the discarded signal can only be the first, and if it is
  not lost the two go on for ever.
- `DeepestFirst`: lines are executed in the order of the file, each when the one
  before has ended; of a file of one line the child takes the one before the
  array, because the first fork comes before any test.
- `FileOver`: the last line is executed only if it has a newline, and a command
  that cannot be is tried for ever.
- `FoundAll`: a search of the working directory to a depth of at most 1 takes no file for
  a directory, so that only a directory that is refused to `opendir` kills it; and if
  it comes to its end it has found all files of the name. Deeper searches, and those of
  another directory, may miss files or be killed: nothing is claimed of them.
- `StringDelivered`: strings of up to 127 characters arrive. From 128 on, which the prompt
  allows (`bit_data_exchg.c:35`), the length is negative to the parent (52), which stops
  listening, and the child waits for ever: at three bits, from 4 on.

## 4. Proofs

All theorems are for every value of the constants under the named assumptions of
the modules, which say what the programs' constants are: positive sizes, an
array longer than the dishes and the mark, ids that are not message types. Three
were added for the proofs. `FileAssumption`, and a part of `FactAssumption`: finitely
many processes are ever started, of which each is a client or a server, since it runs
one of two programs. The rest of `FactAssumption`: the number that is typed is less
than 10, as the prompt asks (`facktorial2.c:43`), and fits into the char a client
prints. `TreeAssumption` says what a file system is: an entry is no directory or one of
those there are, no name is twice in a directory, "." is the directory itself and,
as there are no links, nothing else is the working directory; and the name looked
for is not ".".

**KitchenProofs**, under the hypothesis `~KillAllowed` (`KitchenKilled` shows
that it is needed), for all four pairs of links: `TypeCorrect`, `DishesInOrder`,
`OnlyCleanDried`, `TableNeverOverrun`, `RemovedUnused`, `ExitsClean`,
`KitchenIsPipeline`. None of the properties is inductive: that the table is not
overrun rests on the semaphore's value, which depends on how many dishes were
dried, which depends on what the dryer saw in a slot when it looked too early.
`IInv` ties these together:
- `GenTokens`, `PlaceTokens` and the equation in `SemDry` count the tokens of
  each semaphore: in it, taken and not used, or used;
- `ArrayHolds` and `TableHolds` say what each shared slot holds, `QueueGen` and
  `QueueDry` the same for messages;
- `Washing` and `Drying` relate the histories to the counters, and say that a
  consumer closes only on the end mark;
- `Control`, `Removal` and `Making` relate the program counters, the removed
  objects and the generator's counts.

The invariant is split at the washer: `Front` is what generator and washer can
change, `Back` what washer and dryer can, and two frame lemmas carry the one over
the steps of the other. There is a lemma per action. `LeavesClean` shows that a
run that ends leaves the objects as they were at first, from which a rerun
starts as `Init` does (`FreshInv`). `KitchenIsPipeline` proves
`Pipeline!Steps`, the safety part of `ImplementsPipeline`: with one more
invariant, `AllDried` (the dryer ends only when it has dried every dish, so that a
rerun is a `NextDay`), each step maps to one of the pipeline or to none. The
pipeline's fairness is checked by TLC.

**ServerProofs**: `TypeCorrect`, `DropsBounded`, `ProductsOwn`,
`FirstServerKeepsQueue`, with four invariants one on top of the other. `Tokens`
says that every token the semaphore was ever given is in it, on its way back,
with a used slot, in the main thread's hand, or lost to a dropped message.
`OInv` follows a request's operands through the queue, the buffer, a slot's
argument and the reply. `KInv` holds for a first server: as long as no thread
was ever started the queue has requests only, and from the first request on the
buffer has a client's id.

**RecorderProofs**: `TypeCorrect`, `LinesInTheirDays`, `TimesGoOn`,
`OnlyInterruptsSpoil`, `QueryOverConnection`. `LineInv`: once a price came the last line has it, at the
newest time, so that the next line follows it. `DayInv`: `prev_sec_hour` is not
behind the last message, and while messages come often enough the file, or
between closing and opening the name, is that of the last message's day.
`FileInv`: without an interrupt an existing file is closed only between the two steps of
a new day and after a failed connection. `SenderInv`: the thread is past its poll, and
the query sent, only if there is or was a connection.

**TCPProofs**: `TypeCorrect`, `EveryRoomPaid`, `MessagesInOrder`, `NobodyStrays`.
`PayInv` keeps an account: rooms and tokens on one side, starts and the users whose
KILL_THIS was read (`Payers`) on the other; the point is that each process reads such
a message once and each user types one (`Typists`). `OrderInv` counts for each user
what he was sent of the other: as long as his client is not gone (`Line`), it is as
many messages as the other's process has taken, the first of them the name; a second
reader of the same connection comes only when the client it would relay to is gone.
`StrayInv` says that before the first kill and restart no room has a third process
and that the process of a client that is gone is gone too.

**UDPProofs**: `TypeCorrect`, `OverrunNeedsCrowd`, `NamesKept`, `ServerIsRoom`,
the last for the whole of `ImplementsRoom`, which states no fairness. `Places`
says that those who sent to a running server are those with a place, `Underway`
that the name of an undisturbed client the server has not heard of is still on
its way, `Sending` that there is a message in hand, and a user it goes to next, exactly
while one is being sent: on that rests that each `sendto` tells one member and each
new message finds everybody told.

**RecordProofs**: `TypeCorrect`, `NothingLost`, `NothingStale`. `Sessional` says what a
session's place in the program tells of its name, its result and the file, `Timed` that who
has looked at the file since it was last written writes where its search would stop now. On these rest two
descriptions of the file. `Kept`, under different names: every line is a whole record
and every record one line. `Sound`, where names are used again but none begins like
another: behind each head lies a head of the same name or a whole record of it, the
newer one if there are two at most, and a name used once has one head. A write keeps
`Sound` because the search stops behind the first head of its name, or at the end, so
that what is written over begins with that name's data. The attempt to prove `NeverStale`
as it was first stated failed for a good reason: it was false beyond the run's bound. A
second record of a name is written behind the head of the first; the two heads touch and
are read as one long name, so that a third record of the name goes to the end. If then
the name before it in the file is recorded again, its text writes over the first of the
two heads, and the second record, which is not the newest, is found. And a line that was
left without a head goes by the name of the line before, cut by a character, and can be
taken for a record of that name. The property now says which names and how many records
it speaks of.

**Induction** holds what the library states with an operator as a parameter, stated
with sets and functions instead, so that it can be used here: the least and greatest
number of a set, induction over numbers (`SetInduction`) and along a rank
(`RankInduction`), and that a recursive definition along a rank has a solution
(`Recursion`). All rest on the library's `WFMin`. With them the proofs go into what
recursive functions and folds compute: the name in hand at a line and the parsed
options (`RecordProofs`), the factorial, the product and the sum of a set
(`SmallProofs`).

**SmallProofs**. `RunsAlone`: in the composition each of the ten programs takes the steps it
takes alone. `EverythingTyped` is `AllTyped` of all of them. Then, by program:
- *Bits*: `PrefixReceived` and `SignalsApart`, for any width and text. The invariant names
  the five phases of a bit's exchange (`Ready`, `Asked`, `Taken`, `Answering`,
  `Finished`); in each it is known which signals are pending. It holds whether or not the
  length is read rightly; of the length it is proved that it is an integer
  (`IntOfInteger`), not which.
- *Matrix*: `MatrixTypeCorrect`, `NoneStoredTwice` and `ProductComplete`, for any size and
  number of threads: thread t serves the stretch from `Start(t)` to `Limit(t)`, and the
  stretches lie one behind the other (`Stretches`) and cover the matrix. An element is
  stored once if its thread has passed it, and else not yet.
- *Ping-pong*, *counter*, *shared text*, *chain*: `PrintsInTurn`, `NoRoundLost`,
  `TextIsWhole`, `EndsInOrder`. There is one signal or turn in all (`PingTokens`); the
  holder of the mutex has read the counter as it is; a semaphore with a token, or one that
  is removed, has a memory with a text (`FileTexts`); of a chain the deepest `Acted`
  levels have acted and the level above is the only one that may. For the types of the
  shared text `FileCounts` sets the semaphores, memories and tokens against the processes
  that have come so far.
- *Factorial*: `AnswersOwn`. While no two clients met and no answer was taken for a request,
  the one client that waits has its own number, or the factorial of it, on its way and
  nothing else is in the queue or in a server's hand (`Undisturbed`). `FactIsProduct`
  shows that the server's loop computes the product of the numbers up to the input, and
  `LowBytes` what is left of it in a char.
- *File search*: `AllFound`. Near by, `stat` tells the truth, so that the search is in the
  working directory (`InCwd`), in a directory below that is the entry read last
  (`InBelow`), or over, and has found what lies behind it and nothing else; what is opened is a directory, which
may be refused.

A caution for who changes a proof. tlapm 1.4.5 gives Z3 the equivalence of `Len(s) = n`
and `DOMAIN s = 1..n` for every value `s`, which is false of a function whose domain is
not of that form: in a leaf that speaks of a `Len` and of such a domain (as `lpc`'s,
`0..MaxNodes`) anything follows. Every proof here has also been checked with that
axiom confined to sequences, and passes; leaves that need it cite that their value is in
`Seq(...)`.

Every invariant that a passing run checks is a theorem, and so are `NeverStale` and
`ImplementsRoom`. Only model-checked: all liveness (`Termination`, `Answered`,
`Interruptible`, `QuerySent`, `NextRoom`, `StringDelivered`, `NobodyLeft`, `GoOnInTurn`,
`FileOver`, `EachRecorded`) and the pipeline's fairness, which are out of the provers'
reach.

## 5. What is left

What remains out of reach or was left aside, apart from the programs listed as
not modelled:

- a queue so full that server threads block in `msgsnd` while the server waits
  for them (`server.c:133`), for which more clients are needed than a run with
  restarts affords;
- messages of the quote server that are not complete (`working.c:259`);
- failures of `socket`, `bind`, `pthread_create` and `malloc`, which the programs answer
  with `exit` or not at all, and of `fork` except in `AllAssets`;
- `shmget` and `shmat` of the shared text between each other and failing for other
  reasons than that the memory is there (`SharedFile`, 54-66);
- a client of the multiplying server that comes to a queue that was removed under it: its
  `msgget` or `msgsnd` fails, and it ends (`client.c:43`, `61-66`);
- a callback that hears of an error while `lws_client_connect_via_info` is still at work;
- that main says "WAITING DONE!" when one recorder has ended, as a run of its own: it is
  told in section 3;
- the safety that the liveness properties rest on, as theorems (that a command which is
  executed is that of its line, that each recorder has its own asset).
