---------------------------- MODULE SmallPrograms ----------------------------
(***************************************************************************)
(* The programs that share nothing with another: one of them is started    *)
(* and runs alone, the variables of all others stay what they were.        *)
(***************************************************************************)
EXTENDS MCBitExchange, MatrixMultiply, SharedFile, Factorial, PingPong, ForkChain,
        DelayedCommands, Increment, AllAssets, MCFindFile

VARIABLE program \* the one that runs

Programs == {"bit_data_exchg", "hw5_4", "Shared Memory", "Queue_CS_factorial", "FUPM_THE_",
             "my_prog", "hw_5b", "increment", "Project_work --all", "find_me"}

allVars == <<vars, matrixVars, fileVars, factVars, pingVars, chainVars, delayVars, incVars,
             assetVars, findVars, program>>

\* A step of the program that runs.
OnBits   == /\ program = "bit_data_exchg"
            /\ UNCHANGED <<matrixVars, fileVars, factVars, pingVars, chainVars,
                           delayVars, incVars, assetVars, findVars, program>>
OnMatrix == /\ program = "hw5_4"
            /\ UNCHANGED <<vars, fileVars, factVars, pingVars, chainVars,
                           delayVars, incVars, assetVars, findVars, program>>
OnFile   == /\ program = "Shared Memory"
            /\ UNCHANGED <<vars, matrixVars, factVars, pingVars, chainVars,
                           delayVars, incVars, assetVars, findVars, program>>
OnFact   == /\ program = "Queue_CS_factorial"
            /\ UNCHANGED <<vars, matrixVars, fileVars, pingVars, chainVars,
                           delayVars, incVars, assetVars, findVars, program>>
OnPing   == /\ program = "FUPM_THE_"
            /\ UNCHANGED <<vars, matrixVars, fileVars, factVars, chainVars,
                           delayVars, incVars, assetVars, findVars, program>>
OnChain  == /\ program = "my_prog"
            /\ UNCHANGED <<vars, matrixVars, fileVars, factVars, pingVars,
                           delayVars, incVars, assetVars, findVars, program>>
OnDelay  == /\ program = "hw_5b"
            /\ UNCHANGED <<vars, matrixVars, fileVars, factVars, pingVars,
                           chainVars, incVars, assetVars, findVars, program>>
OnInc    == /\ program = "increment"
            /\ UNCHANGED <<vars, matrixVars, fileVars, factVars, pingVars,
                           chainVars, delayVars, assetVars, findVars, program>>
OnAssets == /\ program = "Project_work --all"
            /\ UNCHANGED <<vars, matrixVars, fileVars, factVars, pingVars,
                           chainVars, delayVars, incVars, findVars, program>>
OnFind   == /\ program = "find_me"
            /\ UNCHANGED <<vars, matrixVars, fileVars, factVars, pingVars,
                           chainVars, delayVars, incVars, assetVars, program>>

\* Some search, where none is made.
FindIdle ==
  /\ listing = (CHOOSE t \in Trees : TRUE) /\ name_to_open = 1 /\ depth_of_search = 0
  /\ calls = <<Call(1, 0)>> /\ found = {} /\ fpc = "open"

\* What the program that does not run would start from is of no account.
ProgramsInit ==
  /\ program \in Programs
  /\ Init       /\ (program = "bit_data_exchg" \/ str_to_send = <<>>)
  /\ MatrixInit /\ FileInit /\ FactInit /\ PingInit /\ IncInit /\ AssetInit
  /\ ChainInit  /\ (program = "my_prog" \/ (nodes = 1 /\ commands))
  /\ DelayInit  /\ (program = "hw_5b" \/ (text = <<"runs">> /\ terminated))
  /\ IF program = "find_me" THEN FindInit ELSE FindIdle

ProgramsNext ==
  \/ OnBits /\ Child
  \/ OnBits /\ Parent
  \/ OnMatrix /\ Main
  \/ \E t \in Threads : OnMatrix /\ (Serve(t) \/ End(t))
  \/ \E w \in Writers : OnFile /\ Writer(w)
  \/ \E r \in Readers : OnFile /\ Reader(r)
  \/ \E c \in Clients : OnFact /\ Client(c)
  \/ \E s \in Servers : OnFact /\ Server(s)
  \/ OnPing /\ PingChild
  \/ OnPing /\ PingParent
  \/ \E l \in Levels : OnChain /\ Level(l)
  \/ OnDelay /\ ReadFork
  \/ \E n \in 1..MaxText+1 : OnDelay /\ (Test(n) \/ Exec(n))
  \/ OnInc /\ JoinAdder
  \/ \E t \in Adders : OnInc /\ Adder(t)
  \/ OnAssets /\ (ForkAll \/ WaitOnce)
  \/ OnAssets /\ Interrupted
  \/ \E p \in Procs : OnAssets /\ ChildEnds(p)
  \/ OnFind /\ FindNext

\* Every process and thread that is there is scheduled.  The writers and readers, clients
\* and servers need not be started, nor anybody interrupted.
ProgramsFairness ==
  /\ WF_allVars(OnBits /\ Child) /\ WF_allVars(OnBits /\ Parent)
  /\ WF_allVars(OnMatrix /\ Main)
  /\ \A t \in Threads : WF_allVars(OnMatrix /\ (Serve(t) \/ End(t)))
  /\ \A w \in Writers : WF_allVars(OnFile /\ shpc[w] # "semget" /\ Writer(w))
  /\ \A r \in Readers : WF_allVars(OnFile /\ shpc[r] # "semget" /\ Reader(r))
  /\ \A c \in Clients : WF_allVars(OnFact /\ qpc[c] # "msgget" /\ Client(c))
  /\ \A s \in Servers : WF_allVars(OnFact /\ qpc[s] # "msgget" /\ Server(s))
  /\ WF_allVars(OnPing /\ PingChild) /\ WF_allVars(OnPing /\ PingParent)
  /\ \A l \in Levels : WF_allVars(OnChain /\ Level(l))
  /\ WF_allVars(OnDelay /\ ReadFork)
  /\ \A n \in 1..MaxText+1 : WF_allVars(OnDelay /\ (Test(n) \/ Exec(n)))
  /\ WF_allVars(OnInc /\ JoinAdder)
  /\ \A t \in Adders : WF_allVars(OnInc /\ Adder(t))
  /\ WF_allVars(OnAssets /\ (ForkAll \/ WaitOnce))

ProgramsSpec == ProgramsInit /\ [][ProgramsNext]_allVars /\ ProgramsFairness
-----------------------------------------------------------------------------
\* Every variable of every program has its type.
AllTyped ==
  /\ program \in Programs
  /\ TypeOK /\ MatrixTypeOK /\ FileTypeOK /\ FactTypeOK /\ PingTypeOK /\ ChainTypeOK
  /\ DelayTypeOK /\ IncTypeOK /\ AssetTypeOK /\ FindTypeOK

\* Every string whose length a char can hold arrives and both processes end, although each
\* of its bits is a signal that could merge with another (bit_data_exchg.c:38-60, 64-98).
\* The prompt allows up to 255 characters (35); 128 or more are a negative length to the
\* parent (52), which then stores nothing and leaves the child waiting.
StringDelivered == program = "bit_data_exchg" /\ Len(str_to_send) < 2^(Width-1) => Delivered

\* Nobody is left waiting when the others have done their part: main that joins the threads
\* and prints the product (hw5_4.c:107-119), a reader of the shared memory, a client of the
\* queue (Shared Memory/shared_two.c:68, Queue_CS_factorial/facktorial2.c:55).
NobodyLeft == /\ program = "hw5_4" => Printed
              /\ ReaderReleased /\ ClientsEnd

\* The two go on in turn unless the first signal is lost (FUPM_THE_.c:27-43).
GoOnInTurn == program = "FUPM_THE_" => Alternate

\* With --all each asset gets its own recorder, and main does not wait for ever when they
\* have ended (working.c:80-103).
EachRecorded == program = "Project_work --all" => AllRecorded

\* Which commands of a file are executed in the end (hw_5b.c:34-57).
FileOver == program = "hw_5b" => CommandsRun
=============================================================================
