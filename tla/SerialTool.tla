----------------------------- MODULE SerialTool -----------------------------
(***************************************************************************)
(* The serial ports of the debugging tool: MainActivity, PortUtils,        *)
(* SerialReadThread and SerialPort, LoRaActivity with its AsyncTask, and   *)
(* the log all of them post to (LogManager, BaseActivity, LogFragment).    *)
(*                                                                         *)
(* Threads: the user interface's, whose queue `looper' also delivers the   *)
(* messages; for each open port one that reads; for each port of           *)
(* MainActivity one that writes; the tasks of LoRaActivity.                *)
(*                                                                         *)
(* External: Android's streams do not own the descriptor they were made    *)
(* of: their close() only makes later calls fail, and a call that has      *)
(* passed the test for it goes on to use the number; the descriptor is     *)
(* closed by SerialPort.close alone, which leaves its number in mFd.       *)
(* open() takes the lowest free number.  The queue of the user interface   *)
(* is in the order of entry.  EventBus.post copies the list of those       *)
(* registered, then makes an entry for each in the bus's own queue, whose  *)
(* handler is an entry in the queue of the user interface.  AsyncTasks run *)
(* one at a time.                                                          *)
(***************************************************************************)
EXTENDS Integers, Sequences, FiniteSets, FiniteSetsExt

CONSTANTS
    MainPorts,      \* the ports of MainActivity
    Devices,        \* opening -> the devices one may choose at it, up to renaming
    MaxShows,       \* bound: registrations with the bus
    MaxSessions,    \* bound: openings of a port
    MaxCommands,    \* bound: presses of "send"
    MaxAnswers,     \* bound: times a device has something to read
    MaxTasks,       \* bound: AsyncTasks
    MaxLoRaPosts    \* bound: messages of LoRaActivity

ASSUME ToolAssumption ==
    /\ MainPorts \subseteq {"rs", "rs485"}
    /\ {MaxShows, MaxSessions, MaxCommands, MaxAnswers, MaxTasks, MaxLoRaPosts} \subseteq Nat

VARIABLES
    session,    \* session -> a SerialPort with the threads made for it
    opened,     \* sessions so far
    fds,        \* number of a descriptor -> the session it is open for, or 0
    held,       \* button -> session in its fields; 0: none was made
    isOpen,     \* button -> what it will do next: close
    closing,    \* what closeSerialPort has still to do, and for which session
    wire,       \* session -> the commands written to its descriptor, with their senders
    sent,       \* commands so far
    ready,      \* devices that have something to read
    answers,    \* things to read so far
    shows,      \* registrations so far; each onStart makes one, with the next number
    top,        \* the activity in front, or "none": the start page
    front,      \* its registration, or 0
    below,      \* that of MainActivity while the command list covers it, or 0
    leaving,    \* registrations of activities that Android will stop some time
    registered, \* registrations that the bus has
    looper,     \* queue of the user interface: 0 is the bus, others a stop
    mail,       \* queue of the bus
    log,        \* LogManager.messages
    missed,     \* a message was lost that should not have been, see Mail
    tasks,      \* AsyncTasks of LoRaActivity
    started,    \* loraSendStarted
    text,       \* of the button of LoRaActivity: "send" or "sending"
    posts,      \* messages of LoRaActivity so far
    crashed

portVars == <<session, opened, fds, held, isOpen, closing>>
trafficVars == <<wire, sent, ready, answers>>
showVars == <<shows, top, front, below, leaving, registered>>
mailVars == <<looper, mail>>
busVars  == <<showVars, mailVars, log, missed>>
loraVars == <<tasks, started, text, posts>>
vars == <<portVars, trafficVars, busVars, loraVars, crashed>>

Buttons  == MainPorts \cup {"lora"}
Sessions == 1..MaxSessions
Registrations == 1..MaxShows
ActivityOf(b) == IF b = "lora" THEN "lora" ELSE "main"
NotClosing == [step |-> "none", s |-> 0]

-----------------------------------------------------------------------------
(* The bus                                                                 *)

\* An entry for one of those registered.  `due': it was made while that activity was
\* in front, and the bus has not broken off its work since.
Mail(s, cmd, to) == [s |-> s, cmd |-> cmd, to |-> to, due |-> to = front]

\* One step of a post from another thread than the user interface's: the entry for
\* the next of those on the copied list.  The bus's handler is queued if it is not.
Enqueue(s, cmd, to) ==
    /\ to # {}
    /\ mail' = Append(mail, Mail(s, cmd, Min(to)))
    /\ looper' = IF \E i \in DOMAIN looper : looper[i] = 0 THEN looper ELSE Append(looper, 0)
Rest(to) == to \ {Min(to)}

\* The handler of the bus: onMessageEvent adds the message to the log, if the
\* activity is still registered.  After 10 ms the bus goes to the end of the queue.
Deliver ==
    /\ looper # <<>> /\ Head(looper) = 0 /\ mail # <<>>
    /\ LET m == Head(mail) IN
       /\ log' = IF m.to \in registered THEN Append(log, [s |-> m.s, cmd |-> m.cmd]) ELSE log
       /\ missed' = (missed \/ (m.due /\ m.to \notin registered))
    /\ \/ mail' = Tail(mail) /\ UNCHANGED looper
       \/ /\ mail' = [i \in DOMAIN Tail(mail) |-> [Tail(mail)[i] EXCEPT !.due = FALSE]]
          /\ looper' = Append(Tail(looper), 0)
    /\ UNCHANGED <<portVars, trafficVars, loraVars, showVars, crashed>>

BusRests ==
    /\ looper # <<>> /\ Head(looper) = 0 /\ mail = <<>>
    /\ looper' = Tail(looper)
    /\ UNCHANGED <<portVars, trafficVars, loraVars, showVars, mail, log, missed, crashed>>

\* An activity comes to the front, and its onStart registers it.
Show(a) ==
    /\ shows < MaxShows /\ shows' = shows + 1
    /\ registered' = registered \cup {shows'} /\ top' = a /\ front' = shows'

\* (Mutant of LoadList: the covered activity unregisters at once, as in onPause.)
LoadListPaused ==
    /\ top = "main"
    /\ shows < MaxShows /\ shows' = shows + 1
    /\ registered' = {shows'} /\ top' = "list" /\ front' = shows'
    /\ below' = front /\ leaving' = leaving \cup {front}
    /\ UNCHANGED <<portVars, trafficVars, loraVars, mailVars, log, missed, crashed>>

\* MainActivity opens the command list ...
LoadList ==
    /\ top = "main" /\ Show("list")
    /\ below' = front /\ leaving' = leaving \cup {front}
    /\ UNCHANGED <<portVars, trafficVars, loraVars, mailVars, log, missed, crashed>>

\* ... and comes back: it is started again if it has been stopped, and is not stopped
\* if that has not been asked for.
BackToMain ==
    /\ top = "list" /\ below' = 0
    /\ \/ /\ below \in leaving
          /\ leaving' = (leaving \ {below}) \cup {front}
          /\ top' = "main" /\ front' = below /\ UNCHANGED <<shows, registered>>
       \/ /\ below \notin registered
          /\ Show("main") /\ leaving' = leaving \cup {front}
    /\ UNCHANGED <<portVars, trafficVars, loraVars, mailVars, log, missed, crashed>>

\* A command of the list goes through SerialPortManager, which nobody ever opens:
\* its scheduler is null.
SendFromList == /\ top = "list" /\ crashed' = TRUE
                /\ UNCHANGED <<portVars, trafficVars, busVars, loraVars>>

\* From the start page, whether or not what was left before has stopped.
Start(a) ==
    /\ top = "none" /\ Show(a)
    /\ UNCHANGED <<portVars, trafficVars, loraVars, below, leaving, mailVars, log, missed, crashed>>

\* Back to the start page.  The activity is destroyed with its fields; what its
\* threads and tasks use stays as it is.
Leave ==
    /\ top \in {"main", "lora"}
    /\ top' = "none" /\ front' = 0 /\ leaving' = leaving \cup {front}
    /\ held' = [b \in Buttons |-> IF ActivityOf(b) = top THEN 0 ELSE held[b]]
    /\ isOpen' = [b \in Buttons |-> IF ActivityOf(b) = top THEN FALSE ELSE isOpen[b]]
    /\ IF top = "lora"
       THEN /\ tasks' = [k \in DOMAIN tasks |->
                           IF tasks[k].own THEN [tasks[k] EXCEPT !.own = FALSE, !.port = held["lora"]]
                                           ELSE tasks[k]]
            /\ started' = FALSE /\ text' = "send" /\ UNCHANGED posts
       ELSE UNCHANGED loraVars
    /\ UNCHANGED <<session, opened, fds, closing, trafficVars, shows, below, registered,
                   mailVars, log, missed, crashed>>

\* Android asks for the stop of an activity that is covered or finished.
AskStop ==
    /\ \E r \in leaving : leaving' = leaving \ {r} /\ looper' = Append(looper, r)
    /\ UNCHANGED <<portVars, trafficVars, loraVars, shows, top, front, below, registered,
                   mail, log, missed, crashed>>

\* onStop unregisters.
OnStop ==
    /\ looper # <<>> /\ Head(looper) # 0
    /\ registered' = registered \ {Head(looper)}
    /\ looper' = Tail(looper)
    /\ UNCHANGED <<portVars, trafficVars, loraVars, shows, top, front, below, leaving,
                   mail, log, missed, crashed>>

\* The button of LogFragment.
Clear == /\ top # "none" /\ log # <<>> /\ log' = <<>>
         /\ UNCHANGED <<portVars, trafficVars, loraVars, showVars, mailVars, missed, crashed>>

-----------------------------------------------------------------------------
(* Opening and closing                                                     *)

\* A SerialPort with the reading thread and, for PortUtils, the writing thread.
\* `on': the session whose descriptor the reading thread waits for; `readTo',
\* `sentTo': those a message is still to be queued for; `caught': the command that
\* was in write() when the stream was closed.
NewSession(b, n, d) ==
    [fd |-> n, dev |-> d, in |-> TRUE, out |-> TRUE, intr |-> FALSE, quit |-> FALSE,
     reader |-> "test", on |-> 0, readTo |-> {},
     writer |-> IF b = "lora" THEN "none" ELSE "idle", sentTo |-> {},
     queue |-> <<>>, cmd |-> 0, caught |-> 0]
\* A PortUtils whose port is null: start() has failed.
NoSession == [NewSession("lora", 0, "none") EXCEPT !.in = FALSE, !.out = FALSE, !.reader = "none"]

\* openSerialPort and PortUtils.start; the first half of loraOpenSerial.
Open(b) ==
    LET s == opened + 1
        n == Min({k \in Sessions : fds[k] = 0})
    IN /\ top = ActivityOf(b) /\ ~isOpen[b] /\ s <= MaxSessions
       /\ opened' = s /\ isOpen' = [isOpen EXCEPT ![b] = TRUE]
       /\ held' = [held EXCEPT ![b] = s]
       /\ \E d \in Devices[s] : session' = [session EXCEPT ![s] = NewSession(b, n, d)]
       /\ fds' = [fds EXCEPT ![n] = s]
       /\ UNCHANGED <<closing, trafficVars, busVars, loraVars, crashed>>

\* The constructor throws an IOException.  MainActivity goes on with a null port,
\* LoRaActivity with the port it had; both buttons say "close".  Or it throws a
\* SecurityException, which nobody catches.
OpenFails(b) ==
    LET s == opened + 1 IN
    /\ top = ActivityOf(b) /\ ~isOpen[b] /\ s <= MaxSessions
    /\ opened' = s /\ isOpen' = [isOpen EXCEPT ![b] = TRUE]
    /\ IF b = "lora" THEN UNCHANGED <<held, session>>
       ELSE /\ held' = [held EXCEPT ![b] = s]
            /\ session' = [session EXCEPT ![s] = NoSession]
    /\ crashed' \in BOOLEAN
    /\ UNCHANGED <<fds, closing, trafficVars, busVars, loraVars>>

\* closeSerialPort; the second half of loraOpenSerial.
Close(b) ==
    /\ top = ActivityOf(b) /\ isOpen[b]
    /\ isOpen' = [isOpen EXCEPT ![b] = FALSE]
    /\ IF held[b] # 0 /\ session[held[b]].fd # 0
       THEN closing' = [step |-> "in", s |-> held[b]]
       ELSE UNCHANGED closing
    /\ crashed' = (b = "lora" /\ held[b] = 0)       \* serialPort is null
    /\ UNCHANGED <<session, opened, fds, held, trafficVars, busVars, loraVars>>

Closing(step, next) ==
    /\ closing.step = step
    /\ closing' = IF next = "none" THEN NotClosing ELSE [closing EXCEPT !.step = next]
    /\ UNCHANGED <<opened, held, isOpen, trafficVars, busVars, loraVars, crashed>>

\* (Mutant of Interrupt: the reading thread is not interrupted.)
InterruptNot == /\ Closing("intr", IF session[closing.s].writer = "none" THEN "fd" ELSE "out")
                /\ UNCHANGED <<session, fds>>

\* SerialReadThread.close: the stream first, then the thread.
CloseIn == /\ Closing("in", "intr")
           /\ session' = [session EXCEPT ![closing.s].in = FALSE] /\ UNCHANGED fds
Interrupt == /\ Closing("intr", IF session[closing.s].writer = "none" THEN "fd" ELSE "out")
             /\ session' = [session EXCEPT ![closing.s].intr = TRUE] /\ UNCHANGED fds

\* (Mutant of CloseOut: the stream is left open.)
CloseOutNot == Closing("out", "quit") /\ UNCHANGED <<session, fds>>

\* PortUtils.close
CloseOut ==
    /\ Closing("out", "quit") /\ UNCHANGED fds
    /\ session' = [session EXCEPT ![closing.s].out = FALSE,
                      ![closing.s].caught = IF session[closing.s].writer = "writing"
                                            THEN session[closing.s].cmd ELSE @]
\* HandlerThread.quit throws away what waits in the thread's queue.
Quit == /\ Closing("quit", "fd")
        /\ session' = [session EXCEPT ![closing.s].quit = TRUE, ![closing.s].queue = <<>>]
        /\ UNCHANGED fds

\* (Mutant of CloseFd: the number is forgotten before it is closed.)
CloseFdLost == /\ Closing("fd", "none")
               /\ session' = [session EXCEPT ![closing.s].fd = 0] /\ UNCHANGED fds

\* SerialPort.close closes the number, whoever has it by now.
CloseFd == /\ Closing("fd", "none")
           /\ fds' = [fds EXCEPT ![session[closing.s].fd] = 0] /\ UNCHANGED session

-----------------------------------------------------------------------------
(* Sending and receiving                                                   *)

\* sendData and PortUtils.sendCommand.  Without a PortUtils, or one whose start()
\* has failed, the exception ends the process.
Send(b) ==
    /\ b # "lora" /\ top = "main" /\ sent < MaxCommands
    /\ sent' = sent + 1
    /\ LET s == held[b] IN
       IF s = 0 \/ session[IF s = 0 THEN 1 ELSE s].writer = "none"
       THEN crashed' = TRUE /\ UNCHANGED session
       ELSE /\ session' = IF session[s].quit THEN session
                          ELSE [session EXCEPT ![s].queue = Append(@, sent')]
            /\ UNCHANGED crashed
    /\ UNCHANGED <<opened, fds, held, isOpen, closing, wire, ready, answers, busVars, loraVars>>

\* What a step of the reading or the writing thread leaves alone.
ThreadsOnly == UNCHANGED <<opened, fds, held, isOpen, closing, sent, answers, showVars,
                           log, missed, loraVars, crashed>>

\* The session that has the number by now.
Owner(s) == fds[session[s].fd]

\* (Mutant of AfterFailure: onNext comes whether or not the write went well.)
AfterFailurePosts == "written"

\* onError only logs.
AfterFailure == "idle"

\* The writing thread takes the next command ...
TakeCommand(s) ==
    /\ session[s].writer = "idle" /\ session[s].queue # <<>>
    /\ session' = [session EXCEPT ![s].writer = "taken", ![s].cmd = Head(session[s].queue),
                                  ![s].queue = Tail(@)]
    /\ ThreadsOnly /\ UNCHANGED <<wire, ready, mailVars>>

\* ... calls write(), which tests whether the stream is closed ...
TestStream(s) ==
    /\ session[s].writer = "taken"
    /\ session' = [session EXCEPT ![s].writer = IF session[s].out THEN "writing" ELSE AfterFailure]
    /\ ThreadsOnly /\ UNCHANGED <<wire, ready, mailVars>>

\* ... and then writes to the number in mFd, whoever has it by now ...
Write(s) ==
    /\ session[s].writer = "writing" /\ Owner(s) # 0
    /\ wire' = [wire EXCEPT ![Owner(s)] = Append(@, [s |-> s, cmd |-> session[s].cmd])]
    /\ session' = [session EXCEPT ![s].writer = "written"]
    /\ ThreadsOnly /\ UNCHANGED <<ready, mailVars>>

\* ... unless nobody has it, or the device is gone.
WriteFails(s) ==
    /\ session[s].writer = "writing"
    /\ session' = [session EXCEPT ![s].writer = AfterFailure]
    /\ ThreadsOnly /\ UNCHANGED <<wire, ready, mailVars>>

\* onNext posts it to the log.
PostSent(s) ==
    /\ session[s].writer = "written"
    /\ session' = [session EXCEPT ![s].writer = IF registered = {} THEN "idle" ELSE "posting",
                                  ![s].sentTo = registered]
    /\ ThreadsOnly /\ UNCHANGED <<wire, ready, mailVars>>

QueueSent(s) ==
    /\ session[s].writer = "posting"
    /\ LET to == session[s].sentTo IN
       /\ Enqueue(s, session[s].cmd, to)
       /\ session' = [session EXCEPT ![s].sentTo = Rest(to), ![s].cmd = IF Rest(to) = {} THEN 0 ELSE @,
                                     ![s].writer = IF Rest(to) = {} THEN "idle" ELSE "posting"]
    /\ ThreadsOnly /\ UNCHANGED <<wire, ready>>

WriterEnds(s) ==
    /\ session[s].writer = "idle" /\ session[s].quit
    /\ session' = [session EXCEPT ![s].writer = "done"]
    /\ ThreadsOnly /\ UNCHANGED <<wire, ready, mailVars>>

DeviceSpeaks(s) ==
    /\ answers < MaxAnswers /\ session[s].dev \notin ready
    /\ \/ session[s].fd # 0 /\ Owner(s) = s
       \/ \E r \in Sessions : session[r].reader = "blocked" /\ session[r].on = s
    /\ ready' = ready \cup {session[s].dev} /\ answers' = answers + 1
    /\ UNCHANGED <<portVars, wire, sent, busVars, loraVars, crashed>>

\* The loop of SerialReadThread.run.  An IOException, the stream being closed or the
\* number nobody's, is caught inside it.
ReaderGoes(s, from, to) ==
    /\ session[s].reader = from
    /\ session' = [session EXCEPT ![s].reader = to]
    /\ ThreadsOnly /\ UNCHANGED <<wire, ready, mailVars>>

TestInterrupt(s) == ReaderGoes(s, "test", IF session[s].intr THEN "done" ELSE "available")

\* available() asks the number; without anything to read the thread only sleeps.
Available(s) ==
    ReaderGoes(s, "available",
               IF session[s].in /\ Owner(s) # 0 /\ session[Owner(s)].dev \in ready
               THEN "read" ELSE "test")

\* read() tests whether the stream is closed ...
ReadBegins(s) == ReaderGoes(s, "read", IF session[s].in THEN "reading" ELSE "test")

\* What read() has got is posted, but not by a stream that is closed by then:
\* BufferedInputStream throws it away.
PostRead(s, dev) ==
    LET to == IF session[s].in THEN registered ELSE {} IN
    /\ session' = [session EXCEPT ![s].on = 0, ![s].readTo = to,
                                  ![s].reader = IF to = {} THEN "test" ELSE "posting"]
    /\ ready' = ready \ {dev}

\* ... and then reads the number, whoever has it by now ...
Read(s) ==
    /\ session[s].reader = "reading"
    /\ LET o == Owner(s) IN
       \/ /\ o = 0
          /\ session' = [session EXCEPT ![s].reader = "test"] /\ UNCHANGED ready
       \/ o # 0 /\ session[o].dev \in ready /\ PostRead(s, session[o].dev)
       \/ /\ o # 0 /\ session[o].dev \notin ready
          /\ session' = [session EXCEPT ![s].reader = "blocked", ![s].on = o] /\ UNCHANGED ready
    /\ ThreadsOnly /\ UNCHANGED <<wire, mailVars>>

\* ... waiting until there is something.
ReadWakes(s) ==
    /\ session[s].reader = "blocked"
    /\ LET d == session[session[s].on].dev IN d \in ready /\ PostRead(s, d)
    /\ ThreadsOnly /\ UNCHANGED <<wire, mailVars>>

QueueRead(s) ==
    /\ session[s].reader = "posting"
    /\ LET to == session[s].readTo IN
       /\ Enqueue(s, 0, to)
       /\ session' = [session EXCEPT ![s].readTo = Rest(to),
                                     ![s].reader = IF Rest(to) = {} THEN "test" ELSE "posting"]
    /\ ThreadsOnly /\ UNCHANGED <<wire, ready>>

-----------------------------------------------------------------------------
(* LoRaActivity                                                            *)

PortOf(k) == IF tasks[k].own THEN held["lora"] ELSE tasks[k].port

\* The buttons of the tests: sendDatalist, on the thread of the user interface, where
\* the bus calls those registered at once.  An exception ends the process: the port is
\* null, closed, or the write fails.
SendDatalist ==
    /\ top = "lora" /\ posts < MaxLoRaPosts
    /\ posts' = posts + 1
    /\ log' = log \o [i \in 1..Cardinality(registered) |-> [s |-> 0, cmd |-> 0]]
    /\ LET s == held["lora"] IN
       crashed' \in IF s # 0 /\ fds[session[IF s = 0 THEN 1 ELSE s].fd] # 0 THEN BOOLEAN ELSE {TRUE}
    /\ UNCHANGED <<portVars, trafficVars, showVars, mailVars, missed, tasks, started, text>>

\* (Mutant of LoRaSendData: whether it starts or stops is read from the button.)
LoRaSendDataByText ==
    /\ top = "lora"
    /\ started' = ~started
    /\ IF text = "send"
       THEN /\ Len(tasks) < MaxTasks
            /\ tasks' = Append(tasks, [start |-> TRUE, st |-> "queued", own |-> TRUE, port |-> 0, to |-> {}])
            /\ text' = "sending"
       ELSE /\ tasks' = [tasks EXCEPT ![Len(tasks)].start = FALSE]
            /\ UNCHANGED text
    /\ UNCHANGED <<portVars, trafficVars, busVars, posts, crashed>>

\* The button that starts and stops sending; onPreExecute sets `start' only if
\* the button says "send".
LoRaSendData ==
    /\ top = "lora"
    /\ started' = ~started
    /\ IF ~started
       THEN /\ Len(tasks) < MaxTasks
            /\ tasks' = Append(tasks, [start |-> text = "send", st |-> "queued",
                                       own |-> TRUE, port |-> 0, to |-> {}])
            /\ text' = "sending"
       ELSE /\ tasks' = [tasks EXCEPT ![Len(tasks)].start = FALSE]
            /\ UNCHANGED text
    /\ UNCHANGED <<portVars, trafficVars, busVars, posts, crashed>>

\* Tasks run in the order they were started in, one at a time.
MayBegin(k) == tasks[k].st = "queued" /\ \A j \in 1..k - 1 : tasks[j].st \in {"post", "done"}

TaskBegins(k) ==
    /\ MayBegin(k)
    /\ tasks' = [tasks EXCEPT ![k].st = "run"]
    /\ UNCHANGED <<portVars, trafficVars, busVars, started, text, posts, crashed>>

\* One pass of the loop of doInBackground: sendMsg posts first ...
TaskSends(k) ==
    /\ tasks[k].st = "run" /\ tasks[k].start /\ posts < MaxLoRaPosts
    /\ posts' = posts + 1
    /\ tasks' = [tasks EXCEPT ![k].st = "posting", ![k].to = registered]
    /\ UNCHANGED <<portVars, trafficVars, busVars, started, text, crashed>>

TaskQueues(k) ==
    /\ tasks[k].st = "posting"
    /\ Enqueue(0, 0, tasks[k].to)
    /\ tasks' = [tasks EXCEPT ![k].to = Rest(tasks[k].to)]
    /\ UNCHANGED <<portVars, trafficVars, showVars, log, missed, started, text, posts, crashed>>

\* ... and then writes.
TaskWrites(k) ==
    /\ tasks[k].st = "posting" /\ tasks[k].to = {}
    /\ tasks' = [tasks EXCEPT ![k].st = "run"]
    /\ crashed' = (PortOf(k) = 0)
    /\ UNCHANGED <<portVars, trafficVars, busVars, started, text, posts>>

TaskEnds(k) ==
    /\ tasks[k].st = "run" /\ ~tasks[k].start
    /\ tasks' = [tasks EXCEPT ![k].st = "post"]
    /\ UNCHANGED <<portVars, trafficVars, busVars, started, text, posts, crashed>>

\* onPostExecute
TaskPosts(k) ==
    /\ tasks[k].st = "post"
    /\ tasks' = [tasks EXCEPT ![k].st = "done"]
    /\ text' = IF tasks[k].own THEN "send" ELSE text
    /\ UNCHANGED <<portVars, trafficVars, busVars, started, posts, crashed>>

-----------------------------------------------------------------------------
Init ==
    /\ session = [s \in Sessions |-> NoSession] /\ opened = 0
    /\ fds = [n \in Sessions |-> 0]
    /\ held = [b \in Buttons |-> 0] /\ isOpen = [b \in Buttons |-> FALSE]
    /\ closing = NotClosing
    /\ wire = [s \in Sessions |-> <<>>] /\ sent = 0 /\ ready = {} /\ answers = 0
    /\ shows = 0 /\ top = "none" /\ front = 0 /\ below = 0 /\ leaving = {} /\ registered = {}
    /\ looper = <<>> /\ mail = <<>> /\ log = <<>> /\ missed = FALSE
    /\ tasks = <<>> /\ started = FALSE /\ text = "send" /\ posts = 0
    /\ crashed = FALSE

ClosingStep == CloseIn \/ Interrupt \/ CloseOut \/ Quit \/ CloseFd

\* What the thread of the user interface does when it is not closing a port.
Interface ==
    /\ closing.step = "none"
    /\ \/ LoadList \/ BackToMain \/ SendFromList \/ Leave \/ Deliver \/ BusRests \/ OnStop
       \/ Clear \/ SendDatalist \/ LoRaSendData
       \/ \E a \in {"main", "lora"} : Start(a)
       \/ \E b \in Buttons : Open(b) \/ OpenFails(b) \/ Close(b) \/ Send(b)
       \/ \E k \in DOMAIN tasks : TaskPosts(k)

Writer(s) == \/ TakeCommand(s) \/ TestStream(s) \/ Write(s) \/ WriteFails(s)
             \/ PostSent(s) \/ QueueSent(s) \/ WriterEnds(s)
Reader(s) == \/ TestInterrupt(s) \/ Available(s) \/ ReadBegins(s) \/ Read(s) \/ ReadWakes(s)
             \/ QueueRead(s)
Task(k)   == TaskBegins(k) \/ TaskSends(k) \/ TaskQueues(k) \/ TaskWrites(k) \/ TaskEnds(k)

Next ==
    /\ ~crashed
    /\ \/ Interface \/ ClosingStep \/ AskStop
       \/ \E s \in Sessions : Writer(s) \/ Reader(s) \/ DeviceSpeaks(s)
       \/ \E k \in DOMAIN tasks : Task(k)

\* Threads run, and the user interface's comes to the end of what it has begun.
Spec ==
    /\ Init /\ [][Next]_vars
    /\ WF_vars(~crashed /\ ClosingStep)
    /\ \A s \in Sessions : WF_vars(~crashed /\ Writer(s)) /\ WF_vars(~crashed /\ Reader(s))

-----------------------------------------------------------------------------
(* Properties                                                              *)

\* Types; and a number that is open for a session is the one in its mFd.
TypeOK ==
    /\ opened \in 0..MaxSessions /\ sent \in 0..MaxCommands
    /\ held \in [Buttons -> 0..MaxSessions] /\ isOpen \in [Buttons -> BOOLEAN]
    /\ \A n \in Sessions : fds[n] # 0 => session[fds[n]].fd = n
    /\ \A s \in Sessions :
         /\ session[s].reader \in {"none", "test", "available", "read", "reading", "blocked",
                                   "posting", "done"}
         /\ session[s].writer \in {"none", "idle", "taken", "writing", "written", "posting", "done"}
    /\ registered \subseteq 1..shows /\ front \in {0} \cup registered

\* Of the commands of a port of MainActivity only one can reach another port: the
\* one that was inside write() when its stream was closed.  No other does, neither
\* those that waited nor one taken before and written after, though its number is
\* used again and nobody clears it.
OwnPort ==
    \A o \in Sessions : \A i \in 1..Len(wire[o]) :
      wire[o][i].s # o => wire[o][i].cmd = session[wire[o][i].s].caught

\* A command is in the log only if it was written: to the descriptor of its own port,
\* but for the one that was inside write() when the stream was closed.  And commands
\* are there in the order in which they were sent.
LogTrue ==
    LET Sent(s) == {i \in 1..Len(log) : log[i].s = s /\ log[i].cmd # 0} IN
    \A s \in Sessions :
      /\ \A i \in Sent(s) : \E o \in Sessions : \E j \in 1..Len(wire[o]) :
            /\ wire[o][j] = [s |-> s, cmd |-> log[i].cmd]
            /\ o = s \/ log[i].cmd = session[s].caught
      /\ \A i, j \in Sent(s) : i < j => log[i].cmd <= log[j].cmd

\* What is queued for the activity in front is added to the log, however soon that
\* activity is covered or left, another one started, and its stop asked for: unless
\* the bus breaks off its work before.  (A message may still be lost if its post
\* overlaps the change of activities: those registered are copied first.)
NoneMissed == ~missed

\* Of the tasks of the activity only the last one started may go on sending, and
\* only as long as loraSendStarted says so: however quickly the button is pressed
\* again, "stop" reaches the one that sends.
OneSender ==
    \A k \in DOMAIN tasks : tasks[k].own /\ tasks[k].start => k = Len(tasks) /\ started

\* "stop the read thread" (SerialReadThread.close), PortUtils.close: the threads of
\* a port that is closed come to an end; but the reading thread may be stuck in
\* read(), which nothing interrupts, if the device it reads has been opened more than
\* once, be it after the number was used again.
Ended(s) == session[s].reader \in {"none", "done"} /\ session[s].writer \in {"none", "done"}
Stuck(s) ==
    /\ session[s].reader = "blocked" /\ session[s].writer \in {"none", "done"}
    /\ \E o \in 1..opened : o # s /\ session[o].dev = session[session[s].on].dev
ThreadsEnd ==
    \A s \in Sessions :
      []<>((session[s].in /\ closing.s # s) \/ Ended(s) \/ Stuck(s) \/ crashed)

\* A task of LoRaActivity writes to no other port than the one it was started
\* for.  Not so once that is closed and its number used again: see README.
LoRaOwnPort ==
    \A k \in DOMAIN tasks :
      tasks[k].st = "posting" /\ PortOf(k) # 0 => fds[session[PortOf(k)].fd] \in {0, PortOf(k)}
=============================================================================
