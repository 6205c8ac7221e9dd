-------------------------- MODULE SerialToolProofs --------------------------
(***************************************************************************)
(* Theorems about SerialTool: the port a command is written to, the tasks  *)
(* of LoRaActivity, the delivery of messages, types, and the log.          *)
(***************************************************************************)
EXTENDS SerialTool, FiniteSetTheorems, SequenceTheorems, WellFoundedInduction, TLAPS

Readers == {"none", "test", "available", "read", "reading", "blocked", "posting", "done"}
Writers == {"none", "idle", "taken", "writing", "written", "posting", "done"}
AllDevices == {"none"} \cup UNION {Devices[s] : s \in Sessions}

Ids == Nat \ {0}

SessionRecord ==
    [fd : 0..MaxSessions, dev : AllDevices, in : BOOLEAN, out : BOOLEAN, intr : BOOLEAN,
     quit : BOOLEAN, reader : Readers, on : 0..MaxSessions, readTo : SUBSET Ids,
     writer : Writers, sentTo : SUBSET Ids, queue : Seq(Nat), cmd : Nat, caught : Nat]

Steps == {"none", "in", "intr", "out", "quit", "fd"}

Types ==
    /\ opened \in 0..MaxSessions /\ sent \in 0..MaxCommands
    /\ session \in [Sessions -> SessionRecord]
    /\ fds \in [Sessions -> 0..opened]
    /\ held \in [Buttons -> 0..opened] /\ isOpen \in [Buttons -> BOOLEAN]
    /\ closing \in [step : Steps, s : 0..opened]
    /\ wire \in [Sessions -> Seq([s : Sessions, cmd : Nat])]
    /\ top \in {"none", "main", "list", "lora"}
    /\ shows \in Nat /\ registered \subseteq Ids

\* A number that is open for a session is the one in its mFd.
Numbers == \A n \in Sessions : fds[n] # 0 => session[fds[n]].fd = n

\* Threads are those of a port that was opened.
Threads ==
    \A s \in Sessions : session[s].writer # "none" \/ session[s].reader # "none" =>
        s <= opened /\ session[s].fd \in Sessions

\* As long as a writing thread finds its stream open, the number is still its own.
Writable ==
    \A s \in Sessions : session[s].writer # "none" /\ session[s].out => fds[session[s].fd] = s

\* A thread that is inside write() with its stream closed was there when it was.
InWrite ==
    \A s \in Sessions : session[s].writer = "writing" /\ ~session[s].out =>
        session[s].caught = session[s].cmd

\* What buttons of MainActivity will close is open.
MainHolds ==
    \A b \in MainPorts : isOpen[b] /\ held[b] # 0 /\ session[held[b]].fd # 0 =>
        fds[session[held[b]].fd] = held[b]

\* LoRaActivity may hold a port it has closed, and nobody else opens one meanwhile.
LoRaHolds ==
    held["lora"] # 0 =>
      /\ top = "lora"
      /\ session[held["lora"]].fd # 0
      /\ fds[session[held["lora"]].fd] \in {0, held["lora"]}

HeldOnce == \A b, c \in Buttons : b # c /\ held[b] # 0 => held[b] # held[c]

\* What is being closed is nobody else's by now, and the output stream is closed
\* before the number.
ClosingOwn ==
    closing.step # "none" =>
      /\ closing.s # 0
      /\ session[closing.s].fd # 0
      /\ fds[session[closing.s].fd] \in {0, closing.s}
      /\ \A b \in MainPorts : isOpen[b] => held[b] # closing.s
      /\ closing.step \in {"quit", "fd"} =>
           session[closing.s].writer = "none" \/ ~session[closing.s].out

\* OwnPort; and as long as the stream is open nothing of it is on another's wire.
OwnWire ==
    \A o \in Sessions : \A i \in 1..Len(wire[o]) :
      /\ wire[o][i].s <= opened
      /\ wire[o][i].s # o =>
           ~session[wire[o][i].s].out /\ wire[o][i].cmd = session[wire[o][i].s].caught

PortInv ==
    /\ Types /\ Numbers /\ Threads /\ Writable /\ InWrite
    /\ MainHolds /\ LoRaHolds /\ HeldOnce /\ ClosingOwn /\ OwnWire

-----------------------------------------------------------------------------
(* open() finds a number                                                   *)

\* The least element of a set of numbers is one of them.
LEMMA MinIsMember ==
  ASSUME NEW S \in SUBSET Nat, S # {}
  PROVE  Min(S) \in S
<1>1. PICK x \in S : \A y \in S : ~ <<y, x>> \in OpToRel(<, Nat)
  BY NatLessThanWellFounded, WFMin
<1>2. \A y \in S : x <= y
  <2> SUFFICES ASSUME NEW y \in S, ~ (x <= y) PROVE FALSE
    OBVIOUS
  <2>1. y < x /\ <<y, x>> \in Nat \X Nat
    OBVIOUS
  <2>2. <<y, x>>[1] = y /\ <<y, x>>[2] = x
    OBVIOUS
  <2>3. <<y, x>> \in {ss \in Nat \X Nat : ss[1] < ss[2]}
    BY <2>1, <2>2, Zenon
  <2> QED
    BY <1>1, <2>3, Zenon DEF OpToRel
<1> QED
  BY <1>2 DEF Min

\* A descriptor number is free as long as fewer sessions than MaxSessions were opened.
LEMMA NumberIsFree ==
  ASSUME Types, Numbers, opened < MaxSessions
  PROVE  Min({k \in Sessions : fds[k] = 0}) \in {k \in Sessions : fds[k] = 0}
<1>1. {k \in Sessions : fds[k] = 0} # {}
  <2> SUFFICES ASSUME \A k \in Sessions : fds[k] # 0 PROVE FALSE
    OBVIOUS
  <2>1. opened \in Nat /\ MaxSessions \in Nat
    BY ToolAssumption DEF Types
  <2>2. fds \in [1..MaxSessions -> 1..opened]
    BY <2>1 DEF Types, Sessions
  <2>3. \A n \in Nat : IsFiniteSet(1..n) /\ Cardinality(1..n) = n
    BY FS_Interval
  <2>4. \E x, y \in 1..MaxSessions : x # y /\ fds[x] = fds[y]
    BY <2>1, <2>2, <2>3, FS_PigeonHole
  <2> QED
    BY <2>4 DEF Numbers, Sessions
<1>2. {k \in Sessions : fds[k] = 0} \in SUBSET Nat
  BY DEF Sessions
<1> QED
  BY <1>1, <1>2, MinIsMember

-----------------------------------------------------------------------------
(* What the steps of the threads make of their session                     *)

\* What no step of a thread changes.
SameStreams(r, x) ==
    r.fd = x.fd /\ r.out = x.out /\ r.in = x.in /\ r.quit = x.quit /\ r.caught = x.caught
SameWriting(r, x) == r.writer = x.writer /\ r.cmd = x.cmd /\ r.queue = x.queue
SameReading(r, x) == r.reader = x.reader

\* A thread's step: r is what becomes of its session.
Replaced(s, r) ==
    /\ session' = [session EXCEPT ![s] = r] /\ r \in SessionRecord
    /\ SameStreams(r, session[s])

LEMMA ReaderRecord ==
  ASSUME PortInv, NEW s \in Sessions, Reader(s)
  PROVE  \E r : /\ Replaced(s, r) /\ SameWriting(r, session[s])
                /\ session[s].reader # "none" /\ r.reader # "none"
<1> USE DEF Replaced, SameStreams, SameWriting
<1>0. session[s] \in SessionRecord /\ session \in [Sessions -> SessionRecord] /\ registered \subseteq Ids
  BY DEF PortInv, Types
<1>1. ASSUME NEW v \in Readers, v # "none", session[s].reader # "none",
             session' = [session EXCEPT ![s].reader = v]
      PROVE  \E r : /\ Replaced(s, r) /\ SameWriting(r, session[s])
                    /\ session[s].reader # "none" /\ r.reader # "none"
  <2> DEFINE r == [session[s] EXCEPT !.reader = v]
  <2>1. session' = [session EXCEPT ![s] = r] /\ r.reader = v
    BY <1>0, <1>1 DEF SessionRecord
  <2>2. r \in SessionRecord /\ SameStreams(r, session[s]) /\ SameWriting(r, session[s])
    BY <1>0, <1>1 DEF SessionRecord
  <2> QED
    BY <1>1, <2>1, <2>2
<1>2. CASE TestInterrupt(s) \/ Available(s) \/ ReadBegins(s)
  BY <1>1, <1>2 DEF TestInterrupt, Available, ReadBegins, ReaderGoes, Readers
<1>3. ASSUME NEW d, PostRead(s, d), session[s].reader # "none"
      PROVE  \E r : /\ Replaced(s, r) /\ SameWriting(r, session[s])
                    /\ session[s].reader # "none" /\ r.reader # "none"
  <2> DEFINE to == IF session[s].in THEN registered ELSE {}
             v  == IF to = {} THEN "test" ELSE "posting"
             r  == [session[s] EXCEPT !.on = 0, !.readTo = to, !.reader = v]
  <2>1. to \in SUBSET Ids /\ v \in Readers /\ v # "none" /\ 0 \in 0..MaxSessions
    BY <1>0, ToolAssumption DEF Readers
  <2>2. session' = [session EXCEPT ![s] = r]
    BY <1>0, <1>3 DEF PostRead
  <2> HIDE DEF to, v
  <2>3. r \in SessionRecord /\ SameStreams(r, session[s]) /\ SameWriting(r, session[s]) /\ r.reader = v
    BY <1>0, <2>1 DEF SessionRecord
  <2> QED
    BY <1>3, <2>1, <2>2, <2>3
<1>4. CASE Read(s)
  <2> DEFINE o == fds[session[s].fd]
  <2>1. session[s].reader # "none"
    BY <1>4 DEF Read
  <2>2. CASE session' = [session EXCEPT ![s].reader = "test"]
    BY <1>1, <2>1, <2>2 DEF Readers
  <2>3. CASE PostRead(s, session[o].dev)
    BY <1>3, <2>1, <2>3
  <2>4. CASE o # 0 /\ session' = [session EXCEPT ![s].reader = "blocked", ![s].on = o]
    <3>1. o \in 0..MaxSessions
      <4>1. session[s].fd \in Sessions
        BY <2>1 DEF PortInv, Threads
      <4>2. o \in 0..opened /\ opened \in 0..MaxSessions
        BY <4>1 DEF PortInv, Types
      <4> QED
        BY <4>2, ToolAssumption
    <3> HIDE DEF o
    <3> DEFINE r == [session[s] EXCEPT !.reader = "blocked", !.on = o]
    <3>2. session' = [session EXCEPT ![s] = r]
      BY <1>0, <2>4
    <3>3. /\ r \in SessionRecord /\ SameStreams(r, session[s]) /\ SameWriting(r, session[s])
          /\ r.reader = "blocked"
      BY <1>0, <3>1 DEF SessionRecord, Readers
    <3> QED
      BY <2>1, <3>2, <3>3
  <2> QED
    BY <1>4, <2>2, <2>3, <2>4 DEF Read, Owner
<1>5. CASE ReadWakes(s)
  BY <1>3, <1>5 DEF ReadWakes
<1>6. CASE QueueRead(s)
  <2> DEFINE to == Rest(session[s].readTo)
             v  == IF to = {} THEN "test" ELSE "posting"
             r  == [session[s] EXCEPT !.readTo = to, !.reader = v]
  <2>1. to \in SUBSET Ids /\ v \in Readers /\ v # "none"
    BY <1>0 DEF Rest, Readers, SessionRecord
  <2>2. session' = [session EXCEPT ![s] = r] /\ session[s].reader # "none"
    BY <1>0, <1>6 DEF QueueRead
  <2> HIDE DEF to, v
  <2>3. r \in SessionRecord /\ SameStreams(r, session[s]) /\ SameWriting(r, session[s]) /\ r.reader = v
    BY <1>0, <2>1 DEF SessionRecord
  <2> QED
    BY <2>1, <2>2, <2>3
<1> QED
  BY <1>2, <1>4, <1>5, <1>6 DEF Reader

Busy(x) == x.writer \in {"taken", "writing", "written", "posting"}

\* The next command, or on with the one that was taken.
Taken(r, x) ==
    x.queue # <<>> /\ r.writer = "taken" /\ r.cmd = Head(x.queue) /\ r.queue = Tail(x.queue)
GoesOn(r, x) ==
    /\ r.queue = x.queue /\ r.cmd \in {0, x.cmd}
    /\ Busy(r) => Busy(x) /\ r.cmd = x.cmd

LEMMA WriterRecord ==
  ASSUME PortInv, NEW s \in Sessions, Writer(s)
  PROVE  \E r :
           /\ Replaced(s, r) /\ SameReading(r, session[s])
           /\ session[s].writer # "none" /\ r.writer # "none"
           /\ r.writer = "writing" => session[s].out
           /\ Taken(r, session[s]) \/ GoesOn(r, session[s])
           /\ r.writer \in {"written", "posting"} =>
                Write(s) \/ session[s].writer \in {"written", "posting"}
<1> USE DEF Replaced, SameStreams, SameReading
<1> DEFINE x == session[s]
           Good(r) ==
             /\ Replaced(s, r) /\ SameReading(r, x) /\ x.writer # "none" /\ r.writer # "none"
             /\ r.writer = "writing" => x.out
             /\ Taken(r, x) \/ GoesOn(r, x)
             /\ r.writer \in {"written", "posting"} => Write(s) \/ x.writer \in {"written", "posting"}
<1> SUFFICES \E r : Good(r)
  OBVIOUS
<1>0. /\ x \in SessionRecord /\ session \in [Sessions -> SessionRecord] /\ registered \subseteq Ids
      /\ x.out \in BOOLEAN
  BY DEF PortInv, Types, SessionRecord
<1>1. ASSUME NEW v \in Writers, x.writer # "none", v # "none", session' = [session EXCEPT ![s].writer = v],
             v = "writing" => x.out, v \in {"taken", "writing", "written", "posting"} => Busy(x),
             v \in {"written", "posting"} => Write(s) \/ x.writer \in {"written", "posting"}
      PROVE  \E r : Good(r)
  <2> DEFINE r == [x EXCEPT !.writer = v]
  <2>1. session' = [session EXCEPT ![s] = r] /\ r.writer = v
    BY <1>0, <1>1 DEF SessionRecord
  <2>2. /\ r \in SessionRecord /\ SameStreams(r, x) /\ SameReading(r, x)
        /\ r.queue = x.queue /\ r.cmd = x.cmd
    BY <1>0, <1>1 DEF SessionRecord
  <2> QED
    BY <1>1, <2>1, <2>2 DEF GoesOn, Busy
<1>2. CASE TakeCommand(s)
  <2> DEFINE r == [x EXCEPT !.writer = "taken", !.cmd = Head(x.queue), !.queue = Tail(x.queue)]
  <2>1. x.writer = "idle" /\ x.queue # <<>> /\ session' = [session EXCEPT ![s] = r]
    BY <1>0, <1>2 DEF TakeCommand
  <2>2. Head(x.queue) \in Nat /\ Tail(x.queue) \in Seq(Nat)
    BY <1>0, <2>1 DEF SessionRecord
  <2>3. /\ r \in SessionRecord /\ SameStreams(r, x) /\ SameReading(r, x)
        /\ r.queue = Tail(x.queue) /\ r.cmd = Head(x.queue) /\ r.writer = "taken"
    BY <1>0, <2>2 DEF SessionRecord, Writers
  <2> QED
    BY <2>1, <2>3 DEF Taken
<1>3. CASE TestStream(s)
  BY <1>0, <1>1, <1>3 DEF TestStream, AfterFailure, Writers, Busy
<1>4. CASE Write(s)
  BY <1>1, <1>4 DEF Write, Writers, Busy
<1>5. CASE WriteFails(s)
  BY <1>1, <1>5 DEF WriteFails, AfterFailure, Writers
<1>6. CASE PostSent(s)
  <2> DEFINE v == IF registered = {} THEN "idle" ELSE "posting"
             r == [x EXCEPT !.writer = v, !.sentTo = registered]
  <2>1. x.writer = "written" /\ session' = [session EXCEPT ![s] = r] /\ v \in {"idle", "posting"}
    BY <1>0, <1>6 DEF PostSent
  <2> HIDE DEF v
  <2>2. /\ r \in SessionRecord /\ SameStreams(r, x) /\ SameReading(r, x)
        /\ r.queue = x.queue /\ r.cmd = x.cmd /\ r.writer = v
    BY <1>0, <2>1 DEF SessionRecord, Writers
  <2> QED
    BY <2>1, <2>2 DEF GoesOn, Busy
<1>7. CASE QueueSent(s)
  <2> DEFINE to == Rest(x.sentTo)
             c  == IF to = {} THEN 0 ELSE x.cmd
             v  == IF to = {} THEN "idle" ELSE "posting"
             r  == [x EXCEPT !.sentTo = to, !.cmd = c, !.writer = v]
  <2>1. /\ x.writer = "posting" /\ session' = [session EXCEPT ![s] = r]
        /\ v \in {"idle", "posting"} /\ (v = "posting" => c = x.cmd) /\ c \in {0, x.cmd}
        /\ to \in SUBSET Ids /\ x.cmd \in Nat
    BY <1>0, <1>7 DEF QueueSent, Rest, SessionRecord
  <2> HIDE DEF v, c, to
  <2>2. r \in SessionRecord
    <3>1. c \in Nat /\ v \in Writers /\ to \in SUBSET Ids
      BY <2>1 DEF Writers
    <3> QED
      BY ONLY <1>0, <3>1 DEF SessionRecord
  <2>3. SameStreams(r, x) /\ SameReading(r, x) /\ r.queue = x.queue /\ r.cmd = c /\ r.writer = v
    BY <1>0 DEF SessionRecord
  <2> QED
    BY <2>1, <2>2, <2>3 DEF GoesOn, Busy
<1>8. CASE WriterEnds(s)
  BY <1>1, <1>8 DEF WriterEnds, Writers
<1> QED
  BY <1>2, <1>3, <1>4, <1>5, <1>6, <1>7, <1>8 DEF Writer

-----------------------------------------------------------------------------
(* Steps that open and close nothing                                       *)

\* One session is replaced, and perhaps something written.
LEMMA ThreadKeeps ==
  ASSUME PortInv, NEW s \in Sessions, NEW r, Replaced(s, r),
         r.writer = "none" <=> session[s].writer = "none",
         r.reader # "none" => session[s].reader # "none",
         r.writer = "writing" => session[s].out \/ (session[s].writer = "writing" /\ r.cmd = session[s].cmd),
         UNCHANGED <<opened, fds, held, isOpen, closing, top>>,
         sent' \in 0..MaxCommands, shows' \in Nat, registered' \subseteq Ids,
         wire' \in [Sessions -> Seq([s : Sessions, cmd : Nat])], OwnWire'
  PROVE  PortInv'
<1> USE DEF PortInv, Replaced, SameStreams
<1>1. /\ \A t \in Sessions : session'[t] = IF t = s THEN r ELSE session[t]
      /\ session' \in [Sessions -> SessionRecord]
  BY DEF Types
<1>2. /\ \A t \in Sessions :
           /\ session'[t].fd = session[t].fd /\ session'[t].out = session[t].out
           /\ session'[t].caught = session[t].caught
           /\ session'[t].writer = "none" <=> session[t].writer = "none"
           /\ session'[t].reader # "none" => session[t].reader # "none"
      /\ \A n \in 0..opened : n # 0 => n \in Sessions
  <2>1. opened \in 0..MaxSessions /\ MaxSessions \in Nat
    BY ToolAssumption DEF Types
  <2>2. \A n \in 0..opened : n # 0 => n \in Sessions
    BY ONLY <2>1 DEF Sessions
  <2> QED
    BY <1>1, <2>2
<1>3. Types'
  BY <1>1 DEF Types
<1>4. Numbers'
  <2>1. Numbers /\ fds' = fds /\ (\A n \in Sessions : fds[n] \in 0..opened)
    BY DEF Types
  <2> QED
    BY ONLY <1>2, <2>1 DEF Numbers
<1>5. Threads' /\ Writable'
  BY <1>2 DEF Threads, Writable
<1>6. InWrite'
  BY <1>1 DEF InWrite
<1>7. \A b \in Buttons : held[b] # 0 => held[b] \in Sessions
  BY <1>2 DEF Types
<1>8. MainHolds' /\ LoRaHolds' /\ HeldOnce'
  BY <1>2, <1>7 DEF MainHolds, LoRaHolds, HeldOnce, Buttons
<1>9. closing.step # "none" => closing.s \in Sessions
  BY <1>2 DEF Types, ClosingOwn
<1>10. ClosingOwn'
  BY <1>2, <1>9 DEF ClosingOwn
<1> QED
  BY <1>3, <1>4, <1>5, <1>6, <1>8, <1>10

LEMMA WireRecords ==
  ASSUME PortInv, NEW o \in Sessions, NEW i \in 1..Len(wire[o])
  PROVE  wire[o][i].s \in Sessions /\ wire[o][i].cmd \in Nat
<1>1. wire[o] \in Seq([s : Sessions, cmd : Nat])
  BY DEF PortInv, Types
<1>2. wire[o][i] \in [s : Sessions, cmd : Nat]
  BY ONLY <1>1, ElementOfSeq
<1> QED
  BY <1>2

\* The wire stays the same.
LEMMA SameWire ==
  ASSUME PortInv, NEW s \in Sessions, NEW r, Replaced(s, r), UNCHANGED <<wire, opened>>
  PROVE  OwnWire' /\ wire' \in [Sessions -> Seq([s : Sessions, cmd : Nat])]
<1>1. \A t \in Sessions : session'[t].out = session[t].out /\ session'[t].caught = session[t].caught
  BY DEF PortInv, Types, Replaced, SameStreams
<1>2. OwnWire'
  BY <1>1, WireRecords DEF PortInv, OwnWire
<1> QED
  BY <1>2 DEF PortInv, Types

\* What a thread leaves alone, with the wire.
LEMMA ThreadsLeave ==
  ASSUME PortInv, ThreadsOnly
  PROVE  /\ UNCHANGED <<opened, fds, held, isOpen, closing, top>>
         /\ sent' \in 0..MaxCommands /\ shows' \in Nat /\ registered' \subseteq Ids
BY DEF ThreadsOnly, showVars, PortInv, Types

LEMMA WriteStep ==
  ASSUME PortInv, NEW s \in Sessions, Write(s)
  PROVE  OwnWire' /\ wire' \in [Sessions -> Seq([s : Sessions, cmd : Nat])]
<1> DEFINE o == Owner(s)
           e == [s |-> s, cmd |-> session[s].cmd]
<1>1. /\ session[s].writer = "writing" /\ o # 0 /\ opened' = opened
      /\ wire' = [wire EXCEPT ![o] = Append(@, e)]
  BY DEF Write, ThreadsOnly
<1>2. session[s] \in SessionRecord
  BY DEF PortInv, Types
<1>3. s <= opened /\ session[s].fd \in Sessions
  BY <1>1 DEF PortInv, Threads
<1>4. o \in Sessions
  <2>1. o \in 0..opened /\ opened \in 0..MaxSessions
    BY <1>3 DEF PortInv, Types, Owner
  <2> QED
    BY <1>1, <2>1, ToolAssumption DEF Sessions
<1>5. o # s => ~session[s].out /\ session[s].caught = session[s].cmd
  <2>1. session[s].out => o = s
    BY <1>1 DEF PortInv, Writable, Owner
  <2> QED
    BY <1>1, <2>1 DEF PortInv, InWrite
<1>6. \A t \in Sessions : session'[t].out = session[t].out /\ session'[t].caught = session[t].caught
  <2>1. session' = [session EXCEPT ![s].writer = "written"]
    BY DEF Write
  <2> QED
    BY <2>1 DEF PortInv, Types, SessionRecord
<1>7. e \in [s : Sessions, cmd : Nat] /\ e.s = s /\ e.cmd = session[s].cmd
  BY <1>2 DEF SessionRecord
<1> HIDE DEF e, o
<1>8. /\ \A t \in Sessions : wire[t] \in Seq([s : Sessions, cmd : Nat])
      /\ \A t \in Sessions : wire'[t] = IF t = o THEN Append(wire[t], e) ELSE wire[t]
  BY <1>1 DEF PortInv, Types
<1>9. /\ Len(wire'[o]) = Len(wire[o]) + 1 /\ Len(wire[o]) \in Nat
      /\ wire'[o][Len(wire[o]) + 1] = e
      /\ \A i \in 1..Len(wire[o]) : wire'[o][i] = wire[o][i]
  <2>1. wire[o] \in Seq([s : Sessions, cmd : Nat]) /\ wire'[o] = Append(wire[o], e)
    BY <1>4, <1>8
  <2> QED
    BY ONLY <1>7, <2>1, AppendProperties
<1>10. wire' \in [Sessions -> Seq([s : Sessions, cmd : Nat])]
  <2>1. \A q \in Seq([s : Sessions, cmd : Nat]) : Append(q, e) \in Seq([s : Sessions, cmd : Nat])
    BY ONLY <1>7, AppendProperties
  <2>2. \A t \in Sessions : wire'[t] \in Seq([s : Sessions, cmd : Nat])
    BY <1>8, <2>1
  <2>3. wire' = [t \in Sessions |-> wire'[t]]
    BY <1>1 DEF PortInv, Types
  <2> QED
    BY ONLY <2>2, <2>3
<1>11. \A t \in Sessions : \A i \in 1..Len(wire[t]) : wire[t][i].s \in Sessions
  BY WireRecords
<1>12. ASSUME NEW t \in Sessions, NEW i \in 1..Len(wire'[t])
       PROVE  /\ wire'[t][i].s <= opened
              /\ wire'[t][i].s # t =>
                   ~session'[wire'[t][i].s].out /\ wire'[t][i].cmd = session'[wire'[t][i].s].caught
  <2>1. CASE t = o /\ i = Len(wire[o]) + 1
    BY <1>3, <1>5, <1>6, <1>7, <1>9, <2>1
  <2>2. CASE i \in 1..Len(wire[t]) /\ wire'[t][i] = wire[t][i]
    <3> DEFINE w == wire[t][i]
    <3>1. w.s \in Sessions /\ w.s <= opened /\ (w.s # t => ~session[w.s].out /\ w.cmd = session[w.s].caught)
      <4>1. OwnWire /\ i \in 1..Len(wire[t]) /\ w.s \in Sessions
        BY <1>11, <2>2 DEF PortInv
      <4> QED
        BY ONLY t \in Sessions, <4>1 DEF OwnWire
    <3> HIDE DEF w
    <3>2. w.s # t => ~session'[w.s].out /\ w.cmd = session'[w.s].caught
      BY <1>6, <3>1
    <3> QED
      BY <2>2, <3>1, <3>2 DEF w
  <2>3. (t = o /\ i = Len(wire[o]) + 1) \/ (i \in 1..Len(wire[t]) /\ wire'[t][i] = wire[t][i])
    <3>1. CASE t # o
      BY <1>8, <1>12, <3>1
    <3>2. CASE t = o
      BY ONLY <1>9, <1>12, <3>2
    <3> QED
      BY <3>1, <3>2
  <2> QED
    BY <2>1, <2>2, <2>3
<1> QED
  BY <1>1, <1>10, <1>12 DEF OwnWire

LEMMA ThreadSteps ==
  ASSUME PortInv, NEW s \in Sessions, Writer(s) \/ Reader(s)
  PROVE  PortInv'
<1>1. ThreadsOnly /\ (Write(s) \/ UNCHANGED wire)
  BY DEF Writer, Reader, TakeCommand, TestStream, Write, WriteFails, PostSent, QueueSent, WriterEnds,
         TestInterrupt, Available, ReadBegins, ReaderGoes, Read, ReadWakes, QueueRead
<1>2. /\ UNCHANGED <<opened, fds, held, isOpen, closing, top>>
      /\ sent' \in 0..MaxCommands /\ shows' \in Nat /\ registered' \subseteq Ids
  BY <1>1, ThreadsLeave
<1>3. CASE Writer(s)
  <2>1. PICK r :
           /\ Replaced(s, r) /\ SameReading(r, session[s])
           /\ session[s].writer # "none" /\ r.writer # "none"
           /\ r.writer = "writing" => session[s].out
    BY <1>3, WriterRecord
  <2>2. OwnWire' /\ wire' \in [Sessions -> Seq([s : Sessions, cmd : Nat])]
    BY <1>1, <1>2, <2>1, WriteStep, SameWire
  <2> QED
    BY <1>2, <2>1, <2>2, ThreadKeeps DEF SameReading
<1>4. CASE Reader(s)
  <2>1. PICK r : /\ Replaced(s, r) /\ SameWriting(r, session[s])
                 /\ session[s].reader # "none" /\ r.reader # "none"
    BY <1>4, ReaderRecord
  <2>2. UNCHANGED wire
    BY <1>4 DEF Reader, TestInterrupt, Available, ReadBegins, ReaderGoes, Read, ReadWakes, QueueRead
  <2>3. OwnWire' /\ wire' \in [Sessions -> Seq([s : Sessions, cmd : Nat])]
    BY <1>2, <2>1, <2>2, SameWire
  <2> QED
    BY <1>2, <2>1, <2>3, ThreadKeeps DEF SameWriting
<1> QED
  BY <1>3, <1>4

\* What a button holds is a session that was opened.
LEMMA HeldIsSession ==
  ASSUME PortInv, NEW b \in Buttons, held[b] # 0
  PROVE  held[b] \in Sessions
BY ToolAssumption DEF PortInv, Types, Sessions

\* The threads, the bus, the tasks and the activities but for Leave.
LEMMA BusStep ==
  ASSUME PortInv, UNCHANGED <<portVars, wire, sent>>, shows' \in Nat, registered' \subseteq Ids,
         top' \in {"none", "main", "list", "lora"}, top = "lora" => top' = "lora"
  PROVE  PortInv'
<1> USE DEF PortInv, portVars
<1>1. Types'
  BY DEF Types
<1>2. Numbers' /\ Threads' /\ Writable' /\ InWrite' /\ MainHolds' /\ HeldOnce' /\ OwnWire'
  BY DEF Numbers, Threads, Writable, InWrite, MainHolds, HeldOnce, OwnWire
<1>3. LoRaHolds' /\ ClosingOwn'
  BY DEF LoRaHolds, ClosingOwn
<1> QED
  BY <1>1, <1>2, <1>3

LEMMA BusSteps ==
  ASSUME PortInv,
         \/ LoadList \/ BackToMain \/ SendFromList \/ Deliver \/ BusRests \/ OnStop \/ Clear
         \/ SendDatalist \/ LoRaSendData \/ AskStop
         \/ \E a \in {"main", "lora"} : Start(a)
         \/ \E k \in DOMAIN tasks : TaskPosts(k) \/ Task(k)
         \/ \E s \in Sessions : DeviceSpeaks(s)
  PROVE  PortInv'
<1> USE DEF busVars, trafficVars, loraVars, showVars
<1>0. registered \subseteq Ids /\ top \in {"none", "main", "list", "lora"} /\ shows \in Nat
  BY DEF PortInv, Types
<1>1. CASE LoadList
  BY <1>0, <1>1, BusStep DEF LoadList, Show, Ids
<1>2. CASE BackToMain
  <2>1. top' = "main" /\ top # "lora" /\ UNCHANGED <<portVars, wire, sent>>
    BY <1>2 DEF BackToMain, Show
  <2>2. shows' \in Nat /\ registered' \subseteq Ids
    <3>1. UNCHANGED <<shows, registered>> \/ Show("main")
      BY <1>2, Zenon DEF BackToMain
    <3>2. CASE Show("main")
      BY <1>0, <3>2 DEF Show, Ids
    <3> QED
      BY <1>0, <3>1, <3>2
  <2> QED
    BY <2>1, <2>2, BusStep
<1>3. CASE SendFromList
  BY <1>0, <1>3, BusStep DEF SendFromList
<1>4. CASE Deliver \/ BusRests
  BY <1>0, <1>4, BusStep DEF Deliver, BusRests
<1>5. CASE OnStop \/ AskStop
  BY <1>0, <1>5, BusStep DEF OnStop, AskStop
<1>6. CASE Clear
  BY <1>0, <1>6, BusStep DEF Clear
<1>7. CASE SendDatalist
  BY <1>0, <1>7, BusStep DEF SendDatalist
<1>8. CASE LoRaSendData
  BY <1>0, <1>8, BusStep DEF LoRaSendData
<1>9. CASE \E a \in {"main", "lora"} : Start(a)
  BY <1>0, <1>9, BusStep DEF Start, Show, Ids
<1>10. CASE \E k \in DOMAIN tasks : TaskPosts(k) \/ Task(k)
  BY <1>0, <1>10, BusStep DEF TaskPosts, Task, TaskBegins, TaskSends, TaskQueues, TaskWrites, TaskEnds
<1>11. CASE \E s \in Sessions : DeviceSpeaks(s)
  BY <1>0, <1>11, BusStep DEF DeviceSpeaks
<1> QED
  BY <1>1, <1>2, <1>3, <1>4, <1>5, <1>6, <1>7, <1>8, <1>9, <1>10, <1>11

\* The port of MainActivity stays open when it is left, that of LoRaActivity is
\* not held any more.
LEMMA LeaveStep ==
  ASSUME PortInv, Leave
  PROVE  PortInv'
<1> USE DEF PortInv, Leave, trafficVars
<1>1. \A b \in Buttons : held'[b] \in {0, held[b]} /\ (isOpen'[b] => isOpen[b])
  BY DEF Types
<1>2. Types'
  <2>0. MaxSessions \in Nat /\ opened \in 0..MaxSessions
    BY ToolAssumption DEF Types
  <2>1. 0 \in 0..opened
    BY ONLY <2>0
  <2>2. held' \in [Buttons -> 0..opened]
    BY <2>1 DEF Types
  <2>3. isOpen' \in [Buttons -> BOOLEAN]
    BY DEF Types
  <2>4. top' \in {"none", "main", "list", "lora"}
    OBVIOUS
  <2> QED
    BY <2>2, <2>3, <2>4 DEF Types
<1>3. Numbers' /\ Threads' /\ Writable' /\ InWrite' /\ OwnWire'
  BY DEF Numbers, Threads, Writable, InWrite, OwnWire
<1>4. MainHolds' /\ HeldOnce' /\ ClosingOwn'
  BY <1>1 DEF MainHolds, HeldOnce, ClosingOwn, Buttons, Types
<1>5. held'["lora"] = 0
  BY DEF LoRaHolds, ActivityOf, Buttons, Types
<1>6. LoRaHolds'
  BY <1>5 DEF LoRaHolds
<1> QED
  BY <1>2, <1>3, <1>4, <1>6

\* PortUtils.sendCommand queues the command of a writing thread that is there.
LEMMA SendRecord ==
  ASSUME PortInv, NEW b \in Buttons, Send(b)
  PROVE  \/ UNCHANGED session
         \/ \E s \in Sessions : \E r :
              /\ Replaced(s, r) /\ SameReading(r, session[s])
              /\ r.writer = session[s].writer /\ r.cmd = session[s].cmd
              /\ r.queue = Append(session[s].queue, sent')
<1>1. CASE session' # session
  <2>1. PICK s \in Sessions : session' = [session EXCEPT ![s].queue = Append(@, sent')]
    BY <1>1, HeldIsSession DEF Send
  <2>2. session[s] \in SessionRecord /\ session \in [Sessions -> SessionRecord] /\ sent' \in Nat
    <3>1. sent \in Nat /\ sent' = sent + 1
      BY ToolAssumption DEF PortInv, Types, Send
    <3> QED
      BY <3>1 DEF PortInv, Types
  <2>3. Append(session[s].queue, sent') \in Seq(Nat)
    BY <2>2 DEF SessionRecord
  <2> DEFINE r == [session[s] EXCEPT !.queue = Append(session[s].queue, sent')]
  <2>4. session' = [session EXCEPT ![s] = r]
    BY <2>1, <2>2
  <2>5. /\ r \in SessionRecord /\ SameStreams(r, session[s]) /\ SameReading(r, session[s])
        /\ r.writer = session[s].writer /\ r.cmd = session[s].cmd
        /\ r.queue = Append(session[s].queue, sent')
    BY <2>2, <2>3 DEF SessionRecord, SameStreams, SameReading
  <2> QED
    BY <2>4, <2>5 DEF Replaced
<1> QED
  BY <1>1

LEMMA SendStep ==
  ASSUME PortInv, NEW b \in Buttons, Send(b)
  PROVE  PortInv'
<1>1. /\ UNCHANGED <<opened, fds, held, isOpen, closing, top, wire, shows, registered>>
      /\ sent' = sent + 1 /\ sent < MaxCommands
  BY DEF Send, busVars, showVars
<1>2. sent' \in 0..MaxCommands /\ shows' \in Nat /\ registered' \subseteq Ids
  BY <1>1, ToolAssumption DEF PortInv, Types
<1>3. CASE UNCHANGED session
  <2>1. Types'
    BY <1>1, <1>2, <1>3 DEF PortInv, Types
  <2>2. Numbers' /\ Threads' /\ Writable' /\ InWrite' /\ HeldOnce' /\ OwnWire'
    BY <1>1, <1>3 DEF PortInv, Numbers, Threads, Writable, InWrite, HeldOnce, OwnWire
  <2>3. MainHolds' /\ LoRaHolds' /\ ClosingOwn'
    BY <1>1, <1>3 DEF PortInv, MainHolds, LoRaHolds, ClosingOwn
  <2> QED
    BY <2>1, <2>2, <2>3 DEF PortInv
<1>4. ASSUME NEW s \in Sessions, NEW r, Replaced(s, r), SameReading(r, session[s]),
             r.writer = session[s].writer, r.cmd = session[s].cmd
      PROVE  PortInv'
  <2>1. OwnWire' /\ wire' \in [Sessions -> Seq([s : Sessions, cmd : Nat])]
    BY <1>1, <1>4, SameWire
  <2>2. r.writer = "writing" => session[s].out \/ (session[s].writer = "writing" /\ r.cmd = session[s].cmd)
    BY <1>4
  <2> QED
    BY <1>1, <1>2, <1>4, <2>1, <2>2, ThreadKeeps DEF SameReading
<1> QED
  BY <1>3, <1>4, SendRecord

-----------------------------------------------------------------------------
(* Opening and closing                                                     *)

LEMMA NoSessionRecord ==
  /\ NoSession \in SessionRecord /\ NoSession.fd = 0 /\ NoSession.writer = "none"
  /\ NoSession.reader = "none" /\ NoSession.queue = <<>> /\ NoSession.cmd = 0
<1>1. 0 \in 0..MaxSessions /\ <<>> \in Seq(Nat) /\ "none" \in AllDevices
  BY ToolAssumption DEF AllDevices
<1> QED
  BY <1>1 DEF NoSession, NewSession, SessionRecord, Readers, Writers

LEMMA OpenStep ==
  ASSUME PortInv, closing.step = "none", NEW b \in Buttons, Open(b)
  PROVE  PortInv'
<1> DEFINE s == opened + 1
           n == Min({k \in Sessions : fds[k] = 0})
<1>1. /\ MaxSessions \in Nat /\ opened \in 0..MaxSessions /\ s <= MaxSessions
      /\ s \in Sessions /\ opened \in Nat
  BY ToolAssumption DEF PortInv, Types, Open, Sessions
<1>2. n \in Sessions /\ fds[n] = 0
  BY <1>1, NumberIsFree DEF PortInv
<1>0. PICK d \in Devices[s] : session' = [session EXCEPT ![s] = NewSession(b, n, d)]
  BY DEF Open
<1> DEFINE r == NewSession(b, n, d)
<1>3. /\ opened' = s
      /\ held' = [held EXCEPT ![b] = s] /\ isOpen' = [isOpen EXCEPT ![b] = TRUE]
      /\ session' = [session EXCEPT ![s] = r] /\ fds' = [fds EXCEPT ![n] = s]
      /\ UNCHANGED <<closing, wire, sent, top, registered, shows>>
      /\ top = ActivityOf(b) /\ ~isOpen[b]
  BY <1>0 DEF Open, trafficVars, busVars, showVars
<1>4. r \in SessionRecord /\ r.fd = n /\ r.writer # "writing"
  <2>1. n \in 0..MaxSessions /\ d \in AllDevices /\ 0 \in 0..MaxSessions
    BY <1>1, <1>2 DEF Sessions, AllDevices
  <2>2. <<>> \in Seq(Nat)
    OBVIOUS
  <2> HIDE DEF n
  <2> QED
    BY <2>1, <2>2 DEF NewSession, SessionRecord, Readers, Writers
<1> HIDE DEF n, r
<1>5. \A t \in Sessions : session'[t] = IF t = s THEN r ELSE session[t]
  BY <1>3 DEF PortInv, Types
<1>6. \A k \in Sessions : fds'[k] = IF k = n THEN s ELSE fds[k]
  BY <1>3 DEF PortInv, Types
<1>7. \A c \in Buttons : held'[c] = IF c = b THEN s ELSE held[c]
  BY <1>3 DEF PortInv, Types
<1>8. \A c \in Buttons : isOpen'[c] = IF c = b THEN TRUE ELSE isOpen[c]
  BY <1>3 DEF PortInv, Types
<1>9. \A k \in Sessions : fds[k] \in 0..opened
  BY DEF PortInv, Types
<1>10. \A c \in Buttons : held[c] \in 0..opened /\ (held[c] # 0 => held[c] \in Sessions)
  BY HeldIsSession DEF PortInv, Types
<1>11. Types'
  <2>1. \A v : v \in 0..opened => v \in 0..s
    BY <1>1
  <2>2. s \in 0..s
    BY <1>1
  <2>3. fds' \in [Sessions -> 0..s]
    BY <1>3, <2>1, <2>2 DEF PortInv, Types
  <2>4. held' \in [Buttons -> 0..s]
    BY <1>3, <2>1, <2>2 DEF PortInv, Types
  <2>5. session' \in [Sessions -> SessionRecord]
    BY <1>3, <1>4 DEF PortInv, Types
  <2>6. closing \in [step : Steps, s : 0..s]
    BY <2>1 DEF PortInv, Types
  <2>7. s \in 0..MaxSessions
    BY <1>1
  <2> QED
    BY <1>3, <2>3, <2>4, <2>5, <2>6, <2>7 DEF PortInv, Types
<1>12. Numbers'
  BY <1>1, <1>4, <1>5, <1>6, <1>9 DEF PortInv, Numbers, Sessions
<1>13. Writable'
  <2> SUFFICES ASSUME NEW t \in Sessions, session'[t].writer # "none", session'[t].out
               PROVE  fds'[session'[t].fd] = t
    BY DEF Writable
  <2>1. CASE t = s
    BY <1>2, <1>4, <1>5, <1>6, <2>1
  <2>2. CASE t # s
    <3>1. session[t].fd \in Sessions /\ fds[session[t].fd] = t /\ t # 0
      BY <1>5, <2>2 DEF PortInv, Writable, Threads, Sessions
    <3> QED
      BY <1>2, <1>5, <1>6, <2>2, <3>1
  <2> QED
    BY <2>1, <2>2
<1>14. \A c \in Buttons : c # b /\ held[c] # 0 => held[c] # s
  BY <1>1, <1>10
<1>15. MainHolds'
  <2> SUFFICES ASSUME NEW c \in MainPorts, isOpen'[c], held'[c] # 0, session'[held'[c]].fd # 0
               PROVE  fds'[session'[held'[c]].fd] = held'[c]
    BY DEF MainHolds
  <2>1. c \in Buttons
    BY DEF Buttons
  <2>2. CASE c = b
    BY <1>1, <1>2, <1>4, <1>5, <1>6, <1>7, <2>1, <2>2
  <2>3. CASE c # b
    <3>1. held'[c] = held[c] /\ isOpen[c] /\ held[c] \in Sessions /\ held[c] # s
      BY <1>7, <1>8, <1>10, <1>14, <2>1, <2>3
    <3>2. session'[held[c]] = session[held[c]] /\ session[held[c]].fd # 0
      BY <1>5, <3>1
    <3>3. fds[session[held[c]].fd] = held[c]
      BY <3>1, <3>2 DEF PortInv, MainHolds
    <3>4. session[held[c]].fd \in Sessions
      BY <3>1, <3>2 DEF PortInv, Types, SessionRecord, Sessions
    <3> QED
      BY <1>2, <1>6, <3>1, <3>2, <3>3, <3>4
  <2> QED
    BY <2>2, <2>3
<1>16. LoRaHolds'
  <2> SUFFICES ASSUME held'["lora"] # 0 PROVE LoRaHolds'
    BY DEF LoRaHolds
  <2>1. b = "lora"
    BY <1>3, <1>7 DEF ActivityOf, PortInv, LoRaHolds, Buttons
  <2> QED
    BY <1>1, <1>2, <1>3, <1>4, <1>5, <1>6, <1>7, <2>1 DEF LoRaHolds, ActivityOf, Sessions
<1>17. HeldOnce'
  BY <1>1, <1>7, <1>10, <1>14 DEF PortInv, HeldOnce
<1>18. ClosingOwn'
  BY <1>3 DEF ClosingOwn
<1>19. OwnWire'
  <2>1. \A o \in Sessions : \A i \in 1..Len(wire[o]) :
          wire[o][i].s \in Sessions /\ wire[o][i].s # s /\ wire[o][i].s <= s
    BY <1>1, WireRecords DEF PortInv, OwnWire, Sessions
  <2> QED
    BY <1>3, <1>5, <2>1 DEF PortInv, OwnWire
<1>20. Threads'
  <2>1. \A t \in Sessions : t <= opened => t <= s
    BY <1>1 DEF Sessions
  <2>2. s <= s
    BY <1>1
  <2> QED
    BY <1>2, <1>3, <1>4, <1>5, <2>1, <2>2 DEF PortInv, Threads
<1>21. InWrite'
  BY <1>4, <1>5 DEF PortInv, InWrite
<1> QED
  BY <1>11, <1>12, <1>13, <1>15, <1>16, <1>17, <1>18, <1>19, <1>20, <1>21
     DEF PortInv

\* The number of a session counts, but no descriptor is taken.
LEMMA OpenFailsStep ==
  ASSUME PortInv, closing.step = "none", NEW b \in Buttons, OpenFails(b)
  PROVE  PortInv'
<1> DEFINE s == opened + 1
<1>1. /\ MaxSessions \in Nat /\ opened \in 0..MaxSessions /\ s <= MaxSessions
      /\ s \in Sessions /\ opened \in Nat
  BY ToolAssumption DEF PortInv, Types, OpenFails, Sessions
<1>2. /\ opened' = s /\ isOpen' = [isOpen EXCEPT ![b] = TRUE]
      /\ UNCHANGED <<fds, closing, wire, sent, top, registered, shows>>
      /\ top = ActivityOf(b)
  BY DEF OpenFails, trafficVars, busVars, showVars
<1>3. \/ b = "lora" /\ UNCHANGED <<held, session>>
      \/ /\ b # "lora" /\ held' = [held EXCEPT ![b] = s]
         /\ session' = [session EXCEPT ![s] = NoSession]
  BY DEF OpenFails
<1>4. /\ NoSession \in SessionRecord /\ NoSession.fd = 0 /\ NoSession.writer = "none"
      /\ NoSession.reader = "none"
  BY NoSessionRecord
<1>5. \A t \in Sessions : session'[t] = session[t] \/ (t = s /\ b # "lora" /\ session'[t] = NoSession)
  BY <1>3 DEF PortInv, Types
<1>6. \A c \in Buttons : held'[c] = held[c] \/ (c = b /\ b # "lora" /\ held'[c] = s)
  BY <1>3 DEF PortInv, Types
<1>7. \A c \in Buttons : isOpen'[c] = IF c = b THEN TRUE ELSE isOpen[c]
  BY <1>2 DEF PortInv, Types
<1>8. \A k \in Sessions : fds[k] \in 0..opened
  BY DEF PortInv, Types
<1>9. \A c \in Buttons : held[c] \in 0..opened /\ (held[c] # 0 => held[c] \in Sessions)
  BY HeldIsSession DEF PortInv, Types
<1>10. Types'
  <2>1. \A v : v \in 0..opened => v \in 0..s
    BY <1>1
  <2>2. s \in 0..s /\ s \in 0..MaxSessions
    BY <1>1
  <2>3. fds' \in [Sessions -> 0..s] /\ closing' \in [step : Steps, s : 0..s]
    BY <1>2, <2>1 DEF PortInv, Types
  <2>4. held' \in [Buttons -> 0..s]
    BY <1>3, <2>1, <2>2 DEF PortInv, Types
  <2>5. session' \in [Sessions -> SessionRecord]
    BY <1>3, <1>4 DEF PortInv, Types
  <2> QED
    BY <1>2, <2>2, <2>3, <2>4, <2>5 DEF PortInv, Types
<1>11. \A t \in Sessions : t # s => session'[t] = session[t]
  BY <1>5
<1>12. Numbers'
  BY <1>1, <1>2, <1>8, <1>11 DEF PortInv, Numbers, Sessions
<1>13. Writable' /\ InWrite'
  BY <1>2, <1>4, <1>5 DEF PortInv, Writable, InWrite
<1>14. MainHolds'
  <2> SUFFICES ASSUME NEW c \in MainPorts, isOpen'[c], held'[c] # 0, session'[held'[c]].fd # 0
               PROVE  fds'[session'[held'[c]].fd] = held'[c]
    BY DEF MainHolds
  <2>1. c \in Buttons
    BY DEF Buttons
  <2>2. c # "lora"
    BY ToolAssumption
  <2>3. CASE c = b
    <3>1. held'[c] = s /\ session'[s] = NoSession
      BY <1>1, <1>3, <2>1, <2>2, <2>3 DEF PortInv, Types
    <3> QED
      BY <1>4, <3>1
  <2>4. CASE c # b
    <3>1. held'[c] = held[c] /\ isOpen[c] /\ held[c] \in Sessions /\ held[c] # s
      <4>1. held'[c] = held[c]
        BY <1>6, <2>1, <2>4
      <4>2. isOpen[c]
        BY <1>7, <2>1, <2>4
      <4> QED
        BY <1>1, <1>9, <2>1, <4>1, <4>2
    <3> QED
      BY <1>2, <1>11, <3>1 DEF PortInv, MainHolds
  <2> QED
    BY <2>3, <2>4
<1>15. LoRaHolds'
  <2>1. held'["lora"] = held["lora"] /\ (held["lora"] # 0 => held["lora"] \in Sessions /\ held["lora"] # s)
    BY <1>1, <1>6, <1>9 DEF Buttons
  <2> QED
    BY <1>2, <1>11, <2>1 DEF PortInv, LoRaHolds
<1>16. HeldOnce'
  BY <1>1, <1>6, <1>9 DEF PortInv, HeldOnce
<1>17. ClosingOwn'
  BY <1>2 DEF PortInv, ClosingOwn
<1>18. OwnWire'
  <2>1. \A o \in Sessions : \A i \in 1..Len(wire[o]) :
          wire[o][i].s \in Sessions /\ wire[o][i].s # s /\ wire[o][i].s <= s
    BY <1>1, WireRecords DEF PortInv, OwnWire, Sessions
  <2> QED
    BY <1>2, <1>11, <2>1 DEF PortInv, OwnWire
<1>19. Threads'
  <2>1. \A t \in Sessions : t <= opened => t <= s
    BY <1>1 DEF Sessions
  <2> QED
    BY <1>2, <1>4, <1>5, <2>1 DEF PortInv, Threads
<1> QED
  BY <1>10, <1>12, <1>13, <1>14, <1>15, <1>16, <1>17, <1>18, <1>19 DEF PortInv

LEMMA CloseStep ==
  ASSUME PortInv, closing.step = "none", NEW b \in Buttons, Close(b)
  PROVE  PortInv'
<1>1. /\ isOpen' = [isOpen EXCEPT ![b] = FALSE] /\ isOpen[b]
      /\ UNCHANGED <<session, opened, fds, held, wire, sent, top, registered, shows>>
      /\ \/ closing' = closing
         \/ /\ held[b] # 0 /\ session[held[b]].fd # 0
            /\ closing' = [step |-> "in", s |-> held[b]]
  BY DEF Close, trafficVars, busVars, showVars
<1>2. \A c \in Buttons : isOpen'[c] = (c # b /\ isOpen[c])
  BY <1>1 DEF PortInv, Types
<1>3. Types'
  <2>1. held[b] \in 0..opened
    BY DEF PortInv, Types
  <2>2. closing' \in [step : Steps, s : 0..opened]
    BY <1>1, <2>1 DEF PortInv, Types, Steps
  <2>3. isOpen' \in [Buttons -> BOOLEAN]
    BY <1>1 DEF PortInv, Types
  <2> QED
    BY <1>1, <2>2, <2>3 DEF PortInv, Types
<1>4. Numbers' /\ Threads' /\ Writable' /\ InWrite' /\ LoRaHolds' /\ HeldOnce' /\ OwnWire'
  BY <1>1 DEF PortInv, Numbers, Threads, Writable, InWrite, LoRaHolds, HeldOnce, OwnWire
<1>5. MainHolds'
  BY <1>1, <1>2 DEF PortInv, MainHolds, Buttons
<1>6. ClosingOwn'
  <2>1. CASE closing' = closing
    BY <2>1 DEF ClosingOwn
  <2>2. CASE held[b] # 0 /\ session[held[b]].fd # 0 /\ closing' = [step |-> "in", s |-> held[b]]
    <3>1. fds[session[held[b]].fd] \in {0, held[b]}
      <4>1. CASE b \in MainPorts
        BY <1>1, <2>2, <4>1 DEF PortInv, MainHolds
      <4>2. CASE b = "lora"
        BY <2>2, <4>2 DEF PortInv, LoRaHolds
      <4> QED
        BY <4>1, <4>2 DEF Buttons
    <3>2. \A c \in MainPorts : isOpen'[c] => held[c] # held[b]
      BY <1>2, <2>2 DEF PortInv, HeldOnce, Buttons
    <3> QED
      BY <1>1, <2>2, <3>1, <3>2 DEF ClosingOwn
  <2> QED
    BY <1>1, <2>1, <2>2
<1> QED
  BY <1>3, <1>4, <1>5, <1>6 DEF PortInv

\* All but the last step of closing, and what becomes of the session.
LEMMA CloseRecord ==
  ASSUME PortInv, CloseIn \/ Interrupt \/ CloseOut \/ Quit
  PROVE  /\ closing.step # "none" /\ closing.s \in Sessions
         /\ \E r \in SessionRecord :
              /\ session' = [session EXCEPT ![closing.s] = r]
              /\ r.fd = session[closing.s].fd /\ r.writer = session[closing.s].writer
              /\ r.reader = session[closing.s].reader /\ r.cmd = session[closing.s].cmd
              /\ r.queue \in {<<>>, session[closing.s].queue}
              /\ \/ r.out = session[closing.s].out /\ r.caught = session[closing.s].caught
                 \/ /\ ~r.out
                    /\ r.caught = IF session[closing.s].writer = "writing"
                                  THEN session[closing.s].cmd ELSE session[closing.s].caught
              /\ closing'.step \in {"quit", "fd"} => r.writer = "none" \/ ~r.out
<1> DEFINE s == closing.s
           x == session[s]
<1> USE DEF Closing
<1>1. /\ closing.step # "none" /\ s \in Sessions /\ x \in SessionRecord
      /\ session \in [Sessions -> SessionRecord]
  BY ToolAssumption
     DEF CloseIn, Interrupt, CloseOut, Quit, PortInv, Types, ClosingOwn, Sessions
<1>2. CASE CloseIn
  <2> DEFINE r == [x EXCEPT !.in = FALSE]
  <2>1. session' = [session EXCEPT ![s] = r] /\ closing'.step = "intr"
    BY <1>1, <1>2 DEF CloseIn, PortInv, Types
  <2>2. /\ r \in SessionRecord /\ r.fd = x.fd /\ r.writer = x.writer /\ r.reader = x.reader
        /\ r.cmd = x.cmd /\ r.queue = x.queue /\ r.out = x.out /\ r.caught = x.caught
    BY <1>1 DEF SessionRecord
  <2> QED
    BY <1>1, <2>1, <2>2
<1>3. CASE Interrupt
  <2> DEFINE r == [x EXCEPT !.intr = TRUE]
  <2>1. session' = [session EXCEPT ![s] = r] /\ (closing'.step = "out" \/ x.writer = "none")
    BY <1>1, <1>3 DEF Interrupt, PortInv, Types
  <2>2. /\ r \in SessionRecord /\ r.fd = x.fd /\ r.writer = x.writer /\ r.reader = x.reader
        /\ r.cmd = x.cmd /\ r.queue = x.queue /\ r.out = x.out /\ r.caught = x.caught
    BY <1>1 DEF SessionRecord
  <2> QED
    BY <1>1, <2>1, <2>2
<1>4. CASE CloseOut
  <2> DEFINE c == IF x.writer = "writing" THEN x.cmd ELSE x.caught
             r == [x EXCEPT !.out = FALSE, !.caught = c]
  <2>1. session' = [session EXCEPT ![s] = r] /\ c \in Nat
    BY <1>1, <1>4 DEF CloseOut, SessionRecord
  <2> HIDE DEF c
  <2>2. /\ r \in SessionRecord /\ r.fd = x.fd /\ r.writer = x.writer /\ r.reader = x.reader
        /\ r.cmd = x.cmd /\ r.queue = x.queue /\ ~r.out /\ r.caught = c
    BY <1>1, <2>1 DEF SessionRecord
  <2> QED
    BY <1>1, <2>1, <2>2 DEF c
<1>5. CASE Quit
  <2> DEFINE r == [x EXCEPT !.quit = TRUE, !.queue = <<>>]
  <2>0. <<>> \in Seq(Nat)
    OBVIOUS
  <2>1. session' = [session EXCEPT ![s] = r]
    BY <1>1, <1>5 DEF Quit
  <2>2. x.writer = "none" \/ ~x.out
    BY <1>1, <1>5 DEF Quit, PortInv, ClosingOwn
  <2>3. /\ r \in SessionRecord /\ r.fd = x.fd /\ r.writer = x.writer /\ r.reader = x.reader
        /\ r.cmd = x.cmd /\ r.queue = <<>> /\ r.out = x.out /\ r.caught = x.caught
    BY <1>1, <2>0 DEF SessionRecord
  <2> QED
    BY <1>1, <2>1, <2>2, <2>3
<1> QED
  BY <1>2, <1>3, <1>4, <1>5

\* A stream is closed but once: what was caught in it, and written, stays what it was.
LEMMA CloseStreams ==
  ASSUME PortInv, CloseIn \/ Interrupt \/ CloseOut \/ Quit
  PROVE  PortInv'
<1> DEFINE s == closing.s
           x == session[s]
<1>1. closing.step # "none" /\ s \in Sessions
  BY CloseRecord
<1>2. PICK r \in SessionRecord :
         /\ session' = [session EXCEPT ![s] = r]
         /\ r.fd = x.fd /\ r.writer = x.writer /\ r.reader = x.reader /\ r.cmd = x.cmd
         /\ \/ r.out = x.out /\ r.caught = x.caught
            \/ ~r.out /\ r.caught = IF x.writer = "writing" THEN x.cmd ELSE x.caught
         /\ closing'.step \in {"quit", "fd"} => r.writer = "none" \/ ~r.out
  BY CloseRecord
<1>3. /\ UNCHANGED <<opened, fds, held, isOpen, top, sent, wire, registered, shows>>
      /\ closing'.s = s /\ closing' \in [step : Steps, s : 0..opened]
  <2>1. closing \in [step : Steps, s : 0..opened]
    BY DEF PortInv, Types
  <2>2. \E next \in Steps \ {"none"} : closing' = [closing EXCEPT !.step = next]
    BY DEF CloseIn, Interrupt, CloseOut, Quit, Closing, Steps
  <2>3. UNCHANGED <<opened, fds, held, isOpen, top, sent, wire, registered, shows>>
    BY DEF CloseIn, Interrupt, CloseOut, Quit, Closing, trafficVars, busVars, showVars
  <2> QED
    BY <2>1, <2>2, <2>3
<1>4. /\ \A t \in Sessions : session'[t] = IF t = s THEN r ELSE session[t]
      /\ session' \in [Sessions -> SessionRecord]
  BY <1>2 DEF PortInv, Types
<1>5. /\ \A t \in Sessions :
           /\ session'[t].fd = session[t].fd /\ (session'[t].out => session[t].out)
           /\ session'[t].writer = session[t].writer /\ session'[t].reader = session[t].reader
      /\ \A n \in 0..opened : n # 0 => n \in Sessions
      /\ r.out \in BOOLEAN /\ x.out \in BOOLEAN
  <2>1. r.out \in BOOLEAN /\ x.out \in BOOLEAN
    BY <1>1 DEF PortInv, Types, SessionRecord
  <2>2. \A n \in 0..opened : n # 0 => n \in Sessions
    BY ToolAssumption DEF PortInv, Types, Sessions
  <2> QED
    BY <1>2, <1>4, <2>1, <2>2
<1>6. Types'
  BY <1>3, <1>4 DEF PortInv, Types
<1>7. Numbers' /\ Threads'
  BY <1>3, <1>5 DEF PortInv, Types, Numbers, Threads
<1>8. Writable'
  BY <1>3, <1>5 DEF PortInv, Writable
<1>9. InWrite'
  BY <1>2, <1>4, <1>5 DEF PortInv, InWrite
<1>10. \A b \in Buttons : held[b] # 0 => held[b] \in Sessions
  BY <1>5 DEF PortInv, Types
<1>11. MainHolds' /\ LoRaHolds' /\ HeldOnce'
  BY <1>3, <1>5, <1>10 DEF PortInv, MainHolds, LoRaHolds, HeldOnce, Buttons
<1>12. ClosingOwn'
  BY <1>1, <1>2, <1>3, <1>4 DEF PortInv, ClosingOwn
<1>13. OwnWire'
  <2> SUFFICES ASSUME NEW o \in Sessions, NEW i \in 1..Len(wire[o]), wire[o][i].s # o
               PROVE  ~session'[wire[o][i].s].out /\ wire[o][i].cmd = session'[wire[o][i].s].caught
    BY <1>3 DEF PortInv, OwnWire
  <2>1. /\ wire[o][i].s \in Sessions /\ ~session[wire[o][i].s].out
        /\ wire[o][i].cmd = session[wire[o][i].s].caught
    BY WireRecords DEF PortInv, OwnWire
  <2>2. CASE wire[o][i].s = s
    <3>1. ~x.out /\ (x.writer = "writing" => x.caught = x.cmd)
      BY <1>1, <2>1, <2>2 DEF PortInv, InWrite
    <3> QED
      BY <1>2, <1>4, <2>1, <2>2, <3>1
  <2>3. CASE wire[o][i].s # s
    BY <1>4, <2>1, <2>3
  <2> QED
    BY <2>2, <2>3
<1> QED
  BY <1>6, <1>7, <1>8, <1>9, <1>11, <1>12, <1>13 DEF PortInv

\* The number that is closed is still that of the session, or of nobody.
LEMMA CloseFdStep ==
  ASSUME PortInv, CloseFd
  PROVE  PortInv'
<1> DEFINE s == closing.s
           n == session[s].fd
<1>1. /\ closing.step = "fd" /\ closing' = NotClosing /\ fds' = [fds EXCEPT ![n] = 0]
      /\ UNCHANGED <<session, opened, held, isOpen, wire, sent, top, registered, shows>>
  BY DEF CloseFd, Closing, trafficVars, busVars, showVars
<1>2. /\ s # 0 /\ n # 0 /\ fds[n] \in {0, s}
      /\ \A b \in MainPorts : isOpen[b] => held[b] # s
      /\ session[s].writer = "none" \/ ~session[s].out
  BY <1>1 DEF PortInv, ClosingOwn
<1>3. MaxSessions \in Nat /\ opened \in 0..MaxSessions /\ s \in Sessions
  BY <1>2, ToolAssumption DEF PortInv, Types, Sessions
<1>4. \A k \in Sessions : fds'[k] = IF k = n THEN 0 ELSE fds[k]
  BY <1>1 DEF PortInv, Types
<1>5. 0 \in 0..opened
  BY <1>3
<1>6. Types'
  <2>1. fds' \in [Sessions -> 0..opened]
    BY <1>1, <1>5 DEF PortInv, Types
  <2>2. closing' \in [step : Steps, s : 0..opened]
    BY <1>1, <1>5 DEF NotClosing, Steps
  <2> QED
    BY <1>1, <2>1, <2>2 DEF PortInv, Types
<1>7. Numbers'
  BY <1>1, <1>4 DEF PortInv, Numbers
<1>8. Writable'
  <2> SUFFICES ASSUME NEW t \in Sessions, session[t].writer # "none", session[t].out
               PROVE  fds'[session[t].fd] = t
    BY <1>1 DEF Writable
  <2>1. session[t].fd \in Sessions /\ fds[session[t].fd] = t
    BY DEF PortInv, Threads, Writable
  <2>2. t # 0
    BY DEF Sessions
  <2> QED
    BY <1>2, <1>4, <2>1, <2>2
<1>9. \A c \in Buttons : held[c] # 0 /\ session[held[c]].fd # 0 => session[held[c]].fd \in Sessions
  <2> SUFFICES ASSUME NEW c \in Buttons, held[c] # 0, session[held[c]].fd # 0
               PROVE  session[held[c]].fd \in Sessions
    OBVIOUS
  <2>1. held[c] \in Sessions
    BY HeldIsSession
  <2>2. session[held[c]].fd \in 0..MaxSessions
    BY <2>1 DEF PortInv, Types, SessionRecord
  <2> QED
    BY <1>3, <2>2 DEF Sessions
<1>10. MainHolds'
  BY <1>1, <1>2, <1>4, <1>9 DEF PortInv, MainHolds, Buttons
<1>11. LoRaHolds'
  BY <1>1, <1>4, <1>9 DEF PortInv, LoRaHolds, Buttons
<1>12. HeldOnce' /\ Threads' /\ InWrite' /\ OwnWire' /\ ClosingOwn'
  BY <1>1 DEF PortInv, HeldOnce, Threads, InWrite, OwnWire, ClosingOwn, NotClosing
<1> QED
  BY <1>6, <1>7, <1>8, <1>10, <1>11, <1>12 DEF PortInv

-----------------------------------------------------------------------------
(* The ports                                                               *)

LEMMA PortInit ==
  ASSUME Init
  PROVE  PortInv
<1>1. MaxSessions \in Nat /\ MaxCommands \in Nat
  BY ToolAssumption
<1>2. Types
  <2>1. <<>> \in Seq([s : Sessions, cmd : Nat])
    OBVIOUS
  <2>2. 0 \in 0..MaxSessions /\ 0 \in 0..MaxCommands /\ 0 \in 0..0
    BY <1>1
  <2> QED
    BY <2>1, <2>2, NoSessionRecord DEF Init, Types, NotClosing, Steps
<1>3. /\ Numbers /\ Threads /\ Writable /\ InWrite /\ MainHolds /\ LoRaHolds /\ HeldOnce
      /\ ClosingOwn
  BY NoSessionRecord
     DEF Init, Numbers, Threads, Writable, InWrite, MainHolds, LoRaHolds, HeldOnce, ClosingOwn,
         NotClosing, Buttons
<1>4. OwnWire
  BY DEF Init, OwnWire
<1> QED
  BY <1>2, <1>3, <1>4 DEF PortInv

LEMMA PortNext ==
  ASSUME PortInv, [Next]_vars
  PROVE  PortInv'
<1>1. CASE Interface
  <2>1. closing.step = "none"
    BY <1>1 DEF Interface
  <2>2. CASE Leave
    BY <2>2, LeaveStep
  <2>3. CASE \E b \in Buttons : Open(b) \/ OpenFails(b) \/ Close(b) \/ Send(b)
    BY <2>1, <2>3, OpenStep, OpenFailsStep, CloseStep, SendStep
  <2>4. CASE \E k \in DOMAIN tasks : TaskPosts(k)
    BY <2>4, BusSteps
  <2>5. CASE \/ LoadList \/ BackToMain \/ SendFromList \/ Deliver \/ BusRests \/ OnStop \/ Clear
             \/ SendDatalist \/ LoRaSendData
             \/ \E a \in {"main", "lora"} : Start(a)
    BY <2>5, BusSteps
  <2> QED
    BY <1>1, <2>2, <2>3, <2>4, <2>5 DEF Interface
<1>2. CASE ClosingStep
  BY <1>2, CloseStreams, CloseFdStep DEF ClosingStep
<1>3. CASE AskStop
  BY <1>3, BusSteps
<1>4. CASE \E s \in Sessions : Writer(s) \/ Reader(s) \/ DeviceSpeaks(s)
  BY <1>4, ThreadSteps, BusSteps
<1>5. CASE \E k \in DOMAIN tasks : Task(k)
  BY <1>5, BusSteps
<1>6. CASE UNCHANGED vars
  <2>1. UNCHANGED <<portVars, wire, sent, registered, shows, top>>
    BY <1>6 DEF vars, trafficVars, busVars, showVars
  <2> QED
    BY <2>1, BusStep DEF PortInv, Types
<1> QED
  BY <1>1, <1>2, <1>3, <1>4, <1>5, <1>6 DEF Next

\* MainActivity, PortUtils and SerialPort.close: whichever ports are opened, closed
\* and left, and however many, the descriptors keep their owners as PortInv says.
THEOREM PortsKeepTheirNumbers == Spec => []PortInv
<1>1. Init => PortInv
  BY PortInit
<1>2. PortInv /\ [Next]_vars => PortInv'
  BY PortNext
<1> QED
  BY <1>1, <1>2, PTL DEF Spec

\* sendData, PortUtils.close and SerialPort.close: though the numbers of descriptors
\* are used again, and the writing thread tests the stream in one step and writes to
\* the number in another, a command reaches another port only if it was the one inside
\* write() when the stream of its port was closed.
THEOREM CommandsReachOwnPort == Spec => []OwnPort
<1>1. PortInv => OwnPort
  BY DEF PortInv, OwnWire, OwnPort
<1> QED
  BY <1>1, PortsKeepTheirNumbers, PTL

-----------------------------------------------------------------------------
(* The tasks of LoRaActivity                                               *)

TaskRecord == [start : BOOLEAN, st : {"queued", "run", "posting", "post", "done"}, own : BOOLEAN,
               port : 0..MaxSessions, to : SUBSET Ids]

TaskInv == tasks \in Seq(TaskRecord) /\ started \in BOOLEAN /\ OneSender

\* A function on 1..n is a sequence of length n.
LEMMA TaskSequence ==
  ASSUME NEW n \in Nat, NEW q \in [1..n -> TaskRecord]
  PROVE  q \in Seq(TaskRecord) /\ Len(q) = n /\ DOMAIN q = 1..n
OBVIOUS

\* The state and the port of a task do not matter for it.
LEMMA TaskMoves ==
  ASSUME TaskInv, NEW k \in DOMAIN tasks, NEW v \in {"run", "posting", "post", "done"},
         NEW to \in SUBSET Ids,
         \/ tasks' = [tasks EXCEPT ![k].st = v]
         \/ tasks' = [tasks EXCEPT ![k].st = v, ![k].to = to]
         \/ tasks' = [tasks EXCEPT ![k].to = to],
         UNCHANGED started
  PROVE  TaskInv'
<1>1. /\ DOMAIN tasks = 1..Len(tasks) /\ Len(tasks) \in Nat
      /\ \A j \in DOMAIN tasks : tasks[j] \in TaskRecord
  BY DEF TaskInv
<1>2. PICK r \in {[tasks[k] EXCEPT !.st = v], [tasks[k] EXCEPT !.st = v, !.to = to],
                  [tasks[k] EXCEPT !.to = to]} : tasks' = [tasks EXCEPT ![k] = r]
  BY <1>1
<1>3. r \in TaskRecord /\ r.own = tasks[k].own /\ r.start = tasks[k].start
  BY <1>1, <1>2 DEF TaskRecord
<1>4. tasks' \in Seq(TaskRecord) /\ DOMAIN tasks' = DOMAIN tasks /\ Len(tasks') = Len(tasks)
  BY <1>1, <1>2, <1>3 DEF TaskInv
<1>5. \A j \in DOMAIN tasks : tasks'[j].own = tasks[j].own /\ tasks'[j].start = tasks[j].start
  BY <1>1, <1>2, <1>3
<1> QED
  BY <1>4, <1>5 DEF TaskInv, OneSender

LEMMA TaskNext ==
  ASSUME PortInv, TaskInv, [Next]_vars
  PROVE  TaskInv'
<1>1. /\ DOMAIN tasks = 1..Len(tasks) /\ Len(tasks) \in Nat
      /\ \A j \in DOMAIN tasks : tasks[j] \in TaskRecord
  BY DEF TaskInv
<1>2. ASSUME UNCHANGED loraVars PROVE TaskInv'
  BY <1>2 DEF TaskInv, OneSender, loraVars
<1>3. CASE Leave
  <2>1. CASE UNCHANGED loraVars
    BY <1>2, <2>1
  <2>2. CASE ~ UNCHANGED loraVars
    <3>1. /\ started' = FALSE
          /\ tasks' = [k \in DOMAIN tasks |->
                         IF tasks[k].own THEN [tasks[k] EXCEPT !.own = FALSE, !.port = held["lora"]]
                                         ELSE tasks[k]]
      BY <1>3, <2>2 DEF Leave
    <3>2. held["lora"] \in 0..MaxSessions
      BY ToolAssumption DEF PortInv, Types, Buttons
    <3>3. \A k \in DOMAIN tasks : tasks'[k] \in TaskRecord /\ ~ tasks'[k].own
      BY <1>1, <3>1, <3>2 DEF TaskRecord
    <3>4. tasks' \in [1..Len(tasks) -> TaskRecord]
      BY <1>1, <3>1, <3>3
    <3>5. tasks' \in Seq(TaskRecord) /\ DOMAIN tasks' = DOMAIN tasks
      BY <1>1, <3>4, TaskSequence
    <3> QED
      BY <3>1, <3>3, <3>5 DEF TaskInv, OneSender
  <2> QED
    BY <2>1, <2>2
<1>4. CASE LoRaSendData
  <2>1. started' = ~started
    BY <1>4 DEF LoRaSendData
  <2>2. CASE ~started
    <3> DEFINE t == [start |-> text = "send", st |-> "queued", own |-> TRUE, port |-> 0,
                   to |-> {}]
    <3>1. tasks' = Append(tasks, t)
      BY <1>4, <2>2 DEF LoRaSendData
    <3>2. t \in TaskRecord
      BY ToolAssumption DEF TaskRecord
    <3>3. tasks' \in Seq(TaskRecord) /\ Len(tasks') = Len(tasks) + 1
      BY <3>1, <3>2 DEF TaskInv
    <3>4. \A k \in DOMAIN tasks' : k # Len(tasks') => k \in DOMAIN tasks /\ tasks'[k] = tasks[k]
      BY <1>1, <3>1, <3>2, <3>3 DEF TaskInv
    <3>5. \A k \in DOMAIN tasks : ~ (tasks[k].own /\ tasks[k].start)
      BY <2>2 DEF TaskInv, OneSender
    <3> QED
      BY <2>1, <2>2, <3>3, <3>4, <3>5 DEF TaskInv, OneSender
  <2>3. CASE started
    <3>1. tasks' = [tasks EXCEPT ![Len(tasks)].start = FALSE]
      BY <1>4, <2>3 DEF LoRaSendData
    <3>2. \A r \in TaskRecord : [r EXCEPT !.start = FALSE] \in TaskRecord
      BY DEF TaskRecord
    <3>3. tasks' \in Seq(TaskRecord) /\ DOMAIN tasks' = DOMAIN tasks /\ Len(tasks') = Len(tasks)
      <4>1. tasks' \in [1..Len(tasks) -> TaskRecord]
        BY <1>1, <3>1, <3>2
      <4> QED
        BY <1>1, <4>1, TaskSequence
    <3>4. \A k \in DOMAIN tasks : ~ (tasks'[k].own /\ tasks'[k].start)
      <4> SUFFICES ASSUME NEW k \in DOMAIN tasks PROVE ~ (tasks'[k].own /\ tasks'[k].start)
        OBVIOUS
      <4>1. CASE k = Len(tasks)
        BY <1>1, <3>1, <4>1 DEF TaskRecord
      <4>2. CASE k # Len(tasks)
        BY <1>1, <3>1, <4>2 DEF TaskInv, OneSender
      <4> QED
        BY <4>1, <4>2
    <3> QED
      BY <2>1, <2>3, <3>3, <3>4 DEF TaskInv, OneSender
  <2> QED
    BY <2>2, <2>3 DEF TaskInv
<1>5. ASSUME NEW k \in DOMAIN tasks, TaskPosts(k) \/ Task(k) PROVE TaskInv'
  <2>1. CASE TaskPosts(k)
    BY <2>1, TaskMoves DEF TaskPosts
  <2>2. CASE TaskBegins(k)
    BY <2>2, TaskMoves DEF TaskBegins
  <2>3. CASE TaskSends(k)
    BY <2>3, TaskMoves DEF TaskSends, PortInv, Types
  <2>4. CASE TaskEnds(k)
    BY <2>4, TaskMoves DEF TaskEnds
  <2>5. CASE TaskQueues(k)
    <3>1. Rest(tasks[k].to) \in SUBSET Ids
      BY <1>1 DEF Rest, TaskRecord
    <3> QED
      BY <2>5, <3>1, TaskMoves DEF TaskQueues
  <2>6. CASE TaskWrites(k)
    BY <2>6, TaskMoves DEF TaskWrites
  <2> QED
    BY <1>5, <2>1, <2>2, <2>3, <2>4, <2>5, <2>6 DEF Task
<1>6. CASE SendDatalist
  BY <1>6 DEF SendDatalist, TaskInv, OneSender
<1>7. CASE \/ LoadList \/ BackToMain \/ SendFromList \/ Deliver \/ BusRests \/ OnStop
           \/ Clear \/ AskStop
           \/ \E a \in {"main", "lora"} : Start(a)
           \/ \E b \in Buttons : Open(b) \/ OpenFails(b) \/ Close(b) \/ Send(b)
  BY <1>2, <1>7 DEF LoadList, BackToMain, SendFromList, Deliver, BusRests, OnStop, Clear, AskStop,
                    Start, busVars, Open, OpenFails, Close, Send
<1>8. CASE ClosingStep
  BY <1>2, <1>8 DEF ClosingStep, CloseIn, Interrupt, CloseOut, Quit, CloseFd, Closing
<1>9. CASE \E s \in Sessions : Writer(s) \/ Reader(s) \/ DeviceSpeaks(s)
  <2>1. CASE \E s \in Sessions : Writer(s) \/ Reader(s)
    BY <1>2, <2>1
       DEF Writer, TakeCommand, TestStream, Write, WriteFails, PostSent, QueueSent, WriterEnds,
           Reader, TestInterrupt, Available, ReadBegins, ReaderGoes, Read, ReadWakes, QueueRead,
           ThreadsOnly
  <2>2. CASE \E s \in Sessions : DeviceSpeaks(s)
    BY <1>2, <2>2 DEF DeviceSpeaks
  <2> QED
    BY <1>9, <2>1, <2>2
<1>10. CASE UNCHANGED vars
  BY <1>2, <1>10 DEF vars
<1> QED
  BY <1>3, <1>4, <1>5, <1>6, <1>7, <1>8, <1>9, <1>10 DEF Next, Interface

LEMMA TasksKeep == Spec => []TaskInv
<1>1. Init => TaskInv
  <2>1. <<>> \in Seq(TaskRecord) /\ DOMAIN <<>> = {}
    OBVIOUS
  <2> QED
    BY <2>1 DEF Init, TaskInv, OneSender
<1>2. PortInv /\ TaskInv /\ [Next]_vars => TaskInv'
  BY TaskNext
<1> QED
  BY <1>1, <1>2, PortsKeepTheirNumbers, PTL DEF Spec

\* loraSendStarted and the tasks of LoRaActivity: of the tasks of the activity at
\* most the last goes on sending, and only while the activity believes it does, so
\* that its button stops it, however the tasks and the button follow each other.
THEOREM StopReachesSender == Spec => []OneSender
<1>1. TaskInv => OneSender
  BY DEF TaskInv
<1> QED
  BY <1>1, TasksKeep, PTL

-----------------------------------------------------------------------------
(* The bus: what is queued for the activity in front comes to it           *)

LogRecord  == [s : Nat, cmd : Nat]
MailRecord == [s : Nat, cmd : Nat, to : Nat, due : BOOLEAN]

\* No stop of r waits; the bus has its turn before any.
NoStop(r) == \A j \in 1..Len(looper) : looper[j] # r
Served(r) == \E j \in 1..Len(looper) : looper[j] = 0 /\ \A k \in 1..j - 1 : looper[k] # r

BusInv ==
    /\ looper \in Seq(Nat) /\ mail \in Seq(MailRecord) /\ shows \in Nat
    /\ registered \subseteq 1..shows /\ \A j \in 1..Len(looper) : looper[j] <= shows
    /\ front \in {0} \cup registered /\ (top # "none" => front # 0)
    /\ front # 0 => front \notin leaving /\ NoStop(front)
    /\ leaving \subseteq registered /\ \A r \in leaving : NoStop(r)
    /\ \A i \in 1..Len(mail) : mail[i].due => mail[i].to \in registered /\ Served(mail[i].to)
    /\ missed = FALSE

\* The queue of the user interface with one more entry.
LEMMA LooperAppended ==
  ASSUME looper \in Seq(Nat), NEW n \in Nat, looper' = Append(looper, n)
  PROVE  /\ looper' \in Seq(Nat)
         /\ \A j \in 1..Len(looper') : looper'[j] = n \/ (j \in 1..Len(looper) /\ looper'[j] = looper[j])
         /\ \A r : Served(r) => Served(r)'
         /\ \A r : r # n /\ NoStop(r) => NoStop(r)'
         /\ \A r : r # n /\ NoStop(r) /\ n = 0 => Served(r)'
<1>1. /\ looper' \in Seq(Nat) /\ Len(looper') = Len(looper) + 1 /\ Len(looper) \in Nat
      /\ looper'[Len(looper) + 1] = n /\ \A j \in 1..Len(looper) : looper'[j] = looper[j]
  BY AppendProperties
<1>2. \A j \in 1..Len(looper') : looper'[j] = n \/ (j \in 1..Len(looper) /\ looper'[j] = looper[j])
  BY <1>1
<1>3. ASSUME NEW r, Served(r) PROVE Served(r)'
  <2>1. PICK j \in 1..Len(looper) : looper[j] = 0 /\ \A k \in 1..j - 1 : looper[k] # r
    BY <1>3 DEF Served
  <2>2. j \in 1..Len(looper') /\ looper'[j] = 0 /\ \A k \in 1..j - 1 : k \in 1..Len(looper)
    BY <1>1, <2>1
  <2> QED
    BY <1>1, <2>1, <2>2 DEF Served
<1>4. \A r : r # n /\ NoStop(r) => NoStop(r)'
  BY <1>2 DEF NoStop
<1>5. ASSUME NEW r, r # n, NoStop(r), n = 0 PROVE Served(r)'
  <2>1. Len(looper) + 1 \in 1..Len(looper') /\ looper'[Len(looper) + 1] = 0
    BY <1>1, <1>5
  <2>2. \A k \in 1..(Len(looper) + 1) - 1 : looper'[k] # r
    BY <1>1, <1>5 DEF NoStop
  <2> QED
    BY <2>1, <2>2 DEF Served
<1> QED
  BY <1>1, <1>2, <1>3, <1>4, <1>5

\* And without its first.
LEMMA LooperTaken ==
  ASSUME looper \in Seq(Nat), looper # <<>>, looper' = Tail(looper)
  PROVE  /\ looper' \in Seq(Nat) /\ 1 \in 1..Len(looper) /\ Head(looper) = looper[1]
         /\ \A j \in 1..Len(looper') : j + 1 \in 1..Len(looper) /\ looper'[j] = looper[j + 1]
         /\ \A r : NoStop(r) => NoStop(r)'
         /\ Head(looper) # 0 => \A r : Served(r) => r # Head(looper) /\ Served(r)'
<1>1. /\ looper' \in Seq(Nat) /\ Len(looper') = Len(looper) - 1 /\ Len(looper) \in Nat
      /\ Len(looper) # 0 /\ Head(looper) = looper[1]
      /\ \A j \in 1..Len(looper') : looper'[j] = looper[j + 1]
  BY HeadTailProperties, EmptySeq
<1>2. /\ 1 \in 1..Len(looper)
      /\ \A j \in 1..Len(looper') : j + 1 \in 1..Len(looper) /\ looper'[j] = looper[j + 1]
  BY <1>1
<1>3. \A r : NoStop(r) => NoStop(r)'
  BY <1>2 DEF NoStop
<1>4. ASSUME NEW r, Served(r), Head(looper) # 0 PROVE r # Head(looper) /\ Served(r)'
  <2>1. PICK j \in 1..Len(looper) : looper[j] = 0 /\ \A k \in 1..j - 1 : looper[k] # r
    BY <1>4 DEF Served
  <2>2. j # 1 /\ 1 \in 1..j - 1
    BY <1>1, <1>4, <2>1
  <2>3. /\ j - 1 \in 1..Len(looper') /\ looper'[j - 1] = 0
        /\ \A k \in 1..(j - 1) - 1 : k \in 1..Len(looper') /\ k + 1 \in 1..j - 1
    <3>1. j - 1 \in 1..Len(looper')
      BY <1>1, <2>1, <2>2
    <3>2. looper'[j - 1] = looper[(j - 1) + 1] /\ (j - 1) + 1 = j
      BY <1>1, <3>1
    <3>3. \A k \in 1..(j - 1) - 1 : k \in 1..Len(looper') /\ k + 1 \in 1..j - 1
      BY <1>1, <2>1, <3>1
    <3> QED
      BY <2>1, <3>1, <3>2, <3>3
  <2>4. \A k \in 1..(j - 1) - 1 : looper'[k] # r
    BY <1>1, <2>1, <2>3
  <2> QED
    BY <1>1, <2>1, <2>2, <2>3, <2>4 DEF Served
<1> QED
  BY <1>1, <1>2, <1>3, <1>4

\* An entry of the queue of the bus.
LEMMA MailAppended ==
  ASSUME BusInv, NEW s \in Nat, NEW c \in Nat, NEW to \in SUBSET Nat, Enqueue(s, c, to)
  PROVE  /\ mail' \in Seq(MailRecord)
         /\ \A i \in 1..Len(mail') :
              \/ i \in 1..Len(mail) /\ mail'[i] = mail[i]
              \/ /\ i = Len(mail) + 1 /\ mail'[i].s = s /\ mail'[i].cmd = c
                 /\ mail'[i].due => mail'[i].to = front /\ front \in to
<1> DEFINE m == Mail(s, c, Min(to))
<1>1. Min(to) \in to
  BY MinIsMember DEF Enqueue
<1>2. m \in MailRecord /\ m.s = s /\ m.cmd = c /\ (m.due => m.to = front /\ front \in to)
  BY <1>1 DEF Mail, MailRecord
<1>3. mail \in Seq(MailRecord) /\ mail' = Append(mail, m)
  BY DEF BusInv, Enqueue
<1> HIDE DEF m
<1>4. /\ mail' \in Seq(MailRecord) /\ Len(mail') = Len(mail) + 1 /\ Len(mail) \in Nat
      /\ mail'[Len(mail) + 1] = m /\ \A i \in 1..Len(mail) : mail'[i] = mail[i]
  BY ONLY <1>2, <1>3, AppendProperties
<1>5. \A i \in 1..Len(mail') : i \in 1..Len(mail) \/ i = Len(mail) + 1
  BY <1>4
<1> QED
  BY <1>2, <1>4, <1>5

\* LogManager.post: the activity in front has not been asked to stop, so that the bus
\* has its turn before.
LEMMA EnqueueKeeps ==
  ASSUME BusInv, NEW s \in Nat, NEW c \in Nat, NEW to \in SUBSET Ids, Enqueue(s, c, to),
         UNCHANGED <<shows, top, front, leaving, registered, missed>>
  PROVE  BusInv'
<1>0. front \in to => front # 0 /\ front \in registered
  BY DEF BusInv, Ids
<1>1. /\ mail' \in Seq(MailRecord)
      /\ \A i \in 1..Len(mail') :
           \/ i \in 1..Len(mail) /\ mail'[i] = mail[i]
           \/ mail'[i].due => mail'[i].to = front /\ front \in to
  <2>1. to \in SUBSET Nat
    BY DEF Ids
  <2> QED
    BY <2>1, MailAppended
<1>2. CASE looper' = looper /\ \E i \in DOMAIN looper : looper[i] = 0
  <2>1. DOMAIN looper = 1..Len(looper) /\ Len(looper) \in Nat
    BY DEF BusInv
  <2>2. front # 0 => Served(front)
    <3>1. PICK j \in 1..Len(looper) : looper[j] = 0
      BY <1>2, <2>1
    <3>2. \A k \in 1..j - 1 : k \in 1..Len(looper)
      BY <2>1, <3>1
    <3> QED
      BY <3>1, <3>2 DEF BusInv, NoStop, Served
  <2>3. \A r : (NoStop(r)' <=> NoStop(r)) /\ (Served(r)' <=> Served(r))
    BY <1>2 DEF NoStop, Served
  <2>4. \A i \in 1..Len(mail') : mail'[i].due => mail'[i].to \in registered /\ Served(mail'[i].to)
    <3>1. \A i \in 1..Len(mail) : mail[i].due => mail[i].to \in registered /\ Served(mail[i].to)
      BY DEF BusInv
    <3> QED
      BY <1>1, <1>0, <2>2, <3>1
  <2> QED
    BY <1>1, <1>2, <2>3, <2>4 DEF BusInv
<1>3. CASE looper' = Append(looper, 0)
  <2>1. /\ looper' \in Seq(Nat)
        /\ \A j \in 1..Len(looper') : looper'[j] = 0 \/ (j \in 1..Len(looper) /\ looper'[j] = looper[j])
        /\ \A r : Served(r) => Served(r)'
        /\ \A r : r # 0 /\ NoStop(r) => NoStop(r)' /\ Served(r)'
    BY <1>3, LooperAppended DEF BusInv
  <2>2. \A j \in 1..Len(looper') : looper'[j] <= shows
    <3>1. \A j \in 1..Len(looper) : looper[j] <= shows
      BY DEF BusInv
    <3>2. 0 <= shows
      BY DEF BusInv
    <3> QED
      BY ONLY <2>1, <3>1, <3>2
  <2>3. 0 \notin leaving /\ (front # 0 => NoStop(front))
    BY DEF BusInv
  <2>4. ASSUME NEW i \in 1..Len(mail'), mail'[i].due
        PROVE  (mail[i].to \in registered /\ Served(mail[i].to))'
    <3>1. mail'[i].to \in registered /\ (Served(mail'[i].to) \/ (mail'[i].to # 0 /\ NoStop(mail'[i].to)))
      BY <1>0, <1>1, <2>3, <2>4 DEF BusInv
    <3>2. PICK v : v = mail'[i].to
      OBVIOUS
    <3>3. Served(v)'
      BY <2>1, <3>1, <3>2
    <3> QED
      BY <3>1, <3>2, <3>3
  <2>5. /\ \A r \in leaving : NoStop(r)'
        /\ front # 0 => front \notin leaving /\ NoStop(front)'
    BY <2>1, <2>3 DEF BusInv
  <2> QED
    BY <1>1, <2>1, <2>2, <2>4, <2>5 DEF BusInv
<1> QED
  BY <1>2, <1>3 DEF Enqueue

\* A registration that is new: no stop of it waits.
LEMMA ShowKeeps ==
  ASSUME BusInv, NEW a, Show(a), UNCHANGED <<looper, mail, missed>>,
         leaving' \in {leaving, leaving \cup {front}}, leaving' # leaving => front # 0
  PROVE  BusInv'
<1>1. /\ shows' = shows + 1 /\ registered' = registered \cup {shows'} /\ front' = shows'
      /\ shows \in Nat /\ registered \subseteq 1..shows
  BY DEF Show, BusInv
<1>2. \A r : (NoStop(r)' <=> NoStop(r)) /\ (Served(r)' <=> Served(r))
  BY DEF NoStop, Served
<1>3. \A j \in 1..Len(looper) : looper[j] \in Nat /\ looper[j] <= shows
  BY DEF BusInv
<1>4. NoStop(front')
  BY <1>1, <1>3 DEF NoStop
<1>5. /\ registered' \subseteq 1..shows' /\ shows' \in Nat /\ shows' # 0 /\ shows' \notin registered
      /\ \A j \in 1..Len(looper) : looper[j] <= shows'
  BY <1>1, <1>3
<1>6. leaving' \subseteq registered /\ \A r \in leaving' : NoStop(r)
  BY DEF BusInv
<1> QED
  BY <1>1, <1>2, <1>4, <1>5, <1>6 DEF BusInv

\* Nobody comes, goes or posts.
LEMMA BusRemains ==
  ASSUME BusInv, UNCHANGED <<shows, top, front, leaving, registered, looper, mail, missed>>
  PROVE  BusInv'
BY DEF BusInv, NoStop, Served

LEMMA MovesKeep ==
  ASSUME BusInv, LoadList \/ BackToMain \/ Leave \/ \E a \in {"main", "lora"} : Start(a)
  PROVE  BusInv'
<1> USE DEF mailVars
<1>0. \A r : UNCHANGED looper => (NoStop(r)' <=> NoStop(r)) /\ (Served(r)' <=> Served(r))
  BY DEF NoStop, Served
<1>1. CASE LoadList
  <2>1. front # 0 /\ Show("list") /\ leaving' = leaving \cup {front} /\ UNCHANGED <<looper, mail, missed>>
    BY <1>1 DEF LoadList, BusInv
  <2> QED
    BY <2>1, ShowKeeps
<1>2. CASE BackToMain
  <2>1. front # 0 /\ UNCHANGED <<looper, mail, missed>>
    BY <1>2 DEF BackToMain, BusInv
  <2>2. CASE Show("main") /\ leaving' = leaving \cup {front}
    BY <2>1, <2>2, ShowKeeps
  <2>3. CASE /\ below \in leaving /\ leaving' = (leaving \ {below}) \cup {front}
             /\ top' = "main" /\ front' = below /\ UNCHANGED <<shows, registered>>
    <3>1. front \in registered /\ below \in registered /\ below # front /\ below # 0
      BY <2>1, <2>3 DEF BusInv
    <3>2. leaving' \subseteq registered /\ \A r \in leaving' : NoStop(r)
      BY <2>1, <2>3 DEF BusInv
    <3>3. NoStop(below) /\ below \notin leaving'
      BY <2>3, <3>1 DEF BusInv
    <3> QED
      BY <1>0, <2>1, <2>3, <3>1, <3>2, <3>3 DEF BusInv
  <2> QED
    BY <1>2, <2>2, <2>3 DEF BackToMain
<1>3. CASE Leave
  <2>1. /\ front # 0 /\ top' = "none" /\ front' = 0 /\ leaving' = leaving \cup {front}
        /\ UNCHANGED <<shows, registered, looper, mail, missed>>
    BY <1>3 DEF Leave, BusInv
  <2> QED
    BY <1>0, <2>1 DEF BusInv
<1>4. CASE \E a \in {"main", "lora"} : Start(a)
  BY <1>4, ShowKeeps DEF Start
<1> QED
  BY <1>1, <1>2, <1>3, <1>4

\* The stop of an activity is queued behind the bus, if the bus has anything for it.
LEMMA AskStopKeeps ==
  ASSUME BusInv, AskStop
  PROVE  BusInv'
<1>1. PICK r \in leaving : leaving' = leaving \ {r} /\ looper' = Append(looper, r)
  BY DEF AskStop
<1>2. UNCHANGED <<shows, top, front, registered, mail, missed>>
  BY DEF AskStop
<1>3. r \in 1..shows /\ r \in Nat /\ r <= shows
  BY DEF BusInv
<1>4. /\ looper' \in Seq(Nat)
      /\ \A j \in 1..Len(looper') : looper'[j] = r \/ (j \in 1..Len(looper) /\ looper'[j] = looper[j])
      /\ \A x : Served(x) => Served(x)'
      /\ \A x : x # r /\ NoStop(x) => NoStop(x)'
  BY <1>1, <1>3, LooperAppended DEF BusInv
<1>5. \A j \in 1..Len(looper') : looper'[j] <= shows
  BY <1>3, <1>4 DEF BusInv
<1>6. front # 0 => front # r /\ front \notin leaving'
  BY <1>1 DEF BusInv
<1> QED
  BY <1>1, <1>2, <1>4, <1>5, <1>6 DEF BusInv

\* Who is stopped has got what was queued while it was in front.
LEMMA OnStopKeeps ==
  ASSUME BusInv, OnStop
  PROVE  BusInv'
<1> DEFINE h == Head(looper)
<1>1. /\ looper # <<>> /\ h # 0 /\ registered' = registered \ {h} /\ looper' = Tail(looper)
      /\ UNCHANGED <<shows, top, front, leaving, mail, missed>>
  BY DEF OnStop
<1>2. /\ looper' \in Seq(Nat) /\ 1 \in 1..Len(looper) /\ h = looper[1]
      /\ \A j \in 1..Len(looper') : j + 1 \in 1..Len(looper) /\ looper'[j] = looper[j + 1]
      /\ \A r : NoStop(r) => NoStop(r)'
      /\ \A r : Served(r) => r # h /\ Served(r)'
  BY <1>1, LooperTaken DEF BusInv
<1> HIDE DEF h
<1>3. \A r : NoStop(r) => r # h
  BY <1>2 DEF NoStop
<1>4. \A j \in 1..Len(looper') : looper'[j] <= shows
  BY <1>2 DEF BusInv
<1> QED
  BY <1>1, <1>2, <1>3, <1>4 DEF BusInv

\* The bus hands over its first entry, and may go to the end of the queue.
LEMMA DeliverKeeps ==
  ASSUME BusInv, Deliver
  PROVE  BusInv'
<1> DEFINE m == Head(mail)
<1>1. /\ mail # <<>> /\ mail \in Seq(MailRecord) /\ looper # <<>> /\ Head(looper) = 0
      /\ UNCHANGED <<shows, top, front, leaving, registered>>
      /\ missed' = (missed \/ (m.due /\ m.to \notin registered))
  BY DEF Deliver, BusInv, showVars
<1>2. /\ Tail(mail) \in Seq(MailRecord) /\ m = mail[1] /\ 1 \in 1..Len(mail)
      /\ Len(Tail(mail)) \in Nat /\ DOMAIN Tail(mail) = 1..Len(Tail(mail))
      /\ \A i \in 1..Len(Tail(mail)) : i + 1 \in 1..Len(mail) /\ Tail(mail)[i] = mail[i + 1]
  <2>1. /\ Tail(mail) \in Seq(MailRecord) /\ m = mail[1] /\ Len(Tail(mail)) = Len(mail) - 1
        /\ \A i \in 1..Len(Tail(mail)) : Tail(mail)[i] = mail[i + 1]
    BY ONLY <1>1, HeadTailProperties
  <2>2. Len(mail) \in Nat /\ Len(mail) # 0
    BY ONLY <1>1, EmptySeq
  <2> QED
    BY ONLY <2>1, <2>2
<1>3. missed' = FALSE
  BY <1>1, <1>2 DEF BusInv
<1> HIDE DEF m
<1>4. CASE mail' = Tail(mail) /\ UNCHANGED looper
  <2>1. \A r : (NoStop(r)' <=> NoStop(r)) /\ (Served(r)' <=> Served(r))
    BY <1>4 DEF NoStop, Served
  <2>2. \A i \in 1..Len(mail') : mail'[i].due => mail'[i].to \in registered /\ Served(mail'[i].to)
    BY <1>2, <1>4 DEF BusInv
  <2> QED
    BY <1>1, <1>2, <1>3, <1>4, <2>1, <2>2 DEF BusInv
<1>5. CASE /\ mail' = [i \in DOMAIN Tail(mail) |-> [Tail(mail)[i] EXCEPT !.due = FALSE]]
           /\ looper' = Append(Tail(looper), 0)
  <2>1. mail' \in Seq(MailRecord) /\ \A i \in 1..Len(mail') : ~mail'[i].due
    <3>1. \A i \in 1..Len(Tail(mail)) : Tail(mail)[i] \in MailRecord
      BY <1>2, ElementOfSeq
    <3>2. \A i \in 1..Len(Tail(mail)) :
            mail'[i] \in MailRecord /\ mail'[i] = [Tail(mail)[i] EXCEPT !.due = FALSE]
      BY <1>2, <1>5, <3>1 DEF MailRecord
    <3>3. mail' \in [1..Len(Tail(mail)) -> MailRecord]
      BY <1>2, <1>5, <3>2
    <3>4. mail' \in Seq(MailRecord) /\ Len(mail') = Len(Tail(mail))
      BY ONLY <1>2, <3>3
    <3> QED
      BY <3>1, <3>2, <3>4 DEF MailRecord
  <2>2. /\ looper' \in Seq(Nat) /\ \A r : r # 0 /\ NoStop(r) => NoStop(r)'
        /\ \A j \in 1..Len(looper') : looper'[j] <= shows
    <3>1. /\ Tail(looper) \in Seq(Nat) /\ Len(Tail(looper)) = Len(looper) - 1 /\ Len(looper) \in Nat
          /\ \A j \in 1..Len(Tail(looper)) : Tail(looper)[j] = looper[j + 1]
      BY <1>1, HeadTailProperties DEF BusInv
    <3>2. /\ looper' \in Seq(Nat) /\ Len(looper') = Len(looper)
          /\ looper'[Len(looper)] = 0
          /\ \A j \in 1..Len(Tail(looper)) : looper'[j] = looper[j + 1]
      BY <1>5, <3>1, AppendProperties
    <3>3. \A j \in 1..Len(looper') : looper'[j] = 0 \/ (j + 1 \in 1..Len(looper) /\ looper'[j] = looper[j + 1])
      BY <3>1, <3>2
    <3>4. \A j \in 1..Len(looper) : looper[j] <= shows
      BY DEF BusInv
    <3>5. 0 <= shows
      BY DEF BusInv
    <3>6. \A j \in 1..Len(looper') : looper'[j] <= shows
      BY ONLY <3>3, <3>4, <3>5
    <3>7. \A r : r # 0 /\ NoStop(r) => NoStop(r)'
      BY <3>3 DEF NoStop
    <3> QED
      BY <3>2, <3>6, <3>7
  <2>3. 0 \notin leaving
    BY DEF BusInv
  <2> QED
    BY <1>1, <1>3, <2>1, <2>2, <2>3 DEF BusInv
<1> QED
  BY <1>4, <1>5 DEF Deliver

LEMMA BusRestsKeeps ==
  ASSUME BusInv, BusRests
  PROVE  BusInv'
<1>1. /\ looper # <<>> /\ looper' = Tail(looper) /\ mail = <<>>
      /\ UNCHANGED <<shows, top, front, leaving, registered, mail, missed>>
  BY DEF BusRests, showVars
<1>2. /\ looper' \in Seq(Nat)
      /\ \A j \in 1..Len(looper') : j + 1 \in 1..Len(looper) /\ looper'[j] = looper[j + 1]
      /\ \A r : NoStop(r) => NoStop(r)'
  BY <1>1, LooperTaken DEF BusInv
<1>3. \A j \in 1..Len(looper') : looper'[j] <= shows
  BY <1>2 DEF BusInv
<1>4. Len(mail) = 0
  BY <1>1
<1> QED
  BY <1>1, <1>2, <1>3, <1>4 DEF BusInv

LEMMA BusNext ==
  ASSUME PortInv, TaskInv, BusInv, [Next]_vars
  PROVE  BusInv'
<1>1. CASE LoadList \/ BackToMain \/ Leave \/ \E a \in {"main", "lora"} : Start(a)
  BY <1>1, MovesKeep
<1>2. CASE Deliver \/ BusRests \/ OnStop \/ AskStop
  BY <1>2, DeliverKeeps, BusRestsKeeps, OnStopKeeps, AskStopKeeps
<1>3. CASE \/ SendFromList \/ Clear \/ SendDatalist \/ LoRaSendData
           \/ \E b \in Buttons : Open(b) \/ OpenFails(b) \/ Close(b) \/ Send(b)
           \/ \E k \in DOMAIN tasks : TaskPosts(k)
  BY <1>3, BusRemains
     DEF SendFromList, Clear, SendDatalist, LoRaSendData, Open, OpenFails, Close, Send, TaskPosts,
         busVars, showVars, mailVars
<1>4. CASE ClosingStep
  BY <1>4, BusRemains
     DEF ClosingStep, CloseIn, Interrupt, CloseOut, Quit, CloseFd, Closing, busVars, showVars, mailVars
<1>5. ASSUME NEW s \in Sessions, Writer(s) \/ Reader(s) \/ DeviceSpeaks(s) PROVE BusInv'
  <2>1. s \in Nat /\ session[s].sentTo \in SUBSET Ids /\ session[s].readTo \in SUBSET Ids
        /\ session[s].cmd \in Nat
    BY DEF PortInv, Types, SessionRecord, Sessions
  <2>2. CASE QueueSent(s)
    BY <2>1, <2>2, EnqueueKeeps DEF QueueSent, ThreadsOnly, showVars
  <2>3. CASE QueueRead(s)
    BY <2>1, <2>3, EnqueueKeeps DEF QueueRead, ThreadsOnly, showVars
  <2>4. CASE \/ TakeCommand(s) \/ TestStream(s) \/ Write(s) \/ WriteFails(s) \/ PostSent(s) \/ WriterEnds(s)
             \/ TestInterrupt(s) \/ Available(s) \/ ReadBegins(s) \/ Read(s) \/ ReadWakes(s)
    BY <2>4, BusRemains
       DEF TakeCommand, TestStream, Write, WriteFails, PostSent, WriterEnds, TestInterrupt, Available,
           ReadBegins, ReaderGoes, Read, ReadWakes, ThreadsOnly, showVars, mailVars
  <2>5. CASE DeviceSpeaks(s)
    BY <2>5, BusRemains DEF DeviceSpeaks, busVars, showVars, mailVars
  <2> QED
    BY <1>5, <2>2, <2>3, <2>4, <2>5 DEF Writer, Reader
<1>6. ASSUME NEW k \in DOMAIN tasks, Task(k) PROVE BusInv'
  <2>1. tasks[k].to \in SUBSET Ids /\ 0 \in Nat
    <3>1. tasks[k] \in TaskRecord
      BY DEF TaskInv
    <3> QED
      BY <3>1 DEF TaskRecord
  <2>2. CASE TaskQueues(k)
    BY <2>1, <2>2, EnqueueKeeps DEF TaskQueues, showVars
  <2>3. CASE TaskBegins(k) \/ TaskSends(k) \/ TaskWrites(k) \/ TaskEnds(k)
    BY <2>3, BusRemains DEF TaskBegins, TaskSends, TaskWrites, TaskEnds, busVars, showVars, mailVars
  <2> QED
    BY <1>6, <2>2, <2>3 DEF Task
<1>7. CASE UNCHANGED vars
  BY <1>7, BusRemains DEF vars, busVars, showVars, mailVars
<1> QED
  BY <1>1, <1>2, <1>3, <1>4, <1>5, <1>6, <1>7 DEF Next, Interface

LEMMA BusKeeps == Spec => []BusInv
<1>1. Init => BusInv
  <2>1. <<>> \in Seq(Nat) /\ <<>> \in Seq(MailRecord) /\ Len(<<>>) = 0 /\ 1..0 = {}
    OBVIOUS
  <2> QED
    BY <2>1 DEF Init, BusInv
<1>2. PortInv /\ TaskInv /\ BusInv /\ [Next]_vars => BusInv'
  BY BusNext
<1> QED
  BY <1>1, <1>2, PortsKeepTheirNumbers, TasksKeep, PTL DEF Spec

\* BaseActivity, LogManager and EventBus: however activities cover, leave and start
\* one another, and whenever Android gets round to stopping those that were left, what
\* is queued for the activity in front is added to the log, unless the bus breaks off
\* its work before.
THEOREM NobodyMissesAnything == Spec => []NoneMissed
<1>1. BusInv => NoneMissed
  BY DEF BusInv, NoneMissed
<1> QED
  BY <1>1, BusKeeps, PTL

\* MainActivity, LoRaActivity, PortUtils, BaseActivity: the fields keep their types, a
\* number that is open for a session is the one in its mFd, and the activity in front
\* is registered.
THEOREM ToolTypes == Spec => []TypeOK
<1>1. PortInv /\ BusInv => TypeOK
  <2> SUFFICES ASSUME PortInv, BusInv PROVE TypeOK
    OBVIOUS
  <2>1. MaxSessions \in Nat /\ opened \in 0..MaxSessions
    BY ToolAssumption DEF PortInv, Types
  <2>2. \A v \in 0..opened : v \in 0..MaxSessions
    BY <2>1
  <2>3. held \in [Buttons -> 0..MaxSessions]
    BY <2>2 DEF PortInv, Types
  <2>4. \A s \in Sessions : session[s] \in SessionRecord
    BY DEF PortInv, Types
  <2>5. \A s \in Sessions : session[s].reader \in Readers /\ session[s].writer \in Writers
    BY <2>4 DEF SessionRecord
  <2>6. registered \subseteq 1..shows /\ front \in {0} \cup registered
    BY DEF BusInv
  <2> QED
    BY <2>3, <2>5, <2>6 DEF PortInv, Types, Numbers, TypeOK, Readers, Writers
<1> QED
  BY <1>1, PortsKeepTheirNumbers, BusKeeps, PTL

-----------------------------------------------------------------------------
(* The log: what it says was sent was sent, and in that order              *)

OnWire(s, c) == \E o \in Sessions : \E j \in 1..Len(wire[o]) : wire[o][j] = [s |-> s, cmd |-> c]
Written(x) == x.writer \in {"written", "posting"}

\* What holds of a command from its writing on: everything of the session that is
\* still to be written comes after it.
Done(s, c) ==
    /\ OnWire(s, c) /\ c <= sent
    /\ Busy(session[s]) => c <= session[s].cmd
    /\ \A k \in 1..Len(session[s].queue) : c <= session[s].queue[k]

\* What the writing thread has before it.
Ahead(s) ==
    /\ Written(session[s]) => OnWire(s, session[s].cmd)
    /\ session[s].cmd <= sent
    /\ \A k \in 1..Len(session[s].queue) :
         session[s].queue[k] <= sent /\ (Busy(session[s]) => session[s].cmd <= session[s].queue[k])
    /\ \A k, l \in 1..Len(session[s].queue) : k < l => session[s].queue[k] <= session[s].queue[l]

Commands == Nat \ {0}
Logged(i, s, c) == log[i].s = s /\ log[i].cmd = c
Queued(i, s, c) == mail[i].s = s /\ mail[i].cmd = c

\* The log and the messages that wait, one after the other.
InOrder(s) ==
    \A c, d \in Commands :
      /\ \A i, j \in 1..Len(log) : Logged(i, s, c) /\ Logged(j, s, d) /\ i < j => c <= d
      /\ \A i, j \in 1..Len(mail) : Queued(i, s, c) /\ Queued(j, s, d) /\ i < j => c <= d
      /\ \A i \in 1..Len(log), j \in 1..Len(mail) : Logged(i, s, c) /\ Queued(j, s, d) => c <= d

LogInv ==
    /\ log \in Seq(LogRecord)
    /\ \A s \in Sessions :
         /\ \A c \in Commands :
              /\ \A i \in 1..Len(log) : Logged(i, s, c) => Done(s, c)
              /\ \A i \in 1..Len(mail) : Queued(i, s, c) => Done(s, c)
         /\ InOrder(s) /\ Ahead(s)

\* What is done stays done, and the threads are as they should be.
ThreadsKeep == \A s \in Sessions : Ahead(s)' /\ \A c \in Nat : Done(s, c) => Done(s, c)'

\* What is new in the log and in the queue is none of commands that were written.
LEMMA LogKept ==
  ASSUME LogInv, ThreadsKeep, log' \in Seq(LogRecord),
         \A i \in 1..Len(log') : log'[i].cmd = 0 \/ (i \in 1..Len(log) /\ log'[i] = log[i]),
         \A i \in 1..Len(mail') : mail'[i].cmd = 0 \/ (i \in 1..Len(mail) /\ mail'[i] = mail[i])
  PROVE  LogInv'
<1>1. \A s \in Sessions, c \in Commands, i \in 1..Len(mail') :
        Queued(i, s, c)' => i \in 1..Len(mail) /\ Queued(i, s, c)
  BY DEF Queued, Commands
<1>2. \A s \in Sessions, c \in Commands, i \in 1..Len(log') :
        Logged(i, s, c)' => i \in 1..Len(log) /\ Logged(i, s, c)
  BY DEF Logged, Commands
<1>3. ASSUME NEW s \in Sessions, NEW c \in Commands
      PROVE  /\ \A i \in 1..Len(log') : Logged(i, s, c)' => Done(s, c)'
             /\ \A i \in 1..Len(mail') : Queued(i, s, c)' => Done(s, c)'
  <2>1. Done(s, c) => Done(s, c)'
    BY DEF ThreadsKeep, Commands
  <2> QED
    BY <1>1, <1>2, <2>1 DEF LogInv
<1>4. ASSUME NEW s \in Sessions PROVE InOrder(s)'
  BY <1>1, <1>2 DEF LogInv, InOrder
<1> QED
  BY <1>3, <1>4 DEF LogInv, ThreadsKeep

\* Steps that give the writing thread nothing to do.
LEMMA QuietThreads ==
  ASSUME PortInv, LogInv, UNCHANGED sent,
         \A s \in Sessions, c \in Nat : OnWire(s, c) => OnWire(s, c)',
         \A s \in Sessions :
            /\ session'[s].queue \in {<<>>, session[s].queue}
            /\ session'[s].cmd \in {0, session[s].cmd}
            /\ Busy(session'[s]) => Busy(session[s]) /\ session'[s].cmd = session[s].cmd
            /\ Written(session'[s]) => Written(session[s]) \/ OnWire(s, session[s].cmd)'
  PROVE  ThreadsKeep
<1> SUFFICES ASSUME NEW s \in Sessions
             PROVE  Ahead(s)' /\ \A c \in Nat : Done(s, c) => Done(s, c)'
  BY DEF ThreadsKeep
<1>1. Ahead(s) /\ sent \in Nat
  BY ToolAssumption DEF LogInv, PortInv, Types
<1>2. session[s].cmd \in Nat
  BY DEF PortInv, Types, SessionRecord
<1>3. Len(<<>>) = 0 /\ 1..0 = {}
  OBVIOUS
<1>4. \A k \in 1..Len(session'[s].queue) :
        /\ session'[s].queue = session[s].queue /\ k \in 1..Len(session[s].queue)
  BY <1>3
<1>5. session'[s].cmd <= sent'
  BY <1>1 DEF Ahead
<1>6. (Written(session[s]) => OnWire(s, session[s].cmd))'
  <2>1. PICK v : v = session[s].cmd
    OBVIOUS
  <2>2. Written(session'[s]) => OnWire(s, v)'
    <3>1. v \in Nat
      BY <1>2, <2>1
    <3>2. OnWire(s, v) => OnWire(s, v)'
      BY <3>1
    <3>3. Written(session[s]) => OnWire(s, v)
      BY <1>1, <2>1 DEF Ahead
    <3>4. OnWire(s, session[s].cmd)' => OnWire(s, v)' \/ session'[s].cmd # v
      BY DEF OnWire
    <3>5. Written(session'[s]) => session'[s].cmd = v
      BY <2>1 DEF Written, Busy
    <3> QED
      BY <3>2, <3>3, <3>4, <3>5
  <2>3. Written(session'[s]) => session'[s].cmd = v
    BY <2>1 DEF Written, Busy
  <2> QED
    BY <2>2, <2>3
<1>7. Ahead(s)'
  <2>1. \A k \in 1..Len(session'[s].queue) :
          /\ session'[s].queue[k] <= sent'
          /\ Busy(session'[s]) => session'[s].cmd <= session'[s].queue[k]
    BY <1>1, <1>4 DEF Ahead
  <2>2. \A k, l \in 1..Len(session'[s].queue) : k < l => session'[s].queue[k] <= session'[s].queue[l]
    BY <1>1, <1>4 DEF Ahead
  <2> QED
    BY <1>5, <1>6, <2>1, <2>2 DEF Ahead
<1>8. ASSUME NEW c \in Nat, Done(s, c) PROVE Done(s, c)'
  BY <1>4, <1>8 DEF Done
<1> QED
  BY <1>7, <1>8

\* Everything stays as it is for the threads.
LEMMA SameThreads ==
  ASSUME PortInv, LogInv, UNCHANGED <<session, wire, sent>>
  PROVE  ThreadsKeep
<1>1. \A s \in Sessions, c \in Nat : OnWire(s, c) => OnWire(s, c)'
  BY DEF OnWire
<1> QED
  BY <1>1, QuietThreads

\* One session is replaced: what has to be said of the others.
LEMMA OneThread ==
  ASSUME PortInv, LogInv, NEW s \in Sessions, NEW r, session' = [session EXCEPT ![s] = r],
         sent' \in Nat, sent <= sent', UNCHANGED wire,
         Ahead(s)', \A c \in Nat : Done(s, c) => Done(s, c)'
  PROVE  ThreadsKeep
<1> SUFFICES ASSUME NEW t \in Sessions \ {s}
             PROVE  Ahead(t)' /\ \A c \in Nat : Done(t, c) => Done(t, c)'
  BY DEF ThreadsKeep
<1>1. session'[t] = session[t]
  BY DEF PortInv, Types
<1>2. \A c : OnWire(t, c)' <=> OnWire(t, c)
  BY DEF OnWire
<1>3. (Busy(session'[t]) <=> Busy(session[t])) /\ (Written(session'[t]) <=> Written(session[t]))
  BY <1>1 DEF Busy, Written
<1>4. /\ sent \in Nat /\ session[t].cmd \in Nat
      /\ \A k \in 1..Len(session[t].queue) : session[t].queue[k] \in Nat
  <2>1. session[t] \in SessionRecord /\ sent \in Nat
    BY ToolAssumption DEF PortInv, Types
  <2>2. session[t].queue \in Seq(Nat) /\ session[t].cmd \in Nat
    BY <2>1 DEF SessionRecord
  <2> QED
    BY <2>1, <2>2
<1>5. \A v \in Nat : v <= sent => v <= sent'
  BY <1>4
<1>6. Ahead(t)
  BY DEF LogInv
<1>7. Ahead(t)'
  <2>1. (Written(session[t]) => OnWire(t, session[t].cmd))'
    BY <1>1, <1>2, <1>3, <1>6 DEF Ahead
  <2> QED
    BY <1>1, <1>3, <1>4, <1>5, <1>6, <2>1 DEF Ahead
<1>8. ASSUME NEW c \in Nat, Done(t, c) PROVE Done(t, c)'
  BY <1>1, <1>2, <1>3, <1>5, <1>8 DEF Done
<1> QED
  BY <1>7, <1>8

\* The next command comes after all that were written, and the others after it.
LEMMA TakeKeeps ==
  ASSUME PortInv, LogInv, NEW s \in Sessions, NEW r, Replaced(s, r), Taken(r, session[s]),
         UNCHANGED <<wire, sent>>
  PROVE  ThreadsKeep
<1> DEFINE q == session[s].queue
<1>1. session[s] \in SessionRecord /\ sent \in Nat
  BY ToolAssumption DEF PortInv, Types
<1>2. session' = [session EXCEPT ![s] = r] /\ q # <<>> /\ q \in Seq(Nat)
  BY <1>1 DEF Replaced, Taken, SessionRecord
<1>3. session'[s] = r
  BY <1>2 DEF PortInv, Types
<1>4. r.writer = "taken" /\ r.cmd = Head(q) /\ r.queue = Tail(q)
  BY DEF Taken
<1> HIDE DEF q
<1>5. /\ Head(q) = q[1] /\ 1 \in 1..Len(q) /\ Tail(q) \in Seq(Nat)
      /\ \A k \in 1..Len(Tail(q)) : Tail(q)[k] = q[k + 1] /\ k + 1 \in 1..Len(q) /\ 1 < k + 1
      /\ \A k, l \in 1..Len(Tail(q)) : k < l => k + 1 < l + 1
  <2>1. /\ Tail(q) \in Seq(Nat) /\ Len(Tail(q)) = Len(q) - 1
        /\ \A k \in 1..Len(Tail(q)) : Tail(q)[k] = q[k + 1]
    BY <1>2, HeadTailProperties
  <2>2. Head(q) = q[1] /\ Len(q) \in Nat /\ Len(q) # 0
    BY <1>2
  <2> QED
    BY <2>1, <2>2
<1>6. Ahead(s)
  BY DEF LogInv
<1>7. /\ \A k \in 1..Len(q) : q[k] <= sent
      /\ \A k, l \in 1..Len(q) : k < l => q[k] <= q[l]
  BY <1>6 DEF Ahead, q
<1>8. Ahead(s)'
  <2>1. ~Written(session'[s]) /\ session'[s].cmd <= sent'
    BY <1>3, <1>4, <1>5, <1>7 DEF Written
  <2>2. \A k \in 1..Len(session'[s].queue) :
          session'[s].queue[k] <= sent' /\ session'[s].cmd <= session'[s].queue[k]
    BY <1>3, <1>4, <1>5, <1>7
  <2>3. \A k, l \in 1..Len(session'[s].queue) : k < l => session'[s].queue[k] <= session'[s].queue[l]
    BY <1>3, <1>4, <1>5, <1>7
  <2> QED
    BY <2>1, <2>2, <2>3 DEF Ahead
<1>9. ASSUME NEW c \in Nat, Done(s, c) PROVE Done(s, c)'
  <2>1. OnWire(s, c)' /\ c <= sent'
    BY <1>9 DEF Done, OnWire
  <2>2. \A k \in 1..Len(q) : c <= q[k]
    BY <1>9 DEF Done, q
  <2>3. c <= session'[s].cmd
    BY <1>3, <1>4, <1>5, <2>2
  <2>4. \A k \in 1..Len(session'[s].queue) : c <= session'[s].queue[k]
    BY <1>3, <1>4, <1>5, <2>2
  <2> QED
    BY <2>1, <2>3, <2>4 DEF Done
<1>10. sent' \in Nat /\ sent <= sent'
  BY <1>1
<1> QED
  BY <1>2, <1>8, <1>9, <1>10, OneThread, Zenon

\* A new command is later than all the others.
LEMMA SendKeeps ==
  ASSUME PortInv, LogInv, NEW b \in Buttons, Send(b)
  PROVE  ThreadsKeep
<1>1. sent' = sent + 1 /\ sent \in Nat /\ UNCHANGED wire
  BY ToolAssumption DEF Send, PortInv, Types
<1> SUFFICES ASSUME NEW s \in Sessions
             PROVE  Ahead(s)' /\ \A c \in Nat : Done(s, c) => Done(s, c)'
  BY DEF ThreadsKeep
<1> DEFINE q == session[s].queue
<1>2. session[s] \in SessionRecord /\ q \in Seq(Nat) /\ session[s].cmd \in Nat
  BY DEF PortInv, Types, SessionRecord
<1>3. /\ session'[s].writer = session[s].writer /\ session'[s].cmd = session[s].cmd
      /\ session'[s].queue \in {q, Append(q, sent')}
  BY <1>2, SendRecord DEF Replaced, PortInv, Types
<1>4. /\ Len(q) \in Nat /\ \A k \in 1..Len(q) : q[k] \in Nat
      /\ \A k \in 1..Len(session'[s].queue) :
           \/ k \in 1..Len(q) /\ session'[s].queue[k] = q[k]
           \/ k = Len(q) + 1 /\ session'[s].queue[k] = sent + 1
  <2>1. Len(q) \in Nat /\ \A k \in 1..Len(q) : q[k] \in Nat
    BY <1>2
  <2>2. CASE session'[s].queue = q
    BY <2>1, <2>2
  <2>3. CASE session'[s].queue = Append(q, sent')
    <3> HIDE DEF q
    <3>1. /\ Len(Append(q, sent')) = Len(q) + 1 /\ Append(q, sent')[Len(q) + 1] = sent + 1
          /\ \A k \in 1..Len(q) : Append(q, sent')[k] = q[k]
      BY <1>1, <1>2, AppendProperties
    <3> QED
      BY <2>1, <2>3, <3>1
  <2> QED
    BY <1>3, <2>1, <2>2, <2>3
<1>5. Ahead(s)
  BY DEF LogInv
<1> HIDE DEF q
<1>6. \A c : OnWire(s, c)' <=> OnWire(s, c)
  BY <1>1 DEF OnWire
<1>7. (Busy(session'[s]) <=> Busy(session[s])) /\ (Written(session'[s]) <=> Written(session[s]))
  BY <1>3 DEF Busy, Written
<1>8. /\ session[s].cmd <= sent
      /\ \A k \in 1..Len(q) : q[k] <= sent /\ (Busy(session[s]) => session[s].cmd <= q[k])
      /\ \A k, l \in 1..Len(q) : k < l => q[k] <= q[l]
  BY <1>5 DEF Ahead, q
<1>9. Ahead(s)'
  <2>1. (Written(session[s]) => OnWire(s, session[s].cmd))'
    BY <1>3, <1>5, <1>6, <1>7 DEF Ahead
  <2>2. session'[s].cmd <= sent'
    BY <1>1, <1>2, <1>3, <1>8
  <2>3. ASSUME NEW k \in 1..Len(session'[s].queue)
        PROVE  session'[s].queue[k] <= sent' /\ (Busy(session'[s]) => session'[s].cmd <= session'[s].queue[k])
    <3>1. CASE k \in 1..Len(q) /\ session'[s].queue[k] = q[k]
      BY <1>1, <1>3, <1>4, <1>7, <1>8, <3>1
    <3>2. CASE k = Len(q) + 1 /\ session'[s].queue[k] = sent + 1
      BY <1>1, <1>2, <1>3, <1>8, <3>2
    <3> QED
      BY <1>4, <3>1, <3>2
  <2>4. ASSUME NEW k \in 1..Len(session'[s].queue), NEW l \in 1..Len(session'[s].queue), k < l
        PROVE  session'[s].queue[k] <= session'[s].queue[l]
    <3>1. k \in 1..Len(q) /\ session'[s].queue[k] = q[k]
      BY <1>4, <2>4
    <3>2. CASE l \in 1..Len(q) /\ session'[s].queue[l] = q[l]
      BY <1>8, <2>4, <3>1, <3>2
    <3>3. CASE l = Len(q) + 1 /\ session'[s].queue[l] = sent + 1
      BY <1>1, <1>4, <1>8, <3>1, <3>3
    <3> QED
      BY <1>4, <3>2, <3>3
  <2> QED
    BY <2>1, <2>2, <2>3, <2>4 DEF Ahead
<1>10. ASSUME NEW c \in Nat, Done(s, c) PROVE Done(s, c)'
  <2>1. OnWire(s, c)' /\ c <= sent /\ (Busy(session'[s]) => c <= session'[s].cmd) /\ \A k \in 1..Len(q) : c <= q[k]
    BY <1>3, <1>6, <1>7, <1>10 DEF Done, q
  <2>2. \A k \in 1..Len(session'[s].queue) : c <= session'[s].queue[k]
    <3> SUFFICES ASSUME NEW k \in 1..Len(session'[s].queue) PROVE c <= session'[s].queue[k]
      OBVIOUS
    <3>1. CASE k \in 1..Len(q) /\ session'[s].queue[k] = q[k]
      BY <2>1, <3>1
    <3>2. CASE k = Len(q) + 1 /\ session'[s].queue[k] = sent + 1
      BY <1>1, <2>1, <3>2
    <3> QED
      BY <1>4, <3>1, <3>2
  <2>3. c <= sent'
    BY <1>1, <2>1
  <2> QED
    BY <2>1, <2>2, <2>3 DEF Done
<1> QED
  BY <1>9, <1>10

\* onNext: what is queued for the log was written last.
LEMMA PostKeeps ==
  ASSUME PortInv, BusInv, LogInv, NEW s \in Sessions, QueueSent(s), ThreadsKeep, log' = log
  PROVE  LogInv'
<1> DEFINE v == session[s].cmd
<1>1. /\ v \in Nat /\ s \in Nat /\ session[s].writer = "posting" /\ session[s].sentTo \in SUBSET Nat
      /\ Enqueue(s, v, session[s].sentTo)
  <2>1. session[s] \in SessionRecord /\ s \in Nat
    BY ToolAssumption DEF PortInv, Types, Sessions
  <2>2. v \in Nat /\ session[s].sentTo \in SUBSET Nat
    BY <2>1 DEF SessionRecord, Ids
  <2> QED
    BY <2>1, <2>2 DEF QueueSent
<1>2. Ahead(s) /\ Busy(session[s]) /\ Written(session[s])
  BY <1>1 DEF LogInv, Busy, Written
<1>3. PICK n \in Nat : n = Len(mail)
  BY DEF BusInv
<1>4. \A i \in 1..Len(mail') :
        \/ i \in 1..n /\ mail'[i] = mail[i]
        \/ i = n + 1 /\ mail'[i].s = s /\ mail'[i].cmd = v
  <2> DEFINE to == session[s].sentTo
  <2>1. s \in Nat /\ v \in Nat /\ to \in SUBSET Nat /\ Enqueue(s, v, to)
    BY <1>1
  <2> HIDE DEF to, v
  <2>2. \A i \in 1..Len(mail') :
          \/ i \in 1..Len(mail) /\ mail'[i] = mail[i]
          \/ i = Len(mail) + 1 /\ mail'[i].s = s /\ mail'[i].cmd = v
    BY <2>1, MailAppended
  <2> QED
    BY <1>3, <2>2
<1>5. Done(s, v)
  <2>1. OnWire(s, v) /\ v <= sent
    BY <1>2 DEF Ahead
  <2>2. \A k \in 1..Len(session[s].queue) : v <= session[s].queue[k]
    BY <1>2 DEF Ahead
  <2>3. v <= session[s].cmd
    BY <1>1
  <2> QED
    BY <2>1, <2>2, <2>3 DEF Done
<1> HIDE DEF v
<1>6. ASSUME NEW t \in Sessions, NEW c \in Commands
      PROVE  /\ \A i \in 1..Len(mail') : Queued(i, t, c)' =>
                  \/ i \in 1..n /\ Queued(i, t, c)
                  \/ i = n + 1 /\ t = s /\ c = v
             /\ \A i : Logged(i, t, c)' <=> Logged(i, t, c)
             /\ Done(t, c) => Done(t, c)'
  <2>1. \A i \in 1..Len(mail') : Queued(i, t, c)' =>
          \/ i \in 1..n /\ Queued(i, t, c)
          \/ i = n + 1 /\ t = s /\ c = v
    BY <1>4 DEF Queued
  <2>2. \A i : Logged(i, t, c)' <=> Logged(i, t, c)
    BY DEF Logged
  <2>3. Done(t, c) => Done(t, c)'
    BY DEF ThreadsKeep, Commands
  <2> QED
    BY <2>1, <2>2, <2>3
<1>7. ASSUME NEW t \in Sessions, NEW c \in Commands
      PROVE  /\ \A i \in 1..Len(log') : Logged(i, t, c)' => Done(t, c)'
             /\ \A i \in 1..Len(mail') : Queued(i, t, c)' => Done(t, c)'
  <2>1. \A i \in 1..Len(log') : Logged(i, t, c)' => Done(t, c)'
    BY <1>6 DEF LogInv
  <2>2. \A i \in 1..Len(mail') : Queued(i, t, c)' => Done(t, c)'
    BY <1>3, <1>5, <1>6 DEF LogInv
  <2> QED
    BY <2>1, <2>2
<1>8. ASSUME NEW c \in Commands, Done(s, c) PROVE c <= v
  BY <1>2, <1>8 DEF Done, v
<1>9. ASSUME NEW t \in Sessions PROVE InOrder(t)'
  <2> SUFFICES ASSUME NEW c \in Commands, NEW d \in Commands
               PROVE  /\ \A i, j \in 1..Len(log') : Logged(i, t, c)' /\ Logged(j, t, d)' /\ i < j => c <= d
                      /\ \A i, j \in 1..Len(mail') : Queued(i, t, c)' /\ Queued(j, t, d)' /\ i < j => c <= d
                      /\ \A i \in 1..Len(log'), j \in 1..Len(mail') :
                           Logged(i, t, c)' /\ Queued(j, t, d)' => c <= d
    BY DEF InOrder
  <2>1. InOrder(t)
    BY DEF LogInv
  <2>2. \A i, j \in 1..Len(log') : Logged(i, t, c)' /\ Logged(j, t, d)' /\ i < j => c <= d
    BY <1>6, <2>1 DEF InOrder
  <2>3. ASSUME NEW i \in 1..Len(mail'), NEW j \in 1..Len(mail'),
               Queued(i, t, c)', Queued(j, t, d)', i < j
        PROVE  c <= d
    <3>1. CASE i \in 1..n /\ Queued(i, t, c)
      <4>1. CASE j \in 1..n /\ Queued(j, t, d)
        BY <1>3, <2>1, <2>3, <3>1, <4>1 DEF InOrder
      <4>2. CASE t = s /\ d = v
        BY <1>3, <1>8, <3>1, <4>2 DEF LogInv
      <4> QED
        BY <1>6, <2>3, <4>1, <4>2
    <3>2. CASE i = n + 1
      <4>1. j \in 1..n \/ j = n + 1
        BY <1>4
      <4> QED
        BY <2>3, <3>2, <4>1
    <3> QED
      BY <1>6, <2>3, <3>1, <3>2
  <2>4. ASSUME NEW i \in 1..Len(log'), NEW j \in 1..Len(mail'), Logged(i, t, c)', Queued(j, t, d)'
        PROVE  c <= d
    <3>1. i \in 1..Len(log) /\ Logged(i, t, c)
      BY <1>6, <2>4
    <3>2. CASE j \in 1..n /\ Queued(j, t, d)
      BY <1>3, <2>1, <3>1, <3>2 DEF InOrder
    <3>3. CASE t = s /\ d = v
      BY <1>8, <3>1, <3>3 DEF LogInv
    <3> QED
      BY <1>6, <2>4, <3>2, <3>3
  <2> QED
    BY <2>2, <2>3, <2>4
<1> QED
  BY <1>7, <1>9 DEF LogInv, ThreadsKeep

\* The first entry of the queue of the bus goes, to the end of the log or for good.
LEMMA LogShifted ==
  ASSUME LogInv, ThreadsKeep, mail \in Seq(MailRecord), log' \in Seq(LogRecord), 1 \in 1..Len(mail),
         \A i \in 1..Len(mail') :
           /\ i + 1 \in 1..Len(mail)
           /\ mail'[i].s = mail[i + 1].s /\ mail'[i].cmd = mail[i + 1].cmd,
         \A i \in 1..Len(log') :
           \/ i \in 1..Len(log) /\ log'[i] = log[i]
           \/ Len(log) < i /\ log'[i].s = mail[1].s /\ log'[i].cmd = mail[1].cmd
  PROVE  LogInv'
<1>0. Len(log) \in Nat /\ Len(mail) \in Nat
  BY DEF LogInv
<1>1. ASSUME NEW t \in Sessions, NEW c \in Commands
      PROVE  /\ \A i \in 1..Len(mail') : Queued(i, t, c)' <=> Queued(i + 1, t, c)
             /\ \A i \in 1..Len(log') : Logged(i, t, c)' =>
                  \/ i \in 1..Len(log) /\ Logged(i, t, c)
                  \/ Len(log) < i /\ Queued(1, t, c)
             /\ Done(t, c) => Done(t, c)'
  <2>1. \A i \in 1..Len(mail') : Queued(i, t, c)' <=> Queued(i + 1, t, c)
    BY DEF Queued
  <2>2. \A i \in 1..Len(log') : Logged(i, t, c)' =>
          \/ i \in 1..Len(log) /\ Logged(i, t, c)
          \/ Len(log) < i /\ Queued(1, t, c)
    BY DEF Logged, Queued
  <2>3. Done(t, c) => Done(t, c)'
    BY DEF ThreadsKeep, Commands
  <2> QED
    BY <2>1, <2>2, <2>3
<1>2. ASSUME NEW t \in Sessions, NEW c \in Commands
      PROVE  /\ \A i \in 1..Len(log') : Logged(i, t, c)' => Done(t, c)'
             /\ \A i \in 1..Len(mail') : Queued(i, t, c)' => Done(t, c)'
  BY <1>1 DEF LogInv
<1>3. ASSUME NEW t \in Sessions PROVE InOrder(t)'
  <2> SUFFICES ASSUME NEW c \in Commands, NEW d \in Commands
               PROVE  /\ \A i, j \in 1..Len(log') : Logged(i, t, c)' /\ Logged(j, t, d)' /\ i < j => c <= d
                      /\ \A i, j \in 1..Len(mail') : Queued(i, t, c)' /\ Queued(j, t, d)' /\ i < j => c <= d
                      /\ \A i \in 1..Len(log'), j \in 1..Len(mail') :
                           Logged(i, t, c)' /\ Queued(j, t, d)' => c <= d
    BY DEF InOrder
  <2>1. InOrder(t)
    BY DEF LogInv
  <2>2. ASSUME NEW i \in 1..Len(log'), NEW j \in 1..Len(log'), Logged(i, t, c)', Logged(j, t, d)', i < j
        PROVE  c <= d
    <3>1. CASE i \in 1..Len(log) /\ Logged(i, t, c)
      <4>1. CASE j \in 1..Len(log) /\ Logged(j, t, d)
        BY <2>1, <2>2, <3>1, <4>1 DEF InOrder
      <4>2. CASE Queued(1, t, d)
        BY <2>1, <3>1, <4>2 DEF InOrder
      <4> QED
        BY <1>1, <2>2, <4>1, <4>2
    <3>2. CASE Len(log) < i /\ Queued(1, t, c)
      <4>1. j \notin 1..Len(log)
        BY <1>0, <2>2, <3>2
      <4>2. Queued(1, t, d)
        BY <1>1, <2>2, <4>1
      <4>3. c = d
        BY <3>2, <4>2 DEF Queued
      <4> QED
        BY <4>3 DEF Commands
    <3> QED
      BY <1>1, <2>2, <3>1, <3>2
  <2>3. ASSUME NEW i \in 1..Len(mail'), NEW j \in 1..Len(mail'),
               Queued(i, t, c)', Queued(j, t, d)', i < j
        PROVE  c <= d
    <3>1. Queued(i + 1, t, c) /\ Queued(j + 1, t, d) /\ i + 1 < j + 1
      BY <1>1, <2>3
    <3> QED
      BY <2>1, <3>1 DEF InOrder
  <2>4. ASSUME NEW i \in 1..Len(log'), NEW j \in 1..Len(mail'), Logged(i, t, c)', Queued(j, t, d)'
        PROVE  c <= d
    <3>1. Queued(j + 1, t, d) /\ 1 < j + 1
      BY <1>1, <2>4
    <3>2. CASE i \in 1..Len(log) /\ Logged(i, t, c)
      BY <2>1, <3>1, <3>2 DEF InOrder
    <3>3. CASE Queued(1, t, c)
      BY <2>1, <3>1, <3>3 DEF InOrder
    <3> QED
      BY <1>1, <2>4, <3>2, <3>3
  <2> QED
    BY <2>2, <2>3, <2>4
<1> QED
  BY <1>2, <1>3 DEF LogInv, ThreadsKeep


\* onMessageEvent: the first entry of the queue of the bus, in the log or nowhere.
LEMMA DeliverLogs ==
  ASSUME PortInv, BusInv, LogInv, Deliver
  PROVE  LogInv'
<1> DEFINE m == Head(mail)
           e == [s |-> m.s, cmd |-> m.cmd]
<1>1. /\ mail # <<>> /\ mail \in Seq(MailRecord) /\ log \in Seq(LogRecord)
      /\ log' \in {log, Append(log, e)} /\ UNCHANGED <<session, wire, sent>>
  BY DEF Deliver, BusInv, LogInv, portVars, trafficVars
<1>2. /\ Tail(mail) \in Seq(MailRecord) /\ m = mail[1] /\ 1 \in 1..Len(mail)
      /\ Len(Tail(mail)) \in Nat /\ DOMAIN Tail(mail) = 1..Len(Tail(mail))
      /\ \A i \in 1..Len(Tail(mail)) : i + 1 \in 1..Len(mail) /\ Tail(mail)[i] = mail[i + 1]
  <2>1. /\ Tail(mail) \in Seq(MailRecord) /\ m = mail[1] /\ Len(Tail(mail)) = Len(mail) - 1
        /\ \A i \in 1..Len(Tail(mail)) : Tail(mail)[i] = mail[i + 1]
    BY ONLY <1>1, HeadTailProperties
  <2>2. Len(mail) \in Nat /\ Len(mail) # 0
    BY ONLY <1>1, EmptySeq
  <2> QED
    BY ONLY <2>1, <2>2
<1>3. m \in MailRecord
  BY ONLY <1>1, <1>2, ElementOfSeq
<1>4. e \in LogRecord /\ e.s = mail[1].s /\ e.cmd = mail[1].cmd
  BY <1>2, <1>3 DEF MailRecord, LogRecord
<1> HIDE DEF m, e
<1>5. /\ log' \in Seq(LogRecord)
      /\ \A i \in 1..Len(log') :
           \/ i \in 1..Len(log) /\ log'[i] = log[i]
           \/ Len(log) < i /\ log'[i].s = mail[1].s /\ log'[i].cmd = mail[1].cmd
  <2>1. CASE log' = log
    BY <1>1, <2>1
  <2>2. CASE log' = Append(log, e)
    <3>1. /\ log' \in Seq(LogRecord) /\ Len(log') = Len(log) + 1 /\ Len(log) \in Nat
          /\ log'[Len(log) + 1] = e /\ \A i \in 1..Len(log) : log'[i] = log[i]
      BY ONLY <1>1, <1>4, <2>2, AppendProperties
    <3>2. \A i \in 1..Len(log') : i \in 1..Len(log) \/ (i = Len(log) + 1 /\ Len(log) < i)
      BY ONLY <3>1
    <3> QED
      BY <1>4, <3>1, <3>2
  <2> QED
    BY <1>1, <2>1, <2>2
<1>6. \A i \in 1..Len(mail') :
        i + 1 \in 1..Len(mail) /\ mail'[i].s = mail[i + 1].s /\ mail'[i].cmd = mail[i + 1].cmd
  <2>1. CASE mail' = Tail(mail)
    BY <1>2, <2>1
  <2>2. CASE mail' = [i \in DOMAIN Tail(mail) |-> [Tail(mail)[i] EXCEPT !.due = FALSE]]
    <3>1. Len(mail') = Len(Tail(mail))
      BY <1>2, <2>2
    <3>2. \A i \in 1..Len(Tail(mail)) : Tail(mail)[i] \in MailRecord
      BY <1>2, ElementOfSeq
    <3>3. \A i \in 1..Len(Tail(mail)) :
            mail'[i].s = Tail(mail)[i].s /\ mail'[i].cmd = Tail(mail)[i].cmd
      BY <1>2, <2>2, <3>2 DEF MailRecord
    <3> QED
      BY <1>2, <3>1, <3>3
  <2> QED
    BY <2>1, <2>2 DEF Deliver
<1>7. ThreadsKeep
  BY <1>1, SameThreads
<1> QED
  BY <1>1, <1>2, <1>5, <1>6, <1>7, LogShifted

\* sendDatalist: the entries for messages of LoRaActivity are none of commands.
LEMMA DatalistLogs ==
  ASSUME PortInv, BusInv, LogInv, SendDatalist
  PROVE  LogInv'
<1> DEFINE z == [i \in 1..Cardinality(registered) |-> [s |-> 0, cmd |-> 0]]
<1>1. log' = log \o z /\ UNCHANGED <<session, wire, sent, mail>>
  BY DEF SendDatalist, portVars, trafficVars, mailVars
<1>2. Cardinality(registered) \in Nat
  <2>1. shows \in Nat /\ registered \subseteq 1..shows
    BY DEF BusInv
  <2>2. IsFiniteSet(1..shows)
    BY <2>1, FS_Interval
  <2> QED
    BY <2>1, <2>2, FS_Subset, FS_CardinalityType
<1>3. z \in Seq(LogRecord) /\ Len(z) = Cardinality(registered) /\ \A i \in 1..Len(z) : z[i].cmd = 0
  <2>1. [s |-> 0, cmd |-> 0] \in LogRecord
    BY DEF LogRecord
  <2>2. z \in [1..Cardinality(registered) -> LogRecord]
    BY <2>1
  <2> QED
    BY <1>2, <2>2
<1> HIDE DEF z
<1>4. /\ log' \in Seq(LogRecord) /\ Len(log') = Len(log) + Len(z)
      /\ \A i \in 1..Len(log) + Len(z) : log'[i] = IF i <= Len(log) THEN log[i] ELSE z[i - Len(log)]
  <2>1. log \in Seq(LogRecord)
    BY DEF LogInv
  <2> QED
    BY ONLY <1>1, <1>3, <2>1, ConcatProperties
<1>5. Len(log) \in Nat /\ Len(z) \in Nat
  BY <1>2, <1>3 DEF LogInv
<1>6. \A i \in 1..Len(log') : log'[i].cmd = 0 \/ (i \in 1..Len(log) /\ log'[i] = log[i])
  <2> SUFFICES ASSUME NEW i \in 1..Len(log')
               PROVE  log'[i].cmd = 0 \/ (i \in 1..Len(log) /\ log'[i] = log[i])
    OBVIOUS
  <2>1. CASE i <= Len(log)
    BY <1>4, <1>5, <2>1
  <2>2. CASE ~ (i <= Len(log))
    <3>1. i - Len(log) \in 1..Len(z)
      BY <1>4, <1>5, <2>2
    <3> QED
      BY <1>3, <1>4, <2>2, <3>1
  <2> QED
    BY <2>1, <2>2
<1> QED
  BY <1>1, <1>4, <1>6, LogKept, SameThreads

\* A step that leaves the log and the queue of the bus alone.
LEMMA LogRests ==
  ASSUME LogInv, ThreadsKeep, UNCHANGED <<log, mail>>
  PROVE  LogInv'
BY LogKept DEF LogInv

\* An entry of the queue of the bus that is none of a command.
LEMMA OtherMail ==
  ASSUME PortInv, BusInv, LogInv, ThreadsKeep, UNCHANGED log,
         NEW to \in SUBSET Ids, Enqueue(0, 0, to) \/ \E s \in Sessions : Enqueue(s, 0, to)
  PROVE  LogInv'
<1>1. PICK s \in Nat : Enqueue(s, 0, to)
  BY DEF Sessions
<1>2. to \in SUBSET Nat /\ 0 \in Nat
  BY DEF Ids
<1>3. \A i \in 1..Len(mail') : mail'[i].cmd = 0 \/ (i \in 1..Len(mail) /\ mail'[i] = mail[i])
  BY <1>1, <1>2, MailAppended
<1> QED
  BY <1>3, LogKept DEF LogInv

\* Opening starts threads with nothing to do; closing only takes from them.
LEMMA OpenCloseKeeps ==
  ASSUME PortInv, LogInv, (\E b \in Buttons : Open(b) \/ OpenFails(b) \/ Close(b)) \/ ClosingStep
  PROVE  ThreadsKeep
<1>0. /\ session \in [Sessions -> SessionRecord] /\ MaxSessions \in Nat /\ opened \in 0..MaxSessions
  BY ToolAssumption DEF PortInv, Types
<1>1. UNCHANGED <<wire, sent>>
  BY DEF Open, OpenFails, Close, ClosingStep, CloseIn, Interrupt, CloseOut, Quit, CloseFd, Closing,
         trafficVars
<1>2. \A s \in Sessions, c \in Nat : OnWire(s, c) => OnWire(s, c)'
  BY <1>1 DEF OnWire
<1>3. ASSUME NEW s \in Sessions, NEW r, session' = [session EXCEPT ![s] = r],
             r.queue \in {<<>>, session[s].queue}, r.cmd \in {0, session[s].cmd},
             Busy(r) => Busy(session[s]) /\ r.cmd = session[s].cmd,
             Written(r) => Written(session[s])
      PROVE  ThreadsKeep
  <2>1. \A t \in Sessions : session'[t] = IF t = s THEN r ELSE session[t]
    BY <1>0, <1>3
  <2>2. \A t \in Sessions :
          /\ session'[t].queue \in {<<>>, session[t].queue}
          /\ session'[t].cmd \in {0, session[t].cmd}
          /\ Busy(session'[t]) => Busy(session[t]) /\ session'[t].cmd = session[t].cmd
          /\ Written(session'[t]) => Written(session[t])
    BY <1>3, <2>1
  <2> QED
    BY <1>1, <1>2, <2>2, QuietThreads
<1>4. CASE UNCHANGED session
  BY <1>1, <1>4, SameThreads
<1>5. ASSUME NEW b \in Buttons, Open(b) PROVE ThreadsKeep
  <2>1. opened + 1 \in Sessions
    BY <1>0, <1>5 DEF Open, Sessions
  <2>2. PICK d : session' = [session EXCEPT ![opened + 1] =
                               NewSession(b, Min({k \in Sessions : fds[k] = 0}), d)]
    BY <1>5 DEF Open
  <2>3. ASSUME NEW n PROVE /\ NewSession(b, n, d).queue = <<>> /\ NewSession(b, n, d).cmd = 0
                           /\ ~Busy(NewSession(b, n, d)) /\ ~Written(NewSession(b, n, d))
    BY DEF NewSession, Busy, Written
  <2> QED
    BY <1>3, <2>1, <2>2, <2>3
<1>6. ASSUME NEW b \in Buttons, OpenFails(b) PROVE ThreadsKeep
  <2>1. opened + 1 \in Sessions
    BY <1>0, <1>6 DEF OpenFails, Sessions
  <2>2. session' = session \/ session' = [session EXCEPT ![opened + 1] = NoSession]
    BY <1>6 DEF OpenFails
  <2>3. NoSession.queue = <<>> /\ NoSession.cmd = 0 /\ ~Busy(NoSession) /\ ~Written(NoSession)
    BY NoSessionRecord DEF Busy, Written
  <2> QED
    BY <1>3, <1>4, <2>1, <2>2, <2>3
<1>7. CASE \E b \in Buttons : Close(b)
  BY <1>4, <1>7 DEF Close
<1>8. CASE CloseIn \/ Interrupt \/ CloseOut \/ Quit
  <2>1. closing.s \in Sessions
    BY <1>8, CloseRecord
  <2>2. PICK r : /\ session' = [session EXCEPT ![closing.s] = r]
                 /\ r.writer = session[closing.s].writer /\ r.cmd = session[closing.s].cmd
                 /\ r.queue \in {<<>>, session[closing.s].queue}
    BY <1>8, CloseRecord
  <2>3. (Busy(r) => Busy(session[closing.s])) /\ (Written(r) => Written(session[closing.s]))
    BY <2>2 DEF Busy, Written
  <2> QED
    BY <1>3, <2>1, <2>2, <2>3
<1>9. CASE CloseFd
  BY <1>4, <1>9 DEF CloseFd
<1> QED
  BY <1>5, <1>6, <1>7, <1>8, <1>9 DEF ClosingStep

\* What is written stands on a wire, and nothing is ever taken from one.
LEMMA WireGrows ==
  ASSUME PortInv, NEW s \in Sessions, Writer(s)
  PROVE  /\ \A t \in Sessions, c \in Nat : OnWire(t, c) => OnWire(t, c)'
         /\ \A v : Write(s) /\ v = session[s].cmd => OnWire(s, v)'
<1>1. CASE UNCHANGED wire /\ ~Write(s)
  BY <1>1 DEF OnWire
<1>2. CASE Write(s)
  <2> DEFINE o == Owner(s)
             e == [s |-> s, cmd |-> session[s].cmd]
  <2>1. wire' = [wire EXCEPT ![o] = Append(@, e)] /\ session[s].writer = "writing" /\ o # 0
    BY <1>2 DEF Write
  <2>2. o \in Sessions
    <3>1. session[s].fd \in Sessions
      BY <2>1 DEF PortInv, Threads
    <3>2. o \in 0..opened /\ opened \in 0..MaxSessions
      BY <3>1 DEF PortInv, Types, Owner
    <3> QED
      BY <2>1, <3>2, ToolAssumption DEF Sessions
  <2>3. e \in [s : Sessions, cmd : Nat]
    BY DEF PortInv, Types, SessionRecord
  <2> HIDE DEF o, e
  <2>4. wire \in [Sessions -> Seq([s : Sessions, cmd : Nat])]
    BY DEF PortInv, Types
  <2>5. wire[o] \in Seq([s : Sessions, cmd : Nat]) /\ wire'[o] = Append(wire[o], e)
        /\ \A p \in Sessions : p # o => wire'[p] = wire[p]
    BY <2>1, <2>2, <2>4
  <2>6. /\ Len(wire'[o]) = Len(wire[o]) + 1 /\ wire'[o][Len(wire[o]) + 1] = e /\ Len(wire[o]) \in Nat
        /\ \A j \in 1..Len(wire[o]) : wire'[o][j] = wire[o][j]
    BY ONLY <2>3, <2>5, AppendProperties
  <2>7. \A j \in 1..Len(wire[o]) : j \in 1..Len(wire'[o])
    BY ONLY <2>6
  <2>8. Len(wire[o]) + 1 \in 1..Len(wire'[o])
    BY ONLY <2>6
  <2>9. ASSUME NEW t \in Sessions, NEW c \in Nat, OnWire(t, c) PROVE OnWire(t, c)'
    <3>1. PICK p \in Sessions : \E j \in 1..Len(wire[p]) : wire[p][j] = [s |-> t, cmd |-> c]
      BY <2>9 DEF OnWire
    <3>2. \E j \in 1..Len(wire'[p]) : wire'[p][j] = [s |-> t, cmd |-> c]
      BY <2>5, <2>6, <2>7, <3>1
    <3> QED
      BY <3>2 DEF OnWire
  <2>10. ASSUME NEW v, v = session[s].cmd PROVE OnWire(s, v)'
    <3>1. wire'[o][Len(wire[o]) + 1] = [s |-> s, cmd |-> v]
      BY <2>6, <2>10 DEF e
    <3> QED
      BY <2>2, <2>8, <3>1 DEF OnWire
  <2> QED
    BY <2>9, <2>10
<1> QED
  BY <1>1, <1>2 DEF Writer, TakeCommand, TestStream, Write, WriteFails, PostSent, QueueSent, WriterEnds

LEMMA WriterKeeps ==
  ASSUME PortInv, LogInv, NEW s \in Sessions, Writer(s)
  PROVE  ThreadsKeep
<1>1. PICK r :
        /\ Replaced(s, r) /\ (Taken(r, session[s]) \/ GoesOn(r, session[s]))
        /\ Written(r) => Write(s) \/ Written(session[s])
  BY WriterRecord DEF Written
<1>2. UNCHANGED sent /\ (UNCHANGED wire \/ Write(s))
  BY DEF Writer, TakeCommand, TestStream, Write, WriteFails, PostSent, QueueSent, WriterEnds, ThreadsOnly
<1>3. \A t \in Sessions : session'[t] = IF t = s THEN r ELSE session[t]
  BY <1>1 DEF Replaced, PortInv, Types
<1>4. CASE Taken(r, session[s])
  <2>1. ~Write(s)
    <3>1. r.writer = "taken" /\ session'[s] = r
      BY <1>3, <1>4 DEF Taken
    <3>2. Write(s) => session'[s].writer = "written"
      <4>1. session[s] \in SessionRecord /\ session \in [Sessions -> SessionRecord]
        BY DEF PortInv, Types
      <4> QED
        BY <4>1 DEF Write, SessionRecord
    <3> QED
      BY <3>1, <3>2
  <2> QED
    BY <1>1, <1>2, <1>4, <2>1, TakeKeeps
<1>5. CASE GoesOn(r, session[s])
  <2>1. \A t \in Sessions, c \in Nat : OnWire(t, c) => OnWire(t, c)'
    BY WireGrows
  <2>2. PICK v : v = session[s].cmd
    OBVIOUS
  <2>3. Write(s) => OnWire(s, v)'
    BY <2>2, WireGrows
  <2>4. ASSUME NEW t \in Sessions
        PROVE  /\ session'[t].queue \in {<<>>, session[t].queue}
               /\ session'[t].cmd \in {0, session[t].cmd}
               /\ Busy(session'[t]) => Busy(session[t]) /\ session'[t].cmd = session[t].cmd
    BY <1>3, <1>5 DEF GoesOn
  <2>5. ASSUME NEW t \in Sessions, Written(session'[t]), ~Written(session[t])
        PROVE  Write(s) /\ t = s
    BY <1>1, <1>3, <2>5
  <2>6. ASSUME NEW t \in Sessions, Written(session'[t])
        PROVE  Written(session[t]) \/ OnWire(t, session[t].cmd)'
    <3>1. CASE ~Written(session[t])
      <4>1. t = s /\ OnWire(s, v)'
        BY <2>3, <2>5, <2>6, <3>1
      <4>2. session'[s].cmd = v
        BY <2>2, <2>4, <2>6, <4>1 DEF Written, Busy
      <4> QED
        BY <4>1, <4>2 DEF OnWire
    <3> QED
      BY <3>1
  <2> QED
    BY <1>2, <2>1, <2>4, <2>6, QuietThreads
<1> QED
  BY <1>1, <1>4, <1>5

LEMMA ReaderKeeps ==
  ASSUME PortInv, LogInv, NEW s \in Sessions, Reader(s)
  PROVE  ThreadsKeep
<1>1. PICK r : Replaced(s, r) /\ SameWriting(r, session[s])
  BY ReaderRecord
<1>2. UNCHANGED <<sent, wire>>
  BY DEF Reader, TestInterrupt, Available, ReadBegins, ReaderGoes, Read, ReadWakes, QueueRead, ThreadsOnly
<1>3. \A t \in Sessions : SameWriting(session'[t], session[t])
  BY <1>1 DEF Replaced, PortInv, Types, SameWriting
<1>4. \A t \in Sessions, c \in Nat : OnWire(t, c) => OnWire(t, c)'
  BY <1>2 DEF OnWire
<1> QED
  BY <1>2, <1>3, <1>4, QuietThreads DEF SameWriting, Busy, Written

LEMMA LogNext ==
  ASSUME PortInv, TaskInv, BusInv, LogInv, [Next]_vars
  PROVE  LogInv'
<1>1. CASE \/ LoadList \/ BackToMain \/ SendFromList \/ Leave \/ BusRests \/ OnStop \/ AskStop
           \/ LoRaSendData \/ \E a \in {"main", "lora"} : Start(a)
           \/ \E k \in DOMAIN tasks : TaskPosts(k)
  <2>1. UNCHANGED <<session, wire, sent, log, mail>>
    BY <1>1 DEF LoadList, BackToMain, SendFromList, Leave, BusRests, OnStop, AskStop, LoRaSendData,
                Start, TaskPosts, portVars, trafficVars, busVars, mailVars
  <2> QED
    BY <2>1, SameThreads, LogRests
<1>2. CASE Clear
  <2>1. log' = <<>> /\ UNCHANGED <<session, wire, sent, mail>>
    BY <1>2 DEF Clear, portVars, trafficVars, mailVars
  <2>2. <<>> \in Seq(LogRecord) /\ Len(<<>>) = 0 /\ 1..0 = {}
    OBVIOUS
  <2> QED
    BY <2>1, <2>2, SameThreads, LogKept
<1>3. CASE Deliver \/ SendDatalist
  BY <1>3, DeliverLogs, DatalistLogs
<1>4. CASE (\E b \in Buttons : Open(b) \/ OpenFails(b) \/ Close(b)) \/ ClosingStep
  <2>1. UNCHANGED <<log, mail>>
    BY <1>4 DEF Open, OpenFails, Close, ClosingStep, CloseIn, Interrupt, CloseOut, Quit, CloseFd,
                Closing, busVars, mailVars
  <2> QED
    BY <1>4, <2>1, OpenCloseKeeps, LogRests
<1>5. CASE \E b \in Buttons : Send(b)
  <2>1. UNCHANGED <<log, mail>>
    BY <1>5 DEF Send, busVars, mailVars
  <2> QED
    BY <1>5, <2>1, SendKeeps, LogRests
<1>6. ASSUME NEW s \in Sessions, Writer(s) PROVE LogInv'
  <2>1. ThreadsKeep /\ log' = log
    BY <1>6, WriterKeeps
       DEF Writer, TakeCommand, TestStream, Write, WriteFails, PostSent, QueueSent, WriterEnds, ThreadsOnly
  <2>2. CASE QueueSent(s)
    BY <2>1, <2>2, PostKeeps
  <2>3. CASE ~QueueSent(s)
    <3>1. mail' = mail
      BY <1>6, <2>3 DEF Writer, TakeCommand, TestStream, Write, WriteFails, PostSent, WriterEnds, mailVars
    <3> QED
      BY <2>1, <3>1, LogRests
  <2> QED
    BY <2>2, <2>3
<1>7. ASSUME NEW s \in Sessions, Reader(s) PROVE LogInv'
  <2>1. ThreadsKeep /\ log' = log
    BY <1>7, ReaderKeeps
       DEF Reader, TestInterrupt, Available, ReadBegins, ReaderGoes, Read, ReadWakes, QueueRead, ThreadsOnly
  <2>2. CASE QueueRead(s)
    <3>1. session[s].readTo \in SUBSET Ids
      BY DEF PortInv, Types, SessionRecord
    <3> QED
      BY <2>1, <2>2, <3>1, OtherMail DEF QueueRead
  <2>3. CASE ~QueueRead(s)
    <3>1. mail' = mail
      BY <1>7, <2>3 DEF Reader, TestInterrupt, Available, ReadBegins, ReaderGoes, Read, ReadWakes, mailVars
    <3> QED
      BY <2>1, <3>1, LogRests
  <2> QED
    BY <2>2, <2>3
<1>8. CASE \E s \in Sessions : DeviceSpeaks(s)
  <2>1. UNCHANGED <<session, wire, sent, log, mail>>
    BY <1>8 DEF DeviceSpeaks, portVars, busVars, mailVars
  <2> QED
    BY <2>1, SameThreads, LogRests
<1>9. ASSUME NEW k \in DOMAIN tasks, Task(k) PROVE LogInv'
  <2>1. UNCHANGED <<session, wire, sent, log>>
    BY <1>9 DEF Task, TaskBegins, TaskSends, TaskQueues, TaskWrites, TaskEnds, portVars, trafficVars, busVars
  <2>2. CASE TaskQueues(k)
    <3>1. tasks[k].to \in SUBSET Ids
      <4>1. tasks[k] \in TaskRecord
        BY DEF TaskInv
      <4> QED
        BY <4>1 DEF TaskRecord
    <3> QED
      BY <2>1, <2>2, <3>1, SameThreads, OtherMail DEF TaskQueues
  <2>3. CASE ~TaskQueues(k)
    <3>1. mail' = mail
      BY <1>9, <2>3 DEF Task, TaskBegins, TaskSends, TaskWrites, TaskEnds, busVars, mailVars
    <3> QED
      BY <2>1, <3>1, SameThreads, LogRests
  <2> QED
    BY <2>2, <2>3
<1>10. CASE UNCHANGED vars
  BY <1>10, SameThreads, LogRests DEF vars, portVars, trafficVars, busVars, mailVars
<1> QED
  BY <1>1, <1>2, <1>3, <1>4, <1>5, <1>6, <1>7, <1>8, <1>9, <1>10 DEF Next, Interface

\* PortUtils.sendCommand, LogManager and LogFragment: however the writing threads, the
\* queues of the bus and of the user interface and the closing of ports follow each
\* other, a command stands in the log only if it was written, to the number of its own
\* port or, if it was inside write() when that was closed, perhaps to another's; and the
\* commands of a session stand there in the order in which they were sent.
THEOREM LogTellsTheTruth == Spec => []LogTrue
<1>1. Init => LogInv
  <2> SUFFICES ASSUME Init PROVE LogInv
    OBVIOUS
  <2>1. <<>> \in Seq(LogRecord) /\ Len(<<>>) = 0 /\ 1..0 = {}
    OBVIOUS
  <2>2. \A s \in Sessions : session[s] = NoSession
    BY DEF Init
  <2>3. \A s \in Sessions : InOrder(s)
    BY <2>1 DEF Init, InOrder
  <2>4. \A s \in Sessions : Ahead(s)
    <3>1. ~Written(NoSession)
      BY NoSessionRecord DEF Written
    <3> QED
      BY <2>1, <2>2, <3>1, NoSessionRecord DEF Init, Ahead
  <2> QED
    BY <2>1, <2>3, <2>4 DEF Init, LogInv
<1>2. PortInv /\ TaskInv /\ BusInv /\ LogInv /\ [Next]_vars => LogInv'
  BY LogNext
<1>3. OwnPort /\ LogInv => LogTrue
  <2> SUFFICES ASSUME OwnPort, LogInv, NEW s \in Sessions
               PROVE  /\ \A i \in 1..Len(log) : log[i].s = s /\ log[i].cmd # 0 =>
                           \E o \in Sessions : \E j \in 1..Len(wire[o]) :
                             /\ wire[o][j] = [s |-> s, cmd |-> log[i].cmd]
                             /\ o = s \/ log[i].cmd = session[s].caught
                      /\ \A i, j \in 1..Len(log) :
                           /\ log[i].s = s /\ log[i].cmd # 0 /\ log[j].s = s /\ log[j].cmd # 0
                           /\ i < j
                           => log[i].cmd <= log[j].cmd
    BY DEF LogTrue
  <2>1. \A i \in 1..Len(log) : log[i].cmd # 0 => log[i].cmd \in Commands
    <3>1. log \in Seq(LogRecord)
      BY DEF LogInv
    <3>2. \A i \in 1..Len(log) : log[i] \in LogRecord
      BY <3>1, ElementOfSeq
    <3> QED
      BY <3>2 DEF LogRecord, Commands
  <2>2. ASSUME NEW i \in 1..Len(log), log[i].s = s, log[i].cmd # 0
        PROVE  \E o \in Sessions : \E j \in 1..Len(wire[o]) :
                 /\ wire[o][j] = [s |-> s, cmd |-> log[i].cmd]
                 /\ o = s \/ log[i].cmd = session[s].caught
    <3> DEFINE c == log[i].cmd
    <3>1. OnWire(s, c)
      BY <2>1, <2>2 DEF LogInv, Logged, Done
    <3>2. PICK o \in Sessions : \E j \in 1..Len(wire[o]) : wire[o][j] = [s |-> s, cmd |-> c]
      BY <3>1 DEF OnWire
    <3>3. PICK j \in 1..Len(wire[o]) : wire[o][j] = [s |-> s, cmd |-> c]
      BY <3>2
    <3>4. o = s \/ c = session[s].caught
      BY <3>3 DEF OwnPort
    <3> QED
      BY <3>3, <3>4
  <2>3. ASSUME NEW i \in 1..Len(log), NEW j \in 1..Len(log),
               log[i].s = s, log[i].cmd # 0, log[j].s = s, log[j].cmd # 0, i < j
        PROVE  log[i].cmd <= log[j].cmd
    BY <2>1, <2>3 DEF LogInv, InOrder, Logged
  <2> QED
    BY <2>2, <2>3
<1> QED
  BY <1>1, <1>2, <1>3, PortsKeepTheirNumbers, TasksKeep, BusKeeps, CommandsReachOwnPort, PTL DEF Spec
=============================================================================
