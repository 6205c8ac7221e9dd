---------------------------- MODULE ReaderSlots ----------------------------
(***************************************************************************)
(* The table of readers (utils.c), the serial ports behind it              *)
(* (set_ccid_descriptor, OpenSerialByName, CloseSerial in ccid_serial.c)   *)
(* and the two functions that fill and empty it together,                  *)
(* CreateChannelByNameOrChannel and FreeChannel in ifdhandler.c.           *)
(*                                                                         *)
(* A reader with several slots has one port; its slots are channels of     *)
(* their own, whose descriptors are copies that point to the counter and   *)
(* the sequence number in the descriptor of the first.                     *)
(***************************************************************************)
EXTENDS Integers, FiniteSets, FiniteSetsExt

CONSTANTS
    Luns,           \* logical unit numbers, natural numbers
    Ports,          \* requests for a port: names, and channel numbers
    Kinds,          \* names of readers
    MaxReaders,     \* CCID_DRIVER_MAX_READERS
    MaxFiles,       \* bound: file descriptors and copies of names
    FollowShared    \* bound: whether runs go on once `shared' is TRUE, and then
                    \* until a counter of slots has fallen below 0

NoName == ""    \* of a copy that was freed, a file that is closed, a Lun without a port

ASSUME SlotsAssumption ==
    /\ Luns \subseteq Nat /\ NoName \notin Ports
    /\ Kinds \subseteq {"GemPCTwin", "GemCoreSIMPro", "GemCorePOSPro", "SEC1210"}
    /\ MaxReaders \in Nat \ {0} /\ MaxFiles \in Nat \ {0} /\ FollowShared \in BOOLEAN

VARIABLES
    ReaderIndex,    \* index -> Lun
    serialDevice,   \* index -> descriptor
    names,          \* copy made by strdup -> what it says
    files,          \* file descriptor -> the port it is open on
    previous_reader_index,
    wanted,         \* index -> the port its Lun was created with
    shared          \* a slot was closed while its reader had others

vars == <<ReaderIndex, serialDevice, names, files, previous_reader_index, wanted, shared>>

Indices == 0..MaxReaders - 1
Ids     == 1..MaxFiles
None    == -1
Unused(f) == {id \in Ids : f[id] = NoName}
Held    == {i \in Indices : ReaderIndex[i] # None}

\* The port a request names.  OpenSerial converts the old channel numbers.
DeviceName(p) ==
    CASE p = "1" \/ p = "0x0103F8" -> "/dev/pcsc/1"
      [] p = "2" \/ p = "0x0102F8" -> "/dev/pcsc/2"
      [] OTHER -> p

DeviceNames == {DeviceName(p) : p \in Ports} \cup {NoName}

\* The highest slot of each kind of reader.
MaxSlotIndex(k) ==
    CASE k = "GemCorePOSPro" -> 4
      [] k \in {"GemCoreSIMPro", "SEC1210"} -> 1
      [] OTHER -> 0

-----------------------------------------------------------------------------
(* The table of readers                                                    *)

\* (Mutant of FreeIndices: the check that the Lun is new is left out.)
FreeIndicesAnyLun(lun) == {i \in Indices : ReaderIndex[i] = None}

\* GetNewReaderIndex takes the lowest of these; there are none for a Lun that
\* has an index already.
FreeIndices(lun) ==
    {i \in Indices : ReaderIndex[i] = None /\ \A j \in Indices : ReaderIndex[j] # lun}

-----------------------------------------------------------------------------
(* One port: operators from one state of the ports to the next             *)

\* The name in a descriptor is `n'.  Of a copy that was freed nobody knows what
\* it says: `ghost' is what the comparison makes of it.
Says(s, i, n, ghost) ==
    /\ s.dev[i].device # None
    /\ IF s.names[s.dev[i].device] = NoName THEN ghost ELSE s.names[s.dev[i].device] = n

CloseSerial(s, i) ==
    LET d == s.dev[i]
        left == s.dev[d.primary].count - 1
        counted == [s.dev EXCEPT ![d.primary].count = left]
    IN  IF d.device = None THEN s
        ELSE IF left # 0 THEN [s EXCEPT !.dev = counted]
        ELSE [dev   |-> [counted EXCEPT ![i].fd = None, ![i].device = None],
              names |-> [s.names EXCEPT ![d.device] = NoName],
              files |-> IF d.fd = None THEN s.files ELSE [s.files EXCEPT ![d.fd] = NoName]]

\* (Mutants of CanShare: one slot too many; whatever port was opened last.)
CanShareOneMore(s, n, ghost) ==
    /\ previous_reader_index # None
    /\ Says(s, previous_reader_index, n, ghost)
    /\ s.dev[previous_reader_index].slot <= s.dev[previous_reader_index].maxSlot

CanShareAnyPort(s, n, ghost) ==
    /\ previous_reader_index # None
    /\ s.dev[previous_reader_index].device # None
    /\ s.dev[previous_reader_index].slot < s.dev[previous_reader_index].maxSlot

\* set_ccid_descriptor, another slot of a reader that is open: a copy of the
\* descriptor made last.
CanShare(s, n, ghost) ==
    /\ previous_reader_index # None
    /\ Says(s, previous_reader_index, n, ghost)
    /\ s.dev[previous_reader_index].slot < s.dev[previous_reader_index].maxSlot

\* (Mutant of Share: the slot is not counted.)
ShareUncounted(s, i) ==
    [s EXCEPT !.dev[i] = [s.dev[previous_reader_index] EXCEPT !.slot = @ + 1]]

Share(s, i) ==
    LET d == s.dev[previous_reader_index]
        copied == [s.dev EXCEPT ![i] = [d EXCEPT !.slot = @ + 1]]
    IN  [s EXCEPT !.dev = [copied EXCEPT ![d.primary].count = @ + 1]]

\* set_ccid_descriptor, the first slot of a reader.  The fields `device' and
\* `fd' are set later, if at all.
Describe(s, i, k) ==
    [s EXCEPT !.dev[i] = [device |-> @.device, fd |-> @.fd, primary |-> i, count |-> 1,
                          slot |-> 0, maxSlot |-> MaxSlotIndex(k)]]

\* open() and strdup() of the name.
OpenPort(s, i, n, fd, copy) ==
    [dev   |-> [s.dev EXCEPT ![i].fd = fd, ![i].device = copy],
     names |-> [s.names EXCEPT ![copy] = n],
     files |-> [s.files EXCEPT ![fd] = n]]

\* (Mutant of AttributesFail: the port is not closed.)
AttributesFailOpen(s, i) == [s EXCEPT !.dev[i].fd = None]

\* tcgetattr or tcsetattr fails: the port is closed, the name is kept.
AttributesFail(s, i) ==
    [s EXCEPT !.dev[i].fd = None, !.files[s.dev[i].fd] = NoName]

-----------------------------------------------------------------------------
(* Channels                                                                *)

Before == [dev |-> serialDevice, names |-> names, files |-> files]

After(s) == serialDevice' = s.dev /\ names' = s.names /\ files' = s.files

\* CloseSerial leaves slots behind that share what it could not release.
Leaves(s, i) == s.dev[i].device # None /\ s.dev[s.dev[i].primary].count # 1

\* FreeChannel after a failure: the port, then the index, which thereby stays
\* as it was.
GiveUp(s, i) ==
    /\ After(CloseSerial(s, i))
    /\ shared' = (shared \/ Leaves(s, i))
    /\ UNCHANGED <<ReaderIndex, wanted>>

Succeed(s, i, lun, n) ==
    /\ After(s)
    /\ ReaderIndex' = [ReaderIndex EXCEPT ![i] = lun]
    /\ wanted' = [wanted EXCEPT ![i] = n]
    /\ UNCHANGED shared

\* The reader answers the commands that follow (its status, asked up to three
\* times) or it does not.
WarmUp(s, i, lun, n) == Succeed(s, i, lun, n) \/ GiveUp(s, i)

\* The port is in use and has room: no port is opened.
CreateSecondary(lun, p, k) ==
    \E ghost \in BOOLEAN :
      /\ FreeIndices(lun) # {} /\ p # "-1"
      /\ \E j \in Indices : Says(Before, j, DeviceName(p), ghost)
      /\ CanShare(Before, DeviceName(p), ghost)
      /\ LET i == Min(FreeIndices(lun)) IN
           /\ WarmUp(Share(Before, i), i, lun, DeviceName(p))
           /\ previous_reader_index' = i

\* The port is in use and has no room, or the channel number is negative.
CreateRefused(lun, p, k) ==
    /\ FreeIndices(lun) # {}
    /\ \/ p = "-1"
       \/ \E ghost \in BOOLEAN :
            /\ \E j \in Indices : Says(Before, j, DeviceName(p), ghost)
            /\ ~CanShare(Before, DeviceName(p), ghost)
    /\ GiveUp(Before, Min(FreeIndices(lun)))
    /\ UNCHANGED previous_reader_index

\* The port is not in use.  It cannot be opened; or its attributes cannot be
\* set; or the reader does not answer the firmware or the notification command
\* and OpenSerialByName closes it, which FreeChannel does again; or WarmUp.
CreatePrimary(lun, p, k) ==
    \E ghost \in BOOLEAN :
      /\ FreeIndices(lun) # {} /\ p # "-1"
      /\ \A j \in Indices : ~Says(Before, j, DeviceName(p), ghost)
      /\ Unused(names) # {} /\ Unused(files) # {}
      /\ LET i == Min(FreeIndices(lun))
             described == Describe(Before, i, k)
             open == OpenPort(described, i, DeviceName(p), Min(Unused(files)), Min(Unused(names)))
         IN  /\ \/ GiveUp([described EXCEPT !.dev[i].fd = None], i)
                \/ GiveUp(AttributesFail(open, i), i)
                \/ GiveUp(CloseSerial(open, i), i)
                \/ WarmUp(open, i, lun, DeviceName(p))
             /\ previous_reader_index' = i

\* IFDHCreateChannelByName, IFDHCreateChannel
IFDHCreateChannel(lun) ==
    \E p \in Ports, k \in Kinds :
        CreateSecondary(lun, p, k) \/ CreateRefused(lun, p, k) \/ CreatePrimary(lun, p, k)

\* IFDHCloseChannel: whatever becomes of the power-off.
IFDHCloseChannel(lun) ==
    \E i \in Indices :
      /\ ReaderIndex[i] = lun
      /\ After(CloseSerial(Before, i))
      /\ shared' = (shared \/ Leaves(Before, i))
      /\ ReaderIndex' = [ReaderIndex EXCEPT ![i] = None]
      /\ wanted' = [wanted EXCEPT ![i] = NoName]
      /\ UNCHANGED previous_reader_index

-----------------------------------------------------------------------------

Init ==
    /\ ReaderIndex = [i \in Indices |-> None]
    /\ serialDevice = [i \in Indices |-> [device |-> None, fd |-> None, primary |-> None,
                                          count |-> 0, slot |-> 0, maxSlot |-> 0]]
    /\ names = [c \in Ids |-> NoName] /\ files = [f \in Ids |-> NoName]
    /\ previous_reader_index = None
    /\ wanted = [i \in Indices |-> NoName]
    /\ shared = FALSE

Next ==
    /\ shared => FollowShared /\ \A i \in Indices : serialDevice[i].count >= 0
    /\ \E lun \in Luns : IFDHCreateChannel(lun) \/ IFDHCloseChannel(lun)

Spec == Init /\ [][Next]_vars

-----------------------------------------------------------------------------
(* Properties                                                              *)

\* The descriptors, the copies and the files have their types, and no slot has
\* a number its reader does not know.
TypeOK ==
    /\ ReaderIndex \in [Indices -> Luns \cup {None}]
    /\ serialDevice \in [Indices -> [device : Ids \cup {None}, fd : Ids \cup {None},
                                     primary : Indices \cup {None}, count : Int,
                                     slot : 0..4, maxSlot : 0..4]]
    /\ \A i \in Indices : serialDevice[i].slot <= serialDevice[i].maxSlot
    /\ names \in [Ids -> DeviceNames] /\ files \in [Ids -> DeviceNames]
    /\ wanted \in [Indices -> DeviceNames]
    /\ previous_reader_index \in Indices \cup {None}
    /\ shared \in BOOLEAN

\* A Lun never has two indices, whatever fails and is closed in between:
\* LunToReaderIndex is the inverse of the table.
LunOnce ==
    \A i, j \in Held : ReaderIndex[i] = ReaderIndex[j] => i = j

\* Each channel talks on the port its Lun was created with.
OwnPort == \A i \in Held :
    /\ serialDevice[i].fd # None
    /\ files[serialDevice[i].fd] = wanted[i]

\* What the comment in CloseSerial says: "release the allocated ressources for
\* the last slot only".  Whoever is not closed keeps the port.  Not so once the
\* entry of a closed slot is used again: see README.
LastSlotReleases == OwnPort

\* As long as no slot was closed before the others of its reader: each channel
\* is on its own port,
PortKept == ~shared => OwnPort

\* every way to fail leaves neither a file open nor a name behind, nor a
\* descriptor in which set_ccid_descriptor would find the port in use,
NothingLeft == ~shared =>
    /\ \A f \in Ids : files[f] # NoName => \E i \in Held : serialDevice[i].fd = f
    /\ \A c \in Ids : names[c] # NoName => \E i \in Held : serialDevice[i].device = c
    /\ \A i \in Indices \ Held : serialDevice[i].device = None

\* and the channels on one port are the slots of one reader: they share the
\* counter, which counts them, and have different slot numbers.
OneReaderPerPort == ~shared =>
    \A i, j \in Held :
      LET d == serialDevice[i]  e == serialDevice[j]
          slots == {k \in Held : serialDevice[k].primary = d.primary}
      IN  /\ (wanted[i] = wanted[j]) = (d.primary = e.primary)
          /\ i # j /\ d.primary = e.primary => d.slot # e.slot
          /\ serialDevice[d.primary].count = Cardinality(slots)

=============================================================================
