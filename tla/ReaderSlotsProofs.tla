-------------------------- MODULE ReaderSlotsProofs --------------------------
(***************************************************************************)
(* Proofs about ReaderSlots, for any number of readers, ports and Luns.    *)
(*                                                                         *)
(*  - The table never holds a Lun twice, whatever the ports do.            *)
(*  - Every step keeps the types, and an entry that has a name points to   *)
(*    a counter (Typed).                                                   *)
(*  - Until a slot is closed before the others of its reader, the entries, *)
(*    the names and the files belong together (Orderly), which is what the *)
(*    properties of the ports are read from.                               *)
(***************************************************************************)
EXTENDS ReaderSlots, FiniteSetTheorems, WellFoundedInduction, TLAPS

\* The part of TypeOK the proof needs.
TableOK == ReaderIndex \in [Indices -> Luns \cup {None}]

IInv == TableOK /\ LunOnce

LEMMA NoneIsNoLun == None \notin Luns
<1>1. Luns \subseteq Nat
  BY SlotsAssumption, Zenon
<1>2. QED BY <1>1 DEF None

\* The table after CreateChannelByNameOrChannel: as it was (FreeChannel has
\* undone what GetNewReaderIndex did), or with a Lun it did not have.
LEMMA CreateTable ==
    ASSUME NEW lun \in Luns, IFDHCreateChannel(lun)
    PROVE  \/ ReaderIndex' = ReaderIndex
           \/ /\ \A j \in Indices : ReaderIndex[j] # lun
              /\ \E i : ReaderIndex' = [ReaderIndex EXCEPT ![i] = lun]
<1>1. PICK p \in Ports, k \in Kinds :
        CreateSecondary(lun, p, k) \/ CreateRefused(lun, p, k) \/ CreatePrimary(lun, p, k)
  BY DEF IFDHCreateChannel
<1>2. FreeIndices(lun) # {} => \A j \in Indices : ReaderIndex[j] # lun
  BY DEF FreeIndices
<1>3. \A s, i : GiveUp(s, i) => ReaderIndex' = ReaderIndex
  BY DEF GiveUp
<1>4. \A s, i, n : WarmUp(s, i, lun, n) =>
        ReaderIndex' = ReaderIndex \/ ReaderIndex' = [ReaderIndex EXCEPT ![i] = lun]
  BY <1>3 DEF WarmUp, Succeed
<1>5. CASE CreateRefused(lun, p, k)
  BY <1>3, <1>5 DEF CreateRefused
<1>6. CASE CreateSecondary(lun, p, k)
  BY <1>2, <1>4, <1>6 DEF CreateSecondary
<1>7. CASE CreatePrimary(lun, p, k)
  BY <1>2, <1>3, <1>4, <1>7 DEF CreatePrimary
<1> QED BY <1>1, <1>5, <1>6, <1>7

LEMMA CreateKeeps ==
    ASSUME IInv, NEW lun \in Luns, IFDHCreateChannel(lun)
    PROVE  IInv'
<1>1. CASE ReaderIndex' = ReaderIndex
  BY <1>1 DEF IInv, TableOK, LunOnce, Held, Indices
<1>2. ASSUME \A j \in Indices : ReaderIndex[j] # lun,
             NEW i, ReaderIndex' = [ReaderIndex EXCEPT ![i] = lun]
      PROVE  IInv'
  <2>1. TableOK'
    BY <1>2 DEF IInv, TableOK, Indices
  <2>2. LunOnce'
    BY <1>2 DEF IInv, TableOK, LunOnce, Held, Indices
  <2> QED BY <2>1, <2>2 DEF IInv
<1> QED BY <1>1, <1>2, CreateTable

LEMMA CloseKeeps ==
    ASSUME IInv, NEW lun \in Luns, IFDHCloseChannel(lun)
    PROVE  IInv'
<1>1. PICK i \in Indices : ReaderIndex' = [ReaderIndex EXCEPT ![i] = None]
  BY DEF IFDHCloseChannel
<1>2. TableOK'
  BY <1>1 DEF IInv, TableOK, Indices
<1>3. LunOnce'
  BY <1>1 DEF IInv, TableOK, LunOnce, Held, Indices
<1> QED BY <1>2, <1>3 DEF IInv

\* GetNewReaderIndex and ReleaseReaderIndex: no sequence of channels created,
\* refused, failed and closed gives a Lun two indices, so LunToReaderIndex finds
\* the only one.
THEOREM LunHasOneIndex == Spec => []LunOnce
<1>1. Init => IInv
  BY NoneIsNoLun DEF Init, IInv, TableOK, LunOnce, Held
<1>2. IInv /\ [Next]_vars => IInv'
  <2> SUFFICES ASSUME IInv, [Next]_vars PROVE IInv'
    OBVIOUS
  <2>1. CASE Next
    BY <2>1, CreateKeeps, CloseKeeps DEF Next
  <2>2. CASE UNCHANGED vars
    BY <2>2 DEF vars, IInv, TableOK, LunOnce, Held, Indices
  <2> QED BY <2>1, <2>2
<1>3. IInv => LunOnce
  BY DEF IInv
<1> QED BY <1>1, <1>2, <1>3, PTL DEF Spec

-----------------------------------------------------------------------------
(* Types                                                                   *)

DeviceRecord ==
    [device : Ids \cup {None}, fd : Ids \cup {None}, primary : Indices \cup {None},
     count : Int, slot : 0..4, maxSlot : 0..4]

PortStates ==
    [dev : [Indices -> DeviceRecord], names : [Ids -> DeviceNames], files : [Ids -> DeviceNames]]

\* A state of the ports with its types; an entry with a name points to a counter.
PortsOK(s) ==
    /\ s \in PortStates
    /\ \A i \in Indices :
         /\ s.dev[i].slot <= s.dev[i].maxSlot
         /\ s.dev[i].device # None => s.dev[i].primary \in Indices

\* The functions that change one entry keep the types.
LEMMA EntryTypes ==
    ASSUME NEW s, PortsOK(s), NEW i \in Indices, NEW d \in DeviceRecord,
           d.slot <= d.maxSlot, d.device # None => d.primary \in Indices
    PROVE  PortsOK([s EXCEPT !.dev[i] = d])
BY DEF PortsOK, PortStates

LEMMA CloseSerialTypes ==
    ASSUME NEW s, PortsOK(s), NEW i \in Indices
    PROVE  PortsOK(CloseSerial(s, i))
<1> DEFINE d == s.dev[i]
           left == s.dev[d.primary].count - 1
           counted == [s.dev EXCEPT ![d.primary].count = left]
<1>1. CASE d.device = None
  BY <1>1 DEF CloseSerial
<1>2. CASE d.device # None
  <2>1. d \in DeviceRecord /\ d.primary \in Indices /\ d.device \in Ids
    BY <1>2 DEF PortsOK, PortStates, DeviceRecord
  <2>2. left \in Int
    BY <2>1 DEF PortsOK, PortStates, DeviceRecord
  <2>3. counted \in [Indices -> DeviceRecord]
    BY <2>1, <2>2 DEF PortsOK, PortStates, DeviceRecord
  <2>4. \A k \in Indices : /\ counted[k].slot = s.dev[k].slot
                           /\ counted[k].maxSlot = s.dev[k].maxSlot
                           /\ counted[k].device = s.dev[k].device
                           /\ counted[k].primary = s.dev[k].primary
    BY <2>1, SMTT(30) DEF PortsOK, PortStates, DeviceRecord
  <2>5. PortsOK([s EXCEPT !.dev = counted])
    BY <2>3, <2>4 DEF PortsOK, PortStates
  <2> DEFINE cleared == [counted EXCEPT ![i].fd = None, ![i].device = None]
             files1 == IF d.fd = None THEN s.files ELSE [s.files EXCEPT ![d.fd] = NoName]
  <2> HIDE DEF counted
  <2> DEFINE closed == [counted[i] EXCEPT !.fd = None, !.device = None]
  <2>a. cleared = [counted EXCEPT ![i] = closed]
    BY <2>3 DEF DeviceRecord
  <2>b. closed \in DeviceRecord
    BY <2>3 DEF DeviceRecord
  <2>6. cleared \in [Indices -> DeviceRecord]
    BY <2>3, <2>a, <2>b
  <2>7. \A k \in Indices : /\ cleared[k].slot = s.dev[k].slot
                           /\ cleared[k].maxSlot = s.dev[k].maxSlot
                           /\ cleared[k].device # None => cleared[k].device = s.dev[k].device
                           /\ cleared[k].primary = s.dev[k].primary
    <3>1. /\ closed.slot = counted[i].slot /\ closed.maxSlot = counted[i].maxSlot
          /\ closed.device = None /\ closed.primary = counted[i].primary
      BY <2>3 DEF DeviceRecord
    <3> HIDE DEF closed, cleared
    <3>2. QED BY <2>3, <2>4, <2>a, <3>1
  <2>8. NoName \in DeviceNames
    BY DEF DeviceNames
  <2>9. [s.names EXCEPT ![d.device] = NoName] \in [Ids -> DeviceNames] /\ files1 \in [Ids -> DeviceNames]
    BY <2>8 DEF PortsOK, PortStates
  <2>10. PortsOK([dev |-> cleared, names |-> [s.names EXCEPT ![d.device] = NoName], files |-> files1])
    <3> HIDE DEF cleared, files1, counted, left
    <3> QED BY <2>6, <2>7, <2>9 DEF PortsOK, PortStates
  <2>11. QED BY <1>2, <2>5, <2>10, Zenon DEF CloseSerial, counted
<1>3. QED BY <1>1, <1>2

\* What the fields of the first slot of a reader are once its port is open.
FirstSlot(i, k, fd, copy) ==
    [device |-> copy, fd |-> fd, primary |-> i, count |-> 1, slot |-> 0,
     maxSlot |-> MaxSlotIndex(k)]

LEMMA FirstSlotType ==
    ASSUME NEW i \in Indices, NEW k \in Kinds, NEW fd \in Ids, NEW copy \in Ids
    PROVE  FirstSlot(i, k, fd, copy) \in DeviceRecord
<1>1. MaxSlotIndex(k) \in 0..4
  BY DEF MaxSlotIndex
<1>2. QED BY <1>1 DEF FirstSlot, DeviceRecord

\* Describe, then OpenPort: one entry, one name and one file are set.
LEMMA OpenIs ==
    ASSUME NEW s \in PortStates, NEW i \in Indices, NEW k \in Kinds, NEW n,
           NEW fd \in Ids, NEW copy \in Ids
    PROVE  OpenPort(Describe(s, i, k), i, n, fd, copy) =
             [dev   |-> [s.dev EXCEPT ![i] = FirstSlot(i, k, fd, copy)],
              names |-> [s.names EXCEPT ![copy] = n],
              files |-> [s.files EXCEPT ![fd] = n]]
<1> DEFINE t == Describe(s, i, k)
           e == [device |-> s.dev[i].device, fd |-> s.dev[i].fd, primary |-> i, count |-> 1,
                 slot |-> 0, maxSlot |-> MaxSlotIndex(k)]
<1>1. t = [dev |-> [s.dev EXCEPT ![i] = e], names |-> s.names, files |-> s.files]
  BY DEF Describe, PortStates
<1>2. s.dev \in [Indices -> DeviceRecord]
  BY DEF PortStates
<1>3. [[e EXCEPT !.fd = fd] EXCEPT !.device = copy] = FirstSlot(i, k, fd, copy)
  <2>1. [e EXCEPT !.fd = fd] =
          [device |-> s.dev[i].device, fd |-> fd, primary |-> i, count |-> 1,
           slot |-> 0, maxSlot |-> MaxSlotIndex(k)]
    OBVIOUS
  <2> DEFINE m == MaxSlotIndex(k)
             old == s.dev[i].device
             e1 == [device |-> old, fd |-> fd, primary |-> i, count |-> 1, slot |-> 0, maxSlot |-> m]
  <2> HIDE DEF m, old
  <2>2. [e1 EXCEPT !.device = copy] =
          [device |-> copy, fd |-> fd, primary |-> i, count |-> 1, slot |-> 0, maxSlot |-> m]
    OBVIOUS
  <2> HIDE DEF e, e1
  <2>3. [e EXCEPT !.fd = fd] = e1
    BY <2>1 DEF e1, m, old
  <2>4. QED BY <2>2, <2>3, Zenon DEF FirstSlot, m
<1> HIDE DEF e
<1>4. [t.dev EXCEPT ![i].fd = fd, ![i].device = copy] =
        [s.dev EXCEPT ![i] = [[e EXCEPT !.fd = fd] EXCEPT !.device = copy]]
  <2>1. t.dev = [s.dev EXCEPT ![i] = e]
    BY <1>1
  <2> HIDE DEF t
  <2>2. [t.dev EXCEPT ![i].fd = fd] = [s.dev EXCEPT ![i] = [e EXCEPT !.fd = fd]]
    BY <1>2, <2>1
  <2>3. QED BY <1>2, <2>2
<1> HIDE DEF t
<1>5. OpenPort(t, i, n, fd, copy) =
        [dev   |-> [s.dev EXCEPT ![i] = FirstSlot(i, k, fd, copy)],
         names |-> [s.names EXCEPT ![copy] = n], files |-> [s.files EXCEPT ![fd] = n]]
  BY <1>1, <1>3, <1>4 DEF OpenPort
<1>6. QED BY <1>5 DEF t

\* The least element of a set of numbers is one of them.
LEMMA MinIsMember ==
    ASSUME NEW S \in SUBSET Nat, S # {}
    PROVE  Min(S) \in S
<1>1. PICK x \in S : \A y \in S : ~ <<y, x>> \in OpToRel(<, Nat)
  BY NatLessThanWellFounded, WFMin
<1>2. ASSUME NEW y \in S, ~ (x <= y) PROVE FALSE
  <2>1. y < x /\ <<y, x>> \in Nat \X Nat /\ <<y, x>>[1] = y /\ <<y, x>>[2] = x
    BY <1>2
  <2>2. QED BY <1>1, <2>1, Zenon DEF OpToRel
<1>3. QED BY <1>2 DEF Min

\* GetNewReaderIndex and the choice of the model's numbers find one that is free.
LEMMA Free ==
    /\ \A lun \in Luns : FreeIndices(lun) # {} =>
         /\ Min(FreeIndices(lun)) \in Indices
         /\ ReaderIndex[Min(FreeIndices(lun))] = None
         /\ \A j \in Indices : ReaderIndex[j] # lun
    /\ Unused(names) # {} => Min(Unused(names)) \in Ids /\ names[Min(Unused(names))] = NoName
    /\ Unused(files) # {} => Min(Unused(files)) \in Ids /\ files[Min(Unused(files))] = NoName
<1>1. ASSUME NEW lun \in Luns
      PROVE  FreeIndices(lun) # {} => Min(FreeIndices(lun)) \in FreeIndices(lun)
  BY MinIsMember DEF FreeIndices, Indices
<1>2. ASSUME NEW f
      PROVE  Unused(f) # {} => Min(Unused(f)) \in Unused(f)
  <2>1. Unused(f) \in SUBSET Nat
    <3>1. \A id \in Unused(f) : id \in Ids
      BY Zenon DEF Unused
    <3>2. QED BY <3>1 DEF Ids
  <2>2. QED BY <2>1, MinIsMember
<1>3. ASSUME NEW lun \in Luns, FreeIndices(lun) # {}
      PROVE  /\ Min(FreeIndices(lun)) \in Indices
             /\ ReaderIndex[Min(FreeIndices(lun))] = None
             /\ \A j \in Indices : ReaderIndex[j] # lun
  <2> DEFINE i == Min(FreeIndices(lun))
  <2>1. i \in FreeIndices(lun)
    BY <1>1, <1>3
  <2> HIDE DEF i
  <2>2. i \in Indices /\ ReaderIndex[i] = None /\ \A j \in Indices : ReaderIndex[j] # lun
    BY <2>1 DEF FreeIndices
  <2>3. QED BY <2>2 DEF i
<1>4. ASSUME NEW f, Unused(f) # {}
      PROVE  Min(Unused(f)) \in Ids /\ f[Min(Unused(f))] = NoName
  <2> DEFINE i == Min(Unused(f))
  <2>1. i \in Unused(f)
    BY <1>2, <1>4
  <2> HIDE DEF i
  <2>2. i \in Ids /\ f[i] = NoName
    BY <2>1 DEF Unused
  <2>3. QED BY <2>2 DEF i
<1>5. QED BY <1>3, <1>4, Zenon

-----------------------------------------------------------------------------
(* Every operator on the ports keeps the types                             *)

LEMMA DescribeTypes ==
    ASSUME NEW s, PortsOK(s), NEW i \in Indices, NEW k \in Kinds
    PROVE  /\ PortsOK(Describe(s, i, k))
           /\ PortsOK([Describe(s, i, k) EXCEPT !.dev[i].fd = None])
<1> DEFINE old == s.dev[i]
           m == MaxSlotIndex(k)
           e == [device |-> old.device, fd |-> old.fd, primary |-> i, count |-> 1,
                 slot |-> 0, maxSlot |-> m]
           e1 == [device |-> old.device, fd |-> None, primary |-> i, count |-> 1,
                  slot |-> 0, maxSlot |-> m]
<1>1. m \in 0..4
  BY DEF MaxSlotIndex
<1>2. old \in DeviceRecord
  BY DEF PortsOK, PortStates
<1>3. e \in DeviceRecord /\ e.slot <= e.maxSlot /\ e.primary \in Indices
  <2> HIDE DEF old, m
  <2> QED BY <1>1, <1>2 DEF DeviceRecord
<1>4. e1 \in DeviceRecord /\ e1.slot <= e1.maxSlot /\ e1.primary \in Indices
  <2> HIDE DEF old, m
  <2> QED BY <1>1, <1>2 DEF DeviceRecord
<1>5. Describe(s, i, k) = [s EXCEPT !.dev[i] = e]
  BY Zenon DEF Describe
<1>6. [e EXCEPT !.fd = None] = e1
  <2> HIDE DEF old, m
  <2> QED OBVIOUS
<1> HIDE DEF e, e1
<1>7. [[s EXCEPT !.dev[i] = e] EXCEPT !.dev[i].fd = None] = [s EXCEPT !.dev[i] = e1]
  BY <1>6 DEF PortsOK, PortStates
<1>8. PortsOK([s EXCEPT !.dev[i] = e]) /\ PortsOK([s EXCEPT !.dev[i] = e1])
  BY <1>3, <1>4, EntryTypes
<1>9. QED BY <1>5, <1>7, <1>8

LEMMA OpenTypes ==
    ASSUME NEW s, PortsOK(s), NEW i \in Indices, NEW k \in Kinds, NEW n \in DeviceNames,
           NEW fd \in Ids, NEW copy \in Ids
    PROVE  PortsOK(OpenPort(Describe(s, i, k), i, n, fd, copy))
<1> DEFINE e == FirstSlot(i, k, fd, copy)
<1>1. e \in DeviceRecord
  BY FirstSlotType
<1>2. e.slot <= e.maxSlot /\ e.primary \in Indices
  BY DEF FirstSlot, MaxSlotIndex
<1> HIDE DEF e
<1>3. PortsOK([dev |-> [s.dev EXCEPT ![i] = e], names |-> [s.names EXCEPT ![copy] = n],
               files |-> [s.files EXCEPT ![fd] = n]])
  BY <1>1, <1>2 DEF PortsOK, PortStates
<1>4. s \in PortStates
  BY DEF PortsOK
<1>5. QED BY <1>3, <1>4, OpenIs DEF e

LEMMA AttributesFailTypes ==
    ASSUME NEW s, PortsOK(s), NEW i \in Indices, s.dev[i].fd \in Ids
    PROVE  PortsOK(AttributesFail(s, i))
<1> DEFINE e == [s.dev[i] EXCEPT !.fd = None]
           t == [s EXCEPT !.dev[i] = e]
<1>1. s.dev[i] \in DeviceRecord
  BY DEF PortsOK, PortStates
<1>2. /\ e \in DeviceRecord
      /\ e.slot = s.dev[i].slot /\ e.maxSlot = s.dev[i].maxSlot
      /\ e.device = s.dev[i].device /\ e.primary = s.dev[i].primary
  BY <1>1 DEF DeviceRecord
<1>3. [s EXCEPT !.dev[i].fd = None] = t
  BY DEF PortsOK, PortStates
<1> HIDE DEF e
<1>4. e.slot <= e.maxSlot /\ (e.device # None => e.primary \in Indices)
  BY <1>2 DEF PortsOK
<1>5. PortsOK(t)
  BY <1>2, <1>4, EntryTypes
<1>6. NoName \in DeviceNames
  BY DEF DeviceNames
<1> HIDE DEF t
<1>7. PortsOK([t EXCEPT !.files[s.dev[i].fd] = NoName])
  BY <1>5, <1>6 DEF PortsOK, PortStates
<1>8. QED BY <1>3, <1>7 DEF AttributesFail

LEMMA ShareTypes ==
    ASSUME NEW s, PortsOK(s), NEW i \in Indices, previous_reader_index \in Indices,
           s.dev[previous_reader_index].device # None,
           s.dev[previous_reader_index].slot < s.dev[previous_reader_index].maxSlot
    PROVE  PortsOK(Share(s, i))
<1> DEFINE d == s.dev[previous_reader_index]
           e == [d EXCEPT !.slot = @ + 1]
           t == [s EXCEPT !.dev[i] = e]
<1>1. d \in DeviceRecord /\ d.primary \in Indices
  BY DEF PortsOK, PortStates
<1>2. /\ e \in DeviceRecord /\ e.slot <= e.maxSlot
      /\ e.device = d.device /\ e.primary = d.primary
  BY <1>1 DEF DeviceRecord
<1> HIDE DEF e
<1>3. PortsOK(t)
  BY <1>1, <1>2, EntryTypes
<1>4. [s.dev EXCEPT ![i] = e] = t.dev /\ t = [s EXCEPT !.dev = t.dev]
  BY DEF PortsOK, PortStates
<1> HIDE DEF t
<1> DEFINE c == t.dev[d.primary].count + 1
           u == [t.dev EXCEPT ![d.primary].count = c]
<1>5. u \in [Indices -> DeviceRecord]
      /\ \A k \in Indices : /\ u[k].slot = t.dev[k].slot /\ u[k].maxSlot = t.dev[k].maxSlot
                            /\ u[k].device = t.dev[k].device /\ u[k].primary = t.dev[k].primary
  <2> HIDE DEF d
  <2>1. t.dev \in [Indices -> DeviceRecord]
    BY <1>3 DEF PortsOK, PortStates
  <2>2. c \in Int
    BY <1>1, <2>1 DEF DeviceRecord
  <2> HIDE DEF c
  <2>3. QED BY <1>1, <2>1, <2>2 DEF DeviceRecord
<1> HIDE DEF u
<1>6. PortsOK([s EXCEPT !.dev = u])
  BY <1>3, <1>5 DEF PortsOK, PortStates
<1>7. Share(s, i) = [s EXCEPT !.dev = u]
  BY <1>4, Zenon DEF Share, u, e
<1>8. QED BY <1>6, <1>7

-----------------------------------------------------------------------------
(* Every step keeps the types                                              *)

\* An entry that has a name points to an entry: CloseSerial and Share follow
\* the pointer of such entries only.
Pointers ==
    \A i \in Indices : serialDevice[i].device # None => serialDevice[i].primary \in Indices

Typed == TypeOK /\ Pointers

LEMMA BeforeOK == ASSUME Typed PROVE PortsOK(Before)
<1>1. Before \in PortStates
  BY DEF Typed, TypeOK, Before, PortStates, DeviceRecord
<1>2. Before.dev = serialDevice
  BY DEF Before
<1>3. QED BY <1>1, <1>2 DEF Typed, TypeOK, Pointers, PortsOK

LEMMA AfterOK ==
    ASSUME NEW s, PortsOK(s), After(s)
    PROVE  /\ serialDevice' \in [Indices -> DeviceRecord]
           /\ \A i \in Indices : serialDevice'[i].slot <= serialDevice'[i].maxSlot
           /\ names' \in [Ids -> DeviceNames] /\ files' \in [Ids -> DeviceNames]
           /\ Pointers'
BY DEF PortsOK, PortStates, After, Pointers

LEMMA NamesInDeviceNames == NoName \in DeviceNames /\ \A p \in Ports : DeviceName(p) \in DeviceNames
BY DEF DeviceNames

\* A step that leaves a state of the ports with its types, and sets at most one
\* entry of the tables.
LEMMA StepTyped ==
    ASSUME Typed, NEW s, PortsOK(s), After(s), shared' \in BOOLEAN,
           \/ UNCHANGED <<ReaderIndex, wanted>>
           \/ \E i \in Indices, lun \in Luns \cup {None}, n \in DeviceNames :
                /\ ReaderIndex' = [ReaderIndex EXCEPT ![i] = lun]
                /\ wanted' = [wanted EXCEPT ![i] = n],
           previous_reader_index' \in Indices \cup {None}
    PROVE  Typed'
<1>1. ReaderIndex' \in [Indices -> Luns \cup {None}]
  BY DEF Typed, TypeOK
<1>2. wanted' \in [Indices -> DeviceNames]
  BY DEF Typed, TypeOK
<1>3. QED BY <1>1, <1>2, AfterOK, Zenon DEF Typed, TypeOK, DeviceRecord

LEMMA GiveUpTyped ==
    ASSUME Typed, NEW s, PortsOK(s), NEW i \in Indices, GiveUp(s, i),
           previous_reader_index' \in Indices \cup {None}
    PROVE  Typed'
<1>1. PortsOK(CloseSerial(s, i))
  BY CloseSerialTypes
<1>2. shared' \in BOOLEAN
  BY Zenon DEF GiveUp, Typed, TypeOK, Leaves
<1>3. QED BY <1>1, <1>2, StepTyped DEF GiveUp

LEMMA WarmUpTyped ==
    ASSUME Typed, NEW s, PortsOK(s), NEW i \in Indices, NEW lun \in Luns, NEW n \in DeviceNames,
           WarmUp(s, i, lun, n), previous_reader_index' \in Indices \cup {None}
    PROVE  Typed'
<1>1. CASE Succeed(s, i, lun, n)
  <2>1. shared' \in BOOLEAN
    BY <1>1, Zenon DEF Succeed, Typed, TypeOK
  <2>2. lun \in Luns \cup {None}
    OBVIOUS
  <2>3. QED BY <1>1, <2>1, <2>2, StepTyped DEF Succeed
<1>2. CASE GiveUp(s, i)
  BY <1>2, GiveUpTyped
<1>3. QED BY <1>1, <1>2 DEF WarmUp

LEMMA RefusedTyped ==
    ASSUME Typed, NEW lun \in Luns, NEW p \in Ports, NEW k \in Kinds, CreateRefused(lun, p, k)
    PROVE  Typed'
<1>1. Min(FreeIndices(lun)) \in Indices
  BY Free DEF CreateRefused
<1>2. previous_reader_index' \in Indices \cup {None}
  BY DEF CreateRefused, Typed, TypeOK
<1>3. GiveUp(Before, Min(FreeIndices(lun)))
  BY DEF CreateRefused
<1>4. QED BY <1>1, <1>2, <1>3, BeforeOK, GiveUpTyped

LEMMA SecondaryTyped ==
    ASSUME Typed, NEW lun \in Luns, NEW p \in Ports, NEW k \in Kinds, CreateSecondary(lun, p, k)
    PROVE  Typed'
<1> DEFINE i == Min(FreeIndices(lun))
           q == previous_reader_index
<1>1. /\ FreeIndices(lun) # {} /\ previous_reader_index' = i
      /\ WarmUp(Share(Before, i), i, lun, DeviceName(p))
      /\ \E ghost \in BOOLEAN : CanShare(Before, DeviceName(p), ghost)
  BY DEF CreateSecondary
<1>2. i \in Indices
  BY <1>1, Free
<1>3. /\ q \in Indices /\ Before.dev[q].device # None
      /\ Before.dev[q].slot < Before.dev[q].maxSlot
  BY <1>1 DEF CanShare, Says, Typed, TypeOK
<1> HIDE DEF i
<1>4. PortsOK(Share(Before, i))
  BY <1>2, <1>3, BeforeOK, ShareTypes
<1>5. QED BY <1>1, <1>2, <1>4, WarmUpTyped, NamesInDeviceNames

\* The port of `CreatePrimary' after open() and strdup().
Opened(lun, p, k) ==
    OpenPort(Describe(Before, Min(FreeIndices(lun)), k), Min(FreeIndices(lun)), DeviceName(p),
             Min(Unused(files)), Min(Unused(names)))

\* The four ends of CreatePrimary.
LEMMA PrimaryEnds ==
    ASSUME NEW lun \in Luns, NEW p \in Ports, NEW k \in Kinds, CreatePrimary(lun, p, k),
           NEW i, i = Min(FreeIndices(lun))
    PROVE  \/ GiveUp([Describe(Before, i, k) EXCEPT !.dev[i].fd = None], i)
           \/ GiveUp(AttributesFail(Opened(lun, p, k), i), i)
           \/ GiveUp(CloseSerial(Opened(lun, p, k), i), i)
           \/ WarmUp(Opened(lun, p, k), i, lun, DeviceName(p))
BY DEF CreatePrimary, Opened

LEMMA OpenedTyped ==
    ASSUME Typed, NEW lun \in Luns, NEW p \in Ports, NEW k \in Kinds, CreatePrimary(lun, p, k),
           NEW i, i = Min(FreeIndices(lun))
    PROVE  /\ i \in Indices /\ Min(Unused(files)) \in Ids /\ Min(Unused(names)) \in Ids
           /\ PortsOK(Opened(lun, p, k))
           /\ Opened(lun, p, k).dev[i].fd \in Ids
<1> DEFINE fd == Min(Unused(files))
           copy == Min(Unused(names))
<1>1. i \in Indices /\ fd \in Ids /\ copy \in Ids
  BY Free DEF CreatePrimary
<1>2. PortsOK(Before) /\ Before \in PortStates
  BY BeforeOK DEF PortsOK
<1>3. DeviceName(p) \in DeviceNames
  BY NamesInDeviceNames
<1> HIDE DEF fd, copy
<1>4. PortsOK(OpenPort(Describe(Before, i, k), i, DeviceName(p), fd, copy))
  BY <1>1, <1>2, <1>3, OpenTypes
<1>5. OpenPort(Describe(Before, i, k), i, DeviceName(p), fd, copy).dev
        = [Before.dev EXCEPT ![i] = FirstSlot(i, k, fd, copy)]
  BY <1>1, <1>2, OpenIs
<1>6. FirstSlot(i, k, fd, copy).fd = fd
  BY DEF FirstSlot
<1>7. OpenPort(Describe(Before, i, k), i, DeviceName(p), fd, copy).dev[i].fd = fd
  BY <1>1, <1>2, <1>5, <1>6 DEF PortStates
<1>8. QED BY <1>1, <1>4, <1>7 DEF Opened, fd, copy

LEMMA PrimaryTyped ==
    ASSUME Typed, NEW lun \in Luns, NEW p \in Ports, NEW k \in Kinds, CreatePrimary(lun, p, k)
    PROVE  Typed'
<1> DEFINE i == Min(FreeIndices(lun))
           t == Opened(lun, p, k)
<1>1. i \in Indices /\ PortsOK(t) /\ t.dev[i].fd \in Ids
  BY OpenedTyped
<1>2. previous_reader_index' \in Indices \cup {None}
  BY <1>1 DEF CreatePrimary
<1>3. PortsOK([Describe(Before, i, k) EXCEPT !.dev[i].fd = None])
  BY <1>1, BeforeOK, DescribeTypes
<1>4. PortsOK(AttributesFail(t, i)) /\ PortsOK(CloseSerial(t, i))
  BY <1>1, AttributesFailTypes, CloseSerialTypes
<1>5. DeviceName(p) \in DeviceNames
  BY NamesInDeviceNames
<1>6. \/ GiveUp([Describe(Before, i, k) EXCEPT !.dev[i].fd = None], i)
      \/ GiveUp(AttributesFail(t, i), i)
      \/ GiveUp(CloseSerial(t, i), i)
      \/ WarmUp(t, i, lun, DeviceName(p))
  BY PrimaryEnds
<1> HIDE DEF i, t
<1>7. QED BY <1>1, <1>2, <1>3, <1>4, <1>5, <1>6, GiveUpTyped, WarmUpTyped

LEMMA CloseTyped ==
    ASSUME Typed, NEW lun \in Luns, IFDHCloseChannel(lun)
    PROVE  Typed'
<1>1. PICK i \in Indices :
        /\ After(CloseSerial(Before, i)) /\ shared' = (shared \/ Leaves(Before, i))
        /\ ReaderIndex' = [ReaderIndex EXCEPT ![i] = None]
        /\ wanted' = [wanted EXCEPT ![i] = NoName]
        /\ UNCHANGED previous_reader_index
  BY DEF IFDHCloseChannel
<1>2. PortsOK(CloseSerial(Before, i))
  BY BeforeOK, CloseSerialTypes
<1>3. shared' \in BOOLEAN
  BY <1>1, Zenon DEF Typed, TypeOK, Leaves
<1>4. previous_reader_index' \in Indices \cup {None}
  BY <1>1 DEF Typed, TypeOK
<1>5. None \in Luns \cup {None} /\ NoName \in DeviceNames
  BY NamesInDeviceNames
<1>6. QED BY <1>1, <1>2, <1>3, <1>4, <1>5, StepTyped

LEMMA TypedInvariant == Spec => []Typed
<1>1. Init => Typed
  <2> SUFFICES ASSUME Init PROVE Typed
    OBVIOUS
  <2> DEFINE e == [device |-> None, fd |-> None, primary |-> None, count |-> 0, slot |-> 0,
                   maxSlot |-> 0]
  <2>1. e \in DeviceRecord /\ e.slot <= e.maxSlot /\ e.device = None
    BY DEF DeviceRecord
  <2>2. serialDevice = [i \in Indices |-> e]
    BY DEF Init
  <2> HIDE DEF e
  <2>3. /\ serialDevice \in [Indices -> DeviceRecord]
        /\ \A i \in Indices : serialDevice[i].slot <= serialDevice[i].maxSlot
        /\ Pointers
    BY <2>1, <2>2 DEF Pointers
  <2>4. NoName \in DeviceNames
    BY NamesInDeviceNames
  <2>5. /\ ReaderIndex \in [Indices -> Luns \cup {None}] /\ wanted \in [Indices -> DeviceNames]
        /\ names \in [Ids -> DeviceNames] /\ files \in [Ids -> DeviceNames]
        /\ previous_reader_index \in Indices \cup {None} /\ shared \in BOOLEAN
    BY <2>4 DEF Init
  <2>6. QED BY <2>3, <2>5, Zenon DEF Typed, TypeOK, DeviceRecord
<1>2. Typed /\ [Next]_vars => Typed'
  <2> SUFFICES ASSUME Typed, [Next]_vars PROVE Typed'
    OBVIOUS
  <2>1. CASE UNCHANGED vars
    BY <2>1, Zenon DEF vars, Typed, TypeOK, Pointers
  <2>2. CASE Next
    <3>1. PICK lun \in Luns : IFDHCreateChannel(lun) \/ IFDHCloseChannel(lun)
      BY <2>2, Zenon DEF Next
    <3>2. CASE IFDHCreateChannel(lun)
      BY <3>2, RefusedTyped, SecondaryTyped, PrimaryTyped, Zenon DEF IFDHCreateChannel
    <3>3. CASE IFDHCloseChannel(lun)
      BY <3>3, CloseTyped
    <3>4. QED BY <3>1, <3>2, <3>3
  <2>3. QED BY <2>1, <2>2
<1>3. QED BY <1>1, <1>2, PTL DEF Spec

\* Whatever fails and is closed, the entries, the names and the files have their
\* types, and no slot has a number its reader does not know.
THEOREM TypeInvariance == Spec => []TypeOK
<1>1. Typed => TypeOK
  BY DEF Typed
<1>2. QED BY <1>1, TypedInvariant, PTL

-----------------------------------------------------------------------------
(* The slots of a reader, as long as none was closed before the others     *)

\* The slots that share a counter.
Slots(i) == {k \in Held : serialDevice[k].primary = serialDevice[i].primary}

\* An entry without a Lun has no name.
FreeIsClosed == \A i \in Indices \ Held : serialDevice[i].device = None

\* An entry with a Lun has its own port,
Own == \A i \in Held :
    /\ serialDevice[i].device \in Ids /\ serialDevice[i].fd \in Ids
    /\ names[serialDevice[i].device] = wanted[i] /\ files[serialDevice[i].fd] = wanted[i]
    /\ wanted[i] # NoName

\* and points to a counter of slots, which is its own entry's or another's.
Counted == \A i \in Held :
    /\ serialDevice[i].primary \in Held
    /\ serialDevice[serialDevice[i].primary].primary = serialDevice[i].primary
    /\ serialDevice[serialDevice[i].primary].count = Cardinality(Slots(i))

OneReaderPerName == \A i, j \in Held :
    (wanted[i] = wanted[j]) <=> (serialDevice[i].primary = serialDevice[j].primary)

SlotsDiffer == \A i, j \in Held :
    i # j /\ serialDevice[i].primary = serialDevice[j].primary
        => serialDevice[i].slot # serialDevice[j].slot

\* The slot that was made last, and is copied for the next, is the highest.
LastIsHighest == previous_reader_index \in Held =>
    \A j \in Slots(previous_reader_index) :
        serialDevice[j].slot <= serialDevice[previous_reader_index].slot

\* What is open and what is copied belongs to an entry with a Lun.
Owned ==
    /\ \A f \in Ids : files[f] # NoName => \E i \in Held : serialDevice[i].fd = f
    /\ \A c \in Ids : names[c] # NoName => \E i \in Held : serialDevice[i].device = c

Orderly ==
    /\ FreeIsClosed /\ Own /\ Counted /\ OneReaderPerName /\ SlotsDiffer /\ LastIsHighest
    /\ Owned

\* A channel that was not made leaves one entry changed, that of no Lun.
LEMMA FailureKeepsOrder ==
    ASSUME Typed, Orderly, NEW i \in Indices \ Held, NEW d, d.device = None,
           UNCHANGED <<ReaderIndex, wanted, names, files>>,
           serialDevice' = [serialDevice EXCEPT ![i] = d],
           previous_reader_index' \in {previous_reader_index, i}
    PROVE  Orderly'
<1>1. Held' = Held /\ Held \subseteq Indices
  BY DEF Held
<1>2. /\ \A j \in Held : serialDevice'[j] = serialDevice[j]
      /\ \A j \in Indices : j # i => serialDevice'[j] = serialDevice[j]
      /\ serialDevice'[i].device = None
  BY <1>1 DEF Typed, TypeOK
<1>3. \A j \in Held : Slots(j)' = Slots(j)
  BY <1>1, <1>2 DEF Slots
<1>4. FreeIsClosed'
  BY <1>1, <1>2 DEF Orderly, FreeIsClosed
<1>5. Own'
  BY <1>1, <1>2 DEF Orderly, Own
<1>6. Counted'
  BY <1>1, <1>2, <1>3 DEF Orderly, Counted
<1>7. OneReaderPerName'
  BY <1>1, <1>2 DEF Orderly, OneReaderPerName
<1>8. SlotsDiffer'
  BY <1>1, <1>2 DEF Orderly, SlotsDiffer
<1>9. LastIsHighest'
  <2> SUFFICES ASSUME previous_reader_index' \in Held,
                      NEW j \in Held,
                      serialDevice'[j].primary = serialDevice'[previous_reader_index'].primary
               PROVE  serialDevice'[j].slot <= serialDevice'[previous_reader_index'].slot
    BY <1>1 DEF LastIsHighest, Slots
  <2>1. previous_reader_index' = previous_reader_index
    OBVIOUS
  <2>2. j \in Slots(previous_reader_index)
    BY <1>2, <2>1 DEF Slots
  <2>3. QED BY <1>2, <2>1, <2>2 DEF Orderly, LastIsHighest
<1>10. Owned'
  <2>1. /\ \A f \in Ids : files[f] # NoName => \E j \in Held : serialDevice[j].fd = f
        /\ \A c \in Ids : names[c] # NoName => \E j \in Held : serialDevice[j].device = c
    BY DEF Orderly, Owned
  <2>2. \A f \in Ids : files'[f] # NoName => \E j \in Held : serialDevice'[j].fd = f
    BY <1>2, <2>1
  <2>3. \A c \in Ids : names'[c] # NoName => \E j \in Held : serialDevice'[j].device = c
    BY <1>2, <2>1
  <2>4. QED BY <1>1, <2>2, <2>3 DEF Owned
<1>11. QED BY <1>4, <1>5, <1>6, <1>7, <1>8, <1>9, <1>10 DEF Orderly

LEMMA HeldIsFinite == IsFiniteSet(Held) /\ \A i : IsFiniteSet(Slots(i))
<1>1. IsFiniteSet(Indices)
  <2>1. MaxReaders \in Nat
    BY SlotsAssumption, Zenon
  <2>2. 0 \in Int /\ MaxReaders - 1 \in Int
    BY <2>1
  <2>3. QED BY <2>2, FS_Interval DEF Indices
<1>2. Held \subseteq Indices
  BY DEF Held
<1>3. \A i : Slots(i) \subseteq Held
  BY DEF Slots
<1>4. IsFiniteSet(Held)
  BY <1>1, <1>2, FS_Subset
<1>5. QED BY <1>3, <1>4, FS_Subset

\* The last slot of a reader is the entry the others pointed to.
LEMMA LastSlot ==
    ASSUME Orderly, NEW i \in Held, serialDevice[serialDevice[i].primary].count = 1
    PROVE  serialDevice[i].primary = i /\ Slots(i) = {i}
<1>1. Cardinality(Slots(i)) = 1
  BY DEF Orderly, Counted
<1>2. PICK x : Slots(i) = {x}
  BY <1>1, HeldIsFinite, FS_Singleton
<1>3. i \in Slots(i)
  BY DEF Slots
<1>4. serialDevice[i].primary \in Slots(i)
  BY DEF Slots, Orderly, Counted
<1>5. QED BY <1>2, <1>3, <1>4

\* CloseSerial of the last slot.
LEMMA CloseLast ==
    ASSUME NEW s \in PortStates, NEW i \in Indices,
           s.dev[i].device \in Ids, s.dev[i].primary = i, s.dev[i].count = 1
    PROVE  /\ \E d : d.device = None /\ CloseSerial(s, i).dev = [s.dev EXCEPT ![i] = d]
           /\ CloseSerial(s, i).names = [s.names EXCEPT ![s.dev[i].device] = NoName]
           /\ CloseSerial(s, i).files =
                IF s.dev[i].fd = None THEN s.files ELSE [s.files EXCEPT ![s.dev[i].fd] = NoName]
<1> DEFINE e == s.dev[i]
           d1 == [e EXCEPT !.count = e.count - 1]
           d2 == [d1 EXCEPT !.fd = None]
           d3 == [d2 EXCEPT !.device = None]
           counted == [s.dev EXCEPT ![i].count = e.count - 1]
           cleared == [counted EXCEPT ![i].fd = None, ![i].device = None]
<1>1. s.dev \in [Indices -> DeviceRecord] /\ e \in DeviceRecord
  BY DEF PortStates
<1>2. counted = [s.dev EXCEPT ![i] = d1]
  BY <1>1
<1>3. d3.device = None
  BY <1>1 DEF DeviceRecord
<1>4. cleared = [s.dev EXCEPT ![i] = d3]
  <2> HIDE DEF d1, counted
  <2>1. QED BY <1>1, <1>2
<1>5. e.device # None /\ e.count - 1 = 0
  BY DEF Ids, None
<1>6. CloseSerial(s, i) =
        [dev |-> cleared, names |-> [s.names EXCEPT ![e.device] = NoName],
         files |-> IF e.fd = None THEN s.files ELSE [s.files EXCEPT ![e.fd] = NoName]]
  BY <1>5, Zenon DEF CloseSerial
<1> DEFINE names1 == [s.names EXCEPT ![e.device] = NoName]
           files1 == IF e.fd = None THEN s.files ELSE [s.files EXCEPT ![e.fd] = NoName]
<1> HIDE DEF cleared, d3, e
<1>7. /\ CloseSerial(s, i).dev = cleared
      /\ CloseSerial(s, i).names = [s.names EXCEPT ![e.device] = NoName]
      /\ CloseSerial(s, i).files = IF e.fd = None THEN s.files ELSE [s.files EXCEPT ![e.fd] = NoName]
  <2>1. CloseSerial(s, i) = [dev |-> cleared, names |-> names1, files |-> files1]
    BY <1>6, Zenon
  <2> HIDE DEF names1, files1
  <2>2. /\ CloseSerial(s, i).dev = cleared
        /\ CloseSerial(s, i).names = names1 /\ CloseSerial(s, i).files = files1
    BY <2>1
  <2>3. QED BY <2>2, Zenon DEF names1, files1
<1>8. QED BY <1>3, <1>4, <1>7, Zenon DEF e

\* The first slot of a reader, on a port that no entry has.
LEMMA FirstKeepsOrder ==
    ASSUME Orderly, NEW i \in Indices \ Held, Held' = Held \cup {i}, Held \subseteq Indices,
           NEW n, n # NoName, NEW fd \in Ids, NEW copy \in Ids, names[copy] = NoName, files[fd] = NoName,
           \A j \in Held : names[serialDevice[j].device] # n,
           \A j \in Indices \ {i} : serialDevice'[j] = serialDevice[j],
           serialDevice'[i].device = copy, serialDevice'[i].fd = fd,
           serialDevice'[i].primary = i, serialDevice'[i].count = 1, serialDevice'[i].slot = 0,
           names'[copy] = n, \A c \in Ids \ {copy} : names'[c] = names[c],
           files'[fd] = n, \A f \in Ids \ {fd} : files'[f] = files[f],
           wanted'[i] = n, \A j \in Held : wanted'[j] = wanted[j], previous_reader_index' = i
    PROVE  Orderly'
<1>1. Held' = Held \cup {i} /\ i \notin Held
  OBVIOUS
<1>2. \A j \in Held : serialDevice'[j] = serialDevice[j] /\ wanted'[j] = wanted[j]
  OBVIOUS
<1>3. serialDevice'[i].device = copy /\ serialDevice'[i].fd = fd /\ serialDevice'[i].primary = i
  OBVIOUS
<1>4. \A j \in Held : serialDevice[j].primary \in Held /\ serialDevice[j].primary # i
  BY <1>1 DEF Orderly, Counted
<1>5. \A j \in Held : Slots(j)' = Slots(j)
  BY <1>1, <1>2, <1>3, <1>4 DEF Slots
<1>6. Slots(i)' = {i}
  BY <1>1, <1>2, <1>3, <1>4 DEF Slots
<1>7. FreeIsClosed'
  BY <1>1, <1>2 DEF Orderly, FreeIsClosed
<1>8. Own'
  <2>1. /\ names'[copy] = n /\ files'[fd] = n
        /\ \A c \in Ids : names[c] # NoName => names'[c] = names[c]
        /\ \A f \in Ids : files[f] # NoName => files'[f] = files[f]
    OBVIOUS
  <2>2. \A j \in Held : /\ serialDevice[j].device \in Ids /\ serialDevice[j].fd \in Ids
                        /\ names'[serialDevice[j].device] = wanted[j]
                        /\ files'[serialDevice[j].fd] = wanted[j] /\ wanted[j] # NoName
    BY <2>1 DEF Orderly, Own
  <2>3. QED BY <1>1, <1>2, <1>3, <2>1, <2>2 DEF Own
<1>9. Counted'
  <2>1. Cardinality({i}) = 1
    BY FS_Singleton
  <2>2. /\ serialDevice'[i].primary \in Held'
        /\ serialDevice'[serialDevice'[i].primary].primary = serialDevice'[i].primary
        /\ serialDevice'[serialDevice'[i].primary].count = Cardinality(Slots(i)')
    BY <1>1, <1>3, <1>6, <2>1
  <2>3. ASSUME NEW j \in Held
        PROVE  /\ serialDevice'[j].primary \in Held'
               /\ serialDevice'[serialDevice'[j].primary].primary = serialDevice'[j].primary
               /\ serialDevice'[serialDevice'[j].primary].count = Cardinality(Slots(j)')
    BY <1>1, <1>2, <1>4, <1>5 DEF Orderly, Counted
  <2>4. QED BY <1>1, <2>2, <2>3 DEF Counted
<1>10. OneReaderPerName'
  <2>1. \A j \in Held : wanted[j] # n
    BY DEF Orderly, Own
  <2>2. QED BY <1>1, <1>2, <1>3, <1>4, <2>1 DEF Orderly, OneReaderPerName
<1>11. SlotsDiffer'
  BY <1>1, <1>2, <1>3, <1>4 DEF Orderly, SlotsDiffer
<1>12. LastIsHighest'
  <2>1. \A j \in Held' : serialDevice'[j].primary = serialDevice'[i].primary => j = i
    BY <1>1, <1>2, <1>3, <1>4
  <2>2. serialDevice'[i].slot <= serialDevice'[i].slot
    OBVIOUS
  <2>3. QED BY <2>1, <2>2 DEF LastIsHighest, Slots
<1>13. Owned'
  <2>1. /\ \A f \in Ids : files[f] # NoName => \E j \in Held : serialDevice[j].fd = f
        /\ \A c \in Ids : names[c] # NoName => \E j \in Held : serialDevice[j].device = c
    BY DEF Orderly, Owned
  <2>2. /\ \A f \in Ids : f # fd => files'[f] = files[f]
        /\ \A c \in Ids : c # copy => names'[c] = names[c]
    OBVIOUS
  <2>3. \A f \in Ids : files'[f] # NoName => \E j \in Held' : serialDevice'[j].fd = f
    BY <1>1, <1>2, <1>3, <2>1, <2>2
  <2>4. \A c \in Ids : names'[c] # NoName => \E j \in Held' : serialDevice'[j].device = c
    BY <1>1, <1>2, <1>3, <2>1, <2>2
  <2>5. QED BY <2>3, <2>4 DEF Owned
<1>14. QED BY <1>7, <1>8, <1>9, <1>10, <1>11, <1>12, <1>13 DEF Orderly

\* Another slot of the reader whose slot was made last.
LEMMA ShareKeepsOrder ==
    ASSUME Typed, Orderly, NEW i \in Indices \ Held, Held' = Held \cup {i},
           Held \subseteq Indices, NEW n,
           NEW q \in Held, q = previous_reader_index, names[serialDevice[q].device] = n,
           NEW p, p = serialDevice[q].primary,
           \A j \in Indices \ {i} :
             /\ serialDevice'[j].device = serialDevice[j].device
             /\ serialDevice'[j].fd = serialDevice[j].fd
             /\ serialDevice'[j].primary = serialDevice[j].primary
             /\ serialDevice'[j].slot = serialDevice[j].slot
             /\ serialDevice'[j].count = IF j = p THEN serialDevice[j].count + 1
                                                  ELSE serialDevice[j].count,
           serialDevice'[i].device = serialDevice[q].device,
           serialDevice'[i].fd = serialDevice[q].fd, serialDevice'[i].primary = p,
           serialDevice'[i].slot = serialDevice[q].slot + 1,
           UNCHANGED <<names, files>>,
           wanted'[i] = n, \A j \in Held : wanted'[j] = wanted[j], previous_reader_index' = i
    PROVE  Orderly'
<1>1. Held' = Held \cup {i} /\ Held \subseteq Indices /\ i \notin Held
  OBVIOUS
<1>2. p \in Held /\ p # i /\ p \in Indices /\ serialDevice[p].primary = p
  BY <1>1 DEF Orderly, Counted
<1>3. serialDevice \in [Indices -> DeviceRecord]
  BY DEF Typed, TypeOK, DeviceRecord
<1>4. /\ serialDevice'[i].device = serialDevice[q].device
      /\ serialDevice'[i].fd = serialDevice[q].fd
      /\ serialDevice'[i].primary = p /\ serialDevice'[i].slot = serialDevice[q].slot + 1
  OBVIOUS
<1>6. \A j \in Indices : j # i =>
        /\ serialDevice'[j].device = serialDevice[j].device
        /\ serialDevice'[j].fd = serialDevice[j].fd
        /\ serialDevice'[j].primary = serialDevice[j].primary
        /\ serialDevice'[j].slot = serialDevice[j].slot
        /\ serialDevice'[j].count = IF j = p THEN serialDevice[j].count + 1
                                             ELSE serialDevice[j].count
  OBVIOUS
<1>7. \A j \in Held : wanted'[j] = wanted[j] /\ wanted'[i] = n
  OBVIOUS
<1>8. n = wanted[q] /\ n # NoName
  BY DEF Orderly, Own
<1>9. \A j \in Held : Slots(j)' = IF serialDevice[j].primary = p THEN Slots(j) \cup {i} ELSE Slots(j)
  BY <1>1, <1>4, <1>6 DEF Slots
<1>10. Slots(i)' = Slots(q) \cup {i}
  BY <1>1, <1>4, <1>6 DEF Slots
<1>11. FreeIsClosed'
  BY <1>1, <1>6 DEF Orderly, FreeIsClosed
<1>12. Own'
  <2>1. \A j \in Held : /\ serialDevice[j].device \in Ids /\ serialDevice[j].fd \in Ids
                        /\ names[serialDevice[j].device] = wanted[j]
                        /\ files[serialDevice[j].fd] = wanted[j] /\ wanted[j] # NoName
    BY DEF Orderly, Own
  <2>2. /\ serialDevice'[i].device \in Ids /\ serialDevice'[i].fd \in Ids
        /\ names[serialDevice'[i].device] = n /\ files[serialDevice'[i].fd] = n
    BY <1>4, <1>8, <2>1
  <2>3. \A j \in Held : /\ serialDevice'[j].device \in Ids /\ serialDevice'[j].fd \in Ids
                        /\ names[serialDevice'[j].device] = wanted'[j]
                        /\ files[serialDevice'[j].fd] = wanted'[j] /\ wanted'[j] # NoName
    BY <1>1, <1>6, <1>7, <2>1
  <2>4. QED BY <1>1, <1>7, <1>8, <2>2, <2>3 DEF Own
<1>13. Counted'
  <2>1. /\ IsFiniteSet(Slots(q)) /\ i \notin Slots(q)
        /\ Cardinality(Slots(q) \cup {i}) = Cardinality(Slots(q)) + 1
    <3>1. IsFiniteSet(Slots(q)) /\ i \notin Slots(q)
      BY HeldIsFinite, <1>1 DEF Slots
    <3>2. QED BY <3>1, FS_AddElement
  <2>2. serialDevice[p].count = Cardinality(Slots(q))
    BY DEF Orderly, Counted
  <2>3. serialDevice'[p].count = Cardinality(Slots(q) \cup {i})
        /\ serialDevice'[p].primary = p
    BY <1>2, <1>6, <2>1, <2>2
  <2>4. \A j \in Held : serialDevice[j].primary = p => Slots(j) = Slots(q)
    BY DEF Slots
  <2>5. /\ serialDevice'[i].primary \in Held'
        /\ serialDevice'[serialDevice'[i].primary].primary = serialDevice'[i].primary
        /\ serialDevice'[serialDevice'[i].primary].count = Cardinality(Slots(i)')
    BY <1>1, <1>2, <1>4, <1>10, <2>3
  <2>6. ASSUME NEW j \in Held
        PROVE  /\ serialDevice'[j].primary \in Held'
               /\ serialDevice'[serialDevice'[j].primary].primary = serialDevice'[j].primary
               /\ serialDevice'[serialDevice'[j].primary].count = Cardinality(Slots(j)')
    <3> DEFINE r == serialDevice[j].primary
    <3>1. /\ r \in Held /\ serialDevice[r].primary = r
          /\ serialDevice[r].count = Cardinality(Slots(j))
      BY DEF Orderly, Counted
    <3>2. serialDevice'[j].primary = r
      BY <1>1, <1>6
    <3>3. serialDevice'[r].primary = r /\ r \in Indices /\ r # i
      BY <1>1, <1>6, <3>1
    <3>4. CASE r = p
      BY <1>1, <1>9, <2>3, <2>4, <3>1, <3>2, <3>4
    <3>5. CASE r # p
      <4>1. Slots(j)' = Slots(j)
        BY <1>9, <3>5
      <4> HIDE DEF r
      <4>2. serialDevice'[r].count = serialDevice[r].count
        BY <1>6, <3>3, <3>5
      <4>3. QED BY <1>1, <3>1, <3>2, <3>3, <4>1, <4>2
    <3>6. QED BY <3>4, <3>5
  <2>7. QED BY <1>1, <2>5, <2>6 DEF Counted
<1>14. OneReaderPerName'
  <2>1. \A j \in Held : serialDevice'[j].primary = serialDevice[j].primary
    BY <1>1, <1>6
  <2>2. \A j, l \in Held : (wanted[j] = wanted[l]) <=> (serialDevice[j].primary = serialDevice[l].primary)
    BY DEF Orderly, OneReaderPerName
  <2>3. \A j \in Held : (wanted[j] = n) <=> (serialDevice[j].primary = p)
    BY <1>8, <2>2
  <2>4. serialDevice'[i].primary = p /\ wanted'[i] = n
    BY <1>4, <1>7
  <2>5. QED BY <1>1, <1>7, <2>1, <2>2, <2>3, <2>4 DEF OneReaderPerName
<1>15. \A j \in Held : serialDevice[j].primary = p =>
         /\ serialDevice[j].slot <= serialDevice[q].slot
         /\ serialDevice[j].slot \in Int /\ serialDevice[q].slot \in Int
  <2>1. \A j \in Held : serialDevice[j].slot \in 0..4
    BY <1>1, <1>3 DEF DeviceRecord
  <2>2. \A j \in Slots(q) : serialDevice[j].slot <= serialDevice[q].slot
    BY DEF Orderly, LastIsHighest
  <2>3. QED BY <2>1, <2>2 DEF Slots
<1>16. \A j \in Held : serialDevice[j].primary = p => serialDevice'[j].slot < serialDevice'[i].slot
  BY <1>1, <1>4, <1>6, <1>15
<1>17. serialDevice'[i].slot \in Int
  BY <1>2, <1>4, <1>15
<1>18. SlotsDiffer'
  <2>1. \A j, l \in Held : j # l /\ serialDevice'[j].primary = serialDevice'[l].primary
          => serialDevice'[j].slot # serialDevice'[l].slot
    BY <1>1, <1>6 DEF Orderly, SlotsDiffer
  <2>2. \A j \in Held : serialDevice'[j].primary = p =>
          /\ serialDevice'[j].slot # serialDevice'[i].slot
          /\ serialDevice'[i].slot # serialDevice'[j].slot
    <3> TAKE j \in Held
    <3>1. serialDevice'[j].slot = serialDevice[j].slot /\ serialDevice'[j].primary = serialDevice[j].primary
      BY <1>1, <1>6
    <3>2. QED BY <1>15, <1>16, <1>17, <3>1
  <2>3. serialDevice'[i].primary = p
    BY <1>4
  <2>4. QED BY <1>1, <2>1, <2>2, <2>3 DEF SlotsDiffer
<1>19. LastIsHighest'
  <2> SUFFICES ASSUME NEW j \in Held', serialDevice'[j].primary = serialDevice'[i].primary
               PROVE  serialDevice'[j].slot <= serialDevice'[i].slot
    BY DEF LastIsHighest, Slots
  <2>1. CASE j = i
    BY <1>17, <2>1
  <2>2. CASE j \in Held
    <3>1. serialDevice'[j].slot = serialDevice[j].slot /\ serialDevice[j].primary = p
      BY <1>1, <1>4, <1>6, <2>2
    <3>2. QED BY <1>15, <1>16, <1>17, <2>2, <3>1
  <2>3. QED BY <1>1, <2>1, <2>2
<1>20. Owned'
  <2>1. /\ \A f \in Ids : files[f] # NoName => \E j \in Held : serialDevice[j].fd = f
        /\ \A x \in Ids : names[x] # NoName => \E j \in Held : serialDevice[j].device = x
    BY DEF Orderly, Owned
  <2>2. \A f \in Ids : files'[f] # NoName => \E j \in Held' : serialDevice'[j].fd = f
    BY <1>1, <1>6, <2>1
  <2>3. \A x \in Ids : names'[x] # NoName => \E j \in Held' : serialDevice'[j].device = x
    BY <1>1, <1>6, <2>1
  <2>4. QED BY <2>2, <2>3 DEF Owned
<1>21. QED BY <1>11, <1>12, <1>13, <1>14, <1>18, <1>19, <1>20 DEF Orderly

\* The last slot of a reader is closed: its entry, its name and its file are
\* nobody else's.
LEMMA CloseKeepsOrder ==
    ASSUME Typed, Orderly, NEW i \in Held, Held' = Held \ {i}, Held \subseteq Indices,
           serialDevice[i].primary = i, Slots(i) = {i},
           \A j \in Indices \ {i} : serialDevice'[j] = serialDevice[j],
           serialDevice'[i].device = None,
           names'[serialDevice[i].device] = NoName,
           \A c \in Ids \ {serialDevice[i].device} : names'[c] = names[c],
           files'[serialDevice[i].fd] = NoName,
           \A f \in Ids \ {serialDevice[i].fd} : files'[f] = files[f],
           \A j \in Held \ {i} : wanted'[j] = wanted[j],
           UNCHANGED previous_reader_index
    PROVE  Orderly'
<1>1. \A j \in Held' : j \in Held /\ j # i /\ j \in Indices
  OBVIOUS
<1>2. \A j \in Held' : serialDevice'[j] = serialDevice[j] /\ wanted'[j] = wanted[j]
  BY <1>1
<1>3. \A j \in Held : serialDevice[j].primary = i => j = i
  BY DEF Slots
<1>4. ASSUME NEW j \in Held' PROVE wanted[j] # wanted[i]
  BY <1>1, <1>3 DEF Orderly, OneReaderPerName
<1>5. \A j \in Held' : serialDevice[j].device # serialDevice[i].device
                       /\ serialDevice[j].fd # serialDevice[i].fd
  BY <1>1, <1>4 DEF Orderly, Own
<1>6. \A j \in Held' : Slots(j)' = Slots(j)
  BY <1>1, <1>2, <1>3 DEF Slots
<1>7. FreeIsClosed'
  <2>1. \A j \in Indices \ Held' : j = i \/ j \in Indices \ Held
    OBVIOUS
  <2>2. QED BY <2>1 DEF Orderly, FreeIsClosed
<1>8. Own'
  BY <1>1, <1>2, <1>5 DEF Orderly, Own
<1>9. Counted'
  <2> SUFFICES ASSUME NEW j \in Held'
               PROVE  /\ serialDevice'[j].primary \in Held'
                      /\ serialDevice'[serialDevice'[j].primary].primary = serialDevice'[j].primary
                      /\ serialDevice'[serialDevice'[j].primary].count = Cardinality(Slots(j)')
    BY DEF Counted
  <2>1. /\ serialDevice[j].primary \in Held
        /\ serialDevice[serialDevice[j].primary].primary = serialDevice[j].primary
        /\ serialDevice[serialDevice[j].primary].count = Cardinality(Slots(j))
    BY <1>1 DEF Orderly, Counted
  <2>2. serialDevice[j].primary \in Held'
    BY <1>1, <1>3, <2>1
  <2>3. QED BY <1>2, <1>6, <2>1, <2>2
<1>10. OneReaderPerName'
  BY <1>1, <1>2 DEF Orderly, OneReaderPerName
<1>11. SlotsDiffer'
  BY <1>1, <1>2 DEF Orderly, SlotsDiffer
<1>12. LastIsHighest'
  <2> SUFFICES ASSUME previous_reader_index \in Held', NEW j \in Held',
                      serialDevice'[j].primary = serialDevice'[previous_reader_index].primary
               PROVE  serialDevice'[j].slot <= serialDevice'[previous_reader_index].slot
    BY DEF LastIsHighest, Slots
  <2>1. j \in Slots(previous_reader_index) /\ previous_reader_index \in Held
    BY <1>1, <1>2 DEF Slots
  <2>2. QED BY <1>2, <2>1 DEF Orderly, LastIsHighest
<1>13. Owned'
  <2>1. /\ \A f \in Ids : files[f] # NoName => \E j \in Held : serialDevice[j].fd = f
        /\ \A c \in Ids : names[c] # NoName => \E j \in Held : serialDevice[j].device = c
    BY DEF Orderly, Owned
  <2>2. ASSUME NEW f \in Ids, files'[f] # NoName PROVE \E j \in Held' : serialDevice'[j].fd = f
    <3>1. f # serialDevice[i].fd /\ files[f] # NoName
      BY <2>2
    <3>2. PICK j \in Held : serialDevice[j].fd = f
      BY <2>1, <3>1
    <3>3. j \in Held'
      BY <3>1, <3>2
    <3>4. QED BY <1>2, <3>2, <3>3
  <2>3. ASSUME NEW c \in Ids, names'[c] # NoName PROVE \E j \in Held' : serialDevice'[j].device = c
    <3>1. c # serialDevice[i].device /\ names[c] # NoName
      BY <2>3
    <3>2. PICK j \in Held : serialDevice[j].device = c
      BY <2>1, <3>1
    <3>3. j \in Held'
      BY <3>1, <3>2
    <3>4. QED BY <1>2, <3>2, <3>3
  <2>4. QED BY <2>2, <2>3 DEF Owned
<1>14. QED BY <1>7, <1>8, <1>9, <1>10, <1>11, <1>12, <1>13 DEF Orderly

-----------------------------------------------------------------------------
(* The steps                                                               *)

\* FreeChannel, when CreateChannelByNameOrChannel has left no name behind,
LEMMA GiveUpClosed ==
    ASSUME Typed, Orderly, NEW i \in Indices \ Held, NEW u, NEW e, e.device = None,
           u.dev = [serialDevice EXCEPT ![i] = e], u.names = names, u.files = files,
           GiveUp(u, i), previous_reader_index' \in {previous_reader_index, i}
    PROVE  Orderly'
<1>1. u.dev[i].device = None
  BY DEF Typed, TypeOK
<1>2. CloseSerial(u, i) = u
  BY <1>1, Zenon DEF CloseSerial
<1>3. /\ serialDevice' = [serialDevice EXCEPT ![i] = e]
      /\ UNCHANGED <<ReaderIndex, wanted, names, files>>
  BY <1>2, Zenon DEF GiveUp, After
<1>4. QED BY <1>3, FailureKeepsOrder

\* and when it has left one, with or without a file that is open.
LEMMA GiveUpOpened ==
    ASSUME Typed, Orderly, NEW i \in Indices \ Held, NEW u \in PortStates, NEW e \in DeviceRecord,
           NEW copy \in Ids, NEW n,
           u.dev = [serialDevice EXCEPT ![i] = e],
           e.primary = i, e.count = 1, e.device = copy,
           names[copy] = NoName, u.names = [names EXCEPT ![copy] = n],
           \/ e.fd = None /\ u.files = files
           \/ e.fd \in Ids /\ files[e.fd] = NoName /\ u.files = [files EXCEPT ![e.fd] = n],
           GiveUp(u, i), previous_reader_index' \in {previous_reader_index, i}
    PROVE  Orderly'
<1>1. /\ serialDevice \in [Indices -> DeviceRecord]
      /\ names \in [Ids -> DeviceNames] /\ files \in [Ids -> DeviceNames]
  BY DEF Typed, TypeOK, DeviceRecord
<1>2. u.dev[i] = e
  BY <1>1
<1>last. u.dev[i].device \in Ids /\ u.dev[i].primary = i /\ u.dev[i].count = 1
  BY <1>2
<1>released. /\ \E d : d.device = None /\ CloseSerial(u, i).dev = [u.dev EXCEPT ![i] = d]
      /\ CloseSerial(u, i).names = [u.names EXCEPT ![u.dev[i].device] = NoName]
      /\ CloseSerial(u, i).files =
           IF u.dev[i].fd = None THEN u.files ELSE [u.files EXCEPT ![u.dev[i].fd] = NoName]
  BY <1>last, CloseLast, ZenonT(60)
<1>3. PICK d : d.device = None /\ CloseSerial(u, i).dev = [u.dev EXCEPT ![i] = d]
  BY <1>released, Zenon
<1>4. /\ CloseSerial(u, i).names = [u.names EXCEPT ![copy] = NoName]
      /\ CloseSerial(u, i).files = IF e.fd = None THEN u.files ELSE [u.files EXCEPT ![e.fd] = NoName]
  <2>1. u.dev[i].device = copy /\ u.dev[i].fd = e.fd
    BY <1>2
  <2>2. QED BY <1>released, <2>1, Zenon
<1>5. [u.dev EXCEPT ![i] = d] = [serialDevice EXCEPT ![i] = d]
  BY <1>1
<1>6. [u.names EXCEPT ![copy] = NoName] = names
  BY <1>1
<1>7. CloseSerial(u, i).files = files
  <2>1. CASE e.fd = None
    BY <1>4, <2>1 DEF Ids, None
  <2>2. CASE e.fd # None
    <3>1. e.fd \in Ids /\ files[e.fd] = NoName /\ u.files = [files EXCEPT ![e.fd] = n]
      BY <2>2
    <3>2. [u.files EXCEPT ![e.fd] = NoName] = files
      BY <1>1, <3>1
    <3>3. QED BY <1>4, <2>2, <3>2
  <2>3. QED BY <2>1, <2>2
<1>8. /\ serialDevice' = [serialDevice EXCEPT ![i] = d]
      /\ UNCHANGED <<ReaderIndex, wanted, names, files>>
  BY <1>3, <1>4, <1>5, <1>6, <1>7, Zenon DEF GiveUp, After
<1>9. QED BY <1>3, <1>8, FailureKeepsOrder

LEMMA DeviceNameIsAName == \A p \in Ports : DeviceName(p) # NoName
<1>1. NoName \notin Ports
  BY SlotsAssumption, Zenon
<1>2. ASSUME NEW p \in Ports PROVE p # NoName
  BY <1>1, Zenon
<1>3. "/dev/pcsc/1" # NoName /\ "/dev/pcsc/2" # NoName
  BY Zenon DEF NoName
<1>4. QED BY <1>2, <1>3, Zenon DEF DeviceName

\* No entry's name says `n': no channel is on that port.
LEMMA NotInUse ==
    ASSUME Orderly, NEW n, NEW ghost,
           \A j \in Indices : ~Says(Before, j, n, ghost)
    PROVE  \A j \in Held : names[serialDevice[j].device] # n
<1> SUFFICES ASSUME NEW j \in Held PROVE names[serialDevice[j].device] # n
  OBVIOUS
<1>1. j \in Indices
  BY DEF Held
<1>2. Before.dev = serialDevice /\ Before.names = names
  BY DEF Before
<1>3. serialDevice[j].device \in Ids /\ names[serialDevice[j].device] # NoName
  BY DEF Orderly, Own
<1>4. serialDevice[j].device # None
  BY <1>3 DEF Ids, None
<1>5. QED BY <1>1, <1>2, <1>3, <1>4, Zenon DEF Says

LEMMA RefusedKeepsOrder ==
    ASSUME Typed, Orderly, NEW lun \in Luns, NEW p \in Ports, NEW k \in Kinds,
           CreateRefused(lun, p, k)
    PROVE  Orderly'
<1> DEFINE i == Min(FreeIndices(lun))
<1>1. i \in Indices /\ ReaderIndex[i] = None
  BY Free DEF CreateRefused
<1>2. GiveUp(Before, i) /\ previous_reader_index' = previous_reader_index
  BY DEF CreateRefused
<1> HIDE DEF i
<1>3. i \in Indices \ Held
  BY <1>1 DEF Held
<1>4. serialDevice[i].device = None
  BY <1>3 DEF Orderly, FreeIsClosed
<1>5. Before.dev = [serialDevice EXCEPT ![i] = serialDevice[i]]
  BY DEF Before, Typed, TypeOK
<1>6. Before.names = names /\ Before.files = files
  BY DEF Before
<1>7. QED BY <1>2, <1>3, <1>4, <1>5, <1>6, GiveUpClosed

\* What Share makes of the entries.
LEMMA ShareIs ==
    ASSUME Typed, NEW i \in Indices, NEW q \in Indices, q = previous_reader_index,
           NEW p \in Indices, p = serialDevice[q].primary, p # i,
           NEW D, D = Share(Before, i).dev
    PROVE  /\ \A j \in Indices \ {i} :
                /\ D[j].device = serialDevice[j].device /\ D[j].fd = serialDevice[j].fd
                /\ D[j].primary = serialDevice[j].primary /\ D[j].slot = serialDevice[j].slot
                /\ D[j].count = IF j = p THEN serialDevice[j].count + 1
                                         ELSE serialDevice[j].count
           /\ D[i].device = serialDevice[q].device /\ D[i].fd = serialDevice[q].fd
           /\ D[i].primary = p /\ D[i].slot = serialDevice[q].slot + 1
           /\ Share(Before, i).names = names /\ Share(Before, i).files = files
<1> DEFINE e == [serialDevice[q] EXCEPT !.slot = serialDevice[q].slot + 1]
           c == [serialDevice EXCEPT ![i] = e]
           u == [c EXCEPT ![p].count = c[p].count + 1]
<1>1. serialDevice \in [Indices -> DeviceRecord]
  BY DEF Typed, TypeOK, DeviceRecord
<1>2. /\ e.device = serialDevice[q].device /\ e.fd = serialDevice[q].fd
      /\ e.primary = p /\ e.slot = serialDevice[q].slot + 1
  BY <1>1 DEF DeviceRecord
<1>3. Before.dev = serialDevice /\ Before = [dev |-> serialDevice, names |-> names, files |-> files]
  BY DEF Before
<1>4. Share(Before, i) = [Before EXCEPT !.dev = u]
  BY <1>3, Zenon DEF Share
<1> HIDE DEF e
<1>5. c[i] = e /\ \A j \in Indices \ {i} : c[j] = serialDevice[j]
  BY <1>1
<1>6. DOMAIN c = Indices
  BY <1>1
<1> HIDE DEF c
<1>7. u = [c EXCEPT ![p] = [c[p] EXCEPT !.count = c[p].count + 1]]
  OBVIOUS
<1>8. u[p] = [c[p] EXCEPT !.count = c[p].count + 1]
      /\ \A j \in Indices \ {p} : u[j] = c[j]
  BY <1>6, <1>7
<1>9. /\ u[p].device = serialDevice[p].device /\ u[p].fd = serialDevice[p].fd
      /\ u[p].primary = serialDevice[p].primary /\ u[p].slot = serialDevice[p].slot
      /\ u[p].count = serialDevice[p].count + 1
  <2>1. c[p] = serialDevice[p] /\ c[p] \in DeviceRecord
    BY <1>1, <1>5
  <2> HIDE DEF u
  <2>2. QED BY <1>8, <2>1 DEF DeviceRecord
<1> HIDE DEF u
<1>10. D = u /\ Share(Before, i).names = names /\ Share(Before, i).files = files
  BY <1>3, <1>4
<1>11. \A j \in Indices \ {i} :
         /\ D[j].device = serialDevice[j].device /\ D[j].fd = serialDevice[j].fd
         /\ D[j].primary = serialDevice[j].primary /\ D[j].slot = serialDevice[j].slot
         /\ D[j].count = IF j = p THEN serialDevice[j].count + 1 ELSE serialDevice[j].count
  <2> SUFFICES ASSUME NEW j \in Indices \ {i}
      PROVE /\ u[j].device = serialDevice[j].device /\ u[j].fd = serialDevice[j].fd
            /\ u[j].primary = serialDevice[j].primary /\ u[j].slot = serialDevice[j].slot
            /\ u[j].count = IF j = p THEN serialDevice[j].count + 1 ELSE serialDevice[j].count
    BY <1>10
  <2>1. CASE j = p
    BY <1>9, <2>1
  <2>2. CASE j # p
    <3>1. u[j] = serialDevice[j]
      BY <1>5, <1>8, <2>2
    <3>2. QED BY <2>2, <3>1
  <2>3. QED BY <2>1, <2>2
<1>12. D[i] = e
  BY <1>5, <1>8, <1>10
<1>13. QED BY <1>2, <1>10, <1>11, <1>12

LEMMA SecondaryKeepsOrder ==
    ASSUME Typed, Orderly, NEW lun \in Luns, NEW p \in Ports, NEW k \in Kinds,
           CreateSecondary(lun, p, k), ~shared'
    PROVE  Orderly'
<1> DEFINE i == Min(FreeIndices(lun))
           q == previous_reader_index
           n == DeviceName(p)
           D == Share(Before, i).dev
           r == serialDevice[q].primary
<1>1. i \in Indices /\ ReaderIndex[i] = None
  BY Free DEF CreateSecondary
<1>2. previous_reader_index' = i /\ WarmUp(Share(Before, i), i, lun, n)
  BY DEF CreateSecondary
<1>3. PICK ghost \in BOOLEAN : CanShare(Before, n, ghost)
  BY DEF CreateSecondary
<1>4. Before.dev = serialDevice /\ Before.names = names
  BY DEF Before
<1>5. q \in Indices /\ serialDevice[q].device # None
  BY <1>3, <1>4, Zenon DEF CanShare, Says, Typed, TypeOK
<1> HIDE DEF i, n
<1>6. i \in Indices \ Held
  BY <1>1 DEF Held
<1>7. q \in Held
  BY <1>5 DEF Orderly, FreeIsClosed
<1>8. names[serialDevice[q].device] = n
  <2>1. names[serialDevice[q].device] # NoName
    BY <1>7 DEF Orderly, Own
  <2>2. QED BY <1>3, <1>4, <2>1, Zenon DEF CanShare, Says
<1>9. r \in Held /\ r \in Indices /\ r # i
  BY <1>6, <1>7 DEF Orderly, Counted, Held
<1>10. /\ \A j \in Indices \ {i} :
            /\ D[j].device = serialDevice[j].device /\ D[j].fd = serialDevice[j].fd
            /\ D[j].primary = serialDevice[j].primary /\ D[j].slot = serialDevice[j].slot
            /\ D[j].count = IF j = r THEN serialDevice[j].count + 1
                                     ELSE serialDevice[j].count
       /\ D[i].device = serialDevice[q].device /\ D[i].fd = serialDevice[q].fd
       /\ D[i].primary = r /\ D[i].slot = serialDevice[q].slot + 1
       /\ Share(Before, i).names = names /\ Share(Before, i).files = files
  BY <1>1, <1>5, <1>9, ShareIs
<1>11. ~GiveUp(Share(Before, i), i)
  <2>1. serialDevice[r].count = Cardinality(Slots(q)) /\ q \in Slots(q)
    BY <1>7 DEF Orderly, Counted, Slots
  <2>2. Cardinality(Slots(q)) \in Nat /\ Cardinality(Slots(q)) # 0
    BY <2>1, HeldIsFinite, FS_CardinalityType, FS_EmptySet
  <2>3. D[D[i].primary].count = Cardinality(Slots(q)) + 1
    BY <1>9, <1>10, <2>1
  <2>4. D[D[i].primary].count # 1
    BY <2>2, <2>3
  <2>5. Leaves(Share(Before, i), i)
    BY <1>5, <1>10, <2>4, Zenon DEF Leaves
  <2>6. QED BY <2>5, Zenon DEF GiveUp
<1>12. Succeed(Share(Before, i), i, lun, n)
  BY <1>2, <1>11, Zenon DEF WarmUp
<1>13. /\ serialDevice' = D /\ names' = names /\ files' = files
       /\ ReaderIndex' = [ReaderIndex EXCEPT ![i] = lun]
       /\ wanted' = [wanted EXCEPT ![i] = n]
  BY <1>10, <1>12, Zenon DEF Succeed, After
<1> HIDE DEF D
<1>14. Held' = Held \cup {i} /\ Held \subseteq Indices
  BY <1>1, <1>13, NoneIsNoLun DEF Held, Typed, TypeOK
<1>15. wanted'[i] = n /\ \A j \in Held : wanted'[j] = wanted[j]
  BY <1>6, <1>13, <1>14 DEF Typed, TypeOK
<1>16. /\ \A j \in Indices \ {i} :
            /\ serialDevice'[j].device = serialDevice[j].device
            /\ serialDevice'[j].fd = serialDevice[j].fd
            /\ serialDevice'[j].primary = serialDevice[j].primary
            /\ serialDevice'[j].slot = serialDevice[j].slot
            /\ serialDevice'[j].count = IF j = r THEN serialDevice[j].count + 1
                                                 ELSE serialDevice[j].count
       /\ serialDevice'[i].device = serialDevice[q].device
       /\ serialDevice'[i].fd = serialDevice[q].fd /\ serialDevice'[i].primary = r
       /\ serialDevice'[i].slot = serialDevice[q].slot + 1
  BY <1>10, <1>13
<1>17. QED BY <1>2, <1>6, <1>7, <1>8, <1>13, <1>14, <1>15, <1>16, ShareKeepsOrder

LEMMA PrimaryKeepsOrder ==
    ASSUME Typed, Orderly, NEW lun \in Luns, NEW p \in Ports, NEW k \in Kinds,
           CreatePrimary(lun, p, k)
    PROVE  Orderly'
<1> DEFINE i == Min(FreeIndices(lun))
           fd == Min(Unused(files))
           copy == Min(Unused(names))
           n == DeviceName(p)
           t == Opened(lun, p, k)
           e == FirstSlot(i, k, fd, copy)
<1>1. /\ i \in Indices /\ ReaderIndex[i] = None
      /\ fd \in Ids /\ files[fd] = NoName /\ copy \in Ids /\ names[copy] = NoName
  BY Free DEF CreatePrimary
<1>2. PICK ghost \in BOOLEAN : \A j \in Indices : ~Says(Before, j, n, ghost)
  BY DEF CreatePrimary
<1>3. \A j \in Held : names[serialDevice[j].device] # n
  BY <1>2, NotInUse
<1>4. n # NoName
  BY DeviceNameIsAName
<1>5. PortsOK(t) /\ t \in PortStates
  BY OpenedTyped DEF PortsOK
<1>6. Before \in PortStates /\ PortsOK(Before)
  BY BeforeOK DEF PortsOK
<1>7. Before.dev = serialDevice /\ Before.names = names /\ Before.files = files
  BY DEF Before
<1>8. previous_reader_index' = i
  BY DEF CreatePrimary
<1>9. \/ GiveUp([Describe(Before, i, k) EXCEPT !.dev[i].fd = None], i)
      \/ GiveUp(AttributesFail(t, i), i)
      \/ GiveUp(CloseSerial(t, i), i)
      \/ WarmUp(t, i, lun, n)
  BY PrimaryEnds
<1>11. e \in DeviceRecord
  BY <1>1, FirstSlotType
<1>opened. t = OpenPort(Describe(Before, i, k), i, n, fd, copy)
  BY Zenon DEF Opened
<1> HIDE DEF i, fd, copy, n, t
<1>10. t = [dev   |-> [Before.dev EXCEPT ![i] = e],
            names |-> [Before.names EXCEPT ![copy] = n],
            files |-> [Before.files EXCEPT ![fd] = n]]
  BY <1>1, <1>6, <1>opened, OpenIs
<1>12. /\ e.device = copy /\ e.fd = fd /\ e.primary = i /\ e.count = 1 /\ e.slot = 0
  BY DEF FirstSlot
<1> HIDE DEF e
<1>13. /\ t.dev = [serialDevice EXCEPT ![i] = e]
       /\ t.names = [names EXCEPT ![copy] = n] /\ t.files = [files EXCEPT ![fd] = n]
  BY <1>7, <1>10
<1>14. i \in Indices \ Held
  BY <1>1 DEF Held
<1>15. /\ serialDevice \in [Indices -> DeviceRecord]
       /\ names \in [Ids -> DeviceNames] /\ files \in [Ids -> DeviceNames]
  BY DEF Typed, TypeOK, DeviceRecord
<1>16. t.dev[i] = e
  BY <1>1, <1>13, <1>15
<1>17. ASSUME GiveUp([Describe(Before, i, k) EXCEPT !.dev[i].fd = None], i) PROVE Orderly'
  <2> DEFINE d == [device |-> serialDevice[i].device, fd |-> serialDevice[i].fd, primary |-> i,
                   count |-> 1, slot |-> 0, maxSlot |-> MaxSlotIndex(k)]
             d1 == [d EXCEPT !.fd = None]
             u == [Describe(Before, i, k) EXCEPT !.dev[i].fd = None]
  <2>1. serialDevice[i].device = None
    BY <1>14 DEF Orderly, FreeIsClosed
  <2>2. d1.device = None
    BY <2>1
  <2>3. Describe(Before, i, k)
          = [dev |-> [serialDevice EXCEPT ![i] = d], names |-> names, files |-> files]
    BY DEF Describe, Before
  <2> HIDE DEF d
  <2> DEFINE D == [serialDevice EXCEPT ![i] = d]
  <2>fd. [D EXCEPT ![i].fd = None] = [serialDevice EXCEPT ![i] = d1]
    BY <1>1, <1>15
  <2> HIDE DEF D
  <2>u. u = [dev |-> [D EXCEPT ![i].fd = None], names |-> names, files |-> files]
    BY <2>3 DEF D
  <2>4. /\ u.dev = [serialDevice EXCEPT ![i] = d1] /\ u.names = names /\ u.files = files
    <3> HIDE DEF d1, u
    <3> QED BY <2>fd, <2>u DEF D
  <2> HIDE DEF d1, u
  <2>5. GiveUp(u, i)
    BY <1>17 DEF u
  <2>6. QED BY <1>8, <1>14, <2>2, <2>4, <2>5, GiveUpClosed
<1>18. ASSUME GiveUp(AttributesFail(t, i), i) PROVE Orderly'
  <2> DEFINE u == AttributesFail(t, i)
             e1 == [e EXCEPT !.fd = None]
  <2>1. /\ e1 \in DeviceRecord
        /\ e1.fd = None /\ e1.device = copy /\ e1.primary = i /\ e1.count = 1
    BY <1>11, <1>12 DEF DeviceRecord
  <2>2. u \in PortStates
    BY <1>1, <1>5, <1>12, <1>16, AttributesFailTypes DEF PortsOK
  <2>3. /\ u.dev = [t.dev EXCEPT ![i].fd = None] /\ u.names = t.names
        /\ u.files = [t.files EXCEPT ![t.dev[i].fd] = NoName]
    BY <1>5 DEF AttributesFail, PortStates
  <2> HIDE DEF u
  <2>4. [t.dev EXCEPT ![i].fd = None] = [serialDevice EXCEPT ![i] = e1]
    BY <1>1, <1>13, <1>15
  <2>5. [t.files EXCEPT ![t.dev[i].fd] = NoName] = files
    BY <1>1, <1>12, <1>13, <1>15, <1>16
  <2>6. u.dev = [serialDevice EXCEPT ![i] = e1] /\ u.names = [names EXCEPT ![copy] = n]
        /\ u.files = files /\ GiveUp(u, i)
    BY <1>13, <1>18, <2>3, <2>4, <2>5 DEF u
  <2> HIDE DEF e1
  <2>7. /\ names[copy] = NoName /\ copy \in Ids
        /\ previous_reader_index' \in {previous_reader_index, i}
        /\ \/ e1.fd = None /\ u.files = files
           \/ e1.fd \in Ids /\ files[e1.fd] = NoName /\ u.files = [files EXCEPT ![e1.fd] = n]
    BY <1>1, <1>8, <2>1, <2>6
  <2>8. QED BY <1>14, <2>1, <2>2, <2>6, <2>7, GiveUpOpened, Zenon
<1>19. ASSUME GiveUp(CloseSerial(t, i), i) PROVE Orderly'
  <2> DEFINE u == CloseSerial(t, i)
  <2>1. t.dev[i].device = copy /\ t.dev[i].fd = fd /\ t.dev[i].primary = i /\ t.dev[i].count = 1
    BY <1>12, <1>16
  <2>2. PICK d : d.device = None /\ u.dev = [t.dev EXCEPT ![i] = d]
    BY <1>1, <1>5, <2>1, CloseLast
  <2>3. /\ u.names = [t.names EXCEPT ![t.dev[i].device] = NoName]
        /\ u.files = IF t.dev[i].fd = None THEN t.files
                                           ELSE [t.files EXCEPT ![t.dev[i].fd] = NoName]
    BY <1>1, <1>5, <2>1, CloseLast, Zenon
  <2> HIDE DEF u
  <2>4. t.dev[i].fd # None
    BY <1>1, <2>1 DEF Ids, None
  <2>5. [t.dev EXCEPT ![i] = d] = [serialDevice EXCEPT ![i] = d]
    BY <1>13, <1>15
  <2>6. [t.names EXCEPT ![copy] = NoName] = names /\ [t.files EXCEPT ![fd] = NoName] = files
    BY <1>1, <1>13, <1>15, ZenonT(60)
  <2>7. u.dev = [serialDevice EXCEPT ![i] = d] /\ u.names = names /\ u.files = files
    BY <2>1, <2>2, <2>3, <2>4, <2>5, <2>6, Zenon
  <2>8. GiveUp(u, i)
    BY <1>19 DEF u
  <2>9. QED BY <1>8, <1>14, <2>2, <2>7, <2>8, GiveUpClosed
<1>20. ASSUME WarmUp(t, i, lun, n) PROVE Orderly'
  <2>1. CASE GiveUp(t, i)
    BY <1>1, <1>5, <1>8, <1>11, <1>12, <1>13, <1>14, <2>1, GiveUpOpened, SMTT(30)
  <2>2. CASE Succeed(t, i, lun, n)
    <3>1. /\ serialDevice' = [serialDevice EXCEPT ![i] = e]
          /\ names' = [names EXCEPT ![copy] = n] /\ files' = [files EXCEPT ![fd] = n]
          /\ ReaderIndex' = [ReaderIndex EXCEPT ![i] = lun]
          /\ wanted' = [wanted EXCEPT ![i] = n]
      BY <1>13, <2>2, Zenon DEF Succeed, After
    <3>2. Held' = Held \cup {i} /\ Held \subseteq Indices
      BY <1>1, <3>1, NoneIsNoLun DEF Held, Typed, TypeOK
    <3>3. wanted'[i] = n /\ \A j \in Held : wanted'[j] = wanted[j]
      BY <1>14, <3>1, <3>2 DEF Typed, TypeOK
    <3>4. serialDevice'[i] = e /\ \A j \in Indices \ {i} : serialDevice'[j] = serialDevice[j]
      BY <1>1, <1>15, <3>1
    <3>5. /\ names'[copy] = n /\ \A c \in Ids \ {copy} : names'[c] = names[c]
          /\ files'[fd] = n /\ \A f \in Ids \ {fd} : files'[f] = files[f]
      BY <1>1, <1>15, <3>1
    <3>6. /\ serialDevice'[i].device = copy /\ serialDevice'[i].fd = fd
          /\ serialDevice'[i].primary = i /\ serialDevice'[i].count = 1
          /\ serialDevice'[i].slot = 0
      BY <1>12, <3>4
    <3>7. /\ \A j \in Indices \ {i} : serialDevice'[j] = serialDevice[j]
          /\ names'[copy] = n /\ files'[fd] = n /\ wanted'[i] = n
          /\ \A c \in Ids \ {copy} : names'[c] = names[c]
          /\ \A f \in Ids \ {fd} : files'[f] = files[f]
          /\ \A j \in Held : wanted'[j] = wanted[j]
      BY <3>3, <3>4, <3>5
    <3>8. QED BY <1>1, <1>3, <1>4, <1>8, <1>14, <3>2, <3>6, <3>7, FirstKeepsOrder
  <2>3. QED BY <1>20, <2>1, <2>2 DEF WarmUp
<1>21. QED BY <1>9, <1>17, <1>18, <1>19, <1>20

LEMMA CloseChannelKeepsOrder ==
    ASSUME Typed, Orderly, NEW lun \in Luns, IFDHCloseChannel(lun), ~shared'
    PROVE  Orderly'
<1>1. PICK i \in Indices :
        /\ ReaderIndex[i] = lun
        /\ After(CloseSerial(Before, i)) /\ shared' = (shared \/ Leaves(Before, i))
        /\ ReaderIndex' = [ReaderIndex EXCEPT ![i] = None]
        /\ wanted' = [wanted EXCEPT ![i] = NoName]
        /\ UNCHANGED previous_reader_index
  BY DEF IFDHCloseChannel
<1>2. i \in Held
  BY <1>1, NoneIsNoLun DEF Held
<1>3. ~Leaves(Before, i)
  BY <1>1, Zenon
<1>4. Before.dev = serialDevice /\ Before.names = names /\ Before.files = files
  BY DEF Before
<1>5. serialDevice[i].device \in Ids /\ serialDevice[i].fd \in Ids
  BY <1>2 DEF Orderly, Own
<1>6. serialDevice[i].device # None /\ serialDevice[i].fd # None
  BY <1>5 DEF Ids, None
<1>7. serialDevice[serialDevice[i].primary].count = 1
  BY <1>3, <1>4, <1>6, Zenon DEF Leaves
<1>8. serialDevice[i].primary = i /\ Slots(i) = {i}
  BY <1>2, <1>7, LastSlot
<1>9. Before \in PortStates
  BY BeforeOK DEF PortsOK
<1>10. /\ Before.dev[i].device \in Ids /\ Before.dev[i].primary = i /\ Before.dev[i].count = 1
       /\ Before.dev[i].fd # None
  BY <1>4, <1>5, <1>6, <1>7, <1>8
<1>11. /\ \E d : d.device = None /\ CloseSerial(Before, i).dev = [Before.dev EXCEPT ![i] = d]
       /\ CloseSerial(Before, i).names = [Before.names EXCEPT ![Before.dev[i].device] = NoName]
       /\ CloseSerial(Before, i).files = [Before.files EXCEPT ![Before.dev[i].fd] = NoName]
  BY <1>9, <1>10, CloseLast, Zenon
<1>12. PICK d : d.device = None /\ CloseSerial(Before, i).dev = [Before.dev EXCEPT ![i] = d]
  BY <1>11, Zenon
<1>13. /\ serialDevice' = [serialDevice EXCEPT ![i] = d]
       /\ names' = [names EXCEPT ![serialDevice[i].device] = NoName]
       /\ files' = [files EXCEPT ![serialDevice[i].fd] = NoName]
  BY <1>1, <1>4, <1>11, <1>12, Zenon DEF After
<1>14. /\ serialDevice \in [Indices -> DeviceRecord]
       /\ names \in [Ids -> DeviceNames] /\ files \in [Ids -> DeviceNames]
  BY DEF Typed, TypeOK, DeviceRecord
<1>15. Held' = Held \ {i} /\ Held \subseteq Indices
  BY <1>1 DEF Held, Typed, TypeOK
<1>16. /\ serialDevice'[i].device = None
       /\ \A j \in Indices \ {i} : serialDevice'[j] = serialDevice[j]
  BY <1>12, <1>13, <1>14
<1>17. /\ names'[serialDevice[i].device] = NoName
       /\ \A c \in Ids \ {serialDevice[i].device} : names'[c] = names[c]
       /\ files'[serialDevice[i].fd] = NoName
       /\ \A f \in Ids \ {serialDevice[i].fd} : files'[f] = files[f]
  BY <1>5, <1>13, <1>14
<1>18. \A j \in Held \ {i} : wanted'[j] = wanted[j]
  BY <1>1, <1>15 DEF Typed, TypeOK
<1>19. QED BY <1>1, <1>2, <1>8, <1>15, <1>16, <1>17, <1>18, CloseKeepsOrder

-----------------------------------------------------------------------------

InOrder == ~shared => Orderly

LEMMA OrderInvariant == Spec => [](Typed /\ InOrder)
<1>1. Init => InOrder
  <2> SUFFICES ASSUME Init PROVE Orderly
    BY DEF InOrder
  <2>1. Held = {}
    BY DEF Init, Held
  <2>2. \A i \in Indices : serialDevice[i].device = None
    BY DEF Init
  <2>3. /\ \A f \in Ids : files[f] = NoName
        /\ \A c \in Ids : names[c] = NoName
    BY DEF Init
  <2>4. QED BY <2>1, <2>2, <2>3
        DEF Orderly, FreeIsClosed, Own, Counted, OneReaderPerName, SlotsDiffer, LastIsHighest,
            Owned
<1>2. Typed /\ InOrder /\ [Next]_vars => InOrder'
  <2> SUFFICES ASSUME Typed, InOrder, [Next]_vars, ~shared' PROVE Orderly'
    BY DEF InOrder
  <2>1. CASE UNCHANGED vars
    <3>1. Orderly
      BY <2>1, Zenon DEF vars, InOrder
    <3>2. UNCHANGED <<serialDevice, names, files, wanted, previous_reader_index>>
          /\ Held' = Held
      BY <2>1 DEF vars, Held
    <3>3. ASSUME NEW i PROVE Slots(i)' = Slots(i)
      BY <3>2 DEF Slots
    <3>4. FreeIsClosed' /\ Own' /\ OneReaderPerName' /\ SlotsDiffer'
      BY <3>1, <3>2 DEF Orderly, FreeIsClosed, Own, OneReaderPerName, SlotsDiffer
    <3>5. Counted' /\ LastIsHighest'
      BY <3>1, <3>2 DEF Orderly, Counted, LastIsHighest, Slots
    <3>6. Owned'
      BY <3>1, <3>2 DEF Orderly, Owned
    <3>7. QED BY <3>4, <3>5, <3>6 DEF Orderly
  <2>2. CASE Next
    <3>1. PICK lun \in Luns : IFDHCreateChannel(lun) \/ IFDHCloseChannel(lun)
      BY <2>2, Zenon DEF Next
    <3>2. \A s, i, n : GiveUp(s, i) \/ WarmUp(s, i, lun, n) => ~shared
      BY Zenon DEF GiveUp, WarmUp, Succeed
    <3>3. CASE IFDHCreateChannel(lun)
      <4>1. PICK p \in Ports, k \in Kinds :
              CreateSecondary(lun, p, k) \/ CreateRefused(lun, p, k) \/ CreatePrimary(lun, p, k)
        BY <3>3, Zenon DEF IFDHCreateChannel
      <4>2. ~shared
        BY <3>2, <4>1, Zenon DEF CreateSecondary, CreateRefused, CreatePrimary
      <4>3. QED BY <4>1, <4>2, RefusedKeepsOrder, SecondaryKeepsOrder, PrimaryKeepsOrder, Zenon
            DEF InOrder
    <3>4. CASE IFDHCloseChannel(lun)
      <4>1. ~shared
        BY <3>4, Zenon DEF IFDHCloseChannel
      <4>2. QED BY <3>4, <4>1, CloseChannelKeepsOrder, Zenon DEF InOrder
    <3>5. QED BY <3>1, <3>3, <3>4
  <2>3. QED BY <2>1, <2>2
<1>3. QED BY <1>1, <1>2, TypedInvariant, PTL DEF Spec

\* As long as no slot was closed before the others of its reader, each channel
\* has the port it was created with: OpenSerialByName, CloseSerial and
\* set_ccid_descriptor never close or reuse the file of a channel that is open.
THEOREM PortsAreKept == Spec => []PortKept
<1>1. Typed /\ InOrder => PortKept
  <2> SUFFICES ASSUME Orderly, NEW i \in Held
               PROVE  serialDevice[i].fd # None /\ files[serialDevice[i].fd] = wanted[i]
    BY DEF InOrder, PortKept, OwnPort
  <2>1. serialDevice[i].fd \in Ids /\ files[serialDevice[i].fd] = wanted[i]
    BY DEF Orderly, Own
  <2>2. QED BY <2>1 DEF Ids, None
<1>2. QED BY <1>1, OrderInvariant, PTL

\* Then, too, every way CreateChannelByNameOrChannel fails, and FreeChannel,
\* leave neither a file open nor a name behind.
THEOREM NothingIsLeft == Spec => []NothingLeft
<1>1. Typed /\ InOrder => NothingLeft
  BY Zenon DEF InOrder, Orderly, Owned, FreeIsClosed, NothingLeft
<1>2. QED BY <1>1, OrderInvariant, PTL

\* And the channels on one port are the slots of one reader, which its counter
\* counts and whose numbers differ.
THEOREM PortHasOneReader == Spec => []OneReaderPerPort
<1>1. Typed /\ InOrder => OneReaderPerPort
  <2> SUFFICES ASSUME Orderly, NEW i \in Held, NEW j \in Held
      PROVE /\ (wanted[i] = wanted[j]) = (serialDevice[i].primary = serialDevice[j].primary)
            /\ i # j /\ serialDevice[i].primary = serialDevice[j].primary
                 => serialDevice[i].slot # serialDevice[j].slot
            /\ serialDevice[serialDevice[i].primary].count = Cardinality(Slots(i))
    BY Zenon DEF InOrder, OneReaderPerPort, Slots
  <2>1. (wanted[i] = wanted[j]) <=> (serialDevice[i].primary = serialDevice[j].primary)
    BY DEF Orderly, OneReaderPerName
  <2>2. QED BY <2>1 DEF Orderly, SlotsDiffer, Counted
<1>2. QED BY <1>1, OrderInvariant, PTL
=============================================================================
