# RoAndroidTest: specifications

TLA+ specifications of the smart-card driver, the serial link and the serial
debugging tool in this repository, checked with TLC, and theorems about them checked with TLAPS.
Paths below are relative to `src/app/src/main/`.

## 1. The system

RoAndroidTest is an Android application for trying out the hardware of a
device: serial ports, GPIO lines, a LoRa modem, and a PSAM, a smart card that
decrypts. The smart-card part is a fork of the CCID driver of the PC/SC project,
cut down to one reader (SEC1210, two slots) on a serial line (`TWIN_SERIAL`),
and holds most of the program's own logic; the threads are all in the Java part.

```
 PsamActivity ── SCTool.java ── sc_tool.cpp          (Java, JNI)
                     │
              cainiao_crypto.c                       decrypt blocks of 8 bytes
                     │
              ifdhandler.c                           channels, power, presence, parameters
                     │
      proto-t1.c ────┴──── commands.c                T=1 blocks; CCID commands
                     │
              ccid_serial.c                          frames on the serial line
                     │
               SEC1210 reader ── card


 MainActivity ─ PortUtils ─┬─ SerialPort.java ── SerialPort.c ── tty
 LoRaActivity ─ AsyncTask ─┘         │
                              SerialReadThread
        │                            │
        └────── LogManager (EventBus) ────── BaseActivity, LogFragment
```

| component | state | operations | what is hard | what makes it correct |
|---|---|---|---|---|
| T=1 block protocol (`openct/proto-t1.c`, `buffer.c`) | `t1_state_t`: `state`, `ns`, `nr`, `ifsc`, `wtx`, `more`, `rc_bytes`, previous block; locals of a call | `t1_init`, `t1_transceive`, `t1_xcv`, `t1_rebuild`, `t1_negotiate_ifsd` | lost and garbled blocks, retries and resynchronisations spread over nine branches, a card that changes the IFSC or asks for time in the middle of a chain | a command is executed whole and once, the response is its own, `ns`/`nr` stay in step, calls end |
| PSAM session (`cainiao_crypto.c`) | `is_reader_init`, `is_card_presence` | `cainiao_data_decrypt`, `cainiao_disable_crypto` | card removed or swapped between two exchanges, ignored failures, process killed | recovers; decrypts all of the data |
| IFD handler (`ifdhandler.c`) | `CcidSlots`: `bPowerFlags`, ATR, T=1 context; reader index | `IFDHCreateChannelByName`, `IFDHCloseChannel`, `IFDHPowerICC`, `IFDHSetProtocolParameters`, `IFDHICCPresence`, `IFDHTransmitToICC`, `IFDHControl` | failures half-way | no reader leaked, timeouts restored |
| CCID commands (`commands.c`) | `pbSeq`; the loops of a command | `CmdPowerOn`, `CmdPowerOff`, `CmdGetSlotStatus`, `CmdEscape`, `CmdXfrBlock`, `CCID_Receive`, `SetParameters`, `SecurePINVerify`, `SecurePINModify` | NAKs, time extensions, refusals | ends; read timeout as configured |
| Serial link (`ccid_serial.c`) | per port: buffer and its two offsets; `echo` | `WriteSerial`, `ReadSerial`, `get_bytes`, `ReadChunk` | bytes in pieces, slot changes in between, late answers, hang-up | the answer is that of the command |
| Reader index and ports (`utils.c`, `ccid_serial.c`) | `ReaderIndex[]`, `serialDevice[]`, names, descriptors | `GetNewReaderIndex`, `ReleaseReaderIndex`, `OpenSerialByName`, `set_ccid_descriptor`, `CloseSerial` | several slots share a port; a creation fails at any step | none lost, none used twice, one reader per port |
| ATR and PPS (`towitoko/`, `IFDHSetProtocolParameters`) | parameters told to the driver, the reader and the card | `ATR_InitFromArray`, `PPS_Exchange`, `SetParameters`, `t1_negotiate_ifsd` | three parties, each exchange can fail | they agree |
| Checksums (`openct/checksum.c`) | none | arithmetic | – | – |
| GPIO (`jni/GpioControl`, `GpioActivity`) | sysfs files, check boxes | export, direction, read, write, unexport | failures half-way, leaked descriptors | what is shown is what is set |
| Serial port of the tool (`SerialPort.java`, `PortUtils`, `SerialPortManager`, `SerialReadThread`, `MainActivity`) | open port, reading thread, sending thread, `mIsOpen` flags | open, close, send, receive | threads against closing, failed opens | no use of a port that is closed, no thread left behind |
| LoRa sender (`LoRaActivity`) | `loraSendStarted`, `start` | start, stop | two threads, one flag | stops when told to |
| Log bus (`LogManager`, `BaseActivity`, `LogFragment`) | subscribers, messages | register, post, clear | overlapping activities | each message once |
| Parsers (`CommandParser`, `ByteUtil`) | none | conversion | odd lengths | – |
| UI, port finders, CCID quirk tables, vendored helpers | – | – | – | – |

Interaction: everything from `cainiao_crypto.c` down is plain calls on the user
interface thread. `SCTool.decrypt` and `SCTool.close` never overlap, so no two
threads are ever inside the driver. What does happen concurrently is outside: the
card is moved, the reader answers early, late, in pieces or never, the process is
killed. The debugging tool has real threads: the user interface's, for each open
port one that reads and one that writes, and the tasks of `LoRaActivity`. They share
the descriptors (by number) and the log, which they reach through EventBus.

## 2. Modules

| module | models | notes |
|---|---|---|
| `T1Transceive` | `proto-t1.c` as the reader side | any answers whatever |
| `T1Exchange` | `T1Transceive` with a card and a line | EXTENDS it |
| `ApduExchange` | what a caller of the exchange is promised | abstract specification, implemented by `T1Exchange` |
| `PsamSession` | `cainiao_crypto.c` and what it calls | card, reader, process |
| `SerialFrame` | `ccid_serial.c`: one command, one answer | reader and line |
| `CcidCommands` | the functions of `ifdhandler.c` as sequences of commands, and the read timeout they share | any answers whatever |
| `ReaderSlots` | channels, reader indices and the ports several slots share | failures at each step |
| `Atr` | the parsing of an ATR and what the driver reads from it | operators, with the encoding as their reference |
| `ProtocolParameters` | `IFDHSetProtocolParameters` with reader and card | EXTENDS `Atr` |
| `SerialTool` | ports, threads, LoRa tasks and log of the debugging tool | Java and its JNI library |
| `T1TransceiveProofs`, `T1ExchangeProofs`, `PsamSessionProofs`, `CcidCommandsProofs`, `SerialFrameProofs`, `ReaderSlotsProofs`, `ProtocolParametersProofs`, `SerialToolProofs` | theorems | TLAPS |
| `MC...` | constants for TLC | one per checked module |

The modules meet at the granularity of their steps. A step of `PsamSession` is
one exchange with the reader (a command of `CcidCommands`, a T=1 exchange of
`T1Transceive`), which succeeds or fails there as a whole; a step of
`CcidCommands` is a command and its answer, the subject of `SerialFrame`; a step
of `T1Transceive` is one pass of its loop: one block sent, one answer.

### T1Transceive

State: `t1_state_t` (`state`, `ns`, `nr`, `ifsc`, `wtx`, `more`, `rc` for
`rc_bytes`), the block sent last (`block`), the locals of the call in progress
(`retries`, `resyncs`, `lastSend`, and fill levels and heads of `sbuf` and
`rbuf`). Data is positions: an I-block carries bytes `first+1..first+len` of the
send buffer. An action is a branch of the loop for one kind of answer; what
several of them end in are operators of their own (`Complain` is the block at
lines 224-239, `Resync` the label `resync:`, `Die` the label `error:`). `retries`
is unsigned: `Left` wraps. `raised` stands for "readTimeout is above its base
value".

### T1Exchange and ApduExchange

Adds an ISO 7816-3 card (external: it is modelled from the rules proto-t1.c
quotes and from what it expects to hear) and a line that garbles or swallows
blocks. The card log `cExec` is what the promise is about; the card executes no more
than `MaxExecs` commands, which bounds the runs. The refinement
mapping: a call is busy while `pc = "xcv"`; the log of the abstract
specification is the card's, with 0 for an execution that was not of a whole
command, which `ApduExchange` has no step for.

### PsamSession

State: the two flags of `cainiao_crypto.c`, the slot of `ifdhandler.c` (channel,
power flags, T=1 context), the locals of the loop over the blocks, and the card.
`pc` names the exchange that comes next; an action is that exchange with the
code up to the next. `fresh` and `moved` are history: whether the T=1 context
was made for the card's present activation, and whether the card was removed
since the presence check of this block. `calm` counts the blocks since the last
disturbance.

### SerialFrame

A byte is known by the answer it belongs to and its position there; what the
code reads it as (`Value`) depends on nothing else, and a garbled byte can be
read as anything, a garbled length too (`Announced`). `pc` is the place in
`ReadSerial` that waits for bytes; `Take` serves it from the buffer, `StartChunk`,
`ReadSome`, `EndChunk` and `FailChunk` are `get_bytes` and `ReadChunk`. Reads
deliver any number of the bytes there are. The echo is off for the SEC1210. The
LRC is not compared with anything in the model because the code only logs it.

### CcidCommands

Each function of the IFD handler is an action that sends its first command, and
each command an action that takes any answer: good, with a time extension,
failed, a NAK, or none. `configured` is what the reader (3 s) or the card
(`T1_card_timeout`) calls for; `leaked` records that a failed `t1_xcv`, or a
`SecurePINVerify` that failed after a WTX, has left another timeout behind (see below).
The three saved timeouts have the names of the code's variables, and nest as its
functions do: `IFDHTransmitToICC`, `SecurePINVerify` and `SecurePINModify` save
`old_read_timeout`; inside, `t1_xcv` and the WTX of `SecurePINVerify` save
`oldReadTimeout`; inside that, `CCID_Receive` saves `old_timeout`. `IFDHControl` is one
action for each kind of control code, with the checks that refuse it as the branch
that returns at once; what the driver answers from its descriptor is not looked into.
The T=1 block numbers a PIN command counts are not part of this module.

### ReaderSlots

State: `ReaderIndex`, the entries of `serialDevice` that matter here (descriptor,
pointer to the name, pointer to the shared count, slot numbers), the copies of
names on the heap and the open descriptors. Pointers are what they are in C: an
index into `names` that several entries may hold after the copy is freed; what a
comparison with a freed name yields is left open (`ghost`). A creation is one
action with a disjunct for each step it can fail at; what the code tidies up then
(`OpenSerialByName` itself, `FreeChannel`) is part of it. `wanted` and `shared` are
history: the port a Lun was created for, and whether a close has left slots behind
that share what it could not release.

### Atr and ProtocolParameters

`InitFromArray` reads bytes as `ATR_InitFromArray` does, levels, `TCK` and error
returns included; `Encode` is ISO 7816-3's encoding of a list of interface bytes, and
`AtrRead` says that the one inverts the other and that no beginning of an ATR is
taken for a whole one. The cards of the constant `Cards` keep to `IsoLevels`.
`ProtocolParameters` then has what three parties were told: the driver (its T=1
context, its baud rate), the reader (`SetParameters`), the card (PPS, S(IFS request)).
An action is an exchange with the code up to the next; each can be confirmed, cut
short, refused or lost. The rates of the reader are the tables of `ccid.h` and the
three descriptors that differ.

### SerialTool

A `session` is a `SerialPort` object with the threads made for it: it outlives the
fields of the activity that made it. `fds` maps a descriptor number to the session it
is open for. Android's streams do not own their descriptor: `close()` makes later calls
of the stream fail, `SerialPort_close` closes the number in `mFd`, and a call that has
passed the test for a closed stream goes on with the number, whoever has it by then.
So nothing of a thread that others can come between is one step:

- The reading thread tests for the interrupt (`test`), asks `available()` for the number
  (`available`), enters `read()`, which tests the stream (`read`), and reads the number
  (`reading`); without anything to read it waits in the kernel for the device the number
  stood for when it got there (`blocked`, `on`), and closing does not wake it.
- The writing thread takes a command (`taken`), enters `write()`, which tests the stream
  (`writing`), writes to the number (`written`), and posts (`posting`). A write to the
  number of another port goes to the device of that one: `wire[o]` is what was written
  to the descriptor of session `o`, by whom. `caught` names the one command of a session
  that was inside `write()` when its stream was closed.
- Closing is a sequence of steps (`closing`). An opening is one action, since nobody else
  has the port before it ends.

The bus is EventBus 3.1.1 as the application uses it, and so external. A post from
another thread copies the list of those registered, then makes an entry for each, one
step each, in the bus's own queue (`mail`); the first entry puts the bus's handler in
the queue of the user interface (`looper`, where 0 is that handler and any other number
the `onStop` of that registration). The handler delivers, and goes to the end of the
queue when its 10 ms are over. An `onStart` is a registration with a new number;
`onStop` comes any time after the activity was covered or finished (`leaving`,
`AskStop`), also when the next activity has long started, and not at all if it comes to
the front again first. `due` marks an entry that was made for the activity in front,
until the bus breaks off.

A task of `LoRaActivity` reads the port from the fields of its activity, also after that
was destroyed (`own`, `port`).

## 3. Runs

| run | shows |
|---|---|
| `t1_reader` | the reader side against any answers: `ChainWindow`, `IfscRespected`, `WholeLrcBlocks`, `OutcomeState`, `RetriesSpent` |
| `t1_exchange` | the exchange implements `ApduExchange`, liveness included |
| `t1_resync` | over resynchronisations: `ResponseIsOurs`, `InStep`, `CallReturns` |
| `psam_session` | `ChannelOwned`, `FreshContext`, `SecondSucceeds` with card movements, failures and kills anywhere |
| `serial_frames` | `OwnAnswer`, `StaysInStep`, `CallReturns` |
| `ccid_timeouts` | `TimeoutBalanced`, `CardHasItsTime` |
| `reader_slots` | `LunOnce`, `PortKept`, `NothingLeft`, `OneReaderPerPort` with channels created, refused, failed and closed in any order |
| `protocol_params` | `AtrRead`; driver, reader and card agree: `RatesAgree`, `ProtocolAgrees`, `ChecksumAgrees`, `SizesAgree` |
| `serial_ports` | `OwnPort`, `LogTrue`, `ThreadsEnd` over two openings of a port; `OneSender` of the tasks of `LoRaActivity` |
| `log_bus` | `LogTrue`, `NoneMissed` while activities cover, leave and start one another |
| `t1_resync_limit` | **violated**: `ResyncsLimited` |
| `psam_blocks` | **violated**: `AllDecrypted` |

`TypeOK` of each module is checked in the first run of it.

### Disagreements the runs show

- *Resynchronisations are not limited* (`t1_resync_limit`). "The number or
  resyncs is limited, too" says proto-t1.c:509; but each answer of the card to
  S(RESYNCH request) sets it back to 3 (line 401). In the trace one call resynchronises
  four times, and each time the command is executed once more.
- *First block only* (`psam_blocks`). The loop over the blocks counts bytes against
  a number of blocks and ends with the first success.

Others were met while modelling. They have no run of their own; where a formula is
named, adding it to the configuration named shows the behaviour:

- *Tail of a command after a resynchronisation.* `t1_transceive` goes on from the moved
  head of `sbuf`; the card has forgotten the acknowledged blocks of the chain and executes
  the rest as a command. (`CommandsWhole` in `t1_resync.cfg`.)
- *Stale response.* In the state `RESYNCH` an I-block or S(WTX request) is taken as in
  any other state, though `nr` is 0 again and the card has not resynchronised. The
  call can succeed with the tail of a response. (`ResponseIsOurs` in `t1_resync.cfg`
  with `MaxFaults = 4`.)
- *Multiplied timeout.* The error returns of `t1_xcv` come before the line that
  restores `readTimeout`. (`TimeoutRestored` in `t1_reader.cfg`.)
- *The time of a PIN.* The answer of a card to a PIN may be S(WTX request). When the
  exchange after it fails, `SecurePINVerify` returns before both lines that restore
  `readTimeout`: the 90 seconds or more for the user, multiplied, stay in force until the
  next `IFDHSetProtocolParameters`; and they may be less than a card with a large BWI
  needs. (Take `leaked` out of `TimeoutBalanced` or `CardHasItsTime`.)
- *Block numbers of a PIN command.* They are counted before the command is sent, and
  taken back when the reader refuses it, "since no TPDU was sent" (commands.c:435); but
  not when the command cannot be written, or the escape command before it fails.
- *Dead context.* After one failed exchange the T=1 context is dead; "Reset it!" says
  proto-t1.c, and nothing does while the card stays in the slot. (`DeadIsReset` in
  `psam_session.cfg`.)
- *Hang-up.* `read` returns 0 for ever, and `ReadChunk` takes that for progress.
  (`AlwaysReturns` in `serial_frames.cfg`.)
- *The last slot only.* A slot that is closed while others of its reader are open
  keeps its entry, with the pointer to the shared count. The next creation that takes
  that entry and fails closes it once more: the count goes down again, and the port is
  closed under a slot that is still open. (`LastSlotReleases` in `reader_slots.cfg` with
  `FollowShared = TRUE`; CloseSerial says "release the allocated ressources for the last
  slot only".) The properties of `reader_slots` are claimed until such a slot is left
  behind (`shared`). `PsamActivity` opens one slot only.
- *Specific mode.* A card that says in TA2 that it talks at the rate of TA1 only is
  rejected when the reader's table lacks that rate; when the rate is above the reader's
  maximum, a lower one is chosen without a look at TA2, and reader and card talk at
  different rates. (`SpecificRate` in `protocol_params.cfg`.) `RatesAgree` leaves these
  cards out.
- *Timeout of another rate.* `readTimeout` is computed from the TA1 of the ATR, which is
  set back after a lower one was chosen, or another was asked for by the caller: with a
  slower rate it may end before the reader's own. ("so we get the error from the
  reader", ifdhandler.c:2092; `ErrorFromReader` in `protocol_params.cfg`.)
- *A task without its activity.* Leaving `LoRaActivity` stops neither its task nor its
  port; `onDestroy` of neither activity closes anything. The task goes on writing to
  the number the port had. (`LoRaOwnPort` in `serial_ports.cfg` with `MaxShows = 2` and
  neither commands nor answers.) A new task waits in the queue behind it, for ever.
- *Failed opens.* After an `IOException` the buttons say "close" all the same; a command
  sent then ends the process (`Send`), and so does closing a port `LoRaActivity` has
  never had (`Close`). A `SecurityException` is not caught at all.
- *Stop and start again before the task has ended.* `onPreExecute` finds the button
  still saying "sending" and does not set `start`: `loraSendStarted` is TRUE and
  nothing is sent until the button is pressed twice more.
- *Command list.* `LoadCmdListActivity` sends through `SerialPortManager`, which nobody
  opens; the first command ends the process (`SendFromList`).
- *The command that was being written.* `PortUtils.close` does not wait for the writing
  thread: a command that is inside `write()` when its stream is closed goes to the port
  that has the number by then, and `onNext` logs it as sent. `OwnPort` and `LogTrue`
  say that no other command does. (Without the exception for `caught` both fail in
  `serial_ports.cfg`.)
- *The thread that was about to read.* In the same way the reading thread of a closed
  port can get into `read()` for a number that is another port's: it takes what that has
  received, which is lost, since its own stream is closed; or it waits there, until the
  device has something to say. `ThreadsEnd` leaves out the thread that waits (`Stuck`),
  for a device that was opened more than once.
- *A message between two activities.* A post copies the list of those registered first.
  When the activity in front changes before the entries are made, they are for the old
  one, which may be stopped before its entry is delivered; and so may one whose
  entry was left when the bus broke off after 10 ms. `NoneMissed` claims nothing of these
  two (`due`).
- *Doubled messages.* While one activity covers another both are registered, and each
  adds a message to the log. `NoneMissed` is the half that holds.
- `t1_rebuild` repeats four bytes, one too few for an R-block with the CRC
  checksum. (`WholeBlocks` fails in `t1_reader`; `WholeLrcBlocks` is what holds.)
- S-requests of a wrong length run the unsigned `retries` below zero.
  (`RetriesPositive` fails with `CardMalforms = TRUE`; theorem `RetriesHold` says
  it holds without them.)
- The repetition of an I-block that the card keeps asking for is not limited either,
  since each R-block restores the retries. With a bounded number of garbled blocks each
  call returns (`CallReturns`); on a line that garbles for ever it need not.
- `CmdPowerOn` starts from `PowerOnVoltage = -1`, so a reader that refuses the
  power-up is asked again with -2, -3, ... and `voltage_code` is read outside its
  bounds. `CcidCommands` cuts this off at `MaxRefusals`; in `PsamSession` the
  process does not survive it (`PowerUpRefused`).
- `IFDHPowerICC` failing is not noticed by `check_card_presence`; the T=1 context
  may never have been initialised then, and `t1_build` calls a null checksum
  function (`PsamSession!Crash`).
- `cainiao_disable_crypto` leaves both flags set, so the block after a close always
  fails. `SecondSucceeds` therefore promises the second one only.

### Bounds, and why they are enough

- `t1_reader`: `Retries` is the real 3 and `resyncs` the real 3, so every path
  through the retry rules is there. `UintMax` 5 stands for the largest unsigned
  int: all that matters is that 0 - 1 is larger than `Retries`. Commands of 0, 1 and
  4 bytes with an IFSC of 1, 2 or 3 give chains of one to four blocks; a receive
  buffer of 2 with I-blocks of 0 to 2 bytes overflows.
- `t1_exchange`: two calls, chains of up to three blocks either way, a response
  that does not fit. Two garbled blocks: with three a resynchronisation can begin,
  after which ISO 7816-3 itself allows a command to be executed again, so the
  service promised would have to be another one.
- `t1_resync`: three garbled blocks, the first number that leads to a
  resynchronisation. With four a stale response can be accepted (above), so
  `ResponseIsOurs` is claimed for three.
- `t1_resync_limit`: one call with a command and a response of one byte, and twelve
  garbled blocks, `Retries` for each resynchronisation, so there can be one more than the
  limit of three.
- `psam_session`: `PsamSession` needs no bound but the lengths of the data: 0, 1
  (nothing after the first block), 2, and 9 blocks (the least for which the loop
  goes round twice). TLC sees all of its states.
- `serial_frames`: three commands (one that goes wrong, the one that gets its
  answer, the one after), one event, one fault of any of the four kinds. The header
  is read in 1 and the rest in 1 or 2 bytes, in place of 5 and 5 to 266; the
  buffer of the port holds 5 bytes, less than two answers, so that answers wrap over
  its end and reads are cut by it. The caller's buffer holds 5 as well: a garbled
  length can make the rest longer than the frame, so that `ReadChunk` takes bytes of
  what follows and fails, and half of the report of a card movement is left in the
  buffer. (`inStep` therefore asks for whole events, not for bytes of events.) With a
  garbled length above 548 bytes `ReadChunk` would run out of room, which is not modelled.
- `ccid_timeouts`: the real voltages and timeouts; two card timeouts, one shorter
  than the default and one longer than the 90 s of a PIN, as from a BWI of 10 (ISO
  7816-3 ends at 9, the code does not); multipliers 0, 1, 3; the least and the largest
  `bTimeOut`. `MaxTimeout` stops `t1_xcv`
  from starting above 300 s, since leaks multiply without end. The theorems have
  no such bound to choose: they hold for every value of it.
- `reader_slots`: four Luns and a table of three readers in place of 16, so the table
  fills up; four requests for a port, two of which name the same file and one of which
  is refused; readers with one, two and five slots. `MaxFiles`
  numbers of descriptors and copies of names, more than the table can use, so that one
  that is lost shows.
- `protocol_params`: fourteen ATRs, one for each way the code tells cards apart: TA1
  missing, default, slow, fast, too fast for one reader, in no table; one or two
  protocols; negotiable or specific; LRC or CRC; the TB and IFSC of the first level
  of T=1 or of a later one. Three readers: two with tables of rates, one without.
  `AtrRead` is checked on these and on each of their beginnings; the theorem
  `AtrRoundTrip` is about all others.
- `serial_ports`: one activity, a port opened twice, on the same or another device, one
  command, one answer: what can go wrong takes the descriptor of the one session and a
  thread of the other. Two tasks and one message of theirs, the least for `OneSender`.
  About 906,000 states; the theorems `CommandsReachOwnPort`, `LogTellsTheTruth` and
  `StopReachesSender` have no bound.
- `log_bus`: three registrations, so one activity can be covered, uncovered, left and
  another started while messages wait, all stops still to come; one port and two
  commands, so there is an order. About 1,890,000 states; `NobodyMissesAnything` has no
  bound.

`CHECK_DEADLOCK FALSE` is set in four configurations. `serial_frames` stops when
`MaxCommands` commands have been written, `serial_ports` and `log_bus` when the
process has ended with an exception or all bounds are used up, `reader_slots` when
nothing more is claimed (`shared`).

### Fairness

- `T1Exchange!ExFairSpec`: weak fairness of an exchange of blocks. `t1_xcv` always
  comes back, because `CCID_Receive` ends after `readTimeout`.
- `SerialFrame!Spec`: weak fairness of the driver (it runs, and `select` times out)
  and of the reader's answer; a lost answer is a fault that counts as answered.
  The reader does not send events for ever (`MaxEvents`).
- `SerialTool!Spec`: weak fairness of the closing steps (the thread of the user
  interface finishes the method it is in), and of each reading and writing thread.
  Nothing is assumed of tasks, devices or the user: `ThreadsEnd` needs none of them.

## 4. Proofs

TLAPS proves, for all values of the constants that satisfy the ASSUMEs of the
modules:

| module | theorems |
|---|---|
| `T1TransceiveProofs` | `Invariance`, `TypeCorrect`, `WindowCorrect`, `IfscCorrect`, `LrcBlocksWhole`, `OutcomeCorrect`, `RetriesHold`, `RetriesAreSpent` |
| `T1ExchangeProofs` | `ExchangeInvariance`, `ResponsesAreOurs`, `NumbersInStep`, `NeverResyncs`, `CommandsStayWhole`, `ExchangeImplements`, `ExchangeIsTransceive` |
| `PsamSessionProofs` | `SessionInvariance`, `NoReaderLeaked`, `ContextIsFresh`, `SessionTypes`, `SecondBlockSucceeds` |
| `CcidCommandsProofs` | `TimeoutInvariance`, `TimeoutsBalance`, `CardGetsItsTime`, `CommandTypes` |
| `SerialFrameProofs` | `BuffersHold`, `AnswerIsOwn`, `StepIsKept` |
| `ReaderSlotsProofs` | `LunHasOneIndex`, `TypeInvariance`, `PortsAreKept`, `NothingIsLeft`, `PortHasOneReader` |
| `ProtocolParametersProofs` | `AtrRoundTrip`, `AtrIsRead`, `ParameterTypes`, `ParametersInvariance`, `RatesAlwaysAgree`, `ProtocolAlwaysAgrees`, `ChecksumAlwaysAgrees`, `SizesAlwaysAgree` |
| `SerialToolProofs` | `PortsKeepTheirNumbers`, `CommandsReachOwnPort`, `ToolTypes`, `StopReachesSender`, `LogTellsTheTruth`, `NobodyMissesAnything` |

*T=1.* `ChainWindow` is nearly inductive: what it lacks is that an R-block has no
data (so that the four bytes `t1_rebuild` repeats are all of it) and that the state
`RESYNCH` belongs to a call in progress. The proof has one lemma for each way a
pass of the loop can end, saying that it keeps `IInv` whatever has happened to
the buffers; an action then names the lemmas its branches end in. `RetriesHold`
assumes `~CardMalforms`, and that is needed. `RetriesAreSpent` is an action
property: a pass of the loop restores the retries, spends one, or spends a
resynchronisation. So is `OutcomeState`: the step that ends a call leaves the state
machine receiving if it succeeds and dead if it fails, at each of the exits.

*Exchange with a card.* `ExInv` says in which of six phases a call is: the card has
not taken the I-block on its way (`Asked`), has taken a link of the chain without the
reader knowing (`Linked`), has executed the command (`Answering`), has an I-block of its
own that the reader has accepted (`Accepted`) or waits for (`Waiting`), or is being
resynchronised (`Resyncing`). Each phase fixes the four alternating numbers, what may be
on the line, and how much of the response has arrived; between calls the numbers of
both sides agree (`Ready`). There is one lemma for what the card hears and one for what
the reader hears in each phase. With a block lost during a resynchronisation the
phases break down, the stale response of section 3; so `ResponsesAreOurs` and
`NumbersInStep` are stated twice: for runs in which that does not happen
(`Undisturbed`), and for all runs with no more faults than a call has retries. The
second follows from the first by `RetryInv`, which charges each retry spent to a block
lost: an R-block the card sends in place of its I-block costs the reader a retry, and
the card sends one only for a block it has misheard (`Owed`). A resynchronisation
therefore takes `Retries` faults (`NeverResyncs`), and none is left for a loss in it.
Both bounds are exact: `CommandsWhole` is violated in `t1_resync.cfg`, with `Retries`
faults, and with one more TLC finds `ResponseIsOurs` and `InStep` violated.

*Implementation of the service.* What the card has of the command is either what the
reader has moved the head of `sbuf` over, or that and the block on its way, and there
has been no execution for this call while it is incomplete (`WholeInv`). That gives
`CommandsStayWhole` and, with the invariants above, that each step is one of
`ApduExchange` or a stutter (`ExchangeImplements`), as long as no resynchronisation
begins, or for fewer faults than retries: the case of `t1_exchange`, which
checks the liveness part of `Implements` besides.

*The two models of the reader.* `T1Transceive` lets the card send anything,
`T1Exchange` gives it the protocol. `ExchangeIsTransceive` says the second is a case of
the first: every behaviour of the exchange is one of `T1Transceive`, provided
`InfSizes` holds the sizes up to the card's limit, as in all three configurations.
It needs only the types of the card's blocks (`CardTyped`), and no condition on the
faults, so what is proved of `T1Transceive` holds of the exchange even after a
resynchronisation that loses a block.

*Session.* `ChannelOwned` and `FreshContext` need to know how the power flags, the
T=1 context and the two flags of `cainiao_crypto.c` hang together: the power flags
say "powered up" exactly when there is a context, which needs an open channel and
`is_card_presence`; a context belongs to the present activation of the card, if the
card is active; and it is active once `IFDHICCPresence` has not found it swapped,
unless it is removed after that. `SlotOK` and `CardOK` are these two parts of
`IInv`. `SecondSucceeds` speaks of calm stretches only, and so does `CalmInv`: flags, slot
and card are, after a block nothing has disturbed, either all as a success leaves them
(`Working`) or all as a failure does that has closed the channel (`Closed`), and from
both the next block gets through.

*Timeouts.* While a function has borrowed the timeout, the value that counts is
the one it will set back. `Restored` names it, choosing by how the three saved values
nest (`oldReadTimeout` in the exchanges `Borrowed`, else `old_read_timeout` in those of
`Secured` and `Transmits`, `old_timeout` in an escape command, otherwise `readTimeout`
itself), and `IInv` says that it is the configured one, unless leaked, and never less
unless `SecurePINVerify` has leaked it.

*Types of session and commands.* `SessionTypes` says in passing that the block at `i`
is inside the data: with `i + 8 < len`, a comparison of bytes with blocks, the next
block fits all the more. `CommandTypes` adds the types to `TimeoutInvariance`.

*Buffers of the serial link.* `TypeOK` of `SerialFrame` holds the bounds of the port's
buffer and of the caller's. To be inductive it needs to know that `get_bytes` is in
`ReadChunk` only for bytes the buffer lacks (so the offset after it is neither
negative nor beyond the fresh bytes), and that the rest of a frame is asked for only
when header and rest fit the caller's buffer. `DataSizes # {}` in the assumption says that
a header fits it. Each action is one lemma.

*Answers of the serial link.* `OwnAnswer` and `StaysInStep` are about the stream of
bytes that have arrived and that `ReadSerial` has not taken (`Rest`: what is left of the
buffer, the chunk being read, the line). `get_bytes` and `ReadChunk` move bytes from
one to the other and leave the stream as it is, so only `ReadSerial` taking a byte and
the reader answering have to be looked at. `StepInv` says, while a call is in step:
the stream consists of whole units (`Units`: events, NAKs, time requests, frames,
stated around each byte rather than by recursion over the stream); the answers in it
are those to the commands not answered yet, in order (`Answers`, `Counts`); the place in `ReadSerial` is the place inside a unit the
stream begins with (`Stands`); and what was returned was right (`Outcome`).

*Reader index.* `LunOnce` is inductive with the type of the table. The proof shows that
each of the many ways a creation ends either leaves the table as it was, because
`FreeChannel` has undone `GetNewReaderIndex`, or adds a Lun that
`GetNewReaderIndex` has not found in it.

*Ports of the reader index.* Two invariants: `Typed` (the pointers of the entries are
in range) always holds, `Orderly` until `shared`. `Orderly` says that a free entry is
closed (`FreeIsClosed`), that each open one has its name and its file and the shared
count counts the entries that have them (`Own`, `Counted`), that entries with one name
are of one reader with different slot numbers, the last of which is the highest
(`OneReaderPerName`, `SlotsDiffer`, `LastIsHighest`), and that no file or name is without
an owner (`Owned`). After a slot was closed before the others of its reader, an entry of
none of them still points to what they share, and nothing more can be said; TLC shows
what happens then (`LastSlotReleases`). The assumption that no port is called `""`
(`NoName`, what `FreeChannel` leaves in the table) is the one `open("")` justifies.

*Reading an ATR.* `AtrRoundTrip` is about all lists of levels that `IsoLevels` allows.
What a card sends is a concatenation (`FlattenSeq`), what the driver does with it is a
loop (`LevelsAfter`); both are recursive functions over the naturals, and their values
are proved by induction. The induction theorems of the library take an operator, so
it is done with sets: a set of naturals that has 0 and with each number the next has
all of them, because the rest of the naturals would have a least (`NatByLeast`). First
the existence of the two functions, then their steps; then `Placed` says where each
byte of each level is in the ATR, and after n turns of its loop the driver has read
the first n levels and stands at the next (`ReadUpTo`); on a beginning of the ATR a
byte it needs is missing at some turn, or the historical bytes and `TCK` after it.
`IsoLevels` asks of a card what ISO 7816-3 does, and each part is needed: at most seven
levels (the driver keeps no more), a TDi on all but the last, protocols in ascending
order (the driver decides on `TCK` by the last TDi, the card sends one if any names
a protocol other than T=0), no IFSC of 0.

*Parameters.* From it follows, for any card, that the mode, the protocol, the checksum
and the block size the driver takes from the ATR are what the card means
(`CardRead`, `AtrIsRead`). What driver, reader and card hold between two exchanges is
`IInv`, for any cards and readers; it has `Spec` as its only hypothesis, so the four
agreements have too. `TypeInv` adds the types: the bounds of F, D, IFSC and timeouts.

*Ports of the tool.* A thread writes to a number, not to a port, so `OwnPort` needs to
know who owns the numbers. `PortInv` says: a number that is open for a session is the
one in its `mFd` (`Numbers`), and threads are those of ports that were opened
(`Threads`); as long as the output stream of a session is open, so is its number
(`Writable`), because `PortUtils.close` closes the stream first; a thread that is inside
`write()` with its stream closed was there when it was closed, so it has the command
that `caught` names (`InWrite`); what `MainActivity` says is open is (`MainHolds`);
`LoRaActivity` may hold a port it has closed, but then it is in front and nobody else
opens one meanwhile (`LoRaHolds`); and what is being closed belongs to the session it is
closed for, or to nobody (`ClosingOwn`). `OwnWire` is `OwnPort` with one thing more: as
long as the stream of a session is open nothing of it is on another's wire. That `open`
finds a number at all is the pigeon-hole principle (`NumberIsFree`). `OneSender` needs
only the types of the tasks.

*Log of the tool.* `LogTrue` is kept by an order: of one session, the commands in the
log come before those in the queue of the bus, these before the one being written or
posted, and that before those that wait (`InOrder`, `Done`, `Ahead`); a command is on a
wire before it is posted, and whose wire that is comes from `PortInv`. For `NoneMissed`
the two queues are looked at together (`BusInv`): the activity in front is registered,
nobody has asked for its stop, and no stop of it is queued (`NoStop`); a stop enters at
the end of the queue of the user interface; so for each entry that is `due`, the bus has
its turn before the stop of the activity it is for (`Served`), and in that turn it
delivers all it has, or breaks off, after which nothing is due.

*Conditions of single theorems.* `TimeoutsBalance` and `CardGetsItsTime` leave out
what failed exchanges of `t1_xcv` and `SecurePINVerify` leak. `SecondBlockSucceeds` is
about presence and transmission (-2 and -3), not about what the card answers (-4, -5),
and about contexts that live. `RatesAlwaysAgree` leaves out cards in specific mode, and
the four agreements readers that keep their parameters ("not changeable" counts as
success). `StepIsKept` and `AnswerIsOwn` hold for callers whose buffer takes every frame
(`FrameAssumption`), as the driver's own do for the commands the application sends; `IFDHControl` passes on
the length its caller chose.

Model-checked only: liveness (`CallReturns`, `ThreadsEnd`, the fairness of
`Implements`), which needs `ENABLED`. Every invariant and every action property of a
run that is to pass is a theorem, under the conditions given above.

## 5. Not modelled

- `IFDHGetCapabilities`, the contents of what `IFDHControl` answers, extended APDUs and
  T=0: the application does not use them, or the reader cannot.
- The CCID message of a PIN command, and its T=1 block numbers.
- Checksum arithmetic: a checksum is right or wrong.
- The echo of the GemPC Twin, and answers longer than the buffer of the port
  (hazard at `ccid_serial.c:425`).
- GPIO (`jni/GpioControl`, `GpioActivity`): each call is one read or write of a file of
  sysfs.
- `SerialPortManager` beyond being never opened; speed and framing of a port; the
  list of ports (`SerialPortFinder`).
- `CommandParser`, `ByteUtil`, the frames of `LoRaActivity`: conversions of text.
- Bytes that are left in the line of a port when it is closed for good; writes that block
  because the other end does not take anything; an activity that is sent to the
  background by the home button and comes back, or is made anew by Android.
- `LogFragment` beyond the list of messages (scrolling, the auto-end check box).
- The bytes that are decrypted; the JNI conversions; logging.

## 6. Plan

Done: all modules of section 2 with their runs and theorems. What is left, in this order:

1. `SerialFrame` with the echo of the GemPC Twin and a caller's buffer larger than that
   of the port.
2. GPIO: descriptors, and what the check boxes show after a failure.
