# A TLA+ verification of the CALICE AHCAL modules for EUDAQ

This directory is a verification project for the programs under `user/`: the
EUDAQ producers, data collectors and run control of the CALICE AHCAL (a hadron
calorimeter) and of the devices that run next to it in a test beam.  It holds
TLA+ modules that model the programs, TLC configurations that check them on
small instances, and TLAPS proofs of what holds for every size.

Every module begins with a comment that names the functions it models, the
variables that are members of the C++ classes, what is external, and which
variables are *history*: they record what truly happened, no guard of the
modelled code reads them, and only properties use them.  `PROJECT.json` maps
every definition to the lines it models.  Definitions whose comment begins with
"Fault:" are mutations: the project replaces the real definition by them to see
that the property which is meant to notice does notice.

## 1. The system

### Data flow

    LDA --TCP--> Labview --TCP--> AHCALProducer + ScReader --+
    BIF --IPbus FIFO----------->  caliceahcalbifProducer ----+--> data collector --> file writer
    hodoscopes, TLU, ALPIDE ----> their own producers -------+        (merge)
    x-y table --TCP-----------> DesyTableProducer -----------+
                          AhcalRunControl: starts and stops all of them

A *readout cycle* (ROC) begins with the start of an acquisition and ends with
its stop; in it, time is divided into *BXIDs*.  Hits have a cycle and a BXID,
triggers a number and a time.  Counters in the data have few bits (8 for the
cycle and 16 for the trigger in LDA packets, 12 for the cycle in BIF packets),
so that every program extends counters and has to survive lost packets.

### Inventory

| component | state | operations | what makes it correct |
|---|---|---|---|
| `ScReader`, byte parser | the buffer, `_unfinishedPacketState`, slow control, LED, HV and temperature data for the next event | `Read`, `OnStart` | every block is found and read once, however TCP cuts the stream; `Read` returns |
| `ScReader`, packets and counters | `_cycleNo`, `_cycleNoTS`, `_trigID`, maps of ASIC data and timestamps, statistics | `OnStart`, `readLDATimestamp`, `readAHCALData`, `updateCntModulo` | every packet is filed under its own cycle, triggers keep their numbers, statistics add up, whatever is lost |
| `ScReader`, event building | the maps, `_lastBuiltEventNr`, `minLastBxid_Detector` | `buildEvents` and its four modes | hits in the right event and in one only, no BXID that may be incomplete, every trigger built, dummies keep the numbering |
| `AHCALProducer` | `_running`, `_stopped`, `_terminated`, `_fd`, queue of events, raw file | `RunLoop`, `DoStartRun`, `DoStopRun`, `sendallevents`, `DoConfigure` | a stop drains and returns, BORE and EORE frame a run, nothing is sent to a stopped collector |
| BIF producer, decoder | `_ReadoutCycle`, `_ROC_started`, `_cycleData`, `_trigger_id` | `ProcessQueuedBifData`, `buildEudaqEvents` in three modes | cycle followed, triggers in the event of their cycle and once only |
| BIF producer, threads | `_TLUStarted`, `_TLUJustStopped`, word queue, raw file | `RunLoop`, `DoStartRun`, `DoStopRun`, `FetchBifDataWasSuccessfull` | packets split over fetches are reassembled, stop drains and returns |
| BIF controller | local word queue, fill level | registers, FIFO, I2C | hardware access |
| `CaliceAhcalBifBxidDataCollector` | a queue and an active flag for each producer | `DoConnect`, `DoDisconnect`, `DoReceive`, `BuildEvent_bxid` | output sorted, coincidences kept, no duplicates, the loop ends |
| collectors that match one number (`TrigidSync`, `Alpide`, `CaliceData`, `AhcalHodoscope`) | a queue for each connection, who has left | same, `DoReset` | what is written together belongs together, no coincidence is lost, nothing waits |
| timestamp collectors (`CaliceTs`, `CaliceTel`, `AhcalBifTluAlpideTable`) | a queue, the last event and its end for each producer, the clock offset | `DoStartRun`, `DoStopRun`, `DoReceive` | sub-events overlap in true time, every overlap is seen, the telescope joins its trigger |
| `AhcalRunControl` | run limits, times, `m_flag_running`, last status of the clients | `StartRun`, `StopRun`, `Configure`, `Exec` with its waits | a run that is ended is followed by the next, and no client takes data while the stage moves |
| DESY table | presets and position of two axes, the TCP dialogue, `m_exit_of_run` | `DoConfigure`, `RunLoop`, `DoStartRun`, `DoStopRun`, `requestValue` | table at rest at the wanted position before a run; the positions it reports are those of the axes |
| converters, `LCFileWriter`, `euCliAppender` | none beyond the event | format conversion | one event at a time |

### How the components interact, and what is hard

* **Threads.** A producer has two: the command receiver (`DoStartRun`,
  `DoStopRun`) and `RunLoop`.  They share plain `bool`s; `DoStopRun` polls until
  `RunLoop` lowers or raises one.  A collector gets `DoConnect` and
  `DoDisconnect` on another thread than the events.
* **Streams.** TCP and the FIFO may be cut anywhere: inside a packet, between
  the packets of a cycle, at a stop.
* **Loss.** Packets of the LDA and the BIF are lost, repeated or late, while
  the counters wrap.
* **Restarts.** Objects live over many runs; what `DoStartRun` does not reset
  is carried into the next run.
* **Peers that vanish.** Labview, the BIF and the data collector may be gone
  when they are needed.
* **Answers and reports that are late.** The table's answer may come after the
  question was given up; the status that the run control looks at may be older
  than the command it has just sent.

`PROJECT.json` lists the hazards at the lines where they bite, with the
properties that watch them.

## 2. The modules

| module | models | checked by | proved in |
|---|---|---|---|
| `ScParser` | `ScReader::Read` | `MCScParser`, `ScParser.cfg` | `ScReader_proofs` |
| `LdaStream` | `ScReader`: counters, filing, statistics | `MCLdaStream`, `LdaStream.cfg` | `ScReader_proofs` |
| `EventBuilder` | `ScReader::buildEvents` | `EventBuilder.cfg`, `EventBuilderBxid.cfg` | `AhcalProducer_proofs` |
| `AhcalProducer` | threads of `AHCALProducer` | `AhcalProducer.cfg` | `AhcalProducer_proofs` |
| `BifDecoder` | `ProcessQueuedBifData`, `buildEudaqEvents` | `MCBifDecoder`, `BifDecoder.cfg` | `BifDecoder_proofs` |
| `BifRunLoop` | threads of the BIF producer | `BifRunLoop.cfg`, `BifStop.cfg` | `BifRunLoop_proofs` |
| `Merge` | abstract: what a collector that matches numbers promises | implemented by the next two | |
| `BxidCollector` | `CaliceAhcalBifBxidDataCollector` | `MCBxidCollector`, `BxidCollector.cfg` | `TimeCollectors_proofs` |
| `SyncCollectors` | `TrigidSync`, `Alpide`, `CaliceData` and `AhcalHodoscope` collectors | `SyncCollectors.cfg` | `SyncCollectors_proofs` |
| `TsMerge` | `CaliceTs`, `CaliceTel` and `AhcalBifTluAlpideTable` collectors | `MCTsMerge`, `TsMerge.cfg` | `TimeCollectors_proofs` |
| `DesyTable` | `DesyTableProducer`, `DesyTableCommunication` | within the next | `AhcalRunControl_proofs` |
| `AhcalRunControl` | the run control, composed with `DesyTable` and a data taking client | `MCAhcalRunControl`, `AhcalRunControl.cfg` | `AhcalRunControl_proofs` |
| `Subsequences` | `Selected`: the elements of a sequence at a set of places | in the modules that use it | `SharedLemmas` |
| `SharedLemmas` | division with remainder, induction over numbers, iteration, extreme elements, `Selected` | | itself |

### ScParser

An input is a stream of bytes and the blocks that it consists of (`Form` says how
the bytes of a block of each kind look; junk is anything); the buffer is the
piece of the stream from `pos` to `arrived`, and each iteration of the loops of `Read` is one action.  `Receive`
delivers any number of further bytes.  An LDA packet is `Took` as a whole: what
`readLDATimestamp` and `readAHCALData` make of it is in `LdaStream` and
`EventBuilder`.  A slow control block that is still incomplete leaves the buffer
as it is, and the next `Read` records it again from its first byte, the magic
included: events carry the block in one piece, and before it the begins of it
that earlier calls of `Read` have found.  `split` is the history of the blocks of
which some `Read` found a part only.

### LdaStream

The LDA (`hw*`) has true counters; a packet shows them modulo `RocMod` and
`TrigMod`.  `StartAcq`, `StopAcq`, `Trigger`, `RepeatTrigger` and `AsicPacket`
hand packets to `ReadStart`, `ReadStop`, `ReadTrigger` and `ReadAsic`, or lose
them; `IdleCycles` lets cycles pass without a packet; `OnStart` begins a run;
`TakeOldest` is the part of event building that removes a cycle from the maps.
`TsGap`, `DataGap`, `DataLag` and `TrigGap` bound what the LDA may lose.
`GapsCovered` is the condition under which the extension can be right at all;
it relates these bounds to the windows of the code (`MaximumROCJump`, the
127 cycles of `readLDATimestamp`, `MaximumTrigidSkip`).

### EventBuilder

Packets arrive cycle by cycle; `EndOfRead` is the end of a `Read`, at which
`buildEvents` runs over what is there (`KeepBuffered` cycles are held back);
`RunEnds` is the final dump.  An iteration of each building loop is an operator
on the record of what the loop changes; the loops are recursive functions over
these.  The three-iterator loop of validated building is `BuildValidatedCycle`,
with the joining of triggers of one BXID in `JoinedUpTo`.  `queued` is every
event that was put into the queue, and `undefined` records that a past-the-end
iterator was used.

### AhcalProducer

`RunLoop` is split where it meets another thread or the outside world: top of
the loop, `read`, `sendallevents`, the final dump with `_stopped = 1`, closing,
and the signal of reprocessing.  `DoStopRun` is `StopBegins` (STOP is sent),
`StopRunning` and `StopReturns`.  Labview closes, resets, or obeys a STOP; the
collector may make `SendEvent` throw at any event.  The EUDAQ library is not in
the repository: that `RunLoop` is started after `DoStartRun`, and not again
before it returned, is assumed from how the producers use it.

### BifDecoder and BifRunLoop

`BifDecoder` gets whole packets and models what is made of them: the cycle
number with its compensation of lost and repeated starts, the trigger sequence,
and the events of the three modes with their entries.  `BifRunLoop` models how
words become packets: a fetch ends anywhere, the first word of an unfinished
packet is put back, words go to the raw file, and the two threads negotiate the
stop.  There, decoding completes some number of events.  Each abstracts what
the other models, and they meet in `ProcessQueuedBifData`.

### Merge, BxidCollector and SyncCollectors

`Merge` says what the five collectors that match events by a number have in
common: an event that is written holds exactly the queued events of the oldest
number (`Write`), events that do not make a wanted coincidence may be thrown
away (`Drop`), and everything may be lost at once (`Clear`), but only when it is
`over`.  `wanted` and `over` belong to the environment.  Which numbers with
which producers are a coincidence depends on the collector and, in
`BxidCollector`, on who is active; it is over when nobody is connected, and in
`SyncCollectors` from a reset on.  Both modules instantiate `Merge` with the set
of queued events as `avail` and check `ImplementsMerge`.

`BxidCollector` has one queue and one active flag per producer.  An iteration of
the loop of `BuildEvent_bxid` is one of `WaitForMore` (return), `ThrowBad`
(`continue`), `MergeHeads` or `MergeNothing`, followed by `Judge`; between the
steps, connections and disconnections happen.  The flags are read at once at the
head of an iteration, not one by one.  What the judgement demands is decided by
the flags at that moment, in the code, in the model and in `wanted`: a flag that
changed since the queues were looked at is no deviation from `Merge`.

`SyncCollectors` holds the four collectors with one lock (`CaliceData`, which
has none, is used with one receiving thread).  They share the queues and
differ in when `DoReceive` goes on (`Proceeds`) and what an iteration does:
`MergeByTrigger`, `MatchPair`, or `DropUntagged`, `PopOld` and
`MatchHodoscopes`.  A connection is new, up or left, and events may still come
from one that has left.  The hodoscope collector drops an AHCAL event without
ROC or BXID and takes BXID 0 for such a one (and the BXID -1 of a trigger that
came before BXID 0): `Bxid0` is the set of the numbers to which this happens,
and no coincidence of them is `Wanted`.

### TsMerge

`DoReceive` up to its loop is one action (`Receive`), each iteration of the loop another.
AHCAL times are multiplied by `Scale` and shifted by `offset`, modulo `TimeMod`,
as in the code; the properties compare the times without any wrap.  Besides
timed events the producers make some that end no later than they begin
(`Untimed`): those of AHCAL for lost triggers and for cycles without start or
stop, which have no times at all, and those of BIF for cycles without a stop,
which end where the cycle before ended.  "Ts" refuses events without a timestamp;
"Tel" queues them, and when such an event is at the front the loop repeats a
round that takes nothing (`Stalls`).  The first event of each producer may lack
its BORE.  The kind
"Tel" stands for `CaliceTelDataCollector` and for the Table collector, whose
code is the same up to a lock and queues that are never filled.

### DesyTable and AhcalRunControl

`DesyTable` has the two controllers (`at`, `preset`), the connection (`wire`,
`inbox`, answers in two pieces), and the producer, whose thread is at `pc` in
the service of `goal`: the approach, the final position, or a cycle of
`RunLoop`.  The tolerance of 0.05 mm is half a bin: two readings agree only if
they are equal.  Stability is counted in readings; a table on its way moves at
least once in so many readings, and one more may have been asked for before it
moved (`MaxLag + 1 < Stability`), or the loops of `DoConfigure` could not work.

`AhcalRunControl` extends it with `Exec`, which polls once per second
(`Poll`) and waits in `Stopped` and `Configured`, with the commands that are on
the way to the clients, and with the last reports that the run control has
`seen`.  The other producers and the collectors are one client, "daq".

## 3. What is checked

Passing runs, with distinct states:

| run | question | bounds | states |
|---|---|---|---|
| `ScParser` | is every block read once, wherever the stream is cut? | 13 blocks of all kinds, all pairs and the triples that matter, every way to cut them | 124 829 |
| `LdaStream` | are cycles, triggers and statistics right over loss, repetition, lateness and two runs? | cycle field of 2 bits, trigger field of 3: both wrap; gaps at the limits | 1 264 115 |
| `EventBuilder` | do all four modes, with and without dummies, put hits and triggers where they belong, in every order of packets and with a `Read` that ends anywhere? | 3 cycles, 2 triggers, 3 ASIC packets, one lost timestamp packet; triggers on the border and inside of BXID -1 (the code files the latter under 0), two times in BXID 1, one in 2 | 2 739 816 |
| `AhcalProducer` | does a stop drain, return and frame the run? | 3 reads, up to 2 events each, 2 runs, TCP and file | 692 966 |
| `BifDecoder` | are cycles followed and triggers in the right event, once? | cycle field of 2 bits, 6 packets, 2 runs, 4 setups | 5 453 559 |
| `BifRunLoop` | are packets reassembled, and does a stop drain and return? | 3 packets, 2 runs, one failed read | 179 509 |
| `BxidCollector` | is the merge sorted, does it implement `Merge`, and does the loop end? | 2 producers, 3 keys, one untagged event, one table event | 290 323 |
| `SyncCollectors` | do the four collectors implement `Merge`, lose no coincidence and leave nothing waiting? | 3 connections, 2 numbers, of hodoscope 3, the second with BXID 0, one untagged event in a queue; connections, departures and resets at any time | 1 117 131 |
| `TsMerge` | do sub-events overlap in true time, and is every overlap seen? | 3 spans for each producer, 3 events, one of them without times, first events with and without BORE, 2 zeros of the clocks, queues of 2, 3 shifts, 2 runs; a repeated round is followed until 3 events are written | 1 682 318 |
| `AhcalRunControl` | does the stage stand while data are taken, are its positions true, and does the next run follow? | 2 configurations, 3 runs, one reading given up, 2 pending commands | 1 531 535 |

The bounds are chosen so that each counter wraps at least once while packets
are missing, a second run meets the leftovers of the first, a queue is empty,
has one and has several elements and is at its limit, and every action is taken.
The narrow counters keep the relations to the limits that the real ones have
(`GapsCovered`, `BifAssumption`); the proofs cover the real widths.  The last
run of `AhcalRunControl` goes on for ever, so that `RestartCompletes` is about
the restarts before it.  Deadlock is not checked where a model stops at its
bounds; it is checked for `BxidCollector`.

### What the properties say

* `EveryBlockRead`, `SlowControlWhole`, `ReadReturns`: the byte parser, for
  streams in which no magic stands where no block begins (the code has a TODO
  about the others) and no HV block without footer is followed by bytes that
  look like its footer; `ReadReturns` for all.  `SlowControlWhole` says of every
  stream what the slow control of an event is: besides the whole blocks, only
  begins of blocks of which some `Read` found a part are in it once more
  (`Follows`), and no byte is in two events; that each block is there in one
  piece is the part for clean streams.
* `RocRecovered`, `TriggersFaithful`, `TimeAccounted`, `TriggersAccounted`:
  counters and statistics of `ScReader` equal the truth.
* `HitsBelong`, `HitsOnce`, `OnlyComplete`: no hit is in the wrong event, in two
  or in none, and no BXID is built that a full ASIC may have missed.
  `EveryTriggerBuilt`, `OutputOrdered`, `UninterruptedByRocOrTrigger`: the same
  for triggers and event numbers.  `EveryTriggerBuilt` is about all triggers of a
  cycle with a start, also those before BXID 0; `Covers` says how the interval of
  the event lies: from BXID 0 on it covers the trigger, before it the interval
  begins up to a BXID too late.
* `CycleFollowed`, `RocUninterrupted`, `TriggersFiled`, `TriggersOnce`: the
  decoder of the BIF.  Those that speak of cycle numbers are about runs that
  begin between two acquisitions with nothing left over (`fresh`); the others
  about every run.
* `PacketsReassembled`, `RawFileFaithful`, `RunFramed`, `StopDrains`,
  `RunStops`: the threads of the BIF producer.  `RawFileFaithful` is stated for
  runs that do not inherit `_word1WrittenPreviously`.
* `RunFramed`, `RawFileComplete`, `StopDrains`, `NotToStoppedCollector`,
  `StopEnds`: those of the AHCAL producer.  `StopEnds` leaves out a run whose
  `socket()` failed (`NoSocket`): `RunLoop` then polls for a connection that
  nobody makes.
* `MergedSorted`, `BuildReturns`, `ImplementsMerge`: the BXID collector.
* `ImplementsMerge`, `CoincidenceWritten`, `NothingWaits`: the collectors of one
  number.  That nothing is cleared while somebody is connected is part of
  `ImplementsMerge`; a reset is exempt, after which the code counts connections
  that it has forgotten.  The other two are about what the code can promise: a
  coincidence is lost when a connection comes late or all is cleared, the
  hodoscope collector loses those with BXID 0, and the trigger number
  collectors, which merge once per event, fall behind when numbers are skipped:
  `NothingWaits` says nothing of that backlog.
* `SubeventsOverlap`, `OverlapSeen`, `TelescopeJoined`: the timestamp collectors
  in a run whose events have times and in which BIF sent BORE (`ProperRun`).  Of
  two overlapping events each is written with one of the other producer, not with
  every one that it overlaps.  `ReceiveReturns` is about every run: `DoReceive`
  returns, or an event that ends no later than it begins is at the front of a
  queue (`Stuck`), and it never does.
* `PositionsTrue`: a late answer is not shown as the position of the other axis,
  in a cycle that found the connection quiet; an answer that comes after the
  receive buffer was trashed is outside the claim.  `StageStands`: nobody takes
  data while the stage moves, outside a run that was ended hastily and readings
  that failed; of a hasty run only the aftermath is covered.  `RestartCompletes`:
  a run that `Exec` ends is followed by the next one, for clients none of which
  goes into an error state.

### Fairness

Liveness is checked under weak fairness of what really goes on by itself: the
thread of `RunLoop` and the polling `DoStopRun` (`BifRunLoop`,
`AhcalProducer`), the thread inside `BuildEvent_bxid` (`BxidCollector`), inside
`DoReceive` (`TsMerge`) and inside `Read` (`ScParser`), the clock for the waiting
time after the last word (`BifRunLoop`), Labview closing its connection once it
was told to stop (`AhcalProducer`: the comment on line 384 of `AHCALProducer.cc`
relies on it), and in `AhcalRunControl` the command thread of each client, the
producer of the table, the table and its connection, the status reports and
`Exec`.  No fairness is assumed of deliveries, failures, connections, data, or
the operator.

Two bounds take the part of a fairness in `RunStops`.  `MaxPackets` means that the
BIF falls silent: the producer vetoes its triggers only after `DoStopRun` has
waited for `RunLoop`, so that a BIF that always has another word keeps the loop
going.  `MaxErrors` means that reads recover: with a connection that is lost for
good while a first word is put back, `RunLoop` never ends.

### Disagreements between the code and what is said of it

Two have a run in which TLC finds the violation.

1. `EventBuilderBxid`: with `MinimumEventHits` above zero, a trigger without
   hits falls through to "we assume the AhcalBxid == triggerBxid below"
   (`ScReader.cc:737`) and gets the hits of a later BXID, or dereferences the
   end of the map.
2. `BifStop`: the comment on line 175 of the BIF producer is "ensure stopping
   when last packet is incomplete", but an empty FIFO counts as a successful
   fetch: after a first word without a second one `RunLoop` never ends.

Others were met while modelling; the models behave as the code does, and the
properties are stated around them.

* "TODO this is wrong again - it will brake when the complete slowcontrol will be
  not contained fully in the buffer" (`ScReader.cc:222`): such a block is recorded
  anew by every `Read`, its magic included, because the bytes are erased ("Slowcontrol
  data saved, therefore can be deleted from buffer", 257) only when its end was
  found.  The event holds the block whole, after one or more copies of its begin.
* A trigger before BXID 0 is divided with rounding towards zero
  (`ScReader.cc:671`): one less than a BXID before is filed under BXID 0, earlier
  ones off the border one BXID too high, and the event's interval begins after
  the trigger.
* `AhcalHodoscopeDataCollector.cc:150` drops an AHCAL event with BXID 0 as
  "untagged event. impossible to synchronize. dropping.", although it is tagged
  and a hodoscope may have an event of it.
* The loops of `CaliceTelDataCollector.cc:193-235` and
  `CaliceTsDataCollector.cc:114-159` never end with an event in front that ends no
  later than it begins, which the producers do make (`ScReader.cc:505-526` and
  `1006-1014` set no times; `caliceahcalbif_Producer.cc:527-565` ends a cycle
  without a stop, or one that is padded, before it begins, `753`).
* A gap in the ASIC data between half and a whole period becomes a negative
  `int8_t` and is adopted (`ScReader.cc:1179`), although `MaximumROCJump` is "how
  many ROC can the data go backward and forward" (`AHCALProducer.hh:109`).
* A validated event with hits does not count `_lastBuiltEventNr`
  (`ScReader.cc:796` is commented out), so that dummies repeat numbers.
* `sendallevents` puts BORE on the first event of the queue and may then drop it
  for its few hits; the run is sent without BORE (`AHCALProducer.cc:338`).
* When nobody is active any more, `BuildEvent_bxid` writes events without
  sub-events for ever (`CaliceAhcalBifBxidDataCollector.cc:247`).
* The BORE check of `CaliceTsDataCollector.cc:103` and the condition of
  `AhcalHodoscopeDataCollector.cc:44` ask the same thing twice.  A BIF that sent
  no BORE is not noticed by the former, and the clocks are related by a start of 0.
* A `socket()` that fails leaves `_fd` at -1; `RunLoop` polls it for ever
  (`AHCALProducer.cc:370`) and `DoStopRun` waits.
* `ScReader.cc:203` erases 4L+1 of the 4L+3 bytes of an LED block; the last two
  are thrown away as junk, unless they look like a magic.
* The table: the raw approach is compared, not assigned
  (`DesyTableProducer.cc:112` and `118`); an approach that is not positive is
  ignored although the comment above has -40; the key of the raw horizontal
  position lacks its `_RAW` (101); the vertical slow length takes the horizontal
  value (97); without approach a preset of an invalid position is sent (153).
* `AhcalRunControl.cc:65` reads `STOP_INCATIVITY_SECONDS`; `StartRun` replaces
  the value.  `WaitForStates` takes a client that has not started the run yet
  for a stopped one (`hasty`).

## 4. What is proved

TLAPS proves these for every value of the constants that satisfies the named
assumptions, which TLC evaluates on every run.  Each is `Spec => []P` for the
invariant `P`, or `Spec => P` for an action property or a refinement.

| theorem | property | module |
|---|---|---|
| `BlocksRead` | `EveryBlockRead` | `ScReader_proofs` |
| `SlowControlKept` | `SlowControlWhole` | |
| `Typed` | `TypeOK` | |
| `RocsRecovered` | `RocRecovered` | |
| `TriggersRecovered` | `TriggersFaithful` | |
| `TimesAddUp` | `TimeAccounted` | |
| `TriggersAddUp` | `TriggersAccounted` | |
| `CyclesFollowed` | `CycleFollowed` | `BifDecoder_proofs` |
| `DecoderTyped` | `TypeOK` | |
| `RocNumbered` | `RocUninterrupted` | |
| `TriggersInTheirCycle` | `TriggersFiled` | |
| `TriggersBuiltOnce` | `TriggersOnce` | |
| `PacketsOnce` | `PacketsReassembled` | `BifRunLoop_proofs` |
| `RawFileOnce` | `RawFileFaithful` | |
| `EventsFramed` | `RunFramed` | |
| `StopFetchesAll` | `StopDrains` | |
| `NothingSentAfterStop` | `NotToStoppedCollector` | `AhcalProducer_proofs` |
| `RawFileKept` | `RawFileComplete` | |
| `StoppedRunDrained` | `StopDrains` | |
| `RunsFramed` | `RunFramed` | |
| `EventsHoldTheirHits` | `HitsBelong` of `EventBuilder` | |
| `EventsAreComplete` | `OnlyComplete` | |
| `EveryHitOnce` | `HitsOnce` | |
| `NumbersUninterrupted` | `UninterruptedByRocOrTrigger` | |
| `OutputInOrder` | `OutputOrdered` | |
| `NoTriggerForgotten` | `EveryTriggerBuilt` | |
| `MapsAlways` | type of the event builder, order of triggers | |
| `CollectorsImplementMerge` | `ImplementsMerge` | `SyncCollectors_proofs` |
| `NoCoincidenceMissed` | `CoincidenceWritten` | |
| `NoneWaits` | `NothingWaits` | |
| `BxidImplementsMerge` | `ImplementsMerge` | `TimeCollectors_proofs` |
| `OutputSorted` | `MergedSorted` | |
| `MergedTogetherOverlap` | `SubeventsOverlap` | |
| `NoOverlapMissed` | `OverlapSeen` | |
| `TelescopeEventJoined` | `TelescopeJoined` | |
| `TruePositionsSent` | `PositionsTrue` | `AhcalRunControl_proofs` |
| `StandsDuringRun` | `StageStands` | |

None of the invariants is inductive.  What is added, and why:

* `ScReader_proofs`, of `ScParser` from `InputsAssumption`, which is the format
  that Labview sends.  `EveryBlockRead` counts what was read against what has
  arrived, but a step of `Read` only sees the place where the buffer begins:
  `ReadInv` ties what was read to the erased part of the stream, `LeftInv` says
  that `Read` returns only when the block at the begin of the buffer is not
  whole, and `SlowInv` that a slow control block is erased as a whole and has
  been recorded in one piece then.  No step passes the begin of a block other
  than the one it takes (`InsideBlock`), and the scan of the slow control stops
  at the first of them (`ReadSlowcontrolInv`).  That nothing else is recorded
  needs no clean stream: `PieceInv` says that of a block that was recorded in part
  some `Read` found a part, that the places recorded lie before the begin of the
  buffer or are the ones that are recorded again (`WholeInv`, `PartInv`), and
  that neighbours are joined by one of the three rules of `Follows` (`Joined`).
* `ScReader_proofs`, of `LdaStream` from `CounterAssumption` and `GapsCovered`.  A window of
  `updateCntModulo` contains the true counter only because the LDA is at most so
  far ahead of the last delivered packet, the order of triggers in a cycle needs
  that all recorded ones precede the last, and the sum of times needs to know
  which timestamp `last_TS` is.  `IInv` is the conjunction of these facts
  (`LdaInv`, `MapInv`, `CounterInv`, `TimeInv`, `ScalarTypes`).  The lemmas
  `UpdateExact` and `SignedExact` say when extending a counter and narrowing a
  difference are exact; `TsCycleExact`, `DataCycleExact`, `FirstTrigExact` and
  `NextTrigExact` carry them to the handlers.
* `BifDecoder_proofs`, from `BifAssumption`.  `CycleInv` adds how far the BIF may
  be ahead of the last delivered start (`GapInv`), and that a start repeats only
  while `_ROC_started` is set (`OpenInv`); without the latter a repeated start
  would count as a whole period of missing cycles.  `NewDistance` and
  `RepeatedDistance` are the two cases.  For the events, `WellBuilt` says what
  each of the three build functions returns from the packets of a cycle, and
  `Padded` what is put in for cycles without a start.  `RocInv` then
  relates the last event to the cycle counter (`LastBuilt`: one less while a
  cycle is open), and `FiledInv` says of the packets that wait which start they
  follow (`Waiting`, `NoneKnown`): a trigger is filed right because the start
  before it in the queue is the one of its cycle, or it has none.  `OnceInv` says
  where an accepted trigger is (`Placed`): waiting with all its copies and in no
  event, or in as many events as it should.  `BuildCounts` counts the events of
  each build function that hold it; in the BXID mode it is one, because the copies
  of a trigger follow each other (`Grouped`) and a series of triggers with the same
  BXID ends only where the BXID changes.  `PaddingHolds` says that of the lost
  cycles only the first gets what waited.
* `BifRunLoop_proofs`.  `Handshake` says where `DoStopRun` is for each setting of
  the two flags; `DrainInv` that no word is between FIFO and queue; the others
  that the queue is what was fetched after the packets already decoded, with at
  most one first word put back, which `_word1WrittenPreviously` remembers.
* `AhcalProducer_proofs`.  `StopInv`: no run is under way only if `_stopped` is
  set, and `RunLoop` is about to send only if it is not.  `RawInv`: unless the
  collector failed, `_stopped` means that the loop is over, so that `DoStopRun`
  cannot close the raw file before.  `FrameInv`: the events in the queue and
  those sent divide what `ScReader` built.
* `AhcalProducer_proofs`, second part: `EventBuilder`, from `BuilderAssumption`.
  For each of the four loops a lemma says what one iteration returns
  (`BuildROCCycleIs`, `BuildBXIDCycleIs`, `BuildTRIGIDCycleIs`,
  `BuildValidatedCycleIs`); `BuildEventsKeep` says that `buildEvents` keeps
  whatever every iteration keeps, for any number of cycles in the maps.  `MapsInv`
  types the maps and orders the triggers across cycles.  The rest is one
  argument: a cycle is built only when more than `KeepBuffered` are there, which
  is then more than `DataLag` cycles ago, or at the end (`FirstFrozen`); no packet
  of it can come any more.  So the bound of its complete BXIDs no longer sinks
  (`EventsInv`), none of its hits arrives late (`HitsInv`), and what is still to be
  built has a higher number (`NumbersInv`), a later cycle and later triggers
  (`OrderInv`).  Within a cycle the validated loop is in order because what
  `triggerBxids` returns is sorted by BXID *and* by trigger (`InBxidOrder`:
  triggers happen one after the other, and `Quotient` never falls), and because
  the triggers joined to an event are those up to `joined`, at which the loop
  looks no more.  For `EveryTriggerBuilt` the loop keeps that all triggers up to
  the current one, and those that were joined, are accounted for
  (`AccountedTo`): the only branch without an event is reached with hits of the
  trigger's own BXID, because no later BXID can be looked at when
  `MinimumEventHits` is 0.  `BuiltInv` carries this over the cycles that left the
  map of timestamps, whose BXID bound is settled.  Three theorems have a hypothesis:
  `EventsHoldTheirHits` and `NoTriggerForgotten` that `MinimumEventHits` is 0,
  since otherwise a later BXID is taken for that of the trigger, as the run
  `EventBuilderBxid` shows; `NumbersUninterrupted`
  that the first trigger has no number below `GenerateTriggerIDFrom`
  (`GenerateFrom <= TrigidOffset`), since the code builds earlier triggers too and
  counts on.
* `SyncCollectors_proofs` and `TimeCollectors_proofs`, from `SyncAssumption` and
  `CollectorAssumption`.  `Merge` asks that *all* queued events of the oldest
  number are written; the code looks only at the heads.  The invariant is that
  the numbers in a queue increase (`Rising`), so that the head is the oldest and
  popping it leaves no second event of its number.  In `BxidCollector` the
  events are out of the queues before they are judged, while producers come and
  go; there the invariant also says that everything queued comes after the
  merged key.  That `SyncCollectors` clears only when nobody is connected needs
  that every connection that is up has a queue, and every one that has gone is
  known to have left, as long as there was no reset.  `NoCoincidenceMissed` needs that a number that was sent is queued
  or was popped with everything that had it.
* `TimeCollectors_proofs`, second part, from `TsAssumption`, of which `TimesFit`
  says that no AHCAL time, brought to BIF counts, reaches 2^64 (thousands of
  years), so that the conversion is exact once the offset is known.  All is about
  proper runs: the invariant is `ProperRun => TimesInv`, and a run that is proper
  after a step was proper before it.  `TimesInv` says where the last event of each producer lies:
  it ends before those still queued, and begins before the end of whatever of the
  other producer is queued or still to be made.  Therefore an event that is used
  again overlaps what it is written with.  `SeenInv` says of every event taken
  that it has a partner, or ends before everything of the other producer that is
  queued or to be made.  `TelInv`: unless a queue was cleared, the telescope
  events after the `d`-th are queued, and the `d`-th is the last one taken, for a
  trigger that is not after the last AHCAL event.
* `AhcalRunControl_proofs`, from `ConfigAssumption` and `TableAssumption`.
  Three parts: what is on the connection is at most the answer to
  the last question while every answer is waited for (`CycleInv`); readings of
  `DoConfigure` lie behind the table on its way, and they agree for no longer
  than it rested (`WaitInv`), so that a table under way is caught moving; and a
  configuration is on its way to the stage only while `Exec` waits for it.
* `SharedLemmas` holds what several of them cite.  The prover cannot use an
  induction theorem that takes an operator, so `NatSetInduction` takes the *set*
  of the numbers for which the claim holds; with it, the lemmas on `Selected`
  are about sequences of any length.

Proving changed the models in five places.  `MaxLag < Stability` was one reading
too weak for `StageStands`; `Trash` throws away an answer, and from then on a
cycle is no longer one that waited for every answer; `StageStands` no longer
claims anything of a configuration in which no axis has a position; and
`RunFramed` of `AhcalProducer` now says which events are sent, where it only
restricted their marks; `Clean` of `ScParser` did not exclude an HV block without
footer that looks like a whole one, and its streams now come with their blocks,
instead of being put together of them.  `SelectSeq` became `Selected`, the padding of the BIF
events an operator of its own, and the folds of `EventBuilder` and `TsMerge`
recursive functions over operators that do one iteration.

### Only model-checked

* Liveness (`RunStops`, `StopEnds`, `BuildReturns`, `ReceiveReturns`,
  `ReadReturns`, `RestartCompletes`), which needs fairness and `ENABLED`.

## 5. What is not modelled

* `ScReader`: the channel data of a hit, `IgnoreLdaTimestamps`, the printed
  statistics.
* `AHCALProducer`: `DoConfigure` with the LED dialogue.
* BIF producer: input from a file, packet types 4 to 7 (only warned about), fine
  time stamps, printed statistics, configuration over I2C, and a `RunLoop`
  without connection.
* Table: the slow preset P5, `DoReset`, `DoTerminate`, and the reset of P1.
* Run control: run numbers, more than one monitored collector.
* Converters, the file writer and `euCliAppender`, which treat one event at a
  time and keep no state between events, and printing and logging everywhere.
* Data races proper (an unlocked `deque` cleared while another thread is in it,
  as between `DoStopRun` and `DoReceive` of `CaliceTelDataCollector`): the models
  take steps of the threads in turn.
* The EUDAQ library, the LDA, the BIF, Labview, the moving stage and the operator
  are external; they are modelled by how the code uses them.

## 6. Plan

Done: all modules of the table in section 2; proofs of every safety property
that a passing run checks, with the two refinements of `Merge`.  What is left to
TLC is liveness.
