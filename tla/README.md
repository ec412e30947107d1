# wsprrs in TLA+

`wsprrs` receives the multicast audio of a ka9q-radio SDR server, cuts it into
two-minute windows aligned to the WSPR cycle, runs `wsprd` on each and reports the
decoded spots.  This directory holds TLA+ modules of its parts, the TLC runs
that check them on small instances, and TLAPS proofs of what matters most for
every value of the constants.

Paths below are relative to the repository's `src/` directory; `PROJECT.json`
maps every definition to its lines.

Run a check with `tlc -config MCCapture.cfg MCCapture`, a proof with
`tlapm Capture_proofs.tla`.

## 1. The system

| Component | State it keeps | Operations | Talks to |
|---|---|---|---|
| configuration (`config.rs`) | `Config`, read once | `from_env` | everybody reads it |
| multicast receive loop (`multicast.rs`) | socket, drop counter | `receive_loop`: one datagram, `try_send` | packet channel (1024) to `buffer_task` |
| status receive loop (`status.rs`) | shared `channel_map`: SSRC to `ChannelInfo` | `process_status_packet` under the write lock | `channel_map`, read by `buffer_task` |
| RTP parser (`rtp.rs`) | none | `parse_rtp_packet` | called by `buffer_task` |
| `AudioWindow` (`buffer.rs`) | samples, high-water mark, last sequence number, gap count, RTP anchor | `new`, `ingest` | owned by `buffer_task`, then by one decode |
| `buffer_task` (`main.rs`) | open windows by SSRC, interval timer | tick: seal what expired; packet: parse, look up, open, ingest, seal on overflow | window channel (8) to `decode_task` |
| `decode_task` (`main.rs`) | output file, spot channel | window: spawn `decode_window`; spots: log, append to the file, insert into ClickHouse | `wsprd`, file, ClickHouse |
| `decode_window`, WAV, `wsprd`, wisdom (`main.rs`, `decode.rs`) | one private temp directory per decode; one shared wisdom file | write WAV, copy wisdom in, run `wsprd`, parse, copy wisdom out | other decodes, through the wisdom file |
| spots (`spot.rs`, `decode.rs`) | none | `parse_all_wspr_line`, row conversion | `decode_task` |
| shutdown (`main.rs`) | one `Notify`, the channels' ends | Ctrl-C handler, `join!` | every task |

What is hard in it:

* **Four tasks and any number of decodes** interleave at their `await`s.
  `buffer_task` waits in `win_tx.send` while `decode_task` writes to a slow
  database, and for as long it serves neither its timer nor its packets.
* **UDP** loses, duplicates and reorders packets; RTP timestamps and sequence
  numbers wrap; the source's clock origin is arbitrary.
* **Time**: the clock is read anew at several places of one packet's way, a
  timer seals windows, and a packet may wait before it is placed by wall clock.
* **Shutdown** is a `Notify` without memory plus channels that close in cascade.
* **Files** are shared by concurrent decodes and survive a crash in any state.

What makes each component correct:

* `AudioWindow`: the buffer holds every delivered packet at its true distance
  from the first one, silence elsewhere, whatever the network and the RTP clock
  do; `gap_count = 0` means there is no hole; the anchor is right up to
  the transit time.
* `buffer_task`: audio goes only into the window of its own cycle; windows are
  sealed on time and, eventually, always; no window is dropped before its decode.
* channels and receive loops: bounded, never blocking the socket.
* status map: readiness means that all that ingestion uses is known.
* shutdown: Ctrl-C ends the program, and nothing else does.
* wisdom: the installed file is complete.
* parsers: exactly what came through whole is used; a damaged word shifts no column.
* outputs: every spot once, in whole lines and whole batches, as far as file and
  database allow.

`PROJECT.json` lists the hazards of the code, each at its line, with the
properties that watch it.

## 2. The modules

```
pure operators        state machines          abstract      for TLC         proofs
AudioWindow  ------>  WindowIngest                          MCWindowIngest  AudioWindow_proofs,
     \                                                                      WindowIngest_proofs
     \------------->  Capture  --implements-> Delivery      MCCapture       Capture_proofs
                      Shutdown                              MCShutdown      Shutdown_proofs
                      Wisdom                                MCWisdom        Wisdom_proofs
                      DecodeTask                            MCDecodeTask    DecodeTask_proofs
StatusTlv, RtpParse,
WsprLine, WavFile --> Formats                               MCFormats       Formats_proofs
```

`RecursionTheorems` holds lemmas about recursive functions that the last two proof
modules share.

The way of a sample through them: `RtpParse` reads its packet, `Capture` puts it into a
window by `AudioWindow!Ingest` and hands the window over, `WavFile` writes it for
`wsprd`, `WsprLine` reads what that says, `DecodeTask` reports it.  `Wisdom` is what
concurrent decodes share, `Shutdown` how all tasks start and end.

**AudioWindow** is `buffer.rs` as operators without state: `NewWindow`,
`Ingest` in its steps (`TrackSeq`, `Anchor`, `Delta`, `Write`), and
`EvenMinuteBoundary`.  A sample is an integer that names its moment at
the source, so a buffer shows where each sample came from; `Silence` is the
pre-filled zero, told apart from received samples.  `RtpWrap` and `SeqWrap` stand
for 2^32 and 2^16, `Second` and `CycleSeconds` set the clock's grain and the
two-minute cycle.  The code's two ways through `ingest` are one here: the anchor is
its own displacement 0.  Its test `abs < 0` (line 199) can never hold after
`delta < 0` and has no counterpart.  Elapsed seconds are exact here and `f64` in
the code.

**WindowIngest** is one stream and one window: `Deliver(k)` hands packet `k` to
the packet arm of `buffer_task` (open a window unless the cycle's capture part is
over, ingest, seal on overflow), any number of times, in any order, up to
`MaxLatency` after it was sent; `Tick` moves the clock.  The RTP epoch and the
first sequence number are arbitrary.

**Capture** is the running pipeline:

| Action | Code |
|---|---|
| `Receive(s)` | `multicast::receive_loop`: a packet newer than all before it, and `try_send` |
| `ReceiveLate(s)` | the same for a packet that comes again or after a newer one |
| `ReceiveMalformed` | the same for a datagram that will not parse |
| `StatusPacket(s)` | `status::receive_loop` and `process_status_packet` |
| `IntervalTick` | the interval branch up to the list of expired windows |
| `Seal(s)` | `windows.remove`, `win_tx.send(..).await`, for the tick and for overflow |
| `Dequeue` | `pkt_rx.recv`, parse, SSRC filter |
| `Route` | channel map under the read lock, late start, opening a window |
| `IngestPacket` | `AudioWindow::ingest` and its result |
| `TakeWindow` | `win_rx.recv` in `decode_task` |
| `Advance` | time |

`pc` says where `buffer_task` is between its await points, and `pkt`, `info`,
`expired` are the local variables it carries across them.  A window that a send
holds while the channel is full is still counted as open: nobody can see the
difference, and it makes removal and send one step.  The network loses packets, delays
each by its own time up to `MaxLatency`, and lets up to `MaxLate` packets of a stream come
twice or overtaken; `late` remembers which, and no guard of the code's actions reads it.
`select!` is `biased`: a due tick goes before a packet.  Missed
ticks fire at once and keep their spacing, tokio's default (`Burst`).  The wall
clock and the timer's clock are one clock that never goes back.

**Delivery** says what `Capture` promises, without packets, timers, channel map or
late start: a stream's audio is collected during a cycle in a window of that
cycle, and each window is handed over once, as it was collected, behind the
earlier ones.  The refinement mapping (`D` in `Capture`) takes the cycle from the clock,
the open windows and the queue from `windows` and `win_chan`, each
window reduced to its cycle's start and its samples.  `Route` implements `Open` for a
new window, `IngestPacket` `Collect`, `Seal` `HandOver`, `Advance` over a boundary
`NextCycle`; everything else stutters.  `DeliversAll` adds the fairness of
`Delivery`: each window is taken in the end.

**Shutdown** is start-up, Ctrl-C and the end.  `pc[t]` says whether a task is
parked in its `select!`; only then does `notify_waiters` reach it.  Audio is
reduced to counts of packets, open windows, sealed windows and decodes.  A poll of
a `select!` is one step.  A packet channel that is closed and one that is full are
the same to `Forward` (`try_send(..).is_err()`).

**Wisdom** is the wisdom file: names and inodes, a copy that truncates and then
transfers pieces, a rename that moves whatever the name stands for, I/O errors and
crashes.  `Crash` is also the ordinary end of the program: `main` does not wait
for spawned decodes.  `wsprd`, the file system and `tokio::fs::copy` are external;
`wsprd` is taken to leave complete wisdom or to leave the file alone.

**DecodeTask** is `decode_task` and what hangs on it.

| Action | Code |
|---|---|
| `SealWindow`, `CloseWindows`, `CtrlC` | `buffer_task`'s end of the window channel; `notify_waiters` |
| `OpenFile` | `OpenOptions::append`, or an error and no file |
| `Take`, `TakeResult`, `Stop`, `WindowsClosed` | the branches of the `select!`, in its `biased` order |
| `DecodeOk(w)`, `DecodeFails(w)` | the spawned `decode_window`, sending `Ok` or `Err` into the unbounded channel |
| `WriteSpot` | `write_spot`: JSON, newline, flush |
| `BeginInsert`, `InsertRow`, `EndInsert` | `insert_spots_ch`, with its three exits by error |
| `Finish` | the last flush and the end of the channels |
| `Crash`, `Restart` | the process dies at any point, and is started again on the same file |

`pc` is where `decode_task` is, `result`, `todo` and `insert` what it has in hand.  A
line is three pieces, two of JSON and the newline.  tokio's `File` and `BufWriter` are
external: a write goes to the file in the background, its error comes back at the
flush, a part of it may be in the file, and the buffers keep nothing of it for
later.  The clickhouse crate is external: rows that were written take effect when
`end()` commits them, all or none; an error of `end()` may come after the
commit; an inserter that is dropped aborts.  A fault is a failed decode, open, write or
insert, or a crash; `MaxFaults` bounds them.  Serialising a spot does not fail.

**StatusTlv**, **RtpParse**, **WsprLine** and **WavFile** are the pure functions at the
program's edges.  Datagrams are sequences of bytes; 32-bit and 64-bit values are the
tuples of their bytes, so that `as u8` and a shift out of a `u64` do what they do in
the code; the sizes of the WAV file are computed modulo `U32Wrap`, as a release build does.
`RunWsprd` is what becomes of `wsprd`'s exit and of the file it left, which is read as one
UTF-8 string.  `f64::from_bits` is the identity on the bit pattern.  A word of `ALL_WSPR.TXT` is
its text, the set of Rust types that parse it and the classes of its characters,
which is all that the code asks of it.  Frequencies keep their text, in MHz.
**Formats** builds their inputs from the other side: the packets that radiod
sends, from fields in every length form; RTP packets with padding and extensions whose
length fills both bytes; the lines of the three message types, any
word of them lost or replaced, and files of them; windows of samples.

## 3. The runs

| Run | Bounds | Shows |
|---|---|---|
| `window_ingest` | packets of 2 samples for seven seconds, a window of 8 samples, latency up to 2 s, RTP range of 26 and sequence range of 8 from every origin | `FaithfulPlacement` (the buffer equals a reference computed from the set of delivered packets), `NoGapNoHole`, `HighWaterMark`, `AnchorSkewBounded`, `FullIsGenuine` |
| `capture` | one stream, half-second clock, two cycles of 4 s, 2 s captured, channels of 1 and 2, one packet that comes twice or overtaken | `SameCycle`, `PromptSeal` however long `decode_task` leaves `buffer_task` blocked, `AudioOnce`: a later window holds later audio and no sample of an earlier one, also in one cycle, but for packets that came late; under fairness `DeliversAll`, the refinement of `Delivery` with its liveness |
| `capture_two_streams` | two streams, channels of 1, one-second clock, six seconds of cycles of 4 s | `SameCycle`, `NoWindowDiscarded` and `ImplementsDelivery` with two streams competing for one channel |
| `shutdown` | two Ctrl-Cs, three windows, channels of 2 and 1 | `NoTaskStopsUnasked`, `CascadeExit`, `HeardBySocketsStops` |
| `wisdom` | three decodes, files of two pieces, two faults | `CompleteUnlessRaced`, `StagedIsComplete`, `SettlesComplete` |
| `decode_task` | two windows of up to two spots, window channel of 1, any two faults, with and without each output | `TableIsBatches`: ClickHouse holds whole windows, each at most once, whatever fails; `OutputsAgree`: without a fault both outputs hold every spot taken, in order, also after Ctrl-C; `DamageContained`: a torn line costs at most one other spot; `EveryDecodeReported` |
| `formats` | three TLV fields of fifteen, cut at every byte; two CSRC entries, no, 2 or 258 extension words, two octets of padding; two lines, each with any one word damaged; files of two lines, each whole, unparseable or not UTF-8; four samples, of which a u32 (`U32Wrap` = 42) counts two | `StatusExact` and `RtpExact` (the parsers against what the sender put in), `PeekAgrees`, `NoShiftedColumn` (every column but grid and message), `SpotsOrError` (no spot of a file is lost without an error), `WavReadable` |

The bounds let every interesting case happen.  The RTP range is the smallest that is
wider than twice a window plus the audio in flight (`RangeIsWide`), as 2^32
is by far; a sequence range of 8 exceeds the packets of a window and those in flight
(`SeqIsWide`).  A clock of
two cycles covers a window, the boundary behind it and the next window; the bound
`MaxNow` ends between the last seal and the next cycle, so that the end of
time cuts no window short.  One late packet (`MaxLate` = 1) is enough to open a
second window with samples of the first, and the window channel of 2 lets `AudioOnce`
compare the two.  258 words need both bytes of
the length, and 2 the same low one.  Channels of one or two entries fill up in a few steps.
Two decodes suffice for the race on the wisdom file; three let a third one find
what two left.  Two faults let one hit the other's repair: a crash after a torn line,
a failed insert after a failed write.  Three fields are a tag that comes twice and
one between; sixteen kinds of fields hold every length form, valid and not, and
values shorter, as long and longer than their type.  The runs switch TLC's
deadlock check off where the system does stop: the clock reaches its bound, Ctrl-C
ends the program, the faults or the input are used up.

The other runs check what the repository says of itself, and TLC finds it violated:

| Run | What is said | What happens |
|---|---|---|
| `ctrl_c` | `main.rs:276`: all four tasks "exit on shutdown" | A task that is handling a datagram, or has not reached its `select!`, misses `notify_waiters` for good; the program goes on, and later Ctrl-Cs may find the tasks that heard gone and the other one busy again. |
| `wisdom_race` | `decode.rs:130-133`, README: concurrent copies are safe, the rename is atomic | All decodes stage the same `.dat.tmp`; a second `copy` truncates the inode that the first is about to install. If the program ends before the second copy does, the partial file stays. |
| `early_packet` | `buffer.rs:194`: a packet from before the anchor is discarded | If the RTP clock wraps between the two, the packet seems almost 2^32 ahead and seals the window. |
| `anchor_at_arrival` | `buffer.rs:55-57`: the offset is that of the moment the first packet arrived | It is that of the moment it is ingested; after a blocked send the window is shifted. |
| `torn_line` | `main.rs:769`: each spot is a single JSON line of the file | A line that a failed write or a crash left in part swallows the next one, whose write succeeded, in this run of the program or the next. |

`anchor_at_arrival` uses `EagerSpec`, in which time passes only while `buffer_task` has
nothing to do, so that its counterexample needs no slow machine.

More divergences were seen and are not runs:

* After an overflow has sealed a stream's window the next packet of the cycle opens a second
  one, and both are decoded for the same `window_start`, where `main.rs:614-615` says "at
  most one entry per SSRC per 2-minute window".  The second can hold samples of the
  first, when a packet of the first comes again after it was sealed; `AudioOnce` says
  that nothing else is in both.
* `capture_seconds` has no upper bound (`config.rs:164`; `config.rs:61` asks only for "Must be
  >= 111").  From about a cycle on, a window is still open when the next cycle begins and takes
  its audio, where `buffer.rs:3-4` says that it is for "exactly one such window".
  `CaptureFits` is the bound under which `SameCycle` holds.
* `decode.rs:250-251` says that unparseable lines "are logged and skipped"; a line that is not
  UTF-8 is not skipped: `read_to_string` fails for the whole file, and the decode ends in
  an error (`SpotsOrError` says that it does not end in silence).
* A first packet that does not fit behind its wall-clock offset seals an empty window,
  where `main.rs:482-483` says that the buffer is full.
* `buffer.rs:225` calls the high-water mark "not necessarily monotone"; it is a maximum, and
  `HighWaterMark` says that it is exact.
* Padding octets of an RTP packet are handed on with the payload and become samples:
  `rtp.rs:123` takes everything that remains as payload, and RFC 3550 says that padding is
  no part of it.  `RtpExact` describes the code.
* From 2^31 - 18 samples on the sizes of the WAV file do not fit their `u32`: a release build
  wraps them and writes a file that cannot be read back (`WavReadable`), a debug build
  panics.  Capture time and reported rate have no bound that would exclude it.
* A reordered or duplicated packet counts as a gap (`buffer.rs:134` says a difference
  means dropped packets).
* Audio that comes before the first report of an encoding is read as little-endian
  (`main.rs:467` says the reported encoding is used).
* A line of `ALL_WSPR.TXT` that lost its callsign is read as a type-2 message whose
  callsign is the grid: the exception in `NoShiftedColumn`.

**Fairness.**  `Capture`: time passes, `buffer_task` and `decode_task` are polled
when they can run; nothing about the network.  That is tokio's guarantee for
tasks whose wakers fire.  `decode_task` takes windows as long as its file and
database answer.  `Shutdown`: each task that can run does, strong fairness for
`buffer_task`'s packet and end-of-channel branches, which ticks a second apart do
not starve; none for datagrams, finished decodes or Ctrl-C.  `ctrl_c`
is checked under the same fairness.  `DecodeTask`: `decode_task` and the decodes are
polled when they can run, and the file, ClickHouse and `wsprd` answer or fail, which
is an assumption about them: the code sets no timeout on any of the three.  None
for incoming windows, Ctrl-C, crashes or restarts.

## 4. The proofs

`AudioWindow_proofs` holds what `ingest` does to one window, for every wrap, rate,
capacity and packet:

* `IngestType`: a well-formed window stays well-formed: no write outside the
  buffer, high-water mark within capacity.
* `ForwardDeltaExact`: a packet less than half the RTP range after the anchor
  is displaced by exactly its distance, across a wrap too.
* `BackwardDelta`: one from before the anchor gets a negative displacement,
  except across a wrap, where it gets one of more than half the range: the
  defect of `early_packet`, for every range.

`Capture_proofs` holds theorems about `Capture!Spec` for any number of streams,
any channel capacities, rates, status reports and bounds:

* `TypeCorrect`: `TypeOK`, which says more than types: each open window is well-formed,
  a packet in hand in `ingest` has an open window, `buffer_task` is sealing exactly
  when windows are waiting to be sealed.
* `PromptSealCorrect` and `SameCycleCorrect` both follow from the inductive
  invariant `TypeOK /\ Promptness`.  Neither property is inductive: that a
  window is not too old when packets are served follows from when the last tick
  was served, which found the window unexpired.  `Promptness` keeps
  that fact: every open window that is not being sealed began less than
  capture time plus one period before the *next* tick; that tick is at most one
  period ahead; a packet in hand is handled within `MaxLateness` of it.  A blocked
  send stops `buffer_task` with the tick overdue, and the tick then goes first
  (`biased`).  `SameCycleCorrect` assumes `CaptureFits`: capture time, a
  tick period and the handling of a packet fit in the cycle, true of the
  default 116 s; without it the property fails.
* `NoWindowDiscardedCorrect`: the action property, from `TypeOK`.
* `AudioOnceCorrect`: of two windows of a stream, open or waiting, of one cycle or of two,
  the later one holds later audio and no sample of the earlier one, but for packets that came
  again or after a newer one.  The invariant is `TypeOK /\ Once`.  Its idea is `Future(s)`, the
  samples still to come in order to stream `s`: those the source has not sent, those in the packet
  channel, those in `buffer_task`'s hand, late ones excepted.  But for late ones the packets in
  flight are in order (`Flight`), so every step only shrinks `Future`, and the windows hold
  earlier samples than all of it (`Written`); the window that an overflow is followed by
  can therefore only start behind the sealed one.  The theorem assumes
  `EncodingReported`: each status report names the encoding that the samples are sent in.  A
  report without it lets audio be read in the wrong byte order, which makes one
  sample look like another; that hazard is the code's (`status.rs:81`).

* `ImplementsDeliveryCorrect`: `Capture` implements `Delivery`, again under `CaptureFits`.
  There is one lemma for each action that `Delivery` sees: `MapAdvance` (a boundary is the
  next moment's or lies exactly a cycle before it), `MapRoute`, `MapIngest`, `MapSeal` and
  `MapTake`; the others leave the mapped variables alone.  `TypeOK` and `SameCycle` are all
  that the steps need; without `SameCycle` a packet could be collected outside its
  cycle, which `Delivery` has no step for.
* `PromiseKeepsOrder` and `InOrderCorrect` show what that promise is worth: in every system
  that implements `Delivery`, and so in the pipeline, the windows of a stream wait, and are
  taken, in the order of their cycles.  It is inductive together with `Past`: no
  window is of a cycle to come.

`WindowIngest_proofs` proves every invariant of `WindowIngest`: `FaithfulPlacementCorrect`,
`NoGapNoHoleCorrect`, `HighWaterMarkCorrect`, `AnchorSkewBoundedCorrect`,
`FullIsGenuineCorrect`, for every rate, capacity, packet size, transit time, RTP epoch and
first sequence number, and every loss, repetition and order of packets.  None is
inductive: what `Ingest` does next follows from the window's `rtp_base`, `last_seq` and
`samples_written`, which say nothing about packets.  The invariant `IInv` ties them to what
was delivered:

* `Opened`: the base is the stamp of the packet that anchored the window, the last
  sequence number that of the packet delivered last, and nothing is delivered
  before it was sent;
* `Placed`: the buffer is the one that the set of delivered packets determines, however they
  came; `Marked`: the high-water mark is the end of the last one that fitted;
* `Gapless`: while no gap is counted, the packets arrived in order from the anchor
  on and none is missing but behind the end.

One lemma says what `Deliver` hands over (`HandedOver`), one for each part of the
invariant that it is kept.  Under them lies arithmetic of counters that wrap: a packet
at or behind the anchor is displaced by its distance, one from before it is discarded or,
across a wrap, seals the window; equal sequence numbers mean equal packets.
That is where `RangeIsWide` and `SeqIsWide` are needed.  The code fixes the ranges at 2^32 and
2^16: at 12 kHz the first is four days of audio against a window of two minutes, the
second some minutes of packets against the window and the transit time.
`RangeIsWide` also bounds the run, because the timer that ends a window is in `Capture`.

`Shutdown_proofs`: `NoTaskStopsUnaskedCorrect`.  `Cause` says of each task that has
stopped why it has: the tasks at the sockets have heard a Ctrl-C, `buffer_task` has or
`recv` has stopped, `decode_task` has or `buffer_task` has stopped.  `TypeCorrect` needs
`Busy` (a send is under way exactly while a window is left to send) and `Unborn` (no task runs
before `main` spawned it), and bounds the channels and windows.

`Wisdom_proofs`, for any number of decodes and of pieces:

* `CompleteUnlessRacedCorrect` from `Alone`: as long as no copies out overlapped, one decode at
  most is between the tests of `copy_wisdom_out` and its end, the staging name
  stands for the file it is writing, and that file has every piece which the copy has
  behind it.  `Apart` keeps the installed file out of it: the staging name never
  stands for the installed inode, so a truncating `copy` does not reach that.
* `SettlesCompleteCorrect` from `Mending`: as long as nothing fails, each inode is complete or
  the copy that truncated it last is still writing it; so races leave no partial
  file behind once every copy is over.
* `StagedIsCompleteCorrect` from `Copying`: partial wisdom in a work directory
  comes only from an installed file, and then nothing is copied out.

That there is a fresh inode to stage in is a counting argument (`FreshInodeExists`).

`DecodeTask_proofs`, for any windows, spots, and number of faults and restarts:

* `TableIsBatchesCorrect` from `Hands`, `Reports` and `Batches`: the insert is a part, from its
  start, of the result that was reported last, and that result is not in
  the table; so a commit adds all of a result, once, and an abort nothing.
* `OutputsAgreeCorrect` from `Agree`: while nothing has failed, the file is the lines of
  all results before the one in hand and of what is written of that one, the
  table all results before it (`Healthy`: nothing died and the file is open).
* `DamageContainedCorrect` from `Damage`: a torn line at the end of the file is
  damage still to come, and counts with the spots that are lost already: the
  spots spoilt and that line are no more than the writes torn.

`Formats_proofs` proves every invariant of `Formats`, for inputs of any length, any fields,
words and samples, and packets cut at any byte.  The invariants say of an input what
the code makes of it, so they are inductive only in the trivial sense that the input has its type
(`TypeCorrect`); the work is in the operators.

* `StatusExactCorrect` and `PeekAgreesCorrect`.  `ReadField` is the heart: at the place where
  a field stands, as far as the cut lets it, the walk reads the tag, the length (in
  each of its forms) and the value, and goes on behind it, exactly when the field is
  complete and valid; otherwise it stops.  `FieldsLaidOut` says where each field of a
  packet stands, `WholeIs` that the fields which the reference reader knows are those up to the
  first at which the walk stops, `WholeFieldsRead` and `PeekFinds` (by induction from the
  last field backwards) what the two walks return, `DecodedValues` that shifting bytes
  into a `u64` and casting keeps the low bytes.  `UpdateTells` and `AppliedIs` carry that
  into the channel map.
* `RtpExactCorrect`: `RtpLayout` says where each part of a packet is, `RtpCut`
  what is left of them behind a cut.
* `NoShiftedColumnCorrect`: a line is six words, a grid or none, and ten; `LostAligned`,
  `GridAligned` and `PlainAligned` say that the columns of a line that still gives a
  spot are read from their places, whichever word was lost or replaced.
* `SpotsOrErrorCorrect`: `WholeLinesGive` says that a file which can be read gives a spot for
  each whole line, by `FlattenCounts`, which counts along the lines, and `FileLineGives`, which
  says what one line gives.
* `WavReadableCorrect`, both ways: while the sizes fit (`SizesNamed`), each names the sum of the
  lengths of the fields behind it (`BytesInIs`, `BytesOfSamples`), and two reversals of a
  sample's bytes cancel (`WavReads`); beyond that the RIFF size is smaller than the file
  (`WavBreaks`).

`RecursionTheorems` proves what recursive definitions compute: `FlattenSeq` (the lines of
the spot file, the spots of a decode, the bytes of a packet), folds over an interval
(`FoldExists`: lengths, sums, the `u64` accumulator) and walks up the naturals (`WalkExists`: the
walks over the TLV chain).  Each of these functions is a `CHOOSE`, and the first
thing to prove is that there is one.  The library's induction theorem
takes a predicate as a parameter, which no prover here can instantiate; `NatSetInduction`
takes a set of naturals in its place and is proved from their well-foundedness.

The assumptions are the named `ASSUME`s of the modules: that parameters are numbers,
and not zero where the code divides by them or makes a channel of them
(`WrapAssumption`, `ClockAssumption`, `StreamAssumption`, `CaptureAssumption`, `SourceAssumption`,
`ShutdownAssumption`, `WisdomAssumption`, `DecodeAssumption`); that `None` and `Silence` are values of their own
(`NoneAssumption`, `SilenceAssumption`, `AudioAssumption`, `NoValueAssumption`, `NoSpotAssumption`);
`RangeIsWide` and `SeqIsWide`; and `FormatsAssumption`: fields and samples are made of bytes, a
value's length fits into the length bytes of its form (below 128 in the short one, below 256^n
in the long one with n bytes), at most 15 CSRC entries, an RTP extension of less than 65536
words, a sample rate that is a u32.
TLC evaluates them in every run.  `CaptureFits` and
`EncodingReported` are hypotheses of the theorems that need them.

Every invariant and every action property that the passing runs check is proved.
Model-checked only is liveness, which this prover cannot treat: `DeliversAll` (its
safety part is proved), `CascadeExit`, `HeardBySocketsStops` and `EveryDecodeReported`.
The runs that expect a violation are TLC's alone, but `BackwardDelta` proves the
arithmetic behind `early_packet`.

## 5. What is not modelled

* Socket set-up, reading the environment, resolving the host, logging and progress
  bars: sequential, and no state that another part reads, but for the configuration
  values that are parameters here.
* `ensure_ch_table`, one idempotent statement at start-up, and the private temp
  directory of a decode.
* A source that restarts, retunes or changes its rate in mid-window, and status
  packets in `Capture` that report a stream piece by piece; wall-clock steps.  The proofs of
  `Capture` do hold for any status reports.
* The precision of floating-point numbers: elapsed seconds are exact here, and
  frequencies keep their text.

## 6. Plan

Done: every component but the configuration, and a proof of every safety property the
passing runs check.  Optional: status reports that vary in `Capture`, restarts of the source in
`WindowIngest`.
