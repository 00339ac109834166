# TLA+ models of cdrtools

cdrtools is a set of programs that read, make and write optical media: `cdrecord`,
`cdda2wav`, `readcd`, `mkisofs`, the remote SCSI server `rscsi`, and the libraries they
share. Much of it builds SCSI commands, decodes answers and formats data. This project
models the parts whose correctness is a matter of control, which a test hardly reaches:

1. the **FIFO of cdrecord**: two processes and a ring of slots in shared memory without
   any lock (`cdrecord/fifo.c`);
2. the **writing session** around it: long commands, time limits, signal and exit
   handlers (`cdrecord/cdrecord.c`, `libschily/comerr.c`, `libscg/scsitransp.c`);
3. the **track writer**: padding, the last write, retries, packets (`cdrecord.c`,
   `wm_packet.c`, `drv_jvc.c`);
4. the **ring buffer of cdda2wav**: two processes with a pair of pipes as semaphores
   (`cdda2wav/ringbuff.c`, `semshm.c`, `cdda2wav.c`);
5. the **copy loop of readcd**: retries, the list of bad sectors, mode pages that must be
   put back, a signal (`readcd/readcd.c`);
6. **remote SCSI**: client and server with a buffer each (`librscg/scsi-remote.c`,
   `rscsi/rscsi.c`);
7. the **layout of mkisofs**: a pass that plans, steps that move what was planned, and a
   pass that writes (`mkisofs/write.c`, `hash.c`, `inode.c`, `volume.c`).

All are checked with TLC. The safety properties of 1 to 6, and of 7 that both passes agree,
that every record points at its file, that sorting puts the heavier files first and that
inode numbers tell the files apart, are proved with TLAPS for every value of the constants.
Paths below are relative to `src/`.

## Inventory

| Part | State it keeps | Operations | What makes it correct |
| --- | --- | --- | --- |
| cdrecord FIFO (`fifo.c`) | per slot `owner`, `users`, `fd`, `len`, the bytes; `puts`, `gets`, `done`, `cont_low`; a private index in each process | `init_faio`, `faio_reader` (child), `await_faio`, `faio_get_buf`, `kill_faio`, `wait_faio` | nobody fills a slot in use; bytes arrive in order, once; it starts when it is full or the input is over, and always ends |
| cdrecord session (`cdrecord.c`) | commands in flight, `scgp->running`, `cb_fun`, `exflags`, the list of exit handlers | `main` from the fork on, `gracewait`, `intfifo`, `exscsi`, `excdr` | the drive is restored on every way out, no process stays behind, a busy drive is not taken for a dead one |
| cdrecord input (`read_buf`, `fill_buf`, `xio.c`) | file offset, reference counts | reads, short reads, errors | whole transfers until the end of the input |
| cdrecord track writer (`write_track_data`, `pad_track`, `write_secs`, `wm_packet.c`) | bytes and sectors written, `padsecs`, `islast`, the next address | transfers, padding, retries, `cdr_close_track` | every sector once, a track as long as planned, the last write announced |
| cdrecord drivers, SCSI commands | parameters of the drive | command sequences | commands in an order the drive accepts |
| cue, CD-Text, subchannels | parsed sheets | parse, format | data layout |
| cdda2wav ring (`ringbuff.c`, `semshm.c`) | `he_fill_buffer`, `last_buffer`, two counters, two flags, two pipes, `eorecording`, `nSamplesToDo` | `get_next_buffer`, `define_buffer`, `get_oldest_buffer`, `drop_buffer`, `semrequest`, `semrelease`, `semdestroy` | segments saved in order and all of them; nobody waits for ever |
| cdda2wav reading and formats, libparanoia | overlap, statistics, headers | reads, jitter correction | the right samples (not a property of control) |
| libscg | `running`, `cb_fun`, sense data | `scg_cmd` | a callback runs after the command |
| rscsi, `scsi-remote.c` | two read-ahead buffers, the open device, the size of the data buffer | V O C D M F N B T I A R S | a remote call is like a local one |
| readcd | sector list, retry counts, saved mode page and sector size | `read_generic`, `read_retry`, `oldmode`, `domode`, `exscsi`, `intr` | every sector in its place, right or listed; the drive as it was |
| mkisofs layout | extents in two places per entry, cache of links, list of deferred writes | assign, sort, reassign, HFS, inode numbers, write | every record points at its file's data; both passes agree |
| mkisofs trees, names, formats; other libraries; scgcheck, btcflash; build system | | | see `PROJECT.json` |

**How they interact.** cdrecord's parent forks the child in `init_faio()`; from then on
they share only the slots, the statistics, the open files and, by inheritance, the drive
and the list of exit handlers. The parent kills the child in `excdr()`. The signal handler
talks to `scg_cmd()` through `running` and `cb_fun`. `write_track_data()` takes segments
from the FIFO and hands them to a driver. cdda2wav's parent reads the CD and its child
saves the file; they share the ring, write single bytes to each other's pipe, and send
each other SIGINT when one fails. Any of the programs may have its SCSI commands carried
out by `rscsi` over a connection. mkisofs' passes communicate through the entries of the
tree and the list `dw_head`.

**What is hard.** Interleavings of unlocked stores; a slot handed out without a copy; two
processes, or two passes, that compute the same sizes on their own; time limits that run
while the drive blanks for an hour; interrupts in the middle of retries and exit handlers;
wake-ups that are too early, too late or never sent; a stream where lines and raw data
alternate. `PROJECT.json` lists each under "hazards", at its line, with the properties
that would catch it.

## Modules

| Module | Role | About |
| --- | --- | --- |
| `TrackData` | data | tracks, and the arithmetic that FIFO and track writer do on sizes |
| `Stream` | abstract specification | a sequence comes out in order, each element once |
| `Fifo` | component | child and parent of the FIFO, one action per access to shared memory |
| `Burn` | composition | `Fifo` inside a session with commands, time, interrupts and exit handlers |
| `TrackWriter` | component | one track: data, retries, padding, close, and a drive that is busy, refuses or takes a write in part |
| `RingBuff` | component | reader and writer of cdda2wav, their counters, flags and pipes |
| `ReadCD` | component | one copy of readcd, from the mode pages to the exit handler |
| `RemoteCall` | abstract specification | calls carried out whole, in order, with their own answers |
| `RScsi` | component | client, connection and server |
| `Layout` | component | the passes of mkisofs over one directory |
| `MCFifo`, `MCBurn`, `MCWriter`, `MCRing`, `MCReadCD`, `MCRScsi`, `MCLayout` | instances | the jobs, tracks, media and scripts for TLC |
| `FifoProofs`, `BurnProofs`, `WriterProofs`, `RingProofs`, `ReadCDProofs`, `RScsiProofs`, `LayoutProofs` | proofs | theorems for every value of the constants |
| `SeqLemmas` | lemmas | induction over numbers, and what the recursive functions on sequences give |

`Burn` EXTENDS `Fifo`: its steps are those of `Fifo`, held up by commands and time, so what
is proved of `Fifo` holds in a session (the lemma `SessionUsesFifo` of `BurnProofs`). Three
components refine `Stream`, with different mappings: `Fifo` (the bytes burned are those of
the input), `TrackWriter` (the sectors on the medium are those of the track, then its
padding) and `ReadCD` (the sectors of the file are those of the range). `RScsi` refines
`RemoteCall`. The definitions marked "Mutant" change one definition the way a bug would;
`PROJECT.json` pairs each with the property that notices it.

### Fifo and the code

`rpc` is the place of the child, `ppc` that of the parent; a value of either names the next
access to shared memory. `RWait` to `RPut` are one turn of the loop of `faio_read_track()`
with `faio_read_segment()` inlined: wait for `owner_writer`, then `fd`, the bytes, `len`,
`owner`, `users`, `puts`. `RDone`, `RTestGets` and `RMarkLast` are the end of
`faio_reader()`, with the test of `gets` and the store into the last slot apart. `PAwait`
and `PScan` are `await_faio()`, `PRelease` to `PSetFaio` are `faio_get_buf()`
(`--f->users` is a load and a store), `PUse...`/`PWrite` the loop of `write_track_data()`,
`PStartTrack`/`PFinish` that of `main()`, `PKillFaio`/`PWaitFaio` are `excdr()`.

A byte of the input is named by its place `<<track, offset>>`; `data[s]` is the place of
the first byte in slot `s`, which the burning side reads when it hands the bytes to the
drive and not when it takes the slot. A segment refilled too soon therefore shows up in
`burned`. `FillBuf` gives a short count at the end of the input and -1 after an error, as
`read_buf()` does.

### Burn and the code

`cmds` holds the commands the parent still has to send before its next call to the FIFO:
`Prelude` before `await_faio()` (the speed, the blind blank of `F_BLANK` with `F_FORCE`, the
grace time), `Setup` between it and the first track, and those of the loop over the tracks.
`CmdError` has the commands after whose failure `main()` leaves, also the ones it passes
over with `F_FORCE`; then the exit handlers run before or after `await_faio()`.
`scg_cmd()` is running while `cmds` starts with one (`Running`); `cb` is `scgp->cb_fun`.
`Restore` is `exscsi()`; `comexit()` takes a handler off its list only after it has
returned, so a nested `comexit()` starts it again. The child inherits `exscsi()` and runs
it when its wait times out. Only waiting takes time: `Tick` happens when both processes
wait, for a slot, for input or for the drive, and the limits of `faio_wait_on_buffer()` count
those ticks. Interrupts before `gracewait()`, and while `main()` leaves before it, have their
default action and are left out (`Uncaught`), as is the moment at the end of `gracewait()`
in which the signals are at `SIG_DFL` (`cdrecord.c:1842-1857`).

### TrackWriter and the code

One track per behaviour, chosen in `WInit`. `Get` is the head of the loop of
`write_track_data()` or `write_packet_data()`: `get_buf()`, the size of the write and
`islast`. `Write`, `ShortWrite`, `WriteError` and `Busy` are the drive's answers to
`cdr_write_trackdata()`; `Again` is the end of the sleep in `write_secs()`. A short write is
a command without an error but with a residual: `write_xg0()`, `write_xg1()` and
`write_xg5()` return the size less the residual (`scsi_cdr.c:645, 674, 703`), and both loops
add that to the address and to the bytes written and go on with the next bytes of the input
(`cdrecord.c:2531`, `wm_packet.c:212`): the rest of the buffer is lost without a word.
`pad_track()` (2764) subtracts it from what is left to pad, so that padding is sent until
all of it is taken, also behind a write announced as the last (`PadShort`). Residuals are
whole sectors, and after a command that took nothing the drive knows its address.
`cut` remembers the first short write of data, `padOK` whether the padding has failed; the
code keeps neither, they are there for the properties. `PadStart` is what
follows the loop; it computes the padding again, whatever `opentracks()` has set
(`OpenPad`) and `checktsize()` has planned with (`Announced`, with the two blocks the drive
adds to a data track written by itself, `RunOut`). `PadWrite`, `PadShort` and `PadError` are
`pad_track()`. `Close` is `cdr_close_track()` with the TEAC driver's dummy block. `medium` is
what the drive has burned: stretches with their address, length and the byte of the input
they begin with. For packets of variable length the drive may join packets with link
blocks, refuse a write that lies on something written, and may or may not move the
address it reports after an error; that is how the code describes it
(`wm_packet.c:185`).

### RingBuff and the code

The variant with pipes is modelled because no makefile defines `USE_SEMAPHORES`; `assert()`
is on because none defines `NDEBUG`. Segments are numbered; `ring[s]` is the number in
slot `s` and `out` what has been saved. `RGet`/`RFull`/`RFlag`/`RWake`/`RBroken` are
`get_next_buffer()` with `semrequest(FREE_SEM)` inlined, `RDefine`/`RCount`/`RTest`/`RToken`
are `define_buffer()` with `semrelease(DEF_SEM)`; the writer's actions mirror them.
`freeTok` and `defTok` count the bytes in `pipefdp2c` and `pipefdc2p`. A process that is
gone has closed its ends: the other one reads an end of file (`RBroken`, `WBroken`) or gets
SIGPIPE (`RToken`, `WToken`). `Interrupted` says what SIGINT makes of the parent, in
`exit()` as well. The load and the store of a flag in `semrelease()` are one step: the
flag is up only while its owner is blocked and cannot touch it.

### ReadCD and the code

`pc` names the next call. `SetSize`, `OldMode`, `DoMode` are `readcd_disk()` before the copy,
`Resize` and `Remode` after it. Each of them may fail, and none of them ends the copy:
`oldmode()` and `domode()` return when they cannot read the page, the result of
`select_secsize()` and of the mode selects is ignored, and the drive stays as it is. When READ
CAPACITY fails (`known` is FALSE), `SetSize` takes 2048 for the old sector size and `End` goes
by the range alone, up to 10000000 (`Unlimited`), or by nothing, and then the copy is empty;
the same limit serves a range on a blank medium. `read_disk()` divides by the sector size
of READ CAPACITY and needs an answer. `NextChunk` is the head of the loop of `read_generic()`, `Read` its read of a
chunk, `Write` `filewrite()`. `RetryCheck` to `NextSector` are `read_retry()`, one action per
command or test of `didintr` (`RetryCheck`, `SeekCheck` and `RetryCheck2`, with a
`wait_unit_ready()` between them); it refuses sectors above 8192 bytes (`TooBig`). `Seek` is
the read elsewhere, `RetryRead` the read of one
sector, `Settle` what the code concludes after the last try. A sector of the medium is
`"good"`, `"weak"` (a read may fail) or `"dead"`. The buffer and the file hold pairs of an
address and `"ok"`, `"part"` (read, not correctable) or `"zero"`. `recovery`, `bsize` are the
state of the drive; `oerr`, `osecsize` what the program has saved of it. `Exit` is
`exscsi()`, `Interrupt` is `intr()`, and `late` counts the reads begun after the signal.

### RScsi and the code

The client carries out a script of calls. What is sent consists of lines and single bytes
(`Line`, `Bytes`); a channel holds at most `Room` of them, so `Send` and `Answer` write as
much as fits and block. Each side reads ahead: a fill takes any non-empty part of what
has arrived, at most `BufSize` (`Fills`), and lines and raw data are then taken from the
buffer first (`ReadLine`, `ReadBytes`, `Hear`, `HearBytes`), as `rscsirchar()` and
`rscsireadbuf()`, `readchar()` and `readbuf()` do. The client's states follow `rscsicmd()` and
`rscsiscmd()`: a status line, further lines, sense data, data, or an error with its two
lines and text. The server's `Do` has one disjunct per kind of request in `dorscsi()`; `Refuses` is
the test at `rscsi.c:776`, after which the data of the command are read and thrown away. The
buffer may become smaller than asked for (`GetBuf`: `scg_bufsize()` lowers the size), and the
client is told. `Quit` is the end of input in a line, without a word; after one in raw data
or a line it does not know (`Complain`) the server writes an error and exits (`LastWords`).
A line is one token, which counts as there once its newline is: both readers of lines keep
nothing but their place in the buffer and fill it again, so a fill that ends inside a line
leads to the next one and to no other difference. Lines that do not fit `CMD_SIZE` are not
modelled (the hazard at `scsi-remote.c:626`).
`Lose` breaks the connection at any moment; SIGPIPE is ignored (`scsi-remote.c:542`).

### Layout and the code

One directory stands for the tree; a size is a number of blocks. `dir` has the entries in
the order `sort_directory()` leaves: by name and section, the hidden roots of files above
4 GB behind the others. `ext` is the extent in the ISO 9660 record, `start` is
`starting_block`; that there are two is the point. `AssignKnown`, `AssignLinked`, `AssignNew`,
`AssignEmpty` are the branches of `assign_file_addresses()`; `Sort` and `Reassign` are what
`-sort` does; `Hfs` is `make_mac_volume()` with `adj_size()`, `adj_size_other()` and
`insert_padding_file()`; `NumberFile`/`NumberEmpty` are `assign_inodes()`. `WriteFile`,
`WritePadding` and `Finish` are the second pass, in which a file may turn out shorter or
unreadable. `image` says of which file, and which block of it, each block on the medium
is.

## Runs

| Run | Instance | What it shows |
| --- | --- | --- |
| `fifo` | 3 slots, 17 jobs, every fault at every step | `SlotExclusion`, `AwaitMeansReady`, `ScanUndisturbed`, `Lockstep`, `CleanEnd`; the refinement of `Stream` (`InOrder`); a run that no fault disturbs burns everything (`Completes`), any run ends once `await_faio()` is over (`EndsAfterAwait`) |
| `burn_faults` | three quick drives and one that blanks for long, with a forced blank before; up to two interrupts, drive errors (770,000 states) | the drive is restored (`Restored`), the session ends (`SessionEnds`), and the child never gives up on a quick drive (`QuickDriveKeepsReader`) |
| `burn_blank` | a blank longer than the limit, FIFO full | **violated** `NoReaderTimeout`, finding 1 |
| `writer` | 396 tracks and packets, least length 5 sectors, every answer of the drive, 78 of them on drives that take writes in part (138,000 states) | the medium is the track (`InOrder` up to the first write of data cut short, `EndsComplete` without one), no sector twice or out of order whatever is cut short (`OnceEach`), never longer than planned and as long as planned when nothing is missing (`LengthPlanned`), with its last write announced (`LastWrite`) and nothing written on top of anything (`AtTheEnd`), in the end (`TrackEnds`) |
| `ring` | 2 segments in the ring, recordings of 1, 2 and 4, lead-out, errors, signals (16,500 states) | what the pipes do guarantee: `TokensBalanced`, `OrderUnlessPremature`, `EndsOrBothWait` |
| `ring_lost` | no error at all | **violated** `AllStored`, finding 2 |
| `readcd` | 33 jobs: media of up to 5 sectors, chunks of 2 and 3, 0 to 3 retries, drives that do not tell the size of the medium, a blank medium, sectors too large for a retry, all failures, a signal (12,000 states) | the file is the range (`InOrder`), what is not right in it is listed (`BadIsBad`), 0 means that all is there (`ZeroMeansAll`), the drive is restored (`Restored`), the signal is heard (`Prompt`), it ends (`Ends`) |
| `readcd_resid` | a read that moves too little | **violated** `ResidualIsError`, finding 3 |
| `rscsi` | 6 programs, buffers of 3, connections of 4, smaller data buffers than asked for, refusals, loss (171,000 states) | the refinement of `RemoteCall` (`LikeLocalCalls`), a buffer for every command (`BufferForData`), both sides end (`BothEnd`) |
| `layout` | directories of up to 3 names, all options (196,000 states) | every record points at its file (`Placed`), both passes agree (`EndsAsPlanned`), inode numbers tell files apart (`SameInode`), sorting sorts (`HeavierFirst`) |
| `layout_links` | a Macintosh file with two names, large volume | **violated** `Placed`, finding 4 |
| `layout_sections` | sorted, the last file above 4 GB | **violated** `Placed`, finding 5 |

**Bounds.** The FIFO needs at least `MIN_BUFFERS` = 3 slots; with three the index wraps, the
last slot differs from the first and a slot lies between them. The jobs have fewer, as
many and more segments than slots, sizes that are and are not multiples of the transfer
size, unknown sizes, sizes of 0, files shorter and longer than announced, read errors, an
empty pipe first or last, and one file behind two tracks. In `Burn` a tick is about a
minute and `MaxWait` = 4 stands for the 240 seconds; a blank takes 6, longer than the limit,
which is the only comparison that matters. The quick drives just stay within the limit, each
in another part of a session: before the first segment, between two tracks, and in
`exscsi()` started again by an interrupt. Two interrupts (`MaxIntr`) are what it takes to
reach every branch of `intfifo()`. The tracks of `writer` lie below, at and above the least
length and the edges of sectors and transfers, with padding that does and does not reach
the least length; short writes take any number of sectors less than asked for, none
included, as often as the drive likes. Two segments in the ring are the least for which `INC` wraps between
different slots; one and three gave the same result. The media of `readcd` have dead and
weak sectors first, last and in between, and ranges that are empty, end early, at and
behind the medium. In `rscsi` a buffer of 3 and a connection of 4 split every request and
answer somewhere, and the largest request fits in neither. In `layout` three names are
enough for a file, its link and one that moves between them; `Large` = 3 makes files of 1,
2 and 3 sections differ, `MinVol` and `BigVol` lie where volumes of these files fall on all
sides of them. `Top` is far above every extent, as `NULL_INO_MAX` is.

**Fairness.** Weak fairness of each process: the scheduler runs both, a read of the input
returns, the drive answers a command or runs into its time limit. Faults, signals and
errors are never required to happen. The parent's time limit (`PTimeout`) is part of
`Burner`: the limit does expire. The child's limit is not assumed in `Fifo`; in `Burn` it
is what the clock makes of it. `TrackWriter` has strong fairness of the drive's final
answers, because a drive that may always say "in progress" could keep `write_secs()` in its
loop for ever, and one that may always take nothing could keep `pad_track()` in its own,
and the code has no limit of its own: `TrackEnds` holds under the assumption
that a write sent again and again is taken whole or refused at some time. `ReadCD` and `RScsi`
have weak fairness of their processes only; the loss of a connection is not required.

**Deadlock.** It is checked in every run but `ring` and `ring_lost`: there both processes
may block on their pipes, which `EndsOrBothWait` states. Elsewhere a finished program is a
step that changes nothing (`Finished`, `Done`, `RDone`, `WDone`), so that a state in which
nothing can be done is one nobody intended. In `Fifo` a parent whose child died before
the FIFO was full polls in `await_faio()` without a limit; that is a loop, not a deadlock,
and why `EndsAfterAwait` begins after `await_faio()`.

## Findings

1. `burn_blank`: `fifo.c:148` says the limits need to be greater than the time limit of
   "commands that write to the media". `main()` blanks between `await_faio()` and the
   first segment (`cdrecord.c:1469`, up to 160 minutes). With more input than the FIFO
   holds, the child waits for a slot all that time, gives up, and runs `exscsi()` on the
   drive in use.
2. `ring_lost`: `cdda2wav.c:3775`: one process reads and the other stores. What is defined
   between the writer's test of the counters and its flag (`semshm.c:270, 275`) at the very
   end is not saved: the writer reads an end of file and ends normally. The lead-out has a
   second way to the same loss: `eorecording` is set (2053) before the last segment is
   defined, and a writer that has caught up leaves at 2610.
3. `readcd_resid`: `readcd.c:2294` wants an error "in case of DMA residual problems"; the
   `goto out` (2300) leaves `exargs.excode` at 0.
4. `layout_links`: `tree.c:2261` says that hard links are "uncached" in the hybrid case. The
   statement is under `have_rsrc` in a branch that requires `!have_rsrc`. If the allocation
   block of the volume exceeds 2048 bytes, the second name keeps an extent from before.
5. `layout_sections`: `sort_file_addresses()` (`write.c:1029`) counts a file in sections
   twice when its hidden root is the next entry, that is, when it is the last visible one
   of its directory.

Met while modelling, without a run of their own:

- `cdrecord.c:2162` sets `exflags` to "make sure that it only get called once" after the
  restoring commands: an interrupt during one of them re-enters `exscsi()`.
- `semshm.c:264`: a release bumps its counter and tests the flag later, so it may wake up a
  wait that began after it, and `semrequest()` does not look again. If the ring fills up
  between the writer's test and its flag (`semshm.c:275`), both block. `premature` and
  `BothWaiting` in `RingBuff` name the two cases.
- `cdrecord.c:2531`, `wm_packet.c:212`: what the drive leaves over of a write is neither sent
  again nor noticed; the track then lacks sectors, and `write_track_data()` and
  `cdr_close_track()` report no error (`cut` in `TrackWriter`).
- `cdrecord.c:3150`: for a file shorter than announced `checktsize()` may plan more sectors than
  the writer pads to, and the track ends before the place planned for the next one.
- `cdrecord.c:2674`: the result of `pad_track()` is not looked at (`padOK` in `TrackWriter`).
- `wm_packet.c:146, 173`: for packets the last write may be announced before padding
  (`NoPadAfter`); no driver that writes packets looks at it.
- `readcd.c:650, 778`: `old_secsize` is never set, so only the regular end restores the
  sector size. `readcd.c:2080`: with `retries=0` sectors that were read are listed as bad.
  `readcd.c:2304`: a short write is not noticed.
- `scsi-remote.c:820`: a call whose connection breaks off behind the first line of its
  answer may be taken for a success. `rscsi.c:606`: `freebuf()` leaves `Sbufsize`.
- The comment at `fifo.c:786` describes a "goto again" for a slot of another file. `Lockstep`
  shows that no fault leads there as long as parent and child work on the same list.

## Proofs

`FifoProofs`, for every number of slots, every list of tracks and every set of faults:

- **TypeCorrect** `Spec => []TypeOK`. `TypeOK` is inductive by itself because it says which
  places of each process need a current track. Assumptions: `NBuf >= 3`, jobs are non-empty
  sequences of tracks.
- **SlotsExclusive** `Spec => []SlotExclusion`. The strengthening is `SlotOwners`: while
  the child fills its slot that slot is owned by the writer, while the parent holds its
  own it is not, so they cannot be the same one. The late store of `RMarkLast` is covered
  because `"mark"` is a place after the last fill.
- **AwaitReady** `Spec => []AwaitMeansReady`. Only the last slot is polled, so one needs
  that the slots are filled in turn: before the first `gets`, every slot below the
  child's index is full (`FilledUpTo`), and the store of `RMarkLast` happens only when
  `done` has been counted (`DoneOnce`).
- **ScanSafe** `Spec => []ScanUndisturbed`, from the same invariant.

Its second part, with the same assumptions: what goes in comes out, in order.

- **ChainHolds** `Spec => [](TypeOK /\ SlotOwners /\ ChainInv)`. Child and parent go through
  the tracks with the same arithmetic and never tell each other where they are; `ChainInv`
  says what they have in common. From the parent's slot on, around the ring, there are `c`
  slots that were handed over. They hold consecutive segments of the input (`Linked`), the
  first is the one the parent asks for next (`Parent`), and the child's place is behind the
  last. Since the stores are not atomic, one of them may be missing in `puts` (`u`) and one
  be in `gets` already (`h`); `Counts` says at which places. `Owned` needs an exception for the
  store of `RMarkLast`, which touches the last slot when all has been read.
- **InLockstep** `Spec => []Lockstep`: so the sizes both sides compute agree, `faio_get_buf()`
  never meets a slot of another file, and its error exits and its "goto again" are not
  reached.
- **OrderHolds**, **EndsClean** `Spec => []CleanEnd`: `BurnedInv` says that what has been
  burned is the tracks before the parent's and the current one up to its place, `PipeInv`
  what becomes of an empty first pipe, `Reaped` that no child is left.
- **ImplementsStream** `Spec => InOrder`: the refinement of `Stream`; each write adds the next
  bytes, every other step nothing.

`BurnProofs`, for every drive, every length of its commands and any number of interrupts:

Commands, time and signals only decide when the steps of `Fifo` happen; the lemma
`SessionUsesFifo` (`BSpec => Spec`) says so, and carries the safety theorems about `Fifo`
over to the session.

- **SessionTypeCorrect** `BSpec => []BTypeOK`: neither wait counts past its limit.
- **RestoredAlways** `BSpec => []Restored`: whatever ends a session, `exscsi()` has run to its
  end, unless a second interrupt came during a command. `OnTheWayOut` is the
  strengthening: once the parent has left the loop of tracks and has no command left to
  send, `exflags` or `cb_fun` is set, and no command is left when it reaps the child.
  `CommandsAtTheEnd` is the lemma it rests on: each of the ways out of the loop queues
  the commands of `exscsi()`.
- **QuickDriveSafe** `BSpec => []QuickDriveKeepsReader`. While the child waits for a slot
  (`Stuck`) the time it has waited and the time that may still pass are within the limit:
  `Waited` says `rwait + Left <= Bound`. `Left` is what the commands already sent may take
  (`cmds`, `ctime`), what comes behind the place of the parent before the child is served or
  killed (`After`), and one `exscsi()` for each interrupt that may still come (`Allowed`). Every
  step of the parent takes from `Left` what it queues, a tick moves one unit from `Left` to
  `rwait`, and the wait begins with `Left <= Bound` (`LeftBound`). `Shape` says which commands may
  be queued at which place, `Held` that the parent has a slot while it burns, so that a child
  that waits is the one of the next slot. The sums are those of `SeqLemmas`.

`WriterProofs`, for every track: size known or not, any sector and transfer size, padding,
packets, retries, short writes and order of the drive's errors. Assumptions: a transfer is a whole number
of sectors and shorter than the least track (`MinSecs`), which the code ensures by at most
255 sectors (`cdrecord.c:4487`) against 300.

- **BaseHolds** `WSpec => []BaseInv`, with `SoFar` (the medium has as many sectors of the track
  as bytes were counted, and while no write of data was cut short they are the first ones
  of the goal) and `Progress` (per place in the code, how far the input is read and what is
  left to pad). The delicate places are the last transfer, where the data end inside a
  sector, or with a file shorter than announced, and the padding is computed once more from
  what was written, and the short write: from then on the bytes sent (`Sent`) run ahead of
  those counted, which must still not bring the track beyond its planned length.
- **WriterTypeCorrect**, **EndsCompleteHolds**, **LengthPlannedHolds** and **TrackInOrder**
  (the refinement of `Stream`, up to the first write of data cut short) follow from it. The
  three computations of the padding (`OpenPad`, `Announced`, that of `PadStart`) are compared
  in `GoalAnnounced`: equal when the file has the announced size, never too long otherwise.
- **OnceEachHolds** `WSpec => []OnceEach`, whatever is cut short: `Ordered` adds to the order of
  what is recorded that all of it lies below what the next write begins with.
- **AtTheEndHolds** `WSpec => []AtTheEnd`: `Address` says where the next write goes, also after
  a retry whose first try has, or has not, moved the end of the medium.
- **LastWriteHolds** `WSpec => []LastWrite`, for drives that take their writes whole: `LastTold`
  says that behind a stretch announced as the last nothing is left to be written, neither
  data nor padding.

`RingProofs`, for every size of the ring and every length of recording:

- **RingTypeCorrect** `Spec => []RTypeOK`: the number of segments in the ring stays
  between 0 and `NBuf`. With early wake-ups possible this rests on the two assertions;
  `Places` says that what they tested still holds when the counter is bumped, since only
  the other process changes it, in the good direction. `FirstDefined` says that the
  writer never gets a slot before there is one.
- **TokensCorrect** `Spec => []TokensBalanced`: every byte belongs to one wait. It is
  inductive given the types. It is why an early wake-up can only come from the release
  that was under way, and why bytes never pile up in the pipes.
- **OrderCorrect** `Spec => []OrderUnlessPremature`: as long as no wake-up was too early,
  the file is the beginning of the recording, the reader never fills the segment being
  saved, and no assertion fails. The invariant counts slots on from `last_buffer`: `Front`
  says that `he_fill_buffer` is as many slots ahead as segments are begun and not yet
  dropped, `Contents` that the slots between hold the defined segments in order, `Found`
  that what a process found is still there when it uses it, `Saved` that the file is as
  long as the work done. `WrapFacts` is the arithmetic of `INC`; it is stated with one
  conditional subtraction so that no division is needed. `Ahead` keeps `nSamplesToDo`
  from growing when the lead-out is found.

`ReadCDProofs`, for every medium, range, transfer size and number of retries:

- **CopyTypeCorrect** `RSpec => []RTypeOK`, in two parts, `Scalars` for the numbers
  and flags and `Buffers` for the sequences.
- **RestoredAlways** `RSpec => []Restored`. The invariant `DriveInv` adds to `Scalars` two
  parts: `SetUp`, that the drive is untouched before `domode()` and its page known from then
  on (`oerr`), and `Kept`, that what was changed is remembered (`oerr`, `osecsize`) until
  `Exit` or the regular end puts it back. The delicate places are those between a mode
  select and the exit handler, which a signal or an error reaches with only part of it
  restored (`Unsized` lists those where the sector size is that of the copy).
- **PromptAlways** `RSpec => []Prompt`. `Heard` says that where a read or a seek is about to
  be sent, none has been sent since the signal.
- **CopyInOrder** `RSpec => InOrder`: the refinement of `Stream`. `InPlace` says that the
  file holds the addresses in order and, until the file system is full, ends where the
  loop goes on; `InChunk` that a chunk lies within the range, its buffer has a place for
  each sector, and the sector being read again is one of them. Every step then adds the
  next addresses or nothing.
- **BadIsBadAlways** `RSpec => []BadIsBad`. `ListInOrder` says that the list of bad sectors is
  in ascending order and never ahead of the copy, `ListFits` that it agrees with the file
  and with the part of the buffer that is decided. `BadIsBad` itself excepts `retries=0`,
  where the code does list sectors that were read (`readcd.c:2080`).
- **ZeroMeansAllAlways** `RSpec => []ZeroMeansAll`. `Excused` says what an exit code of 0
  means from the place on where it is settled: the copy has come to the end of the range,
  unless a residual or a short write was passed over (`lost`), and a list that is not
  empty was asked for with `-noerror`.

`RScsiProofs`, for every program of calls, every size of the two buffers and of the
connection, and every way in which they cut what is sent. Assumption: a command moves its
data in one direction, because the protocol has one size and one flag for it
(`scsi-remote.c:792`).

- **CallsHold** `Spec => []CallInv`. A request under way is a row of segments: what the
  server has taken, its buffer, the connection, and what the client has still to write.
  `OnTheWay` says that these are, without gap or overlap, the request, by the places where
  they lie in it (`At`), and `OnTheWayBack` the same of the answer. `Places` says how far the
  two processes can be apart: the server is at most one request ahead of the results,
  and that only while the client waits. `Parsing` and `Understanding` say what each side
  has taken so far and how much it still wants; `WellShaped` that an answer is as long as its own
  lines say, errors and sense data included. A side therefore finds at its head what it
  expects, and a call leaves nothing behind for the next one. When the connection is lost
  the part that is still to be written goes, and the rest of the invariant holds on; `NoGarbage` says
  that between two requests the server never meets anything but a command.
- **RemoteTypeCorrect** `Spec => []RmTypeOK`.
- **RemoteLikeLocal** `Spec => LikeLocalCalls`: the refinement of `RemoteCall`. `Do` handles the next
  request, the step that reads the last piece of the answer returns it, and everything
  else is a stutter.
- **BufferHolds** `Spec => []BufferForData`, for every program that asks for a new buffer after
  an `O`, `C` or `F` has ended the old one before it moves data (`KeepsBuffer`, which the
  programs of the run do). `BufferKnown` says that unless a buffer was ended the size the
  server remembers is that of the buffer it has. Without the hypothesis it is
  false of the code: `freebuf()` leaves `Sbufsize` (`rscsi.c:606`).

`LayoutProofs`, for every directory, size, weight, hard link and place of the volume.
Assumptions (`OnDisk`): names with the same inode number are the same file, and the files of
earlier sessions lie below this one, apart from each other.

- **EndsWherePlanned** `Spec /\ []FillsUpOnce => []EndsAsPlanned`. `Planned` says, phase by
  phase, that `last_extent` is where the list began plus what the list takes (`Bulk`), and in
  the second pass that `last_extent_written` is as far as the elements written so far. What
  makes it hard is that the two sides are added up in different ways. `SectionsFacts` and
  `Directory` say that the entries of a file add up to its size, so that `Length` of an element
  in sections is what `AssignNew` counted; `SortedFacts` that sorting permutes the list
  (`Queued` gives every element an extent of its own, so that none is lost in the set the
  model sorts), and `SumOverSet` that the order does not change the sum; `ChainFacts` and
  `MovedFacts` that a list laid out anew takes what its sizes, or its rounded sizes, add up to.
  `Tidy` says that blocks behind the data (`pad`) are counted and written in the same cases.
  The hypothesis `FillsUpOnce` excludes a volume that has to be filled up after sorting,
  twice, or with large allocation blocks: there the passes do disagree, and mkisofs stops
  with "Implementation botch" (`write.c:2965`). All jobs of the run `layout` satisfy it.
- **EveryFileFound** `Spec /\ [](FillsUpOnce /\ Supported) => []Placed`. The invariant beside
  `Planned` is `LayoutInv`, and what it says of a phase is what the next one relies on.
  `Listed`: a file is in the list once, with its first entry, whatever other names it has.
  `Followed`: the elements lie one behind the other, from where the second pass will begin; only
  an attempt at a large volume that failed may leave them elsewhere, and then a large volume
  follows. `Entered`: the sections of a file get their extents with the first of them.
  `Hashed`: the cache of links knows where the elements are, after sorting only of those
  without sections. `Shows`: every entry with data is of an earlier session, points into the
  element of its own file (`Own`) or of another name of it (`LinkAt`), or waits, while the list
  is sorted, with the mark `reassign_link_addresses()` looks for (`Waits`). `Kept`: an earlier
  file keeps its extent. One lemma per action shows that it preserves these
  (`LayoutAssignNew`, `LayoutAssignLinked`, `LayoutSort`, `LayoutReassign`, `LayoutHfsSmall`,
  `LayoutHfsLarge`, ...). They rest on what the directory looks like (`MineFacts`,
  `OffsetFacts`, `BeforeFacts`: the sections of a file follow each other and their offsets add
  up) and on `Keys`, which says in which element of a moved list an entry finds itself.
  `Copies` is about the medium: the elements written so far are there and, with
  `UpToNthGrows`, no later one is written on top of them or of an earlier session.
  `PlacedFinal` puts the two together.
  The hypothesis `Supported` excludes the two findings and what is near them: when
  sorting, a file in sections at the end of the directory (finding 5) or with a second name;
  on a Macintosh volume, a Macintosh file with two names (finding 4) and a file in sections,
  whose later sections `adj_size()` does not move. It is about the job, not about what
  mkisofs does with it, and all jobs of the run `layout` satisfy it.
- **HeavyFilesFirst** `Spec /\ [](FillsUpOnce /\ Supported) => []HeavierFirst`. Only the first
  name of a file is in the list, and the others pass their weights on to it one by one.
  `Collected` is what holds on the way: the list is in the order of the directory, and an
  element has the highest weight of the names met so far (`CollectedLinked`), at the end of
  the pass that of all its names (`CollectedAll`, `WeightCollected`). That no name is missed
  needs `Shows`: a name that is passed without a change of weight is of a file met before
  (`TwinPassed`). `OrderedSort` compares what `compare_sort()` sees, weights and extents, with
  what the property says, names and their order in the directory; `Ordered` keeps that order
  through everything that moves the list, and `FirstSection` and `UpToNthGrows` turn it into
  one of extents.
- **OneNumberPerFile** `Spec /\ [](FillsUpOnce /\ Supported /\ EnoughNumbers) => []SameInode`.
  The number of a file is the block it starts at, and of an empty one a number counted down
  from the top; what is hard is that entries get theirs at different times and from different
  places. `Numbered` says how far that has come. `Anchored`: the number of an element is one
  of its own blocks (not always the first: `sort_file_addresses()` leaves that of the last
  section). `Firsts`: the first section of a file has the number of the element of its file,
  or waits for `reassign_link_addresses()`. `Laters`: the other sections have none until
  `assign_inodes()` comes to them. `Remembered`: the cache of links then has the right number
  for them, also after a sort has filled it anew, and for empty files that
  have been met. `Topped`: empty files have numbers above `null_inodes`, the same exactly for
  two names of one. `Above`: these are above all blocks. Since the elements lie apart
  (`ElementFacts`) and a file has one (`OneElement`), `SameInodeFinal` can tell files from
  their numbers. The hypothesis `EnoughNumbers` is the check at the end of `do_inode()`
  ("Inode number overflow, too many files in file system"), which mkisofs makes when it
  writes Rock Ridge names; in the runs `Top` is large enough for it.

`SeqLemmas` has the facts about the recursive functions the reference definitions are
written with. Induction over numbers is stated there for sets (`LeastNat` and what follows
from it), since the library's induction theorems take an operator. The folds of the
community modules add up in an order that `CHOOSE` picks; `SumsExist`, `SumsUnique` and
`SumsSteps` say that there is such a sum, that it is the only one, and that the order does not
matter, and `SumAppend`, `SumConcat` and `SumOverSet` what that means for sequences.
`OrderExists` and `SeqOfSet` do the same for the order of a finite set, `FlattenIndex` for a
sequence of sequences.

Only model-checked:

- everything temporal: `Completes`, `EndsAfterAwait`, `SessionEnds`, `EndsOrBothWait`,
  `TrackEnds`, `Ends`, `BothEnd`. Liveness under fairness is out of the prover's reach.

## Assumptions and what is left out

- Stores become visible in program order. The code relies on it: the fields are not
  `volatile` throughout and there are no barriers.
- Residual counts are whole sectors, and a drive knows its address after a command that was
  no error.
- `kill()` and the death of the process it hits are one step.
- The list of tracks is the same in both processes and starts at track 1. The hidden track
  before it (`fifo.c:597`) is taken out of the FIFO by single drivers and not modelled.
- In `Burn`, of the drive only that a command takes time and succeeds or fails. An
  interrupt that arrives while the drive is idle and exit handlers are already running is
  left out (it would run between two commands of `exscsi()`), and so are interrupts before
  `gracewait()`, which end the program at once.
- `TrackWriter` has no FIFO between input and drive; what the FIFO adds is in `Fifo`. Raw
  encoding, subchannels and the speed limit are left out.
- cdda2wav: the System V semaphores (not compiled), the interactive mode, the version
  without fork, and the inside of a segment (the overlap search of `synchronize()`).
- readcd: `write_disk()`, the interactive menu, the C2, Cx and jitter scans, the full TOC
  and the side files of clone mode.
- rscsi: the configuration and permission checks of the server, how the connection is
  made, the values inside the answers, and the bytes of a line. No program sends a command with data after it has
  given its buffer back.
- mkisofs: one directory; directories and path tables are a constant number of blocks;
  no UDF, Joliet, El Torito, boot partitions or `-print-size`. The jobs of `layout` leave
  out the two cases of the findings, and three more in which the code does not hold
  together: sorting together with a volume that must be filled up (`insert_padding_file()`
  appends behind `dw_tail`, which sorting has left in the middle of the list), a second
  attempt at such a volume (a second padding file), and files in sections on a volume with
  larger allocation blocks, or sorted and with a second name. In the first two mkisofs
  itself ends with "Implementation botch".
- SCSI command layout, drivers, cue sheets, file formats, libparanoia and the other
  libraries are sequential data handling: there is little control to model, and TLC would
  only enumerate data. This is most of the source by lines.

## Plan

Done: all the modules above, and the theorems of the section before last.

Next, in this order:

1. `Layout` with several directories, which brings `reassign_link_addresses()` and
   `adj_size_other()` their recursion; `EveryFileFound` is what to prove of it again.
2. The reference counts of shared input files in `xio.c`; the hidden track with a driver
   that takes it out of the FIFO; the overlap search of cdda2wav against `do_write()`.
