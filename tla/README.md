# audiovibe: a TLA+ model of the music-and-vibration player

audiovibe plays music together with vibration. A Python program (`src/vib_music`)
plays a wave file and, beside it, one or more vibration streams computed from the
same music; a Tk program (`src/vib_editor`) puts a player window and two editors
around it; the firmware of a Bluetooth device (`src/hardware`) receives bytes on a
serial port and forwards them to a phone.

This directory holds TLA+ modules for the parts in which something can go wrong that
a test would hardly reach, the TLC configurations that check them, and TLAPS proofs
of their most important invariants. `PROJECT.json` lists the same things for tools:
which definition stands for which lines, every run, every property with a mutation
of the code that breaks it, the hazards, and the theorems.

    tlc -workers 2 -config script.cfg MCPlayback      # any row of "Runs"
    tlapm PlaybackProofs.tla                          # any module of "Proofs"

## 1. The system and its parts

### Python: playing

| Part | State | Operations | Interacts with |
|---|---|---|---|
| Stream processes (`vib_music/processes.py`) | the loop of each process, the queues between them | attach, run: take a command, broadcast it, handle it, play a frame; end by CLOSE, at the end of the recording, or by an exception | client over `cmdQ`/`resQ`; each vibration process over a queue per attachment |
| Stream handlers (`streamhandler.py`) | ACTIVE or INACTIVE | init, start, pulse, resume, seek, next frame, close | called by the process; call stream and driver |
| Streams (`streams.py`) | position in the file or array | open, read a frame, tell, set position, rewind | called by the handler |
| Drivers (`drivers.py`) | sound device or motor: opened, running, stopped, closed | init, write a frame, pause, close | called by the handler |
| Launcher scripts (`vib_music/utils.py`, `finetune/test_*.py`, `vib_editor/utils.py`) | none | create the processes, attach, start, put a list of commands | client of the processes |

### Python: windows and tools

| Part | State | Operations | Interacts with |
|---|---|---|---|
| Player window (`VibPlayBackend.py`, `VibPlayFrame.py`) | length of the recording, slider, which thread waits for what | Start, Pulse, Resume, Forward, Backward, slider, Stop, close | puts commands on `cmdQ`; a helper thread takes answers from `resQ` |
| Vibration mode editor (`VibModeBackend.py`, `VibModeFrame.py`) | the queue of transforms, the list that shows it, the enabled form, the position edited in place, the drawn curve | add, delete, move, edit in place, apply, save, load; choose a wave; play | the mode file; the wave database file; starts the player |
| Atomic wave editor (`AtomicWaveBackend.py`, `AtomicWaveFrame.py`) | families of waves, the sliders, the database file | add a family, add a wave, save after each; show a wave, play it | the wave database file; starts the player |
| Serial controller (`control.py`) | the last frame | turn a line into a frame, repeat, switch off | a motor board on a serial port |
| Features and vibration modes (`features.py`, `vibrations.py`, `core/Feature*`) | arrays | compute a vibration stream from audio | supplies the stream that is played |
| Plots, signal experiments (`plots.py`, `finetune/`) | none | draw, compute | nobody |

### Firmware (`src/hardware/examples/none_evm/ble_AT - music`)

| Part | State | Operations | Interacts with |
|---|---|---|---|
| Transparent bridge (`at_recv_cmd.c`, `at_profile_spss.c`) | receive buffer, pending flush, timers, AT task's message queue | UART interrupt, timer handler, AT task, service callbacks | UART interrupt preempts the rest; notifications to a link |
| Link management (`at_gap_event.c`, parts of `at_cmd_task.c`, `proj_main.c`) | connected links, transparent mode, advertising, connection parameters | stack events: connected, disconnected, parameters updated or rejected | switches the bridge on and off |
| Parameter store (`at_recv_cmd.c`, end) | flash pages, page index, write counter | store, load, clear | a reset at any moment |
| Buttons (`proj_main.c`) | level before anti-shake, timer, sleep mode | pin interrupt, timer handler | link management (disconnect), sleep mode |
| Update over the air (`components/ble/profiles/ble_ota`, `patch.c`) | two images in flash, kept packets, buffer for a packet in pieces, flag that allows flash writes | link made, link lost, a command from the updater, reset and boot | every link shares its state; a reset at any moment |
| Vendor SDK (`RingBuffer`, `button`, `decoder`, other BLE profiles, drivers, codecs) | | | not part of this program's own logic |

### What is hard, and what makes each part correct

* **Stream processes.** Processes run at their own pace. The audio process tells its
  followers about a frame before it knows whether it can play it, forwards every
  command before it handles it, and has four ways out of its loop. Correct means: the
  vibration stays at the frame of the music whatever is sought, paused or resumed;
  every follower hears CLOSE and nothing after it; all processes end together.
* **Player window.** Two threads share the answer queue and the slider; Stop joins two
  kinds of processes and a thread, each of which may need something from the joiner.
  Correct means: positions are right and inside the recording, and Stop returns.
* **Bridge.** An interrupt shares a buffer and a flag with a timer handler and a task;
  only one short section is protected. Correct means: no byte is forgotten, sent
  twice, stored past the end of the buffer, or sent to a peer it was not meant for.
* **Link management.** One timer serves all links and may fire for a lost one; refusals
  stop or restart it; an interrupt, a timer and a callback share the sleep mode. Correct
  means: a link that is alone is asked for its parameters, the device can be found again
  after any sequence of connections, and still buttons and the sleep mode agree.
* **Parameter store.** Pages are erased before they are written, and turn over when their
  counter, itself erased with the page, is full. Correct means: what was stored is read
  by every boot until it is replaced, it is known what a boot finds after a reset in the
  middle, and no page is erased for ever while another waits for its turn.
* **Update over the air.** An image arrives in hundreds of packets, over a link that may be
  lost, on a device that may lose its power; its buffers and its answers belong to all
  links. Correct means: there is always a complete image to boot, the one that runs is not
  touched, and an update that is carried through is the one that runs afterwards. (The
  code keeps the first two but for another link that interferes; see section 4.)
* **Mode editor.** Handlers call one another and raise in the middle; an edit in place is
  only a position that other handlers shift. Correct means: transforms neither vanish nor
  change their kind, the list and the curve show the queue, and a file that cannot be
  read takes nothing away.
* **Serial controller.** What ENTER repeats is assigned after the board has the frame and
  may fail in between. Correct means: the board does what was typed, and ENTER changes
  nothing.

The full list of hazards, each at its line and with the properties that cover it, is in
`PROJECT.json`.

## 2. Modules

    PlaySession   what a playback session promises its listener (abstract)
    Playback      AudioProcess, VibrationProcesses, handlers, streams, drivers
    MCPlayback      constants of its run
    VibPlay       the player window on top of Playback (EXTENDS Playback)
    MCVibPlay       constants of its runs
    Bridge        the firmware's UART-to-BLE bridge and the links that switch it
    Links         connection parameters, advertising, buttons and sleep mode
    ParamStore    what storing parameters promises (abstract)
    FlashStore    the parameter store in flash pages
    Ota           the firmware's update over the air
    MCOta           constants of its runs
    Editors       the vibration mode editor and the files it shares
    MCEditors       constants of its run
    Control       the serial controller
    MCControl       constants of its run
    PlaybackProofs, BridgeProofs, LinksProofs, FlashProofs, OtaProofs, EditorsProofs,
    ControlProofs
                  theorems about the module of that name
    WindowProofs  theorems about VibPlay, which rest on those about Playback

### Playback

State. `cmdQ` and `resQ` are the client's two queues, `vibQ` has one queue per call of
`attach_vibration_proc` (constant `Attached`, in the order of the calls; a process
attached twice reads only its last queue, as `set_event_queues` overwrites). `apc` is
where `AudioProcess.run` is: `poll` at STEP 1, `frame` before the NEXT_FRAME broadcast,
`write` between that broadcast and the end of the blocking write, `leaving` after the
loop, `dead` after the interpreter has flushed the queues. `astate`, `apos`, `device`
are the audio handler, stream and driver; `vpc`, `vstate`, `vpos` a vibration process.

Grain. Taking a command, broadcasting it and handling it is one step: nothing blocks in
between and nobody observes the middle. Broadcasting NEXT_FRAME and playing the frame
are two steps, because writing a frame blocks for the frame's duration. A vibration
process takes and handles one event in one step. `multiprocessing.Queue` delivers
through a feeder thread; a delayed delivery is the same as the reader taking the event
later, so the queue is a sequence. The feeder matters at exit only: the process is
joined when all but what its pipe holds has been read (`AudioExit`, `PipeCap`).

Abstraction. Samples are left out; a position counts frames. `Partial` says that the
last frame of the file is short: then `tell()` is one behind at the end and
`setpos(NA)` raises (`Tell`, `InRange`). With `Faults` any opening and any write may
fail. `GUI` is `enable_GUI_mode`: automatic INIT, no exit at the end, a position after
each frame. Two ghosts, the field `at` of an event and `told`, record the position a
reader has once it has handled an event; no guard reads them.

Assumption `NA <= NV`: the vibration stream is at least as long as the audio. Features
have one frame per hop of the audio, centred (`features.py` 19-21, 69-79), and it is the
only case in which the comment at `processes.py:65`, that running out of vibration frames
"should not happen", can hold. (With equality it does not; see section 4.)

### VibPlay

Adds the Tk main thread (`gui`), `total_frame`, the slider's variable and
`SliderHelperThread`. Handlers are bound with `bind('<Button-1>')`, which fires on a
disabled button too, so every handler can run whenever the main thread is in its event
loop. `close_stream` puts CLOSE and then blocks in three joins, one step each.
`ThreadedTcl` says whether a variable set from another thread is carried out by the
main thread's event loop, as it is in the standard builds of Python. The run `vibplay`
has it so; where `StopCompletes` is concerned with it, see section 3.

### Bridge

A byte is the number of bytes received when it came in. `UartByte` is the interrupt and
is enabled in every state except inside `Flush`, which is the section with interrupts
disabled. All other handlers run one at a time; where the interrupt's arrival in the
middle of one can matter, the handler is two steps and `pc` tells which is next: the
test and the posting in `transparent_timer_handler`; stopping the timer and the flush in
`at_task_func`; turning transparent mode on and clearing the buffer in
`at_cb_slave_connected`. The SDK's timers and message queue are modelled from their use:
messages are handled in order, a stopped timer does not fire. Which index the stack
gives a link is not in the sources: any free one. The heap may be low at any flush.
The parameter-update timer that `at_cb_slave_connected` also starts is not read by
anything here: it is in `Links`.

### Links

`Bridge` and `Links` split one program: both have the links coming and going, and no
state of one is read by the other (transparent mode here, timer, advertising and buttons
there), so they are checked apart. `param_timer` and `timer_arg` are
`update_param_timer` and its argument, `asked` the stack's unanswered requests.
Parameters are of three kinds, since the code only compares them: as asked for, with too
long an interval, or different otherwise. `current_con_interval` is left out: it is
`LINK_INTERVAL_MIN` at every connection and would be raised only below 15, which 24 is
not. The pins change between any two steps; the interrupt and the timer follow in any
order. PD6, which asks the stack to disconnect, adds nothing to links that may be lost
at any time. The ghosts `lone` and `owed` name the link that has always been alone and
say whether its parameters have still to be looked at; `early` says that PC5 was down
when the services were added.

### FlashStore and ParamStore

A flash operation is a step: `pc` is the next one of a store. `Reset` comes between any
two, and within the writing of a page, which then reads as `Torn`; an erased page reads
as all ones, also its counter (`Erased`). Numbers are `uint16_t` (`% Word`). A set of
parameters is one value: the code compares and copies all parts together. A reset loses
the memory; `Load` is the boot. `ParamStore` is a register with a value in use, a value
kept and a store under way; the refinement maps the kept value to what a boot would load
now. Four ghosts: `old` is what a boot would have found before the store, `struck` where
in a store a reset came, until the boot; `wear` counts the erasures of a page since a
store went on to it, and `cut` says that the store was cleared, or a reset lost the
page's counter or the index, since then. The AT command parser, which calls store and
clear, is commented out (`at_recv_cmd.c` 128-140 and 262-396): `Change`, `Store` and
`Clear` are what its handler does when called.

### Ota

`flash` has, for each of the two parts, a head (image and version) and what every packet
left in the rest; `running` is the part in use. `LinkCreate` and `LinkLost` are `ota_init`
and `ota_deinit`; `WriteConfig` is the write of the descriptor by which any link turns the
one flag for the answers on or off. The other actions are the commands of
`app_otas_recv_data`, each with what its beginning does to `first_loop`, `ota_state` and
the buffer (`Command`). A packet may come in two pieces (`FirstPiece`, `LastPiece`).
Writing flash that is not erased leaves `Mixed`. `OTA_CMD_REBOOT` erases the old head and
writes the new one in two steps; the power may fail in between, as at any time
(`PowerReset`). `Boots` is what the boot ROM, which is not in the sources, does with the
two versions; a head that is `Mixed` may say anything, so either part may boot then.
A head, one flash page program, is written whole or not, but by an overrun.

`WriteData` has four ways: the first packet, which is kept; one that finds the kept
packets; one that does not while flash is closed, which does nothing; and one that does
not while flash is open. In this last, `first_pkt` is all zero, the packet itself may be
saved (`Strays`), and the kept ones are saved from byte 256 to byte 0, which is nearly 2^32
bytes. `Overrun` is that write, one spoilt packet at a step: from byte 256 of the
part that is being updated to its end, then, or first when part A is being written, the
other part, and round. Nothing but a reset ends it.

`wild` is `save` during this write; `piece` when the code has written or read outside the
buffer of pieces, of which nothing more is said; `broken` when a reset finds no whole image
to boot after an overrun, or after the head of an update that was cut into has been
written (`Spoilt`). The actions stop at the last two (`Astray`). The ghost `cut` says that
something `Undisturbed` excepts has come in between.

What is assumed of the updater: it asks for answers, sends one command at a time, goes on
when it is answered, and begins again with erasing on a new link. It asks where to write,
or goes by what it was told on an earlier link (`GoByOldBase`); then it may address the
part that runs, whose erasing is refused with a request to disconnect and nevertheless
answered SUCCESS (`ota.c` 361-373, 534), so that it goes on, with packets too. The CRC check
is not compiled (`ota.h:10`). A command left over from a link that was lost in the middle
of a packet is taken for the missing piece: `Swallowed`, whose outcome depends on the
lengths.

### Editors

One action per handler of `VibModeFrame`. A handler that raises has the effects it had
until then; one that raises before any is no step. All that changes the queue ends in
`Refresh` (`__on_transform_param_change`), which raises in two places: in `update`, when
the edited position is past the end, and in `apply_all`, when a transform's parameters do
not fit its name (`Fits`; `update` keeps the name and takes the parameters of whatever
form is enabled). The buttons are disabled during an edit in place, but the handlers are
bound with `bind`, which ignores that. The queue's transforms are names with members of
`ParamsOf`; what they compute is left out, and the curve is the sequence it went through.
Saving is two steps, with `Restart` in between. The wave editor appears by what it does
to the shared file: `dump` is called without the file and every save empties it.
What a loaded audio draws is left out: after `__load_music` the signal is shown without
the transforms until the next edit.

### Control

One action per way through `set_configs` in `main`'s loop, in two steps where
`check_current` reads after the frame has been written. A frame is the sequence of its
bytes, computed as the code does. A line that is refused raises before anything is
written and is no step. The ghosts `typed` and `again` keep the lines the last and the
repeatable frame came from; `unsure` marks the one case in which ENTER may send something
else than the board has: reading failed after a frame was sent. What the board does with
a frame of another length is not in the sources.

## 3. Runs

| Run | Bounds | Question |
|---|---|---|
| `script` | 1 follower, 1 orphan, 2 frames, last one short, faults, 5 commands, pipes hold 3 events | do the streams stay aligned, is CLOSE last and does it reach everyone, do processes end together, does the audio implement `PlaySession` |
| `followers` | 2 followers, GUI mode, faults, seeks inside and outside the recording, 3 commands | are both followers where the music is |
| `vibplay` | 1 follower, 2 audio and 3 vibration frames, faults, threaded Tcl, 3 commands and Stop, pipes hold 2 events | are positions right and inside the recording, what can keep Stop from returning |
| `bridge` | 2 links, buffer of 3, threshold 1, notifications of 2, 5 bytes | no byte forgotten, repeated, stale or stored past the end; the buffer is emptied again and again |
| `links` | 2 links, 2 pins | is a lone link asked, does advertising go on, does sleep follow the buttons |
| `flash` | 2 pages, 2 writes a page, 3 parameter sets, `uint16_t` of 5 values, resets | is the store a register, what does a boot find after a reset in the middle, do pages turn over in time |
| `editors` | 2 kinds, 3 forms, queue of 2, saved queue of 1, 2 wave families | does every transform keep its kind and stay in the queue unless a handler is to take it, does the window show the queue |
| `control` | every channel setting with plain numbers, every number at and past its limits with one setting | does the board do what was typed, does ENTER repeat it |
| `ota` | 3 links (two of them alike), 3 images, 2 pages of 2 packets, 2 held back, versions up to 2, resets | is there always a complete image to boot, is the part that runs untouched, does a finished update run, are commands answered |
| `orphaned` | expected violation | `VibEndsWithMusic` |
| `stop_pipe` | expected violation | `StopReturns` with a process attached twice |
| `ota_save` | 2 links, otherwise as `ota`; expected violation | `SavedRange` |

Why the bounds are enough. Two frames give a first, a last and (with `Partial`) a short
one; a third vibration frame separates "exhausted" from "at the end". Five commands
allow init, start, seek, pause, resume and start, with every interleaving of two readers;
three clicks and Stop do so for the window, whose state adds six more places. Pipes of 3
and, with fewer commands, of 2 events are filled in the runs that speak of the end of the
processes; the 30 of `followers`, which does not, are more than it sends. In the bridge, a
threshold below the buffer's end lets the buffer cross the threshold, fill up and drop a
byte with a flush pending; five bytes reach past two flushes; two links give every order
of connecting and disconnecting, including an index other than `transparent_conidx` alone.
`MaxCmd`, `MaxBytes` and `MaxVersion` are the only bounds on the length of a behaviour. The Playback runs and `control` say `CHECK_DEADLOCK FALSE`
because the program is meant to stop.

Two attached processes, or one and one that is not, are enough for the Playback runs,
since followers share nothing but the audio process; the proofs are for any number.

Ota: a page that is erased with the head and one that is not, packets in and after the
kept ones, an update from either part to the other, an image that is older, as old and
newer than the one that runs. Of three links one may be lost in the middle of an update,
another turn the answers on again, and the first come back and open flash for writing;
a fourth could add nothing to the three flags they share. The two that are not the
updater's are symmetric.

Links: with two of them a timer can belong to another link, to a lost one or to none.
Flash: two pages make a round trip, two writes a page have a first, a full and a counter
past full, and five numbers give an erased counter that wraps to 0 beside those in use;
three parameter sets tell the defaults, the old and the new apart. Editors: one kind with
two parameters and one with one give every misfit; a queue of two has a first and a last
and a position that is past the end after a deletion; `MaxSaved` of 1 makes a loaded
queue shorter than an edited position. Two equal transforms of three, of which `delete`
takes the first, need a longer queue: no property speaks of them. Control: the bounds are
on the lines, not on their number.

Fairness. Every process and thread is weakly fair: the operating system schedules it.
The client, the user and the peers owe nothing. In the bridge a handler that has begun
is weakly fair; taking a message and firing a timer are strongly fair, since the loop
serves its queue and its timers between any two events of the stack. In `Links`, timers
fire and the stack reports the end of advertising and of adding services (weak); peers
and users owe nothing, and requests need not be answered. `flash`, `ota`, `editors` and `control`
check safety only: nothing in them has to happen without a user.

### Properties worth a comment

* `Aligned`: a follower that has read everything is exactly where the music is, after any
  sequence of seeks, pauses and resumes. `LagIsQueued` says the same while events are
  queued: the distance is the number of unread NEXT_FRAMEs. Both are limited to positions
  before the end, since at the end the extra broadcast frame breaks them.
* `EndTogether`, `StopCompletes` are liveness properties. `StopCompletes` says that Stop
  returns, with three exceptions that are all real: the audio process has crashed, and its
  followers never hear CLOSE (`orphaned`); the slider thread is between an answer and the
  slider when Stop blocks, and `variable.set` waits for the main thread, which waits
  for it (`SliderStuck`); a vibration process has ended by an error with more events on
  their way than its pipe holds, and the audio's feeder thread waits for a reader
  (`PipeStuck`). It says that nothing else keeps Stop from returning, in particular not
  pipes that are full while their reader lives.
* `TotalKnown` speaks of a window that is shown. That it is shown is the order of the
  constructor, which starts the slider thread only after it has its answer.
* `FlushScheduled` says that a buffered byte always has a message or timer on its way
  that leads to a flush; `Flushed` is the liveness property it stands behind.
* `ResetOutcome` says what the boot finds after a reset inside a store. Before the index
  is written that is what it would have found without the store, or the defaults when the
  index is erased; from the erasing of the page to the end of its writing, an erased page
  or a torn one. Between the writing of the index and the erasing of the page it points to
  nothing is said, and the exception is real: what an earlier round left there comes back;
  after a clear, that is what was cleared.
* `WearBounded` excepts a counter or an index page lost by a reset, and a store that is
  cleared: `at_clr_flash_info` erases only the index, the next store begins at page 0 with
  a counter of 0 (`at_recv_cmd.c` 454-468, 620-624), so clearing and storing in turn erases
  page 0 each time and no other page is ever used. The ghost `cut` stays until a store has
  gone on to another page.
* `UpdateComing` and `UpdateAsked` are about a link that has always been alone. With two,
  the second takes the timer and the first may never be asked.
* `ButtonsSettled` excepts a button that was down when the services were added and has not
  moved since: `at_all_svc_added` switches sleep on without looking.
* `NamesKept` ties every change of the bag of kinds in the queue to the handler that is to
  make it: one more is `Add`'s, one less is `Delete`'s, all others are `LoadMode`'s, if the
  file is whole, and `Restart`'s. A load that fails, and everything done beside an edit in
  place, keeps the bag.
* `Displayed` and `SpoiltByForm` say exactly when the window may show something else than
  the queue: an edit in place that does not end, and a queue that cannot be computed.
* `Bootable` holds in every state but two, so nearly whenever the power fails. It needs
  that the first page is erased before the others, and that the head is written after
  everything else. The exceptions are real: during and after an overrun there may be
  nothing to boot, and when an update was cut into, the head of an image that is not whole
  may be written. For this last, three links are needed: one is lost, which closes flash,
  another turns the answers on, and the updater's erases are answered and not carried out
  until a link is made anew and opens flash; the rest is then written over the old image.
* `RunningUntouched` excepts the overrun only. An updater that addresses the part that runs
  is told SUCCESS, but its erases are refused, none of its packets is the first of the other
  part, so that none is kept, and without kept ones a packet does nothing while flash is
  closed and overruns while it is open.
* `Installed` needs more than `Bootable`: the boot must prefer the new image, so a version
  that is not newer is raised in the packets kept back.
* `Undisturbed` says that an update is answered to its end, and neither memory nor flash is
  written where it should not be. It excepts, by the ghost `cut`: another link was lost, or
  wrote anything but 1 to the descriptor, after the updater had asked for answers
  (`ota.c` 177, `ota_service.c` 149-153); a link was lost in the middle of a packet since the
  last reset, after which the first command of the next update is taken for the missing
  piece (`ota.c` 256); or the updater addressed the part that runs.
* `FreshBytes` says that the buffer holds nothing from before the target link was made.

## 4. Disagreements between the code and what it says

1. `orphaned` (`processes.py:179`). A comment at line 74 says a vibration process ends
   when the music process is closed. Forward to the end of a recording with a short last
   frame makes `setpos` raise outside every `try`; no CLOSE is sent and the vibration
   process waits forever.
2. `stop_pipe` (`VibPlayBackend.py:43`). A process attached by the launcher and again by
   the window leaves a queue nobody reads; when its pipe is full the audio process cannot
   exit, and Stop does not return.
3. `ota_save` (`ota.c:463`). A comment at line 462 says that the kept packets are written
   "from 256" to their end. When a link that has nothing to do with the update is lost,
   `ota_deinit` frees them and clears their number and length; the test at line 451 is
   then 0 >= 0, and 0 - 256 bytes, as a `uint32_t`, are written. Flash is open, because
   freeing them has also set `first_loop` (161), which opens it at the next command; the
   updater need only be answered again, which any link can bring about. The write spoils
   both parts.

Stop fails in a second way (`VibPlayBackend.py:28`): with a threaded Tcl, `variable.set` in the
slider thread waits for the main thread, which waits for the slider thread. The run
`vibplay` has such a Tcl, and its `StopCompletes` names the state in which it happens
(`SliderStuck`); without this exception TLC reports it.

A comment at `processes.py:65` says running out of vibration frames "should not happen".
NEXT_FRAME is broadcast (line 191) before the audio notices its end, so a vibration stream
as long as the audio is asked for one frame too many, and its process exits. In `script`
and `followers` the streams have one length, so this is among the behaviours they check.

No document contradicts these, which the models show as well: `control.py`'s prompt (line
78) offers frequencies from 1 to 65536, and 0 is accepted while 65536 is refused, having
five digits; frequencies of six digits make a longer frame. A save of the wave database
(`AtomicWaveBackend.py:12-13`) never succeeds and empties the file. A store that is cleared before every storing wears out one flash page (`WearBounded`), and
an update in which two other links meddle may leave nothing to boot without any overrun
(`Bootable`).

## 5. Proofs

Every safety invariant and action property that a passing run checks, and both
refinements, are theorems. They hold for every value of the constants allowed by the
assumption of their module (`PlaybackAssumption`, `BridgeAssumption`, and so on): any
number of processes, attachments, links, frames, commands and bytes, of flash pages and
of writes to each, of images, their pages, packets and versions, of transforms, forms and
atomic waves, and any lines typed at the controller.

Three assumptions say more than what a constant is. `PlaybackAssumption` has `NA <= NV`
(section 2). `EditorsAssumption` has `BuiltIn # {}`: `init_db` puts a wave there
(`AtomicWaveBackend.py` 20). `ControlAssumption` gives the lines their types and bounds
the frequency by three bytes, the model's bound on digits: more of them only make a frame
longer, and of longer frames nothing is said but that they are made of bytes.

**Alignment** (`PlaybackProofs`). `Aligned` speaks of an empty queue only, so it is not
inductive. The invariant `IInv` speaks of every queue: read event by event from where
the process is, it leads to the position last broadcast (`ChainInv`), and that position
is where the audio is, one ahead while a frame is being written (`ToldIsPos`). A
vibration process ignores frames until it is initialised, so `IInv` also needs that INIT
comes before any frame in the queue (`InitFirst`) and that the client opens before it
plays (`OpenFirst`). Together with `TypeOK` these are preserved by every action: one
lemma about appending to a chain, one about taking its first event, and one case per
action. `LagIsTheQueue` follows from the same chain: without INIT and SEEK in it, every
NEXT_FRAME leads one further and nothing else moves, so the last position is the first
plus their number (`FramesCounted`). That is an induction over the queue, done as a proof
by a least counterexample from the library's theorem on well-founded relations.

**Closing** (`PlaybackProofs`). `NothingAfterClose` and `CloseReachesEveryProcess` follow
from one invariant, `CloseInv`: the run has an exit recorded exactly when it is over
(`apc` is `leaving` or `dead`); a CLOSE in any queue means that the run is over and is
that queue's last event (`ClosedOver`); and after a run that
closed or reached its end, every follower still running has a CLOSE to read
(`CloseReachesAll`). `ImplementsSession` maps every step of
`Playback` to a step of `PlaySession` or a stutter.

**Window** (`WindowProofs`). `GInv` says of the answers what `IInv` says of the events:
until the window is shown nothing was sent and the first answer can only be `num_frame`
(`Loading`), and the last answer on its way, or the last taken, is the audio's position
while it plays (`Latest`). From it follow `WindowTypeCorrect`, `LengthKnown` and
`SliderIsCurrent`. The window is another client than the script of `Playback`: it never
sends INIT, jumps where the user says, and clicks on after the end. The remaining theorems
show that what `Playback` promises holds under the window as well, from the lemmas about
the actions of `Playback` and two new facts: GUI mode reaches its loop with the device open
(`OpenAtPoll`), and a frame is played only while the handler is active (`PlaysActive`).

**Bridge** (`BridgeProofs`). `FlushScheduled` is not inductive: when the timer fires while
`transparent_data_send_ongoing` is set nothing is posted, so the proof needs that the flag
means a flush is queued or under way (`OngoingScheduled`). `OnlyFreshBytes` and
`NoByteTwice` need only the types; the interrupt's new byte is newer than every
connection and every notification. `TickWanted` is inductive as it is: whatever
takes a link from `askers` stops the repetition, also for those that are left.
`BridgeServesOneLink` needs that a set of one element loses its only element.

**Links** (`LinksProofs`). `UpdateComing` needs that the lone link is the one the timer was
last initialised for (`LoneIsLast`) and that nobody is asked before the timer has an
argument (`Beginnings`). `ButtonsSettled` needs that a running timer whose interrupt has
been served compares with the level the pins still have (`LevelRead`).

**Parameter store** (`FlashProofs`). Every step of a store relies on numbers an earlier
step left in memory or in flash (`Stage`: the index names the page that is compared and
written, and is erased while it is written). `WearBounded` needs that a page's counter, or
the one about to be written, is at most one behind its erasures (`PageWear`, `CountWear`),
which holds until a reset leaves an erased page or the
store is cleared (`cut`); without an index nothing has been erased since (`IndexWear`).
Of the arithmetic only two facts are
used: the counter counts up to its limit, and the value of an erased one wraps to 0.
`ResetBringsBack` needs what a boot would find at every stage of a store (`InStore`): the old
parameters or the defaults until the index is written, an erased page from its erasing on.
`ImplementsRegister` maps every step of `FlashStore` to a step of `ParamStore` or a stutter.

**Update over the air** (`OtaProofs`). `Bootable` follows from `BootSafe`: without an overrun
no head is spoilt, and what runs is what the boot would choose and is whole. A step
preserves it if it leaves the part that runs alone and, when it writes a head, the rest is
there or `Spoilt` tells. So the invariant follows the update, as long as nothing cut into it
(`Clean`): pages before the next one are empty (`ErasedSoFar`), packets before the next one
are in flash (`WrittenSoFar`), and all of them are before the restart (`Finished`), since
flash is open then (`Opened`) and the updater addresses the part that does not run
(`Addressed`). Cut into or not, packets are kept for that part only, and as many as there
is room for (`KeptOnce`); without them a packet does nothing or overruns. A version that is
raised makes the boot choose the new image (`UpdateRuns`). The arithmetic needed is that
every packet lies in a page. `UpdateUndisturbed` needs more of an update that nothing cut
into (`Uncut`): from the asking for answers on (`Asked`) it is answered, its buffer is there,
a piece waits for its rest only in the middle of a packet, and the kept packets are kept as
soon as one has been written.

**Mode editor** (`EditorsProofs`). All handlers that change the queue end in `Refresh`,
so one lemma (`QueueActionRedraws`) says what queue each has made, and the others what
`Refresh` does with it: update one element, or none; draw, or raise before that. `Displayed`
needs only the types with it. `OnlyFormsSpoil` needs that adding, taking out and exchanging
transforms keep a queue computable; `KindsKept` that exchanging two elements keeps the bag of
their names, which is a bijection of the positions that hold one.

**Serial controller** (`ControlProofs`). The invariant says which line each frame is the
frame of (`Made`): the board's, the one to repeat, and the one being sent. `RepeatIsSafe`
needs that between sending and reading nothing is repeated (`Waiting`). `DrivesAsTyped`
is then arithmetic: four codes below 4 can be read from a byte, two bytes from a
frequency, and the places of the bytes in the sequence put together.

Only model-checked: liveness, which is out of the prover's reach (`EndTogether`,
`StopCompletes`, `Flushed`, `UpdateAsked`, `VisibleAgain`), and the three violations of
section 4, of which TLC gives the counterexample. Library facts about sequences, finite
sets and well-founded relations are cited; nothing else is assumed.

## 6. Not modelled

* Sample data, features, plots and signal experiments: numeric code without concurrency
  or protocol.
* `LiveStreamHandler` and `LiveVibrationStream`: no caller.
* Bus and serial drivers beyond "works or fails": register access.
* The AT command parser: commented out in the source. Its handler
  (`at_recv_cmd_handler`, most of `at_cmd_task.c`) therefore has no caller in this build;
  only what it does to the parameter store is modelled. The master role (scanning,
  connecting, the client profile `at_profile_spsc.c`) can be reached only through it.
* The wave editor's lists, sliders and waves in memory, and the drawing of a loaded audio.
* `ringbuffer.c`, `decoder.c` and `button.c`: vendor modules that the product's firmware
  does not link (no object of them in `proj/Objects`) and its application does not call.
* Of the update: reading and writing memory and user data by command, the CRC check, which
  is not compiled, and updates by another updater than the one described.
* The rest of the vendor SDK, most of the lines under `src/hardware`: headers,
  register drivers, codecs and other examples. Not this program's logic.

Known hazards that no property here speaks of: a position acknowledged before a seek that
overwrites the slider (`VibPlayBackend.py:28`); an audio file that cannot be opened, which
leaves the window loading (`processes.py:166`); a deletion of the first of two equal
transforms instead of the selected one (`VibModeBackend.py:37`); a flush that is cut to
MTU - 3, whose rest is dropped (`at_profile_spss.c:194`); `transparent_conidx`, which stays 0
after a search for the connected link (`at_cmd_task.c:1294`).

## 7. Plan

1. Proofs: the safety halves of the liveness properties, as `FlushScheduled` is that of
   `Flushed`: what `UpdateAsked`, `VisibleAgain` and `StopCompletes` stand on.
2. Models: the wave editor's two lists and its selection (`AtomicWaveFrame.py:269`); a
   longer queue in `Editors` for deletions among equal transforms.
