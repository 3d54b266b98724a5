# FactoryTest, verified

FactoryTest is the factory test program of a small handheld Linux computer: an
LVGL application in C++ that walks an operator through a sequence of hardware
tests, stores every verdict in a session file, and uploads the finished result
over USB serial. This directory holds its TLA+ models, the TLC configurations
that check them on small instances, and TLAPS proofs, for every size, of most
of what those runs check. All source paths below are relative to the
repository; line numbers are those of the commit the models were written from.

Contents: [1 inventory](#1-inventory) ·
[2 modules](#2-the-modules) · [3 runs](#3-the-runs) ·
[4 findings](#4-what-the-models-found) · [5 fairness](#5-fairness) ·
[6 proofs](#6-what-is-proved) · [7 limits](#7-what-is-left-out) ·
[8 plan](#8-plan)

## 1 Inventory

The program has one user-interface thread, which runs LVGL: timers, key events
and asynchronous calls, one after the other. Around it are worker threads, one
per running hardware test or service, which publish a *snapshot* under a mutex
that a page polls with an LVGL timer. Behind the workers are devices: serial
ports, GPIO lines, sysfs switches, I2C and SPI buses, an IR transceiver, and
child processes.

| Component | State it keeps | Operations | Talks to |
|---|---|---|---|
| Test session store (`model/test_session`) | session in memory; one session and one result file per session | start, recover, set current, begin, evidence, complete, finalize, abandon | file system; called by the view model |
| Application view model and page flow (`viewmodel/app_viewmodel`, `app/screen_namager`, `screens/base_screen`, `widgets/test_confirm_dialog`) | current page, sequence index, scheduled page change, verdict dialog | open page, complete current test, back, flush a page change | session store; every screen |
| Start screen (`screens/start_screen`) | menu position, recovery and power dialogs | full test, resume, single test, settings | view model |
| Result upload (`platform/factory_upload_service`, `screens/test_result_page`) | request snapshot, queue of one payload, serial session, deadlines | start, stop, worker loop, poll | USB serial device |
| Process runner (`platform/process_service`) | pipes, deadline, child | run a command | child processes |
| Keyboard router (`platform/linux_input`, `app/app.cpp`) | last and held key, long-press timer, modal and trigger mode, listeners | press, release, long press, register, capture | evdev; every screen and dialog |
| Keyboard test page (`screens/keyboard_test_page`) | layer, marked keys, counts, advance timer, hold popups | key, long press, release, timer | router; view model |
| PY32 firmware upgrade (`platform/py32_upgrade_service`, `screens/py32_upgrade_page`) | JobState shared by worker and page | confirm, run, poll, reboot | child processes, chip |
| CAP fixture test (`model/cap_fixture_test_model`, service, page) | run state, eight items, pin function, channel flags | start, cancel, cleanup, join | I2C, UART, SPI, USB, GPIO, sysfs switches |
| IR receiver and page (`platform/ir_service`, `screens/ir_test_page`) | device, queue of received frames, snapshot | start, poll, stop, send | IR device |
| IR fixture test (`model/ir_fixture_test_model`, page) | run state, two items, revision | start, cancel, join | IR receiver |
| CAP LoRa-1262 and CC1101 tests (`model/cap_lora_1262_test_model`, `cap_cc1101_test_model`, pages) | run state, two probes, external 5 V | start, restart, cancel, join | SPI, UART, power switch, GPIO lines |
| EXT.IO page and GPIO lines (`screens/ext_io_page`, `platform/gpio_service`) | rows, function, dialog; requested lines of the process and of the page | toggle, select, apply, poll | libgpiod, sysfs |
| Connectivity tests (`model/connectivity_test_model`, `screens/io_test_page` and its views) | per topic: reading, task, panel | open, refresh, `r`, poll, leave | the services below |
| Network, USB, HDMI, SPI and I2C services (`platform/wifi_service`, ...) | none; a scan while it runs | read, scan | NetworkManager, BlueZ, udev, sysfs, I2C |
| Link test (`platform/link_service`, `screens/link_page`) | result, task, settings, evidence of the attempt | refresh, restart, dialog, record | ping, iperf3 |
| UART page (`screens/uart_page`, `platform/uart_service`) | port, input line, hold key, speed | key, release, hold, send, apply, poll | serial port, external bus |
| Performance tests (`platform/cpu_benchmark_service`, `screens/perf_command_view`) | job shared with a detached thread | start, poll, leave | sysbench, stress-ng, fio |
| Audio (`platform/audio_service`, `screens/audio_test_page`, `platform/input_switch_service`) | recording, volume, two locks, sound device | record, play, key sound, poll of the switch | ALSA through miniaudio, evdev |
| Camera (`platform/camera_service`, page) | manager, camera, buffers, requests, frame | start, complete, poll, stop | libcamera, DMA heap |
| Fire in the Pi (`platform/baking_pi_service`, page) | list of processes, cycle, history of metrics | start, cycle, retry, stop | stress tools, sysfs |
| LCD test page (`screens/lcd_test_page`, `platform/backlight_service`) | tile, colour, brightness and its two timers | key, commit, smooth | backlight |
| Logger (`logger/logger`) | open segment; directory of segments | initialize, write, rotate, shut down | file system |
| Configuration store (`model/app_config`, settings of the view model) | settings; one file | load, repair, save, set | file system |
| Serialization, translations, device information | tables; values read and shown | parse, look up, read | files |
| Factory precheck (`factory_precheck/`) | a separate program's step | walk through checks | USB keyboard, power |

`PROJECT.json` lists every component with its files and says what of it is
modelled.

**How components interact.** The start screen asks the view model for a page;
the view model changes the session (three files deep: memory, session file,
result file), then requests the page; the screen manager builds it in an
asynchronous call, *after* the handler has returned. Keys come from the evdev
reader through the router to the page's listener, its navigation buttons, or
the dialog that has captured them. A page that runs a hardware test owns a
model object, whose worker publishes snapshots; the page polls, and its
destructor cancels and joins, except for benchmarks, recordings and the tasks of
the connectivity pages, which go on without it.

**What is hard.**

* *Failure in the middle.* Each write of the session may fail and must be
  rolled back; the result file and the session file are two writes; the CAP
  cleanup has to go on when one of its steps fails.
* *Crashes.* The session must be resumable wherever the program stops.
* *Order on one thread.* Requests are deferred, so a key may reach a page that
  is about to go; a dialog opens inside the handler of the key being routed;
  the new screen registers before the old one is destroyed.
* *Threads.* Workers and pollers share flags and snapshots in several locked
  sections; restart and destruction race with a worker that is finishing.
* *Devices.* Lines are lost, late or unasked for; a channel toggles, so a
  command too many is as bad as one too few; frames are repeated.
* *Time.* Deadlines race with answers, a child outlives its pipes, a delay is
  cut short by the cancellation that caused it.
* *Things that outlive their page.* Asynchronous tasks, detached threads,
  requested lines, the mode of the external bus and files are met by the next
  page; a page that is left in the middle has to give back the rest.

**What makes each part correct** is, in short: memory never says more than the
disk; a completed session has the result of its own verdicts; no test of the
sequence is skipped; the page that is shown is the test that is judged; an
upload is reported only of a result that was sent, with one verdict; a command
ends within its limit and its child is reaped; a key that began in a dialog does nothing
outside it; a reboot follows exactly the successful upgrades; a canceled or
failed run on the HAT leaves the hardware as the next page expects it; an IR frame
is neither lost nor counted twice; a page shows, records and plays what its own
test brought about; no callback reads memory that is gone; the pressure test and
the camera leave nothing behind; logs stay within their limits and settings are
valid, whatever failed. The `hazards` of `PROJECT.json` name each
danger with the line where it bites and the property that watches it.

## 2 The modules

Each module's opening comment says which files it models and what a step is.
`PROJECT.json` maps every definition to the lines it stands for. A definition
whose comment starts with *Mutant:* is not part of a specification: it is what
the definition below it would be with a plausible mistake, and each checked
property is known to fail with at least one of them.

```
SessionJournal  <-- refinement --  SessionManager  <-- EXTENDS --  FullTest
IrReceiver  <-- EXTENDS --  IrPage, IrFixture
TestPages   <-- INSTANCE -- Py32Upgrade, KeyboardTest, IrPage  (EXTENDS IrFixture)
HatPages    <-- INSTANCE -- CapRadio, ExtIo                    (EXTENDS CapFixture)
IoPages     <-- INSTANCE -- LinkTest, UartPage                 (EXTENDS Readings,
                                                                which has BusServices)
JobPages    <-- INSTANCE -- PerfTest, AudioTest, UiSounds, HeadphoneSwitch, CameraTest,
                            BakingPi, LcdTest, LogFiles, ConfigStore
                                                               (EXTENDS ProcessRunner)
FactoryUpload   KeyRouter

FullTestProofs, HatPagesProofs, TestPagesProofs, IoPagesProofs, JobPagesProofs,
FactoryUploadProofs and KeyRouterProofs each EXTEND the module they are named
after; TestPagesProofs, IoPagesProofs and JobPagesProofs EXTEND Induction too
```

**SessionManager** (`test_session.cpp`). State: the class's members (`state`,
`session_id`, `tests`, `current_test`) and the directory (`files`, `results`).
Every public operation is one action, because one thread uses the class; its
parameter `ok` (or `written`, for the two writes of finalize) says which of its
writes succeed. `Commit` is "change, persist, roll back"; `StartNew` also
covers abandoning the old session first; `CompleteTest` covers the call of
finalize at its end. A crash within an operation leaves what a failing write
leaves, so `Crash` (restart with empty memory, maybe another plan) can follow
any action. The order of `files` stands for the modification times that
`load_latest_recoverable` compares.

**SessionJournal** is what a reader of the files may rely on: an append-only
list of sessions of which only the newest, open one changes, where a judged
test stays judged, and where closing and reporting go together.
`SessionManager` implements it (property `Journal`, mapping: the session file's
state and verdicts, the result file's report).

**FullTest** (`app_viewmodel.cpp`, `screen_namager.cpp`, `start_screen.cpp`,
`base_screen.cpp`, `test_confirm_dialog.cpp`) drives SessionManager from the
screen: `SelectFullTest`, the recovery dialog, `Start`, `ResumeTest`,
`OpenItem`, `CompleteCurrentTest`, `Back`, the verdict dialog, and `Flush`, the
deferred page change. `page` is what was requested, `loaded` what is on
display; the hazard is the time in between. A handler that calls the session
twice takes two steps (`doing`), with nothing but a restart in between.

**FactoryUpload** (`factory_upload_service.cpp`, `test_result_page.cpp`). The
worker's `run()` is cut at every point where another party can be seen: a
locked section, a serial call, a received line. The device and the cable are
environment: it sends handshakes, good, bad, late and unasked acknowledgements,
and comes and goes. Deadlines are timers that are off, running or due.

**ProcessRunner** (`process_service.cpp`, POSIX). Caller, child and a
descendant that may hold the pipes open; output is counted in chunks.

**KeyRouter** (`linux_input.cpp`, the listener of `app.cpp`). The router's own
record (`rt`) is the program's `KeyRouterState`; what a client does inside a
callback (open or close a dialog or tool, reset) is chosen freely, which stands
for all screens at once. `hold` and `chord` are history variables: what the
newest hold was told to whom, and whether a second key took part.

**KeyboardTest** (`keyboard_test_page.cpp`). The page as a client of the
router: layers, marks, counts, the 300 ms timer, the two popups.

**Py32Upgrade** (`py32_upgrade_service.cpp`, `py32_upgrade_page.cpp`). The
worker's checks in their order, each passing or failing, the programming, which
may also leave a broken chip or claim a success, the read-back, and the two
flags at the end; the page's `refresh_` takes two steps, since it reads the
result and the flag one after the other.

**CapFixture** (`cap_fixture_test_model.cpp`, its service and page). A run is a
list of operations, written out per `run_..._` function; the cleanup is another
list. One action interprets each kind of operation: any of them may fail, a
cancellation is seen where `canceled_()` or `delay_` looks. The CAP is a device
with two toggling channels, reachable on its HAT pins or, when both its channel
and the host's mux point there, on the Grove connector. The hardware outlives a
run, so that the second run starts from what the first one left.

**IrReceiver, IrPage, IrFixture** (`ir_service.cpp`, `ir_test_page.cpp`,
`ir_fixture_test_model.cpp` and page). The receiver's operations are shared by
two specifications: a page that polls and shows, and a worker that sends, then
listens for the replies F1, F2, ... in order until complete, late or canceled.

**TestPages** puts the pages of the last paragraphs on the program's one
interface loop: `current` is the test page that is open (one at a time, as the
screen manager has it), a step is a step of that page's module, and the others
keep their initial state. The two infrared pages share the receiver session.
The properties are those of the page modules.

**CapRadio** (`cap_lora_1262_test_model.cpp`, `cap_cc1101_test_model.cpp`, their
services and pages). Two workers of one shape: power on, ask two parts, power
off. A step is one call on the hardware or one published snapshot; `kind` says
which of the two is open. `cancel` only sets a flag and joins, so the interface
waits wherever the worker is.

**ExtIo** (`ext_io_page.cpp`, `gpio_service.cpp`). A handler is one step. The
kernel gives a line to one request at a time, also within the process:
`outputs` are the requests of the service's map, `inputs` those of the rows.

**HatPages** lets CapFixture, CapRadio and ExtIo follow one another, visit by
visit, on the same switches and lines; each visit starts on what the one before
it left.

**BusServices** (`wifi_service.cpp`, `bluetooth_service.cpp`,
`ethernet_service.cpp`, `usb_service.cpp`, `hdmi_service.cpp`,
`i2c_service.cpp`, `spi_service.cpp`, and the row makers of the views) is the
services as functions of a *world*, that is, of what the system answers. The
Wi-Fi scan is here with its refusal, its time limit and its late result; its
list has one item for every radio and point, as the code has, so that a point
two radios list is there twice. Beside each function stands what its answer has
to tell of the world (`WifiTells` and its siblings), stated without the function.

**Readings** (`connectivity_test_model.cpp`, `io_test_page.cpp`, the views).
Every topic has a model that outlives the page and at most one task; `data` is
what the model has, `shown` what the panel was last drawn from. `met`, in the
record of a task, is a history variable: the world its service met.

**LinkTest** (`link_service.cpp`, `link_page.cpp`). The service as functions,
then the model with its one task, and the page that shows, restarts, changes the
server, and records the result as evidence. `own` is a history variable: whether
the result was asked for by the attempt that records it.

**UartPage** (`uart_page.cpp`, `uart_service.cpp`). The input line by its
length, the held key, the dialog, the port and its speed.

**IoPages** is IoTestPage: these pages one after the other on one loop, with the
tasks that outlive a page and the external bus that two of them switch.

**PerfTest** (`cpu_benchmark_service.cpp`, `perf_command_view.cpp`,
`perf_single_test_page.cpp`). A job is a thread that nobody joins; two of them
share the YAML file of stress-ng or the data file of fio. What the parsers make
of the tools' output, and the search for the last whole JSON object, are
functions.

**AudioTest, UiSounds, HeadphoneSwitch** (`audio_service.cpp`,
`audio_test_page.cpp`, `input_switch_service.cpp`). AudioTest has the threads of
the recordings, the file and volume they share and the two locks, which the
interface takes too when a key makes a sound. UiSounds looks into the sound
device: a caller is the list of the writes it has still to do, the callback
reads the same fields in several steps without the lock. HeadphoneSwitch is the
poll of an input device that may go and return under another node, also between
the moment it is discovered and the moment it is read, which leaves it open and
an error on display.

**CameraTest** (`camera_service.cpp`, `camera_test_page.cpp`). The constructor
as a sequence of acquisitions, each of which may fail and then takes everything
down; libcamera's thread with its callback; the destructor. The geometry and
the colours of a frame are functions.

**BakingPi** (`baking_pi_service.cpp`, `fire_in_the_pi_page.cpp`). The worker's
cycle cut at every lock and system call; the workloads that are switched on are
a set, started in any order, since nothing tells them apart but their names. A
process is `alive`, and may be `listed`, or `forked` and not yet listed. Leaving the page runs beside it.

**LcdTest** (`lcd_test_page.cpp`, `lcd_test_model.cpp`, `backlight_service.cpp`).
Tiles, patterns and colours; the brightness that was asked for, the one that is
being gone to, and the one on the device; the two timers.

**LogFiles** (`logger.cpp`). The directory as a sequence of segments by age, the
open segment, and what a run does before it opens the next; every deletion,
opening and write may fail.

**ConfigStore** (`app_config.cpp`, the settings of `app_viewmodel.cpp`). One
file and what was read of it; a save fails before or after the rename, and the
power may be cut at any point.

**JobPages** looks at one of these at a time (`current`): they share no state.
They are one specification so that each behaviour is still a behaviour of the
program, and fairness is said once for each.

## 3 The runs

`tlc -workers 2 -config X.cfg M` for each entry of `PROJECT.json`:

| Run | Checks | Shows |
|---|---|---|
| session | TypeOK, MemoryMatchesDisk, CompletedHasResult, EvidenceFromLastAttempt, Journal | two sessions over two plans, one of them with retries, with failing writes and crashes anywhere, implement the journal |
| full_test | FInv, VerdictForDisplayedTest, AbandonedOnRequest | index, session and page stay together although writes fail, keys come late and the program restarts; where the files are sound no page is a dead end |
| upload | Inv, VerdictsHold, PageIsAnswered, StopEnds | one request at a time, one verdict each, shown as it is; whatever the device does, the upload and the worker end |
| keys | KInv, RoutedAsTaken | five keys in every order, with dialogs and page changes inside the handlers |
| pages | UpgradeInv, KeyboardInv, ReceiverInv, FixtureInv, UpgradeEnds, FixtureTurns, InfraredShown | two upgrades failing at any place; seven keys in every order, the timer at any moment; frames that arrive together; two fixture runs, left or restarted at any moment, over replies out of order, doubled, in another protocol or from elsewhere. What the pages never do, and what they show in the end |
| hat | FixtureInv, RadioInv, ExtIoInv, HandedBack, DrivenAsGpio, LeavingEnds | two visits of the three pages in any order, left at any step, with up to two failing operations: what was asked was powered, a verdict is of both parts, lines have one holder, and the next visit finds the hardware as it must |
| io | IoInv, AnswersSound, PanelFollows, SerialSteps, AnswersShown, GridRecovers | the connectivity pages one after the other, again and again: no page without a line, panels that follow their models, evidence that is one whole result, keys and speeds of the UART; whatever a model takes tells truly of the system its own task met |
| process | Inv, JobsInv, DevicesInv, FilesInv, OutputUnderstood, LimitKept, JobsEnd | what runs beside the interface: a command, its limit and its child; two benchmarks and two recordings that meet; the sound callback; the camera; the pressure test; brightness; logs and configuration. What they never do, and that each comes to its end |

Some properties are conjunctions that say which parts they have: `VerdictsHold`
(a verdict stays, and a success was sent), `LimitKept` (the limit ends the
command and keeps its output), `RoutedAsTaken` (who took a key down has it until
it is up), `HandedBack`, `JobsInv`, `DevicesInv`, `FilesInv`, `JobsEnd`. Each
part of them has its own mutant.

An `Inv` (`FInv`, `KInv`, and the four of TestPages) is the conjunction of a
module's type invariant and of the named invariants that relate the parts of
its state: one request at a time and what the page told of it (FactoryUpload),
what a return means and that the child is reaped (ProcessRunner), who has the
keys (KeyRouter), the screen against the session (FullTest), progress,
evidence, popup and dialog against the keys pressed (KeyboardTest), the page
against its thread (Py32Upgrade), the items against the run (IrFixture,
CapFixture), power and lines against the part that is asked (CapRadio). Each conjunct is stated and explained on its own in its module.

The runs that expect a violation are in section 4.

**Bounds, and why they are enough.**

* `MaxSessions = 2`, plans of one and two tests (`FullTest` also three): a
  session, the one before it, and the choice between them; a middle test and a
  last one. `MaxAttempts = 2` where attempts matter: the last one and a stale
  one. The proofs of section 6 hold for any of them.
* `MaxAttempts` is a function of the plan, so that one run has plans with and
  without retries.
* `MaxUploads = 2`, `MaxWire = 1`: an answer for the first upload while the
  second is queued is the smallest confusion. In the behaviours with bad
  handshakes `MaxWithFaults = 1` upload; two in `upload_unsent`.
* `PipeSize = 1`, `MaxOutput = 2`, `MaxWritten = 3`: a writer blocks, and more
  is written than is kept.
* Five keys, one of each kind the router tells apart; any number of them down.
  Four pages: one of no kind, and the three that the router or the global
  listener treats in its own way (keyboard, LCD, UART).
* Seven keys on three layers: a layer of several keys, with the held keys.
* `MaxUpgrades = 2`: a start after a worker that is ending.
* `MaxRuns = 2`, `MaxFaults = 2`: what a run leaves for the next; a failure in
  the run and another in its cleanup. `ResetAttempts = 2` of the code's 3, and
  `MaxPolls = 1` of a deadline: a first and a last round of each loop.
* `MaxHeard = 3` frames, two sent and two expected: both
  replies and one frame more, before, between or after them.
  `MaxErrors = 1` read that fails or is interrupted.
* `hat`: `MaxVisits = 2`, so that every page follows every page; `MaxFaults = 2`;
  `Candidates = Registers = 2` of the parts' addresses and registers, a first
  and a last round of each loop; `Lines` is the one line that a radio and EXT.IO
  both use; `MaxRestarts = 2`.
* `io`: `Tours` says which pages are visited in one behaviour, and any number of
  times. Two topics share nothing but the page, so pairs meet all there is; the
  I2C page and the UART page share the bus. `Seen` and `LinkSeen` are two
  answers of each service: something and nothing, or two that differ, made to
  trip a service up: two radios that share a point while one of them is late, or
  that both fail, each in its own way; a display behind a connector that has
  none; a device that is gone when it is opened; a report in which more was sent
  than arrived. `AnswersSound` is checked over these, at every order of tasks
  and pages, and proved for all others. `MaxInput = 2`,
  `HoldKeys`: one key of each kind, and the key `4` that leaves; `Rates = 2`.
  `WifiMinimum` and `EthernetMinimum` stand for the thresholds: a rate on either
  side of them.
* `process`: `JobTours` are two jobs that share a file, or one; `JobEnds` an end
  that passes and one that does not, per tool. `AudioPages = MaxTakes = 2`: two
  threads that meet. `Clips` are sounds of two rates, one that is missing, and
  one shorter than a `Chunk`, which the callback asks for; `MaxSounds = 4`,
  `MaxNodes = 4`, `Buffers = 3`, `MaxOpened = 2`. Two `Workloads` of the four,
  `MaxCycles = 2`, `MaxSpawns = 3`: each once, and one again. `MaxPercent = 12`
  with the code's step of 5, from a backlight that is off and one at the default
  (`StartLevels`); `MaxChanges = 2`. A segment of `MaxSegment = 4` with
  `Header = 1` takes a line of 2 and not one of 6; the directory of 9 takes two
  segments and `OldFiles` are more than that, one of them larger than a segment,
  of a run with another limit; two runs, three parts. `FoundFiles` are the files the program may find: none, not understood,
  of another schema, with a field or two out of range, and sound; `MaxSaves = 2`.

Some faults are chosen once per behaviour, in Init: `faulty` of FullTest (files
that cannot be written or read) and `bad_handshakes` of FactoryUpload. A
property that a fault of this kind spoils in the code as well is stated for the
behaviours without it; all others hold with it.

`CHECK_DEADLOCK FALSE` is set where the system may stop: the bound of runs,
sessions or uploads is reached, the command has returned, the page is closed.

## 4 What the models found

Four runs expect a violation; each refutes one sentence of the repository by
what the code does (`findings` in `PROJECT.json` has the quotes).

| Run | The code | The sentence |
|---|---|---|
| session_recover | looks at the newest session file only; a newer one that is closed, unreadable or of another plan hides an unfinished one | README:175 "Recover the latest compatible unfinished full-test session" |
| upload_unsent | a bad handshake while an answer is awaited leaves `waiting_result_ack` set; the first upload's answer then marks the second, never sent, as uploaded | README:147 |
| py32_reboot | `refresh_` reads the result before the flag; a worker that ends in between is shown as failed and the device is not rebooted | `py32_upgrade_page.cpp:207` |
| fixture_remains | a cancellation in the delay after the CAP came back to HAT makes the cleanup toggle it out again | `cap_fixture_test_model.cpp:1140` |

`upload` therefore states what it says of verdicts without bad handshakes, and
the last line of `Restored` (a part of `HandedBack`) in CapFixture, that the CAP's channels are on HAT, is
stated for runs without a cancellation: `fixture_remains` is its counterexample.

Smaller disagreements, met while modelling, shape a guard or a property but
have no run of their own:

* `ACK_RESULT` names no upload: one that comes after the timeout of its upload
  is taken for the answer to the next (`factory_upload_service.cpp:539`).
  `VerdictsHold` says that the RESULT line was written, not that it was
  this line that was acknowledged.
* A child that closes its output and runs on is waited for without a limit
  (`process_service.cpp:429`), although `process_service.h:24` says that it is
  killed. `LimitKept` ends its promise when both pipes are closed.
* The waits of the CAP cleanup return at once after a cancellation
  (`cap_fixture_test_model.cpp:1119`).
* `active_item_` starts at 6, an item since there are eight, so a failure
  before the first check is reported as one of USB
  (`cap_fixture_test_model.h:92`). `ItemsInOrder` starts with the first item.
* The key `r` takes the answer of a task and drops the word that something
  changed (`io_test_page.cpp:371`): the panel stays old until the next reading.
  `PanelFollows` leaves out that step.
* A restart of the link test while one runs, or whose answer has not been taken,
  begins a new attempt with the old test's answer, or without it
  (`link_page.cpp:227`). The model keeps count of whose the result is.
* Two stress-ng jobs, or two recordings, that run at once write the same file
  (`cpu_benchmark_service.cpp:568`, `audio_test_page.cpp:155`).
* A request of the camera that cannot be queued again is lost; when all are, the
  picture stands still without a word (`camera_service.cpp:652`).
* A setting whose save fails after the rename is taken back in memory although
  the file has it (`app_viewmodel.cpp:185`).

## 5 Fairness

* FactoryUpload: the worker and the page's poll are weakly fair (a thread that
  is scheduled, an LVGL timer that repeats), and a running deadline is due in
  the end. The device and the cable are not fair: they may do nothing.
* ProcessRunner: the caller and the clock are weakly fair. The child and its
  descendant are not: they may hang, with their pipes open.
* TestPages: the page's thread (every call of it has a time limit or ends), the
  interface's timer, which refreshes the page or advances its layer, the
  interface once it has begun to join or to redraw, and the deadline of the IR
  fixture's wait. Only one page is open, so each is one condition for all of
  them. No key, no command and no frame is fair.
* HatPages: the worker, whose calls all return, and the interface thread once it
  has begun to leave (the cancel, the join). It is not fair that a page is left.
* IoPages: the poll timer of the open page, the link test, which ends since each
  of its commands has a time limit, and, while a page that reads is open, its
  service and the time until the next refresh. A page is left or not.
  `AnswersShown` and `GridRecovers` leave out an operator who presses the
  restarting key again and again.
* JobPages: the thread of every job; its view's timer; the interface within a
  handler; every write of the sounds' callers and the callback, which the audio
  library calls while the device runs; the polls; the camera's constructor,
  destructor and callback; the pressure worker and its stop; a killed process;
  the two brightness timers. The audio threads are *strongly* fair: they wait
  for locks that are free again and again, and a mutex lets a waiter in in the
  end. Nothing makes a tool, a key, a frame or a removed switch come.

`SessionManager`, `FullTest` and `KeyRouter` have no fairness: their properties
are about safety, and nothing forces an operator to press a key.

## 6 What is proved

Every theorem below is about the same specification and the same definition as
the run that checks it, for every value of the constants its module assumes.
`TheInv` in *follows from* is the inductive invariant of the argument.

| Theorem | Module | States (run) | Follows from |
|---|---|---|---|
| TypeThm, MemoryMatchesDiskThm, CompletedHasResultThm | FullTestProofs | `TypeOK`, `MemoryMatchesDisk`, `CompletedHasResult` (session) | `IInv` |
| EvidenceThm | FullTestProofs | `EvidenceFromLastAttempt` (session) | `IInv`, `EInv` |
| JournalThm | FullTestProofs | `Journal`: SessionManager implements SessionJournal (session) | `IInv`, step by step |
| ScreenThm | FullTestProofs | `FInv` (full_test) | `GInv` |
| VerdictThm, AbandonThm | FullTestProofs | `VerdictForDisplayedTest`, `AbandonedOnRequest` (full_test) | `GInv` |
| SessionThm | FullTestProofs | `FSpec => Spec`: whatever is proved of the session manager is true of it below the screens | `IInv` |
| UploadThm, VerdictsThm | FactoryUploadProofs | `Inv`, `VerdictsHold` (upload) | `UInv` |
| RouterThm, RoutedThm | KeyRouterProofs | `KInv`, `RoutedAsTaken` (keys) | `RInv` |
| UpgradeThm | TestPagesProofs | `UpgradeInv` (pages) | `UInv` of that module |
| RebootThm | TestPagesProofs | a reboot follows only a verified upgrade: the safety half of `UpgradeEnds` | the same |
| KeyboardThm | TestPagesProofs | `KeyboardInv` (pages) | `YInv` |
| FixtureThm | TestPagesProofs | `FixtureInv` (pages) | `XInv` |
| HalfDuplexThm | TestPagesProofs | nothing is sent while the receiver is open: a half of `FixtureTurns` | `XInv` |
| ReceiverThm | TestPagesProofs | `ReceiverInv` (pages) | `SessionKept` |
| FixtureTurnsThm | TestPagesProofs | `FixtureTurns` (pages) | `XInv`, `SessionKept`, `CountKept` |
| CommandThm | JobPagesProofs | `Inv` of ProcessRunner (process) | `PInv` |
| TimeoutThm | JobPagesProofs | the output from before the limit is kept: the safety half of `LimitKept` | `PInv` |
| ConfigThm | JobPagesProofs | `ConfigSound`, a conjunct of `FilesInv` | `CInv` |
| FilesThm | JobPagesProofs | `FilesInv` (process) | `LogKept`, `CInv` |
| JobsThm | JobPagesProofs | `JobsInv` (process) | `BInv` |
| DevicesThm | JobPagesProofs | `DevicesInv` (process) | `DevicesIInv` |
| RadioThm, ExtIoThm | HatPagesProofs | `RadioInv`, `ExtIoInv` (hat) | `HatInv` |
| CapFixtureThm | HatPagesProofs | `FixtureInv` (hat) | `CapInv` |
| HandedBackThm | HatPagesProofs | `HandedBack` (hat) | `HatInv`, `CapInv` |
| DrivenThm | HatPagesProofs | `DrivenAsGpio` (hat) | `CapInv` |
| IoPagesCorrect | IoPagesProofs | `IoInv` (io) | `IoKept` |
| ViewFollowsModel | IoPagesProofs | `PanelFollows` (io) | `ReadingsKept` |
| SerialStepsHold | IoPagesProofs | `SerialSteps` (io) | `SerialKept` |
| ServicesAnswerSoundly | IoPagesProofs | `AnswersSound` (io) | `IoKept`, and each service |

**Assumptions on the constants.** Each says what the code fixes or what makes a
bound a bound; TLC evaluates them in the runs.

* `PlansAssumption`: a plan that gets past `start_new` is a non-empty sequence
  of distinct known tests; `BoundsAssumption`, `NoResultAssumption`: the bounds
  are naturals, the value for "no file" is not a result. FullTest's
  `PagesAssumption`: no test has the name of a page that is not a test.
* `UploadBounds`: naturals; no more uploads with bad handshakes than uploads.
* `KeysAssumption`: the keys with a meaning of their own are keys, and differ.
* TestPages' `PagesAssumption` collects those of its pages: naturals, and what
  `LayersAssumption` says of the keyboard's layers and keys. A frame of the IR
  pages has an address, a command and a protocol, and nothing else.
* `IoAssumption`: every page finds some world; what the system lists as an array
  (radios and their points, network devices, connectors, addresses, the lines of
  a report) is a finite sequence, what it lists by path a finite set, and
  strengths and ranks are integers. A radio's reply and the outcome of selecting
  an address are among those the code tells apart. The default server is one of
  the hosts, and the thresholds are naturals.
* `ProcessConstants`, `JobConstants`: naturals. `JobFiles`: the files a program
  may find, the default configuration among the valid ones. `JobSounds`: a clip
  has a length and a rate. `JobLogs`: limits are naturals and a segment has room
  for its header; the files that earlier runs left have names of their own, and
  any size.
* `HatAssumption`: naturals; there is a first address and a first register; the
  lines of EXT.IO are some of the three of the code's table, each once, and at
  least one (a page of no rows is no page of this program).

**The arguments.** An invariant that a run checks is seldom inductive; what had
to be added is the interesting part of each proof. Every addition was first
checked by TLC on the run's instance, then proved action by action.

*SessionManager.* `IInv` is `TypeOK /\ MemoryMatchesDisk /\ CompletedHasResult`.
None of the last two is inductive alone: closing a session (`FinalizeWith`)
writes the result of the tests *in memory* and the state into *the file*, so
that the two agree only because memory matched the file before; and an operation
on a session finds its file only because `session_id` is typed as an index of
`files`. A lemma per building block (`CommitPreserves` for
change-persist-rollback, `FinalizePreserves` for the two writes,
`ResetPreserves`) serves a lemma per operation, and `NextPreserves` goes by cases
on Next. `EvidenceFromLastAttempt` needs `EInv`, that no evidence is of an
attempt 0: `record_evidence` counts a test that was never begun as in its first
attempt.

*SessionJournal.* Every step is one step of the journal or leaves it alone.
`MemoryMatchesDisk` makes the session in memory the newest entry (`OpenEntry`),
and writing it changes only that entry (`RewriteNewest`). Change-persist-rollback
is `Progress` when it keeps the verdicts or adds one; the two writes of
`finalize` are one `Progress` with the report of completed tests; `start_new` is
`Begin`, after `GiveUp` of the open session, and only `GiveUp` when its first
write fails. Loading, refusals and restarts write nothing.

*FullTest.* `GInv` adds to `FInv` that tests are judged in the order of the plan
(without it, the index that `resume` looks for could have judged tests behind
it), that a running sequence stands where the *last session on disk* says, even
when that session has left memory, where each handler may be caught between its
two calls, and, where the files are sound, that a page change that is pending
leads somewhere else. `IInv` is taken over from the session manager: every
handler is a step of it, which is also `SessionThm`.

*FactoryUpload.* `UInv` places the worker (where it may hold a port or a
payload), says that the next publish writes over no verdict, and counts each
upload once among queue, hands and device. The half about verdicts is stated
where handshakes are good, as section 4 says why.

*KeyRouter.* `RInv` adds that a key the router calls pressed is the key of the
newest hold, on the page that is on display, with the flags of that hold: every
reaction inside a handler resets the router, so what remains pressed has seen no
reaction. `KeysKnown` adds that with one key at a time the pressed key is down.

*TestPages.* Py32Upgrade: the flag `done` follows `running`, which follows the
result, success is only said past the last check, and what a refresh has read
and not yet used is still true (`PagePlaced`). Keyboard: marks, counts and the
cardinality of what is still to press agree on each layer, the timer never runs
on the last one, and a popup is of a key that can be held. IrFixture: the run is
in progress exactly until its verdict, Enter joins only after one, and the
device is open only while listening.

*IrReceiver.* `ReceiverInv` relates what is shown to *all that was ever heard*,
which no step looks at. `Session(m, e)` says what has become of it: the end of it
is still in the driver; of the changes among the rest, `m` were handed out and
the others wait in the queue, in their order, and the last frame read is the last
change (`Waits`). Without that last part a change could be taken for a repetition
of a frame that was not the one before it. `TakesOne` carries `Waits` over a
frame, `TakenWaits` over a whole read. For the page (`ReceiverKept`), `m` is what
it has shown while the device is open, and what it has shown is a beginning of
the changes even after the session was closed with some of them unread or
unshown. The session passes from page to page (`SessionKept`), listening for any
frame or for the fixture's. For the fixture (`Counted`), the replies a run has
counted are the fixture's among the `m` changes it was handed; these only grow,
so that at a verdict they are a beginning of the fixture's among all changes, and
the frame that failed a reply is one of them (`OwnGrow`).

*Readings.* A page may only open on a model with something to show, so
`ModelKept` follows the model while no page shows it: a model with nothing has
no task and is aged, so that the page that opens on it asks at once, and a task
that is done has brought something. That takes, for each service, that it never
answers without a word (`NeverWithoutWord`), and for each list that its rows are
there (`RowsAreThere`). The I2C page has a grid instead, and no such promise.

*LinkTest.* `LinkKept`: there is one test (`OneTest`), the result on display is
its own, and unless the attempt began over an older test, it was started with the
settings of the dialog (`OwnTest`): evidence that is recorded when it ends is
then the evidence of that attempt. The old test of an earlier visit is the case
that takes the flag `inherits`.

*UartPage.* `SerialKept` adds to the property only the types of what a key sets.

*BusServices.* `AnswersSound` is about the step at which a model takes an answer,
or a link test ends: a task keeps the answer to the world it met until it is
taken (`Met`), whatever was left and opened meanwhile, and the answer to a
world tells truly of it (`AnswerTells`, a lemma per service). Lists are put in
order by CHOOSE over the injections from `1 .. n` (`Ascending`); `CanBeOrdered`
proves that there is one, by `ByParts`, and that the items are the points of all
radios one for one follows from what the sequence is (`PointsListed`). For a link
test it takes that the report's sum received is found from its end, and that
`test` changes its phase in no other step (`LinkEnds`).

*LogFiles.* A limit on a sum that is recomputed from the directory is not
inductive: what a line adds is not known when room is made. `LogSound` says
instead that all files but the last leave room for a whole segment
(`BeforeLast`), which `make_directory_room_locked` brings about (`RoomsFit`) and
a longer last file does not touch, and that the last file, the only one a run
writes, is within its limit; of older files it says nothing, since they may have
been written under another one. Of two names one is free among one more than
there are files (`Pigeons`, `FreeIsFree`), so no file is written twice. A line is
cut only in a segment that has just been opened, whose size is its header's.

*Induction.* The library's induction theorems take an operator, which none of
the provers can instantiate. Induction.tla does without: a set of subsets of a
finite set has a smallest member, by the library's theorem that the proper part
is well-founded (`Smallest`); so every set of numbers has a least (`Least`), a
set of numbers closed under successor holds them all (`Upwards`), and a function
defined by its steps exists and is typed (`Recursion`). What a recursive function
of the models computes is proved of every input in this way: the changes among
the signals of a session, the fixture's among them, the size of a directory.

*ProcessRunner.* `PInv` accounts for every chunk of either pipe: written is kept
plus what is in the pipe, or more than that and then `truncated`; a pipe closed
by the caller has no writer and nothing left.

*ConfigStore.* `CInv`: whatever may survive a power cut is a file with valid
fields, unless it is the file that was found and could not be understood, which
the program has then left alone.

*PerfTest.* `BInv`: two unfinished jobs of one kind are both marked as mixed,
and fio's data file is there only for a job that runs.

*Devices.* UiSounds: what the caller has still to write determines which of its
fields the callback may find set, and the callback runs only with a device that
is initialized. AudioTest: a thread that met no other is alone, and all that it
reads is its own; a lock has one holder, and the volume the owner of the lock.
CameraTest: what the constructor holds follows from its place, and the callback
has one request. LcdTest: one of the two timers at a time, and either leads to
the level asked for last. BakingPi: one listed process per workload, the flags
are those of the listed ones, and none is left between two cycles.
HeadphoneSwitch: nodes are numbered as they come, so that one which has gone is
never the driver's again (`JackInv`).

*HatPages.* The three pages share switches, lines and the count of faults, so
`HatInv` is one invariant: only the open page is away from its start
(`OnePage`); the radio's power, request and verdicts follow from the worker's
place (`RInv`); each line is held by the service's map or by a row, as the
function says, rows without an error show what is, and a closed page holds
nothing (`EInv`).

*CapFixture.* What a run leaves behind follows from where it stood in the list
of 129 operations, so `CapInv` ties the state to ranges of places. While a run
goes on, the bus is on Grove from place 37 to 45, each channel of the CAP is out
between its two toggles, and the model remembers it as out a little longer, until
the delays after the second toggle are over (`CapSwitches`, `CapOwn`); what is
remembered as released, or as GPIO, is so (`CapKnows`); the items before the
place have passed and those after it are pending (`CapItems`). In the cleanup,
whatever is behind the place has been done, unless an operation of a cleanup
failed (`CapCleanup`). Only the channels need that nobody cancelled
(`CapChannels`): a cancellation between a toggle and the end of its delays leaves
a channel at HAT that is remembered as out, which is what `fixture_remains`
shows. HatPagesProofs first proves which operations are at which place, by
appending the eight `run_..._` functions one after the other (`KindsByPlace`,
the `...Places`), then that a step is one of fifteen moves that speak of places
only (`RunMoves`), or one step of the cleanup (`CleaningMoves`), and then keeps
each part of `CapInv` over the moves. `FixtureElsewhere` says why the visits of
other pages in between do no harm: they switch the power only, and a fixture
page that is gone relies on neither supply.

**Only model-checked.**

* Liveness, which is out of the prover's reach: PageIsAnswered, StopEnds,
  InfraredShown, LeavingEnds, AnswersShown, GridRecovers, JobsEnd, and the halves
  of UpgradeEnds and LimitKept that end in `~>`. So is `ENABLED`,
  and with it that no run deadlocks where its cfg has deadlock checked.
* What the code violates: the properties of section 4.
* `OutputUnderstood`: which text of a tool's output is the last whole object,
  which verdict follows from it, and what a sample of a pixel becomes. It is
  an evaluation over sets of inputs that no constant enlarges, so that the run
  settles it; for texts of any length it would take induction over the fold that
  reads them.

## 7 What is left out

* SessionManager: JSON, metadata, timestamps. A successful write is taken as
  durable: a file system that loses a renamed file after a power cut is not
  modelled, although the result of the directory's fsync is ignored
  (`test_session.cpp:191`). A clock that steps back is left out too.
* FullTest: settings, titles, the menu; the drawer and power dialogs.
* ProcessRunner: line splitting; a child that writes without a pause
  (`read_available` takes what is there in one step); the Windows branch. A write
  to an input that nobody reads any more ends the writing (EPIPE,
  `process_service.cpp:292`): nothing in the source ignores SIGPIPE, which would
  end the program instead, and the model takes it as ignored. A child keeps its
  input open until it ends. A read that fails otherwise than for want of data is
  taken as the end of the pipe.
* KeyRouter: the SDL keyboard of the desktop build and key repeat. Time is
  abstracted: a held key may or may not be held long enough. With two keys down
  a phantom long press is possible (`linux_input.cpp:387`); no document of the
  repository excludes it, and `LongPressIsHeld` is stated for one key at a time.
* KeyboardTest: scrolling by a pointer, since the product has none.
* CapFixture: payloads and voltages; 2 of the 5 samples of a GPIO line; a
  failing sysfs switch may or may not have switched; a register write that
  fails has not been performed; the CAP keeps its channels while 5 V is off;
  the second `cancel()`, of the destructor, does nothing new. Items are counted
  from 1, so `active_item_ = 6` of the code is item 7 here.
* IrReceiver: decoding of pulses (a frame is address, command and protocol);
  discovery of the device. Sending succeeds or fails.
* CapRadio: what a register or a frame holds is good or bad; a delay passes.
* ExtIo: at most one row fails per reading; a pointer.
* BusServices: names are short values; where the code sorts, a number gives the
  order. `read_i2c_byte_data` is not used by what is modelled.
* Readings: the loading modal, the result dialog, two functions of the menu that
  nothing calls; the wording of a row. Readings older than the refresh interval
  are *aged*, whatever the interval.
* LinkTest: packet by packet output; an interface is up or not for a whole test.
* UartPage: the text of the line and of the log, what the keys for theme and
  screenshot do, and the verdict dialog, which is FullTest's.
* PerfTest: the menu page, which nothing opens (`show_perf_test_page` has no
  caller); percentages are counted in quarters. The removal of fio's data file is
  taken to succeed: the code only writes a trace when it does not
  (`cpu_benchmark_service.cpp:600`), and the file then stays until the next run.
* AudioTest, UiSounds: samples; the volumes of sounds; errors of ALSA are
  failures of a step.
* CameraTest: pixel formats other than the one converted; a request completes or
  is cancelled by `stop()`.
* BakingPi: a killed process ends within the second that is waited for it. In
  the code one that does not stays in the list, and may meet its successor.
* LcdTest: drawing, theme and a pointer, which the product has not; percents up
  to 12 instead of 100; the verdict dialog is FullTest's.
* LogFiles: levels, colours and the console; one process logs at a time, file
  times grow, and the limits stay the same from the model's first run on (what is
  there before it may be of other limits).
* ConfigStore: five fields of the file, each valid, missing or bad; a power cut
  within a save leaves what some end of it leaves.
* Components without state of their own (single system calls, layout, tables of
  texts) are listed as not modelled in `PROJECT.json`, each with the reason.

## 8 Plan

Written so far: the modules of section 2, in that order of importance (the
session first, then what drives it, then what reports it, then input, then the
tests with threads, then what is left behind between pages, then files). Next:

1. `Precheck`, the separate program that walks the operator through power,
   display and keyboard, and the start menu with its drawer and dialogs.
2. The pure algorithms against reference definitions: bytes into lines
   (`process_service.cpp`), IR pulse decoding (`ir_service.cpp`), the tables of
   the device information pages.
3. The power cut of the session files: a rename that is lost although the
   operation succeeded.

Modules that share the interface loop, a power switch or the file system are
checked together, in few runs, rather than one by one.

Proofs: every invariant of a run has its theorem but `OutputUnderstood`, and
every action property but the halves that are about liveness. What is added to
the models next brings its own.
