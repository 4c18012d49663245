# A verification of scd, the Steam Controller daemon

TLA+ modules that model the daemon's own logic, TLC runs over small instances
of them, and theorems proved with TLAPS. Every definition is translated from
the source; `PROJECT.json` maps each one to the lines it stands for, and lists
the components, runs, hazards, findings and theorems.

    tlc -workers 2 -config MCMapper.cfg MCMapper     # a run
    tlapm MapperProofs.tla                           # the proofs

## The system

scd is one process with one mapping thread (`daemon/src/main.rs`), an IPC
thread (`daemon/src/ipc.rs`) and, for an emulated DualShock 4, a USB/IP thread.
The on-screen keyboard (`osk/`) is a second process with a Wayland loop, a
thread that reads the daemon's state and one that sends key requests. `scdctl`
(`ctl/`) sends single requests.

| part | state | operations | interacts with |
|---|---|---|---|
| configuration (`core/src/config.rs`) | modes, layers, bindings, globals, OSK bindings | parse, look up and cycle modes | mapper |
| mapper (`mapper.rs`) | active mode, global states, routes, quarantine, OSK bindings in use, held counts, axes, last report | `process`, `set_mode`, `next_mode`, `reload`, `suspend`, `release_all` | called by the main loop, returns outputs |
| main loop (`main.rs`) | keyboard state, grace period, battery, rumble level | one command batch, one device event, one rumble poll per iteration | everything |
| outputs (`output.rs`) | uinput keyboard and mouse, the virtual gamepad, a pending rumble stop | `emit`, `key`, `set_gamepad`, `poll_rumble` | host, virtual gamepads |
| device manager (`device.rs`) | receiver, active slot, last report's time, owed disconnect | `poll`, haptics, feature writes, `reset`, `scan` | usbfs, main loop |
| usbfs transfers (`usb.rs`) | claimed interfaces, per slot two input transfers and one output transfer | `open`, `poll`, `write`, `control`, `reap`, drop | kernel |
| virtual gamepads (`gamepad/`) | buttons, axes, contacts; the table of force-feedback effects | `emit_*`, `update_source`, `poll_rumble` | games, through uinput |
| USB/IP transport (`dualshock/usbip.rs`) | a socket pair, a worker thread, the shared report and rumble level | attach, `serve`, `rumble`, drop | the kernel's vhci driver, main loop |
| OSK state (`core/src/ipc.rs`) | session, visibility, click ring, pads | `set_visible`, `update_pad`, `record_click`, `clicks_since` | published to the keyboard |
| IPC server (`daemon/src/ipc.rs`) | clients, last encoded line, command queue of 32 | accept, read a request, answer, publish | clients, main loop |
| keyboard process (`osk/src/keyboard.rs`, `wayland.rs`) | page, shift, click cursor; surface, frame and redraw flags | `update`, `disconnect`, `show`, `hide`, `redraw` and the Wayland callbacks | daemon, compositor |
| rendering, themes, KDL reader, report codec, `scdctl`, packaging | none worth a model | pure functions and I/O | |

What is hard here, and what must nevertheless be true:

* *Overlapping bindings.* Global chords, layers, chords and single buttons
  compete for the same presses, modes change in the middle of a report, and
  outputs are shared through counts. Nothing may stay pressed with nobody
  pressing it, nothing of an old mode may survive, a press starts one binding.
* *Modality of the keyboard*, which a chord, a client, a disconnect and a
  reload can all end.
* *A bus that fails, reorders and remembers.* Reads and writes fail between
  polls, reports of a controller that is gone are still queued, silence is a
  disconnect. The main loop must see whole connections.
* *Lossy hand-overs.* Haptic writes are dropped when busy; keyboard states are
  coalesced; slow subscribers are cut off; the daemon restarts under the
  keyboard. Levels and states must arrive, clicks be typed at most once.
* *Two threads and a queue between them.* A command may be refused, carried out
  and answered, carried out and cut off, while either side ends. What a client
  is told must be true, and both threads must end.
* *Buffers that the kernel owns.* Transfers complete at any point of a call,
  opening fails halfway, dropping waits for what was submitted. A request that
  the kernel cancels may already have been carried out by the USB/IP worker.
* *A gamepad that outlives modes and controllers*: what a game sees must be
  what is held now, whatever came before.

## The modules

| module | what it is |
|---|---|
| `MapperConfig` | the shape and validity of a configuration |
| `Mapper` | the mapper, the main loop around it, the host's view of the devices |
| `MCMapper` | configurations for TLC |
| `MapperProofs` | proofs about `Mapper` |
| `Link` | abstract: what the device manager promises the main loop |
| `DeviceManager` | device manager over the receiver's input transfers; implements `Link` |
| `UsbTransfers` | opening, using and dropping the receiver's transfers |
| `ReceiverProofs` | proofs about `UsbTransfers` and `DeviceManager`, and that the latter implements `Link` |
| `Haptics` | abstract: rumble from the level a gamepad reports to the motor |
| `XboxRumble` | the emulated Xbox pad's effect table and its events |
| `RumblePath` | `XboxRumble` and the main loop composed; implements `Haptics` |
| `RumblePathProofs` | proofs about `Haptics` and `RumblePath`, and the refinement |
| `VirtualPads` | the two virtual gamepads as values: buttons, axes, contacts, what a game reads |
| `AxisMapper` | from reports through axis mappings and the main loop to `VirtualPads` |
| `AxisMapperProofs` | proofs about both |
| `UsbipTransport` | the emulated DualShock 4's worker thread against the kernel and the main loop |
| `UsbipTransportProofs` | proofs about it |
| `OnScreenKeyboard` | clicks from the pad to the typed key, across threads and processes |
| `OnScreenKeyboardProofs` | proofs about it: types, the history, order and session of typed clicks |
| `Calls` | abstract: what the control socket promises the client of one command |
| `IpcServer` | the IPC thread and the main loop's half of it; implements `Calls` |
| `IpcServerProofs` | proofs about it, and the refinement |
| `KeyboardSurface` | the keyboard's Wayland surface against the compositor |
| `KeyboardSurfaceProofs` | its invariant, proved |
| `MC...` | instances for TLC |

Definitions headed *Fault* are plausible bugs. No behaviour uses them: each
replaces one definition to show that a property notices (see `mutants`).

### Mapper

`Mapper::process` runs to completion on one thread, so one report could be one
step. It is several, because its three loops have iterations that depend on
each other: `pc` says which loop runs and `index` which iteration. `report`,
`before`, `reserved` and `captured` are its locals. No other action is enabled
until `pc` is `"idle"` again. A key that a client taps is two steps as well,
as `Outputs::key` sends a press and a release. `heldOver` is a history
variable: what the connection's last report had down. No step reads it; it
lets a property speak of the controller without trusting `previous`, the
mapper's own memory of that report.

* `BeginReport` is `DeviceEvent::State` with any set of buttons.
* `GlobalQuiet`, `GlobalHold`, `GlobalSwitchMode`, `GlobalToggle` are one
  iteration over the global bindings: nothing to do, an output pressed or
  released, or a mode change or keyboard toggle that ends the call.
  `GlobalToggle` includes the `suspend` and `set_visible` of `main.rs` `emit`.
* `OskStep` and `OskDone` are the loop over the keyboard's bindings.
* `UpdateRoutes` and `RouteSwitchMode` are everything `process` does to the
  mode's own bindings. Releases come first and do not depend on each other; of
  the candidates for a trigger the first eligible one in the code's order
  (`Precedes`) starts; the first one that changes the mode ends the call. The
  declarative form replaces four nested loops. A binding that presses an output
  before a later one changes the mode is released again in the same call, so
  that call is the mode change alone.
* `TiltAxes` stands for the axis, gyro and trackpad arithmetic: a report
  deflects any subset of the axes the mode maps, and the others are neutral.
* `SetHeld` is `set_held`; `held` are the counts, `down` is what the host sees.
* `IpcKey` and `IpcKeyReleased` are `Request::Key`: the key goes down, under a
  shift of its own if one is asked for and none is held, and both go up. The
  host knows nothing of counts, so a key that a binding holds is up afterwards.
* The other `Ipc...`, `GraceEnds` and `Disconnect` are the other calls of the
  main loop.

### DeviceManager and Link

Each action named `Poll...` is one way `DeviceManager::poll` returns. A poll
that opens the receiver reads it in a later step. `silent` abstracts
`last_state`: at least 750 ms have passed. `WriteFails` is a failing haptic or
feature write. `Switch`, `Fill` and `Tick` are the world: controllers go on
and off, the kernel completes a slot's transfers in the order they were
submitted (`oldest`), time passes. A controller that is off may have reports
still queued.

`Link` has one variable for whose connection it is and one for the last event.
`Sessions` is `Link`'s specification under the mapping: the slot is `active`,
except that `disconnected` means *lost, not yet reported*.

### UsbTransfers

`phase` says what the device is doing, `at` which interface or slot its loop or
call is at. `sent` and `done` are the kernel's: transfers it works on, and
completed ones in the order it will give them back. `pending` are the flags in
the code's transfers. Every claim and every submission may fail, at which point
`open` returns and drops what it has. `Discard`, `ReapOwed`, `Release` and
`Close` are the steps of `Device::drop`, in its order; the file is closed
before the slots are freed, because of the order of the struct's fields. The
kernel's completions (`Complete`) and the plug come at any time.

### Haptics, XboxRumble and RumblePath

`Haptics` starts from a level: `GameRumbles` changes what the gamepad is asked
for; `PollStop` and `PollLevel` are `Outputs::poll_rumble` and the write that
follows; `Refresh` the repetition after 40 ms. `Write` drops what it is given
unless the output transfer is free. `SetGamepad` replaces the gamepad by any
other, or none. `PlayHaptic` is every other user of the output transfer.

`XboxRumble` says where the level comes from. The kernel owns the slots and
makes events; an upload or an erasure waits until the daemon has handled it
(`asked`), playing does not wait. `Fetch`, `Handle` and `Finish` are
`Xbox::poll_rumble`: fetch what there is, one event after the other, report a
change. Magnitudes are levels; an effect of another kind than rumble, which the
daemon refuses, is left out.

`RumblePath` runs both: `wanted` becomes what the table amounts to, `reported`
its `last_output`. While a poll is going on only the kernel and the games move,
as the daemon's main loop is one thread. `ImplementsHaptics` is `Haptics`'s own
specification, claimed of the composition.

### VirtualPads and AxisMapper

`VirtualPads` has no state: a gamepad is a record, and `EmitButtons`,
`EmitAxes`, `UpdateSource` and `SetBattery` are the code's calls on one, in the
code's integers (a stick of -32768..32767 or 0..255, a trigger of 0..255, a
hat). Calls for several buttons or axes of one report are one application, as
they touch different ones. A deflection is a whole number of `1/Unit`; with
`Unit = 2` a half deflection rounds, and the centre of a DualShock's stick does
not lie on a step.

`AxisMapper` is the axis loop of `Mapper::process` (engagement by buttons or by
a trigger with two thresholds, deadzone, sensitivity, swap and inversion, sums
and clamping) and the order of calls around it. `ReportMapped`,
`ReportToggles` and `ReportSwitchesMode` are the three ways a report can go;
which of the bound buttons are held is any set here, as `Mapper` says which.
The curve of `scale_axis`, gyro smoothing and filters are left out.

### UsbipTransport

The main loop creates, attaches, polls and drops the device; the worker reads
a request, answers at once or, for an input report, sleeps until it is due
(`ahead` is `next_input` minus now, as the loop sees it, and may be negative by
`Late`); the kernel submits, unlinks, receives replies and releases the port
when the stream ends. `replies` and `requests` are the two directions of the
socket pair, which only `open` bounds. The worker answers an unlink with
success without looking at it. A new device is made only when the kernel has
released the old port.

### IpcServer and Calls

The IPC thread runs callbacks of one event loop, each an action: `Accept`,
`Ready` (in its five outcomes), `OnResponse`, `OnPing`, `OnShutdown`. A client
writes chunks: the two parts of a command, cut between two characters or within
one, a subscription, an empty or a bad line. `TakeLine` keeps what `read_line`
had before; what follows a newline may or may not be lost with the
`BufReader`. The main loop takes a batch, carries each command out, publishes
a changed state in two steps (watch channel, ping), answers, and ends by a
signal or by the error of a command, dropping the queue before the server.

`Calls` has for each connection what its client was told and whether its
command was carried out. `KeepsPromise` is its specification under `ReplyTo`.

### OnScreenKeyboard

`state` is the main loop's `OskState`. It is also what the watch channel holds,
because every change is published in the same iteration. `Send` is the ping
source's callback in the IPC thread, `inbox` the socket and the channel behind
it up to the Wayland loop (a first-in-first-out queue of states, closed by
`Disconnected`), `requests` the queue of the output thread, which sends one at
a time and waits for its answer. A click carries, beside its sequence number,
the run and session it was made in. No message of the code carries these; they
only serve the properties. `Restart` is a daemon that stops and starts again
with everything of its own forgotten.

### KeyboardSurface

The handlers of `wayland.rs` `State`, each an action. `content` is all that
rendering reads of the `Keyboard` (`update` returns whether it changed), a
`Shape` is a size and scale, a `Face` what a drawing looks like. `Redraw` is
used with the values its caller has given `frame_pending`, `redraw_pending` and
`buffer`; a canvas of another shape than the renderer's is the error path that
sets `exit`. The compositor is external. It may send things for a surface
that the keyboard has dropped (`alive` but not `layer`) until `Forget`, so a
handler that did not compare surfaces would be fooled. `acked`, `frames` and
`shown` are the compositor's knowledge of each surface.

## The runs

| run | question | states |
|---|---|---|
| `mapper` | modality, host against counts, routes, captures, freshness, holders; a press acts once; only a tap takes what is held from the host; with layers, chords, reloads, tapped keys, with and without gamepad | 611 937 |
| `mapper_theft` | violation: counts do not keep a shared output down | |
| `receiver` | whole connections; a controller that is gone is let go | 98 796 |
| `receiver_order` | violation: reports of one slot are reordered | |
| `rumble_path` | the effect table follows the games; no rumble left behind; levels reach the motor; `Haptics` is implemented | 698 880 |
| `haptics_stop` | violation: stops do not arrive | |
| `osk` | at most once, in order, in the right showing; reconnection and restart | 1 336 152 |
| `surface` | configure before drawing, pacing, buffer sizes, no change undrawn | 41 800 |
| `ipc` | truthful answers, no silent close, joined lines, `Calls`, both threads end, subscribers up to date | 338 736 |
| `usbip_transport` | unlinks come late, every URB given back, levels reported, dropping ends | 142 533 |
| `gamepad` | what a game sees is what is held now; fresh engagement; the right touchpad | 5 946 |
| `usb_transfers` | pending is what the kernel has, but for one orphan; interfaces come back; dropping ends | 79 908 |

Bounds.

* `mapper`: four buttons are enough for a global chord, a layer hold and two
  competing bindings at once. The configurations use each kind of binding and
  each kind of overlap, and any can be loaded while any other is active; the
  proofs cover all the others.
* `receiver`: two slots show the interference of controllers.
* `rumble_path`: one level besides rest tells a stale level from a fresh one,
  two slots let one be taken again while the other plays, and a queue of two
  lets an event come in while another is handled.
* `osk`: a history of one overflows with two clicks; two showings are needed
  for a key to be late for one, and two runs for a restart. `MaxInbox` stands
  for the socket buffer; a subscriber whose inbox is empty is never too slow
  for one line. `MaxClicks`, `MaxSession` and `MaxRun` cap the code's counters
  in the guards of `RecordClick`, `Toggle` and `Restart`.
* `surface`: the present surface and one that is not forgotten yet; identities
  are used again after `Forget`, so the number of surfaces that come and go is
  not bounded. Two contents, sizes, scales and monitors let each change while
  the other is awaited.
* `ipc`: two connections at a time, whose names are used again without end
  (`Forget`), a queue and a batch of one so that both fill up, and scripts that
  send a command in two parts or subscribe and write on, which is then refused.
  One connection's clients cut their command between two characters, the
  other's within one, so that each way meets the other. An empty line and a
  line that is bad from the start are in the model but not in this run: the
  rest of a command whose first part was lost is such a line already.
  `MaxVersion` caps the keyboard states in the guard of `Publish`.
* `usbip_transport`: three requests per device allow one to be answered, one to
  be slept on and an unlink to chase either; devices come and go without end.
  `Late` bounds how late the worker may be, at three periods.
* `gamepad`: four modes: Xbox, two DualShocks with different touchpads, none;
  three pulls of a trigger, between and beyond both thresholds.
* `usb_transfers`: two interfaces, so that the second can fail after the first.

Deadlock is not checked in three runs, where the system may rest: in `osk`
nobody need touch the controller again, in `usbip_transport` nobody need plug a
gamepad in again, and in `ipc` the daemon ends.

Fairness. It is assumed of the daemon's loops, the kernel and the compositor,
and of no user, game, client, controller or failure.

* `DeviceManager`: the main loop polls for ever, and a controller that is off
  lets 750 ms pass in silence; queued reports may delay the timeout.
* `RumblePath`: the main loop fetches, handles and finishes, and the kernel
  completes submitted transfers. Games that never rest can keep every poll
  busy, and `Repeat` is then enabled only now and then; it gets strong
  fairness because the loop looks at the time after each poll that has nothing
  to report. `EffectsArrive` excludes games that go on loading effects: the
  daemon may meet a new effect in the slot of one it thinks is playing.
* `OnScreenKeyboard`: the IPC thread answers its pings, the input thread reads
  and reconnects after its one second sleep, the Wayland loop handles its
  channel.
* `KeyboardSurface`: the compositor configures a surface that was committed to
  it, and answers frame callbacks, as the protocol asks of it.
* `IpcServer`: each source of the event loop gets its turn, and the main loop
  goes on. Neither is given a rest: commands can arrive for ever.
* `UsbipTransport`: the main loop polls and finishes what it has begun, the
  worker and the kernel go on while there is something to do, time passes.
* `UsbTransfers`: a call runs to its end, and the kernel gives back what was
  discarded or belongs to a receiver that is gone.
* `Mapper` and `AxisMapper` have safety properties only.

## What is proved

`MapperProofs`, for every finite set of buttons and every set of valid
configurations (the assumptions of `MapperConfig` and `Mapper`): types, that
the host shows what the counts hold, modality, that acting bindings are
pressed, that nothing is stale, global capture, one route per trigger, that
the quarantine is redundant, that nothing is held without a holder
(`HeldHasHolders`), and the two action properties. `PressedAnew` rests on
`CallInv`: between calls `previous` is what the last report had down, and in a
call `before` is. `ShownStaysShown` rests on `TapInv`: a tap brings a shift of
its own only when that shift is not held, so it cannot take it from a holder.

The properties are not inductive one by one. A route is fresh only if it
belongs to the active mode; it respects captured buttons only if, in the
middle of a call, `captured` already covers the globals that were handled and
the routes still to be filtered are not looked at; OSK bindings are grounded
only up to the loop's index. `CallInv` states these ties between the locals and the
state, and `IInv` is the conjunction that `Init` establishes and every action
keeps (`ActStep`, `HostStep`, `TypeStep`: one step per action, one lemma for
each action that disturbs several conjuncts). The totality of `Precedes` (`PrecedesTotal`) gives
`OneRoutePerTrigger`: of two fired candidates with one trigger one precedes.

`HeldHasHolders` bounds a count by three others: routes, OSK bindings and
globals that hold the output. `CountInv` states it in the middle of a call,
where the globals that `update_globals` has not come to yet are counted by the
*last* report and the others by the present one. Routes are counted by
themselves, one per trigger, because a filtered route must give up exactly one
count while others hold the same output; the cardinalities come from the library's
lemmas on finite sets, one element at a time.

`ReceiverProofs`, for any number of interfaces of `UsbTransfers`: types, `PendingIsOwned` and
`InterfacesComeBack`. `PendingIsOwned` speaks of all transfers and has one
exception, `Orphan`: the first read of a slot whose second read could not be
submitted (see *Worth knowing*). `DeviceInv` adds what they need. The kernel gives nothing
back twice or while it works on it (`OnceEach`), so clearing a flag is final.
While the device is being opened the flags are right for *every* transfer, also
for the reads of the slot it does not have yet, of which at most the first is
pending (`Agrees`, `OnlyFirst`); only so can the slot join the device with both
reads queued. Every interface has its driver or is on the list of claimed ones
(`Accounted`), however far opening came.

Of `DeviceManager`, for any number of slots: `ReceiverInv` is inductive, and
under it every step is a step of `Link` or leaves it unchanged
(`ImplementsLink`, the safety part of `Sessions`). The part that matters is
that `disconnected` implies that nothing is active: a connection could
otherwise begin before the last one's end was reported.

`RumblePathProofs`, for any set of strengths and effect slots: the types of
`Haptics` and `RumbleHasSource`; that `RumblePath` implements `Haptics`
(`PathIsHaptics`), so that `RumbleHasSource` holds of the whole path; and that
the daemon's table follows the games (`TableIsRight`). The level of a pad is
the maximum of a finite set, which exists by a least counterexample over the
sizes of sets. The property says of each slot what the table will be once the
events still on their way are handled, with quantifiers over the queue instead
of a fold. It is inductive once it is known that at most one upload or erasure
is among those events, and none when none is asked for (`TableInv`): with two,
the answer to the first would overtake the second.

`OnScreenKeyboardProofs`, for any history length and bounds: types;
`HistoryIsNewest`, the assertion of `OskClicks::next` in every state that is
held, published or still to be read; `TypedOnceInOrder`; `TypedInItsSession`.
`SoundInv` adds that a shown state has a session number, which `record_click`
relies on. `RecordedSound` is the argument about the ring. A click is typed
once and in order because requests are queued in the order of their clicks,
all later than what was typed last and before the cursor (`Queue`), and because
what is still to be read is not older than the cursor. The latter holds within
a run of the daemon only, and a state does not tell its run: `OrderInv` says
that there is *some* assignment `g` of runs to the lines of the inbox, rising
along it and changing only where a connection ends, under which the sequence
numbers count up (`Runs`, `Points`, `Ends`). `TypedInItsSession` then follows
from each request naming the session of its click, which `Request::Key` compares
with the daemon's; across a restart it would be false, see the findings. What
`up to the close` selects is a recursive function over the clicks; that it
exists and picks clicks in their order goes by its least counterexample.

`IpcServerProofs`, for any number of clients, scripts and any queue: types, the
three safety properties of the run, and that `IpcServer` implements `Calls`
(`PromiseKept`, the whole of `KeepsPromise`). The invariant has four parts.
`NetworkInv`: a connection is in one place, and one that is not closed has been
told nothing. `EndInv`: `Shutdown` is the last event, and is sent only when no
command can be queued any more, which is what makes the answer of a command in
hand come before it. `PipelineInv`: a command is in the queue, in hand or
among the answers, in one of them only, its connection is disabled meanwhile,
and it is carried out between the first and the last. `PartsInv`: what was read
of a command in two parts is its beginning, or nothing when that beginning
ended within a character, which is the one way a valid command is called
invalid. The refinement needs one thing
more: a client with a command on its way has been told nothing even after its
connection was closed by the end of the thread (`Unanswered`), as the command
may still be carried out then.

`AxisMapperProofs`, for any modes, mappings and reports whose numbers are
multiples of `1/Unit`: types, `HistoryIsForgotten`, `EngagementIsFresh` and
`TouchpadOfTheMode`. `HistoryIsForgotten` compares the gamepad with a
new one and is not inductive: the hat of an Xbox pad, say, is written one axis
at a time, and the directions behind it are not part of what a game sees.
`Shows` says in full what a gamepad of each kind looks like that was told to
hold some buttons and deflections; `ButtonsShow` and `AxesShow` are the facts
about the operators, that telling a pad what changes takes it from showing one
state to showing the next. Of an Xbox trigger, which buttons and axes both
write, it says only that it rests when both rest. Freshness needs that
nothing is engaged while the keyboard is shown. The types include that no
deflection overflows its field in the device's report (`XboxStickBound`,
`Ds4StickBound`, `TriggerByteBound`, from a bound on rounded quotients), and
that the sum over the mappings, a recursive function, exists and is a number
for every axis (`AxesAfterType`, by least counterexample).

`KeyboardSurfaceProofs`, for any numbers of surfaces, contents, sizes and
scales: `SurfaceInv`. Its strengthening is that a surface exists only while the
keyboard is visible, that `configured` implies that *this* surface was
configured, and that the kept buffer has the present shape or is none; the
three safety properties of the run follow. `RedrawKeeps`, `ShowKeeps` and
`HideKeeps` are the lemmas about the functions that the handlers share.

`UsbipTransportProofs`, for any number of requests, levels, periods and
attempts: types, and `UnlinkComesLate`. An unlink is answered with success
whatever became of its target; that is true to the kernel only if the target's
own reply has been received by then. `LateInv` says why: the numbers of the
requests on their way, of the one in hand and of the replies rise in the order
of the pipeline (`InOrder`), an unlink's target is older than the unlink
(`TargetsOlder`), and whatever is not given back is still somewhere in that
pipeline, or the worker has ended (`Accounted`). When the unlink's reply is at
the head, nothing older is left in the pipeline. `LateStep` puts together
one lemma per kind of step; the argument needs the worker to be sequential.

Only model-checked: the liveness properties (`Departed`, `EffectsArrive`,
`Follows`, `CatchesUp`, `Settled`, `Terminates`, `LatestShown`, `GivenBack`,
`LevelReported`, `DropEnds`, the fairness part of `Sessions`), as liveness is
beyond the prover. Every safety property that a passing run checks is proved.

## Findings

* **Counts lose a holder** (`mapper_theft`). `suspend` empties `held` but
  leaves the global bindings active. When such a global is released later, it
  takes the count of a binding that has pressed the same output since, and the
  output goes up under it. With `enter` on a global `y` and on the OSK's `x`:
  hold `y`, open the keyboard, press `x`, release `y`. What cannot happen is
  the opposite: `HeldHasHolders` shows that no output stays pressed.
* **Reports are reordered** (`receiver_order`). With two completed transfers
  in a slot, the lower index is read first, whichever is older.
* **A stop can be lost** (`haptics_stop`). A haptic written while the transfer
  is pending is dropped, and only non-zero levels are repeated.

Worth knowing though no document speaks of it: session numbers start from 1 in
each run of the daemon, and a key request that the keyboard process has not
sent yet when the daemon is restarted may name a session of the new run.
`TypedInItsSession` is therefore claimed of clicks of the current run only.
When the second read of a slot cannot be submitted, `open` returns at
`usb.rs:118` and frees the local slot, whose first read the kernel still has,
before the device is dropped and its file closed. The model leaves such a read
with the kernel (`SubmitRead` takes it out of `pending`), so that it may be
given back as unknown while the device is dropped; it is the `Orphan` of
`PendingIsOwned`. A key that a client taps while a binding holds it is released
on the host under that binding (`output.rs:151`), and stays up until it is
pressed again; `HeldStaysShown` says that a tap does this to no other output.
`read_line` drops what it read when the bytes at hand end within a character
(`ipc.rs:265`), so a command cut there is answered as invalid. An effect of a finite length is never
stopped by the daemon (`xbox.rs:231`): only a stop or an erasure by the game
ends it. A new DualShock shows half a battery until the next battery event.
And when the compositor closes the keyboard's surface while a monitor is left,
`closed` makes no new one: it comes back with the next state of the daemon or
the next monitor.

## Not modelled, and why

Gyro and pointer arithmetic, curves and trackpad haptics: floating point;
parsing and encoding of configuration (`kdl.rs`), reports (`protocol.rs`) and
JSON: pure functions of bytes; rendering and themes: pixels; creation of uinput
devices, control transfers and descriptors: fixed sequences of system calls
whose failure ends the daemon or the connection; logging. Pages and the shift
latch of the keyboard decide which key a click means, not whether it is typed.
`scdctl` sends one line and prints one. Sequence and session numbers are 64 bits
wide in the code and do not wrap in any run of the daemon. A failed uinput
write ends the daemon (`?` in the main loop) and is left out of `Mapper`;
`IpcServer` has it as the error of a command.

## Plan

1. Composition: `Mapper` under `Link`, so that its `connected` is the link's.
2. Pages and shift latch of the keyboard against an abstract typist.
3. The routing loops of `process` as recursive functions, checked equal to the
   declarative `UpdateRoutes`.
