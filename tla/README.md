# Verification of the mosh client for Windows

This directory holds TLA+ models of the mosh client in `src/`, the TLC
configurations that check them, and proofs checked by TLAPS. Paths below are
relative to `src/client/mosh-client/` unless they start with `src/`.

- [1. The system](#1-the-system)
- [2. Modules](#2-modules-and-the-code-they-model)
- [3. Runs](#3-what-the-runs-check)
- [4. Fairness](#4-fairness)
- [5. Proofs](#5-proofs)
- [6. Disagreements between code and comments](#6-disagreements-between-the-code-and-its-comments)
- [7. What is left out](#7-what-is-abstracted-and-what-is-left-out)
- [8. Plan](#8-plan)

## 1. The system

A user types into a client, which shows a copy of the screen of a terminal that
lives on a server. The two synchronise *states*: the client's `UserStream` (all
that was typed) goes one way, the server's `Complete` (screen and echo
acknowledgment) the other. Each direction is an instance of the same template,
over UDP datagrams that are lost, repeated, reordered and re-routed. `mosh-server`
is not in this repository, but it runs the same `Transport` template, so both
ends of the protocol can be read here.

| Component | State | Operations | Talks to |
|---|---|---|---|
| `Transport` (`network/networktransport-impl.h`) | `received_states`, `receiver_quench_timer`, `last_receiver_state` | `recv`, `tick`, `wait_time`, `get_remote_diff`, `start_shutdown` | calls the sender on every packet, the connection for datagrams |
| `TransportSender` (`network/transportsender-impl.h`) | `current_state`, `sent_states`, `assumed_receiver_state`, `ack_num`, the timers `next_ack_time`, `next_send_time`, `mindelay_clock`, `last_heard`, `pending_data_ack`, shutdown flag and counters | `tick`, `wait_time`, `process_acknowledgment_through`, `set_ack_num`, `set_data_ack`, `remote_heard`, `set_current_state`, `start_shutdown` | `Fragmenter`, `Connection::send` |
| `Fragmenter`, `FragmentAssembly` (`network/transportfragment.cc`) | id, last instruction and MTU; the pieces of one instruction | `make_fragments`; `add_fragment`, `get_assembly` | compressor, protobuf |
| `Connection` (`network/network.cc`) | sockets, remote address, sequence number expected, saved timestamp, SRTT and RTTVAR, hop and round-trip times, MTU | `send`, `recv`, `hop_port`, `prune_sockets` | cryptographic session, Winsock |
| `UserStream` (`statesync/user.cc`) | queue of user events | `push_back`, `subtract`, `diff_from`, `apply_string` | state of `Transport` |
| `Complete` (`statesync/completeterminal.cc`) | emulator, echo ack, input history | `act`, `diff_from`, `apply_string`, `set_echo_ack`, `register_input_frame` | state of `Transport` |
| `STMClient` (`stmclient.cpp`) | network, overlays, framebuffers, quit sequence, `clean_shutdown` | `main`: frame, wait, network, input, end of session, `tick`; exceptions | everything |
| `PredictionEngine`, `NotificationEngine` (`terminaloverlay.cpp`) | epochs, predicted cells and cursors; message and its expiry | `new_user_byte`, `cull`, `apply`; `adjust_message`, `wait_time` | fed by the main loop |
| `Select`, clock (`util/select.h`, `util/timestamp.cc`) | handles, poll counter; frozen time | `select`, `freeze_timestamp` | Winsock events |
| Parser (`terminal/parser.cc`, `parserstate.cc`, `terminaldispatcher.cc`, `util/mbrtowc_utf8.cc`) | undecoded bytes, state, parameters and strings collected | `input`, `collect`, `newparamchar`, `parse_params` | calls the emulator |
| Emulator, `Framebuffer` (`terminal/terminal.cc`, `terminalfunctions.cc`, `terminalframebuffer.cc`) | cells, cursor, margins, tabs, rendition, modes, title, clipboard | `print`, the registered functions, `resize` | `Complete`, overlays |
| `Display` (`terminal/terminaldisplay.cc`) | none but what the last frame showed | `new_frame`, `put_row` | `Complete::diff_from`, main loop |
| `Session` (`crypto/crypto.cc`) | nonce counter, blocks encrypted | `encrypt`, `decrypt` | `Connection` |
| Console and sockets (`win32compat/`) | key tables | key translation, `dup_socket` | main loop, `Connection` |
| Launchers (`src/mosh_go`, `src/mosh_cs`) | | start `mosh-server` over ssh, read port and key, start the client | the client's entry point |

### What is hard in it

The client is one thread, but everything it does races with the network and the
clock.

- **Unreliable delivery.** Every number, acknowledgment and throwaway may come
  late, twice, out of order or not at all. *Correct*: a diff is only ever applied
  to the state it was made from; sender and receiver always share a state to
  diff from; the view only moves forward, through states the sender really had.
- **Bounded queues.** The sender drops a state from the middle of its queue, the
  receiver refuses states while its queue is full. *Correct*: as above, and the
  newest state still gets through.
- **Timers recomputed at every wakeup**, reset by every send, overridden during
  shutdown, and interrupted by exceptions. *Correct*: a change, an
  acknowledgment and a heartbeat go out by their deadlines, no more often than
  the frame rate; the loop does not spin; a shutdown ends.
- **Shutdown**, a state with the number `uint64_t(-1)` that is sent again under
  the same number. *Correct*: who sees a clean end has lost nothing.
- **Fragments** of several instructions mixed, under path MTUs that change.
  *Correct*: what is put together is an instruction that was sent.
- **Prefix cutting** of keystroke queues at both ends at different times.
  *Correct*: the pty is given what was typed, once and in order.
- **Roaming**: the client hops ports and keeps old sockets for a while, the
  server answers to the newest packet. *Correct*: an old packet does not draw
  the server back; no socket is closed that the server still answers to
  by a client that was not held up for long.
- **16-bit timestamps** with a reserved value and a hold-time correction.
  *Correct*: a sample is the time two packets spent on the network.
- **Predictions** judged by frames, acknowledgments and expiry from different
  packets, and made on a screen that shows other predictions. *Correct*: what the
  host does not echo an engine that overwrites never shows; only the host confirms predictions; all that
  can be judged is judged before a frame is drawn; late predictions are shown; in
  the end the user sees the host's screen.
- **Echo acknowledgments**, recomputed from a history each time. *Correct*: they
  never go back, and come neither too early nor too late.
- **Bytes into functions**: characters broken at any byte of any read, sequences
  interrupted by others, parameters beyond their limits. *Correct*: what is
  decoded is what UTF-8 says, and the emulator is asked to do what was written.
- **Screens by difference.** A frame is computed from two screens and written
  through escape sequences to an emulator that has state of its own: margins, a
  pending wrap, modes. *Correct*: the client ends up with the server's screen,
  and with nothing left behind that the next frame does not expect.
- **A session from beginning to end**: messages that override each other, deadlines,
  an escape key read byte by byte, exceptions that skip the rest of an
  iteration. *Correct*: the bar says what is true and is drawn in time, a client
  without a server gives up, and the server is sent what was typed.

`PROJECT.json` lists these hazards line by line, with the property that covers
each, and every component with what is modelled of it.

## 2. Modules and the code they model

```
Session        the main loop: keys, messages, ends of a session
  | drives
  +-- Prediction  --assumes an echo ack that grows-->  EchoAck (on the server)
  +-- SenderTimers  --when Transport may tick, must tick, may quit
  |
StateSync  <==refines==  Transport  --relies on-->  InstructionChannel <==refines== Fragments
    ^                        |                                                         |
    |                        | states are                                           Connection
    +======refines======  UserStreams   (keystrokes)
                          Screens       (Complete terminals)
                            EXTENDS Display EXTENDS Emulator EXTENDS Framebuffer
                            Parser: bytes to the functions of Emulator
```

**`StateSync`** is the abstract specification of one direction: a sender publishes
snapshots under growing numbers, and a view moves forward among them. **`InstructionChannel`**
is the abstract specification of what carries instructions: what arrives was sent.

**`Transport`** models both ends with all the numbers and queues. `sent[e]` is
`sent_states` and `received[e]` is `received_states` of endpoint `e`, as sets of
`[num, state]` (both lists are sorted by number; only the shutdown state can be
listed twice, which `extra` counts). Its actions are `SetCurrentState`,
`StartShutdown`, `Tick` (`tick` with either `send_empty_ack` or
`send_to_receiver`, `add_sent_state`'s culling, the prospective resend, and
`send_in_fragments`) and `Recv` (`recv` as a whole: acknowledgment, duplicate,
missing reference, throwaway, quench, apply, sorted insertion, `set_ack_num`).
Where the code would read freed memory (an erased base or reference), the model
takes any value. The network `net[e]` keeps every instruction for ever and may
deliver any of them at any time.

**`SenderTimers`** models when a sender sends. One iteration of `STMClient::main` is
a walk through `phase`: `Select` (`wait_time`, then sleep until then or an event),
`Hear` (at most one packet), `Change` and `StartShutdown` (input), `Quit` (three
ways) or `Tick`; `RecvError` and `TickError` are the exceptions that skip the rest
of an iteration. `MindelayClock`, `NextSendTime` and `NextAckTime` are
`calculate_timers`; `Assumed` is `update_assumed_receiver_state`. The variables
`last_send`, `data_heard`, `unsent` and `slept` are history that deadlines are
measured by.

**`Fragments`** models `Fragmenter` and `FragmentAssembly`: `Send` is `make_fragments`
(with the id kept when nothing changed), `AddFragment` is the receiver's half of
`Transport::recv` (`Collect`, or `Assemble` with `get_assembly`), and `ChangeMTU` what
the connection does to the MTU. An assertion that fails sets `sender_dead` or
`receiver_dead`.

**`UserStreams`** models `user.cc` under the transport of keystrokes: `Type`, `Wait`
(`wait_time`, whose `rationalize_states` cuts), `Send` (`tick`), `ProcessAcknowledgment`,
`Recv` and the server's `GetRemoteDiff`. An event is its place in what was typed,
so that what the pty is given can be compared with what was typed; both lists, sorted by
number, are sets of `[num, state]`.

**`Connection`** models both ends of `network.cc` and the network between: `ClientSend` (with
`hop_port` and `prune_sockets`), `ServerSend` (with the association timeout), `ServerRecv`
(`recv_one`, with targeting by sequence number), `ClientRecv` (with pruning, and the
round trip that `Transport::recv` reports) and `Elapse`, the common clock. Each end sends
at any time, at once or after any silence: when the timers make it send is the matter of
`SenderTimers`, and either may be suspended. `NewPacket` stamps a
packet with the sender's 16-bit clock and the corrected timestamp it answers;
`Sampled` is what `recv_one` makes of it.

**`Session`** models `STMClient::main` and the `NotificationEngine` around everything below:
`OutputNewFrame` (`adjust_message`, the bar, and both `wait_time`s with the poll while
connecting), `Select`, `ProcessNetworkInput`, `ProcessUserInput` (byte by byte, with the
escape sequences), `Quit` (the three ends), `Diagnosis` (the connecting message and its
timeout), `Tick`, and the exceptions: `NetworkException` and `CryptoException` skip the rest
of an iteration, `FatalException` ends the session by way of `shutdown`, as the ends do.
What the transport does is any of what `Transport` and `SenderTimers` allow.

**`Framebuffer`**, **`Emulator`** and **`Display`** are operators on screens. A screen is one
record; `Framebuffer` has what `terminalframebuffer.cc` can do to it, `Emulator` the
registered functions, `print` and the operating system commands (`Apply`, `Act`), and
`Display` has `new_frame`, which returns the functions that are written to get from one
screen to another. **`Screens`** puts them together as `Complete` does: the host writes
to the server's screen or the window is resized, and `FrameSent` computes a frame from
the last screen the client is known to have, which the client's emulator applies.
What `new_frame` may or may not find to scroll, depending on which rows are shared
objects, is a choice (`Scrolls`).

**`Parser`** models the way from bytes to those functions: `ReadByte` is `UTF8Parser::input`,
which decodes none, one or two characters, and `ReadChar` is `Parser::input` for one of
them: the transition of its state, the actions of leaving, transition and entering,
and what they make the `Dispatcher` collect and the emulator do (`call`).

**`Prediction`** models `PredictionEngine` in the main loop. `engine` is the object, whose
operations (`NewUserByte`, `Cull`, `KillEpoch`, `Apply`, ...) are operators from one value
of it to the next; an iteration of `STMClient::main` is `Wait` (select, with the wakeups of
`wait_time`), `Hear` (`process_network_input`), any number of `Type` (`process_user_input`
for one key, a paste, or `process_resize`) and `Iterate` (`tick`, then `output_new_frame`,
which culls and applies). `Host` and `EchoAck` stand for the other end: a host that
handles keys when it likes and may turn echo on and off at a return or control
key, and an echo ack that may run ahead of what the host shows (it waits 50 ms, not
for the host). Only the number of the echo ack and that it grows is used, which is
what `EchoAck` is about.

**`EchoAck`** models `Complete::register_input_frame`, `set_echo_ack` and `wait_time` under the
server's loop, which is not in this repository and is represented by the one thing
it must do: sleep no longer than `wait_time`, register what came, recompute.

The `MC` modules give TLC finite values. Operators marked `mutant` in a comment are
plausible bugs of the operator they stand next to; they are used nowhere in the
specifications, and each property is checked to fail when one of them takes its
operator's place.

## 3. What the runs check

| Run | Shows | Bounds, and why they are enough |
|---|---|---|
| `transport` | `KnownStateIsHeld`, `ReceivedIsPublished`, `ReferenceSurvivesThrowaway`, `AckedIsLatest`, `SameNumsSameDiff`, `CleanShutdownIsComplete`; client-to-server refines `StateSync`; `EventuallyInSync` under `FairSpec` | Two states, the client sends up to number 2 and the server up to 1 with one empty ack, and both quit at any time (the shutdown is 3); queues of 3 and 2 instead of 32 and 1024, so that culling and quenching happen. Every hazard needs at most three snapshots: a base, a state culled or out of order, and a later one. No symmetry (liveness). |
| `sender_timers` | `AssumedIsFrontOrBack`, `NeverSilent`, `DataIsAckedSoon`, `ChangeIsSentSoon`, `NoSpin`, `ShutdownEnds` | The unit of time is about 50 ms in proportion, not in value: intervals keep the order of the code's constants (collecting delay ≤ frame interval, which lies on either side of `ACK_DELAY`, < `ACK_INTERVAL` < `ACTIVE_RETRY_TIMEOUT`). A fast and a slow path, two changes or requests, one packet heard, one exception anywhere (deadlines move by the time slept after it), time for a heartbeat and a whole shutdown. |
| `fragments` | `NothingHeldBack`, which includes that no assertion fails; refines `InstructionChannel` | Lengths 1 to 4, MTU 1 or 2, three ids, at most 3 fragments (0x8000 in the code), so one instruction is too long. |
| `connection` | `ServerFollowsClient`, `SampleIsRoundtrip`, `SocketsClosedAreUnused` | Four packets one way, at any of six times, and two the other; two sockets, clocks modulo 8 that wrap at different times, hold and sample limits of 2 and 5. Hop interval 1: a hop, a state sent from the old socket and again from the new, a round trip of it, and the pruning. The socket age is exactly two hop intervals, so that the condition of the last property asks for a packet sent at the very time of the pruning; asked for one a unit earlier, TLC finds a counterexample. All three are proved for all values. |
| `user_streams` | `OutputIsTyped`, which includes that no assertion fails; refines `StateSync` | Three keystrokes, numbers up to 4: two cuts on each side with a diff under way across both. |
| `prediction` | `SilenceIsKept`, `PredictionsFit`, `JudgedAreGone`, `CreditIsTheHosts` | Engines that overwrite and that insert, seven kinds of keys, two sizes of screen of which the larger has two rows, three keys in two frames: to show what is not echoed takes a key that confirms an epoch, one that turns echo off, and one typed in silence; to use a row that does not fit takes a prediction, a resize and a key. All four are proved for all values. |
| `prediction_time` | `LatePredictionsShow`; `TruthPrevails` under `FairSpec` | One row, two keys of three kinds, two preferences; four units of time for thresholds of one and two, and a send interval that starts above the triggers and falls below. |
| `echo_ack` | `AckedAreOld`, `AckedInTime`, `NeverDecreases` | Five frames, three times the timeout: a history of five, of which two or three fall due at once. |
| `parser` | `CallsFollowGrammar`, `Decoding` | One byte of every class that decoder and states tell apart, six bytes: introducer, private marker, parameter, intermediate, final and one more; limits of 2, which six bytes exceed. |
| `screen` | `ScreensTypeOK`, `SameDisplay`, `ClientStaysPlain`, `SameModes` | Windows of 3×3 and 4×2, one function of every kind, three of them in up to two frames, on a blank, a full, a scrolled and a cornered screen: a scroll needs three rows, a frame that breaks the next one two frames. Erasing pays from two blanks and moves from three columns, so that both ways of each are taken. `ScreensTypeOK` and `ClientStaysPlain` are proved for all values. |
| `screen_corner` | violates `RoundTripIdentity` (section 6) | the same |
| `session` | `MessageIsTrue`, `BarIsCurrent`, `GivesUpInTime`, `KeysAreDelivered` | Three keys among escape key, `.` and line feed, two of them in one read; one exception anywhere. The deadlines keep the order of the code's, not their values: the poll and the passing message are the shortest, and silence is reported before a connection is given up. |

`SameDisplay` leaves out the behaviours of `screen_corner`; everything else on a screen
that the display may leave different is listed in section 7.

Of the type invariants only `ScreensTypeOK` is a run's property: it is about indices that the code
does not check. It is proved, as are those of `Transport`, `EchoAck`, `Parser`, `SenderTimers` and
`Session`.

Deadlock checking is off where a bound, or the end of a
session, stops the model; it is on for `fragments`, whose network can always deliver
or change its MTU.

Every bound is a constant named as one in its module. Symmetry is used in
`sender_timers` only, on the states other than the initial one, which no definition tells
apart.

## 4. Fairness

Two specifications state fairness. `Transport!FairSpec` is strongly fair to two things
at each end:

- `SendFromFront`: the latest state is sent as a diff from the front of the queue.
  The main loop never stops ticking while a session lives, and `NextSendTime` of
  `SenderTimers` is finite as long as the current state is not the front's
  (`ChangeIsSentSoon` for states never sent; for one sent, the third case of
  `calculate_timers` while `last_heard` is recent, and the heartbeat, which carries a
  diff if there is one, after that; `NeverSilent`). Once unacknowledged states are no
  longer recent the assumed state *is* the front. Strong, because an
  acknowledgment may disable the action for a moment.
- `AcceptLatest`: an instruction with the newest number gets through. This is the
  assumption that the network is not down for ever, and, with a full queue, the
  15 s of `receiver_quench_timer`.

Nothing is assumed of the application: `EventuallyInSync` allows it to change for ever.
`Prediction!FairSpec` is weakly fair to `Iterate` (the loop runs as long as the session lives;
`select` returns by itself after the network's `wait_time`), to `Hear` (packets get
through, which is what `EventuallyInSync` shows of the layer below), and to `Host` and
`EchoAck`, the other end's. The fairness of `Iterate` is spelt out as "it happens again and
again, or again and again would change nothing", as TLC's `ENABLED` would
evaluate the whole of `Cull` once more. Nothing is assumed of the typing, and
`TruthPrevails` is only about behaviours in which all of it is sent in the end.

`SenderTimers` and `Session` use no fairness: their deadlines are safety properties over an
explicit clock that `Select` may not take past the wakeup it computed.
`Connection`, `Parser` and `Screens` have safety properties only.

## 5. Proofs

`TransportProofs` proves for `Transport`, for any set of states, any limits with
3 ≤ `CullBack` ≤ `SentLimit` and any bounds:

| Theorem | Statement |
|---|---|
| `TypeCorrect` | `Spec => []TypeOK` |
| `KnownState` | `Spec => []KnownStateIsHeld` |
| `Integrity` | `Spec => []ReceivedIsPublished` |
| `ReferenceIsValid` | `Spec => []ReferenceSurvivesThrowaway` |
| `AcksNewest` | `Spec => []AckedIsLatest` |
| `DiffIsDetermined` | `Spec => []SameNumsSameDiff` |
| `CleanShutdown` | `Spec => []CleanShutdownIsComplete` |
| `Monotone` | `Spec => ViewNeverRegresses` |
| `ClientImplementsStateSync`, `ServerImplementsStateSync` | both refinements of `StateSync` |

The assumptions are those named in `Transport` (`EndsDiffer`, `StateAssumption`,
`LimitAssumption`, `BoundAssumption`), which TLC evaluates in every run; the code has
`SentLimit` 32 and `CullBack` 16.

The properties are not inductive. That the receiver holds the sender's front, for
one, says nothing about acknowledgments still on their way, the next of which may
move the front. `IInv` adds, for each direction:

- `Queue`: what is in `sent_states` was published; a number names one state; the list
  has a front, and its back is the newest state ever published.
- `Final`: what was published as the shutdown state is the current state.
- `Carried`: an instruction's two states were published under its two numbers, and
  its throwaway is neither above its own reference nor above anything the sender
  still keeps. This makes the reference survive, and the front.
- `Held`: the receiver holds the front, and its newest state is what it acknowledges.
- `Acks`: every acknowledgment under way, and the next one, names a state the receiver
  still holds or one below the sender's whole queue, where it has no effect.

`TickKeeps` and `RecvKeeps` show that the two actions that matter preserve `IInv` (through
`CullKeeps`, `AddPushes` and `SendKeeps`; and `AckKeeps`, `ThrowawayKeeps`, `RebuiltIsSent`,
`StoreKeeps`), `NextKeeps` collects the actions, and `Invariance` is `Spec => []IInv`. The
refinement is `StepMaps`: a tick publishes or stutters, a receive advances or
stutters.

`SenderTimersProofs` proves for `SenderTimers`, for any intervals, any pairs of frame interval
and timeout, any limits with 3 ≤ `CullBack` ≤ `SentLimit` and any bounds (`TimingAssumption`:
a frame is shorter than `ACK_INTERVAL`; 250 and 3000 ms in the code):

| Theorem | Statement |
|---|---|
| `AssumedFrontOrBack` | `Spec => []AssumedIsFrontOrBack` |
| `Heartbeat` | `Spec => []NeverSilent` |
| `PromptAcks` | `Spec => []DataIsAckedSoon` |
| `PromptChanges` | `Spec => []ChangeIsSentSoon` |
| `LoopSleeps` | `Spec => []NoSpin` |
| `ShutdownIsBounded` | `Spec => []ShutdownEnds` |

None is inductive: a deadline is kept because a timer was set early enough, perhaps several
iterations ago. `Queue` says that `sent_states` stays sorted by timestamp under culling,
acknowledgments and states sent again, so that the states still recent are the last ones.
`AckTimer`, `DataTimer`, `ChangeTimer` and `ShutdownTimer` say for each promise by when the
timer behind it expires. The proof attempt showed that `NeverSilent` did not hold as it was first
stated, for every value of the constants: during a shutdown an attempt that an exception
cuts short puts the next one off by a frame, and only with a pause after exceptions (200 ms)
that is longer than the frame interval is this hidden. It now has the same term for
shutdowns as `DataIsAckedSoon` (`Deadline`).

`StatesProofs` proves, in its first part, for `UserStreams`, for any number of keystrokes and of states:

| Theorem | Statement |
|---|---|
| `KeystrokesInOrder` | `Spec => []OutputIsTyped` |
| `KeystrokesImplementStateSync` | `Spec => ImplementsStateSync` |

`IInv` says what every queue is: the part of what was typed from one place to another
(`Piece`). Each end's list holds snapshots that the client took, all cut at the place where
that end last cut (`Copies`), and a diff is the piece between two snapshots (`Takes`), so it
fits whatever either end has cut since. That no assertion of `user.cc` fails, the pty's prefix
and the refinement follow.

Its second part is about what comes back, `EchoAck`, for any timeout and any bounds:

| Theorem | Statement |
|---|---|
| `EchoAckTypeCorrect` | `EchoAckSpec => []TypeOK` |
| `NotTooEarly` | `EchoAckSpec => []AckedAreOld` |
| `InTime` | `EchoAckSpec => []AckedInTime` |
| `Monotone` | `EchoAckSpec => NeverDecreases` |

The invariant (`AckIInv`) adds three facts: frames with greater numbers were registered
later (`InOrder`); whatever is above the echo ack is still in the history, and so is
the frame acknowledged itself (`HistoryKept`), without which the next computation
would find nothing and go back to 0; and no frame that the loop saw due was
passed over (`NothingMissed`). That waiting for the second entry is enough
(`SleepKeeps`) needs that entry to exist and to be no later than any that follows
(`SecondExists`), a least element of a set of numbers (`LeastNum`), which is proved
from the well-foundedness of strict inclusion among finite sets.

`FragmentsProofs` proves for `Fragments`, for any instructions, lengths, MTUs and number of ids:

| Theorem | Statement |
|---|---|
| `WholeInstructionsPass` | `Spec => []NothingHeldBack` |
| `FragmentsImplementChannel` | `Spec => ImplementsChannel` |

`Sender` says that an id stands for one instruction cut for one MTU, although MTU and
instruction both change under it; `Receiver`, that what is collected are pieces of one id in
their places (`Pieces`), that the total is known if and only if the final one is there, and
that there are then fewer than that many (`Counted`): pieces of a cardinality, by
`FiniteSetTheorems`.

`SessionProofs` proves for `Session`, for any timeouts, intervals, keys, lengths of input and
number of exceptions:

| Theorem | Statement |
|---|---|
| `MessagesAreTrue` | `Spec => []MessageIsTrue` |
| `BarStaysCurrent` | `Spec => []BarIsCurrent` |
| `ConnectingEnds` | `Spec => []GivesUpInTime` |
| `KeysReachTheServer` | `Spec => []KeysAreDelivered` |

`IInv` has a part for each: `Said` (also of the message that a flag is about to take down),
`Shown` (whatever the bar says, `select` returns before it is out of date), `InTime` (how long
the client can have been connecting at each place of an iteration, with what each exception
costs) and `Keys`. For the last, `KeysAreDelivered` compares what was pushed with `Reading`, a
recursive function that reads what was typed from the back; the loop reads from the front, in
pieces. `ReadTo` says that whatever is still to come, reading all of it gives what was
pushed so far, followed by the reading of the rest. `SessionAssumption` says of the
constants that the poll while connecting is no longer than the connecting timeout and
`ACTIVE_RETRY_TIMEOUT` no longer than the ages that are told apart (250 ms, 15 s, 10 s).

`ConnectionProofs` proves for `Connection`, for any intervals, clocks, modulus, limits with
0 < `HoldLimit` < `SampleLimit` < `Modulus`, and bounds (`ConnectionAssumption`):

| Theorem | Statement |
|---|---|
| `ServerFollows` | `Spec => []ServerFollowsClient` |
| `SamplesAreRoundtrips` | `Spec => []SampleIsRoundtrip` |
| `OldSocketsAreUnused` | `Spec => SocketsClosedAreUnused` |

For the first, `IInv` adds that the sequence number expected is one more than the newest that
arrived (`SeqIsNewest`): the packets that retarget the server are those newer than all
before. For the second, `RInv` says of every timestamp, sent, saved or corrected, which time
it stands for: it is congruent to what its clock showed then, or to one more where the value
of "none" was passed over (`IsStamp`). A packet's reply stands for its own sending less
the delay of the packet it answers (`IsPacket`), so a sample is congruent to the two delays,
give or take one; being below `SampleLimit`, and they below the modulus, it equals them
(`CongruentIsEqual`). Congruence is proved to be kept by sums, differences and remainders in
lemmas of its own.

The third is about a client that sent something, whether or not it arrived, in the last
`MAX_OLD_SOCKET_AGE` less two times `PORT_HOP_INTERVAL` (`SentLately`): 40 s, and one that is not
held up sends every 3 s (`NeverSilent`). When that packet left, the newest socket was older
than two hop intervals, and as `send` did not hop then, there had been a round trip in the last
of them. What a round trip measures is when a state was last sent, perhaps in a packet that never arrived. `SInv`
says that states leave in the order of their numbers (`Clocked`, `Queued`), from which sockets
(`Ports`), what each packet carries (`Packets`), what arrived (`Arrived`), and the
point (`Hopped`): a state last sent later than one hop interval after the last hop was
first sent after that hop, so from the newest socket. When the others are closed, a packet from
the newest has arrived, and none from the others can be newer.

`ParserProofs` proves for `Parser`, for any set of bytes, sequences of any length and any limits
on what is kept, `CharLimit` being at least 1 (`LimitsAssumption`):

| Theorem | Statement |
|---|---|
| `TypeInvariant` | `Spec => []TypeOK` |
| `DecodesWell` | `Spec => Decoding` |
| `GrammarIsFollowed` | `Spec => []CallsFollowGrammar` |

`TypeOK` is inductive: its part on `buf` (`BufOK`) says that the unfinished bytes begin one
character, and that two characters at most wait for the parser. `Decoding` is an action
property under it, by the lengths a sequence may have (`OneByte`, `SecondByte`, `ThirdByte`).
The fourteen states are shown to lead to states and to call what can be called
(`TransitionIsProper`, `CalledOK`).

`CallsFollowGrammar` reads a sequence as a whole, when its last character has come, and says
nothing of the way there. `GInv` says it of every state: after `CSI_Param` there was a private
marker at most and then only parameters, after `CSI_Intermediate` the body is well formed and ends
in an intermediate, after `CSI_Ignore` nothing that follows can make it well formed
(`PrefixIsWellFormed`), and the strings collected are the first parameters and the first other
characters of the body (`CSIRead`, `EscapeRead`). There is a lemma for every way a
character goes on with or ends a sequence (`CSIHeads`, `CSIEnds`, `EscapeKeeps`, `OSCKeeps`, ...).

`PredictionProofs` proves for `Prediction`, for any sizes of screen, glyphs, kinds of keys,
preferences, thresholds and send intervals, and any number of keys, frames and units of time
(`PredictionAssumption`: what the host echoes and what is typed in silence are told apart,
`GLITCH_REPAIR_COUNT` is at least 2 and `GLITCH_REPAIR_MININTERVAL` at least 1; 10 and 150 ms
in the code):

| Theorem | Statement |
|---|---|
| `FitTheScreen` | `Spec => []PredictionsFit` |
| `NothingToJudge` | `Spec => []JudgedAreGone` |
| `SilenceKept` | `Spec => []SilenceIsKept` |
| `LateShown` | `Spec => []LatePredictionsShow` |
| `CreditEarned` | `Spec => CreditIsTheHosts` |

They follow from one invariant, `IInv` (`Invariance`), whose parts TLC checked before they were
proved. Besides the types and `JudgedAreGone` it says:

- `Fitting`: predictions are for the size of the screen the user sees, or there are none. A key
  and a frame begin with a cull by the screen that they are for, and that drops the rest.
- `LookedAt`: what is pending was looked at a unit of time ago at most, unless predictions are
  underlined already; and then the trigger was as high as its age asks for (`Timely`), whatever
  quick confirmations take from it in the same cull.
- `Honest`: a place is predicted once, and a tentative prediction that could be given credit is
  on the user's screen only if the host put it there. Tentative predictions are not drawn, and
  `Predict` makes what the screen shows already one of the `originals`, for which there is no credit.
- `HostIsSilent`: what was typed in silence will reach a host that does not echo, behind the
  keys that are still to turn its echo off (`Quiet`), and none of it is on a screen of the host's.
- `Secret`: of an engine that overwrites, an epoch was typed either under echo or in silence, a
  later epoch is judged no earlier (`Epochs`), no silent prediction is of a confirmed epoch, and
  the user's screen shows nothing typed in silence.

An operation of the engine is followed in one of two kinds of steps. A cull only takes
predictions away and may confirm epochs for which the screen gives credit (`Culled`,
`Credit`): that is shown of one cell (`JudgeCell`), then of the two loops over cells and
rows, which are recursive functions, by induction on how far they have come. A key only
adds predictions of the present epoch (`Edited`, `New`), one lemma for each kind of
key; `TypeKeeps` and `IterateKeeps` put them together.

The proof attempt showed that `SilenceIsKept` was false as it was first stated, for every
engine that does not use the experimental preference. An engine that *inserts* (the default)
moves the predictions right of the cursor along with it and makes them part of the present epoch.
Six keys on a screen of four columns show what was typed in silence: a key that turns echo
off, a silent glyph, the left arrow, a key that turns echo on, and two echoed glyphs, which move
the silent one and whose confirmation confirms it with them. No comment promises
otherwise. The property is now about engines that overwrite, of which it is proved; the
runs cover both.

The third part of `StatesProofs` is about `Screens`, for windows of any sizes of at least one row and one
column, any functions with parameters that are integers (`WritesAssumption`: what `Parser` and
`Dispatcher` deliver), any thresholds of the display, any choice of what a frame scrolls, and any number of
writes, resizes and frames:

| Theorem | Statement |
|---|---|
| `ScreensInvariance` | `ScreensSpec => []ScreensInv` |
| `ScreensKeepTheirShape` | `ScreensSpec => []ScreensTypeOK` |
| `ClientPlain` | `ScreensSpec => []ClientStaysPlain` |

That every function of the emulator keeps a screen's shape (`Shape`) goes by cases on the
function (`FunctionKeeps`, `ApplyKeeps`), with lemmas for what rows are cut into and put together from
(`Cuts`, `InsertLine`, `DeleteLine`, `ResizeFacts`) and for the tab stop that `HT_n` looks for, which there is
(`NextTabIsColumn`).

That the client's screen stays plain is an invariant of the writer of frames. It needs to be
known where the client's cursor is, since `put_row` prints into the last column, where a wrap is then
pending, and relies on what it writes next to take it. `ScreensInv` says of the client
(`Believed`) that it is plain and its cursor where `last` has it, or, on the last row, to the left
of that: exactly the latitude that run `screen_corner` shows is needed (section 6). Within a frame
every helper of `new_frame` is shown to keep the screen drawn so far plain (`Good`) and what the
writer has noted of the cursor either right or given up (`Located`); `put_row` may end a full line with a
wrap pending (`Ended`), and then only if the next row is to be written at once (`Begun`). The
lemmas follow the code: `MoveAppended` for `append_move`, `CellPut` for a column of `put_row`, `RowPut`
for a row, `TerminalScrolled` for the scroll at the start, `NewFrameActs` for the whole.

Four of these modules prove facts about recursive functions: `Reading` of `Session`, `Only` of
`Parser`, of `Prediction` `Only`, `JudgeRow` and `JudgeCells`, and of the screens `DECModes`, `Act`,
`put_row` and `PutRows`. The library's induction theorems take an operator as a parameter, which
the provers cannot instantiate, so these inductions are made by hand: a set of numbers has a least element (`LeastNum`, from the
well-foundedness of strict inclusion among finite sets), and the least one for which the
statement fails contradicts the step.

Model-checked only:

- liveness (`EventuallyInSync`, `TruthPrevails`), which is out of the prover's reach;
- `SameDisplay` and `SameModes` of `Screens`. That the client shows the server's screen relates two
  programs over the same data: one that writes functions cell by cell and row by row, and one
  that reads them back. It would take, for every cell already passed, what is on the client's
  screen there, next to what `ScreensInv` says of its cursor. `SameModes` would take that the
  numbers `sgr` writes for a rendition are read back as that rendition by `CSI_SGR`, whatever was
  set before.

## 6. Disagreements between the code and its comments

- `network/transportsender-impl.h:175` calls a diff's "round-trip identity (modulo Unicode
  fallback rendering)" what is verified when verbose: applied to the state it was made
  from, it gives the new state. When `put_row` prints in the last column of the last row,
  it counts the cursor on to the column after it (`terminal/terminaldisplay.cc:439`) and
  leaves it there, as only other rows end in a line feed. If the cursor is then to go a
  few columns to the left, `append_move` writes as many backspaces as there are columns
  from there (`terminaldisplay.cc:519`), while the client's emulator, which waits in the last
  column, goes one too far (run `screen_corner`).

Three more were found while modelling, and are excluded by the models' properties:

- `network/network.cc:139` keeps the old sockets until "the new socket has been working for long
  enough". The code asks how long ago it was opened (`network.cc:141`), not whether anything
  sent from it arrived. A client that hops, is then held up (its machine asleep, or the process
  stopped) for longer than `MAX_OLD_SOCKET_AGE` before a packet from the new socket reaches
  the server, and on waking reads an answer that waited in an old socket, closes the one
  the server still answers to. What the server sends there is lost until a packet from the
  new socket reaches it, which the client's next heartbeat is. `SocketsClosedAreUnused` is
  about clients that sent something in the 40 s before; without that condition TLC finds
  this in one packet and one answer.
- `network/transportsender.h:55` calls `ACK_DELAY` the "ms before delayed ack". During a
  shutdown `calculate_timers` overwrites `next_ack_time` without taking the minimum
  (`transportsender-impl.h:120-123`, "speed up shutdown sequence"), so that on a slow path
  an acknowledgment is put off beyond `ACK_DELAY`.
- `network/network.cc:627` means to "ignore large values, e.g. server was Ctrl-Zed".
  Sixteen bits wrap after 65.5 s, so a server stopped for that long and up to 5 s
  longer gives a sample that is taken: `SampleIsRoundtrip` is about delays below a wrap.

Not a disagreement, but worth knowing:

- What `network/networktransport-impl.h:85` reports as the time of a "roundtrip
  (end-to-end-to-end)" is when the acknowledged state was *last* sent, perhaps in a
  packet that never arrived. The port hopping that relies on it still closes no
  socket in use, as long as the client sends something in every `MAX_OLD_SOCKET_AGE` less
  two times `PORT_HOP_INTERVAL` (run `connection`, theorem `OldSocketsAreUnused`).
- `Complete::wait_time` waits for the second entry of the history, as the first is the
  frame acknowledged before. The first frame of a session has none before it: its
  acknowledgment waits until the loop wakes for another reason, which is why
  `AckedInTime` is about the others.
- A prediction is confirmed by comparing contents. A glyph that the host shows for
  a reason of its own where it was predicted confirms the epoch too. `Prediction`
  supposes that glyphs typed in silence are not on the host's screen.
- The cursor that `kill_epoch` leaves behind expires with the next frame sent. Until
  the user types again it stays pending, keeps `active` true, and with it the
  wakeups every 50 ms.
- With the experimental preference there are no epochs, and what is typed in
  silence shows; with one that inserts it may, when later predictions move it along (section
  5): `SilenceIsKept` excludes both.
- An exception from `recv` skips the checks of `main` that end a session: each one lets
  a client outlive its timeouts by a poll and a sleep, which `GivesUpInTime` counts.
- `shutdown()` prints that no connection was made even after an acknowledged shutdown, if
  no state of the server could be rebuilt. An error of `sendto` takes the place of a
  farewell message. `lf_entered` is not updated by the byte that ends an escape
  sequence, so a line feed after the escape key does not count as one.
- `sendto` is a Winsock call and leaves `errno` alone, so that the fallback to a smaller MTU
  (`network/network.cc:436`) depends on what `errno` held before. `Fragments` lets the MTU
  change or stay at any time and does not depend on it.
- The UTF-8 decoder accepts overlong forms, and rejects sequences of four bytes, as a
  `wchar_t` has 16 bits: each of the four becomes a replacement character, although
  `terminal/parser.cc:97` speaks of Unicode 6.0. Characters from U+00A0 up are parsed
  as the letter A would be.
- An operating system command is cut to one length, its number included: a title of that
  length set by `OSC ;` arrives without its last character, as the frame sets it by `OSC 0 ;`.
- `select` registers no handlers for signals any more (`util/select.h:235`), so the branches
  of `main` for them never run.

## 7. What is abstracted, and what is left out

Abstracted in what is modelled:

- States are opaque in `Transport`, and a diff is the pair of states it was made from;
  it is empty exactly when the two are equal. This is exact for keystrokes; a
  `Complete` can differ from another in parser state alone, and then its diff is
  empty too.
- Both ends start from the same state 0. The server's is constructed by
  `mosh-server`, which is not here.
- The chance of a short diff preferring the front (`attempt_prospective_resend_optimization`)
  is a choice between the two bases.
- Encryption: a packet that arrives was sent by the peer; a repeated one may
  arrive again. The sequence number is a counter that does not wrap.
- The SRTT filter is replaced by a choice among pairs of frame interval and
  timeout; its floating-point arithmetic is not modelled.
- Explicit congestion notification is not modelled: this port sets
  `congestion_experienced` to false (`network/network.cc:558`).
- `predict_overwrite` is modelled; `prediction` has both settings, `prediction_time` the default,
  insertions.
- A cell of `Prediction` is one glyph without rendition; a key is what the engine's parser
  makes of one byte. Time there is in units of the 50 ms of `wait_time`.
- `verbose` checks and logging.
- In `Session` a timestamp is its age, and an acknowledgment brings the age of the last
  state acknowledged to any smaller one or leaves it.
- In `Framebuffer` a character has one of a few values and every cell is one column wide,
  as this port takes every character's width for 1 (`terminal/terminal.cc:55`). The rows
  of two screens are compared by what is in them; the code compares pointers to rows
  (`terminal/terminalframebuffer.h:485`), which `Screens` keeps as `rewritten`: a frame may
  also be sent for rows that were written over with the same, or for functions that take a
  row to write to it and happen to change nothing. In `Parser`
  hook, put and unhook do nothing, as in the code.

What a frame does not carry, so that `SameDisplay` and `SameModes` do not ask for it: the
wrap flags of rows that were scrolled or are the last; the pending wrap; margins, tab
stops, saved cursors, insert, origin and wrap modes (the client's stay plain:
`ClientStaysPlain`); `mouse_alternate_scroll` (1007), which is compared and never written; the
icon name, which is not compared; and how many bells rang, for which one is written. A cell
that is empty and one that holds a space look the same. In a diff the resize comes
before the bytes.

Left out, with the reason, component by component: see `components` in
`PROJECT.json`. In short:

- Of the client itself: options, locale, the console's modes, and `main_init`'s early
  return when the console has no screen buffer, after which `main` would use a network
  that was never made (`stmclient.cpp:261`): one failing call before the first iteration.
- Of `Connection`: binding, address resolution and the filter of round-trip times, whose
  result is floating-point.
- The cipher, and the two counters of `crypto.cc` that end a session by a fatal exception
  long after any bounded run; the compressor, console and Winsock wrappers, which are
  calls of libraries; the server's translation of cursor keys.
- The launchers: the Go one is sequential, and the C# one waits for the one process it starts.
- protobuf, openssl's headers and the generated classes, which make up most of the
  lines under `src/` and are not this repository's own.

## 8. Plan

Done: all modules of section 2, their runs, and proofs of every safety property that a run
checks of `Transport`, `SenderTimers`, `Fragments`, `UserStreams`, `Connection`, `EchoAck`, `Session`,
`Parser` and `Prediction`, the three refinements among them, and of two of `Screens`.

Left: that frames reproduce screens (`SameDisplay`, `SameModes`), and liveness, which stay with TLC.
The next step for `SameModes` is a lemma that reads `sgr` back through `CSI_SGR`.

## Running the checks

```
tlc -workers 2 -config MCTransport.cfg MCTransport     # one run; the others alike
tlc -workers 2 -config MCSession.cfg Session           # without an MC module
tlapm TransportProofs.tla                              # one component's proofs; the others:
tlapm SenderTimersProofs.tla
tlapm FragmentsProofs.tla
tlapm StatesProofs.tla                                 # of UserStreams, EchoAck and Screens; a quarter of an hour
tlapm ConnectionProofs.tla
tlapm SessionProofs.tla
tlapm ParserProofs.tla
tlapm PredictionProofs.tla                             # some minutes
```
