# A verification project for QModem

QModem manages cellular modems on OpenWrt: it finds them, talks AT commands to
them, dials, stores and forwards SMS, and bridges voice calls to browsers and
SIP.  The modules here model the daemons in which several threads, processes or
services share state.  TLC checks them on small instances; TLAPS proves some of
the results for every instance.

Run a model with `tlc -config MCLineEvents.cfg MCLineEvents`, check proofs with
`tlapm LineEventsProofs.tla` (any `*Proofs` module).  `PROJECT.json` lists runs, mutants, the source
lines behind each definition, findings, hazards and theorems.

## 1. Inventory

| Part | State | Who changes it | What is hard |
|---|---|---|---|
| `ubus_at_daemon` | ports, command in progress, ring of line events, leases, URC registrations | ubus thread, one reader thread per port, monitor thread | wake-ups, late answers, reopening, freeing a port in use |
| `modem_scan` | event queue, active keys, generations, UCI slots and modems | socket loop, worker threads, signal handler | hot-plug requests overtaking each other, stale probes |
| `qmodem_settings` | lock directory, lease token, state file | watcher, manual runs, signals | restart of the AT daemon, lease expiry, partial failure |
| `qmodem_smsd` | SQLite database: sources, groups, segments, messages, deliveries, managed sends | scan timer, ubus methods | multipart reassembly, deletion, retention, crash between steps |
| `sms_forwarder_next` | the delivery it has claimed | its loop | claim expiry, revision while forwarding |
| `qmodem_sipd` | SIP registration, calls, messages | PJSIP and ubus callbacks | retransmission and timeouts |
| `voipd` call slot | call, event position | ubus methods, line events, timers | lost lines, polls that cross commands |
| `voipd` activation and `modem_safety.sh` | settings of the modem, journal, persisted enable | daemon, its helper, USB hotplug, crashes | half finished transactions, helpers that overlap |
| `voipd` media | owner of the engine, tokens, sessions, queues | uloop callbacks, capture thread | handover between owners, what outlives a call |
| `tom_modem` | named semaphore per tty | one process per command | processes that end while they wait |
| shell layer (`qmodem`, `qmodem_monitor`, `qmodem_uplink_manager`) | dial loop, recovery counters, routes | procd, hotplug, timers | restarts, races with UCI |
| `libqmodem-sms`, `qmodem-seal` | none | - | pure data |
| LuCI, drivers, vendored tools | - | - | user interface and third-party code |

Interactions: readers of the AT daemon publish line events, which voipd and smsd
receive as ubus events; settings takes a lease on a port, which `sendat` honours;
smsd queues deliveries, which the forwarder claims; sipd hands SIP messages to
smsd's `send_managed`; voipd sends commands through an adapter script to `sendat`.

## 2. Plan

Done: the AT daemon (four modules), settings on top of its lease protocol, the
scan scheduler, the SMS database, delivery and sending, and of voipd the call slot,
the activation with its safety helper, and the ownership of media.

Next, in this order:

1. compose `LineEvents` with `CallState` through `SubscriberStream`, so that gaps
   and lost poll answers come from the ring instead of from free choice;
2. the ALSA and PCM socket back ends of voipd, reopening the serial port, history;
3. sipd registration and call bridging;
4. the tty semaphore of tom_modem, the C forwarder, legacy migration;
5. the dial loop, monitor recovery and uplink selection;
6. PDU encoding as operators against a reference definition.

Every invariant and action property that a run checks has a theorem (§6).

## 3. Modules

**SubscriberStream** is the abstract promise to a subscriber of line events: per
port, sequence numbers grow, and a hole is announced.  **LineEvents** models
`line_events.c`: `Overwrite` and `Append_` are the two outcomes of
`at_line_event_enqueue`, `Dequeue`, `Publish`, `CheckRemaining` and `Rearm` the
steps of `at_line_events_consume`.  Lock regions are one step each; the pipe
write and read are steps of their own, since they happen outside the lock.
`AdvanceRestartEpoch` is a reopened port; `RecreateInstance` is a port that is closed
over ubus and opened again, which `create_port_instance` numbers from the start.

**AtCommand** models `at_handler.c`: the ubus thread prepares, writes and waits,
the reader looks at a line, matches it, labels it and enqueues it in separate
steps.  A line is its kind and the command that caused it.  `response` holds what
the caller gets, `said` (history) what was read while it waited: `Store` appends a chunk
to the response only if all of it fits, and `Overflow` throws away a chunk that meets a
full line buffer.  The end flags match
kinds, so a URC of a matching kind (NO CARRIER is one of the default end flags and
also announces the end of a call) ends a command like a line of its answer.

**AtPort** models `port_manager.c`: instances, mutexes, joins, the monitor's walk
and the death of readers.  **Control** holds the operations of `control.c`.

**Settings** models `qmodem-settings` for one modem, with a watcher and a manual
run as two processes, using `Control`.  The commands of a run form three groups
(storage, boot hook, URC setup); voice registrations are left out.  A call to the AT
daemon may fail, with or without effect, the release of the lease (`NoAnswer`)
included.  `State` is what the watcher compares: the list of ports and epochs, empty
in a daemon without ports, whichever it is.

**ScanScheduler** models the queue and workers of `modem_scand.c`.  A probe's
result is free; the three kinds of full scan share one section.

**SmsImport** models a scan of the SIM and the tables it fills.  Two clock steps
stand for the wait and the late window.  The decoder hands on the part number of the
header as it is; `RejectPart` is the rollback of a number out of range, with which
`sync_modem` ends.  **SmsDelivery** models claims together with the forwarder, for a
modem with forwarding enabled (otherwise nothing is queued), **SmsSend**
`send_managed` together with its SIP caller, down to the UPDATE that fails.

**CallState** models `call_state.c` and the handlers and timer of `daemon_core.c`
around it, with a modem and its line events.  Call history, serial media and port
switching are left out, and so are CLCC answers with more than one line.  The line of a
data call (mode 1) does what an entry without a number does: it sets the id of the
reconciliation, and `reconcile_saw_data`, which nothing reads.

**ModemSafety** models `modem_safety.sh`, the hotplug script that also runs it, and
the activation code of `daemon_core.c`.  A run of the helper is a program, a
sequence of commands that `Command` and `CommandFails` carry out one at a time; a
failing command may have had its effect.  The daemon waits for the helper it
starts (`pc`), but not for the one that arms the port during a call.  `argument` is the
`--start-enabled` of the daemon's command line: the init script reads it from the
configuration (`ReloadService`), and procd repeats it at every respawn (`Crash`,
`RestartTimer`).  A setting has
its value of before or the one voice mode wants.  Left out: a forwarding command
that sets one of its two settings and fails at the other, helpers beyond one in
the background, the configuration that `enable_ubus` writes, and procd's limit of
respawns.

**VoipMedia** models who owns the media engine: `media_core.c`, `media_manager.c`,
`browser_media.c`, `rtp_transport.c`, `media_socket.c` and the capture thread of
`media_serial.c`.  As in the code, where each function takes the structures it
works on, an operation is an operator on one record of media state, and
`Publish` composes them when the call changes.  The call itself moves more freely
than in `CallState`.  A frame is the number of its call.  Left out: a listener that
fails to start, full session and token tables, the reopening of the serial port,
and the fact that some operations step the revision twice.

Each `MC*` module gives constants their values; each `.cfg` is one question.

## 4. Runs

| Run | Shows |
|---|---|
| `line_events` | no lost wake-up, no forgotten loss; up to the first port created anew each numbered line accounted for; refinement of `SubscriberStream`; the ring drains although a wake-up publishes only one entry |
| `at_command` | a command is ended by its own answer and returns it, whole if it fits; terminal events agree; every command returns without its timeout |
| `at_port` | one reader, no use after free, an open port is read; no method and no round of the monitor waits for ever |
| `settings` | "ready" means the port was not shared meanwhile; no lease left, if the calls about it were answered; settings converge |
| `scan_scheduler` | one worker per slot, queued requests win, no stale commit; the queue drains |
| `sms_import` | stored before deleted, no duplicates, no resurrection, whole messages; every part surfaces, unless its modem stores a part that no import accepts |
| `sms_delivery` | done means forwarded, the newest revision is kept; queued messages get forwarded |
| `sms_send` | at most once, 200 means sent |
| `modem_safety` | the journal keeps the settings of before, without a journal no trace of voice mode, a call only in voice mode; a persisted enable settles, unless the daemon was respawned with an older one |
| `voip_media` | one owner of the audio, in its own call; nothing left when the call is over, no speech of an earlier call |
| `call_state` | the answer owner stays; an undisturbed call is not dropped; the end of a call is noticed |

Safety and liveness of a component are checked in one run under its fair
specification, without symmetry.  `voip_media` checks safety only, so the socket
peers may be a symmetry set there.  `CHECK_DEADLOCK FALSE` stands where a behaviour may end: the
bounded inputs are used up and nothing is left to do (LineEvents, AtCommand,
SmsDelivery, SmsSend, ModemSafety, VoipMedia), or the daemon is told to stop (AtPort, ScanScheduler).

**Bounds.**  They are the constants of the `.cfg` files.

- LineEvents: two ports, a ring of two entries and two lines per port, so that the
  ring overflows and both readers meet the consumer; one of the ports is created
  anew once.
- AtCommand: two commands of two kinds (a query, a prompt), one URC, and one stray
  line: the answer of a command that timed out or was send-only, or a URC that an
  end flag matches.  A stray answer can meet each later command; more of them only
  queue up on the wire.  The response buffer has room for two lines, so that an answer
  with a URC in it does not fit; one chunk meets a full line buffer.
- AtPort: three methods, two rounds of the monitor, two changes of the device: a
  port can be created, closed, reopened by the monitor and created again.
- Settings: a watcher and a manual run, a lease of one time unit, and any two
  troubles (a restart of the AT daemon, a replugged modem, a failing call or command, a
  signal).
- ScanScheduler: two workers, two slots with a section each, two requests.  Slots
  that own others are left to the proofs (§6).
- SmsImport: a message in two parts, one in one part and a part 3 of 2, of which three
  arrive; two SIM places, one aborted scan; two clock steps are the wait and the late
  window.
- SmsDelivery: two targets, three texts (messages or revisions) and two faults.
- SmsSend: two requests, payloads of one and of two parts, four calls of the SIP
  peer and two faults.
- CallState: two calls, one tone, four events on their way, and one trouble (a
  withheld number, lines that are not published, a line lost in the ring, another
  client's command, a command the modem fails).
- ModemSafety: a serial modem, two attempts, two requests (an enable in the
  configuration at the start, enable, disable, call) and any two troubles: a failing
  command, a reset of the modem, a death or reload of the daemon or its helper, a
  failing start of media.  Two are a failure and the failure of its repair.
- VoipMedia: two calls, seven revisions (the fewest in which a browser has media
  in both calls), two socket peers, one waiting token, queues of one frame, and one
  trouble.  One RTP session number equals a revision, so that two kinds of owner
  can meet under one number.

**Conditions in properties.**  Some properties hold only up to a point, and say so:

- `StreamPromise`: order for ports that have their first instance, announced holes and
  `EveryLineAccounted` while all have.  After a close and an open over ubus, epoch and
  sequence are those of the daemon's start, and voipd (call_state.c:460) drops the
  lines as old ones until they pass the last it has seen.
- `OwnAnswer`, `TerminalEventIsAnswer`: no stray line so far (`Strays = 0`).  A line
  does not say which command it answers, so the late OK of a command that timed out
  ends the next one, and the next one's answer the one after; an unsolicited NO
  CARRIER ends a command that waits with the default end flags.  `OwnAnswer`: the whole
  answer if what was read fits the buffer; otherwise a chunk is missing, without a sign
  of it.
- `CommandReturns`: the line buffer did not overflow; the line with the end flag may
  have been thrown away.
- `OneReaderUntilClose`, `NoUseAfterFree`: the close method was not used (run
  `at_close_race`).
- `ThreadsReturn`: leaves out the cleanup at the daemon's end, in which `main`
  holds `ports_mutex` while `destroy_port_instance` locks it.
- `ReadyMeansExclusive`: no run got a signal.  The TERM trap releases lease and
  lock, and the run then goes on without them and may report ready.
- `NoLeaseLeft`: the calls that granted and released the lease were answered
  (`orphaned`); otherwise the lease stays for its ttl.
- `Converges`: the watcher cannot tell a daemon without ports from the one it last saw
  without ports.  If the AT daemon dies within a poll of the run that opened the first
  port, nothing is applied until somebody opens it.
- `EveryPartSurfaces`: the modem stores no part with a number out of range (`Blocked`).
  Such a part is not imported and so not deleted, and each synchronisation ends at
  it, before expired groups are published.
- `NoFalseRelease`: the first call, and no trouble.  A withheld number makes a CLCC
  entry a phantom; another client's OK counts as an empty answer; a miss counted
  for one call is kept for the next.
- `CallEndNoticed`: no line lost in the ring; an end of which nothing is published is
  noticed.  If the answer of a CLCC is lost,
  `reconcile_pending` blocks the polls outside idle.  An ERROR to the CLCC of a
  recovery ends the reconciliation and not the recovery, which the property takes
  for a state that waits for the user.
- `BaselineKept`, `NoTraceWithoutJournal`, `CallHasVoice`: no two helpers overlapped,
  other than two recoveries.  Nothing locks the journal or the modem: an arm that
  starts during a call can send its forwarding command after a restore.
- `CallHasVoice`: the modem was not reset after the recovery began, and no restore
  of an enabled journal ended half way.  Such a journal still says enabled, and
  the recovery that trusts it repairs only the audio settings.
- `ActivationSettles`: the configuration could be written (`stuck`); the daemon ignores
  the failure.  And procd did not respawn the daemon with a `--start-enabled` older than
  the configuration (`stale`): an enable over ubus that asks for a restart, or is
  followed by a crash, leaves an idle daemon with `enabled=1` until a method is called
  or the service reloaded.
- `OneOwner`, `NothingLeft`, `UplinkOfThisCall`: nobody attached under the session
  number of another owner, which `qmodem_voip_media_attach` accepts.
- `OwnCallOnly`: no socket peer attached outside a call, which is allowed.
  `NothingLeft` and `UplinkOfThisCall`: nor was a socket session issued there.

`TypeOK` of a module is not part of its run; that of LineEvents is proved, the others
hold in the instances above.  `ModemCount`, `WorkersExit` (ScanScheduler) and
`NewTextNewRevision` (SmsImport) are also stated without a run: they hold in the
instances above when added to their configurations.

**Fairness.**  Weak fairness, always of steps the code takes by itself: threads that
the kernel schedules (readers, consumers, workers, the monitor), uloop and shell
timers that fire again and again, daemons that procd restarts, and the passing of
time where a lease or a claim expires.  Users, faults and the network have none.
`CommandReturns` also assumes that the modem answers what was written to it, and
no fairness of timeouts: it shows that the answer itself frees the caller.

**Assumptions.**  A method that creates a port ends before the port's 30 s check
interval passes (AtPort).  voipd's loop reads the events that have arrived before
its one-second timer fires again (CallState).

## 5. Disagreements with the repository's statements

| Formula | Code | Statement |
|---|---|---|
| `OneReader` (run `at_close_race`) | the monitor reopens a port that is being destroyed | one response reader per port (developer architecture) |
| `LatestAddWins` (ScanScheduler) | an add equal to the running one is dropped although a disable is queued | "latest add wins" (test_scheduler.c) |
| `ImportDurable` (SmsImport, two modems) | pruning deletes parts of other modems | "durable" import (test_sms_db.c) |
| `DisableRestores` (ModemSafety) | after a failed enable, disable answers ok and leaves the journal, since it runs the helper only while calls are enabled | "On failure or disable, restore the journaled baseline" (architecture.md) |
| `DownlinkOfThisCall` (VoipMedia) | frames that nobody fetched, or that the capture thread pushes after the release, are heard in the next call | "Session release clears application queues" (architecture.md) |

The first is a run.  For the others TLC finds the violation when the formula replaces
the properties in the configuration of its module's run; `LatestAddWins` also needs
one slot and three requests (`Slots <- OneSlot`, `MaxRequests = 3`), `ImportDurable` a
second modem (`Modems <- TwoModems`, `Message <- TwoModemMessages`).
These, like the conditions above, are statements about the models; none was
reproduced on a device.

## 6. Proofs

*LineEventsProofs*, for every capacity of at least two entries, every budget and
every set of ports:

- `TypeCorrect`.  The inductive invariant is `TypeOK` and that the consumer, while
  it publishes, has budget left; without that the count of published entries
  could exceed its type.
- `WakeupKept` (`NoLostWakeup`).  One step per action: a step that leaves the ring
  non-empty wrote the pipe, keeps the consumer at work or leaves a reader that is
  about to write.
- `LossRemembered` (`NoLossForgotten`).  A loss is carried by the pending count, by
  an entry of the ring or by the entry being published.
- `StreamKept` (`StreamPromise`): every step is a step of `SubscriberStream` or
  leaves its variables alone.  Only finitely many ports are assumed
  (`PortsAssumption`).  The invariant `StreamInv` says where every line is: a line
  that its reader is done with was published, waits at a place of the ring or in the
  publisher's hand, or is lost.  The lines of a port wait in the order of their
  numbers, behind those published; the lines lost and not yet missed, together with
  those missed, are as many as were dropped; and what a subscriber will miss when the
  entry at a place is published is covered by the drop count of an entry at or before
  that place.  The lemmas say how an append, an overwrite and a dequeue move the
  places.
  `StreamInv` is about ports that have their first instance, and its counts hold while
  all have.
- `LinesAccounted` (`EveryLineAccounted`), from the same invariant.

*ScanCommandProofs*, about ScanScheduler: `Serialized` (`SlotSerialized`), for every number
of workers and slots and every ownership of slots.  It is about sections: adds and
disables of a USB slot have the section of the PCIe slot that owns it, so that they and
the events of the owner exclude each other; `enqueue_event_ex` does not resolve a
remove, which may run while the owner is worked on.  The inductive invariant adds that a
busy worker's section is in `active_resources`: `Take` accepts only sections
outside that set, and `Finish` removes only its own.  `LastQueuedRuns`
(`QueuedRequestWins`) and `CommitsAreCurrent` (`NoStaleCommit`) need to know which
event is the newest of its slot.  The invariant `Fresh` says that no event is newer
than the generation of its section, that a queued or running event of that generation
is of the accepted type, and that the accepted request is queued, about to be checked,
or was the last one handled.  Both assume that a slot which owns another has no owner
(`OwnersUnowned`): `associated_usb` names USB slots and is read from PCIe sections
only.  The lemmas about the queue say which events it has after an insertion, a
removal and a cancellation.

*SmsImportProofs*, for any modems, messages, locations and retention limit:

- `NeverShownTwice` (`NoDuplicateText`) and `NeverComesBack`
  (`DeletedStaysDeleted`), without further assumptions;
- `NewTextIsNewer`: changed text has a larger revision (`NewTextNewRevision`, which
  no run checks);
- `CompleteMeansWhole` (`CompleteIsWhole`), if long messages with the same key of
  `find_group` (modem, sender, reference, number of parts) are the same message
  (`DistinctMessages`).  The network numbers messages modulo 256 or 65536; when it
  starts over within the lifetime of a group the code cannot tell the two apart.
  Parts with a number out of range are in no message;
- `NothingLost` (`ImportDurable`), if in addition one modem is in database mode
  (`SingleModem`).  `sms_db_prune` drops the old groups without a message of every
  modem, but a synchronisation publishes the expired groups of its own modem only,
  so the group of another modem may be dropped before its parts were shown.

The invariant ties the tables together: every part is in one group, that of its key;
a message shows parts of its group, all of them once it is complete; what was
imported and is still stored by the modem has its `source_messages` row, which the
running synchronisation has seen or is still to come to; deleted parts are stored
nowhere.  `NothingLost` adds that a group which pruning may drop shows all it has,
because `publish_expired` runs before `prune`.

*SmsProofs* holds the proofs about both parts of qmodem-smsd that talk to another
process; it extends SmsSend and SmsDelivery, whose names are kept apart for that
(`SendInit`, `SendNext`, `SendSpec`).  About SmsSend: `SentAtMostOnce` (`AtMostOnce`)
and `SuccessMeansSent` (`OkMeansSent`), for any requests, payloads of one or more parts
(`PartsAssumption`), repetitions and faults.  Neither is inductive.  The invariant adds what the `managed_sends` table records: one row per request id, made before
the first part goes out; the request being served has its row in state "sending",
and the modem has exactly the parts counted so far; a row in state "success" is
for a message that went out whole.  A repetition finds the row and sends nothing,
in state "sending" too, in which a failing UPDATE leaves it.

About SmsDelivery: `DoneIsForwarded` (`DoneMeansForwarded`) and
`NewestIsForwarded` (`NewestForwarded`), for any set of targets and any number of
texts and faults.  Rowids are reused, so the argument is about which delivery an id
stands for.  The invariant says that ids are unique at any time, that every
delivery is for a text its message had and the current text has one, that nothing
newer than a message's text was forwarded, and that a delivery in state "claimed"
with the forwarder's id is for the message the forwarder works on: a delivery
that got the id later is not in that state before somebody claims it.  That a new
id exists and is fresh is proved from the least-element theorem of
`WellFoundedInduction`.

*AtPortProofs*: `OneReaderAtATime` (`OneReaderUntilClose`), `InstancesOutliveThreads`
(`NoUseAfterFree`) and `OpenPortsAreRead` (`OpenIsRead`), for any number of method
calls, rounds of the monitor, failing readers and changes of the device.  Two
invariants carry them.  The first holds whatever methods are used: at most one
instance, the last, is in the list; a thread inside `open_at_port` or
`close_at_port` works on it; a thread holds `lifecycle_mutex` exactly between
`stop_reader` and the end of the call; and a reader that runs is the one its instance
names or the one that the holder of the mutex waits for.  So after `pthread_join`
nobody reads the port.  The second holds until the close method is used: readers run
on the listed instance only, and an instance that is being destroyed outside shutdown
has none.  It rests on the fact that the monitor leaves an instance alone until the
method that created it has ended, because its check interval has not passed
(`IntervalPasses`).  After the close method two readers may run (§5).

*ScanCommandProofs*, about AtCommand: `CallersGetTheirAnswer` (`OwnAnswer`) and `TerminalEventsAreAnswers`
(`TerminalEventIsAnswer`), for any set of commands with their answers and end flags,
any kinds of URCs and any number of commands and lines.  `CommandAssumption` is what
an end flag is for: a flag matches the last line of an answer and none before it.
The properties are about results and events; the invariant `CommandInv` is about the
lines on their way.  While a command waits, the lines said to it, the lines being collected,
the wire and what the modem has still to say, put together (`Stream`), are its answer
with URCs in between (`Arriving`), and the lines that the reader is going through are
the end of what was said or URCs read before.  While none waits there are only URCs
(`Silent`).  So a line of an answer is looked at only while its command waits
(`Asked`), and when a flag matches, the line is the last of the answer and all of it
has been collected (`LineEnds`).  That a URC in the stream, or the move of a line from
one part of it to the next, leaves the answer as it is, is shown by lemmas on
sequences (`UrcInserted`, `UrcsDropped`, `AnswerAppended`).  The response is all that
was said while that fits the buffer, of any size, and never a line of another
command.  The invariant holds until the first stray line.

*SettingsCallProofs*, about Settings: `LeaseReleased` (`NoLeaseLeft`) and `ReadyIsExclusive`
(`ReadyMeansExclusive`), for every length of the lease (`TtlAssumption`), any
number of runs one after the other, and any number of restarts, resets, failures
and signals; there are two runs at a time, the watcher's and another.  The invariant
says that there is at most one lease, that its token is that of a run that is going
to release it (unless a call about it got no answer), and that a run which another client's
command came between holds a token that is no longer alive.  The last part needs
that a granted token is not one a run still holds.

*ModemSafetyProofs*: `JournalKeepsBaseline` (`BaselineKept`) and
`RestoredWithoutJournal` (`NoTraceWithoutJournal`), for every media method
(`MethodAssumption`), every state of the modem before voice mode in which audio was
not forwarded (`BaselineAssumption`: a reboot loses the forwarding, so it could not
be put back otherwise), and any number of attempts, requests and troubles.
Lemmas list the commands of each program.  The invariant says that the journal
and every running helper hold the baseline; without a journal the modem is as
before and only an enable that has not made its first step may run; a restore at
command n has put back all that the commands before n put back; two helpers at
once are both recoveries.  All that holds until two other helpers overlap (the
variable `overlap`), as the properties say.

`CallsHaveVoice` (`CallHasVoice`) adds `VoiceInv`: an enable at command n has set what
the commands before n set, so that the journal says "enabled" only when every setting
that outlasts a reboot is set; only a restore takes them back, and one that ends half
way is noted (`cut`); a recovery before a call is the only helper unless `disturbed`
says otherwise, and its last command forwards the audio.

*VoipMediaProofs*: `Ownership` (`OneOwner`), for any set of peers, sessions and
queue length, and any number of calls and revisions.  One lemma per operation on the
media state shows that it keeps ownership: a part that detaches the engine was its
owner.  The invariant adds that the engine has an owner exactly when it has a
session, without which an attach could succeed beside an owner.  `Ownership` has
the exception of the property, a session number used by two callers (`shared`).

`AudioOfOwnCall` (`OwnCallOnly`), `CallsLeaveNothing` (`NothingLeft`) and
`FarEndHearsThisCall` (`UplinkOfThisCall`) are about what passes from one call to the
next.  Their invariant `CallInv` says that tokens and an attached browser are of the
present call, that a session of the present revision is too, that the queue to the
far end holds only frames of this call and is empty without an owner, that there is
no browser media without a call that has media, and that a call which has not begun
yet (`fresh`) finds the engine free.  `Gives` is what all releasing operations have in
common: they only give something up.

*SettingsCallProofs*, about CallState: `FirstAnswerWins` (`OwnerKept`) follows from the types of the state
(`CallTyped`): one lemma per operation on the call shows that an owner is replaced
only by none.  It holds for any set of endpoints, with and without the idle poll, and
through any number of calls and troubles.

`NoCallGivenUp` (`NoFalseRelease`) needs an invariant about the events on their way,
`CallQuiet`, which holds during the first call as long as there is no trouble.  A
release is sent only when the modem has no call, so the matter is the end of a CLCC,
which counts as a miss when no call was listed before it, and releases the call at the
second.  The invariant says that gaps come only from the time in which voipd was
disabled (`Seamless`), that before the call there are only ends of commands
(`FirstCall`), that the end of a poll sent before the call comes before the ring or
behind a line that shows the call (`WhileIdle`), and that in the call the ends which
can still count against it come behind such a line or were sent without a call
(`InCall`).  `HandledFacts` sums up what each kind of line does to the call.

Only model-checked: all liveness (`RingDrains`, `QueueDrains`, `CommandReturns`,
`ThreadsReturn`, `Converges`, `EveryPartSurfaces`, `QueuedIsForwarded`,
`CallEndNoticed`, `ActivationSettles`), since fairness and ENABLED are out of the
prover's reach.

## 7. Not modelled

sysfs discovery, UCI files, JSON matching, PDU coding, codecs and resampling, SIP
transactions other than MESSAGE, routing, LuCI, drivers and vendored programs.
`PROJECT.json` gives the reason for each component and a note for each hazard that
no property covers.

The modules cover a small share of the repository's lines.  Most of the rest is
vendored kernel drivers and tools, user interface code, and per-vendor shell
functions that send an AT command and reformat its answer: what can go wrong there
is in the data, which a model of this kind abstracts from.  Part of it is not so,
and would repay a model: SIP registration and call bridging, the dial loop, the
monitor's recovery counters, uplink selection and the tty semaphore (§2).
