# newplat: a TLA+ model of the uplink daemon

newplat runs on an OpenWrt box carried by, or beside, a drone. Once a second it collects the aircraft's
position and the state of its modem over ubus, puts them into a JSON message and publishes that to an MQTT
broker. This directory holds TLA+ modules of that program, the configurations with which TLC checks them, and
proofs that TLAPS checks. Paths such as `src/json.c` below are short for `src/src/json.c` of the repository.

Commands, from this directory:

    tlc -workers 2 -config MCNewplat.cfg MCNewplat     # any MC*.cfg, with the module that the table below names
    tlapm BeatProofs.tla                               # any *Proofs.tla

## 1. Inventory

### Threads

| thread | created by | runs |
|---|---|---|
| main | the process | `main()`, then `uloop_run()`: the timer callbacks `mqtt_post_run()`, `mqtt_send_run()`, and libubus with its connect handler |
| network | `mosquitto_loop_start()` in `mqtt_init()` | libmosquitto, and its callbacks `mqtt_connect_callback()`, `mqtt_disconnect_callback()`, `mqtt_message_callback()` |

They share `g_mqtt_ctx` (above all `connected_uav`) and `g_device_id`. The one lock, `g_mutex`, is held by
`cjson_msg_add()` around `list_add_tail()` and by nothing else; only the main thread uses that list.

### Components

| component | code | state | operations | what makes it correct |
|---|---|---|---|---|
| heart beat | `main.c`, `json.c` 184-236 | two uloop timers, `g_msg_list`, `g_fly_time` | `mqtt_beat_init`, `mqtt_post_run`, `mqtt_send_run` | both timers keep running; the queue stays short although nothing bounds it; nothing stale is sent; the counted flight time is not ahead of the clock |
| message queue and content | `json.c` 9-208, 212-227 | `g_msg_list`, `g_net_info`, `g_uav_data`, cJSON objects | `cjson_msg_add`, `cjson_creat_post_data`, the sampling in `mqtt_post_run` | no message twice, none out of order, none for a device without an id; no member from an earlier sample |
| MQTT session | `mqtt.c` | `connected_uav`, user name, topics, libmosquitto's session | `mqtt_init`, publish, three callbacks, (`mqtt_close`) | the flag says what is true of the session; each new session is subscribed |
| device id | `json.c` 26-31, `utils.c` 255-296 | `g_device_id` | `get_device_id` → `get_dev_sn` → `exec_process` | two threads that write it at once never take a known id away |
| encryption | `encrypt.c` | heap buffers | `AES_ECB_PKCS5_Encrypt`, `_Decrypt` (not called), `handleOpenSSLErrors` | every length can be decrypted again; buffers are large enough; calls return |
| ubus client, calls | `serv_ubus.c` 55-192 | the copies of replies, the static buffer of `ubus_get_string` | `ubus_get_int`, `ubus_get_string`, `ubus_get_option`, `ubus_call`, `recv_call_reply` | writes stay in bounds; no old answer is returned; copies are freed once; calls return |
| ubus client, bus | `serv_ubus.c` 3-53, 214-273 | connection, method table, event list | `serv_ubus_init`, `ubus_connect_handler`, `add_ubus_method`, `reg_ubus_event`, (`ubus_send`, `ubus_reply`) | what was registered reaches ubusd, but for what it refuses; the connection comes back |
| UCI configuration | `uci.c` | libuci context | `ucix_*` | read only here; an absent option is NULL |
| utilities | `utils.c` 14-253 | none | `pack`/`unpack`, CRC, dates | the wire form does not depend on the machine; errors are detected; not called here |
| list primitives | `include/list.h` | pointers | insertion, deletion, replacing, moving, cutting, splicing | a ring after any sequence of calls |
| service and build | `files/`, `Makefile`, `CMakeLists.txt` | – | start and respawn by procd | – |

How they interact: `main()` calls `mqtt_init()` (which reads the configuration, asks for the serial number,
encrypts it into the password and starts the network thread) and then, whatever that returned,
`mqtt_beat_init()`. From then on the main thread runs the two timer callbacks. The post callback calls ubus
sixteen times, synchronously, then `get_device_id()` four times, and appends to `g_msg_list`. The send callback
takes messages off and passes them to `do_tty_msg_publish()`, which reads `connected_uav` and calls
`mosquitto_publish()`. The network thread writes that flag, calls `get_device_id()` itself in its connect
callback, and calls `exit(1)` when the broker refuses the connection. SIGINT and SIGTERM end `uloop_run()`, and
`main()` returns. procd starts a process again. `main()` calls `serv_ubus_init()` first of all; libubus connects at once
or from its timer, calls `ubus_connect_handler()` the first time, and reconnects on its own later.

### What is hard to test

The full list, each at its line and with the properties that watch it, is `hazards` in `PROJECT.json`:

- *Interleaving.* Both threads `memcpy()` into `g_device_id` and read it as a string in between;
  `connected_uav` is checked and the session lost before `mosquitto_publish()` is called.
- *Ordering.* The socket is closed some time before the disconnect callback runs; the flag is set before the
  topic is subscribed; a timer that competes with one a hundred times as frequent.
- *Bounds nobody wrote.* `g_msg_list` is unbounded; what keeps it short is uloop's ordering of two timers.
- *Crash and restart.* `exit(1)` on the network thread wherever the main thread is; `atof(NULL)` in the middle of
  a post; everything in memory is lost with either.
- *Numbers.* The size of the string buffer is a `char`; blocks, padding and base64 do not divide evenly;
  seconds are counted in callbacks; the aircraft's time is copied with its own length into 16 bytes.
- *Partial failure.* `mqtt_init()` may fail and is ignored; `get_dev_sn()` may fail in one call and succeed in the
  next, within one message; so may each of the sixteen ubus calls; the connect handler looks at no result, and ubusd may refuse anything.
- *Timeouts and late answers.* A ubus reply may come twice, after the timeout, or from a provider that has restarted
  since its id was looked up; the look-up itself has no timeout.

## 2. The modules

    Uloop ── Beat ──┬── FlightClock
                    │
    MqttSession ────┴── Newplat ──(implements)── Channel

    UbusCall ──(implements)── Getter ──(assumed by)── Sample ── one callback of Beat and Newplat

    Pkcs5 ──┬── TextBytes      UbusBus      UbusString      LinkedList                (on their own)
    Bytes ──┘

`Newplat` instantiates `Beat` and `MqttSession` (its actions are conjunctions of theirs) and `Channel`. Each module
`M` has an `MCM` with the values for TLC, and `MProofs` holds its theorems, where it has any; those of `FlightClock`
are in `BeatProofs`, those of `Channel` in `NewplatProofs`, those of `UbusBus` and `UbusString` in `UbusProofs`, and those
of `Pkcs5` and `Bytes` in `TextBytesProofs`. `TextBytes` extends both, as the texts that are encrypted are also
those that are packed and checked; its `MC` module is `MCBytes`, and extends `MCPkcs5`.

| module | models | state ↔ code |
|---|---|---|
| `Uloop` | libubox's timer list, as far as two timers show it (not in the repository) | `armed`, `left`, `first`: which timers are in the list, when they are due, which is at the head. A timer set is put after those due no later |
| `Beat` | `main()` from `mqtt_beat_init()` on, and both callbacks | `pc`: what the main thread executes; `pending`: the length of `g_msg_list` |
| `FlightClock` | `g_fly_time` against the uptime | `uptime` in ticks, `g_fly_time` in seconds, `best`: the highest that any earlier process had counted |
| `MqttSession` | `mqtt_init()`, publish and the callbacks; `g_device_id` in two parts that `memcpy()` writes one after the other | `main`, `net`: the threads' positions; `copied`: what the `memcpy()` under way has written; `subscribed`, `outq`: the broker's and libmosquitto's state |
| `Channel` | abstract: messages that may be lost, but not repeated or reordered | `made`, `underway`, `got` |
| `Newplat` | the process: both of the above with the messages in them | `queue`: `g_msg_list`; `draft`: the device ids read into the message being made |
| `Getter` | abstract: a ubus getter as one atomic reading of a provider, or the default | `datum`, `reading`, `answer` |
| `UbusCall` | a getter down to libubus, with providers, ubusd and the connection around it | `pc`: the function that is executing; `result`, `value`: the heap copies; `live`: blocks not freed; `wire`, `asked`: messages and requests under way |
| `Sample` | the sixteen readings of `mqtt_post_run()` and the members that `cjson_creat_post_data()` makes of them | `sample`, `time`: `g_net_info` and `g_uav_data` by the age of each datum, or `Spill` where the time's text was written over it; `message`: the members |
| `UbusBus` | method table, event list, connect handler, and libubus's retries | `methods`: `main_object_methods`, which is the table of `main_object` from the handler on; `events`: `event_list`; `cursor`: the handler's walk over it; `added`: libubus has `main_object`; `bus`: what ubusd has; `refused`: the entries it did not take |
| `Bytes` | `pack_*` and `unpack_*` one behind the other, on machines of both byte orders; `crc_be16()` and `crc_le16()` | none: operators on sequences of bytes; a word of a checksum is the set of its bits. The loops are recursive functions |
| `TextBytes` | no code of its own: the first bytes of a text as the values of some fields, the text as a message with wrong bits, and what is promised of both | as `Pkcs5` |
| `Pkcs5` | padding, lengths, base64, unpadding and the error loop of `encrypt.c` | `cipher`: blocks that remember their clear text (AES is opaque); `outLen`, `chars`: lengths; `room`: the size of the buffer for base64 |
| `UbusString` | the static buffer of `ubus_get_string()` | `alloc`, `size` (modulo `CharMod`), `byte0`, `zeros` |
| `LinkedList` | the `list_head` functions of `list.h` as pointer writes, beside the sequences they stand for | `mem.next`, `mem.prev`; `list` is the meaning, `valid` the nodes a caller may use |

Operators named `...Not`, `...Late`, `...Twice` and so on, each introduced by "Mutated:", are wrong variants of the
definition that follows them. They are used in no specification; `PROJECT.json` pairs each with the property that
catches it.

### Abstractions worth knowing

- A callback that talks to ubus is a start, any amount of time, and an end in `Beat` and `Newplat`. The timers go on
  meanwhile. `Sample` is what happens in it, with each ubus call as one step; `UbusCall` shows that a call is one.
- libubus passes a reply on only if its sequence number is that of the request being waited for, and looks at the
  connection from uloop or in a call. It re-adds objects after a reconnect, but not event patterns (`UbusBus`).
- In `Sample` a datum is its age, or zero: what the defaults and `memset()` leave, and also what may be made of a datum
  that came (a reported 0, a text that `atof()` makes nothing of, a number that its member cuts to 0). The text of the
  aircraft's time has any length: `newplat.h` documents fourteen bytes, and nothing in the code checks it. What is longer
  than `time` goes on over `course` and `spd`; what is longer than `dev_data` ends in "overrun", beyond which nothing is
  promised. The value that `atol()` makes of the digits (more than a `long` of 32 bits holds) is not modelled.
- libmosquitto's packets are those of one connection. What `SUBACK` says is not modelled: subscribed means that
  `mosquitto_subscribe()` was called and the session lives.
- The serial number comes from a MAC address and is a constant. `g_device_id` therefore is a set of parts of one
  value. Reading it as a string is one step, and gives "empty", "torn" or "sn". A torn string may not be the whole
  number but is made of its bytes.
- `connected_uav` is written and read in single steps (an aligned `int`).
- QoS is 0, as in `files/etc/config/newplat`, and sessions are clean: `mosquitto_new(NULL, true, NULL)` ignores the
  options `clean_session` and `client_id`.
- `char` is unsigned (ARM) in `UbusString`. Where it is signed, 128 is a negative size and the first call fails.
- An OpenSSL error hangs the main thread (`Pkcs5`); `Beat` assumes that this does not happen.
- Running out of memory for a method's or an event's entry is not modelled (`calloc()` is not checked).
- Running out of memory for a message's topic (`strncmp()` of NULL) is not modelled; for its text or entry it is.
- Respawning is an action without fairness. `files/etc/init.d/newplat` line 10 calls `procd_opennewplat_instance`,
  where procd has `procd_open_instance`, so whether a process is started again is not for the code to say.
- The header `list.h` is modelled as the repository has it. The sources get theirs from libubox, whose functions
  have the same names.

## 3. What TLC checks

| run | properties | bounds, and why they are enough |
|---|---|---|
| `beat` | `QueueBound`, `IInv`, `MessagesLeave`, `BothTimersRun` | start 6, post 6, send 2 ticks. Three sends fit between two posts, both timers fall due in the same tick in either order of arming, and callbacks overrun each period. No bound on time or runs |
| `flight_clock` | `NeverAhead`, `ClockIInv`, `ResumesNoLower` | seconds of 2 ticks, uptimes of 0-11 ticks from any start: several seconds and several processes. `ResumesNoLower` is about a process that could read the uptime; the code starts from 0 if it cannot |
| `session` | `FlagSound`, `NameWhole`, `ConfiguredFirst`, `SubscribedAgain`, `IInv`, `IdNeverLost`, `FlagFalls`, `SubscriptionFollows` | one kind of message, two packets in libmosquitto. Reconnects and restarts are not bounded |
| `newplat` | `NewestOnly`, `IdsImprove`, `IdsWhole`, `ImplementsChannel`, `ImplementsBeat`, `ImplementsSession` | two messages, shortest periods: the first under way in libmosquitto or on a lost session while the second is made, in the same or the next process |
| `bytes` | `CipherReadable`, `EncodedFits`, `WireForm`, `Detected`, `Residue` | blocks of 16 and every length of 0-50 bytes: four numbers of blocks, every padding, and every remainder of base64. Bytes count up from three starts so that any value is taken for a padding. The first bytes of each text are up to two fields of every kind and width, on all four pairs of byte orders. Texts of up to three bytes are damaged by every burst of up to nine bits, which lies in one byte or in two; the proofs have no such bounds |
| `pkcs5_decrypt`, `pkcs5_returns` | `DecryptReturnsPlain`, `EncryptReturns`, found violated | the same texts |
| `ubus_string` | `InBounds`, `ShortIsExact`, `NothingStale` | the real 128 and 256, and the lengths on each side of every boundary up to 513, in any order and number |
| `ubus_call` | `Ownership`, `IInv`, `ImplementsGetter`, `CallReturns` | two data, two calls, two object ids, three messages under way: a late reply to the first call meets the second, a provider restarts between look-up and request, a reply comes twice or with a member of another type, ubusd does not answer |
| `ubus_bus` | `Offered`, `Connects` | two methods (the table moves), two events (ubusd ends between them, or refuses the first and takes the second), any number of ends and starts of ubusd, and a refusal of anything at any time |
| `sample` | `InOrder`, `TailRewritten`, `TimeExact` | any number of callbacks, each with three moments and two zeros or missing data: two take away both sources of the flight time. The time has 8, 14, 16, 18, 24 or 25 bytes in the real layout of `dev_data`: it leaves a NUL, fills its 16 bytes, goes over one or both of the members behind it, or leaves the structure; a long text is followed by a short one or none |
| `linked_list` | `Represents`, `Observed` | two heads, three entries, any number of calls. A ring of four nodes has a node that is neither an end nor a neighbour of one. Heads, and entries, are symmetric: no definition names one |

What they show:

- **The queue is short because of the timers.** `QueueBound` and `NewestOnly`: at most one message waits, and it is
  the newest sample, also after an outage. Its reason, `SendAheadOfPost`, is part of `IInv`. This is about `g_msg_list`;
  packets that libmosquitto holds may be older.
- **Neither timer starves** (`BothTimersRun`) and a message always leaves (`MessagesLeave`).
- **The flag is wrong only in one place.** `FlagSound`: it may be set without a session only from the closing of the
  socket to the disconnect callback, and that gap ends (`FlagFalls`). A packet published in it is refused or lost.
  The flag is set before the topic is subscribed, so a message may go out first; but a connect callback that finds a
  number ends with its topic subscribed (`SubscriptionFollows`), unless the process dies. One that finds none never
  subscribes in that session.
- **The unlocked device id is safe, by luck of a constant.** Both threads write the same bytes and never clear them
  (`IdNeverLost`), so a process that had its number at start-up reads it whole ever after (`SubscribedAgain`,
  `IdsWhole`), and within a message ids only improve (`IdsImprove`). The mutant that clears the buffer first breaks
  all four.
- **End to end,** queue, flag, libmosquitto, reconnects and restarts lose messages but do not repeat or reorder them
  (`ImplementsChannel`), and the composed process implements both components (`ImplementsBeat`, `ImplementsSession`).
- **Two disagreements with comments in `encrypt.c`**: `Decrypt` does not return the plain text, and an OpenSSL error is
  never returned from. What newplat sends is correct (`CipherReadable`), and the buffer that `Encrypt` allocates has room for
  its base64 form and the NUL (`EncodedFits`). Nothing calls `Decrypt`; `Encrypt` makes the password.
- **`char size` stays within its allocation, but long strings suffer.** Where char is unsigned it is cut to 0 or 1 by
  strings of 255 or 256 bytes, but never exceeds the allocation, so that writes stay in bounds (`InBounds`). A string that
  fits a char with its NUL is exact after any history (`ShortIsExact`), and no string of an earlier call is
  returned for a missing one (`NothingStale`). A string of 255 bytes or more may come back cut, or without a NUL, and then
  its reader goes beyond the buffer: no property is about that.
- **The user name is whole or empty** (`NameWhole`), as the network thread starts after it was made, and a process whose
  configuration was not read never publishes (`ConfiguredFirst`), although `main()` ignores that.
- **A ubus getter is what its callers take it for, if it returns.** Whatever its provider and the connection do, it gives
  a reading of the datum made during the call, or the default (`ImplementsGetter`), and it returns unless ubusd never answers
  its look-up: `ubus_lookup_id()` has no timeout, only `ubus_invoke()` has (`CallReturns`). It frees its copies on
  every path; only a second reply to one call leaks one block (`Ownership`).
- **A message is never older than its callback, but not of one moment.** `InOrder`: its members are read during the
  callback, in the order of the calls, and there is a flight time if the longitude is not 0 (beside a longitude of 0 the
  counted one is left out). `TimeExact` rests on the `memset()` at the top of the callback; a text that fills the 16
  bytes may have the course read as more of its digits. A text that is longer writes over course and speed, and only
  because these are read after it is nothing of that in the message (`TailRewritten`). A string that is missing is
  `atof(NULL)`, and the process dies.
- **What is registered before `main()` is offered.** Whenever ubusd starts or ends, the first connection offers it the
  methods and every event. The handler looks at no result, so what ubusd refuses is lost, but nothing else is: the walk goes
  on behind a refused event. libubus offers the methods again at every later connection, until they are refused (`Offered`). The connection comes back (`Connects`), for which the handler's `ubus_add_uloop()` is needed.
- **Packed fields do not depend on the machine** (`WireForm`). The checksum finds bits that are damaged close to each other
  (`Detected`), and the loop of the CRC over a text and its packed checksum gives zero if `crc_le16()` is packed
  big-endian, or `crc_be16()` little-endian (`Residue`).

### Fairness

- `Beat`: weak fairness of the clock and of the main thread, which the operating system runs. So it assumes
  that every ubus call ends, that is, that ubusd answers look-ups (see `CallReturns`); for the rest of a call there is a
  timeout. Nothing of refusals, crashes or procd: every liveness property allows for a process that is dead.
- `MqttSession`: weak fairness of the network thread's own callbacks, nothing else. A thread in a callback is run
  to its end; when a broker answers, or whether it does, is not known.
- `UbusCall`: weak fairness of the call itself. The main thread runs and its timeout with it. `ubus_lookup_id()`
  asks and waits, and the answer has no fairness. Nothing is assumed of providers, ubusd or the connection, which is why
  `CallReturns` has the exception of a look-up that is never answered.
- `UbusBus`: weak fairness of the main thread, with uloop's sockets and libubus's timer. `Connects` has as its premise
  that ubusd runs for good in the end.
- `Pkcs5` (`pkcs5_returns` only): weak fairness of the step that is being executed.

Deadlock is checked in every run but those of `Pkcs5` and `MCBytes`, which model a computation that ends.

## 4. What is proved

| module | theorems | for all |
|---|---|---|
| `BeatProofs` | `BeatInvariant`, `BeatTypeCorrect`, `QueueIsBounded` | delays with `StartDelay <= PostPeriod` and `SendPeriod <= PostPeriod` (`PeriodAssumption`) |
| `BeatProofs` | `ClockInvariant`, `FlightTimeNeverAhead`, `FlightTimeResumes` | the same, and no delay of a post shorter than `Second` (`SecondAssumption`); uptimes without limit, as `MaxUptime` is any number |
| `MqttSessionProofs` | `SessionInvariant`, `SessionTypeCorrect`, `FlagIsSound`, `SubscriptionIsRenewed`, `DeviceIdIsNeverLost`, `NameIsWhole`, `PublishingNeedsConfiguration` | sets of messages and bounds of the packet queue |
| `NewplatProofs` | `NewplatInvariant`, `OnlyNewest`, `IdsOnlyImprove`, `IdsAreWhole`, `BeatImplemented`, `SessionImplemented`, `ChannelImplemented`, `SamplesInOrder` | the delays of `PeriodAssumption` (stated again as `DelayAssumption`), any bound on the messages (`MaxMsgsAssumption`) |
| `NewplatProofs` | `ChannelInvariant`, `ChannelReceivesInOrder` | whatever implements `Channel` over this queue and these packets |
| `UbusProofs` | `StringInvariant`, `BufferInBounds`, `ShortStringsAreExact`, `NoStaleString` | widths of `char`, initial sizes below it, sets of lengths (`CharAssumption`) |
| `UbusCallProofs` | `CallInvariant`, `CopiesAreFreed`, `CallImplementsGetter` | data, and numbers of calls, object ids and messages under way (`UbusAssumption`) |
| `UbusProofs` | `BusInvariant`, `RegisteredIsOffered` | sets of methods and of events, and whatever is refused |
| `SampleProofs` | `SampleInvariant`, `SampleIsInOrder`, `TailIsRewritten`, `TimeIsExact` | numbers of moments (at least one) and of zeros, texts of the time of any length, sizes of the buffer for it that are not 0 and of what lies behind it (`SampleAssumption`) |
| `LinkedListProofs` | `ListsAreApart`, `ListsRepresented`, `TestsAreRight` | sets of heads and of entries without a common node (`NodeAssumption`) |
| `TextBytesProofs` | `Readable`, `Fits` | sets of texts of any lengths; sizes of a block of at least 7 that leave 1 when divided by 3, as 16 does (`BlockAssumption`) |
| `TextBytesProofs` | `PackUnpackAny`, `WireFormKept` | lists of any number of fields, their values, and both machines; texts as above |
| `TextBytesProofs` | `BurstDetected`, `DetectedAlways`, `ResidueZero` | messages of any length; bursts anywhere in them of up to sixteen bits (`BytesAssumption`) |

The inductive invariants, each called `IInv` (`ClockIInv`, `StringIInv`) in its module (that of `Pkcs5`, `CipherIInv`, in `TextBytesProofs`), and why they are needed:

- **Beat.** `QueueBound` alone is not inductive: a post could find a message waiting. `SendAheadOfPost` excludes it: a
  message waits only while the send timer is at the head of the list. To re-establish this when a post ends, the send
  timer must be due within `PostPeriod`, which is where the assumption comes in, and the list must be sorted
  (`TimerOrder`). The lemmas `TimeoutSetKeepsOrder` and `TimeoutSetKeepsHead` say what `uloop_timeout_set()` does to it.
- **FlightClock.** `SecondDue`: while the post timer is armed, the time left until it is due covers the second that
  it will count. `BestBehind` carries the same bound over restarts, and gives the action property `ResumesNoLower` with
  arithmetic on whole seconds (`WholeSecondsMost`). `ClockStepsBeat` lets the invariant of Beat be reused.
- **MqttSession.** `NameKept` and `SubscribedAgain` rest on `CopyProgress`, which ties each `memcpy()` under way to
  the bytes in the buffer: a torn id always has somebody who is completing it. `GetDevSnAdds` is the lemma on one step of it.
- **UbusCall.** `Ownership` needs to know which pointers are set where (`Locals`). The refinement needs `Fresh`: the last
  datum on the wire with this call's number is what the abstract getter has read, which rests on `Numbered` (no reply
  follows the status of its request, none has a number not yet given out).
- **UbusBus.** `Offered` says nothing of the handler while it runs; `Progress` does: as long as the connection lives,
  ubusd has what the walk has passed and was not refused. `Connected` adds that only a connection begun by the handler is ever unbroken.
- **Channel.** What is under way is newer than all that was received.
- **Newplat.** A step of the process is one of `Beat` and one of `MqttSession`, or leaves that component alone
  (`BeatImplemented`, `SessionImplemented`), so the invariants of both hold here through instances of their proof modules,
  and only what relates them is left to prove. `DraftSound` is about the message being made: no id in it is better than
  what `g_device_id` reads as now, which is what the next id is compared with; that it reads no worse later is the lemma
  `DeviceIdGrows` of `MqttSession`. `OutqOrdered` is what the step to `Channel` needs: packets are in order, and older
  than the message that waits. `NewestOnly` comes from the instance of `QueueBound` and says more: which message it is.
- **Sample.** The three properties are about a finished message; `Collected` and `TimeRead` say the same of a callback
  that has got as far as its n-th call: what it has asked for is ordered by the calls (`Ordered`)
  and not from the future, and the buffer is what the text of this callback and the `memset()` made it. `TailRewritten` follows from
  that: `Spill` is later than any moment, and at the end everything has been asked for.
- **LinkedList.** `Represents` alone is not inductive: a call on one list could write into another, if they shared a node
  (`Apart`). There is a lemma per function of `list.h` that takes a closed circle of pointers to a closed circle and says
  which nodes it leaves alone. They are about any memory, not that of the state, so that functions which call
  others (`list_move()`, `list_splice_init()`) are proved from the lemmas of those they call.
- **UbusString.** A size that was cut to 0 leaves nothing for `memset()` to clear, so the proof needs that it also
  left an empty string (`EmptyWhenZero`, `BlankInCall`), and that within a call the size is that of its string (`StoreFits`).
- **Pkcs5.** That the cipher text can be read needs `CipherOfText`: it is made of the blocks of the padded text. The rest is
  arithmetic on blocks: an index is a block and a place in it (`Place`), and the padding that is added to a length makes
  it whole blocks (`PaddedLength`). `EncodedFits` needs to know where `chars` and `room` come from (`CharsOfCipher`), since
  `*outLen`, the source of both, is used for something else in `Decrypt`.

The properties of `Bytes` are about loops over data, and their proofs are inductions. The library's induction theorems take an
operator as a parameter, which the provers cannot instantiate, but that `<` is well-founded on the naturals is a statement about a
set. It gives a smallest number to every set of numbers (`Smallest`), so an induction for sets (`Induct`), so a function
for every recursion from one value to the next (`Recursion`), and with that each loop its equations (`Offsets`,
`PackedFields`, `ShiftsRec`, `AddBytesRec`). Then:

- **Packing.** By induction over the fields, each is where the lengths of those before it put it, in the order of bytes
  that its kind promises (`PackedFields`). A swap done twice is none (`Reversed`).
- **A burst.** The inner loop is linear (`ShiftsLinear`), and shifts nothing but zero to zero (`ShiftNonzero`), because the
  polynomial has bit 15. So the difference of the words of a message and of the one with wrong bits depends on these
  bits alone (`AddByteDifference`). Add to it the wrong bits to come. From the byte behind the beginning of the burst on, this is a
  word that each byte only shifts (`ToComeNext`); it begins as the burst itself, shifted (`ToComeFirst`), so it is not
  zero, and at the end of the message nothing is to come.
- **The residue.** Bits that are not set are shifted out without a trace (`ShiftsClean`). The low byte of the checksum clears the
  low byte of the word and leaves the high one, and the high byte clears that (`OwnBytes`).

Only model-checked: liveness (`BothTimersRun`, `MessagesLeave`, `FlagFalls`, `SubscriptionFollows`, `CallReturns`, `Connects`), as
fairness is beyond the prover, and the two properties of `encrypt.c` that are found violated.

## 5. What is not modelled

- `mqtt_close()` (nothing calls it), `mqtt_message_callback()` (it keeps no state, and the default configuration
  installs no handler).
- `uci.c`. Each function is one look-up and one call of libuci, on a tree, deltas and directories that are libuci's;
  modelling it would be modelling libuci. Three of the functions are called, and their failures are in `Newplat`.
- `ubus_send()` and `ubus_reply()`, one call of libubus each, not called; the value of the ubus timeout.
- `timestamp()`, `time_to_14utc()`, `hexdump()`: conversions and output.
- The text that cJSON makes, and the wording of topics.
- The iteration macros of `list.h` and its `hlist`, which nothing here uses.
- Build and service files, but for the respawn. Logging.

## 6. Plan

Done, in this order: `Beat`, `FlightClock`, `MqttSession`, `Channel`, `Newplat`, `Pkcs5`, `UbusString`, `LinkedList`,
`Getter`, `UbusCall`, `Sample`, `UbusBus`, `Bytes`, `TextBytes`. Proved: the safety properties of all of these, for every
value of their constants, and the refinements. Left to model: `mqtt_close()`, as what its contract would be for a caller.
