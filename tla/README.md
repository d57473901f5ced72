# Spark WebSocket server: verification development

TLA+ models of a WebSocket server that runs as the user application of a Spark
Core (STM32F103 + CC3000 WLAN chip), checked with TLC, and theorems about them
checked with TLAPS. Paths are relative to the repository's `src/`.

## Inventory

| component | source | state | operations |
|---|---|---|---|
| WebSocket server | `src/SparkWebSocketServer.cpp` | `clients[4]`, `hixie76style`, `previousMillis` | `doIt`, `handshake`/`analyzeRequest`, `getData`/`handleStream`, `sendData`, `disconnectClient` |
| TCPClient | `src/spark_wiring_tcpclient.cpp` | `_sock`, `_buffer[512]`, `_offset`, `_total`, `ip[5]` | `connected`, `available`, `read`, `flush`, `stop`, `write`, `equals` |
| TCPServer | `src/spark_wiring_tcpserver.cpp` | `_sock` | `begin`, `available` |
| application ("tinker") | `src/application.cpp` | `digitalStates[8]`, the pins | `setup`, `loop`, `handle` and the five commands, `dfu` |
| WLAN management | `core-firmware/src/spark_wlan.cpp` | the `WLAN_*`, `SPARK_WLAN_*` and `SPARK_CLOUD_*` flags, the watchdog's deadline, `Spark_Error_Count`, `cfod_count` | `SPARK_WLAN_Setup`, `SPARK_WLAN_Loop`, `Start_Smart_Config`, `WLAN_Async_Callback` |
| main loop and time | `core-firmware/src/main.cpp`, `spark_wiring.cpp` | tick counters, `TimingFlashUpdateTimeout` | `main`, `delay`, `millis`, `Timing_Decrement` |
| CC3000 host driver | `core-common-lib/CC3000_Host_Driver`, `SPARK_Firmware_Driver/src/cc3000_spi.c` | `socket_active_status`, `tSLInformation`, the SPI state | commands, answers, events, flow control; the SPI and DMA interrupt handlers |
| cloud connection | `core-firmware/src/spark_utilities.cpp`, `core-communication-lib/src` | `sparkSocket`, `SparkProtocol`'s timers, `chunk_index` | `Spark_Connect`, `event_loop`, the message handlers, `FLASH_Update`; off in this application (`spark_disable_cloud.h`) |
| USART, USB serial, I2C, SPI, servo | `core-firmware/src` | ring buffers | interrupt handlers and wiring calls |
| browser demo | `html/spark/js/tinker.js`, `example` | UI state | a WebSocket client |

**How they interact.** `main()` calls `SPARK_WLAN_Loop()` and then `loop()` for
ever; `loop()` is `mine.doIt(); delay(1000)`. `doIt()` is one pass: take at most
one connection from `TCPServer::available()` (which allocates a `TCPClient` with
`new`), answer its handshake, then serve each entry of `clients[]`: drop it if it
is not `connected()`, otherwise read at most one frame, hand it to the callback
(`handle`) and send the result, or send a heartbeat every 5 s. `connected()`,
`available()` and `read()` talk to the chip through the host driver. The other
side is asynchronous: peers connect, send and close at any time, and the chip's
events change `socket_active_status` and the `WLAN_*` flags from
`WLAN_Async_Callback` while `doIt()` is between two calls.

Below the server, every call of the host driver is a command written over SPI and
a wait for its answer; two interrupt handlers move packets between the chip and
one receive buffer, and hand events to `WLAN_Async_Callback`. The WLAN loop
stops and starts the chip when its watchdog, a reset request or
`WiFi.off()`/`WiFi.on()` says so, runs smart config on a button press, connects to
the cloud and then polls `SparkProtocol::event_loop()`, which pings, answers,
and takes a firmware update into the external flash.

**What is hard.** Everything `doIt()` looks at can change before it uses it: it
asks `connected()` up to nine times for one frame, and `connected()` itself pulls
data or closes the socket. Clients are compared by address and the *low byte* of
the port. Objects are deleted while a pointer to them is on the stack. Refused
and surplus connections are neither closed nor deleted. One flag
(`hixie76style`) is shared by all clients. A read times out in the middle of a
frame, and its `delay(1)` may run the WLAN loop in the middle of a request. The
watchdog's deadline is compared with a tick counter that wraps. In the driver the
thread and two interrupts share one state machine, one buffer, and counters that
are updated without a lock; a wait that is given up leaves its opcode behind. The
WLAN flags are set by interrupts between any two lines of the loop that clears
them. The chunks of an update carry no number: that they are written in order
rests on who asks for what, and when.

**What makes each part correct.** Server: entries of `clients[]` are distinct
live objects; no freed object is used; a client stays until it is gone and then
leaves; requests are executed once, in order. TCPClient: a FIFO between chip and
reader; a handle of one's own; nothing is dropped that could be read. TCPServer:
listening again after an outage. Tinker: `digitalStates` tells the state of the
outputs. WLAN: a lost address is watched, and the watchdog acts; the flags follow
the link; no command goes to a chip that is off. Driver: no packet is overwritten
before it is read, the chip is never sent more than it has buffers for, a call gets
its own answer and returns. Cloud: silence ends, with a ping before it is
believed; what is flashed is the image.

## Modules

| module | models |
|---|---|
| `TcpSockets` | the chip's socket table, `socket_active_status`, peers and outages, and the `TCPClient` objects; the `TCPClient` methods as operators |
| `WebSocketServer` | `doIt()` step by step over `TcpSockets`, with `TCPServer::begin/available`; properties |
| `ClientTable` | abstract: clients join, have requests executed, leave for good |
| `ClientBuffer` | the receive side of one `TCPClient` byte by byte: `_buffer`, `_offset`, `_total`, `available()`, `read()`, `connected()` |
| `ByteStream` | abstract: a FIFO of bytes whose tail may be lost |
| `FrameReader` | `handleStream()` and `timedRead()` over `ClientBuffer` |
| `FrameWriter` | `sendData()` and `sendEncodedData()`, and a peer that parses what they write |
| `Cc3000Driver` | one call after another of the host driver: the SPI write, the wait for the answer and the data, the two interrupt handlers, flow control, timeouts; the chip as the environment |
| `WlanManager` | `SPARK_WLAN_Loop()` with smart config and the connection to the cloud, `WLAN_Async_Callback()`, the button, the watchdog; chip, access point and server as the environment |
| `SparkProtocol` | `event_loop()` and its handlers, the timers, the firmware update down to `FLASH_Update()`; server and network as the environment |
| `WebSocketServer_proofs`, `ClientTable_proofs`, `ClientBuffer_proofs`, `FrameReader_proofs`, `FrameWriter_proofs`, `Cc3000Driver_proofs`, `WlanManager_proofs`, `SparkProtocol_proofs` | inductive invariants and theorems; `ClientTable_proofs` continues those of `WebSocketServer_proofs` up to the refinement |
| `MCWebSocketServer`, `MCFrameReader` | peers' scripts, equal and distinct keys, symmetry, frames for TLC |

`FrameReader` extends `ClientBuffer`, which refines `ByteStream`;
`WebSocketServer` extends `TcpSockets` and refines `ClientTable`. The two halves
meet in what a read returns: `WebSocketServer` takes a frame as one token and
reads it in one step, and the stream modules say under which conditions that is
what the bytes do. Where the operators of the two overlap (`Status`, `MustAsk`,
`Connected`, `ConnectedEffect`), they are the same code for many connections and
for one.

The last three modules are layers that rely on each other. `WlanManager` lets every
call on a running chip return, which is `Cc3000Driver`'s `CallsReturn`, and lets
`event_loop()` fail in the end when nobody is at the other end, which is
`SparkProtocol`'s `SilenceEnds`. `TcpSockets` takes a close event as one step that
clears `socket_active_status`, which `CloseNoticed` says the driver does, with the
exception named there. They are not composed into one state space: each module's
environment is the other's promise.

A definition marked "Slip:" stands next to the one it distorts. It is a bug that
could be made there (a dropped guard, an off-by-one) and no specification uses
it: substituting it makes TLC find the property of `PROJECT.json`'s "mutants"
violated.

### State and actions

`chip[s]` is what the chip's handle `s` stands for, `active[s]` the driver's bit
for it, `sock[c]`/`buf[c]` the fields of the `TCPClient` object of connection
`c`, `heap[c]` whether that object has been allocated or deleted. Each
connection has at most one object, so a connection also names its object. A
connection's `Key` is what `equals()` compares. Bytes are tokens: a header line
or a whole frame; `script[c]` is what the peer sends and `sent[c]` how much of it
has been sent. A peer sends frames only after the answer to its handshake, as
browsers do, but header lines may arrive at any time.

`pc` says which call of `doIt()` is next: `accept` (`server->available()`), `new`
(line 335), `headers` (the loop at 421), `verdict` (458 on), `scan` (348),
`recheck` (360), `get` (362), `framed` (249), `dfuscan` (374), `call` (383),
`send` (388), `empty` (390), `dfu` (after `NVIC_SystemReset`). A step makes one
call that touches a socket. Calls are merged where no event in between can make
a difference: `disconnectClient()` is one step because between its write and its
`stop()` only the peer or the chip move, and `stop()` and the search by `equals()`
do not depend on what they change; the two `sendData()` calls have no step of
their own for the bytes since they ask `connected()` only when `status()` holds,
which leaves the sockets as they are.

`connected()` is two operators: `Connected(c)`, what it returns, and
`ConnectedEffect(c)`, what it does: nothing, pull the chip's data, or close our
side. A header line that arrives after the server has answered is parsed as a
frame (`ReadGarbage`): it swallows any number of the tokens behind it and may
yield a string of garbage. The 512-byte limit of `_buffer`, and frames that
arrive in pieces, are the subject of the stream modules.

A failing `accept()` marks the *listening* handle inactive in the driver's table
(`socket.c:354`); `NoAccept` does that too.

**The stream modules.** `wire` is what the chip holds for the socket; `buffer`,
`offset`, `total` are the fields of `TCPClient`; `up`, `open` and `active` are what
`connected()` looks at. `recv()` hands out any number of the bytes there are,
up to the room behind `_total`. A cell of the array that will not be read again
is `None`, so states that differ in leftovers are one.

A byte is a tag `<<frame, part, index>>`, for example the second mask byte of
frame 1. `handleStream()` takes a byte for what its position says it is; a tag
met where another was due stands for any value there, and `timedRead()`'s -1 for
what `& 127`, `<< 8` and `|=` make of it. A payload byte comes out right (`Unmasked`) when the mask
cell it meets holds the byte the peer masked it with. `sync` is history: `whole`
until a byte within a frame was missed, `cut` when the connection's end cut it off
(the call returns at once), `lost` when the reader went on without the byte.
Once it is `lost`, payload, mask and results are any strings and are not kept.
One call of `getData()` is: `poll` (`available()`), `wait` (`connected()` and
`delay(1)`), `alive` (`connected()`), `read`, `take` (the byte itself, after the
`available()` that `read()` makes of an empty buffer) and `parse`, which has the
`connected()` after each byte and what the code then does.

The `delay(1)` is taken to return. In the code `delay()` yields: after
`SPARK_WLAN_Setup()`, and unless WiFi is off, it runs `SPARK_WLAN_Loop()` when the
delays since the last turn add up to a second, and again while
`SPARK_FLASH_UPDATE` is set (`spark_wiring.cpp:647-661`). So a slow frame can hold a
whole turn of the WLAN loop, an update, or a stop and start of the chip. That a turn
ends is `TurnComesToAnEnd` in `WlanManager_proofs` (up to a handshake or a poll that
returns), and that an update does is `UpdateEnds` in `SparkProtocol`; neither is
composed with the reader. What such a turn does to the socket is in `FrameReader` as
far as it is the network going and coming back at any point; a handle that is stale
after a restart of the chip is not. The server's other delays (157, 378, 454, and 83
and 368 in a debug build) are taken to return too; peers, chip and network may move
between the steps around them.

**The driver.** `pc` is where the thread is in one call: `powerup` and `first` (the first
write of `wlan_start()`), `flow` and `take` (`HostFlowControlConsumeBuff()`, whose
decrement of the count is a load and a store), `reserve`, `waitIrq`, `writing`
(`SpiWrite()`), `sent`, `wait`, `recvd`, `waitData` (`SimpleLinkWaitEvent()` and
`SimpleLinkWaitData()`), `ret`, `idle`, and `off` before `wlan_start()`. `spi` is
`sSpiInformation.ulSpiState`, `dma` the transfer under way, `pinLow` the chip's
line, `exti` its edge latched, `irq` whether `SpiPauseSpi()` has masked it, `rx` and
`received` the buffer and `usEventOrDataReceived`, `rxOpcode` and `dataPending` what
the thread waits for. `Receive` is what happens in the interrupt, `HandleEvent` one
turn of `hci_event_handler()`. `free` and `unreleased` are the driver's counts,
`held` and `credits` the packets in the chip and those it has sent but not reported.
`toHost` is what the chip has to say; `Answer` takes commands in order. A call is
its opcode and a number, so that an answer can be told from another call's.
There is one connection, with `handle` and `active` for it; both outlive
`wlan_stop()`, after which the chip knows no such connection. `late` is history: a
wait has timed out since `wlan_start()`; `hidden`: a close event came while
`accept()` was waiting. What the model shows of the code, besides the properties:

* After a timeout `usRxEventOpcode` stays set, and the late answer goes to the next
  call with that opcode, until `wlan_start()`. A call whose data times out leaves
  `usRxDataPending` set, and a write that follows a timeout overwrites the packet
  that is still in the buffer (`Overwritten`).
* An answer that arrives before `usRxEventOpcode` is set (between `Written` and
  `WaitEvent`) is discarded as unsolicited, and the call waits for its timeout.
* A failed SEND's answer is taken for an unsolicited event and handled in the
  interrupt, so that the `send()` that waits for it waits the whole timeout.
* Until the first `wlan_start()` has set the timeout (`timeoutOn`), a missing answer
  is waited for without end.
* A decrement of the free buffers lost to an interrupt counts too few, never too
  many.

**The WLAN loop.** `pc` is a point of `SPARK_WLAN_Loop()` between two calls that
take time: the reset block (`clear`, `stop`, `restart`), `start`, smart config
(`config`, `sc.clear`, `sc.policy`, `sc.wait`, `sc.start`), `mdns`, and the cloud
(`cloud`, `blink`, `dial`, `dialed`, `failed`, `talk`, `shaken`, `comm`, `prepare`);
`app` is `main()`'s call of the application. Flags keep their names. The watchdog's
deadline is `clear`, `armed` or `due`. Between any two points the chip's `events`
are delivered to `WLAN_Async_Callback` (`Callback`), the button may be held down,
the application may call `WiFi.on()` and the others, and time passes. `link` is what
the chip has (nothing, a connection, an address), `peer` whether the cloud is at the
other end. A reset (`SystemReset`) keeps what is in flash. Two history variables
name what the properties except. `late`: an event, a button press or a manual
connection falls between the clearing of the flags and the stop of the chip, or
while it is off; it lasts until the next pass through the reset block. `excused`: the
watchdog is not armed by design. What they stand for in the code:

* A disconnect event between the clearing of the flags (472) and `wlan_stop()`
  arms the watchdog for a chip that is off; if it is due before `WiFi.on()`, the
  reset block runs again instead of the start.
* A button press (516) or a manual connection (520) while the chip is off sends a
  command to it and waits for ever: this is why deadlock is not checked.
* `SPARK_WLAN_Setup()` and smart config start the chip without arming the
  watchdog; a lease refused after it was cleared does not arm it either.
* Line 589 decrements `Spark_Error_Count` a second after testing it; a disconnect
  event in between makes it wrap, and the loop blinks for 255 s.
* `Start_Smart_Config()` waits for a disconnect with a flag it has just cleared, so
  that it does not wait; the return in line 610 is never taken.
* `UPDATE_BEGIN` handled after a disconnect sets `SPARK_FLASH_UPDATE` again; the flash
  timer then resets the core.
* An access point that comes and goes re-arms the watchdog each time, so that
  `WatchdogActs` needs the number of changes to be finite, as `MaxChanges` makes it.
* `ip_config`, `sparkSocket` and `WLAN_DELETE_PROFILES` are not reset by a stop.
* A close event is compared with `sparkSocket` (356). It may be of an earlier connection
  that the host has closed itself: then the flags of the newer one are cleared if it has
  got the same handle, and left alone if not. `OnCloseWait` has both, the second
  only when the newer connection is up or its end comes later.

**The cloud connection.** `pc` is where the thread is in `event_loop()`: `loop`
(`receive()` and the timers), `body` (the rest of the message), `ack`, `act` and
`reply` (a handler, its answers), and `shaken` for the handshake; `flashed` and
`reset` are the two ends of a program, after which `Restart` begins another. `msg`
is `queue`, the one buffer for a message and its answer. Time is how many limits
have passed: 10 and 15 s since the last message, 3 s since the last chunk, 30 s of
the flash timer. `flash` is what `FLASH_Update()` has programmed, unit by unit, as
positions of the image, so that a chunk written twice or left out shows. A chunk
carries no number in the protocol; the `no` of a chunk message says what it
contains and no handler looks at it before writing. The server begins an update,
sends the chunk after the one acknowledged, sends one again when asked, and may
leave any message unanswered. `synced` turns false when one byte of a length came
alone and was dropped (127); from then on what is read is any message a run of
bytes may pass for. A `FLASH` write or a checksum may fail (`MaxFaults`): a page that
is bad for ever is retried for ever. What the model shows besides the properties:

* A chunk asked for again after 3 s while the first is still on its way is written
  twice, and the image that `FLASH_End()` announces is wrong; a `CHUNK_MISSED` for a
  chunk that does not exist is sent when the end of the update is late.
* A failed write erases its page and goes back to the page's first chunk, computed
  with the size of the chunk that failed: for a shorter last chunk beyond the first
  page the index is too high.
* `expecting_ping_ack` and `last_message_millis` outlive a connection, so that a
  fresh one may be dropped by its first poll. A disconnect between the handshake and
  line 673 of `spark_wlan.cpp` makes the next connection skip its handshake; and
  `event_loop()` is entered even when the handshake failed.
* During an update nothing is pinged: only the 30 s of the flash timer end it.

In `FrameWriter` a message is its length; each `Write` is one
`TCPClient::write()`, between any two of which the line may go or come back. What
a peer makes of a frame with a hole in it is not followed.

### Properties

* `SlotsDistinct`, `NoUseAfterFree`, `SockOwner`: the table, the heap and the
  handles; `ExactlyOnce`: requests; `StaysUntilGone`: who leaves the table and
  why; `ImplementsTable`: refinement of `ClientTable` with
  `phase = member/left/new` from `clients[]` and the handshakes answered, and
  `log` = requests executed or taken out of the buffer for the callback.
* `ExactFrames`: each frame's payload is returned once, in order and unmasked,
  as long as none of its bytes was waited for in vain; at the end of the
  connection a prefix, with at most one byte that never came, may be returned as if it
  were a frame. `ClosesWhenDrained`:
  nothing readable is given up while the network is up. `ImplementsStream`:
  refinement of `ByteStream` with `queue = ` unread cells of the array, then
  the chip's. `PeerInStep`: sender and peer agree where frames begin.
* `UnreadKept`: no packet is read over one the thread has not looked at.
  `NeverOverrun`: what the driver believes free plus what the chip still owes never
  exceeds the chip's buffers. `OwnAnswer`: a call gets its own answer and data, while
  no wait has been given up. `CloseNoticed`: a close of the peer reaches
  `socket_active_status`, whatever the thread is doing, except during `accept()`.
* `CallsReturn`: liveness under weak fairness of the thread, its timeout, the
  interrupt handlers and the chip's answer to the line (`LowerPin`). Nothing is
  assumed of the chip's answers to commands: the timeout ends the wait.
* `FailuresReset`: `cfod_count` is compared by `==` after each of two increments; it
  never steps over its limit. `Watched`: a running chip without an address has the
  watchdog running. `FlagFollowsLink`: `WLAN_DHCP` will be what the chip has, once
  the events under way are handled. `OnlyToRunningChip`: no command to a chip that is
  off, `SpiWrite()` would wait for ever.
* `WatchdogActs`, `Revives`, `CloudGivenUp`: liveness under weak fairness of the
  thread, of the delivery of events and of the watchdog's time, and strong fairness
  of a failing `event_loop()` while nobody is at the other end. The last is what
  `SilenceEnds` shows: polls of a silent connection do not go on for ever. Nothing is
  assumed of the access point, the cloud or the user.
* `InOrder`: what is in the flash is the image as far as `chunk_index` says.
  `OnlyWhole`: the boot loader is given a whole image. Both except the two cases
  named above. `DroppedAfterPing`: a connection is dropped for silence only
  after a ping without answer (or by the leftovers of the connection before).
* `SilenceEnds`, `UpdateEnds`: liveness under weak fairness of the thread (`main()`
  calls the loop for ever), of the flash timer and of each timer's time. Nothing is
  assumed of the server or the network.
* `GetDataReturns`: liveness, under weak fairness of the reader's own steps
  (`Call`): no call waits for the line, each poll is followed by another or by the
  end of the loop. Nothing is assumed of the bytes.
* `ClosedClientLeaves`, `RequestsServed`: liveness under `FairSpec`: weak
  fairness of `DoIt` (the single thread calls `loop()` for ever, no call in it
  blocks without a timeout) and of each `CLOSE_WAIT` event (the chip reports a
  close it has seen). Nothing is assumed of peers or of the network.

### Runs

| run | shows | bounds |
|---|---|---|
| `server_mixed` | all safety properties with requests, `/dfu`, a hixie client and an outage. Deadlock is not checked: after `/dfu` the core resets and the program is over | 2 connections, 3 handles (one listens), 2 slots, 2 requests, 1 outage |
| `server_late` | order of requests and refinement with header lines that come late and equal keys | 2 connections with one key, 2 slots |
| `frame_stream` | the reader, safety and liveness, over bytes that come late, in any pieces or not at all, with close events and outages at any point | array of 3, frames of 3 and 1 bytes, 1 poll; 1 is the longest short length, the base of lengths 2, masks 2 |
| `reply_frames` | lengths announced are lengths written, where the low length byte is right | messages of 0, 2, 125 and 257 bytes, 2 of them, any changes of the line |
| `long_reply` | the low length byte of a message of 126 bytes is 1 | messages of 2 and 126 bytes |
| `server_live` | liveness with clients of the final protocol | 2 connections, 2 slots |
| `hixie_blocks` | a refused hixie handshake stops the reading of all requests | as above |
| `refused_stays` | a refused connection is not closed | as above |
| `key_collision` | a client with the same address and low port byte evicts another that is still connected | as above |

| `chip_driver` | the driver with lost interrupts, early, late and missing answers, restarts of the chip. Deadlock is not checked: at the first start, which has no timeout, a missing answer stops the thread for good, and with all calls made nothing is left to do | 4 commands, 6 calls, 2 starts, 2 buffers; 589,303 states |
| `wlan_watchdog` | the loop with links that come and go, WiFi.on/off, smart config, resets. Deadlock is not checked: smart config on a stopped chip hangs | 4 changes of the world, 2 calls of the application, 1 button press, 2 events under way, `ErrorWrap` 5; 804,199 states |
| `chunk_transfer` | an update with requests, lost connections, silence, failing flash and lost framing; deadlock is checked | 3 chunks of 2, 2 and 1 units, pages of 4; 4 chunks sent, 1 other message, 1 update, 1 break, 1 fault; a window of 2; 1,052,409 states |

Hazards whose decisive case is one of the exceptions above are listed in `PROJECT.json`
with the model that has the case and without a property: a handle leaked by `begin()`,
a frame with a hole, a close event during `accept()`, the late answer after a timeout,
events and button presses around a stop of the chip, the double and the short last
chunk, the leftovers of the last connection, the skipped handshake, the wrapped error
count. No property says that they cannot happen, because they can.

Two connections are enough for each of the situations the properties are about:
one client in the table and one that arrives, re-uses a slot or a handle, or
leaves in between; the third handle lets one be leaked by `begin()`. In
`frame_stream` the first frame takes the long header, runs through the mask more
than once and crosses the end of the array several times; the second begins where
the first one ended or went wrong. 125, 256, 4, 512 and 20 appear in no
comparison but those they bound, so small values reach the same branches. In
`chip_driver` a start takes two calls of its own, and four more let a call time out, its
late answer meet the next call with the same opcode, and a restart follow; two
buffers can both be taken. In `wlan_watchdog` four changes are a full cycle (join,
lease, leave, and one more) and two application calls an off and an on;
`ErrorWrap` is above the 3 that `Spark_Error_Count` is set to, so that 0 wraps to a
value no assignment gives; `MAX_FAILED_CONNECTS` is the 2 of `config.h`. In `chunk_transfer` a page holds two chunks, so that a
failed write can go back to an earlier chunk, and the last chunk is short and on a
page of its own; four sends are the image and one retry. The theorems cover all other
numbers.

### Findings

1. `hixie_blocks`: `hixie76style` stays set after a refused
   `Upgrade: WebSocket` handshake, and `getData()` then reads from nobody.
2. `refused_stays`: "Nope, failed handshake. Disconnect" (line 569) does not
   happen, nor does "Disconnecting/no free space" (line 127), which is
   unreachable; the object and the socket are leaked.
3. `key_collision`: two of the "up-to 4 simultaneous clients" cannot coexist when
   `equals()` cannot tell them apart.
4. `long_reply`: line 279 sends `size && 0xFF` as the low length byte, so a message
   of 126 to 65535 bytes, which line 275 means to support, is announced with
   the wrong length unless its size is 1 modulo 256. The replies of this
   repository's own callback are shorter; the server is written for any callback.

## Proofs

`WebSocketServer_proofs` proves, for any number of slots, handles, peers, scripts
and outages: `TypesHold`, `SlotsStayDistinct`, `HandlesAreOwned` and
`NoObjectUsedAfterFree`. None of the invariants is inductive alone. `IInv` joins
them with `CurInv`, which says what the local pointer is at each point of `doIt()`:
outside the table during the handshake, `clients[i]` in the loop, and no promise
once "/dfu" is being executed. The argument: `disconnectClient(c)` is only called
for a member, `SlotsDistinct` makes the search by `equals()` find `c` itself
(`DisconnectSafe`), so what is deleted is what leaves the table; `SockOwner` makes
`stop()` free only a handle nobody else holds (`StopSafe`), and `accept()` gives
out free handles only. The first slot of a set exists because `<` is well-founded
on the naturals (`FirstIn`). Assumptions: the null values differ from the others,
scripts are sequences of tokens, `MaxClients > 0`.

`ClientTable_proofs` adds, for the same constants, `RequestsExactlyOnce`
(`ExactlyOnce`), `ClientsStay` (`StaysUntilGone`) and `ServerIsATable`
(`ImplementsTable`). Its invariant `TableInv` is `IInv` and four parts. `HandleInv`
follows a connection whose handle is inactive or closed: its peer has closed, or
the network has been away. `UpgradeInv` says that a member has shaken hands, and
that a client still shaking hands has not and has a slot to go to: nobody joins
twice. `DeliveryInv` follows the requests of each client: what has been executed,
then what is in the object's buffer, then what is in the chip, is what the peer has
sent, up to a tail that only an outage can have cost, and only when the chip's
connection is gone as well. `ExactlyOnce` alone is not inductive: it says nothing
of clients that have lost data, and does not know that the lost part is at the end.
`SentInv` keeps the counter within the script. The lemmas about steps
are grouped by what `doIt()` does to one client: `Asks` (`connected()`), `Reads`,
`Drops` (`disconnectClient()`), `Accepts`. `Requests()` is a recursive function;
that such a function exists and distributes over `\o` is proved by looking at the
first number for which it would fail (`FilterExists`, `RequestsConcat`). For the refinement
every step is a `Join`, `Replace`, `Leave`, `Execute` or a stutter; that a new
member finds room is a counting argument on the slots (`RoomForOne`).

`PassComesToAnEnd` bounds a pass of `doIt()`: the part of the pass it is in, the slots
(or, in the handshake, the bytes of the request that can still come) left in this part,
and what is left to do about this slot fall in lexicographic order with each of its
steps but the last one, and no peer, event or outage touches the three. A client that
sends without a pause is read once per pass and cannot keep the server from the
others; only in the handshake is more read as it comes. `CoexistWhenKeysDiffer` is the
finding `key_collision` turned round: with a different key for each peer,
`ClientsCoexist` holds for any number of them.

`ClientBuffer_proofs` proves `BufferIsAStream`: for every array size and any reader
the buffer implements the FIFO. The unread bytes are a window on the array.
`WindowReceives` shows that what `recv()` stores prolongs the window by exactly the
bytes that leave the chip, whether or not the indices were reset before;
`WindowReads` that a read takes its first element. Hence `available()` leaves the
queue alone (`AvailableKeeps`), `read()` is the FIFO's `Get` and an arriving byte its
`Put`. The invariant is `BufTypeOK`, whose last conjunct (unread cells hold bytes) is
what makes the window a sequence of bytes.

`FrameReader_proofs` shows that each step of the reader is a step of the buffer
or leaves it alone, and so gets `ReaderReadsAStream` from the buffer's step
lemmas, `ReaderTypesHold` and `SocketClosesWhenDrained`. For the types the invariant
is strengthened by "while waiting, `tries < MaxTries`".

`FramesReadExactly` (`ExactFrames`) needs to know where the reader is. The first
part is about the peer's bytes: `Sent` is what its recursive definition says
(`SentIs`), and byte `i` of a part of frame `f` is at a known place in `Script`
(`ScriptBytes`). `FInv` then joins: `FlowInv` (what is unread in the array and the
chip is what follows in `Script`), `ByteInv` (the byte in hand is the last one read),
and, while `sync` is `whole`, `PlaceInv` (the number of bytes read is the place
of `stage` and `index` in the frame after those returned) and `KeptInv` (the length,
mask and payload kept so far are that frame's). So a byte is what its place says
(`ByteIs`), the length is put together from its two digits, each payload byte meets
the mask byte it was made with, and `LastByte` is met at the frame's end. Once a byte
has been missed nothing of this holds, and the theorem claims nothing but that
results are not taken back (`StaysBroken`).

`CallsComeToAnEnd` is the part of `GetDataReturns` that is not about fairness: three
naturals (stages to come, bytes left in this stage, steps of `timedRead()` before it
gives up) fall in lexicographic order with each step of the call, and the line does
not touch them. It holds in every state, lost or not, because `index` cannot step
over the length it is compared with (`IndexInv`). TLC has checked it on the instance
of `frame_stream` too.

Assumptions: the sizes are positive where the code divides by them, and `Bytes` are
tags, among them those of the frames.

`FrameWriter_proofs` proves `InStep` (`PeerInStep`) for any number of messages, under
the hypothesis `Framable`: a long message's size is 1 modulo 256 and fits in two bytes.
The invariant is that server and peer are in lockstep: the peer's state is a function of
`pos`. The hypothesis is the finding `long_reply` turned round, and
`AnnouncedRight` shows that it excludes no message that line 279 announces with
its own length. All short messages are covered.

`Cc3000Driver_proofs` proves, for any number of buffers, calls and starts and any set
of commands: `DriverTypes`, `ReadsWait` (`UnreadKept`), `ChipNotOverrun`
(`NeverOverrun`) and `ClosesAreNoticed` (`CloseNoticed`). The invariant joins them with
`BusInv` (which transfer goes with which SPI state and which `pc`), `OfferInv` (the line
is low and a read is under way only for a packet that exists), `OffInv`
(nothing moves on a chip that is off) and `WaitInv` (what the thread waits for, and that
nothing is sent before the count of buffers has been read). A read is begun by the
interrupt only, the interrupt is off while a packet is unread, and a thread in the middle of a write keeps the state away from the reads: this is
why `UnreadKept` needs all of `BusInv`. For `NeverOverrun` the packets are followed from
the count to the chip and back; the torn decrement (`LoadFree`, `StoreFree`) writes
a value at most as high as the right one. `CloseNoticed` is kept by every step that
keeps `IInv`; only `accept()`'s `Return` needs the exception.

`AnswersMatch` (`OwnAnswer`) follows one call's command and its answers by number.
`FreshInv` says, as long as no wait has timed out: before the command is out,
nothing of an earlier call is in the chip, on its way or unread, and the thread waits for
exactly the opcode of its call (`TurnInv`); then either the command is in the
chip, or what is left of the answer comes in order, a `RECV`'s data after its event
(`CommandInv`, `QueueInv`, `HandInv`). `IdsInv` says that no number is from the
future, which is all that is left after a timeout.

`CallsHaveBoundedWork` is the part of `CallsReturn` that is not about fairness. It
gives the thread's wait, the transfer under way, the state of the bus, the interrupt
line, the receive buffer, and the chip's commands, packets, buffers and connection a
weight each. A call adds 54 to the sum, whatever it brings about; every other step of
the thread, the interrupts and the chip takes something away. So no order of
interrupts, and no traffic of a bounded number of connections, keeps the driver busy
without an end.

`WlanManager_proofs` proves, for any number of changes, calls, presses and events under
way: `WlanTypes`, `FailuresEndInReset`, `AddressWatched`, `AddressFlag` and
`RunningChip`. The strengthening: `WatchInv` (`Watched`, and that a start, or an address
without a connection, leaves the watchdog armed or is excused), `PowerInv` (a chip that is
off has no link and sends no events, and only smart config stops it without saying so),
`OffInv` (the points the thread passes while the chip is off, at which nothing is set
that needs it), and `QueueInv` (what the events under way say of the address is true of
the link). `DhcpAfter` is the flag after all of them; lemmas say what it becomes when an
event is appended and when the first one is handled. Assumptions: the limit of failed
connects is 2, as in `config.h`, and the wrap is above 3.

`TurnComesToAnEnd` counts the steps `SPARK_WLAN_Loop()` has still to take before the
application is given control, at most 22 and the wrap of the error count: each step of
the thread is one less, smart config asked for a second time by the button included,
and nothing beside the thread adds one, except a reset of the whole core and one case
that the proof isolates: a disconnect that clears `Spark_Error_Count` while it is
blinked down, after which it wraps and is blinked from the top.

`SparkProtocol_proofs` proves, for any image, page size, number of retries, breaks and
faults: `ProtocolTypes`, `ImageInOrder` (`InOrder`), `OnlyWholeImages` (`OnlyWhole`) and
`SilentServerPinged` (`DroppedAfterPing`). The argument for the order: while
nothing is excused, an update is an exchange of which at most one message exists, in one
of the two queues, in the handler, or as an answer about to be sent (`TokenInv`);
it fits `chunk_index` and the server's `cursor` wherever it is (`FitInv`): a chunk under
way is the next one, an answer asks for the next one. Asking again keeps this only if the
one message is gone, and sets `excused` otherwise. A failed write goes back to a page's
start, which is where a chunk begins, since chunks divide pages (`PageOfChunks`,
`Rewound`). `BegunInv` and `BeforeInv` say that there is no such message before
the update begins; `LinkInv` that no chunk is handled out of step, and `AskedInv` where a
ping that is waited for was sent.

`SilenceComesToAnEnd` is what `SilenceEnds` rests on. While a connection is polled and
nothing is heard, a count of at most 5 falls by one with each tick of the timer that
matters and with the ping, and nothing starts it again, asking for a chunk included; at
its end the next poll drops the connection, or the update's timeout resets the core.
That needs `TimedInv`: `SPARK_FLASH_UPDATE`, which is what makes that timeout run, is
set in every update on a connection, although events clear it at any time and
`Spark_Handshake()` overwrites `SPARK_CLOUD_CONNECTED`. Assumption: a page is a multiple of a chunk, and the last
chunk is no longer than the others.

Model-checked only: the liveness properties (`RequestsServed`, `ClosedClientLeaves`,
`GetDataReturns`, `CallsReturn`, `WatchdogActs`, `Revives`, `CloudGivenUp`, `SilenceEnds`,
`UpdateEnds`): liveness under fairness needs `ENABLED`, which is out of the
prover's reach. What they say beyond fairness, that no call, pass, turn or silence has
endlessly many steps, is proved for five of the components (`CallsComeToAnEnd`,
`PassComesToAnEnd`, `CallsHaveBoundedWork`, `TurnComesToAnEnd`, `SilenceComesToAnEnd`);
TLC has checked the five measures on instances like those of the runs as well. That a step can
be taken is left to TLC. Every other property of a passing run is stated by a theorem.

Two definitions are written as they are for the prover's sake. `Requests` is a recursive
function since the prover cannot open `SelectSeq`. `ExactFrames` says of a broken frame
what it returns (`Partial`: the beginning of the payload and at most one byte that never came),
where a comparison of prefixes would do for TLC.

## Plan

1. (done) `TcpSockets`, `WebSocketServer`, `ClientTable`, first proofs.
2. (done) `ByteStream`, `ClientBuffer`, with the refinement proved.
3. (done) `FrameReader` and `FrameWriter`.
4. (done) `WlanManager`, with its watchdog, and its proofs.
5. (done) `Cc3000Driver`: flow control, `accept()` against events that arrive during its
   wait, timeouts, the two interrupt handlers, and its proofs.
6. (done) `SparkProtocol`: timers, messages, the update, and its proofs.
7. Stale handles after a restart of the chip: `TcpSockets` and `TCPServer::begin()`
   composed with the stops and starts of `WlanManager`.
8. `Tinker`: `handle()` and the pins against `digitalStates`; `Ticks`: the
   watchdog's deadline, which is compared with `>=`, as a function of the counter at a
   small width (`delay()` and `SimpleLinkWaitEvent()` subtract unsigned ticks, which
   survives a wrap); `delay()` with the turns of the WLAN loop it runs; the serial ring
   buffers; the event rate limit.
9. (done) Proofs: `ImplementsTable`, `StaysUntilGone`, `ExactlyOnce`, `OwnAnswer`,
   `ExactFrames`, `PeerInStep` for the lengths line 279 gets right.
10. (done) Proofs: measures for a call of the reader and of the driver, a pass of
   `doIt()`, a turn of the WLAN loop and a silence on the cloud connection.

## Not modelled

Most of the tree by far is vendored code: CMSIS, the STM32 peripheral and USB
libraries, tropicssl, UnitTest++ and jQuery. None of it is translated, so the share
of all lines that is modelled stays small; the models are about the program's own
few thousand lines of control.

Of those, not in any module: SHA-1 and Base64 of the handshake answer (pure functions
with no state); wording of logs and replies; pins and pin commands; the serial, I2C,
SPI and servo wiring; LEDs; the tick counter's width (a wait is over after some
time); handles kept in `clients[]`, `TCPServer::_sock` and `sparkSocket` over a restart
of the chip.

In the driver: the patch upload, `wlan_stop()` in the middle of a packet,
`Spark_ConnectAbort_WLANReset()` (not called), non-blocking sends, the encoding of
arguments. In the WLAN loop: `ip_config`, the deletion of profiles, the patch
callbacks. In the cloud connection: contents and encryption of messages, the OTA status
flags, `queue_push()`/`queue_pop()` (not called), `send_event()`'s rate limit (it stamps
the attempts it refuses, so that a caller that is too fast is refused for ever), the
boot loader. There the server is taken to begin one update per connection and to talk
of nothing else once it has, and bytes out of step to pass for an acknowledgement, the
beginning or the end of an update, or junk.
