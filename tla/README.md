# ROBO2 rSDK: a TLA+ model of its concurrent core

The rSDK drives a Broadcom ROBO2 switch (BCM53158) from an embedded CPU or a Linux host. Most of it translates API
calls into register and table writes, one call at a time. The parts where several threads, an interrupt handler, the
hardware and other bridges share state are few and small, and they are the subject of this project. Paths are relative to the
repository's `src/` unless they begin with `os/` or `platform/`.

## 1. Inventory

| Component | State | Operations | Interacts with | Hard behaviour |
|---|---|---|---|---|
| Receive path (`drivers/fsal/rx.c`, `platform/soc/bcm53158/robo2/hpa.c`) | descriptor ring, `rx_cb` (free list, packet queue, chain, counters, semaphore) | `hpa_handler`, `hpa_rx_ready`, `cbxi_rx_enqueue`, `cbxi_rx_dqueue`, buffer alloc/free, `cbxi_rx_task` | DMA engine, interrupt, packet I/O | interrupts against the task's loop, lost wakeups, empty pool, frames over several descriptors |
| Transmit path (`hpa.c`) | descriptor ring, `enq_hw_tx`, `enq_done_hw` | `hpa_tx_packet`, `hpa_tx_done` | DMA engine, senders | full ring, reclaim while the engine sends |
| Packet I/O (`pktio.c`, `rx.c`) | a doubly linked list of handlers per filter, `num_callbacks`, the mutex, `rx_task_status` | init, detach, register, unregister, the walk of the RX task | RX task, clients | handlers that register and unregister during the walk, a detach that waits for the task |
| Link scan control (`link.c`) | `lc_us`, `lc_thread`, `LC_LOCK`, `lc_sema` | init, detach, enable_set, the thread's life | applications, cable diagnostics | stop and start against a thread that starts and ends by itself |
| Link scan (`link.c`, with `lag.c`, `stg.c`) | link bitmap, handler list, spanning tree states | the scan of all ports, register, unregister | PHYs, handlers | links that change under the scan, steps that fail, handlers unregistered during the walk, which takes no lock |
| 802.1AS event loop (`dot1as_control.c`, `os/osal/linux/sal_sync.c`) | message ring and its indices, tick flag, binary semaphore | `dot1asRxHandler`, `dot1asTimerThread`, `dot1asThread` | RX task, state machines | unlocked ring, non-atomic binary give, bursts |
| 802.1AS pdelay (`dot1as_pdelay.c`) | per port: exchange, timestamps, lost responses, filter, asCapable | tick, response, follow-up, interface event | 802.1AS thread, peers, BMCA | late, lost, overheard answers; restarts in the middle of an exchange |
| 802.1AS best master clock, BMCA (`dot1as_bmca.c`) | per port: vector, its origin, role; per bridge: GM, path | Announce, receipt timer, interface event, priority change | other bridges, pdelay | old information around a ring, lost Announces, changes in the middle of an election |
| 802.1AS time synchronisation, signaling (`dot1as_timesync.c`, `dot1as_sig.c`) | per port timers and timestamps | message and tick handlers | 802.1AS thread, BMCA | timeouts, repeated and lost messages |
| Time-of-day events (`drivers/fsal/ts.c`, `platform/.../tse.c`) | hardware FIFO, event ring, status, semaphore, mask, callbacks | interrupt handling, enqueue, dequeue, event task, configuration | TIMESYNC thread, callbacks | full ring, capture during the handling, unlocked mask and callback |
| Counters (`platform/soc/common/counter.c`) | hardware and software values, the thread's id, interval, semaphore, sync request | collect, clear, sync, start, stop, the thread | statistics API | wraps, updates without a lock, timed-out waits |
| Timer list (`os/osal/common/timer.c`) | 16 slots | add, remove, task | none | it has no caller in this repository |
| Index allocator (`drivers/shared/idxres_afl.c`) | free ranges | alloc, free, reserve | meters | a pure algorithm |
| Spanning tree and other tables (`stg.c`, `lag.c`, `l2.c`, `vlan.c`, `cfp.c`, `slic.c`, ...) | hardware tables | API calls | register access | read-modify-write without a lock |
| SoC access, platform, PHY, MAC, I2C, OSAL, port database, Linux front end, M7 image, C interpreter | | | | I/O, generated or vendored code |

What makes the components correct, in one line each:

- receive path: a buffer is never lost or shared, nothing that can be done waits while the task sleeps, the ring is refilled;
- transmit path: no buffer is freed while the engine may read it, nor twice; packets leave in the order of the sends;
- packet I/O: the lists stay lists, the walk is never at freed memory and asks everyone who stays; a detach ends and takes
  nothing from under anybody;
- link scan: one thread, none after a stop, a semaphore that outlives it, scans as long as it is enabled; each handler is
  told of each change once;
- 802.1AS loop: no sleep on work, messages in order, each processed, each buffer alive until then;
- pdelay: asCapable only for a reason, BMCA told of it, timestamps of one exchange, a peer found and its loss noticed;
- BMCA: one slave port, towards the best clock known; the bridges agree when nothing changes any more;
- time-of-day events: nothing left in the FIFO or in the ring while both threads sleep, order, delivery;
- counters: every count is collected once; one thread; a sync reflects what happened before it.

`PROJECT.json` lists every component, also those that are not modelled, and the hazards with the properties that cover them.

## 2. Modules

| Module | Models | Runs |
|---|---|---|
| `HpaRx` | receive path, pointer by pointer | `rx_safety`, `rx_liveness`, `rx_chain_queue` |
| `RxPath` | what the receive path promises: the circle of buffers, a FIFO queue | as the property `RxPathOK` of `rx_safety` |
| `HpaTx` | transmit ring | `tx_safety` |
| `PktioCallbacks` | start and stop of packet I/O and of the RX task, callback lists, the walk | `pktio_lists` |
| `LinkScanControl` | the life of the scan threads | `link_control` |
| `LinkScan` | what the thread does | `scan` |
| `Dot1asControl` | the 802.1AS event loop | `dot1as_events` |
| `Pdelay` | peer delay of one port, its peers and the way between | `pdelay` |
| `Bmca` | the best master clock algorithm of several bridges | `bmca` |
| `TsEvents` | time-of-day events, from the hardware to the callback | `ts_events` |
| `Counters` | collection of the port counters | `counters` |
| `RxPathProofs`, `HpaRxProofs`, `HpaTxProofs` | theorems on the receive path, its refinement of `RxPath`, and the transmit ring | checked by TLAPS |
| `PktioProofs` | theorems on `PktioCallbacks` | checked by TLAPS |
| `ThreadProofs` | theorems on the polling threads: `LinkScanControl`, `LinkScan`, `Counters` | checked by TLAPS |
| `EventProofs` | theorems on the event rings: `Dot1asControl`, `TsEvents` | checked by TLAPS |
| `PdelayProofs`, `BmcaProofs` | theorems on `Pdelay` and `Bmca` | checked by TLAPS |

Each `MC*` module holds the definitions the configurations need (symmetry, small sets). A definition named
`Action_Something` is a mutation of `Action` and no part of a specification: it shows that a property notices the bug.
Variables and actions have the names of the C code where there is one; `PROJECT.json` maps each definition to its lines.
Each module also states its type invariant, `TypeOK`. A proof module that covers several components extends them all, so the
names in `LinkScan` (`ScanSpec`, `ScanTypeOK`), `TsEvents` (`TsSpec`, `TsTypeOK`) and `Counters` (`CountersSpec`, `CountersTypeOK`) carry a prefix.

### HpaRx and RxPath

Three actors: the DMA engine, `hpa_handler` and `cbxi_rx_task`. The handler preempts the task wherever the HPA interrupt is
enabled; what the code brackets with `m7_disable_intr` / `m7_enable_intr` is one step of the task. The scan of the ring,
`hpa_rx_ready`, is run by handler and task and is modelled descriptor by descriptor with its own locals, so that the
engine may fill a descriptor in front of or behind it. Free list, queue and chain are linked through `next` as in C,
with heads, tails and counters; the counters are modulo `CNT` as they are modulo 2^32 in C, and `CNT` may be any number
above the number of buffers. Frames of several descriptors are closed one by one. `flags` keeps what the task looks at
(valid, start, middle, end of a packet). Packet contents, headers and cache maintenance are left out; whether the task
finds a header is a free choice. The build is that of `include/fsal_int/pkt.h`: `CONFIG_STATIC_PKTBUF`, no external host.

`RxPath` says the same in five places a buffer can be in: ring, filled, queue, held, free. `RxPathOK` is the
refinement for frames of one descriptor: the mapping reads the linked lists as a set and a sequence.

### HpaTx

`hpa_tx_packet` runs with interrupts disabled and is one step; the reclaim `hpa_tx_done` goes descriptor by
descriptor while the engine sends. The pointers run modulo twice the ring, as in the source (`% 16` for 8 descriptors).

### PktioCallbacks

`cbx_pktio_register` makes one entry per filter, each under the mutex, so that a registration for several filters is
several steps (`Register`, then `AddCallbackHandler` per turn). An allocation may fail for one turn and not for the next.
The mutex is recursive: while the RX task is in a handler, only that handler can be in the registration code
(`Context`), and it may register and unregister anything. `Seek`, `LinkAfter` and `LinkBefore` are the search and the two
branches of the insertion. A handler that has unregistered itself must take the packet: the code reads the entry's
`next` when it does not (a duty the header does not state; guard of `HandlerReturns`).

The life cycle is `PktioInit` (which may fail on the way and leaves what it has made), `TaskStart`, `Detach`
(refused while `num_callbacks` is not 0), `TaskStop` and `DetachEnds`; `rx_task_status` is what `cbxi_rx_uninit` spins on.
The guards say what the code relies on and does not check; section 5 lists them.

### LinkScanControl and LinkScan

`LinkScanControl` abstracts a scan to one step and models who creates, stops and destroys what. The callers are in the middle
of their calls side by side: a call passes `LC_CHECK_INIT` (`Begin`), waits for `LC_LOCK` (`Enters`), and holds it in the steps `create`
and `sleep`, the two seconds of a stop, in which the thread may or may not end. `lc_thread` is set by the created thread itself, which may run
at any time, or not yet. `cbx_link_scan_init` and the end of `cbx_link_scan_detach` hold no lock: the first
is two steps (`LinkScanInit`, and `InitEnd` for what comes behind `init = TRUE`), the second is `Destroy`. A caller that waits for a lock
that is destroyed does not get on, where the C code crashes. A detach is given interval zero, as init gives it. A handler that registers or
unregisters during a stop waits for `LC_LOCK`, so that the stop fails: that is one of the ends of `DisableDone`.

Two history variables say when the code's own assumptions are broken: `unseen`, a call found no thread while a created one had yet
to run, and `beside`, a call overlapped an init or the end of a detach. They are set by what happens and forbid nothing; the
properties make an exception of them, and are about everything else: failed and late stops, starts and stops that queue for the lock,
detaches that give up. `NoScanWhenStopped` makes none, and TLC refutes it.

`LinkScan` abstracts the thread's life to "it scans, sleeps, may be restarted" and models `cbxi_robo2_link_scan_update_port`
in its order: read, update the bitmap, set the spanning tree state, call the handlers one by one with `lh_next` fetched
before each call. Links change between any two steps, so also between the read and the query of the group. Every call that can
fail may fail (`ReadFails`, `UpdateFails`). The list is what it is in C: a head, and entries in memory with `lh_f` and `lh_next`.
Handlers are registered and unregistered by any thread at any time, also between two steps of the walk, which takes no lock; the
memory of a freed entry keeps its contents, is used again by the next registration, or is anything (`Crash`). The scan starts with all links down in
the bitmap and with any spanning tree states, as `cbxi_stg_stp_init` leaves them by the links of its own time. Other callers of
`cbx_stg_stp_set` are not modelled. `told`, `unsure` (ports whose report a failure or restart has lost) and `unset` (ports whose state no
scan has set since the start, a restart or a failure) are history variables. The configuration is the one without cascading, port extender
and external host.

### Dot1asControl

Every access to the shared ring, indices, flag and semaphore that another thread can come between is its own step: the store of the message and
the advance of the index in the handler, the read of the semaphore's value and the post in `sal_sem_give`, the
flag and the give in the timer thread, the processing and the freeing in the 802.1AS thread. What a message or a tick
does in the state machines is left out. `accepted` and `lapped` are history variables. The branch that drops a message
is not an action, for its condition cannot hold (see section 5).

### Pdelay

One port, the handlers of the 802.1AS thread as its steps, and a channel per responder on which messages are lost, late or
in the middle of the next exchange. Numbers are abstracted to what decides: a timestamp is "of this exchange" or not, and whose
(`t2`, `t4`, `prevT`), a delay is below, at or above the threshold, or negative. `Outcome` says what the computation
may yield: anything, as long as the environment moves, for the timestamps may be mixed and clocks and filter settle; the delay of the
link when it is calm and all timestamps are of one exchange. The responder's own code keeps no state, and is part of the
environment with its losses. `Self` is a responder of this bridge, to which the loop test refers. Each call of BMCA is
reduced to whether it runs on the port (`bmca`). AVnu mode and LAGs are off. `reused` and `ignored` are history variables.

### Bmca

Several bridges on the links of a constant topology; each bridge's handlers are one step each. Vectors are tuples compared as
`dot1asBmcaCompareVectors` does, the selection and roles are those of `dot1asBmcaUpdateRoles`, and a tick handles all ports in order,
as `dot1asCheckBmcaTimers` does: the second port sees what the first has changed. Announces carry the path trace, are lost or
overtaken. Everything that may change - asCapable, priorities, a Sync timeout, a loss - changes at most `MaxChanges` times, or until
`CalmDown`. The bridges tick in rounds: that their Announce intervals are equal is the standard's default and the
model's assumption; within a round their order is free.

### TsEvents

The hardware (capture, FIFO, status, the external interrupt's latch, edge of the GPIO), the TIMESYNC thread of `tse.c` with each register
access a step, the event task of `ts.c`, the caller of `cbx_ts_event_config_set`, which sets mask, callback and capture mode in separate
steps, and one of `cbx_ts_tod_get`, which has the hardware capture an event (`CPU`) and reads one entry of the same FIFO without a lock: an
entry that the handler counted may be gone when it reads it (`NextEntry`, the branch of `VALID` = 0). The time of day that is computed from
the entries is left out. The test for a full ring is what the code computes with unsigned indices.

The status sets the latch when it becomes set, and the line falls with the latch. `Acknowledge` is `extern_intr_ack`, behind the passes: it
clears the latch. If an event has come in since the last read of the status, whether the latch is set again depends on whether it
follows the level of the status or its change, which no source of the repository says: both are possible, and
`missed` records that the interrupt of such an event was taken. `missed`, `pending` and `overrun` are history variables.

### Counters

One counter of one port for all. The parties are the thread, the controller (start, stop) and the users (read, clear,
sync); each read and each write of `counter_hw_val`, `counter_sw_val`, the interval, the id, the semaphore and the request is a step, also
those of `+=` (`CollectAdd`, `CollectStore`). The
register counts at any moment and wraps at `MODULUS`. Timeouts of the waits are free choices. `expected` is what the
software counter should be; `overlap` records that two parties were in the middle of an update at once.

## 3. Runs

| Run | Instance | Shows |
|---|---|---|
| `rx_safety` | 3 descriptors, 5 buffers, frames of one descriptor | conservation, no lost wakeup, no stranded frame, credits, refinement of `RxPath` |
| `rx_liveness` | 2 descriptors, 3 buffers | queue drains, ring is refilled |
| `rx_chain_queue` | 2 descriptors, 4 buffers, frames of up to 2 | violation: the queue loses packets behind a chain |
| `tx_safety` | 3 descriptors, 5 buffers | no use after free, order of the engine |
| `pktio_lists` | 3 clients, 3 entries, 2 priorities, 3 kinds of packets, 1 or 2 filters per registration, init and detach | lists, walk, detach |
| `link_control` | 2 callers, 2 threads | one thread, stop, semaphore, scanning |
| `scan` | 2 ports, one in a group, 2 handlers, 2 entries, failures, restarts | reports, spanning tree |
| `dot1as_events` | 3 slots, 3 buffers | no sleep on work, order, live buffers, processing |
| `ts_events` | 3 slots, FIFO of 2, 4 events, 2 calls (configurations, reads of the time of day) | drained FIFO, no sleep on events, order, delivery |
| `counters` | 2 bits, 2 users, 4 counts, 3 calls | accounting, one thread, sync, collection |
| `pdelay` | a responder and a loop, 1 lost response allowed, sequence ids modulo 3 | asCapable, BMCA, timestamps, discovery and loss |
| `bmca` | a ring of 3 bridges, 3 priorities, timeout of 2 intervals, 1 change | one slave, best GM, agreement after 10 intervals |

Why the bounds are enough for the interesting cases: five buffers for three descriptors leave two, so that the pool is
empty, has one and has several; two descriptors with two parts make a frame as long as the ring; three list entries have a
first, a middle and a last; two handlers can unregister each other's neighbours, and each other;
two callers of link scan control overlap in every pair of calls, and two threads are one too many; three slots let a ring wrap and be lapped, by
three messages or four events. Counters wrap in the runs (`CNT` is one above the number of buffers; the register of `Counters` starts
two below its wrap). Sequence ids modulo 3 with messages at most one exchange old let a restart reuse an id, and
not the wrap. A ring is the smallest topology in which information about a lost GM can go round; with one change before the
calm it goes round, is there still after 9 intervals and is gone after 10 (`SETTLE = 9` passes, 8 does not).
Symmetry is used over buffers, clients and entries, and only in runs without liveness. `CHECK_DEADLOCK FALSE` is
set for the transmit ring, which stops when all buffers are lost (section 5), and for `ts_events` and `counters`, where the bounded
number of events and calls is used up.

Fairness. `HpaRx`: weak fairness of the handler and of the task: a pending interrupt is served, and the RX task, a thread of its
own (`CBXI_RX_TASK_PRIO`, pkt.h:43-47, just under the highest under OPENRTOS), gets to run. Nothing is assumed of the engine except, in the
two liveness properties, that bus errors end (`BusRecovers`): while one is always pending `hpa_handler` loops. `LinkScanControl`,
`LinkScan`, `Dot1asControl`, `TsEvents`, `Counters`: weak fairness of each thread; they wait with a timeout, or
on a semaphore whose give the property is about. `Pdelay`: the timer ticks, the thread handles what it is sent; that answers
come is no fairness but the assumption `calm` of `PeerFound`. No fairness for callers, packets, links, captures and counts.
`ScansWhileEnabled` holds as long as no stop fails and no call breaks the assumptions of section 2 (`unseen`, `beside`),
`ChangesReported` when failures and restarts end and the walk meets no freed entry, `MessagesProcessed` and `EventsDelivered` if no burst laps the reader: each says so in its formula. `Converges` of `Bmca` is an invariant with a
bound in intervals instead of a liveness property: it says more, needs no fairness, and can be proved (section 4).

## 4. Proofs

TLAPS proves, for every value of the constants that the modules' assumptions admit:

Receive and transmit
- `RxScanExclusive`, `RxNoLostWakeup`: by an invariant on the interrupt enable, and `NoLostWakeup` alone is inductive.
- `RxTypeOK`: with the bound that a scan counts at most one packet per turn (`ScanBound`), without which `npkts` is unbounded.
- `RxCredits`: `CreditInv`, the types, `ScanFlushed` (a context outside the scan has handed over everything) and the credits.
- `RxNoStrandedFrame`, for `MaxChunks = 1`: `StrandInv` says at each point of the task's loop who will look at a filled
  descriptor before the task sleeps. The property itself speaks of a sleeping task only, and is not inductive.
- `RxChainInSync`: a middle or last part finds a chain to continue, for frames of any number of parts.
- `RxImplementsPath` and `RxBufferConservation`, for `MaxChunks = 1`: `PathInv` says that free list and queue are the
  sequences the refinement mapping reads (`ListInv`), that the counters add up to the number of buffers, so that none wraps between two reads
  (`CountInv`), and that a finished frame is ready to be linked (`FrameInv`). This is inductive only together with the abstract
  invariant: that a buffer put in a list is not in another one already is `NoSharing` of `RxPath`. Each step of the ring and lists is
  then a step of `RxPath` or none. With frames of more parts conservation is false in the code: `rx_chain_queue`.
- `RxPathNoLeak`, `RxPathNoSharing` of the abstract path, when `NoBuf` is no buffer.
- `TxNoUseAfterFree`, `TxEngineWindow`: `WindowInv` gives each descriptor of the engine its distance from `hw_cur`.
- `TxTypeOK`: `ScanLocals`, the reclaim has cleaned `npkts` descriptors from the one behind the last freed, a turn at most.

Packet I/O
- `PktioDetachSafe`, `PktioCountExact`: `CountInv`, `num_callbacks` is the number of entries and every handle an entry of its
  own, so that 0 means that nobody has anything to give back; `LifeInv`, without the mutex there is nothing left.
- `PktioListsWellFormed`, `PktioNoUseAfterFree`, `PktioEveryoneAsked`: `WalkInv`, there is a numbering of the entries that
  goes up along `next`, with heads and both directions of the links in agreement. So no list has a cycle, all entries of a filter are
  reached from its head, the search for the place of a new one ends at an entry of the list, and the entries that the walk has behind it have
  lower numbers than the one it is at. An insertion renumbers what is behind it.
- `PktioTypeOK`: the same, with the position of the walk.

Polling threads
- `LinkScanOneThread`, `LinkScanStops`, `LinkScanSemaphore`, for any callers and threads and no assumption on their order: `LockInv`, until a
  call has overlapped an init or the end of a detach (`beside`) the caller in a critical section is the one that holds the lock, and a detach is alone
  at its end; `KnownInv`, until a call has missed a thread (`unseen`) the only thread is the one in `lc_thread`, or is created
  and has not run, and there is none after a stop that succeeded. `ControlInv` is both and the types.
- `LinkHandlersKnow`, `LinkStpMatches`: `LinkInv`. That a walk which may go through freed memory leaves out no handler that stays needs
  a numbering: each registration gives its entry's memory a stamp above all others (`Stamp`). Between the stamp of an entry, live or
  freed, and that of the entry it points to there is no live entry's, and the live entries newer than the one the walk goes on with have
  been told of the scanned port (`Ordered`); so a walk that comes to the end of the list has told all of them (`Told`).
- `CounterAccounted`: `AccountInv`, while no two updates overlap one party at most is in the middle of one; until it has stored
  the sum, the accounts balance with the previous reading, from its reading of the register on also with the new one. That the register
  has counted less than once around is the distance `total - seen`.
- `CounterOneThread`: `PidInv`, a thread that has not ended has its id stored, but while its creator is about to.
- `LinkScanTypeOK`, `LinkTypeOK`, `CounterTypeOK`: the types.
- `CounterSyncAlone`: `SyncInv`, of a sync under way with no other one: it has been served if the request is gone, and a thread
  that will grant it has read the register behind the request, or has yet to.

Event rings
- `EventsTypeOK`: the semaphore and the givers that have read 0 together stay at 2.
- `EventsNoSleepOnWork`: `WakeInv` says it also of the steps between the last look at the ring and the wait.
- `EventsMessagesInOrder`, `EventsBuffersLive`: `OrderInv` places the i-th accepted message in the i-th slot from the reader (`Pos`), and
  the writer behind the last one it has counted; the messages are distinct, so that a free frees one of them.
- `TsFifoDrained`: `PassInv`, while the status is clear nothing was captured since it was cleared, and the pass in progress still reads
  all that is in the FIFO; a thread that polls with no edge waiting has a clear latch, and a clear status unless an acknowledge has
  taken its interrupt (`missed`).
- `TsNoSleepOnEvents`: `TsWakeInv`, beside a task that waits at a ring that is not empty the TIMESYNC thread has counted an event and
  is not polling yet. `TsEventsInOrder`: the argument of `EventsMessagesInOrder`, for a ring whose consumer advances behind the callback.
- `TsEventsTypeOK`: `PassInv` bounds the FIFO and the depth read; `ConfigTypes`, what a call of `cbx_ts_event_config_set` in progress will write is of a known event.

802.1AS
- `PdelayCapableJustified`, `PdelayBmcaFollows`: together they are inductive (`Sound`); one lemma per C function, for any port it
  is given, as the functions call each other.
- `PdelayExchangeTimes`: `TimesInv`, unless an id was reused the messages on the way that carry the present sequence id are of the
  present exchange; a request takes an id that no message carries, or records the reuse.
- `PdelayTypeOK`: `NetInv`, the messages of a responder are in the order of their exchanges (`InOrder`). Without it `Aged`, which drops the
  first ones, could drop a message that is not too old and keep one that is.
- `BmcaTypeOK`, `BmcaOneSlave`, `BmcaGmIsBest`: the selection `dot1asBmcaUpdateRoles` makes, over any number of ports, has at most one port whose vector is
  the best one, and the grandmaster it names is the least of the bridge's own vector and the fresh ones received. That a
  least one exists is proved from the least element of a set of numbers, for each position of the vector in turn.
- `BmcaConverges`: `SettleInv`, two things that hold of a network left alone for `quiet` intervals. `AgeInv`: what is known of a
  clock n steps away is true, or the disturbance is less than `Age(n) = n * (TIMEOUT + 2)` intervals old: untrue information lives
  for one timeout at each bridge, and is passed on with one step more. So none is left after `Age(MaxSteps)`. `FeedInv`: from then on the
  truth spreads; five intervals for each bridge between an end of a link and the best clock of its part of the network, and what that end
  sends, what is on the way, and what the other end holds of it are right (`Ready`, `Sent`, `Held`, `Recent`, `ShortPath`). The distances
  are those of the graph of links that are up; that there is a best clock, a shortest way to it and a neighbour that is nearer are lemmas.
  Hypotheses: `TIMEOUT >= 2`, which is `DOT1AS_INTF_ANN_TIMEOUT_MIN` (`dot1as_cfgx.h:78`); no more bridges than `MaxSteps`
  (`DOT1AS_MAX_STEPS_REMOVED`, `dot1as.h:57`), as information that has come further is dropped; no link from a bridge to itself, whose
  two ends stay masters, as a bridge drops its own Announces; `SETTLE >= MaxSteps * (TIMEOUT + 2) + 5 * Cardinality(Bridge)`. The bound
  is one for every network. The run has `SETTLE = 9`, far below it: the theorem does not cover that number, which is what TLC finds
  sufficient for the run's three bridges and its one change.

The assumptions on constants: finite sets of buffers, entries and callers, a ring no larger than the pool, `CNT` above the number of buffers,
rings of two slots or more, a register of more than one value, null values outside the sets. TLC evaluates them in the runs of the modules.
The components one proof module extends share no variable and no constant, and no proof of one uses an assumption of another.

Where an argument needs induction (a list is reached to its end, a least vector exists) it is made with the least element of the set of
exceptions, as the induction theorems of the library take an operator for a parameter and no installed prover can use them.

Only model-checked: all liveness (`ENABLED` and fairness are beyond the prover), and the violation `rx_chain_queue`.

## 5. What the models show of the code

With a run: `rx_chain_queue` (`rx.c:219`): a chained frame leaves the queue's tail at its first buffer; the next packet cuts the rest off.

Seen in the models, without a run of their own. Where a formula is named it stands in the module, and TLC refutes it:

- receive: a part of a frame whose descriptor is filled behind the scan is taken after the next scan's earlier ones
  (`hpa.c:470`); with the least number of buffers that `cbxi_rx_init` accepts (`pkt.h:36`) no frame is ever taken; `hpa_init`
  returns with interrupts disabled when the ring cannot be filled (`hpa.c:848`, read, not modelled);
- transmit: a send may take a descriptor that is sent but not reclaimed, whose buffer is lost (`hpa.c:684`); the reclaim starts
  one descriptor late, so that the first buffer waits for a turn of the ring (`hpa.c:619`);
- callbacks: lower priorities go behind higher ones, contrary to the comment (`pktio.c:245`); a registration for several filters returns one
  handle and the last result (`pktio.c:1178`);
- start and stop of packet I/O: what the guards of `PktioCallbacks` assume and the code does not see to: nobody registers while
  `cbx_pktio_detach` waits; `cbx_pktio_init` is not called over a running task (a retry after a failure behind
  `cbxi_rx_init` starts a second one, `pktio.c:1076`); no detach follows an init that failed before it made the task, whose `DONE` nobody sets behind
  the `STOP`; the task has run before the detach, or it overwrites `STOP` (`rx.c:386`); a handler does not detach, or the task waits for itself. The task may
  enable the interrupt again behind `hpa_uninit` (`rx.c:398`);
- link scan control: a stop before the created thread has run finds none, changes nothing and succeeds, and the thread scans (`link.c:885`;
  `NoScanWhenStopped`); two starts make two threads if the first has not run (`link.c:877`); a start after a failed stop may start nothing
  (`link.c:874`); init and the end of detach take no lock, so that a call beside them may wait for a lock that is gone, or find
  `lc_thread` cleared but not yet `SAL_THREAD_ERROR` (`link.c:616-618`) and wake nobody;
- link scan: a failure behind the bitmap's update loses the report for good (`link.c:269`; `ChangesNotLost`); a group is judged by its
  PHYs and not by the bitmap, and may keep the wrong state (`link.c:312`); handlers are called in reverse order of registration
  (`link.c:728`); a restart reports links again (`link.c:480`); a port that the initialization of the groups has set to forward, and whose
  link goes down before the first scan, keeps forwarding (`stg.c:140`; `StpMatchesFromStart`); an unregister of the handler that comes next, by another thread or by the
  handler that is being called, frees the entry the walk goes on with (`link.c:397`; `NoFreedHandler`);
- 802.1AS loop: the test for a free slot cannot fail (`dot1as_control.c:452`); a burst laps the reader, whose buffers are then freed
  before they are handled, and again later, while others are never freed (`RingBuffersLive` with more buffers than slots); a tick during
  `dot1asTransmit` is dropped (`dot1as_control.c:292`); read, not modelled: `dot1asInit` registers the receive handler before it creates
  the semaphore that the handler gives (`:144`), and destroys it before the handler is unregistered when it fails (`:192`);
- pdelay: any response overwrites T4, also a late one or one for another port (`dot1as_pdelay.c:710`); a late response counts as a lost one
  (`:751`); a re-initialisation starts the sequence again, so that an old response fits (`:102`); a disabled port's delay is 0 and makes it
  asCapable at the next measurement even if that is tossed out (`:1019`; `TossedOut`);
- BMCA: the path of the GM is taken from the next Announce and is one interval old behind a change (`dot1as_bmca.c:186`), so that
  two bridges may follow each other for a while; a worse Announce of the present master is ignored until the old one has aged; the GM's
  quality is not updated with its priorities (`:497`); a link that goes down is noticed at the next tick (`:1070`);
  `dot1asBridgePrioritySet` runs BMCA in its caller's thread, without a lock;
- time-of-day events: the ring's full test is never true behind the wrap (`ts.c:192`; `NeverLapped`); the task may call a null callback
  while an event is configured, or of an event that was disabled behind its capture (`ts.c:697`); where the latch follows changes of the
  status, an event that comes between the last read of the status and the acknowledge stays in the FIFO, and all later ones with it
  (`tse.c:931`; `NothingLeftBehind`); `cbx_ts_tod_get` may take an event that a callback waits for (`tse.c:613`); read, not modelled: the acknowledge
  writes back all bits that it has read, and so may acknowledge other interrupts (`gpio.c:91`);
- counters: overlapping updates lose or double counts (`counter.c:854`); a sync may return by the grant of an earlier one that timed out
  or was another caller's (`counter.c:1117`; `SyncComplete`); a caller may give a semaphore that a start has set to NULL and
  destroyed meanwhile (`counter.c:1119`; `soc_robo_counter_start`, `:1027`).

## 6. Not modelled, and the plan

Next:

1. Time synchronisation (`dot1as_timesync.c`): Sync and Follow_Up on slave and master ports and their timers, with the roles of `Bmca`;
   its receipt timeout is the input `SyncTimeout` of `Bmca` now.
2. A composition of `Dot1asControl` with `Pdelay`: the ring that may be lapped as the channel of the messages.
3. `StgTables`: the spanning tree tables and their two writers (`stg.c:484`); link aggregation membership.
4. Index allocator: the free ranges as a recursive function against a set of free indices.
5. A composition of `LinkScanControl` and `LinkScan`, with the thread's program counter in common.

Proofs: every safety property that a passing run checks is a theorem; what the runs check beyond that is liveness. Next are the modules above,
as they are written, and a bound for `Converges` that depends on the network's diameter instead of `MaxSteps`.

Not planned: `timer.c`, which has no caller here; `hpa_init` and `hpa_uninit`, which fill and empty a ring that the engine does not run on;
sequential register and table programming, generated descriptions, the vendored PHY package, the C interpreter
and the shells, bus transports: they keep no state that the order of events can harm, or are I/O only. They are nearly
all of the repository's lines (generated register and PHY tables alone are most of them), so that the share of lines the
models map stays small whatever is added.
