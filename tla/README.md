# A TLA+ model of the z486 core

z486 is an 80486-class CPU core in SystemVerilog: a decoder feeds either hardwired
control or a microsequencer, both share the address, data, segmentation, paging and
floating-point units, and the core reaches memory through two L1 caches, a store
queue and one bus interface unit. Everything runs on one clock; the concurrency is
that of registered state machines which see each other's outputs one or more clocks
late, and of the memory bus, external writers (DMA) and interrupts around them.

This directory holds TLA+ modules for the parts of the core where that concurrency
can go wrong, TLC configurations that check them on small instances, and proofs,
checked by TLAPS, for instances of every size. Paths below are relative to the
repository's root (the mapping from definitions to lines is in `PROJECT.json`).

## How a clocked design becomes a specification

* One step of a module's `Next` is one rising edge. Registers are VARIABLES, wires
  are operators of the current state (and of the inputs of the clock where they are
  combinational), and each primed variable is the right-hand side of its
  nonblocking assignment. All registers of a module move in the same step; nothing
  is split into an optional action.
* The arms of the RTL's `case (state)` are the actions of `Machine` (`IMachine`,
  `Arbitrate`); the registers outside the case statement are the conjuncts of
  `Datapath`. A clock is `Machine /\ Datapath /\` what the surroundings do.
* Inputs are chosen with `\E` under the rules their drivers follow: a request is only
  presented where the module's own ready offers to take it, the bus answers only
  what it took, in order.
* Data is abstract: an address is a record over small sets, a dword a function from
  byte lanes to bytes, a floating-point significand a number of a few bits. Byte enables, merging and forwarding are kept, because the
  properties are about them. A register that no later clock reads before it is
  loaded again is given a fixed value, so that dead state does not multiply states.
* The scripts that generate tables and microcode are part of the code: what they compute is an
  operator, and the table an operator tabulates is what the clocked modules read.
* A history variable records what the core was promised (`arch`, `pending`,
  `fetching`, `older`, `overtaken`, `wrote`); no transition reads one.

## Inventory

Components in `PROJECT.json` order, with state, operations, interactions, what is
hard, and what makes the component correct. Status: **M** modelled, **P** partly, **-** not
modelled (the reason or the plan is given).

### Memory side

* **L1 data cache, M** (`src/l1_cache.sv`). State: FSM (reset, idle, lookup, fill,
  bypass), request register, four ways of tag and data RAM with a registered read,
  pseudo-LRU trees, the store queue (depth 4) with its drain, the memory port, the
  patch-forward and snoop registers. Operations: load, store (posted, coalescing,
  one a clock in a stream), uncacheable read, VIPT probe for hardwired loads, fill by
  beats or by a whole line, drain, snoop. Talks to the bus unit, data access, paging
  and the I-cache (store patches). Hard: readies are promises made a clock early;
  a load's line can overtake queued stores; RAM reads race writes; the cache can be
  turned off with valid lines. Correct when no store is lost and no load is stale.
* **L1 instruction cache, M** (`src/l1_icache.sv`). State: FSM, tags and lines, the
  registered snoop with its tag read, the patch queue (depth 3). Operations: fetch,
  fill, snoop by a CPU store (with data) or by an external writer. Hard:
  self-modifying code - a fill reads memory that lacks stores the core has made.
  Correct when a fetch returns the stores the cache was told of.
* **Cache unit, P** (`src/cache_unit.sv`). The store-patch wires between the caches,
  the one-entry pending slot, the priority of snoops. Also A20 masking, device
  decode and the mux between fast and demand stores, which are not modelled.
* **Bus unit, M** (`src/bus_unit.sv`). State: one registered request, write-data
  registers, counters of read beats due per requester. Operations: grant, accept,
  respond. Hard: responses carry no tag; device accesses must stay behind posted
  stores which themselves need the bus. Correct when responses reach their owner, order
  holds, and nobody starves.
* **Memory top, -** (`src/memory.sv`). Wiring of cache unit and bus unit; to be
  covered by the rules each of the two keeps towards the other.

### Address translation

* **Paging unit, TLB, walker, P** (`src/paging_unit.sv`, `src/paging_tlb.sv`,
  `src/paging_walker.sv`; without the sidecar TLB). State: a demand FSM with
  a prefetch walk beside it, a 4-way TLB (and a 256-entry direct-mapped sidecar TLB
  with epoch tags), the walker with its read-check-write-back sequence, registered
  requests to the caches. Operations: demand translation with TLB hit, walk, split
  access over two pages, check-only access, prefetch translation by toggle
  handshake, INVLPG, CR3 flush, write of accessed and dirty bits. Hard: a flush during a
  walk, a fault on the second half of an access, a prefetch walk beside demand
  stores. Correct when translations used are no older than the last flush, a write
  only goes through a dirty entry, and each access has one outcome.

### Front end

* **Prefetch unit, P** (`src/prefetch.sv`). State: the byte queue of eight words with the pop cursor
  and D1's cursor, the line request toggles, the speculative target line with its owner and the
  victim, the suspended fault. Operations: request, fill, pop, redirect, suspend, report. Hard:
  responses to requests made before a flush; a fault ahead of execution is not an exception
  until decode needs its bytes. Correct when no stale line is used and no fault is reported that
  the code does not reach.
* **Decoder, P** (`src/decoder.sv`). State: D1's prefixes, the preread and held words of the entry
  ROM, the skeleton in D2 with its literal window and phase. Operations: take a prefix, hand over,
  capture literals (with the window, late, in two phases), offer to EX. Hard: D1's cursor moves by
  one length table, the pop cursor by another computation; the ROM is read a clock ahead at a window
  that may be refused. Correct when EX is offered the instructions of the code.
* **Microsequencer and hardwired control, P** (`src/microsequencer.sv`,
  `src/hardwired_control.sv`). Modelled: which instructions are hardwired, and what port B knows of the
  next one before its entry. Not modelled: micro-PC, delay slot, stalls, step counter.
* **Microcode ROM and generated tables, P** (`src/scripts/gen_*.py`, `src/scripts/ucode_optimize.py`). The
  generators turn the entry PLA's two dependent passes into tables looked up side by side, an
  instruction's length into two flat tables, a recipe's properties into a class by opcode. They leave
  inputs out and merge modes. Correct when no input that matters was left out.

### Execution

* **Data access unit, -** (`src/data_access.sv`). State: the demand port's owner,
  fast store registers, load capture and split state. Hard: three producers for one
  port, and read-modify-write pairs.
* **Event control, interrupt controller, throttle, -** (`src/event_control.sv`,
  `src/interrupt_controller.sv`, `src/cpu_throttle.sv`). State: the fault delivery
  level (none, fault, double fault, shutdown), the redirect in flight, the
  instruction lifecycle, the NMI latch and blocking, the interrupt shadow, the
  throttle's debt. Hard: a fault during the delivery of a fault; an interrupt on the
  clock an instruction retires; a redirect that meets another.
* **x87 bridge, FIFO, unit, -** (`src/x87/x87_bridge.sv`, `x87_transfer_fifo.sv`,
  `x87_unit.sv`). State: the captured port request, a three-word FIFO, the direct
  load and store paths. Hard: cancel against completion.
* **x87 control and executor, P** (`src/x87/x87_executor.sv`, `src/x87/build_x87_microcode.py`). State: some
  seventy registers shared by every operation, a scratch memory of limbs, the micro-address. A word
  moves several lanes at once. Operations: load, store and integer conversions, add, subtract,
  multiply, divide, square root, compare, round to integer, sine, cosine, tangent, arctangent. Hard: registers are not cleared
  between operations; shifts go by four or one; the answer must be rounded once. Correct when every answer is
  the exact one rounded once, with its flags, and every microprogram ends. Commands come decoded from a ROM
  (`src/x87/build_x87_command_decode.py`): 2048 codes, classed by overlapping tests. Hard: subtraction and division in
  four operand orders under exchanged names. Correct when every arithmetic command is started with what its name says. The
  register stack, tags and status word (`x87_control.sv`) are not modelled.
* **Core top and pipeline, -** (`src/z486.sv`); **segmentation, protection, address
  units, -**; **data unit and arithmetic, -**: mostly combinational decode or 32-bit
  data path. `Decoder` and `Paging` take the pipeline's stalls and redirects as inputs.
* **Boards, tests, -**: FPGA tops and test benches.

## Modules

| module | models | state and actions |
| --- | --- | --- |
| `CacheOps` | byte merging, store forwarding, the replacement tree | pure operators |
| `AtomicMemory` | what a data cache promises the core | `value`, `waiting`, `answer`; stores act at once, a load is answered once |
| `L1Cache` | `l1_cache.sv` with bus, memory, core and external writers around it | one action per FSM arm; `Datapath` for queue, port, RAMs, snoop |
| `L1ICache` | `l1_icache.sv` | one action per FSM arm; `IDatapath` |
| `CacheUnit` | the I-cache wired to the core's stores (`cache_unit.sv`) | extends `L1ICache`; the D-cache is seen as its store in lookup and its queue |
| `BusUnit` | `bus_unit.sv` with its three requesters | `Arbitrate`, `WriteData`, `PendingReads` and the requesters' rules |
| `PageWalker` | `paging_walker.sv` | `w_state`, the latched request and entries; one action per group of FSM arms |
| `Paging` | `paging_unit.sv` with the four-way TLB of `paging_tlb.sv`, and around it the request side of `prefetch.sv`, the caches, the page tables and software | extends `PageWalker`; one action per FSM arm and branch (`Fsm`), then one equation per register beside it |
| `LengthTable` | `gen_length_table.py` and its two lookups | pure operators on the rows of the layout PLA |
| `EntryTables` | `gen_pla_group.py`: group rows by mode, merged lines, the group entry ROM, and the decoder's select between the two passes | pure operators on the rows of the entry PLA |
| `Recipes` | `ucode_optimize.py`: which instructions are hardwired and in which role, the overlays | pure operators over an instruction record |
| `PortBClass` | `gen_pb_b1_class.py` and port B in `hardwired_control.sv` | pure operators |
| `Decoder` | `decoder.sv` with the byte queue of `prefetch.sv` | `queue`, `prefix`, `rom`, `skel`, `window`; a clock with every answer of the fetch and of EX, a redirect, a mode switch before one |
| `DecodeReference` | what D1 and D2 promise | the instruction at a byte of the code, read from sets of opcodes |
| `X87Microcode` | `build_x87_microcode.py`: fields, microprograms, checks on a word, labels, words | pure operators |
| `X87Datapath`, `X87Cordic` | the lanes of `x87_executor.sv`; the tables of `build_x87_cordic_table.py` and the scratch memory | a lane is the record of the registers it writes |
| `X87Reference` | what the operations promise | exact ratios and whole vectors, rounded once |
| `X87Command` | `build_x87_command_decode.py`: the word of every command; the operation and operands `x87_control.sv` starts for it; what the instruction's name says | pure operators on a code |
| `X87Executor` | `x87_sequencer.sv`, the ROM and the start of an operation | `req`, `uaddr`, `active`, `done`, the registers `r`; `Start`, `Step`, `Idle` |
| `L1CacheMC`, `CacheUnitMC`, `BusUnitMC`, `PagingMC`, `X87MC`, `DecoderMC` | TLC instances | symmetry sets, a view, the operations and the programs |
| `CacheOps_proofs`, `L1Cache_proofs`, `L1CacheData_proofs`, `CacheUnit_proofs`, `BusUnit_proofs`, `Paging_proofs`, `Decoder_proofs`, `X87_proofs` | theorems | see below |

`L1Cache` and the D-cache of `CacheUnit` and `BusUnit` are the same component at two
levels: the small ones keep the queue and the store in lookup, which is what their
properties are about, and allow every length and timing the full one can produce.

What was left out of each module:

* `L1Cache`: the victim way is any way, so that the properties hold for every
  replacement policy (the real policy is the subject of two theorems); the ring
  buffer of the queue is the sequence of its live slots; A20 and device decode happen
  before the cache; performance counters.
* `L1ICache`: as above. `BusUnit`: x87 port cycles never reach the external bus; of the
  paging unit's demand port, which drives the direct requests, the handshake is kept and any access may come at any time.
* `PageWalker`: all pages lie under one directory index, so a directory is one entry; the
  bits kept of an entry are P, R/W, U/S, A and D.
* `Paging`: an address is its page (an access over a dword boundary names two, perhaps the
  same); the pseudo-LRU way is any way of the set; the sidecar TLB is seen only as
  reads that arrive translated; the fast VGA answer, the hardwired units' OPR_R
  commit, the timing hints to the sequencer and the menu switch `fast_off` are left out.
  `PG_WALK_LOOKUP`, `PG_CROSS_LOOKUP2` and `PG_PF_LOOKUP` are never entered, because
  `cache_lookup_granted` is tied high. `since` records, for each page, what the tables
  said of it since the last CR3 load or INVLPG of it; `served` the demand in service and
  its accesses; an access or a line request carries, as history, whether the tables
  granted it (`current`).
* `LengthTable`, `EntryTables`, `Recipes`: only the rows of the PLAs that decide the opcodes of the model (`Opcodes`);
  each row keeps its place, so that a row that hides another still does. The row of another opcode
  is not there, and neither is its recipe (BSWAP, XADD, CMPXCHG, INVD and the like); the algorithms do not
  depend on which opcodes there are, which is what the theorems say.
* `Decoder`: operand fields (registers, segment, ALU operation, sizes) are left out of the work record, the
  microcode entry, the literals, prefixes and lengths are kept. A code segment is some fifteen to
  thirty-five bytes; where nothing was fetched the queue shows a value no byte has. The target
  buffer of the prefetcher is a redirect whose first line is there at once.
* `X87Microcode`: `src_a`, `src_b` and `side_effect` of a micro-operation reach no field of the word. `X87Datapath`: widths are
  constants; relations between them that the code relies on are kept (even fraction, single narrower than
  double, an integer wider than a significand). The scratch memory's two mirrored copies are one.

## Runs

Every pass run is exhaustive for its constants. Deadlock checking is on everywhere: a
clocked design always has a next edge.

| run | question | bounds |
| --- | --- | --- |
| `L1Cache` | queue, tags, probes, snoops and cache disable together, external writers outside fills | 2 tags, 1 set, 1 dword, 2 ways, 1 lane, queue of 3 |
| `L1CacheAtomic` | refinement of `AtomicMemory`, reads in step with the fill counter, liveness | 2 tags (one write-protected), 2 dwords, 1 way, queue of 2 |
| `BusUnit` | routing, order, fairness of the one bus | bursts of 4, queue of 2 |
| `CacheUnit` | self-modifying code, line and beat answers | 2 lines of 2 dwords, patch queue of 2, 1 posted store |
| `CacheUnitWriters` | external snoops beside stores, two ways, liveness | 1 line of 1 dword, patch queue of 1, snoops of 1 clock |
| `Paging` | two workloads in one run. Every kind of demand: permission, faults, split accesses, A and D bits; and fetches, redirects and speculative fetches beside demands and invalidations; liveness of both | 2 pages in one TLB set; paging off, on, and on without WP; one page's entry absent or open, then closed by software; with fetches, a split read and a store, user fetches from both pages |
| `X87` | does every operation answer exactly, after another one left its registers | fraction of 4 bits (single 2), exponent of 5, integers of 3, 5 and 10, limbs of 5; 2 operations before, some 16,000 after, every arithmetic command among them by its code; 600 words each |
| `Decoder` | does the front end offer the instructions of the code, with the entries and classes of the PLA | some 750 programs, most of them two instructions at 3 places in a line, in both segment sizes; one redirect to 3 targets, with or without their line |
| `PagingCheckSplit` | violation: a check over two pages | see Findings |
| `PagingCr3Walk` | violation: CR3 loaded during a fetch's walk | see Findings |
| `CacheUnitLateClear` | violation: a clear put off for a fill's tag | see Findings |
| `CacheUnitPatchQueue` | violation: a merged patch keeps its age | see Findings |

Why the bounds are enough: two tags in one set make conflict misses, evictions and
duplicate ways possible; two ways make the choice of way matter; a queue of three has
an oldest slot on its way to memory, a middle one and a youngest one that coalesces,
which are the only roles a slot plays; two
dwords make a line that is partly filled. What more lanes or a
larger queue could change is covered by the theorems, which are for every depth.

In the paging runs two pages in one set make a refill replace the other page; an entry
that is absent, then open and clean, then read-only for the supervisor gives every
outcome of a lookup and of a walk, and a TLB older than the tables. The second page's
entry is always open and marked, so that only one page multiplies states. `PagingMC`'s
view `Live` leaves out registers that are always written before they are read again
(the walker's latches and the request while nothing is served, OPR_R between demands,
the toggles beyond their differences, translation while paging is off).
`Cr3Writes = "no walk"` and the rule that software does not store to a table during a
fetch's walk (`SoftwareInput`) are restrictions the code does not enforce: the first is
lifted by `PagingCr3Walk`, the second is the lost update listed as a hazard. The pass
run leaves out a check over two different pages, which is `PagingCheckSplit`.

In the x87 run a fraction of four bits has every relation between the lowest bit, guard, round and sticky,
single precision drops two of them, and exponents reach from far below one unit in the last place
to beyond every format, so that alignment runs by four, by one and not at all. The two operations
that come first leave a long shift, a remainder and set flags behind. Operands of the arithmetic are
five significands and six exponents in every mode, pairs of specials, and every value of the small
memory formats. A limb of five bits makes a vector of eleven fraction bits and as many rotations, with carries
between limbs. A command is asked by its code, in both forms, on equal and unequal numbers, compares also with a quiet
NaN; the answer expected is the one its name means (`Meant`). FUCOMPP is given numbers only (see Observations). What a narrow format cannot show is a width written wrongly in the code (a slice of 27
bits that should have 28): the code's slices are expressions of the widths here.

In the decoder run every layout of literals the tables know is followed by no byte, one byte and a long
instruction, at offsets that put a line's end before the opcode, within and behind the
literals; two instructions of fifteen bytes fill the queue. An instruction of more than fifteen bytes
is out of the bounds (see Observations). `MapsWhileWaiting = FALSE` says that a line whose fetch
has faulted does not arrive afterwards: see Observations too. The run's module also evaluates, as
the assumption `TablesBuild`, the checks with which the generators stop, and, as `PrefixesCounted`, that
no code has sixteen prefixes in a row.

What each property rules out is in the comment above it. The important ones:
`PostedStoresComplete` (memory under the posted stores is the core's memory),
`ReadyKept`, `DrainedMeansVisible`, `LoadsReturnYoungest`, `ProbesReturnYoungest`,
`NoStaleLine`, `OneWayPerLine`, `ReadInStep`, `ImplementsAtomicMemory` for the D-cache;
`FetchesReturnStores`, `NoStaleILine`, `OneWayPerILine` for the I-cache;
`ResponsesReachOwner`, `RequestHeld`, `IoBehindStores`, `FetchNotStarved` for the bus;
`TlbFresh`, `AccessesPermitted`, `FaultsJustified`, `OutcomeComplete`, `CheckedHalves`,
`WriteBacksOnlyMark`, `AnswersAwaited`, `IdleMeansNoWalk`, `GoodLine` for the paging unit;
`CursorsInStep`, `OffersTheCode`, `DispatchAgrees`, `FaultsNeeded`, `NeverWedged` for the front end;
`ArithmeticExact`, `ConversionsExact`, `TranscendentalsExact`, `LanesDisjoint`, `OperationsEnd` for the x87 executor;
and the liveness properties `KeepsServing`, `FetchesAnswered`, `RequestsTaken`, `DemandsEnd`.

`NeverWedged` and `OperationsEnd` are invariants that say what a liveness property would: in no state is
everyone waiting for somebody else, and no operation takes more words than its budget. They need no fairness.

### Fairness

The clock ticks (`WF` of `Next`). The bus takes a request that stays presented, and
answers a read it took: `mem_ready` and `mem_resp_valid` belong to the memory
controller, and the core has no timeout, so without them it rightly waits for ever.
Another source's transfer ends: `WF` of a clock in which the bus is not busy, which
the bus run justifies with `RequestsTaken` and `FetchNotStarved`. In `BusUnit` the
D-cache's drain is given strong fairness, because `mem_busy` comes and goes: the
cache launches its drain on a clock on which it is low (`drain_issue_now`, which
`KeepsServing` shows in the full cache). The core is never assumed to do anything.
In `Paging` the D-cache leaves no request standing, neither one presented nor one it
took: what `KeepsServing` shows of the cache. That the clock comes is written there as "again and again the unit
rests, or something changes": a clock may change nothing only while the unit waits for a request or an answer, so
this asks no more than `WF` of `Next` would, and spares TLC the computation of ENABLED of a large action.

### Findings

* **A clear put off for a fill** (`CacheUnitLateClear`). The comment at `l1_icache.sv:418` says that when a
  snoop's clear and a fill's tag need the same way for different lines, "the fill
  replaces the snooped tag, satisfying both operations with one write". That is so in one
  set only. In two, the fill's tag goes first and the clear comes a clock later. A fetch accepted on
  the clock between reads the tag, and when it is looked up no snoop is registered any more that would mask
  the hit: it returns the line without the store. A second store on that very clock is registered over
  the clear, and the line of the first stays valid for good. One store to cached code
  and the end of a fill are enough, without any external writer. The
  other I-cache runs have one set, where this cannot happen (`OneSetClears`).
* **The patch queue's order** (`CacheUnitPatchQueue`). A store that merges into a slot of the
  I-cache's patch queue does not become the youngest, so it can be replaced while it
  is still queued in the D-cache; a fill then installs a line without it.

* **A check over two pages** (`PagingCheckSplit`). Check-only accesses (ENTER, INS, SHLD/SHRD
  and x87 stores use them before they commit) over two pages, the first in the TLB, go
  straight to `PG_CROSS_TLB2`, "Check TLB for second half" (`paging_unit.sv:188`), but
  nothing loads the second page into the lookup register on that path: the first page is
  looked up twice and the check passes whatever the second page allows. After a walk of
  the first page, or with both halves in one page, the check is right (`Paging`).
* **A CR3 load during a fetch's walk** (`PagingCr3Walk`). The flush comes first and the walk,
  under the CR3 it latched, then inserts its result; INVLPG waits for the walker for that
  very reason (`paging_unit.sv:18`). Without CR3 loads during walks `TlbFresh` holds.

A comment in `paging_unit.sv` (line 832) says prefetch walks use supervisor permissions; the
code uses the current privilege, as the model does.

### Observations

Behaviours met while modelling that no run counts as a violation, because nothing in the
repository says otherwise or because the part that would decide is not modelled:

* External writers beside a fill of the D-cache: the snoop clears the set one clock later, and a fill of the same
  line that is under way installs its tag afterwards, with words read before the external write. `memory.sv:75` says external
  writers invalidate both caches; every board and test bench but one ties them off. With `ExternalWrites = "any time"` (one line
  of two dwords, one way, a queue of two, snoops) TLC finds `NoStaleLine` violated; with writes
  outside fills it holds, which is the run `L1Cache`.
* Adding a zero returns the other operand unrounded even with single precision selected; a quotient that
  overflows in single precision and is rounded towards zero is the greatest number of double precision; exponents of
  sums and products are not checked at the ends of their 15 bits, so the run keeps clear of them
  (DIV checks them, and the run goes there).
* FST leaves C1 clear when it rounds up; storing an empty register stores the indefinite without the invalid flag.
  FIST and FRNDINT of an operand beyond 2^52 ignore its guard bits where they are set. The flags of a tangent are
  those of its last rounding, the division; the arctangent of a tiny ratio has the absolute precision of the
  vectors, not a relative one: `X87Reference` says so of both.
* `build_x87_microcode.py:532` documents the check that `x87_executor.sv:936` relies on; it compares the major lanes
  only, and `LanesDisjoint` checks the registers the lanes really write.
* `build_x87_command_decode.py` classes FUCOMPP with the signalling compares; `tests/programs/x87_qemu_exceptions.asm:93` expects
  it to be quiet. `CommandsMeanTheirNames` excludes it and the run keeps quiet NaNs from it; with one, TLC finds
  `ArithmeticExact` violated.
* Redundant prefixes: `z486_pkg.sv:259` counts prefixes in four bits, "up to 15 prefixes". Sixteen wrap the count; an
  instruction of more than fifteen bytes raises no exception, and from eighteen bytes on it may not fit in
  the queue at any alignment, which then waits for room for ever.
* If a page is mapped between a fetch's fault and the line's arrival (`MapsWhileWaiting = TRUE`), a fault is reported for bytes that
  are in the queue by then, against the comment at `prefetch.sv:164`; whether the paging unit can answer so is not
  settled by the model of it here.
* With external writers during fills by single beats the I-cache keeps a stale line as the D-cache does
  (above): the clear comes before the install.

Restrictions of the passing runs that are known to be needed, each tried and refuted
by TLC while the modules were written: `ExternalWrites = "any time"` and
`"other lines"` with two lines in a set whose fill is snooped (the first observation's
cause: the clear covers the set, the tag write comes later); `Backend = "gaps"` in
`CacheUnit` (a store patched over words that have already been received only reaches
the line on its own clock or the next, so the two registered clocks must see it,
which back-to-back beats guarantee for the instance checked); `Writers = "any line"`
(a writer and the core storing to one dword race by nature); `MaxHold = 2` (a snoop
held for two clocks while the slot is full drops the older of two stores; every board
and test bench of the repository ties the snoop off, except `tests/tb_l1_cache.sv`,
which pulses it for one clock).

## Proofs

All leaves are checked by TLAPS 1.4.5; nothing is assumed but the named assumptions on
constants, and every TLC run evaluates those. `DepthAssumption` says a queue of at least two
slots, `NoneAssumption` and `AbsentAssumption` that "no request" is no request (in `Paging`: no demand, access, line, fault or translation either); the others type the constants.
A theorem with a hypothesis of its own (`ASSUME ... PROVE`) names the setting it is true in.

* `QueueInvariant`, `ReadyIsKept` (`L1Cache_proofs`): `QueueInv` is inductive. `ReadyKept` alone is
  not: whether an offer can be kept depends on what merges and drains in the clock
  between, so the invariant also carries what each registered promise means
  (`lookup_wr_room_r` stands for two free slots while a store is in lookup,
  `ready_r` for one) and that a drain owns a slot. `NextQueueRoom` bounds the next
  queue; `MachinePromises` has one step per FSM arm.
* `StoresAreNotLost`, `DrainedIsVisible` (`L1Cache_proofs`): `StoresInv` adds that the memory port carries
  exactly the oldest slot while the queue drains (`PortInv`); without it a drain could
  write something else. The argument is that the three things that happen to a
  store are invisible to a reader through the queue: an enqueue reads like the store
  behind the queue (`EnqueuedReads`), coalescing like both stores (`ForwardCoalesced`),
  a drain like the store still in front (`ForwardTail`, `DrainIsInvisible`); an external write
  is to a dword no posted store is on its way to (`ExternalWrite`). `StoreAccepted`
  needs `QueueInv`: a store the core presents is never refused.
* `CacheOps_proofs`: the lemmas about `Forward`, and for the replacement tree `VictimIsNotRecent` and
  `VictimsRotate`. That a nonempty set of positions has a greatest member is itself
  a lemma (`GreatestExists`), from the well-foundedness of strict inclusion.

* `TypesAreKept`, `ReadsKeepStep` (`L1Cache_proofs`): `TypesInv` joins the types with
  `StoresInv`, with what each FSM state says of its registers (`StateInv`) and with
  `ReadInStep`. The types alone are not inductive: a response carries no address, so that
  a beat lands inside the line only because the dwords still due and the fill counter
  add up to the line (`ReadStaysInStep`, from `PortStep`, `ReadStep` and `FsmReads`).
* `LinesHaveOneWay` (`L1Cache_proofs`): `WaysInv` says that the tags a lookup read are still
  those of its set or were cleared since (`LookupReadsItsSet`), hence that a fill under way
  is for a line the set does not hold (`FillIsOfMissingLine`), and that the sets behind
  `init_set` are empty during reset.

* `LinesAreFresh`, `ProbesAreFresh`, `LoadsAreFresh` (`L1CacheData_proofs`): `DataInv` compares everything the cache
  knows of a dword with `Value`, memory under the queued stores. Its parts are the valid lines (`LinesInv`), the words a
  fill has written and the line it holds to be written (`FillInv`), what was read from the RAMs a clock ago, patch
  register included (`RdInv`), beside what a probe resolves (`ProbeInv`, the assertion at `l1_cache.sv:844`), and which load the answer belongs to (`AnswerInv`). None is inductive without the others:
  a probe is right because the line was, the line because the fill was, the fill because the patch of a racing store is
  forwarded to the beat it misses. `ValueStep` says a clock changes `Value` only by the store that leaves lookup and by an
  external write. The hypothesis `FillsUndisturbed` excludes external writes that meet a fill: with them the properties
  are false (see Observations).
* `CacheIsAtomicMemory` (`L1CacheData_proofs`): the refinement of `AtomicMemory` without external writers. In `RefInv` the memory seen through
  the mapping (`SeenIsArch`) is the program order's; a store maps to a write when the core presents it (`StoresWrite`), a
  load to a wait and then to an answer (`LoadsWait`, `AnswerIs`), and every other clock to a stutter (`StepImplements`).
* `ILinesHaveOneWay`, `ClearsYieldOnlyToFills` (`CacheUnit_proofs`): the I-cache with the core's stores, its external writers and any back end.
  `RegsInv` joins the types with what the FSM says of its registers; `WaysInv` is where a
  second copy could come from: the tags read for a lookup or with a snoop still match every way that holds
  the line, and a fill whose line is in its set is one whose clear is registered on this clock, which suppresses the
  install. The last part is what makes it inductive: a lookup that hits but meets a store of its line
  starts a fill while the line is still there. `HolderStep` says how a way can hold a line after a clock.
* `LinesFreshUnlessLate`, `FetchesFreshUnlessLate`, `OneSetFresh` (`CacheUnit_proofs`): the two I-cache findings refute
  `NoStaleILine` and `FetchesReturnStores` for some constants, and these theorems say that they are all there is: without external
  writers the two hold in every behaviour in which a registered clear is done on its clock (`SnoopsClear`) and a patch outlives its
  store's wait in the D-cache (`PatchesOutlive`). With one set and one posted store both conditions always hold, and the
  theorem has no hypothesis left but the setting. `FreshInv` compares what the I-cache knows of a dword with `Told`, memory under the posted stores, which
  is what the I-cache was told of. Its parts are the rows of the data RAM (`RowsInv`), the line read for a lookup, fresh unless
  its conflict flag or the snoop of this clock says otherwise (`ReadInv`), the words a fill has received (`FillInv`), the
  answer (`ResponseInv`), that every posted store is a patch or the registered snoop (`PatchInv`), and that what a beat
  brings is patched up to date on its own clock (`FillWords`). `ToldStep` says a clock changes `Told` only by the
  store that leaves lookup. `Alone` is the setting: no external writer, and no gap
  between the beats of a read (see the restrictions above).
* `ResponsesAreRouted`, `RequestsAreHeld`, `IoStaysBehindStores`, `FetchesAreNotStarved` (`BusUnit_proofs`) share `BusInv`:
  the counters and the reads the bus owes describe the same read, nothing is granted beside one and no requester asks
  again before its own has ended (`ReadsInv`); what is on the bus is what a waiting requester asks for (`HeldInv`); a store
  on its way is still counted (`PostedInv`); once the D-cache has passed a waiting fetch it has no second request
  (`PassedInv`). Without the first, routing by counter could mistake one read for another; the last makes "at most one"
  inductive.
* `Paging_proofs` proves every safety property of the paging unit. All rest on `Struct`, which is inductive as a whole and in none of
  its parts: the types (`TypeInv`), who owns the walker (`WalkInv`), what each FSM state says of the demand and the lookup
  register (`FsmInv`), one request at a cache with one owner (`PortInv`), that the walker asks for what it was asked
  (`AskInv`), and that what it latched of the tables is still what they hold, its own marks included (`LatchInv`). From it follow
  `WalkerRestsWithFsm` (an INVLPG acknowledged while the FSM idles meets no walk), `AnswersAreAwaited` and `WriteBacksMark`.
* `TlbIsFresh` (`Paging_proofs`): `SinceInv` adds to `TlbFresh` that a walk reads the address space in force and that what the tables
  say now is among what they said since the last invalidation, so that a refill inserts nothing older
  (`ResultIsEntry`). `AccessesArePermitted` carries the permission with a request that waits in the register (`AccessInv`);
  `LinesAreGood` needs that a fetch under way is the one the prefetcher waits for or one it will drop (`FetchInv`, where the
  toggles, the queued redirect and the speculative request meet); `FaultsAreJustified` that the demand in service is
  the captured one (`DemandInv`). Each has the hypothesis `Cr3Writes = "no walk"`: with CR3 loads during a
  fetch's walk they rest on a translation that is not fresh (run `PagingCr3Walk`).
* `OutcomesAreComplete` (`Paging_proofs`), in any setting: `ServedInv` says how far the demand has come (`Progress`): its first half once that is
  done, the access in the cache, the one that waits, and what OPR_R holds of the first; and that the walker's answers are
  marked as such, or they would be taken for the demand's. One lemma per group of FSM arms (`IdleServes`,
  `MemTlbServes`, `WalkServes`, `SecondServes`). `ChecksAreHonest` is for workloads whose checks stay in
  one page: with two, `CheckedHalves` is false (run `PagingCheckSplit`); `CheckInv` says which page the second lookup sees.

* `Decoder_proofs`, the tables. These are theorems about the generators, for every opcode, mode and ModR/M byte and whatever the
  contents of the PLA. `MergedLinesAgree` and `RowsGiveClasses` are for every table of rows: merging modes into fewer casez lines, or
  forms of ModR/M into fewer rows, loses nothing; each needs that a line covers only modes with its row
  (`LinesAreRows`) and that every row is covered (`LinesCoverRows`). `GroupLookupIsFirstPass` and
  `SideBySideIsChained` carry this to the decoder: the entry selected from the tables is the
  PLA's in two passes. The group ROM's address leaves the data size and the opcode map out, so the theorem
  assumes what the generator checks before it writes anything (`RomBuilds`, `RowsIgnoreRep`), as
  `PortBTableIsExact` assumes `TableBuilds`; TLC evaluates all three on the rows of the model. `OverlaysGoBack` rests on
  `OverlaysDistinct`; `LengthTablesAreFlat` on arithmetic of the packed index.

* `DispatchIsRight` (`Decoder_proofs`): for every program, fetch, redirect and mode switch, what D1 hands over is what the PLAs
  give for the instruction in its view. Two things meet in it. One is in time: the entry ROM is read a clock early, at the window D1
  would move to, and held while D2 refuses; `FrontInv` joins to the types that the word shown is that of the byte in view
  (`WordIsInView`), which every clock, redirect and hold must keep. The other is in the tables: `HandoffEntry`, `HandoffGoesBack`
  and `HandoffClass` carry the theorems above from rows to the instruction decoded. The ROM rows, the
  recipes and the classes need no more of an instruction than a bare opcode, mode and ModR/M byte (`HandoffAlike`), so the hypotheses
  `RomBuilds`, `RowsIgnoreRep`, `TableBuilds` and `ReadsCovered` are closed statements about the tables: TLC evaluates them as `TablesBuild`.

* `CursorsStayInStep` (`Decoder_proofs`): D1 runs ahead of D2 with a cursor of its own, and `decoder.sv` says that only a check in simulation
  ties the two. They stay apart by what is between them because two sums agree that the code writes in different places: the
  length D1's cursor moves by, from the two flat tables (`TableIs`), and the one D2 pops, from the opcode, immediate, displacement and
  SIB terms (`HandoffLengths`, for every opcode, mode, ModR/M and SIB byte). `CursorInv` adds what the queue needs: a fetch goes
  out only while four of its eight words are free (`Span`), and the prefixes D1 has counted are bytes of the code behind it
  (`PrefixesBehind`). The last is why the four-bit count never wraps, and why the theorem has a hypothesis: no sixteen prefixes in a row
  (`ShortPrefixes`; such an instruction is longer than the architecture allows). That the length is also the architecture's is part of
  `OffersTheCode`, which is only model-checked.

* `X87_proofs`, the commands. For all 2048 codes: `RegisterFormsOpenNoStream` is the assertion the generator ends with,
  `MemoryFormsIgnoreAddressing` that the two ways it looks a code up (whole, or without its addressing) agree,
  `ArithmeticMarksExecution` that the busy flag, kept in a list of its own, matches the actions, `ResultsOutlivePops` that
  no result is written to a register its own command frees. `CommandsMeanTheirNames` is for any operands: the operation started is
  the named one. It goes by three lemmas, for memory operands, for results and for compares; the names of group 0
  (`NamesOnTheTop`) and of the groups that write ST(i) (`NamesOnARegister`) differ by the exchange of the reversed forms.

* `LanesNeverMeet` (`X87_proofs`), for every operand, width and sequence of requests. `x87_executor.sv` lets eighteen lanes of a word write
  its registers in one clock and says the generator keeps them apart. `LaneWrites` bounds what each lane may write, whatever
  the operands (`ClassifyWrites` to `ScratchWrites`); `WordApart` then needs only what the fields of the word say.
  Its checks allow two major lanes only for the sum and the product (`TwoMajors`), whose registers are apart (`PairApart`). The checks
  alone do not give the promise: a shift or a decrement beside a lane that loads operands, or an engine beside an access of
  the scratch memory, would pass them and write one register twice. `StoreIsSound` is what the
  words of the program keep, these two rules (`Spaced`) included; it is closed, and `X87MC` evaluates it.

Only model-checked: the freshness of the I-cache beside external writers; `OffersTheCode`, `FaultsNeeded` and
`NeverWedged` of the decoder, which speak of the architecture's length of an instruction, known to the model only for the opcodes it has; the
results of the x87 executor and that its operations end (statements about loops over digits, an induction over data); and all
liveness, which is out of the prover's reach together with ENABLED. `X87Microcode` resolves its labels over a sequence of items, so what
it assembles is evaluated and not proved.

## Not modelled

* The sidecar TLB of the paging unit: its epoch tags are a second, larger translation cache with its own scrubbing; it appears
  as reads that arrive translated.
* The target buffer of the prefetcher beyond a redirect that hits.
* `data_access.sv`, `event_control.sv`, `interrupt_controller.sv`, `cpu_throttle.sv`, the x87 bridge and FIFO: clocked parts
  of a few registers each, which suit the same treatment; what they present to the modelled parts (demands of the paging unit,
  redirects and stalls of the front end, requests of the executor) is an input of those, under the rules their code keeps.
* `memory.sv` as one composed model: the product of the full D-cache, I-cache and bus unit is beyond TLC, so each is
  checked against the others' rules. The lost update of a page-table entry (the hazard without a
  property) needs the paging unit together with `data_access.sv`.
* Byte lanes: the D-cache's runs use one lane; partial stores and their coalescing are covered by the theorems of
  `L1Cache_proofs` and `CacheOps_proofs`, which are for every set of lanes.
* The words of the CPU's microcode and the peephole optimizer over them, the operands of an instruction and its execution: instruction
  semantics is not in the scope of these modules. Nor are the stack, the tags, the status word and the
  logarithm and exponential sequences of the x87, FPGA memory primitives, boards, or timing closure.
