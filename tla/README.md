# Verification of the STRIDE software emulation

The repository emulates a NIC that spreads flows over host queues: an FPGA
hashes every packet to an RSS *bucket*, an indirection table maps buckets to
*queues*, a queue holds packets in a ring of descriptors until its core has
served them, and a scheduler remaps buckets from loaded queues to idle ones.
Stateless buckets may be remapped at once; a stateful bucket is handed over by
a protocol that withholds its packets while its state moves. The emulator is a
single-threaded Python simulator in `src/src/`, driven by time bins. This
directory holds TLA+ models of its control logic, their TLC runs and TLAPS
proofs.

Time is simulated, so the concurrency of this code is not that of threads. What
is hard about it is the order of simulated events: epochs of two domains that
close at different bins, handoffs that outlive several epochs, descriptors that
come back at times computed earlier, packets released at a boundary between two
bins, and counters that are reset at other moments than they are read.

## 1. Inventory

| Component (source) | State | Operations | Correct when |
|---|---|---|---|
| Handoff manager (`handoff.py`) | `pending`, `H_pend`, buffer counters | `can_issue`, `issue`, `absorb_bucket_traffic`, `advance_time` | flags and pending handoffs agree, no queue takes part in two handoffs, a handoff commits on schedule, the buffer is accounted for |
| Stateful scheduler (`schedulers/stateful_proposed.py`) | finished handoffs, moves of the epoch | `tick_handoffs`, `step` | the table changes only by commits, `issue` never raises |
| Stateful delivery (`sim.py`) | the handoffs' buffered packets, the rings | redirection, per-packet loop, release at the boundary | no packet lost unaccounted or delivered twice, order kept, nothing delivered during a move |
| Queue pipeline (`host_pipeline.py`) | credits, heap of credit returns, core clock, bin counters | `advance_to`, `try_admit`, `record_pcie_drop`, `stats.reset` | credits are conserved, service is FIFO, returns are never overdue, counters balance |
| PCIe link (`pcie.py`) | `busy_until_ns`, counters | `try_transmit`, `advance_to`, `reset_bin_stats` | one packet at a time, bounded backlog, line rate |
| Epoch driver (`sim.py`, `telemetry.py`) | bin and epoch counters, telemetry rows, PCIe accumulators | `run`, the two boundaries, `record_bin`, `reset_epoch`, `save_all` | every epoch is closed from its own bins, all epochs are logged, totals are complete |
| Greedy scheduler (`schedulers/stateless_proposed.py`) | table being built, loads, hotness, hot and cold sets | `step` | ends, overfills no queue, keeps loads and table in step, respects the cap |
| One-shot scheduler (same file) | table being built, queues used | `step` | one arrival and one departure per queue |
| Data path (`sim.py`) | the packets of a bin, both tables, the queues, the link, telemetry | `_process_bin_merged`, both epoch boundaries | every packet is counted once and in its own epoch; what queue, link and telemetry say agrees |
| Telemetry (`telemetry.py`) | epoch arrays, latency samples | `record_bin`, `reset_epoch`, `finalize_epoch` | sums, growth and pressure are those of the epoch's bins |
| Metrics (`metrics.py`) | rows of all epochs | `log_epoch`, `summary` | the indices logged are those of the epoch's loads and latencies, within their exact bounds |
| Arbiter (`arbiter.py`) | DRR deficits | `scale_factors` under five policies | shares within the link, no domain paid more than its part |
| RSS table (`rss.py`) | the initial table | three initialisations | every bucket mapped, counts add up |
| Queue-to-core map, RTT (`host_pipeline.py`) | core of a queue, share of a core | `build_queue_to_core`, service and transit times | every queue on an existing core, whose shares add up |
| Configuration (`config.py`) | the configuration | `__post_init__`, fall-backs of epoch lengths and counts | what is refused is refused before a run begins |
| Predictors (`predictors.py`, `tcn.py`) | the history of features, EWMA state | `update`, `predict`, the windows | a window ends with the epoch just closed and is laid out as in training |
| Scheduler factory (`schedulers/__init__.py`) | - | names, aliases, signals | every name gets its policy and signal |
| Trace generators (`traces.py`, `hal_workload.py`) | the timelines made so far, the generator's clock; the HAL flows with what they have left | one loop per `workload.source` | timelines sorted, within the horizon, paced and within their budgets; a HAL window sends its target |
| Trace cursor (`traces.py`, `sim.py`) | a cursor and a bucket per flow | `_materialise_flows`, `generate_bin_packets`, `rebucket`, `_shift_pattern` | every packet in exactly one bin, in order, in the bucket of its flow's present tuple |
| Distributions, hashing, the TCN network, plotting, scripts | random samples, floating point, files | | not modelled, see section 7 |

Calls go one way. `Simulator.run` processes a bin (`_process_bin_merged`):
it pulls packets from the traces of both domains, lets the arbiter thin them,
hands the packets of stateful buckets in transition to the handoff manager,
resets the bin counters, and passes the others, merged by time, through the
credit check of their queue, the shared PCIe link and the ring. Then it advances
all queues to the end of the bin and records telemetry. Each domain whose epoch
is full finalizes its telemetry, runs its scheduler on it, installs the new
table and resets. The stateful boundary also ticks the handoffs and releases
the buffers of those that finished. The queues share the link, the domains
share the loop, the protocol and the telemetry share the table.

## 2. Modules and how they follow the code

* **Handoff** - the handoff manager, the stateful scheduler and the stateful
  table. One `Bin` is the redirection of one bin. The boundary is cut into
  the steps the code takes in order: `tick_handoffs`, `step_begin` (commit the
  finished, classify the queues), any number of `Issue`, and
  `_on_stateful_epoch_boundary_end`. Variables carry the names of the code's
  attributes. The gain that picks a destination, the order of candidates and
  the latencies are left open, so the results hold for any ranking and any
  latency. `R_q` is always ready in the code (nothing clears it).
* **Migration** - what the protocol promises: a bucket has one owner, changes
  it only by committing a move begun for it, and a queue takes part in one move.
  `Handoff` is shown to implement it.
* **StatefulDelivery** - EXTENDS Handoff and adds the packets: which are
  buffered, overflow, are delivered to a ring, released or served. The protocol
  actions are those of Handoff, conjoined with what they do to packets.
* **QueuePipeline** - one queue with its heap of credit returns. Actions are a
  packet of the bin (no credit, refused by the link, admitted), the end of the
  bin with its telemetry record, the release of buffered packets at a boundary
  one nanosecond before the time the queue has reached, and the reset.
* **Ring** - what a queue promises without times; `QueuePipeline` is shown to
  implement it, every queue of DataPath to implement `QueuePipeline`, and
  StatefulDelivery is built on rings of this kind.
* **PCIeLink** - the shared link: accept or refuse by backlog, serialization
  times, the clamp at the end of the bin. `wire` and `work` record what was
  accepted, to state the properties.
* **EpochDriver** - the loop of `run()` for both domains. What a bin does to
  packets is open (DataPath says it); which bin is recorded at which index,
  which epoch is closed when, the horizon, and the PCIe accumulators are as in
  the code.
* **GreedyScheduler**, **OneshotScheduler** - one call of `step()`, one
  iteration per action. By how much hotness changes in a move is left
  open, and where it comes from is in StatelessScheduler.
* **DataPath** - EXTENDS PCIeLink, Metrics and Arbiter: the packets of both
  domains in all their queues. `Pull` begins a bin (arbiter, redirection,
  resets), one action per packet takes them in the order of their times through
  credit check, link and ring, and the end of the bin records telemetry; then
  each domain whose epoch is full finalizes, takes a table and resets, and the
  stateful one first releases the buffers of finished handoffs. A buffer takes
  what its capacity allows and cuts a load within a packet as
  `absorb_bucket_traffic` does. Which handoffs begin and end is open, up to the
  limit of concurrent ones, since Handoff says which may; so is the table a
  stateless scheduler returns, and the moves it reports, which are at least the
  entries that changed. Both domains are enabled. `lost` counts what
  never reached a queue, to state conservation.
* **DataPathQueues** - the refinement mapping from every queue of DataPath to a
  `QueuePipeline` of its own, and what relates their bounds: the bound on
  packets leaves room for all that can come in the run.
* **Telemetry**, **Metrics** - the rows of an epoch, its sums, peaks, growth,
  pressures and latency quantiles; the row that is logged, with Jain's and
  Gini's index. Pure operators; a ratio is a numerator with its denominator.
* **Sorting** - `np.sort` and `np.argsort`, for the quantiles, Gini's index and
  the timelines.
* **Arbiter** - the five policies: shares as integers over a denominator, and
  the deficits of deficit round robin. **RssTable** - the three initial tables.
  **HostTopology** - queue-to-core maps, the share a queue has of its core, and
  the transits calibrated from a table of round-trip times.
* **FrontEnd** - EXTENDS these three: `CheckConfig` refuses a configuration as
  `Config` does, the domains and the arbiter are built in the order of
  `Simulator.__init__`, and then every bin asks for shares. `paid` and
  `overloads` record what was granted, to state what a domain is entitled to.
* **Predictors** - the history of features, EWMA, the linear predictor, and
  the windows of the TCN in training and in use. `EpochDriver` feeds it one
  epoch after the other, as `run()` does.
* **StatelessScheduler** - EXTENDS GreedyScheduler and instantiates
  OneshotScheduler: a name is resolved, through its legacy aliases, to a
  policy and a signal, the signal makes hotness of pressure and risk, and the
  policy runs.
* **TracePackets** - how bytes and instants become packets: messages sent back
  to back, constant bit rates with jitter, budgets that are cut, the shares of
  a HAL window. Pure operators, with integers in units of 1/`Grain` byte or ns
  where the code has floats, so that its `floor`, `ceil` and `round` matter.
* **FlowSources** - one action per draw of each generator in `traces.py` (a
  flow, a message, a period, a cycle, a row); **HalWorkload** - the HAL
  generator: open a window of a class, spawn, close it with the fair shares.
* **TraceReplay** - EXTENDS both: generate, materialise the flows, then pull bin
  after bin through the cursors, with the shift of the pattern at epoch
  boundaries. `asked` records what a flow was to send, to state the budget.
* **MC...** modules give the constants of the TLC runs; **...Proofs** modules
  hold the theorems. An operator whose name ends in a suffix such as `_Late` or
  `_Strict`, under a comment that calls it a mutant, is a plausible bug in the
  definition that follows it: with it in place of the definition the property
  named beside it in PROJECT.json fails, which shows that the property can.

## 3. Runs

All runs are exhaustive over their bounds.

| Run | Bounds | What it shows |
|---|---|---|
| `handoff_protocol` | 4 queues, 3 buckets, two of them on one queue, 2 handoffs at a time, 4 epochs of one bin, latencies of less than one, exactly one and three epochs, hot, neutral and cold queues, no traffic | flags exact, handoffs disjoint (also those that finish together), the table unmoved under a handoff, `issue` never raises, commits on schedule; implements Migration |
| `delivery` | 2 queues, 2 buckets, rings of 2, 3 epochs, latencies of exactly one epoch and of two, two packets per bucket and bin, a buffer that cuts the second pair within a packet | packets conserved, buffered plus overflow is what arrived, buffers match the handoffs, order in each ring, no delivery in transition, every handoff that can still end is committed |
| `delivery_drain` | the same, 2 epochs | *violated*, see section 4 |
| `queue_pipeline` | ring of 2, 3 bins of 3 ns, 3 packets per bin and 2 releases, service shorter and longer than a bin, transits that let packets overtake | credits conserved, balance per bin; implements Ring |
| `queue_drop_records` | the same | *violated*, see section 4 |
| `data_path` | both domains with 2 queues, 2 stateless buckets of equal loads and 1 stateful bucket, rings of 1 and 2, bins of 3 ns, two stateless epochs of two bins with any table after each, three stateful epochs of one bin and one bin past its quota, link on and off, `wrr` with a cap of 6, a FIFO of 2 bytes and a setup of 1, one handoff at a time with a buffer of 2 bytes (`BufferCapacity`), reported moves those that changed the table (`MaxUndone` = 0) | every packet in exactly one counter of one epoch, link serial, bounded and at line rate, the clamp at a bin's end invisible, growth and pressure are the epoch's; imbalance is Gini's index and fairness Jain's, with their extremes exactly for equal loads and for all load on one queue, quantiles in order, the summary accounts for no more than was generated; each queue implements QueuePipeline |
| `epoch_driver` | eleven configurations: epoch lengths equal, dividing, coprime, one domain ending first, isolated domains; four with a predictor, windows of 2 to 4 and 5 epochs of one bin | indices in range, every epoch from its own bins and logged, PCIe drops in the log or, in bins after a domain's last epoch, left in its accumulator; windows end with the epoch just closed and are laid out as in training, a risk continues what it was shown |
| `epoch_driver_summary` | one isolated domain | *violated*, see section 4 |
| `stateless_schedulers` | 3 queues, 3 buckets, every table, weights 0, 2, 5, pressures and risks 0 or 1 blended in halves, or no risks, cap of 3, five names of which two are legacy | the greedy loop ends, keeps loads and table in step and overfills no queue; the one-shot pass moves one bucket to and from a queue; what is reported moved covers what changed |
| `front_end` | 369 configurations: 1 to 7 queues, 2 to 23 buckets, 1 to 4 cores, all initial tables and maps, every policy with equal and unequal weights and caps of 3 and 4, domains on and off, and some that are refused; loads of 0, 1, 2, 5 bytes, up to 4 overloaded bins | tables, cores and transits are sound; shares respect the link and what a domain is owed |
| `trace_replay` | every source; an MTU of 4 bytes and sizes of 1 and 6 in mixes and rows, half units, 3 bins of 3 ns and 2 more for the other domain, up to 2 flows, 2 messages or periods each, jitter beyond a packet's interval, HAL windows of 2 bins for 2 classes, at most 2 flows spawned in a window and 3 alive, flows that are over in their window and flows carried into the next; a shift at every epoch | timelines sorted and paced, within the MTU and the budgets where bytes are cut into packets, HAL windows send their target, bins get exactly their packets, buckets follow tuples |
| `hal_target` | the HAL source of the same, with flows of four bytes | *violated*, see section 4 |

Why the bounds are enough: four queues are the least for two handoffs at a time,
and two buckets on one queue the least for one bucket's handoff to meet the
other's; three epochs let a handoff be issued, span a boundary and commit, and
four let its successor do so too. A ring of two has a state between empty and
full. Three queues and three buckets let a bucket of the schedulers move twice
and a third queue interfere. In the data path, epochs of one and two bins let a
boundary of one domain fall within and at the end of an epoch of the other, a
ring of one is at its limit after a packet, and a FIFO of two bytes is filled by
two domains together. A buffer of two bytes is filled by one packet of two and
cut within the second of a pair. Two stateless buckets of equal loads make the
loads of their queues equal or put all on one, so the indices meet both their
extremes; loads between them, several handoffs begun at one boundary and moves
that a later one takes back are left to the theorems, which hold for any number
of buckets, queues, `MaxConcurrent` and `MaxUndone`. A HAL flow of eight bytes,
at most a byte a ns, that lasts seven ns is not over when its window of six is,
so the next window opens with flows alive, and spawns until three are. Four
overloaded bins let the deficit of a domain grow, be spent and be cut. Numbers
of buckets and queues that do not divide each other show every rounding of the
tables. Sizes below, at and above one packet, arrivals in the last bin and
jitter past the neighbouring packet give the traces every rounding, cut and
overtaking there is; three epochs let a shift precede and follow a bin. For the
protocol, the delivery of its buffers, the queue, the link (alone and in the
data path), the driver's epochs and drops, the arbiter and the stateless
schedulers the theorems of section 5 remove the bounds.

Initial tables of the handoff and delivery runs are one per shape, since
renaming queues changes nothing. `front_end` has no deadlock check because its
model stops after a refused configuration and at the bound on overloaded bins;
every other model ends in an explicit stuttering `Done`.

Liveness is checked where something must end: `CommitsInTime` under
`FairSpecDelivery` of StatefulDelivery and `Terminates` under `SpecAny` of
StatelessScheduler, with weak fairness of the whole next-state relation. The
code justifies exactly this: the simulator is one thread that does not stop
while it has a statement to execute. Nothing is assumed of which alternative it
takes. Both `Next` include the final stuttering step, whose fairness is void.

## 4. Where documentation and code disagree

* **The drain is not waited for** (`delivery_drain`). A handoff counts down a
  sampled latency; the source ring is never consulted. It can commit while the
  source still holds packets of the bucket, although `README.md:254` and
  `handoff.py:6` describe the drain as the source core finishing them. Packets
  of one bucket can then be served by two cores at once. Within each ring the
  order holds (`OrderedInRing`).
* **Drops of released packets are not recorded** (`queue_drop_records`). A
  packet released at a boundary into a full ring is counted after the bin's
  record; the next bin resets the counter (`sim.py:475`, `README.md:96`).
* **The summary's accepts come from stateful epochs** (`epoch_driver_summary`).
  A stateless-only run reports none (`sim.py:661`, `README.md:345`).
* **A HAL window can send more than its target** (`hal_target`). A share that
  exceeds whole packets by a fraction that rounds away is cut into one packet
  more, which keeps the full MTU because the rounded remainder is zero
  (`hal_workload.py:421`); the comment at `hal_workload.py:528` guarantees that
  a window never sends more than its target. The run grants every flow a whole
  byte for rounding, so what it finds is the extra packet.

Observations that no run is devoted to:

* The docstring of `imbalance` (`metrics.py:39`) has 1.0 for all load on a
  single queue. What the code computes is Gini's coefficient, at most (n - 1)/n
  for n queues: 1/2 in `data_path`. `RowsMeaningful` states what it does give:
  0 for equal loads and (n - 1)/n for all load on one queue, and for no others.
* With a setup cost the link counts the setup as pending bytes, so it refuses
  earlier than its docstring says (`pcie.py:84`).
* A boundary may issue the next handoff of a bucket before the buffer of the
  previous one is released, into the ring that is by then the source;
  `NoDeliveryInTransition` excepts the boundary for that reason.
* The horizon is one nanosecond past the end of the last epoch and is compared
  with the start of a bin, so a domain past its quota still pulls a packet
  stamped with the last nanosecond (`sim.py:113`; the comment at `sim.py:252`
  says that it stops). `BatchExact` includes that bin.
* "Last packet carries the remainder (rounded up to min 64)" (`traces.py:740`):
  a remainder is only rounded up if the message has no full packet; otherwise
  the last packet may be of any size from one byte.
* A mouse sends "until the byte budget is exhausted" (`traces.py:939`), but the
  number of packets is rounded down, so the partial last packet is normally not
  sent; `WithinBudget` asks of mice only that they do not exceed the budget. HAL
  flows are left out of it, since they send what a window grants them
  (`WindowShare`).
* The sizes of the mixes and of CSV rows are not compared with the MTU: the
  default profile has packets of 1518 bytes (`config.py:186`), the default MTU
  is 1500 (`config.py:206`). `TimelinesPaced` asks only sources that cut bytes
  into packets to keep to it.
* The drops of bins after a domain's last epoch stay in its accumulator and
  reach no row; `DropsAccounted` counts them there.
* Only the greedy loop tests a queue against its limit; the one-shot pass may
  overshoot. `NeverOverfilled` speaks of the greedy names only: with the other
  policies the loads it reads do not change.
* A HAL flow's packets are spread over the whole window, also past the flow's
  own `end_ns`.
* Released packets bypass the shared link, and no transit is shorter than 100
  ns.
* Nothing calls `OraclePredictor.set_truth`, so the oracle predicts zeros.
* In the first `W - 1` epochs the window of the TCN is padded with zeros, which
  no window of the training set is, although `predictors/tcn.py:160` says that
  the padding keeps the first outputs statistically consistent with training.
  `WindowsAligned` asks of these windows only that they are so padded.
* The tail of a skewed table is meant to be non-zero, but with few buckets a
  queue's count can be rounded to zero.
* `one_to_one` wraps around when there are more queues than cores; `block`
  may leave cores idle.
* Deficit round robin charges a domain before its shares are scaled down, keeps
  adding to the deficit of an idle domain in overloaded bins, and may leave
  capacity unused. `DrrEntitlement` states what holds nevertheless.
* The greedy loop may move a bucket back and forth, so the moves it logs can
  exceed the entries that changed.
* A negative `epoch_bins` is taken as given in one place (`or`) and falls back
  to the default in another (`<= 0`).
* The EWMA predictor divides a rate in bytes per second by 100e9.

## 5. Proofs

`tlapm` proves, for every value of the constants that meets the named
assumptions (finite sets, positive sizes, thresholds in order):

* **FiniteSums** - what the others need about data. The library's induction
  rules have an operator for a parameter and cannot be used; with the predicate
  given as a set they can, and `Induction` (naturals) and `FiniteInduction`
  (finite sets) are proved from the well-foundedness of the naturals. On them
  rest the lemmas about `SumFunctionOnSet`: it is the value at any element plus
  the sum of the rest (`SumRemove`), follows a change at one point, is additive,
  monotone, splits over disjoint sets, and telescopes. The models therefore
  state their sums with `SumFunctionOnSet` and `SumFunction`. Sums over pairs
  give the inequality behind Jain's index (`JainBounds`) and the identity
  between the sum over ranks and the mean difference, Gini's (`GiniFromRanks`);
  `ApartFromAll` says when that difference is largest.
  For the same reason sorting and selecting are written with `Place`, the
  element that has a given number of others before it, and not with `SortSeq`
  and `SelectSeq`; that there is exactly one such element, and that the result
  rises (`SortedRises`), is proved here. TLC and the proofs use the same
  definitions.
* **StatefulDeliveryProofs** - first the safety properties of the protocol
  alone. `Inductive` conjoins them with `Boundary`, because they need each
  other: `issue` never raises since a bucket in transition is mapped to its
  source (`SourceStillOwner`) whose flag is up (`FlagsExact`); clearing both
  flags of a finished handoff keeps the flags exact only since handoffs are
  disjoint; and a commit cannot move a bucket under a handoff since the finished
  and the pending are different buckets (`Boundary`). From it follow
  `TableSafe`, that the table changes only by commits, `Refinement`, that every
  behaviour is one of Migration, and `ReleasesAlwaysSeparate`, for which the
  finished handoffs are shown to have been disjoint while they were pending.

  Then the composition. `ProtocolKept`: with packets added, the protocol still
  runs as Handoff specifies, so each of its theorems carries over.
  `DeliveryInductive` is the invariant of the packets: `BufferInductive`, a
  buffer holds what its handoff counts, and `DeliveryKept`, whose parts are
  types, `Withheld` (a bucket in transition has nothing left to be delivered,
  nor has any at a boundary), `PacketsConserved` and `NumbersInOrder`. The order
  in the rings is not inductive by itself: a release appends a buffer to a ring
  that may hold packets of the bucket, so what is buffered must be in order and
  younger than everything of its bucket in any ring. From it follow
  `BuffersMatch`, `PacketsAlwaysConserved`, `RingsAlwaysInOrder` and, with
  `Withheld`, `NoDeliveryWhileInTransition`.
* **QueuePipelineProofs** - credits conserved, FIFO, nothing overdue, balance.
  Conservation needs FIFO: since return times of admitted packets are strictly
  increasing, a new return never coincides with an old one.
  `QueueImplementsRing` shows that the queue, with its heap and times, refines
  Ring: sorted by return time, the packets of the heap are the last ones
  admitted, without a gap (`Consecutive`), so what an advance returns is a
  prefix.
* **DataPathProofs** - of the link: serial wire, bounded backlog and line rate;
  the strengthening is that the accepted work fits before `busy_until`. The
  three together are `LinkSound`; `AdvanceHarmless` shows that the clamp at the
  end of a bin does not change the time at which any later packet starts.

  Then the data path. `LinkUsedInOrder`: every behaviour of the data path is,
  on the variables of the link, one of PCIeLink, so the theorems about the
  link hold inside it. What has to be shown is that the link never goes back in
  time, although two domains feed it: the invariant `Calls` says that the
  link has not passed the time of a packet still to come nor the start of a bin.

  `LedgerAlwaysKept` is the invariant of the counting. Per domain: what is
  recorded, counted in the running bin, still on its way and lost adds up to
  what was generated, for packets and bytes (`Balanced`); free descriptors
  change from bin to bin by what returned and what was admitted (`Connected`,
  `Descriptors`), which leaves out the time between two epochs, when a release
  may take some; rows of bins to come are empty (`Unrecorded`), and every
  admission has left a sample (`Sampled`). `LinkCounts` compares queues and link
  within a bin, and `Progress` places the boundary of each domain. A boundary
  changes the table only when no packet of the bin is left, which is why the
  sums over the buckets of a queue may be taken with the table of the moment.
  From it follow `PacketsAlwaysCountedOnce`, `GrowthAlwaysMatches` by
  telescoping the descriptors, and `PressureNeverClipped`: occupancy and growth
  are at most the depth of the ring, and drops at most what was offered.

  `QueuesAlwaysPipelines` is the refinement: whatever a step does to a queue,
  among the packets of all others and of both domains, QueuePipeline does to a
  queue alone, or nothing happens to it (`StepFollows`); so each queue, seen
  alone, behaves as QueuePipeline (`EachQueueImplements`). Most of a step is an
  equality of two ways to write it, but the guards of QueuePipeline have to be
  met too: no time goes back, no packet comes after its bin, and no more packets
  come or are released than its bounds allow. `Driven` is the invariant for
  them. `OnTime`: a queue is at most at the start of the bin when one begins,
  and not past any packet to come; `Clock`: nor is the clock. `Buffers`: no
  buffer holds more than its capacity, so the average size with which a handoff
  releases is at most `LargestEntry`, the larger of that and a packet. `Room`:
  what the handoffs hold and what was released in this bin came in the bins so
  far. A bucket has one handoff at a time, so its packets are counted once, but
  a release and the records of its drops fall between two bins, where a counter
  may lag behind the record (`Since`). It is assumed that the transit of every
  size up to `LargestEntry` is known, that the largest batches of all bins
  together have no more than `MaxPkts` packets, so that the bound of the model
  never stands in the way of the code, and that rings are not empty and services
  take time, as in QueuePipeline.

  `RowsAlwaysMeaningful` is about the row an epoch leaves. Most of it holds for
  any data: the index made of ranks is the mean difference over twice the mean
  (`ImbalanceIsGini`), 0 for equal loads alone and (n - 1)/n exactly when one
  queue has everything (`ImbalanceInBounds`), fairness is between 1/n and 1 and
  is 1 for equal loads alone (`FairnessInBounds`), and a quantile between two
  samples is no larger than a higher one (`QuantilesInOrder`). What it needs of
  the behaviour is the invariant `Reported`: times and latencies are numbers,
  the log has one row for each epoch that ended, and no row has more admitted
  and dropped than generated, which at a boundary follows from the ledger
  (`RowClosed`). Ratios are exact here; the `eps` in the code's denominators is
  not modelled. A domain is assumed to have a queue, without which there is no
  initial table (`_skewed_weights` raises, the others take buckets modulo the
  queues).
* **EpochDriverProofs** - the index of a recorded bin is in range and every
  drop is in the log or in the accumulator. `CountersInRange`, the
  strengthening, tells a domain within its quota, whose counter is below the
  length of the epoch except between a bin and its boundary, from one past it.
  `EpochsAlwaysComplete` rests on `Complete`: the bins a domain has behind it
  are `epoch * epoch_bins + bin_in_epoch`, which gives the clock and every row
  of the present epoch, and with the bins that remain they reach its quota.
  `WindowsAlwaysAligned` keeps, for every epoch, the window shown before it as
  the padded end of the timeline as it was then (`Observed`). `RiskAlwaysSound`
  rests on `Averaged`, the closed form of the average with the powers of the
  smoothing factor, and for the linear fit on the closed forms of the sums of
  positions and squares, which make its denominator positive.
* **FrontEndProofs** - `SharesAlwaysWithinCap` and `EntitlementAlwaysKept`, for
  every policy, cap, weights and sequence of loads. Lemmas say of each policy
  that its shares divide the link; a ledger lemma says that what deficit round
  robin has paid and still owes is a domain's part of the overloaded bins.

  Then the layout. `DomainsAlwaysProvisioned` holds for every number of queues,
  buckets and cores: the invariant only says that a built domain is what the
  functions make of its configuration, and the rest is about them. The
  buckets of a residue class are counted (`ResidueCount`), for a modulo table
  and for the queues of a core. A skewed table rests on
  `CorrectedAtHottest`: the rounded weights exceed the buckets by so little
  that the hottest queue stays the largest while the surplus is taken from it,
  one bucket at a time, and so no other queue is ever corrected; and on
  `RunsOfBuckets`, that each queue then gets as many buckets as its count. For
  the transits, the line through the measurements hits each of them
  (`MeasuredAgain`) and does not fall if they do not (`InterpolationGrows`).
  The sizes of the table of round trips must be in order, as np.interp asks and
  the table of `config.py` has them; that round trips grow with the size is a
  premise of the property itself, since they are whatever was measured.
* **StatelessSchedulerProofs** - with whatever name the scheduler is made, no
  queue is filled past the limit and no more buckets change than are reported
  or than the cap allows; and the one-shot pass moves at most one bucket to and
  from a queue. For the greedy loop the strengthening keeps hot and cold sets
  within the current thresholds, so that the two queues of a move differ, which
  also is what `GreedyAlwaysTracksLoads` needs: its loads stay the sums over the
  table because a move adds to one queue what it takes from another. For
  the one-shot pass it is `Pass`: a queue not visited has lost no bucket, one
  that is still free has gained none.
* **TraceReplayProofs** - everything the runs of TraceReplay check, for every
  workload, any draws, any number of flows, windows and bins. `Ready`, the
  inductive invariant, has three parts. `SourcesReady`: the flows made so far
  fit what they were to send (`Fits`: paced and within the budget), and so does
  the timeline in the making, whose next message cannot begin before the last
  one has been sent. Its steps rest on lemmas about single timelines: a message
  has its size to the last whole byte and its packets a gap apart
  (`MessageSizes`, `MessageTimeline`), appending one keeps both (`NextMessage`),
  a constant rate stays sorted before the horizon whatever the jitter
  (`CbrTimeline`), and a budget cut at a half byte is met exactly
  (`TrimmedTimeline`). `HalReady`: a class lists each of its flows once and
  within the cap. `ReplayReady`: a cursor is past exactly the packets of the
  bins before, which a pull and a shift of the pattern keep.

  `TimelinesAlwaysPaced` and `AlwaysWithinBudget` are read off the first part.
  `WindowsAlwaysShared` is about a step: the shares of a window, each rounded
  down, add up to at most the target and miss it by less than a unit for each
  flow (`RoundedShares`), and the flows of the class are distinct, so the sum
  over all flows is the sum over them (`WindowReleases`). `BatchAlwaysExact`:
  the packets between two positions of a cursor are those that the times of the
  bin select (`PulledPackets`), and past the horizon none are left, so the bins
  that run on for the other domain get nothing. `BucketAlwaysMatchesTuple`: each
  flow is in the bucket of its present tuple, from materialisation through every
  shift.

Some facts are proved without being a property of a run: `BoundedConcurrency`
and `TableChangesOnlyByCommit` (the run sees both through Migration),
`SeparateReleases`, `FifoService`, `NothingOverdue` and `ChangesBounded`, and
the inductive invariants with the types they rest on.

Every assumption is an `ASSUME` of the component's module and is evaluated by
TLC in the runs of that module.

## 6. Only model-checked

Liveness (`CommitsInTime`, `Terminates`) and anything with fairness: out of the
prover's reach. Every invariant and every action property the runs check is also
a theorem.

## 7. Not modelled

* The distributions (`imc17_cdf.py`, `workload_cdfs.py`) are sets of outcomes in
  the models, and so are the results of calibrating rates, time scales and think
  times against a target. A trace that mixes sources is the union of the flows
  of each; a run of the model has one source.
* The Toeplitz hash is a pure function; the models let a flow be in any bucket.
* The TCN is a network of learned weights; only what it is shown is modelled.
* Means and deviations over queues and epochs in the summary, and the trace of
  buckets, which copies the table.
* Reading and merging YAML, plotting, the scripts (generation of configurations
  and data sets, training, experiment drivers) and the tests.
* In DataPath a domain that is disabled; the driver's side of it is in
  EpochDriver, the arbiter's in FrontEnd.
* By how much the greedy loop lowers and raises hotness in a move.

Floating-point rounding is abstracted everywhere: times and bytes are integers,
with time in ticks fine enough for a byte on the link, and ratios are kept as
numerator and denominator.

## 8. Plan

The protocol and the paths of its packets came first (Handoff, Migration,
StatefulDelivery), then the resources they use (QueuePipeline, Ring, PCIeLink),
the loop that drives them (EpochDriver), the schedulers, the traces that feed
it all, the composition of the data path with its telemetry, and the front end;
then the proofs of their invariants. What is left, in this order:

1. DataPath with a domain disabled, and with the protocol of Handoff in place of
   handoffs that begin and end at will.
