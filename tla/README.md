# TLA+ models of Derecho's view management and ragged-edge cleanup

This directory holds TLA+ models of the Derecho core under `src/derecho/`:
- the group membership service (GMS) in `view_manager.cpp`;
- the multicast engine, whose implementation sits in `rpc_manager.h` from line 331 on.

It also holds the TLC configurations that check those models. `PROJECT.json` lists the following, in machine-readable form:
- every component;
- every run;
- the mutants that show each checked property can fail;
- the source lines each definition translates;
- the findings;
- the hazards: what is hard to test in this code.

## 1. The system

| Part | Source | State | Operations |
|---|---|---|---|
| Shared Status Table (SST) | library, not in `src/` (spec 4.1) | one row per member; each member writes only its own row and reads copies of the others | `put` (FIFO per peer), `put_with_completion`, `sync_with_members`, `freeze(row)`, a single predicate thread that runs triggers |
| GMS steady state | `view_manager.cpp` `register_predicates`, `new_suspicion`, `leader_start_join`/`receive_join`, `redirect_join_attempt`, `leader_commit_change`, `acknowledge_proposed_change`, `report_failure`, `leave` | columns `suspected`, `rip`, `wedged`, `changes`, `num_changes`, `num_acked`, `num_committed`, `num_installed`; local `failed[]`, `num_failed`, `last_suspected` | the predicates suspected-changed, start-join, reject-join, commit-change, ack-proposed and leader-committed |
| Epoch termination | `start_meta_wedge`, `terminate_epoch`, `make_next_view`, the drain of the SMC (small-message ring) | one-time predicates chained one after another | meta-wedge, next-view computation (with a retry while the next view is inadequate), drain, ragged-edge cleanup, persistence barrier |
| Ragged-edge cleanup | `leader_ragged_edge_cleanup`, `follower_ragged_edge_cleanup`, `deliver_in_order`; `deliver_messages_upto` in `rpc_manager.h` | columns `global_min[S]`, `global_min_ready`, `delivered_num` | leader: inherit the trim or compute its min, then put it; follower: wait, copy, put; then deliver up to the trim |
| View installation | `finish_view_change`, `transition_multicast_group`, `old_shard_leaders_by_new_ids`, `send_objects_to_new_members` | next view, new SST, new multicast group | commit joiners, rebuild the SST and the multicast group, re-register predicates, send state |
| Multicast engine | `rpc_manager.h` `MulticastGroup` | `num_received`, `seq_num`, `delivered_num`, `persisted_num`; locally stable messages; send queues; flow-control window | send (RDMC for large messages, SST ring for small ones), receive handlers, null sends, `resolve_num_received`, `delivery_trigger`, `wedge`, `send_loop`, `get_sendbuffer_ptr` |
| Initial formation and joins | `ViewManager` constructors, `receive_configuration`, `await_first_view` | TCP sockets, the proposed first view | redirect and retry, and a two-phase commit with the joiners that removes a joiner that fails |
| RPC result plumbing | `multicast_group.h` `PendingResults`, `QueryResults` | `map_fulfilled`, `dest_nodes`, `responded_nodes`, `reply_promises`, the promise and future of the reply map | `fulfill_map` on delivery, `set_value` on a reply (P2P thread), `set_exception_for_removed_node` from `new_view_callback` (predicate thread), the caller's `wait`/`get` |
| Total restart | `await_rejoining_nodes`, `send_logs_if_total_restart`, `truncate_persistent_logs` | rejoiners' views and `RaggedTrim` logs | choose the longest log, truncate to the ragged trim |

How they interact:
- Every inter-node step goes through the SST. A member writes a cell and `put`s it, and a peer's predicate observes the new value.
- Each membership change passes through four counters in this order: proposed (`num_changes`), acknowledged (`num_acked`), committed (`num_committed`), installed (`num_installed`). The leader is the lowest-ranked member that is not failed.
- Once a change is committed, every member wedges its multicast engine and waits until all non-failed members are wedged (*meta-wedged*).
- Then, for every shard:
  - the shard leader fixes the *ragged trim*, the number of messages of each sender that the dying view delivers;
  - it publishes the trim, and everyone delivers up to it;
  - everyone waits until all non-failed shard members have persisted what they delivered;
  - the next view is installed.

The behaviours that make this hard:
- Every SST cell is read by a peer at an arbitrary moment after it is written.
- Suspicions spread one row at a time.
- A node can be falsely suspected and keep running.
- A crash can happen between two puts.
- A member's view of who the leader is comes from its own `failed[]`, which lags the suspicions of the others.

## 2. Modules

### RaggedEdge (`RaggedEdge.tla`, instance `MC_RaggedEdge.tla`)

This module models epoch termination from the meta-wedge onwards for one shard that holds every member of the view. Members are `1..N` in rank order, and senders are the ranks `0..S-1`.

State:

| Variable | Code |
|---|---|
| `phase[i]` | the one-time predicate node `i` waits on: `MetaWedged` is `is_meta_wedged`, `GlobalMinWait` is `leader_global_mins_are_ready`, `PersistWait` is `persistence_finished_pred`. `Installed` means `finish_view_change` ran. Otherwise it records how the node stopped: `Crashed`, `Partitioned` (the `derecho_exception` of the partition rule) or `Missing` (the `out_of_range` thrown by `locally_stable_sst_messages.at`) |
| `failed[i]` | `Vc.failed`, which is also `last_suspected` and the set of rows frozen at `i` |
| `follower[i]` | whether `terminate_epoch` put the shard in `follower_subgroups_and_shards` |
| `sst[i][r]` | node `i`'s copy of row `r`, holding the columns `suspected`, `global_min`, `global_min_ready` and `persisted_num`. `sst[i][i].dnum` is `i`'s own `delivered_num` |
| `chan[r][i]` | puts of row `r` on their way to `i`, in order (SST puts are FIFO per peer) |
| `rcv[i]` | `num_received` after the drain. The drain ends with `put_with_completion` and `sync_with_members`, so every reader sees the final value |
| `dset[i]` | the messages `i` has delivered in this view |

Actions, one per trigger. Each runs atomically because the predicate thread serialises the triggers:
- `ReportFailure`: `report_failure`.
- `NewSuspicion`: `new_suspicion`, with both partition checks, freezing, and the put of the whole row.
- `TerminateEpoch`: `terminate_epoch`, which either runs leader cleanup (inherit a ready trim, else compute the min over non-failed members) or registers as a follower.
- `GlobalMinsReady`: the follower predicate and its continuation, with the shard leader recomputed from the current `failed[]`.
- `FinishViewChange`: the persistence barrier.
- `RaggedCleanup`: the part shared by both cleanups. It sets and puts `global_min`, then `global_min_ready`, then runs `deliver_messages_upto`.

The environment has four actions:
- `Persist`: the persistence manager, which is outside `src/`.
- `DeliverPut`: a put is written at the peer, unless the peer has frozen the row.
- `Crash`.
- `LosePuts`: writes a dead node posted but never completed are lost.

Initial states:
- every combination of drained `num_received`;
- every `delivered_num` that `delivery_trigger` could have reached in the steady state, i.e. at most the min over all members of `seq_num`.

### RaggedTrim (`RaggedTrim.tla`) and the refinement

`RaggedTrim` is the abstract specification of what the end of a view promises a shard (spec 4.5 and 8.1):
- one trim is decided, once;
- it covers every message any member delivered before;
- every member still running when it is decided has received it;
- each member delivers exactly the messages of the trim, and only then installs;
- a member may stop at any time.

`RaggedEdge` instantiates it with a refinement mapping:
- the decided trim is the `global_min` of the lowest-ranked member whose own `global_min_ready` is set;
- stopped members are those in a dead phase;
- installed members are those that ran `finish_view_change`.

`ImplementsRaggedTrim` checks `RT!SafeSpec` as a property.

### GMS (`GMS.tla`, instance `MC_GMS.tla`)

This module models the steady-state membership protocol of one view, from `view_manager.cpp`, up to the next view's membership. Members are the ranks `1..N` (a member's node id is its rank). Joiners are model values.

State:

| Variable | Code |
|---|---|
| `phase[i]` | which predicates `i` has registered (`Normal`, `MetaWedging`, `Inadequate`, `NextView`), or how it stopped: `Crashed`, `Left`, `Partitioned`, `OutOfRoom` (`new_suspicion`'s throw), `TooManyChanges` (`receive_join`'s throw), `Excluded`, `Overflow` (a write past `changes[]`) |
| `failed[i]` | `Vc.failed`, also `last_suspected` and the rows `i` froze |
| `row[i][r]` | `i`'s copy of row `r`: `suspected`, `wedged`, `rip`, `changes[0..K-1]` and the counters `num_changes`, `num_acked`, `num_committed` (`num_installed` is 0 in the modelled view) |
| `chan[r][i]` | puts of row `r` not yet written at `i`, in order |
| `pending[i]` | `pending_join_sockets` of `i` |
| `jtarget[j]` | the member joiner `j` connects to, or 0 once proposed |
| `steady[i]`, `saved[i]`, `next[i]` | whether the join, commit and ack predicates are registered; `curr_num_committed` kept by the retry; the next view's members |

There is one action per trigger: `ReportFailure`, `Leave`, `NewSuspicion` (partition rule, freeze, proposal by the leader), `LeaderStartJoin` (`receive_join` with its capacity check), `RedirectJoinAttempt`, `LeaderCommitChange`, `AcknowledgeProposedChange`, `StartMetaWedge`, `TerminateEpoch` (`make_next_view` and the adequacy test) and `RetryNextView`. The environment has `JoinerConnect`, `DeliverPut`, `Crash` and `LosePuts`.

`BatchPuts` selects how a trigger's puts arrive. With `FALSE` each put is written at a peer on its own, in order. With `TRUE` the puts of one trigger arrive together, the way one RDMA write of a contiguous row range does.

`report_failure` puts with an offset computed after its counting loop (the row length). It therefore republishes the first byte of `changes[]` and not the `suspected` cell, so in the model peers learn of a suspicion only from `new_suspicion`'s put.

### Multicast (`Multicast.tla`, instance `MC_Multicast.tla`)

This module models the ORDERED mode of `MulticastGroup` (`rpc_manager.h`) for one shard in one view. Members are `1..N` and senders are `1..S` (rank `s-1`). Message index `k` of sender `s` has sequence number `k*S + s-1`.

State:

| Variable | Code |
|---|---|
| `log[s]` | the messages `s` has sent, in index order: whether each is a null and whether it went by RDMC |
| `nsent[s]` | how many of `s`'s RDMC messages `send_loop` has handed to `rdmc::send` |
| `nrs[m][s]`, `nrr[m][s]` | SST ring messages, and RDMC messages, of `s` received at `m` (per-transport FIFO) |
| `rcv[m][s]` | the indices of `s` received at `m`; `num_received` is its contiguous prefix |
| `seqn[m]`, `dn[m]` | `seq_num` and `delivered_num` |
| `dlv[m]` | the sequence numbers delivered at `m` |
| `preq[m]`, `pn[m]` | the version last posted for persistence, and `persisted_num` |

Actions:
- `Send(s, t)`: `get_sendbuffer_ptr` and `send` on transport `t`. This includes the `delivered_num` window, the pool or ring slot, and the queueing. `send` holds `msg_state_mtx` throughout, so the action is atomic.
- `SendLoop(s)`: one iteration of `send_loop` once `should_send_to_subgroup` holds. That guard is the state predicate `ShouldSend(s)`: there is a pending RDMC message, the sender has itself received its earlier indices, and every member's `delivered_num` and `persisted_num` have reached the sender's message W places earlier.
- `ReceiveRdmc(m, s)`: the RDMC receive handler, with its null check and its `seq_num` update.
- `ReceiveSST(m)`: one pass of `receiver_function`. The ring messages are taken in batches, each with `sst_receive_handler` and its null sends. Then comes `seq_num` from the first sender with the fewest messages.
- `Deliver(m)`: `delivery_trigger`, with the version request of the last non-null message.
- `Persist(m)`: the persistence manager reaching the posted version.

`Version(q)` packs the view id above the sequence number. `VersionBase` stands for 2^32; it only has to exceed every sequence number the bounds reach.

Abstractions:
- SST puts of `num_received`, `seq_num`, `delivered_num` and `persisted_num` land at once. These counters are monotone and every reader compares them against a lower bound, so a stale copy only delays a step the model also allows later.
- The pool of `W * N` RDMC buffers is counted, not held: `InUse(m)` is the RDMC messages `m` sent or received and has not delivered.
- Null messages always use the SST ring. `sst_max_msg_size` is at least the header size, so the RDMC branch of `get_buffer_and_send_auto_null` is dead code.

### TotalOrder (`TotalOrder.tla`) and the refinement

`TotalOrder` is the abstract atomic multicast that an ORDERED subgroup promises within one view. It has three variables:
- `sent[s]` counts the application messages of sender `s`;
- `order` is the agreed total order of `<<sender, index>>` pairs;
- `delivered[m]` is the prefix of the order that member `m` has delivered.

`Order` appends a batch of sent messages in which each sender's messages keep their sending order. `Deliver(m)` extends `m`'s prefix, possibly by several messages.

`Multicast` defines the refinement mapping and instantiates `TO == INSTANCE TotalOrder WITH ...`:
- `sent` counts the non-null entries of `log`;
- `order` lists the application messages whose sequence number is at most the least `seq_num` of the shard, in sequence-number order;
- `delivered[m]` lists the application messages with sequence number at most `delivered_num`, in sequence-number order. Delivery is gap-free (`DeliveryInOrder`, checked in the same run), so these are exactly the messages in `dlv[m]`.

Null messages map to stuttering steps. TLC re-evaluates a substituted expression at every use, so the mapping is one linear recursion (`AppSeqFrom`). It carries a count per sender in place of recounting each sender's log. `SafeSpec` tests the stuttering disjunct before `Next`; the formula is the same. Most engine steps are receive steps that map to stuttering, and this ordering saves the enumeration of `Order`'s batches for them.

### SenderThread (`SenderThread.tla`, instance `MC_SenderThread.tla`)

This module composes `Multicast` with the way `send_loop` sleeps and is woken. Every member runs a sender thread, which holds `msg_state_mtx` except while it waits on `sender_cv`. `sender_cv.wait(lock, should_wake)` evaluates `should_wake` under the lock and, if it is false, releases the lock and blocks. A `notify_all` from a thread that does not hold the lock can fall between the two.

| Variable | Code |
|---|---|
| `thr[m]` | where `m`'s sender thread is: `run` (holds the lock, about to evaluate `should_wake`), `block` (found it false, not yet waiting), `sleep` (waiting, lock released), `woken` (notified, retaking the lock) |
| `nmd[s]` | `next_message_to_deliver`, the counter of the recurrent `sender_pred` |
| `missed[m]` | a notify reached `m` between its check and its wait |

Each action wraps a `Multicast` action with the lock and the notify of the code:
- `AppSend` is `send`, under the lock. It notifies for an RDMC message.
- `ReceiveHandlerPlusNotify` is the RDMC receive handler, under the lock, followed by `notify_all`.
- `ReceiverTrig` and `DeliveryTrigger` take the lock and notify nobody.
- `PersistenceThread` does not take the lock.
- `SenderSend`, `SenderCheck`, `SenderWait` and `SenderRelock` are the steps of `send_loop`.
- `SenderTrig` is `sender_trig`. Once every member's `delivered_num` and `persisted_num` reach message `next_message_to_deliver` of the sender, it notifies and increments the counter. It takes no lock. The constant `TrigLocks` models the alternative in which it holds `msg_state_mtx`.

### ResolveNumReceived (`ResolveNumReceived.tla`, used by `MC_Multicast.tla`)

This module holds pure operators, with no state. They model `resolve_num_received` as list surgery on `received_intervals`:
- `Back` walks back from the end.
- `Resolve` extends, opens, joins or merges intervals exactly as the code's `insert` and `erase` calls do.
- `InitialIntervals` is the list the constructor starts from.

The reference definitions are the canonical interval list of a received set (`IntervalList`) and its contiguous maximum (`ContigMax`). `Multicast` uses that reference in place of the list. `MC_Multicast` instantiates the module with `MaxIdx = 7` and checks the substitution inside the window run. The check covers every set of indices and every next index, and so every arrival order. It also checks that the engine's received sets stay inside that range and that its `num_received` is the reference value.

### RpcResults (`RpcResults.tla`, instance `MC_RpcResults.tla`)

The module models one query's `PendingResults<Ret>` and the caller's `QueryResults<Ret>`. Three threads reach the object:
- **The delivery (predicate) thread.** It calls `fulfill_map` (`FulfillMap`) when the query is delivered. At a view change it calls `set_exception_for_removed_node` (`RemoveNode`) through `new_view_callback`.
- **The P2P thread.** It handles each reply (`HandleReply`) with `set_value`.
- **The caller.** It moves the reply map out of `pending_rmap` (`WaitReplyMap`) and reads each node's future (`GetReply`).

The callers are in `rpc_manager.cpp`, which is not in this tree. `RPCManager` declares `p2p_connections_mutex` (`rpc_manager.h:67`). `new_view_callback` rebuilds the P2P connections that the reply path reads, so the model takes each handler as one step. The same callback drops a removed node's connection, together with any reply still on it. `SetOnce` is the set on a node's promise. A second set throws `std::future_error`, which `err` records. A node sends its reply (`SendReply`) only while it is still in the view.

### Extensions left open

These extensions would each need a model and a run of their own beside the twelve the project keeps. They are left open:

1. **ViewChange** would compose GMS with RaggedEdge, so that suspicions arriving during cleanup also drive proposals. It would be followed by `finish_view_change` and the counter reset of the installed view.
2. **Multicast, further**:
   - `wedge` and the transition constructor's replay of unsent messages;
   - a second subgroup for the round-robin of `send_loop`;
   - UNORDERED mode.
3. **FirstView** would model the two-phase commit of `await_first_view` with a failing joiner.

## 3. Runs

| Run | Module | cfg | Expect | Checks |
|---|---|---|---|---|
| `ragged_safety` | RaggedEdge | `RaggedEdge.cfg` | pass | `TypeOK`, `UniformAgreement`, `NoMissingMessage`, `ImplementsRaggedTrim` |
| `ragged_crash_mid_cleanup` | RaggedEdge | `RaggedEdge_crash.cfg` | violation | `InstallAgreement` |
| `ragged_false_suspicion` | RaggedEdge | `RaggedEdge_suspect.cfg` | violation | `InstallAgreement` |
| `ragged_liveness` | RaggedEdge | `RaggedEdge_live.cfg` | violation | `EpochTerminates` |
| `gms_failure` | GMS | `GMS.cfg` | pass | `TypeOK`, `CountersOrdered`, `ViewChangeCompletes` |
| `gms_join_regroup` | GMS | `GMS_join.cfg` | pass | `CountersOrdered` |
| `gms_leader_failover` | GMS | `GMS_failover.cfg` | violation | `NextViewAgreement` |
| `gms_changes_overflow` | GMS | `GMS_overflow.cfg` | violation | `ChangesWithinCapacity` |
| `multicast_window` | Multicast | `Multicast_window.cfg` | pass | `DeliveredIsStable`, `DeliveryInOrder`, `RingSlotsHeldUntilDelivered`, `AtMostOneRdmcInFlight`, `IntervalsExact`, `ReturnsContiguousPrefix`, `AllSentDelivered`, `ImplementsTotalOrder`, `PersistenceCatchesUp` |
| `multicast_persist_window` | Multicast | `Multicast_persist.cfg` | violation | `PersistWindow` |
| `sender_lost_wakeup` | SenderThread | `SenderThread_lost.cfg` | violation | `AllDelivered` |
| `rpc_results` | RpcResults | `RpcResults.cfg` | pass | `NoFutureError`, `CallerNeverBlocks` |

Every property of a pass run has a mutant in `PROJECT.json`: a plausible bug in the mapped code under which TLC, with the run's cfg, finds that property violated.

### RaggedEdge

`ragged_safety` sets `CrashDuringCleanup = FALSE` and `FalseSuspicion = FALSE`. In that setting up to two crashes are allowed before any member begins cleanup, and the failure detector reports them to the members at arbitrary later times. The first crash is the failure the view change is handling. A second crash makes the survivors abort under the partition rule, and the writes the dead member had posted are lost. Three properties hold:
- **`UniformAgreement`:** every message any member delivered, whether in the steady state or in cleanup, and whether that member is alive or dead, is delivered by every member that installs the next view.
- **`NoMissingMessage`:** no live member is handed a trim above what it received.
- **`ImplementsRaggedTrim`:** every step is a step of `RaggedTrim` under the mapping. The leader's trim is admissible when it is computed, the followers apply the same trim, `deliver_messages_upto` delivers exactly the trim's messages, and nobody installs before delivering it.

Each property has a mutant, a plausible bug that TLC then catches:
- `delivery_trigger` taking `max` instead of `min` breaks `UniformAgreement`;
- the leader's min loop skipping the last member breaks `NoMissingMessage`;
- the trim read as a count breaks `TypeOK`;
- `deliver_messages_upto` dropping its per-sender test against the trim (`DueMsgsNoTrimFilter`) breaks `ImplementsRaggedTrim`.

The three violation runs are findings, listed in `PROJECT.json`:

- **Crash in the middle of cleanup.** The leader's trim reaches one follower. The leader crashes before the trim reaches the other member, which becomes leader and computes a different trim. The two trims give the same `delivered_num`, so the persistence barrier lets both survivors install with different delivered sets.
- **False suspicion of the leader.** Two members lead with different trims, and the same thing happens.
- **Stall.** A follower that suspects the crashed shard leader only after `terminate_epoch` waits for its own `global_min_ready`. The view change never ends.

The two `InstallAgreement` runs start from the drain outcome that shows the disagreement: member 1 missed sender 0's only message. They do this through a state constraint (`WitnessRcv`), and the false-suspicion run also limits suspicion to member 2 suspecting member 1 (`WitnessSuspicion`). These constraints only prune the search. Without them TLC needs tens of minutes to reach the same depth.

### GMS

- **`gms_failure`** (three members, no joiner, one crash or leave). The counters stay ordered, `num_committed <= num_acked <= num_changes`, on every row and across leader changes. Every survivor computes the next view, whichever member fails, the leader included.
- **`gms_join_regroup`** (two members, one joiner, two slots). A leave makes the one-member view inadequate. `terminate_epoch` re-registers the join predicates, and the retry computes the view with the joiner.

Findings:
- **`gms_leader_failover`.** A leader that proposed a join leaves. Its successor proposes the removal in the same slot. `acknowledge_proposed_change` and `min_acked` compare counts only, so a follower's ack of the join counts as an ack of the removal. The removal commits, and two survivors build different next views from their own `changes[]`. Here `BatchPuts = TRUE`: the trace needs the successor's row to arrive whole.
- **`gms_changes_overflow`.** `receive_join` checks `num_changes - num_committed` against `changes.size()` but writes at `num_changes - num_installed`. After a committed removal leaves the next view inadequate, the next join writes one slot past `changes[]`. The state constraint `NoJoinBeforeMetaWedge` prunes joins taken between a leader's commit and its meta-wedge. The predicate thread runs `leader_committed_changes` in the same pass, so the join can only come from the inadequate-view path.

### Multicast

- **`multicast_window`** (N = 2, S = 2, window 2, two messages per sender on either transport, vid 0, where a version equals its sequence number). A sender's later SST message can overtake its earlier RDMC message, so indices arrive out of order and null messages fill the ring between application ones.
  - **`DeliveryInOrder`:** every member delivers exactly `0..delivered_num`.
  - **`DeliveredIsStable`:** a member delivers only what every member has received.
  - **`RingSlotsHeldUntilDelivered`:** a ring slot, null or not, is never rewritten before every member delivered the message in it. Null sends bypass `get_sendbuffer_ptr`'s window, and the receive handler keeps a pointer into the slot.
  - **`AtMostOneRdmcInFlight`:** `send_loop` never overwrites `current_sends`.
  - **`IntervalsExact`, `ReturnsContiguousPrefix`:** `resolve_num_received` keeps exactly the interval list of the received set and returns its contiguous prefix. This holds for every set of indices 0..7 and every next index. The engine's received sets lie in that range, and its `num_received` equals that prefix. TLC evaluates their constant part once.
  - **`AllSentDelivered`:** if the sender thread eventually hands every RDMC message to `rdmc::send`, every message sent is eventually delivered everywhere. `send_loop` sleeps on `sender_cv`, whose wake-up can be lost (see `sender_lost_wakeup`), so the model gives it no fairness and makes its progress the hypothesis. The rest of the path must deliver: the receive handlers, the null-send bounds (`<=` for a lower rank, `<` for a higher one, which must be exact) and `delivery_trigger`.
  - The persistence window at vid 0 is not checked here. At vid 0 a version equals its sequence number, so the property would only restate the guard of `should_send`. It is checked at vid 1, where it fails.
  - **`PersistenceCatchesUp`:** every member's `persisted_num` eventually reaches its `delivered_num` for good. `version_message` gives a null message no version, and `delivery_trigger` posts a version only for a batch with a non-null message. A delivered null could therefore leave the persistence barrier of `terminate_epoch` waiting forever. It does not happen within a view. A null is sent only to catch a sender up to an index that a later application message uses. So every delivered null is followed by a non-null message that becomes deliverable, and its version covers the null. The mutant that posts only for batches without nulls breaks the property. The end of a view, where a ragged trim may end on a null, is not covered.
  - **`ImplementsTotalOrder`:** every step is a step of `TotalOrder!SafeSpec` under the mapping. Once the least `seq_num` passes a message, the order can only grow at its end, and every member delivers a prefix of it. Only the safety part is checked, because `AllSentDelivered` already states the liveness. The run takes about two minutes, most of it for the three temporal properties.
- **`multicast_persist_window`** (finding). In a view with vid 1, `send_loop` and the sender predicate compare `persisted_num`, a version with the view id in its high 32 bits, with a bare sequence number. One persisted message therefore satisfies the check for every later one, and RDMC sends run ahead of persistence. `view_manager.cpp` unpacks the same field before comparing.

### SenderThread

- **`sender_lost_wakeup`** (finding; N = 2, one sender, window 1, two RDMC messages, vid 0). Every member's `delivered_num` and `persisted_num` reach the sender's message 0 while the sender thread sits between its check of `should_wake` and its wait. `sender_trig` notifies without the lock, so the notify is lost, and it then moves `next_message_to_deliver` on, so nothing repeats it. The persistence thread and `delivery_trigger` notify nobody. Message 1 stays in `pending_sends` and `AllDelivered` fails. The same configuration with `TrigLocks = TRUE` delivers every message.

### RpcResults

- **`rpc_results`** (two members). Each member may reply, be removed before or after its reply is handled, or never reply and be removed.
  - **`NoFutureError`:** no reply promise is set twice. Whichever of a node's reply and its removal comes first, the other does not set the promise again. The mutant that drops the `responded_nodes` test of `set_exception_for_removed_node` breaks it: a reply handled before the removal is followed by a second set.
  - **`CallerNeverBlocks`:** the caller's `ReplyMap::get` returns for every destination. A node that never replies must get its exception from its removal. The mutant that counts a reply still in flight as a response breaks it: the callback drops that reply and no exception is set.

## 4. Bounds and why they suffice

RaggedEdge:
- **`N = 3`:**
  - it is the smallest view with a leader and two followers that can disagree;
  - the partition rule, `num_failed >= (N+1)/2`, allows exactly one failure with three members, so a larger N would only add members in the same roles.
- **`S = 2` and `MaxIdx = 0`:** each sender has at most one message. That already distinguishes:
  - trims that differ in one sender;
  - trims with equal `delivered_num` and different sets (`[-1,0]` and `[0,0]`);
  - sequence numbers skipped by `deliver_messages_upto`.
- **`MaxCrashes`:** the pass run uses 2 and the crash-in-cleanup run uses 1. With three members the partition rule turns a second failure into an abort of every survivor, so a third crash adds nothing.

GMS:
- **N = 3 without joiners** has a leader and two followers, so a leader failure leaves two survivors to agree.
- **N = 2 with one joiner** makes a single leave produce an inadequate view (`MinMembers = 2`), which is the path that re-registers joins.
- **`K = 1` or `2` slots** reach a full `changes[]` with one join and one removal.
- Three members with a joiner do not finish within five minutes.

Multicast:
- **Window 2** with two messages per sender is the smallest setting in which an SST message overtakes an RDMC one and a ring of two slots wraps with nulls.
- **The pool is not exhausted at these bounds.** The pool holds `W * N` buffers, so filling it takes more RDMC messages than that: window 1, N = 2, three messages per sender. That instance (250 000 states) does not fit beside the refinement check in one run. The pool hazard is listed without a property.
- **Two senders** give both null-send bounds (lower and higher rank).
- **A member that never sends is not in the pass runs.** With N = 3 the pool check becomes vacuous, and liveness takes a minute.

SenderThread:
- **One sender, window 1, two RDMC messages** is the smallest setting in which `send_loop` must sleep on the persistence window and be woken by `sender_trig`.

RpcResults:
- **Two members** give a reply and a removal of the same node, and of different nodes, in every order. A third member adds only more of the same. The run has 140 states.

ResolveNumReceived:
- **`MaxIdx = 7`** gives every arrival order of eight indices. That covers extending, opening, joining and merging intervals, at both the list's end and its middle.

## 5. Fairness

- **Weak fairness on every GMS and RaggedEdge trigger:** the single predicate thread evaluates every registered predicate in a loop.
- **Weak fairness on `DeliverPut`:** the RDMA writes of a live member complete.
- **Weak fairness on `Persist`:** the persistence thread keeps up.
- **Weak fairness on reporting a dead member:** the failure detector is complete.
- **Joiners** keep connecting.
- **Nothing forces a false suspicion.**
- **Multicast:**
  - `Deliver` and `Persist` are weakly fair: the predicate thread and the persistence thread run.
  - `SendLoop` carries no fairness. `send_loop` sleeps on `sender_cv`, and a notify can be lost (`sender_lost_wakeup`). `AllSentDelivered` takes the sender's progress as its hypothesis instead.
  - `ReceiveRdmc` and `ReceiveSST` are weakly fair, written out as `<>[]guard => []<><<A>>_vars` with their own guard. RDMC completions arrive, and the SST predicate thread evaluates the receive predicate.
  - `Send` carries no fairness: the application may stop sending. `AllSentDelivered` is about what was sent.
- **RpcResults:** these steps are weakly fair:
  - `FulfillMap`, `HandleReply`, `WaitReplyMap` and `GetReply`, because the delivery thread, the P2P thread and the caller run;
  - `SendReply(n) \/ RemoveNode(n)`, because a member that does not reply is removed by a view change (the completeness of the failure detector).
- **SenderThread:** every thread's step is weakly fair, `sender_trig` included, because the predicate thread evaluates `sender_pred` in its loop. No notify is assumed to arrive. A thread that sleeps with nobody left to wake it stays asleep, because the code does not rely on spurious wakeups.

## 6. What is not modelled, and why

- **The SST library and the persistence manager** are not in `src/`. Their contract, taken from spec 4.1 and 6, is modelled where the protocol uses it: `DeliverPut`, `PostPuts` and `Persist`.
- **`delivered_num` puts** are left out of RaggedEdge, because no modelled step reads another member's `delivered_num`. The sender predicates that do are wedged.
- **Received but non-contiguous messages** are not modelled in RaggedEdge (Multicast has them): the locally stable map is taken to hold exactly the contiguous prefix `num_received`.
- **More than one subgroup or shard** is not modelled. The per-shard logic is the same, and the cross-subgroup hazard in the transition constructor is listed in `PROJECT.json`.
- **The void specialization of the RPC results, `toFulfillQueue` and `fulfilledList`** are not modelled: the void specialization has no replies, and the two queues are guarded by `pending_results_mutex`.
- **Total restart** is not modelled. The restart leader's state machine (`RestartLeaderState`: quorum, restart view, the longest log per shard) lives in `restart_state.cpp`, which is not in this tree. What `view_manager.cpp` keeps of it is the TCP retry loop and the disk truncation.
- **TCP state transfer, serialization, group construction, applications, build files and CI** carry no protocol state worth checking.
- **Multicast, outside ORDERED steady state.** These are not modelled:
  - UNORDERED mode;
  - `wedge` and the replay of unsent messages into the next view;
  - the round-robin of `send_loop` over several subgroups.
- **Versions at the end of a view.** RaggedEdge persists up to `delivered_num` and does not tell null messages apart. So the case where a ragged trim ends on a null, and `persistence_finished_pred` then waits on a version no null carries, is not checked. `PersistenceCatchesUp` covers the steady state only.
- **The stability-frontier thread** (`check_failures_loop`) works on wall-clock timestamps and is not modelled. It keeps the largest `persisted_num` of the shard where its name says least. This is listed as a hazard.
- **The `sender_cv` condition variable** is left out of `Multicast`, which gives `send_loop` no fairness. It is modelled in `SenderThread`. There the receive path that completes a sender's own SST message does not notify it, so at window 2 the thread waits for a later `sender_trig`. This is listed as a hazard: the check at window 2 with both transports reaches six million states and does not fit a run.
