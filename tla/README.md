# A verification of relaymon

relaymon keeps the service addresses of a graphite relay on a host as long as
the host can do its work. It watches systemd units and the clusters of
carbon-c-relay; when everything is well it configures a list of IP addresses on
an interface and runs `success_cmd`, when something is wrong it removes them
and runs `error_cmd`. Its job is to flap neither too easily nor too late, and
never to leave the addresses in a state that does not match what it believes.

This directory holds TLA+ models of its parts, TLC configurations, and proofs
that TLAPS checks. File and line references are to the repository's sources;
`PROJECT.json` maps every definition to the lines it stands for.

## The system

| component | code | state it keeps | operations |
|---|---|---|---|
| daemon loop | `cmd/relaymon/main.go` 219-366 | `status`, `stepStatus`, the reported state of each checker | a round of checks, the decision, going up or down, the pause |
| signal handler | `main.go` 123-135 | the context, `running` | cancel the context, then clear `running` |
| service checker | `pkg/systemd/service.go` | the process held, `failed`, `success`, `checked`, `status`, the events already reported | `Status`, `Metrics` |
| process information | `pkg/linuxproc`, `pkg/linuxstat` | none | open `/proc/<pid>/stat`, take the times, read |
| network checker | `pkg/carbonnetwork/network.go` | three counters, one metric per endpoint, the errors of each cluster | `Status`, `Cluster.Check` with a goroutine and a watcher per endpoint |
| interface configuration | `pkg/netconf/linuxnet.go` | none; the interface is shared with the rest of the host | list, add, delete |
| metric sender | `cmd/relaymon/metrics.go` | a bounded lock-free queue, `failed`, `running`, a connection | `Put`, the sending goroutine, `Stop` |
| carbon-c-relay parser | `pkg/carbon_c_relay` | `found`, the cluster being read | one line at a time; `clusterEndpoints` |
| configuration | `config/relaymon/config.go` | none | defaults, YAML, validation |
| evict mode | `main.go` 147-180 | none | `systemctl stop`, remove the addresses, `error_cmd` |
| wait-ip mode | `main.go` 182-217 | none | list the interface until every address was seen |
| error names | `pkg/neterror` | none | name an error for the log |

How they meet. The loop calls the checkers one after the other, in its own
goroutine; a service checker runs `systemctl` (10 s at most) and reads `/proc`,
which the kernel changes all the time; the network checker starts goroutines
for each endpoint and waits for all of them. The signal handler is the only
other goroutine that touches the loop, by the context and by `running`. The
interface is shared with whoever else configures it and outlives the daemon;
so do the addresses an earlier run has left there. Nothing else is persisted.

What is hard to test:

- `/proc` is read in three steps, between which a process can die and its pid
  can be used again;
- three counters are compared with three thresholds that are set independently,
  in two places that write the same arithmetic differently;
- goroutines send to a channel that the collector closes on its own account;
- a transition is a series of commands each of which can fail, in the middle of
  which the world, a signal or a restart can intervene, and `status` is written
  before the first and corrected after the last;
- going down and coming up again must both happen, and neither too early;
- the queue of metrics has no lock: while `Put` makes room, the sender takes
  from the other end;
- `relaymon -evict` and `relaymon -waitip` are processes of their own, beside a
  daemon that may outlive the time they give it.

`PROJECT.json` lists these hazards at the lines where they bite.

## The modules

```
Thresholds            the arithmetic of the counters
  Checker             abstract: what the loop expects of a checker
    CheckerHistory      + the history of results, the definition of "right"
      CheckerProofs
  ServiceChecker      a systemd unit and its machine; implements Checker
    ServiceHistory      + what the service really went through
      ServiceCheckerProofs
    System              the daemon over this checker; implements Relaymon
      SystemHistory       + the record of ServiceHistory
        MCSystem, SystemProofs
  NetworkChecker      clusters, goroutines, channel; implements Checker
    NetworkHistory      + what the endpoints took, call by call
      MCNetworkChecker, NetworkCheckerProofs
  Relaymon            the daemon over abstract checkers; implements Host
    MCRelaymon
    RelaymonHistory     + which way the daemon went and when
      MCRelaymonHistory, RelaymonProofs
Host                  abstract: what others see of the daemon
  Evict, WaitIp       the two other modes, each against a host
    Tools               both on one host
      MCTools, ToolsProofs
GraphiteQueue         the sender of metrics
  GraphiteQueueProofs
CarbonCRelay          the parser of carbon-c-relay's configuration
  MCCarbonCRelay, CarbonCRelayProofs
```

Two abstractions join the parts. `Relaymon` runs over checkers that take the
steps of `Checker`, and the two real checkers are shown to take no others; a
safety property of the loop therefore holds with the real checkers in place.
`System` does the composition for a service and shows it in one specification,
whose steps it maps to those of `Relaymon`. `Host` says what may happen to the
interface while the daemon lives and when it does not; `Relaymon` is shown to
implement it, and `Evict` and `WaitIp` run against a `Host`. What they promise
therefore holds beside the real daemon.

Operators named `Mut...` are wrong versions of the operator below them. No
specification uses them; replacing the right one by the wrong one makes a
property fail, which shows that the property looks where the mistake is.

### Thresholds and Checker

`Passed` and `Failing` are what a check does to the counters, `Verdict` the
state they amount to. The counters saturate at `MaxCount`, which is
`math.MaxInt32` in the code; the thresholds are any integers because
`LoadConfig` does not look at them. This is the arithmetic the loop relies on.
`service.go` and `network.go` each write it in statements of their own, so each
module translates its own statements (`Settle`, and in `NetworkChecker` also
`Losses`) and uses neither `Passed` and `Failing` nor `Verdict`; that they come to
the same is what the refinements show. `Checker` has an action for each way a call
of `Status` ends: `Pass`, `Fail`, `GiveUp`.

`CheckerHistory` adds the sequence of results since the checker last knew
nothing and defines the right answer from that sequence alone, without
counters: a failure is pending until `reset_count` successes in a row have
followed it. `ReportMatchesHistory` says the counters compute that.

### ServiceChecker

State: the machine (which process is behind each pid, and the main pid systemd
has on record), the fields of `systemd.ServiceChecker`, and where the current
call of `Status` stands.

| action | code |
|---|---|
| `Begin` | the choice between the held process and `systemctl`, 189-197 and 218 |
| `ServiceDown`, `ServiceUnknown`, `ServiceStarted` | what `ServiceState` makes of `systemctl`, 73-128 |
| `OpenStat`, `OpenFails`, `StatTimes`, `ReadFails`, `ReadStat` | the steps of `ProcInfo`, one action each |
| `NotExist` | the error that is `os.IsNotExist` |
| `GiveUp`, `Lost`, `Holding`, `Settle` | the early returns and the end of `Status` |
| `UnitStarts`, `UnitExits`, `OtherStarts`, `OtherExits` | the machine, between any two of these |

A process is its pid, its start time and whether it is the unit's (parent 1 and
the name systemd gave). Start times are never reused while anything remembers
them, so finitely many stand for ever-new ones: with two pids at most the two
processes, the held one and the opened one are known at a time.

Assumed of the kernel: the ctime of `/proc/<pid>` does not change while the
process lives, and reading a stat file whose process has gone fails with ESRCH.

`ServiceHistory` records, call by call, for how long the service has been down,
how long its process has lived and for how long no process has lived through
`reset_count` calls.

### NetworkChecker

`Cluster.Check` in full: a goroutine per endpoint (dial, write, close, send the
result), the watcher that closes a connection when the context is cancelled,
the buffered channel and its collector. A call goes through the clusters in
turn. The connection is a shared variable of writer and watcher. The four
writes of a metric are one step; a write may fail at any time, and must once
the watcher has closed the connection.

`NetworkHistory` records, from the connections alone, which endpoints took the
test metric in each call, and from that for how many calls in a row metrics
could or could not be relayed (`Serving`). `ReportFollowsEndpoints` compares the
reported state with this record, through answers in any order, the result of
each cluster, the outcome of the call, the counters and the thresholds.

### Relaymon

`pc` is where the loop stands: the pause, a check, the decision, listing the
interface, an ip command, the command, and `stopped`. Every ip command is an
action, so a signal, a restart or somebody else's change of the interface can
come between any two. An address carries its netmask. `Faults` says which of
these can happen, so that a property can be stated with exactly the faults it
survives: `unknown`, `list`, `ip` (an ip command fails or times out, having had
its effect or not), `cmd`, `foreignAdd`, `foreignDel`, `restart`.

`RelaymonHistory` records the last direction the daemon took and the rounds
since then.

### System

The loop of `Relaymon`, taken over by `D == INSTANCE Relaymon` action by action,
but for the checks: a check is a call of `Status` as `ServiceChecker` takes it,
from `Begin` to the return, with the machine moving in between. When the call
returns, `Check` counts its result as lines 251-263 do. `Restart` is a new
process of the daemon, with new counters and nothing in hand. The faults of the
interface and of the commands are left out here: no check sees them, and
`Relaymon` has them.

`StopClears` and `StartConfigures` are the purpose of the program, from one end
to the other: a unit that is gone for good loses its addresses for good, a unit
that is up for good gets them for good.

`SystemHistory` puts the record of `ServiceHistory` beside the daemon, call by
call, and says the same without "for good" and with numbers: `TroubleClears` and
`SteadyConfigures` compare the addresses at the end of a round with what the unit
went through, and not with what the checker made of it. A restart of the daemon
starts the record afresh, as it does the counters.

### Host, Evict, WaitIp and Tools

`Host` has the interface and whether the daemon lives. A living daemon may add
or remove any of its own addresses, one at a time, or end; a dead one does
nothing until it is started; others do what `Others` says.

| action | code |
|---|---|
| `StopDone`, `StopFails` | `systemctl stop` with its 20 seconds, 149-160: the second one leaves the daemon alive or not |
| `ListAddrs`, `ListFails`, `DelAddr`, `DelFails` | `IfaceAddrDel`, an action per ip command |
| `RunCommand`, `CommandFails` | `error_cmd` and the end, 169-180 |
| `Look`, `LookFails` | a listing for one address, 189-199 |
| `PassEnds`, `Wake`, `Elapse` | the end of a pass, the sleep, the time limit, 200-216 |

An evict may exit with zero only if nothing went wrong; `EvictedMeansGone` says
what that is worth. `undone` records that somebody started the daemon or added
an address after the stop: the promise ends there. `lost` and `came` record what
happened to the interface during the pass of a wait, because the exit code
speaks of the pass and not of one moment. The tool compares IPs without their
netmask, so the instance has one address twice with different netmasks.

### GraphiteQueue

`Put` is three actions (the first try, each of the two `Get`s that make room,
the second try), and the sending goroutine is one action per turn of its state
machine: `Continue` (is the batch to be sent?), `Connect`, `Send`, `Get`,
`GetNothing`. A metric is its number. The connection is open, closing (the
relay has gone, and the first write may still succeed into the void) or broken.
The queue itself (an external package) is an atomic bounded FIFO, which is what
its operations promise. The main program ends after `Stop` whatever the
goroutine still holds.

### CarbonCRelay

The file is a sequence of statements, each of which the operator lays out in
one of three ways: a block whose `;` has a line of its own, a block closed on
its last line, all on one line. The parser's state is `found`, the fields so
far and the clusters so far, and one action reads one line. `Words` is the loop
of `clusterEndpoints`, with its lists of words to skip, to skip with their value
and to stop at. The grammar that says what a statement means is taken from the
comment at the top of `carbon-c-relay-test.conf`: `ClusterGrammar` says which fields a
cluster has and in what order, and `GrammarAssumption` that every statement keeps
to it. An option without its value, or a cluster
that lists nothing, is not carbon-c-relay's language and is left out. What
a statement means is read off its positions (`HostsAmong`), by no loop.

## The runs

| run | properties | what it shows |
|---|---|---|
| `checker_history` | `ReportMatchesHistory` `ErrorIsSticky` | counters and history agree on every sequence of up to 10 results |
| `service` | `TypeOK` `SuccessMeansHeld` `OutageReported` `CrashLoopReported` `AdoptsOnlyTheUnit` `NoFalseAlarm` `ChecksLikeAChecker` | no foreign process is adopted, no living one charged, an outage and a crash loop are noticed however they fall between the checks, in any interleaving with the machine |
| `service_gone` | `GoneIsNotUnknown` fails | finding, below |
| `network` | `ChannelIsOpen` `OutcomeMatchesMetrics` `ReportFollowsEndpoints` `EveryCallReturns` `NoSuccessOnceCancelled` | no send on a closed channel, no call that hangs, outcome and metrics agree, what is reported follows the endpoints over several calls, cancelling never looks like success |
| `relaymon_up` | `ActsForAReason` `SuccessMeansConfigured` `ShutdownCompletes` `Recovers` `UpHolds` `DownHolds` `ImplementsHost` | with every fault but foreign removal: content means configured; at least `fail_count` rounds before going down, `reset_count` before coming up; a signal ends the daemon; when trouble ends it comes up by itself; it removes no address but its own, and none once it has ended |
| `relaymon_down` | `DownWhenUnhealthy` `Drains` `ImplementsHost` | no address stays up while a checker reports an error; the daemon adds no address but its own, and none once it has ended |
| `relaymon_cmd_fails` | `DownWhenUnhealthy` fails | finding, below |
| `system` | `TroubleClears` `SteadyConfigures` `ImplementsRelaymon` `UpWithAProcess` `StopClears` `StartConfigures` | nothing is lost in the abstraction of the checker; the addresses follow the unit: a unit that was down for `fail_count` calls, or had no process that lived through `reset_count` of the last `fail_count * reset_count`, has none left when the round is over, one whose process has lived through more than `reset_count` has them all |
| `carbon_c_relay` | `ClustersAsWritten` `BeginsAsWritten` | files in the layout of the examples are read as they are meant; in any layout the clusters begin as they are written |
| `carbon_c_relay_required` | `RequiredIsChecked` fails | finding, below |
| `sender` | `TypeOK` `NothingLost` `InOrder` `Delivers` | only what was dropped is lost, nothing is sent twice or out of order, and in the end everything is sent |
| `tools` | `EvictedMeansGone` `UpUnlessLost` `DownUnlessCame` `WaitEnds` | what the exit codes say is true, however the daemon and others interfere |

The largest are `relaymon_down` (about 779 000 distinct states), `tools`
(611 000), `system` (461 000) and `relaymon_up` (188 000).

`ImplementsHost` is checked in two runs because others who may add an address
would also account for one the daemon adds, and likewise for removing. In
`relaymon_up` others only add, so every removal must be the daemon's; in
`relaymon_down` others only remove, so every addition must be. Both have an address on the
interface list of the host that is not the daemon's (`other1`).

### Findings

- **A process that dies inside `ProcInfo` is "unknown", not gone** (`service_gone`).
  `ProcInfo` opens `/proc/<pid>/stat`, takes the times and reads. When the
  process ends after the open, the read fails with ESRCH, which
  `os.IsNotExist` does not recognise; `Status` then returns `UnknownState` and
  zeroes its counters instead of charging the exit (`service.go:231-242` for the
  process systemctl has just named, the path of the trace; 198-203 for one held).
  `process_test.go:72` demands `os.IsNotExist` of a process that is not there.
- **Addresses stay up after a failed `success_cmd`** (`relaymon_cmd_fails`).
  The failure sets `status` to error with the addresses configured; when the
  checks fail next, nothing has changed for line 298, so they are not removed
  and `error_cmd` is not run. `relaymon.yml:18` promises addresses that are
  "up/down on success/failure". The rounds of success in between retry the
  command; the outage has to follow before one of them succeeds.
- **A cluster on one line swallows the next** (`carbon_c_relay_required`). On the
  first line of a statement the loop over the fields stops at `;`, and `found` is
  set all the same (`carbon_c_relay.go:116-121`). The lines that follow are read
  as more endpoints, and a required cluster among them is never checked, which
  `relaymon.yml:28` says must succeed. `WellLaid` in `ClustersAsWritten` names the
  layouts in which this does not happen.

### What else the models show

- The metric of a service lags behind its state. When the exit of the held process
  cannot be checked, `service.go:203` returns `UnknownState` without storing it in
  `s.status`, as the two other returns of `UnknownState` do (223, 241), so
  `Metrics` goes on publishing the state of the call before. This disagrees with
  `service_test.go:150-152`, which compares the metric with the returned state
  after every call but has no case in which the probe fails. `ServiceChecker` has
  both as variables: TLC, asked for the invariant `status = report` in the
  instance of `service_gone` with `Glitches = {"open"}`, refutes it in nine states.
  No property excepts the return from the rule, and no run keeps the question: the
  loop decides by the returned state.
- A send that fails while `failed` is still set, from an earlier connect or
  send, does not close the connection (`metrics.go:86-92`); the next one uses it
  again, in vain, for ever. It takes a failed connect, a successful one and a relay
  that goes before the first send. `Delivers` excludes it in its premise and fails
  without.
- What is in the queue and in the batch at `Stop` is never sent.
- Exit code 0 of `-waitip` does not say that the addresses were ever up
  together: each has a listing of its own. It does not look at netmasks either.
- A host after the `proto` of another is not checked: the word ends the endpoints.

### Bounds, and why they are enough

- Thresholds of 2 or 3 tell a first failure from a last one and a streak from a
  single success. The thresholds that share a run differ where a property could
  confuse them (`checker_history`: 3, 4 and 2). `MaxCount` is at least each
  threshold, as in the code, and small, so that every run goes past the
  saturation.
- `relaymon_up` and `relaymon_down` have thresholds of 3/3/3 and 2/3/2, so that
  streaks of checks overlap with transitions that take several rounds.
- Histories of 10 results (`MaxHistory`) contain every overlap of check_count,
  fail_count and reset_count at these values, twice.
- Two pids are what reuse takes: one that is freed and used again, and one for
  the unit meanwhile. Four start times cover the four processes that can be
  remembered at once; `system` and `service_gone` make do with three.
- Three clusters, one of them with two endpoints and one required: a cluster
  before and after a required one, and two goroutines that race. The thresholds
  of `network` are 3, 2 and 2, and calls in a row are counted up to 3, so that
  both premises of `ReportFollowsEndpoints` come true and go past saturation.
- One or two services and the network checker; two addresses, or two of which
  one is listed twice, and a foreign one that the daemon must leave alone. Two are enough for one to fail and the other not; a
  third goes through the same steps as the second.
- `MaxCalls`, `MaxRounds`: at least the largest count a property compares with;
  `relaymon_down` has no property on rounds and counts none (`MaxRounds` 0).
- `system`: one unit, two pids, one address. One unit suffices to compare a real
  checker with the abstract one; several are in `Relaymon`. The counters reach 3 and calls are counted up to 4, one more than `reset_count`
  and as many as `fail_count * reset_count`, so that the premises of both
  invariants come true. `systemctl` may fail but does not take longer than 10
  seconds: a unit whose `systemctl` is too slow counts as down while it is up.
- `sender`: a queue of three and batches of two, so that a `Put` that drops two
  leaves one, and seven metrics, enough to fill queue and batch and then
  overflow, or to overflow twice while the goroutine sleeps.
- `carbon_c_relay`: files of up to three of five statements (a plain cluster, a
  required one with an option and its value, one with a host after a protocol, a
  file cluster, a rule that is no cluster), each in three layouts. A fault of the
  parser reaches from a statement to the next; three show what follows that.
- `tools`: two IPs, and one of them with another netmask as well. The properties
  speak of one address each; the second is what can happen meanwhile.

`CHECK_DEADLOCK` is turned off in the two configurations of `CarbonCRelay` only:
`Clusters` returns. Everywhere else something can always happen (a daemon that
has shut down can be started again).

### Fairness

- `ServiceChecker`: `WF(Status)`. The loop calls `Status` in every round and
  `systemctl` is killed after 10 seconds, so a call that can go on does. The
  machine gets no fairness: a service may never start.
- `NetworkChecker`, `NetworkHistory`: `WF` for the collector and for each goroutine; a dial ends
  with `net_timeout`, a write of a few bytes does not block. The watcher gets
  none, and the context need never be cancelled.
- `Relaymon`: `WF(Loop)`, because every call in it has a time limit (10 s,
  `net_timeout`, 180 s, 20 s), and `WF(Stop)` for the handler. Which way a check
  ends, whether a command fails, signals, restarts and foreign changes get none.
  The limit of `execute` kills `sh` only; a command that leaves a process behind
  which keeps the pipe open defeats it (listed under the hazards). The fairness
  assumes that commands are not like that.

- `System`, `SystemHistory`: `WF` for the loop, checks and all, and `WF` for the
  handler, for the same reasons.
- `GraphiteQueue`: `WF(Sender)`. The goroutine runs in a loop with a sleep, and a
  connect or a write ends. The relay and the daemon's loop get none.
- `Tools`: `WF(WaitStep)` and `WF(Elapse)`: the waiting tool runs and time passes.
  The daemon and the evicting tool get none.

The premises of `Recovers`, `StopClears`, `StartConfigures` and `Delivers` are
written out in the formulas: they say from when on the trouble must be over.

## What is proved

All theorems hold for every value of the constants that satisfies the named
assumptions of the modules: any thresholds, any number of pids, services,
clusters, endpoints and addresses, any capacity of the queue and size of a batch,
any number of statements with any number of fields.

| theorem | argument |
|---|---|
| `CheckerTypeOK`, `CheckerErrorIsSticky` | `Inv`: types, and the report is the verdict of the counters unless they are fresh. Stickiness needs it: from an error the counters say `failed >= FailCount`, a failure only raises `failed`, a success leaves it or clears it |
| `CheckerReportMatchesHistory` | `HistoryInv`: each counter is the saturated value of a number read off the history: the results, the pending failures, the last successes in a row. A success that does not complete a streak leaves the pending failures as they are, because the streak is cut off by a failure; one that does leaves none; a failure adds itself. Assumes that no threshold is beyond the counters' limit |
| `ServiceTypeOK`, `ServiceSuccessMeansHeld` | `IInv`: types, what each control point knows (target, opened, start), and that a process given up has left a pending failure |
| `ServiceAdoptsOnlyTheUnit` | the opened process, once the start time is read and it is still there, has been there all along, so the start time is its own: a pid cannot be used again without `opened` disappearing for good, because start times are not given out twice while they are remembered |
| `ServiceNoFalseAlarm` | from the same invariant: while the held process lives, its pid is its own, and a probe of it can find nothing else |
| `ServiceChecksLikeAChecker` | every action that ends a call is `Pass`, `Fail` or `GiveUp` under the mapping, every other one a stutter; `Settle` and `Verdict` write the same arithmetic in two ways |
| `ServiceOutageReported` | `OwnInv`: only the main process is the unit's, and what is held is its own or dead. `OutageInv`: a unit that is down is charged with a failure at the end of every call, whichever of the two checks it made, so `downFor` never runs ahead of `failed`. Assumes `fail_count` from 1 to the counters' limit |
| `ServiceCrashLoopReported` | `CrashInv` over `OwnInv`: a streak of successes is no longer than the life of the process in hand, so `success < reset_count` while there is no rest, the failures are never forgiven, and `restless <= failed * reset_count + success`: a crash costs `reset_count` calls at most and leaves one more failure. Assumes `fail_count` and `reset_count` from 1 to the counters' limit |
| `NetworkChecksLikeAChecker` | every step inside a call leaves counters and report alone, and the one that ends it moves them once (`SettleIsCheck`): the tests of `network.go` (is there a failure to forgive, `failed > 0` before `failed >= failCount`) come to those of `Checker` on counters in their range, which is why it needs `NetworkTypeOK`'s invariant. Whatever the clusters, including none at all |
| `NetworkReportFollowsEndpoints` | `TookInv` over `AnswersInv`: in the current cluster the endpoints that took the metric are those with a good answer, in the ones before it those with a good metric, and none in the ones to come. So a call counts as a success exactly when metrics could be relayed (`DoneIsServing`), and `CountInv`: neither record runs ahead of its counter short of saturation, and a complete streak leaves no failure. Assumes `fail_count` and `reset_count` from 1 to the counters' limit |
| `NetworkTypeOK`, `NetworkChannelIsOpen` | `ChannelInv`: while a call collects, the results taken out, those in the channel and the goroutines still at work add up to the endpoints of the cluster, so whoever has still to send finds the channel open and with room; between calls none is at work |
| `NetworkOutcomeMatchesMetrics` | `AnswersInv` over `ChannelInv`: every endpoint of the cluster is at work or has answered, once, in the channel or among the results collected. So a cluster is published completely and without contradiction, and `MetricsInv` follows: `fine` and `down` are what the metrics of the clusters dealt with tell, whatever the order of the answers |
| `NetworkNoSuccessOnceCancelled` | `Hopeless`: a call that begins after the cancellation has goroutines that dial or have ended only, all its answers are failures, and every cluster before the current one is down; it ends in a failed check, which sets the streak to 0 |
| `RelaymonTypeOK`, `RelaymonActsForAReason` | `RoundInv`: `step` is error exactly when a checker that had its turn reported one, and the count of successes is complete only when all of them did |
| `RelaymonSuccessMeansConfigured` | `UpInv` on top: every address before the next one is up or an error was noted, and what was listed is still there. Assumes that nobody else removes addresses, and nothing else: every other fault is allowed |
| `RelaymonDownWhenUnhealthy` | `DownInv`: in every round with an error the daemon is either on its way down or has the addresses away, and on the way every address before the next one is gone. Assumes no failing ip command, list or command, no foreign addition, and no address listed twice |
| `RelaymonUpHolds` | `ReportsFollow` (a report is the verdict of counters that have counted something) and `UpCount`: going up means that every `failed` is 0, and it grows by one a round at most, the round under way included (`Turn`). An error needs `fail_count` of them. No fault is excluded |
| `RelaymonDownHolds` | `DownCount`: some checker has failures to be forgiven and no more successes than rounds since the daemon went down, or there were `reset_count` rounds. To establish it when the daemon goes down takes `Sober`: a daemon that went up and is content has seen no error before this round, and a checker that turns to error does so by a failure and not by a success. No fault is excluded; `wasUp` says when a checker has lost its counters |
| `RelaymonImplementsHost` | every ip command touches one of the daemon's own addresses while `pc` is not `stopped`, every other step leaves the interface alone or is somebody else's; needs no more than the types |
| `SystemImplementsRelaymon` | `LoopInv` over `IInv`: a step of a call of `Status` that does not return is a stutter of `Relaymon`; one that returns is `Check` of the abstract daemon, by the refinement of `Checker` |
| `SystemTroubleClears` | `OutageInv` and `CrashInv` hold of the daemon's checker too: a step of the daemon is one of the service or leaves it alone, and a restart starts the record afresh. `AddrsInv`: while the daemon acts, its direction, the step and the report agree, and what was listed and the addresses dealt with make up the interface, so that no ip command can fail; when it does not act, its direction says what is there. Assumes `fail_count` and `reset_count` from 1 to the counters' limit and no address listed twice |
| `SystemSteadyConfigures` | `SteadyInv`: once a call has ended in the life of a process of the unit, every later call is about that process, because what is held is dead only after a check that could not be made; so no check fails but one after such a check, and `success` is at most one behind `age` or `checked` while there are failures to be forgiven. Assumes a positive `reset_count`, no address listed twice and a `systemctl` that answers in time |
| `SystemUpWithAProcess` | the same invariant: from the check to the last ip command of going up the report is success, and success is reported only with a process in hand |
| `QueueTypeOK` | that the goroutine asks for a metric only while the batch has room, and that after `Drop` the queue has |
| `QueueNothingLost` | `HandInv`: once one metric was dropped, or the queue was found empty, there is room for the one in hand, and nobody else puts anything in, so the second try cannot fail |
| `QueueInOrder` | `OrderInv`: batch and queue, one after the other, increase; all of it is newer than what was sent and apart from what was dropped; the metric in hand is the newest |
| `EveryClusterBeginsAsWritten` | what `Words` makes of the fields of a statement: its words before the first protocol without options and their values, by induction over the positions, so that it begins with the hosts there. `FieldsInv`: the fields at hand begin with those of one statement of the file, or there are none. Everything else the parser may pick up comes after them |
| `WellLaidFileIsReadAsMeant` | `SumInv` over `FieldsInv`: in a file laid out as the parser expects, the clusters so far and what the fields at hand will add are together what the statements read so far mean. A statement in one of the two block layouts is read whole before `found` is cleared, one on a line leaves `found` set, and then nothing but statements without hosts or the end of the file may follow |
| `ToolsTypeOK` | `RcInv`: what can have been counted at each point of an evict |
| `ToolsEvictedMeansGone` | `EvictInv`: as long as nothing went wrong and nobody undid it, the daemon is dead from the stop on, and on the way every address before the next one is gone |
| `ToolsUpUnlessLost`, `ToolsDownUnlessCame` | `WaitInv`: `foundAll` speaks of the addresses looked for in this pass, and no step of the host makes untrue what was seen, if what went and what came are remembered |

Each invariant was model-checked before it was proved. None of the properties is
inductive by itself: each speaks of one point of the loop and depends on what
the points before it have established.

The hypotheses on thresholds. `LoadConfig` takes any integer, and the models do
so too; where a theorem needs more, it says so. A threshold beyond the limit of
the counters (`math.MaxInt32`) is never reached by a counter that stops there:
with such a `fail_count` a checker never reports an error, and the theorems on
what must be reported exclude it. With a `fail_count` or a `reset_count` below 1
the properties of `ServiceHistory` and `NetworkHistory` would ask for an error or
a success after no call at all. The defaults are 6, 3 and 4 (`config.go:50-52`). `MaxRounds` and `MaxCalls`
are bounds of the records and not of the code: `RelaymonUpHolds` and
`RelaymonDownHolds` assume that rounds are counted as far as the threshold they
are compared with.

The two theorems on the parser need induction over data, of which the provers
have no schema. `CarbonCRelayProofs` takes it from the well-founded order of the
numbers, as a fact about sets of them (`Induction`, `Least`), and shows first
that the recursive functions in `Words` and in `FlattenSeq` exist; their equations
then serve as definitions. They assume the grammar and no more, and hold for
every layout and every order of the statements.

Only model-checked: liveness (`EveryCallReturns`, `ShutdownCompletes`, `Recovers`,
`Drains`, `StopClears`, `StartConfigures`, `Delivers`, `WaitEnds`), because the
prover does not reason about fairness and ENABLED. Every invariant and every action
property of a passing run, and every refinement, is a theorem. That the network checker
implements `Checker` is a theorem and no property of a run: `ReportFollowsEndpoints`
judges the same arithmetic there, against the endpoints. The types of `NetworkChecker`
and `Relaymon` are proved for all values of their constants and have no run of their
own.

## What is not modelled

- Logging, the de-duplication of events and the texts of errors: no decision
  depends on them.
- The parsing of `/proc/<pid>/stat` and of the output of `systemctl`, apart from
  their outcomes, and how a line of carbon-c-relay's configuration becomes
  fields (spaces, comments, `=`): text that no property tells apart.
- What `LoadConfig` makes of YAML and of defaults. What it validates, and what it
  does not, is in the assumptions on the constants.
- Time: a timeout is an outcome that may occur, not a duration.
- `pkg/neterror`, a pure naming of errors; the Python test driver.
- How long an operator's command may keep the loop waiting: the fairness assumes
  that it ends.

## Plan

Done, in this order: thresholds and abstract checker; service checker; network
checker; daemon loop with the interface; their histories; the sender of metrics;
the parser; the two other modes on a host; the daemon over the real checker of a
service; proofs of types, of the refinements and of all safety properties, the
parser's included.

Left, and worth doing:

1. `System` with the network checker as well. Its goroutines multiply the states,
   so this needs a coarser step inside a call, justified by a refinement.
2. That `UpHolds` and `DownHolds` survive with the real checkers: `System`
   implements `Relaymon`, and the record of `RelaymonHistory` can be carried
   along as it has no part in what the daemon does.
