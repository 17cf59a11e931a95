# Stone Ridge in TLA+

Stone Ridge runs Firefox network tests on a closed testbed. A request for a
run enters a queue on the master; the builds are fetched; the run is split over
emulated networks (the *netconfigs*) and over client machines (the *operating
systems*); each of these jobs is executed with the client's DNS pointing at the
server of the netconfig; results come back to the master, which posts them to a
graph server, archives them and mails the person who asked.

This directory holds a specification of that system, written from the Python
sources, with TLC configurations that check it on small instances and with
proofs for all instances.

## Inventory

| part | state it keeps | operations | talks to |
|---|---|---|---|
| message queues (`stoneridge.py` `QueueListener`, `QueueWriter`, `enqueue`) | `sr_incoming`, one `sr_nc_*` for each netconfig, one `sr_ct_*` for each client, `sr_outgoing` | consume one at a time, acknowledge after `handle`, redeliver, reconnect | every daemon |
| `srmaster` | the run it handles (call stack only) | `handle` | `srcloner` (child), `sr_incoming` -> `sr_nc_*` |
| `srcloner` | directories of builds, in the order of their modification times | `run`: list, download, clean up, defer or cancel | FTP/HTTP (external), `srdeferrer` (child), `srdownloader` on the clients |
| `srdeferrer` | its command line | sleep, enqueue | `sr_incoming` |
| `srscheduler`, one for each netconfig | the run it handles | `handle` | `sr_nc_*` -> `sr_ct_*` |
| `srworker`, one for each linux or mac client | work directories, flags of the current test | `handle`, `run_test`, `run_process`, `reset`, loop of `main` | children, `sr_ct_*` |
| `srmqproxy`, `srwebmq`, `srwebworker` | an sqlite table on the master | insert, get and mark a row, poll | `sr_ct_windows`, HTTP |
| `srdns`, `srdnsupdater`, `srdnscheck` | the resolver of the client, a backup of the original | set, reset, check | TCP on the client |
| `srpcapper`, `srpcap` | a table of captures by MAC address | start, stop, retrieve | HTTP |
| `srrunner` with `_run_test_process` | a test process and its timeout | run each test | firefox, xpcshell |
| page loader (`srpl.js`), `head.js`, `srdata.js` | the page, timers and listeners, results in memory, an output file | load, time out, paint, record, save, quit | firefox, xpcshell |
| `srcollator`, `srarchiver` | `upload_*.json`, a zip file | collate each output file, archive | output files |
| `sruploader` | - | one message | `sr_outgoing` |
| `srreporter` | archive directories | `handle`, `save_data` | datazilla (external), mail |
| `srenqueuer`, `srpush` | the list of unhandled pushes (web server) | list, mark, enqueue | web server (external), `sr_incoming` |
| `srcleaner` | work directories | remove the oldest each minute | file system |
| `daemonize` | a pid file and its lock | fork, lock, write, SIGTERM | init scripts, launchd |

What makes each correct:

* *queues and pipeline*: no accepted job disappears, whichever consumer fails
  where; redelivery duplicates no more than it must; each job is settled.
* *srmaster, srcloner, srdeferrer*: a run is tried as often as configured, at least
  once, and with the configured interval in between; it is tested or deferred or given
  up, never two of these; its jobs have one timestamp, which no other run has.
* *builds*: a clean exit of srcloner means builds that can be tested; a client
  finds the builds of its job unless they made room for newer ones; the disk does
  not fill up.
* *srenqueuer*: a push is queued, and once.
* *windows queue*: a row is handed out once, and to a worker that handles it.
* *srworker*: whatever stage fails, the results are archived and uploaded once
  and the DNS is restored.
* *DNS switch*: a test meets the servers of its own netconfig; the servers that
  were there first can be restored, whatever becomes of srdns; an "ok" is true.
* *daemons*: one at a time, and the one that the pid file names.
* *tests*: srrunner ends, whatever its tests do; a report has the whole of a test or
  nothing of it.
* *captures*: a saved capture is of the test it is saved for.

What is hard: redelivery at every point of five daemons; work whose only copy is
a sleeping process or a reply on the wire; recursive error handling in
`run_process`, which runs the same children as the normal path; state left on
the client or the server by a test that failed; signals, kills and restarts of a
daemon that holds the only copy of the client's settings; callbacks of a page that
come after the next has begun. `PROJECT.json` lists these hazards at their lines.

## Modules

```
            RunLedger        what the users are promised
                ^  (refinement: StoneRidge!KeepsTheLedger)
            StoneRidge       the pipeline         <- StoneRidgeProofs <- RunProofs
          /    |     |    \
     Master Scheduler Client Reporter             <- MCStoneRidge
          \    |     |    /
             Queues      |
                         |  (the same worker actions)
                     Handling    what the queues may assume of a client
                         ^  (refinement: Worker!HandlesJobs)
                      Worker     one client machine   <- MCWorker, WorkerProofs
                         |
                      Pcapper    captures on the servers

     Srdata -> Head, PageLoader -> Runner    the tests of a job  <- MCRunner, RunnerProofs

     Daemon -> Srdns                         the resolver of a client  <- SrdnsProofs

     Master -> Deferral          how long a run is tried for  <- MCDeferral, DeferralProofs

     Enqueuer -> BuildStore -> Builds    pushes and builds   <- MCBuilds, BuildsProofs
```

**Queues** has the queues as sequences, and the messages. The message a consumer
is handling stays at the head until it is acknowledged, because
`_handle` (stoneridge.py:632-639) acknowledges after `handle` and the prefetch
count is 1; so a failing consumer leaves the queue alone. `Fails` and `Loses`
count faults. A run is named by a request and the number of the uuid that
`srmaster` drew for it, which is how a nightly that is delivered twice becomes
two srids (srmaster.py:30-31).

**Master** models `handle` of `srmaster` at the grain at which it can fail:
received and cloning, builds ready and timestamp taken, after the minute of
sleep, after each queue it wrote to, acknowledged. `srcloner` appears as the
outcomes that differ for the run: `CloneSucceeds`, `CloneDefers`,
`CloneCancels`, `CloneDrops`. The attempt travels from the message through the
cloner and the deferrer into the next message, as in the code.
`clock` counts the minutes that `srmaster` sleeps. It moves nowhere else, which is the
least favourable clock for the timestamps among those that are never set back. A clock
that is set back is not modelled: `time.time()` of srmaster.py:80 may then give a later
run the timestamp of an earlier one, and nothing in the code prevents that. `Attempts`
is the limit as `exit_and_maybe_defer` (srcloner.py:280-290) makes it work:
`MaxAttempts` is whatever integer is configured, 0 if none is, and srcloner has run
once before anybody compares it.

**Deferral** is Master on a clock, to see how long a run is tried for. `Tick` is a minute
that passes at any time, whatever the daemons could do; `Slept` is the loop of
srdeferrer, a guard on the clock for `DeferrerWakes`; `since` is when each srdeferrer
began to sleep and `first` when srcloner first ran for a request. Nobody takes the runs
off the queues of the netconfigs there.

**Scheduler** models `handle` of each `srscheduler`, one message to a client at
a time. **Client** has the worker as the queues see it (take, upload or not,
return, fail, with the work directory names that make a third delivery raise)
and the three programs of the windows client. **Reporter** has the three steps
of `handle`: post, save and mail, acknowledge. **StoneRidge** composes them:
they share the queues and nothing else, so each daemon's step is the action of
its module and leaves the variables of the others alone.

**Worker** opens up one client. `frames` is the call stack of `run_process`,
since a failing child makes it call itself for `srdnsupdater --restore`,
`srarchiver` and `sruploader`, each of which may fail in turn. `stage` is the
line of `run_test`. Each child has an effect (on the resolver, on the captures,
on what was sent) and may exit cleanly, fail before or after its effect, or,
for `srdnsupdater` and `srpcap`, be refused and exit cleanly all the same.
**Pcapper** has the entry `srpcapper` keeps for this client on each server.

**Enqueuer** has the processes that cron starts, each with the list it read and
whether it has marked the head of it. They overlap freely. A mark may succeed, be
answered with an error that nobody looks at, or raise, before or after the server
took note of it. **BuildStore** has the directory of builds on the master: which
platform directories and files each run has, and the runs by modification time.
`srcloner` lists (`Defers`, `Drops`, `Begins`), makes directories, downloads file by
file and cleans up; it may fail at each step, and try may publish more in between.
`srdownloader` asks for two files, one after the other, of any dispatched run, while
all this goes on. **Builds** composes them through `sr_incoming`, so that a push that
was queued twice is cloned twice, with others in between.

**Runner** is the inside of one stage of Worker, and of those after it: srrunner
starts a process for each test, polls it, kills it; srcollator turns the output files
into `upload_*.json`, one for each suite; sruploader sends these. Its tests are
processes of their own: **Head** has xpcshell with `head.js`, **PageLoader** has
firefox with `srpl.js`, and both save what **Srdata** recorded. `pending` are the
callbacks that the page loader has registered; any of them may come next, those of a
page that has been left included, and `quitting` firefox may still run some. A process
may crash, hang or be killed anywhere, between the two halves of
`do_save_results` as well. `elapsed` is the wall clock of `_run_test_process` in sleeps
of five seconds; `ClockIsSet` moves it.

**Daemon** has `daemonize` for every process that is ever started: it opens the pid
file (and empties it), locks it, writes its pid, sets its handler, runs; and the two
halves of the init script's stop, which reads the pid and sends the signal. A file is
kept apart from its name, because `daemon_sig` unlinks a file that is still locked.
**Srdns** is the daemon that runs in it: `save_dns`, the port, and one connection of
srdnsupdater at a time. `daemon_sig` raises wherever the process is: outside a
request that ends it (`Stopped`), inside one the server catches it (`Swallows`). On a
mac there is no `daemonize`, and launchd starts srdns whenever it has ended. On windows
the service manager does, with `OnStop`, after which `svcMain` ends between two
requests (`ServiceEnds`); a switch is `SwitchOff`, of one interface, then `SwitchOn`, of
the other. `IsKilled` is a kill -9 or a reboot, at any point. A handler that raises for
itself (`HandlerRaises`: a mac names no main interface to `networksetup`, a tool does
not start, the disk is full) ends the request without an answer, and srdns goes on; an
exception in the service of windows ends it.

**RunLedger** and **Handling** are the abstract specifications. RunLedger knows
which runs were accepted and which jobs were reported or abandoned. Handling
knows a job, a phase and a count of results; its actions are those of Client's
worker, so that the refinement of Handling by Worker is what justifies Client.

A definition with a comment that starts with "Faulty:" is a variant of the one
after it with a plausible bug. No specification uses it; it serves to see that
the properties notice.

## Runs

The runs are of the `MC` modules, or of Srdns, whose constants are numbers. Deadlock
checking is off where the system rightly stops when nobody asks for anything; it is on
for `Tests`.

| run | instance | shows |
|---|---|---|
| Redelivery | a pushed run and the nightly for windows, one redelivery, one loss | types; no job is lost on the path through sqlite, other than those counted as given up; timestamps tell runs apart; runs without builds are not tested; the budget of attempts |
| Failures | one run for two netconfigs on linux, two redeliveries, the default limit of attempts, 0 | no job is lost when srmaster's loop over its queues is interrupted; at most one copy for each redelivery; without one, one timestamp for each run, and one attempt |
| Settles | linux and windows, one redelivery, fairness | RunLedger is implemented, with its liveness |
| Machine | three jobs, two netconfigs, three failing children, one failure of srdnsupdater, one of a capture, one death | types; no test in public; own netconfig if srdnsupdater works; archive and upload once; DNS restored; no packets saved twice |
| Builds | two pushes, one of them for two systems, two cron jobs, room for one build, one fault of any kind | types; how often a push is queued; which pushes are lost; how full the disk gets; a clean exit leaves all files; clients miss only what was removed |
| Tests | two .js tests and a .page test of up to three pages, two of them of one suite, on windows, all options of the page loader, one step of the clock | types; a report has all pages of a test in order; a .js test that succeeded saved; each suite with an output file is reported if no stage failed; srrunner, srcollator and sruploader end |
| Resolver | linux, a mac or windows, three processes of srdns, one stop, two requests, kills anywhere | types; the backup is never of the test servers; an "ok" is true; what may leave the client halfway; the own servers can be restored; one daemon, and the pid file is its own, if stops are waited for; srdnsupdater gets an answer or loses its connection |
| Handles | one job, a DNS that stays broken, fairness | Handling is implemented, including when the recursion limit is hit |

Four more runs each show something that the documentation, a comment or a message of
the program says and the code does not do: `Impatient` (doc/overview.markdown:76-78 has
srcloner defer a run for a day since its first try, but srcloner.py:282 counts attempts
and knows no time, and the six attempts at intervals of ten minutes of
config.ini.example may be over after 50 minutes), `Poison` (the third delivery of a job
raises for ever), `LostResults` (one output file that cannot be read costs the results
of the tests after it) and `Unstoppable` (a SIGTERM during a request is swallowed, and
the pid file is gone).
The findings in `PROJECT.json` quote both sides.

Other properties hold only under a condition, which is part of their definition, and
without which TLC refutes them:

* A run has one timestamp only without a redelivery
  (`RunsKeepTheirTimestampWithoutFailures`): srmaster.py:80 takes the time anew.
* A test is on its own netconfig only if srdnsupdater works
  (`TestedOnItsNetconfigIfUpdated`): srdnscheck.py:38 accepts the servers of any
  netconfig.
* The packets of a job are in one saved capture (`NoPacketsSavedTwice`) only if the
  client handled it once; a job whose error handling ran into Python's limit, or whose
  worker died, is handled again, and may leave a capture on each of two servers. And a
  capture may begin with the packets of an earlier test that failed: nobody stopped it
  (srworker.py:186).
* Two cron jobs that list a push before either marks it both queue it
  (`PushesRunOncePerProcess`): tools/srenqueuer.py:40 does not look at the answer.
* A clean exit of srcloner leaves complete builds (`ClonedBuildsAreComplete`) if each
  srcloner before has cleaned up. "Complete" is about names: `firefox.zip` or
  `tests.zip` may be an error page, since srcloner.py:152 does not look at the status,
  although doc/overview.markdown:74-76 promises a clean exit only "if the download
  succeeds". `MissedBuildsWereEvicted` is likewise about files that are not there; a
  client that is served an error page has missed nothing by it.
* The budget of attempts (`AttemptBudget`) is one of attempts. It grows with each
  redelivery, and says nothing about time, so it holds of a run that is cancelled within
  the day. What can be said about time is `Patience`, a lower bound, which is proved:
  a run is not cancelled before all the intervals between its attempts have passed.
* One daemon at a time, the pid file of that daemon and the backup of srdns
  (`OneDaemonIfStopsAreWaitedFor`, `PidFileIsOfTheDaemon`, `BackupIsOriginal`,
  `ServersCanBeRestored`) want a stop to be waited for, which `restart` of the init
  scripts does not do. A daemon that opens the pid file before the one told to stop
  has ended may lock a file without a name: nothing stops it, and a third start runs
  beside it, and may take a backup that is being copied for a whole one.
* An "ok" of srdns may be false when networksetup or netsh fails (`AnswersAreTrue`):
  srdns.py:130 and srdns.cs:45 do not look. A linux client whose srdns was killed or
  stopped in the middle of a switch has half a resolv.conf until the next request
  (`HalfSwitchedOnlyByFaults`).
* `BackupIsOriginal` and `ServersCanBeRestored` also fail on a mac that once did not find its main interface
  (srdns.py:101), and a srdns killed in the middle of its copy leaves half a backup for
  good.

### Bounds

`MaxFailures` and `MaxLosses` bound redeliveries and deaths. A duplicate needs
one redelivery; a third delivery, which is where the work directories run out,
needs two (`Poison`); so two are enough to see all of these on one path and one is
enough elsewhere. `MaxAttempts` is 2 in most runs: a run is deferred once and
then cancelled, so both sides of the comparison are met. It is 0, the default, in
`Failures`; and that of config.ini.example in `Impatient`, where `MaxMinutes`
bounds how far the clock moves by itself: 60 is past five intervals of ten minutes. Two netconfigs make srmaster's loop
and its interruption visible; two clients make srscheduler's. Requests are not
repeated. `MaxFaults` bounds the faults of a client by kind: three failing
children are a stage, its archiver and its uploader. In
`Builds`, `MaxFaults` is 1 for faults of all kinds together: one process that fails,
next to a push that is queued twice without any fault, is what it takes for a
cleanup to remove the run it has just fetched. `keep` is 1, so that each push
displaces the other. The cron jobs are interchangeable and symmetry is used for
them; the run checks invariants only. `RecursionLimit` stands for
Python's limit; it is 6 where ordinary failures must stay below it (a stage, its
archiver, its uploader and a restoration nest four deep), and 5 in `Handles`,
where six failures of srdnsupdater reach it.

In `Tests` three pages are a first, a middle and a last one, and three polls leave room
for a test that ends at the first, at the last, or never; `Windows` is TRUE since there
a kill can raise, and the other outcomes are the same. `LostResults` has the options
that srrunner passes. In `Resolver` three processes are the one that is stopped, one
that is started while it ends, and one more; two requests are a set and a reset. Pids
are given in the order in which processes open the pid file, before which nobody knows
of them, so that permutations of them are not told apart.

### Fairness

`FairSpec` of StoneRidge asks for weak fairness of the steps of each daemon. A
consumer that loses its connection reconnects for ever
(stoneridge.py:641-648), srworker's `main` starts a new worker after any
exception (srworker.py:234-239), srwebworker polls for ever, and srdeferrer
sleeps for a fixed time. A daemon that dies of an exception needs its init
script to be run again; fairness assumes that somebody does. Deferral asks for no fairness: its two properties
are about what happened too early. Nothing is assumed
of faults, of requests, nor of *which* outcome a cloner or an upload has. In Worker
weak fairness of `Works` says that children end: `run_process` waits for its
child, and srrunner kills a test after its timeout. `RunnerEnds` of Runner is where that
is checked: there, weak fairness is asked of srrunner, srcollator and sruploader
(`Works`), and of no test, so a test may hang at any point. In Srdns weak fairness
says that a live process runs, and that the kernel refuses a connection that nobody
accepts; nobody has to start, stop or kill a daemon. `RequestsEnd` then says that the
child srdnsupdater of Worker ends, though it waits without a timeout.

### Abstractions

* Queues are FIFO, and a redelivered message comes back at the head, as RabbitMQ
  does for one consumer. The old consumer is gone when the message is given out
  again: a handler that goes on after its connection was lost is modelled as one
  that failed at that point.
* A message carries what its consumers branch on; results, metadata and addresses
  of people are left out. So is `ldap`, and with it the test of srmaster.py:53-55,
  which `enqueue` (stoneridge.py:712-714) makes unreachable.
* Uploads fail or succeed as a whole. Mail may be lost silently
  (stoneridge.py:722-758), so "reported" means archived and handed to mail.
* In Builds a deferred run is back on the queue at once, and runs are pushes; Master
  has the sleep of srdeferrer and the nightlies, which skip the check of the listing.
  A srcloner whose srmaster was killed is taken to be killed as well.
* The time of a page is not measured: a result is the number of its page. A .js test
  records one result or none.
* A server list is "original", of the "test" network, or half written. `networksetup`
  changes it at once; linux truncates and writes. On windows it stands for both
  interfaces and the search list, which change in two steps; when a step fails, any
  mixture is "partial".
* On a client only srdns changes the resolver, and public names never resolve into
  172.16/12.

## Proofs

Every invariant of every run that passes is also proved, for all values of the
constants, and so is the safety half of both refinements. The proofs use the assumptions
named in the modules and no other. Each goes the same way: an inductive invariant that
holds initially, that every step preserves (one proof step for each action), and that
implies the property. The inductive invariants hold on the instances of the runs, too:
TLC finds none of them violated there.

| module | theorems | about |
|---|---|---|
| StoneRidgeProofs | `TypeCorrect`, `TimestampsAreUnique`, `NothingLost` | the pipeline |
| DeferralProofs | `WaitsBeforeCancelling` | the time a run is tried for |
| RunProofs | `UnclonedStay`, `OneTimestamp`, `CopiesPerFailure`, `ClonesWithinBudget`, `LedgerIsKept` | runs in the pipeline |
| WorkerProofs | `TypeCorrect`, `ArchiveAndUploadOnce`, `DnsComesBack`, `TestsAreNeverInPublic`, `TestsAreOnTheirNetconfig`, `PacketsAreSavedOnce`, `MachineHandlesJobs` | one client machine |
| RunnerProofs | `TypeCorrect`, `ReportsWhole`, `SuccessIsSaved`, `SuitesReported` | the tests of a job |
| BuildsProofs | `TypeCorrect`, `PushesRunOnce`, `PushesQueued`, `DiskBounded`, `ClonedBuildsComplete`, `MissedWereEvicted` | pushes and builds |
| SrdnsProofs | `SrdnsTypeCorrect`, `AnswersHold`, `OneDaemon`, `PidFileOfTheDaemon`, `BackupStaysOriginal`, `ServersAreSaved`, `SwitchesAreWhole` | the resolver of a client |

`StoneRidgeProofs`. Its steps are grouped by side (master, schedulers, clients,
reporter), with a lemma for what each leaves alone, so that each invariant is shown for
one side at a time.

* `TypeCorrect`: the invariant `TypeInv` adds to `TypeOK` that a consumer that is busy
  has a message at the head of its queue; without it, the head that a step passes on
  need not be a message.
* `TimestampsAreUnique`: `TimestampInv` says that every timestamp that was dispatched
  lies before the clock, except those of the run that is being dispatched, and that
  srmaster's own timestamp is fresh while it sleeps.
* `NothingLost`: `NoJobLost` alone is not inductive: an acknowledgement removes a
  message, and one must know that everything it stood for has been passed on.
  `HandedOn` says that of each of the five consumers, and `OneReply` that srwebworker
  has one job at a time. The proof shows that a job at any station stays there or moves
  on (`AtReporterStays` and its siblings for the client and the scheduler), then that
  each side of the pipeline preserves `HandedOn`, then `NoJobLost`.

`RunProofs` adds what srmaster and srcloner do with a run.

* `UnclonedStay` and `OneTimestamp` are about a pipeline without redeliveries. There a
  run has one life (`OneLife`): it is one message of `sr_incoming`, or with one deferrer,
  or closed, or on the queues of its netconfigs, never two of these. A message that
  was dealt with but not yet acknowledged does not count (`Live`). The proof is by
  station, since each move takes the run out of one as it enters the next.
* `CopiesPerFailure`: `CopiesInv` bounds, for each job, the sum over all stations of
  the copies that are still going to be posted, and of those that were. `Left` leaves
  out the message whose work is done and which only awaits its acknowledgement; so an
  acknowledgement changes nothing, a move takes one from a station and gives one to the
  next, and a redelivery, which puts the head back among the copies, adds one at most
  and is counted in `failures`. Messages are counted as positions in a queue (`Slots`):
  the cardinality lemmas about an appended, removed or unchanged head are stated once,
  for any queue and any set of messages.
* `ClonesWithinBudget`: an attempt is worth itself and all that may follow it. `Tries`
  gives each message one slot for each attempt from its own to the last, so that the
  number of times srcloner ran plus the tries left, in the queue, in the cloner and in
  the deferrers, stays within the budget (`BudgetInv`): running srcloner takes one from
  the left, deferring moves the rest, and a redelivery, which gives tries back, raises
  the limit by as many. The limit is `Attempts`, for every integer that may be
  configured: `AttemptsFacts` says that the code's comparison with the configured one
  comes to the same, which is where "at least once" is needed.
* `LedgerIsKept`: `Spec => Ledger!Safety`. With `OwedInv`, that whatever is in transit is
  owed to somebody, each step is one of RunLedger's or is invisible to it.

`DeferralProofs`: `WaitsBeforeCancelling` needs `WaitInv`, which says of each message
that the intervals before its attempt have passed since the first attempt (`Ready`), and
of each srdeferrer that those before the attempt it follows had passed when it began to
sleep (`Asleep`). A redelivery changes neither, because `first` never moves. The interval
is any integer, which is the theorem's only assumption; below 0 the bound is empty, not
false. `Patience` is not the property of a run: `Impatient` is the one run of Deferral.

`WorkerProofs` is about a call stack of any depth up to `RecursionLimit`, which must be
more than 1. `StackInv` has its shape: the child of the stage at the bottom, rescuers
above it, and every call but the innermost waiting for the one above.

* `ArchiveAndUploadOnce`: `run_process` sets the two flags aside while it restores the
  DNS and so pretends that there is nothing left to do. `DutiesInv` says where what
  is due is remembered: in the flag or in one frame, the outermost that restores, and
  never in two of them; and that a frame past its archiver or uploader has run it, or
  has a frame below it that still will.
* `DnsComesBack`, `TestsAreNeverInPublic`, `TestsAreOnTheirNetconfig`: `DnsInv` follows
  the DNS through the stages. The DNS is away from the public one only from
  srdnsupdater to its counterpart (`Restoration`), and a stage in between
  that fails restores it before anything else.
* `PacketsAreSavedOnce`: `PacketsInv` says that the packets of a job are in one capture,
  of a server or saved, and in none before the job has begun its first test.
* `MachineHandlesJobs`: `Spec => Handler!Safety`, from `UploaderCounted`, which says that
  the phases of Handling change when the uploader ends and at no other time.

`RunnerProofs`: `ReportsWhole` needs that of the callbacks by which one page leads to the
next at most one is registered (`OneCallback`), that the results are those of the pages
before the current one (`PagesRecorded`), and that the page loader, once it saves, has all
of them and nothing else to wait for (`SavesAll`), although a late `loadFail` may come at
any time. `SuccessIsSaved` and `SuitesReported` follow each test through srrunner
(`VerdictInv`) and each output file through srcollator (`CollatorInv`).

`BuildsProofs` has two sides.

* `PushesRunOnce` and `PushesQueued` count processes of cron: those that have a push on
  their list (`Readers`), of which those that have marked it (`Markers`). A push that is
  still listed was queued only because of refused marks; one that is not can be queued
  by each reader once more (`CountInv`). `PushesQueued` needs that at most
  one push for each process that ended was lost (`LostInv`).
* `DiskBounded`, `ClonedBuildsComplete`, `MissedWereEvicted` are one invariant
  (`BuildsInv`): the files of the run being cloned are there or still among the steps; and
  its directory is the newest, which the cleanup keeps, unless there are more old ones
  than `keep` because an earlier srcloner ended before its cleanup (`unclean`). That
  each run has a build (`StoreAssumption`) is what `enqueue` sees to
  (stoneridge.py:702-703): no system means all of them.

`SrdnsProofs` works for every number of processes, stops and requests.

* `SrdnsTypeCorrect` and `AnswersHold` rest on `ControlInv`: only who has the port
  serves, there is a request while one is handled, and on linux nobody gets that far
  without a backup. `AnswerInv` adds that the process about to answer has just made the
  answer true.
* `OneDaemon` and `PidFileOfTheDaemon` need an invariant about who may have opened,
  locked or named which file. Call a process clean that was not told to stop and did not
  start before one that was had ended. `daemon_sig` takes the name of whatever file has
  it, so a clean process must never meet one that was told to stop (`CleanInv`); this is
  preserved when the script sends a signal because a pid in a file is that of the process
  that has it locked, or of a dead one (`FilesInv`), so that the clean daemon can only be
  the target itself.
* `BackupStaysOriginal`, `ServersAreSaved` and `SwitchesAreWhole` add that while stops
  are waited for there is one daemon at all (`SingleInv`), so that between its look for a
  backup and the end of its copy nobody changes the servers (`BackupInv`, `RestoreInv`).
  Steps that write neither servers nor backup are dealt with at once (`SavesStay`).

Only model-checked, because they are about fairness and ENABLED, which the provers do
not handle: the liveness half of RunLedger (`Answers`, in `KeepsTheLedger`) and of
Handling (`Returns`, in `HandlesJobs`), `RequestsEnd` and `RunnerEnds`. The four
properties that a run shows to be violated have no proof.

## Not modelled yet, and plan

Done, in this order: Queues, Master, Scheduler, Client, Reporter, StoneRidge, RunLedger,
StoneRidgeProofs; Pcapper, Worker, Handling; Enqueuer, BuildStore, Builds; Srdata, Head,
PageLoader, Runner; Daemon, Srdns; SrdnsProofs; WorkerProofs, RunnerProofs,
BuildsProofs, RunProofs; Deferral, DeferralProofs.

Next, proofs: the step that the liveness arguments rest on, for all constants: that
each of the daemons' steps brings a job nearer to being settled (a measure that
decreases unless a fault is counted), in the pipeline, in the call stack of Worker, in
srrunner's clock and in a connection of srdns.

Not to be modelled: srcleaner, which ends with an exception at the first directory it
should remove, since srcleaner.py:38-40 gives `rmtree` a pair of a name and a time, so
that no old run is ever removed (doc/overview.markdown:181-182: "This process runs
periodically to clean up any excess disk space used by data from old test runs");
configuration, logging and argument parsing (no state); srnamed
and sremailer (stateless); srpush (a client of a web server that is not here); what
srunpacker, srinfogatherer and srarchiver write (file contents; they appear as stages
that may fail); `WindowsDnsModifier` of srdns.py, which the service `srdns.cs` has
replaced; changes of the client's servers by DHCP; installers and one-off tools. apache,
python and wpr are vendored: nearly all of the lines of the repository are theirs, and
of those only the `except` of python's SocketServer that swallows a signal is modelled.
