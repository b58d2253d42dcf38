# EgressWeave in TLA+

EgressWeave is a Python library that validates outbound URLs against an explicit
policy, resolves their names once under a bound, and builds HTTPX clients that can
only reach the validated addresses of the validated authority. This directory
holds its formal models: TLA+ modules translated from `src/egressweave/` and
`scripts/ci/` (with the parts of `.github/workflows/` that call the latter), TLC
configurations that check them on small instances, and proofs that TLAPS checks for
every value of the constants.

Paths below are relative to the repository. `PROJECT.json` maps each definition
to the lines it stands for and lists the runs, hazards, findings and theorems.

1. Inventory of the system
2. Modules and their correspondence to the code
3. Runs, bounds and results
4. Fairness
5. Proofs
6. Disagreements between the code and its documents
7. Abstractions, and what is not modelled
8. Plan


## 1. Inventory of the system

### Bounded DNS resolution (`validation.py:225-300`)

- State: the process-wide `BoundedSemaphore(32)` of lookup slots; per call a
  deadline, a daemon worker thread and a queue of capacity one. Asynchronous
  calls add a work item in the event loop's default executor.
- Operations: acquire a slot with a timeout; re-check the deadline; start the
  worker; wait for its answer; give up. The worker resolves, puts one item and
  releases the slot in a `finally`. `asyncio.to_thread` queues the whole call.
- Hard: the worker is never interrupted and outlives its call; the slot is given
  back by one of three parties; two timed waits share one deadline; coroutines
  are cancelled in the queue or while a thread works for them.
- Correct when: slots are conserved; no more than 32 lookups run; an answer
  reaches only its own call; no call is refused early without a failure nor kept
  late; every call ends although lookups hang.

### URL validation and pinning (`validation.py:46-482`, part of `transport.py`)

- State: none of its own; it produces a frozen, signed `ValidatedEgressURL`.
- Operations: parse and normalise a URL, match its authority against the policy,
  classify every address of the answer, sign the result, revalidate it when a
  client is built, compare each request with the pinned authority.
- Hard: the result may be overwritten in between (`object.__setattr__`), or
  issued under one policy and pinned under another; normalisation has to be
  idempotent for revalidation to work.
- Correct when: connections go to listed authorities only, to addresses of the
  class the name calls for, and to exactly the addresses the resolver gave.

### Egress policy (`policy.py`, `_policy_normalization.py`, `timeout_policy.py`, `connection_pool_policy.py`)

- State: immutable limits and the set of allowed `(host, port)` pairs.
- Operations: construction from hosts and ports or from pairs; range checks.
- Hard: the product of several hosts and several ports would allow pairs nobody
  wrote down; hosts that IDNA rejects take a textual fallback.

### Asynchronous pinned connect (`transport.py:96-298`)

- State: one coordinator coroutine; one task per address; `attempt_start_lock`,
  `active_attempts`, `last_attempt_started_at`; the set of tracked tasks; the
  deadline and the time of the next attempt; while a stream is being closed, the task
  that does it.
- Operations: start attempts 250 ms apart or when none is left; pace the real
  start under the lock; connect; pick the first stream observed in time; close
  the others, one after the other; cancel and await what is left.
- Hard: everything between two awaits interleaves: a lock held across a sleep,
  cancellation at any await, several streams completing together, completion and
  deadline in one turn of the loop; a close is a task of its own (`asyncio.gather`),
  which may fail, cancel itself, or be cancelled with the coordinator before its first
  step.
- Correct when: starts are paced and in order, the race ends with one open stream or a
  denial that has a reason, no close changes or swallows that decision, and no task
  stays behind.

### Synchronous pinned connect (`sync_transport.py:71-141`)

- State: the address at hand and one deadline.
- Operations: try each address with what is left of the budget.
- Correct when: the attempts share the budget, all addresses are tried before an
  early denial, and the first stream is the one returned.

### Request body safety (`request_body_safety.py`)

- State: per stream `_iteration_started`, `_consumed_bytes`, the declared length.
- Operations: iterate (once), count each chunk before it is yielded, close the
  source on every denial; compare a declared length, as text, with the budget.
- Hard: the pool may iterate again for a retry, or while the first iteration is
  suspended; the chunk that crosses the limit is withheld whole.

### Request preflight (`request_safety.py`, first half of `handle_request`)

- State: none. Operations: method, authority, target, extensions, timeouts,
  field syntax, framing, trusted fields, header budgets, in that order.
- Correct when: every wait of the pool gets a finite bound, and the request on
  the wire has one reading.

### HTTP exchange and response safety (`transport.py:302-450`, `sync_transport.py:144-293`, `response_safety.py`)

- State: the connection an exchange occupies in the pool, the bytes read.
- Operations: preflight, hand to the pool, check the response before anyone sees
  it, wrap its stream in a counter, close on every refusal.
- Hard: a refused response that is not closed starves a small pool; bytes are
  counted before decoding.

### Release candidate (`release_evidence.py`, `scripts/ci/prepare_release_evidence.py`, `verify_distribution.py`, `generate_release_sbom.py`, `generate_attestable_release_sbom.py`)

- State: a directory with two archives, later with two SBOMs, a source identity
  and a checksum list; a manifest file outside it; a reviewed dependency manifest
  and a hash lock; private copies of the archives; what a process holds in memory.
- Operations: check (select, copy, parse and hash the archives, list them, copy
  whatever the workflow's patterns match for publication and check the listed names);
  prepare (select and copy the
  archives, bind the manifest to the lock, describe each archive, hash, create four
  files exclusively, then verify); verify (list, hash, parse, hash again, write the
  manifest exclusively, verify once more).
- Hard: other processes may write a file between any two looks, put a further archive
  into the directory, and edit the manifest between its validation and its translation;
  each command may stop anywhere, and the next one meets what it left; the programs
  compare the version of an archive with different things.
- Correct when: a manifest describes files of one release that were there together;
  what is sealed is what was parsed, and so are the two archives of what is published,
  although copies are parsed and paths hashed; an SBOM lists the packages its archive needs, as locked, no more.

### Hourly product guard (`hourly_product_guard.py`, `.github/workflows/hourly-product-development.yml`)

- State: the head of main and whether pull requests are open; the workspace a model
  edits; an alternate git index; the captured patch.
- Operations: check out; list, measure and diff the workspace against a protected
  baseline; take the patch; in a second job recheck head and pull requests, read
  the patch as text, apply it to a fresh checkout and validate the result.
- Hard: the guard looks at the workspace again and again and takes the patch last, while
  what the model left behind may write it; the two jobs judge by different means.
- Correct when: what is handed off is within every bound whatever was written, and
  the second job refuses an undisturbed patch of the first only for a known reason.

### Decision evidence (`decision_evidence.py`)

- State: none. Operation: revalidate a result, then record authority, address counts
  and a fingerprint of the policy.
- Correct when: a record vouches only for decisions its policy makes.

### Parts without concurrency or lasting state

The TLS context policy (`tls.py`) and the package surface (`__init__.py`). See
section 7.

### How the parts interact

```
 EgressPolicy --> validate URL --> bounded DNS --> ValidatedEgressURL (signed)
                                                        |
                              revalidation: build client (pinned transport)
                                                        |
 request --> preflight --> bounded body --> pool --> pinned connect --> peer
 caller <-- bounded stream <-- response checks <------------------------+
```

The policy is passed to all of them. Validation calls the resolver, directly or
through a thread. The transport calls the preflight, hands the wrapped body and
the safe fields to the connection pool (httpcore, external), which calls back into
the pinned backend to connect and into the body wrapper to send.

The release scripts run one after the other over a shared directory:
`verify_distribution` and the publication step read what the build wrote,
`prepare_release_evidence` calls the SBOM generator and ends with the verifier of
`release_evidence`. The hourly workflow is on its own: its two jobs share a patch
file.


## 2. Modules and their correspondence to the code

| Module | Models | State and actions |
|---|---|---|
| `ResolverPromise` | the abstract resolver | status and lookup of each call; begin, start, end, allow, deny |
| `DnsResolver` | `_resolve_all_global_addresses` and its worker | `pc`, `slots`, `worker`, `queue` and two timers per call; one action per blocking call or branch; refines `ResolverPromise` |
| `DnsResolverAsync` | `_resolve_all_global_addresses_async` | extends `DnsResolver` with coroutines, executor queue and threads |
| `PinnedConnect` | the abstract `connect_tcp` | connections opened, closed, returned between call and end |
| `ConnectRace` | the asynchronous `connect_tcp` | coordinator, children, closes, lock, clocks; one action per run of a task between two awaits; refines `PinnedConnect` |
| `SyncConnect` | the sequential `connect_tcp` | address, budget; refines `PinnedConnect` with its fairness |
| `RequestStream` | `_Bounded{Sync,Async}RequestStream` | one generator per iteration over shared counters |
| `RequestSafety` | `request_safety.py` and the declared length | operators only: one per check, and `Outbound`, what the pool receives |
| `ResponseSafety` | `response_safety.py`, the checks | operators only; extends `RequestSafety` |
| `HttpExchange` | `handle_request` and `handle_async_request` to the end of the response stream | composes `RequestSafety` and `ResponseSafety` with an external pool, several exchanges at once |
| `EgressUrl` | policy, URL validation, result, revalidation, request matching, decision record | a program that configures, validates, overwrites, pins, requests and records in any order |
| `ReleaseEvidence` | `build_evidence_manifest`, `write_evidence_manifest`, the second verification, and the other writers | 24 looks of a verification in the order of the code; no specification of its own |
| `ReleaseSbom` | the dependency graph, the lock binding and the SBOM | operators only; the traversal as a recursive function of the names on its path, and what its result should be |
| `PrepareEvidence` | `prepare_release_evidence`, up to the verifier | extends `ReleaseEvidence` and `ReleaseSbom`; 17 steps |
| `VerifyDistribution` | `verify_distribution` and the publication step of `release.yml` | extends `ReleaseEvidence`; 15 steps |
| `ReleaseCandidate` | runs of the three commands on one directory | composes the four; a run begins, stops anywhere, and is followed by another |
| `ProductGuard` | the develop and reverify jobs, capture and apply | one action per look at the workspace; edits, pushes and pull requests in between |
| `DnsResolverProofs`, `ConnectRaceProofs`, `SyncConnectProofs`, `RequestStreamProofs`, `HttpExchangeProofs`, `EgressUrlProofs`, `ReleaseCandidateProofs`, `ProductGuardProofs` | | invariants and theorems about the module each extends, `DnsResolverProofs` about both resolvers (section 5) |
| `MC*` | | constants of the runs |

Conventions. An operator preceded by a comment `Mutant:` is a wrong version of the
definition after it. It is used by no specification; it documents the fault that
the property named in `PROJECT.json` detects.

Time is relative: a variable counts down the ticks to a deadline or a timer. In
`DnsResolver` with `Prompt`, in `ConnectRace` without `Lag` and in `SyncConnect`
with `prompt`, time stands still while a thread or task of the library has a step
to take; otherwise it passes at any moment. What is claimed of deadlines under
prompt scheduling is therefore claimed up to scheduling delay, and what is claimed
without it holds whatever the delay.

Some correspondences that are not obvious:

- `DnsResolver!Acquire` succeeds whenever a slot is free, even with the timer at
  zero: `Semaphore.acquire` looks at its value before it gives up. The check at
  `validation.py:252` (`Expire`) exists for this case.
- `DnsResolver!CallAcquire` and `CallGet` start their timers in a step of their
  own, because time passes between the deadline and the blocking call.
- `ConnectRace!HandOver`: `asyncio.Lock.release` wakes the first waiter, and a
  later `acquire` queues behind it; the lock counts as handed over.
- `ConnectRace!Leave`: the `finally` clause of a child takes the lock again. If
  the lock is busy the child, its result in hand, waits, and can be cancelled.
- `ConnectRace!NoneCreated`: the ready queue of the loop is first in, first out,
  so a created child runs its first step before the coordinator wakes up again.
- `ConnectRace!WakeWon` and `CloseNext` only start a close: `gather` makes a task of
  `aclose()`. `CloseEnds` is its end: the stream is closed; or `aclose` failed or
  cancelled itself, which the gather keeps to itself (the stream is `unclosed`); or the
  task was cancelled with the coordinator, perhaps before its first step, and the stream
  stays in `toClose`. A gather that is cancelled resumes the coordinator only when its
  task has ended, which is why `Closed` waits for `closing = NoOne`.
- `ReleaseEvidence`: a content stands for its digest. A checksum list is the function
  from files to contents it lists, an SBOM a record with the archive it binds.
- `ReleaseEvidence!extras` are further archives, beyond the two with the names of the
  release. Selection (of the check, of the preparation and of the verifier) refuses them.
  The patterns of `release.yml:121` do not: `VerifyDistribution!ExpandPatterns` matches
  what is there, `CopyToPublish` copies all of it, and `Confirms` compares the names that
  the list has, as `sha256sum --check --strict` does, and no other.
- `Package` is the name and version that the file names give, `PackageOf` what the
  metadata of an archive declare. `build_sbom` writes the latter into the SBOM and
  compares the name only; `_verify_sbom` wants the former (`ReleaseEvidence!Parsed`).
- `PrepareEvidence!Copy`: a copy refuses a file that was replaced since it was
  selected, by its identity, but not one written in place; both outcomes are steps.
- `ProductGuard!Diff`: git knows the files of its index, so a file that appears later
  is in no diff; hard links look like files to git and not to `lstat`.
- `ProductGuard!Readable`: the capture takes any bytes without a NUL, the second job
  decodes the patch as UTF-8 before it reads it. A content may hold text that is not
  UTF-8 (`undecodable`), or that reads like a directive of a patch (`directive`).
- `HttpExchange`: the exchange owns its connection through the response stream
  until the stream is closed. The peer's reply is one step, as the pool hands the
  transport a complete head.
- `EgressUrl!Result`: the signature is a function of the four fields; the key is
  private to the module, so a forged field never carries a matching signature.


## 3. Runs, bounds and results

Passing runs terminate without error and reach every action of their module.

### `dns` (`MCDnsResolver.cfg`)

Three calls, two slots, a timeout of three ticks, prompt threads, symmetric calls.
Two slots and three calls are the least at which one call waits while others hold
and release; three ticks let a call spend part of its deadline in each wait. Shows
`SlotConservation`, `AnswerIsOfItsWorker`, `RefusedEarlyOnlyOnFailure`
and `InTime`.

### `async_live`, `async_narrow` (`MCDnsResolverAsync_*.cfg`)

Two coroutines, one executor thread, one slot, one tick, arbitrary delays, and
cancellation at any moment: the tightest configuration, in which every queue has a
waiter. Shows `EveryAwaitEnds` and `SlotsComeBack` (liveness), and that each behaviour
is one of `ResolverPromise`, fairness included (`KeepsPromise`). `async_narrow` is a
finding (section 6). With a thread for each call and prompt threads `AwaitInTime`
holds, which is proved (`AwaitInTimeWithRoom`, section 5).

### `race`, `race_leak` (`MCConnectRace_*.cfg`)

Four addresses, a delay of one tick, no deadline or one of three ticks, a late loop
and one cancellation. With four addresses two children queue behind one that
sleeps with the lock while a fourth connects, the smallest case in which the order
of the queue matters; three ticks let the deadline fall before, at and after each
start. Shows that starts are paced and in order, the count of active attempts is
exact, a denial has a reason, no task is left, observed streams are returned, closed
or failed to close by their own fault (a cancellation costs the winner, the stream
being closed and what was still to be closed, nothing else), the decision stands
whatever the closes do (`DecisionStands`), the race ends if closes end, and
`PinnedConnect` is kept. About 235,000 states. `race_leak`, with two addresses, is a
finding.

### `sync` (`SyncConnect.cfg`)

Five addresses, a budget of six ticks or none, a prompt or a late thread. The
budget is larger than the number of addresses, so both exhausting the addresses
and exhausting the budget happen. Shows `OverByDeadline`, `DeniedForAReason` and
the refinement of `PinnedConnect` with fairness.

### `body` (`MCRequestStream.cfg`)

Three interleaved iterations (a reader, a retry, a third), a budget of 8, a declared
length of 6 or none, chunks of 0 to 3 bytes: both limits are reached exactly and
overrun by one chunk. Shows `SentWithinBounds`, `CompleteIsExact` and `OneReader`.

### `http` (`MCHttpExchange.cfg`)

Two exchanges and a pool of one connection; requests and responses that are good,
or wrong in one respect each, the values on both sides of every limit included;
chunks of half the budget of 12; a decoded body up to three times its coding.
Shows that every wait ends (`EveryWaitEnds`), the request on the wire has one reading, bodies are as declared,
the decoded response fits its budget, and an exchange that is over holds no
connection.

### `url`, `url_dots` (`MCEgressUrl_*.cfg`)

Six policies that construction accepts and five it refuses, nineteen URLs, eight
resolver answers, two overwritten address lists. The names cover the five kinds
(development name, single label, dotted, address, invalid), the addresses the four
classes. One result and one client at a time suffice: the code keeps no state
between them. Two policies have the same hosts and the same ports in different
pairs, so that a fingerprint of hosts and ports alone would confuse them. Shows
`OnlyListedAuthorities`, `AddressFitsHost`, `PinnedAsResolved`,
`GenuineResultsPass` and `RecordsStandUp`. `url_dots` is a finding.

### `evidence` (`MCReleaseCandidate.cfg`)

Two runs of check, prepare or verify, in any order, each stopped anywhere; seven
initial directories of evidence, two of archives (in one of them the metadata of the
wheel have another version than its name), with or without a further wheel, nine
reviewed manifests (good diamonds with one and two roots, and one each with a cycle, an
unknown, an unneeded, a repeated and a wrongly pinned package); two writes of other
processes, the further wheel among them, anywhere among up to 70 steps. Two
writes allow the worst case for one command: change a file after it was parsed and
put it back before it is hashed. Two runs are the least at which a run meets what
another left. Shows `ManifestIsOneRelease` (of a manifest that is confirmed or left
behind), `VerifiedDirectoryExisted`, `SealedIsParsed`, `PublishedIsParsed`,
`SbomsAreLockBound`, and that the verifier accepts what an undisturbed preparation
wrote, but for an archive whose metadata give another version than its name
(`UndisturbedPreparationPasses`). `PublishedIsParsed` says of the two archives that
they are published as parsed, and of a further one that it is published only if another
process wrote: one that appears after the selection is published with the checksum list
untouched, and the run reaches that. About 1.9 million states.

### `hourly` (`MCProductGuard.cfg`)

Two revisions, four paths, of which one is executable, or a link, and one out of bounds; eighteen
contents, each beyond one bound or within all; two files may change; three edits
before or among the looks, pushes and pull requests at any time. Three edits exceed
each bound on several files, and let one change be validated and another captured.
Shows `HandoffWithinBounds`, which rests on the second validation, and
`RefusedForAReason`.

Deadlock is checked in `dns`, `async_narrow`, `url` and `url_dots`, whose systems
never stop, and in `async_live`. It is off in the others, where the modelled call,
exchange, command or workflow comes to its end and nothing follows.


## 4. Fairness

- Resolver: time passes and caller threads run (`Tick`, `Caller`). Nothing obliges
  the platform lookup to return: `getaddrinfo` may hang. `SlotsComeBack` assumes
  for its conclusion only that lookups return (`LookupsReturn`).
- Asynchronous resolver: in addition the event loop resumes coroutines whose result
  is there and the executor's threads take items. No fairness on cancellation.
- Race: time passes, the coordinator runs, ready children run: an event loop runs
  every ready task. Attempts may hang for ever unless cancelled; only without a
  deadline does `RaceEnds` assume that they end (`AttemptsEnd`). With or without one it
  assumes that every `aclose` ends (`ClosesEnd`): the code awaits a close without a
  timeout (`transport.py:82`), and one that hangs keeps the call past its deadline.
- Sequential connect: the thread runs and a blocking connect ends; httpcore's
  socket calls carry the timeout they are given. Without a timeout this is an
  assumption about the operating system's own connect timeout.
- Exchange: only that a timeout the pool was given expires. The peer owes nothing,
  and neither does the caller: the wait for a chunk of the caller's own body has no
  timeout in the code, and `EveryWaitEnds` does not claim an end of it.
- `RequestStream`, `EgressUrl`, `ReleaseCandidate` and `ProductGuard` state safety only:
  a command or workflow may die at any step.


## 5. Proofs

Every theorem holds for all values of the constants that the named assumptions
admit. The assumptions say that a constant is of the sort the code gives it (a
number, a sequence, a set of records); none bounds a size from above. Each
inductive invariant is called `IInv` and was model-checked before it was proved.
A step is taken apart by action, and each part of the invariant that an action can
disturb has a step or lemma of its own.

**Resolver** (`DnsResolverProofs`: `CallsAssumption`, `SlotsAssumption`,
`TimeoutAssumption`, `PromptAssumption`).

- `TypeCorrect`, `SlotsConserved`, `BoundedLookups`. The invariant: types,
  `SlotConservation`, and `NoWorkerYet`. Without `NoWorkerYet` a call that acquires a
  slot might be a holder already and the count of holders would not grow; with it
  each step adds or removes exactly the one holder its change of `slots` accounts
  for. Conservation in turn keeps `slots` in `0..MaxSlots` at both releases, which is
  why type and conservation are proved together.
- `AnswersOwned`, `NotRefusedEarly`, `NotKeptLate`, `ImplementsPromise`. `FullInv`
  adds `AnswerInv` (an answer is in the queue exactly between the put and the get)
  and `TimeInv` (a timed wait lasts at least as long as its deadline is away, and
  exactly as long on prompt threads). `NotKeptLate` assumes `Prompt`, as `InTime` is
  false without it. `ImplementsPromise` maps each step to a step of `ResolverPromise`
  or a stutter; the bound on running lookups comes from slot conservation.
- The asynchronous resolver, also with `PoolAssumption`, and cancellation at any
  moment: `AsyncSlotsConserved`, `AsyncAnswersOwned`, `AsyncImplementsPromise`
  (`KeepsPromise`, initial states and steps), `AsyncItemsKept`, `CancelledNeverBegins`
  and `AwaitInTimeWithRoom`. Every step of the asynchronous module is one of
  `DnsResolver` or leaves its variables alone, so `FullInv` carries over; what is new
  relates threads, queue and coroutines. `ItemsKept`: a call is in the executor's queue
  at most once, its lookup has not begun, and a coroutine that waits has its item there
  or its call on a thread. `CancelledNeverBegins` says of every step that a call
  cancelled before a thread took it starts no lookup.
  `AwaitInTimeWithRoom` proves `AwaitInTime` under two hypotheses, prompt threads and
  no more calls than threads; `async_narrow` shows that the second cannot be dropped.

**Race** (`ConnectRaceProofs`: `RaceAssumption`, any number of addresses, any delay,
any set of timeouts, any number of cancellations, a prompt loop or a late one).

- `TypeCorrect`, `AttemptsCounted`, `DeniedWithReason`, `NobodyLeftBehind`,
  `StreamsObserved`, `DecisionsStand`, and the action properties `StartsArePaced` and
  `StartsAreOrdered`. The parts of the invariant:
  `Tracked` and `Staged` relate the tasks, the children and the place of the
  coordinator, and say that the verdict is `cancelled` exactly when the call was
  cancelled and that a close is on only while the coordinator awaits it; `LockHeld` says that whoever sleeps, queues or leaves holds the lock or
  is in its queue exactly once, and that nobody else does, so that a release always
  wakes a child that waits; `InOrder` keeps the not yet started children of holder and
  queue in the order of their addresses, although finished ones stand between them;
  `CountKept` bounds `active` by the children in their counted section from below and
  by the launched ones from above, the second for the cancellations that the exact
  count does not survive; `NapsLastDelay` ties a sleep to the time since the last
  start; `ResultsKept`, `NothingLeftToTry` and `StreamsOwned` say what each result, each
  end of the loop and each open stream still means to the coordinator: an observed one
  that is open is the winner's, is still to be closed, or is `unclosed`.
- `ImplementsPromise`: each step of coordinator, child, lock and clock is a step of
  `PinnedConnect` or a stutter (`KeepsPromise`).

**Sequential connect** (`SyncConnectProofs`: `SyncAssumption`).

- `DeniedWithReason`, `BudgetShared`, `ImplementsPromise`. The invariant says that the
  addresses before the one at hand have failed and those behind it are untouched
  (`InTurn`), and that on a prompt thread the running attempt's timeout is what is left
  of the budget (`SharedBudget`), so that time never passes the deadline inside an
  attempt.

**Request stream** (`RequestStreamProofs`: `BytesAssumption`, `ChunkAssumption`).

- `TypeCorrect`, `BodyWithinBounds`, `BodyExact`, `OneReaderOnly`, `DenialsClose`. A chunk
  is checked against the count, so the count must be the bytes that left
  (`CountIsSent`); a refused chunk breaks that equality, so nobody may read after a
  refusal (`OneReader`); and the first reader must find both at zero
  (`NothingBeforeStart`).

**Exchange** (`HttpExchangeProofs`: `RequestsAssumption`, `ChunksAssumption`,
`ExpansionAssumption`, `PolicyAssumption`, any set of exchanges).

- `ComparedAsNumbers`: the comparison of a declared length with its budget, digit by
  digit and after leading zeros, decides whether the number is larger, for any number
  of digits. Its lemmas show that the decimal text of a number has no leading zero,
  that its value is the number, and that texts of equal length are ordered as their
  values.
- `OneReading` rests on what the filter `Named` keeps: after the caller's fields of the
  trusted names are dropped and one of each is appended, `Values` of such a name is one
  element, and every other name has the fields the preflight examined.
- `TypeCorrect`, `DeclaredBodies`, `DecodedBudget`, `NothingHeld`. The invariant: only what
  an admissible request becomes is on the wire (`Ranges`); past the preflight there is
  something on it, or the body is closed (`Dispatch`); a connection is held only where
  the code can still give it back (`Lent`); a body that was sent to its end is as long as
  declared (`Complete`); a reply whose body may be read is not coded (`Presented`), and so
  the count before decoding is the count after it.

**URL and pinning** (`EgressUrlProofs`: `UrlsAssumption`, `AnswersAssumption`, any sets of
policies, names and addresses).

- `ListedOnly`, `FittingAddress`, `PassesAgain`, `PinsTheAnswer`, `RecordsVouch`. The
  invariant: a result is `Sound` (its URL and its answer passed the policy of then) and
  bears the signature of its issue, whatever was written over its addresses (`Issued`);
  a client's result revalidated under the client's own policy (`Pinned`); a contact is
  where its client points (`Reached`); a record agrees with the result at hand and the
  policy in force (`Recorded`). The signature ties the addresses to the answer, the
  revalidation ties them to the policy: neither alone gives `FittingAddress`.
  `PassesAgain` needs normalisation to be idempotent, and that `Unique` of a list
  without duplicates is the list.

**Release candidate** (`ReleaseCandidateProofs`: `RunsAssumption`, `WritesAssumption`,
`DirectoriesAssumption`, `ReviewedAssumption` and `MarksAssumption`, any contents, any
number of writes and of runs, a stop anywhere). The last two say that a manifest has
lists of names without line feeds, as `_list` and `_text` require, and that no
file that was written to its end is like the marks for a file that is gone or torn.

- `OneRelease`, `DirectoryExisted`, `WhatIsSealedWasParsed`, `WhatIsPublishedWasParsed`.
  `Established` says what the looks so far have shown of the digests: the checksum file
  is the one that was parsed, it lists the digests that were taken, the identity is of
  the source asked for, each SBOM binds its archive and has the package of its name.
  `Confirmed` carries this to the
  manifest, in memory and on disk. `Instants` says that there was one instant, the end of
  the first pass over the files, at which each file was as digested that is so still or
  was found to be again by the second pass; a write cannot make a file of another
  content such a file while contents are `fresh`. When the second pass is over this is
  every file, which is `DirectoryExisted`. `Scratch`, `Prepared` and `Examined` say what
  the copies and the checksums of a preparation and of a check stand for; `Examined` in
  particular that as long as nobody has written, the archives there are, and those that
  are copied for publication, are the two that were selected.
- `SbomsBound` (`SbomsAreLockBound`) is about every manifest, of any number of packages.
  A visit of the traversal is `Sound`: unless it raises, the names are visited
  afterwards; if what was visited before was `Orderly` (packages of the manifest, closed
  under dependency, without a cycle), so is what is visited after it; and it adds only
  what every closed set with the names has. `OneSound` proves this of one visit from
  those on longer paths, `EachSound` of a list of visits, `VisitSound` of all, by
  induction on the number of names off the path, as does `VisitExists` that the
  recursive function is determined at all. A manifest that `_load_manifest` accepts is
  hence the closure of its roots and has no cycle (`LoadsOrderly`), and `Described`
  keeps, from step to step, that an SBOM was made from a manifest that is still the one
  that was bound to the lock.
- `OwnWorkPasses` (`UndisturbedPreparationPasses`). `Unimpeded` says what each file and
  each digest is after every one of the 17 steps when no one else writes; the last step
  leaves a `Whole` directory (`PrepareWhole`); `Seen` says that what a verification holds
  of such a directory is what is there, so that every look passes (`LookPasses`), in both
  verifications, and the manifest file is what was verified. That the SBOMs pass needs
  `AsNamed`, the archives having the package of their names, which no step of the
  preparation establishes: the theorem excepts the others. All of it is about the
  first run, as the property is: a later one may meet what a stopped one left.

**Product guard** (`ProductGuardProofs`: `BoundsAssumption`, `TreeAssumption`, any trees,
contents, bounds and edits).

- `HandedOffWithinBounds` follows from the last validation alone: of a tree that git
  wrote, the difference is exactly the changed paths, and each bound on the one is a
  bound on the other. `Shape` keeps hard links out of a patch; through one the two
  would differ.
- `JobsAgree` needs `Looked`: what each of the looks has found is true of the whole
  change as long as nobody has written the workspace, the sizes seen so far included.
  The patch is then that change, its application yields the same change again, and the
  second validation repeats the first; what remains is `Unreadable` text.

Induction over data. The induction theorems of the library take an operator as
parameter. Where a recursive function is reasoned about (`Named`, `Number`, `Decimal`,
`Unique`) the proofs use their set form instead: a set of numbers that contains 0 and
with each member its successor contains `Nat` (`AllOf`, from the least element that a
well-founded order provides), and a set of sequences closed under `Append` contains all
(`GrownSequences`). The traversal of `ReleaseSbom` is written as a function of the path,
and then of the name and of the names visited, for that reason: the induction is on the
number of names that are not on the path. Sums are never computed: `FieldBytes` of a request is the one that was
checked, and equal summands give equal sums.

Only model-checked are the liveness properties (`EveryAwaitEnds`, `SlotsComeBack`,
`RaceEnds`, `EveryWaitEnds`) and the fairness part of the refinements: liveness and
ENABLED are beyond the prover. Every invariant and every action property that a passing
run checks is a theorem.

The type invariants are proved, where the table above names them, and not run.


## 6. Disagreements between the code and its documents

- `async_narrow`: `README.md:70-71` promises synchronous and asynchronous validation
  the same `dns_timeout_seconds` deadline. The asynchronous path
  (`validation.py:300`) starts that clock only when an executor thread takes the
  call; behind other work the await lasts longer.
- `race_leak`: `docs/product/PRD.md:135` asks that loser tasks and rejected streams
  are cleaned up deterministically. `_cancel_and_wait_tasks` (`transport.py:150`)
  drops the results of its gather, so a task that connects while the coordinator is
  busy closing, or whose child waits for the lock in its `finally`
  (`transport.py:198`), ends with an open stream that nobody closes.
- `url_dots`: the docstring at `_policy_normalization.py:56-59` says a host name that
  IDNA rejects cannot match a policy entry. The fallback strips all trailing dots,
  so `api.example.com..` matches `api.example.com`. Everything after the match uses
  the canonical name, so the connection is to the listed host.


## 7. Abstractions, and what is not modelled

- Lengths are sequences of octets compared as text, as the code does. Field syntax
  (`_is_valid_http_field_value` and the token grammar) is one class, `malformed`.
- A host is a name and a number of trailing dots; IDNA mapping, punycode and case
  are inside the name.
- `HttpExchange` has no retries by the pool (they are `RequestStream`'s subject) and
  no keep-alive: a connection is either occupied or not. A close that fails, or is
  cancelled, on a denial leaves the same state: denied, the connection gone. A second iteration of a
  response stream is not modelled: HTTPX refuses it before it gets there.
- A child of the race that wakes late calls the backend with a budget of `0.0`
  (`transport.py:186`), even when an earlier attempt has connected meanwhile:
  `ConnectRace` has the step, and no property forbids the attempt itself.
- `ConnectRace` has no `KeyboardInterrupt` or `SystemExit` raised by a close, which
  `_close_connection_stream_best_effort` lets through: they end the event loop. A close
  that fails before it returns an awaitable is one that fails at once.
- A digest stands for what it is taken of. The fingerprint of a policy covers the
  fields that `EgressUrl` has; the numeric limits the code adds only refine it.
- In `ReleaseEvidence` a look at a file is one step; a look that overlaps a write
  yields some content, perhaps one no checksum lists. `VerifiedDirectoryExisted`
  carries the hypothesis `fresh`: no write brought a former content back. Without it
  the conclusion is out of reach of any verifier that reads file by file.
- A `KeyboardInterrupt` between the acquire of a lookup slot and the start of its
  worker loses the slot; the code makes no attempt to survive it, and no action
  models it.
- `ReleaseSbom` leaves out the grammar of the fields of a manifest (versions, hashes,
  markers) and the checks of ZIP and TAR bytes before an archive is parsed: an archive
  either is in `Declares`, with its requirements, or is refused. In the same way
  `VerifyDistribution` has one verdict, `Valid`, for the members and metadata of an
  archive, and leaves out the tag and the change log, which no other process writes.
  `VerifyDistribution!Snapshot` may refuse an archive that was replaced since the
  selection; the code takes a fresh `lstat` and refuses only a replacement during the
  copy. A further archive is its name and its content in one, and is never valid or
  parsed.
- `SbomsAreLockBound` carries the hypothesis that nobody edits the reviewed manifest
  between its two reads: `build_attestable_sbom` validates one read and translates
  another. An edit in between gives an SBOM that is not bound to the lock. Nothing in the
  code prevents it, and no property covers that hazard.
- Nothing stops an archive that appears in `dist/` after the selection from being
  published unparsed, as `PublishedIsParsed` allows for.
- `ProductGuard` has no renames (git is told not to detect them). It judges whole
  contents where `git diff --numstat`, `git diff --check` and the text of the patch show
  changed lines, added lines, and changed lines with those around them: what is odd about
  a content stands for what is odd about the lines that git shows of it. Mode, size and
  bytes of a file (`lstat`, then `read_bytes`) are one look: the bounds are judged once
  more after the patch is applied, when nobody writes. The credential checks, the container and the
  pull request that follows a handoff are outside the guard. The workflow's self test
  is not part of its operation.
- Not modelled: the TLS context policy (the state is the `ssl` library's) and the
  package surface (re-exports).


## 8. Plan

Order and composition. The core is what runs concurrently and guards the process:

1. `ResolverPromise`, `DnsResolver`, `DnsResolverAsync` and the proofs (done).
2. `PinnedConnect`, `ConnectRace`, `SyncConnect` and the proofs about the latter (done).
3. `RequestStream` and its proofs (done).
4. `RequestSafety`, `ResponseSafety`, and `HttpExchange`, which composes them with
   the pool (done).
5. `EgressUrl`: policy to pinned address (done).
6. `ReleaseEvidence`, `ReleaseSbom`, `PrepareEvidence`, `VerifyDistribution`, and
   `ReleaseCandidate`, which composes them (done).
7. `ProductGuard`: capture and apply of a bounded patch (done).
8. The client's lifetime: closing a client while exchanges go on, and connections that
   are kept alive.

The proofs cover every safety property of the runs. What they leave open is liveness,
which stays with TLC, and the three disagreements of section 6, which no proof can
settle. A larger model would take the remaining grammar of manifests and archives
(section 7) and the lifetime of a client into account.
