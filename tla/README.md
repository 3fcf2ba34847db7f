# TLA+ models of the TDX / TPM attestation service

This directory holds TLA+ modules that model the attestation server of this
repository, TLC configurations that check them on small instances, and TLAPS
proofs that hold for every size of the instances. `PROJECT.json` maps every
definition to the source lines it stands for. Paths below are relative to the
repository; line numbers of the code are in the map.

## The system

The server is a Rocket application. A request is handled by a synchronous
function on a worker thread of the async runtime; requests run concurrently.

| Component | Code | State it keeps | Operations |
|---|---|---|---|
| TPM transaction | `src/tpm.rs` | the mutex of `TpmState` with its poison flag, the cached public key `TpmInner::ak_pubkey`; a `Scratch` directory per request | `information_tpm`, `quote_tpm`, `attestation_all`; under them `measure_folder`, `ensure_ready`, `reset_pcr`, `extend_pcr`, `read_pcr`, `ensure_ak`, `create_quote`, `ak_pubkey`, `flush_transient` |
| TPM simulator | `tpm-simu/` | volatile: started or not, the PCR, loaded transient objects; in NV: the persisted attestation key | the `tpm2_*` commands; `start.sh`, `stop.sh`, re-manufacturing |
| TDX report | `src/attestation.rs` | none | `generate_tdx_report` (ioctl on `/dev/tdx_guest`) |
| Verification | `src/attestation.rs`, `src/tpm.rs`, `kmod/tdx_verify.c` | `SCRATCH_COUNTER`, the scratch directories in the temporary directory, the loaded module | `verify_report`, `verify_all`, `verify_quote`, `Scratch::new` and its drop, the ioctl |
| Timing metrics (debug builds) | `src/metrics.rs`, fairing in `src/logging.rs` | `INFLIGHT`, `FILE_SEQ`, the thread-local `CURRENT`, a recorder per request | `begin_request`, the `Timing` guard (`begin`, `end`), `enter_handler`, spans and counters, `record_response`, `Drop for Recorder` |
| Challenge | `src/tpm.rs` | none | `resolved_nonce`, `normalize_nonce` |
| Folder measurement | `src/tpm.rs` | reads the measured directory | `measure_folder`, `collect_regular_files` |
| GPU attestation | `src/gpu.rs` | none | `run_script`, `parse_gpu_attestation` |
| Report parsing | `src/report.rs` | none | `parse_tdreport` |
| Log file | `src/logging.rs` | the sink and its mutex | `event`, the panic hook |
| Routes and catchers | `src/api.rs`, `src/lib.rs` | none; a handler occupies a worker thread | the handlers, `ApiError::respond_to`, the catchers |
| Timestamps | `src/tpm.rs`, `src/logging.rs`, `src/metrics.rs` | none | `utc_timestamp`, `timestamp`, three copies of `civil_from_days` |
| Simulator scripts | `tpm-simu/scripts` | the PID file, the port, the process | `start.sh`, `stop.sh`, `status.sh` |

**How they interact.** The three TPM routes and `verify_all` share the
`TpmState`; only the first three take its lock. They talk to the simulator
through one `tpm2_*` process per command, which opens a new connection each
time; the simulator is started and stopped behind the server's back. Files are
exchanged with the tools through a scratch directory. `attestation_all` calls
the TDX driver while it holds the TPM lock. The metrics fairing is called back
by Rocket around every request, the guard before the handler.

**What is hard.** A transaction is about ten processes long and anything can
happen between two of them: the simulator restarts (the PCR is lost, the TPM is
not started), a tool fails with or without effect, the handler panics with the
lock held, the server is killed, another request waits for the lock. The key is
provisioned by check-then-act over four commands. Verifications run without the
lock. The metrics use a thread-local across an await. `hazards` in
`PROJECT.json` lists all of these at their lines, with the properties that
would catch them going wrong.

**What makes each component correct.**

* TPM transaction: the parts of a response belong together; a key is created
  only at an empty handle; the public key is that of the quote; nothing left
  behind by an earlier request makes a later one fail; every request is
  answered; altogether, it is indistinguishable from an indivisible attestation.
* Verification: "trusted" is only said of evidence that was verified in this
  request; no request sees the files of another.
* Metrics: samples are booked to their own request, at least where no body is
  awaited; `INFLIGHT` counts the live requests up to a bounded excess.
* Timing records: the stages of a record add up, on every path out of a handler;
  the pairs that `checksum_ok` compares are nested.
* Challenge: exactly the texts that denote one challenge of 1 to 64 bytes are
  accepted, and quote, report and evidence are bound to those bytes.
* Folder measurement: an undisturbed directory has one measurement; what does not
  change is measured exactly whatever else changes; the digest stands for one list
  of names and contents.
* GPU parsing: the result is what the whole text says, and lines go to the device
  and the chain they stand under.
* Report parsing: no field shows bytes of another.
* Service: every request ends, the audit log tells the story of every answered
  request, a hanging tool harms only those who need it.
* Timestamps: the date is that of the calendar, later times sort later.
* Scripts: the PID file names the simulator that runs; `stop.sh` stops it.

## The modules

| Module | Models |
|---|---|
| `Evidence` | challenges, `REPORTDATA`, the response body, and `Consistent`: what one response may carry |
| `Attester` | the abstract specification: asked, attested in one step or refused, one key provisioned once |
| `TpmBackend` | the transaction, the simulator, the environment; the refinement mapping to `Attester` |
| `Metrics` | the timing instrumentation |
| `Verification` | the two verification routes, the kernel module, the scratch directories |
| `TimingRecord` | the spans of every route, their buckets, the residual and `checksum_ok` |
| `Service` | routes, catchers and audit log on the worker threads |
| `OrphanedTool` | `TpmBackend` with commands of a killed server that take effect later |
| `FolderMeasurement` | the walk over a changing file system, and the digest |
| `Challenge` | from the text of a challenge to the bytes everything is bound to |
| `GpuParser` | `run_script` and `parse_gpu_attestation` |
| `Tdreport` | the decoding of a TDREPORT |
| `Calendar` | the three `civil_from_days` and the timestamps |
| `SimulatorScripts` | `start.sh` and `stop.sh` |
| `StatelessParts` | composes `GpuParser`, `Challenge`, `Tdreport`, `Calendar` and `TimingRecord`: one call of one of them |
| `TpmBackendProofs` | theorems about `TpmBackend`, that it implements `Attester`, and theorems about `OrphanedTool` |
| `VerificationProofs`, `MetricsProofs`, `ServiceProofs`, `SimulatorScriptsProofs`, `FolderMeasurementProofs` | theorems about the module of that name |
| `StatelessPartsProofs` | theorems about the timestamps, the challenges, the TDREPORT and the GPU parser |
| `TimingRecordProofs` | theorems about the timing record, and the types of all the parts of `StatelessParts` |
| `MC*` | symmetry sets and small constants for TLC |

### TpmBackend

One action is one step of one request: taking the lock (`Lock`), one file
system or device access (`NewScratch`, `MeasureFolder`, `GenerateTdxReport`) or
one `tpm2_*` process, together with the `flush_transient` process that precedes
it (`ResetPcr`, `CreateEk`, `CreateQuote`, ...). `pc[r]` is the next step,
`body[r]` what the handler has computed so far and, once `pc[r] = "done"`, the
response. The three routes share their steps as the code does; they differ in
`AfterEnsureAk`, in `CreateQuote`'s successor and in what a key error means
(`AkFails`).

Data are abstracted to what the properties tell apart. A PCR is the sequence of
digests extended since its reset (extending is a hash chain, so PCR values are
equal exactly when these sequences are). A key stands for its public part and
its signatures. A challenge is a sequence of bytes; `report_data_from` pads it
as the code does.

A tool has three outcomes. It works when the command can work in the
simulator's present state; it fails by itself (missing, not spawned, killed,
connection lost), and then the command may have had its effect or not; it fails
because the command cannot work: 501 when the simulator is down, 500 otherwise
(`tpm2_errors`, from `tpm2` and `classify_failure`). `ensure_ready` swallows
every error except "unreachable". Transient objects: `tpm2_createek` and
`tpm2_createak` leave objects loaded, a failing tool may, and a load fails when
the slots are full.

`faulted[r]` is a history variable: it records that the environment disturbed
request `r` itself - a tool of its failed by itself or the simulator stopped
while it held the lock. It guards nothing and only serves `NoSpuriousFailure`.

Environment actions: `SimStop`, `SimStart`, `Remanufacture` (start.sh with
`TPM_SIM_ARGS=-m`), `Panic`, `Crash` (the server is killed and restarted).

### Verification

`Receive` is the handler's decoding, `VerifyTdxReport` the whole of
`verify_tdx_report` with the ioctl of the kernel module (which works on a page of
its own and keeps no state), then the steps of `verify_quote`: the counter, the
directory, the decoding, three file writes, `tpm2_checkquote`. `Crash` leaves
the directories behind and may give the server its old process id, as it always
does in a container.

### Metrics

A request holds a thread from its arrival until it awaits; the only await
between the guard and the handler is the one for the body (`Suspend`,
`Resume`). `Alive` is the set of recorders with a reference, `Drop` takes from
`INFLIGHT` those that lost their last one. `hits[r]` is a history variable: the
recorders that the measurement points of `r` reached.

### TimingRecord

A handler is the sequence of its measurement points: spans opened and ended,
scratch directories made and dropped, and `Try` wherever the code has a `?`. `Step`
executes the next point, `EarlyReturn` takes a `?`, and `Unwind` then drops what
is in scope, innermost first, as Rust does. `staged` is a history
variable: the time during which some stage was open. A tick is 1000 microseconds, the smallest tolerance of `checksum_ok`. Consecutive
`tpm2_*` commands are one unit; all of them enter the checks in the same way.

### Service

A request occupies a worker from `OnRequest` on, gives it back while its body is
awaited (`Route`, `BodyRead`), and keeps it while it waits for the lock or for a
tool. The backends are reduced to what this level sees of them: they take the
lock or not, return, panic or hang. `log[r]` is the log's lines about `r`; a line
is written under the sink's mutex, in one step, or is lost when there is no sink
or the disk is full. `ApiError::respond_to` and every catcher log before they
answer, which is why `Answer` writes the error line. The lines of one request are
kept apart, so the interleaving of requests in the file is not represented.

### OrphanedTool

`CrashOrphans` is a crash during `tpm2_startup`, `tpm2_pcrreset`, `tpm2_pcrextend`
or `tpm2_evictcontrol`, the commands with a lasting effect; the process goes on, and
`OrphanLands` is the moment its command reaches the simulator. `disturbed` is a
history variable. Everything else is `TpmBackend`.

### FolderMeasurement

Each access to the file system is a step: `read_dir` of one directory,
`symlink_metadata` of one child (`Visit`), `canonicalize` and `metadata` of a
link, `fs::read` of one file. `Change` replaces what is at one path between any
two of them. Path components are sequences of letters, so that a file name may
contain a backslash; `Name` loses the difference between the separators, as
`replace('\\', "/")` does. `touched` and `sources` are history variables: the paths
changed since the start, and where contents were really read from. SHA-256 is an
injective symbol; `total` is the string fed to the hasher of `total_hash`. `Sorted`
is what a sort does, not how: the one arrangement of a set in which each element
comes before the next. `Resolve` follows a chain of at most `MaxLinks` links, as
the kernel follows 40; a longer one counts as a loop.

### Challenge

A client writes one or both fields character by character (one hex digit besides
`a` and `A`, a blank, a letter outside ASCII), then one of the three routes
handles it. The passes through `resolved_nonce` and `normalize_nonce` are all
there, in the handler, the backend and `create_quote`. The reference, `Writes`,
says without trimming or normalising when a text denotes a challenge.

### GpuParser

One action for each branch of the loop of `parse_gpu_attestation`, on classes of
lines; `SetEntry` is the inner match on the key of a chain. A line also says whether
it contains the word `successful`, and whether it means it (`denied` stands for
`unsuccessful` and the like); `HasWord` is the code's test, on whichever line is the
summary. `RefDevices` and `RefSummary` say what a text means as a whole: which
header a line stands below, which line of a key is the last. `ReportsSuccess` is the
script's own verdict, from what its last line without a colon means and not from the
code's test.

### Tdreport

Reports have the real 1024 bytes; a client changes one byte at a time or sends a
wrong length. The two action properties compare the decoded fields before and
after the change, and so find the bytes a field is made of without repeating the
offsets.

### Calendar

The clock advances day by day from any new year, and the date is counted along
with the lengths of the months; the code's closed formula is compared with it. The
three copies of `civil_from_days` in the source are the same text and are one
operator here; the three timestamps are separate.

### SimulatorScripts

A step of a script is one access to the PID file, the port or a process.
Simulators bind late, die, or ignore SIGTERM; other programs get process ids that
have become free. Invocations of `stop.sh` may overlap; `start.sh` runs alone.

### StatelessParts

The five parts keep nothing between calls and share no state, so their states are
explored side by side in one run instead of as a product: `part` says which one is
called, and the others stay as they are initially. Each property is the one of the
part's own module. The assumptions on the constants of the parts are stated here.

## The runs

| Run | Expect | Shows |
|---|---|---|
| `tpm_backend` | pass | `EvidenceConsistent`, `CreatesOnlyWhenEmpty`, `NoSpuriousFailure` with two requests, two digests, two keys, three slots, every fault, re-manufacturing included (156 000 states) |
| `tpm_refinement` | pass | `ImplementsAttester`, `PubkeySignedQuote`, `EveryRequestAnswered` without re-manufacturing (250 000 states) |
| `tpm_stale_key` | violation | with re-manufacturing the public key returned is not that of the quote |
| `orphaned_tool` | pass | `DamageContained`, `KeyProvisionedOnce` with commands of a killed server that take effect late (650 000 states) |
| `metrics` | pass | `GuardedSamplesAttributed`, `InflightBounded`, `ConcurrencyCountsSelf` for all routes (23 000 states) |
| `metrics_mixed` | violation | a request that awaits its body loses samples or books them to another |
| `verification` | pass | `TrustedMeansVerified`, `ChecksOwnEvidence`, `ScratchPrivate` (126 000 states) |
| `verify_all_doc` | violation | `verify_all` answers 400 where its comment promises `trusted=false` |
| `service` | pass | `AuditComplete`, `EveryRequestEnds`, `HangIsContained` with panics, hanging tools, a failing log and clients that leave (340 000 states) |
| `folder_measurement` | pass | `UndisturbedExact`, `UntouchedExact`, `TotalBindsEntries`, `SourcesInside` (1 200 000 states) |
| `stateless_parts` | pass | GPU text: `ResultMatchesText`; challenges: `AcceptedIffMeant`, `BoundToOneChallenge`, `RoutesAgree`; TDREPORT: `OneByteOneField`, `LayoutRespected`; timestamps: `StampCorrect`, `StampsIncrease`; timing records: `StagesAddUp`, `PairsNested` (1 930 000 states) |
| `simulator_scripts` | pass | `PidFileNamesSimulator`, `StopStops` for four invocations (1 200 000 states) |

**Bounds.** Two requests suffice for every interference the lock or the scratch
names could allow: the properties relate one request to what one other left or
does. Two digests tell a stale PCR from a fresh one. Two keys allow one
re-creation; a key that was lost in a re-manufacture is not created again, and
when all keys are used `createak` can only fail as a tool. Three slots are what
the simulator has; the largest command needs two. `Width = 2` and the challenges
`<<1>>` and `<<1, 0>>` are two challenges with the same padded `REPORTDATA`. Each
request is sent at most once, which bounds every behaviour. `metrics` uses three
requests on two threads, so that threads are reused. Symmetry is used for
requests, digests, keys, threads and process ids in runs that check invariants
only; the runs that check temporal or action properties use none.

`service` has two workers and as many requests, which is enough for both to wait
for the lock, for one to wait for a worker while the other awaits its body, and for
a ping beside a tool that hangs. `orphaned_tool` keeps two requests, of which one is
killed and one hit. `folder_measurement` uses the paths `a`, `a/b`, `a\b` and `b` and
a file outside the root: the smallest tree with a subdirectory, two paths of one
name, and links in and out; two changes allow one before and one after a check; no
chain in this tree that ends has more than two links, and `MaxLinks` is three.

In `stateless_parts` the challenge has `Width = 2` for the 64 of the code, so that
six characters (`MaxTyped`, of both fields together) reach one byte too many, or the
full width with blanks around it, or one byte in each field with blanks. Four lines
of GPU output hold a device, a chain, a field of it and one line more, in every
order. The years 1970 to 2370 are one whole cycle of the Gregorian calendar. Three
ticks can fall anywhere in a timing record; longer spans only add to the same sums.

**Deadlock.** The TPM and verification runs check for deadlock; there the
environment can always move. The metrics model has no environment and stops when
all requests are gone, so its configurations disable the check. The same holds
for `Service`, `FolderMeasurement`, `SimulatorScripts` and `StatelessParts`, whose
requests, scripts and texts come to an end. In `Service` a request that is stuck is
found by `EveryRequestEnds` instead.

**Fairness.** `FairSpec` is weak fairness of the steps of each request that has
been received: a tool or device call returns, and a free mutex is granted. The
code has no timeout (`Command::output` waits for ever), so the former is an
assumption about the tools. Nothing is assumed of the environment: the simulator
may stay down for ever or restart for ever. Weak fairness of `Lock` is enough
with finitely many requests, because each returns the lock.

`Service!FairSpec` is weak fairness of the steps of each request: workers run,
a free worker takes up a request that waits for one, a free mutex is granted, a
client sends the body it announced or goes away, and a tool that does not hang
returns. Panics, hanging tools, clients that leave and the disk are not fair.
`EveryRequestEnds` speaks of the behaviours in which no tool hangs.

## Where the code and its comments disagree

Three disagreements have a run of their own:

* `ak_pubkey` is read from the TPM once per server process. `README.md` says the
  returned key is enough to check the quote; after a re-manufacture of the
  simulator it is the key of the lost identity until the server is restarted
  (`tpm_stale_key`). Everything else in the response stays consistent.
* The comment in `src/metrics.rs` argues that a thread-local is safe because a
  handler does not await. The guard that sets it runs before the body is awaited
  (`metrics_mixed`). Routes without a body are safe whatever the others do, and a
  slot that keeps the recorder of a finished request overstates `INFLIGHT` by one
  at most per thread (`metrics`).
* The comment on `verify_all` contradicts its own error list (`verify_all_doc`).

Others show in the properties that do hold, which had to be stated with an
exception:

* Stages of the timing record are said to be mutually exclusive
  (`src/metrics.rs:38`); on `verify_all` the scratch directory is removed inside
  `tpm_verify_us` and booked to `scratch_drop_us` as well (`CountedTwice` in
  `StagesAddUp`). Units are said to be parts of a stage (`src/metrics.rs:40`); on
  `/verify-report` and `/attestation-with-randomnumber` the ioctl is in none, so
  that `StagesAddUp` does not count it. `checksum_ok` adds up nested units
  (`src/metrics.rs:484`), a rule the field guide does not list, so `PairsNested`
  covers only the other rules.
* `/ping` is said to answer always (`src/api.rs:181`). Handlers block workers and
  no tool has a timeout, so `HangIsContained` needs a worker that is left.
* The mutex is said to make reset, extend and quote indivisible
  (`src/tpm.rs:687`); it cannot hold back a process of a killed server.
  `DamageContained` says that one response can be affected and no more.
* A link is checked during the walk and followed again when the file is read, so
  `SourcesInside` needs a directory that does not change. The digest is said to
  bind the path of every file (`src/tpm.rs:57`); backslashes in names become
  slashes, so `TotalBindsEntries` speaks of names.
* The GPU parser is said to ignore a line it does not understand
  (`src/gpu.rs:251`), and `successful` to be what the script reported
  (`src/gpu.rs:134`). A `key: value` line with an unknown key, or with a known one
  out of place, becomes the summary, and the summary is searched for `successful`:
  such a line after the verdict replaces it, and one that holds the word is a
  verdict, as is `unsuccessful`. `ResultMatchesText` therefore speaks of the verdict
  only when it is a line without a colon that comes after all of these
  (`VerdictLast`), as in the output that the tests quote.
* The PID file is right as long as nothing runs beside `start.sh`; of two starts
  at once, the one whose simulator finds the port taken removes the file of the
  other's. A stale file is not recognised when its process id is in use again:
  `stop.sh` then ends another program, and `StopStops` speaks only of simulators.

## The proofs

### The TPM transaction

`TpmBackendProofs` proves, for every number of requests, digests, bytes, keys and
slots, with and without re-manufacturing:

* `TypeCorrect`: `Spec => [](TypeOK /\ HasChallenge /\ MeasuredFirst)`. The type
  of the PCR needs to know that only measured digests are extended, and that of
  the TDX report that the caller has a challenge, so the three are proved
  together.
* `Exclusion`: `Spec => []MutualExclusion`.
* `Transaction`: `Spec => []TransactionInv`, the inductive invariant of the
  transaction, and from it `EvidenceIsConsistent`: `Spec => []EvidenceConsistent`.
* `NoKeyIsReplaced`: `Spec => []CreatesOnlyWhenEmpty`.
* `PubkeyMatches`: `~Remanufacturing => (Spec => []PubkeySignedQuote)`. The
  hypothesis is needed: the run `TpmStaleKey` shows the violation without it.
* `OnlyFaultsFail`: `Spec => []NoSpuriousFailure`.

`EvidenceConsistent` speaks of finished requests only and is far from inductive.
`TransactionInv` adds, for each step of a transaction, which parts of the response
are known and how they relate (`BodyStage`), and what the PCR holds (`PcrStage`).
The latter is where the argument lies: `PcrStage` claims the PCR's content only
while `started` holds. A restart of the simulator empties the PCR but also clears
`started`, only `EnsureReady` sets it again, and `EnsureReady` is executed by the
lock holder before its reset, never between its reset and its quote; and by
`Exclusion` no other request can execute it meanwhile. Every command in between
needs a started TPM, so it either sees the PCR as this request left it or fails.
The mutant `StartupBeforeQuote` shows that it would indeed be lost by a second
`tpm2_startup`.

`NoKeyIsReplaced` rests on `Exclusion`: `ensure_ak` looks for the handle and
persists a key three commands later, and no other request can be in `ensure_ak`
between the two.

`PubkeyMatches` needs `KeyInv`: a filled cache holds the TPM's current key, and so
does the quote of a request that has one. Without re-manufacturing a persistent
key never changes once it exists, since `tpm2_evictcontrol` fails at an occupied
handle; the inductive invariant `OneKeyInv` adds that a key exists once something
has been signed, and that the public key is the last part of a response that
becomes known. It needs neither the mutex nor what the PCR holds, which is why it
carries over to the commands of a killed server below.

`OnlyFaultsFail` needs `HealthInv`: a request that nothing disturbed has a running
and started simulator from `EnsureReady` on and a persistent key after
`ensure_ak`; and a flush that worked leaves room for every object the request
loads before the next one, which is where `MaxSlots >= 3` is used.

The lemmas follow the shape of the model: one for each way a handler goes on
(`Continue`, `Return`, `Abort`, `CommandFails`, `AkFails`), then one case per
action.

### The refinement

The second part of `TpmBackendProofs` proves `~Remanufacturing => (Spec => ImplementsAttester)`:
the initial states are initial states of `Attester`, and every step maps to one of
its steps or to none. A step of a handler has one of three outcomes (`Outcome`):
the request is still being served, and then the abstract state does not change; it
is refused, with an error and an empty body; or it is served, and then the key that
signed the quote is the persisted one (`OneKey`) and the body is consistent
(`EvidenceIsConsistent`), which is what `Attester` requires of an answer that
appears in one step. The first key is provisioned by the step of
`tpm2_evictcontrol`, which is `Attester`'s `Provision`, or a refusal that finds it
provisioned when the tool fails after its command took effect; `NoKeyIsReplaced`
makes it the only one. Without the hypothesis the abstract key would change.

### Commands of a killed server

The third part proves `OrphanSpec => []DamageContained` and, without
re-manufacturing, `OrphanSpec => KeyProvisionedOnce` and
`OrphanSpec => []PubkeySignedQuote`. `TransactionInv` is false
here: a late `tpm2_pcrextend` changes the PCR in the middle of a transaction. But it
is a statement about each request, `RequestInv(r)`, and the proof of a step of `r`
uses only `RequestInv(r)`, the types and mutual exclusion. So it is kept for every
request that no late command has fallen into (`OrphanInv`); a request that comes
after the command resets the PCR and is not affected. The lemmas about the steps are
those of the first part.

`CreatesOnlyWhenEmpty` is false here too: a late `tpm2_evictcontrol` may persist a
key while a new server is between its check and its own `tpm2_evictcontrol`.
`PubkeyMatchesWithOrphans` shows that this does no harm beyond that request: the new
server's command fails at the occupied handle, and for every request, hit or not,
the public key returned with a quote is the key that signed it. The invariant is
`OneKeyInv` again, with one more step for a late command.

### Verification

`VerificationProofs` proves `ScratchPrivate`, `ChecksOwnEvidence`,
`TrustedMeansVerified` and `TypeOK`, for any finite set of requests. The inductive
invariant says that a request at work has a directory `<<pid, c>>` of the present
process with a number `c` that the counter has passed (`DirInv`), which is why the
next number is nobody's although the directory may exist, left by a killed server
of the same process id; and that what it has written so far is still its own
(`FilesInv`), since files are overwritten only by the owner of the directory. The
bound of the counter's type needs `CounterInv`: it is not larger than the number of
requests past `fetch_add`.

### Metrics

`MetricsProofs` proves `GuardedSamplesAttributed`, `InflightBounded`,
`ConcurrencyCountsSelf` and `TypeOK`, for any finite sets of requests and threads.
`SlotInv` says whose recorder a slot may hold: that of a request without a body only
between its guard and the end of its handler, and then it is in the slot of the
thread that runs it (`WorkerInv`: no two requests share a thread). `CountInv` says
that `INFLIGHT` is the number of recorders alive. The bound follows by counting:
the recorders that outlive their requests are each in some slot, so there is a
surjection from slots onto them.

### Service

`ServiceProofs` proves `AuditComplete` and `TypeOK`, and that the TPM lock is held
exactly by a request that runs tools under it (`LockHeld`), so that no error and no
panic leaves it locked. `AuditComplete` speaks of finished requests; `LogInv` says
for each step which lines there are, for the requests about which no line was lost.

### Simulator scripts

`SimulatorScriptsProofs` proves `PidFileNamesSimulator`, `StopStops` and `TypeOK`.
Scripts learn about simulators by reading the file and asking for the process, and
the knowledge must survive what others do. `ScriptInv` says what an invocation
knows at each step: that there is no simulator (`Gone`), or which process is the
only one that can be one (`Known`); it survives other invocations of `stop.sh`
because these only end simulators, and nothing starts one because `start.sh` runs
alone (`AloneInv`). The file names every simulator except between the launch and
the end of `echo $! > file` (`FileInv`). The assumption that the empty file is
not a process id is new with this proof.

### Timestamps

`StatelessPartsProofs` proves `StampCorrect` and `StampsIncrease` of the timestamps
for every last year. The clock's days and the date, which is counted day by day, are related by
`DateInv`: days since 1 March of year 0 are the days of the years before
(`DaysBefore`) and of the year that began in March (`MarchDay`). It is kept at the
end of a month (`Tomorrow`), where the end of February needs that the leap years
up to a year grow by one exactly in a leap year (`NextLeap`). `CivilOf` shows that
`civil_from_days` inverts this sum. A year is written with the digits of its place
in the 400 years of an era, `400 e + 100 c + 4 q + r`; on those the formula's
corrections by `doe / 1460`, `doe / 36524` and `doe / 146096` are linear, and
`YearOfEraOf` shows that they are exact also on the last day of a leap year, of a
century and of an era, where one of them overshoots by one.

### Challenges

`StatelessPartsProofs` proves `AcceptedIffMeant`, `BoundToOneChallenge` and
`RoutesAgree` for every bound on the text and every width of the field. `Trim` is
shown to return the part of a text between the blanks around it, whatever they are
(`from` and `to` of `Writes`), so that a text denotes a challenge exactly when its
trimmed part is an even number of hex digits, and the bytes are unique. Two
spellings are then compared as `resolved_nonce` does, after lowering; equal bytes
have equal lowered spellings because each half byte has one. `ChallengeInv` says
that an outcome is what the route's function makes of the fields as they are.

### TDREPORT

`OneByteOneField` and `LayoutRespected` are proved of the real offsets. `ReportInv`
says that the answer is the decoding of the report; a step that changes one byte
changes each decoded field exactly in the digit of that byte, if the field has it,
and the twenty intervals of bytes are compared with each other and with the layout.

### The GPU parser

`ResultMatchesText` compares the end of a loop with sets and maxima over the whole
text, and says nothing before the end. `GpuInv` says it at every line: between two
lines the devices pushed are the devices of the headers before the last one, the
current device is what the lines below the last header say, with the index its
header gives or its number among the headers, and the current chain is the last
chain header below it (`Between`). The proof shows what one more line does to
each part of the reference: the lines of a device, of a chain, of a key, and the
last of them (`LastLine`, `ChainGrown`, `FieldsGrown`, `NamesGrown`, `ChainsGrown`,
`HeadersGrown`), and for each branch of the loop that this is what the code does.
`GpuParser!ReadLine` is then kept for texts of any length, any fields and any
chains. For the verdict, `VerdictIsSummary` shows that the last line that belongs
nowhere is the script's verdict when the verdict comes last, so that the code's test
of the summary and the meaning of that line agree.

### The timing record

`TimingRecordProofs` proves `StagesAddUp` and `PairsNested` for all handlers. A
program is followed once, with the tags in scope at each point (`Runs`), which
settles what a handler opens and in which order it is closed, on the straight path
and after an early return. `TimeInv` then keeps, for each stage, unit and phase,
what was booked and what the open span will still add: the stages booked and those
open are the time spent in some stage (`StageAccount`), and a child's account is
covered by its parent's. The sum over a set of names that grows is taken by
removing one name (`SmallestSet` replaces induction on sets).

`TypesHold` proves `StatelessParts!TypeOK`, the types of all five parts, from the
invariants of the parts. The day of the era stays below 146097 (`ClockTypes`), so
the formula of the timestamps never leaves the range that it is meant for.

### The folder measurement

`FolderMeasurementProofs` proves all five properties, for any tree of paths, any
nodes, any number of changes and any limit on the links that are followed.

* *Paths.* `Resolve` is a recursive function of the number of links left and the
  path. It is shown to have the value its definition says at every argument, and
  the rest of the proof uses that equation: where nothing on the way to a path is a
  link, a path leads to itself (`Place`).
* *The walk.* `WalkInv` says that the paths collected, the one being examined and
  those yet to be visited come in the order of the walk, all different and none
  below another (`Apart`, `StackOrdered`, `OrderInv`); that a directory in which
  nothing on the way has been touched is really there (`PlaceInv`); and that every
  file that has to be measured has been collected or lies below something that is
  still to be visited (`FoundInv`). `FoundInv` is the loop invariant of a
  recursion whose tree changes underneath it.
* *The reading.* `ReadInv` says that what is read is the sorted list up to a place,
  and that the content is that of an untouched file. As the collected paths are
  different, `UntouchedExact` follows; as a set has one sorted arrangement
  (`ListsUnique`) and the walk takes paths in order, the stable sort by name gives
  ties by path, and `UndisturbedExact` follows.
* *The digest.* `TotalInv` gives the places in the string at which the entries
  start; `Decode`, reading a length at each, is led along these places to the end.
  Names may contain any byte: the length is what separates them.

### Recursion without induction

The provers cannot use the library's induction theorems. Where a recursive
function `f[x \in D]` has to be evaluated, a value `g` that satisfies the equation
is given explicitly or collected from the parts, so that `CHOOSE` has something to
choose; two solutions are equal because at a least argument where they differ the
equation makes them agree. The existence of a least argument is the
well-foundedness of `Nat` (for `Resolve` once for the links left and once for the
length of the path) or of proper subsets, which the library states without an
operator parameter. `Resolve`, `Decode`, `FlattenSeq`, the sums and the sorted
arrangements are treated like this.

### Assumptions

The named ASSUMEs of the modules and nothing else: requests, threads, paths and
nodes are finite, special values are none of the ordinary ones, the routes and
the fields of the parsers are those of the code, the simulator has three slots, a
second of the day is less than 86400. `~Remanufacturing` is a hypothesis of the
theorems that say so. TLC evaluates the assumptions on every run. The inductive
invariants of `OrphanedTool`, `SimulatorScripts`, `Metrics`, `Service` and
`Verification` were checked with TLC before they were proved.

### Only model-checked

Of the properties of the passing runs, only `EveryRequestAnswered` of the TPM
transaction and `EveryRequestEnds` and `HangIsContained` of the service: they are
liveness under fairness, which is out of the prover's reach. All invariants and
action properties are proved.

## Not modelled

* Another client of the same TPM, and an operator who runs `tpm2_startup` by hand
  right after starting the simulator (`tpm-simu/README.md` suggests it): a startup
  between the reset and the quote of a request would break the argument above.
* More than two requests with orphaned commands: the state space exceeds what TLC
  can do in minutes.
* The layout of JSON, of the timing file, of log lines and of base64 text, and the
  wording of errors: no state and no control hang on it.
* Two scripts of the simulator at once, one of them `start.sh`: nothing prevents
  it, and no property of the PID file survives it.
* `random_nonce` (pure I/O), the configuration read from the environment, the body
  size limit.
* `examples/measure_folder.rs`, the tests and `test.sh`: clients of the code above.
* The catchers for 400 and 422: no route of this server fails in a guard.

## Plan

1. Done: the modules above, and the proofs above.
2. What is left: a model of two scripts of the simulator at once, if `start.sh` is
   ever given a lock.
