# rk, in TLA+

TLA+ models of [rk](../src/README.md), a compiler, linter and language server
for IEC 61131-3 Structured Text, with the configurations that model-check them
and the theorems TLAPS proves about them. A reader needs the repository and
this folder; paths below are relative to the repository.

rk is mostly a pure function: text in, diagnostics or WebAssembly out. What
makes it a system, and what the tests can hardly reach, is at the edges, where
several parties change the same state at once:

* the editor, the disk and the language server each hold a copy of the files;
* pulls of diagnostics run on snapshots that the main loop's writes cancel;
* several rk processes share a cache of libraries with no lock;
* watch mode runs beside the changes that ask it to run again.

Beside these there are algorithms that keep state of their own and go through
long sequences of steps: the resolver's walk over the libraries, the layout of
a module's memory, the hand-written lexer, and the timers, which a program
calls for years on a clock that wraps.

These eight are modelled, checked and proved about.

## 1. The system

### Components, their state and operations

| Component | Source | State | Operations |
|---|---|---|---|
| Files the server holds | `crates/server/src/lib.rs`, `file_events.rs`, `crates/db/src/loader.rs`, `crates/db/src/lib.rs` | `FileSet::workspace`, `FileSet::libraries` with `library_ids`, `Workspace::libraries` | `DidOpen`, `DidChange`, `DidClose`, `DidChangeWatchedFiles`, `refresh_configuration`, `open_workspace` |
| Pulled diagnostics | `crates/server/src/capabilties/diagnostics.rs` | result ids of the client, the salsa revision, its snapshots | `workspace/diagnostic`, `textDocument/diagnostic`, `$/cancelRequest` |
| Library cache | `crates/db/src/cache.rs`, `stdlib.rs`, `crates/fetch/src/lib.rs` | a folder for each hash, a `.urls` list for each | `store`, `read`, `remove`, `install`, `is_cached`, `record_url`, `fetch_with` |
| Watch mode | `crates/cli/src/watcher.rs`, `commands/{check,compile}.rs` | the debouncer's channel and batch, the rendezvous, where the run is | `add_notify_event`, the debouncer's loop, `watch_and_run` |
| Dependency resolver | `crates/db/src/dependencies.rs`, `config_file.rs` | `Resolver`: `required`, the libraries, the problems; the walks in progress | `resolve`, `walk`, `locate`, `read` |
| Schedule, memory, retention | `crates/mir/src/schedule.rs`, `memory.rs`, `retain_map.rs`, `lower/lower_module.rs` | `MirMemoryLayout`: the parts, their addresses, the bands, `remap` | `allocate`, `finalize_bands`, the patching of addresses; base tick, periods, the map of retained bytes |
| Standard library blocks | `stdlib/*.st` | each instance's variables | timers, counters, edges, latches, one call per cycle |
| External scanner | `crates/tree-sitter/src/scanner.c` | none between calls: one token per call | `scan` and its loops |
| Test host | `crates/cli/src/test_host.rs` | wasmtime's | run a test under an epoch watchdog |
| Archives, trees, git packs | `crates/fetch/src/` | none | decode, hash |
| wasm-opt download | `crates/cli/src/wasm_opt.rs` | one folder of the cache | download, rename |
| Parser | `crates/ast` and the generated grammar | none | parse |
| Semantics, lints, formatting | `crates/hir`, `linter`, `formatter` | salsa queries | pure functions of the files |
| MIR and WebAssembly | `crates/mir`, `wasm_codegen`, `debug_format` | none | pure translations |
| Other requests | `crates/server/src/capabilties/` | none | each reads one snapshot |
| Command line | `crates/cli` | none | one-shot commands |
| Doc, fuzz, benchmark, VS Code extension | `crates/{doc,fuzz,benchmark}`, `vscode` | none of rk's | tools around the program |

### How they interact

* The editor sends notifications in order. The server's main loop handles one
  at a time; only the main loop writes the database. Requests go to workers,
  each on a snapshot of the database.
* The watcher of the editor sees the disk late and sends what it saw in
  batches. For each change of a batch the server reads the disk *as it is
  then*, not as it was when the change was seen.
* A `config.toml` in a batch makes the server load everything again: the
  libraries, then the workspace's own files. `.env` is read at that time and
  watched by nobody.
* A write of the main loop raises the cancellation flag of salsa, waits until
  every snapshot is dropped and only then writes. A worker's queries unwind at
  their next look at the flag; the workspace pull catches that in most places.
* Every rk process, the server included, installs the standard library in the
  cache and reads fetched libraries from it. Nothing guards the cache but the
  atomicity of `rename`.
* Watch mode has two threads: the debouncer gathers events, the main loop
  builds. They meet in a channel with no room (`sync_channel(0)`).

### What is hard

| Behaviour | Where | What has to be right |
|---|---|---|
| Late and stale events | watched changes | What the server holds in the end is what the loader would find, but for what came to a library since it was read |
| Two codes of one rule | `find_files_except` and `is_workspace_file` | No file gets in by one that the other keeps out |
| Two lists written apart | `Workspace::libraries`, `library_ids` | An id names the library the file is in |
| Unsaved text | the configuration read again, a file saved by another program | Nothing typed is lost but where the code says so |
| Cancellation | workspace pull | A cancelled check makes no file clean, and no id names another list |
| Waiting in circles | the write and the snapshots | The write goes through |
| Processes without a lock | the cache | A library is whole or absent; a URL answers for what it gave |
| A stop anywhere | `store`, `install`, `record_url` | The next process repairs what was left |
| A change during a run | watch mode | No change the watcher reports is lost, a run's own output starts no run, changes without a pause hold nothing up |
| A graph with cycles and two of a name | resolver | The walk ends, tells every fault, and its answer does not depend on the order it met them in |
| One table for all addresses | memory layout | Parts are known by their address alone, laid out twice and patched once: each must end where it was placed |
| Delimiters that share characters | scanner | Comments nest by their own delimiters, a pragma ends outside its strings, no loop waits for a character that never comes |
| A clock that wraps, and restarts | timers | Elapsed time is the true one to the unit of the reading, unless the reading jumped, and a start, cold or warm, measures from itself |

`PROJECT.json` lists the hazards one by one, each at its line with the
properties that cover it, or with the reason none does yet.

## 2. The modules

| Module | What it is |
|---|---|
| `WorkspaceSync` | the disk, the editor and the server's files |
| `PullDiagnostics` | pulls on snapshots, writes, the client's ids |
| `LibraryStore` | what the cache promises: the abstract specification |
| `LibraryCache` | the cache file by file and process by process; implements `LibraryStore` |
| `Watch` | the debouncer, the main loop of watch mode, and the disk |
| `Resolver` | the walk over the `[dependencies]` of a workspace and its libraries |
| `Bands` | the layout of a module's static memory, and its second layout in bands |
| `Scanner` | one call of the hand-written lexer, character by character |
| `Timers` | `TP`, `TON` and `TOF`, called at any pace, restarted at any time |
| `MC...` | the instances TLC checks |
| `..._proofs` | theorems and proofs of the module they are named after |

Beside the code's own definitions, a module holds variants of some of them,
each just before the definition it varies (`ApplyUntilFailure` before
`ApplyChange`). They are plausible mistakes; `PROJECT.json` pairs each with the
property it breaks, which shows that the property says something about the
code. No specification uses them.

### WorkspaceSync

| TLA+ | Code |
|---|---|
| `workspace` | `FileSet::workspace`; a `file:` or an `untitled:` document to its text |
| `libraryFiles` | `FileSet::libraries` and `library_ids`: a file to its library's place |
| `libraries` | `Workspace::libraries` |
| `FindFiles`, `Takes` | `find_files_except`, `is_workspace_file` |
| `FilesOfLibraries`, `LoadersFiles` | what `load_libraries` and `load_workspace` would find now |
| `LoadedLibraryFiles`, `LoadedWorkspace`, `RefreshConfiguration` | `load_libraries`, `load_workspace`, `refresh_configuration` with `open_workspace` |
| `HandleOpen`, `HandleEdit` | the `DidOpen` and `DidChange` handlers |
| `StartBatch`, `ApplyChange`, `FinishBatch` | `DidChangeWatchedFiles` with `changed_watched_files`, one step per reading of the disk |
| `WriteFile`, `DeleteFile`, `MoveProject`, `WriteManifest`, `WriteDotenv` | other programs |
| `OpenDocument`, `EditDocument`, `SaveDocument`, `CloseDocument`, `SendWatched` | the editor and its watcher |

A folder tree is data (`Above`), so that one instance can nest a project in a
library in the workspace. A text is a model value. An edit by ranges applied
to a text it was not computed on gives `Garbled` or, when a range is out of the
text, an error that leaves the text. `unseen` and `parted` are history: they
record that `.env` or a nested `config.toml` changed since it was last read
(nothing tells the server), and which open documents the server took from
elsewhere. The refresh a batch asks the editor for is left out: the editor owes
no answer to it that this model would see.

Left out: the texts of library files; a session without a workspace folder;
the time between the three readings of `open_workspace` (libraries,
dependencies, files); the resolver's walk, here the dependencies that are
folders with a `config.toml`; and a nested `config.toml`'s own event, on which
the server only asks for a refresh.

### PullDiagnostics

| TLA+ | Code |
|---|---|
| `truth` | the file set and what the check says of each file at this revision |
| `waiting`, `BeginWrite`, `EndWrite` | a salsa write: cancel, wait for the snapshots, write |
| `phase` and `StartPull` ... `Respond` | `workspace_diagnostics`: the configuration, indexing, checking, the pass over the call graph, lints, the reports |
| `Compared`, `Reports` | the comparison with the previous id; the reports of cancelled and deleted files |
| `StartDocument`, `RespondDocument`, `FailDocument` | `diagnostics`, cancelled whole |
| `CancelPull`, `EndDropped` | `$/cancelRequest`; the cancelled pull's end |
| `held`, `TakeAnswer` | the client of the protocol |

A cancelled request is answered at once, but its pull runs on: it is counted in
`dropped`, keeps its snapshot until it ends, and the client may pull again
beside it (`phase` and the rest are of the pull the client awaits). What it
computes is dropped with its answer, so only its snapshot is kept in the model.

`waiting # None` is the cancellation flag. A computation may then unwind or
still end; which one it is depends on when it looks, so both are possible. The
client pulls its open documents one by one and takes the rest from workspace
pulls, as the VS Code client does. The document pull's answer is taken as it
is given: the client keeps one pull of a document at a time, so nothing reads
it on its way. `fresh` and `said` are history.

### LibraryStore and LibraryCache

`LibraryStore` says: a fetched library is kept whole or not at all, it stays as
it is, a pair of a URL and a hash is trusted only for a library that is kept,
and a build reads a library that is trusted, whole. `LibraryCache` is the code:
`Resolve` (`locate`, `is_cached`), `Save` (`rk fetch --save`), `Download`,
`LookInCache`, `Move`, `LookAgain` (`store`), `Record` (`record_url`,
`fetch_remote`), `Install`, `HashPart`, `OpenToRemove`, `RemovePart`,
`RemoveFolder` (`install`, `remove`), `ReadPart`, and `Stop` for an error,
Ctrl-C or a crash at any of them. The refinement mapping leaves the standard
library out, since `install` does replace it, and hides where each process is.

What the file system does is modelled as POSIX does it: `rename` takes the
place of an empty folder and of no other; a recursive removal works on the
folder it opened (`opened`), not on one that took its name meanwhile. A
process's own staging folder is seen by nobody else, so writing it is one step.

### Watch

`Add` is `add_notify_event`; `BeginBatch`, `Gather` and `EndBatch` are the
debouncer's loop; `HandOver` is the handler's `send` together with the main
loop's `recv`; `ReadSource`, `EndRun`, `EndFirstRun` and `StartWatching` are
`watch_and_run`. Time is abstracted: a pause is an empty channel, and
`MAX_HOLD` is a number of events that came without one.

A run reads `Config`, the `config.toml`, first. With a faulty one (`Faulty`)
`init_db` gives nothing and the run may end with any part of the sources
unread, and without output (`Failed`; `compile.rs:42-54`).

Not every change of a source is a change to the debouncer. `Write` is one that
comes as an event that counts. `WriteUnreported` is one that does not: the file
comes or goes with its folder, whose event has the folder's path
(`watcher.rs:212-219`), the event is of a kind that is left out, or the watcher
gives an error in its place (`watcher.rs:261-265`). Either nothing is in the
channel then, or an `"irrelevant"` event is, as it is for the run's own reading
and its output in `rk_build`.

`unwatched` and `unreported` are history: the sources changed before the watcher
was started, which `watch_and_run` leaves open (`watcher.rs:364-368`), and those
changed unreported, in both cases not read since.

Not modelled: `flush` and `stop`, which nothing in watch mode calls; `.env`,
libraries named by a `path` outside the workspace folder, which nobody watches;
what a rename is told as: the model takes a file renamed within the workspace
for two changes, one from a name and one to another, each of which counts
or does not (`watcher.rs:143-145`, `161`, `169`, `185-186` handle and leave out
the kinds); a `config.toml` that goes between its reading and the report of its
errors, on which the run panics.

### Resolver

| TLA+ | Code |
|---|---|
| `asks`, `NameOf`, `FetchedIn` | the `[dependencies]` and the name of each folder's `config.toml`; the cached folder it is in |
| `stack` | the recursion of `walk` and `read`: a folder, what is left of its loop, `hashed` |
| `required`, `libraries`, `problems` | the fields of `Resolver` and `Resolution` |
| `Located`, `Readable`, `ReadAlready` | `locate`; the checks of `read`; the library read before |
| `Reject`, `ShareLibrary`, `RejectSecond`, `ReadLibrary`, `Return` | the ways one iteration of `walk` ends, and the end of its loop |

A name is a number, for the order of the `BTreeMap`. Why a dependency cannot be
located (its shape, no folder, no cache, a failed fetch) is one case, `lost`; a
folder whose `config.toml` is missing, faulty or has no namespace's name has
the name `None`. Left out: the wording of a problem, the entry it is shown at,
and symbolic links, since `canonicalize` comes before every comparison.

`Reached` and `Sound` define the answer from the graph alone, with no walk:
the least set of folders that is closed under what is asked for, and that
nothing in it is at fault. `ResolvedAsAsked` compares the two.

### Bands

| TLA+ | Code |
|---|---|
| `parts`, `at` | what lowering allocates, in its order, with the address it is known by |
| `Allocate` | `allocate` and its callers: locals, globals and located cells, instances (`Turn`) |
| `KeepLayout`, `LayOutAgain`, `PlacePart`, `NextGroup` | `finalize_bands`: no band, the first loop, an iteration of one, the end of one |
| `remap`, `base`, `top` | the map from old addresses to new, the bounds of the bands |
| `Fits`, `Patch` | the refusal of a module too large, and `lower_module`'s patching |

A part is its kind, its size and its alignment. The order of located cells in
an area is that of the addresses written in the program, so any. `Within` is
the 0 that an address past the end of the module becomes, until `Fits` refuses
the layout. Locals come first in both layouts, at the floor, so they never
move. An instance of a block with no variables is given a byte when it is
allocated (`schedule.rs:219-228`) but placed with its own size, none, when it
is kept. Not modelled: the frames of recursive functions, laid out apart; the
walk of the retain map over the fields of a type; the periods of tasks.

### Scanner

One call of `tree_sitter_rk_external_scanner_scan`, which keeps nothing between
calls: a text, the tokens the parser asks for, and a place in one of the loops
(`at`). An action is one iteration or one way out of a loop. `Advance` stays at
the end of the input, as tree-sitter's `lexer->advance` does. `Look` is
`lookahead`. The first word of a known pragma is one character, `KnownWord`,
and each other word character stands for all of its kind. `pairs` is history:
where the comment's delimiters were read.

### Timers

`Call` is one call of a block's body: the clock is read, the step machine goes
on (`StepTP`, `StepTON`, `StepTOF`), the outputs follow. `Restart` is a new run
of the host, its clock started anywhere: a warm one keeps `Q` and `ET`, which
are retained, and loses the rest.

`clock` is the host's 64-bit count of nanoseconds, which wraps at
`2 * ClockHalf`. What a timer sees of it is `PlcTime`: the whole units in it
(`WholeUnits`, a signed division that cuts toward zero), wrapped again at
`2 * Half`. For `LTIME` the unit is one nanosecond and `Half` is `ClockHalf`:
the reading is the clock. For `TIME` the unit is 10^6 nanoseconds and `Half` is
2^31 (`LTIME_TO_TIME`, `mir_cast.rs:248-252`). Three things follow, all in the
model:

* two readings differ by a unit less or more than the time between them, and by
  two less where the clock passed zero, as both sides of it are cut toward it;
* a reading that wraps at `Half` is met by `Difference`, subtraction in the
  width of the reading;
* a clock that wraps at `ClockHalf` moves a `TIME` reading by what is left of
  2^64 nanoseconds in cycles of 2^32 milliseconds, 39 hours. `Jumped` says that
  this happened since the edge; section 5 says what it does.

`since`, the true time since the edge in nanoseconds, counts apart from the
wrapping clock up to `Horizon`, a little past what the longest preset needs;
`wrapped` tells that the clock wrapped since, and `last` is the input of the call
before. Not modelled: a negative `PT`, a pause between two calls that with the
preset is past half the reading's range, and the counters, edges and latches of
the other files.

## 3. What the runs check

| Run | Instance and bounds | Shows |
|---|---|---|
| `sync_watch` | one file in a folder that is in another; the outer can be the standard library, the inner a project and a dependency; two texts; 2 changes seen and unsent; 1 batch on its way | `SettledFilesAreTheDisks`, `FilesAreTaken`, `EachLibraryFileIsItsLibrarys`, `BatchIsVetted` |
| `sync_edit` | one file and one draft, edited, saved and closed while others write the file and `config.toml`, or two files, one of them outside the workspace folder and the other in a folder that can be a project and the standard library's; 1 change unsent, 1 notification and 1 batch on their way | `FollowedUnlessParted`, `TextsChangeByTheirOwnEvents`, `DraftsStay`, `LibraryFilesAreNotTheWorkspaces`, `ForeignFilesAreLeftOut`, `OnlyOwnFilesEnter` |
| `pull` | two files, one open; clean or with an error; 2 writes, 1 cancelled request, whose pull may run beside the next | `ShownWasSaid`, `IdsAreOfWhatIsHeld`, `UndisturbedPullsAreComplete`, `WritesGoThrough`, `ClientCatchesUp` |
| `cache` | two processes, the standard library and two others of two files each, one URL | `TrustedPairsAreWhole`, `LoneInstallHeals`, `FetchedLibrariesAreKept` |
| `watch` | the configuration and a source, two texts, one of them faulty in the configuration, threshold 1, hold limit 3, channel of 2 | `SettledIsBuilt`, `BatchesAreRun`, `RunsStop` |
| `resolver` | 27,648 projects of seven folders: two of one name, three of another, the standard library present or not, a fetched library with a folder of its own inside | `ResolvedAsAsked`, `WalkEnds` |
| `bands` | every program of up to 4 parts, each a byte or an aligned word, or nothing in no band; floor 4, last address 12 | `PartsKeepApart`, `BandsHoldTheirOwn`, `PartsAreAligned` |
| `scanner` | every comment of up to 8 characters, pragma of up to 6, sign of up to 4, over the characters they tell apart; four sets of tokens | `CommentsNest`, `DelimitersAreItsOwn`, `OnlyOpenCommentsAreRefused`, `PragmasEndOutsideStrings`, `ScanEnds` |
| `timers` | `TIME`: a clock of 34 instants, 2 to a unit, read in a cycle of 10 units; presets up to 3 units, calls up to 2 instants apart, any input, any number of restarts | `EtIsTheTrueTime`, `QIsTheIdealTimers`, `FirstCallStartsOver`, `DelaysEnd` |
| `sync_squiggles`, `cache_install`, `bands_empty` | as small as the counterexample | the disagreements of section 5 |

The runs also check the type invariant of each module but `PullDiagnostics`,
`Resolver` and `Scanner`, whose type invariants are proved.

Why the bounds are enough:

* `sync_watch`: the races are between one file's events and one reading. Two
  unsent changes are the least with which a file is deleted and written again,
  or a file's change and the configuration's share a batch; the third change is
  the one made while the batch is applied. More files only add independent
  copies, except through the libraries, for which the tree is nested twice.
* `sync_edit`: one notification on its way is enough for an edit to be computed
  on a text the server has already left, and the watcher has a place of its own
  beside it.
  A file can be foreign in two ways, outside the workspace folder and in a
  project inside it, and there is one of each; the first is foreign for good, the
  other comes and goes with its project. Each can come by the editor, by the
  watcher and by the loader, in any order. `FewAtATime`, a constraint, keeps the
  two halves from multiplying: while the outside file or a nested project is in
  play, the disk and the editor have one text at a time and no draft was opened,
  which what is said of foreign files does not depend on.
* `pull`: two writes let one cancel a pull and the other cancel the pull that
  makes up for it; one open document and one closed meet both kinds of pull. One
  cancelled request is enough for a pull to run beside a cancelled one; more of
  them would only hold more snapshots.
* `cache`: every conflict is between two processes. With three the run has 4.65
  million states and the same result. Two files make a half-written or
  half-deleted library; a URL that serves one of two libraries makes a stale
  pair.
* `resolver`: the shapes a walk can go wrong on are a chain, a library that two
  share, a cycle, two folders of one name met on two branches, a fault behind a
  fetched library's path, and each of them behind another. Each folder may ask
  for a few of these, and the workspace for any combination, so that each pair
  of shapes meets. The walk takes dependencies in the order of their names;
  every name is taken by several folders, so every order of two folders occurs.
  `MaxDepth` is one more than there are folders, and `WalksAreBounded` of
  section 4 proves that no walk is deeper than there are folders.
* `bands`: what can collide is two parts and what is between them; four parts
  fill three bands beside the locals. With the last address at 12 some layouts
  pass it and are refused, some pass it in the first layout and come back, and
  most fit.
* `scanner`: two opening and two closing delimiters are eight characters, enough
  for a pair nested in a pair of either style and for every overlap of two.
* `timers`: a reading's cycle is 10 units and the clock's 17, so the clock's wrap
  is at no wrap of the reading and the reading jumps there, as that of the code
  does; a delay of at most 3 units meets both wraps, and the passage of zero, at
  every phase. Presets and pauses reach the assumption's limit
  (`(MaxPreset + 1) * Unit + MaxGap <= Half * Unit`), where the difference is
  largest. `LTIME`, whose reading is the clock, is the instance with `Unit = 1`
  and `Half = ClockHalf`; the theorems of section 4 cover it.
* `watch`: a threshold of 1 is crossed by the third event; a hold limit of 3 is
  met with the channel never empty. One source beside the configuration is read
  or not read by a run the configuration ends.

`CHECK_DEADLOCK FALSE` is said of the `sync` runs: when every bound is met and
no one writes, the server may rightly have nothing to do. It is said of
`resolver`, `bands` and `scanner` too: they are functions that return. The
other passing runs check for deadlock.

Symmetry (`TextsAlike`, `ProcessesAlike`) is used in `sync_edit` and `cache`,
which have safety properties only. The value sets permuted are named in no
definition.

### Fairness

* `WorkspaceSync`: weak fairness of the server's main loop and of the watcher's
  delivery. The loop is a thread that takes one notification after another, and
  the editor sends what its watcher saw. The disk and the person at the editor
  owe nothing.
* `PullDiagnostics`: the workers are threads that end, the main loop waits for
  them only, and the client goes on pulling, which is the one assumption about
  another program (`WF_vars(Client)`, `WF_vars(StartDocument(f))`): VS Code
  pulls again after every change and at intervals. Cancelling is never fair.
* `Watch`: each thread's actions. The disk owes nothing, and may change for
  ever; nor does the watcher owe an event for a change.
* `Resolver` and `Scanner`: a function that was called goes on
  (`WF_vars(Next)`).
* `Timers`: the program goes on calling, and time passes between calls
  (`Fairness`). Restarts are not fair, and may happen for ever; `DelaysEnd` is
  said of a delay that none interrupts.
* `Bands` has safety properties only: its loops are over finite lists.
* `LibraryCache` has safety properties only: a process may stop anywhere and
  none has to go on.

## 4. What is proved

For every value of the constants, with the assumptions the modules name
(`DocsAssumption`, `FoldersAssumption`, `BoundsAssumption`, `PullAssumption`,
`CacheAssumption`, `WatchAssumption`, `ResolverAssumption`, `BandsAssumption`,
`ScannerAssumption`, `TimersAssumption`): most only give the constants their
types and keep the special values apart from the others (`config.toml` is none
of the `Files`, `None` is no list of diagnostics). `FoldersAssumption`
puts each folder in its own `Above`; of the folder tree nothing else is assumed,
neither that it is a tree. `ResolverAssumption` adds that the workspace is in no
fetched library and that a `url` gives a folder of the cache. `TimersAssumption`
says what a timer can be asked: that a preset and a pause between two calls
together stay in half the range of a reading, 24.8 days of `TIME`, and that the
clock's range is that of the reading or more. The theorems of
`Bands` assume `NoEmptyInBands`, that no part of a band is empty: `bands_empty`
shows that they are false without it.

| Theorem | States |
|---|---|
| `WorkspaceSync_proofs!TypesHold` | `Spec => []TypeOK` |
| `WorkspaceSync_proofs!FilesStayApart` | `Spec => [](LibraryFilesAreNotTheWorkspaces /\ ForeignFilesAreLeftOut /\ BatchIsVetted)` |
| `WorkspaceSync_proofs!ForeignFilesStayOut`, `BatchesStayVetted` | the last two of these, each alone |
| `WorkspaceSync_proofs!OnlyOwnEnter` | `Spec => OnlyOwnFilesEnter` |
| `WorkspaceSync_proofs!SettledFilesAreFound` | `Spec => []SettledFilesAreTheDisks` |
| `WorkspaceSync_proofs!EditorIsFollowed` | `Spec => []FollowedUnlessParted` |
| `WorkspaceSync_proofs!LibraryFilesAreTheirs` | `Spec => []EachLibraryFileIsItsLibrarys` |
| `WorkspaceSync_proofs!TextsChangeByThemselves` | `Spec => TextsChangeByTheirOwnEvents` |
| `WorkspaceSync_proofs!DraftsStayHeld` | `Spec => DraftsStay` |
| `WorkspaceSync_proofs!NotificationsAreHandled` | `Spec =>` `ToHandle` is a number that each `ServerStep` makes smaller and no other step but a sending one larger; until it is 0 the server has a step to take |
| `PullDiagnostics_proofs!PullTypesHold` | `Spec => []TypeOK` |
| `PullDiagnostics_proofs!NothingElseIsShown` | `Spec => []ShownWasSaid` |
| `PullDiagnostics_proofs!IdsAlwaysAreOfWhatIsHeld` | `Spec => []IdsAreOfWhatIsHeld` |
| `PullDiagnostics_proofs!UndisturbedPullsComplete` | `Spec => UndisturbedPullsAreComplete` |
| `PullDiagnostics_proofs!PullsGiveWay` | finitely many `Files` prove `Spec => [][waiting # None => EndWrite \/ ToPull' < ToPull]_vars`, and that no pull runs at 0, cancelled ones included |
| `LibraryCache_proofs!CacheTypesHold` | `Spec => []TypeOK` |
| `LibraryCache_proofs!TrustedPairsHold` | `Spec => []TrustedPairsAreWhole` |
| `LibraryCache_proofs!LoneInstallsHeal` | `Spec => []LoneInstallHeals` |
| `LibraryCache_proofs!CacheIsAStore` | `Spec => FetchedLibrariesAreKept`, the refinement |
| `LibraryCache_proofs!FetchedLibrariesStay` | `Spec =>` no step takes a fetched library or a trusted pair away, or changes one |
| `LibraryCache_proofs!BuildsReadFetchedWhole` | `Spec =>` a build that is done with a fetched library read it whole, and it is trusted and still whole |
| `Watch_proofs!WatchTypesHold` | `Spec => []TypeOK` |
| `Watch_proofs!NoReportedChangeIsLost` | `Spec => []SettledIsBuilt`: of every change that came as an event that counts |
| `Watch_proofs!BatchesReachARun` | finitely many `Sources` prove `Spec => [][InBatch => HandOver \/ InBatch' /\ ...]_vars`: the batch stays, and `ToRun` is smaller, or the disk changed and it is the same |
| `Watch_proofs!RunsRunOut` | finitely many `Sources` prove `Spec => [](ToRest \in Nat) /\ [][UNCHANGED disk => ToRest' < ToRest]_vars`, and that at 0 the main loop waits |
| `Resolver_proofs!ResolverTypesHold` | `Spec => []TypeOK` |
| `Resolver_proofs!ResolvesAsAsked` | `Spec => []ResolvedAsAsked` |
| `Resolver_proofs!EveryStepLeavesLess` | `Spec => [][LeavesLess]_vars` |
| `Resolver_proofs!WalksAreBounded` | finitely many `Folders` prove `Spec => [](Len(stack) <= Cardinality(Folders))` |
| `Bands_proofs!BandsTypesHold` | `NoEmptyInBands` proves `Spec => []TypeOK` |
| `Bands_proofs!PartsAreKeptApart` | the same of `[]PartsKeepApart` |
| `Bands_proofs!BandsAreTheirOwn` | the same of `[]BandsHoldTheirOwn` |
| `Bands_proofs!PartsStayAligned` | the same of `[]PartsAreAligned` |
| `Bands_proofs!EachIsFoundWhereItWasPlaced` | the same of `[]EmptyPartsTakeNoEntry` |
| `Scanner_proofs!ScannerTypesHold` | `Spec => []TypeOK` |
| `Scanner_proofs!CommentsAlwaysNest`, `OnlyItsOwnDelimitersCount`, `NoClosedCommentIsRefused` | `Spec => []CommentsNest`, `[]DelimitersAreItsOwn`, `[]OnlyOpenCommentsAreRefused` |
| `Scanner_proofs!PragmasAlwaysEndOutsideStrings` | `Spec => []PragmasEndOutsideStrings` |
| `Scanner_proofs!EveryStepScansOn` | `Spec => [](ToScan \in Nat) /\ [][ToScan' < ToScan]_vars` |
| `Timers_proofs!TimersTypesHold` | `Spec => []TypeOK` |
| `Timers_proofs!EtIsAlwaysTheTrueTime` | `Spec => []EtIsTheTrueTime`: to the unit of the reading, of delays whose reading has not jumped; exactly and of all delays when the unit is one |
| `Timers_proofs!TimersAreIdeal` | `Spec => QIsTheIdealTimers`, with the same reservation |
| `Timers_proofs!StartsOver` | `Spec => FirstCallStartsOver` |
| `Timers_proofs!DelaysRunOut` | `Spec =>` while a timer measures and its reading has not jumped, `Left`, the greatest preset and a unit less `since`, is a number, and each later call makes it smaller by the time that passed |

**Files stay apart.** None of the three invariants is inductive alone: a
created file is added long after it was vetted, and a configuration read in
between moves the libraries' files. The inductive invariant is their
conjunction, `Apart`: what is held is apart, and what waits in the batch with a
creation is apart too. `ApplyChange` then adds only what was vetted. The step
that could break it, `StartBatch`, loads the libraries before it vets the batch
against them. `unseen` is carried along, as nothing tells the server of a
nested `config.toml`.

**The server catches up.** `SettledFilesAreTheDisks` speaks of the moment when
nothing is on its way, so `CatchesUp` says what the changes on their way will
put right, wherever they are: in the batch that is applied, in a notification,
or seen and not sent. Of each file: if it was deleted and is there again, a
later change creates it (`RestoredOnDisk`); if it is held and gone, its
deletion is pending (`WillBeDropped`); if its text is old, a change or a
deletion is (`WillBeRead`); if it ought to be held and is not, or will be
dropped, a creation with no deletion after it is (`WillBeTaken`). `PendingHas` and
`PendingRestores` define these over the three lists, and the section *The three
lists* says what moving a change from one to the next does to them. The
delicate step is `ApplyChange`: it reads the disk as it is by then, so a
creation whose file is gone again must find the deletion still to come.

That is about the files the server takes, which it measures by the library files
it read last. The loader would read them again, and what it would find is the
set `LoadersFiles`. `LibrariesAreRecent` ties the two: unless a configuration is
still to be read again, each file the server has for a library's is in a library
that is configured now. So a file the loader would find is none of the server's
library files and is held; and a file held that the loader would not find can
only have come to a library's folder since. The second is no slack of the proof:
without it TLC ends `sync_watch` with a counterexample (section 5).

**What enters is the workspace's.** `OnlyOwnFilesEnter` needs no invariant but
`BatchIsVetted`: a step adds a file by asking the disk as it is, or takes it from
a batch that did. `unseen` is where the second may be late.

**Edits reach the text they were computed on.** `EditsFollow` says of each
document that its edits on their way are a chain: each is computed on the text
of the one before it (`Chained`), the first on the server's text
(`StartsOn`), and the last has the editor's (`EndsWith`). `parted` is where
the first of these is given up. When the chain is empty the two ends are one.

**A library file is its library's.** The two lists are written by one step, so
the invariant is inductive, and what is to prove is what that step computes:
a library that finds a file has no other below it on the way to the file, and
the file is recorded under the first that finds it. That there is a first is
the least element of a set of numbers (`LeastOfASet`). That the libraries are a list at all, each with its
number, is `PlacesAreNumbered`: counting the places up to each is injective,
and so, on a finite set, onto.

**Pulls.** `Sound` follows an answer from what was checked to what is held.
`AnswerIsSound` says of each report on its way that it has the fingerprint of
what it says and that the check said so, or that it names an id the client
still holds. The second needs `InPull`: while a pull is answered, the ids it
came with are the client's own, as only documents are pulled beside it, and
those are other files; a cancelled pull beside it changes nothing of the
client's. `FreshIsComplete` says of an answer that
no write disturbed that each file is in it, or is gone and was not held.

**The cache.** What one process may conclude depends on where it is, so the
inductive invariant is `TypeOK /\ Holds /\ \A p : Knows(p)`. `Holds` says of the
cache that each fetched folder is whole and each pair is of a folder that is
kept and a URL that gave it. `Knows(p)` says, by the place of `p`, what `p` has
seen: at `record` its library is kept, at `read` its pair is trusted. The
lemma `OthersKnow` is the argument of non-interference: fetched folders, pairs
and what was given only grow, so no other process can undo what `p` knows, a
crash included. The refinement follows step by step: a `Move` of a fetched
library is `Keep`, `Record` is `Trust`, the last `ReadPart` is `Take`, a stop
after it is `End`, and everything else, the whole of `install` too, is a stutter.

`LoneInstallHeals` needs what one *install* may conclude of the standard
library's folder while it is alone (`Mends`): nothing is kept when it is at
the store, and the parts it has hashed are right. `Alone` adds that no other
process installs beside it, and that only an install has the folder open to
empty it; so no other process changes that folder, which is what
`AloneStep` needs. Processes that fetch, and crashes anywhere, are beside it
all the time.

**No reported change is lost.** `SettledIsBuilt` speaks of the moment when all
is quiet; the induction has to say where a change is until then. `Known` says
of every source that is not as it was built: it is still to be read by the run
that goes on, or it is in the batch, or an event in the channel stands for it,
or the run could not go on past a faulty configuration that was built, or it
changed when there was no watcher or with no event that counts. `ConfigFirst`
keeps the configuration ahead of the other sources, so that a run that ends
early has read it. `BatchInv` says that a batch being sent is not empty. The
delicate steps are `Add`, where a batch past its threshold drops its events for
one `rescan`, `EndBatch`, which lets an empty batch go, and `EndRun`, which may
leave sources unread. `unreported` takes the changes out of which nothing can
come; without it the claim is false (section 5).

**A resolution is the graph's.** `ResolvedAsAsked` speaks of the end; the
induction has to say where a dependency is until then. `Answered`: each
dependency of what was read is answered, or waits in one of the walks of the
stack. `Walks`: a walk is of the workspace or of a library that was read, and
is held to the fetched library its folder is in. `Placed`: names and folders
that were read are one to one. `Caused`: nothing is read that is not reached,
and a problem means a fault. At the end nothing waits, so without a problem
what was read is closed, and the least closed set, `Reached`, is within it;
with `Caused` the two are the same. The order of the names appears nowhere in
the argument, nor does the depth of the stack.

**The walk ends.** A walk is only begun on a library that was not read, so no
folder is walked twice at once (`WalkedOnce`), and the stack is no deeper than
there are folders. `Ahead` is what was not read yet and what waits in the
walks; each step takes from it, or ends a walk. On finitely many folders and
names this order has no infinite descent, so with the fairness of `FairSpec`
the walk ends: that last inference, which needs `ENABLED`, is `WalkEnds` and
stays with TLC.

**Parts keep apart.** `PlacedApart` says it of the parts placed so far, and
`Bounds` of the bands so far. The delicate step is `Patch`, which looks a part
up by the address it was *allocated* at: `Allocated` keeps those addresses
apart too, for the parts that hold something, and `RemapIsRight` says that what
is looked up is where it was placed. Here an empty part in a band would break
the induction: it takes another's entry. Nothing is said of a layout that went
past the last address (`peak <= Limit`), which `Patch` never sees.
`AlignedSoFar` says of the parts that each is at a multiple of its alignment
where it was allocated and where it is placed. The lemmas on `AlignUp` name the
quotient, since the solver does not divide by a variable by itself.

**Comments nest.** `Counting` ties `depth` to the delimiters read so far, and
`Behind` says that all of them are behind the position and apart.

**A pragma ends outside its strings.** `PragmaSoFar` ties the loop the scanner
is in, and `quote`, to what `InString` says of the position, and says that no
`}` before it ends the pragma. `InString` reads the text by a recursive
function, of which nothing is known until one that satisfies the recursion is
shown to exist and to be the only one (`ReadsExists`, `ReadsUnique`,
`InStringReads`). These go by induction, over the *set* of the numbers up to
which it holds rather than over a predicate (`AllNumbers`): that needs no
operator as a parameter.

**A call ends.** `ToScan` is four times the characters left and the rank of the
loop: a step passes a character or goes to a loop further on. In a string it
needs `PragmaSoFar`: a string's quote is a character, so the end of the
text does not close it. As with the walk, the step from there to `ScanEnds`
needs `ENABLED` and stays with TLC.

**Elapsed time is true.** `MeasuresFromTheEdge` says, while the timer measures
and the reading has not jumped, that `start` is the reading at the edge
(`EdgeAt`) and `ET` the whole units since. One call moves both ends: a reading is
its whole units and some cycles (`ReadingIsAResidue`), so `Difference` is the
difference of the whole units as long as that is below half a cycle
(`DifferenceOfReadings`), which the assumption sees to; and that difference is
the time between to a unit, or two across zero (`UnitsBetween`). When the unit is
one the clock's own wrap is one of the reading's (`ReadingsRepeat`), and nothing
jumps. `StepFollows` says which steps go with which history of inputs,
`OutputsFollow` ties `Q` and `ET` to them. The action properties follow from the
invariant and one call.

**What liveness rests on.** Liveness under fairness and `ENABLED` are out of the
prover's reach, so the eight liveness properties, `FilesAreTaken`,
`WritesGoThrough`, `ClientCatchesUp`, `BatchesAreRun`, `RunsStop`, `ScanEnds`,
`DelaysEnd` and `WalkEnds`, are model-checked only. For all but
`ClientCatchesUp` the part that is the code's own is proved: a variant, which
the steps that ought to help make smaller and no other step makes larger but
where the property allows it. What remains for TLC is the inference from a
variant and weak fairness to the end.

* `ToHandle` counts, of the server, `MaxEvents + 2` for a notification and one
  for each change of the batch, and one to finish it: no batch is longer than
  what the watcher keeps (`Bounded`). `GoesOn` says that one of the handlers can
  take the next step; the next change of a batch is the least of its places.
  With `SettledFilesAreFound`, what is handled is also right. The watcher's delivery is
  not counted: it is one step, `SendWatched`, for all that was seen.
* `ToPull` counts a phase for more than all that comes after it, the documents
  and the answer on their way, and the cancelled pulls. No pull begins while a write waits, so
  each step but the client's own adds nothing; the client's one step, taking an
  answer, is counted too.
* `ToRest` counts 3 for each event in the channel, `Run` more for a change, and
  `Run` for a batch that has one; `Run` is more than the readings of a run and
  the output it leaves in the channel. That the output is left out by
  `add_notify_event` is what makes the sum go down (`OutputIsNoBatch`). The
  changes in the channel are counted as a set of places, and `TakenCount` moves
  them up by one place.
* `ToRun` counts how long `MAX_HOLD` still holds the batch, and the run the main
  loop is busy with. A change of the disk does not enter it, so changes without
  a pause hold nothing up.
* `ToScan` and `Ahead` are described above.
* `Left` of a timer that measures and has not jumped. A jump
  brings a delay's end nearer or, where the difference then wraps, puts it off
  by a cycle of the reading; that it still ends is TLC's.

Every invariant and every action property of the passing runs is stated by a
theorem. `BuildsReadFetchedWhole` says what is left of `NoBuildReadsHalf`, which
`cache_install` refutes: the standard library is the only one it is false of.

## 5. Where the code and its words disagree

Each is a run TLC ends with a counterexample; `PROJECT.json` quotes the lines.

1. `sync_squiggles`: a faulty `config.toml` that is deleted leaves its errors in
   the editor (`server/src/lib.rs:417`).
2. `cache_install`: a build can read half of the standard library while another
   process's `install` replaces it (`db/src/stdlib.rs:72`).
3. `bands_empty`: a `VAR_GLOBAL` of a block with no variables shares its address
   with the part after it and takes, or stands for, that part's entry in
   `remap`: the program then looks for that part in the wrong place
   (`mir/src/memory.rs:431`). The first loop guards against it, the others do
   not.

Seen while modelling, with no run that keeps them; each of the first three is an
exception that a property makes, and TLC finds the counterexample when it is
taken out:

* `is_workspace_file` is said to take the files that `load_workspace` would find
  (`db/src/loader.rs:170-175`), but it knows a library's files from the last
  reading (`loader.rs:184`): a file that comes to the standard library's folder
  inside the workspace is the workspace's until the configuration is read again,
  and then the library's. `CameToALibrary` in `SettledFilesAreTheDisks`.
* A timer is said not to notice where the host started the clock
  (`stdlib/Timers.st:15-18`, `tests/codegen/clocks.rs:277-281`), but a `TIME`
  reading jumps by 39 hours where the 64-bit clock wraps, and a delay in progress
  with a shorter preset ends at once (`Timers.st:40`). A clock that starts at
  zero comes there after 292 years; the host may start it anywhere. `Jumped` in
  `EtIsTheTrueTime` and `QIsTheIdealTimers`.
* Watch mode is said to run again on every change
  (`skills/cli-compile/SKILL.md:30`), but a folder of sources that is moved or
  renamed is one event of the folder's path, which is left out, and errors of the
  watcher are dropped (`cli/src/watcher.rs:217`, `262`). `unreported` in
  `SettledIsBuilt`.
* When one change of a batch fails, the handler returns before it asks for a
  refresh, although the others were applied (`server/src/lib.rs:370`).
* A document opened over a file the server holds keeps the server's text; after
  a close without saving it is an unsaved text (`file_events.rs:25`). `parted`
  marks these documents in `FollowedUnlessParted`.
* The fingerprint of diagnostics leaves out related information, so a move of it
  in another file is told as no change (`diagnostics.rs:58`).
* A folder inside a fetched library that the workspace names by a `path` is not
  held to its library if the walk comes to it that way first
  (`dependencies.rs:409`): whether a problem is told then depends on the order
  of the names. `PathsStayOut` leaves these projects out of `Sound`'s
  comparison; what is said of the libraries and of the unanswered holds for
  them too.
* A kept instance that holds nothing is allocated a byte, so that it has "an
  address of its own", but is placed with none.
* The comment on the retain band (`memory.rs:301-304`) says that it spans the
  globals that are not kept; it ends before them.
* `skills/tool-lsp/SKILL.md` says that a client that sends only `rootUri` has
  nothing loaded, while `server/src/lib.rs:251-264` takes `root_uri` first.

## 6. What is not modelled

* The generated parser, `crates/tree-sitter/src/parser.c`: two hundred thousand
  lines of tables that tree-sitter writes from the grammar. The headers beside
  it are tree-sitter's own, and the bindings one call each. Of the C in the
  repository, the scanner is all that is written by hand, and it is modelled
  whole.
* The semantics, the lints, the formatter, the MIR's translation and the
  WebAssembly back end are pure functions over large languages: their
  correctness is not a state machine's, and an instance small enough for TLC
  would say nothing of them.
* Archives, trees and packs are external formats; the test host's state is
  wasmtime's; the other requests keep none.
* Counters, edges and latches: each call is a few assignments to variables that
  no clock and no other party changes.
* The schedule's base tick and periods, the frames of recursive functions and the
  retain map's walk over the fields of a type: functions of types with no order
  of steps to get wrong.
* The download of wasm-opt: one folder put in place by one `rename`. A build that
  loses the race fails, and the next one finds the winner's folder.

## 7. Plan

Done, in this order: `WorkspaceSync`, `PullDiagnostics`, `LibraryStore` and
`LibraryCache`, `Watch`, `Scanner`, `Timers`, `Bands`, `Resolver`, their runs,
and the proofs of section 4.

Left, proofs: a variant for `ClientCatchesUp`, whose cancelled pulls make up for
each other over several answers, so that a variant has to count answers as well
as steps; and the last inference of each liveness property, once the prover has
`ENABLED`.

Left, modules, in the place of a run that has said what it had to: the wasm-opt
folder beside `LibraryCache`, and `Resolver` composed with `WorkspaceSync` in
place of its set of dependencies, if the state space allows.

## 8. Running it

In this folder, `tlc -config <run>.cfg <module>` checks a run and
`tlapm <module>_proofs.tla` a module's proofs. The longest run, `pull`, takes
about a minute and a half; the proofs of all eight modules take several.
