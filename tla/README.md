# A TLA+ verification project for Soong

Soong is Android's build system. `soong_ui` drives a build: it finds the
Android.bp and Android.mk files, runs `soong_build` and kati, and gives the
ninja files they write to ninja, showing progress meanwhile. `soong_build`
(android, cc, java, apex and other packages on top of Blueprint) turns modules
into build statements. Small tools such as `soong_zip` are used by the rules.

This project models the concurrent and stateful core of these programs, checks
small instances with TLC and proves, with TLAPS, the main properties of three
of the components for every value of their constants.

## Inventory

| part | source | state here |
| --- | --- | --- |
| zip: rate limiter | zip/rate_limit.go | RateLimit, proved |
| zip: writer pipeline | zip/zip.go | ZipWriter |
| zip: which entries, in which order | zip/zip.go, jar/jar.go | ZipLayout (path mappings are inputs) |
| finder: thread pool | finder/finder.go | TaskPool, ThreadPool, proved |
| finder: loading and caching | finder/finder.go | FinderLoad |
| finder: database contents, dump, search | finder/finder.go | FinderDb, FinderDump, FinderSearch |
| android: once-per-key values | android/onceper.go | OncePer, proved |
| ui: counts of the build's actions | ui/status/status.go | Status |
| ui: smart terminal output | ui/terminal/smart_status.go | SmartStatus (one Flush) |
| ui: lock, clean, build steps, signals, readers, logs | ui/build, ui/status, ui/logger, ui/tracer | not modelled, planned |
| multiproduct_kati | cmd/multiproduct_kati | not modelled, planned |
| android: mutators, namespaces, prebuilts, overrides, visibility | android | not modelled, planned |
| cc, java, apex, dexpreopt | cc, java, apex, dexpreopt | not modelled, planned in part |
| androidmk, bpfix, zip tools | androidmk, bpfix, cmd | not modelled, planned in part |
| other module types and commands | python, genrule, ..., cmd | not modelled: file and data transformation without state |

PROJECT.json lists the parts file by file. Measured in lines the models cover a
small part of the repository: most of cc, java and android is not modelled yet.

How the modelled parts interact: the finder's tasks run on its thread pool,
which is why FinderLoad may treat them as a set of tasks and ThreadPool is shown
to implement TaskPool. The zip writer has two rate limiters, which ZipWriter
uses as counters with RateLimit's acceptance test. Status calls its outputs, of
which SmartStatus is one, one at a time.

## Modules and the code

* **RateLimit.** The callers of Request and Finish, and monitorChannels, which
  receives requests and completions on unbuffered channels: a send and its
  receive are one step. `usedCapacity` is the counter, `pc` where a caller is.
* **ZipWriter.** The producer (addFile, writeFileContents), one goroutine per
  checksum or block, and the loop of write. Channels keep their capacity; every
  step that returns an error in the code may fail. Bytes are abstract.
* **ZipLayout.** jarSort, addFile, addManifest and writeDirectory, sequential.
  A path is a sequence of components.
* **TaskPool, ThreadPool.** What the finder relies on; and Run, the semaphore,
  the WaitGroup and Wait.
* **FinderLoad.** One Finder after another over a filesystem that changes: the
  database's blocks are statted and merged, then stat and list tasks walk the
  rest. A stat is a stamp that every change of a directory renews.
* **FinderDb, FinderSearch.** The serialised entries and the search as functions.
* **FinderDump.** Processes that load DbPath, write DbPath.tmp and rename it, and
  may be killed. Files are inodes.
* **OncePer.** Once and Get, one step per operation on the sync.Map, and
  constructors that may panic.
* **Status.** The tools' counts and the sums, with a step per lock held.
* **SmartStatus.** The output's calls, the ticker's goroutine and the SIGWINCH
  handler around s.lock. Only Flush holds the lock for more than one step.

Operators named Mut... are mutated forms of the definition that follows them:
each is a plausible mistake that makes one property fail.

## Runs

| run | states | shows |
| --- | --- | --- |
| rate_limit | 21,354 | the counter is exact, the capacity kept, nobody overtaken, every request served |
| zip_writer | 224,154 | order, completeness, error reports, balance of the limiters, no read after close, termination |
| zip_layout | 80,752 | no clash of names, parents first, manifest first, nothing dropped |
| thread_pool | 57,560 | throttling, Wait is complete and ends, ThreadPool implements TaskPool |
| finder_load | 287,706 | a Finder with a database finds what a scan finds, if the tree changes only between loads |
| finder_racing | 202,483 | while the tree changes: one task per node, cached contents fit their stat, loading ends |
| finder_algorithms | 401,952 | the database loads as it was dumped; a search finds every match once |
| finder_dump | 8,316 | with one process at a time, killed anywhere, DbPath is always whole |
| once_per | 31,564 | one construction per key, all callers get its value, every call ends |
| status | 12,144 | a total is never below the started actions; the sums are exact between calls |
| smart_status | 7,470 | the running actions are exact; what goes on running gets a row |
| smart_flush | violated | Flush may wait forever for the ticker (below) |

No run checks for deadlock in TLC's sense, because each of these programs or
calls ends. Where going on matters it is a liveness property (RequestServed,
Termination, WaitEnds, LoadEnds, CallEnds). SmartStatus can really get stuck;
that is smart_flush.

### Bounds

Three callers with a size above the capacity (4 of 3) reach the limiter's
exceptional case together with queueing. The archives mix whole files, files of
two blocks, and files larger than the memory limit. Three mappings suffice for a
file, a directory and a third entry that clashes with either. Four functions on
a pool of two give a full pool whose members make requests. Two Finders are one
that writes the database and one that uses it, with two changes of the tree. Three
goroutines on a key are a builder and two that wait. Three actions overfill
a table of two rows. Bounds are constants named Max..., and MaxChanges and
MaxLoads matter most: see the stale directory below, which needs three.

### Assumptions that restrict a run

* finder_load: the filesystem changes only between loads (`Racing = FALSE`).
* finder_racing: permissions change only for reading a directory.
* finder_dump: one process at a time (`Exclusive`). The code does not ensure it.
* status: a tool's total is not set while others start its actions (`Alone`).

### Fairness

Weak fairness of a goroutine's step is Go's scheduler. Strong fairness is used
for sends and receives on a channel that others use too (ReceiveRequest,
ReceiveCompletion, Lock), because waiting goroutines are served first in, first
out. Ticks of the clock are weakly fair until the ticker is stopped. Callers of
the limiter finish what was accepted, and functions of the pool make the requests
they have to make and return. Nobody has to begin: new calls of Request, Once,
StartAction or Flush are not fair.

## Where the code and its texts disagree

smart_flush: `stopActionTableTick` sends on the unbuffered `s.done` while Flush
holds `s.lock` (ui/terminal/smart_status.go:268). If the ticker's goroutine has
received a tick and waits for the lock, both wait forever. It needs
SOONG_UI_TABLE_HEIGHT to be set.

These configurations are kept beside the runs of PROJECT.json. TLC finds the
property violated with each of them:

| configuration, module | property | behaviour |
| --- | --- | --- |
| MCErrorCaught, MCZipWriter | ErrorCaught | write drops the error of the final Close (zip/zip.go:588) |
| MCFailedZipRemovesOutput, MCZipWriter | FailedZipRemovesOutput | a shadowed err keeps the partial output (zip/zip.go:395) |
| MCZipLayoutDup, MCZipLayout | OneEntryPerName | a jar can get two manifests (zip/zip.go:692) |
| MCFinderChmod, MCFinderLoad | UnstattedIsMissing | files of a directory that cannot be statted are found (finder/finder.go:1280) |
| MCFinderVanished, MCFinderLoad | VanishedIsIgnored | a directory that vanishes makes New fail (finder/finder.go:1190) |
| MCFinderTwoRoots, MCFinderLoad | RootsExist | a root created later is still reported missing (finder/finder.go:212) |
| MCFinderStale, MCFinderLoad | QuietLoadIsFresh | a directory gone and back during a load stays unknown (finder/finder.go:1420) |
| MCFinderDbRoot, MCFinderAlgorithms | RoundTrip | with "/" as a root the loaded paths are relative (finder/finder.go:566) |
| MCFinderDumpTwo, MCFinderDump | DbWhole | two processes share one temporary file (finder/finder.go:1154) |
| MCSmartMargins, MCSmartStatus | MarginsReset | a resize is drawn after Flush (ui/terminal/smart_status.go:275) |

## Proofs

All theorems are about `Spec`, without fairness, for every value of the
constants that satisfies the named assumptions.

* **RateLimitProofs**, from finitely many callers, natural sizes and capacity:
  TypeOK, CounterExact, UsageWithinCapacity, QueuedDoesNotFit and NoOvertaking.
  The sum of the accepted sizes is the cardinality of a set of units, one per
  unit of each size, so that no recursion is needed; the invariant adds that
  this set is finite. UsageWithinCapacity needs CounterExact: the code compares
  the counter, the property speaks of the sizes.
* **ThreadPoolProofs**, from finitely many functions and a positive capacity:
  TypeOK, Throttled, WaitIsComplete and that ThreadPool implements TaskPool. The
  invariant says that the WaitGroup counts the requested functions that are not
  done and the semaphore those that hold it. With it a WaitGroup of zero means
  that nothing is pending, which is what WaitIsComplete needs.
* **OncePerProofs**, from distinct special values: TypeOK, ComputedOnce,
  SameValue, WaiterValid and ValuesStay. The invariant follows a key from
  missing to placeholder to value and says that a placeholder has one builder.

Only model-checked: liveness; ZipWriter, ZipLayout, the other finder modules,
Status and SmartStatus; what FinderSearch's recursive operators compute.

Stated in the modules and not part of the runs: TypeOK of ZipWriter, ZipLayout,
FinderLoad, Status and SmartStatus, NoFileBelowFile, ProgressComplete,
BlankLineTracked and ValuesStay. They hold under the configurations of their
modules.

## Not modelled

Contents and formats (deflate, JSON, escape codes), timestamps too coarse to
tell two changes apart, constructors that call Once again, a second Flush, and
the parts that the inventory marks.

## Plan

1. BuildLock: the lock on the output directory with its deadline and crashes,
   clean (which runs before the lock is taken, ui/build/build.go:141) and
   installCleanIfNecessary; composed with FinderDump, whose processes are the
   same ones. Question: do two builds ever use one output directory, and does a
   build ever see installed files of another configuration?
2. NinjaReader, multiproduct_kati and the shutdown of soong_ui, composed with
   Status: are all messages read, is each action finished once, does cleanup end?
3. The android core: namespaces, prebuilts and overrides, visibility, the order
   of mutators; then apex variants and the link-type checks of cc and java, each
   as functions against a reference definition.
4. Proofs: Status (SumsExact), FinderDump (DbWhole), OneTaskPerNode of
   FinderLoad, mutual exclusion of BuildLock.

New questions are composed into few runs; runs of pure functions are joined as
in finder_algorithms.
