------------------------------ MODULE ZipWriter ------------------------------
(***************************************************************************)
(* zip/zip.go: the pipeline of ZipWriter.write and the goroutines around   *)
(* it.  The producer walks the path mappings, queues one write operation   *)
(* per entry and starts the goroutines that checksum and compress; the     *)
(* writer takes the operations in order and copies their data out.  The    *)
(* two rate limiters are used at the level RateLimit establishes: Request  *)
(* returns when the size is accepted, Finish takes it back.  Only the      *)
(* producer calls Request, so at most one request is ever queued.          *)
(* Once write has returned the limiters may stop at any time, and those    *)
(* who still wait for them are then blocked for ever: the steps they take  *)
(* before that are steps of the model, and none of them is fair.           *)
(***************************************************************************)
EXTENDS Integers, Sequences, FiniteSets, SequencesExt, FiniteSetsExt

CONSTANTS Layouts,       \* the sequences of entries to write, one chosen at Init
          BlockSize,     \* parallelBlockSize
          MinParallel,   \* minParallelFileSize
          CpuCapacity,   \* parallelJobs
          MemCapacity,   \* capacity of the memory limiter
          WriteOpsCap,   \* buffer of the writeOps channel (1000 in the code)
          None           \* a nil channel

ASSUME SizesAssumption == /\ BlockSize \in Nat \ {0} /\ MinParallel \in Nat \ {0}
                          /\ CpuCapacity \in Nat \ {0} /\ MemCapacity \in Nat
                          /\ WriteOpsCap \in Nat \ {0}

\* "skip" is a directory while directory entries are off, or a missing file
\* under IgnoreMissingFiles: addFile returns nil without queueing anything.
Kinds == {"file", "symlink", "dir", "skip"}

VARIABLES
  layout,        \* pathMappings
  prod,          \* the producer: [pc, e: entry, start: offset of the block]
  writeOps,      \* the queued operations (entries), in order
  writeOpsClosed,
  opReady,       \* entries whose zipEntry is in its compressChan
  readers,       \* futureReaders of each entry: block numbers, in order
  readersClosed, \* entries whose futureReaders channel is closed
  results,       \* <<e, b>> whose data is in its channel
  worker,        \* goroutine <<e, 0>> (crcFile or compressWholeFile), <<e, b>>
  wg,            \* the WaitGroup of each entry's readers
  fileClosed,    \* entries whose source file was closed
  cpuUsed, memUsed,
  writer,        \* [pc, op, rdrs, rdr]: the writer loop and its current channels
  written,       \* what reached the archive, in order
  failed,        \* the kinds of operations that failed so far
  ret,           \* what write returned: "none" while it runs
  panicked,      \* a goroutine sent on the closed errors channel
  output         \* Zip's destination: the created file, or a buffer for WriteIfChanged

prodVars == <<prod, writeOps, writeOpsClosed>>
chanVars == <<opReady, readers, readersClosed, results>>
workVars == <<worker, wg, fileClosed>>
limVars == <<cpuUsed, memUsed>>
outVars == <<writer, written, ret, panicked, output>>
vars == <<layout, prodVars, chanVars, workVars, limVars, outVars, failed>>

Entries == 1 .. Len(layout)
Parallel(e) == /\ layout[e].kind = "file"
               /\ layout[e].deflate
               /\ layout[e].size >= MinParallel
Blocks(e) == CASE Parallel(e) -> (layout[e].size + BlockSize - 1) \div BlockSize
               [] layout[e].kind \in {"file", "symlink"} -> 1
               [] OTHER -> 0
MaxBlocks == Max({0} \cup {Blocks(e) : e \in Entries})
Tasks == Entries \X (0 .. MaxBlocks)


\* RateLimit's Accepts, for either limiter.
MutAcceptsOneMore(used, n, capacity) == used = 0 \/ capacity + 1 >= used + n
MutAcceptsFitting(used, n, capacity) == capacity >= used + n
Accepts(used, n, capacity) == used = 0 \/ capacity >= used + n

\* zipEntry.allocatedSize: set for file contents only.
AllocatedSize(e) == IF layout[e].kind = "file" THEN layout[e].size ELSE 0

Init ==
  /\ layout \in Layouts
  /\ prod = [pc |-> "next", e |-> 1, start |-> 0]
  /\ writeOps = <<>> /\ writeOpsClosed = FALSE
  /\ opReady = {} /\ readers = [e \in Entries |-> <<>>]
  /\ readersClosed = {} /\ results = {}
  /\ worker = [t \in Tasks |-> "none"]
  /\ wg = [e \in Entries |-> 0] /\ fileClosed = {}
  /\ cpuUsed = 0 /\ memUsed = 0
  /\ writer = [pc |-> "loop", op |-> None, rdrs |-> None, rdr |-> None]
  /\ written = <<>> /\ failed = {} /\ ret = "none" /\ panicked = FALSE
  /\ output \in {"file", "buffer"}

-----------------------------------------------------------------------------
(***************************************************************************)
(* The producer goroutine.                                                 *)
(***************************************************************************)
ProducerError(kind) ==
  /\ prod' = [prod EXCEPT !.pc = "error"]
  /\ failed' = failed \cup {kind}

NextEntry == prod' = [pc |-> "next", e |-> prod.e + 1, start |-> 0]

\* addFile or addManifest fails before it queues anything: stat, open, a
\* name that is taken, an irregular file.
AddFileFails ==
  /\ prod.pc = "next" /\ prod.e \in Entries
  /\ ProducerError("addFile")
  /\ UNCHANGED <<layout, writeOps, writeOpsClosed, chanVars, workVars, limVars, outVars>>

AddSkipped ==
  /\ prod.pc = "next" /\ prod.e \in Entries /\ layout[prod.e].kind = "skip"
  /\ NextEntry
  /\ UNCHANGED <<layout, writeOps, writeOpsClosed, chanVars, workVars, limVars, outVars, failed>>

\* writeDirectory and writeSymlink fill their channels before they queue them.
AddReady ==
  LET e == prod.e IN
  /\ prod.pc = "next" /\ e \in Entries /\ layout[e].kind \in {"dir", "symlink"}
  /\ Len(writeOps) < WriteOpsCap
  /\ writeOps' = Append(writeOps, e)
  /\ opReady' = opReady \cup {e}
  /\ IF layout[e].kind = "symlink"
     THEN /\ readers' = [readers EXCEPT ![e] = <<1>>]
          /\ readersClosed' = readersClosed \cup {e}
          /\ results' = results \cup {<<e, 1>>}
     ELSE UNCHANGED <<readers, readersClosed, results>>
  /\ NextEntry
  /\ UNCHANGED <<layout, writeOpsClosed, workVars, limVars, outVars, failed>>

\* writeFileContents queues the operation first, then asks for CPU and memory.
QueueContents ==
  /\ prod.pc = "next" /\ prod.e \in Entries /\ layout[prod.e].kind = "file"
  /\ Len(writeOps) < WriteOpsCap
  /\ writeOps' = Append(writeOps, prod.e)
  /\ prod' = [prod EXCEPT !.pc = "cpu"]
  /\ UNCHANGED <<layout, writeOpsClosed, chanVars, workVars, limVars, outVars, failed>>

RequestCpu ==
  /\ prod.pc = "cpu"
  /\ Accepts(cpuUsed, 1, CpuCapacity)
  /\ cpuUsed' = cpuUsed + 1
  /\ prod' = [prod EXCEPT !.pc = "mem"]
  /\ UNCHANGED <<layout, writeOps, writeOpsClosed, chanVars, workVars, memUsed, outVars, failed>>

\* Once the memory is granted the goroutine that owns the CPU token starts.
RequestMemory ==
  LET e == prod.e IN
  /\ prod.pc = "mem"
  /\ Accepts(memUsed, AllocatedSize(e), MemCapacity)
  /\ memUsed' = memUsed + AllocatedSize(e)
  /\ worker' = [worker EXCEPT ![<<e, 0>>] = "running"]
  /\ IF Parallel(e)
     THEN prod' = [prod EXCEPT !.pc = "block"] /\ wg' = [wg EXCEPT ![e] = 1]
     ELSE NextEntry /\ UNCHANGED wg
  /\ UNCHANGED <<layout, writeOps, writeOpsClosed, chanVars, fileClosed, cpuUsed, outVars, failed>>

\* One reader channel per block; the channel holds size / BlockSize + 1 of them.
QueueBlock ==
  LET e == prod.e IN
  /\ prod.pc = "block" /\ prod.start < layout[e].size
  /\ Len(readers[e]) < layout[e].size \div BlockSize + 1
  /\ readers' = [readers EXCEPT ![e] = Append(@, prod.start \div BlockSize + 1)]
  /\ prod' = [prod EXCEPT !.pc = "blockCpu"]
  /\ UNCHANGED <<layout, writeOps, writeOpsClosed, opReady, readersClosed, results,
                 workVars, limVars, outVars, failed>>

\* Every block but the first reads the window before it, which may fail.
RequestBlockCpu ==
  LET e == prod.e
      b == prod.start \div BlockSize + 1
  IN
  /\ prod.pc = "blockCpu"
  /\ Accepts(cpuUsed, 1, CpuCapacity)
  /\ cpuUsed' = cpuUsed + 1
  /\ \/ /\ prod.start > 0
        /\ ProducerError("dict")
        /\ UNCHANGED <<worker, wg>>
     \/ /\ wg' = [wg EXCEPT ![e] = @ + 1]
        /\ worker' = [worker EXCEPT ![<<e, b>>] = "running"]
        /\ prod' = [prod EXCEPT !.pc = "block", !.start = @ + BlockSize]
        /\ UNCHANGED failed
  /\ UNCHANGED <<layout, writeOps, writeOpsClosed, chanVars, fileClosed, memUsed, outVars>>

CloseReaders ==
  /\ prod.pc = "block" /\ prod.start >= layout[prod.e].size
  /\ readersClosed' = readersClosed \cup {prod.e}
  /\ NextEntry
  /\ UNCHANGED <<layout, writeOps, writeOpsClosed, opReady, readers, results,
                 workVars, limVars, outVars, failed>>

ProducerReturns ==
  /\ prod.pc = "next" /\ prod.e \notin Entries
  /\ prod' = [prod EXCEPT !.pc = "returned"]
  /\ writeOpsClosed' = TRUE
  /\ UNCHANGED <<layout, writeOps, chanVars, workVars, limVars, outVars, failed>>

Producer ==
  /\ ~panicked
  /\ \/ AddFileFails \/ AddSkipped \/ AddReady \/ QueueContents \/ RequestCpu
     \/ RequestMemory \/ QueueBlock \/ RequestBlockCpu \/ CloseReaders \/ ProducerReturns

-----------------------------------------------------------------------------
(***************************************************************************)
(* The goroutines that checksum and compress.                              *)
(***************************************************************************)
WorkerTo(t, pc) == worker' = [worker EXCEPT ![t] = pc]

MutWorkerFailsSilently(t) ==
  /\ worker[t] = "running"
  /\ WorkerTo(t, "send")
  /\ failed' = failed \cup {"worker"}
  /\ UNCHANGED <<layout, prodVars, chanVars, wg, fileClosed, limVars, outVars>>

WorkerFails(t) ==
  /\ worker[t] = "running"
  /\ WorkerTo(t, "error")
  /\ failed' = failed \cup {"worker"}
  /\ UNCHANGED <<layout, prodVars, chanVars, wg, fileClosed, limVars, outVars>>

\* crcFile hands the entry over, then gives its CPU token back, then wg.Done.
CrcDone(e) ==
  /\ Parallel(e) /\ worker[<<e, 0>>] = "running"
  /\ opReady' = opReady \cup {e}
  /\ WorkerTo(<<e, 0>>, "finish")
  /\ UNCHANGED <<layout, prodVars, readers, readersClosed, results, wg, fileClosed,
                 limVars, outVars, failed>>

CrcFinish(e) ==
  /\ Parallel(e) /\ worker[<<e, 0>>] = "finish"
  /\ cpuUsed' = cpuUsed - 1
  /\ wg' = [wg EXCEPT ![e] = @ - 1]
  /\ WorkerTo(<<e, 0>>, "done")
  /\ UNCHANGED <<layout, prodVars, chanVars, fileClosed, memUsed, outVars, failed>>

\* compressPartialFile gives its CPU token back before it delivers the block.
BlockCompressed(t) ==
  /\ t[2] > 0 /\ worker[t] = "running"
  /\ cpuUsed' = cpuUsed - 1
  /\ WorkerTo(t, "send")
  /\ UNCHANGED <<layout, prodVars, chanVars, wg, fileClosed, memUsed, outVars, failed>>

BlockSend(t) ==
  /\ t[2] > 0 /\ worker[t] = "send"
  /\ results' = results \cup {t}
  /\ wg' = [wg EXCEPT ![t[1]] = @ - 1]
  /\ WorkerTo(t, "done")
  /\ UNCHANGED <<layout, prodVars, opReady, readers, readersClosed, fileClosed,
                 limVars, outVars, failed>>

\* compressWholeFile fills both channels of the entry before it delivers it.
WholeCompressed(e) ==
  /\ ~Parallel(e) /\ worker[<<e, 0>>] = "running"
  /\ readers' = [readers EXCEPT ![e] = <<1>>]
  /\ readersClosed' = readersClosed \cup {e}
  /\ results' = results \cup {<<e, 1>>}
  /\ cpuUsed' = cpuUsed - 1
  /\ WorkerTo(<<e, 0>>, "send")
  /\ UNCHANGED <<layout, prodVars, opReady, wg, fileClosed, memUsed, outVars, failed>>

WholeSend(e) ==
  /\ ~Parallel(e) /\ worker[<<e, 0>>] = "send"
  /\ opReady' = opReady \cup {e}
  /\ WorkerTo(<<e, 0>>, "close")
  /\ UNCHANGED <<layout, prodVars, readers, readersClosed, results, wg, fileClosed,
                 limVars, outVars, failed>>

WholeClose(e) ==
  /\ worker[<<e, 0>>] = "close"
  /\ fileClosed' = fileClosed \cup {e}
  /\ WorkerTo(<<e, 0>>, "done")
  /\ UNCHANGED <<layout, prodVars, chanVars, wg, limVars, outVars, failed>>

\* The goroutine started once all the blocks of e are: wg.Wait(); closer.Close().
MutCloseFileEarly(e) ==
  /\ Parallel(e) /\ e \in readersClosed /\ e \notin fileClosed
  /\ fileClosed' = fileClosed \cup {e}
  /\ UNCHANGED <<layout, prodVars, chanVars, worker, wg, limVars, outVars, failed>>

CloseFile(e) ==
  /\ Parallel(e) /\ e \in readersClosed /\ wg[e] = 0 /\ e \notin fileClosed
  /\ fileClosed' = fileClosed \cup {e}
  /\ UNCHANGED <<layout, prodVars, chanVars, worker, wg, limVars, outVars, failed>>

Worker ==
  /\ ~panicked
  /\ \/ \E t \in Tasks : WorkerFails(t) \/ BlockCompressed(t) \/ BlockSend(t)
     \/ \E e \in Entries : \/ CrcDone(e) \/ CrcFinish(e) \/ WholeCompressed(e)
                           \/ WholeSend(e) \/ WholeClose(e) \/ CloseFile(e)

-----------------------------------------------------------------------------
(***************************************************************************)
(* The writer: the loop of ZipWriter.write.  Exactly one data channel is   *)
(* non-nil at a time; the errors channel is always in the select.          *)
(***************************************************************************)
WriterIdle == writer.op = None /\ writer.rdrs = None /\ writer.rdr = None

\* write returns: its deferred calls close the errors channel and stop the
\* limiters.
Returns(r) == ret' = r /\ writer' = [writer EXCEPT !.pc = "returned"]

TakeOp ==
  /\ writer.pc = "loop" /\ WriterIdle
  /\ \/ /\ writeOps # <<>>
        /\ writer' = [writer EXCEPT !.op = Head(writeOps)]
        /\ writeOps' = Tail(writeOps)
     \/ /\ writeOps = <<>> /\ writeOpsClosed
        /\ writer' = [writer EXCEPT !.pc = "last"]
        /\ UNCHANGED writeOps
  /\ UNCHANGED <<layout, prod, writeOpsClosed, chanVars, workVars, limVars,
                 written, ret, panicked, failed, output>>

\* The header is written as soon as the checksum is known; an entry without
\* readers is closed at once.  Then the entry's memory is given back.
MutReleasedMemory(e) == IF Parallel(e) THEN 0 ELSE AllocatedSize(e)
ReleasedMemory(e) == AllocatedSize(e)

WriteHeader ==
  LET e == writer.op IN
  /\ writer.pc = "loop" /\ e # None /\ e \in opReady
  /\ opReady' = opReady \ {e}
  /\ \/ /\ Returns("err") /\ failed' = failed \cup {"header"}
        /\ UNCHANGED <<written, memUsed>>
     \/ /\ memUsed' = memUsed - ReleasedMemory(e)
        /\ IF layout[e].kind = "dir"
           THEN /\ written' = written \o <<<<e, "header">>, <<e, "close">>>>
                /\ writer' = [writer EXCEPT !.op = None]
           ELSE /\ written' = Append(written, <<e, "header">>)
                /\ writer' = [writer EXCEPT !.op = None, !.rdrs = e]
        /\ UNCHANGED <<ret, failed>>
  /\ UNCHANGED <<layout, prodVars, readers, readersClosed, results, workVars, cpuUsed, panicked, output>>

\* The head of futureReaders; no reader is left once the channel is closed.
MutNextReader(e) == Range(readers[e])
NextReader(e) == IF readers[e] = <<>> THEN {} ELSE {Head(readers[e])}

ReadersDone(e) == readers[e] = <<>> /\ e \in readersClosed

TakeReader ==
  LET e == writer.rdrs IN
  /\ writer.pc = "loop" /\ e # None /\ writer.rdr = None
  /\ \/ /\ \E b \in NextReader(e) :
             /\ writer' = [writer EXCEPT !.rdr = <<e, b>>]
             /\ readers' = [readers EXCEPT ![e] = Remove(@, b)]
        /\ UNCHANGED written
     \/ /\ ReadersDone(e)
        /\ written' = Append(written, <<e, "close">>)
        /\ writer' = [writer EXCEPT !.rdrs = None]
        /\ UNCHANGED readers
  /\ UNCHANGED <<layout, prodVars, opReady, readersClosed, results, workVars, limVars,
                 ret, panicked, failed, output>>

CopyBlock ==
  LET t == writer.rdr IN
  /\ writer.pc = "loop" /\ t # None /\ t \in results
  /\ results' = results \ {t}
  /\ \/ /\ Returns("err") /\ failed' = failed \cup {"copy"}
        /\ UNCHANGED written
     \/ /\ written' = Append(written, <<t[1], "data", t[2]>>)
        /\ writer' = [writer EXCEPT !.rdr = None]
        /\ UNCHANGED <<ret, failed>>
  /\ UNCHANGED <<layout, prodVars, opReady, readers, readersClosed, workVars, limVars, panicked, output>>

(***************************************************************************)
(* The errors channel is unbuffered: the sender goes on when the writer    *)
(* receives, and panics when write has returned and closed the channel.    *)
(***************************************************************************)
ProducerErrorSent ==
  /\ prod.pc = "error"
  /\ prod' = [prod EXCEPT !.pc = "returned"]
  /\ writeOpsClosed' = TRUE
  /\ UNCHANGED workVars

WorkerErrorSent(t) ==
  LET e == t[1] IN
  /\ worker[t] = "error"
  /\ CASE t[2] > 0 -> WorkerTo(t, "done") /\ wg' = [wg EXCEPT ![e] = @ - 1]
       [] t[2] = 0 /\ Parallel(e) -> WorkerTo(t, "finish") /\ UNCHANGED wg
       [] OTHER -> WorkerTo(t, "close") /\ UNCHANGED wg
  /\ UNCHANGED <<prod, writeOpsClosed, fileClosed>>

SomeErrorSent == ProducerErrorSent \/ \E t \in Tasks : WorkerErrorSent(t)

ReceiveError ==
  /\ writer.pc \in {"loop", "last"}
  /\ SomeErrorSent
  /\ Returns("err")
  /\ UNCHANGED <<layout, writeOps, chanVars, limVars, written, panicked, failed, output>>

\* One last chance to catch an error; then zipw.Close(), whose own error is
\* dropped.
LastChance ==
  /\ writer.pc = "last"
  /\ prod.pc # "error" /\ \A t \in Tasks : worker[t] # "error"
  /\ \/ failed' = failed
     \/ failed' = failed \cup {"archive"}
  /\ Returns("nil")
  /\ UNCHANGED <<layout, prodVars, chanVars, workVars, limVars, written, panicked, output>>

Writer ==
  /\ ~panicked
  /\ TakeOp \/ WriteHeader \/ TakeReader \/ CopyBlock \/ ReceiveError \/ LastChance

SendOnClosedErrors ==
  /\ ret # "none" /\ ~panicked
  /\ prod.pc = "error" \/ \E t \in Tasks : worker[t] = "error"
  /\ panicked' = TRUE
  /\ UNCHANGED <<layout, prodVars, chanVars, workVars, limVars, writer, written, ret, failed, output>>

(***************************************************************************)
(* Zip, once ZipTo is back.  The deferred os.Remove tests the err of       *)
(* os.Create, which ZipTo's err does not assign: it never removes.         *)
(***************************************************************************)
ZipReturns ==
  /\ ret # "none" /\ ~panicked
  /\ \/ output = "file" /\ output' = "kept"
     \/ output = "buffer" /\ ret = "err" /\ output' = "untouched"
     \/ output = "buffer" /\ ret = "nil" /\ output' \in {"kept", "untouched"}
  /\ UNCHANGED <<layout, prodVars, chanVars, workVars, limVars, writer, written, ret,
                 panicked, failed>>

Next == Producer \/ Worker \/ Writer \/ SendOnClosedErrors \/ ZipReturns

Spec == Init /\ [][Next]_vars

\* Every goroutine that can run is eventually scheduled.  The goroutines of one
\* archive take finitely many steps, so fairness of each group is enough.
FairSpec == Spec /\ WF_vars(ret = "none" /\ Producer)
                 /\ WF_vars(ret = "none" /\ Worker) /\ WF_vars(Writer)

-----------------------------------------------------------------------------
WorkerPC == {"none", "running", "error", "finish", "send", "close", "done"}
FailureKinds == {"addFile", "dict", "worker", "header", "copy", "archive"}

\* Type invariant; the limiters' counters never go below zero (the limiter
\* would panic).
TypeOK ==
  /\ layout \in Layouts
  /\ prod.pc \in {"next", "cpu", "mem", "block", "blockCpu", "error", "returned"}
  /\ writeOps \in Seq(Entries) /\ Len(writeOps) <= WriteOpsCap
  /\ opReady \subseteq Entries /\ readersClosed \subseteq Entries
  /\ results \subseteq Tasks /\ worker \in [Tasks -> WorkerPC]
  /\ wg \in [Entries -> Nat] /\ fileClosed \subseteq Entries
  /\ cpuUsed \in Nat /\ memUsed \in Nat
  /\ failed \subseteq FailureKinds
  /\ ret \in {"none", "nil", "err"}
  /\ output \in {"file", "buffer", "kept", "untouched"}

\* The archive that pathMappings asks for: for every entry its header, its
\* blocks and its end, in the order of the mappings.
Expected ==
  FlattenSeq([e \in Entries |->
    IF layout[e].kind = "skip" THEN <<>>
    ELSE <<<<e, "header">>>> \o [b \in 1 .. Blocks(e) |-> <<e, "data", b>>]
           \o <<<<e, "close">>>>])

\* What the writer has put into the archive is always a prefix of what was
\* asked for: neither entries nor the blocks of one file, compressed out of
\* order by different goroutines, are ever swapped, lost or interleaved.
ArchiveInOrder == IsPrefix(written, Expected)


\* No failure of the producer or of a goroutine is lost: write returns nil only
\* if none of them failed (the failure of zipw.Close is ErrorCaught's subject).
ErrorsReported == ret = "nil" => failed \subseteq {"archive"}

\* allocatedSize is there "to ensure we release as much memory as much as we
\* request": the memory limiter holds exactly the files that were granted and
\* whose header is not written yet.
MemoryBalanced ==
  memUsed = MapThenSumSet(AllocatedSize,
              {e \in Entries : worker[<<e, 0>>] # "none" /\ ~Contains(written, <<e, "header">>)})

\* Checksumming and compressing goroutines, and the one about to start, never
\* outnumber parallelJobs, whatever fails.
CpuBound ==
  /\ Cardinality({t \in Tasks : worker[t] \in {"running", "finish"}})
       + (IF prod.pc = "mem" THEN 1 ELSE 0) <= cpuUsed
  /\ cpuUsed <= CpuCapacity

\* The source file stays open while a goroutine or the producer reads it.
NoReadAfterClose ==
  /\ \A t \in Tasks : worker[t] = "running" => t[1] \notin fileClosed
  /\ prod.pc \in {"block", "blockCpu"} => prod.e \notin fileClosed

\* write returns: the producer, the compressors, the writer and the two
\* limiters never wait for each other for ever, with any file larger than the
\* memory limit, with a full writeOps channel and after any failure.
Termination == <>(ret # "none")

\* "One last chance to catch an error": write does not return nil after an
\* error, the one of zipw.Close included.
ErrorCaught == ret = "nil" => failed = {}

\* Zip's deferred "if err != nil { os.Remove(args.OutputFilePath) }": no
\* partial archive stays behind when Zip fails.
FailedZipRemovesOutput == output = "kept" => ret = "nil"
=============================================================================
