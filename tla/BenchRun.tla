----------------------------- MODULE BenchRun -----------------------------
(***************************************************************************)
(* The benchmark over a directory of regions: zvcr/src/bench.              *)
(*                                                                         *)
(* A pool of threads takes the files, in any order: reads and decodes each,*)
(* encodes it in the experimental format, decodes that, and compares the   *)
(* two regions.  Both are alive at that point, and their sections are      *)
(* slices of buffers that come from the thread's pool (BufferPool).  What  *)
(* became of a file is counted in shared counters, one after the other,    *)
(* and returned as its result.  Meanwhile a reporter prints the counters,  *)
(* until the main thread, which waits for all results, stops and joins it. *)
(*                                                                         *)
(* Times and the sizes that only the summary adds up are left out; so are  *)
(* panics, which end the program.                                          *)
(***************************************************************************)
EXTENDS BufferPool

CONSTANTS
  Directories,  \* what discover() may find: sequences of files
  Samples,      \* the sample sizes asked for, or All
  All,
  Verify,       \* the values of verify
  ArrayBytes,   \* capacity of a section packed in memory, as bytes
  None

ASSUME BenchOK ==
  /\ ArrayBytes \in 0..(MIN_POOL_CAPACITY - 1)
  /\ Verify \subseteq BOOLEAN
  /\ Samples \subseteq Nat \cup {All}

(* A walk of directories comes by every path once.                         *)
ASSUME DirectoriesOK ==
  \A files \in Directories :
    /\ files \in Seq({files[i] : i \in DOMAIN files})
    /\ \A i \in DOMAIN files : files[i].bytes \in Nat /\ files[i].voxels \in Nat
    /\ \A i, j \in DOMAIN files : i # j => files[i].name # files[j].name

VARIABLES
  paths,    \* the files of the run
  verify,
  begun,    \* files handed out by the thread pool, in any order
  worker,   \* of each thread: its step, its file and the result so far
  progress, \* Progress: done, failed, bytes_in, voxels_in
  results,  \* of the files that are finished, or None
  stop,
  reporter, \* where the reporter is, and what it loaded
  main      \* "collect", "join", "summary"

bench_vars == <<heap, paths, verify, begun, worker, progress, results, stop, reporter, main>>

Total == Len(paths)

-----------------------------------------------------------------------------
(* discover                                                                *)

SampleEvenly(files, n) ==
  [i \in 1..n |-> files[((i - 1) * Len(files)) \div n + 1]]

Discover(files, sample) ==
  IF sample = All \/ sample >= Len(files) THEN files ELSE SampleEvenly(files, sample)

-----------------------------------------------------------------------------
(* bench_one                                                               *)

Idle == [step |-> "idle", at |-> 0, result |-> None]

FileOf(t) == paths[worker[t].at]

At(t, step) == worker[t].step = step

GoTo(t, step) == worker' = [worker EXCEPT ![t].step = step]

(* The call of finish: the result is known, the locals are still alive.    *)
FinishWith(t, ok, step, integrity_ok, original_bytes, voxels) ==
  worker' = [worker EXCEPT
    ![t].step = IF ok THEN "inc_done" ELSE "inc_failed",
    ![t].result = [path |-> FileOf(t).name, ok |-> ok, step |-> step,
                   integrity_ok |-> integrity_ok,
                   original_bytes |-> original_bytes, voxels |-> voxels]]

Begin(t) ==
  /\ At(t, "idle")
  /\ \E i \in (1..Total) \ begun :
       /\ begun' = begun \cup {i}
       /\ worker' = [worker EXCEPT ![t] = [Idle EXCEPT !.step = "read", !.at = i]]
  /\ UNCHANGED <<heap, paths, verify, progress, results, stop, reporter, main>>

shared == <<paths, verify, begun, progress, results, stop, reporter, main>>

ReadFile(t) ==
  /\ At(t, "read")
  /\ IF FileOf(t).readable
     THEN GoTo(t, "decompress")
     ELSE FinishWith(t, FALSE, "reference read", None, 0, 0)
  /\ UNCHANGED <<heap, shared>>

(* ReferenceReader::from_bytes. *)
DecompressReference(t) ==
  LET file == FileOf(t)
  IN  /\ At(t, "decompress")
      /\ HasRoom(heap)
      /\ heap' = Decompressed(heap, t, file.frame, <<"reference", file.name>>, <<t, "cursor">>)
      /\ IF Decompresses(file.frame)
         THEN GoTo(t, "parse")
         ELSE FinishWith(t, FALSE, "reference read", None, file.bytes, 0)
      /\ UNCHANGED shared

TheBuffer(owner) == CHOOSE b \in HeldBy(heap, owner) : TRUE

(* Sections are sliced from the bytes; the cursor's own slice is dropped,  *)
(* and after an error those of the sections read so far.                   *)
Sliced(t, name, slices) ==
  IF slices THEN Share(heap, TheBuffer(<<t, "cursor">>), <<t, name>>) ELSE heap

ParseReference(t) ==
  LET file == FileOf(t)
  IN  /\ At(t, "parse")
      /\ \E h \in {Sliced(t, "reference", file.well_formed /\ file.slices)} :
           heap' = Release(h, t, <<t, "cursor">>)
      /\ IF file.well_formed
         THEN GoTo(t, "encode")
         ELSE FinishWith(t, FALSE, "reference read", None, file.bytes, 0)
      /\ UNCHANGED shared

Encode(t) ==
  /\ At(t, "encode")
  /\ IF FileOf(t).encodes
     THEN GoTo(t, "decompress_encoded")
     ELSE FinishWith(t, FALSE, "experimental write", None, FileOf(t).bytes, FileOf(t).voxels)
  /\ UNCHANGED <<heap, shared>>

(* deserialize_region_data: a copy of the file for the header, then the    *)
(* body.  The copy lives as long as the function does.                     *)
DecompressEncoded(t) ==
  LET encoded == FileOf(t).encoded
  IN  /\ At(t, "decompress_encoded")
      /\ HasRoom(heap)
      /\ \E header \in {FromVec(Allocate(heap, encoded.bytes, "u8"), Unused(heap),
                               <<"header", FileOf(t).name>>, <<t, "header">>)} :
           heap' = Decompressed(header, t, [kind |-> "sized", size |-> encoded.size, all |-> encoded.size],
                                <<"encoded", FileOf(t).name>>, <<t, "cursor">>)
      /\ GoTo(t, "parse_encoded")
      /\ UNCHANGED shared

(* With a model, sections of the region are packed in memory: words that   *)
(* are then taken for bytes.  One stands for all of them.                  *)
ParseEncoded(t) ==
  LET encoded == FileOf(t).encoded
      packed(h) == FromVec(Allocate(h, ArrayBytes, "u64"), Unused(h),
                           <<"array", FileOf(t).name>>, <<t, "array">>)
  IN  /\ At(t, "parse_encoded")
      /\ HasRoom(heap)
      /\ \E sliced \in {Sliced(t, "encoded", encoded.decodes /\ encoded.slices)} :
         \E read \in {Release(sliced, t, <<t, "cursor">>)} :
         \E returned \in {Release(read, t, <<t, "header">>)} :
           heap' = IF encoded.decodes /\ encoded.modeled THEN packed(returned) ELSE returned
      /\ IF ~encoded.decodes
         THEN FinishWith(t, FALSE, "experimental decode", None, FileOf(t).bytes, FileOf(t).voxels)
         ELSE IF ~verify
         THEN FinishWith(t, TRUE, "decode", None, FileOf(t).bytes, FileOf(t).voxels)
         ELSE GoTo(t, "verify")
      /\ UNCHANGED shared

(* What the sections of a region are read as now.                          *)
Holds(t, name) ==
  \A b \in HeldBy(heap, <<t, name>>) : heap.memory[b].data = <<name, FileOf(t).name>>

SemanticallyEqual(t) ==
  /\ FileOf(t).faithful
  /\ \A name \in {"reference", "encoded", "array"} : Holds(t, name)

VerifyRegion(t) ==
  /\ At(t, "verify")
  /\ FinishWith(t, SemanticallyEqual(t), "integrity", SemanticallyEqual(t),
                FileOf(t).bytes, FileOf(t).voxels)
  /\ UNCHANGED <<heap, shared>>

-----------------------------------------------------------------------------
(* finish, and the return from bench_one                                   *)

Count(t, from, counter, n, to) ==
  /\ At(t, from)
  /\ progress' = [progress EXCEPT ![counter] = @ + n]
  /\ GoTo(t, to)
  /\ UNCHANGED <<heap, paths, verify, begun, results, stop, reporter, main>>

IncFailed(t) == Count(t, "inc_failed", "failed", 1, "inc_done")

IncDoneMutant(t) ==
  LET n == IF At(t, "inc_done") /\ ~worker[t].result.ok THEN 0 ELSE 1
  IN  Count(t, "inc_done", "done", n, "add_bytes")

IncDone(t) == Count(t, "inc_done", "done", 1, "add_bytes")

AddBytes(t) ==
  LET n == IF At(t, "add_bytes") THEN worker[t].result.original_bytes ELSE 0
  IN  Count(t, "add_bytes", "bytes_in", n, "add_voxels")

AddVoxels(t) ==
  LET n == IF At(t, "add_voxels") THEN worker[t].result.voxels ELSE 0
  IN  Count(t, "add_voxels", "voxels_in", n, "return")

(* The locals are dropped, the last first.                                 *)
Return(t) ==
  /\ At(t, "return")
  /\ \E without_array \in {Release(heap, t, <<t, "array">>)} :
     \E without_encoded \in {Release(without_array, t, <<t, "encoded">>)} :
       heap' = Release(without_encoded, t, <<t, "reference">>)
  /\ results' = [results EXCEPT ![worker[t].at] = worker[t].result]
  /\ worker' = [worker EXCEPT ![t] = Idle]
  /\ UNCHANGED <<paths, verify, begun, progress, stop, reporter, main>>

-----------------------------------------------------------------------------
(* The reporter and the main thread                                        *)

Report(from, to, done) ==
  /\ reporter.step = from
  /\ reporter' = [step |-> to, done |-> done]
  /\ UNCHANGED <<heap, paths, verify, begun, worker, progress, results, stop, main>>

CheckStop == Report("check", IF stop THEN "ended" ELSE "load", 0)

LoadDone == Report("load", "print", progress.done)

(* The subtraction for the time that is left, the print and the sleep.     *)
PrintAndSleep == Report("print", "check", 0)

StopReporterMutant ==
  /\ main = "collect"
  /\ \A i \in 1..Total : results[i] # None
  /\ main' = "join"
  /\ UNCHANGED <<heap, paths, verify, begun, worker, progress, results, stop, reporter>>

StopReporter ==
  /\ main = "collect"
  /\ \A i \in 1..Total : results[i] # None
  /\ stop' = TRUE
  /\ main' = "join"
  /\ UNCHANGED <<heap, paths, verify, begun, worker, progress, results, reporter>>

JoinReporter ==
  /\ main = "join"
  /\ reporter.step = "ended"
  /\ main' = "summary"
  /\ UNCHANGED <<heap, paths, verify, begun, worker, progress, results, stop, reporter>>

-----------------------------------------------------------------------------

BenchInit ==
  /\ heap = EmptyHeap
  /\ \E files \in Directories, sample \in Samples : paths = Discover(files, sample)
  /\ paths # <<>>
  /\ verify \in Verify
  /\ begun = {}
  /\ worker = [t \in Threads |-> Idle]
  /\ progress = [done |-> 0, failed |-> 0, bytes_in |-> 0, voxels_in |-> 0]
  /\ results = [i \in 1..Total |-> None]
  /\ stop = FALSE
  /\ reporter = [step |-> "check", done |-> 0]
  /\ main = "collect"

Bench(t) ==
  \/ ReadFile(t)
  \/ DecompressReference(t)
  \/ ParseReference(t)
  \/ Encode(t)
  \/ DecompressEncoded(t)
  \/ ParseEncoded(t)
  \/ VerifyRegion(t)
  \/ IncFailed(t)
  \/ IncDone(t)
  \/ AddBytes(t)
  \/ AddVoxels(t)
  \/ Return(t)

Reporter == CheckStop \/ LoadDone \/ PrintAndSleep

Main == StopReporter \/ JoinReporter

BenchNext == Reporter \/ Main \/ \E t \in Threads : Begin(t) \/ Bench(t)

BenchSpec == BenchInit /\ [][BenchNext]_bench_vars

(* Threads are scheduled by the operating system.  Which of the workers    *)
(* takes a file is up to them, but one of them does.                       *)
Fairness ==
  /\ WF_bench_vars(Reporter)
  /\ WF_bench_vars(Main)
  /\ WF_bench_vars(\E t \in Threads : Begin(t))
  /\ \A t \in Threads : WF_bench_vars(Bench(t))

FairSpec == BenchSpec /\ Fairness

-----------------------------------------------------------------------------
(* Properties                                                              *)

Passes(file) ==
  /\ file.readable /\ Decompresses(file.frame) /\ file.well_formed
  /\ file.encodes /\ file.encoded.decodes
  /\ verify => file.faithful

SumOf(field) ==
  LET sum[n \in 0..Total] == IF n = 0 THEN 0 ELSE sum[n - 1] + results[n][field]
  IN  sum[Total]

(***************************************************************************)
(* At the summary every file of the sample, each of them once, has its     *)
(* result: it failed if and only if the file, its encoding or its          *)
(* comparison is to blame, so a buffer that was used again while a region  *)
(* still read from it is ruled out.  The counters agree with the results,  *)
(* and at no time did the reporter load a count of done files above the    *)
(* total, from which it is subtracted.                                     *)
(***************************************************************************)
ResultsAreExact ==
  /\ reporter.done <= Total
  /\ main = "summary" =>
       /\ \A i \in 1..Total : /\ results[i].path = paths[i].name
                              /\ results[i].ok <=> Passes(paths[i])
       /\ \A i, j \in 1..Total : i # j => paths[i].name # paths[j].name
       /\ progress = [done |-> Total,
                      failed |-> Cardinality({i \in 1..Total : ~results[i].ok}),
                      bytes_in |-> SumOf("original_bytes"),
                      voxels_in |-> SumOf("voxels")]

(***************************************************************************)
(* The bytes under a region's sections are those that were read for it, as *)
(* long as the region lives, whatever other files are decompressed.        *)
(***************************************************************************)
RegionsKeepTheirBytes ==
  \A t \in Threads, name \in {"reference", "encoded", "array"} : Holds(t, name)

(***************************************************************************)
(* The pools are sound, and no buffer outlives its file but in a pool: a   *)
(* thread without a file refers to none, however its last file failed.     *)
(***************************************************************************)
BuffersAreAccounted ==
  /\ PoolIsSound
  /\ \A b \in Allocated(heap) :
       \A owner \in heap.memory[b].refs : ~At(owner[1], "idle")

(***************************************************************************)
(* Every run comes to its summary, the reporter having ended before.       *)
(***************************************************************************)
RunEnds == <>(main = "summary" /\ reporter.step = "ended")

=============================================================================
