---------------------------- MODULE ConvertRun ----------------------------
(***************************************************************************)
(* The conversions of the command line: zvcr migrate and zvcr export over  *)
(* the region files of a directory (progress.rs run_all, with migrate_one  *)
(* or export_file as its work), and zvcr migrate of a single file.         *)
(*                                                                         *)
(* A batch hands its sources to a pool of threads.  A worker skips a       *)
(* source whose output exists; otherwise it reads the source, encodes it   *)
(* and writes the output in place with fs::write, which first creates or   *)
(* truncates the file.  The process may be killed between any two steps,   *)
(* and may then be run again over what it left on disk.                    *)
(*                                                                         *)
(* Migration gives every source an output of its own.  Export names the    *)
(* output after the region's coordinates only, so sources of the same name *)
(* in two directories share one: OutputOf need not be injective.           *)
(***************************************************************************)
EXTENDS Naturals, FiniteSets

CONSTANTS
  Sources,    \* region files that discover() finds
  Outputs,    \* paths of the outputs
  OutputOf,   \* the output a source is converted to
  Unusable,   \* sources that cannot be read or converted
  Threads,    \* size of rayon's pool
  Absent, Empty, Torn,  \* no file; a truncated one; neither empty nor whole
  MaxRuns,    \* bound: how often the program is started
  MaxFaults   \* bound: writes that fail and kills of the process

ASSUME ParametersOK ==
  /\ IsFiniteSet(Sources)
  /\ OutputOf \in [Sources -> Outputs]
  /\ Unusable \subseteq Sources
  /\ Threads \in Nat \ {0}
  /\ {Absent, Empty, Torn} \cap Sources = {}
  /\ Cardinality({Absent, Empty, Torn}) = 3
  /\ MaxRuns \in Nat /\ MaxFaults \in Nat

VARIABLES
  disk,      \* what every output path holds: a source stands for its whole output
  phase,     \* of the process: "running", "reported" or "dead" (or not yet started)
  batch,     \* sources of this run
  work,      \* how far the work on a source of the batch is
  recorded,  \* sources whose outcome is counted in RunStats
  stats,     \* RunStats: the counters of failed and skipped sources
  report,    \* what the last run printed, and its exit code
  preserved, \* history variable: outputs that existed when the batch started
  runs, faults

vars == <<disk, phase, batch, work, recorded, stats, report, preserved, runs, faults>>

Outcomes == {"written", "skipped", "failed"}

With(outcome) == {s \in batch : work[s] = outcome}

NoReport == [code |-> "none"]

Start(sources, first, kept) ==
  /\ phase # "running"
  /\ runs < MaxRuns
  /\ phase' = "running"
  /\ batch' = sources
  /\ work' = [s \in Sources |-> first]
  /\ recorded' = {}
  /\ stats' = [failed |-> 0, skipped |-> 0]
  /\ report' = NoReport
  /\ preserved' = kept
  /\ runs' = runs + 1
  /\ UNCHANGED <<disk, faults>>

(* run_migrate_dir and run_export: all the sources, and nothing decided.   *)
StartBatch == Start(Sources, "waiting", {o \in Outputs : disk[o] # Absent})

(* run_migrate_file: one source; its output is overwritten.                *)
StartFile(s) == Start({s}, "reading", {})

Advance(s, state) == work' = [work EXCEPT ![s] = state]

Running(s) == phase = "running" /\ s \in batch

SkipsMutant(o) == FALSE

(* Path::exists: any file counts, a torn one too. *)
Skips(o) == disk[o] # Absent

BusyMutant == {s \in batch : work[s] # "waiting"}

(* Sources a thread is at work on. *)
Busy == {s \in batch \ recorded : work[s] # "waiting"}

(* A thread of the pool takes a source and looks whether its output exists. *)
CheckOutput(s) ==
  /\ Running(s)
  /\ work[s] = "waiting"
  /\ Cardinality(Busy) < Threads
  /\ Advance(s, IF Skips(OutputOf[s]) THEN "skipped" ELSE "reading")
  /\ UNCHANGED <<disk, phase, batch, recorded, stats, report, preserved, runs, faults>>

(* Reading, checking and encoding a source touch no output. *)
ReadSource(s) ==
  /\ Running(s)
  /\ work[s] = "reading"
  /\ Advance(s, IF s \in Unusable THEN "failed" ELSE "opening")
  /\ UNCHANGED <<disk, phase, batch, recorded, stats, report, preserved, runs, faults>>

(* fs::write creates or truncates the file ... *)
OpenOutput(s) ==
  /\ Running(s)
  /\ work[s] = "opening"
  /\ Advance(s, "writing")
  /\ disk' = [disk EXCEPT ![OutputOf[s]] = Empty]
  /\ UNCHANGED <<phase, batch, recorded, stats, report, preserved, runs, faults>>

WritesAlone(s) ==
  /\ disk[OutputOf[s]] = Empty
  /\ \A other \in batch \ {s} : OutputOf[other] = OutputOf[s] => work[other] # "writing"

(* ... and writes all the bytes, over what another thread wrote to the     *)
(* same path since: the mixture may or may not come out as this output.    *)
WriteOutput(s) ==
  /\ Running(s)
  /\ work[s] = "writing"
  /\ Advance(s, "written")
  /\ \E content \in (IF WritesAlone(s) THEN {s} ELSE {s, Torn}) :
       disk' = [disk EXCEPT ![OutputOf[s]] = content]
  /\ UNCHANGED <<phase, batch, recorded, stats, report, preserved, runs, faults>>

(* The file cannot be opened, or only a part of the bytes can be written.  *)
FailWrite(s) ==
  /\ Running(s)
  /\ work[s] \in {"opening", "writing"}
  /\ faults < MaxFaults
  /\ faults' = faults + 1
  /\ Advance(s, "failed")
  /\ \E content \in (IF work[s] = "writing" THEN {disk[OutputOf[s]], Torn}
                                            ELSE {disk[OutputOf[s]]}) :
       disk' = [disk EXCEPT ![OutputOf[s]] = content]
  /\ UNCHANGED <<phase, batch, recorded, stats, report, preserved, runs>>

CountedMutant(outcome) ==
  CASE outcome = "failed"  -> [stats EXCEPT !.failed = @ + 1, !.skipped = @ + 1]
    [] outcome = "skipped" -> [stats EXCEPT !.skipped = @ + 1]
    [] outcome = "written" -> stats

(* record_fail, record_skip, record_written. *)
Counted(outcome) ==
  CASE outcome = "failed"  -> [stats EXCEPT !.failed = @ + 1]
    [] outcome = "skipped" -> [stats EXCEPT !.skipped = @ + 1]
    [] outcome = "written" -> stats

Record(s) ==
  /\ Running(s)
  /\ work[s] \in Outcomes
  /\ s \notin recorded
  /\ recorded' = recorded \cup {s}
  /\ stats' = Counted(work[s])
  /\ UNCHANGED <<disk, phase, batch, work, report, preserved, runs, faults>>

JoinedMutant == \A s \in batch : work[s] # "waiting"

(* collect() returns when the work on every source has. *)
Joined == \A s \in batch : s \in recorded

Report ==
  /\ phase = "running"
  /\ Joined
  /\ phase' = "reported"
  /\ report' = [ok |-> Cardinality(batch) - stats.failed - stats.skipped,
                failed |-> stats.failed, skipped |-> stats.skipped,
                code |-> IF stats.failed > 0 THEN "FAILURE" ELSE "SUCCESS"]
  /\ UNCHANGED <<disk, batch, work, recorded, stats, preserved, runs, faults>>

(* The process is killed: a file that was being written keeps what it had  *)
(* or a part of the new bytes.                                             *)
Kill ==
  /\ phase = "running"
  /\ faults < MaxFaults
  /\ faults' = faults + 1
  /\ phase' = "dead"
  /\ \E cut \in SUBSET {OutputOf[s] : s \in With("writing")} :
       disk' = [o \in Outputs |-> IF o \in cut THEN Torn ELSE disk[o]]
  /\ UNCHANGED <<batch, work, recorded, stats, report, preserved, runs>>

Init ==
  /\ disk = [o \in Outputs |-> Absent]
  /\ phase = "dead"
  /\ batch = {}
  /\ work = [s \in Sources |-> "waiting"]
  /\ recorded = {}
  /\ stats = [failed |-> 0, skipped |-> 0]
  /\ report = NoReport
  /\ preserved = {}
  /\ runs = 0
  /\ faults = 0

Work(s) ==
  \/ CheckOutput(s)
  \/ ReadSource(s)
  \/ OpenOutput(s)
  \/ WriteOutput(s)
  \/ Record(s)

Next ==
  \/ StartBatch
  \/ \E s \in Sources : StartFile(s) \/ Work(s) \/ FailWrite(s)
  \/ Report
  \/ Kill

Spec == Init /\ [][Next]_vars

(* The pool runs every job it was given; nobody has to start the program.  *)
FairSpec == Spec /\ (\A s \in Sources : WF_vars(Work(s))) /\ WF_vars(Report)

-----------------------------------------------------------------------------
(* Properties                                                              *)

(***************************************************************************)
(* Types; the subtraction that counts the converted files does not         *)
(* underflow.                                                              *)
(***************************************************************************)
TypeOK ==
  /\ disk \in [Outputs -> Sources \cup {Absent, Empty, Torn}]
  /\ phase \in {"running", "reported", "dead"}
  /\ batch \subseteq Sources
  /\ work \in [Sources -> {"waiting", "reading", "opening", "writing"} \cup Outcomes]
  /\ recorded \subseteq batch
  /\ stats \in [failed: 0..Cardinality(Sources), skipped: 0..Cardinality(Sources)]
  /\ report \in [ok: 0..Cardinality(Sources), failed: 0..Cardinality(Sources),
                 skipped: 0..Cardinality(Sources), code: {"SUCCESS", "FAILURE"}]
               \cup {NoReport}
  /\ preserved \subseteq Outputs
  /\ runs \in 0..MaxRuns
  /\ faults \in 0..MaxFaults

(***************************************************************************)
(* The summary counts every source once, under what became of it, and the  *)
(* exit code tells whether one failed: report() takes the number of        *)
(* converted files from a subtraction of counters the threads incremented. *)
(***************************************************************************)
ReportIsExact ==
  phase = "reported" =>
    /\ report.ok = Cardinality(With("written"))
    /\ report.failed = Cardinality(With("failed"))
    /\ report.skipped = Cardinality(With("skipped"))
    /\ report.code = "FAILURE" <=> With("failed") # {}

(* Sources no other convertible source shares its output with. *)
Unrivalled(s) ==
  \A other \in Sources \ (Unusable \cup {s}) : OutputOf[other] # OutputOf[s]

(***************************************************************************)
(* As long as no write has failed and no run was killed, a run that exits  *)
(* with SUCCESS leaves the whole output of every source that has one to    *)
(* itself, over any sequence of batches and single files.                  *)
(***************************************************************************)
SuccessMeansWhole ==
  faults = 0 /\ report.code = "SUCCESS" =>
    \A s \in batch \ Unusable : Unrivalled(s) => disk[OutputOf[s]] = s

(***************************************************************************)
(* No batch touches an output that existed when it started: what is        *)
(* skipped is skipped by every source of that output, in every order.      *)
(***************************************************************************)
OutputsArePreserved == [][\A o \in preserved \cap preserved' : disk'[o] = disk[o]]_vars

(***************************************************************************)
(* A run that is not killed reports: no source is left waiting, whatever   *)
(* the others' outcomes are.                                               *)
(***************************************************************************)
RunsEnd == phase = "running" ~> phase # "running"

(***************************************************************************)
(* What the message "nothing to migrate, all N outputs already present"    *)
(* says.  Only that a file exists was checked, and a killed or failed      *)
(* write leaves one behind.                                                *)
(***************************************************************************)
AllPresentMeansWhole ==
  phase = "reported" /\ report.skipped = Cardinality(batch) =>
    \A s \in batch : disk[OutputOf[s]] \in Sources

=============================================================================
