---------------------------- MODULE FileProofs ----------------------------
(***************************************************************************)
(* Proofs about what is in files: what the conversions leave on disk       *)
(* (ConvertRun), and what a file of the reference format says of its       *)
(* region (ReferenceCodec).                                                *)
(*                                                                         *)
(* Conversions: for any number of sources, outputs, threads, runs and      *)
(* faults, whichever sources share their outputs.  The counters are the    *)
(* cardinalities of the sets of counted sources, so the summary is exact   *)
(* when all are counted.  What existed before a batch is only ever skipped *)
(* by it.  And while nothing has failed, the output of a source that has   *)
(* it to itself is absent or whole, except between the two steps of its    *)
(* own write.                                                              *)
(*                                                                         *)
(* Reference format: for any regions, palettes and limits.  The tables of  *)
(* the writer only ever go on, so an index that was written still leads to *)
(* its palette in the tables that end up in the file.  What is written of  *)
(* each place of the region, which is a part of a segment and in a section *)
(* one of its snapshots, is laid out in the body one place after the       *)
(* other, at offsets that some function gives; behind the tables, all are  *)
(* as far further on.  The reader is at the offset of its place, has the   *)
(* tables the writer ended with, has read what lies before its place, and  *)
(* found that it all fits.                                                 *)
(***************************************************************************)
EXTENDS ConvertRun, ReferenceCodec, NaturalSets, FiniteSetTheorems, TLAPS

-----------------------------------------------------------------------------
(* Conversions                                                             *)

(* The counted sources of an outcome. *)
CountedWith(outcome) == {s \in recorded : work[s] = outcome}

CountersAgree ==
  /\ \A s \in recorded : work[s] \in Outcomes
  /\ stats.failed = Cardinality(CountedWith("failed"))
  /\ stats.skipped = Cardinality(CountedWith("skipped"))

(* Only a run that has joined all its work has a report.                   *)
ReportedWhenJoined ==
  /\ phase = "reported" => recorded = batch
  /\ report # NoReport => phase = "reported"

(* In a running batch, an output that was there still is, and its sources  *)
(* are skipped.                                                            *)
PresentIsSkipped ==
  phase = "running" =>
    \A o \in preserved :
      /\ disk[o] # Absent
      /\ \A s \in batch : OutputOf[s] = o => work[s] \in {"waiting", "skipped"}

UnusableIsNotWritten ==
  \A s \in Unusable : work[s] \notin {"opening", "writing", "written"}

IsBeingWritten(s) ==
  /\ Running(s)
  /\ work[s] = "writing"
  /\ disk[OutputOf[s]] = Empty

(* The output of a source that has it to itself, while nothing has failed. *)
AbsentOrWhole(s) ==
  /\ disk[OutputOf[s]] \in {Absent, s} \/ IsBeingWritten(s)
  /\ s \in batch /\ work[s] = "writing" => IsBeingWritten(s)
  /\ s \in batch /\ work[s] \in {"written", "skipped"} => disk[OutputOf[s]] = s

NothingIsTorn ==
  faults = 0 => \A s \in Sources \ Unusable : Unrivalled(s) => AbsentOrWhole(s)

(* The inductive invariant.                                                *)
IInv ==
  /\ TypeOK
  /\ CountersAgree
  /\ ReportedWhenJoined
  /\ ReportIsExact
  /\ PresentIsSkipped
  /\ UnusableIsNotWritten
  /\ NothingIsTorn

-----------------------------------------------------------------------------
(* Counting                                                                *)

(* Numbers of sources. *)
LEMMA CountsAreBounded ==
  /\ Cardinality(Sources) \in Nat
  /\ \A S \in SUBSET Sources :
       /\ IsFiniteSet(S)
       /\ Cardinality(S) \in 0..Cardinality(Sources)
<1>1. IsFiniteSet(Sources)
  BY ParametersOK
<1>2. Cardinality(Sources) \in Nat
  BY <1>1, FS_CardinalityType
<1>3. ASSUME NEW S \in SUBSET Sources
      PROVE  IsFiniteSet(S) /\ Cardinality(S) \in 0..Cardinality(Sources)
  <2>1. IsFiniteSet(S) /\ Cardinality(S) <= Cardinality(Sources)
    BY <1>1, FS_Subset
  <2>2. Cardinality(S) \in Nat
    BY <2>1, FS_CardinalityType
  <2> QED BY <1>2, <2>1, <2>2
<1> QED BY <1>2, <1>3

(* Three disjoint sets that make up a batch leave one number, whichever    *)
(* two are subtracted.                                                     *)
LEMMA ThreeParts ==
  ASSUME NEW S \in SUBSET Sources, NEW A, NEW B, NEW C,
         S = A \cup B \cup C,
         A \cap B = {}, A \cap C = {}, B \cap C = {}
  PROVE  Cardinality(S) - Cardinality(A) - Cardinality(B) = Cardinality(C)
<1>1. /\ IsFiniteSet(A) /\ IsFiniteSet(B) /\ IsFiniteSet(C) /\ IsFiniteSet(A \cup B)
      /\ Cardinality(A) \in Nat /\ Cardinality(B) \in Nat /\ Cardinality(C) \in Nat
  <2>1. A \in SUBSET Sources /\ B \in SUBSET Sources /\ C \in SUBSET Sources
        /\ A \cup B \in SUBSET Sources
    OBVIOUS
  <2> QED BY <2>1, CountsAreBounded
<1>2. Cardinality(A \cup B) = Cardinality(A) + Cardinality(B)
  <2>1. Cardinality(A \cap B) = 0
    BY FS_EmptySet
  <2>2. Cardinality(A \cup B) = Cardinality(A) + Cardinality(B) - Cardinality(A \cap B)
    BY <1>1, FS_Union
  <2> QED BY <1>1, <2>1, <2>2
<1>3. Cardinality(S) = Cardinality(A \cup B) + Cardinality(C)
  <2>1. Cardinality((A \cup B) \cap C) = 0
    <3>1. (A \cup B) \cap C = {}
      OBVIOUS
    <3> QED BY <3>1, FS_EmptySet
  <2>2. Cardinality((A \cup B) \cup C)
          = Cardinality(A \cup B) + Cardinality(C) - Cardinality((A \cup B) \cap C)
    BY <1>1, FS_Union
  <2>3. Cardinality(A \cup B) \in Nat
    BY <1>1, <1>2
  <2> QED BY <1>1, <2>1, <2>2, <2>3
<1> QED BY <1>1, <1>2, <1>3

-----------------------------------------------------------------------------
(* The steps                                                               *)

States == {"waiting", "reading", "opening", "writing"} \cup Outcomes

(* Moving on with work that is not counted yet leaves the counts alone.    *)
LEMMA AdvanceKeepsCounts ==
  ASSUME TypeOK, CountersAgree, NEW s \in Sources \ recorded, NEW state,
         Advance(s, state), UNCHANGED <<recorded, stats>>
  PROVE  CountersAgree'
<1>1. \A t \in recorded : work'[t] = work[t]
  BY DEF Advance, TypeOK
<1>2. \A outcome : CountedWith(outcome)' = CountedWith(outcome)
  BY <1>1 DEF CountedWith
<1> QED BY <1>1, <1>2 DEF CountersAgree

LEMMA WorkIsCounted ==
  ASSUME CountersAgree, NEW s, work[s] \notin Outcomes
  PROVE  s \notin recorded
BY DEF CountersAgree

(* No run has begun.                                                       *)
LEMMA InitEstablishes ==
  ASSUME Init
  PROVE  IInv
<1> USE DEF Init, NoReport
<1>1. TypeOK
  BY CountsAreBounded, ParametersOK DEF TypeOK, Outcomes
<1>2. CountersAgree
  <2>1. \A outcome : CountedWith(outcome) = {}
    BY DEF CountedWith
  <2> QED BY <2>1, FS_EmptySet DEF CountersAgree
<1>3. ReportedWhenJoined /\ ReportIsExact /\ PresentIsSkipped /\ UnusableIsNotWritten
  BY ParametersOK DEF ReportedWhenJoined, ReportIsExact, PresentIsSkipped, UnusableIsNotWritten
<1>4. NothingIsTorn
  BY ParametersOK DEF NothingIsTorn, AbsentOrWhole
<1> QED BY <1>1, <1>2, <1>3, <1>4 DEF IInv

(* A run begins: nothing is decided, and the disk stays as it is.          *)
LEMMA StartKeeps ==
  ASSUME IInv, NEW sources \in SUBSET Sources, NEW first \in {"waiting", "reading"},
         NEW kept \in SUBSET Outputs, Start(sources, first, kept),
         \A o \in kept : disk[o] # Absent,
         first = "reading" => kept = {}
  PROVE  IInv'
<1> USE DEF Start
<1>0. \A s \in Sources : work'[s] = first
  OBVIOUS
<1>1. TypeOK'
  BY CountsAreBounded, ParametersOK DEF IInv, TypeOK
<1>2. CountersAgree'
  <2>1. \A outcome : CountedWith(outcome)' = {}
    BY DEF CountedWith
  <2> QED BY <2>1, FS_EmptySet DEF CountersAgree
<1>3. ReportedWhenJoined' /\ ReportIsExact'
  BY DEF ReportedWhenJoined, ReportIsExact, NoReport
<1>4. PresentIsSkipped'
  BY <1>0 DEF PresentIsSkipped
<1>5. UnusableIsNotWritten'
  BY <1>0, ParametersOK DEF UnusableIsNotWritten
<1>6. NothingIsTorn'
  <2> SUFFICES ASSUME faults = 0, NEW s \in Sources \ Unusable, Unrivalled(s)
               PROVE  AbsentOrWhole(s)'
    BY DEF NothingIsTorn, Unrivalled
  <2>1. disk[OutputOf[s]] \in {Absent, s}
    BY DEF IInv, NothingIsTorn, AbsentOrWhole, IsBeingWritten, Running
  <2> QED BY <1>0, <2>1 DEF AbsentOrWhole
<1> QED BY <1>1, <1>2, <1>3, <1>4, <1>5, <1>6 DEF IInv

(* Where neither the process nor its counters are touched, it is enough to *)
(* look at the work, the disk and the faults.                              *)
LEMMA RunningKeeps ==
  ASSUME IInv, phase = "running", NEW s \in batch, NEW state \in States,
         work[s] \notin Outcomes, Advance(s, state),
         UNCHANGED <<phase, batch, recorded, stats, report, preserved, runs>>,
         disk' \in [Outputs -> Sources \cup {Absent, Empty, Torn}],
         faults' \in 0..MaxFaults,
         \A o \in preserved : disk'[o] = disk[o],
         OutputOf[s] \in preserved => state = "skipped",
         s \in Unusable => state \notin {"opening", "writing", "written"},
         NothingIsTorn'
  PROVE  IInv'
<1>1. TypeOK'
  BY DEF IInv, TypeOK, Advance, States
<1>2. s \in Sources \ recorded
  BY WorkIsCounted DEF IInv, TypeOK
<1>3. CountersAgree'
  BY <1>2, AdvanceKeepsCounts DEF IInv
<1>4. ReportedWhenJoined' /\ ReportIsExact'
  BY DEF IInv, ReportedWhenJoined, ReportIsExact
<1>5. PresentIsSkipped'
  BY DEF IInv, TypeOK, PresentIsSkipped, Advance
<1>6. UnusableIsNotWritten'
  BY ParametersOK DEF IInv, TypeOK, UnusableIsNotWritten, Advance
<1> QED BY <1>1, <1>3, <1>4, <1>5, <1>6 DEF IInv

(* What is written belongs to no output that the batch found.              *)
LEMMA WrittenIsNotPreserved ==
  ASSUME IInv, NEW s, Running(s), work[s] \in {"reading", "opening", "writing"}
  PROVE  OutputOf[s] \in Outputs \ preserved
BY ParametersOK DEF IInv, TypeOK, Running, PresentIsSkipped

(* Looking for the output.                                                 *)
LEMMA CheckOutputKeeps ==
  ASSUME IInv, NEW s \in Sources, CheckOutput(s)
  PROVE  IInv'
<1> DEFINE state == IF Skips(OutputOf[s]) THEN "skipped" ELSE "reading"
<1> USE DEF CheckOutput, Running
<1>1. phase = "running" /\ s \in batch /\ Advance(s, state) /\ state \in States
  BY DEF States, Outcomes
<1>2. OutputOf[s] \in preserved => state = "skipped"
  BY DEF IInv, PresentIsSkipped, Skips
<1>3. NothingIsTorn'
  <2> SUFFICES ASSUME faults = 0, NEW t \in Sources \ Unusable, Unrivalled(t)
               PROVE  AbsentOrWhole(t)'
    BY DEF NothingIsTorn, Unrivalled
  <2>1. AbsentOrWhole(t)
    BY DEF IInv, NothingIsTorn
  <2>2. CASE t = s
    BY <2>1, <2>2 DEF IInv, TypeOK, AbsentOrWhole, IsBeingWritten, Advance, Skips
  <2>3. CASE t # s
    <3>1. work'[t] = work[t]
      BY <2>3 DEF IInv, TypeOK, Advance
    <3> QED BY <2>1, <3>1 DEF AbsentOrWhole, IsBeingWritten
  <2> QED BY <2>2, <2>3
<1>4. \A o \in preserved : disk'[o] = disk[o]
  OBVIOUS
<1> HIDE DEF state
<1>5. state \notin {"opening", "writing", "written"}
  BY DEF state
<1> QED BY <1>1, <1>2, <1>3, <1>4, <1>5, RunningKeeps DEF IInv, TypeOK, Outcomes

(* Reading and encoding the source.                                        *)
LEMMA ReadSourceKeeps ==
  ASSUME IInv, NEW s \in Sources, ReadSource(s)
  PROVE  IInv'
<1> DEFINE state == IF s \in Unusable THEN "failed" ELSE "opening"
<1> USE DEF ReadSource, Running
<1>1. phase = "running" /\ s \in batch /\ Advance(s, state) /\ state \in States
  BY DEF States, Outcomes
<1>2. OutputOf[s] \notin preserved
  BY WrittenIsNotPreserved
<1>3. NothingIsTorn'
  <2> SUFFICES ASSUME faults = 0, NEW t \in Sources \ Unusable, Unrivalled(t)
               PROVE  AbsentOrWhole(t)'
    BY DEF NothingIsTorn, Unrivalled
  <2>1. AbsentOrWhole(t)
    BY DEF IInv, NothingIsTorn
  <2>2. CASE t = s
    BY <2>1, <2>2 DEF IInv, TypeOK, AbsentOrWhole, IsBeingWritten, Advance
  <2>3. CASE t # s
    <3>1. work'[t] = work[t]
      BY <2>3 DEF IInv, TypeOK, Advance
    <3> QED BY <2>1, <3>1 DEF AbsentOrWhole, IsBeingWritten
  <2> QED BY <2>2, <2>3
<1>4. s \in Unusable => state \notin {"opening", "writing", "written"}
  OBVIOUS
<1> HIDE DEF state
<1> QED BY <1>1, <1>2, <1>3, <1>4, RunningKeeps DEF IInv, TypeOK, Outcomes

(* The output that changes is the one of no other source that may write.   *)
LEMMA OthersOutputsStay ==
  ASSUME IInv, NEW s \in Sources \ Unusable, NEW t \in Sources \ Unusable,
         t # s, Unrivalled(t), NEW content,
         disk' = [disk EXCEPT ![OutputOf[s]] = content]
  PROVE  disk'[OutputOf[t]] = disk[OutputOf[t]]
<1>1. OutputOf[s] # OutputOf[t]
  BY DEF Unrivalled
<1> QED BY <1>1, ParametersOK DEF IInv, TypeOK

(* Opening truncates the output.                                           *)
LEMMA OpenOutputKeeps ==
  ASSUME IInv, NEW s \in Sources, OpenOutput(s)
  PROVE  IInv'
<1> USE DEF OpenOutput, Running
<1>1. phase = "running" /\ s \in batch /\ Advance(s, "writing") /\ "writing" \in States
  BY DEF States
<1>2. OutputOf[s] \in Outputs \ preserved
  BY WrittenIsNotPreserved
<1>3. s \notin Unusable
  BY DEF IInv, UnusableIsNotWritten
<1>4. NothingIsTorn'
  <2> SUFFICES ASSUME faults = 0, NEW t \in Sources \ Unusable, Unrivalled(t)
               PROVE  AbsentOrWhole(t)'
    BY DEF NothingIsTorn, Unrivalled
  <2>1. AbsentOrWhole(t)
    BY DEF IInv, NothingIsTorn
  <2>2. CASE t = s
    <3>1. disk'[OutputOf[t]] = Empty /\ work'[t] = "writing"
      BY <1>2, <2>2 DEF IInv, TypeOK, Advance
    <3> QED BY <2>2, <3>1 DEF AbsentOrWhole, IsBeingWritten
  <2>3. CASE t # s
    <3>1. work'[t] = work[t]
      BY <2>3 DEF IInv, TypeOK, Advance
    <3>2. disk'[OutputOf[t]] = disk[OutputOf[t]]
      BY <1>3, <2>3, OthersOutputsStay
    <3> QED BY <2>1, <3>1, <3>2 DEF AbsentOrWhole, IsBeingWritten
  <2> QED BY <2>2, <2>3
<1>5. disk' \in [Outputs -> Sources \cup {Absent, Empty, Torn}]
  BY DEF IInv, TypeOK
<1>6. \A o \in preserved : disk'[o] = disk[o]
  BY <1>2 DEF IInv, TypeOK
<1> QED BY <1>1, <1>2, <1>3, <1>4, <1>5, <1>6, RunningKeeps DEF IInv, TypeOK, Outcomes

(* A source that has its output to itself finds it as it left it.          *)
LEMMA WritesItsOwn ==
  ASSUME IInv, faults = 0, NEW s \in batch \ Unusable, Running(s),
         work[s] = "writing", Unrivalled(s)
  PROVE  WritesAlone(s)
<1>1. disk[OutputOf[s]] = Empty
  BY DEF IInv, TypeOK, NothingIsTorn, AbsentOrWhole, IsBeingWritten
<1>2. ASSUME NEW other \in batch \ {s}, OutputOf[other] = OutputOf[s]
      PROVE  work[other] # "writing"
  <2>1. other \in Unusable
    BY <1>2 DEF IInv, TypeOK, Unrivalled
  <2> QED BY <2>1 DEF IInv, UnusableIsNotWritten
<1> QED BY <1>1, <1>2 DEF WritesAlone

(* Writing it.                                                             *)
LEMMA WriteOutputKeeps ==
  ASSUME IInv, NEW s \in Sources, WriteOutput(s)
  PROVE  IInv'
<1> USE DEF WriteOutput, Running
<1>1. phase = "running" /\ s \in batch /\ Advance(s, "written") /\ "written" \in States
  BY DEF States, Outcomes
<1>2. OutputOf[s] \in Outputs \ preserved
  BY WrittenIsNotPreserved
<1>3. s \notin Unusable
  BY DEF IInv, UnusableIsNotWritten
<1>4. PICK content \in {s, Torn} :
        /\ disk' = [disk EXCEPT ![OutputOf[s]] = content]
        /\ WritesAlone(s) => content = s
  OBVIOUS
<1>5. NothingIsTorn'
  <2> SUFFICES ASSUME faults = 0, NEW t \in Sources \ Unusable, Unrivalled(t)
               PROVE  AbsentOrWhole(t)'
    BY DEF NothingIsTorn, Unrivalled
  <2>1. AbsentOrWhole(t)
    BY DEF IInv, NothingIsTorn
  <2>2. CASE t = s
    <3>1. content = s
      BY <1>1, <1>4, <2>2, WritesItsOwn
    <3>2. disk'[OutputOf[t]] = s /\ work'[t] = "written"
      BY <1>2, <1>4, <2>2, <3>1 DEF IInv, TypeOK, Advance
    <3> QED BY <2>2, <3>2 DEF AbsentOrWhole
  <2>3. CASE t # s
    <3>1. work'[t] = work[t]
      BY <2>3 DEF IInv, TypeOK, Advance
    <3>2. disk'[OutputOf[t]] = disk[OutputOf[t]]
      BY <1>3, <1>4, <2>3, OthersOutputsStay
    <3> QED BY <2>1, <3>1, <3>2 DEF AbsentOrWhole, IsBeingWritten
  <2> QED BY <2>2, <2>3
<1>6. disk' \in [Outputs -> Sources \cup {Absent, Empty, Torn}]
  BY <1>4 DEF IInv, TypeOK
<1>7. \A o \in preserved : disk'[o] = disk[o]
  BY <1>2, <1>4 DEF IInv, TypeOK
<1> QED BY <1>1, <1>2, <1>3, <1>5, <1>6, <1>7, RunningKeeps DEF IInv, TypeOK, Outcomes

(* A write that fails.                                                     *)
LEMMA FailWriteKeeps ==
  ASSUME IInv, NEW s \in Sources, FailWrite(s)
  PROVE  IInv'
<1> USE DEF FailWrite, Running
<1>1. phase = "running" /\ s \in batch /\ Advance(s, "failed") /\ "failed" \in States
  BY DEF States, Outcomes
<1>2. OutputOf[s] \in Outputs \ preserved
  BY WrittenIsNotPreserved
<1>3. PICK content \in {disk[OutputOf[s]], Torn} : disk' = [disk EXCEPT ![OutputOf[s]] = content]
  OBVIOUS
<1>4. faults' \in 0..MaxFaults /\ faults' # 0
  BY ParametersOK DEF IInv, TypeOK
<1>5. disk' \in [Outputs -> Sources \cup {Absent, Empty, Torn}]
  BY <1>2, <1>3 DEF IInv, TypeOK
<1>6. \A o \in preserved : disk'[o] = disk[o]
  BY <1>2, <1>3 DEF IInv, TypeOK
<1>7. NothingIsTorn'
  BY <1>4 DEF NothingIsTorn
<1> QED BY <1>1, <1>2, <1>4, <1>5, <1>6, <1>7, RunningKeeps DEF Outcomes

(* Counting the outcome.                                                   *)
LEMMA RecordKeeps ==
  ASSUME IInv, NEW s \in Sources, Record(s)
  PROVE  IInv'
<1> USE DEF Record, Running
<1>1. CountersAgree'
  <2>1. \A t \in recorded' : work'[t] \in Outcomes
    BY DEF IInv, CountersAgree
  <2>2. ASSUME NEW outcome
        PROVE  CountedWith(outcome)' = IF work[s] = outcome
                                       THEN CountedWith(outcome) \cup {s}
                                       ELSE CountedWith(outcome)
    BY DEF CountedWith
  <2>3. ASSUME NEW outcome
        PROVE  /\ s \notin CountedWith(outcome)
               /\ IsFiniteSet(CountedWith(outcome))
    <3>1. CountedWith(outcome) \in SUBSET Sources
      BY DEF CountedWith, IInv, TypeOK
    <3> QED BY <3>1, CountsAreBounded DEF CountedWith
  <2>4. ASSUME NEW outcome
        PROVE  Cardinality(CountedWith(outcome) \cup {s}) = Cardinality(CountedWith(outcome)) + 1
    BY <2>3, FS_AddElement
  <2>5. stats'.failed = Cardinality(CountedWith("failed")')
    BY <2>2, <2>4 DEF IInv, TypeOK, CountersAgree, Counted, Outcomes
  <2>6. stats'.skipped = Cardinality(CountedWith("skipped")')
    BY <2>2, <2>4 DEF IInv, TypeOK, CountersAgree, Counted, Outcomes
  <2> QED BY <2>1, <2>5, <2>6 DEF CountersAgree, CountedWith
<1>2. TypeOK'
  <2>1. recorded' \subseteq batch'
    BY DEF IInv, TypeOK
  <2>2. \A outcome : CountedWith(outcome)' \in SUBSET Sources
    BY <2>1 DEF CountedWith, IInv, TypeOK
  <2>3. /\ stats'.failed \in 0..Cardinality(Sources)
        /\ stats'.skipped \in 0..Cardinality(Sources)
    BY <1>1, <2>2, CountsAreBounded DEF CountersAgree
  <2>4. stats' = [failed |-> stats'.failed, skipped |-> stats'.skipped]
    BY DEF Counted, Outcomes, IInv, TypeOK
  <2>5. stats' \in [failed: 0..Cardinality(Sources), skipped: 0..Cardinality(Sources)]
    BY <2>3, <2>4
  <2> QED BY <2>1, <2>5 DEF IInv, TypeOK
<1>3. ReportedWhenJoined' /\ ReportIsExact'
  BY DEF IInv, ReportedWhenJoined, ReportIsExact
<1>4. PresentIsSkipped' /\ UnusableIsNotWritten' /\ NothingIsTorn'
  BY DEF IInv, PresentIsSkipped, UnusableIsNotWritten, NothingIsTorn, AbsentOrWhole,
         IsBeingWritten, Unrivalled
<1> QED BY <1>1, <1>2, <1>3, <1>4 DEF IInv

(* All the work is counted when the report is made.                        *)
LEMMA ReportKeeps ==
  ASSUME IInv, Report
  PROVE  IInv'
<1> USE DEF Report
<1>1. recorded = batch /\ batch \in SUBSET Sources
  BY DEF Joined, IInv, TypeOK
<1>2. \A outcome : CountedWith(outcome) = With(outcome)
  BY <1>1 DEF CountedWith, With
<1>3. /\ stats.failed = Cardinality(With("failed"))
      /\ stats.skipped = Cardinality(With("skipped"))
  BY <1>2 DEF IInv, CountersAgree
<1>4. \A outcome : /\ With(outcome) \in SUBSET Sources
                   /\ Cardinality(With(outcome)) \in 0..Cardinality(Sources)
                   /\ IsFiniteSet(With(outcome))
  <2>1. \A outcome : With(outcome) \in SUBSET Sources
    BY <1>1 DEF With
  <2> QED BY <2>1, CountsAreBounded
<1>5. report'.ok = Cardinality(With("written"))
  <2>1. batch = With("failed") \cup With("skipped") \cup With("written")
    BY <1>1 DEF With, Outcomes, IInv, CountersAgree
  <2>2. /\ With("failed") \cap With("skipped") = {}
        /\ With("failed") \cap With("written") = {}
        /\ With("skipped") \cap With("written") = {}
    BY DEF With
  <2>3. Cardinality(batch) - Cardinality(With("failed")) - Cardinality(With("skipped"))
          = Cardinality(With("written"))
    BY <1>1, <2>1, <2>2, ThreeParts
  <2> QED BY <1>3, <2>3
<1>6. stats.failed > 0 <=> With("failed") # {}
  <2>1. Cardinality(With("failed")) = 0 <=> With("failed") = {}
    BY <1>4, FS_EmptySet
  <2>2. Cardinality(With("failed")) \in Nat
    BY <1>4, CountsAreBounded
  <2> QED BY <1>3, <2>1, <2>2
<1>7. report' \in [ok: 0..Cardinality(Sources), failed: 0..Cardinality(Sources),
                   skipped: 0..Cardinality(Sources), code: {"SUCCESS", "FAILURE"}]
  BY <1>3, <1>4, <1>5
<1>8. TypeOK'
  BY <1>7 DEF IInv, TypeOK
<1>9. \A outcome : With(outcome)' = With(outcome)
  BY DEF With
<1>10. ReportIsExact'
  <2>1. /\ report'.failed = Cardinality(With("failed"))
        /\ report'.skipped = Cardinality(With("skipped"))
    BY <1>3
  <2>2. report'.code = "FAILURE" <=> With("failed") # {}
    BY <1>6
  <2> QED BY <1>5, <1>9, <2>1, <2>2 DEF ReportIsExact
<1>11. CountersAgree' /\ ReportedWhenJoined' /\ PresentIsSkipped' /\ UnusableIsNotWritten'
  BY <1>1 DEF IInv, CountersAgree, CountedWith, ReportedWhenJoined, PresentIsSkipped,
              UnusableIsNotWritten
<1>12. NothingIsTorn'
  <2> SUFFICES ASSUME faults = 0, NEW t \in Sources \ Unusable, Unrivalled(t)
               PROVE  AbsentOrWhole(t)'
    BY DEF NothingIsTorn, Unrivalled
  <2>1. AbsentOrWhole(t)
    BY DEF IInv, NothingIsTorn
  <2>2. t \in batch => work[t] # "writing"
    BY <1>1 DEF IInv, CountersAgree, Outcomes
  <2> QED BY <2>1, <2>2 DEF AbsentOrWhole, IsBeingWritten, Running
<1> QED BY <1>8, <1>10, <1>11, <1>12 DEF IInv

(* The process is killed.                                                  *)
LEMMA KillKeeps ==
  ASSUME IInv, Kill
  PROVE  IInv'
<1> USE DEF Kill
<1>1. faults' \in 0..MaxFaults /\ faults' # 0
  BY ParametersOK DEF IInv, TypeOK
<1>2. disk' \in [Outputs -> Sources \cup {Absent, Empty, Torn}]
  BY DEF IInv, TypeOK
<1>3. TypeOK'
  BY <1>1, <1>2 DEF IInv, TypeOK
<1>4. CountersAgree' /\ ReportedWhenJoined' /\ ReportIsExact'
  BY DEF IInv, CountersAgree, CountedWith, ReportedWhenJoined, ReportIsExact
<1>5. PresentIsSkipped' /\ UnusableIsNotWritten' /\ NothingIsTorn'
  BY <1>1 DEF IInv, PresentIsSkipped, UnusableIsNotWritten, NothingIsTorn
<1> QED BY <1>3, <1>4, <1>5 DEF IInv

(* Every step preserves the invariant.                                     *)
LEMMA NextKeeps ==
  ASSUME IInv, [Next]_vars
  PROVE  IInv'
<1>1. CASE StartBatch
  BY <1>1, StartKeeps DEF StartBatch
<1>2. ASSUME NEW s \in Sources, StartFile(s)
      PROVE  IInv'
  <2>1. {s} \in SUBSET Sources /\ {} \in SUBSET Outputs
    OBVIOUS
  <2> QED BY <1>2, <2>1, StartKeeps DEF StartFile
<1>3. ASSUME NEW s \in Sources, Work(s)
      PROVE  IInv'
  BY <1>3, CheckOutputKeeps, ReadSourceKeeps, OpenOutputKeeps, WriteOutputKeeps, RecordKeeps
     DEF Work
<1>4. ASSUME NEW s \in Sources, FailWrite(s)
      PROVE  IInv'
  BY <1>4, FailWriteKeeps
<1>5. CASE Report
  BY <1>5, ReportKeeps
<1>6. CASE Kill
  BY <1>6, KillKeeps
<1>7. CASE UNCHANGED vars
  BY <1>7 DEF vars, IInv, TypeOK, CountersAgree, CountedWith, ReportedWhenJoined, ReportIsExact,
              With, PresentIsSkipped, UnusableIsNotWritten, NothingIsTorn, AbsentOrWhole,
              IsBeingWritten, Running, Unrivalled
<1> QED BY <1>1, <1>2, <1>3, <1>4, <1>5, <1>6, <1>7 DEF Next

(* The inductive invariant holds in every reachable state.                 *)
LEMMA Invariance == Spec => []IInv
<1>1. Init => IInv
  BY InitEstablishes
<1>2. IInv /\ [Next]_vars => IInv'
  BY NextKeeps
<1> QED BY <1>1, <1>2, PTL DEF Spec

-----------------------------------------------------------------------------
(* The theorems                                                            *)

(***************************************************************************)
(* The summary and the exit code of every report (progress.rs report) are  *)
(* exact, however the threads of the pool interleave.                      *)
(***************************************************************************)
THEOREM SummaryIsExact == Spec => []ReportIsExact
<1>1. IInv => ReportIsExact
  BY DEF IInv
<1> QED BY <1>1, Invariance, PTL

(***************************************************************************)
(* While no write has failed and nothing was killed, a run that exits with *)
(* SUCCESS has left the whole output of every source that it can convert   *)
(* and that shares it with no other such source.                           *)
(***************************************************************************)
THEOREM SuccessIsWhole == Spec => []SuccessMeansWhole
<1>1. ASSUME IInv
      PROVE  SuccessMeansWhole
  <2> SUFFICES ASSUME faults = 0, report.code = "SUCCESS",
                      NEW s \in batch \ Unusable, Unrivalled(s)
               PROVE  disk[OutputOf[s]] = s
    BY DEF SuccessMeansWhole
  <2>1. phase = "reported"
    BY <1>1 DEF IInv, ReportedWhenJoined, NoReport
  <2>2. With("failed") = {}
    BY <1>1, <2>1 DEF IInv, ReportIsExact
  <2>3. work[s] \in {"written", "skipped"}
    BY <1>1, <2>1, <2>2 DEF IInv, ReportedWhenJoined, CountersAgree, With, Outcomes
  <2> QED BY <1>1, <2>3 DEF IInv, TypeOK, NothingIsTorn, AbsentOrWhole
<1> QED BY <1>1, Invariance, PTL

(***************************************************************************)
(* No step of a batch changes an output that existed when it started.      *)
(***************************************************************************)
THEOREM PreservedOutputs == Spec => OutputsArePreserved
<1> DEFINE Preserves == \A o \in preserved \cap preserved' : disk'[o] = disk[o]
<1>1. ASSUME IInv, [Next]_vars
      PROVE  [Preserves]_vars
  <2> SUFFICES ASSUME Next, NEW o \in preserved \cap preserved'
               PROVE  disk'[o] = disk[o]
    BY <1>1
  <2>1. preserved \subseteq Outputs
    BY <1>1 DEF IInv, TypeOK
  <2>2. ASSUME NEW s \in Sources, CheckOutput(s) \/ ReadSource(s) \/ Record(s)
        PROVE  disk' = disk
    BY <2>2 DEF CheckOutput, ReadSource, Record
  <2>3. ASSUME NEW s \in Sources, OpenOutput(s) \/ WriteOutput(s) \/ FailWrite(s)
        PROVE  disk'[o] = disk[o]
    <3>1. OutputOf[s] \in Outputs \ preserved
      BY <1>1, <2>3, WrittenIsNotPreserved DEF OpenOutput, WriteOutput, FailWrite
    <3>2. PICK content : disk' = [disk EXCEPT ![OutputOf[s]] = content]
      BY <2>3 DEF OpenOutput, WriteOutput, FailWrite
    <3> QED BY <1>1, <3>1, <3>2 DEF IInv, TypeOK
  <2>4. CASE Kill
    <3>1. ASSUME NEW s \in With("writing")
          PROVE  OutputOf[s] # o
      <4>1. s \in batch /\ work[s] = "writing" /\ Running(s)
        BY <2>4, <3>1 DEF With, Running, Kill
      <4> QED BY <1>1, <4>1, WrittenIsNotPreserved
    <3>2. PICK cut \in SUBSET {OutputOf[s] : s \in With("writing")} :
            disk' = [p \in Outputs |-> IF p \in cut THEN Torn ELSE disk[p]]
      BY <2>4 DEF Kill
    <3>3. o \notin cut
      BY <3>1, <3>2
    <3> QED BY <2>1, <3>2, <3>3
  <2>5. CASE StartBatch \/ (\E s \in Sources : StartFile(s)) \/ Report
    BY <2>5 DEF StartBatch, StartFile, Start, Report
  <2> QED BY <2>2, <2>3, <2>4, <2>5 DEF Next, Work
<1> QED BY <1>1, Invariance, PTL DEF Spec, OutputsArePreserved

-----------------------------------------------------------------------------
(* The reference format's palette tables                                   *)

(* One table goes on where the other ends. *)
GoesOn(table, longer) ==
  /\ Len(table) <= Len(longer)
  /\ \A i \in 1..Len(table) : longer[i] = table[i]

(* No palette is in a table twice. *)
NoneTwice(table) == \A i, j \in DOMAIN table : table[i] = table[j] => i = j

(* What a snapshot does to the table. *)
LEMMA ExtendedKeeps ==
  ASSUME NEW table \in Seq(Palettes), NEW palette
  PROVE  /\ Extended(table, palette) \in Seq(Palettes)
         /\ GoesOn(table, Extended(table, palette))
         /\ NoneTwice(table) => NoneTwice(Extended(table, palette))
         /\ Entries(Extended(table, palette)) = Entries(table) \cup ({palette} \cap Palettes)
<1>1. CASE ~(palette \in Palettes /\ palette \notin Entries(table))
  <2>1. Extended(table, palette) = table
    BY <1>1 DEF Extended
  <2>2. Entries(table) = Entries(table) \cup ({palette} \cap Palettes)
    BY <1>1
  <2> QED BY <2>1, <2>2 DEF GoesOn
<1>2. CASE palette \in Palettes /\ palette \notin Entries(table)
  <2> DEFINE longer == Append(table, palette)
  <2>1. Extended(table, palette) = longer
    BY <1>2 DEF Extended
  <2>2. /\ longer \in Seq(Palettes) /\ Len(longer) = Len(table) + 1
        /\ \A i \in 1..Len(table) : longer[i] = table[i]
        /\ longer[Len(table) + 1] = palette
        /\ DOMAIN longer = 1..(Len(table) + 1)
    BY <1>2
  <2> HIDE DEF longer
  <2>3. \A i \in 1..Len(table) : table[i] # palette
    BY <1>2 DEF Entries
  <2>4. NoneTwice(table) => NoneTwice(longer)
    <3> SUFFICES ASSUME NoneTwice(table), NEW i \in DOMAIN longer, NEW j \in DOMAIN longer,
                        longer[i] = longer[j]
                 PROVE  i = j
      BY DEF NoneTwice
    <3>1. i \in 1..(Len(table) + 1) /\ j \in 1..(Len(table) + 1)
      BY <2>2
    <3>2. (i \in 1..Len(table) \/ i = Len(table) + 1) /\ (j \in 1..Len(table) \/ j = Len(table) + 1)
      BY <3>1
    <3>3. DOMAIN table = 1..Len(table)
      OBVIOUS
    <3> QED BY <2>2, <2>3, <3>2, <3>3 DEF NoneTwice
  <2>5. Entries(longer) = Entries(table) \cup {palette}
    <3>1. DOMAIN table = 1..Len(table) /\ Len(table) \in Nat
      OBVIOUS
    <3>2. \A i \in DOMAIN longer : i \in DOMAIN table \/ i = Len(table) + 1
      BY <2>2, <3>1
    <3>3. DOMAIN table \subseteq DOMAIN longer /\ Len(table) + 1 \in DOMAIN longer
      BY <2>2, <3>1
    <3> QED BY <2>2, <3>1, <3>2, <3>3 DEF Entries
  <2> QED BY <1>2, <2>1, <2>2, <2>4, <2>5 DEF GoesOn
<1> QED BY <1>1, <1>2

(* The index of a palette leads to it. *)
LEMMA IndexLeadsBack ==
  ASSUME NEW table \in Seq(Palettes), NEW palette \in Entries(table)
  PROVE  /\ IndexOf(palette, table) \in Nat
         /\ IndexOf(palette, table) < Len(table)
         /\ table[IndexOf(palette, table) + 1] = palette
<1> DEFINE i == CHOOSE i \in DOMAIN table : table[i] = palette
<1>1. i \in DOMAIN table /\ table[i] = palette
  BY DEF Entries
<1>2. i \in 1..Len(table) /\ Len(table) \in Nat
  BY <1>1
<1>3. IndexOf(palette, table) = i - 1
  BY DEF IndexOf
<1> HIDE DEF i
<1>4. i - 1 \in Nat /\ i - 1 < Len(table) /\ (i - 1) + 1 = i
  BY <1>2
<1> QED BY <1>1, <1>3, <1>4

(* And it stays its index when the table goes on. *)
LEMMA IndexStays ==
  ASSUME NEW table \in Seq(Palettes), NEW longer \in Seq(Palettes), NEW palette \in Entries(table),
         GoesOn(table, longer), NoneTwice(longer)
  PROVE  palette \in Entries(longer) /\ IndexOf(palette, longer) = IndexOf(palette, table)
<1>1. PICK i \in Nat : i = IndexOf(palette, table) /\ i < Len(table) /\ table[i + 1] = palette
  BY IndexLeadsBack
<1>2. DOMAIN longer = 1..Len(longer) /\ Len(longer) \in Nat /\ Len(table) \in Nat
  OBVIOUS
<1>3. i + 1 \in 1..Len(table) /\ i + 1 \in DOMAIN longer
  BY <1>1, <1>2 DEF GoesOn
<1>4. longer[i + 1] = palette
  BY <1>1, <1>3 DEF GoesOn
<1>5. palette \in Entries(longer)
  BY <1>3, <1>4 DEF Entries
<1>6. PICK j \in Nat : j = IndexOf(palette, longer) /\ j < Len(longer) /\ longer[j + 1] = palette
  BY <1>5, IndexLeadsBack
<1>7. j + 1 \in DOMAIN longer
  BY <1>2, <1>6
<1>8. i + 1 = j + 1
  BY <1>3, <1>4, <1>6, <1>7 DEF NoneTwice
<1> QED BY <1>1, <1>5, <1>6, <1>8

(* A table that holds nothing twice is as long as it has entries.          *)
LEMMA TableLength ==
  ASSUME NEW table \in Seq(Palettes), NoneTwice(table)
  PROVE  Cardinality(Entries(table)) = Len(table)
<1>1. PICK n \in Nat : n = Len(table)
  OBVIOUS
<1>2. DOMAIN table = 1..n
  BY <1>1
<1>3. PICK f : f = [i \in 1..n |-> table[i]]
  OBVIOUS
<1>4. f \in [1..n -> Entries(table)] /\ \A i \in 1..n : f[i] = table[i]
  BY <1>2, <1>3 DEF Entries
<1>5. \A p \in Entries(table) : \E i \in 1..n : f[i] = p
  BY <1>2, <1>4 DEF Entries
<1>6. \A i, j \in 1..n : f[i] = f[j] => i = j
  BY <1>2, <1>4 DEF NoneTwice
<1>7. f \in Bijection(1..n, Entries(table))
  BY <1>4, <1>5, <1>6 DEF Bijection, Injection, Surjection, IsInjective
<1>8. ExistsBijection(1..n, Entries(table))
  BY <1>7 DEF ExistsBijection
<1>9. IsFiniteSet(1..n) /\ Cardinality(1..n) = n
  <2>1. PICK a \in Int, b \in Int : a = 1 /\ b = n
    BY <1>1
  <2>2. IsFiniteSet(a..b) /\ Cardinality(a..b) = IF a > b THEN 0 ELSE b - a + 1
    BY FS_Interval
  <2> QED BY <1>1, <2>1, <2>2
<1> QED BY <1>1, <1>8, <1>9, FS_Bijection

-----------------------------------------------------------------------------
(* Fields                                                                  *)

(* What a file consists of. *)
Fields ==
  [kind : {"indicator"}, value : BOOLEAN]
    \cup [kind : {"length", "table"}, value : Nat]
    \cup [kind : {"head"}, value : [timestamp : Timestamps, single : BOOLEAN]]
    \cup [kind : {"atom", "words"}, value : Cells]
    \cup [kind : {"index"}, value : Seq(Nat)]
    \cup [kind : {"states"}, value : Seq(StateTypes)]
    \cup [kind : {"tile_entities"}, value : Seq(TileEntityLists)]
    \cup [kind : {"palette"}, value : Palettes]

(* Fields are told by their kinds. *)
LEMMA FieldType ==
  /\ \A v \in BOOLEAN : Field("indicator", v) \in Fields
  /\ \A v \in Nat : Field("length", v) \in Fields /\ Field("table", v) \in Fields
  /\ \A v \in [timestamp : Timestamps, single : BOOLEAN] : Field("head", v) \in Fields
  /\ \A v \in Cells : Field("atom", v) \in Fields /\ Field("words", v) \in Fields
  /\ \A v \in Seq(Nat) : Field("index", v) \in Fields
  /\ \A v \in Seq(StateTypes) : Field("states", v) \in Fields
  /\ \A v \in Seq(TileEntityLists) : Field("tile_entities", v) \in Fields
  /\ \A v \in Palettes : Field("palette", v) \in Fields
  BY DEF Field, Fields

LEMMA FieldParts == \A kind, value : Field(kind, value).kind = kind /\ Field(kind, value).value = value
  BY DEF Field

(* No palette is left out of a written table. *)
EveryPaletteIsWritten == \A palette \in Palettes : IsWritten(palette)

PaletteField(palette) == Field("palette", palette)

(* What serialize_palette_table writes, if nothing is left out. *)
LEMMA TableFieldsTell ==
  ASSUME EveryPaletteIsWritten, NEW table \in Seq(Palettes)
  PROVE  /\ TableFields(table) \in Seq(Fields)
         /\ Len(TableFields(table)) = 1 + Len(table)
         /\ TableFields(table)[1] = Field("table", Len(table))
         /\ \A i \in 1..Len(table) : TableFields(table)[1 + i] = PaletteField(table[i])
<1> DEFINE n == Len(table)
           first == Field("table", n)
           Steps(f) == f = [k \in 0..n |-> IF k = 0 THEN <<>>
                                           ELSE IF IsWritten(table[k])
                                                THEN Append(f[k - 1], Field("palette", table[k]))
                                                ELSE f[k - 1]]
           written == CHOOSE f : Steps(f)
           all == [k \in 0..n |-> [i \in 1..k |-> PaletteField(table[i])]]
<1>1. n \in Nat /\ \A k \in 1..n : table[k] \in Palettes /\ IsWritten(table[k])
  BY DEF EveryPaletteIsWritten
<1>2. TableFields(table) = <<first>> \o written[n]
  BY DEF TableFields
<1> HIDE DEF n
<1>3. \A k \in 0..n : /\ all[k] = [i \in 1..k |-> PaletteField(table[i])]
                      /\ all[k] \in Seq(Fields) /\ Len(all[k]) = k
  <2> SUFFICES ASSUME NEW k \in 0..n
               PROVE  [i \in 1..k |-> PaletteField(table[i])] \in Seq(Fields)
                      /\ Len([i \in 1..k |-> PaletteField(table[i])]) = k
    OBVIOUS
  <2>1. k \in Nat /\ \A i \in 1..k : i \in 1..n
    BY <1>1
  <2>2. \A i \in 1..k : PaletteField(table[i]) \in Fields
    BY <1>1, <2>1 DEF PaletteField, Fields, Field
  <2> QED BY <2>1, <2>2
<1>4. \A k \in 1..n : all[k] = Append(all[k - 1], PaletteField(table[k]))
  <2> SUFFICES ASSUME NEW k \in 1..n
               PROVE  all[k] = Append(all[k - 1], PaletteField(table[k]))
    OBVIOUS
  <2>1. k - 1 \in 0..n /\ k \in 0..n /\ k \in Nat /\ k - 1 \in Nat
    BY <1>1
  <2>2. /\ all[k - 1] = [i \in 1..(k - 1) |-> PaletteField(table[i])]
        /\ Len(all[k - 1]) = k - 1
        /\ all[k - 1] \in Seq(Fields) /\ all[k] \in Seq(Fields) /\ Len(all[k]) = k
        /\ all[k] = [i \in 1..k |-> PaletteField(table[i])]
    BY <1>3, <2>1
  <2> DEFINE longer == Append(all[k - 1], PaletteField(table[k]))
  <2> HIDE DEF all
  <2>3. PaletteField(table[k]) \in Fields
    BY <1>1 DEF PaletteField, Fields, Field
  <2>4. longer \in Seq(Fields) /\ Len(longer) = k
    BY <2>1, <2>2, <2>3
  <2>5. \A i \in 1..k : longer[i] = all[k][i]
    <3> SUFFICES ASSUME NEW i \in 1..k PROVE longer[i] = all[k][i]
      OBVIOUS
    <3>1. all[k][i] = PaletteField(table[i])
      BY <2>2
    <3>2. CASE i = k
      <4>1. longer[(k - 1) + 1] = PaletteField(table[k])
        BY <2>1, <2>2, <2>3
      <4>2. (k - 1) + 1 = k
        BY <2>1
      <4> QED BY <3>1, <3>2, <4>1, <4>2
    <3>3. CASE i # k
      <4>1. i \in 1..(k - 1)
        BY <2>1, <3>3
      <4>2. longer[i] = all[k - 1][i]
        BY <2>1, <2>2, <2>3, <4>1
      <4> QED BY <2>2, <3>1, <4>1, <4>2
    <3> QED BY <3>2, <3>3
  <2>6. DOMAIN longer = 1..k /\ DOMAIN all[k] = 1..k
    BY <2>1, <2>2, <2>4
  <2> HIDE DEF longer
  <2>7. longer = [i \in 1..k |-> longer[i]] /\ all[k] = [i \in 1..k |-> all[k][i]]
    BY <2>2, <2>4, <2>6
  <2>8. longer = all[k]
    BY <2>5, <2>7
  <2> QED BY <2>8 DEF longer
<1>5. all[0] = <<>>
  BY <1>1, <1>3
<1>6. Steps(all)
  <2>1. \A k \in 0..n : k # 0 => k \in 1..n
    BY <1>1
  <2>2. \A k \in 1..n : k # 0
    OBVIOUS
  <2>3. \A k \in 0..n : all[k] = IF k = 0 THEN <<>>
                                 ELSE IF IsWritten(table[k])
                                      THEN Append(all[k - 1], Field("palette", table[k]))
                                      ELSE all[k - 1]
    <3> HIDE DEF all
    <3> QED BY <1>1, <1>4, <1>5, <2>1, <2>2 DEF PaletteField
  <2>4. all = [k \in 0..n |-> all[k]]
    OBVIOUS
  <2> HIDE DEF all
  <2> QED BY <2>3, <2>4
<1>7. Steps(written)
  BY <1>6
<1> HIDE DEF written, all
<1> DEFINE Same == {k \in 0..n : written[k] = all[k]}
<1>8. 0 \in Same
  BY <1>1, <1>5, <1>7
<1>9. ASSUME NEW k \in 0..(n - 1), k \in Same
      PROVE  k + 1 \in Same
  <2>1. k + 1 \in 0..n /\ k + 1 # 0 /\ k + 1 \in 1..n /\ (k + 1) - 1 = k
    BY <1>1
  <2>2. written[k + 1] = Append(written[k], PaletteField(table[k + 1]))
    BY <1>1, <1>7, <2>1 DEF PaletteField
  <2>3. all[k + 1] = Append(all[k], PaletteField(table[k + 1]))
    BY <1>4, <2>1
  <2> QED BY <1>9, <2>1, <2>2, <2>3
<1> HIDE DEF Same
<1>10. 0..n \subseteq Same
  BY <1>1, <1>8, <1>9, AllUpTo
<1>11. n \in 0..n
  BY <1>1
<1>12. written[n] = all[n]
  BY <1>10, <1>11 DEF Same
<1>13. PICK fields : fields = all[n]
  OBVIOUS
<1>14. fields \in Seq(Fields) /\ Len(fields) = n /\ \A i \in 1..n : fields[i] = PaletteField(table[i])
  BY <1>3, <1>11, <1>13
<1>15. first \in Fields
  BY <1>1, FieldType
<1> HIDE DEF first
<1> DEFINE whole == <<first>> \o fields
<1>16. whole \in Seq(Fields) /\ Len(whole) = 1 + n /\ whole[1] = first
  BY <1>1, <1>14, <1>15
<1>17. \A i \in 1..n : whole[1 + i] = fields[i]
  BY <1>1, <1>14, <1>15
<1>18. TableFields(table) = whole
  BY <1>2, <1>12, <1>13
<1> HIDE DEF whole
<1> QED BY <1>14, <1>16, <1>17, <1>18 DEF n, first


-----------------------------------------------------------------------------
(* The walk through the region                                             *)

(* A place is a part of a slot, and in it a snapshot; the walk ends behind *)
(* the last slot.                                                          *)
Places == [slot : 1..(SlotCount + 1), part : 0..LastPart, delta : Nat]

EndPlace == [slot |-> SlotCount + 1, part |-> FirstPart, delta |-> 0]

(* The walk comes by the place, and there is something of the region. *)
IsVisited(place) ==
  /\ place.part # FirstPart => place.slot \in Slots /\ region[place.slot].present
  /\ place.delta # 0 => IsSection(place) /\ place.delta <= Len(SnapshotsAt(place))

HasContent(place) == place.slot \in Slots /\ IsVisited(place)

Before(place, other) ==
  \/ place.slot < other.slot
  \/ place.slot = other.slot /\ place.part < other.part
  \/ place.slot = other.slot /\ place.part = other.part /\ place.delta < other.delta

(* A segment goes on at the place with the next snapshot. *)
HasMore(place) == IsSection(place) /\ place.delta < Len(SnapshotsAt(place))

EndsSlot(place) == place.part = LastPart \/ (place.part = FirstPart /\ ~region[place.slot].present)

(* The place after this. *)
After(place) ==
  IF EndsSlot(place) THEN [slot |-> place.slot + 1, part |-> FirstPart, delta |-> 0]
  ELSE IF HasMore(place) THEN [slot |-> place.slot, part |-> place.part, delta |-> place.delta + 1]
  ELSE [slot |-> place.slot, part |-> place.part + 1, delta |-> 0]

(* The snapshot written at a section's place. *)
SnapshotAt(place) == SnapshotsAt(place)[place.delta]

(* What is written there, with the indices of some tables. *)
FieldsAt(place, lists) ==
  IF place.part = FirstPart THEN <<Field("indicator", region[place.slot].present)>>
  ELSE IF place.part = StatesPart THEN <<Field("states", region[place.slot].states)>>
  ELSE IF place.part = LastPart THEN <<Field("tile_entities", region[place.slot].tile_entities)>>
  ELSE IF place.delta = 0 THEN <<Field("length", Len(SnapshotsAt(place)))>>
  ELSE SnapshotFields(SnapshotAt(place), lists[DomainOf(place.part)])

(* How many fields that is. *)
SnapshotWidth(snapshot) == IF snapshot.palette = NoPalette THEN 2 ELSE 3

IsSnapshot(place) == IsSection(place) /\ place.delta # 0

Width(place) == IF IsSnapshot(place) THEN SnapshotWidth(SnapshotAt(place)) ELSE 1

(* The palette of the snapshot, if it has one, is in its domain's table.   *)
HasItsPalette(place, lists) ==
  IsSnapshot(place) /\ SnapshotAt(place).palette \in Palettes
    => SnapshotAt(place).palette \in Entries(lists[DomainOf(place.part)])

(* A text goes on with another after its first n fields. *)
GoesOnWith(text, n, fields) ==
  \A i \in 1..Len(fields) : n + i \in DOMAIN text /\ text[n + i] = fields[i]

(* The fields after the first n are those of a place. *)
Says(place, text, n, lists) ==
  HasItsPalette(place, lists) /\ GoesOnWith(text, n, FieldsAt(place, lists))

(* Where what is written of each place begins, up to a place: the fields   *)
(* after the first base are those of the places, one after the other.      *)
IsLaidOut(offset, upto, text, base, lists) ==
  /\ offset \in [Places -> Nat]
  /\ offset[FirstPlace] = 0
  /\ \A place \in Places :
       HasContent(place) /\ Before(place, upto) =>
         /\ Says(place, text, base + offset[place], lists)
         /\ offset[After(place)] = offset[place] + Width(place)

(* Constants, and the first and the last place. *)
LEMMA Types ==
  /\ SlotCount \in Nat \ {0} /\ SectionCount \in Nat \ {0}
  /\ LastPart \in Nat /\ FirstPart = 0 /\ StatesPart \in Nat
  /\ StatesPart > 2 /\ LastPart = StatesPart + 1
  /\ FirstPlace \in Places /\ EndPlace \in Places
  /\ FirstPlace.slot = 1 /\ FirstPlace.part = 0 /\ FirstPlace.delta = 0
  /\ EndPlace.slot = SlotCount + 1 /\ EndPlace.part = 0 /\ EndPlace.delta = 0
  BY FormatOK DEF FormatOK, LastPart, StatesPart, FirstPart, Places, FirstPlace, EndPlace

(* Places are triples of numbers. *)
LEMMA PlaceType ==
  ASSUME NEW place \in Places
  PROVE  /\ place.slot \in Nat /\ place.slot >= 1 /\ place.slot <= SlotCount + 1
         /\ place.part \in Nat /\ place.part <= LastPart
         /\ place.delta \in Nat
         /\ place = [slot |-> place.slot, part |-> place.part, delta |-> place.delta]
         /\ place.slot \in Slots <=> place.slot # SlotCount + 1
  BY Types DEF Places, Slots

(* A slot has a segment, or none. *)
LEMMA SlotType ==
  ASSUME region \in Regions, NEW slot \in Slots
  PROVE  /\ region[slot].present \in BOOLEAN
         /\ ~region[slot].present => region[slot] = NoSegment
         /\ region[slot].present =>
              /\ region[slot] \in PresentSegments
              /\ region[slot].states \in Seq(StateTypes)
              /\ region[slot].tile_entities \in Seq(TileEntityLists)
              /\ region[slot].sections \in [Domains -> [1..SectionCount -> Seq(Snapshots)]]
<1>1. region[slot] \in {NoSegment} \cup PresentSegments
  BY FormatOK DEF FormatOK
<1>2. PICK segment : segment = region[slot]
  OBVIOUS
<1>3. CASE segment = NoSegment
  <2>1. segment.present = FALSE
    BY <1>3 DEF NoSegment
  <2> QED BY <1>2, <1>3, <2>1
<1>4. CASE segment \in PresentSegments
  <2>1. segment.present = TRUE /\ segment.states \in Seq(StateTypes)
        /\ segment.tile_entities \in Seq(TileEntityLists)
        /\ segment.sections \in [Domains -> [1..SectionCount -> Seq(Snapshots)]]
    BY <1>4 DEF PresentSegments
  <2> QED BY <1>2, <1>4, <2>1
<1> QED BY <1>1, <1>2, <1>3, <1>4

(* A place of a section has snapshots. *)
LEMMA SectionType ==
  ASSUME region \in Regions, NEW place \in Places, HasContent(place), IsSection(place)
  PROVE  /\ DomainOf(place.part) \in Domains
         /\ SectionOf(place.part) \in 1..SectionCount
         /\ SnapshotsAt(place) \in Seq(Snapshots)
         /\ Len(SnapshotsAt(place)) \in Nat
         /\ region[place.slot].present
         /\ place.delta # 0 => SnapshotAt(place) \in Snapshots
<1>1. /\ place.part \in Nat /\ place.part # 0 /\ place.delta \in Nat
      /\ place.part <= 2 * SectionCount /\ SectionCount \in Nat
  BY PlaceType, Types DEF IsSection, StatesPart
<1>2. DomainOf(place.part) \in Domains /\ SectionOf(place.part) \in 1..SectionCount
  BY <1>1 DEF DomainOf, SectionOf, Domains
<1>3. region[place.slot].present /\ place.slot \in Slots
  BY <1>1, Types DEF HasContent, IsVisited
<1>4. region[place.slot].sections \in [Domains -> [1..SectionCount -> Seq(Snapshots)]]
  BY <1>3, SlotType
<1>5. SnapshotsAt(place) \in Seq(Snapshots)
  BY <1>2, <1>4 DEF SnapshotsAt
<1>6. place.delta # 0 => SnapshotAt(place) \in Snapshots
  <2> SUFFICES ASSUME place.delta # 0 PROVE SnapshotAt(place) \in Snapshots
    OBVIOUS
  <2>1. place.delta <= Len(SnapshotsAt(place))
    BY DEF HasContent, IsVisited
  <2>2. PICK snapshots \in Seq(Snapshots), k \in Nat : snapshots = SnapshotsAt(place) /\ k = place.delta
    BY <1>1, <1>5
  <2>3. k \in 1..Len(snapshots)
    BY <2>1, <2>2
  <2> QED BY <2>2, <2>3 DEF SnapshotAt
<1> QED BY <1>2, <1>3, <1>5, <1>6

(* A snapshot's fields, for a palette in the table. *)
LEMMA SnapshotFieldsAre ==
  ASSUME NEW snapshot \in Snapshots, NEW table
  PROVE  /\ snapshot.palette = NoPalette =>
              SnapshotFields(snapshot, table) =
                <<Field("head", [timestamp |-> snapshot.timestamp, single |-> TRUE]),
                  Field("atom", snapshot.cells)>>
         /\ snapshot.palette # NoPalette =>
              SnapshotFields(snapshot, table) =
                <<Field("head", [timestamp |-> snapshot.timestamp, single |-> FALSE]),
                  Field("words", snapshot.cells),
                  Field("index", IF snapshot.palette = DIRECT_PALETTE THEN <<>>
                                 ELSE <<IndexOf(snapshot.palette, table)>>)>>
  BY DEF SnapshotFields

(* They are fields. *)
LEMMA SnapshotFieldsType ==
  ASSUME NEW snapshot \in Snapshots, NEW table \in Seq(Palettes),
         snapshot.palette \in Palettes => snapshot.palette \in Entries(table)
  PROVE  /\ SnapshotFields(snapshot, table) \in Seq(Fields)
         /\ Len(SnapshotFields(snapshot, table)) = SnapshotWidth(snapshot)
<1>1. /\ snapshot.palette \in Palettes \cup {DIRECT_PALETTE, NoPalette}
      /\ snapshot.timestamp \in Timestamps /\ snapshot.cells \in Cells
  BY DEF Snapshots
<1>2. PICK fields : fields = SnapshotFields(snapshot, table)
  OBVIOUS
<1>3. CASE snapshot.palette = NoPalette
  <2>1. PICK a \in Fields, b \in Fields :
          a = Field("head", [timestamp |-> snapshot.timestamp, single |-> TRUE]) /\ b = Field("atom", snapshot.cells)
    BY <1>1, FieldType
  <2>2. fields = <<a, b>>
    BY <1>2, <1>3, <2>1, SnapshotFieldsAre
  <2> QED BY <1>2, <1>3, <2>2 DEF SnapshotWidth
<1>4. CASE snapshot.palette # NoPalette
  <2>1. PICK index : index = IF snapshot.palette = DIRECT_PALETTE THEN <<>>
                             ELSE <<IndexOf(snapshot.palette, table)>>
    OBVIOUS
  <2>2. index \in Seq(Nat)
    <3>1. CASE snapshot.palette = DIRECT_PALETTE
      BY <2>1, <3>1
    <3>2. CASE snapshot.palette # DIRECT_PALETTE
      <4>1. PICK i \in Nat : i = IndexOf(snapshot.palette, table)
        BY <1>1, <1>4, <3>2, IndexLeadsBack
      <4> QED BY <2>1, <3>2, <4>1
    <3> QED BY <3>1, <3>2
  <2>3. PICK a \in Fields, b \in Fields, c \in Fields :
          /\ a = Field("head", [timestamp |-> snapshot.timestamp, single |-> FALSE])
          /\ b = Field("words", snapshot.cells) /\ c = Field("index", index)
    BY <1>1, <2>2, FieldType
  <2>4. fields = <<a, b, c>>
    BY <1>2, <1>4, <2>1, <2>3, SnapshotFieldsAre
  <2> QED BY <1>2, <1>4, <2>4 DEF SnapshotWidth
<1> QED BY <1>3, <1>4

(* The parts of a place. *)
LEMMA PartCases ==
  ASSUME NEW place \in Places
  PROVE  /\ \/ place.part = FirstPart \/ IsSection(place)
            \/ place.part = StatesPart \/ place.part = LastPart
         /\ IsSection(place) <=>
              place.part # FirstPart /\ place.part # StatesPart /\ place.part # LastPart
         /\ FirstPart # StatesPart /\ FirstPart # LastPart /\ StatesPart # LastPart
<1>1. place.part \in Nat /\ place.part <= LastPart
  BY PlaceType
<1> QED BY <1>1, Types DEF IsSection

(* Something is written at every place. *)
LEMMA FieldsAtType ==
  ASSUME region \in Regions, NEW place \in Places, HasContent(place),
         NEW lists \in [Domains -> Seq(Palettes)], HasItsPalette(place, lists)
  PROVE  /\ FieldsAt(place, lists) \in Seq(Fields)
         /\ Len(FieldsAt(place, lists)) = Width(place)
<1>1. place.slot \in Slots /\ (place.part # FirstPart => region[place.slot].present)
  BY DEF HasContent, IsVisited
<1>2. \A field \in Fields : <<field>> \in Seq(Fields) /\ Len(<<field>>) = 1
  OBVIOUS
<1>3. CASE ~IsSnapshot(place)
  <2>1. \E field \in Fields : FieldsAt(place, lists) = <<field>>
    <3>1. CASE place.part = FirstPart
      BY <1>1, <3>1, SlotType, FieldType DEF FieldsAt
    <3>2. CASE place.part = StatesPart
      BY <1>1, <3>2, SlotType, FieldType, PartCases DEF FieldsAt
    <3>3. CASE place.part = LastPart
      BY <1>1, <3>3, SlotType, FieldType, PartCases DEF FieldsAt
    <3>4. CASE IsSection(place)
      <4>1. Len(SnapshotsAt(place)) \in Nat /\ place.delta = 0
        BY <1>3, <3>4, SectionType DEF IsSnapshot
      <4> QED BY <3>4, <4>1, FieldType, PartCases DEF FieldsAt
    <3> QED BY <3>1, <3>2, <3>3, <3>4, PartCases
  <2> QED BY <1>2, <1>3, <2>1 DEF Width
<1>4. CASE IsSnapshot(place)
  <2>1. PICK snapshot \in Snapshots, table \in Seq(Palettes) :
          snapshot = SnapshotAt(place) /\ table = lists[DomainOf(place.part)]
    BY <1>4, SectionType DEF IsSnapshot
  <2>2. FieldsAt(place, lists) = SnapshotFields(snapshot, table)
    BY <1>4, <2>1, PartCases DEF FieldsAt, IsSnapshot
  <2>3. snapshot.palette \in Palettes => snapshot.palette \in Entries(table)
    BY <1>4, <2>1 DEF HasItsPalette
  <2> QED BY <1>4, <2>1, <2>2, <2>3, SnapshotFieldsType DEF Width
<1> QED BY <1>3, <1>4

LEMMA WidthType == \A place : Width(place) \in Nat /\ Width(place) > 0
  BY DEF Width, SnapshotWidth

(* The places are walked in order. *)
LEMMA AfterIsNext ==
  ASSUME region \in Regions, NEW place \in Places, HasContent(place)
  PROVE  /\ After(place) \in Places
         /\ IsVisited(After(place))
         /\ \A other \in Places : IsVisited(other) =>
              (Before(other, After(place)) <=> Before(other, place) \/ other = place)
<1>1. /\ place.slot \in Nat /\ place.part \in Nat /\ place.delta \in Nat
      /\ place.slot \in 1..SlotCount /\ place.part <= LastPart
      /\ LastPart \in Nat /\ LastPart > 2 /\ SlotCount \in Nat /\ FirstPart = 0
      /\ place = [slot |-> place.slot, part |-> place.part, delta |-> place.delta]
  BY PlaceType, Types DEF HasContent, Slots
<1>2. \A other \in Places : /\ other.slot \in Nat /\ other.part \in Nat /\ other.part <= LastPart
                            /\ other.delta \in Nat
                            /\ other = [slot |-> other.slot, part |-> other.part, delta |-> other.delta]
  BY PlaceType
<1>0. \A other \in Places :
        other.slot = place.slot /\ other.part = place.part /\ other.delta = place.delta <=> other = place
  BY <1>1, <1>2
<1>3. CASE EndsSlot(place)
  <2>1. After(place) = [slot |-> place.slot + 1, part |-> 0, delta |-> 0]
    BY <1>1, <1>3 DEF After
  <2>2. After(place) \in Places /\ IsVisited(After(place))
    BY <1>1, <2>1 DEF Places, IsVisited
  <2> SUFFICES ASSUME NEW other \in Places, IsVisited(other)
               PROVE  Before(other, After(place)) <=> Before(other, place) \/ other = place
    BY <2>2
  <2>3. other.slot = place.slot => other.part <= place.part
    BY <1>1, <1>2, <1>3 DEF IsVisited, EndsSlot
  <2>4. Before(other, After(place)) <=> other.slot < place.slot + 1
    BY <1>1, <1>2, <2>1 DEF Before
  <2>5. ~IsSection(place)
    BY <1>1, <1>3, PartCases DEF EndsSlot
  <2>6. other.slot = place.slot /\ other.part = place.part => other.delta = 0 /\ place.delta = 0
    BY <2>5 DEF IsVisited, HasContent, IsSection
  <2> QED BY <1>0, <1>1, <1>2, <2>3, <2>4, <2>6 DEF Before
<1>4. CASE ~EndsSlot(place) /\ HasMore(place)
  <2>1. After(place) = [slot |-> place.slot, part |-> place.part, delta |-> place.delta + 1]
    BY <1>4 DEF After
  <2>2. SnapshotsAt(After(place)) = SnapshotsAt(place) /\ (IsSection(After(place)) <=> IsSection(place))
    BY <2>1 DEF SnapshotsAt, IsSection
  <2>3. IsSection(place) /\ place.delta < Len(SnapshotsAt(place)) /\ Len(SnapshotsAt(place)) \in Nat
    BY <1>4, SectionType DEF HasMore
  <2>4. After(place) \in Places
    BY <1>1, <2>1 DEF Places
  <2>5. IsVisited(After(place))
    BY <1>1, <2>1, <2>2, <2>3 DEF IsVisited, HasContent
  <2> SUFFICES ASSUME NEW other \in Places, IsVisited(other)
               PROVE  Before(other, After(place)) <=> Before(other, place) \/ other = place
    BY <2>4, <2>5
  <2> QED BY <1>0, <1>1, <1>2, <2>1 DEF Before
<1>5. CASE ~EndsSlot(place) /\ ~HasMore(place)
  <2>1. After(place) = [slot |-> place.slot, part |-> place.part + 1, delta |-> 0]
    BY <1>1, <1>5 DEF After
  <2>2. region[place.slot].present
    BY <1>1, <1>5 DEF HasContent, IsVisited, EndsSlot
  <2>3. After(place) \in Places /\ IsVisited(After(place))
    BY <1>1, <1>5, <2>1, <2>2 DEF Places, IsVisited, HasContent, EndsSlot
  <2> SUFFICES ASSUME NEW other \in Places, IsVisited(other)
               PROVE  Before(other, After(place)) <=> Before(other, place) \/ other = place
    BY <2>3
  <2>4. Before(other, After(place)) <=>
          other.slot < place.slot \/ (other.slot = place.slot /\ other.part <= place.part)
    BY <1>1, <1>2, <2>1 DEF Before
  <2>5. other.slot = place.slot /\ other.part = place.part => other.delta <= place.delta
    <3> SUFFICES ASSUME other.slot = place.slot, other.part = place.part, other.delta # 0
                 PROVE  other.delta <= place.delta
      BY <1>1, <1>2
    <3>1. IsSection(other) /\ IsSection(place) /\ SnapshotsAt(other) = SnapshotsAt(place)
          /\ other.delta <= Len(SnapshotsAt(place))
      BY DEF IsVisited, IsSection, SnapshotsAt
    <3>2. ~(place.delta < Len(SnapshotsAt(place))) /\ Len(SnapshotsAt(place)) \in Nat
      BY <1>5, <3>1, SectionType DEF HasMore
    <3> QED BY <1>1, <1>2, <3>1, <3>2
  <2> QED BY <1>0, <1>1, <1>2, <2>4, <2>5 DEF Before
<1> QED BY <1>3, <1>4, <1>5

-----------------------------------------------------------------------------
(* What is laid out stays laid out                                         *)

(* Every table of the first goes on in the second, which holds nothing     *)
(* twice.                                                                  *)
ListsGoOn(lists, longer) ==
  \A domain \in Domains : /\ lists[domain] \in Seq(Palettes)
                          /\ longer[domain] \in Seq(Palettes)
                          /\ GoesOn(lists[domain], longer[domain])
                          /\ NoneTwice(longer[domain])

(* The text is in another, base fields further on. *)
IsWithin(text, other, base) ==
  \A i \in DOMAIN text : base + i \in DOMAIN other /\ other[base + i] = text[i]

(* In tables that go on, a place has its palette and its fields, too.      *)
LEMMA FieldsStay ==
  ASSUME region \in Regions, NEW place \in Places, HasContent(place),
         NEW lists, NEW longer, ListsGoOn(lists, longer), HasItsPalette(place, lists)
  PROVE  HasItsPalette(place, longer) /\ FieldsAt(place, longer) = FieldsAt(place, lists)
<1>1. CASE ~IsSnapshot(place)
  <2>1. HasItsPalette(place, longer)
    BY <1>1 DEF HasItsPalette
  <2> QED BY <1>1, <2>1, PartCases DEF FieldsAt, IsSnapshot
<1>2. CASE IsSnapshot(place)
  <2>1. PICK domain \in Domains, snapshot \in Snapshots :
          domain = DomainOf(place.part) /\ snapshot = SnapshotAt(place)
    BY <1>2, SectionType DEF IsSnapshot
  <2>2. PICK table \in Seq(Palettes), further \in Seq(Palettes) :
          /\ table = lists[domain] /\ further = longer[domain]
          /\ GoesOn(table, further) /\ NoneTwice(further)
    BY <2>1 DEF ListsGoOn
  <2>3. snapshot.palette \in Palettes => snapshot.palette \in Entries(table)
    BY <1>2, <2>1, <2>2 DEF HasItsPalette
  <2>4. snapshot.palette \in Palettes =>
          /\ snapshot.palette \in Entries(further)
          /\ IndexOf(snapshot.palette, further) = IndexOf(snapshot.palette, table)
    BY <2>2, <2>3, IndexStays
  <2>5. snapshot.palette \in Palettes \cup {DIRECT_PALETTE, NoPalette}
    BY DEF Snapshots
  <2>6. SnapshotFields(snapshot, further) = SnapshotFields(snapshot, table)
    BY <2>4, <2>5 DEF SnapshotFields
  <2>7. HasItsPalette(place, longer)
    BY <2>1, <2>2, <2>4 DEF HasItsPalette
  <2>8. /\ FieldsAt(place, longer) = SnapshotFields(snapshot, further)
        /\ FieldsAt(place, lists) = SnapshotFields(snapshot, table)
    BY <1>2, <2>1, <2>2, PartCases DEF FieldsAt, IsSnapshot
  <2> QED BY <2>6, <2>7, <2>8
<1> QED BY <1>1, <1>2

(* So a text that has the place's fields further on says the same.         *)
LEMMA SaysElsewhere ==
  ASSUME region \in Regions, NEW place \in Places, HasContent(place),
         NEW text, NEW other, NEW base \in Nat, NEW n \in Nat, NEW lists, NEW longer,
         IsWithin(text, other, base), ListsGoOn(lists, longer),
         Says(place, text, n, lists)
  PROVE  Says(place, other, base + n, longer)
<1>1. HasItsPalette(place, longer) /\ FieldsAt(place, longer) = FieldsAt(place, lists)
  BY FieldsStay DEF Says
<1>2. PICK fields : fields = FieldsAt(place, lists)
  OBVIOUS
<1>3. \A i \in 1..Len(fields) : n + i \in DOMAIN text /\ text[n + i] = fields[i]
  BY <1>2 DEF Says, GoesOnWith
<1>4. \A i \in 1..Len(fields) : base + n + i = base + (n + i)
  OBVIOUS
<1>5. \A i \in 1..Len(fields) : base + n + i \in DOMAIN other /\ other[base + n + i] = fields[i]
  BY <1>3, <1>4 DEF IsWithin
<1> QED BY <1>1, <1>2, <1>5 DEF Says, GoesOnWith

(* And so does all that is laid out. *)
LEMMA LaidOutElsewhere ==
  ASSUME region \in Regions, NEW upto, NEW offset,
         NEW text, NEW other, NEW base \in Nat, NEW lists, NEW longer,
         IsWithin(text, other, base), ListsGoOn(lists, longer),
         IsLaidOut(offset, upto, text, 0, lists)
  PROVE  IsLaidOut(offset, upto, other, base, longer)
<1> SUFFICES ASSUME NEW place \in Places, HasContent(place), Before(place, upto)
             PROVE  /\ Says(place, other, base + offset[place], longer)
                    /\ offset[After(place)] = offset[place] + Width(place)
  BY DEF IsLaidOut
<1>1. offset[place] \in Nat /\ Says(place, text, 0 + offset[place], lists)
      /\ offset[After(place)] = offset[place] + Width(place)
  BY DEF IsLaidOut
<1>2. PICK n \in Nat : n = offset[place]
  BY <1>1
<1>3. Says(place, text, n, lists)
  <2>1. 0 + n = n
    OBVIOUS
  <2> QED BY <1>1, <1>2, <2>1
<1>4. Says(place, other, base + n, longer)
  BY <1>3, SaysElsewhere
<1> QED BY <1>1, <1>2, <1>4

(* What is written at the next place is laid out after it. *)
LEMMA LaidOutFurther ==
  ASSUME region \in Regions, NEW place \in Places, HasContent(place), NEW offset,
         NEW text, NEW longer, NEW lists,
         IsLaidOut(offset, place, longer, 0, lists),
         offset[place] \in Nat, Width(place) \in Nat,
         Says(place, longer, offset[place], lists)
  PROVE  \E next : /\ IsLaidOut(next, After(place), longer, 0, lists)
                   /\ next[After(place)] = offset[place] + Width(place)
<1> DEFINE to == After(place)
           next == [offset EXCEPT ![to] = offset[place] + Width(place)]
<1>1. /\ to \in Places
      /\ \A other \in Places : IsVisited(other) =>
           (Before(other, to) <=> Before(other, place) \/ other = place)
  BY AfterIsNext
<1>2. offset \in [Places -> Nat] /\ offset[FirstPlace] = 0
  BY DEF IsLaidOut
<1>3. next \in [Places -> Nat] /\ next[to] = offset[place] + Width(place)
      /\ \A other \in Places : other # to => next[other] = offset[other]
  BY <1>1, <1>2
<1>4. \A other \in Places : ~Before(other, other) /\ ~Before(other, FirstPlace)
  BY PlaceType, Types DEF Before
<1>5. IsVisited(place)
  BY DEF HasContent
<1>6. to # FirstPlace /\ to # place
  BY <1>1, <1>4, <1>5
<1>7. next[FirstPlace] = 0
  BY <1>2, <1>3, <1>6, Types
<1> HIDE DEF to, next
<1>8. ASSUME NEW other \in Places, HasContent(other), Before(other, to)
      PROVE  /\ Says(other, longer, 0 + next[other], lists)
             /\ next[After(other)] = next[other] + Width(other)
  <2>1. IsVisited(other) /\ other # to
    BY <1>4, <1>8 DEF HasContent
  <2>2. /\ next[other] = offset[other] /\ offset[other] \in Nat
        /\ 0 + offset[other] = offset[other]
    BY <1>2, <1>3, <2>1
  <2>3. CASE other = place
    BY <1>3, <2>2, <2>3 DEF to
  <2>4. CASE other # place
    <3>1. Before(other, place)
      BY <1>1, <1>8, <2>1, <2>4
    <3>2. /\ Says(other, longer, 0 + offset[other], lists)
          /\ offset[After(other)] = offset[other] + Width(other)
      BY <1>8, <3>1 DEF IsLaidOut
    <3>3. After(other) \in Places /\ (Before(place, After(other)) <=> Before(place, other) \/ place = other)
      BY <1>5, <1>8, AfterIsNext
    <3>4. ~Before(place, other)
      BY <3>1, PlaceType DEF Before
    <3>5. Before(place, to)
      BY <1>1, <1>5
    <3>6. After(other) # to
      BY <2>4, <3>3, <3>4, <3>5
    <3> QED BY <1>3, <2>2, <3>2, <3>3, <3>6
  <2> QED BY <2>3, <2>4
<1>9. IsLaidOut(next, to, longer, 0, lists)
  BY <1>3, <1>7, <1>8 DEF IsLaidOut
<1> QED BY <1>3, <1>9 DEF to

-----------------------------------------------------------------------------
(* The inductive invariant of the reference format                         *)

Stages == {"writing", "tables", "reading", "done", "failed"}

CodecType == region \in Regions /\ max_deltas \in MaxDeltas /\ stage \in Stages

AtPlace == at \in Places /\ IsVisited(at)

(* Tables of palettes of the region, each once. *)
AreTables(lists) ==
  /\ lists \in [Domains -> Seq(Palettes)]
  /\ \A domain \in Domains : NoneTwice(lists[domain]) /\ Entries(lists[domain]) \subseteq PalettesOf(domain)

(* The writer has laid out what comes before its place. *)
WriterPart ==
  stage = "writing" =>
    /\ AtPlace
    /\ AreTables(tables)
    /\ body \in Seq(Fields)
    /\ pos = 1
    /\ read = [slot \in Slots |-> NoSegment]
    /\ \E offset : /\ IsLaidOut(offset, at, body, 0, tables)
                   /\ offset[at] = Len(body)

(* A palette table in the file. *)
IsTable(text, n, table) ==
  /\ n \in DOMAIN text
  /\ text[n] = Field("table", Len(table))
  /\ \A i \in 1..Len(table) : n + i \in DOMAIN text /\ text[n + i] = PaletteField(table[i])

(* How many fields come before the region. *)
HeadLength(lists) == 2 + Len(lists["block"]) + Len(lists["biome"])

(* The file has these tables, and the region after them. *)
IsFile(offset, lists) ==
  /\ file \in Seq(Fields)
  /\ AreTables(lists)
  /\ IsTable(file, 1, lists["block"])
  /\ IsTable(file, 2 + Len(lists["block"]), lists["biome"])
  /\ IsLaidOut(offset, EndPlace, file, HeadLength(lists), lists)
  /\ Len(file) = HeadLength(lists) + offset[EndPlace]

(* The part of a section in the file's order. *)
PartOf(domain, section) == IF domain = "block" THEN section ELSE SectionCount + section

(* How many of the first snapshots of a section are kept, and what is read *)
(* of them.                                                                *)
KeptOf(length) == IF max_deltas = 0 \/ length <= max_deltas THEN length ELSE max_deltas

FirstOf(snapshots, count) == [k \in 1..count |-> AsRead(snapshots[k])]

(* How many are read of a part's section before a place. *)
CountBefore(place, part, length) ==
  IF part < place.part THEN KeptOf(length)
  ELSE IF part = place.part /\ place.delta # 0 THEN KeptOf(place.delta - 1)
  ELSE 0

SectionsBefore(place, slot) ==
  [domain \in Domains |->
     [section \in 1..SectionCount |->
        FirstOf(region[slot].sections[domain][section],
                CountBefore(place, PartOf(domain, section),
                            Len(region[slot].sections[domain][section])))]]

(* What is read of a segment before a place in it. *)
ReadBefore(place, slot) ==
  [present |-> TRUE, sections |-> SectionsBefore(place, slot),
   states |-> IF StatesPart < place.part THEN region[slot].states ELSE <<>>,
   tile_entities |-> <<>>]

(* What is read of a slot before a place, and of all slots. *)
ReadOf(place, slot) ==
  IF slot \notin Present \/ place.slot < slot \/ (slot = place.slot /\ place.part = FirstPart)
  THEN NoSegment
  ELSE IF slot < place.slot THEN Limited[slot] ELSE ReadBefore(place, slot)

ReadUpTo(place) == [slot \in Slots |-> ReadOf(place, slot)]

(* A table as it is read. *)
AsTable(table) == [i \in 1..Len(table) |-> ReadPalette(table[i])]

TableIsWithin(table) == Len(table) <= MAX_PALETTE_TABLE_LENGTH

(* What is written at a place is within the reader's limits. *)
SnapshotFits(snapshot) ==
  snapshot.palette # NoPalette => PackedLength[snapshot.cells] <= MAX_PACKED_LENGTH

ListsFit(lists) == Len(lists) <= MAX_DELTA_LENGTH /\ \A i \in DOMAIN lists : ListFits(lists[i])

FitsAt(place) ==
  /\ IsSection(place) /\ place.delta = 0 => Len(SnapshotsAt(place)) <= MAX_DELTA_LENGTH
  /\ IsSnapshot(place) => SnapshotFits(SnapshotAt(place))
  /\ place.part = StatesPart => Len(region[place.slot].states) <= MAX_SEGMENT_STATES_LENGTH
  /\ place.part = LastPart => ListsFit(region[place.slot].tile_entities)

AllFitBefore(place) ==
  \A other \in Places : HasContent(other) /\ Before(other, place) => FitsAt(other)

(* The reader has read what comes before its place, and found it within    *)
(* its limits.                                                             *)
ReadsTables(lists) ==
  /\ at = FirstPlace
  /\ read = [slot \in Slots |-> NoSegment]
  /\ tables = [domain \in Domains |-> tables[domain]]
  /\ \/ pos = 1
     \/ /\ pos = 2 + Len(lists["block"])
        /\ tables["block"] = AsTable(lists["block"])
        /\ TableIsWithin(lists["block"])

ReadsRegion(offset, lists) ==
  /\ tables = [domain \in Domains |-> AsTable(lists[domain])]
  /\ \A domain \in Domains : TableIsWithin(lists[domain])
  /\ pos = HeadLength(lists) + offset[at] + 1
  /\ IsSnapshot(at) => delta_length = Len(SnapshotsAt(at))
  /\ read = ReadUpTo(at)
  /\ AllFitBefore(at)

ReaderIsAt(offset, lists) ==
  /\ AtPlace
  /\ stage = "tables" => ReadsTables(lists)
  /\ stage \in {"reading", "done"} => ReadsRegion(offset, lists)
  /\ stage = "done" => at = EndPlace

ReaderPart ==
  stage \in {"tables", "reading", "done"} =>
    \E offset, lists : IsFile(offset, lists) /\ ReaderIsAt(offset, lists)

RefusalPart == stage = "failed" => IsBeyondLimits

(* What holds where no palette is left out of the file. *)
CodecInv ==
  /\ EveryPaletteIsWritten
  /\ CodecType
  /\ WriterPart
  /\ ReaderPart
  /\ RefusalPart

-----------------------------------------------------------------------------
(* The writer goes on                                                      *)

(* What is laid out depends on no variable but the region. *)
LEMMA LaidOutStill ==
  ASSUME UNCHANGED region, NEW offset, NEW upto, NEW text, NEW base, NEW lists
  PROVE  IsLaidOut(offset, upto, text, base, lists)' <=> IsLaidOut(offset, upto, text, base, lists)
<1>1. \A place : SnapshotsAt(place)' = SnapshotsAt(place) /\ SnapshotAt(place)' = SnapshotAt(place)
  BY DEF SnapshotsAt, SnapshotAt
<1>2. \A place : /\ HasContent(place)' <=> HasContent(place)
                 /\ After(place)' = After(place) /\ Width(place)' = Width(place)
  BY <1>1 DEF HasContent, IsVisited, After, EndsSlot, HasMore, Width
<1>3. \A place : FieldsAt(place, lists)' = FieldsAt(place, lists)
  BY <1>1 DEF FieldsAt
<1>4. \A place : HasItsPalette(place, lists)' <=> HasItsPalette(place, lists)
  BY <1>1 DEF HasItsPalette
<1>5. \A place, n : Says(place, text, n, lists)' <=> Says(place, text, n, lists)
  <2> TAKE place, n
  <2>1. PICK fields : fields = FieldsAt(place, lists)
    OBVIOUS
  <2>2. FieldsAt(place, lists)' = fields
    BY <1>3, <2>1
  <2> QED BY <1>4, <2>1, <2>2 DEF Says, GoesOnWith
<1>6. \A place : Says(place, text, base + offset[place], lists)' <=> Says(place, text, base + offset[place], lists)
  <2> TAKE place
  <2>1. PICK n : n = base + offset[place]
    OBVIOUS
  <2> QED BY <1>5, <2>1
<1> QED BY <1>2, <1>6 DEF IsLaidOut

(* One sequence after the other. *)
IsJoin(whole, a, b) ==
  /\ Len(whole) = Len(a) + Len(b)
  /\ DOMAIN whole = 1..(Len(a) + Len(b))
  /\ \A i \in 1..Len(a) : whole[i] = a[i]
  /\ \A k \in 1..Len(b) : whole[Len(a) + k] = b[k]

(* The elements of a sequence that is joined from two. *)
LEMMA JoinHasBoth ==
  ASSUME NEW S, NEW a \in Seq(S), NEW b \in Seq(S), NEW whole, whole = a \o b
  PROVE  whole \in Seq(S) /\ IsJoin(whole, a, b)
<1>1. whole \in Seq(S) /\ Len(whole) = Len(a) + Len(b)
  OBVIOUS
<1>2. DOMAIN whole = 1..(Len(a) + Len(b))
  BY <1>1
<1>3. \A i \in 1..Len(a) : whole[i] = a[i]
  OBVIOUS
<1>4. \A k \in 1..Len(b) : whole[Len(a) + k] = b[k]
  OBVIOUS
<1> QED BY <1>1, <1>2, <1>3, <1>4 DEF IsJoin

(* The palettes of a domain's snapshots are those of the domain. *)
LEMMA PaletteIsThere ==
  ASSUME region \in Regions, NEW place \in Places, HasContent(place), IsSnapshot(place),
         SnapshotAt(place).palette \in Palettes
  PROVE  SnapshotAt(place).palette \in PalettesOf(DomainOf(place.part))
<1>1. PICK domain \in Domains, section \in 1..SectionCount, slot \in Slots, k \in Nat :
        /\ domain = DomainOf(place.part) /\ section = SectionOf(place.part)
        /\ slot = place.slot /\ k = place.delta
  BY SectionType, PlaceType DEF IsSnapshot, HasContent
<1>2. PICK snapshots \in Seq(Snapshots) :
        snapshots = SnapshotsAt(place) /\ snapshots = region[slot].sections[domain][section]
  BY <1>1, SectionType DEF SnapshotsAt, IsSnapshot
<1>3. k \in 1..Len(snapshots) /\ slot \in Present
  <2>1. place.delta # 0 /\ place.delta <= Len(SnapshotsAt(place)) /\ region[place.slot].present
    BY SectionType DEF IsSnapshot, HasContent, IsVisited
  <2>2. k # 0 /\ k <= Len(snapshots) /\ region[slot].present
    BY <1>1, <1>2, <2>1
  <2> QED BY <2>2 DEF Present
<1>4. k \in DOMAIN snapshots /\ SnapshotAt(place) = snapshots[k]
  BY <1>1, <1>2, <1>3 DEF SnapshotAt
<1>5. snapshots \in SectionsOf(region[slot], domain)
  BY <1>2 DEF SectionsOf
<1>6. snapshots[k] \in SnapshotsOf(region[slot], domain)
  BY <1>4, <1>5 DEF SnapshotsOf
<1>7. PICK snapshot, palette : snapshot = snapshots[k] /\ palette = snapshot.palette
  OBVIOUS
<1>8. palette \in {s.palette : s \in SnapshotsOf(region[slot], domain)}
  BY <1>6, <1>7
<1>9. palette \in PalettesOf(domain)
  <2>1. PICK some : some = {s.palette : s \in SnapshotsOf(region[slot], domain)}
    OBVIOUS
  <2>2. some \in {{s.palette : s \in SnapshotsOf(region[each], domain)} : each \in Present}
    BY <1>3, <2>1
  <2>3. palette \in UNION {{s.palette : s \in SnapshotsOf(region[each], domain)} : each \in Present}
    BY <1>8, <2>1, <2>2
  <2>4. palette \in Palettes
    BY <1>4, <1>7
  <2> QED BY <2>3, <2>4 DEF PalettesOf
<1> QED BY <1>1, <1>4, <1>7, <1>9

(* Where the writer and the reader go, after each step. *)
LEMMA NextPlaces ==
  ASSUME region \in Regions, AtPlace, at.slot \in Slots
  PROVE  /\ HasContent(at)
         /\ at.part # FirstPart => region[at.slot].present
         /\ at.part = FirstPart => After(at) = IF region[at.slot].present THEN NextPart ELSE NextSlot
         /\ IsSection(at) => After(at) = NextDelta(Len(SnapshotsAt(at)))
         /\ at.part = StatesPart => After(at) = NextPart
         /\ at.part = LastPart => After(at) = NextSlot
         /\ After(at) \in Places /\ IsVisited(After(at))
<1>1. HasContent(at) /\ at \in Places /\ region \in Regions
  BY DEF AtPlace, HasContent
<1>2. /\ at = [slot |-> at.slot, part |-> at.part, delta |-> at.delta]
      /\ at.part \in Nat /\ at.delta \in Nat
  BY <1>1, PlaceType
<1>3. NextPart = [slot |-> at.slot, part |-> at.part + 1, delta |-> 0]
  BY DEF NextPart
<1>4. at.part # FirstPart => region[at.slot].present
  BY <1>1 DEF HasContent, IsVisited
<1>5. After(at) \in Places /\ IsVisited(After(at))
  BY <1>1, AfterIsNext
<1>6. IsSection(at) => After(at) = NextDelta(Len(SnapshotsAt(at)))
  <2>1. [at EXCEPT !.delta = @ + 1] = [slot |-> at.slot, part |-> at.part, delta |-> at.delta + 1]
    <3>1. PICK s, p, d, place : s = at.slot /\ p = at.part /\ d = at.delta /\ place = at
      OBVIOUS
    <3>2. place = [slot |-> s, part |-> p, delta |-> d]
      BY <1>2, <3>1
    <3>3. [place EXCEPT !.delta = @ + 1] = [slot |-> s, part |-> p, delta |-> d + 1]
      BY ONLY <3>2
    <3> QED BY <3>1, <3>3
  <2> QED BY <1>1, <1>3, <2>1, PartCases DEF After, EndsSlot, HasMore, NextDelta
<1>7. at.part = StatesPart \/ at.part = FirstPart => ~HasMore(at)
  BY <1>1, PartCases DEF HasMore
<1>8. at.part = StatesPart => ~EndsSlot(at)
  BY <1>1, PartCases DEF EndsSlot
<1> QED BY <1>1, <1>2, <1>3, <1>4, <1>5, <1>6, <1>7, <1>8, PartCases DEF After, EndsSlot, NextSlot

(* The writer writes what is to be written at its place. *)
LEMMA WriterGoesOn ==
  ASSUME CodecInv, Writes,
         at' = After(at), UNCHANGED <<region, stage, pos, read>>,
         AreTables(tables)', ListsGoOn(tables, tables'), HasItsPalette(at, tables'),
         body' = body \o FieldsAt(at, tables')
  PROVE  WriterPart'
<1>1. /\ region \in Regions /\ AtPlace /\ at \in Places /\ body \in Seq(Fields) /\ pos = 1
      /\ read = [slot \in Slots |-> NoSegment] /\ stage = "writing" /\ at.slot \in Slots
  BY DEF CodecInv, CodecType, AtPlace, WriterPart, Writes
<1>2. HasContent(at) /\ After(at) \in Places /\ IsVisited(After(at))
  BY <1>1, NextPlaces
<1>3. PICK offset : IsLaidOut(offset, at, body, 0, tables) /\ offset[at] = Len(body)
  BY <1>1 DEF CodecInv, WriterPart
<1>4. PICK longer, lists : longer = body' /\ lists = tables'
  OBVIOUS
<1>5. lists \in [Domains -> Seq(Palettes)]
  BY <1>4 DEF AreTables
<1>6. PICK fields : fields = FieldsAt(at, lists)
  OBVIOUS
<1>7. fields \in Seq(Fields) /\ Len(fields) = Width(at)
  BY <1>1, <1>2, <1>4, <1>5, <1>6, FieldsAtType
<1>8. longer \in Seq(Fields) /\ IsJoin(longer, body, fields)
  <2>1. body \in Seq(Fields) /\ fields \in Seq(Fields) /\ longer = body \o fields
    BY <1>1, <1>4, <1>6, <1>7
  <2> QED BY ONLY <2>1, JoinHasBoth
<1>9. PICK n \in Nat, w \in Nat : n = Len(body) /\ w = Width(at)
  BY <1>1, WidthType
<1>10. /\ Len(longer) = n + w /\ DOMAIN longer = 1..(n + w)
       /\ \A i \in 1..n : longer[i] = body[i]
       /\ \A k \in 1..w : longer[n + k] = fields[k]
  BY <1>7, <1>8, <1>9 DEF IsJoin
<1>11. IsWithin(body, longer, 0)
  <2>1. DOMAIN body = 1..n
    BY <1>1, <1>9
  <2>2. \A i \in 1..n : 0 + i = i /\ i \in 1..(n + w)
    BY <1>9
  <2> QED BY <1>10, <2>1, <2>2 DEF IsWithin
<1>12. IsLaidOut(offset, at, longer, 0, lists)
  <2>1. 0 \in Nat /\ ListsGoOn(tables, lists)
    BY <1>4
  <2> QED BY <1>1, <1>3, <1>11, <2>1, LaidOutElsewhere
<1>13. Says(at, longer, n, lists)
  <2>1. \A i \in 1..w : n + i \in 1..(n + w)
    BY <1>9
  <2>2. \A i \in 1..Len(fields) : n + i \in DOMAIN longer /\ longer[n + i] = fields[i]
    BY <1>7, <1>9, <1>10, <2>1
  <2> QED BY <1>4, <1>6, <2>2 DEF Says, GoesOnWith
<1>14. PICK next, to : /\ IsLaidOut(next, to, longer, 0, lists) /\ to = After(at)
                       /\ next[to] = n + w
  <2>1. offset[at] = n /\ offset[at] \in Nat /\ Width(at) \in Nat
    BY <1>3, <1>9
  <2>2. \E next : IsLaidOut(next, After(at), longer, 0, lists)
                  /\ next[After(at)] = offset[at] + Width(at)
    BY <1>1, <1>2, <1>12, <1>13, <2>1, LaidOutFurther
  <2> QED BY <1>9, <2>1, <2>2
<1>15. IsLaidOut(next, to, longer, 0, lists)'
  BY <1>14, LaidOutStill
<1>16. IsLaidOut(next, at, body, 0, tables)' /\ (next[at] = Len(body))'
  BY <1>4, <1>10, <1>14, <1>15
<1>17. AtPlace'
  BY <1>2 DEF AtPlace, IsVisited, SnapshotsAt
<1>18. (body \in Seq(Fields))' /\ (pos = 1)' /\ (read = [slot \in Slots |-> NoSegment])'
  BY <1>1, <1>4, <1>8
<1> QED BY <1>16, <1>17, <1>18 DEF WriterPart

(* What does not change the tables keeps them. *)
LEMMA TablesStay ==
  ASSUME AreTables(tables), UNCHANGED <<region, tables>>
  PROVE  AreTables(tables)' /\ ListsGoOn(tables, tables')
<1>1. \A domain \in Domains : PalettesOf(domain)' = PalettesOf(domain)
  BY DEF PalettesOf, Present, SnapshotsOf, SectionsOf
<1>2. AreTables(tables)'
  BY <1>1 DEF AreTables, NoneTwice, Entries
<1> QED BY <1>2 DEF AreTables, ListsGoOn, GoesOn

(* Everything but a snapshot is written without the tables. *)
LEMMA WriteOthersKeeps ==
  ASSUME CodecInv, WriteIndicator \/ WriteLength \/ WriteStates \/ WriteTileEntities
  PROVE  WriterPart'
<1>1. Writes /\ UNCHANGED <<region, stage, pos, read, tables>>
  BY DEF WriteIndicator, WriteLength, WriteStates, WriteTileEntities, Write
<1>2. /\ region \in Regions /\ AtPlace /\ at \in Places /\ at.slot \in Slots
      /\ AreTables(tables)
  BY <1>1 DEF CodecInv, CodecType, AtPlace, WriterPart, Writes
<1>3. AreTables(tables)' /\ ListsGoOn(tables, tables')
  BY <1>1, <1>2, TablesStay
<1>4. ~IsSnapshot(at) /\ at' = After(at) /\ body' = body \o FieldsAt(at, tables')
  <2>1. CASE WriteIndicator
    BY <1>2, <2>1, NextPlaces, PartCases DEF WriteIndicator, Write, FieldsAt, IsSnapshot
  <2>2. CASE WriteLength
    BY <1>2, <2>2, NextPlaces, PartCases DEF WriteLength, Write, FieldsAt, IsSnapshot
  <2>3. CASE WriteStates
    BY <1>2, <2>3, NextPlaces, PartCases DEF WriteStates, Write, FieldsAt, IsSnapshot
  <2>4. CASE WriteTileEntities
    BY <1>2, <2>4, NextPlaces, PartCases DEF WriteTileEntities, Write, FieldsAt, IsSnapshot
  <2> QED BY <2>1, <2>2, <2>3, <2>4
<1>5. HasItsPalette(at, tables')
  BY <1>4 DEF HasItsPalette
<1> QED BY <1>1, <1>3, <1>4, <1>5, WriterGoesOn

(* A snapshot's palette is in the table before its index is written.       *)
LEMMA WriteSnapshotKeeps == ASSUME CodecInv, WriteSnapshot PROVE WriterPart'
<1>1. PICK domain, snapshot, table :
        /\ domain = DomainOf(at.part) /\ snapshot = SnapshotAt(at)
        /\ table = Extended(tables[domain], snapshot.palette)
  OBVIOUS
<1>2. /\ Writes /\ IsSnapshot(at) /\ UNCHANGED <<region, stage, pos, read>>
      /\ tables' = [tables EXCEPT ![domain] = table]
      /\ body' = body \o SnapshotFields(snapshot, table)
      /\ at' = NextDelta(Len(SnapshotsAt(at)))
  BY <1>1 DEF WriteSnapshot, Write, IsSnapshot, SnapshotAt
<1>3. /\ region \in Regions /\ AtPlace /\ at \in Places /\ at.slot \in Slots
      /\ AreTables(tables)
  BY <1>2 DEF CodecInv, CodecType, AtPlace, WriterPart, Writes
<1>4. at' = After(at) /\ HasContent(at)
  BY <1>2, <1>3, NextPlaces DEF IsSnapshot
<1>5. domain \in Domains /\ snapshot \in Snapshots /\ tables[domain] \in Seq(Palettes)
  BY <1>1, <1>2, <1>3, <1>4, SectionType DEF IsSnapshot, AreTables
<1>6. PICK palette, old : palette = snapshot.palette /\ old = tables[domain]
  OBVIOUS
<1>7. /\ table \in Seq(Palettes) /\ GoesOn(old, table)
      /\ NoneTwice(old) => NoneTwice(table)
      /\ Entries(table) = Entries(old) \cup ({palette} \cap Palettes)
  <2>1. old \in Seq(Palettes) /\ table = Extended(old, palette)
    BY <1>1, <1>5, <1>6
  <2> QED BY <2>1, ExtendedKeeps
<1>8. {palette} \cap Palettes \subseteq PalettesOf(domain)
  BY <1>1, <1>2, <1>3, <1>4, <1>6, PaletteIsThere
<1>9. \A d \in Domains : tables'[d] = IF d = domain THEN table ELSE tables[d]
  BY <1>2, <1>3, <1>5 DEF AreTables
<1>10. AreTables(tables)'
  <2>1. PICK lists : lists = tables'
    OBVIOUS
  <2>2. lists \in [Domains -> Seq(Palettes)]
    BY <1>2, <1>3, <1>5, <1>7, <2>1 DEF AreTables
  <2>3. \A d \in Domains : NoneTwice(lists[d]) /\ Entries(lists[d]) \subseteq PalettesOf(d)
    <3> TAKE d \in Domains
    <3>1. CASE d = domain
      BY <1>3, <1>6, <1>7, <1>8, <1>9, <2>1, <3>1 DEF AreTables
    <3>2. CASE d # domain
      BY <1>3, <1>9, <2>1, <3>2 DEF AreTables
    <3> QED BY <3>1, <3>2
  <2>4. \A d \in Domains : PalettesOf(d)' = PalettesOf(d)
    BY <1>2 DEF PalettesOf, Present, SnapshotsOf, SectionsOf
  <2>5. AreTables(lists)'
    BY <2>2, <2>3, <2>4 DEF AreTables, NoneTwice, Entries
  <2> QED BY <2>1, <2>5 DEF AreTables, NoneTwice, Entries
<1>11. ListsGoOn(tables, tables')
  <2> SUFFICES ASSUME NEW d \in Domains
               PROVE  /\ tables[d] \in Seq(Palettes) /\ tables'[d] \in Seq(Palettes)
                      /\ GoesOn(tables[d], tables'[d]) /\ NoneTwice(tables'[d])
    BY DEF ListsGoOn
  <2>1. CASE d = domain
    BY <1>3, <1>5, <1>6, <1>7, <1>9, <2>1 DEF AreTables
  <2>2. CASE d # domain
    BY <1>3, <1>9, <2>2 DEF AreTables, GoesOn
  <2> QED BY <2>1, <2>2
<1>12. HasItsPalette(at, tables')
  BY <1>1, <1>5, <1>6, <1>7, <1>9 DEF HasItsPalette
<1>13. FieldsAt(at, tables') = SnapshotFields(snapshot, table)
  BY <1>1, <1>2, <1>3, <1>5, <1>9, PartCases DEF FieldsAt, IsSnapshot
<1> QED BY <1>2, <1>4, <1>10, <1>11, <1>12, <1>13, WriterGoesOn
(* A table at the place where its fields are. *)
LEMMA TableIsThere ==
  ASSUME EveryPaletteIsWritten, NEW table \in Seq(Palettes), NEW text, NEW n \in Nat,
         \A i \in 1..Len(TableFields(table)) :
           n + i \in DOMAIN text /\ text[n + i] = TableFields(table)[i]
  PROVE  IsTable(text, n + 1, table)
<1>1. PICK p \in Nat : p = Len(table)
  OBVIOUS
<1> DEFINE fields == TableFields(table)
<1>2. /\ Len(fields) = 1 + p
      /\ fields[1] = Field("table", p)
      /\ \A i \in 1..p : fields[1 + i] = PaletteField(table[i])
  BY <1>1, TableFieldsTell
<1>3. \A j \in 1..Len(fields) : n + j \in DOMAIN text /\ text[n + j] = fields[j]
  OBVIOUS
<1> HIDE DEF fields
<1>4. \A j \in 1..(1 + p) : n + j \in DOMAIN text /\ text[n + j] = fields[j]
  BY <1>2, <1>3
<1>5. 1 \in 1..(1 + p)
  OBVIOUS
<1>6. n + 1 \in DOMAIN text /\ text[n + 1] = Field("table", p)
  BY <1>2, <1>4, <1>5
<1>7. \A i \in 1..p : n + 1 + i \in DOMAIN text /\ text[n + 1 + i] = PaletteField(table[i])
  <2> TAKE i \in 1..p
  <2>1. PICK j \in 1..(1 + p) : j = 1 + i
    OBVIOUS
  <2>2. n + j = n + 1 + i
    BY <2>1
  <2>3. n + j \in DOMAIN text /\ text[n + j] = fields[j]
    BY <1>4
  <2> QED BY <1>2, <2>1, <2>2, <2>3
<1> QED BY <1>1, <1>6, <1>7 DEF IsTable

(* The tables come first in the file, and what was written follows.        *)
LEMMA WriteFileKeeps == ASSUME CodecInv, WriteFile PROVE ReaderPart'
<1>1. /\ stage = "writing" /\ at.slot = SlotCount + 1
      /\ file' = TableFields(tables["block"]) \o TableFields(tables["biome"]) \o body
      /\ stage' = "tables" /\ at' = FirstPlace
      /\ tables' = [domain \in Domains |-> <<>>]
      /\ UNCHANGED <<region, pos, max_deltas, read>>
  BY DEF WriteFile
<1>2. /\ region \in Regions /\ at \in Places /\ IsVisited(at) /\ body \in Seq(Fields)
      /\ tables \in [Domains -> Seq(Palettes)] /\ EveryPaletteIsWritten
      /\ pos = 1 /\ read = [slot \in Slots |-> NoSegment]
      /\ AreTables(tables)
  BY <1>1 DEF CodecInv, CodecType, AtPlace, WriterPart, AreTables
<1>3. at = EndPlace
  <2>1. at.part = FirstPart
    BY <1>1, <1>2, PlaceType DEF IsVisited
  <2>2. at.delta = 0
    BY <1>2, <2>1, PartCases DEF IsVisited
  <2>3. at = [slot |-> at.slot, part |-> at.part, delta |-> at.delta]
    BY <1>2, PlaceType
  <2> QED BY <1>1, <2>1, <2>2, <2>3 DEF EndPlace
<1>4. PICK offset : IsLaidOut(offset, EndPlace, body, 0, tables) /\ offset[EndPlace] = Len(body)
  BY <1>1, <1>3 DEF CodecInv, WriterPart
<1>5. PICK lists : lists = tables
  OBVIOUS
<1>6. PICK blocks \in Seq(Palettes), biomes \in Seq(Palettes) :
        blocks = lists["block"] /\ biomes = lists["biome"]
  BY <1>2, <1>5 DEF Domains
<1>7. PICK first, second : first = TableFields(blocks) /\ second = TableFields(biomes)
  OBVIOUS
<1>8. /\ first \in Seq(Fields) /\ Len(first) = 1 + Len(blocks)
      /\ second \in Seq(Fields) /\ Len(second) = 1 + Len(biomes)
  BY <1>2, <1>7, TableFieldsTell
<1>9. PICK head : head = first \o second
  OBVIOUS
<1>10. /\ head \in Seq(Fields) /\ Len(head) = Len(first) + Len(second)
       /\ DOMAIN head = 1..(Len(first) + Len(second))
       /\ \A i \in 1..Len(first) : head[i] = first[i]
       /\ \A k \in 1..Len(second) : head[Len(first) + k] = second[k]
  <2>1. first \in Seq(Fields) /\ second \in Seq(Fields)
    BY <1>8
  <2>2. head \in Seq(Fields) /\ IsJoin(head, first, second)
    BY ONLY <1>9, <2>1, JoinHasBoth
  <2> QED BY <2>2 DEF IsJoin
<1>11. PICK whole : whole = head \o body
  OBVIOUS
<1>12. /\ whole \in Seq(Fields) /\ Len(whole) = Len(head) + Len(body)
       /\ DOMAIN whole = 1..(Len(head) + Len(body))
       /\ \A i \in 1..Len(head) : whole[i] = head[i]
       /\ \A k \in 1..Len(body) : whole[Len(head) + k] = body[k]
  <2>1. head \in Seq(Fields) /\ body \in Seq(Fields)
    BY <1>2, <1>10
  <2>2. whole \in Seq(Fields) /\ IsJoin(whole, head, body)
    BY ONLY <1>11, <2>1, JoinHasBoth
  <2> QED BY <2>2 DEF IsJoin
<1>13. file' = whole
  BY <1>1, <1>5, <1>6, <1>7, <1>9, <1>11
<1>14. PICK a \in Nat, b \in Nat, c \in Nat : a = Len(first) /\ b = Len(second) /\ c = Len(body)
  BY <1>2, <1>8
<1>15. HeadLength(lists) = a + b /\ Len(head) = a + b /\ a = 1 + Len(blocks)
  <2>1. PICK p \in Nat, q \in Nat : p = Len(blocks) /\ q = Len(biomes)
    OBVIOUS
  <2>2. a = 1 + p /\ b = 1 + q /\ HeadLength(lists) = 2 + p + q
    BY <1>6, <1>8, <1>14, <2>1 DEF HeadLength
  <2> QED BY <1>10, <1>14, <2>1, <2>2
<1>16. IsTable(whole, 1, blocks)
  <2>1. \A i \in 1..a : 0 + i = i /\ i \in 1..(a + b) /\ i \in 1..(a + b + c)
    BY <1>14
  <2>2. \A i \in 1..a : i \in DOMAIN whole /\ whole[i] = first[i]
    BY <1>10, <1>12, <1>14, <1>15, <2>1
  <2>5. \A i \in 1..Len(first) : 0 + i \in DOMAIN whole /\ whole[0 + i] = first[i]
    BY <1>14, <2>1, <2>2
  <2>3. 0 + 1 = 1 /\ 0 \in Nat
    OBVIOUS
  <2>4. IsTable(whole, 0 + 1, blocks)
    BY <1>2, <1>7, <2>5, <2>3, TableIsThere
  <2> QED BY <2>3, <2>4
<1>17. IsTable(whole, 2 + Len(blocks), biomes)
  <2>1. \A i \in 1..b : a + i \in 1..(a + b) /\ a + i \in 1..(a + b + c)
    BY <1>14
  <2>2. \A i \in 1..Len(second) : a + i \in DOMAIN whole /\ whole[a + i] = second[i]
    BY <1>10, <1>12, <1>14, <1>15, <2>1
  <2>3. IsTable(whole, a + 1, biomes)
    BY <1>2, <1>7, <2>2, TableIsThere
  <2>4. a + 1 = 2 + Len(blocks)
    BY <1>6, <1>15
  <2> QED BY <2>3, <2>4
<1>18. IsWithin(body, whole, a + b)
  <2>1. DOMAIN body = 1..c
    BY <1>2, <1>14
  <2>2. \A i \in 1..c : a + b + i \in 1..(a + b + c)
    BY <1>14
  <2> QED BY <1>12, <1>14, <1>15, <2>1, <2>2 DEF IsWithin
<1>19. ListsGoOn(lists, lists)
  BY <1>2, <1>5 DEF ListsGoOn, GoesOn, AreTables
<1>20. IsLaidOut(offset, EndPlace, whole, a + b, lists)
  <2>1. IsLaidOut(offset, EndPlace, body, 0, lists) /\ a + b \in Nat
    BY <1>2, <1>4, <1>5, <1>14
  <2> QED BY <1>2, <1>18, <1>19, <2>1, LaidOutElsewhere
<1>21. IsLaidOut(offset, EndPlace, whole, a + b, lists)'
  BY <1>1, <1>20, LaidOutStill
<1>22. IsLaidOut(offset, EndPlace, file, HeadLength(lists), lists)'
  <2>1. HeadLength(lists)' = a + b
    BY <1>15 DEF HeadLength
  <2>2. EndPlace' = EndPlace
    BY DEF EndPlace
  <2> QED BY <1>13, <1>21, <2>1, <2>2
<1>23. Len(whole) = a + b + offset[EndPlace]
  BY <1>4, <1>12, <1>14, <1>15
<1>24. IsFile(offset, lists)'
  <2>1. AreTables(lists)'
    <3>1. \A domain \in Domains : PalettesOf(domain)' = PalettesOf(domain)
      BY <1>1 DEF PalettesOf, Present, SnapshotsOf, SectionsOf
    <3> QED BY <1>2, <1>5, <3>1 DEF AreTables, NoneTwice, Entries
  <2>2. (Len(file) = HeadLength(lists) + offset[EndPlace])'
    BY <1>13, <1>15, <1>23 DEF HeadLength, EndPlace
  <2>3. IsTable(file, 1, lists["block"])'
    BY <1>6, <1>13, <1>16 DEF IsTable, PaletteField, Field
  <2>4. IsTable(file, 2 + Len(lists["block"]), lists["biome"])'
    BY <1>6, <1>13, <1>17 DEF IsTable, PaletteField, Field
  <2> QED BY <1>12, <1>13, <1>22, <2>1, <2>2, <2>3, <2>4 DEF IsFile
<1>25. ReaderIsAt(offset, lists)'
  <2>1. AtPlace'
    BY <1>1, Types DEF AtPlace, IsVisited
  <2>2. (stage = "tables" /\ at = FirstPlace /\ pos = 1)'
    BY <1>1, <1>2 DEF FirstPlace
  <2>3. (read = [slot \in Slots |-> NoSegment])' /\ (tables = [domain \in Domains |-> tables[domain]])'
    BY <1>1, <1>2
  <2>4. ReadsTables(lists)'
    BY <2>2, <2>3 DEF ReadsTables
  <2> QED BY <2>1, <2>2, <2>4 DEF ReaderIsAt
<1> QED BY <1>24, <1>25 DEF ReaderPart

(* Before anything is written. *)
LEMMA CodecInitially == CodecInit /\ EveryPaletteIsWritten => CodecInv
<1> SUFFICES ASSUME CodecInit, EveryPaletteIsWritten PROVE CodecInv
  OBVIOUS
<1>1. /\ at = FirstPlace /\ body = <<>> /\ pos = 1 /\ region \in Regions /\ max_deltas \in MaxDeltas
      /\ read = [slot \in Slots |-> NoSegment] /\ stage = "writing"
      /\ tables = [domain \in Domains |-> <<>>]
  BY DEF CodecInit
<1> DEFINE offset == [place \in Places |-> 0]
<1>2. IsLaidOut(offset, FirstPlace, body, 0, tables)
  <2>1. \A place \in Places : ~Before(place, FirstPlace)
    BY PlaceType, Types DEF Before
  <2> QED BY <2>1, Types DEF IsLaidOut
<1>3. offset[FirstPlace] = 0 /\ Len(<<>>) = 0 /\ body \in Seq(Fields)
  BY <1>1, Types
<1> HIDE DEF offset
<1>4. AreTables(tables)
  BY <1>1 DEF AreTables, NoneTwice, Entries
<1>5. AtPlace
  BY <1>1, Types DEF AtPlace, IsVisited
<1>6. WriterPart
  BY <1>1, <1>2, <1>3, <1>4, <1>5 DEF WriterPart
<1> QED BY <1>1, <1>6 DEF CodecInv, CodecType, Stages, ReaderPart, RefusalPart

-----------------------------------------------------------------------------
(* The reader goes on                                                      *)

(* What is to be read depends on the region and the limit alone. *)
LEMMA ReadStill ==
  ASSUME UNCHANGED <<region, max_deltas>>, NEW place
  PROVE  ReadUpTo(place)' = ReadUpTo(place)
<1>1. \A length : KeptOf(length)' = KeptOf(length)
  BY DEF KeptOf
<1>2. Limited' = Limited
  <2> DEFINE Kept(m, snapshots) == [k \in 1..(IF m = 0 \/ Len(snapshots) <= m THEN Len(snapshots) ELSE m)
                                      |-> AsRead(snapshots[k])]
             Is(r, m) == [slot \in Slots |->
                            IF slot \notin {s \in Slots : r[s].present} THEN NoSegment
                            ELSE [r[slot] EXCEPT
                                    !.sections = [domain \in Domains |->
                                                    [section \in 1..SectionCount |->
                                                       Kept(m, r[slot].sections[domain][section])]]]]
  <2>1. Limited = Is(region, max_deltas)
    BY DEF Limited, Present, Newest
  <2>2. Limited' = Is(region', max_deltas')
    BY DEF Limited, Present, Newest, AsRead, ReadPalette
  <2> HIDE DEF Is
  <2> QED BY <2>1, <2>2
<1>3. \A from, part, length : CountBefore(from, part, length)' = CountBefore(from, part, length)
  <2> TAKE from, part, length
  <2>1. PICK before : before = from.delta - 1
    OBVIOUS
  <2>2. KeptOf(length)' = KeptOf(length) /\ KeptOf(before)' = KeptOf(before)
    BY <1>1
  <2> QED BY <2>1, <2>2 DEF CountBefore
<1>4. \A from, slot : SectionsBefore(from, slot)' = SectionsBefore(from, slot)
  <2> TAKE from, slot
  <2>1. \A domain, section :
          CountBefore(from, PartOf(domain, section), Len(region[slot].sections[domain][section]))'
            = CountBefore(from, PartOf(domain, section), Len(region[slot].sections[domain][section]))
    <3> TAKE domain, section
    <3>1. PICK part, length : part = PartOf(domain, section) /\ length = Len(region[slot].sections[domain][section])
      OBVIOUS
    <3>2. CountBefore(from, part, length)' = CountBefore(from, part, length)
      BY <1>3
    <3> QED BY <3>1, <3>2
  <2>2. \A domain, section :
          FirstOf(region[slot].sections[domain][section],
                  CountBefore(from, PartOf(domain, section), Len(region[slot].sections[domain][section])))'
            = FirstOf(region[slot].sections[domain][section],
                  CountBefore(from, PartOf(domain, section), Len(region[slot].sections[domain][section])))
    BY <2>1 DEF FirstOf
  <2> QED BY <2>2 DEF SectionsBefore
<1>5. \A from, slot : ReadBefore(from, slot)' = ReadBefore(from, slot)
  BY <1>4 DEF ReadBefore
<1>6. Present' = Present
  BY DEF Present
<1>7. \A slot : ReadOf(place, slot)' = ReadOf(place, slot)
  BY <1>2, <1>5, <1>6 DEF ReadOf
<1> QED BY <1>7 DEF ReadUpTo

(* So do the limits of what is written. *)
LEMMA FitStill ==
  ASSUME UNCHANGED region, NEW place
  PROVE  AllFitBefore(place)' <=> AllFitBefore(place)
<1>1. \A other : SnapshotsAt(other)' = SnapshotsAt(other) /\ SnapshotAt(other)' = SnapshotAt(other)
  BY DEF SnapshotsAt, SnapshotAt
<1>2. \A other : (HasContent(other)' <=> HasContent(other)) /\ (FitsAt(other)' <=> FitsAt(other))
  BY <1>1 DEF HasContent, IsVisited, FitsAt
<1> QED BY <1>2 DEF AllFitBefore

(* And the file stays what it is. *)
LEMMA FileStill ==
  ASSUME UNCHANGED <<region, file>>, NEW offset, NEW lists, IsFile(offset, lists)
  PROVE  IsFile(offset, lists)'
<1>1. PICK upto, text, base : upto = EndPlace /\ text = file /\ base = HeadLength(lists)
  OBVIOUS
<1>2. IsLaidOut(offset, upto, text, base, lists)'
  BY <1>1, LaidOutStill DEF IsFile
<1>3. IsLaidOut(offset, EndPlace, file, HeadLength(lists), lists)'
  BY <1>1, <1>2 DEF EndPlace, HeadLength
<1>4. AreTables(lists)'
  <2>1. \A domain \in Domains : PalettesOf(domain)' = PalettesOf(domain)
    BY DEF PalettesOf, Present, SnapshotsOf, SectionsOf
  <2> QED BY <2>1 DEF IsFile, AreTables, NoneTwice, Entries
<1> QED BY <1>3, <1>4 DEF IsFile, IsTable, PaletteField, Field, HeadLength, EndPlace

(* Fields of the tables. *)
LEMMA HeadType ==
  ASSUME NEW lists \in [Domains -> Seq(Palettes)]
  PROVE  HeadLength(lists) \in Nat
<1>1. PICK blocks \in Seq(Palettes), biomes \in Seq(Palettes) :
        blocks = lists["block"] /\ biomes = lists["biome"]
  BY DEF Domains
<1>2. PICK p \in Nat, q \in Nat : p = Len(blocks) /\ q = Len(biomes)
  OBVIOUS
<1>3. HeadLength(lists) = 2 + p + q
  BY <1>1, <1>2 DEF HeadLength
<1> QED BY <1>2, <1>3

(* The fields of the reader's place are at the cursor, the palettes in the *)
(* tables.                                                                 *)
Meets(lists) ==
  /\ AreTables(lists)
  /\ tables = [domain \in Domains |-> AsTable(lists[domain])]
  /\ HasItsPalette(at, lists)
  /\ Len(FieldsAt(at, lists)) = Width(at)
  /\ \A i \in 1..Width(at) : pos + i - 1 \in DOMAIN file /\ file[pos + i - 1] = FieldsAt(at, lists)[i]

(* The reader is where what it is to read was written. *)
LEMMA ReaderSees ==
  ASSUME CodecInv, stage = "reading", at.slot \in Slots
  PROVE  /\ region \in Regions /\ max_deltas \in Nat /\ AtPlace /\ at \in Places
         /\ HasContent(at) /\ Before(at, EndPlace)
         /\ pos \in Nat \ {0}
         /\ read = ReadUpTo(at)
         /\ IsSnapshot(at) => delta_length = Len(SnapshotsAt(at))
         /\ \E lists : Meets(lists)
<1>1. region \in Regions /\ max_deltas \in Nat
  BY FormatOK DEF CodecInv, CodecType, FormatOK
<1>2. PICK offset, lists : IsFile(offset, lists) /\ ReaderIsAt(offset, lists)
  BY DEF CodecInv, ReaderPart
<1>3. AtPlace /\ at \in Places /\ ReadsRegion(offset, lists)
  BY <1>2 DEF ReaderIsAt, AtPlace
<1>4. /\ tables = [domain \in Domains |-> AsTable(lists[domain])]
      /\ pos = HeadLength(lists) + offset[at] + 1
      /\ IsSnapshot(at) => delta_length = Len(SnapshotsAt(at))
      /\ read = ReadUpTo(at)
  BY <1>3 DEF ReadsRegion
<1>5. /\ AreTables(lists) /\ lists \in [Domains -> Seq(Palettes)]
      /\ IsLaidOut(offset, EndPlace, file, HeadLength(lists), lists)
  BY <1>2 DEF IsFile, AreTables
<1>6. HasContent(at) /\ Before(at, EndPlace)
  <2>1. HasContent(at)
    BY <1>1, <1>3, NextPlaces
  <2>2. at.slot < SlotCount + 1
    BY <1>3, PlaceType, Types DEF Slots
  <2> QED BY <2>1, <2>2, Types DEF Before
<1>7. /\ Says(at, file, HeadLength(lists) + offset[at], lists)
      /\ offset[at] \in Nat /\ HeadLength(lists) \in Nat
  BY <1>3, <1>5, <1>6, HeadType DEF IsLaidOut
<1>8. PICK n \in Nat : n = HeadLength(lists) + offset[at]
  BY <1>7
<1>9. pos = n + 1
  BY <1>4, <1>7, <1>8
<1>10. HasItsPalette(at, lists) /\ GoesOnWith(file, n, FieldsAt(at, lists))
  BY <1>7, <1>8 DEF Says
<1>11. PICK fields : fields = FieldsAt(at, lists)
  OBVIOUS
<1>12. Len(fields) = Width(at) /\ Width(at) \in Nat
  BY <1>1, <1>3, <1>5, <1>6, <1>10, <1>11, FieldsAtType, WidthType
<1>13. \A i \in 1..Width(at) : n + i \in DOMAIN file /\ file[n + i] = fields[i]
  BY <1>10, <1>11, <1>12 DEF GoesOnWith
<1>14. PICK w \in Nat : w = Width(at)
  BY <1>12
<1>15. \A i \in 1..w : pos + i - 1 = n + i
  BY <1>9
<1>16. \A i \in 1..w : pos + i - 1 \in DOMAIN file /\ file[pos + i - 1] = fields[i]
  BY <1>13, <1>14, <1>15
<1>17. Meets(lists)
  BY <1>4, <1>5, <1>10, <1>11, <1>12, <1>14, <1>16 DEF Meets
<1>18. pos \in Nat \ {0}
  BY <1>9
<1> QED BY <1>1, <1>3, <1>4, <1>6, <1>17, <1>18

(* It reads what is there. *)
LEMMA ReaderGoesOn ==
  ASSUME CodecInv, stage = "reading", at.slot \in Slots, FitsAt(at),
         at' = After(at), pos' = pos + Width(at),
         UNCHANGED <<region, stage, tables, file, max_deltas>>,
         IsSnapshot(After(at)) => delta_length' = Len(SnapshotsAt(After(at))),
         read' = ReadUpTo(After(at))
  PROVE  ReaderPart'
<1>1. /\ region \in Regions /\ AtPlace /\ at \in Places
      /\ HasContent(at) /\ Before(at, EndPlace)
  BY ReaderSees
<1>2. PICK offset, lists : IsFile(offset, lists) /\ ReaderIsAt(offset, lists)
  BY DEF CodecInv, ReaderPart
<1>3. PICK to \in Places : /\ to = After(at) /\ IsVisited(to)
                           /\ \A other \in Places : IsVisited(other) =>
                                (Before(other, to) <=> Before(other, at) \/ other = at)
  BY <1>1, AfterIsNext
<1>4. /\ tables = [domain \in Domains |-> AsTable(lists[domain])]
      /\ \A domain \in Domains : TableIsWithin(lists[domain])
      /\ pos = HeadLength(lists) + offset[at] + 1
      /\ AllFitBefore(at)
      /\ lists \in [Domains -> Seq(Palettes)]
      /\ IsLaidOut(offset, EndPlace, file, HeadLength(lists), lists)
  BY <1>2 DEF ReaderIsAt, ReadsRegion, IsFile, AreTables
<1>5. offset[to] = offset[at] + Width(at) /\ offset[at] \in Nat /\ Width(at) \in Nat
  BY <1>1, <1>3, <1>4, WidthType DEF IsLaidOut
<1>6. HeadLength(lists) \in Nat
  BY <1>4, HeadType
<1>7. pos' = HeadLength(lists) + offset[to] + 1
  BY <1>4, <1>5, <1>6
<1>8. IsFile(offset, lists)'
  BY <1>2, FileStill
<1>9. read' = ReadUpTo(at)'
  <2>1. ReadUpTo(to)' = ReadUpTo(to)
    BY ReadStill
  <2> QED BY <1>3, <2>1
<1>10. AllFitBefore(at)'
  <2>1. AllFitBefore(to)
    BY <1>3, <1>4 DEF AllFitBefore, HasContent
  <2>2. AllFitBefore(to)'
    BY <2>1, FitStill
  <2> QED BY <1>3, <2>2
<1>11. AtPlace'
  BY <1>3 DEF AtPlace, IsVisited, SnapshotsAt, IsSection
<1>12. (IsSnapshot(at) => delta_length = Len(SnapshotsAt(at)))'
  BY DEF IsSnapshot, IsSection, SnapshotsAt
<1>13. ReadsRegion(offset, lists)'
  <2>1. (tables = [domain \in Domains |-> AsTable(lists[domain])])'
    BY <1>4 DEF AsTable, ReadPalette
  <2>2. (\A domain \in Domains : TableIsWithin(lists[domain]))'
    BY <1>4 DEF TableIsWithin
  <2>3. (pos = HeadLength(lists) + offset[at] + 1)'
    BY <1>3, <1>7 DEF HeadLength
  <2> QED BY <1>9, <1>10, <1>12, <2>1, <2>2, <2>3 DEF ReadsRegion
<1>14. ReaderIsAt(offset, lists)'
  BY <1>11, <1>13 DEF ReaderIsAt
<1> QED BY <1>8, <1>14 DEF ReaderPart

-----------------------------------------------------------------------------
(* What is read of a slot                                                  *)

(* A segment of which nothing is read yet. *)
Blank ==
  [present |-> TRUE,
   sections |-> [domain \in Domains |-> [section \in 1..SectionCount |-> <<>>]],
   states |-> <<>>, tile_entities |-> <<>>]

(* A slot with a segment. *)
LEMMA PresentIs == \A slot \in Slots : slot \in Present <=> region[slot].present
  BY DEF Present

(* Of other slots nothing more is read. *)
LEMMA OthersStay ==
  ASSUME region \in Regions, AtPlace, at.slot \in Slots, NEW slot \in Slots, slot # at.slot
  PROVE  ReadOf(After(at), slot) = ReadOf(at, slot)
<1>1. at \in Places /\ slot \in Nat /\ at.slot \in Nat /\ at.part \in Nat
  BY PlaceType DEF AtPlace, Slots
<1>2. \/ After(at).slot = at.slot
      \/ After(at).slot = at.slot + 1 /\ After(at).part = FirstPart
  BY DEF After
<1>3. CASE After(at).slot = at.slot
  BY <1>1, <1>3 DEF ReadOf
<1>4. CASE After(at).slot = at.slot + 1 /\ After(at).part = FirstPart
  <2>1. /\ After(at).slot < slot <=> at.slot < slot /\ slot # at.slot + 1
        /\ slot < After(at).slot <=> slot < at.slot
    BY <1>1, <1>4
  <2> QED BY <1>1, <1>4, <2>1 DEF ReadOf
<1> QED BY <1>2, <1>3, <1>4

(* So what is read changes in one slot. *)
LEMMA ReadChanges ==
  ASSUME region \in Regions, AtPlace, at.slot \in Slots
  PROVE  ReadUpTo(After(at)) = [ReadUpTo(at) EXCEPT ![at.slot] = ReadOf(After(at), at.slot)]
<1>1. PICK new : new = ReadOf(After(at), at.slot)
  OBVIOUS
<1>2. \A slot \in Slots : ReadOf(After(at), slot) = IF slot = at.slot THEN new ELSE ReadOf(at, slot)
  BY <1>1, OthersStay
<1> QED BY <1>1, <1>2 DEF ReadUpTo

(* Or in none. *)
LEMMA ReadRemains ==
  ASSUME region \in Regions, AtPlace, at.slot \in Slots,
         ReadOf(After(at), at.slot) = ReadOf(at, at.slot)
  PROVE  ReadUpTo(After(at)) = ReadUpTo(at)
<1>1. \A slot \in Slots : ReadOf(After(at), slot) = ReadOf(at, slot)
  BY OthersStay
<1> QED BY <1>1 DEF ReadUpTo

(* Nothing is read of a slot without a segment. *)
LEMMA ReadAbsent ==
  ASSUME region \in Regions, AtPlace, at.slot \in Slots, at.part = FirstPart, ~region[at.slot].present
  PROVE  ReadUpTo(After(at)) = ReadUpTo(at)
<1>1. ReadOf(After(at), at.slot) = ReadOf(at, at.slot)
  BY PresentIs DEF ReadOf
<1> QED BY <1>1, ReadRemains

(* The first that is read of a segment is that it is there. *)
LEMMA ReadPresent ==
  ASSUME region \in Regions, AtPlace, at.slot \in Slots, at.part = FirstPart, region[at.slot].present
  PROVE  ReadUpTo(After(at)) = [ReadUpTo(at) EXCEPT ![at.slot] = Blank]
<1>1. /\ at \in Places /\ at.slot \in Nat /\ FirstPart = 0 /\ FirstPart # LastPart
      /\ StatesPart > 2 /\ StatesPart \in Nat /\ SectionCount \in Nat
  BY PlaceType, PartCases, Types DEF AtPlace
<1>2. PICK to : to = After(at)
  OBVIOUS
<1>3. to = [slot |-> at.slot, part |-> 1, delta |-> 0]
  BY <1>1, <1>2, PartCases DEF After, EndsSlot, HasMore
<1>4. ReadOf(to, at.slot) = ReadBefore(to, at.slot)
  BY <1>1, <1>3, PresentIs DEF ReadOf
<1>5. \A domain \in Domains : \A section \in 1..SectionCount : \A length :
        CountBefore(to, PartOf(domain, section), length) = 0
  <2> SUFFICES ASSUME NEW domain \in Domains, NEW section \in 1..SectionCount, NEW length
               PROVE  CountBefore(to, PartOf(domain, section), length) = 0
    OBVIOUS
  <2>1. ~(PartOf(domain, section) < 1)
    BY <1>1 DEF PartOf
  <2> QED BY <1>3, <2>1 DEF CountBefore
<1>6. \A snapshots : FirstOf(snapshots, 0) = <<>>
  <2>1. 1..0 = {}
    OBVIOUS
  <2> QED BY <2>1 DEF FirstOf
<1>7. SectionsBefore(to, at.slot) = [domain \in Domains |-> [section \in 1..SectionCount |-> <<>>]]
  <2>1. \A domain \in Domains : \A section \in 1..SectionCount :
          FirstOf(region[at.slot].sections[domain][section],
                  CountBefore(to, PartOf(domain, section), Len(region[at.slot].sections[domain][section]))) = <<>>
    BY <1>5, <1>6
  <2> QED BY <2>1 DEF SectionsBefore
<1>8. ReadBefore(to, at.slot) = Blank
  <2>1. ~(StatesPart < to.part)
    BY <1>1, <1>3
  <2> QED BY <1>7, <2>1 DEF ReadBefore, Blank
<1> QED BY <1>2, <1>4, <1>8, ReadChanges

(* How many snapshots of each section are read after a place of a section. *)
LEMMA SectionCounts ==
  ASSUME region \in Regions, AtPlace, at.slot \in Slots, IsSection(at),
         NEW domain \in Domains, NEW section \in 1..SectionCount,
         NEW length, length = Len(region[at.slot].sections[domain][section])
  PROVE  /\ (domain = DomainOf(at.part) /\ section = SectionOf(at.part)) =>
              /\ CountBefore(After(at), PartOf(domain, section), length) = KeptOf(at.delta)
              /\ CountBefore(at, PartOf(domain, section), length) =
                   IF at.delta = 0 THEN 0 ELSE KeptOf(at.delta - 1)
         /\ ~(domain = DomainOf(at.part) /\ section = SectionOf(at.part)) =>
              CountBefore(After(at), PartOf(domain, section), length)
                = CountBefore(at, PartOf(domain, section), length)
<1>1. /\ at \in Places /\ at.slot \in Nat /\ at.part \in Nat /\ at.delta \in Nat
      /\ SectionCount \in Nat \ {0} /\ at.part >= 1 /\ at.part <= 2 * SectionCount
      /\ HasContent(at)
  BY PlaceType, Types DEF AtPlace, IsSection, StatesPart, HasContent
<1>2. PICK part \in Nat, d \in Nat, p \in Nat :
        part = at.part /\ d = at.delta /\ p = PartOf(domain, section)
  BY <1>1 DEF PartOf
<1>3. p = part <=> domain = DomainOf(at.part) /\ section = SectionOf(at.part)
  BY <1>1, <1>2 DEF PartOf, DomainOf, SectionOf, Domains
<1>4. CASE HasMore(at)
  <2>1. After(at) = [slot |-> at.slot, part |-> part, delta |-> d + 1]
    BY <1>1, <1>2, <1>4, PartCases DEF After, EndsSlot
  <2>2. d + 1 # 0 /\ (d + 1) - 1 = d
    BY <1>2
  <2>3. CountBefore(After(at), p, length) =
          IF p < part THEN KeptOf(length) ELSE IF p = part THEN KeptOf(d) ELSE 0
    BY <2>1, <2>2 DEF CountBefore
  <2>4. CountBefore(at, p, length) =
          IF p < part THEN KeptOf(length) ELSE IF p = part /\ d # 0 THEN KeptOf(d - 1) ELSE 0
    BY <1>2 DEF CountBefore
  <2>5. p = part => ~(p < part)
    BY <1>2
  <2> QED BY <1>2, <1>3, <2>3, <2>4, <2>5
<1>5. CASE ~HasMore(at)
  <2>1. After(at) = [slot |-> at.slot, part |-> part + 1, delta |-> 0]
    BY <1>1, <1>2, <1>5, PartCases DEF After, EndsSlot
  <2>2. CountBefore(After(at), p, length) = IF p < part + 1 THEN KeptOf(length) ELSE 0
    BY <2>1 DEF CountBefore
  <2>3. CountBefore(at, p, length) =
          IF p < part THEN KeptOf(length) ELSE IF p = part /\ d # 0 THEN KeptOf(d - 1) ELSE 0
    BY <1>2 DEF CountBefore
  <2>4. (p < part + 1 <=> p < part \/ p = part) /\ (p = part => ~(p < part))
    BY <1>2
  <2>5. p = part => length = d
    <3>1. SUFFICES ASSUME p = part PROVE length = d
      OBVIOUS
    <3>2. length = Len(SnapshotsAt(at)) /\ Len(SnapshotsAt(at)) \in Nat
      BY <1>1, <1>3, <3>1, SectionType DEF SnapshotsAt
    <3>3. ~(at.delta < Len(SnapshotsAt(at)))
      BY <1>5 DEF HasMore
    <3>4. at.delta # 0 => at.delta <= Len(SnapshotsAt(at))
      BY <1>1 DEF HasContent, IsVisited
    <3> QED BY <1>1, <1>2, <3>2, <3>3, <3>4
  <2> QED BY <1>2, <1>3, <2>2, <2>3, <2>4, <2>5
<1> QED BY <1>4, <1>5

(* What is read of a section after a place in it. *)
LEMMA ReadOfSection ==
  ASSUME region \in Regions, AtPlace, at.slot \in Slots, IsSection(at)
  PROVE  ReadUpTo(After(at)) =
           [ReadUpTo(at) EXCEPT
              ![at.slot].sections[DomainOf(at.part)][SectionOf(at.part)] =
                FirstOf(SnapshotsAt(at), KeptOf(at.delta))]
<1>1. /\ at \in Places /\ at.slot \in Nat /\ at.part \in Nat /\ FirstPart = 0
      /\ StatesPart \in Nat /\ at.part < StatesPart /\ at.part # FirstPart /\ HasContent(at)
  BY PlaceType, Types DEF AtPlace, IsSection, HasContent
<1>2. PICK to : to = After(at)
  OBVIOUS
<1>3. /\ to.slot = at.slot /\ to.part \in Nat /\ to.part <= at.part + 1 /\ to.part # FirstPart
  BY <1>1, <1>2, PartCases DEF After, EndsSlot
<1>4. at.slot \in Present
  BY <1>1, PresentIs DEF AtPlace, IsVisited
<1>5. /\ ReadOf(to, at.slot) = ReadBefore(to, at.slot)
      /\ ReadOf(at, at.slot) = ReadBefore(at, at.slot)
  BY <1>1, <1>3, <1>4 DEF ReadOf
<1>6. PICK domain \in Domains, section \in 1..SectionCount :
        domain = DomainOf(at.part) /\ section = SectionOf(at.part)
  BY <1>1, SectionType
<1>7. PICK a, b, first :
        /\ a = SectionsBefore(at, at.slot) /\ b = SectionsBefore(to, at.slot)
        /\ first = FirstOf(SnapshotsAt(at), KeptOf(at.delta))
  OBVIOUS
<1>8. b = [a EXCEPT ![domain][section] = first]
  <2> DEFINE Until(place, d, s) ==
               FirstOf(region[at.slot].sections[d][s],
                       CountBefore(place, PartOf(d, s), Len(region[at.slot].sections[d][s])))
  <2>1. \A d \in Domains : \A s \in 1..SectionCount :
          Until(to, d, s) = IF d = domain /\ s = section THEN first ELSE Until(at, d, s)
    <3> TAKE d \in Domains
    <3> TAKE s \in 1..SectionCount
    <3>1. PICK length : length = Len(region[at.slot].sections[d][s])
      OBVIOUS
    <3>2. CASE d = domain /\ s = section
      <4>1. CountBefore(to, PartOf(d, s), length) = KeptOf(at.delta)
        BY <1>2, <1>6, <3>1, <3>2, SectionCounts
      <4>2. region[at.slot].sections[d][s] = SnapshotsAt(at)
        BY <1>6, <3>2 DEF SnapshotsAt
      <4> QED BY <1>7, <3>1, <3>2, <4>1, <4>2
    <3>3. CASE ~(d = domain /\ s = section)
      <4>1. CountBefore(to, PartOf(d, s), length) = CountBefore(at, PartOf(d, s), length)
        BY <1>2, <1>6, <3>1, <3>3, SectionCounts
      <4> QED BY <3>1, <3>3, <4>1
    <3> QED BY <3>2, <3>3
  <2>2. /\ a = [d \in Domains |-> [s \in 1..SectionCount |-> Until(at, d, s)]]
        /\ b = [d \in Domains |-> [s \in 1..SectionCount |-> Until(to, d, s)]]
    BY <1>7 DEF SectionsBefore
  <2> HIDE DEF Until
  <2> QED BY <2>1, <2>2
<1>9. PICK old, new : old = ReadBefore(at, at.slot) /\ new = ReadBefore(to, at.slot)
  OBVIOUS
<1>10. new = [old EXCEPT !.sections[domain][section] = first]
  <2>1. ~(StatesPart < at.part) /\ ~(StatesPart < to.part)
    BY <1>1, <1>3
  <2>2. /\ old = [present |-> TRUE, sections |-> a, states |-> <<>>, tile_entities |-> <<>>]
        /\ new = [present |-> TRUE, sections |-> b, states |-> <<>>, tile_entities |-> <<>>]
    BY <1>7, <1>9, <2>1 DEF ReadBefore
  <2>3. PICK other : other = [old EXCEPT !.sections[domain][section] = first]
    OBVIOUS
  <2>4. other = [present |-> TRUE, sections |-> b, states |-> <<>>, tile_entities |-> <<>>]
    BY ONLY <1>8, <2>2, <2>3
  <2> QED BY <2>2, <2>3, <2>4
<1>11. ReadUpTo(to) = [ReadUpTo(at) EXCEPT ![at.slot] = new]
  BY <1>2, <1>5, <1>9, ReadChanges
<1>12. ReadUpTo(at)[at.slot] = old
  BY <1>5, <1>9 DEF ReadUpTo
<1> QED BY <1>2, <1>6, <1>7, <1>10, <1>11, <1>12

(* A snapshot that is kept is appended. *)
LEMMA ReadOfKept ==
  ASSUME region \in Regions, AtPlace, at.slot \in Slots, IsSnapshot(at), max_deltas \in Nat,
         max_deltas = 0 \/ at.delta <= max_deltas,
         NEW snapshot, snapshot = AsRead(SnapshotAt(at))
  PROVE  ReadUpTo(After(at)) =
           [ReadUpTo(at) EXCEPT
              ![at.slot].sections[DomainOf(at.part)][SectionOf(at.part)] = Append(@, snapshot)]
<1>1. /\ at \in Places /\ at.slot \in Nat /\ FirstPart = 0 /\ HasContent(at) /\ IsSection(at)
      /\ at.part # FirstPart /\ at.delta # 0
  <2>1. at \in Places /\ HasContent(at) /\ IsSection(at) /\ at.delta # 0
    BY DEF AtPlace, IsSnapshot, HasContent
  <2> QED BY <2>1, PlaceType, PartCases, Types
<1>2. PICK domain \in Domains, section \in 1..SectionCount :
        domain = DomainOf(at.part) /\ section = SectionOf(at.part)
  BY <1>1, SectionType
<1>3. PICK snapshots \in Seq(Snapshots), k \in Nat : snapshots = SnapshotsAt(at) /\ k = at.delta
  BY <1>1, PlaceType, SectionType
<1>4. KeptOf(k) = k /\ KeptOf(k - 1) = k - 1 /\ k # 0
  BY <1>1, <1>3 DEF KeptOf
<1>5. FirstOf(snapshots, k) = Append(FirstOf(snapshots, k - 1), snapshot)
  <2>1. k - 1 \in Nat /\ (k - 1) + 1 = k
    BY <1>3, <1>4
  <2>2. \A f : LET s == [i \in 1..(k - 1) |-> f[i]] t == [i \in 1..k |-> f[i]]
               IN  t = Append(s, f[k])
    <3> TAKE f
    <3> DEFINE s == [i \in 1..(k - 1) |-> f[i]]
               t == [i \in 1..k |-> f[i]]
               V == {f[i] : i \in 1..k}
    <3>1. k \in 1..k /\ \A i \in 1..(k - 1) : i \in 1..k
      BY <2>1
    <3>2. s \in Seq(V) /\ Len(s) = k - 1
      <4>1. \A i \in 1..(k - 1) : f[i] \in V
        BY <3>1
      <4> HIDE DEF V
      <4> QED BY <2>1, <4>1
    <3>3. PICK u : u = Append(s, f[k])
      OBVIOUS
    <3>4. f[k] \in V
      BY <3>1
    <3> HIDE DEF V
    <3>5. u \in Seq(V) /\ Len(u) = k /\ DOMAIN u = 1..k
      BY <2>1, <3>2, <3>3, <3>4
    <3>6. \A i \in 1..k : u[i] = f[i]
      <4> TAKE i \in 1..k
      <4>1. CASE i = k
        BY <2>1, <3>2, <3>3, <3>4, <4>1
      <4>2. CASE i # k
        <5>1. i \in 1..(k - 1)
          BY <2>1, <4>2
        <5> QED BY <2>1, <3>2, <3>3, <3>4, <5>1
      <4> QED BY <4>1, <4>2
    <3>7. u = [i \in 1..k |-> u[i]]
      BY <3>5
    <3> QED BY <3>3, <3>6, <3>7
  <2>3. PICK f : f = [i \in 1..k |-> AsRead(snapshots[i])]
    OBVIOUS
  <2>4. \A i \in 1..k : f[i] = AsRead(snapshots[i])
    BY <2>3
  <2>5. k \in 1..k /\ \A i \in 1..(k - 1) : i \in 1..k
    BY <2>1
  <2>6. /\ FirstOf(snapshots, k) = [i \in 1..k |-> f[i]]
        /\ FirstOf(snapshots, k - 1) = [i \in 1..(k - 1) |-> f[i]]
        /\ snapshot = f[k]
    BY <1>3, <2>4, <2>5 DEF FirstOf, SnapshotAt
  <2> QED BY <2>2, <2>6
<1>6. ReadUpTo(at)[at.slot].sections[domain][section] = FirstOf(snapshots, k - 1)
  <2>1. at.slot \in Present
    BY <1>1, PresentIs DEF AtPlace, IsVisited
  <2>2. ReadUpTo(at)[at.slot] = ReadBefore(at, at.slot)
    BY <1>1, <2>1 DEF ReadUpTo, ReadOf
  <2>3. ReadUpTo(at)[at.slot].sections = SectionsBefore(at, at.slot)
    BY <2>2 DEF ReadBefore
  <2>4. PICK length : length = Len(region[at.slot].sections[domain][section])
    OBVIOUS
  <2>5. CountBefore(at, PartOf(domain, section), length) = k - 1
    BY <1>1, <1>2, <1>3, <1>4, <2>4, SectionCounts
  <2>6. snapshots = region[at.slot].sections[domain][section]
    BY <1>2, <1>3 DEF SnapshotsAt
  <2> QED BY <2>3, <2>4, <2>5, <2>6 DEF SectionsBefore
<1>7. PICK upto, first : upto = ReadUpTo(at) /\ first = FirstOf(snapshots, k)
  OBVIOUS
<1>8. ReadUpTo(After(at)) = [upto EXCEPT ![at.slot].sections[domain][section] = first]
  BY <1>1, <1>2, <1>3, <1>4, <1>7, ReadOfSection
<1>9. first = Append(upto[at.slot].sections[domain][section], snapshot)
  BY <1>5, <1>6, <1>7
<1> QED BY <1>2, <1>7, <1>8, <1>9

(* The length and a snapshot that is skipped change nothing. *)
LEMMA ReadOfSkipped ==
  ASSUME region \in Regions, AtPlace, at.slot \in Slots, IsSection(at), max_deltas \in Nat,
         at.delta # 0 => max_deltas # 0 /\ at.delta > max_deltas
  PROVE  ReadUpTo(After(at)) = ReadUpTo(at)
<1>1. /\ at \in Places /\ at.slot \in Nat /\ at.part \in Nat /\ at.delta \in Nat /\ FirstPart = 0
      /\ StatesPart \in Nat /\ at.part < StatesPart /\ at.part # FirstPart /\ HasContent(at)
  BY PlaceType, Types DEF AtPlace, IsSection, HasContent
<1>2. PICK to : to = After(at)
  OBVIOUS
<1>3. /\ to.slot = at.slot /\ to.part \in Nat /\ to.part <= at.part + 1 /\ to.part # FirstPart
  BY <1>1, <1>2, PartCases DEF After, EndsSlot
<1>4. at.slot \in Present
  BY <1>1, PresentIs DEF AtPlace, IsVisited
<1>5. /\ ReadOf(to, at.slot) = ReadBefore(to, at.slot)
      /\ ReadOf(at, at.slot) = ReadBefore(at, at.slot)
  BY <1>1, <1>3, <1>4 DEF ReadOf
<1>6. KeptOf(at.delta) = IF at.delta = 0 THEN 0 ELSE KeptOf(at.delta - 1)
  BY <1>1 DEF KeptOf
<1>7. \A d \in Domains : \A s \in 1..SectionCount :
        CountBefore(to, PartOf(d, s), Len(region[at.slot].sections[d][s]))
          = CountBefore(at, PartOf(d, s), Len(region[at.slot].sections[d][s]))
  <2> TAKE d \in Domains
  <2> TAKE s \in 1..SectionCount
  <2>1. PICK length : length = Len(region[at.slot].sections[d][s])
    OBVIOUS
  <2>2. CountBefore(to, PartOf(d, s), length) = CountBefore(at, PartOf(d, s), length)
    <3>1. CASE d = DomainOf(at.part) /\ s = SectionOf(at.part)
      BY <1>2, <1>6, <2>1, <3>1, SectionCounts
    <3>2. CASE ~(d = DomainOf(at.part) /\ s = SectionOf(at.part))
      BY <1>2, <2>1, <3>2, SectionCounts
    <3> QED BY <3>1, <3>2
  <2> QED BY <2>1, <2>2
<1>8. SectionsBefore(to, at.slot) = SectionsBefore(at, at.slot)
  BY <1>7 DEF SectionsBefore
<1>9. ~(StatesPart < at.part) /\ ~(StatesPart < to.part)
  BY <1>1, <1>3
<1>10. ReadBefore(to, at.slot) = ReadBefore(at, at.slot)
  BY <1>8, <1>9 DEF ReadBefore
<1> QED BY <1>2, <1>5, <1>10, ReadRemains

(* The sections of a segment, read up to the limit. *)
AllSections(slot) ==
  [domain \in Domains |->
     [section \in 1..SectionCount |-> Newest(region[slot].sections[domain][section])]]

LEMMA SectionsAreRead ==
  ASSUME NEW place \in Places, place.part \in {StatesPart, LastPart}, NEW slot
  PROVE  SectionsBefore(place, slot) = AllSections(slot)
<1>1. place.part \in Nat /\ place.part > 2 * SectionCount /\ SectionCount \in Nat
  BY Types DEF StatesPart, LastPart
<1>2. \A domain \in Domains : \A section \in 1..SectionCount : PartOf(domain, section) < place.part
  BY <1>1 DEF PartOf
<1>3. \A snapshots : FirstOf(snapshots, KeptOf(Len(snapshots))) = Newest(snapshots)
  BY DEF FirstOf, KeptOf, Newest
<1>4. \A domain \in Domains : \A section \in 1..SectionCount :
        FirstOf(region[slot].sections[domain][section],
                CountBefore(place, PartOf(domain, section), Len(region[slot].sections[domain][section])))
          = Newest(region[slot].sections[domain][section])
  BY <1>2, <1>3 DEF CountBefore
<1> QED BY <1>4 DEF SectionsBefore, AllSections

(* Then its states are read, *)
LEMMA ReadOfStates ==
  ASSUME region \in Regions, AtPlace, at.slot \in Slots, at.part = StatesPart
  PROVE  ReadUpTo(After(at)) = [ReadUpTo(at) EXCEPT ![at.slot].states = region[at.slot].states]
<1>1. /\ at \in Places /\ at.slot \in Nat /\ FirstPart = 0 /\ HasContent(at)
      /\ StatesPart \in Nat /\ LastPart = StatesPart + 1 /\ at.part # FirstPart
  BY PlaceType, PartCases, Types DEF AtPlace, HasContent
<1>2. PICK to : to = After(at)
  OBVIOUS
<1>3. to = [slot |-> at.slot, part |-> LastPart, delta |-> 0] /\ to \in Places
  <2>1. to = [slot |-> at.slot, part |-> at.part + 1, delta |-> 0]
    BY <1>1, <1>2, PartCases DEF After, EndsSlot, HasMore
  <2>2. to \in Places
    BY <1>2, NextPlaces
  <2> QED BY <1>1, <2>1, <2>2
<1>4. at.slot \in Present
  BY <1>1, PresentIs DEF AtPlace, IsVisited
<1>5. /\ ReadOf(to, at.slot) = ReadBefore(to, at.slot)
      /\ ReadOf(at, at.slot) = ReadBefore(at, at.slot)
  BY <1>1, <1>3, <1>4, PartCases DEF ReadOf
<1>6. /\ SectionsBefore(to, at.slot) = AllSections(at.slot)
      /\ SectionsBefore(at, at.slot) = AllSections(at.slot)
  BY <1>1, <1>3, SectionsAreRead
<1>7. PICK old, new, all, states :
        /\ old = ReadBefore(at, at.slot) /\ new = ReadBefore(to, at.slot)
        /\ all = AllSections(at.slot) /\ states = region[at.slot].states
  OBVIOUS
<1>8. /\ old = [present |-> TRUE, sections |-> all, states |-> <<>>, tile_entities |-> <<>>]
      /\ new = [present |-> TRUE, sections |-> all, states |-> states, tile_entities |-> <<>>]
  <2>1. StatesPart < to.part /\ ~(StatesPart < at.part)
    BY <1>1, <1>3
  <2> QED BY <1>6, <1>7, <2>1 DEF ReadBefore
<1>9. new = [old EXCEPT !.states = states]
  <2>1. PICK other : other = [old EXCEPT !.states = states]
    OBVIOUS
  <2>2. other = [present |-> TRUE, sections |-> all, states |-> states, tile_entities |-> <<>>]
    BY ONLY <1>8, <2>1
  <2> QED BY <1>8, <2>1, <2>2
<1>10. ReadUpTo(to) = [ReadUpTo(at) EXCEPT ![at.slot] = new]
  BY <1>2, <1>5, <1>7, ReadChanges
<1>11. ReadUpTo(at)[at.slot] = old
  BY <1>5, <1>7 DEF ReadUpTo
<1>12. PICK upto, slot : upto = ReadUpTo(at) /\ slot = at.slot
  OBVIOUS
<1>13. [upto EXCEPT ![slot] = new] = [upto EXCEPT ![slot].states = states]
  <2>1. upto[slot] = old
    BY <1>11, <1>12
  <2> QED BY ONLY <1>9, <2>1
<1> QED BY <1>2, <1>7, <1>10, <1>12, <1>13

(* and last its tile entities, with which all of it is read. *)
LEMMA ReadOfTileEntities ==
  ASSUME region \in Regions, AtPlace, at.slot \in Slots, at.part = LastPart
  PROVE  ReadUpTo(After(at)) =
           [ReadUpTo(at) EXCEPT ![at.slot].tile_entities = region[at.slot].tile_entities]
<1>1. /\ at \in Places /\ at.slot \in Nat /\ FirstPart = 0 /\ HasContent(at)
      /\ StatesPart \in Nat /\ LastPart = StatesPart + 1 /\ at.part # FirstPart
  BY PlaceType, PartCases, Types DEF AtPlace, HasContent
<1>2. PICK to : to = After(at)
  OBVIOUS
<1>3. to = [slot |-> at.slot + 1, part |-> 0, delta |-> 0]
  BY <1>1, <1>2 DEF After, EndsSlot
<1>4. at.slot \in Present /\ region[at.slot].present
  BY <1>1, PresentIs DEF AtPlace, IsVisited
<1>5. /\ ReadOf(to, at.slot) = Limited[at.slot]
      /\ ReadOf(at, at.slot) = ReadBefore(at, at.slot)
  BY <1>1, <1>3, <1>4, PartCases DEF ReadOf
<1>6. SectionsBefore(at, at.slot) = AllSections(at.slot)
  BY <1>1, SectionsAreRead
<1>7. PICK old, new, all, states, entities, segment :
        /\ old = ReadBefore(at, at.slot) /\ new = Limited[at.slot]
        /\ all = AllSections(at.slot) /\ states = region[at.slot].states
        /\ entities = region[at.slot].tile_entities /\ segment = region[at.slot]
        /\ segment \in PresentSegments
  BY <1>4, SlotType
<1>8. old = [present |-> TRUE, sections |-> all, states |-> states, tile_entities |-> <<>>]
  <2>1. StatesPart < at.part
    BY <1>1
  <2> QED BY <1>6, <1>7, <2>1 DEF ReadBefore
<1>9. new = [present |-> TRUE, sections |-> all, states |-> states, tile_entities |-> entities]
  <2>1. new = [segment EXCEPT !.sections = all]
    BY <1>4, <1>7 DEF Limited, AllSections
  <2>2. PICK sections : segment = [present |-> TRUE, sections |-> sections,
                                   states |-> states, tile_entities |-> entities]
    BY <1>7 DEF PresentSegments
  <2> QED BY ONLY <2>1, <2>2
<1>10. new = [old EXCEPT !.tile_entities = entities]
  <2>1. PICK other : other = [old EXCEPT !.tile_entities = entities]
    OBVIOUS
  <2>2. other = [present |-> TRUE, sections |-> all, states |-> states, tile_entities |-> entities]
    BY ONLY <1>8, <2>1
  <2> QED BY <1>9, <2>1, <2>2
<1>11. ReadUpTo(to) = [ReadUpTo(at) EXCEPT ![at.slot] = new]
  BY <1>2, <1>5, <1>7, ReadChanges
<1>12. ReadUpTo(at)[at.slot] = old
  BY <1>5, <1>7 DEF ReadUpTo
<1>13. PICK upto, slot : upto = ReadUpTo(at) /\ slot = at.slot
  OBVIOUS
<1>14. [upto EXCEPT ![slot] = new] = [upto EXCEPT ![slot].tile_entities = entities]
  <2>1. upto[slot] = old
    BY <1>12, <1>13
  <2> QED BY ONLY <1>10, <2>1
<1> QED BY <1>2, <1>7, <1>11, <1>13, <1>14

-----------------------------------------------------------------------------
(* What the reader meets                                                   *)

(* One field. *)
LEMMA MeetsOne ==
  ASSUME NEW kind, NEW value, pos \in Nat, pos + 1 - 1 \in DOMAIN file,
         file[pos + 1 - 1] = Field(kind, value)
  PROVE  Follow(<<kind>>) /\ Value(1) = value
<1>1. file[pos + 1 - 1].kind = kind /\ file[pos + 1 - 1].value = value
  BY FieldParts
<1>2. Value(1) = value
  BY <1>1 DEF Value
<1>3. PICK kinds : kinds = <<kind>>
  OBVIOUS
<1>4. DOMAIN kinds = 1..1 /\ kinds[1] = kind
  BY <1>3
<1>5. \A i \in 1..1 : i = 1
  OBVIOUS
<1>6. \A i \in DOMAIN kinds : pos + i - 1 \in DOMAIN file /\ file[pos + i - 1].kind = kinds[i]
  BY <1>1, <1>4, <1>5
<1> QED BY <1>2, <1>3, <1>6 DEF Follow

(* Two. *)
LEMMA MeetsTwo ==
  ASSUME NEW first, NEW second, NEW a, NEW b,
         \A i \in 1..2 : pos + i - 1 \in DOMAIN file /\ file[pos + i - 1] = <<Field(first, a), Field(second, b)>>[i]
  PROVE  Follow(<<first, second>>) /\ Value(1) = a /\ Value(2) = b
<1>1. /\ pos + 1 - 1 \in DOMAIN file /\ file[pos + 1 - 1] = Field(first, a)
      /\ pos + 2 - 1 \in DOMAIN file /\ file[pos + 2 - 1] = Field(second, b)
  <2>1. 1 \in 1..2 /\ 2 \in 1..2
    OBVIOUS
  <2>2. \A x, y : <<x, y>>[1] = x /\ <<x, y>>[2] = y
    OBVIOUS
  <2> QED BY <2>1, <2>2
<1>2. /\ file[pos + 1 - 1].kind = first /\ file[pos + 1 - 1].value = a
      /\ file[pos + 2 - 1].kind = second /\ file[pos + 2 - 1].value = b
  BY <1>1, FieldParts
<1>3. Value(1) = a /\ Value(2) = b
  BY <1>2 DEF Value
<1>4. PICK kinds : kinds = <<first, second>>
  OBVIOUS
<1>5. DOMAIN kinds = 1..2 /\ kinds[1] = first /\ kinds[2] = second
  BY <1>4
<1>6. \A i \in 1..2 : i = 1 \/ i = 2
  OBVIOUS
<1>7. \A i \in DOMAIN kinds : pos + i - 1 \in DOMAIN file /\ file[pos + i - 1].kind = kinds[i]
  BY <1>1, <1>2, <1>5, <1>6
<1> QED BY <1>3, <1>4, <1>7 DEF Follow

(* Three. *)
LEMMA MeetsThree ==
  ASSUME NEW first, NEW second, NEW third, NEW a, NEW b, NEW c,
         \A i \in 1..3 : /\ pos + i - 1 \in DOMAIN file
                         /\ file[pos + i - 1] = <<Field(first, a), Field(second, b), Field(third, c)>>[i]
  PROVE  Follow(<<first, second, third>>) /\ Value(1) = a /\ Value(2) = b /\ Value(3) = c
<1>1. /\ pos + 1 - 1 \in DOMAIN file /\ file[pos + 1 - 1] = Field(first, a)
      /\ pos + 2 - 1 \in DOMAIN file /\ file[pos + 2 - 1] = Field(second, b)
      /\ pos + 3 - 1 \in DOMAIN file /\ file[pos + 3 - 1] = Field(third, c)
  <2>1. 1 \in 1..3 /\ 2 \in 1..3 /\ 3 \in 1..3
    OBVIOUS
  <2>2. \A x, y, z : <<x, y, z>>[1] = x /\ <<x, y, z>>[2] = y /\ <<x, y, z>>[3] = z
    OBVIOUS
  <2> QED BY <2>1, <2>2
<1>2. /\ file[pos + 1 - 1].kind = first /\ file[pos + 1 - 1].value = a
      /\ file[pos + 2 - 1].kind = second /\ file[pos + 2 - 1].value = b
      /\ file[pos + 3 - 1].kind = third /\ file[pos + 3 - 1].value = c
  BY <1>1, FieldParts
<1>3. Value(1) = a /\ Value(2) = b /\ Value(3) = c
  BY <1>2 DEF Value
<1>4. PICK kinds : kinds = <<first, second, third>>
  OBVIOUS
<1>5. DOMAIN kinds = 1..3 /\ kinds[1] = first /\ kinds[2] = second /\ kinds[3] = third
  BY <1>4
<1>6. \A i \in 1..3 : i = 1 \/ i = 2 \/ i = 3
  OBVIOUS
<1>7. \A i \in DOMAIN kinds : pos + i - 1 \in DOMAIN file /\ file[pos + i - 1].kind = kinds[i]
  BY <1>1, <1>2, <1>5, <1>6
<1> QED BY <1>3, <1>4, <1>7 DEF Follow

(* What is written for the reader's place is at its cursor: everything but *)
(* snapshots,                                                              *)
LEMMA ReaderMeets ==
  ASSUME CodecInv, stage = "reading", at.slot \in Slots
  PROVE  /\ at.part = FirstPart => /\ Follow(<<"indicator">>)
                                   /\ Value(1) = region[at.slot].present
         /\ IsSection(at) /\ at.delta = 0 => /\ Follow(<<"length">>)
                                             /\ Value(1) = Len(SnapshotsAt(at))
         /\ at.part = StatesPart => /\ Follow(<<"states">>)
                                    /\ Value(1) = region[at.slot].states
         /\ at.part = LastPart => /\ Follow(<<"tile_entities">>)
                                  /\ Value(1) = region[at.slot].tile_entities
<1>1. at \in Places /\ pos \in Nat /\ \E lists : Meets(lists)
  BY ReaderSees
<1>2. PICK lists : Meets(lists)
  BY <1>1
<1>3. ASSUME NEW kind, NEW value, ~IsSnapshot(at), FieldsAt(at, lists) = <<Field(kind, value)>>
      PROVE  Follow(<<kind>>) /\ Value(1) = value
  <2>1. Width(at) = 1
    BY <1>3 DEF Width
  <2>2. PICK field, fields : field = Field(kind, value) /\ fields = FieldsAt(at, lists)
    OBVIOUS
  <2>3. fields = <<field>>
    BY <1>3, <2>2
  <2>4. fields[1] = field
    BY <2>3
  <2>5. pos + 1 - 1 \in DOMAIN file /\ file[pos + 1 - 1] = fields[1]
    BY <1>2, <2>1, <2>2 DEF Meets
  <2> QED BY <1>1, <2>2, <2>4, <2>5, MeetsOne
<1>4. ASSUME at.part = FirstPart PROVE Follow(<<"indicator">>) /\ Value(1) = region[at.slot].present
  BY <1>1, <1>3, <1>4, PartCases DEF FieldsAt, IsSnapshot
<1>5. ASSUME IsSection(at), at.delta = 0 PROVE Follow(<<"length">>) /\ Value(1) = Len(SnapshotsAt(at))
  BY <1>1, <1>3, <1>5, PartCases DEF FieldsAt, IsSnapshot
<1>6. ASSUME at.part = StatesPart PROVE Follow(<<"states">>) /\ Value(1) = region[at.slot].states
  BY <1>1, <1>3, <1>6, PartCases DEF FieldsAt, IsSnapshot
<1>7. ASSUME at.part = LastPart PROVE Follow(<<"tile_entities">>) /\ Value(1) = region[at.slot].tile_entities
  BY <1>1, <1>3, <1>7, PartCases DEF FieldsAt, IsSnapshot
<1> QED BY <1>4, <1>5, <1>6, <1>7

(* and snapshots, however they are read. *)
LEMMA ReaderMeetsSnapshot ==
  ASSUME CodecInv, stage = "reading", at.slot \in Slots, IsSnapshot(at)
  PROVE  /\ SnapshotAt(at) \in Snapshots
         /\ KeptFollows /\ SkippedFollows /\ KeptResolves
         /\ Len(KeptKinds) = Width(at) /\ Len(SkippedKinds) = Width(at)
         /\ Value(1).single <=> SnapshotAt(at).palette = NoPalette
         /\ Value(2) = SnapshotAt(at).cells
         /\ KeptSnapshot = AsRead(SnapshotAt(at))
<1>1. /\ at \in Places /\ region \in Regions /\ HasContent(at) /\ pos \in Nat
      /\ \E lists : Meets(lists)
  BY ReaderSees
<1>2. PICK lists : Meets(lists)
  BY <1>1
<1>3. PICK snapshot \in Snapshots, domain \in Domains :
        snapshot = SnapshotAt(at) /\ domain = DomainOf(at.part)
  BY <1>1, SectionType DEF IsSnapshot
<1>4. PICK palette, timestamp, cells :
        /\ snapshot = [palette |-> palette, timestamp |-> timestamp, cells |-> cells]
        /\ palette \in Palettes \cup {DIRECT_PALETTE, NoPalette}
  BY DEF Snapshots
<1>5. snapshot.palette = palette /\ snapshot.timestamp = timestamp /\ snapshot.cells = cells
  BY <1>4
<1>6. PICK table \in Seq(Palettes) : table = lists[domain]
  BY <1>2, <1>3 DEF Meets, AreTables
<1>7. Table = AsTable(table)
  BY <1>2, <1>3, <1>6 DEF Meets, Table
<1>8. palette \in Palettes => palette \in Entries(table)
  BY <1>2, <1>3, <1>5, <1>6 DEF Meets, HasItsPalette
<1>9. FieldsAt(at, lists) = SnapshotFields(snapshot, table)
  BY <1>1, <1>3, <1>6, PartCases DEF FieldsAt, IsSnapshot
<1>10. Width(at) = SnapshotWidth(snapshot)
  BY <1>3 DEF Width
<1>11. PICK fields : fields = SnapshotFields(snapshot, table)
  OBVIOUS
<1>12. \A i \in 1..SnapshotWidth(snapshot) : pos + i - 1 \in DOMAIN file /\ file[pos + i - 1] = fields[i]
  BY <1>2, <1>9, <1>10, <1>11 DEF Meets
<1>13. NoPalette \notin Palettes /\ DIRECT_PALETTE \notin Palettes /\ DIRECT_PALETTE # NoPalette
  BY FormatOK DEF FormatOK
<1>14. AsRead(snapshot) =
         [palette |-> IF palette \in Palettes THEN ReadPalette(palette) ELSE palette,
          timestamp |-> timestamp, cells |-> cells]
  <2>1. PICK new : new = IF palette \in Palettes THEN ReadPalette(palette) ELSE palette
    OBVIOUS
  <2>2. PICK other : other = [snapshot EXCEPT !.palette = new]
    OBVIOUS
  <2>3. other = [palette |-> new, timestamp |-> timestamp, cells |-> cells]
    BY ONLY <1>4, <2>2
  <2> QED BY <1>5, <2>1, <2>2, <2>3 DEF AsRead
<1>15. CASE palette = NoPalette
  <2>1. PICK head : head = [timestamp |-> timestamp, single |-> TRUE]
    OBVIOUS
  <2>2. fields = <<Field("head", head), Field("atom", cells)>>
    BY <1>5, <1>11, <1>15, <2>1, SnapshotFieldsAre
  <2>3. SnapshotWidth(snapshot) = 2
    BY <1>5, <1>15 DEF SnapshotWidth
  <2>4. \A i \in 1..2 : pos + i - 1 \in DOMAIN file
                        /\ file[pos + i - 1] = <<Field("head", head), Field("atom", cells)>>[i]
    BY <1>12, <2>2, <2>3
  <2>5. Follow(<<"head", "atom">>) /\ Value(1) = head /\ Value(2) = cells
    BY <2>4, MeetsTwo
  <2>6. Value(1).single = TRUE /\ Value(1).timestamp = timestamp
    BY <2>1, <2>5
  <2>7. KeptKinds = <<"head", "atom">> /\ SkippedKinds = <<"head", "atom">>
    BY <2>6 DEF KeptKinds, SkippedKinds
  <2>8. Follow(<<"head">>)
    <3>1. pos + 1 - 1 \in DOMAIN file /\ file[pos + 1 - 1] = Field("head", head)
      <4>1. 1 \in 1..2 /\ \A x, y : <<x, y>>[1] = x
        OBVIOUS
      <4> QED BY <2>4, <4>1
    <3> QED BY <1>1, <3>1, MeetsOne
  <2>9. Len(<<"head", "atom">>) = 2
    OBVIOUS
  <2>10. KeptSnapshot = [palette |-> NoPalette, timestamp |-> timestamp, cells |-> cells]
    BY <2>5, <2>6 DEF KeptSnapshot
  <2>11. KeptResolves
    BY <2>6 DEF KeptResolves
  <2> QED BY <1>3, <1>5, <1>10, <1>13, <1>14, <1>15, <2>3, <2>5, <2>6, <2>7, <2>8, <2>9, <2>10, <2>11
          DEF KeptFollows, SkippedFollows
<1>16. CASE palette # NoPalette
  <2>1. PICK head, index :
          /\ head = [timestamp |-> timestamp, single |-> FALSE]
          /\ index = IF palette = DIRECT_PALETTE THEN <<>> ELSE <<IndexOf(palette, table)>>
    OBVIOUS
  <2>2. fields = <<Field("head", head), Field("words", cells), Field("index", index)>>
    BY <1>5, <1>11, <1>16, <2>1, SnapshotFieldsAre
  <2>3. SnapshotWidth(snapshot) = 3
    BY <1>5, <1>16 DEF SnapshotWidth
  <2>4. \A i \in 1..3 :
          /\ pos + i - 1 \in DOMAIN file
          /\ file[pos + i - 1] = <<Field("head", head), Field("words", cells), Field("index", index)>>[i]
    BY <1>12, <2>2, <2>3
  <2>5. Follow(<<"head", "words", "index">>) /\ Value(1) = head /\ Value(2) = cells /\ Value(3) = index
    BY <2>4, MeetsThree
  <2>6. Value(1).single = FALSE /\ Value(1).timestamp = timestamp
    BY <2>1, <2>5
  <2>7. KeptKinds = <<"head", "words", "index">> /\ SkippedKinds = <<"head", "words", "index">>
    BY <2>6 DEF KeptKinds, SkippedKinds
  <2>8. Follow(<<"head">>)
    <3>1. pos + 1 - 1 \in DOMAIN file /\ file[pos + 1 - 1] = Field("head", head)
      <4>1. 1 \in 1..3 /\ \A x, y, z : <<x, y, z>>[1] = x
        OBVIOUS
      <4> QED BY <2>4, <4>1
    <3> QED BY <1>1, <3>1, MeetsOne
  <2>9. Len(<<"head", "words", "index">>) = 3
    OBVIOUS
  <2>10. KeptResolves /\ KeptSnapshot = AsRead(snapshot)
    <3>1. CASE palette = DIRECT_PALETTE
      <4>1. index = <<>> /\ DOMAIN index = {}
        BY <2>1, <3>1
      <4>2. KeptSnapshot = [palette |-> DIRECT_PALETTE, timestamp |-> timestamp, cells |-> cells]
        BY <2>5, <2>6, <4>1 DEF KeptSnapshot
      <4> QED BY <1>13, <1>14, <2>5, <3>1, <4>1, <4>2 DEF KeptResolves
    <3>2. CASE palette # DIRECT_PALETTE
      <4>1. palette \in Palettes
        BY <1>4, <1>16, <3>2
      <4>2. PICK k \in Nat : k = IndexOf(palette, table) /\ k < Len(table) /\ table[k + 1] = palette
        BY <1>8, <4>1, IndexLeadsBack
      <4>3. index = <<k>>
        BY <2>1, <3>2, <4>2
      <4>4. DOMAIN index = 1..1 /\ index # <<>> /\ index[1] = k
        BY <4>3
      <4>5. PICK n, read_table : n \in Nat /\ n = Len(table) /\ read_table = AsTable(table)
        OBVIOUS
      <4>6. read_table = [i \in 1..n |-> ReadPalette(table[i])]
        BY <4>5 DEF AsTable
      <4>7. k + 1 \in 1..n
        BY <4>2, <4>5
      <4>8. Len(read_table) = n /\ read_table[k + 1] = ReadPalette(palette)
        <5>1. read_table[k + 1] = ReadPalette(table[k + 1])
          BY <4>6, <4>7
        <5>2. Len(read_table) = n
          <6>1. PICK S : S = {ReadPalette(table[i]) : i \in 1..n}
            OBVIOUS
          <6>2. read_table \in [1..n -> S]
            BY <4>6, <6>1
          <6> QED BY <4>5, <6>2
        <5> QED BY <4>2, <5>1, <5>2
      <4>9. KeptResolves
        <5>1. \A i \in 1..1 : i = 1
          OBVIOUS
        <5> QED BY <1>7, <2>5, <4>2, <4>4, <4>5, <4>8, <5>1 DEF KeptResolves
      <4>10. KeptSnapshot = [palette |-> ReadPalette(palette), timestamp |-> timestamp, cells |-> cells]
        BY <1>7, <2>5, <2>6, <4>4, <4>5, <4>8 DEF KeptSnapshot
      <4> QED BY <1>14, <4>1, <4>9, <4>10
    <3> QED BY <3>1, <3>2
  <2> QED BY <1>3, <1>5, <1>10, <1>16, <2>3, <2>5, <2>6, <2>7, <2>8, <2>9, <2>10 DEF KeptFollows, SkippedFollows
<1> QED BY <1>15, <1>16

-----------------------------------------------------------------------------
(* What is too long                                                        *)

(* A snapshot of the region is at a place of the walk. *)
LEMMA PlaceOfSection ==
  ASSUME region \in Regions, NEW slot \in Present, NEW domain \in Domains,
         NEW section \in 1..SectionCount,
         NEW k \in 0..Len(region[slot].sections[domain][section])
  PROVE  \E place \in Places :
           /\ HasContent(place) /\ Before(place, EndPlace) /\ IsSection(place)
           /\ DomainOf(place.part) = domain /\ place.delta = k
           /\ SnapshotsAt(place) = region[slot].sections[domain][section]
<1>1. slot \in Slots /\ region[slot].present /\ slot \in 1..SlotCount /\ SlotCount \in Nat
  BY Types DEF Present, Slots
<1>2. SectionCount \in Nat \ {0} /\ section \in Nat
  BY Types
<1>3. PICK part \in Nat : part = PartOf(domain, section)
  BY <1>2 DEF PartOf
<1>4. /\ part \in 1..(2 * SectionCount)
      /\ DomainOf(part) = domain /\ SectionOf(part) = section
  BY <1>2, <1>3 DEF PartOf, DomainOf, SectionOf, Domains
<1>5. PICK place : place = [slot |-> slot, part |-> part, delta |-> k]
  OBVIOUS
<1>6. place.slot = slot /\ place.part = part /\ place.delta = k
  BY <1>5
<1>7. Len(region[slot].sections[domain][section]) \in Nat
  <2>1. region[slot].sections \in [Domains -> [1..SectionCount -> Seq(Snapshots)]]
    BY <1>1, SlotType
  <2> QED BY <2>1
<1>8. k \in Nat /\ k <= Len(region[slot].sections[domain][section])
  BY <1>7
<1>9. place \in Places
  <2>1. slot \in 1..(SlotCount + 1) /\ part \in 0..LastPart
    BY <1>1, <1>2, <1>4 DEF LastPart
  <2> QED BY <1>5, <1>8, <2>1 DEF Places
<1>10. IsSection(place)
  BY <1>2, <1>4, <1>6 DEF IsSection, StatesPart
<1>11. SnapshotsAt(place) = region[slot].sections[domain][section]
  BY <1>4, <1>6 DEF SnapshotsAt
<1>12. HasContent(place)
  BY <1>1, <1>6, <1>8, <1>10, <1>11 DEF HasContent, IsVisited
<1>13. Before(place, EndPlace)
  BY <1>1, <1>6, Types DEF Before
<1> QED BY <1>4, <1>6, <1>9, <1>10, <1>11, <1>12, <1>13

(* The file's tables hold the region's palettes, each once. *)
LEMMA TablesHold ==
  ASSUME region \in Regions, NEW offset, NEW lists, IsFile(offset, lists), NEW domain \in Domains
  PROVE  Cardinality(PalettesOf(domain)) = Len(lists[domain])
<1>1. /\ AreTables(lists) /\ lists[domain] \in Seq(Palettes) /\ NoneTwice(lists[domain])
      /\ Entries(lists[domain]) \subseteq PalettesOf(domain)
      /\ IsLaidOut(offset, EndPlace, file, HeadLength(lists), lists)
  BY DEF IsFile, AreTables
<1>2. ASSUME NEW palette \in PalettesOf(domain) PROVE palette \in Entries(lists[domain])
  <2>1. /\ palette \in Palettes
        /\ palette \in UNION {{snapshot.palette : snapshot \in SnapshotsOf(region[slot], domain)} : slot \in Present}
    BY DEF PalettesOf
  <2>2. PICK slot \in Present : palette \in {snapshot.palette : snapshot \in SnapshotsOf(region[slot], domain)}
    BY <2>1
  <2>3. PICK snapshot \in SnapshotsOf(region[slot], domain) : palette = snapshot.palette
    BY <2>2
  <2>4. PICK snapshots \in SectionsOf(region[slot], domain) : snapshot \in {snapshots[k] : k \in DOMAIN snapshots}
    BY <2>3 DEF SnapshotsOf
  <2>5. PICK section \in 1..SectionCount : snapshots = region[slot].sections[domain][section]
    BY <2>4 DEF SectionsOf
  <2>6. snapshots \in Seq(Snapshots)
    <3>1. region[slot].sections \in [Domains -> [1..SectionCount -> Seq(Snapshots)]]
      BY SlotType DEF Present
    <3> QED BY <2>5, <3>1
  <2>7. PICK k \in 1..Len(snapshots) : snapshot = snapshots[k]
    BY <2>4, <2>6
  <2>8. k \in 0..Len(region[slot].sections[domain][section]) /\ k # 0
    BY <2>5, <2>6, <2>7
  <2>9. PICK place \in Places :
          /\ HasContent(place) /\ Before(place, EndPlace) /\ IsSection(place)
          /\ DomainOf(place.part) = domain /\ place.delta = k
          /\ SnapshotsAt(place) = region[slot].sections[domain][section]
    BY <2>8, PlaceOfSection
  <2>10. IsSnapshot(place) /\ SnapshotAt(place) = snapshot
    BY <2>5, <2>7, <2>8, <2>9 DEF IsSnapshot, SnapshotAt
  <2>11. HasItsPalette(place, lists)
    BY <1>1, <2>9 DEF IsLaidOut, Says
  <2> QED BY <2>1, <2>3, <2>9, <2>10, <2>11 DEF HasItsPalette
<1>3. PalettesOf(domain) = Entries(lists[domain])
  BY <1>1, <1>2
<1> QED BY <1>1, <1>3, TableLength

(* What does not fit at a place is too long. *)
LEMMA UnfitIsTooLong ==
  ASSUME region \in Regions, NEW place \in Places, HasContent(place), ~FitsAt(place)
  PROVE  IsBeyondLimits
<1>1. place.slot \in Slots /\ (place.part # FirstPart => region[place.slot].present)
  BY DEF HasContent, IsVisited
<1>2. {MAX_DELTA_LENGTH, MAX_PACKED_LENGTH, MAX_SEGMENT_STATES_LENGTH} \subseteq Nat
      /\ PackedLength \in [Cells -> Nat]
  BY FormatOK DEF FormatOK
<1>3. place.part # FirstPart /\ region[place.slot].present
  BY <1>1, PartCases DEF FitsAt, IsSnapshot
<1>4. PICK slot \in Present : slot = place.slot
  BY <1>1, <1>3 DEF Present
<1>5. CASE IsSection(place) /\ place.delta = 0 /\ ~(Len(SnapshotsAt(place)) <= MAX_DELTA_LENGTH)
  <2>1. PICK domain \in Domains, section \in 1..SectionCount :
          domain = DomainOf(place.part) /\ section = SectionOf(place.part)
    BY <1>5, SectionType
  <2>2. Len(SnapshotsAt(place)) > MAX_DELTA_LENGTH
    BY <1>2, <1>5, SectionType
  <2>3. SnapshotsAt(place) \in SectionsOf(region[slot], domain)
    BY <1>4, <2>1 DEF SectionsOf, SnapshotsAt
  <2> QED BY <2>2, <2>3 DEF IsBeyondLimits, IsTooLong
<1>6. CASE IsSnapshot(place) /\ ~SnapshotFits(SnapshotAt(place))
  <2>1. PICK domain \in Domains, section \in 1..SectionCount, snapshots \in Seq(Snapshots) :
          /\ domain = DomainOf(place.part) /\ section = SectionOf(place.part)
          /\ snapshots = SnapshotsAt(place)
    BY <1>6, SectionType DEF IsSnapshot
  <2>2. PICK snapshot \in Snapshots : snapshot = SnapshotAt(place)
    BY <1>6, SectionType DEF IsSnapshot
  <2>3. snapshot.palette # NoPalette /\ PackedLength[snapshot.cells] > MAX_PACKED_LENGTH
    <3>1. snapshot.cells \in Cells
      BY DEF Snapshots
    <3> QED BY <1>2, <1>6, <2>2, <3>1 DEF SnapshotFits
  <2>4. PICK k \in Nat : k = place.delta /\ k # 0 /\ k <= Len(snapshots)
    BY <1>6, <2>1, PlaceType DEF IsSnapshot, HasContent, IsVisited
  <2>5. k \in DOMAIN snapshots /\ snapshot = snapshots[k]
    BY <2>1, <2>2, <2>4 DEF SnapshotAt
  <2>6. snapshots \in SectionsOf(region[slot], domain)
    BY <1>4, <2>1 DEF SectionsOf, SnapshotsAt
  <2>7. snapshot \in SnapshotsOf(region[slot], domain)
    BY <2>5, <2>6 DEF SnapshotsOf
  <2> QED BY <2>3, <2>7 DEF IsBeyondLimits, IsTooLong
<1>7. CASE place.part = StatesPart /\ ~(Len(region[place.slot].states) <= MAX_SEGMENT_STATES_LENGTH)
  <2>1. PICK states \in Seq(StateTypes) : states = region[slot].states
    BY <1>1, <1>3, <1>4, SlotType
  <2>2. Len(states) > MAX_SEGMENT_STATES_LENGTH
    BY <1>2, <1>4, <1>7, <2>1
  <2> QED BY <2>1, <2>2 DEF IsBeyondLimits, IsTooLong
<1>8. CASE place.part = LastPart /\ ~ListsFit(region[place.slot].tile_entities)
  <2>1. PICK lists \in Seq(TileEntityLists) : lists = region[slot].tile_entities
    BY <1>1, <1>3, <1>4, SlotType
  <2>2. Len(lists) > MAX_DELTA_LENGTH \/ \E i \in DOMAIN lists : ~ListFits(lists[i])
    BY <1>2, <1>4, <1>8, <2>1 DEF ListsFit
  <2> QED BY <2>1, <2>2 DEF IsBeyondLimits, IsTooLong
<1> QED BY <1>5, <1>6, <1>7, <1>8 DEF FitsAt

(* What fits everywhere is not. *)
LEMMA FitIsWithin ==
  ASSUME region \in Regions, NEW offset, NEW lists, IsFile(offset, lists),
         \A domain \in Domains : TableIsWithin(lists[domain]),
         AllFitBefore(EndPlace)
  PROVE  ~IsBeyondLimits
<1>1. {MAX_DELTA_LENGTH, MAX_PACKED_LENGTH, MAX_SEGMENT_STATES_LENGTH, MAX_PALETTE_TABLE_LENGTH} \subseteq Nat
      /\ PackedLength \in [Cells -> Nat]
  BY FormatOK DEF FormatOK
<1>2. ASSUME NEW domain \in Domains PROVE ~(Cardinality(PalettesOf(domain)) > MAX_PALETTE_TABLE_LENGTH)
  <2>1. PICK table \in Seq(Palettes) : table = lists[domain]
    BY DEF IsFile, AreTables
  <2>2. Cardinality(PalettesOf(domain)) = Len(table) /\ Len(table) <= MAX_PALETTE_TABLE_LENGTH
    BY <2>1, TablesHold DEF TableIsWithin
  <2> QED BY <1>1, <2>2
<1>3. ASSUME NEW slot \in Present, IsTooLong(region[slot]) PROVE FALSE
  <2>1. slot \in Slots /\ region[slot].present /\ slot \in Nat /\ slot >= 1 /\ slot <= SlotCount /\ SlotCount \in Nat
    BY Types DEF Present, Slots
  <2>2. region[slot].sections \in [Domains -> [1..SectionCount -> Seq(Snapshots)]]
    BY <2>1, SlotType
  <2>3. CASE \E domain \in Domains : \E snapshots \in SectionsOf(region[slot], domain) :
               Len(snapshots) > MAX_DELTA_LENGTH
    <3>1. PICK domain \in Domains, section \in 1..SectionCount :
            Len(region[slot].sections[domain][section]) > MAX_DELTA_LENGTH
      BY <2>3 DEF SectionsOf
    <3>6. PICK snapshots \in Seq(Snapshots) : snapshots = region[slot].sections[domain][section]
      BY <2>2
    <3>2. PICK n \in Nat : n = Len(region[slot].sections[domain][section])
      BY <3>6
    <3>3. 0 \in 0..Len(region[slot].sections[domain][section])
      BY <3>2
    <3>4. PICK place \in Places :
            /\ HasContent(place) /\ Before(place, EndPlace) /\ IsSection(place)
            /\ DomainOf(place.part) = domain /\ place.delta = 0
            /\ SnapshotsAt(place) = region[slot].sections[domain][section]
      BY <3>3, PlaceOfSection
    <3>5. Len(SnapshotsAt(place)) <= MAX_DELTA_LENGTH
      BY <3>4 DEF AllFitBefore, FitsAt
    <3> QED BY <1>1, <3>1, <3>2, <3>4, <3>5
  <2>4. CASE \E domain \in Domains : \E snapshot \in SnapshotsOf(region[slot], domain) :
               snapshot.palette # NoPalette /\ PackedLength[snapshot.cells] > MAX_PACKED_LENGTH
    <3>0. PICK domain \in Domains : \E snapshot \in SnapshotsOf(region[slot], domain) :
            snapshot.palette # NoPalette /\ PackedLength[snapshot.cells] > MAX_PACKED_LENGTH
      BY <2>4
    <3>1. PICK snapshot \in SnapshotsOf(region[slot], domain) :
            snapshot.palette # NoPalette /\ PackedLength[snapshot.cells] > MAX_PACKED_LENGTH
      BY <3>0
    <3>2. PICK snapshots \in SectionsOf(region[slot], domain) : snapshot \in {snapshots[k] : k \in DOMAIN snapshots}
      BY <3>1 DEF SnapshotsOf
    <3>3. PICK section \in 1..SectionCount : snapshots = region[slot].sections[domain][section]
      BY <3>2 DEF SectionsOf
    <3>4. snapshots \in Seq(Snapshots)
      BY <2>2, <3>3
    <3>5. PICK k \in 1..Len(snapshots) : snapshot = snapshots[k]
      BY <3>2, <3>4
    <3>6. k \in 0..Len(region[slot].sections[domain][section]) /\ k # 0
      BY <3>3, <3>4, <3>5
    <3>7. PICK place \in Places :
            /\ HasContent(place) /\ Before(place, EndPlace) /\ IsSection(place)
            /\ DomainOf(place.part) = domain /\ place.delta = k
            /\ SnapshotsAt(place) = region[slot].sections[domain][section]
      BY <3>6, PlaceOfSection
    <3>8. IsSnapshot(place) /\ SnapshotAt(place) = snapshot
      BY <3>3, <3>5, <3>6, <3>7 DEF IsSnapshot, SnapshotAt
    <3>9. PackedLength[snapshot.cells] <= MAX_PACKED_LENGTH
      BY <3>1, <3>7, <3>8 DEF AllFitBefore, FitsAt, SnapshotFits
    <3>10. snapshot.cells \in Cells
      <4>1. snapshot \in Snapshots
        BY <3>4, <3>5
      <4> QED BY <4>1 DEF Snapshots
    <3> QED BY <1>1, <3>1, <3>9, <3>10
  <2>5. ASSUME NEW part \in {StatesPart, LastPart} PROVE
          \E place \in Places : HasContent(place) /\ Before(place, EndPlace) /\ place.part = part /\ place.slot = slot
    <3>1. PICK place : place = [slot |-> slot, part |-> part, delta |-> 0]
      OBVIOUS
    <3>2. place.slot = slot /\ place.part = part /\ place.delta = 0
      BY <3>1
    <3>3. place \in Places
      <4>1. slot \in 1..(SlotCount + 1) /\ part \in 0..LastPart
        BY <2>1, Types
      <4> QED BY <3>1, <4>1 DEF Places
    <3> QED BY <2>1, <3>2, <3>3, Types DEF HasContent, IsVisited, Before
  <2>6. CASE Len(region[slot].states) > MAX_SEGMENT_STATES_LENGTH
    <3>1. PICK place \in Places :
            HasContent(place) /\ Before(place, EndPlace) /\ place.part = StatesPart /\ place.slot = slot
      BY <2>5
    <3>2. PICK n \in Nat : n = Len(region[slot].states)
      BY <2>1, SlotType
    <3>3. n <= MAX_SEGMENT_STATES_LENGTH
      BY <3>1, <3>2 DEF AllFitBefore, FitsAt
    <3> QED BY <1>1, <2>6, <3>2, <3>3
  <2>7. CASE \/ Len(region[slot].tile_entities) > MAX_DELTA_LENGTH
             \/ \E i \in DOMAIN region[slot].tile_entities : ~ListFits(region[slot].tile_entities[i])
    <3>1. PICK place \in Places :
            HasContent(place) /\ Before(place, EndPlace) /\ place.part = LastPart /\ place.slot = slot
      BY <2>5
    <3>2. PICK n \in Nat : n = Len(region[slot].tile_entities)
      BY <2>1, SlotType
    <3>3. ListsFit(region[slot].tile_entities)
      BY <3>1 DEF AllFitBefore, FitsAt
    <3> QED BY <1>1, <2>7, <3>2, <3>3 DEF ListsFit
  <2> QED BY <1>3, <2>3, <2>4, <2>6, <2>7 DEF IsTooLong
<1> QED BY <1>2, <1>3 DEF IsBeyondLimits

(* All of it depends on the region alone. *)
LEMMA BeyondStill == ASSUME UNCHANGED region, IsBeyondLimits PROVE IsBeyondLimits'
  BY DEF IsBeyondLimits, PalettesOf, Present, IsTooLong, SectionsOf, SnapshotsOf, ListFits

-----------------------------------------------------------------------------
(* The reader's steps                                                      *)

(* Before the first place nothing is read, and before the end everything.  *)
LEMMA NothingAndEverything ==
  /\ ReadUpTo(FirstPlace) = [slot \in Slots |-> NoSegment]
  /\ ReadUpTo(EndPlace) = Limited
<1>1. \A slot \in Slots : slot \in Nat /\ slot >= 1 /\ slot < SlotCount + 1
  BY Types DEF Slots
<1>2. \A slot \in Slots : ReadOf(FirstPlace, slot) = NoSegment
  <2> TAKE slot \in Slots
  <2>1. 1 < slot \/ slot = 1
    BY <1>1
  <2> QED BY <2>1, Types DEF ReadOf
<1>3. \A slot \in Slots : ReadOf(EndPlace, slot) = Limited[slot]
  <2> TAKE slot \in Slots
  <2>1. slot < SlotCount + 1 /\ ~(SlotCount + 1 < slot) /\ slot # SlotCount + 1
    BY <1>1, Types
  <2>2. slot \notin Present => Limited[slot] = NoSegment
    BY DEF Limited
  <2> QED BY <2>1, <2>2, Types DEF ReadOf
<1>4. Limited = [slot \in Slots |-> Limited[slot]]
  BY DEF Limited
<1> QED BY <1>2, <1>3, <1>4 DEF ReadUpTo

(* The tables are read as they were written. *)
LEMMA TableIsRead ==
  ASSUME NEW table \in Seq(Palettes), pos \in Nat, IsTable(file, pos, table)
  PROVE  /\ TableFollows
         /\ Value(1) = Len(table)
         /\ [i \in 1..Len(table) |-> ReadPalette(file[pos + i].value)] = AsTable(table)
<1>1. PICK n \in Nat : n = Len(table)
  OBVIOUS
<1>2. /\ pos \in DOMAIN file
      /\ file[pos] = Field("table", n)
      /\ \A i \in 1..n : pos + i \in DOMAIN file /\ file[pos + i] = PaletteField(table[i])
  BY <1>1 DEF IsTable
<1>3. pos + 1 - 1 = pos
  OBVIOUS
<1>4. Follow(<<"table">>) /\ Value(1) = n
  <2>1. pos + 1 - 1 \in DOMAIN file /\ file[pos + 1 - 1] = Field("table", n)
    BY <1>2, <1>3
  <2> QED BY <2>1, MeetsOne
<1>5. \A i \in 1..n : file[pos + i].kind = "palette" /\ file[pos + i].value = table[i]
  <2> TAKE i \in 1..n
  <2>1. PICK field, palette : field = file[pos + i] /\ palette = table[i]
    OBVIOUS
  <2>2. field = PaletteField(palette)
    BY <1>2, <2>1
  <2>3. field.kind = "palette" /\ field.value = palette
    BY <2>2, FieldParts DEF PaletteField
  <2> QED BY <2>1, <2>3
<1>6. TableFollows
  BY <1>2, <1>4, <1>5 DEF TableFollows
<1>7. [i \in 1..n |-> ReadPalette(file[pos + i].value)] = [i \in 1..n |-> ReadPalette(table[i])]
  BY <1>5
<1> QED BY <1>1, <1>4, <1>6, <1>7 DEF AsTable

LEMMA ReadTableKeeps == ASSUME CodecInv, ReadTable PROVE ReaderPart'
<1>1. stage = "tables" /\ UNCHANGED <<region, at, body, file, max_deltas, delta_length, read>> /\ TableFits
  BY DEF ReadTable
<1>2. PICK offset, lists : IsFile(offset, lists) /\ ReaderIsAt(offset, lists)
  BY <1>1 DEF CodecInv, ReaderPart
<1>3. PICK blocks \in Seq(Palettes), biomes \in Seq(Palettes) :
        blocks = lists["block"] /\ biomes = lists["biome"]
  BY <1>2 DEF IsFile, AreTables, Domains
<1>4. PICK p \in Nat, q \in Nat : p = Len(blocks) /\ q = Len(biomes)
  OBVIOUS
<1>5. /\ lists \in [Domains -> Seq(Palettes)]
      /\ IsTable(file, 1, blocks) /\ IsTable(file, 2 + p, biomes)
      /\ IsLaidOut(offset, EndPlace, file, HeadLength(lists), lists)
  BY <1>2, <1>3, <1>4 DEF IsFile, AreTables
<1>6. /\ AtPlace /\ at = FirstPlace /\ read = [slot \in Slots |-> NoSegment]
      /\ tables = [domain \in Domains |-> tables[domain]]
      /\ \/ pos = 1
         \/ pos = 2 + p /\ tables["block"] = AsTable(blocks) /\ TableIsWithin(blocks)
  BY <1>1, <1>2, <1>3, <1>4 DEF ReaderIsAt, ReadsTables
<1>7. HeadLength(lists) = 2 + p + q
  BY <1>3, <1>4 DEF HeadLength
<1>8. IsFile(offset, lists)'
  BY <1>1, <1>2, FileStill
<1>9. AtPlace'
  BY <1>1, <1>6 DEF AtPlace, IsVisited, SnapshotsAt, IsSection
<1>10. PICK count, table : /\ count = Value(1)
                           /\ table = [i \in 1..count |-> ReadPalette(file[pos + i].value)]
  OBVIOUS
<1>11. /\ tables' = [tables EXCEPT ![IF pos = 1 THEN "block" ELSE "biome"] = table]
       /\ pos' = pos + 1 + count
       /\ stage' = IF pos = 1 THEN "tables" ELSE "reading"
       /\ count <= MAX_PALETTE_TABLE_LENGTH
  BY <1>10 DEF ReadTable, TableFits
<1>12. CASE pos = 1
  <2>1. count = p /\ table = AsTable(blocks) /\ TableIsWithin(blocks)
    BY <1>4, <1>5, <1>10, <1>11, <1>12, TableIsRead DEF TableIsWithin
  <2>2. tables' = [tables EXCEPT !["block"] = table] /\ pos' = 2 + p /\ stage' = "tables"
    BY <1>11, <1>12, <2>1
  <2>3. tables' = [domain \in Domains |-> tables'[domain]] /\ tables'["block"] = AsTable(blocks)
    BY <1>6, <2>1, <2>2 DEF Domains
  <2>4. (pos = 2 + Len(lists["block"]))'
    BY <1>3, <1>4, <2>2
  <2>5. (tables["block"] = AsTable(lists["block"]))'
    BY <1>3, <2>3 DEF AsTable, ReadPalette
  <2>6. TableIsWithin(lists["block"])'
    BY <1>3, <2>1 DEF TableIsWithin
  <2>7. (tables = [domain \in Domains |-> tables[domain]])'
    BY <2>3
  <2>8. (at = FirstPlace /\ read = [slot \in Slots |-> NoSegment])'
    BY <1>1, <1>6 DEF FirstPlace
  <2>9. ReadsTables(lists)'
    BY <2>4, <2>5, <2>6, <2>7, <2>8 DEF ReadsTables
  <2>10. ReaderIsAt(offset, lists)'
    BY <1>9, <2>2, <2>9 DEF ReaderIsAt
  <2> QED BY <1>8, <2>10 DEF ReaderPart
<1>13. CASE pos = 2 + p /\ tables["block"] = AsTable(blocks) /\ TableIsWithin(blocks)
  <2>1. count = q /\ table = AsTable(biomes) /\ TableIsWithin(biomes) /\ pos # 1
    BY <1>4, <1>5, <1>10, <1>11, <1>13, TableIsRead DEF TableIsWithin
  <2>2. /\ tables' = [tables EXCEPT !["biome"] = table] /\ pos' = (2 + p) + 1 + q
        /\ stage' = "reading"
    BY <1>11, <1>13, <2>1
  <2>3. tables' = [domain \in Domains |-> AsTable(lists[domain])]
    <3>1. \A domain \in Domains : tables'[domain] = AsTable(lists[domain])
      BY <1>3, <1>6, <1>13, <2>1, <2>2 DEF Domains
    <3>2. tables' = [domain \in Domains |-> tables'[domain]]
      BY <1>6, <2>2
    <3> QED BY <3>1, <3>2
  <2>4. pos' = HeadLength(lists) + offset[FirstPlace] + 1
    <3>1. offset[FirstPlace] = 0
      BY <1>5 DEF IsLaidOut
    <3> QED BY <1>4, <1>7, <2>2, <3>1
  <2>5. PICK first : first = FirstPlace
    OBVIOUS
  <2>6. (read = ReadUpTo(at))'
    <3>1. read = ReadUpTo(first)
      BY <1>6, <2>5, NothingAndEverything
    <3>2. ReadUpTo(first)' = ReadUpTo(first)
      BY <1>1, ReadStill
    <3> QED BY <1>1, <1>6, <2>5, <3>1, <3>2
  <2>7. AllFitBefore(at)'
    <3>1. AllFitBefore(first)
      BY <2>5, PlaceType, Types DEF AllFitBefore, Before
    <3>2. AllFitBefore(first)'
      BY <1>1, <3>1, FitStill
    <3> QED BY <1>1, <1>6, <2>5, <3>2
  <2>8. (IsSnapshot(at) => delta_length = Len(SnapshotsAt(at)))'
    <3>1. ~IsSnapshot(at)'
      BY <1>1, <1>6, Types DEF IsSnapshot, IsSection
    <3> QED BY <3>1
  <2>9. (\A domain \in Domains : TableIsWithin(lists[domain]))'
    BY <1>3, <1>13, <2>1 DEF TableIsWithin, Domains
  <2>10. (tables = [domain \in Domains |-> AsTable(lists[domain])])'
    BY <2>3 DEF AsTable, ReadPalette
  <2>11. (pos = HeadLength(lists) + offset[at] + 1)'
    BY <1>1, <1>6, <2>4 DEF HeadLength
  <2>12. ReadsRegion(offset, lists)'
    BY <2>6, <2>7, <2>8, <2>9, <2>10, <2>11 DEF ReadsRegion
  <2>13. ReaderIsAt(offset, lists)'
    BY <1>9, <2>2, <2>12 DEF ReaderIsAt
  <2> QED BY <1>8, <2>13 DEF ReaderPart
<1> QED BY <1>6, <1>12, <1>13

(* What the reader meets is too long for it where it does not fit. *)
LEMMA FitsMeans ==
  ASSUME CodecInv, stage = "reading", at.slot \in Slots
  PROVE  /\ IsSection(at) /\ at.delta = 0 => (LengthFits <=> FitsAt(at))
         /\ IsSnapshot(at) => (KeptFits <=> FitsAt(at)) /\ (SkippedFits <=> FitsAt(at))
         /\ at.part = StatesPart => (StatesFit <=> FitsAt(at))
         /\ at.part = LastPart => (TileEntitiesFit <=> FitsAt(at))
         /\ at.part = FirstPart => FitsAt(at)
<1>1. at \in Places
  BY ReaderSees
<1>2. ASSUME IsSection(at), at.delta = 0 PROVE LengthFits <=> FitsAt(at)
  BY <1>1, <1>2, ReaderMeets, PartCases DEF LengthFits, FitsAt, IsSnapshot
<1>3. ASSUME IsSnapshot(at) PROVE (KeptFits <=> FitsAt(at)) /\ (SkippedFits <=> FitsAt(at))
  <2>1. FitsAt(at) <=> SnapshotFits(SnapshotAt(at))
    BY <1>1, <1>3, PartCases DEF FitsAt, IsSnapshot
  <2>2. (Value(1).single <=> SnapshotAt(at).palette = NoPalette) /\ Value(2) = SnapshotAt(at).cells
    BY <1>3, ReaderMeetsSnapshot
  <2> QED BY <2>1, <2>2 DEF KeptFits, SkippedFits, SnapshotFits
<1>4. ASSUME at.part = StatesPart PROVE StatesFit <=> FitsAt(at)
  BY <1>1, <1>4, ReaderMeets, PartCases DEF StatesFit, FitsAt, IsSnapshot
<1>5. ASSUME at.part = LastPart PROVE TileEntitiesFit <=> FitsAt(at)
  BY <1>1, <1>5, ReaderMeets, PartCases DEF TileEntitiesFit, ListsFit, FitsAt, IsSnapshot
<1>6. ASSUME at.part = FirstPart PROVE FitsAt(at)
  BY <1>1, <1>6, PartCases DEF FitsAt, IsSnapshot
<1> QED BY <1>2, <1>3, <1>4, <1>5, <1>6

(* No snapshot comes after the last part of a slot, or a section's end. *)
LEMMA NextIsNoSnapshot ==
  ASSUME region \in Regions, AtPlace, at.slot \in Slots, ~IsSection(at)
  PROVE  ~IsSnapshot(After(at))
<1>1. ~HasMore(at)
  BY DEF HasMore
<1>2. After(at).delta = 0
  BY <1>1 DEF After
<1> QED BY <1>2 DEF IsSnapshot

LEMMA NextIsOfSection ==
  ASSUME region \in Regions, AtPlace, at.slot \in Slots, IsSection(at), IsSnapshot(After(at))
  PROVE  SnapshotsAt(After(at)) = SnapshotsAt(at)
<1>1. HasMore(at) /\ ~EndsSlot(at)
  <2>1. After(at).delta # 0
    BY DEF IsSnapshot
  <2> QED BY <2>1 DEF After
<1>2. After(at).slot = at.slot /\ After(at).part = at.part
  BY <1>1 DEF After
<1> QED BY <1>2 DEF SnapshotsAt

(* The indicator tells whether there is a segment. *)
LEMMA ReadIndicatorKeeps == ASSUME CodecInv, ReadIndicator PROVE ReaderPart'
<1>1. /\ stage = "reading" /\ at.slot \in Slots /\ at.part = FirstPart
      /\ pos' = pos + 1
      /\ UNCHANGED <<region, stage, tables, file, max_deltas>>
  BY DEF ReadIndicator, Reads, Take
<1>2. /\ region \in Regions /\ AtPlace /\ read = ReadUpTo(at) /\ ~IsSection(at)
  BY <1>1, ReaderSees, PartCases
<1>3. Value(1) = region[at.slot].present
  BY <1>1, ReaderMeets
<1>4. at' = After(at)
  BY <1>1, <1>2, <1>3, NextPlaces DEF ReadIndicator, Take
<1>5. read' = ReadUpTo(After(at))
  <2>1. CASE region[at.slot].present
    <3>1. read' = [read EXCEPT ![at.slot] = Blank]
      BY <1>3, <2>1 DEF ReadIndicator, Blank
    <3> QED BY <1>1, <1>2, <2>1, <3>1, ReadPresent
  <2>2. CASE ~region[at.slot].present
    <3>1. read' = read
      BY <1>3, <2>2 DEF ReadIndicator
    <3> QED BY <1>1, <1>2, <2>2, <3>1, ReadAbsent
  <2> QED BY <2>1, <2>2
<1>6. Width(at) = 1
  BY <1>2 DEF Width, IsSnapshot
<1> QED BY <1>1, <1>2, <1>4, <1>5, <1>6, FitsMeans, NextIsNoSnapshot, ReaderGoesOn

(* A section's length is kept for its snapshots. *)
LEMMA ReadLengthKeeps == ASSUME CodecInv, ReadLength PROVE ReaderPart'
<1>1. /\ stage = "reading" /\ at.slot \in Slots /\ IsSection(at) /\ at.delta = 0
      /\ LengthFits /\ delta_length' = Value(1)
      /\ pos' = pos + 1 /\ at' = NextDelta(Value(1)) /\ read' = read
      /\ UNCHANGED <<region, stage, tables, file, max_deltas>>
  BY DEF ReadLength, AtLength, Reads, Take
<1>2. region \in Regions /\ AtPlace /\ read = ReadUpTo(at) /\ max_deltas \in Nat
  BY <1>1, ReaderSees
<1>3. Value(1) = Len(SnapshotsAt(at))
  BY <1>1, ReaderMeets
<1>4. at' = After(at)
  BY <1>1, <1>2, <1>3, NextPlaces
<1>5. read' = ReadUpTo(After(at))
  BY <1>1, <1>2, ReadOfSkipped
<1>6. Width(at) = 1
  BY <1>1 DEF Width, IsSnapshot
<1>7. IsSnapshot(After(at)) => delta_length' = Len(SnapshotsAt(After(at)))
  BY <1>1, <1>2, <1>3, NextIsOfSection
<1>8. FitsAt(at)
  BY <1>1, FitsMeans
<1> QED BY <1>1, <1>4, <1>5, <1>6, <1>7, <1>8, ReaderGoesOn

(* A snapshot is kept, *)
LEMMA ReadSnapshotKeeps == ASSUME CodecInv, ReadSnapshot PROVE ReaderPart'
<1>1. /\ stage = "reading" /\ at.slot \in Slots /\ IsSnapshot(at) /\ IsSection(at)
      /\ max_deltas = 0 \/ at.delta <= max_deltas
      /\ KeptFits /\ delta_length' = delta_length
      /\ pos' = pos + Len(KeptKinds) /\ at' = NextDelta(delta_length)
      /\ read' = [read EXCEPT ![at.slot].sections[DomainOf(at.part)][SectionOf(at.part)] =
                    Append(@, KeptSnapshot)]
      /\ UNCHANGED <<region, stage, tables, file, max_deltas>>
  BY DEF ReadSnapshot, AtKept, Reads, Take, IsSnapshot
<1>2. /\ region \in Regions /\ AtPlace /\ read = ReadUpTo(at) /\ max_deltas \in Nat
      /\ delta_length = Len(SnapshotsAt(at))
  BY <1>1, ReaderSees
<1>3. at' = After(at)
  BY <1>1, <1>2, NextPlaces
<1>4. PICK snapshot : snapshot = KeptSnapshot /\ snapshot = AsRead(SnapshotAt(at))
  BY <1>1, ReaderMeetsSnapshot
<1>5. read' = ReadUpTo(After(at))
  <2>1. ReadUpTo(After(at)) =
           [ReadUpTo(at) EXCEPT
              ![at.slot].sections[DomainOf(at.part)][SectionOf(at.part)] = Append(@, snapshot)]
    BY <1>1, <1>2, <1>4, ReadOfKept
  <2> QED BY <1>1, <1>2, <1>4, <2>1
<1>6. Len(KeptKinds) = Width(at)
  BY <1>1, ReaderMeetsSnapshot
<1>7. IsSnapshot(After(at)) => delta_length' = Len(SnapshotsAt(After(at)))
  BY <1>1, <1>2, NextIsOfSection
<1>8. FitsAt(at)
  BY <1>1, FitsMeans
<1> QED BY <1>1, <1>3, <1>5, <1>6, <1>7, <1>8, ReaderGoesOn

(* or skipped. *)
LEMMA SkipSnapshotKeeps == ASSUME CodecInv, SkipSnapshot PROVE ReaderPart'
<1>1. /\ stage = "reading" /\ at.slot \in Slots /\ IsSnapshot(at) /\ IsSection(at)
      /\ max_deltas # 0 /\ at.delta > max_deltas
      /\ SkippedFits /\ delta_length' = delta_length
      /\ pos' = pos + Len(SkippedKinds) /\ at' = NextDelta(delta_length) /\ read' = read
      /\ UNCHANGED <<region, stage, tables, file, max_deltas>>
  BY DEF SkipSnapshot, AtSkipped, Reads, Take, IsSnapshot
<1>2. /\ region \in Regions /\ AtPlace /\ read = ReadUpTo(at) /\ max_deltas \in Nat
      /\ delta_length = Len(SnapshotsAt(at))
  BY <1>1, ReaderSees
<1>3. at' = After(at)
  BY <1>1, <1>2, NextPlaces
<1>4. read' = ReadUpTo(After(at))
  BY <1>1, <1>2, ReadOfSkipped
<1>5. Len(SkippedKinds) = Width(at)
  BY <1>1, ReaderMeetsSnapshot
<1>6. IsSnapshot(After(at)) => delta_length' = Len(SnapshotsAt(After(at)))
  BY <1>1, <1>2, NextIsOfSection
<1>7. FitsAt(at)
  BY <1>1, FitsMeans
<1> QED BY <1>1, <1>3, <1>4, <1>5, <1>6, <1>7, ReaderGoesOn

(* States are read. *)
LEMMA ReadStatesKeeps == ASSUME CodecInv, ReadStates PROVE ReaderPart'
<1>1. /\ stage = "reading" /\ at.slot \in Slots /\ at.part = StatesPart /\ StatesFit
      /\ read' = [read EXCEPT ![at.slot].states = Value(1)]
      /\ pos' = pos + 1 /\ at' = NextPart
      /\ UNCHANGED <<region, stage, tables, file, max_deltas>>
  BY DEF ReadStates, AtStates, Reads, Take
<1>2. region \in Regions /\ AtPlace /\ read = ReadUpTo(at) /\ ~IsSection(at)
  BY <1>1, ReaderSees, PartCases
<1>3. Value(1) = region[at.slot].states
  BY <1>1, ReaderMeets
<1>4. at' = After(at)
  BY <1>1, <1>2, NextPlaces
<1>5. read' = ReadUpTo(After(at))
  BY <1>1, <1>2, <1>3, ReadOfStates
<1>6. Width(at) = 1
  BY <1>2 DEF Width, IsSnapshot
<1>7. FitsAt(at)
  BY <1>1, FitsMeans
<1> QED BY <1>1, <1>2, <1>4, <1>5, <1>6, <1>7, NextIsNoSnapshot, ReaderGoesOn

(* Tile entities are read. *)
LEMMA ReadTileEntitiesKeeps == ASSUME CodecInv, ReadTileEntities PROVE ReaderPart'
<1>1. /\ stage = "reading" /\ at.slot \in Slots /\ at.part = LastPart /\ TileEntitiesFit
      /\ read' = [read EXCEPT ![at.slot].tile_entities = Value(1)]
      /\ pos' = pos + 1 /\ at' = NextSlot
      /\ UNCHANGED <<region, stage, tables, file, max_deltas>>
  BY DEF ReadTileEntities, AtTileEntities, Reads, Take
<1>2. region \in Regions /\ AtPlace /\ read = ReadUpTo(at) /\ ~IsSection(at)
  BY <1>1, ReaderSees, PartCases
<1>3. Value(1) = region[at.slot].tile_entities
  BY <1>1, ReaderMeets
<1>4. at' = After(at)
  BY <1>1, <1>2, NextPlaces
<1>5. read' = ReadUpTo(After(at))
  BY <1>1, <1>2, <1>3, ReadOfTileEntities
<1>6. Width(at) = 1
  BY <1>2 DEF Width, IsSnapshot
<1>7. FitsAt(at)
  BY <1>1, FitsMeans
<1> QED BY <1>1, <1>2, <1>4, <1>5, <1>6, <1>7, NextIsNoSnapshot, ReaderGoesOn

(* The reader refuses only what is beyond its limits. *)
LEMMA RefuseKeeps == ASSUME CodecInv, Refuse PROVE stage # "writing" /\ stage' = "failed" /\ RefusalPart'
<1>1. stage' = "failed" /\ UNCHANGED region
  BY DEF Refuse, Stop, RefuseTable, RefuseLength, RefuseSnapshot, RefuseSkipped, RefuseStates,
         RefuseTileEntities
<1>2. stage = "tables" \/ (stage = "reading" /\ at.slot \in Slots)
  BY DEF Refuse, RefuseTable, RefuseLength, RefuseSnapshot, RefuseSkipped, RefuseStates,
         RefuseTileEntities, AtLength, AtKept, AtSkipped, AtStates, AtTileEntities, Reads
<1>3. CASE RefuseTable
  <2>1. stage = "tables" /\ ~TableFits
    BY <1>3 DEF RefuseTable
  <2>2. PICK offset, lists : IsFile(offset, lists) /\ ReaderIsAt(offset, lists)
    BY <2>1 DEF CodecInv, ReaderPart
  <2>3. /\ lists \in [Domains -> Seq(Palettes)]
        /\ IsTable(file, 1, lists["block"]) /\ IsTable(file, 2 + Len(lists["block"]), lists["biome"])
        /\ pos = 1 \/ pos = 2 + Len(lists["block"])
    BY <2>1, <2>2 DEF IsFile, AreTables, ReaderIsAt, ReadsTables
  <2>4. PICK domain \in Domains : IsTable(file, pos, lists[domain])
    BY <2>3 DEF Domains
  <2>5. PICK table \in Seq(Palettes) : table = lists[domain]
    BY <2>3
  <2>6. pos \in Nat
    <3>1. PICK blocks \in Seq(Palettes) : blocks = lists["block"]
      BY <2>3 DEF Domains
    <3> QED BY <2>3, <3>1
  <2>7. Value(1) = Len(table)
    BY <2>4, <2>5, <2>6, TableIsRead
  <2>8. PICK n \in Nat : n = Len(table)
    OBVIOUS
  <2>9. MAX_PALETTE_TABLE_LENGTH \in Nat
    BY FormatOK DEF FormatOK
  <2>10. n > MAX_PALETTE_TABLE_LENGTH
    BY <2>1, <2>7, <2>8, <2>9 DEF TableFits
  <2>11. Cardinality(PalettesOf(domain)) = n
    BY <2>2, <2>5, <2>8, TablesHold DEF CodecInv, CodecType
  <2>12. IsBeyondLimits
    BY <2>10, <2>11 DEF IsBeyondLimits
  <2> QED BY <1>1, <2>1, <2>12, BeyondStill DEF RefusalPart
<1>4. CASE ~RefuseTable
  <2>1. stage = "reading" /\ at.slot \in Slots
    BY <1>4 DEF Refuse, RefuseLength, RefuseSnapshot, RefuseSkipped, RefuseStates,
         RefuseTileEntities, AtLength, AtKept, AtSkipped, AtStates, AtTileEntities, Reads
  <2>2. region \in Regions /\ at \in Places /\ HasContent(at)
    BY <2>1, ReaderSees
  <2>3. ~FitsAt(at)
    <3>1. CASE RefuseLength
      BY <2>1, <3>1, FitsMeans DEF RefuseLength, AtLength
    <3>2. CASE RefuseSnapshot
      BY <2>1, <3>2, FitsMeans DEF RefuseSnapshot, AtKept, IsSnapshot
    <3>3. CASE RefuseSkipped
      BY <2>1, <3>3, FitsMeans DEF RefuseSkipped, AtSkipped, IsSnapshot
    <3>4. CASE RefuseStates
      BY <2>1, <3>4, FitsMeans DEF RefuseStates, AtStates
    <3>5. CASE RefuseTileEntities
      BY <2>1, <3>5, FitsMeans DEF RefuseTileEntities, AtTileEntities
    <3> QED BY <1>4, <3>1, <3>2, <3>3, <3>4, <3>5 DEF Refuse
  <2>4. IsBeyondLimits
    BY <2>2, <2>3, UnfitIsTooLong
  <2> QED BY <1>1, <2>1, <2>4, BeyondStill DEF RefusalPart
<1> QED BY <1>3, <1>4

(* The reader stops where it is, or nothing happens. *)
LEMMA ReaderStays ==
  ASSUME CodecInv, stage # "writing",
         UNCHANGED <<region, at, tables, body, file, pos, max_deltas, delta_length, read>>,
         \/ stage' = stage
         \/ stage = "reading" /\ stage' = "done" /\ at = EndPlace
  PROVE  ReaderPart'
<1> SUFFICES ASSUME stage' \in {"tables", "reading", "done"} PROVE ReaderPart'
  BY DEF ReaderPart
<1>1. PICK offset, lists : IsFile(offset, lists) /\ ReaderIsAt(offset, lists)
  BY DEF CodecInv, ReaderPart
<1>2. IsFile(offset, lists)'
  BY <1>1, FileStill
<1>3. AtPlace'
  BY <1>1 DEF ReaderIsAt, AtPlace, IsVisited, SnapshotsAt, IsSection
<1>4. PICK place : place = at
  OBVIOUS
<1>5. /\ ReadUpTo(place)' = ReadUpTo(place)
      /\ AllFitBefore(place)' <=> AllFitBefore(place)
  BY ReadStill, FitStill
<1>6. ReadUpTo(at)' = ReadUpTo(at) /\ (AllFitBefore(at)' <=> AllFitBefore(at))
  BY <1>4, <1>5
<1>7. /\ stage' = "tables" => stage = "tables"
      /\ stage' \in {"reading", "done"} => stage \in {"reading", "done"}
      /\ stage' = "done" => stage = "done" \/ at = EndPlace
  OBVIOUS
<1>8. stage' = "tables" => ReadsTables(lists)'
  BY <1>1, <1>7 DEF ReaderIsAt, ReadsTables, AsTable, ReadPalette, TableIsWithin, FirstPlace
<1>9. stage' \in {"reading", "done"} => ReadsRegion(offset, lists)'
  <2> SUFFICES ASSUME stage' \in {"reading", "done"} PROVE ReadsRegion(offset, lists)'
    OBVIOUS
  <2>1. ReadsRegion(offset, lists)
    BY <1>1, <1>7 DEF ReaderIsAt
  <2>2. (IsSnapshot(at) => delta_length = Len(SnapshotsAt(at)))'
    BY <2>1 DEF ReadsRegion, IsSnapshot, IsSection, SnapshotsAt
  <2>3. (tables = [domain \in Domains |-> AsTable(lists[domain])])'
    BY <2>1 DEF ReadsRegion, AsTable, ReadPalette
  <2>4. (\A domain \in Domains : TableIsWithin(lists[domain]))'
    BY <2>1 DEF ReadsRegion, TableIsWithin
  <2>5. (pos = HeadLength(lists) + offset[at] + 1)'
    BY <2>1 DEF ReadsRegion, HeadLength
  <2>6. (read = ReadUpTo(at))' /\ AllFitBefore(at)'
    BY <1>6, <2>1 DEF ReadsRegion
  <2> QED BY <2>2, <2>3, <2>4, <2>5, <2>6 DEF ReadsRegion
<1>10. stage' = "done" => (at = EndPlace)'
  BY <1>1, <1>7 DEF ReaderIsAt, EndPlace
<1>11. ReaderIsAt(offset, lists)'
  BY <1>3, <1>8, <1>9, <1>10 DEF ReaderIsAt
<1> QED BY <1>2, <1>11 DEF ReaderPart

(* The reader is done at the end of the walk. *)
LEMMA FinishReadingKeeps == ASSUME CodecInv, FinishReading PROVE ReaderPart'
<1>1. /\ stage = "reading" /\ at.slot = SlotCount + 1 /\ stage' = "done"
      /\ UNCHANGED <<region, at, tables, body, file, pos, max_deltas, delta_length, read>>
  BY DEF FinishReading, Stop
<1>2. AtPlace /\ at \in Places /\ IsVisited(at)
  BY <1>1 DEF CodecInv, ReaderPart, ReaderIsAt, AtPlace
<1>3. at = EndPlace
  <2>1. at.part = FirstPart
    BY <1>1, <1>2, PlaceType DEF IsVisited
  <2>2. at.delta = 0
    BY <1>2, <2>1, PartCases DEF IsVisited
  <2>3. at = [slot |-> at.slot, part |-> at.part, delta |-> at.delta]
    BY <1>2, PlaceType
  <2> QED BY <1>1, <2>1, <2>2, <2>3 DEF EndPlace
<1> QED BY <1>1, <1>3, ReaderStays

(* Every step keeps the invariant. *)
LEMMA CodecStays == ASSUME CodecInv, [CodecNext]_codec_vars PROVE CodecInv'
<1>1. EveryPaletteIsWritten' /\ CodecType'
  <2>1. EveryPaletteIsWritten'
    BY DEF CodecInv, EveryPaletteIsWritten, IsWritten
  <2>2. UNCHANGED <<region, max_deltas>> /\ stage' \in Stages
    <3>1. CASE WriteStep
      BY <3>1 DEF WriteStep, WriteIndicator, WriteLength, WriteSnapshot, WriteStates,
                  WriteTileEntities, WriteFile, Writes, Write, Stages
    <3>2. CASE ReadStep
      BY <3>2 DEF ReadStep, ReadTable, ReadIndicator, ReadLength, ReadSnapshot, SkipSnapshot,
                  ReadStates, ReadTileEntities, FinishReading, AtLength, AtKept, AtSkipped, AtStates,
                  AtTileEntities, Reads, Take, Stop, Stages
    <3>3. CASE Refuse
      BY <3>3 DEF Refuse, RefuseTable, RefuseLength, RefuseSnapshot, RefuseSkipped, RefuseStates,
                  RefuseTileEntities, Stop, Stages
    <3>4. CASE UNCHANGED codec_vars
      BY <3>4 DEF codec_vars, CodecInv, CodecType
    <3> QED BY <3>1, <3>2, <3>3, <3>4 DEF CodecNext
  <2> QED BY <2>1, <2>2 DEF CodecInv, CodecType
<1>2. ASSUME WriterPart', stage' = "writing" PROVE CodecInv'
  BY <1>1, <1>2 DEF CodecInv, ReaderPart, RefusalPart
<1>3. ASSUME ReaderPart', stage' # "writing", stage' # "failed" PROVE CodecInv'
  BY <1>1, <1>3 DEF CodecInv, WriterPart, RefusalPart
<1>4. CASE WriteIndicator \/ WriteLength \/ WriteStates \/ WriteTileEntities
  <2>1. stage' = "writing"
    BY <1>4 DEF WriteIndicator, WriteLength, WriteStates, WriteTileEntities, Writes, Write
  <2> QED BY <1>2, <1>4, <2>1, WriteOthersKeeps
<1>5. CASE WriteSnapshot
  <2>1. stage' = "writing"
    BY <1>5 DEF WriteSnapshot, Writes, Write
  <2> QED BY <1>2, <1>5, <2>1, WriteSnapshotKeeps
<1>6. CASE WriteFile
  <2>1. stage' = "tables"
    BY <1>6 DEF WriteFile
  <2> QED BY <1>3, <1>6, <2>1, WriteFileKeeps
<1>7. CASE ReadTable
  <2>1. stage' \in {"tables", "reading"}
    BY <1>7 DEF ReadTable
  <2> QED BY <1>3, <1>7, <2>1, ReadTableKeeps
<1>8. CASE \/ ReadIndicator \/ ReadLength \/ ReadSnapshot \/ SkipSnapshot \/ ReadStates
           \/ ReadTileEntities
  <2>1. stage' = "reading"
    BY <1>8 DEF ReadIndicator, ReadLength, ReadSnapshot, SkipSnapshot, ReadStates,
                ReadTileEntities, AtLength, AtKept, AtSkipped, AtStates, AtTileEntities, Reads, Take
  <2> QED BY <1>3, <1>8, <2>1, ReadIndicatorKeeps, ReadLengthKeeps, ReadSnapshotKeeps,
             SkipSnapshotKeeps, ReadStatesKeeps, ReadTileEntitiesKeeps
<1>9. CASE FinishReading
  <2>1. stage' = "done"
    BY <1>9 DEF FinishReading, Stop
  <2> QED BY <1>3, <1>9, <2>1, FinishReadingKeeps
<1>10. CASE Refuse
  <2>1. stage' = "failed" /\ RefusalPart'
    BY <1>10, RefuseKeeps
  <2> QED BY <1>1, <2>1 DEF CodecInv, WriterPart, ReaderPart
<1>11. CASE UNCHANGED codec_vars
  <2>1. UNCHANGED <<region, stage, at, tables, body, file, pos, max_deltas, delta_length, read>>
    BY <1>11 DEF codec_vars
  <2>2. CASE stage = "writing"
    <3>1. /\ AtPlace /\ AreTables(tables) /\ body \in Seq(Fields) /\ pos = 1
          /\ read = [slot \in Slots |-> NoSegment]
          /\ \E offset : IsLaidOut(offset, at, body, 0, tables) /\ offset[at] = Len(body)
      BY <2>2 DEF CodecInv, WriterPart
    <3>2. PICK offset : IsLaidOut(offset, at, body, 0, tables) /\ offset[at] = Len(body)
      BY <3>1
    <3>3. PICK upto, text, lists : upto = at /\ text = body /\ lists = tables
      OBVIOUS
    <3>4. IsLaidOut(offset, upto, text, 0, lists)'
      BY <2>1, <3>2, <3>3, LaidOutStill
    <3>5. IsLaidOut(offset, at, body, 0, tables)' /\ (offset[at] = Len(body))'
      BY <2>1, <3>2, <3>3, <3>4
    <3>6. AtPlace'
      BY <2>1, <3>1 DEF AtPlace, IsVisited, SnapshotsAt, IsSection
    <3>7. AreTables(tables)'
      BY <2>1, <3>1, TablesStay
    <3>8. (body \in Seq(Fields) /\ pos = 1 /\ read = [slot \in Slots |-> NoSegment])'
      BY <2>1, <3>1
    <3>9. WriterPart'
      BY <3>5, <3>6, <3>7, <3>8 DEF WriterPart
    <3> QED BY <1>2, <2>1, <2>2, <3>9
  <2>3. CASE stage # "writing"
    <3>1. ReaderPart'
      BY <2>1, <2>3, ReaderStays
    <3>2. RefusalPart'
      BY <2>1, BeyondStill DEF CodecInv, RefusalPart
    <3> QED BY <1>1, <2>1, <2>3, <3>1, <3>2 DEF CodecInv, WriterPart
  <2> QED BY <2>2, <2>3
<1> QED BY <1>4, <1>5, <1>6, <1>7, <1>8, <1>9, <1>10, <1>11 DEF CodecNext, WriteStep, ReadStep

(* The reader takes no field for another. *)
LEMMA NothingIsMisread == CodecInv => ~Misreads
<1> SUFFICES ASSUME CodecInv PROVE ~Misreads
  OBVIOUS
<1>1. ASSUME stage = "tables" PROVE TableFollows
  <2>1. PICK offset, lists : IsFile(offset, lists) /\ ReaderIsAt(offset, lists)
    BY <1>1 DEF CodecInv, ReaderPart
  <2>2. PICK blocks \in Seq(Palettes), biomes \in Seq(Palettes) :
          blocks = lists["block"] /\ biomes = lists["biome"]
    BY <2>1 DEF IsFile, AreTables, Domains
  <2>3. IsTable(file, 1, blocks) /\ IsTable(file, 2 + Len(blocks), biomes)
    BY <2>1, <2>2 DEF IsFile
  <2>4. pos = 1 \/ pos = 2 + Len(blocks)
    BY <1>1, <2>1, <2>2 DEF ReaderIsAt, ReadsTables
  <2>5. pos \in Nat
    BY <2>4
  <2> QED BY <2>3, <2>4, <2>5, TableIsRead
<1>2. ASSUME stage = "reading", at.slot \in Slots
      PROVE  /\ at.part = FirstPart => Follow(<<"indicator">>)
             /\ IsSection(at) /\ at.delta = 0 => Follow(<<"length">>)
             /\ IsSection(at) /\ at.delta # 0 => KeptFollows /\ KeptResolves /\ SkippedFollows
             /\ at.part = StatesPart => StatesFollow
             /\ at.part = LastPart => Follow(<<"tile_entities">>)
  <2>1. ASSUME at.part = StatesPart PROVE StatesFollow
    <3>1. Follow(<<"states">>) /\ Value(1) = region[at.slot].states
      BY <1>2, <2>1, ReaderMeets
    <3>2. at \in Places /\ region \in Regions /\ HasContent(at)
      BY <1>2, ReaderSees
    <3>3. PICK states \in Seq(StateTypes) : states = region[at.slot].states
      BY <1>2, <2>1, <3>2, SlotType, PartCases DEF HasContent, IsVisited
    <3>4. \A i \in DOMAIN states : states[i] \in StateTypes
      OBVIOUS
    <3> QED BY <3>1, <3>3, <3>4 DEF StatesFollow
  <2> QED BY <1>2, <2>1, ReaderMeets, ReaderMeetsSnapshot DEF IsSnapshot
<1> QED BY <1>1, <1>2 DEF Misreads, Reads, AtLength, AtKept, AtSkipped, AtStates, AtTileEntities

(***************************************************************************)
(* If no palette is left out of the file, reading a written region yields  *)
(* it up to the limit, whatever the region, the palettes and the limit,    *)
(* and ends where the file ends.                                           *)
(***************************************************************************)
THEOREM WrittenRegionIsRead == EveryPaletteIsWritten /\ CodecSpec => []RoundTrip
<1>1. CodecInv /\ [CodecNext]_codec_vars => CodecInv'
  BY CodecStays
<1>2. CodecInv => RoundTrip
  <2> SUFFICES ASSUME CodecInv, stage = "done" PROVE read = Limited /\ pos = Len(file) + 1
    BY DEF RoundTrip
  <2>1. PICK offset, lists : IsFile(offset, lists) /\ ReaderIsAt(offset, lists)
    BY DEF CodecInv, ReaderPart
  <2> QED BY <2>1, NothingAndEverything DEF ReaderIsAt, ReadsRegion, IsFile
<1> QED BY <1>1, <1>2, CodecInitially, PTL DEF CodecSpec

(***************************************************************************)
(* And the reader takes no field for another, and refuses only a region    *)
(* with something longer than one of its limits: too many palettes, or a   *)
(* section, packed cells, states, or tile entities that are too long.      *)
(***************************************************************************)
THEOREM ReaderRefusesOnlyLimits == EveryPaletteIsWritten /\ CodecSpec => []OnlyLimitsAreRefused
<1>1. CodecInv /\ [CodecNext]_codec_vars => CodecInv'
  BY CodecStays
<1>2. CodecInv => OnlyLimitsAreRefused
  BY NothingIsMisread DEF CodecInv, RefusalPart, OnlyLimitsAreRefused
<1> QED BY <1>1, <1>2, CodecInitially, PTL DEF CodecSpec

(***************************************************************************)
(* And it accepts none that has something longer, in the snapshots it      *)
(* skips as little as in those it keeps.                                   *)
(***************************************************************************)
THEOREM ReaderAcceptsOnlyWithinLimits ==
  EveryPaletteIsWritten /\ CodecSpec => []AcceptedIsWithinLimits
<1>1. CodecInv /\ [CodecNext]_codec_vars => CodecInv'
  BY CodecStays
<1>2. CodecInv => AcceptedIsWithinLimits
  <2> SUFFICES ASSUME CodecInv, stage = "done" PROVE ~IsBeyondLimits
    BY DEF AcceptedIsWithinLimits
  <2>1. PICK offset, lists : IsFile(offset, lists) /\ ReaderIsAt(offset, lists)
    BY DEF CodecInv, ReaderPart
  <2>2. /\ region \in Regions /\ at = EndPlace /\ AllFitBefore(at)
        /\ \A domain \in Domains : TableIsWithin(lists[domain])
    BY <2>1 DEF CodecInv, CodecType, ReaderIsAt, ReadsRegion
  <2>3. AllFitBefore(EndPlace)
    BY <2>2
  <2> QED BY <2>1, <2>2, <2>3, FitIsWithin
<1> QED BY <1>1, <1>2, CodecInitially, PTL DEF CodecSpec

=============================================================================
