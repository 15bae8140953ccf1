---- MODULE CheckRunProofs ----
(* The laws of an invocation of check.py, for every number of invocations,   *)
(* every mixture of command lines and every way to fail or to be killed:     *)
(* what a score is about, what it is, and when there is none.                *)
EXTENDS CheckRun, FiniteSetTheorems, TLAPS

(* The steps of an invocation up to its comparison of relocations, the steps *)
(* that look at what the symbolizer wrote, and of these the ones that look   *)
(* at the relinked file.                                                     *)
Ungraded == {"strip", "keep_functions", "symbolize", "open_truth", "sanity",
             "link", "validate", "relocations"}
Relinked == {"validate", "relocations", "strip_truth", "strip_linked", "segments",
             "run_relinked"}
Judging == {"open_truth", "sanity", "link", "copy_part", "patch", "link_patched",
            "run_patched", "report", "diff"} \cup Relinked

-----------------------------------------------------------------------------
(* Whose output every file holds while it is looked at: all of them come     *)
(* from the file `symbolized`, and that one from the current invocation.     *)
FileInv ==
    /\ clock \in Nat /\ DOMAIN files = Names
    /\ \A n \in Names : files[n].mtime \in Nat

OriginInv ==
    /\ pc \in Ungraded => graded = {}
    /\ graded \subseteq {files["symbolized"].of}
    /\ pc \in Relinked => files["symbolized_elf"].of = files["symbolized"].of
    /\ pc = "segments" => files["symbolized_elf_strip"].of = files["symbolized"].of
    /\ pc \in {"patch", "link_patched"} => files["hax_part"].of = files["symbolized"].of
    /\ pc = "run_patched" => files["hax_part_elf"].of = files["symbolized"].of
    /\ pc \in Judging \cup {"done"} /\ args.mode = "check" /\ "no_output" \notin faults =>
            files["symbolized"].of = run

IInv == FileInv /\ OriginInv /\ StripAtLevel

LEMMA InitOrigin == Init => IInv
  BY DEF Init, IInv, FileInv, OriginInv, StripAtLevel, Names, Absent, Ungraded,
         Relinked, Judging

(* Every step of the checker, of its tools and of the user keeps it.         *)
LEMMA StepOrigin == ASSUME IInv, [Next]_vars PROVE IInv'
<1> USE DEF IInv, OriginInv, StripAtLevel, Goto, Abort, Fault, NoWrite, verdict,
            Ungraded, Relinked, Judging
<1>1. CASE Start
  BY <1>1 DEF Start, Final, FileInv
<1>2. CASE StripInput
  BY <1>2, RunsAssumption DEF Write, FileInv, Names, StripInput, AfterStrip
<1>3. CASE KeepFunctions
  BY <1>3, RunsAssumption DEF Write, FileInv, Names, KeepFunctions, AfterStrip
<1>4. CASE OpenTruth
  BY <1>4 DEF OpenTruth, FileInv
<1>5. CASE SanityRun
  BY <1>5 DEF SanityRun, FileInv
<1>6. CASE LinkSymbolized
  BY <1>6, RunsAssumption DEF Write, FileInv, Names, LinkSymbolized
<1>7. CASE Validate
  BY <1>7 DEF Validate, FileInv
<1>8. CASE CompareRelocations
  BY <1>8 DEF CompareRelocations, FileInv
<1>9. CASE StripTruth
  BY <1>9, RunsAssumption DEF Write, FileInv, Names, StripTruth
<1>10. CASE StripLinked
  BY <1>10, RunsAssumption DEF Write, FileInv, Names, StripLinked
<1>11. CASE CompareSegments
  BY <1>11 DEF CompareSegments, FileInv
<1>12. CASE RunRelinked
  BY <1>12 DEF RunRelinked, FileInv
<1>13. CASE CopyPart
  BY <1>13, RunsAssumption DEF Write, FileInv, Names, CopyPart
<1>14. CASE PatchSections
  BY <1>14, RunsAssumption DEF Write, FileInv, Names, PatchSections
<1>15. CASE LinkPatched
  BY <1>15, RunsAssumption DEF Write, FileInv, Names, LinkPatched, Halve
<1>16. CASE ReplaceFails
  BY <1>16 DEF ReplaceFails, Halve, FileInv
<1>17. CASE RunPatched
  BY <1>17 DEF RunPatched, Halve, FileInv
<1>18. CASE Report \/ ShowDiff
  BY <1>18 DEF Report, ShowDiff, FileInv
<1>19. CASE ToolFails
  BY <1>19 DEF ToolFails, FileInv
<1>20. CASE Symbolize
  BY <1>20, RunsAssumption DEF Write, FileInv, Names, Symbolize
<1>21. CASE Kill
  BY <1>21 DEF Kill, FileInv
<1>22. CASE UNCHANGED vars
  BY <1>22 DEF vars, FileInv
<1> QED
  BY <1>1, <1>2, <1>3, <1>4, <1>5, <1>6, <1>7, <1>8, <1>9, <1>10, <1>11, <1>12,
     <1>13, <1>14, <1>15, <1>16, <1>17, <1>18, <1>19, <1>20, <1>21, <1>22
     DEF Next, Checker

LEMMA Origin == Spec => []IInv
  BY InitOrigin, StepOrigin, PTL DEF Spec

(* The symbolizer always gets the binary stripped to the level the current   *)
(* command line names (check.py, strip before the symbolizer), whichever     *)
(* invocations were killed half-way before.                                  *)
THEOREM StripsToLevel == Spec => []StripAtLevel
  BY Origin, PTL DEF IInv

(* A score of `check` is about what the symbolizer wrote in this invocation, *)
(* if it wrote anything: no artefact left under the same name is graded.     *)
THEOREM ScoresAreFresh == Spec => []GradesThisRun
<1>1. IInv => GradesThisRun
  BY DEF IInv, OriginInv, GradesThisRun
<1> QED
  BY <1>1, Origin, PTL

(* The three steps of a score judge one and the same symbolization.          *)
THEOREM ScoresOneSubject == Spec => []OneSubject
<1>1. ASSUME OriginInv PROVE Cardinality(graded) <= 1
  <2>1. graded = {} \/ graded = {files["symbolized"].of}
    BY <1>1 DEF OriginInv
  <2>2. Cardinality({}) = 0 /\ Cardinality({files["symbolized"].of}) = 1
    BY FS_EmptySet, FS_Singleton
  <2> QED
    BY <2>1, <2>2
<1> QED
  BY <1>1, Origin, PTL DEF IInv, OneSubject

-----------------------------------------------------------------------------
(* With a clock that tells two writes apart, what is linked is newer than    *)
(* what it is linked from, so no link is rejected; and the score is at every *)
(* step what the faults met so far make of the relocation score.             *)
TimeInv ==
    /\ FileInv
    /\ \A n \in Names \ {"part"} : files[n].mtime < clock
    /\ pc = "validate" => files["symbolized"].mtime < files["symbolized_elf"].mtime

RelinkFault == faults \cap {"segments", "relinked_run"} # {}
PatchFault == faults \cap {"replacement", "interrupted"} # {}

(* The steps before the run of the relinked program, and those after it up   *)
(* to the run of the patched one.                                            *)
Relinking == Ungraded \cup {"strip_truth", "strip_linked", "segments"}
Patching == {"copy_part", "patch", "link_patched", "run_patched"}

ScoreInv ==
    /\ base \in BaseScores /\ base_score \in Int
    /\ pc \in Relinking => base_score = base /\ ~rebuild_fail /\ ~RelinkFault /\ ~PatchFault
    /\ pc = "run_relinked" => base_score = base /\ rebuild_fail = RelinkFault /\ ~PatchFault
    /\ pc \in Patching => base_score * (IF RelinkFault THEN 3 ELSE 1) = base /\ ~PatchFault
    /\ pc \in {"report", "diff"} => 
            base_score * (IF RelinkFault THEN 3 ELSE 1) * (IF PatchFault THEN 2 ELSE 1) = base
    /\ ScoreLaw

LEMMA InitScore == Init => TimeInv /\ ScoreInv
  BY DEF Init, TimeInv, FileInv, ScoreInv, ScoreLaw, BaseScores, FullScore, RelinkFault,
         PatchFault, Names, Absent, Relinking, Ungraded, Patching

LEMMA StepTime == ASSUME TimeInv, CoarseClock = FALSE, [Next]_vars PROVE TimeInv'
<1> USE DEF TimeInv, FileInv, Goto, Abort, NoWrite, Names
<1>1. CASE StripInput \/ KeepFunctions \/ StripTruth
  BY <1>1 DEF StripInput, KeepFunctions, StripTruth, AfterStrip, Write
<1>2. CASE LinkSymbolized \/ StripLinked
  BY <1>2 DEF LinkSymbolized, StripLinked, Write
<1>3. CASE CopyPart \/ PatchSections
  BY <1>3 DEF CopyPart, PatchSections, Write
<1>4. CASE LinkPatched
  BY <1>4 DEF LinkPatched, Write
<1>5. CASE Symbolize
  BY <1>5 DEF Symbolize, Write
<1>6. CASE Start
  BY <1>6 DEF Start, Final
<1>7. CASE OpenTruth \/ SanityRun \/ Validate
  BY <1>7 DEF OpenTruth, SanityRun, Validate
<1>8. CASE CompareRelocations \/ CompareSegments \/ RunRelinked \/ RunPatched
  BY <1>8 DEF CompareRelocations, CompareSegments, RunRelinked, RunPatched
<1>9. CASE ReplaceFails \/ Report \/ ShowDiff \/ ToolFails \/ Kill
  BY <1>9 DEF ReplaceFails, Report, ShowDiff, ToolFails, Kill
<1>10. CASE UNCHANGED vars
  BY <1>10 DEF vars
<1> QED
  BY <1>1, <1>2, <1>3, <1>4, <1>5, <1>6, <1>7, <1>8, <1>9, <1>10 DEF Next, Checker

(* Twelfths are divided by 3 and by 2 without a remainder. *)
LEMMA Thirds == \A s \in BaseScores : (s \div 3) * 3 = s
  BY DEF BaseScores, FullScore

LEMMA Halves ==
    ASSUME base \in BaseScores, base_score \in Int, Halve, base' = base,
           base_score * (IF RelinkFault THEN 3 ELSE 1) = base,
           RelinkFault' = RelinkFault, PatchFault'
    PROVE  /\ base_score' \in Int
           /\ base_score' * (IF RelinkFault' THEN 3 ELSE 1) * (IF PatchFault' THEN 2 ELSE 1) = base'
<1>1. base_score' = base_score \div 2
  BY DEF Halve
<1>2. (base_score \div 2) * 2 = base_score
  BY DEF BaseScores, FullScore
<1> QED
  BY <1>1, <1>2

LEMMA StepScore == ASSUME TimeInv, ScoreInv, CoarseClock = FALSE, [Next]_vars PROVE ScoreInv'
<1> USE DEF ScoreInv, ScoreLaw, BaseScores, FullScore, RelinkFault, PatchFault, Relinking,
            Ungraded, Patching, Goto, Abort, Fault, verdict
<1>1. CASE Start
  BY <1>1 DEF Start, Final
<1>2. CASE StripInput \/ KeepFunctions \/ StripTruth \/ StripLinked \/ LinkSymbolized
  BY <1>2 DEF StripInput, KeepFunctions, StripTruth, StripLinked, LinkSymbolized, AfterStrip
<1>3. CASE Symbolize
  BY <1>3 DEF Symbolize
<1>4. CASE OpenTruth \/ SanityRun \/ Validate
  BY <1>4 DEF OpenTruth, SanityRun, Validate
<1>5. CASE CompareRelocations
  BY <1>5 DEF CompareRelocations
<1>6. CASE CompareSegments
  BY <1>6 DEF CompareSegments
<1>7. CASE RunRelinked
  <2>1. PICK outcome \in Outcomes :
            IF outcome = "timeout"
            THEN /\ pc' = "aborted" /\ UNCHANGED <<rebuild_fail, base_score>>
            ELSE /\ rebuild_fail' = (rebuild_fail \/ Errors(outcome))
                 /\ base_score' = IF rebuild_fail' THEN base_score \div 3 ELSE base_score
                 /\ IF Errors(outcome) THEN faults' = faults \cup {"relinked_run"} ELSE UNCHANGED faults
                 /\ pc' = "copy_part"
    BY <1>7 DEF RunRelinked
  <2>2. pc = "run_relinked" /\ UNCHANGED base
    BY <1>7 DEF RunRelinked
  <2>3. CASE outcome = "timeout"
    BY <2>1, <2>2, <2>3
  <2>4. CASE outcome # "timeout"
    <3>1. rebuild_fail' = RelinkFault' /\ ~PatchFault' /\ pc' = "copy_part"
      BY <2>1, <2>2, <2>4
    <3>2. base \in Int /\ (base \div 3) \in Int /\ (base \div 3) * 3 = base
      BY Thirds
    <3>3. base_score' = IF RelinkFault' THEN base \div 3 ELSE base
      BY <2>1, <2>2, <2>4, <3>1
    <3> HIDE DEF RelinkFault, PatchFault, BaseScores, FullScore
    <3>4. base_score' \in Int /\ base_score' * (IF RelinkFault' THEN 3 ELSE 1) = base
      BY <3>2, <3>3
    <3> QED
      BY <2>2, <3>1, <3>4
  <2> QED
    BY <2>3, <2>4
<1>8. CASE CopyPart \/ PatchSections
  BY <1>8 DEF CopyPart, PatchSections
<1>9. CASE LinkPatched
  BY <1>9 DEF LinkPatched, TimeInv, Names
<1>10. CASE ReplaceFails
  <2>1. RelinkFault' = RelinkFault /\ PatchFault' /\ pc \in Patching /\ pc' = "report"
    BY <1>10 DEF ReplaceFails
  <2> QED
    BY <1>10, <2>1, Halves DEF ReplaceFails
<1>11. CASE RunPatched
  <2>1. CASE UNCHANGED <<base_score, faults>> \/ (pc' = "aborted" /\ UNCHANGED base_score)
    BY <1>11, <2>1 DEF RunPatched
  <2>2. CASE Halve /\ Fault("replacement") /\ pc' = "report"
    <3>1. RelinkFault' = RelinkFault /\ PatchFault' /\ base' = base
      BY <1>11, <2>2 DEF RunPatched
    <3>2. base_score * (IF RelinkFault THEN 3 ELSE 1) = base
      BY <1>11 DEF RunPatched
    <3>3. /\ base_score' \in Int
          /\ base_score' * (IF RelinkFault' THEN 3 ELSE 1) * (IF PatchFault' THEN 2 ELSE 1) = base'
      <4> HIDE DEF RelinkFault, PatchFault
      <4> QED
        BY <2>2, <3>1, <3>2, Halves
    <3> QED
      BY <2>2, <3>1, <3>3
  <2> QED
    BY <1>11, <2>1, <2>2 DEF RunPatched
<1>12. CASE Report \/ ShowDiff \/ ToolFails \/ Kill
  BY <1>12 DEF Report, ShowDiff, ToolFails, Kill, Final
<1>13. CASE UNCHANGED vars
  BY <1>13 DEF vars
<1> QED
  BY <1>1, <1>2, <1>3, <1>4, <1>5, <1>6, <1>7, <1>8, <1>9, <1>10, <1>11, <1>12, <1>13
     DEF Next, Checker

(* The final score: the relocation score, divided by 3 when relinking and by *)
(* 2 when replacing went wrong, once each and in no other case, whatever the *)
(* two steps meet and in whatever order earlier invocations ended.           *)
THEOREM ScoreIsLawful == ASSUME CoarseClock = FALSE PROVE Spec => []ScoreLaw
<1>1. TimeInv /\ ScoreInv /\ [Next]_vars => (TimeInv /\ ScoreInv)'
  BY StepTime, StepScore
<1>2. ScoreInv => ScoreLaw
  BY DEF ScoreInv
<1> QED
  BY InitScore, <1>1, <1>2, PTL DEF Spec

-----------------------------------------------------------------------------
(* Every abort finds a fault: of a tool, the symbolizer, a program or the    *)
(* user.  The symbolizer is only started by `check`.                         *)
AbortInv ==
    /\ pc \notin Final => args \in Invocations
    /\ pc = "symbolize" => args.mode = "check"
    /\ AbortsOnlyOnFault

(* Without --quiet (see the run check_run_quiet) and with a clock that tells *)
(* two writes apart, a check that is given up without a score had a reason   *)
(* outside the checker.                                                      *)
THEOREM AbortsHaveAReason ==
    ASSUME CoarseClock = FALSE, \A a \in Invocations : a.mode = "check" => a.verbose
    PROVE  Spec => []AbortsOnlyOnFault
<1>1. Init => AbortInv
  BY DEF Init, AbortInv, AbortsOnlyOnFault, Final
<1>2. ASSUME TimeInv, AbortInv, [Next]_vars PROVE AbortInv'
  <2> USE DEF AbortInv, AbortsOnlyOnFault, Final, Goto, Abort, Fault
  <2>1. CASE Start
    BY <1>2, <2>1 DEF Start
  <2>2. CASE StripInput \/ KeepFunctions
    BY <1>2, <2>2 DEF StripInput, KeepFunctions, AfterStrip
  <2>3. CASE Symbolize
    BY <1>2, <2>3 DEF Symbolize
  <2>4. CASE Validate
    BY <1>2, <2>4 DEF Validate, TimeInv
  <2>5. CASE OpenTruth \/ SanityRun \/ ToolFails \/ Kill
    BY <1>2, <2>5 DEF OpenTruth, SanityRun, ToolFails, Kill
  <2>6. CASE CompareRelocations \/ RunRelinked \/ RunPatched
    BY <1>2, <2>6 DEF CompareRelocations, RunRelinked, RunPatched
  <2>7. CASE LinkSymbolized \/ StripTruth \/ StripLinked \/ CompareSegments
    BY <1>2, <2>7 DEF LinkSymbolized, StripTruth, StripLinked, CompareSegments
  <2>8. CASE CopyPart \/ PatchSections \/ LinkPatched \/ ReplaceFails
    BY <1>2, <2>8 DEF CopyPart, PatchSections, LinkPatched, ReplaceFails
  <2>9. CASE Report \/ ShowDiff
    BY <1>2, <2>9 DEF Report, ShowDiff
  <2>10. CASE UNCHANGED vars
    BY <1>2, <2>10 DEF vars
  <2> QED
    BY <1>2, <2>1, <2>2, <2>3, <2>4, <2>5, <2>6, <2>7, <2>8, <2>9, <2>10 DEF Next, Checker
<1>3. Init => TimeInv
  BY InitScore
<1>4. TimeInv /\ [Next]_vars => TimeInv'
  BY StepTime
<1>5. TimeInv /\ AbortInv /\ [Next]_vars => AbortInv'
  BY <1>2
<1>6. AbortInv => AbortsOnlyOnFault
  BY DEF AbortInv
<1> QED
  BY <1>1, <1>3, <1>4, <1>5, <1>6, PTL DEF Spec
====
