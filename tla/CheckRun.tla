---- MODULE CheckRun ----
(* One invocation after another of check.py on a test directory: strip the   *)
(* test binary, run the symbolizer, and grade what it wrote in the three     *)
(* steps of TestSpec.score_symbolization.  All artefacts live under fixed    *)
(* names beside the test, survive the invocation and are there for the next  *)
(* one; an invocation may be interrupted or killed at any point.             *)
(*                                                                           *)
(* A file is its modification time, the invocation whose symbolizer produced *)
(* what it was made from (0 for the test's own binary) and, for a stripped   *)
(* file, the level.  Tools, the symbolizer and the executed programs may     *)
(* fail in every way their callers see; whatever goes wrong is recorded in   *)
(* `faults`, which only the properties read.                                 *)
EXTENDS Integers, FiniteSets

CONSTANTS
    MaxRuns,        \* bound: invocations of the checker
    Invocations,    \* command lines: subcommand (mode), --level and verbosity
    CoarseClock     \* two writes may get the same modification time

ASSUME RunsAssumption == MaxRuns \in Nat /\ CoarseClock \in BOOLEAN

VARIABLES
    run,                    \* number of the current invocation
    args,                   \* its mode, level and verbosity
    pc,                     \* the step it is about to take
    clock, files,           \* the file system
    base, rebuild_fail, replacement_fail, base_score,
    graded,                 \* whose output the steps have looked at
    reason,                 \* the exception that ended it
    faults                  \* what went wrong outside the checker

verdict == <<base, rebuild_fail, replacement_fail, base_score, graded>>
vars == <<run, args, pc, clock, files, verdict, reason, faults>>

(* Endings of file names, with _ for the dot: elf_strip is min.elf.strip.    *)
Names == {"elf", "part", "elf_strip", "symbolized", "symbolized_elf",
          "symbolized_elf_strip", "hax_part", "hax_part_elf"}
Absent == [mtime |-> 0, of |-> -1, level |-> "none"]
Final == {"done", "aborted"}

(* Scores are counted in twelfths, which /3 and /2 divide exactly. *)
FullScore == 12
BaseScores == {0, FullScore \div 2, FullScore}

(* min.elf has a .part beside it or not, from before or after it (a checkout *)
(* sets the times in any order).                                             *)
Init ==
    /\ run = 0 /\ pc = "done" /\ args = [mode |-> "none", level |-> "none", verbose |-> TRUE]
    /\ clock = 3
    /\ \E t \in {0, 1, 3} : files = [n \in Names |->
          CASE n = "elf" -> [mtime |-> 2, of |-> 0, level |-> "none"]
            [] n = "part" /\ t > 0 -> [mtime |-> t, of |-> 0, level |-> "none"]
            [] OTHER -> Absent]
    /\ base = 0 /\ rebuild_fail = FALSE /\ replacement_fail = FALSE /\ base_score = 0
    /\ graded = {} /\ reason = "none" /\ faults = {}

Start ==
    /\ pc \in Final /\ run < MaxRuns
    /\ run' = run + 1
    /\ args' \in Invocations
    /\ pc' = IF args'.mode = "check-symbolization" THEN "open_truth" ELSE "strip"
    /\ base' = 0 /\ rebuild_fail' = FALSE /\ replacement_fail' = FALSE /\ base_score' = 0
    /\ graded' = {} /\ reason' = "none" /\ faults' = {}
    /\ UNCHANGED <<clock, files>>

-----------------------------------------------------------------------------
Goto(p) == pc' = p /\ UNCHANGED <<run, args, reason>>
Abort(why) == pc' = "aborted" /\ reason' = why /\ UNCHANGED <<run, args>>
Fault(f) == faults' = faults \cup {f}

(* A write stamps the file with the clock, which moves on before the next    *)
(* write, unless it is too coarse to.                                        *)
Write(n, of, level) ==
    /\ files' = [files EXCEPT ![n] = [mtime |-> clock, of |-> of, level |-> level]]
    /\ clock' \in IF CoarseClock THEN {clock, clock + 1} ELSE {clock + 1}

NoWrite == UNCHANGED <<clock, files>>

(* Any objcopy, link or readelf may fail: CalledProcessError.  Inside        *)
(* replace_and_link it is caught, see ReplaceFails.                          *)
ToolFails ==
    /\ pc \in {"strip", "keep_functions", "link", "strip_truth", "strip_linked", "diff"}
    /\ Abort("CalledProcessError") /\ Fault("tool")
    /\ NoWrite /\ UNCHANGED verdict

(* The subcommand strip is this step alone, given the names `check` uses.    *)
AfterStrip == IF args.mode = "check" THEN "symbolize" ELSE "done"

(* Mutant: an existing stripped file is taken as it is. *)
StripInputCached ==
    /\ pc = "strip"
    /\ IF files["elf_strip"] # Absent THEN Goto(AfterStrip) /\ NoWrite
       ELSE Goto(AfterStrip) /\ Write("elf_strip", 0, args.level)
    /\ UNCHANGED <<verdict, faults>>

(* strip_elf_exec_to_level: the level function_symbols takes two passes over *)
(* the same output file.                                                     *)
StripInput ==
    /\ pc = "strip"
    /\ IF args.level = "function_symbols"
       THEN Goto("keep_functions") /\ Write("elf_strip", 0, "symbols")
       ELSE Goto(AfterStrip) /\ Write("elf_strip", 0, args.level)
    /\ UNCHANGED <<verdict, faults>>

KeepFunctions ==
    /\ pc = "keep_functions"
    /\ Goto(AfterStrip) /\ Write("elf_strip", 0, args.level)
    /\ UNCHANGED <<verdict, faults>>

(* The symbolizer may write its output or not, and exit with 0 or not.  The  *)
(* traced check_call of check.py is the wrapper imported at start-up: after  *)
(* untrace_commands it finds no __wrapped__ to call (primitives.py:55-66).   *)
Symbolize ==
    /\ pc = "symbolize"
    /\ IF ~args.verbose
       THEN Abort("AttributeError") /\ NoWrite /\ UNCHANGED faults
       ELSE \E wrote, ok \in BOOLEAN :
          /\ IF wrote THEN Write("symbolized", run, "none") ELSE NoWrite
          /\ IF ok THEN Goto("open_truth") ELSE Abort("CalledProcessError")
          /\ faults' = faults \cup (IF wrote THEN {} ELSE {"no_output"})
                              \cup (IF ok THEN {} ELSE {"symbolizer"})
    /\ UNCHANGED verdict

(* A test directory names its binary; a bare binary brings its .part, and    *)
(* BinFile.validate wants the .part to be older.                             *)
OpenTruth ==
    /\ pc = "open_truth"
    /\ IF args.mode = "check" \/ files["part"] = Absent
             \/ files["part"].mtime < files["elf"].mtime
       THEN Goto("sanity") /\ UNCHANGED faults
       ELSE Abort("AssertionError") /\ Fault("truth")
    /\ NoWrite /\ UNCHANGED verdict

Outcomes == {"ok", "wrong", "timeout"}

(* RunSpec.compare_output: the generic test of check-symbolization expects   *)
(* no particular exit code of the unmodified program.                        *)
Errors(outcome) == outcome = "wrong" /\ args.mode = "check"

SanityRun ==
    /\ pc = "sanity"
    /\ \E outcome \in Outcomes :
          IF outcome = "timeout" THEN Abort("TimeoutExpired") /\ Fault("truth")
          ELSE IF Errors(outcome) THEN Abort("AssertionError") /\ Fault("truth")
          ELSE Goto("link") /\ UNCHANGED faults
    /\ NoWrite /\ UNCHANGED verdict

-----------------------------------------------------------------------------
(* BinFile.from_relocatable(symbolized): link, then validate. *)

LinkSymbolized ==
    /\ pc = "link" /\ files["symbolized"] # Absent
    /\ Goto("validate")
    /\ Write("symbolized_elf", files["symbolized"].of, "none")
    /\ UNCHANGED <<verdict, faults>>

(* Mutant: the comparison of the two times is turned around. *)
ValidateTurned ==
    /\ pc = "validate"
    /\ IF files["symbolized"].mtime > files["symbolized_elf"].mtime
       THEN Goto("relocations") ELSE Abort("AssertionError")
    /\ NoWrite /\ UNCHANGED <<verdict, faults>>

Validate ==
    /\ pc = "validate"
    /\ IF files["symbolized"].mtime < files["symbolized_elf"].mtime
       THEN Goto("relocations") ELSE Abort("AssertionError")
    /\ NoWrite /\ UNCHANGED <<verdict, faults>>

(* compare_relocations: a score, or one of its exceptions; ValueError alone  *)
(* is caught and scores 0.                                                   *)
CompareRelocations ==
    /\ pc = "relocations"
    /\ \/ /\ \E s \in BaseScores : base' = s /\ base_score' = s
          /\ Goto("strip_truth") /\ UNCHANGED faults
       \/ /\ base' = 0 /\ base_score' = 0
          /\ Goto("strip_truth") /\ Fault("names")
       \/ /\ Abort("uncaught") /\ Fault("relocations")
          /\ UNCHANGED <<base, base_score>>
    /\ graded' = graded \cup {files["symbolized"].of}
    /\ NoWrite /\ UNCHANGED <<rebuild_fail, replacement_fail>>

(* compare_segments strips both files on first use; the truth's stripped     *)
(* file has the name of the symbolizer's input.                              *)
StripTruth ==
    /\ pc = "strip_truth"
    /\ Goto("strip_linked") /\ Write("elf_strip", 0, "strip")
    /\ UNCHANGED <<verdict, faults>>

(* Mutant: a stripped file left by an earlier invocation is taken as it is.  *)
StripLinkedOnce ==
    /\ pc = "strip_linked"
    /\ Goto("segments")
    /\ IF files["symbolized_elf_strip"] # Absent THEN NoWrite
       ELSE Write("symbolized_elf_strip", files["symbolized_elf"].of, "strip")
    /\ UNCHANGED <<verdict, faults>>

StripLinked ==
    /\ pc = "strip_linked"
    /\ Goto("segments")
    /\ Write("symbolized_elf_strip", files["symbolized_elf"].of, "strip")
    /\ UNCHANGED <<verdict, faults>>

CompareSegments ==
    /\ pc = "segments"
    /\ rebuild_fail' \in BOOLEAN
    /\ IF rebuild_fail' THEN Fault("segments") ELSE UNCHANGED faults
    /\ Goto("run_relinked")
    /\ graded' = graded \cup {files["symbolized_elf_strip"].of}
    /\ NoWrite /\ UNCHANGED <<base, replacement_fail, base_score>>

(* Mutant: the program is run without a time limit. *)
RunRelinkedUnlimited ==
    /\ pc = "run_relinked"
    /\ \E outcome \in Outcomes :
          /\ Goto(IF outcome = "timeout" THEN "hanging" ELSE "copy_part")
          /\ UNCHANGED <<rebuild_fail, base_score, faults>>
    /\ NoWrite /\ UNCHANGED <<base, replacement_fail, graded>>

RunRelinked ==
    /\ pc = "run_relinked"
    /\ \E outcome \in Outcomes :
          IF outcome = "timeout"
          THEN /\ Abort("TimeoutExpired") /\ Fault("relinked_run")
               /\ UNCHANGED <<rebuild_fail, base_score>>
          ELSE /\ rebuild_fail' = (rebuild_fail \/ Errors(outcome))
               /\ base_score' = IF rebuild_fail' THEN base_score \div 3 ELSE base_score
               /\ IF Errors(outcome) THEN Fault("relinked_run") ELSE UNCHANGED faults
               /\ Goto("copy_part")
    /\ graded' = graded \cup {files["symbolized_elf"].of}
    /\ NoWrite /\ UNCHANGED <<base, replacement_fail>>

-----------------------------------------------------------------------------
(* ReplacementSpec.replace_and_link and the run of the patched program.      *)

Halve == replacement_fail' = TRUE /\ base_score' = base_score \div 2

(* Mutant: the copy is made only if there is none. *)
CopyPartOnce ==
    /\ pc = "copy_part"
    /\ Goto("patch")
    /\ IF files["hax_part"] # Absent THEN NoWrite
       ELSE Write("hax_part", files["symbolized"].of, "none")
    /\ UNCHANGED <<verdict, faults>>

CopyPart ==
    /\ pc = "copy_part"
    /\ Goto("patch")
    /\ Write("hax_part", files["symbolized"].of, "none")
    /\ UNCHANGED <<verdict, faults>>

(* modify_inplace rewrites the copy section by section. *)
PatchSections ==
    /\ pc = "patch"
    /\ Goto("link_patched")
    /\ Write("hax_part", files["hax_part"].of, "none")
    /\ UNCHANGED <<verdict, faults>>

(* BinFile.from_relocatable again, but its assertion is caught here. *)
LinkPatched ==
    /\ pc = "link_patched"
    /\ Write("hax_part_elf", files["hax_part"].of, "none")
    /\ IF files["hax_part"].mtime < clock
       THEN Goto("run_patched") /\ UNCHANGED verdict
       ELSE Goto("report") /\ Halve /\ UNCHANGED <<base, rebuild_fail, graded>>
    /\ UNCHANGED faults

(* Mutant: the handler forgets to report the failure. *)
ReplaceFailsForgiven ==
    /\ pc \in {"copy_part", "patch", "link_patched"}
    /\ Goto("report")
    /\ faults' \in {faults \cup {"replacement"}, faults \cup {"interrupted"}}
    /\ NoWrite /\ UNCHANGED verdict

(* The bare except around replace_and_link: a missing section, a failing     *)
(* tool, and a Ctrl-C alike.                                                 *)
ReplaceFails ==
    /\ pc \in {"copy_part", "patch", "link_patched"}
    /\ Goto("report") /\ Halve
    /\ faults' \in {faults \cup {"replacement"}, faults \cup {"interrupted"}}
    /\ NoWrite /\ UNCHANGED <<base, rebuild_fail, graded>>

(* The run itself is outside the try.                                        *)
RunPatched ==
    /\ pc = "run_patched"
    /\ \E outcome \in Outcomes :
          IF outcome = "timeout"
          THEN /\ Abort("TimeoutExpired") /\ Fault("replacement")
               /\ UNCHANGED <<replacement_fail, base_score>>
          ELSE /\ Goto("report")
               /\ IF outcome = "wrong" THEN Halve /\ Fault("replacement")
                  ELSE UNCHANGED <<replacement_fail, base_score, faults>>
    /\ graded' = graded \cup {files["hax_part_elf"].of}
    /\ NoWrite /\ UNCHANGED <<base, rebuild_fail>>

(* The verbose diffs come before the line with the final score.              *)
Report ==
    /\ pc = "report"
    /\ Goto(IF args.verbose THEN "diff" ELSE "done")
    /\ NoWrite /\ UNCHANGED <<verdict, faults>>

ShowDiff ==
    /\ pc = "diff"
    /\ Goto("done")
    /\ NoWrite /\ UNCHANGED <<verdict, faults>>

(* Ctrl-C outside replace_and_link, or a kill anywhere.                      *)
Kill ==
    /\ pc \notin Final
    /\ Abort("killed") /\ Fault("killed")
    /\ NoWrite /\ UNCHANGED verdict

-----------------------------------------------------------------------------
Checker ==
    \/ StripInput \/ KeepFunctions \/ OpenTruth \/ SanityRun
    \/ LinkSymbolized \/ Validate \/ CompareRelocations
    \/ StripTruth \/ StripLinked \/ CompareSegments \/ RunRelinked
    \/ CopyPart \/ PatchSections \/ LinkPatched \/ ReplaceFails \/ RunPatched
    \/ Report \/ ShowDiff \/ ToolFails

Next == Start \/ Checker \/ Symbolize \/ Kill

(* The checker's own steps are taken: its tools end and the programs it runs *)
(* have a time limit of 10 seconds.  Nothing bounds the symbolizer.          *)
Spec == Init /\ [][Next]_vars /\ WF_vars(Checker)

-----------------------------------------------------------------------------
(* A score of `check` is about what the symbolizer wrote in this invocation, *)
(* provided it wrote anything: no file left by an earlier run, killed or     *)
(* graded, is ever looked at.                                                *)
GradesThisRun ==
    pc = "done" /\ args.mode = "check" /\ "no_output" \notin faults =>
        graded \subseteq {run}

(* All three steps of a score judge one and the same symbolization, even if  *)
(* it is a stale one: the relinked and the patched program come from the     *)
(* file whose relocations were compared.                                     *)
OneSubject ==
    pc = "done" => Cardinality(graded) <= 1

(* The symbolizer is given the binary stripped to the requested level,       *)
(* although grading strips the truth to another level under the same name,   *)
(* and an earlier invocation may have died between the two passes.           *)
StripAtLevel ==
    pc = "symbolize" => files["elf_strip"].level = args.level

(* The final score is the relocation score, divided by 3 iff relinking       *)
(* changed segments or behaviour, and by 2 iff the replacement went wrong.   *)
ScoreLaw ==
    pc = "done" =>
        LET relink == faults \cap {"segments", "relinked_run"} # {}
            patch  == faults \cap {"replacement", "interrupted"} # {}
        IN  base_score * (IF relink THEN 3 ELSE 1) * (IF patch THEN 2 ELSE 1) = base

(* A check is given up without a score only if something went wrong outside  *)
(* the checker: a tool, the symbolizer, a program or the user.               *)
AbortsOnlyOnFault == pc = "aborted" => faults # {}

(* Once the symbolizer has ended, the check ends: whatever the programs do,  *)
(* nothing of the grading waits for ever.                                    *)
GradingEnds == pc = "open_truth" ~> pc \in Final

(* statement/index.rst:280: an error in step 3 divides the score by 2; so    *)
(* does one in step 2 by 3 (index.rst:279).  Neither aborts the check.       *)
MisbehaviourOnlyDivides ==
    pc = "aborted" => faults \cap {"relinked_run", "replacement"} = {}

(* check.py:21 and :36: --quiet is an option of `check`, which checks the    *)
(* solution on a test; a quiet check with nothing wrong is not given up.     *)
QuietChecksToo == ~args.verbose /\ pc = "aborted" => faults # {}
====
