---- MODULE SegmentCompare ----
(* checklib/elf.py, BinFile.get_main_segments and Comparator.compare_segments*)
(* (step 2 of the grading): the PT_LOAD headers of the two stripped files    *)
(* are reduced to one text, one data and one bss segment, which are then     *)
(* compared field by field.                                                  *)
EXTENDS Integers, Sequences

CONSTANTS
    TextBase,       \* 0x40030000, where the flash image starts
    DataBase,       \* 0xa800a000, where initialised data is copied to
    TruthTables,    \* PT_LOAD tables of the ground truth
    PredTables,     \* PT_LOAD tables of the relinked file
    None            \* Python's None

(* A header is a record of vaddr, paddr, filesz, memsz and data, the content *)
(* standing for the filesz bytes it names.                                   *)
Roles == <<"text", "data", "bss">>          \* MainSegments._fields
Files == {"truth", "symbolized"}

VARIABLES
    headers,    \* the PT_LOAD headers of each file
    scanning,   \* the file being scanned, or None
    pos,        \* headers already looked at
    main,       \* the MainSegments found so far, for each file
    compared,   \* roles already compared
    fail        \* compare_segments' result so far

vars == <<headers, scanning, pos, main, compared, fail>>

Unscanned ==
    /\ scanning = "truth" /\ pos = 0
    /\ main = [f \in Files |-> [text |-> None, data |-> None, bss |-> None]]
    /\ compared = 0 /\ fail = FALSE

Init == headers \in [truth : TruthTables, symbolized : PredTables] /\ Unscanned

(* The tests come in this order: an empty segment is bss wherever it lies.   *)
RoleOf(seg) ==
    IF seg.filesz = 0 THEN "bss"
    ELSE IF seg.vaddr = TextBase THEN "text"
    ELSE IF seg.vaddr = DataBase /\ seg.vaddr # seg.paddr THEN "data"
    ELSE "ignored"

ScanSegment ==
    /\ scanning # None /\ pos < Len(headers[scanning])
    /\ pos' = pos + 1
    /\ LET seg == headers[scanning][pos + 1]
       IN  main' = IF RoleOf(seg) = "ignored" THEN main
                   ELSE [main EXCEPT ![scanning][RoleOf(seg)] = seg]
    /\ UNCHANGED <<headers, scanning, compared, fail>>

EndScan ==
    /\ scanning # None /\ pos = Len(headers[scanning])
    /\ scanning' = IF scanning = "truth" THEN "symbolized" ELSE None
    /\ pos' = 0
    /\ UNCHANGED <<headers, main, compared, fail>>

(* Mutant: the size in memory is not among the checked fields. *)
SegmentErrorsNoMemsz(true, pred) ==
    IF true = None \/ pred = None THEN true # pred
    ELSE \/ \E f \in {"vaddr", "paddr", "filesz"} : true[f] # pred[f]
         \/ true.data # pred.data

(* _compare_segments: whether its list of errors is not empty. *)
SegmentErrors(true, pred) ==
    IF true = None \/ pred = None THEN true # pred
    ELSE \/ \E f \in {"vaddr", "paddr", "filesz", "memsz"} : true[f] # pred[f]
         \/ true.data # pred.data

CompareRole ==
    /\ scanning = None /\ compared < Len(Roles)
    /\ compared' = compared + 1
    /\ LET r == Roles[compared + 1]
       IN  fail' = (fail \/ SegmentErrors(main.truth[r], main.symbolized[r]))
    /\ UNCHANGED <<headers, scanning, pos, main>>

Next == ScanSegment \/ EndScan \/ CompareRole

(* A sequential function, run to its end. *)
Spec == Init /\ [][Next]_vars /\ WF_vars(Next)

-----------------------------------------------------------------------------
Headers(f) == {headers[f][k] : k \in 1..Len(headers[f])}
Done == compared = Len(Roles)

(* A table whose headers all have a role of their own: nothing is ignored    *)
(* and nothing overwritten.                                                  *)
OneEach(f) ==
    \A j, k \in 1..Len(headers[f]) :
        /\ RoleOf(headers[f][j]) # "ignored"
        /\ RoleOf(headers[f][j]) = RoleOf(headers[f][k]) => j = k

(* On tables with one segment per role, in any order of the headers, the     *)
(* verdict is exact: step 2 fails iff some segment differs.                  *)
ExactOnOneEach ==
    Done /\ OneEach("truth") /\ OneEach("symbolized") =>
        (fail <=> Headers("truth") # Headers("symbolized"))

(* checklib/spec.py:197 prints that segment equivalence "should be enough to *)
(* prove no behavior change", and statement/index.rst:278 that the segments  *)
(* have to come out identical.  Checked as claims of the documents.          *)
PassMeansIdentical == Done /\ ~fail => Headers("truth") = Headers("symbolized")
====
