---- MODULE Build ----
(* The Makefile: what is on disk after a succession of invocations of make,  *)
(* between which and during which sources are edited, and each of which may  *)
(* fail in a compiler or linker or be killed.                                *)
(*                                                                           *)
(* One invocation is one make process with one or more goals, or `make all`, *)
(* a shell loop that starts a make process per program.  The goals' objects  *)
(* may be made in any order (make -j); some belong to several programs.      *)
EXTENDS Integers, Sequences, SequencesExt, FiniteSets

CONSTANTS
    Targets,        \* all_targets: the programs, in the order of the list
    ObjectsOf,      \* the objects a program is linked from
    Nested,         \* objects in a directory below examples/
    FlagsOf,        \* the target-specific part of a program's CFLAGS
    GoalLists,      \* goals make may be called with
    Builds,         \* values of BUILD
    MaxEdits,       \* bound: edits of sources
    MaxMakes        \* bound: invocations

VARIABLES
    version,        \* of each source file
    obj, part, elf, \* what is on disk
    makes,          \* invocations so far
    processes,      \* goals of the make processes of this one still to run
    build, all,     \* its BUILD, and whether it is `make all`
    made,           \* what the running process has made
    since,          \* versions of the sources when the invocation started
    linked,         \* programs linked by it
    exit            \* its exit status: "running", "ok", "failed", "killed"

buildVars == <<version, obj, part, elf, makes, processes, build, all, made,
               since, linked, exit>>

Names == ToSet(Targets)
Objects == UNION {ObjectsOf[t] : t \in Names}
ASSUME BuildAssumption ==
    /\ Targets \in Seq(Names) \ {<<>>} /\ GoalLists \subseteq Seq(Names) \ {<<>>}
    /\ Names \cap Objects = {}
    /\ MaxEdits \in Nat /\ MaxMakes \in Nat

Missing == [whole |-> FALSE, from |-> <<>>]
File(from) == [whole |-> TRUE, from |-> from]

BuildInit ==
    /\ version = [o \in Objects |-> 0]
    /\ obj = [o \in Objects |-> Missing]
    /\ part = [t \in Names |-> Missing] /\ elf = [t \in Names |-> Missing]
    /\ makes = 0 /\ processes = <<>>
    /\ build \in Builds /\ all = FALSE /\ made = {} /\ since = version
    /\ linked = {} /\ exit = "ok"

Idle == exit # "running"

-----------------------------------------------------------------------------
(* Mutant: `all` has the programs as its prerequisites. *)
AllProcessesOne == <<Targets>>

(* make all: a make -B for each program.                                     *)
AllProcesses == [k \in DOMAIN Targets |-> <<Targets[k]>>]

Make ==
    /\ Idle /\ makes < MaxMakes /\ makes' = makes + 1
    /\ \/ all' = TRUE /\ processes' = AllProcesses
       \/ all' = FALSE /\ processes' \in {<<g>> : g \in GoalLists}
    /\ build' \in Builds /\ made' = {} /\ since' = version /\ linked' = {}
    /\ exit' = "running"
    /\ UNCHANGED <<version, obj, part, elf>>

Goal == processes[1][1]
Running == exit = "running" /\ processes # <<>>

(* Mutant: without `force` only what is absent or older than its source.     *)
DueByTime(o) == obj[o] = Missing \/ obj[o].from.version < version[o]

(* Every object depends on `force`: it is made anew by every process.        *)
Due(o) == TRUE

Compiled(o) == File([version |-> version[o], build |-> build, flags |-> FlagsOf[Goal]])

(* A rule's commands write their target, and if the process is killed in the *)
(* middle, half of it stays: .PRECIOUS keeps make from deleting it.          *)
Compile(o) ==
    /\ Running /\ o \in ObjectsOf[Goal] \ made
    /\ obj' = IF Due(o) THEN [obj EXCEPT ![o] = Compiled(o)] ELSE obj
    /\ made' = made \cup {o}
    /\ UNCHANGED <<version, part, elf, makes, processes, build, all, since, linked, exit>>

LinkPart ==
    /\ Running /\ ObjectsOf[Goal] \subseteq made /\ Goal \notin made
    /\ part' = [part EXCEPT ![Goal] = File([o \in ObjectsOf[Goal] |-> obj[o]])]
    /\ made' = made \cup {Goal}
    /\ UNCHANGED <<version, obj, elf, makes, processes, build, all, since, linked, exit>>

(* The next goal of the process, the next process of `make all`, or the end. *)
NextGoal ==
    IF Len(processes[1]) > 1
    THEN processes' = <<Tail(processes[1])>> \o Tail(processes) /\ UNCHANGED <<made, exit>>
    ELSE /\ processes' = Tail(processes) /\ made' = {}
         /\ exit' = IF Len(processes) > 1 THEN "running" ELSE "ok"

LinkElf ==
    /\ Running /\ Goal \in made
    /\ elf' = [elf EXCEPT ![Goal] = File(part[Goal].from)]
    /\ linked' = linked \cup {Goal}
    /\ NextGoal
    /\ UNCHANGED <<version, obj, part, makes, build, all, since>>

(* A command fails (a source that does not compile, a library that is not    *)
(* there): make stops at it.  The loop of `make all` goes on, and what it    *)
(* returns is what its last turn returns.                                    *)
Fail ==
    /\ Running
    /\ IF Len(processes) > 1
       THEN processes' = Tail(processes) /\ made' = {} /\ UNCHANGED exit
       ELSE processes' = <<>> /\ exit' = "failed" /\ UNCHANGED made
    /\ UNCHANGED <<version, obj, part, elf, makes, build, all, since, linked>>

Half(file) == [file EXCEPT !.whole = FALSE]

Kill ==
    /\ Running
    /\ \/ \E o \in ObjectsOf[Goal] \ made :
            obj' = [obj EXCEPT ![o] = Half(Compiled(o))] /\ UNCHANGED <<part, elf>>
       \/ /\ ObjectsOf[Goal] \subseteq made /\ Goal \notin made
          /\ part' = [part EXCEPT ![Goal] = Half(part[Goal])] /\ UNCHANGED <<obj, elf>>
       \/ /\ Goal \in made
          /\ elf' = [elf EXCEPT ![Goal] = Half(elf[Goal])] /\ UNCHANGED <<obj, part>>
    /\ exit' = "killed" /\ processes' = <<>>
    /\ UNCHANGED <<version, makes, build, all, made, since, linked>>

-----------------------------------------------------------------------------
Edits == FoldFunction(LAMBDA v, sum : v + sum, 0, version)

Edit(o) ==
    /\ Edits < MaxEdits
    /\ version' = [version EXCEPT ![o] = version[o] + 1]
    /\ UNCHANGED <<obj, part, elf, makes, processes, build, all, made, since, linked, exit>>

(* make clean, which does not look into examples/IoTBench. *)
Clean ==
    /\ Idle
    /\ obj' = [o \in Objects |-> IF o \in Nested THEN obj[o] ELSE Missing]
    /\ part' = [t \in Names |-> Missing] /\ elf' = [t \in Names |-> Missing]
    /\ linked' = {}
    /\ UNCHANGED <<version, makes, processes, build, all, made, since, exit>>

BuildNext ==
    \/ Make \/ LinkPart \/ LinkElf \/ Fail \/ Kill \/ Clean
    \/ \E o \in Objects : Compile(o) \/ Edit(o)

BuildSpec == BuildInit /\ [][BuildNext]_buildVars

-----------------------------------------------------------------------------
(* What an invocation has linked is made of whole objects, compiled with its *)
(* own BUILD from sources at least as new as at its start: nothing of an     *)
(* earlier invocation, of another BUILD or killed half-way, is in it.        *)
FreshElf ==
    \A t \in linked : elf[t].whole =>
        \A o \in ObjectsOf[t] :
            LET piece == elf[t].from[o]
            IN  piece.whole /\ piece.from.build = build /\ piece.from.version >= since[o]

(* Makefile:105-106 runs make for each target because "dependencies may be   *)
(* compiled with various flags": after `make all`, or make with one goal, a  *)
(* program's objects, the shared ones too, are compiled with its flags.      *)
OwnFlags ==
    \A t \in linked :
        elf[t].whole /\ (all \/ (linked = {t} /\ exit = "ok")) =>
            \A o \in ObjectsOf[t] : elf[t].from[o].from.flags = FlagsOf[t]

(* README.rst:34-35 says that `all` compiles all test programs.  Checked as  *)
(* a claim of the document: `make all` succeeds only if all are linked.      *)
AllBuildsAll == all /\ exit = "ok" => linked = Names
====
