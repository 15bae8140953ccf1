---- MODULE BuildProofs ----
(* What an invocation of make has linked, for every set of programs, objects *)
(* shared between them in any way, goals, edits, failures and kills.         *)
EXTENDS Build, SequenceTheorems, TLAPS

Processes == Seq(Seq(Names) \ {<<>>})

BuildTypeOK ==
    /\ version \in [Objects -> Nat] /\ since \in [Objects -> Nat]
    /\ DOMAIN obj = Objects /\ DOMAIN part = Names /\ DOMAIN elf = Names
    /\ \A t \in Names : "whole" \in DOMAIN elf[t]
    /\ processes \in Processes
    /\ linked \subseteq Names

(* A file made by this invocation: whole, with its BUILD, and from a source  *)
(* at least as new as at its start.                                          *)
Fresh(piece, o) ==
    piece.whole /\ piece.from.build = build /\ piece.from.version >= since[o]

(* What the running process has made is fresh, up to the parts.              *)
FreshMade ==
    exit = "running" =>
        /\ \A o \in made \cap Objects : Fresh(obj[o], o)
        /\ \A t \in made \cap Names : \A o \in ObjectsOf[t] : Fresh(part[t].from[o], o)

FreshInv ==
    /\ BuildTypeOK
    /\ \A o \in Objects : since[o] <= version[o]
    /\ FreshMade
    /\ FreshElf

(* As long as the process has had no other goal than the current one, what   *)
(* it has made is compiled with the flags of this one; `make all` never has  *)
(* another one.                                                              *)
OwnMade ==
    exit = "running" /\ (all \/ linked \subseteq {Goal}) =>
        /\ \A o \in made \cap Objects : obj[o].from.flags = FlagsOf[Goal]
        /\ Goal \in made =>
              \A o \in ObjectsOf[Goal] : part[Goal].from[o].from.flags = FlagsOf[Goal]

FlagsInv ==
    /\ BuildTypeOK
    /\ all /\ exit = "running" => \A k \in DOMAIN processes : Len(processes[k]) = 1
    /\ OwnMade
    /\ OwnFlags

-----------------------------------------------------------------------------
LEMMA Queue ==
    ASSUME processes \in Processes, processes # <<>>
    PROVE  /\ Goal \in Names /\ Len(processes) >= 1 /\ Len(processes[1]) >= 1
           /\ Tail(processes) \in Processes
           /\ \A k \in DOMAIN Tail(processes) : k + 1 \in DOMAIN processes
                                             /\ Tail(processes)[k] = processes[k + 1]
           /\ Len(processes[1]) > 1 => <<Tail(processes[1])>> \o Tail(processes) \in Processes
<1>1. 1 \in DOMAIN processes /\ processes[1] \in Seq(Names) \ {<<>>}
  BY DEF Processes
<1>2. Goal \in Names
  BY <1>1 DEF Goal
<1>3. Tail(processes) \in Processes
  BY DEF Processes
<1>4. ASSUME Len(processes[1]) > 1
      PROVE  <<Tail(processes[1])>> \o Tail(processes) \in Processes
  <2>1. Tail(processes[1]) \in Seq(Names) \ {<<>>}
    BY SMTT(30), <1>1, <1>4
  <2>2. <<Tail(processes[1])>> \in Processes
    BY <2>1 DEF Processes
  <2> QED
    BY <2>2, <1>3 DEF Processes
<1> QED
  BY <1>1, <1>2, <1>3, <1>4 DEF Processes

LEMMA BuildInitOK == BuildInit => FreshInv /\ FlagsInv
  BY DEF BuildInit, FreshInv, FlagsInv, BuildTypeOK, FreshMade, FreshElf, OwnMade, OwnFlags,
         Missing, Processes

LEMMA TypeStep == ASSUME BuildTypeOK, [BuildNext]_buildVars PROVE BuildTypeOK'
<1> USE DEF BuildTypeOK, File, Missing
<1>0. <<>> \in Processes
  BY EmptySeq DEF Processes
<1>1. CASE Make
  <2>1. AllProcesses \in Processes
    <3>1. /\ Len(Targets) \in Nat /\ DOMAIN Targets = 1..Len(Targets)
          /\ \A k \in DOMAIN Targets : <<Targets[k]>> \in Seq(Names) \ {<<>>}
      BY BuildAssumption
    <3>2. AllProcesses \in [1..Len(Targets) -> Seq(Names) \ {<<>>}]
      BY <3>1 DEF AllProcesses
    <3> QED
      BY <3>1, <3>2, SeqDef DEF Processes
  <2>2. \A g \in GoalLists : <<g>> \in Processes
    BY BuildAssumption DEF Processes
  <2> QED
    BY <1>1, <2>1, <2>2 DEF Make
<1>2. CASE LinkElf
  BY <1>2, Queue DEF LinkElf, NextGoal, Running
<1>3. CASE Fail
  BY <1>0, <1>3, Queue DEF Fail, Running
<1>4. CASE LinkPart \/ Kill
  BY <1>0, <1>4 DEF LinkPart, Kill, Half
<1>5. CASE Clean
  BY <1>5 DEF Clean
<1>6. ASSUME NEW o \in Objects, Compile(o) PROVE BuildTypeOK'
  BY <1>6 DEF Compile
<1>7. ASSUME NEW o \in Objects, Edit(o) PROVE BuildTypeOK'
  BY <1>7 DEF Edit
<1>8. CASE UNCHANGED buildVars
  BY <1>8 DEF buildVars
<1> QED
  BY <1>1, <1>2, <1>3, <1>4, <1>5, <1>6, <1>7, <1>8 DEF BuildNext

(* Nothing that is not fresh gets into what an invocation links.             *)
LEMMA FreshStep == ASSUME FreshInv, [BuildNext]_buildVars PROVE FreshInv'
<1> USE DEF FreshInv, FreshMade, FreshElf, Fresh, File, Missing
<1>0. BuildTypeOK'
  BY TypeStep
<1>1. CASE Make
  BY <1>0, <1>1 DEF Make, BuildTypeOK
<1>2. CASE LinkElf
  BY <1>0, <1>2, Queue DEF LinkElf, NextGoal, Running, BuildTypeOK
<1>3. CASE Fail
  BY <1>0, <1>3, Queue DEF Fail, Running, BuildTypeOK
<1>4. CASE LinkPart
  <2>1. /\ Goal \in Names /\ ObjectsOf[Goal] \subseteq made \cap Objects /\ exit = "running"
        /\ UNCHANGED <<obj, elf, build, since, linked, exit, version>> /\ made' = made \cup {Goal}
        /\ part' = [part EXCEPT ![Goal] = File([o \in ObjectsOf[Goal] |-> obj[o]])]
    <3>1. Goal \in Names /\ ObjectsOf[Goal] \subseteq Objects
      BY <1>4, Queue DEF LinkPart, Running, BuildTypeOK, Objects
    <3> QED
      BY <1>4, <3>1 DEF LinkPart, Running
  <2>2. ASSUME NEW t \in made' \cap Names, NEW o \in ObjectsOf[t]
        PROVE  Fresh(part[t].from[o], o)'
    <3>1. CASE t = Goal
      BY <2>1, <3>1 DEF BuildTypeOK
    <3>2. CASE t # Goal
      BY <2>1, <2>2, <3>2 DEF BuildTypeOK
    <3> QED
      BY <3>1, <3>2
  <2>3. FreshMade'
    BY <2>1, <2>2, BuildAssumption
  <2> QED
    BY <1>0, <2>1, <2>3 DEF BuildTypeOK
<1>5. CASE Kill
  <2>1. /\ exit' = "killed" /\ UNCHANGED <<build, since, linked, version>>
        /\ elf' = elf \/ elf' = [elf EXCEPT ![Goal] = Half(elf[Goal])]
    BY <1>5 DEF Kill
  <2>2. \A t \in linked : elf'[t].whole => elf'[t] = elf[t]
    BY <2>1 DEF BuildTypeOK, Half
  <2> QED
    BY <1>0, <2>1, <2>2 DEF BuildTypeOK
<1>6. CASE Clean
  BY <1>0, <1>6 DEF Clean, Idle, BuildTypeOK
<1>7. ASSUME NEW o \in Objects, Compile(o) PROVE FreshInv'
  BY <1>0, <1>7, BuildAssumption DEF Compile, Due, Compiled, BuildTypeOK
<1>8. ASSUME NEW o \in Objects, Edit(o) PROVE FreshInv'
  BY <1>0, <1>8 DEF Edit, BuildTypeOK
<1>9. CASE UNCHANGED buildVars
  BY <1>0, <1>9 DEF buildVars, BuildTypeOK
<1> QED
  BY <1>1, <1>2, <1>3, <1>4, <1>5, <1>6, <1>7, <1>8, <1>9 DEF BuildNext

(* An invocation of make links nothing but whole objects, compiled with its  *)
(* own BUILD from sources at least as new as at its start.                   *)
THEOREM LinksFresh == BuildSpec => []FreshElf
<1>1. FreshInv /\ [BuildNext]_buildVars => FreshInv'
  BY FreshStep
<1>2. FreshInv => FreshElf
  BY DEF FreshInv
<1> QED
  BY BuildInitOK, <1>1, <1>2, PTL DEF BuildSpec

-----------------------------------------------------------------------------
(* What was made for another goal gets into a program only where the         *)
(* invocation has several goals in one process.                              *)
LEMMA FlagsStep == ASSUME FlagsInv, [BuildNext]_buildVars PROVE FlagsInv'
<1> USE DEF FlagsInv, OwnMade, OwnFlags, File, Missing
<1>0. BuildTypeOK'
  BY TypeStep
<1>1. CASE Make
  <2>1. \A k \in DOMAIN AllProcesses : Len(AllProcesses[k]) = 1
    BY DEF AllProcesses
  <2> QED
    BY <1>0, <1>1, <2>1 DEF Make
<1>2. CASE LinkElf
  <2>1. /\ Goal \in Names /\ Goal \in made /\ exit = "running"
        /\ elf' = [elf EXCEPT ![Goal] = File(part[Goal].from)]
        /\ linked' = linked \cup {Goal} /\ UNCHANGED <<obj, part, all>>
    BY <1>2, Queue DEF LinkElf, Running, BuildTypeOK
  <2>2. \/ ~all /\ UNCHANGED <<made, exit>>
        \/ /\ processes' = Tail(processes) /\ made' = {}
           /\ exit' = "running" \/ exit' = "ok"
    BY <1>2, Queue DEF LinkElf, Running, BuildTypeOK, NextGoal
  <2>3. all' => \A k \in DOMAIN processes' : Len(processes'[k]) = 1
    BY <1>2, <2>1, <2>2, Queue DEF LinkElf, Running, BuildTypeOK
  <2>4. OwnMade'
    BY <2>1, <2>2
  <2>5. ASSUME NEW t \in linked', elf'[t].whole, all' \/ (linked' = {t} /\ exit' = "ok"),
               NEW o \in ObjectsOf[t]
        PROVE  elf'[t].from[o].from.flags = FlagsOf[t]
    <3>1. CASE t = Goal
      <4>1. elf'[t].from = part[Goal].from /\ (all \/ linked \subseteq {Goal})
        BY <2>1, <2>5, <3>1 DEF BuildTypeOK
      <4> QED
        BY <2>1, <3>1, <4>1
    <3>2. CASE t # Goal
      <4>1. t \in linked /\ linked' # {t}
        BY <2>1, <2>5, <3>2
      <4>2. t \in Names /\ elf'[t] = elf[t]
        BY <2>1, <3>2, <4>1 DEF BuildTypeOK
      <4>3. all /\ elf[t].whole
        BY <2>1, <2>5, <4>1, <4>2
      <4> QED
        BY <4>1, <4>2, <4>3
    <3> QED
      BY <3>1, <3>2
  <2> QED
    BY <1>0, <2>3, <2>4, <2>5
<1>3. CASE Fail
  <2>1. exit = "running" /\ UNCHANGED <<elf, all, linked, obj, part>> /\ processes # <<>>
    BY <1>3 DEF Fail, Running
  <2>2. \/ processes' = Tail(processes) /\ made' = {} /\ exit' = exit
        \/ exit' = "failed"
    BY <1>3 DEF Fail
  <2>3. OwnFlags'
    BY <2>1, <2>2
  <2>4. OwnMade'
    BY <2>1, <2>2
  <2>5. all' /\ exit' = "running" => \A k \in DOMAIN processes' : Len(processes'[k]) = 1
    BY <2>1, <2>2, Queue DEF BuildTypeOK
  <2> QED
    BY <1>0, <2>3, <2>4, <2>5
<1>4. CASE LinkPart
  <2>1. /\ Goal \in Names /\ ObjectsOf[Goal] \subseteq made \cap Objects /\ exit = "running"
        /\ UNCHANGED <<obj, elf, all, linked, exit, processes, Goal>> /\ made' = made \cup {Goal}
        /\ part' = [part EXCEPT ![Goal] = File([o \in ObjectsOf[Goal] |-> obj[o]])]
    <3>1. Goal \in Names /\ ObjectsOf[Goal] \subseteq Objects
      BY <1>4, Queue DEF LinkPart, Running, BuildTypeOK, Objects
    <3> QED
      BY <1>4, <3>1 DEF LinkPart, Running, Goal
  <2>2. part'[Goal].from = [o \in ObjectsOf[Goal] |-> obj[o]]
    BY <2>1 DEF BuildTypeOK
  <2>3. OwnMade'
    BY <2>1, <2>2, BuildAssumption
  <2> QED
    BY <1>0, <2>1, <2>3
<1>5. CASE Kill
  <2>1. /\ exit' = "killed" /\ UNCHANGED <<all, linked>>
        /\ elf' = elf \/ elf' = [elf EXCEPT ![Goal] = Half(elf[Goal])]
    BY <1>5 DEF Kill
  <2>2. \A t \in linked : elf'[t].whole => elf'[t] = elf[t]
    BY <2>1 DEF BuildTypeOK, Half
  <2> QED
    BY <1>0, <2>1, <2>2
<1>6. CASE Clean
  BY <1>0, <1>6 DEF Clean, Idle
<1>7. ASSUME NEW o \in Objects, Compile(o) PROVE FlagsInv'
  <2>1. /\ o \notin Names /\ made' = made \cup {o} /\ Goal' = Goal
        /\ obj' = [obj EXCEPT ![o] = Compiled(o)]
        /\ UNCHANGED <<part, elf, processes, all, linked, exit>>
    BY <1>7, BuildAssumption DEF Compile, Due, Goal
  <2>2. \A p \in made' \cap Objects : p # o => p \in made /\ obj'[p] = obj[p]
    BY <2>1 DEF BuildTypeOK
  <2>3. obj'[o].from.flags = FlagsOf[Goal]
    BY <2>1 DEF BuildTypeOK, Compiled
  <2>4. Goal \in Names \/ exit # "running"
    BY <1>7, Queue DEF Compile, Running, BuildTypeOK
  <2>5. OwnMade'
    BY <2>1, <2>2, <2>3, <2>4
  <2> QED
    BY <1>0, <2>1, <2>5
<1>8. ASSUME NEW o \in Objects, Edit(o) PROVE FlagsInv'
  BY <1>0, <1>8 DEF Edit, Goal
<1>9. CASE UNCHANGED buildVars
  BY <1>0, <1>9 DEF buildVars, Goal
<1> QED
  BY <1>1, <1>2, <1>3, <1>4, <1>5, <1>6, <1>7, <1>8, <1>9 DEF BuildNext

(* make all, and make with one goal, link a program from objects compiled    *)
(* with its own flags, the objects it shares with others too.                *)
THEOREM LinksOwnFlags == BuildSpec => []OwnFlags
<1>1. FlagsInv /\ [BuildNext]_buildVars => FlagsInv'
  BY FlagsStep
<1>2. FlagsInv => OwnFlags
  BY DEF FlagsInv
<1> QED
  BY BuildInitOK, <1>1, <1>2, PTL DEF BuildSpec
====
