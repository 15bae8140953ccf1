---- MODULE MCBuild ----
(* Two programs that share an object and want it with different flags.       *)
EXTENDS Build

MCTargets == <<"min", "iotbench">>
MCObjectsOf == [min |-> {"min.o", "_io_impl.o"}, iotbench |-> {"_io_impl.o", "IoTBench/main.o"}]
MCFlagsOf == [min |-> "-Os", iotbench |-> "-Ipicolibc/iamcu/include"]
MCNested == {"IoTBench/main.o"}
MCGoalLists == {<<"min">>, <<"iotbench">>, <<"min", "iotbench">>}
====
