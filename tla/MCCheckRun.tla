---- MODULE MCCheckRun ----
(* Verbose checks at the default level and at the one that strips in two     *)
(* passes, the subcommand strip, verbose and quiet check-symbolization, in   *)
(* any succession; and, apart from them, the quiet check.                    *)
EXTENDS CheckRun

Invoke(m, l, v) == [mode |-> m, level |-> l, verbose |-> v]

MCInvocations == {
    Invoke("check", "strip", TRUE), Invoke("check", "function_symbols", TRUE),
    Invoke("strip", "function_symbols", TRUE),
    Invoke("check-symbolization", "none", TRUE), Invoke("check-symbolization", "none", FALSE) }
MCCheck == {Invoke("check", "strip", TRUE)}
MCQuietCheck == {Invoke("check", "strip", FALSE)}
====
