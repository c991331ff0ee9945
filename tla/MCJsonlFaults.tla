--------------------------- MODULE MCJsonlFaults ---------------------------
(* JsonlStore with kills, on two kinds of machine.                           *)
(*   flock     two threads of a server and another process append, mint ids   *)
(*             and read; either process may be killed                        *)
(*   sentinel  the Windows branch: threads of one process, a kill that leaves *)
(*             the sentinel file behind, writes that stop half way           *)
EXTENDS MCJsonlStore

VARIABLE machine
fvars == <<machine, vars>>

F == INSTANCE JsonlStore
       WITH OsLock <- "flock", ProcOf <- TwoProcesses, OpsOf <- NoRewrites, MaxTears <- 0

FInit == machine \in {"flock", "sentinel"} /\ (IF machine = "flock" THEN F!Init ELSE Init)

FNext ==
  /\ UNCHANGED machine
  /\ \/ machine = "flock" /\ F!Next
     \/ machine = "sentinel" /\ Next

FStep(w) == /\ UNCHANGED machine
            /\ \/ machine = "flock" /\ F!Step(w)
               \/ machine = "sentinel" /\ Step(w)

(* As FairSpec of JsonlStore.                                                *)
FaultSpec == FInit /\ [][FNext]_fvars /\ \A w \in Workers : WF_fvars(FStep(w))
=============================================================================
