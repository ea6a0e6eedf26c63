------------------------------ MODULE MCVMWrapper ------------------------------
\* Small jobs for VMWrapper
EXTENDS VMWrapper

CONSTANTS v1, v2

\* One task in a machine, then one on the host
MixedJob == [t \in {0, 1} |-> IF t = 0 THEN v1 ELSE NoVM]

\* One task on the host, then two in the same machine
HostFirstJob == [t \in {0, 1, 2} |-> IF t = 0 THEN NoVM ELSE v1]

\* Two tasks in different machines
TwoMachineJob == [t \in {0, 1} |-> IF t = 0 THEN v1 ELSE v2]
=============================================================================
