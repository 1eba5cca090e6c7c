------------------------------ MODULE MCTaskMgr ------------------------------
\* The task manager with the kernel thread and two others, which is what it
\* takes for an unload to pass over a live successor.
EXTENDS TaskMgr, FiniteSets

ASSUME Cardinality(Threads) = 3
=============================================================================
