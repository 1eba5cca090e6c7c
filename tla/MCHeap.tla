------------------------------- MODULE MCHeap -------------------------------
\* The heap with four slots and five units: enough blocks for a merge across a
\* used block, and few enough slots for the table to run full.
EXTENDS Heap, TLC

ASSUME Size > HeapCount

\* Threads other than the kernel's are interchangeable.
Symmetry == Permutations(Tasks \ {KThread})

\* Explored up to the first damage: what happens in a damaged table is no
\* promise of any property.
Intact == broken = {}
=============================================================================
