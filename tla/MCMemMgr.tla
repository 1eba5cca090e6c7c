------------------------------ MODULE MCMemMgr ------------------------------
(* The first megabytes of a PC, the kernel's region, and up to two of: ACPI *)
(* tables behind it, a hole and more memory, a reserved region, a region    *)
(* that ends at 4 GB; in any order.  A map with more regions than the table *)
(* has slots.  One or two modules anywhere.                                 *)
EXTENDS MemMgr

Rec(a, s, t) == [addr |-> a, sz |-> s, type |-> t]

Low    == {Rec(0, 1, "FREE")}
Kernel == {Rec(1, n, "FREE") : n \in {6, 7}}
Extra  == {Rec(8, 1, "ACPI"), Rec(8, 2, "RESERVED"), Rec(10, 1, "FREE"),
           Rec(10, 2, "ACPI"), Rec(13, 3, "FREE")}

Disjoint(S) == \A b, c \in S : b # c => Cells(b) \cap Cells(c) = {}
Orders(S) == {q \in [1 .. Cardinality(S) -> S] : \A b \in S : \E k \in DOMAIN q : q[k] = b}

Crowded == <<Rec(8, 1, "ACPI"), Rec(9, 1, "ACPI"), Rec(10, 1, "FREE"),
             Rec(11, 1, "ACPI"), Rec(1, 6, "FREE")>>

MCMaps == {Crowded} \cup UNION {Orders(S) : S \in {Low \cup {k} \cup X :
            k \in Kernel, X \in {Y \in SUBSET Extra : Cardinality(Y) <= 2 /\ Disjoint(Y)}}}

Mod(f, u) == [from |-> f, upto |-> u]
MCModLists ==
  {<<Mod(f, u)>> : f \in 2 .. 7, u \in {3, 4, 8}} \cup
  {<<Mod(2, 3), Mod(f, f + 1)>> : f \in 3 .. 4}
MCModListsValid == {ms \in MCModLists : \A k \in DOMAIN ms : ms[k].from < ms[k].upto}
=============================================================================
