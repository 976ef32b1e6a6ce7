--------------------------- MODULE CMakeGenerateMC ---------------------------
(* The project depends on a, a on b, and b takes include directories of a. *)
EXTENDS CMakeGenerate

CONSTANTS p1, p2, a, b, project, debug, release, e1, e2, old, new

MCDirect == [k \in {a, b, project} |->
    CASE k = project -> {a} [] k = a -> {b} [] k = b -> {}]
MCIncludeOnly == [k \in {a, b, project} |-> IF k = b THEN {a} ELSE {}]
MCEdits == [k \in {a, b} |-> IF k = b THEN <<e1, e2>> ELSE <<>>]

(* Both in one configuration, with one CMake or with two; or in two.       *)
MCSetups ==
    LET Setup(c, v, d, w) == [p \in {p1, p2} |->
            IF p = p1 THEN [conf |-> c, version |-> v] ELSE [conf |-> d, version |-> w]]
    IN  {Setup(debug, old, debug, old), Setup(debug, old, debug, new),
         Setup(debug, old, release, old)}
=============================================================================
