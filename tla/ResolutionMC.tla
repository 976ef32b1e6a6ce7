----------------------------- MODULE ResolutionMC -----------------------------
(* A root project with two children, a library it needs and is needed by,  *)
(* another library, and a library whose path is above another one's.       *)
EXTENDS Resolution

R == <<"r">>
A == <<"r", "a">>
B == <<"r", "b">>
C == <<"c">>
D == <<"d">>
DX == <<"d", "x">>
U == <<"unknown">>

Known == {R, A, B, C, D, DX}

MCPaths == <<C, D, DX, R, A, B, U>>

v1 == Numbered(1, 0, 0)
v11 == Numbered(1, 1, 0)
v2 == Numbered(2, 0, 0)
any == Numbered(Absent, Absent, Absent)
one == Numbered(1, Absent, Absent)
oneZero == Numbered(1, 0, Absent)
two == Numbered(2, Absent, Absent)
master == Branch("master")

ReleasesA == <<{v1}, {v1, v11, master}>>
ReleasesB == <<{v1}, {v2}>>
ReleasesD == <<{v1, v11}, {}>>

SpecA == <<[p \in {C} |-> any], [p \in {B} |-> two], <<>>>>
SpecB == <<[p \in {A, C} |-> one], <<>>>>
SpecC == <<[p \in {R} |-> one], [p \in {D} |-> oneZero], [p \in {R, A} |-> oneZero],
           [p \in {R, D, DX} |-> one]>>
SpecD == <<[p \in {R, DX} |-> one], [p \in {C} |-> one], <<>>>>
Young == <<{}, {Package(D, v1)}>>

Index == [ra : 1..2, rb : 1..2, rd : 1..2, a : 1..3, b : 1..2, c : 1..4, d : 1..3,
          young : 1..2]

MCDbs == [i \in Index |->
    [kind |-> [p \in Known |-> IF p = R THEN "root" ELSE "library"],
     releases |-> [p \in Known |->
        CASE p = R -> {} [] p = A -> ReleasesA[i.ra] [] p = B -> ReleasesB[i.rb]
          [] p = C -> {v1, v2} [] p = D -> ReleasesD[i.rd] [] p = DX -> {v1}],
     spec |-> [p \in Known |->
        CASE p = A -> SpecA[i.a] [] p = B -> SpecB[i.b] [] p = C -> SpecC[i.c]
          [] p = D -> SpecD[i.d] [] p \in {R, DX} -> <<>>],
     young |-> Young[i.young]]]

MCRequests == {
    [p \in {R} |-> one],
    [p \in {R, C} |-> any],
    [p \in {A, C} |-> one],
    [p \in {R, A} |-> IF p = R THEN one ELSE v11],
    [p \in {R, D} |-> IF p = R THEN v1 ELSE oneZero],
    [p \in {A} |-> master],
    [p \in {C} |-> two],
    [p \in {R} |-> two],
    [p \in {C} |-> Numbered(1, 1, Absent)],
    [p \in {U} |-> any]}
=============================================================================
