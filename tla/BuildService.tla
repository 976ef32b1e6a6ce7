---------------------------- MODULE BuildService ----------------------------
(***************************************************************************)
(* What the store of configurations promises to a build: it is told the    *)
(* configuration CMake finds with its settings, once, whatever was stored, *)
(* cleaned or left behind before it came; or it is told nothing.           *)
(***************************************************************************)
CONSTANTS
    Clients,        \* builds
    Requests,       \* what a build may ask with
    Truth(_),       \* the configuration CMake finds for a request
    None

VARIABLES asked, told
serviceVars == <<asked, told>>

ServiceInit == asked = [c \in Clients |-> None] /\ told = [c \in Clients |-> None]

Ask(c) ==
    /\ asked[c] = None
    /\ \E r \in Requests : asked' = [asked EXCEPT ![c] = r]
    /\ UNCHANGED told
Tell(c) ==
    /\ asked[c] # None /\ told[c] = None
    /\ told' = [told EXCEPT ![c] = Truth(asked[c])]
    /\ UNCHANGED asked
Leave(c) ==
    /\ asked[c] # None
    /\ asked' = [asked EXCEPT ![c] = None] /\ told' = [told EXCEPT ![c] = None]

ServiceNext == \E c \in Clients : Ask(c) \/ Tell(c) \/ Leave(c)
ServiceSpec == ServiceInit /\ [][ServiceNext]_serviceVars
=============================================================================
