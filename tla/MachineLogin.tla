----------------------------- MODULE MachineLogin -----------------------------
(***************************************************************************)
(* What "login" and "logout" promise the one user of a machine: there is   *)
(* one login, made from nothing with a key the server gave out, and it     *)
(* goes away only when its key is to outlive it, is already dead, or is    *)
(* not a session of this machine at all.                                   *)
(***************************************************************************)
CONSTANTS AccessKeys, SessionKeys, Machines, Here, MachineOf, None

Keys == AccessKeys \cup SessionKeys
Logins == [key : Keys, preserve : BOOLEAN]

VARIABLES login, issued, valid

vars == <<login, issued, valid>>

\* A session the server filed under this machine.
IsSessionHere(k) == k \in SessionKeys /\ MachineOf[k] = Here

Init ==
    /\ issued \in SUBSET Keys
    /\ valid \in SUBSET issued
    /\ \/ login = None
       \/ \E k \in issued : login = [key |-> k, preserve |-> FALSE]

LogIn ==
    /\ login = None
    /\ login' \in [key : issued, preserve : BOOLEAN]
    /\ UNCHANGED <<issued, valid>>

\* A login that may be dropped without leaving a live session behind.
Droppable == login.preserve \/ login.key \notin valid \/ ~IsSessionHere(login.key)

LogOut ==
    /\ login # None
    /\ Droppable
    /\ login' = None
    /\ UNCHANGED <<issued, valid>>

\* The server hands out new keys and ends old ones; an ended key stays dead.
Server ==
    /\ issued' \in SUBSET Keys
    /\ issued \subseteq issued'
    /\ valid' \subseteq valid \cup (issued' \ issued)
    /\ UNCHANGED login

Next == LogIn \/ LogOut \/ Server

Spec == Init /\ [][Next]_vars

=============================================================================
