----------------------------- MODULE UserRegistry -----------------------------
(***************************************************************************)
(* What the user RPCs of src/src/rpcusers.cpp promise, with each call one  *)
(* atomic step: adduser registers a free name with a password ("Allows the *)
(* login combination to access the server via RPC"), the first user added  *)
(* becomes root (the comment at userdb.cpp line 90), getinfo's usercount   *)
(* counts the users, passwd replaces a user's password, and authuser       *)
(* accepts exactly the registered combination.  UserDB is checked to       *)
(* implement it.                                                           *)
(***************************************************************************)
EXTENDS Naturals

CONSTANTS
    Users,       \* the (lower-cased, unreserved) user names
    Passwords,   \* passwords
    NoPassword,  \* the name is not registered
    NoUser       \* no root user yet

VARIABLES
    users,   \* users[u]: the password that logs in as u, or NoPassword
    root,    \* the root user
    count,   \* usercount
    authOK   \* the <<user, password>> pairs authuser has accepted

regVars == <<users, root, count, authOK>>

RegInit ==
    /\ users = [u \in Users |-> NoPassword]
    /\ root = NoUser
    /\ count = 0
    /\ authOK = {}

\* adduser of a free name: registered; root if there was none; counted.
Register(u, p) ==
    /\ users[u] = NoPassword
    /\ users' = [users EXCEPT ![u] = p]
    /\ root' = IF root = NoUser THEN u ELSE root
    /\ count' = count + 1
    /\ UNCHANGED authOK

\* passwd of a registered user.
ChangePassword(u, p) ==
    /\ users[u] # NoPassword
    /\ users' = [users EXCEPT ![u] = p]
    /\ UNCHANGED <<root, count, authOK>>

\* authuser accepts the registered combination (a refusal changes nothing).
Authenticate(u, p) ==
    /\ users[u] = p
    /\ authOK' = authOK \cup {<<u, p>>}
    /\ UNCHANGED <<users, root, count>>

RegNext ==
    \E u \in Users, p \in Passwords :
        Register(u, p) \/ ChangePassword(u, p) \/ Authenticate(u, p)

RegSpec == RegInit /\ [][RegNext]_regVars

=============================================================================
