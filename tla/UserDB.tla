------------------------------- MODULE UserDB -------------------------------
(***************************************************************************)
(* The RPC user database of src/src/userdb.cpp (CUserDB, a LevelDB store)  *)
(* and the RPCs of src/src/rpcusers.cpp that drive it: adduser, passwd and *)
(* authuser, called by concurrent RPC threads.                             *)
(*                                                                         *)
(* Each LevelDB Read or Write is atomic; nothing else is, except the two   *)
(* counter calls, each of which holds cs_userCount on its own.  A thread   *)
(* of adduser therefore takes one step per database call of UserAdd.      *)
(*                                                                         *)
(* Keys: "U:"+user holds the password hash, "US:"+user the salt, "ROOT"    *)
(* the root user, 'U' the user counter getinfo reports as "usercount".     *)
(* A password hash is kept as the pair it is computed from (password,     *)
(* salt); a salt is a RAND_bytes draw from a small set Salts.              *)
(***************************************************************************)
EXTENDS Integers, FiniteSets

CONSTANTS
    Names,      \* user names as RPC callers spell them
    Lower,      \* std::transform(..., ::tolower) on each spelling
    Passwords,  \* passwords callers pass
    Salts,      \* values RAND_bytes may produce for a salt
    Threads,    \* RPC threads serving admin calls concurrently
    NoHash,     \* no "U:" entry
    NoSalt,     \* no "US:" entry
    NoRoot,     \* no "ROOT" entry (or an empty one)
    NoCount     \* no 'U' entry

\* UserExists, UserUpdate and UserAuth treat these names as taken.
Reserved == {"root", "false"}

\* The user keys UserAdd can write: lower-cased, not reserved.
UserKeys == {Lower[n] : n \in Names} \ Reserved

ASSUME Lower \in [Names -> Names \cup Reserved]
ASSUME \A n \in Names : Lower[n] \in Reserved \/ Lower[Lower[n]] = Lower[n]

PassHash == [pwd : Passwords, salt : Salts]

VARIABLES
    passHash,   \* "U:"+user
    salt,       \* "US:"+user
    rootDB,     \* "ROOT"
    counter,    \* 'U'
    pc,         \* per thread: where its RPC is
    arg,        \* per thread: [name, user (lower-cased), pwd, salt] of its call
    last,       \* per thread: UserAdd's local `last`
    res,        \* per thread: the outcome of its last RPC
    given,      \* history: <<user, password>> pairs adduser or passwd installed
    authOK      \* history: <<user, password>> pairs authuser accepted

vars == <<passHash, salt, rootDB, counter, pc, arg, last, res, given, authOK>>
dbVars == <<passHash, salt, rootDB, counter>>
histVars == <<given, authOK>>

NoArg == [name |-> NoRoot, user |-> NoRoot, pwd |-> NoRoot, salt |-> NoSalt]

TypeOK ==
    /\ passHash \in [UserKeys -> PassHash \cup {NoHash}]
    /\ salt \in [UserKeys -> Salts \cup {NoSalt}]
    /\ rootDB \in UserKeys \cup {NoRoot}
    /\ counter \in Nat \cup {NoCount}
    /\ pc \in [Threads -> {"idle", "add_hash", "add_salt", "add_root_check",
                           "add_root_set", "add_count_read", "add_count_write",
                           "passwd_read", "passwd_write"}]
    /\ res \in [Threads -> {"none", "ok", "failed", "not_found"}]
    /\ \A k \in UserKeys : salt[k] # NoSalt => passHash[k] # NoHash

\* The value stored under "U:"+k (keys never written read as absent).
StoredHash(k) == IF k \in UserKeys THEN passHash[k] ELSE NoHash

\* CUserDB::UserExists (lines 30-35).
UserExists(k) == k \in Reserved \/ StoredHash(k) # NoHash

\* CUserDB::UserAuth after lower-casing (lines 118-132): both entries must
\* be there and the stored hash must be the one of this password and the
\* stored salt.
UserAuth(u, p) ==
    /\ u \notin Reserved
    /\ StoredHash(u) # NoHash
    /\ salt[u] # NoSalt
    /\ StoredHash(u) = [pwd |-> p, salt |-> salt[u]]

Init ==
    /\ passHash = [k \in UserKeys |-> NoHash]
    /\ salt = [k \in UserKeys |-> NoSalt]
    /\ rootDB = NoRoot
    /\ counter = NoCount
    /\ pc = [t \in Threads |-> "idle"]
    /\ arg = [t \in Threads |-> NoArg]
    /\ last = [t \in Threads |-> 0]
    /\ res = [t \in Threads |-> "none"]
    /\ given = {}
    /\ authOK = {}

-----------------------------------------------------------------------------
(* adduser (rpcusers.cpp lines 16-32) and CUserDB::UserAdd (userdb.cpp     *)
(* lines 65-99), one step per database call.                               *)

\* The RPC returns: the thread is free again.
Finish(t, r) ==
    /\ pc' = [pc EXCEPT ![t] = "idle"]
    /\ arg' = [arg EXCEPT ![t] = NoArg]
    /\ res' = [res EXCEPT ![t] = r]

\* Line 69: the lower-cased name is taken ("Add user failed").
AddUserExists(t, n) ==
    /\ pc[t] = "idle"
    /\ UserExists(Lower[n])
    /\ Finish(t, "failed")
    /\ UNCHANGED <<dbVars, last, histVars>>

\* Lines 83-86, 91: CWallet::GetUserWallet returned NULL; nothing is written.
AddUserNoWallet(t, n) ==
    /\ pc[t] = "idle"
    /\ ~UserExists(Lower[n])
    /\ Finish(t, "failed")
    /\ UNCHANGED <<dbVars, last, histVars>>

\* A UserAdd whose chain at line 91 lost the Write of "U:"+user.
AddUserStartNoHash(t, n, p) ==
    /\ pc[t] = "idle"
    /\ ~UserExists(Lower[n])
    /\ pc' = [pc EXCEPT ![t] = "add_salt"]
    /\ \E r \in Salts :
          arg' = [arg EXCEPT ![t] = [name |-> n, user |-> Lower[n], pwd |-> p, salt |-> r]]
    /\ UNCHANGED <<dbVars, last, res, histVars>>

\* Lines 67-86: the name is free and a wallet is there; salt and hash are
\* computed (locally) and the writes of line 91 come next.
AddUserStart(t, n, p) ==
    /\ pc[t] = "idle"
    /\ ~UserExists(Lower[n])
    /\ pc' = [pc EXCEPT ![t] = "add_hash"]
    /\ \E r \in Salts :
          arg' = [arg EXCEPT ![t] = [name |-> n, user |-> Lower[n], pwd |-> p, salt |-> r]]
    /\ UNCHANGED <<dbVars, last, res, histVars>>

\* Line 91: Write("U:" + user, pass_hash).
AddWriteHash(t) ==
    LET u == arg[t].user IN
    /\ pc[t] = "add_hash"
    /\ passHash' = [passHash EXCEPT ![u] = [pwd |-> arg[t].pwd, salt |-> arg[t].salt]]
    /\ given' = given \cup {<<u, arg[t].pwd>>}
    /\ pc' = [pc EXCEPT ![t] = "add_salt"]
    /\ UNCHANGED <<salt, rootDB, counter, arg, last, res, authOK>>

\* Line 91: Write("US:" + user, salt).
AddWriteSalt(t) ==
    /\ pc[t] = "add_salt"
    /\ salt' = [salt EXCEPT ![arg[t].user] = arg[t].salt]
    /\ pc' = [pc EXCEPT ![t] = "add_root_check"]
    /\ UNCHANGED <<passHash, rootDB, counter, arg, last, res, histVars>>

\* A root check that sets "ROOT" whatever it holds.
AddRootCheckAlways(t) ==
    /\ pc[t] = "add_root_check"
    /\ pc' = [pc EXCEPT ![t] = "add_root_set"]
    /\ UNCHANGED <<dbVars, arg, last, res, histVars>>

\* Line 91, RootAccountExists (lines 37-46): read "ROOT"; if it names a
\* user go on to the counter, else set it next.
AddRootCheck(t) ==
    /\ pc[t] = "add_root_check"
    /\ pc' = [pc EXCEPT ![t] = IF rootDB # NoRoot THEN "add_count_read"
                                                 ELSE "add_root_set"]
    /\ UNCHANGED <<dbVars, arg, last, res, histVars>>

\* A RootAccountSet that writes the name as the caller spelled it (the
\* std::transform at line 51 dropped).
AddRootSetSpelled(t) ==
    /\ pc[t] = "add_root_set"
    /\ rootDB' = arg[t].name
    /\ pc' = [pc EXCEPT ![t] = "add_count_read"]
    /\ UNCHANGED <<passHash, salt, counter, arg, last, res, histVars>>

\* Line 91, RootAccountSet (lines 48-55): Write("ROOT", user), lower-cased.
AddRootSet(t) ==
    /\ pc[t] = "add_root_set"
    /\ rootDB' = arg[t].user
    /\ pc' = [pc EXCEPT ![t] = "add_count_read"]
    /\ UNCHANGED <<passHash, salt, counter, arg, last, res, histVars>>

\* Line 94, ReadLastUserIndex (lines 21-28) under cs_userCount: a missing
\* counter is written as 0, then read.
AddCountRead(t) ==
    /\ pc[t] = "add_count_read"
    /\ counter' = IF counter = NoCount THEN 0 ELSE counter
    /\ last' = [last EXCEPT ![t] = counter']
    /\ pc' = [pc EXCEPT ![t] = "add_count_write"]
    /\ UNCHANGED <<passHash, salt, rootDB, arg, res, histVars>>

\* A counter update that writes back the value it read.
AddCountWriteSame(t) ==
    LET u == arg[t].user IN
    /\ pc[t] = "add_count_write"
    /\ counter' = last[t]
    /\ Finish(t, "ok")
    /\ UNCHANGED <<passHash, salt, rootDB, last, histVars>>

\* Lines 95-96, WriteLastUserIndex (lines 15-19) under cs_userCount, and
\* UserAdd returns true.
AddCountWrite(t) ==
    LET u == arg[t].user IN
    /\ pc[t] = "add_count_write"
    /\ counter' = last[t] + 1
    /\ Finish(t, "ok")
    /\ UNCHANGED <<passHash, salt, rootDB, last, histVars>>

-----------------------------------------------------------------------------
(* passwd (rpcusers.cpp lines 33-61) and authuser (lines 62-77).            *)

\* Line 55: UserExists on the name as the caller spelled it (an admin's
\* <username>, or the caller's own ctx.username) fails: "User not found".
PasswdNotFound(t, n) ==
    /\ pc[t] = "idle"
    /\ ~UserExists(n)
    /\ Finish(t, "not_found")
    /\ UNCHANGED <<dbVars, last, histVars>>

\* Line 55 passes; CUserDB::UserUpdate comes next.
PasswdFound(t, n, p) ==
    /\ pc[t] = "idle"
    /\ UserExists(n)
    /\ pc' = [pc EXCEPT ![t] = "passwd_read"]
    /\ arg' = [arg EXCEPT ![t] = [name |-> n, user |-> Lower[n], pwd |-> p, salt |-> NoSalt]]
    /\ UNCHANGED <<dbVars, last, res, histVars>>

\* A UserUpdate that draws a fresh salt, as UserAdd does, instead of
\* reading the stored one (and never writes it).
UserUpdateReadFresh(t) ==
    LET u == arg[t].user IN
    /\ pc[t] = "passwd_read"
    /\ \/ /\ u \in Reserved \/ ~UserExists(u) \/ salt[u] = NoSalt
          /\ Finish(t, "failed")
       \/ /\ u \notin Reserved /\ UserExists(u) /\ salt[u] # NoSalt
          /\ pc' = [pc EXCEPT ![t] = "passwd_write"]
          /\ \E r \in Salts : arg' = [arg EXCEPT ![t].salt = r]
          /\ UNCHANGED res
    /\ UNCHANGED <<dbVars, last, histVars>>

\* CUserDB::UserUpdate, lines 103-108, on the lower-cased name: refuse
\* reserved or unknown names and a missing salt ("User update failed");
\* otherwise read the stored salt and hash the new password with it.
UserUpdateRead(t) ==
    LET u == arg[t].user IN
    /\ pc[t] = "passwd_read"
    /\ \/ /\ u \in Reserved \/ ~UserExists(u) \/ salt[u] = NoSalt
          /\ Finish(t, "failed")
       \/ /\ u \notin Reserved /\ UserExists(u) /\ salt[u] # NoSalt
          /\ pc' = [pc EXCEPT ![t] = "passwd_write"]
          /\ arg' = [arg EXCEPT ![t].salt = salt[u]]
          /\ UNCHANGED res
    /\ UNCHANGED <<dbVars, last, histVars>>

\* CUserDB::UserUpdate, lines 110-115: Write("U:" + user, pass_hash), and
\* passwd returns true.
UserUpdateWrite(t) ==
    LET u == arg[t].user IN
    /\ pc[t] = "passwd_write"
    /\ passHash' = [passHash EXCEPT ![u] = [pwd |-> arg[t].pwd, salt |-> arg[t].salt]]
    /\ given' = given \cup {<<u, arg[t].pwd>>}
    /\ Finish(t, "ok")
    /\ UNCHANGED <<salt, rootDB, counter, last, authOK>>

\* A UserAuth that returns pass_hash != auth_hash.
AuthUserInverted(t, n, p) ==
    LET ok == ~UserAuth(Lower[n], p) /\ Lower[n] \notin Reserved IN
    /\ pc[t] = "idle"
    /\ res' = [res EXCEPT ![t] = IF ok THEN "ok" ELSE "failed"]
    /\ authOK' = IF ok THEN authOK \cup {<<Lower[n], p>>} ELSE authOK
    /\ UNCHANGED <<dbVars, pc, arg, last, given>>

\* authuser: CUserDB::UserAuth on the lower-cased name, one read pair.
AuthUser(t, n, p) ==
    LET ok == UserAuth(Lower[n], p) IN
    /\ pc[t] = "idle"
    /\ res' = [res EXCEPT ![t] = IF ok THEN "ok" ELSE "failed"]
    /\ authOK' = IF ok THEN authOK \cup {<<Lower[n], p>>} ELSE authOK
    /\ UNCHANGED <<dbVars, pc, arg, last, given>>

Next ==
    \/ \E t \in Threads, n \in Names, p \in Passwords :
          \/ AddUserExists(t, n)
          \/ AddUserNoWallet(t, n)
          \/ AddUserStart(t, n, p)
          \/ PasswdNotFound(t, n)
          \/ PasswdFound(t, n, p)
          \/ AuthUser(t, n, p)
    \/ \E t \in Threads :
          \/ AddWriteHash(t)
          \/ AddWriteSalt(t)
          \/ AddRootCheck(t)
          \/ AddRootSet(t)
          \/ AddCountRead(t)
          \/ AddCountWrite(t)
          \/ UserUpdateRead(t)
          \/ UserUpdateWrite(t)

Spec == Init /\ [][Next]_vars

-----------------------------------------------------------------------------
(* Properties.                                                              *)

\* No thread is inside adduser or passwd for user u.
Quiet(u) == \A t \in Threads : pc[t] = "idle" \/ arg[t].user # u

\* authuser accepts a user and password only if adduser or passwd once
\* stored that password for that user (UserAuth recomputes the salted
\* hash; whatever the interleaving of the writes of line 91 and of
\* UserUpdate, no other password matches).
AuthSound == authOK \subseteq given

\* The help text of adduser: "Allows the login combination to access the
\* server via RPC."  Whenever a user exists and no adduser or passwd for
\* it is running, some password logs in as that user: "U:" and "US:" were
\* written by the same call.  (Line 69 tests UserExists with no lock
\* before the two writes of line 91: two adduser calls for one name, or
\* one of them and a passwd reading the salt in between, interleave
\* their writes.)
UserCanLogIn ==
    \A u \in UserKeys :
        StoredHash(u) # NoHash /\ Quiet(u) =>
            \E p \in Passwords : UserAuth(u, p)

\* getinfo reports the 'U' counter as "usercount": when no adduser is
\* running it equals the number of users.  (ReadLastUserIndex and
\* WriteLastUserIndex at lines 94-95 each take cs_userCount, but not
\* the pair.)
UserCountMatches ==
    (\A t \in Threads : pc[t] = "idle") =>
        LET n == Cardinality({k \in UserKeys : passHash[k] # NoHash}) IN
        IF counter = NoCount THEN n = 0 ELSE counter = n

\* The comment at line 90: the root user is set only "if it hasn't been
\* set before"; once "ROOT" names a user it keeps naming that user.
RootNeverChanges ==
    [][rootDB # NoRoot => rootDB' = rootDB]_vars


-----------------------------------------------------------------------------
(* Refinement of UserRegistry.                                              *)

\* The password authuser accepts for u, or NoHash when none is accepted
\* (UserAuth recomputes the salted hash, so at most one password matches).
LoginPassword(u) ==
    IF \E p \in Passwords : UserAuth(u, p)
    THEN CHOOSE p \in Passwords : UserAuth(u, p)
    ELSE NoHash

\* adduser calls past Write("US:"), the point from which the new user
\* logs in, that have yet to set "ROOT" or bump the counter.
Committed == {t \in Threads : pc[t] \in {"add_root_check", "add_root_set",
                                          "add_count_read", "add_count_write"}}

\* One of them will set "ROOT" (RootAccountExists has not seen it set).
RootPending == {t \in Committed : pc[t] \in {"add_root_check", "add_root_set"}}

Registry == INSTANCE UserRegistry
    WITH Users <- UserKeys,
         NoPassword <- NoHash,
         NoUser <- NoRoot,
         users <- [u \in UserKeys |-> LoginPassword(u)],
         root <- IF rootDB = NoRoot /\ RootPending # {}
                 THEN arg[CHOOSE t \in RootPending : TRUE].user
                 ELSE rootDB,
         count <- (IF counter = NoCount THEN 0 ELSE counter) + Cardinality(Committed),
         authOK <- authOK

\* The RPCs behave as UserRegistry says, each as one atomic call: adduser
\* of a free name makes it log in with its password, makes it root if it
\* is the first, and adds one to usercount; passwd only changes a
\* registered user's password; authuser accepts only the registered
\* combination.  UserAdd spreads this over five database calls (lines
\* 91-95); the mapping takes the Write of "US:" as the point where the
\* user is added.
RegistrySpec == Registry!RegSpec

=============================================================================
