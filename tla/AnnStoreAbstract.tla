--------------------------- MODULE AnnStoreAbstract ---------------------------
(***************************************************************************)
(* The announcement store as spec section 4.3 describes it: submit is one  *)
(* atomic transaction under the store's lock, from the in-effect check on  *)
(* arrival through the sweep, the conflict check, the insert and the       *)
(* election.  A rejected submission that fails before the sweep changes   *)
(* nothing and is a stuttering step.  AnnStore is checked against it.      *)
(***************************************************************************)
EXTENDS MixerAnn

CONSTANTS
    Anns,     \* the announcements that can be submitted
    Signed,   \* those whose signature verifies
    MaxTime,  \* bound on the clock
    NoMixer   \* the absent mixer

VARIABLES
    now,      \* the adjusted time
    store,    \* the Active records
    mixer     \* the current mixer, or NoMixer

absVars == <<now, store, mixer>>

AbsInit ==
    /\ now = 0
    /\ store = {}
    /\ mixer = NoMixer

AbsTick ==
    /\ now < MaxTime
    /\ now' = now + 1
    /\ UNCHANGED <<store, mixer>>

\* Step 2: drop what the incoming record cancels and what is no longer in
\* effect.
Swept(a) == {e \in store : ~Cancels(a, e, now) /\ IsInEffect(e, now)}

\* Steps 1-3 pass for a record in effect on arrival with a good signature.
Admissible(a) == a \in Signed /\ IsInEffect(a, now)

\* Step 3: a resident record cancels the incoming one; the sweep stays
\* done, nothing is inserted and no election runs (4.4 runs it only after
\* a successful submit).
SubmitConflict(a) ==
    /\ Admissible(a)
    /\ \E e \in Swept(a) : Cancels(e, a, now)
    /\ store' = Swept(a)
    /\ UNCHANGED <<now, mixer>>

\* Steps 4-5: insert, then elect any qualifying record (absent if none).
SubmitAccept(a) ==
    LET s == Swept(a) \cup {a}
        c == {e \in s : IsAnnouncement(e)}
    IN  /\ Admissible(a)
        /\ ~\E e \in Swept(a) : Cancels(e, a, now)
        /\ store' = s
        /\ mixer' \in IF c = {} THEN {NoMixer} ELSE c
        /\ UNCHANGED now

AbsNext == AbsTick \/ \E a \in Anns : SubmitConflict(a) \/ SubmitAccept(a)

AbsSpec == AbsInit /\ [][AbsNext]_absVars

=============================================================================
