-------------------------------- MODULE Core --------------------------------
(***************************************************************************)
(* Ownership in the API classes (src/core.cpp, and the wrappers in         *)
(* reduce.cpp, scan.cpp and radixsort.cpp): a clogs::Algorithm owns a      *)
(* detail::Algorithm, which owns the user data of its event callback if it *)
(* was given a function to free it.  One thread uses the objects, and      *)
(* callbacks do not call back into them.  Whether the callback itself is   *)
(* NULL is left out: the user data and its function are kept all the same. *)
(***************************************************************************)
EXTENDS Integers

CONSTANTS
    Handles,    \* the places where a program keeps a Scan, Reduce or Radixsort
    Details,    \* the addresses of detail objects; each is used once
    UserData,   \* also what the overloads for C++ allocate: a wrapper of the
                \* callback and its user data, or a copy of the function object
    NULL

ASSUME NullAssumption == NULL \notin Details /\ NULL \notin UserData

VARIABLES
    alive,      \* the handles that have been constructed and not destroyed
    detail_,    \* of each handle
    state,      \* of each detail object: "unused", "live" or "deleted"
    userData,   \* eventCallbackUserData, of each detail object
    free,       \* eventCallbackFree is set
    given,      \* the user data that has been passed with a free function; it is
                \* not passed again
    lost,       \* that of them which was allocated for a call that threw
    freed       \* how often each user data has been freed

cb == <<userData, free>>
vars == <<alive, detail_, state, cb, given, lost, freed>>

Init ==
    /\ alive = {}
    /\ detail_ = [h \in Handles |-> NULL]
    /\ state = [d \in Details |-> "unused"]
    /\ userData = [d \in Details |-> NULL]
    /\ free = [d \in Details |-> FALSE]
    /\ given = {}
    /\ lost = {}
    /\ freed = [u \in UserData |-> 0]

\* eventCallbackFree(eventCallbackUserData), if there is one.
Release(d) ==
    freed' = IF free[d] THEN [freed EXCEPT ![userData[d]] = @ + 1] ELSE freed

\* delete: ~Algorithm of the detail object; deleting NULL does nothing.
Delete(d) ==
    \/ d = NULL /\ UNCHANGED <<state, freed>>
    \/ d # NULL /\ Release(d) /\ state' = [state EXCEPT ![d] = "deleted"]

DefaultConstruct(h) ==
    /\ h \notin alive
    /\ alive' = alive \cup {h}
    /\ UNCHANGED <<detail_, state, cb, given, lost, freed>>

\* A constructor that throws changes nothing.
Construct(h) ==
    /\ h \notin alive
    /\ \E d \in Details :
          /\ state[d] = "unused"
          /\ state' = [state EXCEPT ![d] = "live"]
          /\ detail_' = [detail_ EXCEPT ![h] = d]
    /\ alive' = alive \cup {h}
    /\ UNCHANGED <<cb, given, lost, freed>>

\* Mutant: the pointer is copied.
MoveConstruct_Copies(h, other) == h \notin alive /\ other \in alive
    /\ alive' = alive \cup {h}
    /\ detail_' = [detail_ EXCEPT ![h] = detail_[other]]
    /\ UNCHANGED <<state, cb, given, lost, freed>>

MoveConstruct(h, other) ==
    /\ h \notin alive /\ other \in alive
    /\ alive' = alive \cup {h}
    /\ detail_' = [detail_ EXCEPT ![h] = detail_[other], ![other] = NULL]
    /\ UNCHANGED <<state, cb, given, lost, freed>>

\* Mutant: an object that is assigned to itself is not told apart.
MoveAssign_Itself(h, other) == {h, other} \subseteq alive
    /\ detail_' = [detail_ EXCEPT ![h] = detail_[other], ![other] = NULL]
    /\ Delete(detail_[h]) /\ UNCHANGED <<alive, cb, given, lost>>

MoveAssign(h, other) ==
    /\ h \in alive /\ other \in alive
    /\ \/ h = other /\ UNCHANGED <<detail_, state, freed>>
       \/ /\ h # other
          /\ detail_' = [detail_ EXCEPT ![h] = detail_[other], ![other] = NULL]
          /\ Delete(detail_[h])
    /\ UNCHANGED <<alive, cb, given, lost>>

Swap(h, other) ==
    /\ h \in alive /\ other \in alive
    /\ detail_' = [detail_ EXCEPT ![h] = detail_[other], ![other] = detail_[h]]
    /\ UNCHANGED <<alive, state, cb, given, lost, freed>>

Destroy(h) ==
    /\ h \in alive
    /\ alive' = alive \ {h}
    /\ detail_' = [detail_ EXCEPT ![h] = NULL]
    /\ Delete(detail_[h])
    /\ UNCHANGED <<cb, given, lost>>

\* Mutant: a callback that is replaced keeps its user data.
SetEventCallback_Keeps(h, u, f) == h \in alive /\ detail_[h] # NULL /\ u \in UserData \ given
    /\ userData' = [userData EXCEPT ![detail_[h]] = u]
    /\ free' = [free EXCEPT ![detail_[h]] = f]
    /\ given' = (IF f THEN given \cup {u} ELSE given)
    /\ UNCHANGED <<alive, detail_, state, lost, freed>>

\* Mutant: without a new function to free user data the old one stays.
SetEventCallback_KeepsFree(h, u, f) == h \in alive /\ detail_[h] # NULL /\ u \in UserData \ given
    /\ Release(detail_[h])
    /\ userData' = [userData EXCEPT ![detail_[h]] = u]
    /\ free' = [free EXCEPT ![detail_[h]] = @ \/ f]
    /\ given' = (IF f THEN given \cup {u} ELSE given)
    /\ UNCHANGED <<alive, detail_, state, lost>>

SetEventCallback(h, u, f) ==
    /\ h \in alive /\ detail_[h] # NULL
    /\ u \in UserData \ given
    /\ Release(detail_[h])
    /\ userData' = [userData EXCEPT ![detail_[h]] = u]
    /\ free' = [free EXCEPT ![detail_[h]] = f]
    /\ given' = IF f THEN given \cup {u} ELSE given
    /\ UNCHANGED <<alive, detail_, state, lost>>

\* Without a detail object the call throws.  What an overload for C++ has
\* allocated as its argument then has no owner.
SetEventCallbackThrows(h, u) ==
    /\ h \in alive /\ detail_[h] = NULL
    /\ u \in UserData \ given
    /\ given' = given \cup {u}
    /\ lost' = lost \cup {u}
    /\ UNCHANGED <<alive, detail_, state, cb, freed>>

Next ==
    \E h \in Handles :
        \/ DefaultConstruct(h) \/ Construct(h) \/ Destroy(h)
        \/ \E other \in Handles :
              MoveConstruct(h, other) \/ MoveAssign(h, other) \/ Swap(h, other)
        \/ \E u \in UserData :
              SetEventCallbackThrows(h, u) \/ \E f \in BOOLEAN : SetEventCallback(h, u, f)

Spec == Init /\ [][Next]_vars

-----------------------------------------------------------------------------
(* Types; what is to be freed has been passed for that.                    *)
TypeOK ==
    /\ alive \subseteq Handles
    /\ detail_ \in [Handles -> Details \cup {NULL}]
    /\ state \in [Details -> {"unused", "live", "deleted"}]
    /\ userData \in [Details -> UserData \cup {NULL}]
    /\ free \in [Details -> BOOLEAN]
    /\ given \subseteq UserData /\ lost \subseteq given
    /\ freed \in [UserData -> Nat]
    /\ \A d \in Details : free[d] => userData[d] \in given

(* Every detail object that has not been deleted belongs to exactly one    *)
(* handle, and no handle has one that was deleted, however objects are     *)
(* moved, swapped, assigned to themselves and destroyed.                   *)
DetailOwned ==
    /\ \A h \in Handles : detail_[h] # NULL => h \in alive /\ state[detail_[h]] = "live"
    /\ \A h, g \in Handles : detail_[h] = detail_[g] /\ detail_[h] # NULL => h = g
    /\ \A d \in Details : state[d] = "live" => \E h \in Handles : detail_[h] = d

(* User data is never freed twice, and never freed while the callback of   *)
(* an object that enqueues still has it.                                   *)
FreedOnce ==
    /\ \A u \in UserData : freed[u] <= 1
    /\ \A d \in Details : state[d] = "live" /\ free[d] => freed[userData[d]] = 0

(* User data that was passed with a function to free it has been freed or  *)
(* still belongs to a detail object: once the objects are destroyed, all   *)
(* of it has been freed.  Only what was allocated for a call that threw is *)
(* lost.                                                                   *)
NoLeak ==
    \A u \in given \ lost : freed[u] = 0 =>
        \E d \in Details : state[d] = "live" /\ free[d] /\ userData[d] = u

(* A detail object is deleted only when its handle is destroyed or takes   *)
(* over another one: assigning an object to itself keeps it.               *)
DeletedOnlyIfGivenUp ==
    [][\A h \in Handles : detail_[h] # NULL /\ state[detail_[h]] = "live"
                          /\ state'[detail_[h]] = "deleted"
          => h \notin alive' \/ \E other \in Handles \ {h} :
                 detail_'[h] = detail_[other] /\ detail_'[other] = NULL]_vars

=============================================================================
