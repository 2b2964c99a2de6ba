------------------------------ MODULE CoreProofs ------------------------------
(***************************************************************************)
(* For any number of handles, detail objects and user data: nothing is     *)
(* freed twice, used after it was freed, or lost.                          *)
(*                                                                         *)
(* That no user data is freed twice is not inductive: two detail objects   *)
(* that share user data would free it one after the other.  Unshared says  *)
(* that they do not, and that user data not yet given away is not freed.   *)
(***************************************************************************)
EXTENDS Core, TLAPS

Unshared ==
    /\ \A d, e \in Details : state[d] = "live" /\ free[d] /\ state[e] = "live" /\ free[e]
                             /\ userData[d] = userData[e] => d = e
    /\ \A d \in Details : state[d] = "unused" => ~free[d]
    /\ \A u \in UserData \ given : freed[u] = 0

IInv == TypeOK /\ DetailOwned /\ FreedOnce /\ NoLeak /\ Unshared

\* The state that the initial program is in satisfies the invariant.
LEMMA InitIInv == Init => IInv
  BY NullAssumption DEF Init, IInv, TypeOK, DetailOwned, FreedOnce, NoLeak, Unshared

\* Deleting the detail object of a handle that gives it up keeps the user
\* data of the others, and loses none.
LEMMA DeleteKeeps ==
    ASSUME IInv, NEW d \in Details, state[d] = "live", Release(d),
           state' = [state EXCEPT ![d] = "deleted"], UNCHANGED <<cb, given, lost>>
    PROVE  freed' \in [UserData -> Nat] /\ FreedOnce' /\ NoLeak' /\ Unshared'
  <1> USE DEF IInv
  <1>1. CASE ~free[d]
    <2>1. freed' = freed BY <1>1 DEF Release
    <2> QED BY <2>1, <1>1 DEF cb, TypeOK, FreedOnce, NoLeak, Unshared
  <1>2. CASE free[d]
    <2>1. userData[d] \in UserData /\ userData[d] \in given /\ freed[userData[d]] = 0
      BY <1>2 DEF TypeOK, FreedOnce
    <2>2. freed' = [freed EXCEPT ![userData[d]] = 1] /\ freed' \in [UserData -> Nat]
      BY <1>2, <2>1 DEF Release, TypeOK
    <2>3. FreedOnce'
      BY <1>2, <2>1, <2>2 DEF cb, TypeOK, FreedOnce, Unshared
    <2>4. NoLeak'
      BY <1>2, <2>1, <2>2 DEF cb, TypeOK, NoLeak, Unshared
    <2>5. Unshared'
      BY <1>2, <2>1, <2>2 DEF cb, TypeOK, Unshared
    <2> QED BY <2>2, <2>3, <2>4, <2>5
  <1> QED BY <1>1, <1>2

\* Replacing the callback of a live detail object, by one with the user data
\* u that has not been given away.
LEMMA ReplaceKeeps ==
    ASSUME IInv, NEW d \in Details, state[d] = "live", Release(d), UNCHANGED <<state, lost>>,
           NEW f \in BOOLEAN, NEW u \in UserData \ given,
           userData' = [userData EXCEPT ![d] = u],
           free' = [free EXCEPT ![d] = f],
           given' = IF f THEN given \cup {u} ELSE given
    PROVE  /\ userData' \in [Details -> UserData \cup {NULL}] /\ free' \in [Details -> BOOLEAN]
           /\ given' \subseteq UserData /\ lost' \subseteq given'
           /\ freed' \in [UserData -> Nat]
           /\ \A e \in Details : free'[e] => userData'[e] \in given'
           /\ FreedOnce' /\ NoLeak' /\ Unshared'
  <1> USE DEF IInv
  <1>1. /\ userData' \in [Details -> UserData \cup {NULL}] /\ free' \in [Details -> BOOLEAN]
        /\ given' \subseteq UserData /\ lost' \subseteq given'
        /\ \A e \in Details : free'[e] => userData'[e] \in given'
    BY DEF TypeOK
  <1>2. /\ free[d] => userData[d] \in UserData /\ userData[d] \in given
                      /\ freed[userData[d]] = 0
        /\ freed' = IF free[d] THEN [freed EXCEPT ![userData[d]] = 1] ELSE freed
        /\ freed' \in [UserData -> Nat]
    <2>1. CASE ~free[d]
      BY <2>1 DEF TypeOK, Release
    <2>2. CASE free[d]
      <3>1. userData[d] \in UserData /\ userData[d] \in given /\ freed[userData[d]] = 0
        BY <2>2 DEF TypeOK, FreedOnce
      <3> QED BY <2>2, <3>1 DEF Release, TypeOK
    <2> QED BY <2>1, <2>2
  <1>3. FreedOnce'
    BY <1>1, <1>2 DEF TypeOK, FreedOnce, Unshared
  <1>4. NoLeak'
    BY <1>1, <1>2 DEF TypeOK, NoLeak, Unshared
  <1>5. Unshared'
    BY <1>1, <1>2 DEF TypeOK, Unshared
  <1> QED BY <1>1, <1>2, <1>3, <1>4, <1>5

\* Every operation preserves the invariant.
LEMMA NextIInv == IInv /\ [Next]_vars => IInv'
  <1> SUFFICES ASSUME IInv, [Next]_vars PROVE IInv'
    OBVIOUS
  <1> USE NullAssumption DEF IInv
  <1>1. ASSUME NEW h \in Handles, DefaultConstruct(h) PROVE IInv'
    BY <1>1 DEF DefaultConstruct, cb, TypeOK, DetailOwned, FreedOnce, NoLeak, Unshared
  <1>2. ASSUME NEW h \in Handles, Construct(h) PROVE IInv'
    <2>1. PICK d \in Details : /\ state[d] = "unused" /\ state' = [state EXCEPT ![d] = "live"]
                               /\ detail_' = [detail_ EXCEPT ![h] = d]
      BY <1>2 DEF Construct
    <2>2. TypeOK'
      BY <1>2, <2>1 DEF Construct, cb, TypeOK
    <2>3. DetailOwned'
      BY <1>2, <2>1 DEF Construct, TypeOK, DetailOwned
    <2>4. FreedOnce' /\ NoLeak' /\ Unshared'
      BY <1>2, <2>1 DEF Construct, cb, TypeOK, FreedOnce, NoLeak, Unshared
    <2> QED BY <2>2, <2>3, <2>4
  <1>3. ASSUME NEW h \in Handles, Destroy(h) PROVE IInv'
    <2>1. CASE detail_[h] = NULL
      BY <1>3, <2>1 DEF Destroy, Delete, cb, TypeOK, DetailOwned, FreedOnce, NoLeak, Unshared
    <2>2. CASE detail_[h] # NULL
      <3>1. /\ detail_[h] \in Details /\ state[detail_[h]] = "live" /\ Release(detail_[h])
            /\ state' = [state EXCEPT ![detail_[h]] = "deleted"]
        BY <1>3, <2>2 DEF Destroy, Delete, TypeOK, DetailOwned
      <3>2. freed' \in [UserData -> Nat] /\ FreedOnce' /\ NoLeak' /\ Unshared'
        BY <1>3, <3>1, DeleteKeeps DEF Destroy
      <3>3. TypeOK'
        BY <1>3, <3>1, <3>2 DEF Destroy, cb, TypeOK
      <3>4. DetailOwned'
        BY <1>3, <3>1 DEF Destroy, TypeOK, DetailOwned
      <3> QED BY <3>2, <3>3, <3>4
    <2> QED BY <2>1, <2>2
  <1>4. ASSUME NEW h \in Handles, NEW other \in Handles, MoveConstruct(h, other) PROVE IInv'
    <2>1. TypeOK' /\ FreedOnce' /\ NoLeak' /\ Unshared'
      BY <1>4 DEF MoveConstruct, cb, TypeOK, FreedOnce, NoLeak, Unshared
    <2>2. detail_[h] = NULL /\ h # other
      BY <1>4 DEF MoveConstruct, DetailOwned
    <2>3. DetailOwned'
      BY <1>4, <2>2 DEF MoveConstruct, TypeOK, DetailOwned
    <2> QED BY <2>1, <2>3
  <1>5. ASSUME NEW h \in Handles, NEW other \in Handles, MoveAssign(h, other) PROVE IInv'
    <2>1. CASE h = other
      BY <1>5, <2>1 DEF MoveAssign, cb, TypeOK, DetailOwned, FreedOnce, NoLeak, Unshared
    <2>2. CASE h # other /\ detail_[h] = NULL
      <3>1. TypeOK' /\ FreedOnce' /\ NoLeak' /\ Unshared'
        BY <1>5, <2>2 DEF MoveAssign, Delete, cb, TypeOK, FreedOnce, NoLeak, Unshared
      <3>2. DetailOwned'
        BY <1>5, <2>2 DEF MoveAssign, Delete, TypeOK, DetailOwned
      <3> QED BY <3>1, <3>2
    <2>3. CASE h # other /\ detail_[h] # NULL
      <3>1. /\ detail_[h] \in Details /\ state[detail_[h]] = "live" /\ Release(detail_[h])
            /\ state' = [state EXCEPT ![detail_[h]] = "deleted"]
        BY <1>5, <2>3 DEF MoveAssign, Delete, TypeOK, DetailOwned
      <3>2. freed' \in [UserData -> Nat] /\ FreedOnce' /\ NoLeak' /\ Unshared'
        BY <1>5, <3>1, DeleteKeeps DEF MoveAssign
      <3>3. TypeOK'
        BY <1>5, <2>3, <3>1, <3>2 DEF MoveAssign, cb, TypeOK
      <3>4. DetailOwned'
        BY <1>5, <2>3, <3>1 DEF MoveAssign, TypeOK, DetailOwned
      <3> QED BY <3>2, <3>3, <3>4
    <2> QED BY <2>1, <2>2, <2>3
  <1>6. ASSUME NEW h \in Handles, NEW other \in Handles, Swap(h, other) PROVE IInv'
    <2>1. TypeOK' /\ FreedOnce' /\ NoLeak' /\ Unshared'
      BY <1>6 DEF Swap, cb, TypeOK, FreedOnce, NoLeak, Unshared
    <2>2. DetailOwned'
      BY <1>6 DEF Swap, TypeOK, DetailOwned
    <2> QED BY <2>1, <2>2
  <1>7. ASSUME NEW h \in Handles, NEW u \in UserData, NEW f \in BOOLEAN, SetEventCallback(h, u, f)
        PROVE IInv'
    <2>1. detail_[h] \in Details /\ state[detail_[h]] = "live"
      BY <1>7 DEF SetEventCallback, TypeOK, DetailOwned
    <2>2. /\ userData' \in [Details -> UserData \cup {NULL}] /\ free' \in [Details -> BOOLEAN]
          /\ given' \subseteq UserData /\ lost' \subseteq given'
          /\ freed' \in [UserData -> Nat]
          /\ \A e \in Details : free'[e] => userData'[e] \in given'
          /\ FreedOnce' /\ NoLeak' /\ Unshared'
      BY <1>7, <2>1, ReplaceKeeps DEF SetEventCallback
    <2>3. TypeOK' /\ DetailOwned'
      BY <1>7, <2>2 DEF SetEventCallback, TypeOK, DetailOwned
    <2> QED BY <2>2, <2>3
  <1>8. ASSUME NEW h \in Handles, NEW u \in UserData, SetEventCallbackThrows(h, u) PROVE IInv'
    <2>1. TypeOK' /\ DetailOwned' /\ FreedOnce' /\ NoLeak'
      BY <1>8 DEF SetEventCallbackThrows, cb, TypeOK, DetailOwned, FreedOnce, NoLeak
    <2>2. Unshared'
      BY <1>8 DEF SetEventCallbackThrows, cb, TypeOK, Unshared
    <2> QED BY <2>1, <2>2
  <1>9. CASE UNCHANGED vars
    BY <1>9 DEF vars, cb, TypeOK, DetailOwned, FreedOnce, NoLeak, Unshared
  <1> QED BY <1>1, <1>2, <1>3, <1>4, <1>5, <1>6, <1>7, <1>8, <1>9 DEF Next

\* Only Destroy and MoveAssign delete, and what they delete has been given up.
LEMMA NextDeletes ==
    ASSUME IInv, [Next]_vars, NEW g \in Handles, detail_[g] # NULL,
           state[detail_[g]] = "live", state'[detail_[g]] = "deleted"
    PROVE  g \notin alive' \/ \E other \in Handles \ {g} :
               detail_'[g] = detail_[other] /\ detail_'[other] = NULL
  <1> USE DEF IInv
  <1>0. detail_[g] \in Details
    BY DEF TypeOK
  <1>1. ASSUME UNCHANGED state PROVE FALSE
    BY <1>1
  <1>2. ASSUME NEW h \in Handles, Construct(h) PROVE FALSE
    BY <1>0, <1>2 DEF Construct, TypeOK
  <1>3. ASSUME NEW h \in Handles, Destroy(h) PROVE g \notin alive'
    <2>1. detail_[h] = detail_[g]
      BY <1>0, <1>3 DEF Destroy, Delete, TypeOK
    <2> QED BY <1>3, <2>1 DEF Destroy, DetailOwned
  <1>4. ASSUME NEW h \in Handles, NEW other \in Handles, MoveAssign(h, other)
        PROVE  \E o \in Handles \ {g} : detail_'[g] = detail_[o] /\ detail_'[o] = NULL
    <2>1. h # other /\ detail_[h] = detail_[g]
      BY <1>0, <1>4 DEF MoveAssign, Delete, TypeOK
    <2>2. h = g
      BY <2>1 DEF DetailOwned
    <2> QED BY <1>4, <2>1, <2>2 DEF MoveAssign, TypeOK
  <1> QED
    BY <1>1, <1>2, <1>3, <1>4 DEF Next, vars, DefaultConstruct, MoveConstruct, Swap,
       SetEventCallback, SetEventCallbackThrows

\* Detail objects that are not deleted belong to exactly one handle, and no
\* handle has a deleted one.
THEOREM DetailsAreOwned == Spec => [](TypeOK /\ DetailOwned)
  <1>1. IInv => TypeOK /\ DetailOwned BY DEF IInv
  <1> QED BY InitIInv, NextIInv, <1>1, PTL DEF Spec

\* No user data is freed twice or while a callback still has it.
THEOREM UserDataFreedOnce == Spec => []FreedOnce
  <1>1. IInv => FreedOnce BY DEF IInv
  <1> QED BY InitIInv, NextIInv, <1>1, PTL DEF Spec

\* An object loses its detail object only when it is destroyed or takes over
\* that of another.
THEOREM DeletesOnlyGivenUp == Spec => DeletedOnlyIfGivenUp
  <1>1. IInv /\ [Next]_vars =>
          [\A h \in Handles : detail_[h] # NULL /\ state[detail_[h]] = "live"
                              /\ state'[detail_[h]] = "deleted"
             => h \notin alive' \/ \E other \in Handles \ {h} :
                    detail_'[h] = detail_[other] /\ detail_'[other] = NULL]_vars
    BY NextDeletes
  <1> QED BY InitIInv, NextIInv, <1>1, PTL DEF Spec, DeletedOnlyIfGivenUp

\* No user data that was given away is lost.
THEOREM UserDataNotLeaked == Spec => []NoLeak
  <1>1. IInv => NoLeak BY DEF IInv
  <1> QED BY InitIInv, NextIInv, <1>1, PTL DEF Spec

=============================================================================
