--------------------------- MODULE OneTime_proofs ---------------------------
(***************************************************************************)
(* What the abstract one-time token guarantees for any number of workers:  *)
(* WebAuthn, BackupCodes and TokenEndpoint implement it, so the bound is   *)
(* theirs as well.                                                         *)
(***************************************************************************)
EXTENDS OneTime, FiniteSetTheorems, TLAPS

(* A worker that holds a token may still redeem it, so holders are counted  *)
(* with the uses; they can only grow while the token is live and unused.    *)
Counted == \A t \in Tokens :
             /\ uses[t] + Cardinality(holders[t]) <= Cardinality(Workers)
             /\ status[t] # "gone" => uses[t] = 0

IInv == TypeOK /\ Counted

(* The holders of a token are a finite set no larger than Workers.          *)
LEMMA HoldersFinite ==
  ASSUME IsFiniteSet(Workers), NEW S, S \subseteq Workers
  PROVE  /\ IsFiniteSet(S)
         /\ Cardinality(S) \in Nat
         /\ Cardinality(Workers) \in Nat
         /\ Cardinality(S) <= Cardinality(Workers)
BY FS_Subset, FS_CardinalityType

LEMMA InitIInv ==
  ASSUME IsFiniteSet(Workers), Init
  PROVE  IInv
<1>1. TypeOK
  BY DEF Init, TypeOK
<1>2. Cardinality({}) = 0
  BY FS_EmptySet
<1>3. Cardinality(Workers) \in Nat
  BY FS_CardinalityType
<1>4. Counted
  BY <1>2, <1>3 DEF Init, Counted
<1> QED
  BY <1>1, <1>4 DEF IInv

LEMMA NextTypeOK == TypeOK /\ [Next]_vars => TypeOK'
<1> SUFFICES ASSUME TypeOK, [Next]_vars PROVE TypeOK'
  OBVIOUS
<1> USE DEF TypeOK
<1>1. ASSUME NEW S \in SUBSET Tokens, Issue(S) PROVE TypeOK'
  BY <1>1 DEF Issue
<1>2. ASSUME NEW S \in SUBSET Tokens, End(S) PROVE TypeOK'
  BY <1>2 DEF End
<1>3. ASSUME NEW t \in Tokens, NEW w \in Workers, Hold(w, t) PROVE TypeOK'
  BY <1>3 DEF Hold
<1>4. ASSUME NEW t \in Tokens, NEW w \in Workers, Redeem(w, t) PROVE TypeOK'
  BY <1>4 DEF Redeem
<1>5. ASSUME NEW t \in Tokens, NEW w \in Workers, Release(w, t) PROVE TypeOK'
  BY <1>5 DEF Release
<1>6. CASE UNCHANGED vars
  BY <1>6 DEF vars
<1> QED
  BY <1>1, <1>2, <1>3, <1>4, <1>5, <1>6 DEF Next

LEMMA NextCounted ==
  ASSUME IsFiniteSet(Workers), IInv, [Next]_vars
  PROVE  Counted'
<1> SUFFICES ASSUME NEW x \in Tokens
             PROVE  /\ uses'[x] + Cardinality(holders'[x]) <= Cardinality(Workers)
                    /\ status'[x] # "gone" => uses'[x] = 0
  BY DEF Counted
<1> DEFINE Kept == /\ uses'[x] + Cardinality(holders'[x]) <= Cardinality(Workers)
                   /\ status'[x] # "gone" => uses'[x] = 0
<1> USE DEF IInv, TypeOK, Counted
<1>c. /\ IsFiniteSet(holders[x])
      /\ Cardinality(holders[x]) \in Nat
      /\ Cardinality(Workers) \in Nat
  BY HoldersFinite
<1>1. ASSUME NEW S \in SUBSET Tokens, Issue(S)
      PROVE  Kept
  BY <1>1 DEF Issue
<1>2. ASSUME NEW S \in SUBSET Tokens, End(S)
      PROVE  Kept
  BY <1>2 DEF End
<1>3. ASSUME NEW t \in Tokens, NEW w \in Workers, Hold(w, t)
      PROVE  Kept
  <2>1. CASE x = t
    <3>1. uses'[x] = 0
      BY <1>3, <2>1 DEF Hold
    <3>2. holders'[x] \subseteq Workers
      BY <1>3, <2>1 DEF Hold
    <3>3. /\ Cardinality(holders'[x]) \in Nat
          /\ Cardinality(holders'[x]) <= Cardinality(Workers)
      BY <3>2, HoldersFinite
    <3> QED
      BY <3>1, <3>3, <1>c
  <2>2. CASE x # t
    BY <1>3, <2>2 DEF Hold
  <2> QED
    BY <2>1, <2>2
<1>4. ASSUME NEW t \in Tokens, NEW w \in Workers, Redeem(w, t)
      PROVE  Kept
  <2>1. CASE x = t
    <3>1. /\ uses'[x] = uses[x] + 1
          /\ holders'[x] = holders[x] \ {w}
          /\ w \in holders[x]
          /\ status'[x] = "gone"
      BY <1>4, <2>1 DEF Redeem
    <3>2. Cardinality(holders[x] \ {w}) = Cardinality(holders[x]) - 1
      BY <3>1, <1>c, FS_RemoveElement, Zenon
    <3>3. uses'[x] + Cardinality(holders'[x]) = uses[x] + Cardinality(holders[x])
      BY <3>1, <3>2, <1>c
    <3> QED
      BY <3>1, <3>3
  <2>2. CASE x # t
    BY <1>4, <2>2 DEF Redeem
  <2> QED
    BY <2>1, <2>2
<1>5. ASSUME NEW t \in Tokens, NEW w \in Workers, Release(w, t)
      PROVE  Kept
  <2>1. holders'[x] \subseteq holders[x]
    BY <1>5 DEF Release
  <2>2. /\ Cardinality(holders'[x]) \in Nat
        /\ Cardinality(holders'[x]) <= Cardinality(holders[x])
    BY <2>1, <1>c, FS_Subset, FS_CardinalityType
  <2> QED
    BY <1>5, <2>2, <1>c DEF Release
<1>6. CASE UNCHANGED vars
  BY <1>6 DEF vars
<1> QED
  BY <1>1, <1>2, <1>3, <1>4, <1>5, <1>6 DEF Next

(* However many requests race for a token, it is redeemed at most once per  *)
(* worker (verify.py:127, backup.py:68, grants.py:73), provided there are   *)
(* finitely many of them.                                                   *)
THEOREM BoundedUse ==
  ASSUME IsFiniteSet(Workers)
  PROVE  Spec => []UsesBounded
<1>1. Init => IInv
  BY InitIInv
<1>2. IInv /\ [Next]_vars => IInv'
  BY NextTypeOK, NextCounted DEF IInv
<1>3. IInv => UsesBounded
  <2> SUFFICES ASSUME IInv, NEW t \in Tokens
               PROVE  uses[t] <= Cardinality(Workers)
    BY DEF UsesBounded
  <2>1. Cardinality(holders[t]) \in Nat /\ Cardinality(Workers) \in Nat
    BY HoldersFinite DEF IInv, TypeOK
  <2> QED
    BY <2>1 DEF IInv, TypeOK, Counted
<1> QED
  BY <1>1, <1>2, <1>3, PTL DEF Spec
=============================================================================
