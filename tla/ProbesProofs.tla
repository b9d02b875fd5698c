---------------------------- MODULE ProbesProofs ----------------------------
(***************************************************************************)
(* Proofs about Probes for every number of workers.                        *)
(***************************************************************************)
EXTENDS Probes, FiniteSetTheorems, SequenceTheorems, TLAPS

(***************************************************************************)
(* The inductive invariant.  What Run promises speaks of the moment it     *)
(* returns, so all of it rests on the counter of the group being the       *)
(* number of workers inside, and on the mutex covering the whole append.   *)
(***************************************************************************)
Holding  == {"appending", "writing", "unlocking"}
Unbegun  == {"none", "waiting", "probing"}
Appended == {"unlocking", "leaving", "gone"}
Places   == Unbegun \cup {"failed"} \cup Holding \cup Appended

Inside == {w \in Workers : at[w] \notin {"none", "gone"}}

TypeOK ==
    /\ workers \in Int /\ spawned \in Nat /\ group \in Int /\ lock \in Int
    /\ pc \in {"spawn", "wait", "returned"}
    /\ start \in BOOLEAN /\ crashed \in BOOLEAN
    /\ errs \in Seq(Int)
    /\ at \in [Workers -> Places]
    /\ outcome \in [Workers -> {"open", "nil", "error", "exit"}]
    /\ seen \in [Workers -> Seq(Int)]

\* The workers created are the first ones, and the group counts those inside.
Created == \A w \in Workers : at[w] # "none" <=> w <= spawned
Counted == group = Cardinality(Inside)

\* The channel is closed when all of them are there, and none begins before.
Released ==
    /\ start => workers >= 1 /\ spawned = workers
    /\ pc = "wait" => start
    /\ \A w \in Workers : at[w] \notin {"none", "waiting"} => start

\* The mutex is held from before the read of the slice until after its write.
Exclusive ==
    /\ lock \in Workers \cup {Nobody}
    /\ \A w \in Workers : at[w] \in Holding <=> lock = w
    /\ \A w \in Workers : at[w] = "writing" => seen[w] = errs

Listed(w) == at[w] \in Appended /\ outcome[w] = "error"

\* Errors are of workers that appended one, and no worker is there twice.
Gathered ==
    /\ \A w \in Workers : Listed(w) <=> \E i \in 1 .. Len(errs) : errs[i] = w
    /\ \A w \in Workers : \A i, j \in 1 .. Len(errs) : errs[i] = w /\ errs[j] = w => i = j

Outcomes ==
    \A w \in Workers : /\ at[w] \in Unbegun <=> outcome[w] = "open"
                       /\ at[w] \in {"failed"} \cup Holding => outcome[w] = "error"

Returned == pc = "returned" /\ workers >= 1 => \A w \in Workers : at[w] = "gone"

IInv == /\ TypeOK /\ Created /\ Counted /\ Released /\ Exclusive
        /\ Gathered /\ Outcomes /\ Returned

-----------------------------------------------------------------------------
(***************************************************************************)
(* The counter.  Only a worker that comes or goes changes the set inside.  *)
(***************************************************************************)
LEMMA InsideFinite == TypeOK => IsFiniteSet(Inside)
<1>1. TypeOK => IsFiniteSet(Workers) /\ Inside \in SUBSET Workers
  BY FS_Interval DEF TypeOK, Workers, Inside
<1>2. QED
  BY <1>1, FS_Subset

\* A move that neither enters nor leaves the group leaves the count alone.
LEMMA InsideKept ==
    ASSUME TypeOK, Counted, UNCHANGED <<workers, group>>,
           \A w \in Workers : at'[w] \in {"none", "gone"} <=> at[w] \in {"none", "gone"}
    PROVE  Counted'
BY DEF Counted, Inside, Workers, TypeOK

-----------------------------------------------------------------------------
(***************************************************************************)
(* The caller's steps.                                                     *)
(***************************************************************************)
LEMMA RefuseKeeps == ASSUME IInv, Refuse PROVE IInv'
<1> USE DEF IInv, Refuse, own
<1>1. Workers = {} /\ Workers' = {}
  BY DEF TypeOK, Workers
<1>2. TypeOK'
  BY DEF TypeOK, Nobody, Workers
<1>3. Counted'
  BY InsideKept
<1>4. QED
  BY <1>1, <1>2, <1>3 DEF Created, Released, Exclusive, Gathered, Outcomes, Returned, Nobody, TypeOK

LEMMA SpawnKeeps == ASSUME IInv, Spawn PROVE IInv'
<1> USE DEF IInv, Spawn
<1>1. spawned + 1 \in Workers /\ Workers' = Workers /\ at[spawned + 1] = "none"
  BY DEF TypeOK, Workers, Created
<1>2. TypeOK'
  BY <1>1 DEF TypeOK, Places, Unbegun
<1>3. Created'
  BY <1>1 DEF TypeOK, Created, Workers
<1>4. Counted'
  <2>1. Inside' = Inside \cup {spawned + 1} /\ spawned + 1 \notin Inside
    BY <1>1 DEF TypeOK, Inside
  <2>2. QED
    BY <2>1, InsideFinite, FS_AddElement DEF Counted
<1>5. Released'
  BY <1>1 DEF TypeOK, Released
<1>6. Exclusive' /\ Gathered' /\ Outcomes' /\ Returned'
  BY <1>1 DEF TypeOK, Exclusive, Gathered, Listed, Outcomes, Returned, Holding, Appended, Unbegun
<1>7. QED
  BY <1>2, <1>3, <1>4, <1>5, <1>6

LEMMA ReleaseKeeps == ASSUME IInv, Release PROVE IInv'
<1> USE DEF IInv, Release, own
<1>1. Workers' = Workers /\ TypeOK'
  BY DEF TypeOK, Workers
<1>2. Counted'
  BY InsideKept
<1>3. QED
  BY <1>1, <1>2 DEF TypeOK, Created, Released, Exclusive, Gathered, Listed, Outcomes, Returned

\* The counter is zero and every worker was created: all of them are gone.
LEMMA WaitKeeps == ASSUME IInv, Wait PROVE IInv'
<1> USE DEF IInv, Wait, own
<1>1. Workers' = Workers /\ TypeOK'
  BY DEF TypeOK, Workers
<1>2. Counted'
  BY InsideKept
<1>3. Inside = {}
  BY InsideFinite, FS_EmptySet DEF Counted
<1>4. \A w \in Workers : at[w] = "gone"
  <2>1. \A w \in Workers : at[w] # "none"
    BY DEF Released, Created, Workers, TypeOK
  <2>2. \A w \in Workers : at[w] \in {"none", "gone"}
    BY <1>3 DEF Inside
  <2>3. QED
    BY <2>1, <2>2
<1>5. QED
  BY <1>1, <1>2, <1>4 DEF TypeOK, Created, Released, Exclusive, Gathered, Listed, Outcomes, Returned

-----------------------------------------------------------------------------
(***************************************************************************)
(* A worker's steps.                                                       *)
(***************************************************************************)
LEMMA StartKeeps == ASSUME IInv, NEW w \in Workers, Start(w) PROVE IInv'
<1> USE DEF IInv, Start, Move, shared
<1>1. Workers' = Workers /\ TypeOK'
  BY DEF TypeOK, Workers, Places, Unbegun
<1>2. Counted'
  BY InsideKept, <1>1 DEF TypeOK
<1>3. Created' /\ Released' /\ Returned'
  BY <1>1 DEF TypeOK, Created, Released, Returned
<1>4. Exclusive' /\ Gathered' /\ Outcomes'
  BY <1>1 DEF TypeOK, Exclusive, Gathered, Listed, Outcomes, Unbegun, Holding, Appended
<1>5. QED
  BY <1>1, <1>2, <1>3, <1>4

LEMMA FinishKeeps == ASSUME IInv, NEW w \in Workers, Finish(w) PROVE IInv'
<1> USE DEF IInv, Finish, Move, shared
<1>1. Workers' = Workers /\ TypeOK'
  BY DEF TypeOK, Workers, Places, Unbegun, Appended
<1>2. Counted'
  BY InsideKept, <1>1 DEF TypeOK
<1>3. Created' /\ Released' /\ Returned'
  BY <1>1 DEF TypeOK, Created, Released, Returned
<1>4. Exclusive' /\ Gathered' /\ Outcomes'
  BY <1>1 DEF TypeOK, Exclusive, Gathered, Listed, Outcomes, Unbegun, Holding, Appended
<1>5. QED
  BY <1>1, <1>2, <1>3, <1>4

LEMMA PanicKeeps == ASSUME IInv, NEW w \in Workers, Panic(w) PROVE IInv'
<1> USE DEF IInv, Panic, own
<1>1. Workers' = Workers /\ TypeOK'
  BY DEF TypeOK, Workers
<1>2. Counted'
  BY InsideKept
<1>3. QED
  BY <1>1, <1>2 DEF Created, Released, Exclusive, Gathered, Listed, Outcomes, Returned

LEMMA LockKeeps == ASSUME IInv, NEW w \in Workers, Lock(w) PROVE IInv'
<1> USE DEF IInv, Lock, Move
<1>1. Workers' = Workers /\ TypeOK'
  BY DEF TypeOK, Workers, Places, Holding
<1>2. Counted'
  BY InsideKept, <1>1 DEF TypeOK
<1>3. Created' /\ Released' /\ Returned'
  BY <1>1 DEF TypeOK, Created, Released, Returned
<1>4. Exclusive'
  BY <1>1 DEF TypeOK, Exclusive, Holding, Nobody, Workers
<1>5. Gathered' /\ Outcomes'
  BY <1>1 DEF TypeOK, Gathered, Listed, Outcomes, Unbegun, Holding, Appended
<1>6. QED
  BY <1>1, <1>2, <1>3, <1>4, <1>5

LEMMA ReadKeeps == ASSUME IInv, NEW w \in Workers, Read(w) PROVE IInv'
<1> USE DEF IInv, Read, Move, shared
<1>1. Workers' = Workers /\ TypeOK'
  BY DEF TypeOK, Workers, Places, Holding
<1>2. Counted'
  BY InsideKept, <1>1 DEF TypeOK
<1>3. Created' /\ Released' /\ Returned'
  BY <1>1 DEF TypeOK, Created, Released, Returned
<1>4. Exclusive' /\ Gathered' /\ Outcomes'
  BY <1>1 DEF TypeOK, Exclusive, Gathered, Listed, Outcomes, Unbegun, Holding, Appended
<1>5. QED
  BY <1>1, <1>2, <1>3, <1>4

\* What the worker writes back is the slice as it is, one error longer.
LEMMA WriteKeeps == ASSUME IInv, NEW w \in Workers, Write(w) PROVE IInv'
<1> USE DEF IInv, Write, Move
<1>1. Workers' = Workers /\ at \in [Workers -> Places] /\ w \in Int
  BY DEF TypeOK, Workers
<1>2. errs' = Append(errs, w) /\ lock = w
  BY DEF Exclusive, Holding
<1>3. /\ errs' \in Seq(Int) /\ Len(errs') = Len(errs) + 1 /\ errs'[Len(errs) + 1] = w
      /\ \A i \in 1 .. Len(errs) : errs'[i] = errs[i]
      /\ Len(errs) \in Nat
  BY <1>1, <1>2, AppendProperties DEF TypeOK
<1>4. TypeOK'
  BY <1>1, <1>3 DEF TypeOK, Places, Appended
<1>5. Counted'
  BY InsideKept, <1>1 DEF TypeOK
<1>6. Created' /\ Released' /\ Returned'
  BY <1>1 DEF Created, Released, Returned
<1>7. Exclusive' /\ Outcomes'
  BY <1>1, <1>2 DEF Exclusive, Outcomes, Holding, Unbegun
<1>8. \A i \in 1 .. Len(errs) : errs[i] # w
  BY DEF Gathered, Listed, Appended
<1>9. Gathered'
  <2>1. Listed(w)' /\ \E i \in 1 .. Len(errs') : errs'[i] = w
    BY <1>1, <1>3 DEF Listed, Appended, Outcomes, Holding
  <2>2. ASSUME NEW v \in Workers, v # w
        PROVE  Listed(v)' <=> \E i \in 1 .. Len(errs') : errs'[i] = v
    <3>1. Listed(v)' <=> Listed(v)
      BY <1>1, <2>2 DEF Listed
    <3>2. (\E i \in 1 .. Len(errs') : errs'[i] = v) <=> \E i \in 1 .. Len(errs) : errs[i] = v
      BY <1>3, <2>2
    <3>3. QED
      BY <3>1, <3>2 DEF Gathered
  <2> HIDE DEF IInv, Write, Move
  <2>3. ASSUME NEW v \in Workers, NEW i \in 1 .. Len(errs'), NEW j \in 1 .. Len(errs'),
               errs'[i] = v, errs'[j] = v
        PROVE  i = j
    <3>1. CASE v = w
      <4>1. i = Len(errs) + 1 /\ j = Len(errs) + 1
        BY <1>3, <1>8, <2>3, <3>1
      <4>2. QED
        BY <4>1
    <3>2. CASE v # w
      <4>1. /\ i \in 1 .. Len(errs) /\ errs[i] = v
            /\ j \in 1 .. Len(errs) /\ errs[j] = v
        <5>1. i # Len(errs) + 1 /\ j # Len(errs) + 1
          BY <1>3, <2>3, <3>2
        <5>2. i \in 1 .. Len(errs) /\ j \in 1 .. Len(errs)
          BY <1>3, <2>3, <5>1
        <5> QED
          BY <1>3, <2>3, <5>2
      <4>2. Gathered
        BY DEF IInv
      <4>3. QED
        BY <4>1, <4>2 DEF Gathered
    <3>3. QED
      BY <3>1, <3>2
  <2>4. \A v \in Workers : Listed(v)' <=> \E i \in 1 .. Len(errs') : errs'[i] = v
    BY <2>1, <2>2
  <2>5. QED
    BY <1>1, <2>3, <2>4 DEF Gathered, Listed
<1>10. QED
  BY <1>4, <1>5, <1>6, <1>7, <1>9

LEMMA UnlockKeeps == ASSUME IInv, NEW w \in Workers, Unlock(w) PROVE IInv'
<1> USE DEF IInv, Unlock, Move
<1>1. Workers' = Workers /\ TypeOK'
  BY DEF TypeOK, Workers, Places, Appended, Nobody
<1>2. Counted'
  BY InsideKept, <1>1 DEF TypeOK
<1>3. Created' /\ Released' /\ Returned'
  BY <1>1 DEF TypeOK, Created, Released, Returned
<1>4. Exclusive'
  BY <1>1 DEF TypeOK, Exclusive, Holding, Nobody, Workers
<1>5. Gathered' /\ Outcomes'
  BY <1>1 DEF TypeOK, Gathered, Listed, Outcomes, Unbegun, Holding, Appended
<1>6. QED
  BY <1>1, <1>2, <1>3, <1>4, <1>5

LEMMA DoneKeeps == ASSUME IInv, NEW w \in Workers, Done(w) PROVE IInv'
<1> USE DEF IInv, Done, Move
<1>1. Workers' = Workers /\ TypeOK'
  BY DEF TypeOK, Workers, Places, Appended
<1>2. Counted'
  <2>1. Inside' = Inside \ {w} /\ w \in Inside
    BY <1>1 DEF TypeOK, Inside
  <2>2. QED
    BY <2>1, InsideFinite, FS_RemoveElement DEF Counted
<1>3. Created' /\ Released' /\ Returned'
  BY <1>1 DEF TypeOK, Created, Released, Returned
<1>4. Exclusive' /\ Gathered' /\ Outcomes'
  BY <1>1 DEF TypeOK, Exclusive, Gathered, Listed, Outcomes, Unbegun, Holding, Appended
<1>5. QED
  BY <1>1, <1>2, <1>3, <1>4

-----------------------------------------------------------------------------
(***************************************************************************)
(* The invariant, and what follows from it.                                *)
(***************************************************************************)
LEMMA InitEstablishes == Init => IInv
<1> SUFFICES ASSUME Init PROVE IInv
  OBVIOUS
<1> USE NAssumption DEF Init, IInv
<1>1. TypeOK
  <2>1. workers \in Int
    OBVIOUS
  <2>2. << >> \in Seq(Int)
    BY EmptySeq
  <2>3. seen \in [Workers -> Seq(Int)]
    BY <2>2
  <2>4. at \in [Workers -> Places] /\ outcome \in [Workers -> {"open", "nil", "error", "exit"}]
    BY DEF Places, Unbegun
  <2>5. errs \in Seq(Int)
    BY <2>2
  <2>6. spawned \in Nat /\ group \in Int /\ lock \in Int
    BY DEF Nobody
  <2>7. start \in BOOLEAN /\ crashed \in BOOLEAN
    BY Zenon
  <2>8. QED
    BY <2>1, <2>3, <2>4, <2>5, <2>6, <2>7 DEF TypeOK
<1>2. Counted
  <2>1. Inside = {}
    BY DEF Inside
  <2>2. QED
    BY <2>1, FS_EmptySet DEF Counted
<1>3. Len(errs) = 0
  OBVIOUS
<1>4. QED
  BY <1>1, <1>2, <1>3 DEF Created, Released, Exclusive, Gathered, Listed, Outcomes, Returned,
                          Nobody, Workers, Holding, Unbegun, Appended

LEMMA StepKeeps == IInv /\ [Next]_vars => IInv'
<1> SUFFICES ASSUME IInv, [Next]_vars PROVE IInv'
  OBVIOUS
<1>1. CASE Caller
  BY <1>1, RefuseKeeps, SpawnKeeps, ReleaseKeeps, WaitKeeps DEF Caller
<1>2. CASE \E w \in Workers : Worker(w)
  BY <1>2, StartKeeps, FinishKeeps, PanicKeeps, LockKeeps, ReadKeeps, WriteKeeps,
     UnlockKeeps, DoneKeeps DEF Worker, Advance
<1>3. CASE UNCHANGED vars
  BY <1>3 DEF vars, shared, own, IInv, TypeOK, Created, Counted, Inside, Released, Exclusive,
              Gathered, Listed, Outcomes, Returned, Workers
<1>4. QED
  BY <1>1, <1>2, <1>3 DEF Next, Over

\* The inductive invariant holds of every run: the types, the counter of the
\* WaitGroup, the mutex over the append and the contents of the shared slice
\* (probe.go:11-37).
THEOREM InvariantHolds == Spec => []IInv
  BY InitEstablishes, StepKeeps, PTL DEF Spec

\* For every number of workers: when Run returns, the error of each worker that
\* failed is in the list exactly once, and nothing of a worker that did not
\* (probe.go:12, 26-30).
THEOREM ErrorsAreGathered == Spec => []EveryErrorOnce
<1>1. IInv => EveryErrorOnce
  <2> SUFFICES ASSUME IInv, pc = "returned", workers >= 1, NEW w \in Workers
               PROVE  Cardinality({i \in 1 .. Len(errs) : errs[i] = w}) =
                          IF outcome[w] = "error" THEN 1 ELSE 0
    BY DEF EveryErrorOnce
  <2> DEFINE I == {i \in 1 .. Len(errs) : errs[i] = w}
  <2>1. at[w] = "gone"
    BY DEF IInv, Returned
  <2>2. outcome[w] = "error" <=> \E i \in 1 .. Len(errs) : errs[i] = w
    BY <2>1 DEF IInv, Gathered, Listed, Appended
  <2>3. CASE outcome[w] = "error"
    <3>1. PICK i \in 1 .. Len(errs) : errs[i] = w
      BY <2>2, <2>3
    <3>2. I = {i}
      BY <3>1 DEF IInv, Gathered
    <3>3. QED
      BY <2>3, <3>2, FS_Singleton
  <2>4. CASE outcome[w] # "error"
    <3>1. I = {}
      BY <2>2, <2>4
    <3>2. QED
      BY <2>4, <3>1, FS_EmptySet
  <2>5. QED
    BY <2>3, <2>4
<1>2. QED
  BY <1>1, InvariantHolds, PTL

\* For every number of workers: Run returns only when every worker it was asked
\* for has been created, has come to an end and has left (probe.go:21-24, 34).
THEOREM NothingOutlivesRun == Spec => []NothingGoesOn
<1>1. IInv => NothingGoesOn
  <2> SUFFICES ASSUME IInv, pc = "returned", NEW w \in Workers
               PROVE  at[w] = "gone" /\ outcome[w] # "open"
    BY DEF NothingGoesOn
  <2>1. workers >= 1
    BY DEF IInv, TypeOK, Workers
  <2>2. at[w] = "gone"
    BY <2>1 DEF IInv, Returned
  <2>3. QED
    BY <2>2 DEF IInv, Outcomes, Unbegun
<1>2. QED
  BY <1>1, InvariantHolds, PTL

\* For every number of workers: none begins its probe before the last of them
\* has been created (probe.go:12, 17, 25, 33).
THEOREM ProbesStartTogether == Spec => []StartTogether
<1>1. IInv => StartTogether
  BY DEF IInv, TypeOK, StartTogether, Released, Created, Workers
<1>2. QED
  BY <1>1, InvariantHolds, PTL

\* The mutex: at any time at most one worker is between the read of the slice
\* and the release (probe.go:27-29).
THEOREM OneAppendAtATime ==
    Spec => [](\A v, w \in Workers : at[v] \in Holding /\ at[w] \in Holding => v = w)
<1>1. IInv => \A v, w \in Workers : at[v] \in Holding /\ at[w] \in Holding => v = w
  BY DEF IInv, Exclusive
<1>2. QED
  BY <1>1, InvariantHolds, PTL
=============================================================================
