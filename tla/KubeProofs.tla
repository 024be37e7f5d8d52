----------------------------- MODULE KubeProofs -----------------------------
(***************************************************************************)
(* What a write, a watch event and a list do to the versions of an object,  *)
(* whatever the versions are: the lemmas that the proofs about the three    *)
(* controllers share.                                                       *)
(***************************************************************************)
EXTENDS KubeAPI, SequenceTheorems, TLAPS

\* Logs of versions in V.
Logs(V) == [Names -> Seq(V) \ {<<>>}]

Index(n) == 1 .. Len(log[n])

\* One object's log, and what fresh says of it.
LEMMA KubeLog ==
  ASSUME NEW V, log \in Logs(V), NEW n \in Names
  PROVE  /\ log[n] \in Seq(V)
         /\ Len(log[n]) \in Nat \ {0}
         /\ 1 \in Index(n) /\ Len(log[n]) \in Index(n)
         /\ \A i \in Index(n) : log[n][i] \in V
         /\ cached(n) \in V /\ stored(n) \in V
         /\ fresh(n) \in BOOLEAN
         /\ fresh(n) => cached(n) = stored(n)
<1>1. log[n] \in Seq(V) /\ log[n] # <<>>
  BY DEF Logs
<1>2. Len(log[n]) \in Nat \ {0}
  BY <1>1, EmptySeq
<1>3. \A i \in Index(n) : log[n][i] \in V
  BY <1>1, ElementOfSeq DEF Index
<1>4. 1 \in Index(n) /\ Len(log[n]) \in Index(n)
  BY <1>2 DEF Index
<1> QED
  BY <1>1, <1>2, <1>3, <1>4 DEF cached, stored, fresh

\* At the start no object exists and the cache knows it.
LEMMA KubeStart ==
  ASSUME NEW V, NoObject \in V, KubeInit
  PROVE  /\ log \in Logs(V) /\ queue = {}
         /\ \A n \in Names : /\ stored(n) = NoObject /\ cached(n) = NoObject
                             /\ fresh(n)
<1>1. <<NoObject>> \in Seq(V) \ {<<>>}
  OBVIOUS
<1>2. \A n \in Names : log[n] = <<NoObject>>
  BY DEF KubeInit
<1>3. log \in Logs(V) /\ queue = {}
  BY <1>1 DEF KubeInit, Logs
<1>4. Len(<<NoObject>>) = 1 /\ <<NoObject>>[1] = NoObject
  OBVIOUS
<1> QED
  BY <1>2, <1>3, <1>4 DEF stored, cached, fresh

\* A write adds one version to one log, or changes nothing.
LEMMA KubeStore ==
  ASSUME NEW V, log \in Logs(V), NEW n \in Names, NEW v \in V, Store(n, v)
  PROVE  /\ log' \in Logs(V)
         /\ stored(n)' = v /\ cached(n)' = cached(n)
         /\ \A m \in Names \ {n} : log'[m] = log[m]
         /\ Len(log[n]) <= Len(log'[n])
         /\ \A i \in Index(n) : log'[n][i] = log[n][i]
         /\ \A i \in Index(n)' \ Index(n) :
              i = Len(log'[n]) /\ log'[n][i] = v
         /\ v # stored(n) => ~fresh(n)'
         /\ ~fresh(n) => ~fresh(n)'
<1>1. log' = [log EXCEPT ![n] = IF v = stored(n) THEN @ ELSE Append(@, v)]
  BY DEF Store
<1>2. /\ log[n] \in Seq(V) /\ Len(log[n]) \in Nat \ {0}
      /\ 1 \in Index(n)
  BY KubeLog
<1>3. CASE v = stored(n)
  <2>1. log' = log
    BY <1>1, <1>3 DEF Logs
  <2> QED
    BY <2>1, <1>2, <1>3 DEF stored, cached, Index, fresh
<1>4. CASE v # stored(n)
  <2>1. /\ log'[n] = Append(log[n], v)
        /\ \A m \in Names \ {n} : log'[m] = log[m]
        /\ DOMAIN log' = Names
        /\ log' = [m \in Names |-> log'[m]]
    BY <1>1, <1>4 DEF Logs
  <2>2. /\ Append(log[n], v) \in Seq(V)
        /\ Append(log[n], v) # <<>>
        /\ Len(Append(log[n], v)) = Len(log[n]) + 1
        /\ \A i \in 1 .. Len(log[n]) : Append(log[n], v)[i] = log[n][i]
        /\ Append(log[n], v)[Len(log[n]) + 1] = v
    BY <1>2, AppendProperties
  <2>3. \A m \in Names : log'[m] \in Seq(V) \ {<<>>}
    BY <2>1, <2>2 DEF Logs
  <2>4. log' \in Logs(V)
    BY <2>1, <2>3 DEF Logs
  <2> QED
    BY <2>1, <2>2, <2>4, <1>2 DEF stored, cached, Index, fresh
<1> QED
  BY <1>3, <1>4

\* A delivery drops the first version of one log.
LEMMA KubeDeliver ==
  ASSUME NEW V, log \in Logs(V), NEW n \in Names, Deliver(n)
  PROVE  /\ log' \in Logs(V) /\ queue' = queue \cup {n}
         /\ stored(n)' = stored(n)
         /\ \A m \in Names \ {n} : log'[m] = log[m]
         /\ Len(log'[n]) = Len(log[n]) - 1
         /\ \A i \in Index(n)' : i + 1 \in Index(n) /\ log'[n][i] = log[n][i + 1]
<1>1. /\ log[n] \in Seq(V) /\ Len(log[n]) \in Nat \ {0}
  BY KubeLog
<1>2. /\ Len(log[n]) # 1
      /\ log'[n] = Tail(log[n])
      /\ \A m \in Names \ {n} : log'[m] = log[m]
      /\ DOMAIN log' = Names
      /\ log' = [m \in Names |-> log'[m]]
  BY DEF Deliver, fresh, Logs
<1>3. log[n] # <<>>
  BY DEF Logs
<1>4. /\ Tail(log[n]) \in Seq(V)
      /\ Len(Tail(log[n])) = Len(log[n]) - 1
      /\ \A i \in 1 .. Len(Tail(log[n])) : Tail(log[n])[i] = log[n][i + 1]
  BY <1>1, <1>3, HeadTailProperties
<1>5. Tail(log[n]) # <<>>
  <2>1. Len(Tail(log[n])) # 0
    BY <1>1, <1>2, <1>4
  <2>2. Len(<<>>) = 0
    OBVIOUS
  <2> QED
    BY <2>1, <2>2
<1>6. \A m \in Names : log'[m] \in Seq(V) \ {<<>>}
  BY <1>2, <1>4, <1>5 DEF Logs
<1>7. log' \in Logs(V)
  BY <1>2, <1>6 DEF Logs
<1>8. \A i \in Index(n)' : i + 1 \in Index(n) /\ log'[n][i] = log[n][i + 1]
  BY <1>1, <1>2, <1>4 DEF Index
<1>9. stored(n)' = stored(n)
  <2>1. Len(log'[n]) \in Nat /\ Len(log'[n]) + 1 = Len(log[n])
    BY <1>1, <1>2, <1>4
  <2>2. Len(log'[n]) >= 1
    <3>1. Len(log[n]) # 1
      BY <1>2
    <3>2. \A a, b \in Nat : a + 1 = b /\ b # 1 /\ b # 0 => a >= 1
      OBVIOUS
    <3> QED
      BY <2>1, <3>1, <3>2, <1>1
  <2>3. Len(log'[n]) \in Index(n)'
    BY <2>1, <2>2 DEF Index
  <2> QED
    BY <2>1, <2>3, <1>8 DEF stored
<1>10. queue' = queue \cup {n}
  BY DEF Deliver
<1> QED
  BY <1>2, <1>4, <1>7, <1>8, <1>9, <1>10

\* A list leaves the stored version of every object.
LEMMA KubeRelist ==
  ASSUME NEW V, log \in Logs(V), Relist
  PROVE  /\ log' \in Logs(V)
         /\ queue' = {n \in Names : stored(n) # NoObject}
         /\ \A n \in Names : /\ stored(n)' = stored(n) /\ Len(log'[n]) = 1
                             /\ log'[n][1] = stored(n)
                             /\ fresh(n)'
<1>1. log' = [n \in Names |-> <<stored(n)>>]
  BY DEF Relist
<1>2. \A n \in Names : stored(n) \in V
  BY KubeLog
<1>3. \A n \in Names : /\ log'[n] = <<stored(n)>>
                       /\ <<stored(n)>> \in Seq(V) \ {<<>>}
  BY <1>1, <1>2
<1>4. log' \in Logs(V)
  BY <1>1, <1>3 DEF Logs
<1>5. \A n \in Names : Len(log'[n]) = 1 /\ log'[n][1] = stored(n)
  BY <1>3
<1>6. queue' = {n \in Names : stored(n) # NoObject}
  BY DEF Relist
<1> QED
  BY <1>4, <1>5, <1>6 DEF stored, fresh

-----------------------------------------------------------------------------
(* The same by object: what is stored, what is cached and whether they are  *)
(* the same, which is all that a controller without a history needs.        *)

LEMMA StoreEffect ==
  ASSUME NEW V, log \in Logs(V), NEW n \in Names, NEW v \in V, Store(n, v)
  PROVE  /\ log' \in Logs(V)
         /\ \A m \in Names : /\ stored(m)' = IF m = n THEN v ELSE stored(m)
                             /\ cached(m)' = cached(m)
                             /\ fresh(m)' => fresh(m)
         /\ v # stored(n) => ~fresh(n)'
<1>1. \A m \in Names \ {n} : /\ stored(m)' = stored(m)
                             /\ cached(m)' = cached(m) /\ fresh(m)' = fresh(m)
  BY KubeStore DEF stored, cached, fresh
<1> QED
  BY <1>1, KubeStore

LEMMA DeliverEffect ==
  ASSUME NEW V, log \in Logs(V), NEW n \in Names, Deliver(n)
  PROVE  /\ log' \in Logs(V) /\ queue' = queue \cup {n}
         /\ \A m \in Names : stored(m)' = stored(m)
         /\ \A m \in Names \ {n} : cached(m)' = cached(m) /\ fresh(m)' = fresh(m)
<1>1. \A m \in Names \ {n} : /\ stored(m)' = stored(m)
                             /\ cached(m)' = cached(m) /\ fresh(m)' = fresh(m)
  BY KubeDeliver DEF stored, cached, fresh
<1> QED
  BY <1>1, KubeDeliver
=============================================================================
