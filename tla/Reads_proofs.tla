---------------------------- MODULE Reads_proofs ----------------------------
(***************************************************************************)
(* Proofs about the message cache, for any finite set of keys, any         *)
(* capacity, time to live and bounds; about paging through any mailbox of  *)
(* Microsoft 365, whatever the size of a page; about the walk over the     *)
(* parts of any Gmail message; and about its address headers.              *)
(***************************************************************************)
EXTENDS Reads, Sequences, SequenceTheorems, FiniteSetTheorems, WellFoundedInduction, TLAPS
------------------------------------------------------------------------------
(***************************************************************************)
(* The message cache.                                                      *)
(***************************************************************************)
\* The keys used after k.
After(u, k) == {j \in Keys : u[j] > u[k]}

\* A use is stamped with the number of its operation, a key that is cached
\* has been used, and no two uses have the same number.
Stamped ==
  /\ \A k \in Keys : used[k] <= ops
  /\ \A k \in Keys : entry[k].value # None => used[k] > 0
  /\ \A j, k \in Keys : used[j] = used[k] /\ used[k] > 0 => j = k

\* What is cached is what was put last.
Agrees == \A k \in Keys : entry[k].value # None => entry[k] = latest[k]

\* What is missing although it is fresh was displaced by Capacity others.
Displaced ==
  \A k \in Keys :
    Fresh(latest[k]) /\ entry[k] # latest[k] => Cardinality(After(used, k)) >= Capacity

Fits == Cardinality(Cached) <= Capacity

IInv == TypeOK /\ Stamped /\ Agrees /\ Displaced /\ Fits
------------------------------------------------------------------------------
(***************************************************************************)
(* Sets of keys.                                                           *)
(***************************************************************************)
\* Every set of keys is finite, and a larger one has no fewer elements.
LEMMA KeySets ==
  ASSUME NEW S, NEW T, S \subseteq T, T \subseteq Keys
  PROVE  /\ IsFiniteSet(S) /\ IsFiniteSet(T)
         /\ Cardinality(S) \in Nat /\ Cardinality(T) \in Nat
         /\ Cardinality(S) <= Cardinality(T)
<1>1. IsFiniteSet(T)
  BY KeysFinite, FS_Subset
<1>2. IsFiniteSet(S) /\ Cardinality(S) <= Cardinality(T)
  BY <1>1, FS_Subset
<1> QED
  BY <1>1, <1>2, FS_CardinalityType

\* One element for another leaves the number of elements.
LEMMA SwapElement ==
  ASSUME NEW S, IsFiniteSet(S), NEW v \in S, NEW k, k \notin S
  PROVE  Cardinality((S \ {v}) \union {k}) = Cardinality(S)
<1> DEFINE T == S \ {v}
<1>1. IsFiniteSet(T) /\ Cardinality(T) = Cardinality(S) - 1
  BY FS_RemoveElement
<1>2. Cardinality(S) \in Nat
  BY FS_CardinalityType
<1>3. k \notin T
  OBVIOUS
<1> HIDE DEF T
<1>4. Cardinality(T \union {k}) = Cardinality(T) + 1
  BY <1>1, <1>3, FS_AddElement
<1>5. Cardinality(T \union {k}) = Cardinality(S)
  BY <1>1, <1>2, <1>4
<1> QED
  BY <1>5 DEF T

\* Among keys with stamps one has the least.
LEMMA LeastStamp ==
  ASSUME NEW S, S # {}, NEW f, \A s \in S : f[s] \in Nat
  PROVE  \E m \in S : \A j \in S : f[m] <= f[j]
<1> DEFINE T == {f[s] : s \in S}
           R == OpToRel(<, Nat)
<1>1. T \subseteq Nat /\ T # {}
  OBVIOUS
<1>2. PICK x \in T : \A y \in T : ~ (<<y, x>> \in R)
  <2> HIDE DEF T, R
  <2>1. IsWellFoundedOn(R, Nat)
    BY NatLessThanWellFounded DEF R
  <2> QED
    BY <1>1, <2>1, WFMin
<1>3. \A y \in T : x <= y
  <2> SUFFICES ASSUME NEW y \in T PROVE x <= y
    OBVIOUS
  <2>1. x \in Nat /\ y \in Nat
    BY <1>1
  <2>2. ~(y < x)
    BY <1>2, <2>1 DEF OpToRel
  <2> QED
    BY <2>1, <2>2
<1> QED
  BY <1>3
------------------------------------------------------------------------------
(***************************************************************************)
(* The invariant holds at the start.                                       *)
(***************************************************************************)
LEMMA InitIInv == Init => IInv
<1> SUFFICES ASSUME Init PROVE IInv
  OBVIOUS
<1>1. TypeOK
  BY DEF Init, TypeOK, Entry, NoEntry
<1>2. Stamped /\ Agrees /\ Displaced
  BY DEF Init, Stamped, Agrees, Displaced, Fresh, NoEntry
<1>3. Fits
  <2>1. Cached = {}
    BY DEF Cached, Init, NoEntry
  <2> QED
    BY <2>1, FS_EmptySet, CapacityPos DEF Fits
<1> QED
  BY <1>1, <1>2, <1>3 DEF IInv

(***************************************************************************)
(* A use gives the key the greatest stamp; what came after another key     *)
(* still does, and the used key besides.                                   *)
(***************************************************************************)
LEMMA UseStamps ==
  ASSUME TypeOK, Stamped, NEW k \in Keys, Use(k)
  PROVE  /\ used' \in [Keys -> Nat] /\ ops' \in Nat
         /\ \A j \in Keys : used'[j] <= ops'
         /\ used'[k] > 0
         /\ \A j \in Keys \ {k} : used'[j] = used[j]
         /\ \A i, j \in Keys : used'[i] = used'[j] /\ used'[j] > 0 => i = j
         /\ \A j \in Keys \ {k} :
              /\ After(used, j) \union {k} \subseteq After(used', j)
              /\ Cardinality(After(used, j)) <= Cardinality(After(used', j))
<1>1. /\ used' \in [Keys -> Nat] /\ ops' \in Nat
      /\ used'[k] = ops + 1 /\ ops' = ops + 1
      /\ \A j \in Keys \ {k} : used'[j] = used[j] /\ used[j] <= ops
      /\ used \in [Keys -> Nat] /\ ops \in Nat
  BY DEF TypeOK, Stamped, Use
<1>2. \A j \in Keys : used'[j] <= ops'
  BY <1>1
<1>3. \A i, j \in Keys : used'[i] = used'[j] /\ used'[j] > 0 => i = j
  <2> SUFFICES ASSUME NEW i \in Keys, NEW j \in Keys,
                      used'[i] = used'[j], used'[j] > 0
               PROVE  i = j
    OBVIOUS
  <2>1. CASE i = k \/ j = k
    BY <1>1, <2>1
  <2>2. CASE i # k /\ j # k
    BY <1>1, <2>2 DEF Stamped
  <2> QED
    BY <2>1, <2>2
<1>4. ASSUME NEW j \in Keys \ {k}
      PROVE  /\ After(used, j) \union {k} \subseteq After(used', j)
             /\ Cardinality(After(used, j)) <= Cardinality(After(used', j))
  <2>1. After(used, j) \union {k} \subseteq After(used', j)
    <3>1. ASSUME NEW i \in After(used, j) \union {k} PROVE i \in After(used', j)
      <4>1. CASE i = k
        BY <1>1, <4>1 DEF After
      <4>2. CASE i # k
        BY <1>1, <3>1, <4>2 DEF After
      <4> QED
        BY <4>1, <4>2
    <3> QED
      BY <3>1
  <2>2. After(used', j) \subseteq Keys /\ After(used, j) \subseteq After(used', j)
    BY <2>1 DEF After
  <2> QED
    BY <2>1, <2>2, KeySets
<1> QED
  BY <1>1, <1>2, <1>3, <1>4
------------------------------------------------------------------------------
(***************************************************************************)
(* Put.  The one step that can displace an entry.                          *)
(***************************************************************************)
LEMMA PutIInv ==
  ASSUME IInv, NEW k \in Keys, NEW x \in Values, Put(k, x)
  PROVE  IInv'
<1> DEFINE e == [value |-> x, inserted |-> now]
<1> USE DEF IInv
<1>1. /\ e \in Entry /\ e.value # None /\ NoEntry \in Entry /\ NoEntry.value = None
  BY NoneNoValue DEF TypeOK, Entry, NoEntry
<1>2. /\ entry' = [j \in Keys |-> IF j = k THEN e
                                  ELSE IF j \in Victim(k) THEN NoEntry ELSE entry[j]]
      /\ latest' = [latest EXCEPT ![k] = e]
      /\ now' = now /\ answer' = answer /\ Use(k)
  BY DEF Put
<1> HIDE DEF e
<1>3. TypeOK'
  BY <1>1, <1>2, UseStamps DEF TypeOK
<1>4. \A j \in Keys \ {k} : entry'[j] = NoEntry \/ entry'[j] = entry[j]
  BY <1>2
<1>5. entry'[k] = e /\ latest'[k] = e /\ \A j \in Keys \ {k} : latest'[j] = latest[j]
  BY <1>2 DEF TypeOK
<1>6. Stamped'
  BY <1>1, <1>2, <1>4, UseStamps DEF Stamped
<1>7. Agrees'
  BY <1>1, <1>4, <1>5 DEF Agrees
<1>8. \A j \in Keys : used[j] \in Nat
  BY DEF TypeOK
<1>9. Displaced'
  <2> SUFFICES ASSUME NEW j \in Keys, Fresh(latest[j])', entry'[j] # latest'[j]
               PROVE  Cardinality(After(used', j)) >= Capacity
    BY DEF Displaced
  <2>1. j # k
    BY <1>5
  <2>2. Fresh(latest[j])
    BY <1>2, <1>5, <2>1 DEF Fresh
  <2>3. /\ After(used, j) \union {k} \subseteq After(used', j)
        /\ Cardinality(After(used, j)) <= Cardinality(After(used', j))
        /\ After(used, j) \subseteq Keys /\ After(used', j) \subseteq Keys
    BY <1>2, <2>1, UseStamps DEF After
  <2>4. Cardinality(After(used, j)) \in Nat /\ Cardinality(After(used', j)) \in Nat
    BY <2>3, KeySets
  <2>5. CASE entry[j] # latest[j]
    BY <2>2, <2>3, <2>4, <2>5, CapacityPos DEF Displaced
  <2>6. CASE entry[j] = latest[j]
    <3>1. j \in Victim(k)
      BY <1>2, <1>5, <2>1, <2>6
    <3>2. /\ k \notin Cached /\ ~(Cardinality(Cached) < Capacity) /\ j \in Cached
          /\ \A i \in Cached : used[j] <= used[i]
      BY <3>1 DEF Victim
    <3>3. \A i \in Cached \ {j} : used[i] > used[j]
      <4> SUFFICES ASSUME NEW i \in Cached \ {j} PROVE used[i] > used[j]
        OBVIOUS
      <4>1. used[i] # used[j] /\ used[j] <= used[i]
        BY <3>2 DEF Stamped, Cached
      <4> QED
        BY <1>8, <4>1 DEF Cached
    <3>4. (Cached \ {j}) \union {k} \subseteq After(used', j)
      BY <2>3, <3>3 DEF After, Cached
    <3>5. IsFiniteSet(Cached) /\ Cardinality(Cached) \in Nat
      BY KeySets DEF Cached
    <3>7. Cardinality((Cached \ {j}) \union {k}) = Cardinality(Cached)
      BY <3>2, <3>5, SwapElement
    <3>8. Cardinality((Cached \ {j}) \union {k}) <= Cardinality(After(used', j))
      BY <2>3, <3>4, KeySets
    <3> QED
      BY <2>4, <3>2, <3>5, <3>7, <3>8, CapacityPos
  <2> QED
    BY <2>5, <2>6
<1>10. Fits'
  <2>1. /\ Cached' \subseteq Cached \union {k} /\ Cached' \subseteq Keys
        /\ Cached \subseteq Keys
    BY <1>1, <1>4 DEF Cached
  <2>2. IsFiniteSet(Cached) /\ Cardinality(Cached) \in Nat
    BY <2>1, KeySets
  <2>3. CASE k \in Cached
    BY <2>1, <2>2, <2>3, KeySets, CapacityPos DEF Fits
  <2>4. CASE k \notin Cached /\ Cardinality(Cached) < Capacity
    <3>1. Cardinality(Cached \union {k}) = Cardinality(Cached) + 1
      BY <2>2, <2>4, FS_AddElement
    <3>2. Cardinality(Cached') <= Cardinality(Cached \union {k}) /\ Cardinality(Cached') \in Nat
      BY <2>1, KeySets
    <3> QED
      BY <2>2, <2>4, <3>1, <3>2, CapacityPos DEF Fits
  <2>5. CASE k \notin Cached /\ ~(Cardinality(Cached) < Capacity)
    <3>1. Cached # {}
      BY <2>5, FS_EmptySet, CapacityPos
    <3>2. PICK v \in Cached : \A j \in Cached : used[v] <= used[j]
      BY <1>8, <2>1, <3>1, LeastStamp
    <3>3. v \in Victim(k)
      BY <2>5, <3>2 DEF Victim
    <3>4. Cached' \subseteq (Cached \ {v}) \union {k}
      BY <1>1, <1>2, <2>1, <2>5, <3>3 DEF Cached
    <3>6. Cardinality((Cached \ {v}) \union {k}) = Cardinality(Cached)
      BY <2>2, <2>5, SwapElement
    <3>7. Cardinality(Cached') <= Cardinality((Cached \ {v}) \union {k}) /\ Cardinality(Cached') \in Nat
      BY <2>1, <3>4, KeySets
    <3> QED
      BY <2>2, <3>6, <3>7, CapacityPos DEF Fits
  <2> QED
    BY <2>3, <2>4, <2>5
<1> QED
  BY <1>3, <1>6, <1>7, <1>9, <1>10

(***************************************************************************)
(* A hit makes the key the latest used; what is cached does not change.    *)
(***************************************************************************)
LEMMA HitIInv ==
  ASSUME IInv, NEW k \in Keys, Hit(k)
  PROVE  IInv'
<1> USE DEF IInv
<1>1. /\ entry' = entry /\ latest' = latest /\ now' = now /\ Use(k)
      /\ answer' = [answer EXCEPT ![k] = entry[k].value]
      /\ entry[k].value # None
  BY DEF Hit, Fresh
<1>2. TypeOK'
  BY <1>1, UseStamps DEF TypeOK, Entry
<1>3. Stamped'
  BY <1>1, UseStamps DEF Stamped
<1>4. Agrees' /\ Fits'
  BY <1>1 DEF Agrees, Fits, Cached
<1>5. Displaced'
  <2> SUFFICES ASSUME NEW j \in Keys, Fresh(latest[j]), entry[j] # latest[j]
               PROVE  Cardinality(After(used', j)) >= Capacity
    BY <1>1 DEF Displaced, Fresh
  <2>1. j # k
    BY <1>1 DEF Agrees
  <2>2. Cardinality(After(used, j)) <= Cardinality(After(used', j))
    BY <1>1, <2>1, UseStamps
  <2>3. Cardinality(After(used, j)) \in Nat /\ Cardinality(After(used', j)) \in Nat
    BY KeySets DEF After
  <2> QED
    BY <2>2, <2>3, CapacityPos DEF Displaced
<1> QED
  BY <1>2, <1>3, <1>4, <1>5

(***************************************************************************)
(* The other steps use no key: they may only empty entries, and only ones  *)
(* that are not fresh or that were invalidated.                            *)
(***************************************************************************)
LEMMA EmptyIInv ==
  ASSUME IInv, TypeOK', used' = used, ops' = ops,
         \A k \in Keys : entry'[k] = entry[k] \/ entry'[k] = NoEntry,
         \A k \in Keys : Fresh(latest[k])' =>
            /\ Fresh(latest[k]) /\ latest'[k] = latest[k]
            /\ entry'[k] = entry[k] \/ entry[k] # latest[k],
         \A k \in Keys : entry'[k].value # None => latest'[k] = latest[k]
  PROVE  IInv'
<1> USE DEF IInv
<1>1. Stamped'
  BY DEF Stamped, NoEntry
<1>2. Agrees'
  BY DEF Agrees, NoEntry
<1>3. Displaced'
  BY DEF Displaced, After
<1>4. Fits'
  <2>1. Cached' \subseteq Cached /\ Cached \subseteq Keys
    BY DEF Cached, NoEntry
  <2> QED
    BY <2>1, KeySets, CapacityPos DEF Fits
<1> QED
  BY <1>1, <1>2, <1>3, <1>4
(***************************************************************************)
(* Every step keeps the invariant.                                         *)
(***************************************************************************)
LEMMA NextIInv == IInv /\ [Next]_vars => IInv'
<1> SUFFICES ASSUME IInv, [Next]_vars PROVE IInv'
  OBVIOUS
<1>0. TypeOK
  BY DEF IInv
<1>1. ASSUME NEW k \in Keys, NEW x \in Values, Put(k, x) PROVE IInv'
  BY <1>1, PutIInv
<1>2. ASSUME NEW k \in Keys, Hit(k) PROVE IInv'
  BY <1>2, HitIInv
<1>3. ASSUME NEW k \in Keys, Miss(k) PROVE IInv'
  <2>1. /\ entry' = [entry EXCEPT ![k] = NoEntry] /\ ~Fresh(entry[k])
        /\ answer' = [answer EXCEPT ![k] = None]
        /\ used' = used /\ ops' = ops /\ latest' = latest /\ now' = now
    BY <1>3 DEF Miss
  <2>2. TypeOK'
    BY <1>0, <2>1 DEF TypeOK, Entry, NoEntry
  <2>3. \A j \in Keys : entry'[j] = (IF j = k THEN NoEntry ELSE entry[j])
    BY <1>0, <2>1 DEF TypeOK
  <2>4. \A j \in Keys : Fresh(latest[j])' => Fresh(latest[j]) /\ (j = k => entry[j] # latest[j])
    BY <2>1 DEF Fresh
  <2> QED
    BY <2>1, <2>2, <2>3, <2>4, EmptyIInv
<1>4. ASSUME NEW a \in Accounts, InvalidateAccount(a) PROVE IInv'
  <2>1. /\ entry' = [k \in Keys |-> IF k[1] = a THEN NoEntry ELSE entry[k]]
        /\ latest' = [k \in Keys |-> IF k[1] = a THEN NoEntry ELSE latest[k]]
        /\ used' = used /\ ops' = ops /\ answer' = answer /\ now' = now
    BY <1>4 DEF InvalidateAccount
  <2>2. TypeOK'
    BY <1>0, <2>1 DEF TypeOK, Entry, NoEntry
  <2> QED
    BY <2>1, <2>2, EmptyIInv DEF Fresh, NoEntry
<1>5. CASE Tick
  <2>1. /\ now' = now + 1 /\ entry' = entry /\ latest' = latest
        /\ used' = used /\ ops' = ops /\ answer' = answer
    BY <1>5 DEF Tick
  <2>2. TypeOK'
    BY <1>0, <2>1 DEF TypeOK
  <2>3. \A k \in Keys : Fresh(latest[k])' => Fresh(latest[k])
    BY <1>0, <2>1, TtlNat DEF Fresh, TypeOK, Entry
  <2> QED
    BY <2>1, <2>2, <2>3, EmptyIInv
<1>6. CASE UNCHANGED vars
  BY <1>6 DEF vars, IInv, TypeOK, Stamped, Agrees, Displaced, Fits, Fresh, After, Cached
<1> QED
  BY <1>1, <1>2, <1>3, <1>4, <1>5, <1>6 DEF Next, Get
------------------------------------------------------------------------------
(***************************************************************************)
(* The theorems.                                                           *)
(***************************************************************************)
\* The inductive invariant (put, get, invalidate_account).
THEOREM Invariance == Spec => []IInv
BY InitIInv, NextIInv, PTL DEF Spec

\* Every variable keeps its type.
THEOREM TypeCorrect == Spec => []TypeOK
<1>1. IInv => TypeOK
  BY DEF IInv
<1> QED
  BY <1>1, Invariance, PTL

\* "Bounded LRU cache" (cache.rs:71): put never leaves more than Capacity entries,
\* and the oldest of them is always unique.
THEOREM CacheBounded == Spec => []Bounded
<1>1. IInv => Bounded
  BY DEF IInv, Bounded, Fits, Stamped, Cached
<1> QED
  BY <1>1, Invariance, PTL

\* A fresh entry is only ever lost to Capacity keys used after it.
THEOREM KeepsRecent == Spec => []KeptWhileRecent
<1>1. IInv => KeptWhileRecent
  <2> SUFFICES ASSUME IInv, NEW k \in Keys, Fresh(latest[k]),
                      Cardinality(After(used, k)) < Capacity
               PROVE  entry[k] = latest[k]
    BY DEF KeptWhileRecent, After
  <2>1. Cardinality(After(used, k)) \in Nat
    BY KeySets DEF After
  <2> QED
    BY <2>1, CapacityPos DEF IInv, Displaced
<1> QED
  BY <1>1, Invariance, PTL

\* get answers with the last value put, not invalidated and not expired.
THEOREM AnswersCurrent == Spec => NeverStale
<1>1. IInv /\ [Next]_vars =>
        [\A k \in Keys : Hit(k) =>
           answer'[k] = latest[k].value /\ now - latest[k].inserted <= Ttl]_vars
  <2> SUFFICES ASSUME IInv, NEW k \in Keys, Hit(k)
               PROVE  answer'[k] = latest[k].value /\ now - latest[k].inserted <= Ttl
    OBVIOUS
  <2>1. entry[k] = latest[k] /\ now - entry[k].inserted <= Ttl
    BY DEF IInv, Agrees, Hit, Fresh
  <2>2. answer'[k] = entry[k].value
    BY DEF IInv, TypeOK, Hit
  <2> QED
    BY <2>1, <2>2
<1> QED
  BY <1>1, Invariance, PTL DEF Spec, NeverStale
------------------------------------------------------------------------------
(***************************************************************************)
(* Paging through a search.  Seen follows a client that has been served    *)
(* the first n matching messages, newest first: it has been shown their    *)
(* conversations.                                                          *)
(***************************************************************************)
Matching(f) == {m \in Search!Msgs : f # None => parent[m] = Search!Object(f)}

\* What Graph serves from the n-th message on, and all it would serve.
Served(f, n) == Search!ServePage([folder |-> f, skip |-> n])
Ordered(f) == Search!Newest(Matching(f))

Seen(f, ps, n) ==
  \A i \in 1 .. n : i <= Cardinality(Matching(f)) =>
    \E j \in DOMAIN ps : \E m \in ps[j] : conv[m] = conv[Ordered(f)[i]]

OncePerPage(ps) ==
  \A k \in DOMAIN ps : \A m, n \in ps[k] : conv[m] = conv[n] => m = n

\* What the cursor of the last page stands for.
CursorSeen ==
  \/ cursor = {} /\ (pages # <<>> => Seen(query.folder, pages, Cardinality(Matching(query.folder))))
  \/ \E n \in Nat : /\ cursor = {[folder |-> query.folder, skip |-> n]}
                    /\ Seen(query.folder, pages, n)

SInv == pages \in Seq(SUBSET Search!Msgs) /\ OncePerPage(pages) /\ CursorSeen

\* Graph orders a set of messages: each of them has a place of its own.
LEMMA Ranked ==
  ASSUME NEW S \in SUBSET Search!Msgs
  PROVE  /\ IsFiniteSet(S) /\ Cardinality(S) \in Nat
         /\ Search!Newest(S) \in Seq(S) /\ Len(Search!Newest(S)) = Cardinality(S)
         /\ \A m \in S : \E i \in 1 .. Cardinality(S) : Search!Newest(S)[i] = m
<1> DEFINE Above(m) == Search!Newer(m, S)
           R == [m \in S |-> Cardinality(Above(m)) + 1]
<1>1. IsFiniteSet(S) /\ Cardinality(S) \in Nat /\ S \subseteq Nat
  <2>1. Search!Msgs = 1 .. N
    BY DEF Search!Msgs
  <2>2. IsFiniteSet(1 .. N)
    BY NNat, FS_Interval
  <2>3. IsFiniteSet(S)
    BY <2>1, <2>2, FS_Subset
  <2>4. S \subseteq Nat
    BY <2>1, NNat
  <2> QED
    BY <2>3, <2>4, FS_CardinalityType
<1>2. \A T \in SUBSET S : \A U \in SUBSET T :
        /\ Cardinality(T) \in Nat /\ Cardinality(U) \in Nat
        /\ U # T => Cardinality(U) < Cardinality(T)
  <2> SUFFICES ASSUME NEW T \in SUBSET S, NEW U \in SUBSET T
               PROVE  /\ Cardinality(T) \in Nat /\ Cardinality(U) \in Nat
                      /\ U # T => Cardinality(U) < Cardinality(T)
    OBVIOUS
  <2>1. IsFiniteSet(T)
    BY <1>1, FS_Subset
  <2>2. IsFiniteSet(U) /\ Cardinality(U) <= Cardinality(T)
        /\ (Cardinality(T) = Cardinality(U) => T = U)
    BY <2>1, FS_Subset
  <2>3. Cardinality(T) \in Nat /\ Cardinality(U) \in Nat
    BY <2>1, <2>2, FS_CardinalityType
  <2> QED
    BY <2>2, <2>3
<1>3. \A m \in S : Above(m) \subseteq S /\ m \notin Above(m)
  BY <1>1 DEF Search!Newer
<1>4. \A m \in S : Cardinality(Above(m)) \in Nat /\ Cardinality(Above(m)) < Cardinality(S)
  BY <1>2, <1>3
<1>5. \A m, n \in S : m < n => Cardinality(Above(n)) < Cardinality(Above(m))
  <2> SUFFICES ASSUME NEW m \in S, NEW n \in S, m < n
               PROVE  Cardinality(Above(n)) < Cardinality(Above(m))
    OBVIOUS
  <2>1. m \in Nat /\ n \in Nat
    BY <1>1
  <2>2. Above(n) \subseteq Above(m)
    <3> SUFFICES ASSUME NEW x \in S, x > n PROVE x > m
      BY DEF Search!Newer
    <3>1. x \in Nat
      BY <1>1
    <3> QED
      BY <2>1, <3>1
  <2>3. n \in Above(m) /\ n \notin Above(n)
    BY <2>1 DEF Search!Newer
  <2>4. Above(n) # Above(m)
    BY <2>3
  <2> HIDE DEF Above
  <2> QED
    BY <1>2, <1>3, <2>2, <2>4
<1> HIDE DEF Above
<1>6. \A m, n \in S : Cardinality(Above(m)) = Cardinality(Above(n)) => m = n
  <2> SUFFICES ASSUME NEW m \in S, NEW n \in S, Cardinality(Above(m)) = Cardinality(Above(n)),
                      m # n
               PROVE  FALSE
    OBVIOUS
  <2>1. m < n \/ n < m
    BY <1>1
  <2> QED
    BY <1>4, <1>5, <2>1
<1>7. \A i \in 1 .. Cardinality(S) : \E m \in S : Cardinality(Above(m)) = i - 1
  <2>1. R \in [S -> 1 .. Cardinality(S)]
    BY <1>1, <1>4
  <2>2. \A m, n \in S : R[m] = R[n] => m = n
    BY <1>4, <1>6
  <2>3. R \in Injection(S, 1 .. Cardinality(S))
    BY <2>1, <2>2 DEF Injection, IsInjective
  <2>4. IsFiniteSet(1 .. Cardinality(S)) /\ Cardinality(1 .. Cardinality(S)) = Cardinality(S)
    BY <1>1, FS_Interval
  <2> HIDE DEF R
  <2>5. R \in Surjection(S, 1 .. Cardinality(S))
    BY <2>3, <2>4, FS_Injection
  <2>6. \A i \in 1 .. Cardinality(S) : \E m \in S : R[m] = i
    BY <2>5 DEF Surjection
  <2> QED
    BY <1>1, <1>4, <2>6 DEF R
<1>8. Search!Newest(S) =
        [i \in 1 .. Cardinality(S) |-> CHOOSE m \in S : Cardinality(Above(m)) = i - 1]
  BY DEF Search!Newest, Above, Search!Cardinality, Cardinality
<1>9. \A i \in 1 .. Cardinality(S) :
        Search!Newest(S)[i] \in S /\ Cardinality(Above(Search!Newest(S)[i])) = i - 1
  BY <1>7, <1>8
<1>10. Search!Newest(S) \in [1 .. Cardinality(S) -> S]
  BY <1>8, <1>9
<1>11. \A m \in S : \E i \in 1 .. Cardinality(S) : Search!Newest(S)[i] = m
  <2> SUFFICES ASSUME NEW m \in S
               PROVE  \E i \in 1 .. Cardinality(S) : Search!Newest(S)[i] = m
    OBVIOUS
  <2>1. Cardinality(Above(m)) + 1 \in 1 .. Cardinality(S)
    BY <1>1, <1>4
  <2>2. Search!Newest(S)[Cardinality(Above(m)) + 1] = m
    BY <1>4, <1>6, <1>9, <2>1
  <2> QED
    BY <2>1, <2>2
<1> HIDE DEF R
<1> QED
  BY <1>1, <1>10, <1>11

\* A page holds the messages from its place in the order on, as many as fit; when
\* there is no next page, it holds them all.
LEMMA PageServed ==
  ASSUME NEW f, NEW n \in Nat
  PROVE  /\ Served(f, n).value \in Seq(Search!Msgs)
         /\ Served(f, n).next \in {{}, {[folder |-> f, skip |-> n + PageSize]}}
         /\ \A i \in n + 1 .. Cardinality(Matching(f)) :
              Served(f, n).next = {} \/ i <= n + PageSize =>
                \E j \in DOMAIN Served(f, n).value : Served(f, n).value[j] = Ordered(f)[i]
<1> DEFINE all == Ordered(f)
           url == [folder |-> f, skip |-> n]
           rest == SubSeq(all, n + 1, Len(all))
           resp == Served(f, n)
           top == IF Len(rest) < PageSize THEN Len(rest) ELSE PageSize
<1>1. /\ all \in Seq(Search!Msgs) /\ Len(all) = Cardinality(Matching(f))
      /\ Cardinality(Matching(f)) \in Nat
  <2>1. Matching(f) \in SUBSET Search!Msgs
    BY DEF Matching
  <2> HIDE DEF all
  <2>2. all \in Seq(Matching(f)) /\ Len(all) = Cardinality(Matching(f)) /\ Cardinality(Matching(f)) \in Nat
    BY <2>1, Ranked DEF all, Ordered
  <2> QED
    BY <2>1, <2>2
<1>2. /\ resp.value = SubSeq(rest, 1, top)
      /\ resp.next = IF Len(rest) > PageSize
                     THEN {[folder |-> f, skip |-> n + PageSize]} ELSE {}
  <2>1. url.folder = f /\ url.skip = n
        /\ [url EXCEPT !.skip = @ + PageSize] = [folder |-> f, skip |-> n + PageSize]
    OBVIOUS
  <2>2. {m \in Search!Msgs : url.folder # None => parent[m] = Search!Object(url.folder)} = Matching(f)
    BY <2>1 DEF Matching
  <2> HIDE DEF url
  <2> QED
    BY <2>1, <2>2 DEF Search!ServePage, Search!Top, Served, Ordered, url
<1> HIDE DEF all, resp
<1>3. rest \in Seq(Search!Msgs)
  BY <1>1
<1>4. /\ Len(rest) = IF n + 1 <= Len(all) THEN Len(all) - n ELSE 0
      /\ \A j \in 1 .. Len(rest) : rest[j] = all[n + j]
  BY <1>1
<1>5. Len(rest) \in Nat /\ top \in 0 .. Len(rest)
  BY <1>3, PageSizePos
<1> HIDE DEF rest
<1>6. /\ SubSeq(rest, 1, top) \in Seq(Search!Msgs) /\ Len(SubSeq(rest, 1, top)) = top
      /\ \A j \in 1 .. top : SubSeq(rest, 1, top)[j] = rest[j]
  BY <1>3, <1>5
<1>7. ASSUME NEW i \in n + 1 .. Cardinality(Matching(f)), resp.next = {} \/ i <= n + PageSize
      PROVE  \E j \in DOMAIN resp.value : resp.value[j] = all[i]
  <2>1. i - n \in 1 .. Len(rest)
    BY <1>1, <1>4
  <2>2. i - n <= PageSize \/ Len(rest) <= PageSize
    <3>1. CASE resp.next = {}
      <4>1. ~(Len(rest) > PageSize)
        BY <1>2, <3>1
      <4> QED
        BY <1>5, <4>1, PageSizePos
    <3>2. CASE i <= n + PageSize
      BY <1>1, <3>2, PageSizePos
    <3> QED
      BY <1>7, <3>1, <3>2
  <2>3. i - n \in 1 .. top
    BY <1>5, <2>1, <2>2, PageSizePos
  <2>4. n + (i - n) = i
    BY <1>1
  <2>5. resp.value[i - n] = all[i] /\ i - n \in DOMAIN resp.value
    BY <1>2, <1>4, <1>6, <2>1, <2>3, <2>4
  <2> QED
    BY <2>5
<1> QED
  BY <1>2, <1>6, <1>7 DEF all, resp

\* search_impl shows a conversation of the page once, and shows each of them.
LEMMA Summarised ==
  ASSUME NEW value \in Seq(Search!Msgs)
  PROVE  /\ Search!Summaries(value) \subseteq Search!Msgs
         /\ \A m, n \in Search!Summaries(value) : conv[m] = conv[n] => m = n
         /\ \A j \in DOMAIN value :
              \E m \in Search!Summaries(value) : conv[m] = conv[value[j]]
<1> DEFINE First == {j \in DOMAIN value :
                       \A k \in 1 .. j - 1 : conv[value[k]] # conv[value[j]]}
<1>1. Search!Summaries(value) = {value[i] : i \in First}
  BY DEF Search!Summaries
<1>2. First \subseteq DOMAIN value /\ DOMAIN value \subseteq Nat \ {0}
  OBVIOUS
<1>3. \A i, j \in First : conv[value[i]] = conv[value[j]] => i = j
  <2> SUFFICES ASSUME NEW i \in First, NEW j \in First, conv[value[i]] = conv[value[j]], i # j
               PROVE  FALSE
    OBVIOUS
  <2>1. i \in 1 .. j - 1 \/ j \in 1 .. i - 1
    BY <1>2
  <2> QED
    BY <2>1
<1>4. ASSUME NEW j \in DOMAIN value
      PROVE  \E i \in First : conv[value[i]] = conv[value[j]]
  <2> DEFINE Same == {i \in DOMAIN value : conv[value[i]] = conv[value[j]]}
             f == [i \in Same |-> i]
  <2>1. Same # {} /\ \A i \in Same : f[i] \in Nat
    BY <1>2
  <2>2. PICK i \in Same : \A k \in Same : f[i] <= f[k]
    <3> HIDE DEF Same, f
    <3> QED
      BY <2>1, LeastStamp
  <2>3. \A k \in 1 .. i - 1 : k \in DOMAIN value /\ k \notin Same
    BY <1>2, <2>2
  <2>4. i \in First
    BY <2>3
  <2> QED
    BY <2>4
<1> HIDE DEF First
<1>5. \A i \in First : value[i] \in Search!Msgs
  BY <1>2
<1>6. \A m, n \in Search!Summaries(value) : conv[m] = conv[n] => m = n
  BY <1>1, <1>3
<1>7. \A j \in DOMAIN value : \E m \in Search!Summaries(value) : conv[m] = conv[value[j]]
  BY <1>1, <1>4
<1> QED
  BY <1>1, <1>5, <1>6, <1>7

\* One page more: what has been shown grows by the conversations of the page.
LEMMA PageKeeps ==
  ASSUME NEW f, query'.folder = f, NEW n \in Nat, NEW old \in Seq(SUBSET Search!Msgs),
         OncePerPage(old), Seen(f, old, n),
         conv' = conv, parent' = parent,
         pages' = Append(old, Search!Summaries(Served(f, n).value)),
         cursor' = Served(f, n).next
  PROVE  SInv'
<1> DEFINE all == Ordered(f)
           resp == Served(f, n)
           page == Search!Summaries(resp.value)
           card == Cardinality(Matching(f))
<1>1. /\ resp.value \in Seq(Search!Msgs)
      /\ resp.next \in {{}, {[folder |-> f, skip |-> n + PageSize]}}
      /\ \A i \in n + 1 .. card :
           resp.next = {} \/ i <= n + PageSize =>
             \E j \in DOMAIN resp.value : resp.value[j] = all[i]
  BY PageServed
<1>2. card \in Nat
  <2>1. Matching(f) \in SUBSET Search!Msgs
    BY DEF Matching
  <2> QED
    BY <2>1, Ranked
<1>3. pages' = Append(old, page) /\ cursor' = resp.next
  OBVIOUS
<1>4. Matching(f)' = Matching(f) /\ Ordered(f)' = Ordered(f) /\ query'.folder = f
  BY DEF Matching, Ordered
<1> HIDE DEF resp
<1>5. /\ page \subseteq Search!Msgs
      /\ \A m, k \in page : conv[m] = conv[k] => m = k
      /\ \A j \in DOMAIN resp.value : \E m \in page : conv[m] = conv[resp.value[j]]
  BY <1>1, Summarised
<1> HIDE DEF page
<1>6. /\ pages' \in Seq(SUBSET Search!Msgs) /\ Len(pages') = Len(old) + 1
      /\ DOMAIN pages' = 1 .. Len(old) + 1 /\ DOMAIN old = 1 .. Len(old)
      /\ pages'[Len(old) + 1] = page /\ Len(old) \in Nat
      /\ \A k \in 1 .. Len(old) : pages'[k] = old[k]
  BY <1>3, <1>5
<1>7. OncePerPage(pages)'
  <2> SUFFICES ASSUME NEW k \in DOMAIN pages', NEW m \in pages'[k], NEW l \in pages'[k],
                      conv[m] = conv[l]
               PROVE  m = l
    BY DEF OncePerPage
  <2>1. CASE k = Len(old) + 1
    BY <1>5, <1>6, <2>1
  <2>2. CASE k \in 1 .. Len(old)
    BY <1>6, <2>2 DEF OncePerPage
  <2> QED
    BY <1>6, <2>1, <2>2
<1>8. ASSUME NEW i \in 1 .. card, i <= n \/ resp.next = {} \/ i <= n + PageSize
      PROVE  \E j \in DOMAIN pages' : \E m \in pages'[j] : conv[m] = conv[all[i]]
  <2>1. CASE i <= n
    <3>1. PICK j \in DOMAIN old : \E m \in old[j] : conv[m] = conv[all[i]]
      BY <1>2, <2>1 DEF Seen
    <3> QED
      BY <1>6, <3>1
  <2>2. CASE i > n
    <3>1. i \in n + 1 .. card /\ (resp.next = {} \/ i <= n + PageSize)
      BY <1>2, <1>8, <2>2
    <3>2. PICK j \in DOMAIN resp.value : resp.value[j] = all[i]
      BY <1>1, <3>1
    <3>3. PICK m \in page : conv[m] = conv[all[i]]
      BY <1>5, <3>2
    <3>4. Len(old) + 1 \in DOMAIN pages' /\ m \in pages'[Len(old) + 1]
      BY <1>6, <3>3
    <3> QED
      BY <3>3, <3>4
  <2> QED
    BY <1>2, <2>1, <2>2
<1>9. CASE resp.next = {}
  <2>1. Seen(f, pages, card)'
    BY <1>2, <1>4, <1>8, <1>9 DEF Seen
  <2> QED
    BY <1>3, <1>4, <1>6, <1>7, <1>9, <2>1 DEF SInv, CursorSeen
<1>10. CASE resp.next = {[folder |-> f, skip |-> n + PageSize]}
  <2>1. Seen(f, pages, n + PageSize)'
    <3> SUFFICES ASSUME NEW i \in 1 .. (n + PageSize), i <= card
                 PROVE  \E j \in DOMAIN pages' : \E m \in pages'[j] : conv[m] = conv[all[i]]
      BY <1>4 DEF Seen
    <3> QED
      BY <1>2, <1>8, PageSizePos
  <2>2. n + PageSize \in Nat
    BY PageSizePos
  <2> QED
    BY <1>3, <1>4, <1>6, <1>7, <1>10, <2>1, <2>2 DEF SInv, CursorSeen
<1> QED
  BY <1>1, <1>9, <1>10

\* Every step of a client of the search keeps SInv.
LEMMA SearchKeeps ==
  ASSUME SInv, Search!Next
  PROVE  SInv'
<1>1. ASSUME NEW q \in Search!Query, Search!Search(q)
      PROVE  SInv'
  <2>1. /\ query' = q /\ conv' = conv /\ parent' = parent
        /\ Search!BuildSearchUrl(q, {}) = [folder |-> q.folder, skip |-> 0]
    BY <1>1 DEF Search!Search, Search!Page, Search!mailVars, Search!BuildSearchUrl
  <2>2. /\ pages' = Append(<<>>, Search!Summaries(Served(q.folder, 0).value))
        /\ cursor' = Served(q.folder, 0).next
    BY <1>1, <2>1 DEF Search!Search, Search!Page, Search!NextCursor, Served
  <2>3. /\ <<>> \in Seq(SUBSET Search!Msgs) /\ OncePerPage(<<>>)
        /\ Seen(q.folder, <<>>, 0)
    BY EmptySeq DEF OncePerPage, Seen
  <2> QED
    BY <2>1, <2>2, <2>3, PageKeeps
<1>2. CASE Search!NextPage
  <2>1. PICK n \in Nat : /\ cursor = {[folder |-> query.folder, skip |-> n]}
                         /\ Seen(query.folder, pages, n)
    BY <1>2 DEF Search!NextPage, SInv, CursorSeen
  <2>2. query' = query /\ conv' = conv /\ parent' = parent
    BY <1>2 DEF Search!NextPage, Search!Page, Search!mailVars
  <2>3. PICK f : f = query.folder
    OBVIOUS
  <2>4. Search!BuildSearchUrl(query, cursor) = [folder |-> f, skip |-> n]
    BY <2>1, <2>3 DEF Search!BuildSearchUrl
  <2>5. /\ pages' = Append(pages, Search!Summaries(Served(f, n).value))
        /\ cursor' = Served(f, n).next
    BY <1>2, <2>1, <2>4 DEF Search!NextPage, Search!Page, Search!NextCursor, Served
  <2> QED
    BY <2>1, <2>2, <2>3, <2>5, PageKeeps DEF SInv
<1>3. CASE \/ \E t \in Convs : Search!GetThread(t)
           \/ \E m \in Search!Msgs : Search!GetMessage(m)
           \/ Search!ListFolders \/ Search!ListLabels \/ Search!ListDrafts
  <2>1. /\ query' = query /\ conv' = conv /\ parent' = parent
        /\ pages' = pages /\ cursor' = cursor
    BY <1>3 DEF Search!GetThread, Search!GetMessage, Search!ListFolders, Search!ListLabels,
                Search!ListDrafts, Search!mailVars
  <2> QED
    BY <2>1 DEF SInv, OncePerPage, CursorSeen, Seen, Matching, Ordered
<1> QED
  BY <1>1, <1>2, <1>3 DEF Search!Next

\* A client at the end of the pages has been shown every conversation.
LEMMA SInvCovers ==
  ASSUME SInv
  PROVE  Search!PagingCovers
<1>1. \A k \in DOMAIN pages : \A m, n \in pages[k] : conv[m] = conv[n] => m = n
  BY DEF SInv, OncePerPage
<1>2. ASSUME pages # <<>>, cursor = {}, NEW m \in Search!Matches
      PROVE  \E k \in Search!Surfaced : conv[k] = conv[m]
  <2> DEFINE M == Matching(query.folder)
  <2>1. m \in M /\ M \in SUBSET Search!Msgs
    BY <1>2 DEF Search!Matches, Matching
  <2>2. Seen(query.folder, pages, Cardinality(M))
    BY <1>2 DEF SInv, CursorSeen
  <2>3. PICK i \in 1 .. Cardinality(M) : Search!Newest(M)[i] = m
    <3> HIDE DEF M
    <3> QED
      BY <2>1, Ranked
  <2>4. Cardinality(M) \in Nat
    BY <2>1, Ranked
  <2>5. PICK j \in DOMAIN pages : \E k \in pages[j] : conv[k] = conv[m]
    BY <2>2, <2>3, <2>4 DEF Seen, Ordered
  <2> QED
    BY <2>5 DEF Search!Surfaced
<1> QED
  BY <1>1, <1>2 DEF Search!PagingCovers
------------------------------------------------------------------------------
(***************************************************************************)
(* The walk over the parts of a message.  After some parts, the bodies are *)
(* the first of those that decode, and the attachments are among them.     *)
(***************************************************************************)
Decodes(mime, i) == parts[i].mime = mime /\ parts[i].body = "data"

BodyFound(mime, b) ==
  \/ b = None /\ \A i \in 1 .. at : ~Decodes(mime, i)
  \/ b \in 1 .. at /\ Decodes(mime, b) /\ \A i \in 1 .. b - 1 : ~Decodes(mime, i)

Attached ==
  \A i \in DOMAIN attachments :
    Walk!Listed(parts[attachments[i]]) /\ attachments[i] \notin {body_text, body_html}

Increasing == \A i, j \in DOMAIN attachments : i < j => attachments[i] < attachments[j]

WInv ==
  /\ parts \in Seq(Walk!Parts) /\ at \in 0 .. Len(parts) /\ attachments \in Seq(1 .. at)
  /\ BodyFound("text/plain", body_text) /\ BodyFound("text/html", body_html)
  /\ Attached /\ Increasing

\* Nothing has been visited before the first part.
LEMMA WalkStarts ==
  ASSUME Walk!Init
  PROVE  WInv
<1>1. PICK k \in 0 .. MaxParts : parts \in [1 .. k -> Walk!Parts]
  BY DEF Walk!Init, Walk!Upto
<1>2. parts \in Seq(Walk!Parts) /\ Len(parts) = k
  BY <1>1, MaxPartsNat
<1>3. at = 0 /\ body_text = None /\ body_html = None /\ attachments = <<>>
  BY DEF Walk!Init
<1>4. attachments \in Seq(1 .. at) /\ DOMAIN attachments = {}
  BY <1>3
<1> QED
  BY <1>2, <1>3, <1>4, MaxPartsNat DEF WInv, BodyFound, Attached, Increasing

\* A part that is not taken as the body of its type, because it does not decode,
\* is of another type, or comes too late, leaves the body that was found.
LEMMA BodyStays ==
  ASSUME NEW mime, NEW b, BodyFound(mime, b), at \in Nat, at' = at + 1, parts' = parts,
         Decodes(mime, at + 1) => b # None
  PROVE  BodyFound(mime, b)'
<1>1. CASE b = None /\ \A i \in 1 .. at : ~Decodes(mime, i)
  <2>1. \A i \in 1 .. at + 1 : i \in 1 .. at \/ i = at + 1
    OBVIOUS
  <2> QED
    BY <1>1, <2>1 DEF BodyFound, Decodes
<1>2. CASE b \in 1 .. at /\ Decodes(mime, b) /\ \A i \in 1 .. b - 1 : ~Decodes(mime, i)
  BY <1>2 DEF BodyFound, Decodes
<1> QED
  BY <1>1, <1>2 DEF BodyFound

\* A part of the type that still lacks its body is the body if it decodes.
LEMMA BodyTaken ==
  ASSUME NEW mime, BodyFound(mime, None), NEW b, b = Walk!DecodeBody(at + 1), at \in Nat, at' = at + 1, parts' = parts,
         parts[at + 1].mime = mime
  PROVE  BodyFound(mime, b)'
<1>1. \A i \in 1 .. at : ~Decodes(mime, i)
  BY NoneNoPart DEF BodyFound
<1>2. CASE parts[at + 1].body = "data"
  <2>1. b = at + 1
    BY <1>2 DEF Walk!DecodeBody
  <2>2. Decodes(mime, at + 1) /\ at + 1 \in 1 .. at + 1 /\ 1 .. (at + 1) - 1 = 1 .. at
    BY <1>2 DEF Decodes
  <2> QED
    BY <1>1, <2>1, <2>2 DEF BodyFound, Decodes
<1>3. CASE parts[at + 1].body # "data"
  <2>1. b = None
    BY <1>3 DEF Walk!DecodeBody
  <2>2. ~Decodes(mime, at + 1) /\ \A i \in 1 .. at + 1 : i \in 1 .. at \/ i = at + 1
    BY <1>3 DEF Decodes
  <2> QED
    BY <1>1, <2>1, <2>2 DEF BodyFound, Decodes
<1> QED
  BY <1>2, <1>3

\* Every part visited keeps WInv.
LEMMA WalkKeeps ==
  ASSUME WInv, Walk!Next
  PROVE  WInv'
<1>1. CASE Walk!Visit
  <2> DEFINE i == at + 1
  <2>1. /\ parts \in Seq(Walk!Parts) /\ at \in 0 .. Len(parts) /\ attachments \in Seq(1 .. at)
        /\ BodyFound("text/plain", body_text) /\ BodyFound("text/html", body_html)
        /\ Attached /\ Increasing
    BY DEF WInv
  <2>2. at < Len(parts) /\ at' = at + 1 /\ parts' = parts
    BY <1>1 DEF Walk!Visit
  <2>3. at \in Nat /\ i \in Nat /\ at' \in 0 .. Len(parts)
    BY <2>1, <2>2
  <2>4. PICK t, h, t2, h2 :
          /\ t = body_text /\ h = body_html /\ t2 = body_text' /\ h2 = body_html'
    OBVIOUS
  <2>5. \A k \in DOMAIN attachments : attachments[k] \in 1 .. at
    BY <2>1
  <2>6. \A b : BodyFound("text/plain", b) \/ BodyFound("text/html", b) => b # i
    BY <2>3, NoneNoPart DEF BodyFound
  <2>7. CASE /\ parts[i].mime = "text/plain" /\ body_text = None
             /\ body_text' = Walk!DecodeBody(i) /\ UNCHANGED <<body_html, attachments>>
    <3>1. BodyFound("text/plain", t2)'
      BY <2>1, <2>2, <2>3, <2>4, <2>7, BodyTaken
    <3>2. BodyFound("text/html", h)'
      BY <2>1, <2>2, <2>3, <2>4, <2>7, BodyStays DEF Decodes
    <3>3. attachments' \in Seq(1 .. at') /\ t2 \in {None, i}
      BY <2>1, <2>2, <2>3, <2>4, <2>7 DEF Walk!DecodeBody
    <3>4. Attached' /\ Increasing'
      BY <2>1, <2>2, <2>3, <2>4, <2>5, <2>7, <3>3, NoneNoPart DEF Attached, Increasing
    <3> QED
      BY <2>1, <2>2, <2>3, <2>4, <2>7, <3>1, <3>2, <3>3, <3>4 DEF WInv, BodyFound
  <2>8. CASE /\ parts[i].mime = "text/html" /\ body_html = None
             /\ body_html' = Walk!DecodeBody(i) /\ UNCHANGED <<body_text, attachments>>
    <3>1. BodyFound("text/html", h2)'
      BY <2>1, <2>2, <2>3, <2>4, <2>8, BodyTaken
    <3>2. BodyFound("text/plain", t)'
      BY <2>1, <2>2, <2>3, <2>4, <2>8, BodyStays DEF Decodes
    <3>3. attachments' \in Seq(1 .. at') /\ h2 \in {None, i}
      BY <2>1, <2>2, <2>3, <2>4, <2>8 DEF Walk!DecodeBody
    <3>4. Attached' /\ Increasing'
      BY <2>1, <2>2, <2>3, <2>4, <2>5, <2>8, <3>3, NoneNoPart DEF Attached, Increasing
    <3> QED
      BY <2>1, <2>2, <2>3, <2>4, <2>8, <3>1, <3>2, <3>3, <3>4 DEF WInv, BodyFound
  <2>9. CASE /\ ~(parts[i].mime = "text/plain" /\ body_text = None)
             /\ ~(parts[i].mime = "text/html" /\ body_html = None)
             /\ attachments' = IF Walk!Listed(parts[i]) THEN Append(attachments, i) ELSE attachments
             /\ UNCHANGED <<body_text, body_html>>
    <3>1. BodyFound("text/plain", t)' /\ BodyFound("text/html", h)'
      BY <2>1, <2>2, <2>3, <2>4, <2>9, BodyStays DEF Decodes
    <3>2. CASE ~Walk!Listed(parts[i])
      <4>1. attachments' = attachments /\ attachments' \in Seq(1 .. at')
        BY <2>1, <2>2, <2>3, <2>9, <3>2
      <4> QED
        BY <2>1, <2>2, <2>3, <2>4, <2>9, <3>1, <4>1 DEF WInv, BodyFound, Attached, Increasing
    <3>3. CASE Walk!Listed(parts[i])
      <4>1. attachments \in Seq(1 .. i) /\ i \in 1 .. i
        BY <2>1, <2>3
      <4>2. attachments' = Append(attachments, i)
        BY <2>9, <3>3
      <4>3. /\ attachments' \in Seq(1 .. at') /\ Len(attachments) \in Nat
            /\ DOMAIN attachments' = 1 .. Len(attachments) + 1
            /\ attachments'[Len(attachments) + 1] = i
            /\ \A k \in 1 .. Len(attachments) : attachments'[k] = attachments[k]
        BY <2>2, <4>1, <4>2
      <4>4. DOMAIN attachments = 1 .. Len(attachments)
        BY <2>1
      <4>5. i \notin {body_text, body_html}
        BY <2>1, <2>6
      <4> HIDE DEF i
      <4>6. Attached'
        BY <2>1, <2>2, <2>9, <3>3, <4>3, <4>4, <4>5 DEF Attached
      <4>7. Increasing'
        <5> SUFFICES ASSUME NEW k \in DOMAIN attachments', NEW l \in DOMAIN attachments', k < l
                     PROVE  attachments'[k] < attachments'[l]
          BY DEF Increasing
        <5>1. k \in 1 .. Len(attachments)
          BY <4>3
        <5>2. CASE l = Len(attachments) + 1
          BY <2>3, <2>5, <4>3, <4>4, <5>1, <5>2 DEF i
        <5>3. CASE l \in 1 .. Len(attachments)
          BY <2>1, <4>3, <4>4, <5>1, <5>3 DEF Increasing
        <5> QED
          BY <4>3, <5>2, <5>3
      <4> QED
        BY <2>1, <2>2, <2>3, <2>4, <2>9, <3>1, <4>3, <4>6, <4>7 DEF WInv, BodyFound
    <3> QED
      BY <3>2, <3>3
  <2> QED
    BY <1>1, <2>7, <2>8, <2>9 DEF Walk!Visit
<1>2. CASE Walk!ParseHeader
  BY <1>2 DEF Walk!ParseHeader, WInv, BodyFound, Decodes, Attached, Increasing
<1>3. CASE \E shape \in Walk!Names : Walk!Write(shape)
  BY <1>3 DEF Walk!Write, WInv, BodyFound, Decodes, Attached, Increasing
<1> QED
  BY <1>1, <1>2, <1>3 DEF Walk!Next

\* What the walk found is what a look at the whole message finds.
LEMMA FoundIsFirst ==
  ASSUME WInv, Walk!Done, NEW mime, NEW b, BodyFound(mime, b)
  PROVE  b = Walk!FirstBody(mime)
<1> DEFINE good == {i \in DOMAIN parts : parts[i].mime = mime /\ parts[i].body = "data"}
<1>1. DOMAIN parts = 1 .. at /\ at \in Nat
  BY DEF WInv, Walk!Done
<1>2. CASE b = None /\ \A i \in 1 .. at : ~Decodes(mime, i)
  <2>1. good = {}
    BY <1>1, <1>2 DEF Decodes
  <2> QED
    BY <1>2, <2>1 DEF Walk!FirstBody
<1>3. CASE b \in 1 .. at /\ Decodes(mime, b) /\ \A i \in 1 .. b - 1 : ~Decodes(mime, i)
  <2>1. b \in good /\ good \subseteq Nat /\ \A j \in good : b <= j
    BY <1>1, <1>3 DEF Decodes
  <2>2. \A c \in good : (\A j \in good : c <= j) => c = b
    <3> HIDE DEF good
    <3> SUFFICES ASSUME NEW c \in good, \A j \in good : c <= j PROVE c = b
      OBVIOUS
    <3>1. c <= b /\ b <= c /\ b \in Nat /\ c \in Nat
      BY <2>1
    <3> QED
      BY <3>1
  <2>3. Walk!FirstBody(mime) = CHOOSE i \in good : \A j \in good : i <= j
    BY <2>1 DEF Walk!FirstBody
  <2> HIDE DEF good
  <2> QED
    BY <2>1, <2>2, <2>3
<1> QED
  BY <1>2, <1>3 DEF BodyFound

\* So bodies and attachments are what PartsSound says.
LEMMA WInvSound ==
  ASSUME WInv
  PROVE  Walk!PartsSound
<1>1. PICK t, h : t = body_text /\ h = body_html
  OBVIOUS
<1>2. Walk!Done => body_text = Walk!FirstBody("text/plain") /\ body_html = Walk!FirstBody("text/html")
  BY <1>1, FoundIsFirst DEF WInv
<1> QED
  BY <1>2 DEF WInv, Attached, Increasing, Walk!Listed, Walk!PartsSound
------------------------------------------------------------------------------
(***************************************************************************)
(* The addresses of a header.  As long as no name holds a comma, splitting *)
(* what is written so far gives every address as it was written.           *)
(***************************************************************************)
\* The elements of S below m; their number is the rank of m.
Below(S, m) == {d \in S : d < m}

\* In a finite set of numbers every rank up to its size belongs to one element.
LEMMA OneOfEachRank ==
  ASSUME NEW S, IsFiniteSet(S), S \subseteq Nat
  PROVE  /\ Cardinality(S) \in Nat
         /\ \A m \in S : Cardinality(Below(S, m)) \in Nat
                         /\ Cardinality(Below(S, m)) < Cardinality(S)
         /\ \A m, n \in S : Cardinality(Below(S, m)) = Cardinality(Below(S, n)) => m = n
         /\ \A i \in 1 .. Cardinality(S) : \E m \in S : Cardinality(Below(S, m)) = i - 1
<1> DEFINE R == [m \in S |-> Cardinality(Below(S, m)) + 1]
<1>1. Cardinality(S) \in Nat
  BY FS_CardinalityType
<1>2. \A T \in SUBSET S : \A U \in SUBSET T :
        /\ Cardinality(T) \in Nat /\ Cardinality(U) \in Nat
        /\ U # T => Cardinality(U) < Cardinality(T)
  <2> SUFFICES ASSUME NEW T \in SUBSET S, NEW U \in SUBSET T
               PROVE  /\ Cardinality(T) \in Nat /\ Cardinality(U) \in Nat
                      /\ U # T => Cardinality(U) < Cardinality(T)
    OBVIOUS
  <2>1. IsFiniteSet(T)
    BY FS_Subset
  <2>2. IsFiniteSet(U) /\ Cardinality(U) <= Cardinality(T)
        /\ (Cardinality(T) = Cardinality(U) => T = U)
    BY <2>1, FS_Subset
  <2>3. Cardinality(T) \in Nat /\ Cardinality(U) \in Nat
    BY <2>1, <2>2, FS_CardinalityType
  <2> QED
    BY <2>2, <2>3
<1>3. \A m \in S : Below(S, m) \subseteq S /\ m \notin Below(S, m)
  BY DEF Below
<1>4. \A m \in S : Cardinality(Below(S, m)) \in Nat /\ Cardinality(Below(S, m)) < Cardinality(S)
  BY <1>2, <1>3
<1>5. \A m, n \in S : m < n => Cardinality(Below(S, m)) < Cardinality(Below(S, n))
  <2> SUFFICES ASSUME NEW m \in S, NEW n \in S, m < n
               PROVE  Cardinality(Below(S, m)) < Cardinality(Below(S, n))
    OBVIOUS
  <2>1. m \in Nat /\ n \in Nat
    OBVIOUS
  <2>2. Below(S, m) \subseteq Below(S, n)
    <3> SUFFICES ASSUME NEW x \in S, x < m PROVE x < n
      BY DEF Below
    <3>1. x \in Nat
      OBVIOUS
    <3> QED
      BY <2>1, <3>1
  <2>3. m \in Below(S, n) /\ m \notin Below(S, m)
    BY <2>1 DEF Below
  <2>4. Below(S, m) # Below(S, n)
    BY <2>3
  <2> QED
    BY <1>2, <1>3, <2>2, <2>4
<1>6. \A m, n \in S : Cardinality(Below(S, m)) = Cardinality(Below(S, n)) => m = n
  <2> SUFFICES ASSUME NEW m \in S, NEW n \in S, m # n,
                      Cardinality(Below(S, m)) = Cardinality(Below(S, n))
               PROVE  FALSE
    OBVIOUS
  <2>1. m < n \/ n < m
    OBVIOUS
  <2> QED
    BY <1>4, <1>5, <2>1
<1>7. \A i \in 1 .. Cardinality(S) : \E m \in S : Cardinality(Below(S, m)) = i - 1
  <2>1. R \in [S -> 1 .. Cardinality(S)]
    BY <1>1, <1>4
  <2>2. \A m, n \in S : R[m] = R[n] => m = n
    BY <1>4, <1>6
  <2>3. R \in Injection(S, 1 .. Cardinality(S))
    BY <2>1, <2>2 DEF Injection, IsInjective
  <2>4. IsFiniteSet(1 .. Cardinality(S)) /\ Cardinality(1 .. Cardinality(S)) = Cardinality(S)
    BY <1>1, FS_Interval
  <2> HIDE DEF R
  <2>5. R \in Surjection(S, 1 .. Cardinality(S))
    BY <2>3, <2>4, FS_Injection
  <2>6. \A i \in 1 .. Cardinality(S) : \E m \in S : R[m] = i
    BY <2>5 DEF Surjection
  <2> QED
    BY <1>1, <1>4, <2>6 DEF R
<1> QED
  BY <1>1, <1>4, <1>6, <1>7

Tokens == {"email", "word", "quote", "<", ">", ","} \X Nat
NoComma(t) == \A i \in DOMAIN t : t[i][1] # ","

\* The cuts of a text are finitely many positions.
LEMMA CutsFinite ==
  ASSUME NEW s \in Seq(Tokens)
  PROVE  IsFiniteSet(Header!Cuts(s)) /\ Header!Cuts(s) \subseteq 0 .. Len(s) + 1
<1>1. Header!Cuts(s) \subseteq 0 .. Len(s) + 1
  <2>1. DOMAIN s = 1 .. Len(s) /\ Len(s) \in Nat
    OBVIOUS
  <2>2. Header!Cuts(s) \subseteq {0, Len(s) + 1} \union DOMAIN s
    BY DEF Header!Cuts
  <2> QED
    BY <2>1, <2>2
<1>2. IsFiniteSet(0 .. Len(s) + 1)
  BY FS_Interval
<1> QED
  BY <1>1, <1>2, FS_Subset

\* Cut(s, i) is the cut of rank i - 1, and the only one.
LEMMA CutRanked ==
  ASSUME NEW s \in Seq(Tokens), NEW i \in 1 .. Cardinality(Header!Cuts(s))
  PROVE  /\ Header!Cut(s, i) \in Header!Cuts(s)
         /\ Cardinality(Below(Header!Cuts(s), Header!Cut(s, i))) = i - 1
         /\ \A c \in Header!Cuts(s) :
              Cardinality(Below(Header!Cuts(s), c)) = i - 1 => Header!Cut(s, i) = c
<1> DEFINE S == Header!Cuts(s)
<1>1. Header!Cut(s, i) = CHOOSE c \in S : Cardinality(Below(S, c)) = i - 1
  BY DEF Header!Cut, Below, Header!Cardinality, Cardinality
<1>2. IsFiniteSet(S) /\ S \subseteq Nat
  BY CutsFinite
<1> HIDE DEF S
<1>3. \E c \in S : Cardinality(Below(S, c)) = i - 1
  BY <1>2, OneOfEachRank DEF S
<1>4. Header!Cut(s, i) \in S /\ Cardinality(Below(S, Header!Cut(s, i))) = i - 1
  BY <1>1, <1>3
<1>5. \A c \in S : Cardinality(Below(S, c)) = i - 1 => Header!Cut(s, i) = c
  <2>1. \A m, n \in S : Cardinality(Below(S, m)) = Cardinality(Below(S, n)) => m = n
    BY <1>2, OneOfEachRank
  <2> QED
    BY <1>4, <2>1
<1> QED
  BY <1>4, <1>5 DEF S

Comma == <<",", 0>>

\* u is s, a comma and t.
Joins(s, t, u) == u = Append(s, Comma) \o t

\* Another address behind a comma adds one cut, the new end.
LEMMA OneMoreCut ==
  ASSUME NEW s \in Seq(Tokens), NEW t \in Seq(Tokens), NoComma(t),
         NEW u, Joins(s, t, u)
  PROVE  /\ u \in Seq(Tokens) /\ Len(u) = Len(s) + 1 + Len(t)
         /\ \A i \in 1 .. Len(s) : u[i] = s[i]
         /\ \A j \in 1 .. Len(t) : u[Len(s) + 1 + j] = t[j]
         /\ Header!Cuts(u) = Header!Cuts(s) \union {Len(u) + 1}
<1> DEFINE v == Append(s, Comma)
<1>1. Comma \in Tokens
  BY DEF Comma, Tokens
<1>2. Comma[1] = ","
  BY DEF Comma
<1>3. v \in Seq(Tokens) /\ Len(v) = Len(s) + 1 /\ v[Len(s) + 1] = Comma
      /\ \A i \in 1 .. Len(s) : v[i] = s[i]
  BY <1>1
<1> HIDE DEF v
<1>4. /\ u \in Seq(Tokens) /\ Len(u) = Len(v) + Len(t)
      /\ \A i \in 1 .. Len(v) + Len(t) : u[i] = IF i <= Len(v) THEN v[i] ELSE t[i - Len(v)]
  BY <1>3, ConcatProperties DEF v, Joins
<1>5. Len(s) \in Nat /\ Len(t) \in Nat /\ DOMAIN s = 1 .. Len(s) /\ DOMAIN t = 1 .. Len(t)
      /\ DOMAIN u = 1 .. Len(u)
  BY <1>4
<1>6. Len(u) = Len(s) + 1 + Len(t) /\ \A i \in 1 .. Len(s) : u[i] = s[i]
  BY <1>3, <1>4, <1>5
<1>7. \A j \in 1 .. Len(t) : u[Len(s) + 1 + j] = t[j]
  <2> SUFFICES ASSUME NEW j \in 1 .. Len(t) PROVE u[Len(s) + 1 + j] = t[j]
    OBVIOUS
  <2>1. Len(s) + 1 + j \in 1 .. Len(v) + Len(t) /\ ~(Len(s) + 1 + j <= Len(v))
        /\ Len(s) + 1 + j - Len(v) = j
    BY <1>3, <1>5
  <2> QED
    BY <1>4, <2>1
<1>8. u[Len(s) + 1] = Comma
  <2>1. Len(s) + 1 \in 1 .. Len(v) + Len(t) /\ Len(s) + 1 <= Len(v)
    BY <1>3, <1>5
  <2> QED
    BY <1>3, <1>4, <2>1
<1>9. /\ \A i \in 1 .. Len(s) : u[i][1] = s[i][1]
      /\ u[Len(s) + 1][1] = ","
      /\ \A j \in 1 .. Len(t) : u[Len(s) + 1 + j][1] # ","
  <2>1. \A j \in 1 .. Len(t) : t[j][1] # ","
    BY <1>5 DEF NoComma
  <2> QED
    BY ONLY <1>2, <1>6, <1>7, <1>8, <2>1
<1>10. {i \in DOMAIN u : u[i][1] = ","} = {Len(s) + 1} \union {i \in DOMAIN s : s[i][1] = ","}
  <2>1. ASSUME NEW i \in DOMAIN u, u[i][1] = ","
        PROVE  i = Len(s) + 1 \/ (i \in DOMAIN s /\ s[i][1] = ",")
    <3>1. \/ i \in 1 .. Len(s) \/ i = Len(s) + 1
          \/ i - (Len(s) + 1) \in 1 .. Len(t) /\ i = Len(s) + 1 + (i - (Len(s) + 1))
      BY <1>5, <1>6
    <3> QED
      BY <1>5, <1>9, <2>1, <3>1
  <2>2. ASSUME NEW i \in DOMAIN s, s[i][1] = ","
        PROVE  i \in DOMAIN u /\ u[i][1] = ","
    <3>1. i \in 1 .. Len(s) /\ i \in DOMAIN u
      BY <1>5, <1>6
    <3> QED
      BY <1>9, <2>2, <3>1
  <2>3. Len(s) + 1 \in DOMAIN u
    BY <1>5, <1>6
  <2> QED
    BY <1>9, <2>1, <2>2, <2>3
<1>11. Header!Cuts(u) = Header!Cuts(s) \union {Len(u) + 1}
  BY <1>10 DEF Header!Cuts
<1> QED
  BY <1>4, <1>6, <1>7, <1>11

\* The old cuts keep their ranks, and the new end comes last.
LEMMA CutsKept ==
  ASSUME NEW s \in Seq(Tokens), NEW t \in Seq(Tokens), NoComma(t),
         NEW u, Joins(s, t, u)
  PROVE  /\ Cardinality(Header!Cuts(s)) \in Nat
         /\ Cardinality(Header!Cuts(u)) = Cardinality(Header!Cuts(s)) + 1
         /\ \A i \in 1 .. Cardinality(Header!Cuts(s)) : Header!Cut(u, i) = Header!Cut(s, i)
         /\ Header!Cut(u, Cardinality(Header!Cuts(s)) + 1) = Len(u) + 1
<1> DEFINE S == Header!Cuts(s)
           U == Header!Cuts(u)
           n == Len(u) + 1
<1>1. /\ u \in Seq(Tokens) /\ Len(u) = Len(s) + 1 + Len(t) /\ U = S \union {n}
      /\ Len(s) \in Nat /\ Len(t) \in Nat
  BY OneMoreCut
<1>2. IsFiniteSet(S) /\ S \subseteq 0 .. Len(s) + 1
  BY CutsFinite
<1>3. n \notin S /\ n \in Nat /\ \A c \in S : c \in Nat /\ c < n
  BY <1>1, <1>2
<1>4. Cardinality(S) \in Nat /\ Cardinality(U) = Cardinality(S) + 1
  <2> HIDE DEF S, U, n
  <2> QED
    BY <1>1, <1>2, <1>3, FS_AddElement, FS_CardinalityType
<1> HIDE DEF S, U, n
<1>5. Below(U, n) = S /\ \A c \in S : Below(U, c) = Below(S, c)
  BY <1>1, <1>3 DEF Below
<1>6. ASSUME NEW i \in 1 .. Cardinality(S)
      PROVE  Header!Cut(u, i) = Header!Cut(s, i)
  <2>1. Header!Cut(s, i) \in S /\ Cardinality(Below(S, Header!Cut(s, i))) = i - 1
    BY CutRanked DEF S
  <2>2. Header!Cut(s, i) \in U /\ Cardinality(Below(U, Header!Cut(s, i))) = i - 1
    BY <1>1, <1>5, <2>1
  <2>3. i \in 1 .. Cardinality(U)
    BY <1>4
  <2> QED
    BY <1>1, <2>2, <2>3, CutRanked DEF U
<1>7. Header!Cut(u, Cardinality(S) + 1) = n
  <2>1. PICK k : k = Cardinality(S) + 1
    OBVIOUS
  <2>2. k \in 1 .. Cardinality(Header!Cuts(u))
    BY <1>4, <2>1 DEF U
  <2>3. n \in Header!Cuts(u) /\ Cardinality(Below(Header!Cuts(u), n)) = k - 1
    BY <1>1, <1>4, <1>5, <2>1 DEF U
  <2>4. Header!Cut(u, k) = n
    BY <1>1, <2>2, <2>3, CutRanked
  <2> QED
    BY <2>1, <2>4
<1> QED
  BY <1>4, <1>6, <1>7 DEF S, U, n

\* Stretches of a text that has only grown are the same.
LEMMA SubSeqKept ==
  ASSUME NEW s \in Seq(Tokens), NEW u \in Seq(Tokens), Len(s) <= Len(u),
         \A i \in 1 .. Len(s) : u[i] = s[i],
         NEW a \in Nat \ {0}, NEW b \in 0 .. Len(s)
  PROVE  SubSeq(u, a, b) = SubSeq(s, a, b)
<1>1. SubSeq(u, a, b) = [i \in 1 .. (1 + b - a) |-> u[i + a - 1]]
  OBVIOUS
<1>2. SubSeq(s, a, b) = [i \in 1 .. (1 + b - a) |-> s[i + a - 1]]
  OBVIOUS
<1>3. \A i \in 1 .. (1 + b - a) : i + a - 1 \in 1 .. Len(s)
  OBVIOUS
<1> QED
  BY <1>1, <1>2, <1>3

\* The largest and the smallest element of a singleton.
LEMMA OnlyElement ==
  ASSUME NEW o \in Nat
  PROVE  Header!Max({o}) = o /\ Header!Min({o}) = o
BY DEF Header!Max, Header!Min

\* A stretch of one token.
LEMMA OneToken ==
  ASSUME NEW q \in Seq(Tokens), NEW m \in 1 .. Len(q)
  PROVE  SubSeq(q, m, m) = <<q[m]>>
<1>1. PICK x : x = q[m] /\ x \in Tokens
  OBVIOUS
<1>2. /\ SubSeq(q, m, m) \in Seq(Tokens) /\ Len(SubSeq(q, m, m)) = 1
      /\ SubSeq(q, m, m)[1] = x
  BY <1>1
<1>3. <<x>> \in Seq(Tokens) /\ Len(<<x>>) = 1 /\ <<x>>[1] = x
  BY <1>1
<1>4. PICK r : r = SubSeq(q, m, m)
  OBVIOUS
<1>5. PICK z : z = <<x>>
  OBVIOUS
<1>6. r = z
  <2>1. r \in Seq(Tokens) /\ z \in Seq(Tokens) /\ Len(r) = 1 /\ Len(z) = 1 /\ r[1] = z[1]
    BY <1>2, <1>3, <1>4, <1>5
  <2>2. \A i \in 1 .. Len(r) : r[i] = z[i]
    BY ONLY <2>1
  <2> QED
    BY ONLY <2>1, <2>2, SeqEqual
<1> QED
  BY <1>1, <1>4, <1>5, <1>6

\* A word, alone between quotes, is what is left without the quotes.
LEMMA WordUnquoted ==
  ASSUME NEW q \in Seq(Tokens), NEW m \in DOMAIN q,
         \A i \in DOMAIN q : q[i][1] # "quote" <=> i = m
  PROVE  Header!Unquoted(q) = <<q[m]>>
<1>1. {i \in DOMAIN q : q[i][1] # "quote"} = {m}
  OBVIOUS
<1>2. m \in Nat \ {0} /\ m <= Len(q) /\ Len(q) \in Nat
  OBVIOUS
<1>3. Header!Min({m}) = m /\ Header!Max({m}) = m
  BY <1>2, OnlyElement
<1>4. Header!Unquoted(q) = SubSeq(q, m, m)
  BY <1>1, <1>3 DEF Header!Unquoted
<1>5. SubSeq(q, m, m) = <<q[m]>>
  BY <1>2, OneToken
<1> QED
  BY <1>4, <1>5

\* A name and an address in brackets are told apart.
LEMMA BracketsFound ==
  ASSUME NEW p \in Seq(Tokens), NEW o \in Nat, NEW m \in 1 .. o - 1, Len(p) = o + 2,
         \A i \in DOMAIN p : p[i][1] = "<" <=> i = o,
         \A i \in DOMAIN p : p[i][1] = ">" <=> i = o + 2,
         \A i \in 1 .. o - 1 : p[i][1] # "quote" <=> i = m
  PROVE  Header!ParseAddress(p) = [email |-> <<p[o + 1]>>, name |-> <<p[m]>>]
<1> DEFINE q == SubSeq(p, 1, o - 1)
<1>1. DOMAIN p = 1 .. o + 2 /\ o # 0
  OBVIOUS
<1>2. Header!LastOpen(p) = o
  <2>1. {i \in DOMAIN p : p[i][1] = "<"} = {o}
    BY <1>1
  <2>2. Header!Max({o}) = o
    BY OnlyElement
  <2> QED
    BY ONLY <2>1, <2>2 DEF Header!LastOpen
<1>3. Header!Closes(p) = {o + 2}
  <2>1. {i \in DOMAIN p : i > o /\ p[i][1] = ">"} = {o + 2}
    BY <1>1
  <2> QED
    BY <1>2, <2>1 DEF Header!Closes
<1>4. Header!Min({o + 2}) = o + 2
  <2>1. o + 2 \in Nat
    OBVIOUS
  <2> QED
    BY <2>1, OnlyElement
<1>5. Header!ParseAddress(p) =
        [email |-> SubSeq(p, o + 1, o + 2 - 1), name |-> Header!Unquoted(q)]
  <2>1. Header!LastOpen(p) # 0 /\ Header!Closes(p) # {} /\ Header!Min(Header!Closes(p)) = o + 2
    BY <1>1, <1>2, <1>3, <1>4
  <2> QED
    BY <1>2, <2>1 DEF Header!ParseAddress
<1>6. SubSeq(p, o + 1, o + 2 - 1) = <<p[o + 1]>>
  <2>1. o + 2 - 1 = o + 1 /\ o + 1 \in 1 .. Len(p)
    OBVIOUS
  <2> QED
    BY <2>1, OneToken
<1>7. q \in Seq(Tokens) /\ DOMAIN q = 1 .. o - 1 /\ \A i \in 1 .. o - 1 : q[i] = p[i]
  BY ONLY p \in Seq(Tokens), Len(p) = o + 2, o \in Nat, o # 0, <1>1
<1> HIDE DEF q
<1>8. Header!Unquoted(q) = <<q[m]>>
  <2>1. m \in DOMAIN q /\ \A i \in DOMAIN q : q[i][1] # "quote" <=> i = m
    BY <1>7
  <2> QED
    BY <1>7, <2>1, WordUnquoted
<1> QED
  BY <1>5, <1>6, <1>7, <1>8

\* The tokens of an address with a name.
Kinds(quote, word, open, email, close) ==
  /\ {quote, word, open, email, close} \subseteq Tokens
  /\ quote[1] = "quote" /\ word[1] = "word" /\ open[1] = "<" /\ email[1] = "email"
  /\ close[1] = ">"

WithWord(p, quote, word, open, email, close) ==
  Kinds(quote, word, open, email, close) /\ p = <<word, open, email, close>>
WithQuoted(p, quote, word, open, email, close) ==
  Kinds(quote, word, open, email, close) /\ p = <<quote, word, quote, open, email, close>>

\* A word before an address in brackets.
LEMMA WordRead ==
  ASSUME NEW quote, NEW word, NEW open, NEW email, NEW close,
         NEW p, WithWord(p, quote, word, open, email, close)
  PROVE  /\ p \in Seq(Tokens) /\ NoComma(p)
         /\ Header!ParseAddress(p) = [email |-> <<email>>, name |-> <<word>>]
<1>1. p \in Seq(Tokens) /\ Len(p) = 4 /\ DOMAIN p = {1, 2, 3, 4}
      /\ p[1] = word /\ p[2] = open /\ p[3] = email /\ p[4] = close
  <2>1. word \in Tokens /\ open \in Tokens /\ email \in Tokens /\ close \in Tokens
    BY DEF Kinds, WithWord
  <2> QED
    BY <2>1 DEF WithWord
<1>2. p[1][1] = "word" /\ p[2][1] = "<" /\ p[3][1] = "email" /\ p[4][1] = ">"
  BY <1>1 DEF Kinds, WithWord
<1>3. NoComma(p)
  BY ONLY <1>1, <1>2 DEF NoComma
<1>4. \A i \in DOMAIN p : p[i][1] = "<" <=> i = 2
  BY ONLY <1>1, <1>2
<1>5. \A i \in DOMAIN p : p[i][1] = ">" <=> i = 2 + 2
  BY ONLY <1>1, <1>2
<1>6. \A i \in 1 .. 2 - 1 : p[i][1] # "quote" <=> i = 1
  BY ONLY <1>2
<1>7. p \in Seq(Tokens) /\ 2 \in Nat /\ 1 \in 1 .. 2 - 1 /\ Len(p) = 2 + 2
  BY <1>1
<1>8. Header!ParseAddress(p) = [email |-> <<p[2 + 1]>>, name |-> <<p[1]>>]
  BY ONLY <1>4, <1>5, <1>6, <1>7, BracketsFound, Zenon
<1> QED
  BY <1>1, <1>3, <1>8

\* A word in quotes before an address in brackets.
LEMMA QuotedRead ==
  ASSUME NEW quote, NEW word, NEW open, NEW email, NEW close,
         NEW p, WithQuoted(p, quote, word, open, email, close)
  PROVE  /\ p \in Seq(Tokens) /\ NoComma(p)
         /\ Header!ParseAddress(p) = [email |-> <<email>>, name |-> <<word>>]
<1>1. p \in Seq(Tokens) /\ Len(p) = 6 /\ DOMAIN p = {1, 2, 3, 4, 5, 6}
      /\ p[1] = quote /\ p[2] = word /\ p[3] = quote
      /\ p[4] = open /\ p[5] = email /\ p[6] = close
  <2>1. quote \in Tokens /\ word \in Tokens /\ open \in Tokens /\ email \in Tokens
        /\ close \in Tokens
    BY DEF Kinds, WithQuoted
  <2> QED
    BY <2>1 DEF WithQuoted
<1>2. /\ p[1][1] = "quote" /\ p[2][1] = "word" /\ p[3][1] = "quote"
      /\ p[4][1] = "<" /\ p[5][1] = "email" /\ p[6][1] = ">"
  BY <1>1 DEF Kinds, WithQuoted
<1>3. NoComma(p)
  BY ONLY <1>1, <1>2 DEF NoComma
<1>4. \A i \in DOMAIN p : p[i][1] = "<" <=> i = 4
  BY ONLY <1>1, <1>2
<1>5. \A i \in DOMAIN p : p[i][1] = ">" <=> i = 4 + 2
  BY ONLY <1>1, <1>2
<1>6. \A i \in 1 .. 4 - 1 : p[i][1] # "quote" <=> i = 2
  BY ONLY <1>2
<1>7. p \in Seq(Tokens) /\ 4 \in Nat /\ 2 \in 1 .. 4 - 1 /\ Len(p) = 4 + 2
  BY <1>1
<1>8. Header!ParseAddress(p) = [email |-> <<p[4 + 1]>>, name |-> <<p[2]>>]
  BY ONLY <1>4, <1>5, <1>6, <1>7, BracketsFound, Zenon
<1> QED
  BY <1>1, <1>3, <1>8

\* What is written without a comma is read as it is meant (parse_address).
LEMMA WrittenIsRead ==
  ASSUME NEW shape \in Header!Names, shape # "comma", NEW k \in Nat
  PROVE  /\ Header!Written(shape, k) \in Seq(Tokens) /\ NoComma(Header!Written(shape, k))
         /\ Header!ParseAddress(Header!Written(shape, k)) = Header!Meant(shape, k)
<1> DEFINE p == Header!Written(shape, k)
<1>1. PICK email, word, quote, open, close :
        /\ email = <<"email", k>> /\ word = <<"word", k>> /\ quote = <<"quote", 0>>
        /\ open = <<"<", 0>> /\ close = <<">", 0>>
  OBVIOUS
<1>2. /\ email \in Tokens /\ word \in Tokens /\ quote \in Tokens
      /\ open \in Tokens /\ close \in Tokens
  BY <1>1 DEF Tokens
<1>3. /\ email[1] = "email" /\ word[1] = "word" /\ quote[1] = "quote"
      /\ open[1] = "<" /\ close[1] = ">"
  BY <1>1
<1>4. Kinds(quote, word, open, email, close)
  BY <1>2, <1>3 DEF Kinds
<1>5. Header!Meant(shape, k) =
        [email |-> <<email>>, name |-> IF shape = "bare" THEN None ELSE <<word>>]
  BY <1>1 DEF Header!Meant
<1>6. CASE shape = "bare"
  <2>1. p = <<email>>
    BY <1>1, <1>6 DEF Header!Written
  <2> HIDE DEF p
  <2>2. p \in Seq(Tokens) /\ DOMAIN p = {1} /\ p[1] = email
    BY ONLY <1>2, <2>1
  <2>3. {i \in DOMAIN p : p[i][1] = "<"} = {} /\ NoComma(p)
    BY ONLY <1>3, <2>2 DEF NoComma
  <2>4. Header!ParseAddress(p) = [email |-> p, name |-> None]
    BY ONLY <2>3 DEF Header!ParseAddress, Header!LastOpen
  <2> QED
    BY <1>5, <1>6, <2>1, <2>2, <2>3, <2>4 DEF p
<1>7. CASE shape = "word"
  <2>1. p = <<word, open, email, close>>
    BY <1>1, <1>7 DEF Header!Written
  <2> HIDE DEF p
  <2>2. WithWord(p, quote, word, open, email, close)
    BY <1>4, <2>1 DEF WithWord
  <2>3. /\ p \in Seq(Tokens) /\ NoComma(p)
        /\ Header!ParseAddress(p) = [email |-> <<email>>, name |-> <<word>>]
    BY ONLY <2>2, WordRead
  <2> QED
    BY <1>5, <1>7, <2>3 DEF p
<1>8. CASE shape = "quoted"
  <2>1. p = <<quote, word, quote, open, email, close>>
    BY <1>1, <1>8 DEF Header!Written
  <2> HIDE DEF p
  <2>2. WithQuoted(p, quote, word, open, email, close)
    BY <1>4, <2>1 DEF WithQuoted
  <2>3. /\ p \in Seq(Tokens) /\ NoComma(p)
        /\ Header!ParseAddress(p) = [email |-> <<email>>, name |-> <<word>>]
    BY ONLY <2>2, QuotedRead
  <2> QED
    BY <1>5, <1>8, <2>3 DEF p
<1> QED
  BY <1>6, <1>7, <1>8 DEF Header!Names

\* s splits into the addresses of h as they were written.
SplitAs(s, h) ==
  /\ Cardinality(Header!Cuts(s)) = Len(h) + 1
  /\ Header!Cut(s, Len(h) + 1) = Len(s) + 1
  /\ \A k \in 1 .. Len(h) :
       SubSeq(s, Header!Cut(s, k) + 1, Header!Cut(s, k + 1) - 1) = Header!Written(h[k], k)

Plain(h) == \A k \in 1 .. Len(h) : h[k] # "comma"

HInv ==
  /\ header \in Seq(Header!Names)
  /\ Plain(header) => text \in Seq(Tokens) /\ (header # <<>> => SplitAs(text, header))
  /\ Header!AddressesWhole

\* The first address is all there is.
LEMMA FirstSplits ==
  ASSUME NEW s \in Seq(Tokens), NoComma(s), NEW h, Len(h) = 1, s = Header!Written(h[1], 1)
  PROVE  SplitAs(s, h)
<1>1. PICK n : n = Len(s) + 1
  OBVIOUS
<1>2. PICK S : S = Header!Cuts(s)
  OBVIOUS
<1>3. n \in Nat /\ n # 0 /\ Len(s) \in Nat
  BY <1>1
<1>4. S = {0} \union {n}
  <2>1. {i \in DOMAIN s : s[i][1] = ","} = {}
    BY DEF NoComma
  <2> QED
    BY <1>1, <1>2, <2>1 DEF Header!Cuts
<1>5. Cardinality(S) = 2
  <2>1. IsFiniteSet({0}) /\ Cardinality({0}) = 1 /\ n \notin {0}
    BY <1>3, FS_Singleton
  <2>2. Cardinality({0} \union {n}) = Cardinality({0}) + 1
    BY <2>1, FS_AddElement
  <2>3. Cardinality(S) = Cardinality({0}) + 1
    BY ONLY <1>4, <2>2, Zenon
  <2> QED
    BY <2>1, <2>3
<1>6. Cardinality(Below(S, 0)) = 0 /\ Cardinality(Below(S, n)) = 1
  <2>1. Below(S, 0) = {} /\ Below(S, n) = {0}
    BY <1>3, <1>4 DEF Below
  <2> QED
    BY ONLY <2>1, FS_EmptySet, FS_Singleton
<1>7. Header!Cut(s, 1) = 0 /\ Header!Cut(s, 2) = n
  <2>1. 1 \in 1 .. Cardinality(S) /\ 2 \in 1 .. Cardinality(S) /\ 0 = 1 - 1 /\ 1 = 2 - 1
    BY ONLY <1>5
  <2>2. 0 \in S /\ n \in S
    BY ONLY <1>4
  <2> QED
    BY <1>2, <1>6, <2>1, <2>2, CutRanked
<1>8. SubSeq(s, 1, Len(s)) = s
  OBVIOUS
<1>9. 0 + 1 = 1 /\ n - 1 = Len(s) /\ 1 + 1 = 2
  BY <1>1, <1>3
<1>10. \A k \in 1 .. Len(h) : k = 1
  OBVIOUS
<1>11. SubSeq(s, Header!Cut(s, 1) + 1, Header!Cut(s, 1 + 1) - 1) = Header!Written(h[1], 1)
  BY <1>7, <1>8, <1>9
<1>12. Cardinality(Header!Cuts(s)) = Len(h) + 1 /\ Header!Cut(s, Len(h) + 1) = Len(s) + 1
  BY <1>1, <1>2, <1>5, <1>7, <1>9
<1> QED
  BY <1>10, <1>11, <1>12 DEF SplitAs

\* Another address is the next piece, and the earlier pieces stay.
LEMMA NextSplits ==
  ASSUME NEW s \in Seq(Tokens), NEW t \in Seq(Tokens), NoComma(t), NEW u, Joins(s, t, u),
         NEW h \in Seq(Header!Names), NEW shape \in Header!Names,
         SplitAs(s, h), t = Header!Written(shape, Len(h) + 1)
  PROVE  SplitAs(u, Append(h, shape))
<1>1. PICK g : g = Append(h, shape)
  OBVIOUS
<1>2. PICK n : n = Len(h)
  OBVIOUS
<1>3. n \in Nat /\ Len(g) = n + 1 /\ g[n + 1] = shape /\ \A k \in 1 .. n : g[k] = h[k]
  BY <1>1, <1>2
<1>4. /\ Cardinality(Header!Cuts(s)) = n + 1 /\ Header!Cut(s, n + 1) = Len(s) + 1
      /\ \A k \in 1 .. n :
           SubSeq(s, Header!Cut(s, k) + 1, Header!Cut(s, k + 1) - 1) = Header!Written(h[k], k)
  BY <1>2 DEF SplitAs
<1>5. /\ Cardinality(Header!Cuts(u)) = n + 1 + 1
      /\ \A i \in 1 .. n + 1 : Header!Cut(u, i) = Header!Cut(s, i)
      /\ Header!Cut(u, n + 1 + 1) = Len(u) + 1
  BY <1>4, CutsKept
<1>6. /\ u \in Seq(Tokens) /\ Len(u) = Len(s) + 1 + Len(t) /\ Len(s) \in Nat /\ Len(t) \in Nat
      /\ \A i \in 1 .. Len(s) : u[i] = s[i]
      /\ \A j \in 1 .. Len(t) : u[Len(s) + 1 + j] = t[j]
  <2>1. /\ u \in Seq(Tokens) /\ Len(u) = Len(s) + 1 + Len(t)
        /\ \A i \in 1 .. Len(s) : u[i] = s[i]
        /\ \A j \in 1 .. Len(t) : u[Len(s) + 1 + j] = t[j]
    BY OneMoreCut
  <2>2. Len(s) \in Nat /\ Len(t) \in Nat
    OBVIOUS
  <2> QED
    BY ONLY <2>1, <2>2
<1>7. ASSUME NEW k \in 1 .. n
      PROVE  SubSeq(u, Header!Cut(u, k) + 1, Header!Cut(u, k + 1) - 1) = Header!Written(g[k], k)
  <2>1. k \in 1 .. n + 1 /\ k + 1 \in 1 .. n + 1
    BY <1>3
  <2>2. Header!Cut(u, k) = Header!Cut(s, k) /\ Header!Cut(u, k + 1) = Header!Cut(s, k + 1)
    BY <1>5, <2>1
  <2>3. PICK a, b : a = Header!Cut(s, k) /\ b = Header!Cut(s, k + 1)
    OBVIOUS
  <2>4. /\ a \in Header!Cuts(s) /\ b \in Header!Cuts(s)
        /\ Cardinality(Below(Header!Cuts(s), b)) = k + 1 - 1
    BY <1>4, <2>1, <2>3, CutRanked
  <2>5. a \in 0 .. Len(s) + 1 /\ b \in 0 .. Len(s) + 1
    BY <2>4, CutsFinite
  <2>6. b # 0
    <3> SUFFICES ASSUME b = 0 PROVE FALSE
      OBVIOUS
    <3>1. Below(Header!Cuts(s), b) = {}
      BY <2>4, CutsFinite DEF Below
    <3> QED
      <4>1. Cardinality(Below(Header!Cuts(s), b)) = 0
        BY ONLY <3>1, FS_EmptySet
      <4>2. k + 1 - 1 # 0
        BY <1>3
      <4> QED
        BY ONLY <2>4, <4>1, <4>2
  <2>7. a + 1 \in Nat \ {0} /\ b - 1 \in 0 .. Len(s) /\ Len(s) <= Len(u)
    BY <1>6, <2>5, <2>6
  <2>8. SubSeq(u, a + 1, b - 1) = SubSeq(s, a + 1, b - 1)
    BY <1>6, <2>7, SubSeqKept
  <2> QED
    BY <1>3, <1>4, <2>2, <2>3, <2>8
<1>8. SubSeq(u, Len(s) + 1 + 1, Len(u)) = t
  <2>1. PICK r : r = SubSeq(u, Len(s) + 1 + 1, Len(u))
    OBVIOUS
  <2>2. r \in Seq(Tokens) /\ Len(r) = Len(t)
    BY <1>6, <2>1
  <2>3. \A j \in 1 .. Len(r) : r[j] = t[j]
    <3> SUFFICES ASSUME NEW j \in 1 .. Len(r) PROVE r[j] = t[j]
      OBVIOUS
    <3>1. r[j] = u[Len(s) + 1 + 1 + j - 1] /\ Len(s) + 1 + 1 + j - 1 = Len(s) + 1 + j
      BY ONLY <1>6, <2>1, <2>2, j \in 1 .. Len(r)
    <3> QED
      BY <1>6, <2>2, <3>1
  <2> QED
    BY <2>1, <2>2, <2>3, SeqEqual
<1>9. SubSeq(u, Header!Cut(u, n + 1) + 1, Header!Cut(u, n + 1 + 1) - 1) = Header!Written(g[n + 1], n + 1)
  <2>1. n + 1 \in 1 .. n + 1 /\ Len(u) + 1 - 1 = Len(u)
    BY <1>3, <1>6
  <2>2. Header!Cut(u, n + 1) = Len(s) + 1
    BY <1>4, <1>5, <2>1
  <2>3. t = Header!Written(g[n + 1], n + 1)
    BY ONLY <1>2, <1>3, t = Header!Written(shape, Len(h) + 1)
  <2> QED
    BY ONLY <1>5, <1>8, <2>1, <2>2, <2>3
<1>10. \A k \in 1 .. n + 1 : k \in 1 .. n \/ k = n + 1
  BY <1>3
<1>11. SplitAs(u, g)
  BY <1>3, <1>5, <1>7, <1>9, <1>10 DEF SplitAs
<1> QED
  BY <1>1, <1>11

\* A header that splits as it was written is read as it is meant.
LEMMA SplitIsRead ==
  ASSUME NEW s \in Seq(Tokens), NEW h \in Seq(Header!Names), Plain(h), SplitAs(s, h)
  PROVE  Header!ParseAddressList(s) = [k \in DOMAIN h |-> Header!Meant(h[k], k)]
<1>1. Len(h) \in Nat /\ DOMAIN h = 1 .. Len(h) /\ \A k \in 1 .. Len(h) : h[k] \in Header!Names
  OBVIOUS
<1>2. Cardinality(Header!Cuts(s)) - 1 = Len(h)
  BY <1>1 DEF SplitAs
<1>3. Header!Cardinality(Header!Cuts(s)) = Cardinality(Header!Cuts(s))
  BY DEF Header!Cardinality, Cardinality
<1>4. Header!Pieces(s) = [k \in 1 .. Len(h) |->
                            SubSeq(s, Header!Cut(s, k) + 1, Header!Cut(s, k + 1) - 1)]
  BY ONLY <1>2, <1>3 DEF Header!Pieces
<1>5. /\ DOMAIN Header!Pieces(s) = 1 .. Len(h)
      /\ \A k \in 1 .. Len(h) : Header!Pieces(s)[k] = Header!Written(h[k], k)
  BY <1>4 DEF SplitAs
<1>6. \A k \in 1 .. Len(h) : Header!ParseAddress(Header!Pieces(s)[k]) = Header!Meant(h[k], k)
  <2> SUFFICES ASSUME NEW k \in 1 .. Len(h)
               PROVE  Header!ParseAddress(Header!Pieces(s)[k]) = Header!Meant(h[k], k)
    OBVIOUS
  <2>1. h[k] \in Header!Names /\ h[k] # "comma" /\ k \in Nat
    BY <1>1 DEF Plain
  <2>2. Header!ParseAddress(Header!Written(h[k], k)) = Header!Meant(h[k], k)
    BY <2>1, WrittenIsRead
  <2> QED
    BY <1>5, <2>2
<1> QED
  BY ONLY <1>1, <1>5, <1>6 DEF Header!ParseAddressList

\* A name without a comma is one of the header's names.
LEMMA PlainNames ==
  ASSUME NEW h \in Seq(Header!Names)
  PROVE  Plain(h) <=> "comma" \notin Header!ToSet(h)
BY DEF Plain, Header!ToSet

\* Writing and reading a header keep what is known about it.
LEMMA HeaderKeeps ==
  ASSUME HInv, Header!Next
  PROVE  HInv'
<1>1. CASE Header!Visit
  BY <1>1 DEF Header!Visit, HInv, Header!AddressesWhole
<1>2. ASSUME NEW shape \in Header!Names, Header!Write(shape) PROVE HInv'
  <2>1. emails' = <<>> /\ header' = Append(header, shape)
    BY <1>2 DEF Header!Write
  <2>2. text' = (IF header = <<>> THEN <<>> ELSE Append(text, <<",", 0>>))
                \o Header!Written(shape, Len(header) + 1)
    BY <1>2 DEF Header!Write
  <2>3. header \in Seq(Header!Names) /\ header' \in Seq(Header!Names)
        /\ Len(header) \in Nat /\ Len(header') = Len(header) + 1 /\ header' # <<>>
        /\ header'[Len(header) + 1] = shape /\ \A k \in 1 .. Len(header) : header'[k] = header[k]
    BY <2>1 DEF HInv
  <2>4. Header!AddressesWhole'
    BY <2>1 DEF Header!AddressesWhole
  <2>5. ASSUME Plain(header') PROVE text' \in Seq(Tokens) /\ SplitAs(text', header')
    <3> DEFINE w == Header!Written(shape, Len(header) + 1)
    <3>1. shape # "comma" /\ Plain(header)
      BY <2>3, <2>5 DEF Plain
    <3>2. w \in Seq(Tokens) /\ NoComma(w)
      <4>1. Len(header) + 1 \in Nat
        BY <2>3
      <4> QED
        BY <3>1, <4>1, WrittenIsRead
    <3>3. CASE header = <<>>
      <4>1. Len(header) = 0
        BY <3>3
      <4>2. text' = w
        BY <2>2, <3>2, <3>3
      <4>3. Len(header') = 1 /\ header'[1] = shape /\ w = Header!Written(shape, 1)
        BY <2>3, <4>1
      <4>4. PICK s, h : s = text' /\ h = header'
        OBVIOUS
      <4> HIDE DEF w
      <4>5. SplitAs(s, h)
        BY <3>2, <4>2, <4>3, <4>4, FirstSplits
      <4> QED
        BY <3>2, <4>2, <4>4, <4>5
    <3>4. CASE header # <<>>
      <4>1. text \in Seq(Tokens) /\ SplitAs(text, header)
        BY <3>1, <3>4 DEF HInv
      <4>2. PICK u : u = text'
        OBVIOUS
      <4>3. u = Append(text, <<",", 0>>) \o w
        BY <2>2, <3>4, <4>2
      <4>4. Joins(text, w, u)
        BY <4>3 DEF Joins, Comma
      <4>5. u \in Seq(Tokens)
        BY <3>2, <4>1, <4>4, OneMoreCut
      <4>6. SplitAs(u, Append(header, shape))
        BY <2>3, <3>2, <4>1, <4>4, NextSplits
      <4> QED
        BY <2>1, <4>2, <4>5, <4>6
    <3> QED
      BY <3>3, <3>4
  <2> QED
    BY <2>3, <2>4, <2>5 DEF HInv
<1>3. CASE Header!ParseHeader
  <2>1. header # <<>> /\ header' = header /\ text' = text /\ emails' = Header!ParseAddressList(text)
    BY <1>3 DEF Header!ParseHeader
  <2>2. header \in Seq(Header!Names)
    BY DEF HInv
  <2>3. ASSUME "comma" \notin Header!ToSet(header)
        PROVE  emails' = [k \in DOMAIN header |-> Header!Meant(header[k], k)]
    <3>1. Plain(header)
      BY <2>2, <2>3, PlainNames
    <3>2. text \in Seq(Tokens) /\ SplitAs(text, header)
      BY <2>1, <3>1 DEF HInv
    <3> QED
      BY <2>1, <2>2, <3>1, <3>2, SplitIsRead
  <2>4. Header!AddressesWhole'
    BY <2>1, <2>3 DEF Header!AddressesWhole
  <2> QED
    BY <2>1, <2>4 DEF HInv
<1> QED
  BY <1>1, <1>2, <1>3 DEF Header!Next
------------------------------------------------------------------------------
(***************************************************************************)
(* The parts side by side.                                                 *)
(***************************************************************************)
RInv == (part = "search" => SInv) /\ (part = "walk" => WInv) /\ (part = "header" => HInv)

\* Every step is one of the part the behaviour is about.
LEMMA ReadsInvariance == ReadsSpec => []RInv
<1>1. ReadsInit => RInv
  <2> SUFFICES ASSUME ReadsInit PROVE RInv
    OBVIOUS
  <2>1. ASSUME part = "search" PROVE SInv
    <3>1. pages = <<>> /\ cursor = {}
      BY <2>1 DEF ReadsInit, Search!Init
    <3> QED
      BY <3>1, EmptySeq DEF SInv, OncePerPage, CursorSeen
  <2>2. ASSUME part = "walk" PROVE WInv
    BY <2>2, WalkStarts DEF ReadsInit
  <2>3. ASSUME part = "header" PROVE HInv
    <3>1. header = <<>> /\ text = <<>> /\ emails = <<>>
      BY <2>3 DEF ReadsInit, Header!Init
    <3> QED
      BY <3>1, EmptySeq DEF HInv, Header!AddressesWhole
  <2> QED
    BY <2>1, <2>2, <2>3 DEF RInv
<1>2. RInv /\ [ReadsNext]_allVars => RInv'
  <2> SUFFICES ASSUME RInv, [ReadsNext]_allVars PROVE RInv'
    OBVIOUS
  <2>1. part' = part
    BY DEF ReadsNext, allVars
  <2>2. ASSUME part = "search" PROVE SInv'
    <3>1. CASE Search!Next
      BY <2>2, <3>1, SearchKeeps DEF RInv
    <3>2. CASE UNCHANGED allVars
      BY <2>2, <3>2 DEF allVars, searchVars, RInv, SInv, OncePerPage, CursorSeen, Seen, Matching,
                        Ordered
    <3> QED
      BY <2>2, <3>1, <3>2 DEF ReadsNext
  <2>3. ASSUME part = "walk" PROVE WInv'
    <3>1. CASE Walk!Next
      BY <2>3, <3>1, WalkKeeps DEF RInv
    <3>2. CASE UNCHANGED allVars
      BY <2>3, <3>2 DEF allVars, parseVars, RInv, WInv, BodyFound, Decodes, Attached, Increasing
    <3> QED
      BY <2>3, <3>1, <3>2 DEF ReadsNext
  <2>4. ASSUME part = "header" PROVE HInv'
    <3>1. CASE Header!Next
      BY <2>4, <3>1, HeaderKeeps DEF RInv
    <3>2. CASE UNCHANGED allVars
      BY <2>4, <3>2 DEF allVars, parseVars, RInv, HInv, Header!AddressesWhole
    <3> QED
      BY <2>4, <3>1, <3>2 DEF ReadsNext
  <2> QED
    BY <2>1, <2>2, <2>3, <2>4 DEF RInv
<1> QED
  BY <1>1, <1>2, PTL DEF ReadsSpec

\* What the other parts do is nothing to the cache.
THEOREM ReadsKeepCache == ReadsSpec => Spec
<1>1. ReadsInit => Init
  BY DEF ReadsInit
<1>2. [ReadsNext]_allVars => [Next]_vars
  BY DEF ReadsNext, allVars
<1> QED
  BY <1>1, <1>2, PTL DEF ReadsSpec, Spec

\* In a mailbox of any size, with pages of any size, a client that follows
\* next_cursor to the end has been shown every conversation with a matching
\* message, and on no page one twice (search_impl).
THEOREM PagesCoverSearch == ReadsSpec => []PagingCovers
<1>1. RInv => PagingCovers
  BY SInvCovers DEF RInv, PagingCovers
<1> QED
  BY <1>1, ReadsInvariance, PTL

\* For any message, the bodies are the first parts of their types that decode,
\* and the attachments are other parts that have a filename and a body, in order
\* and once each (walk_parts, decode_body).
THEOREM WalkFindsParts == ReadsSpec => []PartsSound
<1>1. RInv => PartsSound
  BY WInvSound DEF RInv, PartsSound
<1> QED
  BY <1>1, ReadsInvariance, PTL

\* A header of any number of addresses comes back as the addresses and names it
\* was written from, as long as no name holds a comma (parse_address_list,
\* parse_address).
THEOREM HeadersComeBack == ReadsSpec => []AddressesWhole
<1>1. RInv => AddressesWhole
  BY DEF RInv, HInv, AddressesWhole
<1> QED
  BY <1>1, ReadsInvariance, PTL
==============================================================================
