---------------------------- MODULE MessageCache ----------------------------
(***************************************************************************)
(* MessageCache (cache.rs): a bounded cache with least-recently-used       *)
(* eviction and a time to live per entry, every operation under one mutex. *)
(* The lru crate is external: it orders its entries by their last use and  *)
(* drops the last one when it is full.                                     *)
(***************************************************************************)
EXTENDS Integers, FiniteSets

CONSTANTS
  Accounts, MsgIds,
  Values,      \* what is cached
  Capacity,    \* capacity: NonZeroUsize
  Ttl,         \* ttl, in ticks
  MaxTime,     \* bound: ticks of the clock
  MaxOps,      \* bound: puts and hits
  None

Keys == Accounts \X MsgIds

ASSUME CapacityPos == Capacity \in Nat \ {0}
ASSUME TtlNat == Ttl \in Nat
ASSUME KeysFinite == IsFiniteSet(Keys)
ASSUME NoneNoValue == None \notin Values

VARIABLES
  entry,    \* entry[k]: value and inserted; value None when k is not cached
  used,     \* used[k]: the number of the operation that last used k
  now,      \* Instant::now()
  ops,      \* puts and hits so far
  latest,   \* latest[k]: the last put of k; value None once invalidated
  answer    \* answer[k]: what the last get of k returned

vars == <<entry, used, now, ops, latest, answer>>

Entry == [value : Values \union {None}, inserted : Nat]
NoEntry == [value |-> None, inserted |-> 0]

Cached == {k \in Keys : entry[k].value # None}
Use(k) == used' = [used EXCEPT ![k] = ops + 1] /\ ops' = ops + 1

Init ==
  /\ entry = [k \in Keys |-> NoEntry] /\ latest = entry
  /\ used = [k \in Keys |-> 0] /\ now = 0 /\ ops = 0
  /\ answer = [k \in Keys |-> None]

MutantVictim(k) ==   \* first in, first out
  IF k \in Cached \/ Cardinality(Cached) < Capacity THEN {}
  ELSE {v \in Cached : \A j \in Cached : entry[v].inserted <= entry[j].inserted}

\* The entry that goes when one more key comes in.
Victim(k) ==
  IF k \in Cached \/ Cardinality(Cached) < Capacity THEN {}
  ELSE {v \in Cached : \A j \in Cached : used[v] <= used[j]}

Put(k, x) ==
  /\ ops < MaxOps /\ Use(k)
  /\ LET e == [value |-> x, inserted |-> now] IN
       /\ entry' = [j \in Keys |-> IF j = k THEN e
                                   ELSE IF j \in Victim(k) THEN NoEntry ELSE entry[j]]
       /\ latest' = [latest EXCEPT ![k] = e]
  /\ UNCHANGED <<now, answer>>

MutantFresh(e) == e.value # None   \* no look at the clock

\* elapsed() <= ttl
Fresh(e) == e.value # None /\ now - e.inserted <= Ttl

\* get: a hit moves the entry to the front, a miss removes what has expired.
Hit(k) ==
  /\ ops < MaxOps /\ Fresh(entry[k]) /\ Use(k)
  /\ answer' = [answer EXCEPT ![k] = entry[k].value]
  /\ UNCHANGED <<entry, latest, now>>

Miss(k) ==
  /\ ~Fresh(entry[k])
  /\ entry' = [entry EXCEPT ![k] = NoEntry]
  /\ answer' = [answer EXCEPT ![k] = None]
  /\ UNCHANGED <<used, ops, latest, now>>

Get(k) == Hit(k) \/ Miss(k)

InvalidateAccount(a) ==
  LET clear(f) == [k \in Keys |-> IF k[1] = a THEN NoEntry ELSE f[k]] IN
  /\ entry' = clear(entry) /\ latest' = clear(latest)
  /\ UNCHANGED <<used, now, ops, answer>>

Tick == now < MaxTime /\ now' = now + 1 /\ UNCHANGED <<entry, used, ops, latest, answer>>

Next ==
  \/ \E k \in Keys : Get(k) \/ \E x \in Values : Put(k, x)
  \/ \E a \in Accounts : InvalidateAccount(a)
  \/ Tick

Spec == Init /\ [][Next]_vars
------------------------------------------------------------------------------
(***************************************************************************)
(* Properties.                                                             *)
(***************************************************************************)
TypeOK ==
  /\ entry \in [Keys -> Entry] /\ latest \in [Keys -> Entry]
  /\ used \in [Keys -> Nat] /\ now \in Nat /\ ops \in Nat
  /\ answer \in [Keys -> Values \union {None}]

\* "Bounded LRU cache" (cache.rs:71): never more entries than the capacity,
\* and no two entries were last used at the same time, so one is the oldest.
Bounded ==
  /\ Cardinality(Cached) <= Capacity
  /\ \A j, k \in Cached : used[j] = used[k] => j = k

\* get answers nothing but the last value put under the key, of an account not
\* invalidated since, at most ttl ago (get, put, invalidate_account).
NeverStale ==
  [][\A k \in Keys : Hit(k) =>
       answer'[k] = latest[k].value /\ now - latest[k].inserted <= Ttl]_vars

\* The exact promise of least-recently-used eviction: an entry that was put,
\* has not expired and was not invalidated is there unless as many other keys
\* as the cache holds have been used since it was (put, get).
KeptWhileRecent ==
  \A k \in Keys :
    /\ Fresh(latest[k])
    /\ Cardinality({j \in Keys : used[j] > used[k]}) < Capacity
    => entry[k] = latest[k]
==============================================================================
