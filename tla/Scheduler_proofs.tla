-------------------------- MODULE Scheduler_proofs --------------------------
(***************************************************************************)
(* Proofs about Scheduler, for any set of tasks and any dates, delays and  *)
(* periods of them.                                                        *)
(***************************************************************************)
EXTENDS Scheduler, FiniteSetTheorems, SequenceTheorems, TLAPS

(* Each of these sets is apart from the others, and together they hold     *)
(* every task.                                                             *)
Parts(a, b, c, d, e, f) ==
    /\ Tasks = a \cup b \cup c \cup d \cup e \cup f
    /\ a \cap (b \cup c \cup d \cup e \cup f) = {}
    /\ b \cap (c \cup d \cup e \cup f) = {}
    /\ c \cap (d \cup e \cup f) = {}
    /\ d \cap (e \cup f) = {}
    /\ e \cap f = {}

Apart == Parts(free, ToSet(tasksToAdd), ToSet(taskMap), {current} \ {NoTask}, ToSet(trash),
               deleted)

(* No list of the scheduler holds a task twice.                            *)
Once == IsInjective(tasksToAdd) /\ IsInjective(taskMap) /\ IsInjective(trash)

(* The worker holds a task while it plays it, and a stopped scheduler has  *)
(* no worker.                                                              *)
Held == /\ current # NoTask <=> pc \in {"play", "played"}
        /\ owner = "stopped" => pc \in {"none", "exited"}

(* What the worker and the clients remember of the time is past.           *)
Past == beginRun <= now /\ pausedTimeAt <= now /\ readNow <= now

(* Once the tasks have been prepared they go straight to the map.          *)
Straight == prepared => tasksToAdd = << >>

(* Nothing is owed before the tasks are prepared, after a stop, nor at the *)
(* beginning of a run.                                                     *)
NothingOwed == \A t \in Tasks : owed[t] = 0
Settled == ~prepared \/ owner \in {"wake", "join", "stopped"} \/ pc = "begin" => NothingOwed

(* The time of a task of the map leaves room for what is owed to it, from  *)
(* now, or from the beginning of the pause or of the run that a resume     *)
(* will count from.                                                        *)
Promised(t) == owed[t] > 0 =>
                 /\ RunIn[t] > 0
                 /\ paused => /\ runAt[t] >= owed[t] + beginRun
                              /\ runAt[t] >= owed[t] + pausedTimeAt
                 /\ ~paused => runAt[t] >= owed[t] + now
Promise == ~noDelay => \A t \in ToSet(taskMap) : Promised(t)

(* Nothing is owed any more to the task the worker holds.                  *)
Due == ~noDelay /\ current # NoTask => owed[current] = 0

(* The task taken since a pause is one that was about to be taken.         *)
OneSincePause == /\ sincePause <= 1
                 /\ ~paused \/ pc \in {"clock", "get"} => sincePause = 0

SchedulerInv == /\ TypeOK /\ Apart /\ Once /\ Held /\ Past /\ Straight /\ Settled
                /\ Promise /\ Due /\ OneSincePause
-----------------------------------------------------------------------------
(* The order of a multimap.                                                *)

LEMMA Ranks ==
    ASSUME NEW s \in Seq(Tasks), NEW at \in [Tasks -> Nat]
    PROVE  /\ \A j \in DOMAIN s : Rank(s, at, j) \in DOMAIN s
           /\ \A k \in DOMAIN s : \E j \in DOMAIN s : Rank(s, at, j) = k
           /\ \A i, j \in DOMAIN s : Rank(s, at, i) = Rank(s, at, j) => i = j
<1> DEFINE D == DOMAIN s
           B(j) == {i \in D : IsBefore(s, at, i, j)}
           R == [j \in D |-> Rank(s, at, j)]
<1>1. D = 1 .. Len(s) /\ Len(s) \in Nat /\ IsFiniteSet(D) /\ Cardinality(D) = Len(s)
  <2>1. D = 1 .. Len(s) /\ Len(s) \in Nat /\ 1 \in Int /\ Len(s) \in Int
    OBVIOUS
  <2>2. IsFiniteSet(1 .. Len(s))
        /\ Cardinality(1 .. Len(s)) = IF 1 > Len(s) THEN 0 ELSE Len(s) - 1 + 1
    BY <2>1, FS_Interval
  <2>3. (IF 1 > Len(s) THEN 0 ELSE Len(s) - 1 + 1) = Len(s)
    BY <2>1
  <2> QED BY <2>1, <2>2, <2>3
<1>2. \A i \in D : at[s[i]] \in Nat
  OBVIOUS
<1>3. ASSUME NEW j \in D
      PROVE  /\ IsFiniteSet(B(j)) /\ Cardinality(B(j)) \in Nat /\ Cardinality(B(j)) < Len(s)
  <2>1. B(j) \subseteq D \ {j} /\ IsFiniteSet(D \ {j}) /\ Cardinality(D \ {j}) = Len(s) - 1
    <3>1. j \notin B(j)
      BY <1>1, <1>2 DEF IsBefore
    <3> QED BY <1>1, <1>3, <3>1, FS_RemoveElement
  <2>2. IsFiniteSet(B(j)) /\ Cardinality(B(j)) <= Cardinality(D \ {j})
    BY <2>1, FS_Subset
  <2>3. Cardinality(B(j)) \in Nat
    BY <2>2, FS_CardinalityType
  <2> QED BY <1>1, <2>1, <2>2, <2>3
<1>4. ASSUME NEW j \in D
      PROVE  Rank(s, at, j) = Cardinality(B(j)) + 1 /\ Rank(s, at, j) \in 1 .. Len(s)
  <2>1. Rank(s, at, j) = Cardinality(B(j)) + 1
    BY DEF Rank
  <2> HIDE DEF B
  <2> QED BY <1>1, <1>3, <2>1
<1>5. ASSUME NEW i \in D, NEW j \in D, i # j, Rank(s, at, i) = Rank(s, at, j)
      PROVE  FALSE
  <2>1. ASSUME NEW a \in D, NEW b \in D, IsBefore(s, at, a, b) PROVE Rank(s, at, a) < Rank(s, at, b)
    <3>1. B(a) \cup {a} \subseteq B(b) /\ a \notin B(a)
      BY <1>1, <1>2, <2>1 DEF IsBefore
    <3>2. Cardinality(B(a) \cup {a}) = Cardinality(B(a)) + 1
      BY <1>3, <3>1, FS_AddElement
    <3>3. Cardinality(B(a) \cup {a}) <= Cardinality(B(b))
      BY <1>3, <3>1, FS_Subset
    <3> HIDE DEF B
    <3> QED BY <1>3, <1>4, <3>2, <3>3
  <2>2. IsBefore(s, at, i, j) \/ IsBefore(s, at, j, i)
    BY <1>1, <1>2, <1>5 DEF IsBefore
  <2>3. Rank(s, at, i) \in 1 .. Len(s)
    BY <1>4
  <2> QED BY <1>1, <1>5, <2>1, <2>2, <2>3
<1>6. R \in Injection(D, D)
  <2>1. R \in [D -> D]
    BY <1>1, <1>4
  <2> QED BY <1>5, <2>1 DEF Injection, IsInjective
<1>7. R \in Surjection(D, D)
  BY <1>1, <1>6, FS_Injection
<1> QED BY <1>1, <1>4, <1>5, <1>7 DEF Surjection

LEMMA Times ==
    ASSUME NEW s \in Seq(Tasks), NEW at \in [Tasks -> Nat]
    PROVE  /\ ByTime(s, at) \in Seq(Tasks) /\ Len(ByTime(s, at)) = Len(s)
           /\ ToSet(ByTime(s, at)) = ToSet(s)
           /\ IsInjective(s) => IsInjective(ByTime(s, at))
<1> DEFINE D == DOMAIN s
           J(k) == CHOOSE j \in D : Rank(s, at, j) = k
           f == [k \in D |-> s[J(k)]]
<1>1. ByTime(s, at) = f
  BY DEF ByTime
<1>2. D = 1 .. Len(s) /\ Len(s) \in Nat /\ \A i \in D : s[i] \in Tasks
  OBVIOUS
<1>3. ASSUME NEW k \in D PROVE J(k) \in D /\ Rank(s, at, J(k)) = k
  BY Ranks
<1>4. \A j \in D : Rank(s, at, j) \in D /\ J(Rank(s, at, j)) = j
  <2> TAKE j \in D
  <2>1. Rank(s, at, j) \in D
    BY Ranks
  <2>2. J(Rank(s, at, j)) \in D /\ Rank(s, at, J(Rank(s, at, j))) = Rank(s, at, j)
    BY <1>3, <2>1
  <2> QED BY <2>1, <2>2, Ranks
<1> HIDE DEF J
<1>5. f \in [D -> Tasks] /\ DOMAIN f = D
  BY <1>2, <1>3
<1>6. f \in Seq(Tasks) /\ Len(f) = Len(s)
  BY <1>2, <1>5
<1>7. ToSet(f) = ToSet(s)
  <2>1. ASSUME NEW k \in D PROVE f[k] \in ToSet(s)
    BY <1>3, <2>1 DEF ToSet
  <2>2. ASSUME NEW j \in D PROVE s[j] \in ToSet(f)
    <3>1. f[Rank(s, at, j)] = s[j] /\ Rank(s, at, j) \in DOMAIN f
      BY <1>4, <1>5, <2>2
    <3> HIDE DEF f
    <3> QED BY <3>1 DEF ToSet
  <2> HIDE DEF f
  <2> QED BY <1>5, <2>1, <2>2 DEF ToSet
<1>8. ASSUME IsInjective(s) PROVE IsInjective(f)
  <2> SUFFICES ASSUME NEW a \in D, NEW b \in D, f[a] = f[b] PROVE a = b
    BY <1>5 DEF IsInjective
  <2>1. s[J(a)] = s[J(b)]
    OBVIOUS
  <2>2. J(a) = J(b)
    BY <1>3, <1>8, <2>1 DEF IsInjective
  <2> QED BY <1>3, <2>2
<1> HIDE DEF f
<1> QED BY <1>1, <1>6, <1>7, <1>8

(* What is known of a list of tasks: that it is one, the set of its tasks, *)
(* and whether it holds one of them twice.                                 *)
IsList(s, S) == s \in Seq(Tasks) /\ ToSet(s) = S /\ IsInjective(s)

LEMMA Emptied == IsList(<< >>, {}) /\ \A s \in Seq(Tasks) : ToSet(s) = {} => s = << >>
<1>1. << >> \in Seq(Tasks) /\ DOMAIN << >> = {}
  OBVIOUS
<1>2. IsList(<< >>, {})
  BY <1>1 DEF IsList, ToSet, IsInjective
<1>3. ASSUME NEW s \in Seq(Tasks), ToSet(s) = {} PROVE s = << >>
  <2>1. 1 \notin DOMAIN s
    BY <1>3 DEF ToSet
  <2> QED BY <2>1
<1> QED BY <1>2, <1>3

LEMMA Appended ==
    ASSUME NEW s, NEW S, IsList(s, S), NEW t \in Tasks, t \notin S
    PROVE  IsList(Append(s, t), S \cup {t})
<1> DEFINE r == Append(s, t)
<1>1. s \in Seq(Tasks) /\ Len(s) \in Nat /\ DOMAIN s = 1 .. Len(s)
  BY DEF IsList
<1>2. /\ r \in Seq(Tasks) /\ DOMAIN r = 1 .. Len(s) + 1
      /\ r[Len(s) + 1] = t /\ \A i \in 1 .. Len(s) : r[i] = s[i]
  BY <1>1
<1> HIDE DEF r
<1>3. \A i \in 1 .. Len(s) + 1 : i = Len(s) + 1 \/ i \in 1 .. Len(s)
  BY <1>1
<1>4. 1 .. Len(s) \subseteq 1 .. Len(s) + 1 /\ Len(s) + 1 \in 1 .. Len(s) + 1
  BY <1>1
<1>5. ToSet(r) = S \cup {t}
  BY <1>1, <1>2, <1>3, <1>4 DEF ToSet, IsList
<1>6. \A i \in 1 .. Len(s) : s[i] # t
  BY <1>1 DEF ToSet, IsList
<1>7. IsInjective(r)
  BY <1>1, <1>2, <1>3, <1>6 DEF IsInjective, IsList
<1> QED BY <1>2, <1>5, <1>7 DEF IsList, r

LEMMA Joined ==
    ASSUME NEW s, NEW S, IsList(s, S), NEW r, NEW R, IsList(r, R), S \cap R = {}
    PROVE  IsList(s \o r, S \cup R)
<1> DEFINE q == s \o r
<1>1. s \in Seq(Tasks) /\ Len(s) \in Nat /\ DOMAIN s = 1 .. Len(s)
      /\ r \in Seq(Tasks) /\ Len(r) \in Nat /\ DOMAIN r = 1 .. Len(r)
  BY DEF IsList
<1>2. /\ q \in Seq(Tasks) /\ DOMAIN q = 1 .. Len(s) + Len(r)
      /\ \A i \in 1 .. Len(s) : q[i] = s[i]
      /\ \A i \in 1 .. Len(s) + Len(r) : i - Len(s) \in 1 .. Len(r) => q[i] = r[i - Len(s)]
  BY <1>1
<1> HIDE DEF q
<1>3. \A i \in 1 .. Len(s) + Len(r) :
        \/ i \in 1 .. Len(s)
        \/ i - Len(s) \in 1 .. Len(r) /\ i = Len(s) + (i - Len(s))
  BY <1>1
<1>4. /\ \A i \in 1 .. Len(s) : i \in 1 .. Len(s) + Len(r)
      /\ \A i \in 1 .. Len(r) : Len(s) + i \in 1 .. Len(s) + Len(r)
  BY <1>1
<1>5. ToSet(q) = S \cup R
  <2>1. ASSUME NEW i \in 1 .. Len(s) + Len(r) PROVE q[i] \in S \cup R
    <3>1. CASE i \in 1 .. Len(s)
      <4>1. q[i] = s[i] /\ s[i] \in S
        BY <1>1, <1>2, <3>1 DEF ToSet, IsList
      <4> QED BY <4>1
    <3>2. CASE i - Len(s) \in 1 .. Len(r)
      <4>1. q[i] = r[i - Len(s)]
        BY <1>2, <3>2
      <4>2. r[i - Len(s)] \in R
        BY <1>1, <3>2 DEF ToSet, IsList
      <4> QED BY <4>1, <4>2
    <3> QED BY <1>3, <3>1, <3>2
  <2>2. ASSUME NEW i \in 1 .. Len(s) PROVE s[i] \in ToSet(q)
    BY <1>2, <1>4 DEF ToSet
  <2>3. ASSUME NEW i \in 1 .. Len(r) PROVE r[i] \in ToSet(q)
    <3> DEFINE j == Len(s) + i
    <3>1. j \in 1 .. Len(s) + Len(r) /\ j - Len(s) = i
      BY <1>1, <1>4
    <3> HIDE DEF j
    <3>2. j \in DOMAIN q /\ q[j] = r[i]
      BY <1>2, <3>1
    <3> QED BY <3>2 DEF ToSet
  <2> QED BY <1>1, <1>2, <2>1, <2>2, <2>3 DEF ToSet, IsList
<1>6. ASSUME NEW i \in 1 .. Len(s) + Len(r), NEW j \in 1 .. Len(s) + Len(r), q[i] = q[j]
      PROVE  i = j
  <2>1. \A k \in 1 .. Len(s), l \in 1 .. Len(r) : s[k] # r[l]
    BY <1>1 DEF ToSet, IsList
  <2>2. \A k, l \in 1 .. Len(s) : s[k] = s[l] => k = l
    BY <1>1 DEF IsInjective, IsList
  <2>3. \A k, l \in 1 .. Len(r) : r[k] = r[l] => k = l
    BY <1>1 DEF IsInjective, IsList
  <2>4. CASE i \in 1 .. Len(s) /\ j \in 1 .. Len(s)
    BY <1>2, <1>6, <2>2, <2>4
  <2>5. CASE i \in 1 .. Len(s) /\ j - Len(s) \in 1 .. Len(r) /\ j = Len(s) + (j - Len(s))
    <3>1. q[i] = s[i] /\ q[j] = r[j - Len(s)]
      BY <1>2, <2>5
    <3> QED BY <1>6, <2>1, <2>5, <3>1
  <2>6. CASE j \in 1 .. Len(s) /\ i - Len(s) \in 1 .. Len(r) /\ i = Len(s) + (i - Len(s))
    <3>1. q[j] = s[j] /\ q[i] = r[i - Len(s)]
      BY <1>2, <2>6
    <3> QED BY <1>6, <2>1, <2>6, <3>1
  <2>7. CASE /\ i - Len(s) \in 1 .. Len(r) /\ i = Len(s) + (i - Len(s))
             /\ j - Len(s) \in 1 .. Len(r) /\ j = Len(s) + (j - Len(s))
    <3>1. q[i] = r[i - Len(s)] /\ q[j] = r[j - Len(s)]
      BY <1>2, <2>7
    <3>2. i - Len(s) = j - Len(s)
      BY <1>6, <2>3, <2>7, <3>1
    <3> QED BY <2>7, <3>2
  <2> QED BY <1>3, <2>4, <2>5, <2>6, <2>7
<1>7. IsInjective(q)
  BY <1>2, <1>6 DEF IsInjective
<1> QED BY <1>2, <1>5, <1>7 DEF IsList, q

LEMMA Reordered ==
    ASSUME NEW s, NEW S, IsList(s, S), NEW at \in [Tasks -> Nat]
    PROVE  IsList(ByTime(s, at), S)
BY Times DEF IsList

(* The first element of a list, and those after it.                        *)
LEMMA HeadTail ==
    ASSUME NEW s, NEW S, IsList(s, S), s # << >>
    PROVE  Head(s) \in S /\ Head(s) \in Tasks /\ IsList(Tail(s), S \ {Head(s)})
<1> DEFINE r == Tail(s)
           h == Head(s)
<1>1. s \in Seq(Tasks) /\ Len(s) \in Nat \ {0} /\ DOMAIN s = 1 .. Len(s) /\ h = s[1]
  BY DEF IsList
<1>2. r \in Seq(Tasks) /\ DOMAIN r = 1 .. Len(s) - 1 /\ \A i \in 1 .. Len(s) - 1 : r[i] = s[i + 1]
  BY <1>1
<1> HIDE DEF r, h
<1>3. h \in S /\ h \in Tasks
  BY <1>1 DEF ToSet, IsList
<1>4. \A i \in 1 .. Len(s) : i = 1 \/ (i - 1 \in 1 .. Len(s) - 1 /\ s[i] = r[i - 1])
  <2> SUFFICES ASSUME NEW i \in 1 .. Len(s), i # 1
               PROVE  i - 1 \in 1 .. Len(s) - 1 /\ s[i] = r[i - 1]
    OBVIOUS
  <2>1. i - 1 \in 1 .. Len(s) - 1 /\ i = (i - 1) + 1
    BY <1>1
  <2> QED BY <1>2, <2>1
<1>5. ASSUME NEW i \in 1 .. Len(s) - 1
      PROVE  i + 1 \in 1 .. Len(s) /\ r[i] = s[i + 1] /\ r[i] \in S /\ r[i] # h
  <2>1. i + 1 \in 1 .. Len(s) /\ i + 1 # 1 /\ 1 \in 1 .. Len(s) /\ r[i] = s[i + 1]
    BY <1>1, <1>2
  <2>2. s[i + 1] \in S /\ s[i + 1] # s[1]
    BY <1>1, <2>1 DEF ToSet, IsList, IsInjective
  <2> QED BY <1>1, <2>1, <2>2
<1>6. ToSet(r) = S \ {h}
  <2>1. ASSUME NEW x \in ToSet(r) PROVE x \in S \ {h}
    BY <1>2, <1>5, <2>1 DEF ToSet
  <2>2. ASSUME NEW x \in S \ {h} PROVE x \in ToSet(r)
    <3>1. PICK i \in 1 .. Len(s) : x = s[i]
      BY <1>1, <2>2 DEF ToSet, IsList
    <3>2. i # 1
      BY <1>1, <2>2, <3>1
    <3> QED BY <1>2, <1>4, <3>1, <3>2 DEF ToSet
  <2> QED BY <2>1, <2>2
<1>7. ASSUME NEW i \in 1 .. Len(s) - 1, NEW j \in 1 .. Len(s) - 1, r[i] = r[j] PROVE i = j
  <2>1. i + 1 = j + 1
    BY <1>1, <1>5, <1>7 DEF IsList, IsInjective
  <2> QED BY <1>1, <2>1
<1>8. IsInjective(r)
  BY <1>2, <1>7 DEF IsInjective
<1> QED BY <1>2, <1>3, <1>6, <1>8 DEF IsList, r, h

LEMMA WithoutOne ==
    ASSUME NEW s, NEW S, IsList(s, S), NEW t
    PROVE  IsList(Without(s, t), S \ {t})
<1>1. s \in Seq(Tasks) /\ Len(s) \in Nat /\ DOMAIN s = 1 .. Len(s)
  BY DEF IsList
<1>2. Contains(s, t) <=> t \in S
  BY <1>1 DEF Contains, ToSet, IsList
<1>3. CASE t \notin S
  BY <1>2, <1>3 DEF Without, IsList
<1>4. CASE t \in S
  <2> DEFINE k == CHOOSE i \in DOMAIN s : s[i] = t
             a == SubSeq(s, 1, k - 1)
             b == SubSeq(s, k + 1, Len(s))
  <2>1. k \in 1 .. Len(s) /\ s[k] = t
    BY <1>1, <1>2, <1>4 DEF Contains
  <2>2. Without(s, t) = a \o b
    BY <1>2, <1>4 DEF Without, RemoveAt
  <2> HIDE DEF k
  <2>3. \A i \in 1 .. Len(s) : s[i] = t <=> i = k
    BY <1>1, <2>1 DEF IsList, IsInjective
  <2>4. /\ a \in Seq(Tasks) /\ DOMAIN a = 1 .. k - 1 /\ \A i \in 1 .. k - 1 : a[i] = s[i]
        /\ b \in Seq(Tasks) /\ DOMAIN b = 1 .. Len(s) - k
        /\ \A i \in 1 .. Len(s) - k : b[i] = s[k + i]
    BY <1>1, <2>1
  <2> HIDE DEF a, b
  <2>5. /\ \A i \in 1 .. k - 1 : i \in 1 .. Len(s) /\ i # k
        /\ \A i \in 1 .. Len(s) - k : k + i \in 1 .. Len(s) /\ k + i # k
        /\ \A i \in 1 .. Len(s) : \/ i \in 1 .. k - 1 \/ i = k
                                 \/ (i - k \in 1 .. Len(s) - k /\ i = k + (i - k))
    BY <1>1, <2>1
  <2>6. IsList(a, ToSet(a)) /\ IsList(b, ToSet(b))
    <3>1. IsInjective(a)
      BY <1>1, <2>4, <2>5 DEF IsInjective, IsList
    <3>2. ASSUME NEW i \in 1 .. Len(s) - k, NEW j \in 1 .. Len(s) - k, b[i] = b[j] PROVE i = j
      <4>1. k + i = k + j
        BY <1>1, <2>4, <2>5, <3>2 DEF IsInjective, IsList
      <4> QED BY <1>1, <2>1, <4>1
    <3>3. IsInjective(b)
      BY <2>4, <3>2 DEF IsInjective
    <3> QED BY <2>4, <3>1, <3>3 DEF IsList
  <2>7. ToSet(a) \cap ToSet(b) = {}
    <3>1. ASSUME NEW i \in 1 .. k - 1, NEW j \in 1 .. Len(s) - k, a[i] = b[j] PROVE FALSE
      <4>1. i = k + j
        BY <1>1, <2>4, <2>5, <3>1 DEF IsInjective, IsList
      <4> QED BY <1>1, <2>1, <4>1
    <3> QED BY <2>4, <3>1 DEF ToSet
  <2>8. ToSet(a) \cup ToSet(b) = S \ {t}
    <3>1. ASSUME NEW x \in ToSet(a) PROVE x \in S \ {t}
      BY <1>1, <2>3, <2>4, <2>5, <3>1 DEF ToSet, IsList
    <3>2. ASSUME NEW x \in ToSet(b) PROVE x \in S \ {t}
      BY <1>1, <2>3, <2>4, <2>5, <3>2 DEF ToSet, IsList
    <3>3. ASSUME NEW x \in S \ {t} PROVE x \in ToSet(a) \cup ToSet(b)
      <4>1. PICK i \in 1 .. Len(s) : x = s[i]
        BY <1>1, <3>3 DEF ToSet, IsList
      <4>2. CASE i \in 1 .. k - 1
        BY <2>4, <4>1, <4>2 DEF ToSet
      <4>3. CASE i - k \in 1 .. Len(s) - k /\ i = k + (i - k)
        BY <2>4, <4>1, <4>3 DEF ToSet
      <4> QED BY <2>1, <2>5, <3>3, <4>1, <4>2, <4>3
    <3> QED BY <3>1, <3>2, <3>3
  <2> QED BY <2>2, <2>6, <2>7, <2>8, Joined
<1> QED BY <1>3, <1>4

-----------------------------------------------------------------------------
(* The invariant holds at first, and every action keeps it.                *)

LEMMA Starts == Init => SchedulerInv
<1> SUFFICES ASSUME Init PROVE SchedulerInv
  OBVIOUS
<1> USE SchedulerAssumption
<1>1. IsList(<< >>, {})
  BY Emptied
<1>2. TypeOK
  <2>1. << >> \in Seq(Tasks) /\ 0 \in 0 .. MaxStarts /\ [t \in Tasks |-> 0] \in [Tasks -> Nat]
    BY DEF SchedulerAssumption
  <2> QED BY <2>1 DEF Init, TypeOK, SchedulerAssumption
<1>3. ToSet(tasksToAdd) = {} /\ ToSet(taskMap) = {} /\ ToSet(trash) = {} /\ Once
  BY <1>1 DEF Init, Once, IsList
<1>4. {current} \ {NoTask} = {} /\ deleted = {} /\ free = Tasks
  BY DEF Init
<1>5. Apart
  BY <1>3, <1>4 DEF Apart, Parts
<1>6. Held /\ Straight /\ OneSincePause /\ Past
  BY DEF Init, Held, Straight, OneSincePause, Past
<1>7. Settled /\ Promise /\ Due
  BY <1>3 DEF Init, Settled, NothingOwed, Promise, Due
<1> QED BY <1>2, <1>3, <1>5, <1>6, <1>7 DEF SchedulerInv

LEMMA Lists ==
    ASSUME TypeOK, Once
    PROVE  /\ IsList(tasksToAdd, ToSet(tasksToAdd)) /\ IsList(taskMap, ToSet(taskMap))
           /\ IsList(trash, ToSet(trash))
BY DEF TypeOK, Once, IsList

LEMMA Unmoved ==
    ASSUME Apart, Once, UNCHANGED <<free, tasksToAdd, taskMap, current, trash, deleted>>
    PROVE  Apart' /\ Once'
BY DEF Apart, Once

LEMMA PromiseKept ==
    ASSUME Promise, Due, current' = current \/ current' = NoTask,
           UNCHANGED <<now, noDelay, runAt, taskMap, owed, paused, pausedTimeAt, beginRun>>
    PROVE  Promise' /\ Due'
BY DEF Promise, Promised, Due

(* The steps that move neither a task nor a time.                          *)
LEMMA QuietKeeps ==
    ASSUME SchedulerInv,
           UNCHANGED <<now, noDelay, taskVars, pauseVars, beginRun, prepared, current, owed>>,
           TypeOK', Held', Past', Settled', OneSincePause'
    PROVE  SchedulerInv'
<1>1. Apart' /\ Once'
  BY Unmoved DEF SchedulerInv, taskVars
<1>2. Promise' /\ Due'
  BY PromiseKept DEF SchedulerInv, taskVars, pauseVars
<1>3. Straight'
  BY DEF SchedulerInv, Straight, taskVars
<1> QED BY <1>1, <1>2, <1>3 DEF SchedulerInv

LEMMA OwnerQuiet ==
    ASSUME SchedulerInv, Start \/ RequestStop \/ Join
    PROVE  SchedulerInv'
<1> USE SchedulerAssumption
<1>1. CASE Start
  <2> USE <1>1 DEF Start, taskVars, pauseVars, workVars, runVars
  <2>1. TypeOK'
    <3>1. starts' \in 0 .. MaxStarts
      BY DEF SchedulerInv, TypeOK, SchedulerAssumption
    <3> QED BY <3>1 DEF SchedulerInv, TypeOK
  <2>2. Held' /\ Past' /\ OneSincePause'
    BY DEF SchedulerInv, TypeOK, Held, Past, OneSincePause
  <2>3. Settled'
    BY DEF SchedulerInv, TypeOK, Settled, NothingOwed
  <2> QED BY <2>1, <2>2, <2>3, QuietKeeps
<1>2. CASE RequestStop
  <2> USE <1>2 DEF RequestStop, taskVars, pauseVars, workVars, runVars
  <2>1. TypeOK'
    BY DEF SchedulerInv, TypeOK
  <2>2. Held' /\ Past' /\ OneSincePause'
    BY DEF SchedulerInv, TypeOK, Held, Past, OneSincePause
  <2>3. Settled'
    BY DEF SchedulerInv, TypeOK, Settled, NothingOwed
  <2> QED BY <2>1, <2>2, <2>3, QuietKeeps
<1>3. CASE Join
  <2> USE <1>3 DEF Join, taskVars, pauseVars, workVars, runVars
  <2>1. TypeOK'
    BY DEF SchedulerInv, TypeOK
  <2>2. Held' /\ Past' /\ OneSincePause'
    BY DEF SchedulerInv, TypeOK, Held, Past, OneSincePause
  <2>3. Settled'
    BY DEF SchedulerInv, TypeOK, Settled, NothingOwed
  <2> QED BY <2>1, <2>2, <2>3, QuietKeeps
<1> QED BY <1>1, <1>2, <1>3

LEMMA WorkerQuiet ==
    ASSUME SchedulerInv,
           \/ CheckStop \/ WaitPause \/ WaitTask \/ ComputeDelay \/ FallAsleep \/ SleepEnds
           \/ CheckRun \/ ReadClock \/ TooEarly \/ ReadEmptyMap \/ RunTask
    PROVE  SchedulerInv'
<1>1. CASE CheckStop
  <2> USE <1>1 DEF CheckStop, taskVars, pauseVars, workVars, runVars
  <2>1. TypeOK'
    BY DEF SchedulerInv, TypeOK
  <2>2. Held' /\ Past' /\ OneSincePause'
    BY DEF SchedulerInv, TypeOK, Held, Past, OneSincePause
  <2>3. Settled'
    BY DEF SchedulerInv, TypeOK, Settled, NothingOwed
  <2> QED BY <2>1, <2>2, <2>3, QuietKeeps
<1>2. CASE WaitPause
  <2> USE <1>2 DEF WaitPause, taskVars, pauseVars, workVars, runVars, Unpaused
  <2>1. TypeOK'
    BY DEF SchedulerInv, TypeOK
  <2>2. Held' /\ Past' /\ OneSincePause'
    BY DEF SchedulerInv, TypeOK, Held, Past, OneSincePause
  <2>3. Settled'
    BY DEF SchedulerInv, TypeOK, Settled, NothingOwed
  <2> QED BY <2>1, <2>2, <2>3, QuietKeeps
<1>3. CASE WaitTask
  <2> USE <1>3 DEF WaitTask, taskVars, pauseVars, workVars, runVars
  <2>1. TypeOK'
    BY DEF SchedulerInv, TypeOK
  <2>2. Held' /\ Past' /\ OneSincePause'
    BY DEF SchedulerInv, TypeOK, Held, Past, OneSincePause
  <2>3. Settled'
    BY DEF SchedulerInv, TypeOK, Settled, NothingOwed
  <2> QED BY <2>1, <2>2, <2>3, QuietKeeps
<1>4. CASE ComputeDelay
  <2> USE <1>4 DEF ComputeDelay, taskVars, pauseVars, workVars, runVars
  <2>1. TypeOK'
    BY DEF SchedulerInv, TypeOK
  <2>2. Held' /\ Past' /\ OneSincePause'
    BY DEF SchedulerInv, TypeOK, Held, Past, OneSincePause
  <2>3. Settled'
    BY DEF SchedulerInv, TypeOK, Settled, NothingOwed
  <2> QED BY <2>1, <2>2, <2>3, QuietKeeps
<1>5. CASE FallAsleep
  <2> USE <1>5 DEF FallAsleep, taskVars, pauseVars, workVars, runVars
  <2>1. TypeOK'
    BY DEF SchedulerInv, TypeOK
  <2>2. Held' /\ Past' /\ OneSincePause'
    BY DEF SchedulerInv, TypeOK, Held, Past, OneSincePause
  <2>3. Settled'
    BY DEF SchedulerInv, TypeOK, Settled, NothingOwed
  <2> QED BY <2>1, <2>2, <2>3, QuietKeeps
<1>6. CASE SleepEnds
  <2> USE <1>6 DEF SleepEnds, taskVars, pauseVars, workVars, runVars
  <2>1. TypeOK'
    BY DEF SchedulerInv, TypeOK
  <2>2. Held' /\ Past' /\ OneSincePause'
    BY DEF SchedulerInv, TypeOK, Held, Past, OneSincePause
  <2>3. Settled'
    BY DEF SchedulerInv, TypeOK, Settled, NothingOwed
  <2> QED BY <2>1, <2>2, <2>3, QuietKeeps
<1>7. CASE CheckRun
  <2> USE <1>7 DEF CheckRun, taskVars, pauseVars, workVars, runVars, Unpaused
  <2>1. TypeOK'
    BY DEF SchedulerInv, TypeOK
  <2>2. Held' /\ Past' /\ OneSincePause'
    BY DEF SchedulerInv, TypeOK, Held, Past, OneSincePause
  <2>3. Settled'
    BY DEF SchedulerInv, TypeOK, Settled, NothingOwed
  <2> QED BY <2>1, <2>2, <2>3, QuietKeeps
<1>8. CASE TooEarly
  <2> USE <1>8 DEF TooEarly, taskVars, pauseVars, workVars, runVars
  <2>1. TypeOK'
    BY DEF SchedulerInv, TypeOK
  <2>2. Held' /\ Past' /\ OneSincePause'
    BY DEF SchedulerInv, TypeOK, Held, Past, OneSincePause
  <2>3. Settled'
    BY DEF SchedulerInv, TypeOK, Settled, NothingOwed
  <2> QED BY <2>1, <2>2, <2>3, QuietKeeps
<1>9. CASE ReadEmptyMap
  <2> USE <1>9 DEF ReadEmptyMap, taskVars, pauseVars, workVars, runVars
  <2>1. TypeOK'
    BY DEF SchedulerInv, TypeOK
  <2>2. Held' /\ Past' /\ OneSincePause'
    BY DEF SchedulerInv, TypeOK, Held, Past, OneSincePause
  <2>3. Settled'
    BY DEF SchedulerInv, TypeOK, Settled, NothingOwed
  <2> QED BY <2>1, <2>2, <2>3, QuietKeeps
<1>10. CASE RunTask
  <2> USE <1>10 DEF RunTask, taskVars, pauseVars, workVars, runVars
  <2>1. TypeOK'
    BY DEF SchedulerInv, TypeOK
  <2>2. Held' /\ Past' /\ OneSincePause'
    BY DEF SchedulerInv, TypeOK, Held, Past, OneSincePause
  <2>3. Settled'
    BY DEF SchedulerInv, TypeOK, Settled, NothingOwed
  <2> QED BY <2>1, <2>2, <2>3, QuietKeeps
<1>11. CASE ReadClock
  <2> USE <1>11 DEF ReadClock, taskVars, pauseVars, workVars, runVars
  <2>1. TypeOK'
    BY DEF SchedulerInv, TypeOK
  <2>2. Held' /\ Past' /\ OneSincePause'
    BY DEF SchedulerInv, TypeOK, Held, Past, OneSincePause
  <2>3. Settled'
    BY DEF SchedulerInv, TypeOK, Settled, NothingOwed
  <2> QED BY <2>1, <2>2, <2>3, QuietKeeps
<1> QED BY <1>1, <1>2, <1>3, <1>4, <1>5, <1>6, <1>7, <1>8, <1>9, <1>10, <1>11

LEMMA AddTaskKeeps ==
    ASSUME SchedulerInv, NEW t \in Tasks, AddTask(t)
    PROVE  SchedulerInv'
<1> DEFINE A == ToSet(tasksToAdd)
           M == ToSet(taskMap)
           C == {current} \ {NoTask}
           X == ToSet(trash)
<1> USE DEF taskVars, pauseVars, workVars, runVars
<1>1. /\ TypeOK /\ Apart /\ Once /\ Held /\ Past /\ Straight /\ Settled /\ Promise /\ Due
      /\ OneSincePause
  BY DEF SchedulerInv
<1>2. Parts(free, A, M, C, X, deleted) /\ t \in free /\ current # t
  <2>1. Parts(free, A, M, C, X, deleted) /\ t \in free
    BY <1>1 DEF Apart, AddTask
  <2>2. NoTask \notin Tasks
    BY SchedulerAssumption
  <2> QED BY <2>1, <2>2 DEF Parts
<1>3. IsList(tasksToAdd, A) /\ IsList(taskMap, M) /\ IsList(trash, X)
  BY <1>1, Lists
<1>4. /\ free' = free \ {t}
      /\ UNCHANGED <<now, noDelay, trash, deleted, pauseVars, runVars, pc, deadline, current,
                     readNow>>
      /\ RunIn \in [Tasks -> Nat]
  BY SchedulerAssumption DEF AddTask
<1>5. Held' /\ Past' /\ OneSincePause'
  BY <1>1, <1>4 DEF Held, Past, OneSincePause
<1> HIDE DEF A, M, C, X
<1>6. CASE prepared
  <2>1. /\ runAt' = IF RunIn[t] > 0 THEN [runAt EXCEPT ![t] = now + RunIn[t]] ELSE runAt
        /\ taskMap' = Emplace(taskMap, runAt', t) /\ nextRun' = runAt'[Head(taskMap')]
        /\ owed' = [owed EXCEPT ![t] = IF Running THEN RunIn[t] ELSE 0]
        /\ asleep' \in BOOLEAN /\ tasksToAdd' = tasksToAdd
    BY <1>1, <1>6 DEF AddTask, NotifyTask, TypeOK
  <2>2. runAt' \in [Tasks -> Nat] /\ owed' \in [Tasks -> Nat]
    <3>1. /\ runAt \in [Tasks -> Nat] /\ owed \in [Tasks -> Nat] /\ now \in Nat
          /\ RunIn[t] \in Nat
      BY <1>1, <1>4 DEF TypeOK
    <3>2. runAt' \in [Tasks -> Nat]
      BY <2>1, <3>1
    <3>3. owed' \in [Tasks -> Nat]
      BY <2>1, <3>1
    <3> QED BY <3>2, <3>3
  <2>3. IsList(taskMap', M \cup {t})
    <3>1. t \notin M
      BY <1>2 DEF Parts
    <3> QED BY <1>3, <2>1, <2>2, <3>1, Appended, Reordered DEF Emplace
  <2>4. nextRun' \in Nat
    <3>1. taskMap' # << >>
      BY <2>3, Emptied DEF IsList
    <3> QED BY <2>1, <2>2, <2>3, <3>1, HeadTail
  <2>5. TypeOK'
    <3>1. taskMap' \in Seq(Tasks) /\ tasksToAdd' \in Seq(Tasks) /\ free' \subseteq Tasks
          /\ asleep' \in BOOLEAN
      BY <1>1, <1>4, <2>1, <2>3 DEF TypeOK, IsList
    <3>2. /\ now' \in Nat /\ noDelay' \in BOOLEAN /\ trash' \in Seq(Tasks)
          /\ deleted' \subseteq Tasks /\ deadline' \in Nat /\ readNow' \in Nat
          /\ current' \in Tasks \cup {NoTask} /\ pc' = pc
      BY <1>1, <1>4 DEF TypeOK
    <3>3. /\ pausedTimeAt' \in Nat /\ beginRun' \in Nat /\ paused' \in BOOLEAN
          /\ prepared' \in BOOLEAN /\ stopRequested' \in BOOLEAN /\ sincePause' \in Nat
          /\ owner' = owner /\ starts' \in 0 .. MaxStarts
      BY <1>1, <1>4 DEF TypeOK
    <3> QED BY <1>1, <2>2, <2>4, <3>1, <3>2, <3>3 DEF TypeOK
  <2>6. Apart' /\ Once'
    <3>1. Parts(free \ {t}, A, M \cup {t}, C, X, deleted)
      BY <1>2 DEF Parts
    <3>2. /\ ToSet(tasksToAdd') = A /\ ToSet(taskMap') = M \cup {t} /\ ToSet(trash') = X
          /\ {current'} \ {NoTask} = C
      BY <1>4, <2>1, <2>3 DEF IsList, A, X, C
    <3> QED BY <1>1, <1>4, <2>1, <2>3, <3>1, <3>2 DEF Apart, Once, IsList
  <2>7. Straight' /\ Settled'
    BY <1>1, <1>4, <1>6, <2>1 DEF Straight, Settled, NothingOwed, Running, TypeOK
  <2>8. \A u \in Tasks \ {t} : owed'[u] = owed[u] /\ runAt'[u] = runAt[u]
    BY <1>1, <2>1 DEF TypeOK
  <2>9. Promise'
    <3> SUFFICES ASSUME ~noDelay, NEW u \in M \cup {t} PROVE Promised(u)'
      BY <1>4, <2>3 DEF Promise, IsList
    <3>1. CASE u = t
      <4>1. owed'[t] = 0 \/ owed'[t] = RunIn[t]
        BY <1>1, <2>1 DEF TypeOK
      <4>2. RunIn[t] > 0 => runAt'[t] = now + RunIn[t]
        BY <1>1, <2>1 DEF TypeOK
      <4>3. now' = now /\ beginRun' = beginRun /\ pausedTimeAt' = pausedTimeAt
            /\ now \in Nat /\ beginRun \in Nat /\ pausedTimeAt \in Nat /\ RunIn[t] \in Nat
            /\ beginRun <= now /\ pausedTimeAt <= now
        BY <1>1, <1>4 DEF TypeOK, Past
      <4> QED BY <3>1, <4>1, <4>2, <4>3 DEF Promised
    <3>2. CASE u # t
      <4>1. u \in M /\ u \in Tasks
        BY <1>2, <3>2 DEF Parts
      <4>2. Promised(u) /\ owed'[u] = owed[u] /\ runAt'[u] = runAt[u]
        BY <1>1, <2>8, <3>2, <4>1 DEF Promise, M
      <4> QED BY <1>4, <4>2 DEF Promised
    <3> QED BY <3>1, <3>2
  <2>10. Due'
    BY <1>1, <1>2, <1>4, <2>8 DEF Due, TypeOK
  <2> QED BY <1>5, <2>5, <2>6, <2>7, <2>9, <2>10 DEF SchedulerInv
<1>7. CASE ~prepared
  <2>1. tasksToAdd' = Append(tasksToAdd, t)
        /\ UNCHANGED <<runAt, taskMap, nextRun, owed, asleep>>
    BY <1>7 DEF AddTask
  <2>2. IsList(tasksToAdd', A \cup {t})
    <3>1. t \notin A
      BY <1>2 DEF Parts
    <3> QED BY <1>3, <2>1, <3>1, Appended
  <2>3. TypeOK'
    BY <1>1, <1>4, <2>1, <2>2 DEF TypeOK, IsList
  <2>4. Apart' /\ Once'
    <3>1. Parts(free \ {t}, A \cup {t}, M, C, X, deleted)
      BY <1>2 DEF Parts
    <3>2. /\ ToSet(tasksToAdd') = A \cup {t} /\ ToSet(taskMap') = M /\ ToSet(trash') = X
          /\ {current'} \ {NoTask} = C
      BY <1>4, <2>1, <2>2 DEF IsList, M, X, C
    <3> QED BY <1>1, <1>4, <2>1, <2>2, <3>1, <3>2 DEF Apart, Once, IsList
  <2>5. Straight' /\ Settled'
    BY <1>1, <1>4, <1>7, <2>1 DEF Straight, Settled, NothingOwed
  <2>6. Promise' /\ Due'
    BY <1>1, <1>4, <2>1, PromiseKept
  <2> QED BY <1>5, <2>3, <2>4, <2>5, <2>6 DEF SchedulerInv
<1> QED BY <1>6, <1>7

LEMMA RemoveTaskKeeps ==
    ASSUME SchedulerInv, NEW t \in Tasks, RemoveTask(t)
    PROVE  SchedulerInv'
<1> DEFINE A == ToSet(tasksToAdd)
           M == ToSet(taskMap)
           C == {current} \ {NoTask}
           X == ToSet(trash)
           found == t \in A \cup M
<1> USE DEF taskVars, pauseVars, workVars, runVars
<1>1. /\ TypeOK /\ Apart /\ Once /\ Held /\ Past /\ Straight /\ Settled /\ Promise /\ Due
      /\ OneSincePause
  BY DEF SchedulerInv
<1>2. Parts(free, A, M, C, X, deleted)
  BY <1>1 DEF Apart
<1>3. IsList(tasksToAdd, A) /\ IsList(taskMap, M) /\ IsList(trash, X)
  BY <1>1, Lists
<1>4. /\ tasksToAdd' = Without(tasksToAdd, t) /\ taskMap' = Without(taskMap, t)
      /\ nextRun' = IF t \in M THEN FirstTime(taskMap', runAt, nextRun) ELSE nextRun
      /\ free' = IF found THEN free \cup {t} ELSE free
      /\ asleep' \in BOOLEAN
      /\ UNCHANGED <<now, noDelay, runAt, trash, deleted, pauseVars, runVars, pc, deadline,
                     current, readNow, owed>>
  BY <1>1 DEF RemoveTask, NotifyTask, TypeOK
<1> HIDE DEF A, M, C, X
<1>5. IsList(tasksToAdd', A \ {t}) /\ IsList(taskMap', M \ {t})
  BY <1>3, <1>4, WithoutOne
<1>6. nextRun' \in Nat
  <2>1. taskMap' # << >> => Head(taskMap') \in Tasks
    BY <1>5, HeadTail
  <2> QED BY <1>1, <1>4, <2>1 DEF FirstTime, TypeOK
<1>7. TypeOK'
  BY <1>1, <1>4, <1>5, <1>6 DEF TypeOK, IsList
<1>8. Apart' /\ Once'
  <2>1. Parts(free', A \ {t}, M \ {t}, C, X, deleted)
    <3>1. CASE found
      BY <1>2, <1>4, <3>1 DEF Parts
    <3>2. CASE ~found
      <4>1. A \ {t} = A /\ M \ {t} = M /\ free' = free
        BY <1>4, <3>2
      <4> QED BY <1>2, <4>1
    <3> QED BY <3>1, <3>2
  <2>2. /\ ToSet(tasksToAdd') = A \ {t} /\ ToSet(taskMap') = M \ {t} /\ ToSet(trash') = X
        /\ {current'} \ {NoTask} = C
    BY <1>4, <1>5 DEF IsList, X, C
  <2> QED BY <1>1, <1>4, <1>5, <2>1, <2>2 DEF Apart, Once, IsList
<1>9. Held' /\ Past' /\ OneSincePause' /\ Settled' /\ Due'
  BY <1>1, <1>4 DEF Held, Past, OneSincePause, Settled, NothingOwed, Due
<1>10. Straight'
  <2> SUFFICES ASSUME prepared PROVE tasksToAdd' = << >>
    BY <1>4 DEF Straight
  <2>1. A = {}
    BY <1>1, Emptied DEF Straight, IsList, A
  <2> QED BY <1>5, <2>1, Emptied DEF IsList
<1>11. Promise'
  <2> SUFFICES ASSUME ~noDelay, NEW u \in M PROVE Promised(u)'
    BY <1>4, <1>5 DEF Promise, IsList
  <2> QED BY <1>1, <1>4 DEF Promise, Promised, M
<1> QED BY <1>7, <1>8, <1>9, <1>10, <1>11 DEF SchedulerInv

LEMMA ClearTasksKeeps ==
    ASSUME SchedulerInv, ClearTasks
    PROVE  SchedulerInv'
<1> DEFINE A == ToSet(tasksToAdd)
           M == ToSet(taskMap)
           C == {current} \ {NoTask}
           X == ToSet(trash)
<1> USE DEF taskVars, pauseVars, workVars, runVars
<1>1. /\ TypeOK /\ Apart /\ Once /\ Held /\ Past /\ Straight /\ Settled /\ Promise /\ Due
      /\ OneSincePause
  BY DEF SchedulerInv
<1>2. Parts(free, A, M, C, X, deleted)
  BY <1>1 DEF Apart
<1>3. /\ deleted' = deleted \cup X \cup A \cup M
      /\ trash' = << >> /\ tasksToAdd' = << >> /\ taskMap' = << >>
      /\ asleep' \in BOOLEAN
      /\ UNCHANGED <<now, noDelay, runAt, free, nextRun, pauseVars, runVars, pc, deadline,
                     current, readNow, owed>>
  BY <1>1 DEF ClearTasks, NotifyTask, TypeOK
<1> HIDE DEF A, M, C, X
<1>4. IsList(<< >>, {})
  BY Emptied
<1>5. Parts(free, {}, {}, C, {}, deleted')
  BY <1>2, <1>3 DEF Parts
<1>6. TypeOK'
  <2>1. deleted' \subseteq Tasks
    BY <1>5 DEF Parts
  <2> QED BY <1>1, <1>3, <1>4, <2>1 DEF TypeOK, IsList
<1>7. Apart' /\ Once'
  <2>1. /\ ToSet(tasksToAdd') = {} /\ ToSet(taskMap') = {} /\ ToSet(trash') = {}
        /\ {current'} \ {NoTask} = C
    BY <1>3, <1>4 DEF IsList, C
  <2> QED BY <1>3, <1>4, <1>5, <2>1 DEF Apart, Once, IsList
<1>8. Held' /\ Past' /\ OneSincePause' /\ Settled' /\ Due' /\ Straight'
  BY <1>1, <1>3 DEF Held, Past, OneSincePause, Settled, NothingOwed, Due, Straight
<1>9. Promise'
  BY <1>3, <1>4 DEF Promise, IsList
<1> QED BY <1>6, <1>7, <1>8, <1>9 DEF SchedulerInv

LEMMA PauseKeeps ==
    ASSUME SchedulerInv, Pause
    PROVE  SchedulerInv'
<1> USE DEF taskVars, pauseVars, workVars, runVars
<1>1. /\ TypeOK /\ Apart /\ Once /\ Held /\ Past /\ Straight /\ Settled /\ Promise /\ Due
      /\ OneSincePause
  BY DEF SchedulerInv
<1>2. /\ ~paused /\ paused' = TRUE /\ pausedTimeAt' = now /\ sincePause' = 0
      /\ UNCHANGED <<now, noDelay, taskVars, runVars, workVars, owed>>
  BY DEF Pause
<1>3. TypeOK'
  BY <1>1, <1>2 DEF TypeOK
<1>4. Apart' /\ Once'
  BY <1>1, <1>2, Unmoved
<1>5. Held' /\ Past' /\ OneSincePause' /\ Settled' /\ Due' /\ Straight'
  BY <1>1, <1>2 DEF Held, Past, OneSincePause, Settled, NothingOwed, Due, Straight, TypeOK
<1>6. Promise'
  <2> SUFFICES ASSUME ~noDelay, NEW u \in ToSet(taskMap) PROVE Promised(u)'
    BY <1>2 DEF Promise
  <2>1. Promised(u) /\ u \in Tasks
    BY <1>1 DEF Promise, Apart, Parts
  <2>2. owed[u] \in Nat /\ runAt[u] \in Nat /\ now \in Nat /\ beginRun \in Nat /\ beginRun <= now
    BY <1>1, <2>1 DEF TypeOK, Past
  <2>3. owed' = owed /\ runAt' = runAt /\ beginRun' = beginRun
    BY <1>2
  <2> QED BY <1>2, <2>1, <2>2, <2>3 DEF Promised
<1> QED BY <1>3, <1>4, <1>5, <1>6 DEF SchedulerInv

LEMMA ResumeKeeps ==
    ASSUME SchedulerInv, Resume
    PROVE  SchedulerInv'
<1> DEFINE A == ToSet(tasksToAdd)
           M == ToSet(taskMap)
           C == {current} \ {NoTask}
           X == ToSet(trash)
<1> USE DEF taskVars, pauseVars, workVars, runVars
<1>1. /\ TypeOK /\ Apart /\ Once /\ Held /\ Past /\ Straight /\ Settled /\ Promise /\ Due
      /\ OneSincePause
  BY DEF SchedulerInv
<1>2. Parts(free, A, M, C, X, deleted)
  BY <1>1 DEF Apart
<1>3. IsList(tasksToAdd, A) /\ IsList(taskMap, M) /\ IsList(trash, X)
  BY <1>1, Lists
<1>4. /\ paused /\ paused' = FALSE /\ sincePause' = 0 /\ asleep' \in BOOLEAN
      /\ UNCHANGED <<now, noDelay, tasksToAdd, trash, deleted, free, runVars, pc, deadline,
                     current, readNow, owed>>
      /\ RunIn \in [Tasks -> Nat]
  BY <1>1, SchedulerAssumption DEF Resume, NotifyPause, TypeOK
<1> HIDE DEF A, M, C, X
<1>5. Held' /\ OneSincePause' /\ Settled' /\ Straight'
  BY <1>1, <1>4 DEF Held, OneSincePause, Settled, NothingOwed, Straight
<1>6. CASE prepared /\ pausedTimeAt' = 0
           /\ runAt' = [u \in Tasks |-> IF u \in ToSet(taskMap) /\ RunIn[u] > 0
                                        THEN runAt[u] + PausedTime ELSE runAt[u]]
           /\ taskMap' = EmplaceAll(<< >>, runAt', taskMap)
           /\ nextRun' = FirstTime(taskMap', runAt', nextRun)
  <2> DEFINE P == PausedTime
  <2>1. /\ P \in Nat
        /\ now = beginRun + P \/ now = pausedTimeAt + P
    BY <1>1 DEF PausedTime, TypeOK, Past
  <2> HIDE DEF P
  <2>2. runAt' = [u \in Tasks |-> IF u \in M /\ RunIn[u] > 0 THEN runAt[u] + P ELSE runAt[u]]
    BY <1>6 DEF P, M
  <2>3. runAt' \in [Tasks -> Nat]
    BY <1>1, <2>1, <2>2 DEF TypeOK
  <2>4. IsList(taskMap', M)
    <3>1. << >> \o taskMap = taskMap
      BY <1>3 DEF IsList
    <3>2. taskMap' = ByTime(taskMap, runAt')
      BY <1>6, <3>1 DEF EmplaceAll
    <3> QED BY <1>3, <2>3, <3>2, Reordered
  <2>5. nextRun' \in Nat
    <3>1. taskMap' # << >> => Head(taskMap') \in Tasks
      BY <2>4, HeadTail
    <3> QED BY <1>1, <1>6, <2>3, <3>1 DEF FirstTime, TypeOK
  <2>6. TypeOK'
    BY <1>1, <1>4, <1>6, <2>3, <2>4, <2>5 DEF TypeOK, IsList
  <2>7. Apart' /\ Once'
    <3>1. /\ ToSet(tasksToAdd') = A /\ ToSet(taskMap') = M /\ ToSet(trash') = X
          /\ {current'} \ {NoTask} = C
      BY <1>4, <2>4 DEF IsList, A, X, C
    <3> QED BY <1>1, <1>2, <1>4, <2>4, <3>1 DEF Apart, Once, IsList
  <2>8. Past'
    BY <1>1, <1>4, <1>6 DEF Past, TypeOK
  <2>9. Promise'
    <3> SUFFICES ASSUME ~noDelay, NEW u \in M PROVE Promised(u)'
      BY <1>4, <2>4 DEF Promise, IsList
    <3>1. Promised(u) /\ u \in Tasks
      BY <1>1, <1>2 DEF Promise, Parts, M
    <3>2. owed[u] \in Nat /\ runAt[u] \in Nat /\ now \in Nat /\ beginRun \in Nat
          /\ pausedTimeAt \in Nat
      BY <1>1, <3>1 DEF TypeOK
    <3>3. owed' = owed /\ now' = now /\ paused /\ ~paused'
      BY <1>4
    <3>4. RunIn[u] > 0 => runAt'[u] = runAt[u] + P
      BY <2>2, <3>1
    <3> QED BY <2>1, <3>1, <3>2, <3>3, <3>4 DEF Promised
  <2>10. Due'
    <3>1. current # NoTask => current \in Tasks /\ current \notin M
      BY <1>1, <1>2 DEF Parts, C, TypeOK
    <3> QED BY <1>1, <1>4, <2>2, <3>1 DEF Due
  <2> QED BY <1>5, <2>6, <2>7, <2>8, <2>9, <2>10 DEF SchedulerInv
<1>7. CASE ~prepared /\ UNCHANGED <<pausedTimeAt, runAt, taskMap, nextRun>>
  <2>1. TypeOK' /\ Past'
    BY <1>1, <1>4, <1>7 DEF TypeOK, Past
  <2>2. Apart' /\ Once'
    BY <1>1, <1>4, <1>7, Unmoved
  <2>3. Promise' /\ Due'
    <3>1. \A u \in Tasks : owed'[u] = 0
      BY <1>1, <1>4, <1>7 DEF Settled, NothingOwed
    <3>2. ToSet(taskMap') \subseteq Tasks
      BY <2>2 DEF Apart, Parts
    <3>3. Promise'
      BY <3>1, <3>2 DEF Promise, Promised
    <3>4. Due'
      BY <1>1, <1>4, <1>7 DEF Due
    <3> QED BY <3>3, <3>4
  <2> QED BY <1>5, <2>1, <2>2, <2>3 DEF SchedulerInv
<1> QED BY <1>6, <1>7 DEF Resume, ResumeTasks

LEMMA OwnerKeeps ==
    ASSUME SchedulerInv, StopPause \/ StopWait
    PROVE  SchedulerInv'
<1> USE DEF taskVars, pauseVars, workVars, runVars
<1>1. /\ TypeOK /\ Apart /\ Once /\ Held /\ Past /\ Straight /\ Settled /\ Promise /\ Due
      /\ OneSincePause
  BY DEF SchedulerInv
<1>2. CASE StopPause
  <2> USE <1>2 DEF StopPause
  <2>1. TypeOK'
    <3>1. owed' \in [Tasks -> Nat] /\ asleep' \in BOOLEAN
      BY <1>1 DEF NotifyPause, TypeOK
    <3> QED BY <1>1, <3>1 DEF TypeOK
  <2>2. Apart' /\ Once'
    BY <1>1, Unmoved
  <2>3. NothingOwed'
    BY DEF NothingOwed
  <2>4. Held' /\ Past' /\ OneSincePause' /\ Settled' /\ Straight'
    BY <1>1, <2>3 DEF Held, Past, OneSincePause, Settled, Straight
  <2>5. Due'
    BY <1>1 DEF Due, TypeOK
  <2>6. Promise'
    <3>1. ToSet(taskMap') \subseteq Tasks
      BY <2>2 DEF Apart, Parts
    <3> QED BY <2>3, <3>1 DEF Promise, Promised, NothingOwed
  <2> QED BY <2>1, <2>2, <2>4, <2>5, <2>6 DEF SchedulerInv
<1>3. CASE StopWait
  <2> USE <1>3 DEF StopWait
  <2>1. TypeOK'
    <3>1. asleep' \in BOOLEAN
      BY <1>1 DEF NotifyTask, TypeOK
    <3> QED BY <1>1, <3>1 DEF TypeOK
  <2>2. Apart' /\ Once'
    BY <1>1, Unmoved
  <2>3. NothingOwed'
    BY <1>1 DEF NothingOwed, Settled
  <2>4. Held' /\ Past' /\ OneSincePause' /\ Settled' /\ Straight'
    BY <1>1, <2>3 DEF Held, Past, OneSincePause, Settled, Straight, TypeOK
  <2>5. Due'
    BY <1>1 DEF Due, TypeOK
  <2>6. Promise'
    <3>1. ToSet(taskMap') \subseteq Tasks
      BY <2>2 DEF Apart, Parts
    <3> QED BY <2>3, <3>1 DEF Promise, Promised, NothingOwed
  <2> QED BY <2>1, <2>2, <2>4, <2>5, <2>6 DEF SchedulerInv
<1> QED BY <1>2, <1>3

LEMMA BeginRunKeeps ==
    ASSUME SchedulerInv, BeginRun
    PROVE  SchedulerInv'
<1> USE DEF taskVars, pauseVars, workVars, runVars, BeginRun
<1>1. /\ TypeOK /\ Apart /\ Once /\ Held /\ Past /\ Straight /\ Settled /\ Promise /\ Due
      /\ OneSincePause
  BY DEF SchedulerInv
<1>2. TypeOK'
  BY <1>1 DEF TypeOK
<1>3. Apart' /\ Once'
  BY <1>1, Unmoved
<1>4. NothingOwed'
  BY <1>1 DEF NothingOwed, Settled
<1>5. Held' /\ Past' /\ OneSincePause' /\ Settled' /\ Straight'
  BY <1>1, <1>4 DEF Held, Past, OneSincePause, Settled, Straight, TypeOK
<1>6. Due'
  BY <1>1 DEF Due, Held
<1>7. Promise'
  <2>1. ToSet(taskMap') \subseteq Tasks
    BY <1>3 DEF Apart, Parts
  <2> QED BY <1>4, <2>1 DEF Promise, Promised, NothingOwed
<1> QED BY <1>2, <1>3, <1>5, <1>6, <1>7 DEF SchedulerInv

LEMMA PrepareTasksKeeps ==
    ASSUME SchedulerInv, PrepareTasks
    PROVE  SchedulerInv'
<1> DEFINE A == ToSet(tasksToAdd)
           M == ToSet(taskMap)
           C == {current} \ {NoTask}
           X == ToSet(trash)
<1> USE DEF taskVars, pauseVars, workVars, runVars
<1>1. /\ TypeOK /\ Apart /\ Once /\ Held /\ Past /\ Straight /\ Settled /\ Promise /\ Due
      /\ OneSincePause
  BY DEF SchedulerInv
<1>2. Parts(free, A, M, C, X, deleted)
  BY <1>1 DEF Apart
<1>3. IsList(tasksToAdd, A) /\ IsList(taskMap, M) /\ IsList(trash, X)
  BY <1>1, Lists
<1>4. /\ pc = "prepare" /\ pc' = "loop" /\ prepared' = TRUE /\ tasksToAdd' = << >>
      /\ runAt' = [u \in Tasks |-> IF u \in A /\ RunIn[u] > 0 THEN beginRun + RunIn[u]
                                   ELSE runAt[u]]
      /\ owed' = [u \in Tasks |->
                   IF Running /\ u \in A /\ RunIn[u] > 0 /\ runAt'[u] > now
                   THEN runAt'[u] - now ELSE owed[u]]
      /\ taskMap' = EmplaceAll(taskMap, runAt', tasksToAdd)
      /\ nextRun' = FirstTime(taskMap', runAt', nextRun)
      /\ UNCHANGED <<now, noDelay, trash, deleted, free, pauseVars, beginRun, stopRequested,
                     owner, starts, asleep, deadline, current, readNow>>
      /\ RunIn \in [Tasks -> Nat]
  BY SchedulerAssumption DEF PrepareTasks
<1> HIDE DEF A, M, C, X
<1>5. runAt' \in [Tasks -> Nat] /\ owed' \in [Tasks -> Nat]
  <2>1. runAt' \in [Tasks -> Nat]
    BY <1>1, <1>4 DEF TypeOK
  <2>2. now \in Nat /\ owed \in [Tasks -> Nat]
    BY <1>1 DEF TypeOK
  <2>3. \A u \in Tasks : runAt'[u] \in Nat /\ (runAt'[u] > now => runAt'[u] - now \in Nat)
    BY <2>1, <2>2
  <2>4. owed' \in [Tasks -> Nat]
    BY <1>4, <2>2, <2>3
  <2> QED BY <2>1, <2>4
<1>6. IsList(taskMap', M \cup A) /\ IsList(<< >>, {})
  <2>1. M \cap A = {}
    BY <1>2 DEF Parts
  <2> QED BY <1>3, <1>4, <1>5, <2>1, Joined, Reordered, Emptied DEF EmplaceAll
<1>7. nextRun' \in Nat
  <2>1. taskMap' # << >> => Head(taskMap') \in Tasks
    BY <1>6, HeadTail
  <2> QED BY <1>1, <1>4, <1>5, <2>1 DEF FirstTime, TypeOK
<1>8. TypeOK'
  BY <1>1, <1>4, <1>5, <1>6, <1>7 DEF TypeOK, IsList
<1>9. Apart' /\ Once'
  <2>1. Parts(free, {}, M \cup A, C, X, deleted)
    BY <1>2 DEF Parts
  <2>2. /\ ToSet(tasksToAdd') = {} /\ ToSet(taskMap') = M \cup A /\ ToSet(trash') = X
        /\ {current'} \ {NoTask} = C
    BY <1>4, <1>6 DEF IsList, X, C
  <2> QED BY <1>1, <1>4, <1>6, <2>1, <2>2 DEF Apart, Once, IsList
<1>10. Held' /\ Past' /\ OneSincePause' /\ Straight'
  BY <1>1, <1>4 DEF Held, Past, OneSincePause, Straight
<1>11. Settled'
  BY <1>1, <1>4 DEF Settled, NothingOwed, Running
<1>12. Due'
  BY <1>1, <1>4 DEF Due, Held
<1>13. \A u \in A : owed[u] = 0
  <2>1. CASE prepared
    <3>1. A = {}
      BY <1>1, <2>1, Emptied DEF Straight, IsList, A
    <3> QED BY <3>1
  <2>2. CASE ~prepared
    <3>1. A \subseteq Tasks
      BY <1>2 DEF Parts
    <3> QED BY <1>1, <2>2, <3>1 DEF Settled, NothingOwed
  <2> QED BY <2>1, <2>2
<1>14. Promise'
  <2> SUFFICES ASSUME ~noDelay, NEW u \in M \cup A PROVE Promised(u)'
    BY <1>4, <1>6 DEF Promise, IsList
  <2>1. u \in Tasks /\ now \in Nat /\ beginRun \in Nat /\ pausedTimeAt \in Nat
        /\ beginRun <= now /\ pausedTimeAt <= now /\ runAt'[u] \in Nat /\ owed'[u] \in Nat
        /\ now' = now /\ beginRun' = beginRun /\ pausedTimeAt' = pausedTimeAt
    BY <1>1, <1>2, <1>4, <1>5 DEF Parts, TypeOK, Past
  <2>2. CASE u \in A
    <3>1. owed'[u] > 0 => RunIn[u] > 0 /\ runAt'[u] >= owed'[u] + now
      <4>1. CASE Running /\ RunIn[u] > 0 /\ runAt'[u] > now
        BY <1>4, <2>1, <2>2, <4>1
      <4>2. CASE ~(Running /\ RunIn[u] > 0 /\ runAt'[u] > now)
        <5>1. owed'[u] = owed[u]
          BY <1>4, <2>1, <4>2
        <5>2. owed'[u] = 0
          BY <1>13, <2>2, <5>1
        <5> QED BY <5>2
      <4> QED BY <4>1, <4>2
    <3> QED BY <2>1, <3>1 DEF Promised
  <2>3. CASE u \notin A
    <3>1. Promised(u) /\ owed'[u] = owed[u] /\ runAt'[u] = runAt[u]
      BY <1>1, <1>4, <2>1, <2>3 DEF Promise, M
    <3> QED BY <1>4, <3>1 DEF Promised
  <2> QED BY <2>2, <2>3
<1> QED BY <1>8, <1>9, <1>10, <1>11, <1>12, <1>14 DEF SchedulerInv

LEMMA TakeTaskKeeps ==
    ASSUME SchedulerInv, TakeTask
    PROVE  SchedulerInv'
<1> DEFINE A == ToSet(tasksToAdd)
           M == ToSet(taskMap)
           C == {current} \ {NoTask}
           X == ToSet(trash)
<1> USE DEF taskVars, pauseVars, workVars, runVars
<1>1. /\ TypeOK /\ Apart /\ Once /\ Held /\ Past /\ Straight /\ Settled /\ Promise /\ Due
      /\ OneSincePause
  BY DEF SchedulerInv
<1>2. Parts(free, A, M, C, X, deleted)
  BY <1>1 DEF Apart
<1>3. IsList(tasksToAdd, A) /\ IsList(taskMap, M) /\ IsList(trash, X)
  BY <1>1, Lists
<1> DEFINE t == Head(taskMap)
<1>4. /\ pc = "get" /\ taskMap # << >>
      /\ owed' = [owed EXCEPT ![t] = 0] /\ current' = t /\ taskMap' = Tail(taskMap) /\ pc' = "play"
      /\ sincePause' = IF paused THEN sincePause + 1 ELSE 0
      /\ UNCHANGED <<now, noDelay, runAt, tasksToAdd, trash, deleted, free, nextRun, paused,
                     pausedTimeAt, runVars, asleep, deadline, readNow>>
  BY DEF TakeTask
<1>5. t \in M /\ t \in Tasks /\ IsList(taskMap', M \ {t})
  BY <1>3, <1>4, HeadTail
<1>6. current = NoTask /\ t # NoTask
  BY <1>1, <1>4, <1>5, SchedulerAssumption DEF Held
<1>7. C = {} /\ {current'} \ {NoTask} = {t}
  BY <1>4, <1>6
<1> HIDE DEF A, M, C, X, t
<1>8. TypeOK'
  BY <1>1, <1>4, <1>5 DEF TypeOK, IsList
<1>9. Apart' /\ Once'
  <2>1. Parts(free, A, M \ {t}, {t}, X, deleted)
    BY <1>2, <1>5, <1>7 DEF Parts
  <2>2. ToSet(tasksToAdd') = A /\ ToSet(taskMap') = M \ {t} /\ ToSet(trash') = X
    BY <1>4, <1>5 DEF IsList, A, X
  <2> QED BY <1>1, <1>4, <1>5, <1>7, <2>1, <2>2 DEF Apart, Once, IsList
<1>10. Held' /\ Past' /\ OneSincePause' /\ Straight' /\ Settled'
  BY <1>1, <1>4, <1>6 DEF Held, Past, OneSincePause, Straight, Settled, NothingOwed, TypeOK
<1>11. Due' /\ owed' \in [Tasks -> Nat] /\ \A u \in Tasks \ {t} : owed'[u] = owed[u]
  BY <1>1, <1>4, <1>5 DEF Due, TypeOK
<1>12. Promise'
  <2> SUFFICES ASSUME ~noDelay, NEW u \in M \ {t} PROVE Promised(u)'
    BY <1>4, <1>5 DEF Promise, IsList
  <2> QED BY <1>1, <1>4 DEF Promise, Promised, M
<1> QED BY <1>8, <1>9, <1>10, <1>11, <1>12 DEF SchedulerInv

LEMMA RescheduleKeeps ==
    ASSUME SchedulerInv, Reschedule
    PROVE  SchedulerInv'
<1> DEFINE A == ToSet(tasksToAdd)
           M == ToSet(taskMap)
           C == {current} \ {NoTask}
           X == ToSet(trash)
<1> USE DEF taskVars, pauseVars, workVars, runVars
<1>1. /\ TypeOK /\ Apart /\ Once /\ Held /\ Past /\ Straight /\ Settled /\ Promise /\ Due
      /\ OneSincePause
  BY DEF SchedulerInv
<1>2. Parts(free, A, M, C, X, deleted)
  BY <1>1 DEF Apart
<1>3. IsList(tasksToAdd, A) /\ IsList(taskMap, M) /\ IsList(trash, X)
  BY <1>1, Lists
<1>4. /\ pc = "played" /\ Period[current] > 0
      /\ runAt' = [runAt EXCEPT ![current] = (IF @ = 0 THEN readNow ELSE @) + Period[current]]
      /\ taskMap' = Emplace(taskMap, runAt', current) /\ nextRun' = runAt'[Head(taskMap')]
      /\ current' = NoTask /\ readNow' = 0 /\ pc' = "clean"
      /\ UNCHANGED <<now, noDelay, tasksToAdd, trash, deleted, free, pauseVars, runVars, asleep,
                     deadline, owed>>
      /\ Period \in [Tasks -> Nat]
  BY SchedulerAssumption DEF Reschedule
<1>5. current # NoTask /\ current \in Tasks /\ C = {current} /\ {current'} \ {NoTask} = {}
  BY <1>1, <1>4 DEF Held, TypeOK
<1> HIDE DEF A, M, C, X
<1>6. runAt' \in [Tasks -> Nat] /\ \A u \in Tasks \ {current} : runAt'[u] = runAt[u]
  BY <1>1, <1>4, <1>5 DEF TypeOK
<1>7. IsList(taskMap', M \cup {current})
  <2>1. current \notin M
    BY <1>2, <1>5 DEF Parts
  <2> QED BY <1>3, <1>4, <1>5, <1>6, <2>1, Appended, Reordered DEF Emplace
<1>8. nextRun' \in Nat
  <2>1. taskMap' # << >>
    BY <1>7, Emptied DEF IsList
  <2> QED BY <1>4, <1>6, <1>7, <2>1, HeadTail
<1>9. TypeOK'
  BY <1>1, <1>4, <1>6, <1>7, <1>8 DEF TypeOK, IsList
<1>10. Apart' /\ Once'
  <2>1. Parts(free, A, M \cup {current}, {}, X, deleted)
    BY <1>2, <1>5 DEF Parts
  <2>2. ToSet(tasksToAdd') = A /\ ToSet(taskMap') = M \cup {current} /\ ToSet(trash') = X
    BY <1>4, <1>7 DEF IsList, A, X
  <2> QED BY <1>1, <1>4, <1>5, <1>7, <2>1, <2>2 DEF Apart, Once, IsList
<1>11. Held' /\ Past' /\ OneSincePause' /\ Straight' /\ Settled' /\ Due'
  BY <1>1, <1>4 DEF Held, Past, OneSincePause, Straight, Settled, NothingOwed, Due, TypeOK
<1>12. Promise'
  <2> SUFFICES ASSUME ~noDelay, NEW u \in M \cup {current} PROVE Promised(u)'
    BY <1>4, <1>7 DEF Promise, IsList
  <2>1. CASE u = current
    BY <1>1, <1>4, <1>5, <2>1 DEF Due, Promised
  <2>2. CASE u # current
    <3>1. Promised(u) /\ runAt'[u] = runAt[u]
      BY <1>1, <1>2, <1>6, <2>2 DEF Promise, Parts, M
    <3> QED BY <1>4, <3>1 DEF Promised
  <2> QED BY <2>1, <2>2
<1> QED BY <1>9, <1>10, <1>11, <1>12 DEF SchedulerInv

LEMMA TrashTaskKeeps ==
    ASSUME SchedulerInv, TrashTask
    PROVE  SchedulerInv'
<1> DEFINE A == ToSet(tasksToAdd)
           M == ToSet(taskMap)
           C == {current} \ {NoTask}
           X == ToSet(trash)
<1> USE DEF taskVars, pauseVars, workVars, runVars
<1>1. /\ TypeOK /\ Apart /\ Once /\ Held /\ Past /\ Straight /\ Settled /\ Promise /\ Due
      /\ OneSincePause
  BY DEF SchedulerInv
<1>2. Parts(free, A, M, C, X, deleted)
  BY <1>1 DEF Apart
<1>3. IsList(tasksToAdd, A) /\ IsList(taskMap, M) /\ IsList(trash, X)
  BY <1>1, Lists
<1>4. /\ pc = "played" /\ trash' = Append(trash, current)
      /\ current' = NoTask /\ readNow' = 0 /\ pc' = "clean"
      /\ UNCHANGED <<now, noDelay, runAt, tasksToAdd, taskMap, deleted, free, nextRun,
                     pauseVars, runVars, asleep, deadline, owed>>
  BY DEF TrashTask
<1>5. current # NoTask /\ current \in Tasks /\ C = {current} /\ {current'} \ {NoTask} = {}
  BY <1>1, <1>4 DEF Held, TypeOK
<1> HIDE DEF A, M, C, X
<1>6. IsList(trash', X \cup {current})
  <2>1. current \notin X
    BY <1>2, <1>5 DEF Parts
  <2> QED BY <1>3, <1>4, <1>5, <2>1, Appended
<1>7. TypeOK'
  BY <1>1, <1>4, <1>6 DEF TypeOK, IsList
<1>8. Apart' /\ Once'
  <2>1. Parts(free, A, M, {}, X \cup {current}, deleted)
    BY <1>2, <1>5 DEF Parts
  <2>2. ToSet(tasksToAdd') = A /\ ToSet(taskMap') = M /\ ToSet(trash') = X \cup {current}
    BY <1>4, <1>6 DEF IsList, A, M
  <2> QED BY <1>1, <1>4, <1>5, <1>6, <2>1, <2>2 DEF Apart, Once, IsList
<1>9. Held' /\ Past' /\ OneSincePause' /\ Straight' /\ Settled'
  BY <1>1, <1>4 DEF Held, Past, OneSincePause, Straight, Settled, NothingOwed, TypeOK
<1>10. Promise' /\ Due'
  BY <1>1, <1>4, PromiseKept
<1> QED BY <1>7, <1>8, <1>9, <1>10 DEF SchedulerInv

LEMMA DeleteTrashedKeeps ==
    ASSUME SchedulerInv, DeleteTrashed
    PROVE  SchedulerInv'
<1> DEFINE A == ToSet(tasksToAdd)
           M == ToSet(taskMap)
           C == {current} \ {NoTask}
           X == ToSet(trash)
<1> USE DEF taskVars, pauseVars, workVars, runVars
<1>1. /\ TypeOK /\ Apart /\ Once /\ Held /\ Past /\ Straight /\ Settled /\ Promise /\ Due
      /\ OneSincePause
  BY DEF SchedulerInv
<1>2. Parts(free, A, M, C, X, deleted)
  BY <1>1 DEF Apart
<1>3. IsList(tasksToAdd, A) /\ IsList(taskMap, M) /\ IsList(trash, X)
  BY <1>1, Lists
<1>4. /\ pc = "clean" /\ deleted' = deleted \cup X /\ trash' = << >> /\ pc' = "loop"
      /\ UNCHANGED <<now, noDelay, runAt, tasksToAdd, taskMap, free, nextRun, pauseVars,
                     runVars, asleep, deadline, current, readNow, owed>>
  BY DEF DeleteTrashed
<1> HIDE DEF A, M, C, X
<1>5. IsList(<< >>, {})
  BY Emptied
<1>6. Parts(free, A, M, C, {}, deleted')
  BY <1>2, <1>4 DEF Parts
<1>7. TypeOK'
  <2>1. deleted' \subseteq Tasks
    BY <1>6 DEF Parts
  <2> QED BY <1>1, <1>4, <1>5, <2>1 DEF TypeOK, IsList
<1>8. Apart' /\ Once'
  <2>1. /\ ToSet(tasksToAdd') = A /\ ToSet(taskMap') = M /\ ToSet(trash') = {}
        /\ {current'} \ {NoTask} = C
    BY <1>4, <1>5 DEF IsList, A, M, C
  <2> QED BY <1>1, <1>4, <1>5, <1>6, <2>1 DEF Apart, Once, IsList
<1>9. Held' /\ Past' /\ OneSincePause' /\ Straight' /\ Settled'
  BY <1>1, <1>4 DEF Held, Past, OneSincePause, Straight, Settled, NothingOwed, TypeOK
<1>10. Promise' /\ Due'
  BY <1>1, <1>4, PromiseKept
<1> QED BY <1>7, <1>8, <1>9, <1>10 DEF SchedulerInv

LEMMA TickKeeps ==
    ASSUME SchedulerInv, Tick
    PROVE  SchedulerInv'
<1> USE DEF taskVars, pauseVars, workVars, runVars
<1>1. /\ TypeOK /\ Apart /\ Once /\ Held /\ Past /\ Straight /\ Settled /\ Promise /\ Due
      /\ OneSincePause
  BY DEF SchedulerInv
<1>2. /\ now' = now + 1
      /\ owed' = [u \in Tasks |-> IF paused \/ owed[u] = 0 THEN owed[u] ELSE owed[u] - 1]
      /\ UNCHANGED <<noDelay, taskVars, pauseVars, runVars, workVars>>
  BY DEF Tick
<1>3. TypeOK'
  <2>1. owed' \in [Tasks -> Nat] /\ now' \in Nat
    BY <1>1, <1>2 DEF TypeOK
  <2> QED BY <1>1, <1>2, <2>1 DEF TypeOK
<1>4. Apart' /\ Once'
  BY <1>1, <1>2, Unmoved
<1>5. Held' /\ Past' /\ OneSincePause' /\ Straight'
  BY <1>1, <1>2 DEF Held, Past, OneSincePause, Straight, TypeOK
<1>6. Settled'
  BY <1>1, <1>2 DEF Settled, NothingOwed
<1>7. Due'
  BY <1>1, <1>2 DEF Due, TypeOK
<1>8. Promise'
  <2> SUFFICES ASSUME ~noDelay, NEW u \in ToSet(taskMap) PROVE Promised(u)'
    BY <1>2 DEF Promise
  <2>1. Promised(u) /\ u \in Tasks
    BY <1>1 DEF Promise, Apart, Parts
  <2>2. /\ owed[u] \in Nat /\ runAt[u] \in Nat /\ now \in Nat /\ beginRun \in Nat
        /\ pausedTimeAt \in Nat
    BY <1>1, <2>1 DEF TypeOK
  <2>3. owed'[u] = IF paused \/ owed[u] = 0 THEN owed[u] ELSE owed[u] - 1
    BY <1>2, <2>1
  <2>4. runAt' = runAt /\ beginRun' = beginRun /\ pausedTimeAt' = pausedTimeAt
        /\ paused' = paused /\ now' = now + 1
    BY <1>2
  <2> QED BY <2>1, <2>2, <2>3, <2>4 DEF Promised
<1> QED BY <1>3, <1>4, <1>5, <1>6, <1>7, <1>8 DEF SchedulerInv

LEMMA Stutters ==
    ASSUME SchedulerInv, UNCHANGED vars
    PROVE  SchedulerInv'
<1> USE DEF vars, taskVars, pauseVars, workVars, runVars
<1>1. /\ TypeOK /\ Apart /\ Once /\ Held /\ Past /\ Straight /\ Settled /\ Promise /\ Due
      /\ OneSincePause
  BY DEF SchedulerInv
<1>2. TypeOK' /\ Held' /\ Past' /\ OneSincePause' /\ Settled'
  BY <1>1 DEF TypeOK, Held, Past, OneSincePause, Settled, NothingOwed
<1> QED BY <1>2, QuietKeeps

LEMMA Steps == SchedulerInv /\ [Next]_vars => SchedulerInv'
<1> SUFFICES ASSUME SchedulerInv, [Next]_vars PROVE SchedulerInv'
  OBVIOUS
<1>1. CASE Client
  BY <1>1, AddTaskKeeps, RemoveTaskKeeps, ClearTasksKeeps, PauseKeeps, ResumeKeeps DEF Client
<1>2. CASE Start \/ RequestStop \/ EndStop
  BY <1>2, OwnerQuiet, OwnerKeeps DEF EndStop
<1>3. CASE Worker
  BY <1>3, WorkerQuiet, BeginRunKeeps, PrepareTasksKeeps, TakeTaskKeeps, RescheduleKeeps,
     TrashTaskKeeps, DeleteTrashedKeeps DEF Worker
<1>4. CASE Tick
  BY <1>4, TickKeeps
<1>5. CASE UNCHANGED vars
  BY <1>5, Stutters
<1> QED BY <1>1, <1>2, <1>3, <1>4, <1>5 DEF Next

(* Only TakeTask begins to play a task.                                    *)
LEMMA OnlyTakeTask ==
    ASSUME [Next]_vars, pc = "get", pc' = "play"
    PROVE  TakeTask
<1> USE DEF taskVars, pauseVars, workVars, runVars
<1>1. CASE Client
  BY <1>1 DEF Client, AddTask, RemoveTask, ClearTasks, Pause, Resume
<1>2. CASE Start \/ RequestStop \/ EndStop
  BY <1>2 DEF Start, RequestStop, EndStop, StopPause, StopWait, Join
<1>3. CASE Worker
  BY <1>3 DEF Worker, BeginRun, PrepareTasks, CheckStop, WaitPause, WaitTask, ComputeDelay,
     FallAsleep, SleepEnds, CheckRun, ReadClock, TooEarly, ReadEmptyMap, RunTask, Reschedule,
     TrashTask, DeleteTrashed
<1>4. CASE Tick \/ UNCHANGED vars
  BY <1>4 DEF Tick, vars
<1> QED BY <1>1, <1>2, <1>3, <1>4 DEF Next

(* Whatever the clients and the owner do, and however the time passes, the *)
(* invariant holds in every state of the scheduler.                        *)
THEOREM Invariance == Spec => []SchedulerInv
<1>1. Init => SchedulerInv
  BY Starts
<1>2. SchedulerInv /\ [Next]_vars => SchedulerInv'
  BY Steps
<1> QED BY <1>1, <1>2, PTL DEF Spec

(* The variables keep their types: no subtraction of times goes below 0,   *)
(* and the map, the lists and the worker hold tasks only.                  *)
THEOREM TypeCorrect == Spec => []TypeOK
<1>1. SchedulerInv => TypeOK
  BY DEF SchedulerInv
<1> QED BY <1>1, Invariance, PTL

(* A task is in one place at a time: none is played after its deletion,    *)
(* deleted twice, or lost.                                                 *)
THEOREM InOnePlace == Spec => []OnePlace
<1>1. SchedulerInv => OnePlace
  <2> SUFFICES ASSUME SchedulerInv PROVE OnePlace
    OBVIOUS
  <2> DEFINE A == ToSet(tasksToAdd)
             M == ToSet(taskMap)
             C == {current} \ {NoTask}
             X == ToSet(trash)
             P == <<free, A, M, C, X, deleted>>
  <2>1. Parts(free, A, M, C, X, deleted) /\ Once
    BY DEF SchedulerInv, Apart
  <2>2. P = Places
    BY DEF Places
  <2> HIDE DEF A, M, C, X
  <2>3. /\ P[1] = free /\ P[2] = A /\ P[3] = M /\ P[4] = C /\ P[5] = X /\ P[6] = deleted
        /\ \A i \in 1 .. 6 : i = 1 \/ i = 2 \/ i = 3 \/ i = 4 \/ i = 5 \/ i = 6
        /\ 1 \in 1 .. 6 /\ 2 \in 1 .. 6 /\ 3 \in 1 .. 6 /\ 4 \in 1 .. 6 /\ 5 \in 1 .. 6
        /\ 6 \in 1 .. 6
    OBVIOUS
  <2> HIDE DEF P
  <2>4. \A t \in Tasks : \E i \in 1 .. 6 : t \in P[i]
    BY <2>1, <2>3 DEF Parts
  <2>5. ASSUME NEW i \in 1 .. 6, NEW j \in 1 .. 6, i # j PROVE P[i] \cap P[j] = {}
    BY <2>1, <2>3, <2>5 DEF Parts
  <2> QED BY <2>1, <2>2, <2>4, <2>5 DEF OnePlace, Once
<1> QED BY <1>1, Invariance, PTL

(* No task is taken before its date but for the preplay, nor before its    *)
(* delay has passed outside of the pauses, but for the preplay and what    *)
(* had passed of a pause when the worker read the clock.                   *)
THEOREM NotEarly == Spec => NeverEarly
<1> DEFINE Early == pc = "get" /\ pc' = "play" /\ ~noDelay =>
                      /\ runAt[current'] <= now + Preplay
                      /\ owed[current'] <= Preplay + PauseCounted
<1>1. SchedulerInv /\ [Next]_vars => Early
  <2> SUFFICES ASSUME SchedulerInv, [Next]_vars, pc = "get", pc' = "play", ~noDelay
               PROVE  /\ runAt[current'] <= now + Preplay
                      /\ owed[current'] <= Preplay + PauseCounted
    OBVIOUS
  <2> DEFINE t == Head(taskMap)
  <2>1. TakeTask
    BY OnlyTakeTask
  <2>2. current' = t /\ taskMap # << >> /\ runAt[t] <= readNow + Preplay
    BY <2>1 DEF TakeTask, Playable
  <2>3. t \in ToSet(taskMap) /\ t \in Tasks
    BY <2>2, Lists, HeadTail DEF SchedulerInv
  <2> HIDE DEF t
  <2>4. /\ now \in Nat /\ readNow \in Nat /\ runAt[t] \in Nat /\ owed[t] \in Nat
        /\ pausedTimeAt \in Nat /\ paused \in BOOLEAN /\ Preplay \in Nat
    BY <2>3, SchedulerAssumption DEF SchedulerInv, TypeOK
  <2>5. Promised(t) /\ readNow <= now
    BY <2>3 DEF SchedulerInv, Promise, Past
  <2>6. runAt[t] <= now + Preplay
    BY <2>2, <2>4, <2>5
  <2>7. owed[t] <= Preplay + PauseCounted
    BY <2>2, <2>4, <2>5 DEF Promised, PauseCounted
  <2> QED BY <2>2, <2>6, <2>7
<1>2. Early => [Early]_vars
  OBVIOUS
<1> QED BY <1>1, <1>2, Invariance, PTL DEF Spec, NeverEarly

(* At most one task, the one about to be taken, is played after a pause.   *)
THEOREM Holds == Spec => []PauseHolds
<1>1. SchedulerInv => PauseHolds
  BY DEF SchedulerInv, PauseHolds, OneSincePause
<1> QED BY <1>1, Invariance, PTL
=============================================================================
