--------------------------- MODULE Channel_proofs ---------------------------
(***************************************************************************)
(* Proofs about Channel and the Observable it is, for any threads,         *)
(* channels, handlers and wiring of them, and any writes.                  *)
(***************************************************************************)
EXTENDS Channel, FiniteSetTheorems, TLAPS

(* What a list of elements of E is known for: the set of its elements, and *)
(* that it holds none twice.                                               *)
IsList(s, E, S) == s \in Seq(E) /\ ToSet(s) = S /\ IsInjective(s)

(* The elements of a list after h, and those from h on.                    *)
Later(list, h) == {list[j] : j \in {k \in DOMAIN list : k > Position(list, h)}}
From(list, h)  == IF h = NoHandler THEN {} ELSE {h} \cup Later(list, h)

(* What a thread notifies a channel of is no value, or a value and a stamp.*)
Values == {<< >>} \cup (Seq(Bytes) \X Nat)
Sent   == sent \in [Threads -> [Channels -> Values]]

(* A thread is writing or notifying the channels whose lock it holds, once *)
(* each.                                                                   *)
HeldBy(t) == {c \in Channels : notifier[c] = t}
Stacked == \A t \in Threads : IsList(stack[t], Channels, HeldBy(t))
Locked  == \A c \in Channels : stage[c] = "free" <=> notifier[c] = NoThread

(* A channel that is about to be written knows what is written to it.      *)
Known == \A c \in Channels : stage[c] = "locked" => writing[c].kind = "write"

(* A value is sent by the thread that holds the lock, after the store; and *)
(* the channel still holds it.                                             *)
Shown(t, c) == sent[t][c] # << >> => /\ notifier[c] = t /\ stage[c] \in {"stored", "next", "handle"}
                                     /\ sent[t][c] = <<array[c], timestamp[c]>>
AllShown == \A t \in Threads, c \in Channels : Shown(t, c)

(* The list of the observers and where notify_observers is in it.          *)
InRound(c) == stage[c] \in {"next", "handle"}
Observed(c) ==
    /\ IsList(observers[c], Handlers,
              subscribed[c] \cup (IF removeCurrent[c] THEN {iter[c]} ELSE {}))
    /\ removeCurrent[c] => stage[c] = "handle" /\ iter[c] \notin subscribed[c]
    /\ stage[c] = "handle" => iter[c] # NoHandler /\ current[c] = iter[c]
    /\ InRound(c) /\ iter[c] # NoHandler => iter[c] \in ToSet(observers[c])
    /\ ~InRound(c) => current[c] = NoHandler

(* The handlers still to be called in a round are ahead of the iterator.   *)
Ahead(c) == /\ due[c] \subseteq subscribed[c]
            /\ stage[c] = "next"   => due[c] \ seen[c] \subseteq From(observers[c], iter[c])
            /\ stage[c] = "handle" => due[c] \ seen[c] \subseteq Later(observers[c], iter[c])

(* An array is never shorter than it was at first.                         *)
Grows == \A c \in Channels : Len(array[c]) >= Len(FirstArray)

ChannelInv == /\ TypeOK /\ Sent /\ Stacked /\ Locked /\ Known /\ AllShown /\ Grows
              /\ \A c \in Channels : Observed(c) /\ Ahead(c)
-----------------------------------------------------------------------------
(* Lists without duplicates.                                               *)

LEMMA EmptyList == \A E : IsList(<< >>, E, {}) /\ \A s \in Seq(E) : ToSet(s) = {} => s = << >>
<1> TAKE E
<1>1. << >> \in Seq(E) /\ DOMAIN << >> = {}
  OBVIOUS
<1>2. IsList(<< >>, E, {})
  BY <1>1 DEF IsList, ToSet, IsInjective
<1>3. ASSUME NEW s \in Seq(E), ToSet(s) = {} PROVE s = << >>
  <2>1. 1 \notin DOMAIN s
    BY <1>3 DEF ToSet
  <2> QED BY <2>1
<1> QED BY <1>2, <1>3

LEMMA Indices ==
    ASSUME NEW s, NEW E, NEW S, IsList(s, E, S)
    PROVE  /\ s \in Seq(E) /\ Len(s) \in Nat /\ DOMAIN s = 1 .. Len(s) /\ S \subseteq E
           /\ \A i \in 1 .. Len(s) : s[i] \in S /\ s[i] \in E
           /\ \A x \in S : \E i \in 1 .. Len(s) : s[i] = x
           /\ \A i, j \in 1 .. Len(s) : s[i] = s[j] => i = j
<1>1. s \in Seq(E) /\ Len(s) \in Nat /\ DOMAIN s = 1 .. Len(s)
  BY DEF IsList
<1>2. \A i \in 1 .. Len(s) : s[i] \in E
  BY <1>1
<1> QED BY <1>1, <1>2 DEF IsList, ToSet, IsInjective

LEMMA AppendTo ==
    ASSUME NEW s, NEW E, NEW S, IsList(s, E, S), NEW x \in E, x \notin S
    PROVE  IsList(Append(s, x), E, S \cup {x})
<1> DEFINE r == Append(s, x)
<1>1. Len(s) \in Nat /\ \A i \in 1 .. Len(s) : s[i] \in S
  BY Indices
<1>2. /\ r \in Seq(E) /\ DOMAIN r = 1 .. Len(s) + 1
      /\ r[Len(s) + 1] = x /\ \A i \in 1 .. Len(s) : r[i] = s[i]
  <2>1. s \in Seq(E)
    BY DEF IsList
  <2> QED BY <2>1
<1> HIDE DEF r
<1>3. /\ \A i \in 1 .. Len(s) + 1 : i = Len(s) + 1 \/ i \in 1 .. Len(s)
      /\ 1 .. Len(s) \subseteq 1 .. Len(s) + 1 /\ Len(s) + 1 \in 1 .. Len(s) + 1
  BY <1>1
<1>4. ToSet(r) = S \cup {x}
  <2>1. ASSUME NEW y \in S PROVE y \in ToSet(r)
    BY <1>2, <1>3, <2>1, Indices DEF ToSet
  <2>2. x \in ToSet(r)
    BY <1>2, <1>3 DEF ToSet
  <2> QED BY <1>1, <1>2, <1>3, <2>1, <2>2 DEF ToSet
<1>5. IsInjective(r)
  <2> SUFFICES ASSUME NEW i \in 1 .. Len(s) + 1, NEW j \in 1 .. Len(s) + 1, r[i] = r[j]
               PROVE  i = j
    BY <1>2 DEF IsInjective
  <2> QED BY <1>1, <1>2, <1>3, Indices
<1> QED BY <1>2, <1>4, <1>5 DEF IsList, r

LEMMA PrependTo ==
    ASSUME NEW s, NEW E, NEW S, IsList(s, E, S), NEW x \in E, x \notin S
    PROVE  /\ IsList(<<x>> \o s, E, S \cup {x})
           /\ \A i \in 1 .. Len(s) : i + 1 \in DOMAIN (<<x>> \o s) /\ (<<x>> \o s)[i + 1] = s[i]
<1> DEFINE r == <<x>> \o s
<1>1. s \in Seq(E) /\ Len(s) \in Nat /\ \A i \in 1 .. Len(s) : s[i] \in S
  BY Indices
<1>2. /\ r \in Seq(E) /\ DOMAIN r = 1 .. Len(s) + 1
      /\ r[1] = x /\ \A i \in 1 .. Len(s) + 1 : i # 1 => r[i] = s[i - 1]
  <2>1. <<x>> \in Seq(E) /\ Len(<<x>>) = 1 /\ <<x>>[1] = x
    OBVIOUS
  <2>2. r \in Seq(E) /\ Len(r) = 1 + Len(s) /\ DOMAIN r = 1 .. Len(r)
    BY <1>1, <2>1
  <2>3. \A i \in 1 .. 1 + Len(s) : r[i] = IF i <= 1 THEN <<x>>[i] ELSE s[i - 1]
    BY <1>1, <2>1
  <2> QED BY <1>1, <2>1, <2>2, <2>3
<1> HIDE DEF r
<1>3. /\ \A i \in 1 .. Len(s) + 1 : i = 1 \/ i - 1 \in 1 .. Len(s)
      /\ 1 \in 1 .. Len(s) + 1
  BY <1>1
<1>4. ASSUME NEW i \in 1 .. Len(s) PROVE i + 1 \in DOMAIN r /\ r[i + 1] = s[i]
  <2>1. i + 1 \in 1 .. Len(s) + 1 /\ i + 1 # 1 /\ (i + 1) - 1 = i
    BY <1>1
  <2> QED BY <1>2, <2>1
<1>5. ToSet(r) = S \cup {x}
  <2>1. ASSUME NEW y \in S PROVE y \in ToSet(r)
    BY <1>4, <2>1, Indices DEF ToSet
  <2>2. x \in ToSet(r)
    BY <1>2, <1>3 DEF ToSet
  <2>3. ASSUME NEW i \in 1 .. Len(s) + 1 PROVE r[i] \in S \cup {x}
    BY <1>1, <1>2, <1>3
  <2> QED BY <1>2, <2>1, <2>2, <2>3 DEF ToSet
<1>6. IsInjective(r)
  <2> SUFFICES ASSUME NEW i \in 1 .. Len(s) + 1, NEW j \in 1 .. Len(s) + 1, r[i] = r[j]
               PROVE  i = j
    BY <1>2 DEF IsInjective
  <2>1. CASE i = 1 \/ j = 1
    BY <1>1, <1>2, <1>3, <2>1
  <2>2. CASE i # 1 /\ j # 1
    <3>1. i - 1 \in 1 .. Len(s) /\ j - 1 \in 1 .. Len(s)
      BY <1>1, <2>2
    <3>2. s[i - 1] = s[j - 1]
      BY <1>2, <2>2
    <3>3. i - 1 = j - 1
      BY <3>1, <3>2, Indices
    <3> QED BY <1>1, <3>3
  <2> QED BY <2>1, <2>2
<1> QED BY <1>2, <1>4, <1>5, <1>6 DEF IsList, r

LEMMA FoundAt ==
    ASSUME NEW s, NEW E, NEW S, IsList(s, E, S), NEW h \in S
    PROVE  /\ Position(s, h) \in 1 .. Len(s) /\ s[Position(s, h)] = h
           /\ \A i \in 1 .. Len(s) : s[i] = h <=> i = Position(s, h)
<1>1. \E i \in DOMAIN s : s[i] = h
  BY Indices
<1>2. Position(s, h) \in DOMAIN s /\ s[Position(s, h)] = h
  BY <1>1 DEF Position
<1> QED BY <1>2, Indices

(* The erase of the element at k moves those after it by one place.        *)
LEMMA Removed ==
    ASSUME NEW s, NEW E, NEW S, IsList(s, E, S), NEW k \in 1 .. Len(s)
    PROVE  /\ IsList(RemoveAt(s, k), E, S \ {s[k]})
           /\ DOMAIN RemoveAt(s, k) = 1 .. Len(s) - 1
           /\ \A i \in 1 .. Len(s) - 1 : RemoveAt(s, k)[i] = IF i < k THEN s[i] ELSE s[i + 1]
<1> DEFINE r == RemoveAt(s, k)
           a == SubSeq(s, 1, k - 1)
           b == SubSeq(s, k + 1, Len(s))
           e(i) == IF i < k THEN i ELSE i + 1
<1>1. s \in Seq(E) /\ Len(s) \in Nat /\ DOMAIN s = 1 .. Len(s) /\ k \in Nat /\ 1 <= k /\ k <= Len(s)
  BY Indices
<1>2. /\ a \in Seq(E) /\ Len(a) = k - 1 /\ \A i \in 1 .. k - 1 : a[i] = s[i]
      /\ b \in Seq(E) /\ Len(b) = Len(s) - k /\ \A i \in 1 .. Len(s) - k : b[i] = s[k + i]
  <2>1. /\ a \in Seq(E) /\ DOMAIN a = 1 .. k - 1 /\ \A i \in 1 .. k - 1 : a[i] = s[i]
        /\ b \in Seq(E) /\ DOMAIN b = 1 .. Len(s) - k
        /\ \A i \in 1 .. Len(s) - k : b[i] = s[k + i]
    <3>1. /\ a \in Seq(E) /\ DOMAIN a = 1 .. k - 1
          /\ \A i \in 1 .. k - 1 : a[i] = s[i]
      BY <1>1
    <3>2. b \in Seq(E) /\ DOMAIN b = 1 .. Len(s) - k
      BY <1>1
    <3>3. \A i \in 1 .. Len(s) - k : b[i] = s[k + i]
      BY <1>1
    <3> QED BY <3>1, <3>2, <3>3
  <2> HIDE DEF a, b
  <2>2. Len(a) = k - 1
    BY <1>1, <2>1
  <2>3. Len(b) = Len(s) - k
    <3>1. Len(s) - k \in Nat
      BY <1>1
    <3>2. b \in Seq(E) /\ DOMAIN b = 1 .. Len(s) - k
      BY <2>1
    <3>3. Len(b) \in Nat /\ DOMAIN b = 1 .. Len(b)
      BY <3>2
    <3> QED BY <3>1, <3>2, <3>3
  <2> QED BY <2>1, <2>2, <2>3
<1> HIDE DEF a, b
<1>3. r = a \o b
  BY DEF RemoveAt, a, b
<1>4. /\ r \in Seq(E) /\ Len(r) = Len(s) - 1 /\ DOMAIN r = 1 .. Len(s) - 1
      /\ \A i \in 1 .. Len(s) - 1 : r[i] = IF i <= k - 1 THEN a[i] ELSE b[i - (k - 1)]
  <2>1. a \in Seq(E) /\ b \in Seq(E)
    BY <1>2
  <2>2. a \o b \in Seq(E) /\ Len(a \o b) = Len(a) + Len(b)
    BY <2>1
  <2>3. DOMAIN (a \o b) = 1 .. Len(a \o b)
    BY <2>2
  <2>4. \A i \in 1 .. Len(a) + Len(b) : (a \o b)[i] = IF i <= Len(a) THEN a[i] ELSE b[i - Len(a)]
    BY <1>2
  <2>5. Len(a) + Len(b) = Len(s) - 1
    BY <1>1, <1>2
  <2> QED BY <1>2, <1>3, <2>2, <2>4, <2>5, <2>3
<1> HIDE DEF r
<1>5. ASSUME NEW i \in 1 .. Len(s) - 1 PROVE r[i] = s[e(i)] /\ e(i) \in 1 .. Len(s) /\ e(i) # k
  <2>1. CASE i < k
    <3>1. i \in 1 .. k - 1 /\ i <= k - 1 /\ i \in 1 .. Len(s) /\ i # k
      BY <1>1, <2>1
    <3> QED BY <1>2, <1>4, <2>1, <3>1
  <2>2. CASE ~(i < k)
    <3>1. /\ i - (k - 1) \in 1 .. Len(s) - k /\ ~(i <= k - 1) /\ k + (i - (k - 1)) = i + 1
          /\ i + 1 \in 1 .. Len(s) /\ i + 1 # k
      BY <1>1, <2>2
    <3>2. r[i] = b[i - (k - 1)]
      BY <1>4, <3>1
    <3>3. b[i - (k - 1)] = s[k + (i - (k - 1))]
      BY <1>2, <3>1
    <3> QED BY <2>2, <3>1, <3>2, <3>3
  <2> QED BY <2>1, <2>2
<1>6. ASSUME NEW j \in 1 .. Len(s), j # k
      PROVE  \E i \in 1 .. Len(s) - 1 : e(i) = j
  <2>1. CASE j < k
    <3>1. j \in 1 .. Len(s) - 1 /\ e(j) = j
      BY <1>1, <2>1
    <3> QED BY <3>1
  <2>2. CASE j > k
    <3>1. j - 1 \in 1 .. Len(s) - 1 /\ e(j - 1) = j
      BY <1>1, <2>2
    <3> QED BY <3>1
  <2> QED BY <1>1, <1>6, <2>1, <2>2
<1>7. \A i, j \in 1 .. Len(s) - 1 : e(i) = e(j) => i = j
  BY <1>1
<1>8. \A i \in 1 .. Len(s) - 1 : e(i) = IF i < k THEN i ELSE i + 1
  OBVIOUS
<1> HIDE DEF e
<1>9. ToSet(r) = S \ {s[k]}
  <2>1. ASSUME NEW i \in 1 .. Len(s) - 1 PROVE r[i] \in S \ {s[k]}
    BY <1>1, <1>5, Indices
  <2>2. ASSUME NEW x \in S, x # s[k] PROVE x \in ToSet(r)
    <3>1. PICK j \in 1 .. Len(s) : s[j] = x
      BY Indices
    <3>2. PICK i \in 1 .. Len(s) - 1 : e(i) = j
      BY <1>6, <2>2, <3>1
    <3> QED BY <1>4, <1>5, <3>1, <3>2 DEF ToSet
  <2> QED BY <1>4, <2>1, <2>2 DEF ToSet
<1>10. IsInjective(r)
  <2> SUFFICES ASSUME NEW i \in 1 .. Len(s) - 1, NEW j \in 1 .. Len(s) - 1, r[i] = r[j]
               PROVE  i = j
    BY <1>4 DEF IsInjective
  <2>1. e(i) = e(j)
    BY <1>5, Indices
  <2> QED BY <1>7, <2>1
<1> QED BY <1>4, <1>5, <1>8, <1>9, <1>10 DEF IsList, r

LEMMA Erased ==
    ASSUME NEW s, NEW E, NEW S, IsList(s, E, S), NEW h
    PROVE  IsList(Erase(s, h), E, S \ {h})
<1>1. Contains(s, h) <=> h \in S
  BY DEF Contains, ToSet, IsList
<1>2. CASE h \in S
  <2>1. Position(s, h) \in 1 .. Len(s) /\ s[Position(s, h)] = h
    BY <1>2, FoundAt
  <2> QED BY <1>1, <1>2, <2>1, Removed DEF Erase
<1>3. CASE h \notin S
  BY <1>1, <1>3 DEF Erase, IsList
<1> QED BY <1>2, <1>3

(* The last element of a list, and those before it.                        *)
LEMMA LastFront ==
    ASSUME NEW s, NEW E, NEW S, IsList(s, E, S), s # << >>
    PROVE  Last(s) \in S /\ Last(s) \in E /\ IsList(Front(s), E, S \ {Last(s)})
<1> DEFINE n == Len(s)
<1>1. s \in Seq(E) /\ n \in Nat /\ n # 0 /\ DOMAIN s = 1 .. n
  BY Indices
<1>2. n \in 1 .. n /\ Last(s) = s[n]
  BY <1>1 DEF Last
<1>3. Last(s) \in S /\ Last(s) \in E
  BY <1>2, Indices
<1>4. RemoveAt(s, n) = Front(s)
  <2>1. SubSeq(s, n + 1, n) = << >> /\ SubSeq(s, 1, n - 1) \in Seq(E)
    BY <1>1
  <2>2. SubSeq(s, 1, n - 1) \o << >> = SubSeq(s, 1, n - 1)
    BY <2>1
  <2> QED BY <2>1, <2>2 DEF RemoveAt, Front
<1>5. IsList(RemoveAt(s, n), E, S \ {s[n]})
  BY <1>2, Removed
<1> QED BY <1>2, <1>3, <1>4, <1>5

-----------------------------------------------------------------------------
(* Where notify_observers is in the list.                                  *)

LEMMA LaterIs ==
    ASSUME NEW s, NEW E, NEW S, IsList(s, E, S), NEW h \in S, NEW x
    PROVE  x \in Later(s, h) <=> \E i, j \in 1 .. Len(s) : i < j /\ s[i] = h /\ s[j] = x
<1>1. DOMAIN s = 1 .. Len(s)
  BY Indices
<1> QED BY <1>1, FoundAt DEF Later

LEMMA FirstFrom ==
    ASSUME NEW s, NEW S, IsList(s, Handlers, S)
    PROVE  /\ FirstOf(s) \in S \cup {NoHandler} /\ FirstOf(s) \in Handlers \cup {NoHandler}
           /\ FirstOf(s) = NoHandler <=> S = {}
           /\ S \subseteq From(s, FirstOf(s))
<1>1. s \in Seq(Handlers) /\ Len(s) \in Nat /\ NoHandler \notin Handlers /\ S \subseteq Handlers
  BY Indices, ObservableAssumption
<1>2. CASE s = << >>
  <2>1. S = {}
    BY <1>2, EmptyList DEF IsList
  <2> QED BY <1>2, <2>1 DEF FirstOf
<1>3. CASE s # << >>
  <2>1. 1 \in 1 .. Len(s) /\ Head(s) = s[1]
    BY <1>1, <1>3
  <2>2. FirstOf(s) = s[1] /\ s[1] \in S
    BY <1>3, <2>1, Indices DEF FirstOf
  <2>3. ASSUME NEW x \in S, x # s[1] PROVE x \in Later(s, s[1])
    <3>1. PICK j \in 1 .. Len(s) : s[j] = x
      BY Indices
    <3>2. 1 < j
      BY <1>1, <2>3, <3>1
    <3> QED BY <2>1, <2>2, <3>1, <3>2, LaterIs
  <2> QED BY <1>1, <2>2, <2>3 DEF From
<1> QED BY <1>2, <1>3

LEMMA NextFrom ==
    ASSUME NEW s, NEW S, IsList(s, Handlers, S), NEW h \in S
    PROVE  /\ After(s, h) \in (S \ {h}) \cup {NoHandler}
           /\ Later(s, h) \subseteq From(s, After(s, h))
<1> DEFINE p == Position(s, h)
<1>1. s \in Seq(Handlers) /\ Len(s) \in Nat /\ NoHandler \notin Handlers /\ S \subseteq Handlers
  BY Indices, ObservableAssumption
<1>2. p \in 1 .. Len(s) /\ s[p] = h /\ \A i \in 1 .. Len(s) : s[i] = h <=> i = p
  BY FoundAt
<1>3. After(s, h) = IF p < Len(s) THEN s[p + 1] ELSE NoHandler
  BY DEF After
<1> HIDE DEF p
<1>4. CASE p < Len(s)
  <2>1. p + 1 \in 1 .. Len(s) /\ p + 1 # p
    BY <1>1, <1>2, <1>4
  <2>2. After(s, h) = s[p + 1] /\ s[p + 1] \in S /\ s[p + 1] # h
    BY <1>2, <1>3, <1>4, <2>1, Indices
  <2>3. ASSUME NEW x \in Later(s, h), x # s[p + 1] PROVE x \in Later(s, s[p + 1])
    <3>1. PICK i \in 1 .. Len(s), j \in 1 .. Len(s) : i < j /\ s[i] = h /\ s[j] = x
      BY LaterIs
    <3>2. p + 1 < j
      BY <1>2, <2>1, <2>3, <3>1
    <3> QED BY <2>1, <2>2, <3>1, <3>2, LaterIs
  <2> QED BY <1>1, <2>2, <2>3 DEF From
<1>5. CASE ~(p < Len(s))
  <2>1. ASSUME NEW x \in Later(s, h) PROVE FALSE
    <3>1. PICK i \in 1 .. Len(s), j \in 1 .. Len(s) : i < j /\ s[i] = h /\ s[j] = x
      BY LaterIs
    <3> QED BY <1>2, <1>5, <3>1
  <2> QED BY <1>3, <1>5, <2>1
<1> QED BY <1>4, <1>5

(* Whatever a handler adds, those ahead of it stay so.                     *)
LEMMA AddedAhead ==
    ASSUME NEW s, NEW S, IsList(s, Handlers, S), NEW h \in S, NEW x \in Handlers, x \notin S
    PROVE  /\ Later(s, h) \subseteq Later(Append(s, x), h)
           /\ Later(s, h) \subseteq Later(<<x>> \o s, h)
<1>1. s \in Seq(Handlers) /\ Len(s) \in Nat
  BY Indices
<1>2. ASSUME NEW y \in Later(s, h) PROVE y \in Later(Append(s, x), h)
  <2>1. PICK i \in 1 .. Len(s), j \in 1 .. Len(s) : i < j /\ s[i] = h /\ s[j] = y
    BY <1>2, LaterIs
  <2> DEFINE r == Append(s, x)
  <2>2. IsList(r, Handlers, S \cup {x})
    BY AppendTo
  <2>3. Len(r) = Len(s) + 1 /\ r[i] = s[i] /\ r[j] = s[j]
    BY <1>1
  <2> HIDE DEF r
  <2>4. i \in 1 .. Len(r) /\ j \in 1 .. Len(r)
    BY <1>1, <2>3
  <2>5. y \in Later(r, h)
    BY <2>1, <2>2, <2>3, <2>4, LaterIs
  <2> QED BY <2>5 DEF r
<1>3. ASSUME NEW y \in Later(s, h) PROVE y \in Later(<<x>> \o s, h)
  <2>1. PICK i \in 1 .. Len(s), j \in 1 .. Len(s) : i < j /\ s[i] = h /\ s[j] = y
    BY <1>3, LaterIs
  <2> DEFINE r == <<x>> \o s
  <2>2. /\ IsList(r, Handlers, S \cup {x})
        /\ \A k \in 1 .. Len(s) : k + 1 \in DOMAIN r /\ r[k + 1] = s[k]
    BY PrependTo
  <2> HIDE DEF r
  <2>3. DOMAIN r = 1 .. Len(r)
    BY <2>2, Indices
  <2>4. i + 1 \in 1 .. Len(r) /\ j + 1 \in 1 .. Len(r) /\ i + 1 < j + 1
    BY <1>1, <2>1, <2>2, <2>3
  <2>5. r[i + 1] = h /\ r[j + 1] = y
    BY <2>1, <2>2
  <2>6. y \in Later(r, h)
    BY <2>2, <2>4, <2>5, LaterIs
  <2> QED BY <2>6 DEF r
<1> QED BY <1>2, <1>3

(* Nor does it matter which other handler is erased.                       *)
LEMMA ErasedAhead ==
    ASSUME NEW s, NEW S, IsList(s, Handlers, S), NEW h \in S, NEW y, y # h
    PROVE  Later(s, h) \ {y} \subseteq Later(Erase(s, y), h)
<1>1. Contains(s, y) <=> y \in S
  BY DEF Contains, ToSet, IsList
<1>2. CASE y \notin S
  BY <1>1, <1>2 DEF Erase
<1>3. CASE y \in S
  <2> DEFINE k == Position(s, y)
             r == RemoveAt(s, k)
             e(i) == IF i < k THEN i ELSE i - 1
  <2>1. k \in 1 .. Len(s) /\ s[k] = y /\ Len(s) \in Nat
    BY <1>3, FoundAt, Indices
  <2>2. Erase(s, y) = r
    BY <1>1, <1>3 DEF Erase
  <2> HIDE DEF k
  <2>3. /\ IsList(r, Handlers, S \ {y}) /\ DOMAIN r = 1 .. Len(s) - 1
        /\ \A i \in 1 .. Len(s) - 1 : r[i] = IF i < k THEN s[i] ELSE s[i + 1]
    BY <2>1, Removed
  <2> HIDE DEF r
  <2>4. DOMAIN r = 1 .. Len(r)
    BY <2>3, Indices
  <2>5. ASSUME NEW i \in 1 .. Len(s), i # k PROVE e(i) \in 1 .. Len(r) /\ r[e(i)] = s[i]
    <3>1. CASE i < k
      <4>1. i \in 1 .. Len(s) - 1 /\ e(i) = i
        BY <2>1, <3>1
      <4> HIDE DEF e
      <4> QED BY <2>3, <2>4, <3>1, <4>1
    <3>2. CASE i > k
      <4>1. i - 1 \in 1 .. Len(s) - 1 /\ e(i) = i - 1 /\ ~(i - 1 < k) /\ (i - 1) + 1 = i
        BY <2>1, <3>2
      <4> HIDE DEF e
      <4> QED BY <2>3, <2>4, <4>1
    <3> QED BY <2>1, <2>5, <3>1, <3>2
  <2>6. \A i, j \in 1 .. Len(s) : i # k /\ j # k /\ i < j => e(i) < e(j)
    BY <2>1
  <2> HIDE DEF e
  <2>7. ASSUME NEW x \in Later(s, h), x # y PROVE x \in Later(r, h)
    <3>1. PICK i \in 1 .. Len(s), j \in 1 .. Len(s) : i < j /\ s[i] = h /\ s[j] = x
      BY <2>7, LaterIs
    <3>2. i # k /\ j # k
      BY <2>1, <2>7, <3>1
    <3>3. e(i) \in 1 .. Len(r) /\ r[e(i)] = h
      BY <2>5, <3>1, <3>2
    <3>4. e(j) \in 1 .. Len(r) /\ r[e(j)] = x
      BY <2>5, <3>1, <3>2
    <3>5. e(i) < e(j)
      BY <2>6, <3>1, <3>2
    <3>6. \E m, o \in 1 .. Len(r) : m < o /\ r[m] = h /\ r[o] = x
      BY <3>3, <3>4, <3>5
    <3>7. IsList(r, Handlers, S \ {y}) /\ h \in S \ {y}
      BY <2>3
    <3> HIDE DEF e
    <3> QED BY <3>6, <3>7, LaterIs
  <2> QED BY <2>2, <2>7
<1> QED BY <1>2, <1>3

(* When the handler that returns is erased, the iterator is on the next.   *)
LEMMA ErasedHere ==
    ASSUME NEW s, NEW S, IsList(s, Handlers, S), NEW h \in S
    PROVE  Later(s, h) \subseteq From(Erase(s, h), After(s, h))
<1> DEFINE a == After(s, h)
<1>1. Later(s, h) \subseteq From(s, a) /\ a \in (S \ {h}) \cup {NoHandler} /\ NoHandler \notin S
  BY NextFrom, Indices, ObservableAssumption
<1> HIDE DEF a
<1>2. CASE a = NoHandler
  BY <1>1, <1>2 DEF From, a
<1>3. CASE a # NoHandler
  <2>1. a \in S /\ a # h
    BY <1>1, <1>3
  <2>2. Later(s, a) \ {h} \subseteq Later(Erase(s, h), a)
    BY <2>1, ErasedAhead
  <2>3. h \notin Later(s, h)
    <3> SUFFICES ASSUME h \in Later(s, h) PROVE FALSE
      OBVIOUS
    <3>1. PICK i \in 1 .. Len(s), j \in 1 .. Len(s) : i < j /\ s[i] = h /\ s[j] = h
      BY LaterIs
    <3>2. i = j
      BY <3>1, Indices
    <3> QED BY <3>1, <3>2
  <2> QED BY <1>1, <1>3, <2>2, <2>3 DEF From, a
<1> QED BY <1>2, <1>3

-----------------------------------------------------------------------------
(* What is written to an array.                                            *)

LEMMA CallKinds ==
    ASSUME NEW x \in Calls
    PROVE  /\ x.kind = "write" => x.on \in Channels /\ x.what \in Writes
           /\ x.kind = "notify" => x.on \in Channels
<1>1. CASE x = NoCall
  BY <1>1 DEF NoCall
<1>2. ASSUME NEW c \in Channels, x = Notify(c)
      PROVE  x.kind = "notify" /\ x.on \in Channels
  BY <1>2 DEF Notify
<1>3. ASSUME NEW c \in Channels, NEW w \in Writes, x = Write(c, w)
      PROVE  x.kind = "write" /\ x.on \in Channels /\ x.what \in Writes
  BY <1>3 DEF Write
<1> QED BY <1>1, <1>2, <1>3 DEF Calls

LEMMA WritesAre ==
    ASSUME NEW w \in Writes
    PROVE  /\ w.offset \in Nat /\ w.data \in Seq(Bytes) /\ Len(w.data) \in Nat
           /\ DOMAIN w.data = 1 .. Len(w.data) /\ \A i \in 1 .. Len(w.data) : w.data[i] \in Bytes
           /\ Needed(w) = w.offset + Len(w.data) /\ Needed(w) \in Nat
<1>1. w.offset \in Nat /\ w.data \in Seq(Bytes)
  BY ChannelAssumption
<1>2. Len(w.data) \in Nat /\ DOMAIN w.data = 1 .. Len(w.data)
      /\ \A i \in 1 .. Len(w.data) : w.data[i] \in Bytes
  BY <1>1
<1> QED BY <1>1, <1>2 DEF Needed

LEMMA GrownIs ==
    ASSUME NEW arr \in Seq(Bytes), NEW w \in Writes
    PROVE  /\ Grown(arr, w) \in Seq(Bytes) /\ Len(Grown(arr, w)) \in Nat
           /\ Len(Grown(arr, w)) = IF Needed(w) <= Len(arr) THEN Len(arr) ELSE Needed(w)
           /\ Needed(w) <= Len(arr) => Grown(arr, w) = arr
           /\ \A i \in DOMAIN Grown(arr, w) :
                 Grown(arr, w)[i] = IF i \in DOMAIN arr THEN arr[i] ELSE 0
<1> DEFINE n == Needed(w)
           m == Max({n, Len(arr)})
           g == [i \in 1 .. m |-> IF i \in DOMAIN arr THEN arr[i] ELSE 0]
<1>1. n \in Nat /\ Len(arr) \in Nat /\ DOMAIN arr = 1 .. Len(arr) /\ 0 \in Bytes
      /\ \A i \in 1 .. Len(arr) : arr[i] \in Bytes
  BY WritesAre, ChannelAssumption
<1>2. Grown(arr, w) = g
  BY DEF Grown
<1> HIDE DEF n
<1>3. m = IF n <= Len(arr) THEN Len(arr) ELSE n
  <2>1. \E x \in {n, Len(arr)} : \A y \in {n, Len(arr)} : x >= y
    BY <1>1
  <2>2. m \in {n, Len(arr)} /\ \A y \in {n, Len(arr)} : m >= y
    BY <2>1 DEF Max
  <2> QED BY <1>1, <2>2
<1> HIDE DEF m
<1>4. g \in [1 .. m -> Bytes] /\ m \in Nat
  BY <1>1, <1>3
<1>5. g \in Seq(Bytes) /\ Len(g) = m
  BY <1>4
<1>6. ASSUME n <= Len(arr) PROVE g = arr
  <2>1. m = Len(arr) /\ arr \in [1 .. Len(arr) -> Bytes]
    BY <1>1, <1>3, <1>6
  <2> QED BY <1>1, <2>1
<1>7. \A i \in DOMAIN g : g[i] = IF i \in DOMAIN arr THEN arr[i] ELSE 0
  OBVIOUS
<1> HIDE DEF g
<1> QED BY <1>1, <1>2, <1>3, <1>4, <1>5, <1>6, <1>7 DEF n

LEMMA WrittenIs ==
    ASSUME NEW arr \in Seq(Bytes), NEW w \in Writes
    PROVE  /\ Written(arr, w) \in Seq(Bytes) /\ Len(Written(arr, w)) = Len(arr)
           /\ \A i \in DOMAIN w.data : w.offset + i \in DOMAIN arr
                                       => Written(arr, w)[w.offset + i] = w.data[i]
<1> DEFINE n == Needed(w)
           d == w.data
           x == [i \in DOMAIN arr |-> IF i \in w.offset + 1 .. n THEN d[i - w.offset] ELSE arr[i]]
<1>1. /\ w.offset \in Nat /\ d \in Seq(Bytes) /\ Len(d) \in Nat /\ n = w.offset + Len(d)
      /\ \A i \in 1 .. Len(d) : d[i] \in Bytes
  BY WritesAre
<1>2. Len(arr) \in Nat /\ DOMAIN arr = 1 .. Len(arr) /\ \A i \in 1 .. Len(arr) : arr[i] \in Bytes
  OBVIOUS
<1>3. Written(arr, w) = x
  BY DEF Written
<1> HIDE DEF n, d
<1>4. ASSUME NEW i \in 1 .. Len(arr), i \in w.offset + 1 .. n PROVE d[i - w.offset] \in Bytes
  <2>1. i - w.offset \in 1 .. Len(d)
    BY <1>1, <1>2, <1>4
  <2> QED BY <1>1, <2>1
<1>5. x \in [1 .. Len(arr) -> Bytes]
  BY <1>2, <1>4
<1>6. x \in Seq(Bytes) /\ Len(x) = Len(arr)
  BY <1>2, <1>5
<1>7. ASSUME NEW i \in DOMAIN d, w.offset + i \in DOMAIN arr PROVE x[w.offset + i] = d[i]
  <2>1. i \in 1 .. Len(d)
    BY <1>1
  <2>2. w.offset + i \in w.offset + 1 .. n /\ (w.offset + i) - w.offset = i
    BY <1>1, <2>1
  <2> QED BY <1>7, <2>2
<1> HIDE DEF x
<1> QED BY <1>3, <1>6, <1>7 DEF n, d

-----------------------------------------------------------------------------
(* What keeps the parts of the invariant.                                  *)

LEMMA Elsewhere ==
    ASSUME NEW c \in Channels, Observed(c), Ahead(c),
           observers'[c] = observers[c], current'[c] = current[c],
           removeCurrent'[c] = removeCurrent[c], iter'[c] = iter[c],
           subscribed'[c] = subscribed[c], due'[c] = due[c], seen'[c] = seen[c],
           stage'[c] = stage[c] \/ (~InRound(c) /\ ~InRound(c)')
    PROVE  Observed(c)' /\ Ahead(c)'
BY DEF Observed, Ahead, InRound

LEMMA ListsKept ==
    ASSUME \A c \in Channels : Observed(c) /\ Ahead(c),
           UNCHANGED <<observableVars, subscribed, due, seen>>,
           \A c \in Channels : stage'[c] = stage[c] \/ (~InRound(c) /\ ~InRound(c)')
    PROVE  \A c \in Channels : Observed(c)' /\ Ahead(c)'
<1> TAKE c \in Channels
<1> QED BY Elsewhere DEF observableVars

LEMMA LocksKept ==
    ASSUME Stacked, Locked, UNCHANGED <<notifier, stack>>,
           \A c \in Channels : stage'[c] = "free" <=> stage[c] = "free"
    PROVE  Stacked' /\ Locked'
BY DEF Stacked, Locked, HeldBy

LEMMA ShownKept ==
    ASSUME AllShown, UNCHANGED <<sent, notifier, array, timestamp>>,
           \A c \in Channels : stage[c] \in {"stored", "next", "handle"}
                               => stage'[c] \in {"stored", "next", "handle"}
    PROVE  AllShown'
BY DEF AllShown, Shown

(* A thread that writes or notifies a channel holds its lock.              *)
LEMMA TopHeld ==
    ASSUME Stacked, NEW t \in Threads, stack[t] # << >>
    PROVE  /\ Top(t) \in Channels /\ notifier[Top(t)] = t
           /\ IsList(Front(stack[t]), Channels, HeldBy(t) \ {Top(t)})
<1>1. IsList(stack[t], Channels, HeldBy(t))
  BY DEF Stacked
<1>2. /\ Last(stack[t]) \in HeldBy(t)
      /\ IsList(Front(stack[t]), Channels, HeldBy(t) \ {Last(stack[t])})
  BY <1>1, LastFront
<1>3. Last(stack[t]) \in Channels /\ notifier[Last(stack[t])] = t
  BY <1>2 DEF HeldBy
<1> QED BY <1>2, <1>3 DEF Top

LEMMA Taken ==
    ASSUME TypeOK, Stacked, Locked, NEW t \in Threads, NEW c \in Channels, stage[c] = "free",
           notifier' = [notifier EXCEPT ![c] = t],
           stack' = [stack EXCEPT ![t] = Append(@, c)],
           NEW x \in {"locked", "stored"}, stage' = [stage EXCEPT ![c] = x]
    PROVE  /\ Stacked' /\ Locked'
           /\ stage' \in [Channels -> {"free", "locked", "stored", "next", "handle"}]
           /\ notifier' \in [Channels -> Threads \cup {NoThread}]
           /\ stack' \in [Threads -> Seq(Channels)]
<1>1. notifier[c] = NoThread /\ NoThread \notin Threads
  BY ChannelAssumption DEF Locked
<1>2. notifier \in [Channels -> Threads \cup {NoThread}] /\ stack \in [Threads -> Seq(Channels)]
      /\ stage \in [Channels -> {"free", "locked", "stored", "next", "handle"}]
  BY DEF TypeOK
<1>3. HeldBy(t)' = HeldBy(t) \cup {c} /\ c \notin HeldBy(t)
  BY <1>1, <1>2 DEF HeldBy
<1>4. \A u \in Threads \ {t} : HeldBy(u)' = HeldBy(u)
  BY <1>1, <1>2 DEF HeldBy
<1>5. ASSUME NEW u \in Threads PROVE IsList(stack'[u], Channels, HeldBy(u)')
  <2>1. CASE u = t
    <3>1. IsList(stack[t], Channels, HeldBy(t))
      BY DEF Stacked
    <3>2. IsList(Append(stack[t], c), Channels, HeldBy(t) \cup {c})
      BY <1>3, <3>1, AppendTo
    <3> QED BY <1>2, <1>3, <2>1, <3>2
  <2>2. CASE u # t
    BY <1>2, <1>4, <2>2 DEF Stacked
  <2> QED BY <2>1, <2>2
<1>6. Stacked'
  BY <1>5 DEF Stacked
<1>7. Locked'
  BY <1>1, <1>2 DEF Locked
<1>8. stack' \in [Threads -> Seq(Channels)]
  BY <1>2
<1> QED BY <1>2, <1>6, <1>7, <1>8

LEMMA Released ==
    ASSUME TypeOK, Stacked, Locked, NEW t \in Threads, stack[t] # << >>, Releases(t)
    PROVE  /\ Stacked' /\ Locked'
           /\ stage' \in [Channels -> {"free", "locked", "stored", "next", "handle"}]
           /\ notifier' \in [Channels -> Threads \cup {NoThread}]
           /\ stack' \in [Threads -> Seq(Channels)] /\ writing' \in [Channels -> Calls]
           /\ stage'[Top(t)] = "free" /\ \A c \in Channels \ {Top(t)} : stage'[c] = stage[c]
           /\ \A c \in Channels \ {Top(t)} : notifier'[c] = notifier[c] /\ writing'[c] = writing[c]
<1> DEFINE c == Top(t)
<1>1. c \in Channels /\ notifier[c] = t /\ NoThread \notin Threads
      /\ IsList(Front(stack[t]), Channels, HeldBy(t) \ {c})
  BY TopHeld, ChannelAssumption
<1>2. /\ stage' = [stage EXCEPT ![c] = "free"]
      /\ notifier' = [notifier EXCEPT ![c] = NoThread]
      /\ writing' = [writing EXCEPT ![c] = NoCall]
      /\ stack' = [stack EXCEPT ![t] = Front(stack[t])]
  BY DEF Releases
<1>3. notifier \in [Channels -> Threads \cup {NoThread}] /\ stack \in [Threads -> Seq(Channels)]
      /\ stage \in [Channels -> {"free", "locked", "stored", "next", "handle"}]
      /\ writing \in [Channels -> Calls] /\ NoCall \in Calls
  <2>1. NoCall \in Calls
    BY DEF Calls
  <2> QED BY <2>1 DEF TypeOK
<1> HIDE DEF c
<1>4. HeldBy(t)' = HeldBy(t) \ {c}
  BY <1>1, <1>2, <1>3 DEF HeldBy
<1>5. \A u \in Threads \ {t} : HeldBy(u)' = HeldBy(u)
  BY <1>1, <1>2, <1>3 DEF HeldBy
<1>6. ASSUME NEW u \in Threads PROVE IsList(stack'[u], Channels, HeldBy(u)')
  <2>1. CASE u = t
    BY <1>1, <1>2, <1>3, <1>4, <2>1
  <2>2. CASE u # t
    BY <1>2, <1>3, <1>5, <2>2 DEF Stacked
  <2> QED BY <2>1, <2>2
<1>7. Stacked'
  BY <1>6 DEF Stacked
<1>8. Locked'
  BY <1>1, <1>2, <1>3 DEF Locked
<1>9. stack' \in [Threads -> Seq(Channels)]
  BY <1>1, <1>2, <1>3 DEF IsList
<1> QED BY <1>1, <1>2, <1>3, <1>7, <1>8, <1>9 DEF c

-----------------------------------------------------------------------------
(* The invariant holds at first, and every action keeps it.                *)

LEMMA Starts == Init => ChannelInv
<1> SUFFICES ASSUME Init PROVE ChannelInv
  OBVIOUS
<1> USE DEF Init, ObservableInit
<1>1. /\ FirstArray \in Seq(Bytes) /\ Len(FirstArray) <= Capacity /\ MaxWrites \in Nat
      /\ FirstObservers \in [Channels -> Seq(Handlers)] /\ NoThread \notin Threads
      /\ \A c \in Channels : IsInjective(FirstObservers[c])
  BY ChannelAssumption
<1>2. \A c \in Channels : ToSet(FirstObservers[c]) \subseteq Handlers
  BY <1>1 DEF ToSet
<1>3. << >> \in Seq(Channels) /\ NoCall \in Calls /\ 0 \in 0 .. MaxWrites
  BY <1>1 DEF Calls
<1>4. TypeOK
  <2>1. /\ observers \in [Channels -> Seq(Handlers)]
        /\ current \in [Channels -> Handlers \cup {NoHandler}]
        /\ removeCurrent \in [Channels -> BOOLEAN]
        /\ iter \in [Channels -> Handlers \cup {NoHandler}]
    BY <1>1 DEF Channels
  <2>2. array \in [Channels -> Seq(Bytes)] /\ \A c \in Channels : Len(array[c]) <= Capacity
    BY <1>1
  <2>3. /\ timestamp \in [Channels -> 0 .. MaxWrites] /\ clock \in 0 .. MaxWrites
        /\ stage \in [Channels -> {"free", "locked", "stored", "next", "handle"}]
        /\ notifier \in [Channels -> Threads \cup {NoThread}]
        /\ writing \in [Channels -> Calls] /\ call \in [Threads -> Calls]
        /\ stack \in [Threads -> Seq(Channels)]
    BY <1>3
  <2>4. acted \in [Channels -> BOOLEAN]
    OBVIOUS
  <2>5. /\ subscribed \in [Channels -> SUBSET Handlers]
        /\ due \in [Channels -> SUBSET Handlers] /\ seen \in [Channels -> SUBSET Handlers]
    BY <1>2
  <2> QED BY <2>1, <2>2, <2>3, <2>4, <2>5 DEF TypeOK
<1>5. Sent /\ AllShown
  BY DEF Sent, AllShown, Shown, Values
<1>6. Stacked /\ Locked
  <2>1. \A t \in Threads : HeldBy(t) = {} /\ stack[t] = << >>
    BY <1>1 DEF HeldBy
  <2> QED BY <2>1, EmptyList DEF Stacked, Locked
<1>7. Known /\ Grows
  <2>1. Len(FirstArray) \in Nat
    BY <1>1
  <2> QED BY <2>1 DEF Known, Grows
<1>8. ASSUME NEW c \in Channels PROVE Observed(c) /\ Ahead(c)
  <2>1. /\ observers[c] = FirstObservers[c] /\ subscribed[c] = ToSet(FirstObservers[c])
        /\ ~removeCurrent[c] /\ current[c] = NoHandler /\ stage[c] = "free" /\ due[c] = {}
    BY DEF Channels
  <2>2. IsList(observers[c], Handlers, subscribed[c])
    BY <1>1, <2>1 DEF IsList
  <2> QED BY <2>1, <2>2 DEF Observed, Ahead, InRound
<1> QED BY <1>4, <1>5, <1>6, <1>7, <1>8 DEF ChannelInv

LEMMA QuietKeeps ==
    ASSUME ChannelInv, UNCHANGED <<observableVars, channelVars, stack, ghostVars>>,
           call' \in [Threads -> Calls], acted' \in [Channels -> BOOLEAN]
    PROVE  ChannelInv'
<1> USE DEF channelVars, ghostVars
<1>1. /\ TypeOK /\ Sent /\ Stacked /\ Locked /\ Known /\ AllShown /\ Grows
      /\ \A d \in Channels : Observed(d) /\ Ahead(d)
  BY DEF ChannelInv
<1>2. TypeOK'
  BY <1>1 DEF TypeOK, observableVars
<1>3. \A c \in Channels : Observed(c)' /\ Ahead(c)'
  BY <1>1, ListsKept
<1>4. Stacked' /\ Locked' /\ AllShown'
  BY <1>1, LocksKept, ShownKept
<1>5. Sent' /\ Known' /\ Grows'
  BY <1>1 DEF Sent, Known, Grows
<1> QED BY <1>2, <1>3, <1>4, <1>5 DEF ChannelInv

LEMMA Acted ==
    ASSUME TypeOK, NEW t, Acts(t)
    PROVE  acted' \in [Channels -> BOOLEAN]
<1>1. \A c \in Channels : (acted[c] \/ (InHandler(t) /\ c = Last(stack[t]))) \in BOOLEAN
  BY Zenon
<1> QED BY <1>1, Zenon DEF Acts

LEMMA CallsKeep ==
    ASSUME ChannelInv, NEW t \in Threads, CallWrite(t) \/ CallNotify(t) \/ GiveUp(t)
    PROVE  ChannelInv'
<1>1. TypeOK /\ call \in [Threads -> Calls]
  BY DEF ChannelInv, TypeOK
<1>2. ASSUME NEW x \in Calls, Enters(t, x) PROVE ChannelInv'
  <2>1. acted' \in [Channels -> BOOLEAN]
    BY <1>1, <1>2, Acted DEF Enters
  <2>2. call' \in [Threads -> Calls]
    BY <1>1, <1>2 DEF Enters
  <2>3. UNCHANGED <<observableVars, channelVars, stack, ghostVars>>
    BY <1>2 DEF Enters
  <2> QED BY <2>1, <2>2, <2>3, QuietKeeps
<1>3. CASE CallWrite(t)
  BY <1>2, <1>3 DEF CallWrite, Wired, Calls
<1>4. CASE CallNotify(t)
  BY <1>2, <1>4 DEF CallNotify, Wired, Calls
<1>5. CASE GiveUp(t)
  <2>1. NoCall \in Calls
    BY DEF Calls
  <2>2. call' \in [Threads -> Calls]
    BY <1>1, <1>5, <2>1 DEF GiveUp
  <2>3. UNCHANGED <<observableVars, channelVars, stack, ghostVars>> /\ acted' = acted
    BY <1>5 DEF GiveUp
  <2>4. acted' \in [Channels -> BOOLEAN]
    BY <1>1, <2>3 DEF TypeOK
  <2> QED BY <2>2, <2>3, <2>4, QuietKeeps
<1> QED BY <1>3, <1>4, <1>5

LEMMA TryLockKeeps ==
    ASSUME ChannelInv, NEW t \in Threads, TryLock(t)
    PROVE  ChannelInv'
<1> DEFINE c == call[t].on
<1>1. /\ TypeOK /\ Sent /\ Stacked /\ Locked /\ Known /\ AllShown /\ Grows
      /\ \A d \in Channels : Observed(d) /\ Ahead(d)
  BY DEF ChannelInv
<1>2. call[t] \in Calls /\ call[t].kind = "write" /\ c \in Channels /\ NoCall \in Calls
  <2>1. NoCall \in Calls
    BY DEF Calls
  <2> QED BY <1>1, <2>1, CallKinds DEF TryLock, TypeOK
<1>3. /\ stage[c] = "free" /\ stage' = [stage EXCEPT ![c] = "locked"]
      /\ notifier' = [notifier EXCEPT ![c] = t] /\ writing' = [writing EXCEPT ![c] = call[t]]
      /\ stack' = [stack EXCEPT ![t] = Append(@, c)] /\ call' = [call EXCEPT ![t] = NoCall]
      /\ UNCHANGED <<observableVars, array, timestamp, clock, acted, ghostVars>>
  BY DEF TryLock, Held
<1> HIDE DEF c
<1>4. /\ Stacked' /\ Locked' /\ stack' \in [Threads -> Seq(Channels)]
      /\ stage' \in [Channels -> {"free", "locked", "stored", "next", "handle"}]
      /\ notifier' \in [Channels -> Threads \cup {NoThread}]
  BY <1>1, <1>2, <1>3, Taken
<1>5. TypeOK'
  <2>1. writing' \in [Channels -> Calls] /\ call' \in [Threads -> Calls]
    BY <1>1, <1>2, <1>3 DEF TypeOK
  <2> QED BY <1>1, <1>3, <1>4, <2>1 DEF TypeOK, observableVars, ghostVars
<1>6. stage \in [Channels -> {"free", "locked", "stored", "next", "handle"}]
  BY <1>1 DEF TypeOK
<1>7. \A d \in Channels : stage'[d] = stage[d] \/ (~InRound(d) /\ ~InRound(d)')
  BY <1>2, <1>3, <1>6 DEF InRound
<1>8. \A d \in Channels : Observed(d)' /\ Ahead(d)'
  BY <1>1, <1>3, <1>7, ListsKept DEF ghostVars
<1>9. AllShown' /\ Sent'
  <2> SUFFICES ASSUME NEW u \in Threads, NEW d \in Channels PROVE Shown(u, d)'
    BY <1>1, <1>3 DEF AllShown, Sent, ghostVars
  <2>1. Shown(u, d) /\ sent' = sent /\ array' = array /\ timestamp' = timestamp
    BY <1>1, <1>3 DEF AllShown, ghostVars
  <2>2. CASE d = c
    BY <1>3, <2>1, <2>2 DEF Shown
  <2>3. CASE d # c
    <3>1. stage'[d] = stage[d] /\ notifier'[d] = notifier[d]
      BY <1>1, <1>3, <2>3 DEF TypeOK
    <3> QED BY <2>1, <3>1 DEF Shown
  <2> QED BY <2>2, <2>3
<1>10. Known' /\ Grows'
  BY <1>1, <1>2, <1>3 DEF Known, Grows, TypeOK
<1> QED BY <1>4, <1>5, <1>8, <1>9, <1>10 DEF ChannelInv

LEMMA LockToNotifyKeeps ==
    ASSUME ChannelInv, NEW t \in Threads, LockToNotify(t)
    PROVE  ChannelInv'
<1> DEFINE c == call[t].on
<1>1. /\ TypeOK /\ Sent /\ Stacked /\ Locked /\ Known /\ AllShown /\ Grows
      /\ \A d \in Channels : Observed(d) /\ Ahead(d)
  BY DEF ChannelInv
<1>2. call[t] \in Calls /\ c \in Channels /\ NoCall \in Calls
  <2>1. NoCall \in Calls
    BY DEF Calls
  <2> QED BY <1>1, <2>1, CallKinds DEF LockToNotify, TypeOK
<1>3. /\ stage[c] = "free" /\ stage' = [stage EXCEPT ![c] = "stored"]
      /\ notifier' = [notifier EXCEPT ![c] = t]
      /\ stack' = [stack EXCEPT ![t] = Append(@, c)] /\ call' = [call EXCEPT ![t] = NoCall]
      /\ sent' = [sent EXCEPT ![t][c] = <<array[c], timestamp[c]>>]
      /\ UNCHANGED <<observableVars, array, timestamp, clock, writing, acted, subscribed, due, seen>>
  BY DEF LockToNotify, Held
<1> HIDE DEF c
<1>4. /\ Stacked' /\ Locked' /\ stack' \in [Threads -> Seq(Channels)]
      /\ stage' \in [Channels -> {"free", "locked", "stored", "next", "handle"}]
      /\ notifier' \in [Channels -> Threads \cup {NoThread}]
  BY <1>1, <1>2, <1>3, Taken
<1>5. TypeOK'
  <2>1. call' \in [Threads -> Calls]
    BY <1>1, <1>2, <1>3 DEF TypeOK
  <2> QED BY <1>1, <1>3, <1>4, <2>1 DEF TypeOK, observableVars
<1>6. stage \in [Channels -> {"free", "locked", "stored", "next", "handle"}]
  BY <1>1 DEF TypeOK
<1>7. \A d \in Channels : stage'[d] = stage[d] \/ (~InRound(d) /\ ~InRound(d)')
  BY <1>2, <1>3, <1>6 DEF InRound
<1>8. \A d \in Channels : Observed(d)' /\ Ahead(d)'
  BY <1>1, <1>3, <1>7, ListsKept
<1>9. array[c] \in Seq(Bytes) /\ timestamp[c] \in Nat
  BY <1>1, <1>2 DEF TypeOK
<1>10. Sent' /\ \A u \in Threads, d \in Channels :
                  sent'[u][d] = IF u = t /\ d = c THEN <<array[c], timestamp[c]>> ELSE sent[u][d]
  <2>1. <<array[c], timestamp[c]>> \in Values
    BY <1>9 DEF Values
  <2> QED BY <1>1, <1>2, <1>3, <2>1 DEF Sent
<1>11. AllShown'
  <2> SUFFICES ASSUME NEW u \in Threads, NEW d \in Channels PROVE Shown(u, d)'
    BY DEF AllShown
  <2>1. Shown(u, d) /\ array' = array /\ timestamp' = timestamp
    BY <1>1, <1>3 DEF AllShown
  <2>2. CASE d = c
    <3>1. stage'[c] = "stored" /\ notifier'[c] = t
      BY <1>1, <1>2, <1>3 DEF TypeOK
    <3> QED BY <1>3, <1>10, <2>1, <2>2, <3>1 DEF Shown
  <2>3. CASE d # c
    <3>1. stage'[d] = stage[d] /\ notifier'[d] = notifier[d]
      BY <1>1, <1>3, <2>3 DEF TypeOK
    <3> QED BY <1>10, <2>1, <2>3, <3>1 DEF Shown
  <2> QED BY <2>2, <2>3
<1>12. Known' /\ Grows'
  BY <1>1, <1>2, <1>3 DEF Known, Grows, TypeOK
<1> QED BY <1>4, <1>5, <1>8, <1>10, <1>11, <1>12 DEF ChannelInv

(* The steps that end a write before its store is notified.                *)
LEMMA SilentKeeps ==
    ASSUME ChannelInv, NEW t \in Threads, At(t, "locked"), Releases(t),
           UNCHANGED <<observableVars, timestamp, clock, call, acted, ghostVars>>,
           array' \in [Channels -> Seq(Bytes)],
           \A d \in Channels : Len(array'[d]) <= Capacity /\ Len(array'[d]) >= Len(FirstArray),
           \A d \in Channels \ {Top(t)} : array'[d] = array[d]
    PROVE  ChannelInv'
<1> DEFINE c == Top(t)
<1>1. /\ TypeOK /\ Sent /\ Stacked /\ Locked /\ Known /\ AllShown /\ Grows
      /\ \A d \in Channels : Observed(d) /\ Ahead(d)
  BY DEF ChannelInv
<1>2. stack[t] # << >> /\ stage[c] = "locked" /\ c \in Channels
  BY <1>1, TopHeld DEF At
<1>3. /\ Stacked' /\ Locked'
      /\ stage' \in [Channels -> {"free", "locked", "stored", "next", "handle"}]
      /\ notifier' \in [Channels -> Threads \cup {NoThread}]
      /\ stack' \in [Threads -> Seq(Channels)] /\ writing' \in [Channels -> Calls]
      /\ stage'[c] = "free" /\ \A d \in Channels \ {c} : stage'[d] = stage[d]
      /\ \A d \in Channels \ {c} : notifier'[d] = notifier[d] /\ writing'[d] = writing[d]
  BY <1>1, <1>2, Released
<1> HIDE DEF c
<1>4. TypeOK'
  BY <1>1, <1>3 DEF TypeOK, observableVars, ghostVars
<1>5. \A d \in Channels : stage'[d] = stage[d] \/ (~InRound(d) /\ ~InRound(d)')
  BY <1>2, <1>3 DEF InRound
<1>6. \A d \in Channels : Observed(d)' /\ Ahead(d)'
  BY <1>1, <1>5, ListsKept DEF ghostVars
<1>7. AllShown'
  <2> SUFFICES ASSUME NEW u \in Threads, NEW d \in Channels PROVE Shown(u, d)'
    BY DEF AllShown
  <2>1. Shown(u, d) /\ sent' = sent /\ timestamp' = timestamp
    BY <1>1 DEF AllShown, ghostVars
  <2>2. CASE d = c
    BY <1>2, <2>1, <2>2 DEF Shown
  <2>3. CASE d # c
    <3>1. stage'[d] = stage[d] /\ notifier'[d] = notifier[d] /\ array'[d] = array[d]
      BY <1>3, <2>3 DEF c
    <3> QED BY <2>1, <3>1 DEF Shown
  <2> QED BY <2>2, <2>3
<1>8. Sent' /\ Known' /\ Grows'
  BY <1>1, <1>3 DEF Sent, Known, Grows, ghostVars
<1> QED BY <1>3, <1>4, <1>6, <1>7, <1>8 DEF ChannelInv

LEMMA StoreNothingKeeps ==
    ASSUME ChannelInv, NEW t \in Threads, StoreNothing(t) \/ StoreBound(t)
    PROVE  ChannelInv'
<1> DEFINE c == Top(t)
           w == writing[c].what
           g == Grown(array[c], w)
<1>1. /\ TypeOK /\ Sent /\ Stacked /\ Locked /\ Known /\ AllShown /\ Grows
      /\ \A d \in Channels : Observed(d) /\ Ahead(d)
  BY DEF ChannelInv
<1>2. At(t, "locked") /\ stack[t] # << >> /\ stage[c] = "locked" /\ c \in Channels
  BY <1>1, TopHeld DEF At, StoreNothing, StoreBound
<1>3. w \in Writes
  BY <1>1, <1>2, CallKinds DEF Known, TypeOK
<1>4. /\ array \in [Channels -> Seq(Bytes)] /\ Len(FirstArray) \in Nat
      /\ \A d \in Channels : Len(array[d]) <= Capacity /\ Len(array[d]) >= Len(FirstArray)
      /\ Capacity \in Nat
  <2>1. FirstArray \in Seq(Bytes) /\ Capacity \in Nat
    BY ChannelAssumption
  <2> QED BY <1>1, <2>1 DEF TypeOK, Grows
<1>5. /\ g \in Seq(Bytes) /\ Len(g) \in Nat /\ Len(array[c]) \in Nat
      /\ Len(g) = IF Needed(w) <= Len(array[c]) THEN Len(array[c]) ELSE Needed(w)
      /\ Needed(w) \in Nat
  BY <1>2, <1>3, <1>4, GrownIs, WritesAre
<1>6. /\ Releases(t)
      /\ UNCHANGED <<observableVars, timestamp, clock, call, acted, ghostVars>>
      /\ array' = array \/ (Fits(array[c], w) /\ array' = [array EXCEPT ![c] = g])
  BY DEF StoreNothing, StoreBound
<1> HIDE DEF c, w, g
<1>7. CASE array' = array
  BY <1>2, <1>4, <1>6, <1>7, SilentKeeps
<1>8. CASE Fits(array[c], w) /\ array' = [array EXCEPT ![c] = g]
  <2>1. Len(g) <= Capacity /\ Len(g) >= Len(FirstArray)
    BY <1>2, <1>4, <1>5, <1>8 DEF Fits
  <2>2. array' \in [Channels -> Seq(Bytes)] /\ array'[c] = g
        /\ \A d \in Channels \ {c} : array'[d] = array[d]
    BY <1>2, <1>4, <1>5, <1>8
  <2>3. \A d \in Channels : Len(array'[d]) <= Capacity /\ Len(array'[d]) >= Len(FirstArray)
    BY <1>4, <2>1, <2>2
  <2> QED BY <1>2, <1>6, <2>2, <2>3, SilentKeeps DEF c
<1> QED BY <1>6, <1>7, <1>8

LEMMA StoreKeeps ==
    ASSUME ChannelInv, NEW t \in Threads, Store(t)
    PROVE  ChannelInv'
<1> DEFINE c == Top(t)
           w == writing[c].what
           g == Grown(array[c], w)
           n == Written(g, w)
<1>1. /\ TypeOK /\ Sent /\ Stacked /\ Locked /\ Known /\ AllShown /\ Grows
      /\ \A d \in Channels : Observed(d) /\ Ahead(d)
  BY DEF ChannelInv
<1>2. stack[t] # << >> /\ stage[c] = "locked" /\ c \in Channels /\ notifier[c] = t
  BY <1>1, TopHeld DEF At, Store
<1>3. w \in Writes
  BY <1>1, <1>2, CallKinds DEF Known, TypeOK
<1>4. /\ array \in [Channels -> Seq(Bytes)] /\ Len(FirstArray) \in Nat
      /\ \A d \in Channels : Len(array[d]) <= Capacity /\ Len(array[d]) >= Len(FirstArray)
      /\ Capacity \in Nat /\ MaxWrites \in Nat
  <2>1. FirstArray \in Seq(Bytes) /\ Capacity \in Nat /\ MaxWrites \in Nat
    BY ChannelAssumption
  <2> QED BY <1>1, <2>1 DEF TypeOK, Grows
<1>5. /\ n \in Seq(Bytes) /\ Len(n) \in Nat /\ Len(array[c]) \in Nat
      /\ Len(n) = IF Needed(w) <= Len(array[c]) THEN Len(array[c]) ELSE Needed(w)
      /\ Needed(w) \in Nat
  <2>1. array[c] \in Seq(Bytes) /\ Len(array[c]) \in Nat /\ Needed(w) \in Nat
    BY <1>2, <1>3, <1>4, WritesAre
  <2> HIDE DEF w
  <2>2. /\ g \in Seq(Bytes) /\ Len(g) \in Nat
        /\ Len(g) = IF Needed(w) <= Len(array[c]) THEN Len(array[c]) ELSE Needed(w)
    BY <1>3, <2>1, GrownIs
  <2> HIDE DEF g
  <2>3. n \in Seq(Bytes) /\ Len(n) = Len(g)
    BY <1>3, <2>2, WrittenIs
  <2> HIDE DEF n
  <2> QED BY <2>1, <2>2, <2>3
<1>6. /\ Fits(array[c], w) /\ array' = [array EXCEPT ![c] = n]
      /\ clock < MaxWrites /\ clock' = clock + 1
      /\ timestamp' = [timestamp EXCEPT ![c] = clock + 1]
      /\ stage' = [stage EXCEPT ![c] = "stored"]
      /\ sent' = [sent EXCEPT ![t][c] = <<array'[c], timestamp'[c]>>]
      /\ UNCHANGED <<observableVars, notifier, writing, threadVars, subscribed, due, seen>>
  BY DEF Store
<1> HIDE DEF c, w, g, n
<1>7. Len(n) <= Capacity /\ Len(n) >= Len(FirstArray)
  BY <1>2, <1>4, <1>5, <1>6 DEF Fits
<1>8. array' \in [Channels -> Seq(Bytes)] /\ array'[c] = n
      /\ \A d \in Channels \ {c} : array'[d] = array[d]
  BY <1>2, <1>4, <1>5, <1>6
<1>9. \A d \in Channels : Len(array'[d]) <= Capacity /\ Len(array'[d]) >= Len(FirstArray)
  BY <1>4, <1>7, <1>8
<1>10. clock \in Nat /\ clock + 1 \in 0 .. MaxWrites
  BY <1>1, <1>4, <1>6 DEF TypeOK
<1>11. /\ timestamp' \in [Channels -> 0 .. MaxWrites] /\ timestamp'[c] = clock + 1
       /\ \A d \in Channels \ {c} : timestamp'[d] = timestamp[d] /\ stage'[d] = stage[d]
       /\ stage'[c] = "stored"
       /\ stage' \in [Channels -> {"free", "locked", "stored", "next", "handle"}]
  BY <1>1, <1>2, <1>6, <1>10 DEF TypeOK
<1>12. TypeOK'
  BY <1>1, <1>6, <1>8, <1>9, <1>10, <1>11 DEF TypeOK, observableVars, threadVars
<1>13. stage \in [Channels -> {"free", "locked", "stored", "next", "handle"}]
  BY <1>1 DEF TypeOK
<1>14. \A d \in Channels : Observed(d)' /\ Ahead(d)'
  <2>1. \A d \in Channels : stage'[d] = stage[d] \/ (~InRound(d) /\ ~InRound(d)')
    BY <1>2, <1>11 DEF InRound
  <2> QED BY <1>1, <1>6, <2>1, ListsKept
<1>15. Stacked' /\ Locked'
  <2>1. \A d \in Channels : stage'[d] = "free" <=> stage[d] = "free"
    BY <1>2, <1>11
  <2> QED BY <1>1, <1>6, <2>1, LocksKept DEF threadVars
<1>16. Sent' /\ \A u \in Threads, d \in Channels :
                  sent'[u][d] = IF u = t /\ d = c THEN <<array'[c], timestamp'[c]>> ELSE sent[u][d]
  <2>1. <<array'[c], timestamp'[c]>> \in Values
    <3>1. array'[c] \in Seq(Bytes) /\ timestamp'[c] \in Nat
      BY <1>5, <1>8, <1>10, <1>11
    <3> QED BY <3>1 DEF Values
  <2> QED BY <1>1, <1>2, <1>6, <2>1 DEF Sent
<1>17. AllShown'
  <2> SUFFICES ASSUME NEW u \in Threads, NEW d \in Channels PROVE Shown(u, d)'
    BY DEF AllShown
  <2>1. Shown(u, d) /\ notifier' = notifier
    BY <1>1, <1>6 DEF AllShown
  <2>2. CASE d = c
    <3>1. sent[u][c] = << >>
      BY <1>2, <2>1, <2>2 DEF Shown
    <3> QED BY <1>2, <1>11, <1>16, <2>1, <2>2, <3>1 DEF Shown
  <2>3. CASE d # c
    BY <1>8, <1>11, <1>16, <2>1, <2>3 DEF Shown
  <2> QED BY <2>2, <2>3
<1>18. Known' /\ Grows'
  BY <1>1, <1>6, <1>9, <1>11 DEF Known, Grows
<1> QED BY <1>12, <1>14, <1>15, <1>16, <1>17, <1>18 DEF ChannelInv

(* The steps of a round that leave the locks alone.                        *)
LEMMA RoundKeeps ==
    ASSUME ChannelInv, NEW t \in Threads, BeginRound(t) \/ CallHandler(t) \/ HandlerReturns(t),
           NEW c \in Channels, c = Top(t), Observed(c)' /\ Ahead(c)',
           observers' \in [Channels -> Seq(Handlers)],
           iter' \in [Channels -> Handlers \cup {NoHandler}]
    PROVE  ChannelInv'
<1>1. /\ TypeOK /\ Sent /\ Stacked /\ Locked /\ Known /\ AllShown /\ Grows
      /\ \A d \in Channels : Observed(d) /\ Ahead(d)
  BY DEF ChannelInv
<1>2. c \in Channels /\ stage[c] \in {"stored", "next", "handle"}
  BY <1>1, TopHeld DEF At, BeginRound, CallHandler, HandlerReturns
<1>3. /\ stage' \in [Channels -> {"free", "locked", "stored", "next", "handle"}]
      /\ stage'[c] \in {"next", "handle"} /\ \A d \in Channels \ {c} : stage'[d] = stage[d]
  BY <1>1, <1>2 DEF BeginRound, CallHandler, HandlerReturns, TypeOK
<1>4. /\ UNCHANGED <<array, timestamp, clock, notifier, writing, call, stack, subscribed, sent>>
      /\ \A d \in Channels \ {c} :
             /\ observers'[d] = observers[d] /\ current'[d] = current[d]
             /\ removeCurrent'[d] = removeCurrent[d] /\ iter'[d] = iter[d]
             /\ due'[d] = due[d] /\ seen'[d] = seen[d]
  BY <1>1 DEF BeginRound, CallHandler, HandlerReturns, NotifyBegins, HandleBegins, HandleEnds,
              TypeOK, Channels, threadVars, ghostVars
<1>5. /\ current' \in [Channels -> Handlers \cup {NoHandler}]
      /\ removeCurrent' \in [Channels -> BOOLEAN]
      /\ acted' \in [Channels -> BOOLEAN]
      /\ due' \in [Channels -> SUBSET Handlers] /\ seen' \in [Channels -> SUBSET Handlers]
  <2>1. CASE BeginRound(t)
    BY <1>1, <1>2, <2>1 DEF BeginRound, NotifyBegins, TypeOK, threadVars
  <2>2. CASE CallHandler(t)
    <3>1. iter[c] \in Handlers
      BY <1>1, <1>2, <2>2 DEF CallHandler, HandleBegins, TypeOK, Channels
    <3> QED BY <1>1, <1>2, <2>2, <3>1 DEF CallHandler, HandleBegins, TypeOK, Channels
  <2>3. CASE HandlerReturns(t)
    BY <1>1, <1>2, <2>3 DEF HandlerReturns, HandleEnds, TypeOK, Channels, threadVars, ghostVars
  <2> QED BY <2>1, <2>2, <2>3
<1>6. TypeOK'
  BY <1>1, <1>3, <1>4, <1>5 DEF TypeOK
<1>7. \A d \in Channels : Observed(d)' /\ Ahead(d)'
  <2> TAKE d \in Channels
  <2>1. CASE d = c
    BY <2>1
  <2>2. CASE d # c
    BY <1>1, <1>3, <1>4, <2>2, Elsewhere
  <2> QED BY <2>1, <2>2
<1>8. Stacked' /\ Locked'
  <2>1. \A d \in Channels : stage'[d] = "free" <=> stage[d] = "free"
    BY <1>2, <1>3
  <2> QED BY <1>1, <1>4, <2>1, LocksKept
<1>9. AllShown'
  <2>1. \A d \in Channels : stage[d] \in {"stored", "next", "handle"}
                          => stage'[d] \in {"stored", "next", "handle"}
    BY <1>2, <1>3
  <2> QED BY <1>1, <1>4, <2>1, ShownKept
<1>10. Sent' /\ Known' /\ Grows'
  BY <1>1, <1>3, <1>4 DEF Sent, Known, Grows
<1> QED BY <1>6, <1>7, <1>8, <1>9, <1>10 DEF ChannelInv

LEMMA BeginRoundKeeps ==
    ASSUME ChannelInv, NEW t \in Threads, BeginRound(t), NEW c \in Channels, c = Top(t)
    PROVE  ChannelInv'
<1>1. /\ TypeOK /\ Sent /\ Stacked /\ Locked /\ Known /\ AllShown /\ Grows
      /\ \A d \in Channels : Observed(d) /\ Ahead(d)
  BY DEF ChannelInv
<1>2. c \in Channels /\ stage[c] = "stored"
  BY <1>1, TopHeld DEF At, BeginRound
<1>3. /\ iter' = [iter EXCEPT ![c] = FirstOf(observers[c])]
      /\ UNCHANGED <<observers, current, removeCurrent, subscribed>>
      /\ stage' = [stage EXCEPT ![c] = "next"] /\ due' = [due EXCEPT ![c] = subscribed[c]]
      /\ seen' = [seen EXCEPT ![c] = {}]
  BY DEF BeginRound, NotifyBegins
<1>4. /\ stage'[c] = "next" /\ iter'[c] = FirstOf(observers[c])
      /\ due'[c] = subscribed[c] /\ seen'[c] = {}
  BY <1>1, <1>2, <1>3 DEF TypeOK, Channels
<1>5. ~removeCurrent[c] /\ IsList(observers[c], Handlers, subscribed[c])
      /\ ToSet(observers[c]) = subscribed[c]
  BY <1>1, <1>2 DEF Observed, IsList
<1>6. /\ FirstOf(observers[c]) \in subscribed[c] \cup {NoHandler}
      /\ FirstOf(observers[c]) \in Handlers \cup {NoHandler}
      /\ subscribed[c] \subseteq From(observers[c], FirstOf(observers[c]))
  BY <1>5, FirstFrom
<1>7. Observed(c)'
  BY <1>3, <1>4, <1>5, <1>6 DEF Observed, InRound
<1>8. Ahead(c)'
  BY <1>3, <1>4, <1>6 DEF Ahead
<1>9. /\ observers' \in [Channels -> Seq(Handlers)]
      /\ iter' \in [Channels -> Handlers \cup {NoHandler}]
  BY <1>1, <1>3, <1>6 DEF TypeOK
<1> QED BY <1>7, <1>8, <1>9, RoundKeeps

LEMMA CallHandlerKeeps ==
    ASSUME ChannelInv, NEW t \in Threads, CallHandler(t), NEW c \in Channels, c = Top(t)
    PROVE  ChannelInv'
<1>1. /\ TypeOK /\ Sent /\ Stacked /\ Locked /\ Known /\ AllShown /\ Grows
      /\ \A d \in Channels : Observed(d) /\ Ahead(d)
  BY DEF ChannelInv
<1>2. c \in Channels /\ stage[c] = "next"
  BY <1>1, TopHeld DEF At, CallHandler
<1>3. /\ iter[c] # NoHandler /\ current' = [current EXCEPT ![c] = iter[c]]
      /\ UNCHANGED <<observers, removeCurrent, iter, subscribed, due>>
      /\ stage' = [stage EXCEPT ![c] = "handle"]
      /\ seen' = [seen EXCEPT ![c] = @ \cup {iter[c]}]
  BY DEF CallHandler, HandleBegins
<1>4. stage'[c] = "handle" /\ current'[c] = iter[c] /\ seen'[c] = seen[c] \cup {iter[c]}
  BY <1>1, <1>2, <1>3 DEF TypeOK, Channels
<1>5. Observed(c) /\ Ahead(c) /\ ~removeCurrent[c]
  BY <1>1, <1>2 DEF Observed
<1>6. Observed(c)'
  BY <1>2, <1>3, <1>4, <1>5 DEF Observed, InRound
<1>7. Ahead(c)'
  <2>1. due[c] \ seen[c] \subseteq {iter[c]} \cup Later(observers[c], iter[c])
    BY <1>2, <1>3, <1>5 DEF Ahead, From
  <2> QED BY <1>3, <1>4, <1>5, <2>1 DEF Ahead
<1>8. /\ observers' \in [Channels -> Seq(Handlers)]
      /\ iter' \in [Channels -> Handlers \cup {NoHandler}]
  BY <1>1, <1>3 DEF TypeOK
<1> QED BY <1>6, <1>7, <1>8, RoundKeeps

LEMMA HandlerReturnsKeeps ==
    ASSUME ChannelInv, NEW t \in Threads, HandlerReturns(t), NEW c \in Channels, c = Top(t)
    PROVE  ChannelInv'
<1> DEFINE L == observers[c]
           h == iter[c]
           K == IF removeCurrent[c] THEN Erase(L, h) ELSE L
<1>1. /\ TypeOK /\ Sent /\ Stacked /\ Locked /\ Known /\ AllShown /\ Grows
      /\ \A d \in Channels : Observed(d) /\ Ahead(d)
  BY DEF ChannelInv
<1>2. c \in Channels /\ stage[c] = "handle"
  BY <1>1, TopHeld DEF At, HandlerReturns
<1>3. /\ iter' = [iter EXCEPT ![c] = After(L, h)]
      /\ removeCurrent' = [removeCurrent EXCEPT ![c] = FALSE]
      /\ observers' = [observers EXCEPT ![c] = K]
      /\ UNCHANGED <<current, subscribed, due, seen>> /\ stage' = [stage EXCEPT ![c] = "next"]
  BY DEF HandlerReturns, HandleEnds, ghostVars
<1>4. h # NoHandler /\ h \in ToSet(L)
      /\ IsList(L, Handlers, subscribed[c] \cup (IF removeCurrent[c] THEN {h} ELSE {}))
      /\ (removeCurrent[c] => h \notin subscribed[c])
      /\ due[c] \subseteq subscribed[c] /\ due[c] \ seen[c] \subseteq Later(L, h)
  BY <1>1, <1>2 DEF Observed, Ahead, InRound
<1>5. IsList(L, Handlers, ToSet(L)) /\ ToSet(L) \subseteq Handlers
  <2>1. IsList(L, Handlers, ToSet(L))
    BY <1>4 DEF IsList
  <2> QED BY <2>1, Indices
<1>6. stage'[c] = "next" /\ iter'[c] = After(L, h) /\ ~removeCurrent'[c] /\ observers'[c] = K
  BY <1>1, <1>2, <1>3 DEF TypeOK, Channels
<1>7. IsList(K, Handlers, subscribed[c])
  <2>1. CASE removeCurrent[c]
    <3>1. IsList(Erase(L, h), Handlers, (subscribed[c] \cup {h}) \ {h})
      BY <1>4, <2>1, Erased
    <3>2. (subscribed[c] \cup {h}) \ {h} = subscribed[c]
      BY <1>4, <2>1
    <3> QED BY <2>1, <3>1, <3>2
  <2>2. CASE ~removeCurrent[c]
    <3>1. subscribed[c] \cup {} = subscribed[c]
      OBVIOUS
    <3> QED BY <1>4, <2>2, <3>1
  <2> QED BY <2>1, <2>2
<1>8. /\ After(L, h) \in (ToSet(L) \ {h}) \cup {NoHandler}
      /\ Later(L, h) \subseteq From(K, After(L, h))
  BY <1>4, <1>5, NextFrom, ErasedHere
<1>9. After(L, h) # NoHandler => After(L, h) \in ToSet(K)
  <2>1. ToSet(K) = subscribed[c]
    BY <1>7 DEF IsList
  <2>2. ToSet(L) \ {h} \subseteq subscribed[c]
    BY <1>4 DEF IsList
  <2> QED BY <1>8, <2>1, <2>2
<1> HIDE DEF L, h, K
<1>10. Observed(c)'
  <2>1. subscribed'[c] \cup (IF removeCurrent'[c] THEN {iter'[c]} ELSE {}) = subscribed[c]
    BY <1>3, <1>6
  <2> QED BY <1>3, <1>6, <1>7, <1>9, <2>1 DEF Observed, InRound
<1>11. Ahead(c)'
  BY <1>3, <1>4, <1>6, <1>8 DEF Ahead
<1>12. /\ observers' \in [Channels -> Seq(Handlers)]
       /\ iter' \in [Channels -> Handlers \cup {NoHandler}]
  <2>1. K \in Seq(Handlers) /\ After(L, h) \in Handlers \cup {NoHandler}
    BY <1>5, <1>7, <1>8 DEF IsList
  <2> QED BY <1>1, <1>3, <2>1 DEF TypeOK, Channels
<1> QED BY <1>10, <1>11, <1>12, RoundKeeps

LEMMA EndRoundKeeps ==
    ASSUME ChannelInv, NEW t \in Threads, EndRound(t), NEW c \in Channels, c = Top(t)
    PROVE  ChannelInv'
<1>1. /\ TypeOK /\ Sent /\ Stacked /\ Locked /\ Known /\ AllShown /\ Grows
      /\ \A d \in Channels : Observed(d) /\ Ahead(d)
  BY DEF ChannelInv
<1>2. stack[t] # << >> /\ stage[c] = "next" /\ c \in Channels
  BY <1>1, TopHeld DEF At, EndRound
<1>3. /\ Releases(t) /\ current' = [current EXCEPT ![c] = NoHandler]
      /\ UNCHANGED <<observers, removeCurrent, iter>>
      /\ sent' = [sent EXCEPT ![t][c] = << >>]
      /\ due' = [due EXCEPT ![c] = {}] /\ seen' = [seen EXCEPT ![c] = {}]
      /\ acted' = [acted EXCEPT ![c] = FALSE]
      /\ UNCHANGED <<array, timestamp, clock, call, subscribed>>
  BY DEF EndRound, NotifyEnds
<1>4. /\ Stacked' /\ Locked'
      /\ stage' \in [Channels -> {"free", "locked", "stored", "next", "handle"}]
      /\ notifier' \in [Channels -> Threads \cup {NoThread}]
      /\ stack' \in [Threads -> Seq(Channels)] /\ writing' \in [Channels -> Calls]
      /\ stage'[c] = "free" /\ \A d \in Channels \ {c} : stage'[d] = stage[d]
      /\ \A d \in Channels \ {c} : notifier'[d] = notifier[d] /\ writing'[d] = writing[d]
  BY <1>1, <1>2, <1>3, Released
<1>5. notifier[c] = t
  BY <1>1, <1>2, TopHeld
<1>6. TypeOK'
  <2>1. /\ current' \in [Channels -> Handlers \cup {NoHandler}] /\ acted' \in [Channels -> BOOLEAN]
        /\ due' \in [Channels -> SUBSET Handlers] /\ seen' \in [Channels -> SUBSET Handlers]
    BY <1>1, <1>3 DEF TypeOK, Channels
  <2> QED BY <1>1, <1>3, <1>4, <2>1 DEF TypeOK
<1>7. \A d \in Channels : Observed(d)' /\ Ahead(d)'
  <2> TAKE d \in Channels
  <2>1. CASE d = c
    <3>1. current'[c] = NoHandler /\ due'[c] = {}
      BY <1>1, <1>2, <1>3 DEF TypeOK, Channels
    <3>2. Observed(c) /\ ~removeCurrent[c]
      BY <1>1, <1>2 DEF Observed
    <3>3. Observed(c)'
      BY <1>3, <1>4, <3>1, <3>2 DEF Observed, InRound
    <3>4. Ahead(c)'
      BY <1>4, <3>1 DEF Ahead
    <3> QED BY <2>1, <3>3, <3>4
  <2>2. CASE d # c
    <3>1. current'[d] = current[d] /\ due'[d] = due[d] /\ seen'[d] = seen[d]
      BY <1>1, <1>3, <2>2 DEF TypeOK, Channels
    <3> QED BY <1>1, <1>3, <1>4, <2>2, <3>1, Elsewhere
  <2> QED BY <2>1, <2>2
<1>8. Sent' /\ \A u \in Threads, d \in Channels :
                 sent'[u][d] = IF u = t /\ d = c THEN << >> ELSE sent[u][d]
  <2>1. << >> \in Values
    BY DEF Values
  <2> QED BY <1>1, <1>2, <1>3, <2>1 DEF Sent
<1>9. AllShown'
  <2> SUFFICES ASSUME NEW u \in Threads, NEW d \in Channels PROVE Shown(u, d)'
    BY DEF AllShown
  <2>1. Shown(u, d) /\ array' = array /\ timestamp' = timestamp
    BY <1>1, <1>3 DEF AllShown
  <2>2. CASE d = c
    <3>1. sent'[u][c] = << >>
      BY <1>2, <1>5, <1>8, <2>1, <2>2 DEF Shown
    <3> QED BY <2>2, <3>1 DEF Shown
  <2>3. CASE d # c
    BY <1>4, <1>8, <2>1, <2>3 DEF Shown
  <2> QED BY <2>2, <2>3
<1>10. Known' /\ Grows'
  BY <1>1, <1>3, <1>4 DEF Known, Grows
<1> QED BY <1>4, <1>6, <1>7, <1>8, <1>9, <1>10 DEF ChannelInv

(* A list is changed where no round is in it, or by the running handler.   *)
LEMMA ListsKeep ==
    ASSUME ChannelInv, UNCHANGED <<channelVars, call, stack, seen, sent, current, iter>>,
           NEW c \in Channels, Observed(c)' /\ Ahead(c)',
           \A d \in Channels \ {c} :
               /\ observers'[d] = observers[d] /\ removeCurrent'[d] = removeCurrent[d]
               /\ subscribed'[d] = subscribed[d] /\ due'[d] = due[d],
           observers' \in [Channels -> Seq(Handlers)], removeCurrent' \in [Channels -> BOOLEAN],
           subscribed' \in [Channels -> SUBSET Handlers], due' \in [Channels -> SUBSET Handlers],
           acted' \in [Channels -> BOOLEAN]
    PROVE  ChannelInv'
<1>1. /\ TypeOK /\ Sent /\ Stacked /\ Locked /\ Known /\ AllShown /\ Grows
      /\ \A d \in Channels : Observed(d) /\ Ahead(d)
  BY DEF ChannelInv
<1>2. UNCHANGED <<array, timestamp, clock, stage, notifier, writing, call, stack, seen, sent,
                  current, iter>>
  BY DEF channelVars
<1>3. TypeOK'
  BY <1>1, <1>2 DEF TypeOK
<1>4. \A d \in Channels : Observed(d)' /\ Ahead(d)'
  <2> TAKE d \in Channels
  <2>1. CASE d = c
    BY <2>1
  <2>2. CASE d # c
    BY <1>1, <1>2, <2>2, Elsewhere
  <2> QED BY <2>1, <2>2
<1>5. Stacked' /\ Locked' /\ AllShown'
  BY <1>1, <1>2, LocksKept, ShownKept
<1>6. Sent' /\ Known' /\ Grows'
  BY <1>1, <1>2 DEF Sent, Known, Grows
<1> QED BY <1>3, <1>4, <1>5, <1>6 DEF ChannelInv

LEMMA NotBetween ==
    ASSUME NEW t, NEW c, CanLock(t, c)
    PROVE  stage[c] # "next"
<1>1. CASE stack[t] = << >> /\ stage[c] \notin {"next", "handle"}
  BY <1>1
<1>2. CASE InHandler(t) /\ c = Last(stack[t])
  <2>1. stage[Last(stack[t])] = "handle" /\ c = Last(stack[t])
    BY <1>2 DEF InHandler
  <2> QED BY <2>1
<1>3. \/ stack[t] = << >> /\ stage[c] \notin {"next", "handle"}
      \/ InHandler(t) /\ c = Last(stack[t])
  BY DEF CanLock, Top
<1> QED BY <1>1, <1>2, <1>3

LEMMA SubscribeKeeps ==
    ASSUME ChannelInv, NEW t \in Threads, Subscribe(t)
    PROVE  ChannelInv'
<1>1. /\ TypeOK /\ \A d \in Channels : Observed(d) /\ Ahead(d)
  BY DEF ChannelInv
<1>2. acted' \in [Channels -> BOOLEAN]
  BY <1>1, Acted DEF Subscribe
<1>3. PICK c \in Channels, h \in Handlers, front \in BOOLEAN :
           /\ CanLock(t, c) /\ AddObserver(c, h, front)
           /\ subscribed' = IF IsObserver(c, h) THEN subscribed
                            ELSE [subscribed EXCEPT ![c] = subscribed[c] \cup {h}]
  BY DEF Subscribe
<1>4. UNCHANGED <<channelVars, call, stack, due, seen, sent>>
      /\ UNCHANGED <<current, removeCurrent, iter>>
  BY <1>3 DEF Subscribe, AddObserver
<1>5. CASE IsObserver(c, h)
  <2>1. UNCHANGED <<observers, subscribed>>
    BY <1>3, <1>5 DEF AddObserver
  <2>2. UNCHANGED <<observableVars, channelVars, stack, ghostVars>> /\ call' \in [Threads -> Calls]
    BY <1>1, <1>4, <2>1 DEF observableVars, ghostVars, TypeOK
  <2> QED BY <1>2, <2>2, QuietKeeps
<1>6. CASE ~IsObserver(c, h)
  <2> DEFINE L == observers[c]
             R == IF removeCurrent[c] THEN {iter[c]} ELSE {}
             K == IF front THEN <<h>> \o L ELSE Append(L, h)
  <2>1. IsList(L, Handlers, subscribed[c] \cup R) /\ ToSet(L) = subscribed[c] \cup R
    BY <1>1 DEF Observed, IsList
  <2>2. h \notin subscribed[c] \cup R
    <3>1. h \notin ToSet(L)
      BY <1>6 DEF IsObserver, Contains, ToSet
    <3> QED BY <2>1, <3>1
  <2>3. IsList(K, Handlers, (subscribed[c] \cup R) \cup {h})
    <3>1. CASE front
      BY <2>1, <2>2, <3>1, PrependTo
    <3>2. CASE ~front
      BY <2>1, <2>2, <3>2, AppendTo
    <3> QED BY <3>1, <3>2
  <2>4. /\ observers' = [observers EXCEPT ![c] = K]
        /\ subscribed' = [subscribed EXCEPT ![c] = subscribed[c] \cup {h}]
    BY <1>3, <1>6 DEF AddObserver
  <2>5. ASSUME NEW x \in ToSet(L) PROVE Later(L, x) \subseteq Later(K, x)
    <3>1. x \in subscribed[c] \cup R
      BY <2>1
    <3>2. Later(L, x) \subseteq Later(Append(L, h), x) /\ Later(L, x) \subseteq Later(<<h>> \o L, x)
      BY <2>1, <2>2, <3>1, AddedAhead
    <3> QED BY <3>2
  <2>6. ToSet(K) = (subscribed[c] \cup R) \cup {h} /\ K \in Seq(Handlers)
    BY <2>3 DEF IsList
  <2> HIDE DEF K
  <2>7. /\ observers'[c] = K /\ subscribed'[c] = subscribed[c] \cup {h}
        /\ observers' \in [Channels -> Seq(Handlers)]
        /\ subscribed' \in [Channels -> SUBSET Handlers]
        /\ \A d \in Channels \ {c} : observers'[d] = observers[d] /\ subscribed'[d] = subscribed[d]
    BY <1>1, <2>4, <2>6 DEF TypeOK
  <2>8. UNCHANGED <<stage, due, seen, current, removeCurrent, iter>>
    BY <1>4 DEF channelVars
  <2>9. Observed(c)'
    <3>1. /\ (subscribed[c] \cup R) \cup {h} = subscribed'[c] \cup R
          /\ ToSet(L) \subseteq ToSet(K)
      BY <2>1, <2>6, <2>7
    <3>2. IsList(observers'[c], Handlers, subscribed'[c] \cup (IF removeCurrent'[c] THEN {iter'[c]} ELSE {}))
      BY <2>3, <2>7, <2>8, <3>1
    <3>3. removeCurrent[c] => iter[c] \notin subscribed[c] \cup {h}
      BY <1>1, <2>2 DEF Observed
    <3>4. Observed(c)
      BY <1>1
    <3> HIDE DEF L, R
    <3>5. ToSet(observers[c]) \subseteq ToSet(observers'[c])
      BY <2>7, <3>1 DEF L
    <3> QED BY <2>7, <2>8, <3>2, <3>3, <3>4, <3>5 DEF Observed, InRound
  <2>10. Ahead(c)'
    <3>1. Ahead(c) /\ Observed(c)
      BY <1>1
    <3>2. stage[c] # "next"
      BY <1>3, NotBetween
    <3>3. stage[c] = "handle" => Later(observers[c], iter[c]) \subseteq Later(K, iter[c])
      BY <2>5, <3>1 DEF Observed, InRound
    <3> QED BY <2>7, <2>8, <3>1, <3>2, <3>3 DEF Ahead
  <2>11. removeCurrent' \in [Channels -> BOOLEAN] /\ due' \in [Channels -> SUBSET Handlers]
    BY <1>1, <1>4 DEF TypeOK
  <2>12. \A d \in Channels \ {c} : removeCurrent'[d] = removeCurrent[d] /\ due'[d] = due[d]
    BY <1>4
  <2> QED BY <1>2, <1>4, <2>7, <2>9, <2>10, <2>11, <2>12, ListsKeep
<1> QED BY <1>5, <1>6

LEMMA UnsubscribeKeeps ==
    ASSUME ChannelInv, NEW t \in Threads, Unsubscribe(t)
    PROVE  ChannelInv'
<1>1. /\ TypeOK /\ \A d \in Channels : Observed(d) /\ Ahead(d)
  BY DEF ChannelInv
<1>2. acted' \in [Channels -> BOOLEAN]
  BY <1>1, Acted DEF Unsubscribe
<1>3. PICK c \in Channels, h \in Handlers :
           /\ CanLock(t, c) /\ RemoveObserver(c, h)
           /\ subscribed' = [subscribed EXCEPT ![c] = subscribed[c] \ {h}]
           /\ due' = [due EXCEPT ![c] = due[c] \ {h}]
  BY DEF Unsubscribe
<1>4. UNCHANGED <<channelVars, call, stack, seen, sent>> /\ UNCHANGED <<current, iter>>
  BY <1>3 DEF Unsubscribe, RemoveObserver
<1>5. /\ subscribed'[c] = subscribed[c] \ {h} /\ due'[c] = due[c] \ {h}
      /\ subscribed' \in [Channels -> SUBSET Handlers] /\ due' \in [Channels -> SUBSET Handlers]
      /\ \A d \in Channels \ {c} : subscribed'[d] = subscribed[d] /\ due'[d] = due[d]
  BY <1>1, <1>3 DEF TypeOK
<1>6. Observed(c) /\ Ahead(c) /\ h # NoHandler /\ stage' = stage
  BY <1>1, <1>4, ObservableAssumption DEF channelVars
<1>7. stage[c] # "next"
  BY <1>3, NotBetween
<1> DEFINE L == observers[c]
           R == IF removeCurrent[c] THEN {iter[c]} ELSE {}
           K == Erase(L, h)
<1>8. IsList(L, Handlers, subscribed[c] \cup R) /\ ToSet(L) = subscribed[c] \cup R
  BY <1>6 DEF Observed, IsList
<1>9. CASE current[c] = h
  <2>1. /\ removeCurrent' = [removeCurrent EXCEPT ![c] = TRUE] /\ observers' = observers
    BY <1>3, <1>9 DEF RemoveObserver
  <2>2. stage[c] = "handle" /\ iter[c] = h /\ h \in ToSet(L)
    BY <1>6, <1>7, <1>9 DEF Observed, InRound
  <2>3. (subscribed[c] \ {h}) \cup {h} = subscribed[c] \cup R
    BY <1>8, <2>2
  <2>4. removeCurrent'[c] /\ removeCurrent' \in [Channels -> BOOLEAN]
        /\ \A d \in Channels \ {c} : removeCurrent'[d] = removeCurrent[d]
    BY <1>1, <2>1 DEF TypeOK
  <2>5. observers' \in [Channels -> Seq(Handlers)]
    BY <1>1, <2>1 DEF TypeOK
  <2> HIDE DEF R
  <2>6. Observed(c)'
    <3>1. IsList(observers'[c], Handlers, subscribed'[c] \cup {iter'[c]})
      BY <1>4, <1>5, <1>8, <2>1, <2>2, <2>3
    <3> QED BY <1>4, <1>5, <1>6, <1>9, <2>1, <2>2, <2>4, <3>1 DEF Observed, InRound
  <2>7. Ahead(c)'
    BY <1>4, <1>5, <1>6, <2>1, <2>2 DEF Ahead
  <2>8. \A d \in Channels \ {c} : observers'[d] = observers[d]
    BY <2>1
  <2> QED BY <1>2, <1>4, <1>5, <2>4, <2>5, <2>6, <2>7, <2>8, ListsKeep
<1>10. CASE current[c] # h
  <2>1. /\ observers' = [observers EXCEPT ![c] = K] /\ removeCurrent' = removeCurrent
    BY <1>3, <1>10 DEF RemoveObserver
  <2>2. IsList(K, Handlers, (subscribed[c] \cup R) \ {h})
    BY <1>8, Erased
  <2>3. /\ removeCurrent[c] => stage[c] = "handle" /\ iter[c] \notin subscribed[c]
        /\ stage[c] = "handle" => iter[c] # h /\ iter[c] \in ToSet(L)
    BY <1>6, <1>10 DEF Observed, InRound
  <2>4. (subscribed[c] \cup R) \ {h} = (subscribed[c] \ {h}) \cup R
    BY <2>3
  <2>5. stage[c] = "handle" => Later(L, iter[c]) \ {h} \subseteq Later(K, iter[c])
    <3>1. CASE stage[c] = "handle"
      <4>1. iter[c] \in subscribed[c] \cup R /\ h # iter[c]
        BY <1>8, <2>3, <3>1
      <4> HIDE DEF R
      <4> QED BY <1>8, <4>1, ErasedAhead
    <3> QED BY <3>1
  <2>6. K \in Seq(Handlers) /\ ToSet(K) = ToSet(L) \ {h}
    BY <1>8, <2>2 DEF IsList
  <2> HIDE DEF K
  <2>7. /\ observers'[c] = K /\ observers' \in [Channels -> Seq(Handlers)]
        /\ \A d \in Channels \ {c} : observers'[d] = observers[d]
    BY <1>1, <2>1, <2>6 DEF TypeOK
  <2>8. Observed(c)'
    <3>1. IsList(observers'[c], Handlers, subscribed'[c] \cup (IF removeCurrent'[c] THEN {iter'[c]} ELSE {}))
      BY <1>4, <1>5, <2>1, <2>2, <2>4, <2>7
    <3>2. stage[c] = "handle" => iter[c] \in ToSet(K)
      BY <2>3, <2>6
    <3> HIDE DEF L, R
    <3> QED BY <1>4, <1>5, <1>6, <1>7, <2>1, <2>3, <2>7, <3>1, <3>2 DEF Observed, InRound
  <2>9. Ahead(c)'
    BY <1>4, <1>5, <1>6, <1>7, <2>5, <2>7 DEF Ahead
  <2>10. removeCurrent' \in [Channels -> BOOLEAN]
         /\ \A d \in Channels \ {c} : removeCurrent'[d] = removeCurrent[d]
    BY <1>1, <2>1 DEF TypeOK
  <2> QED BY <1>2, <1>4, <1>5, <2>7, <2>8, <2>9, <2>10, ListsKeep
<1> QED BY <1>9, <1>10

LEMMA Steps == ChannelInv /\ [Next]_vars => ChannelInv'
<1> SUFFICES ASSUME ChannelInv, [Next]_vars PROVE ChannelInv'
  OBVIOUS
<1>1. CASE UNCHANGED vars
  <2>1. UNCHANGED <<observableVars, channelVars, stack, ghostVars>> /\ UNCHANGED <<call, acted>>
    BY <1>1 DEF vars, threadVars
  <2>2. call' \in [Threads -> Calls] /\ acted' \in [Channels -> BOOLEAN]
    BY <2>1 DEF ChannelInv, TypeOK
  <2> QED BY <2>1, <2>2, QuietKeeps
<1>2. ASSUME NEW t \in Threads, CallWrite(t) \/ CallNotify(t) \/ GiveUp(t) PROVE ChannelInv'
  BY <1>2, CallsKeep
<1>3. ASSUME NEW t \in Threads, TryLock(t) PROVE ChannelInv'
  BY <1>3, TryLockKeeps
<1>4. ASSUME NEW t \in Threads, LockToNotify(t) PROVE ChannelInv'
  BY <1>4, LockToNotifyKeeps
<1>5. ASSUME NEW t \in Threads, StoreNothing(t) \/ StoreBound(t) PROVE ChannelInv'
  BY <1>5, StoreNothingKeeps
<1>6. ASSUME NEW t \in Threads, Store(t) PROVE ChannelInv'
  BY <1>6, StoreKeeps
<1>7. ASSUME NEW t \in Threads,
             BeginRound(t) \/ CallHandler(t) \/ HandlerReturns(t) \/ EndRound(t)
      PROVE  ChannelInv'
  <2>1. stack[t] # << >> /\ Stacked
    BY <1>7 DEF ChannelInv, BeginRound, CallHandler, HandlerReturns, EndRound, At
  <2>2. Top(t) \in Channels
    BY <2>1, TopHeld
  <2>3. PICK c \in Channels : c = Top(t)
    BY <2>2
  <2> QED BY <1>7, <2>3, BeginRoundKeeps, CallHandlerKeeps, HandlerReturnsKeeps, EndRoundKeeps
<1>8. ASSUME NEW t \in Threads, Subscribe(t) \/ Unsubscribe(t) PROVE ChannelInv'
  BY <1>8, SubscribeKeeps, UnsubscribeKeeps
<1> QED BY <1>1, <1>2, <1>3, <1>4, <1>5, <1>6, <1>7, <1>8 DEF Next, Proceed

-----------------------------------------------------------------------------
(* The inductive invariant: who holds the locks, the observers and the     *)
(* place of notify_observers among them, and what is ahead of it.          *)
THEOREM Invariance == Spec => []ChannelInv
<1>1. Init => ChannelInv
  BY Starts
<1>2. ChannelInv /\ [Next]_vars => ChannelInv'
  BY Steps
<1> QED BY <1>1, <1>2, PTL DEF Spec

(* Every variable of the channels and of their threads keeps its type.     *)
THEOREM TypeCorrect == Spec => []TypeOK
<1>1. ChannelInv => TypeOK
  BY DEF ChannelInv
<1> QED BY <1>1, Invariance, PTL

(* What a thread notifies is what the channel holds until the last handler *)
(* has returned: no write passes between the store and the notification.   *)
THEOREM SeeWrite == Spec => []HandlersSeeWrite
<1>1. ChannelInv => HandlersSeeWrite
  BY DEF ChannelInv, AllShown, Shown, HandlersSeeWrite
<1> QED BY <1>1, Invariance, PTL

(* A round ends when every handler that was subscribed when it began, and  *)
(* still is, has been called.                                              *)
THEOREM AllCalled == Spec => []AllNotified
<1>1. ASSUME ChannelInv, NEW c \in Channels, stage[c] = "next", iter[c] = NoHandler
      PROVE  due[c] \subseteq seen[c]
  <2>1. Ahead(c)
    BY <1>1 DEF ChannelInv
  <2>2. due[c] \ seen[c] \subseteq From(observers[c], iter[c])
    BY <1>1, <2>1 DEF Ahead
  <2> QED BY <1>1, <2>2 DEF From
<1>2. ChannelInv => AllNotified
  BY <1>1 DEF AllNotified
<1> QED BY <1>2, Invariance, PTL

(* The list of a channel is what its callers have subscribed, and the      *)
(* iterator of a round designates an element of it.                        *)
THEOREM ListKept == Spec => []ListIsSubscribed
<1>1. ASSUME ChannelInv, NEW c \in Channels
      PROVE  /\ ToSet(observers[c]) = subscribed[c] \cup (IF removeCurrent[c] THEN {iter[c]} ELSE {})
             /\ stage[c] = "handle" => IsObserver(c, iter[c]) /\ current[c] = iter[c]
             /\ removeCurrent[c] => stage[c] = "handle" /\ iter[c] \notin subscribed[c]
  <2>1. Observed(c)
    BY <1>1 DEF ChannelInv
  <2>2. stage[c] = "handle" => iter[c] \in ToSet(observers[c]) /\ current[c] = iter[c]
    BY <2>1 DEF Observed, InRound
  <2>3. stage[c] = "handle" => IsObserver(c, iter[c])
    BY <2>2 DEF IsObserver, Contains, ToSet
  <2> QED BY <2>1, <2>2, <2>3 DEF Observed, IsList
<1>2. ChannelInv => ListIsSubscribed
  BY <1>1 DEF ListIsSubscribed
<1> QED BY <1>2, Invariance, PTL

-----------------------------------------------------------------------------
(* What StoreNothing leaves of an array: its bytes, and zeros after them   *)
(* when the write that it refused to notify was of zeros past its end.     *)
LEMMA SilentStep ==
    ASSUME ChannelInv, NEW t \in Threads, StoreNothing(t)
    PROVE  \/ UNCHANGED array
           \/ LET c == Top(t) IN
                /\ c \in Channels /\ \A d \in Channels \ {c} : array'[d] = array[d]
                /\ \A i \in DOMAIN array'[c] :
                      array'[c][i] = IF i \in DOMAIN array[c] THEN array[c][i] ELSE 0
                /\ array'[c] # array[c] => GrewFor(c, writing[c].what)
<1> DEFINE c == Top(t)
           w == writing[c].what
           g == Grown(array[c], w)
<1>1. TypeOK /\ Stacked /\ Known
  BY DEF ChannelInv
<1>2. stack[t] # << >> /\ stage[c] = "locked" /\ c \in Channels
  BY <1>1, TopHeld DEF At, StoreNothing
<1>3. w \in Writes
  BY <1>1, <1>2, CallKinds DEF Known, TypeOK
<1>4. /\ array \in [Channels -> Seq(Bytes)] /\ array[c] \in Seq(Bytes) /\ Len(array[c]) \in Nat
  BY <1>1, <1>2 DEF TypeOK
<1>5. \/ UNCHANGED array
      \/ Fits(array[c], w) /\ Written(g, w) = g /\ array' = [array EXCEPT ![c] = g]
  BY DEF StoreNothing
<1> HIDE DEF c, w
<1>6. /\ g \in Seq(Bytes)
      /\ Needed(w) <= Len(array[c]) => g = array[c]
      /\ Len(g) = IF Needed(w) <= Len(array[c]) THEN Len(array[c]) ELSE Needed(w)
      /\ \A i \in DOMAIN g : g[i] = IF i \in DOMAIN array[c] THEN array[c][i] ELSE 0
  BY <1>3, <1>4, GrownIs
<1> HIDE DEF g
<1>7. CASE Fits(array[c], w) /\ Written(g, w) = g /\ array' = [array EXCEPT ![c] = g]
  <2>1. array'[c] = g /\ \A d \in Channels \ {c} : array'[d] = array[d]
    BY <1>2, <1>4, <1>7
  <2>2. ASSUME g # array[c] PROVE GrewFor(c, w)
    <3>1. w.offset \in Nat /\ Needed(w) = w.offset + Len(w.data) /\ Needed(w) \in Nat
          /\ Len(w.data) \in Nat /\ DOMAIN w.data = 1 .. Len(w.data)
      BY <1>3, WritesAre
    <3>2. Len(array[c]) < Needed(w) /\ Len(g) = Needed(w) /\ Needed(w) <= Capacity
      BY <1>4, <1>6, <1>7, <2>2, <3>1 DEF Fits
    <3>3. ASSUME NEW i \in DOMAIN w.data PROVE g[w.offset + i] = w.data[i]
      <4>1. w.offset + i \in 1 .. Needed(w)
        BY <3>1
      <4>2. w.offset + i \in DOMAIN g
        BY <1>6, <3>1, <3>2, <4>1
      <4> QED BY <1>3, <1>6, <1>7, <4>2, WrittenIs
    <3> QED BY <2>1, <3>2, <3>3 DEF GrewFor
  <2> QED BY <1>2, <1>6, <2>1, <2>2 DEF c, w
<1> QED BY <1>5, <1>7

(* A write that is not notified keeps every byte of the array, and makes   *)
(* it longer only by the zeros that it was to write, within the capacity.  *)
THEOREM SilentKeepsBytes == Spec => SilentWriteKeepsBytes
<1> DEFINE Kept(c) ==
             /\ \A i \in DOMAIN array'[c] :
                   array'[c][i] = IF i \in DOMAIN array[c] THEN array[c][i] ELSE 0
             /\ array'[c] # array[c] => GrewFor(c, writing[c].what)
<1>1. ASSUME ChannelInv, [Next]_vars, NEW c \in Channels, Silent(c)
      PROVE  Kept(c)
  <2>1. TypeOK /\ Stacked
    BY <1>1 DEF ChannelInv
  <2>2. /\ stage \in [Channels -> {"free", "locked", "stored", "next", "handle"}]
        /\ stage[c] = "locked" /\ stage'[c] = "free"
    BY <1>1, <2>1 DEF TypeOK, Silent
  <2>3. ASSUME array'[c] = array[c] PROVE Kept(c)
    BY <2>3
  <2>4. CASE UNCHANGED vars
    BY <2>3, <2>4 DEF vars, channelVars
  <2>5. ASSUME NEW t \in Threads, StoreNothing(t) PROVE Kept(c)
    BY <1>1, <2>3, <2>5, SilentStep
  <2>6. ASSUME NEW t \in Threads,
               ~StoreNothing(t),
               \/ CallWrite(t) \/ CallNotify(t) \/ Subscribe(t) \/ Unsubscribe(t) \/ Proceed(t)
        PROVE  array'[c] = array[c]
    <3>1. CASE Store(t)
      <4>1. stack[t] # << >>
        BY <3>1 DEF Store, At
      <4>2. Top(t) \in Channels
        BY <2>1, <4>1, TopHeld
      <4>3. stage' = [stage EXCEPT ![Top(t)] = "stored"] /\ array' = [array EXCEPT ![Top(t)] = array'[Top(t)]]
        BY <2>1, <4>2, <3>1 DEF Store, TypeOK
      <4> QED BY <2>1, <2>2, <4>2, <4>3 DEF TypeOK
    <3>2. CASE ~Store(t)
      BY <2>6, <3>2 DEF CallWrite, CallNotify, Enters, Subscribe, Unsubscribe, Proceed, TryLock,
             GiveUp, StoreBound, LockToNotify, BeginRound, CallHandler, HandlerReturns, EndRound,
             channelVars
    <3> QED BY <3>1, <3>2
  <2> HIDE DEF Kept
  <2> QED BY <1>1, <2>3, <2>4, <2>5, <2>6 DEF Next
<1>2. ChannelInv /\ [Next]_vars => [\A c \in Channels : Silent(c) => Kept(c)]_vars
  <2> HIDE DEF Kept
  <2> QED BY <1>1
<1> QED BY <1>2, Invariance, PTL DEF Spec, SilentWriteKeepsBytes
=============================================================================
